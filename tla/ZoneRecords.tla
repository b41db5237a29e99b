---------------------------- MODULE ZoneRecords ----------------------------
(***************************************************************************)
(* The records and the DNSSEC keys of one DNS zone, as the record calls of *)
(* the API, the import of a zone file and EnsureZoneDNSSEC change them in   *)
(* PowerDNS.  Every call is a sequence of HTTP requests with nothing locked *)
(* between them: an import decides from the RRsets it read at its start,   *)
(* and PowerDNS refuses a change without the client noticing.              *)
(* A name is the sequence of its labels, a text the sequence of its bytes. *)
(* The service tells upper and lower case apart, PowerDNS does not: it     *)
(* keeps and answers names in lower case.                                  *)
(***************************************************************************)
EXTENDS Naturals, Sequences, FiniteSets, SequencesExt

CONSTANTS Clients,      \* callers of the API and of the DNS service
          Requests,     \* the calls they may make, see Request below
          Entries,      \* the records that requests and files name
          Zones,        \* what the zone may hold at first: [Keys -> contents]
          Domain,       \* the labels of the zone's domain, as it was stored
          Lower,        \* each label in lower case
          Keys,         \* the RRsets looked at: <<full name, type>>
          Texts,        \* what a record may say
          MaxFaults     \* bound: HTTP requests that fail

VARIABLES dotted,   \* the zone's domain was stored with its final dot
          rrsets,   \* [Keys -> sequence of contents], empty when absent
          keys,     \* sequence of DNSSEC keys [ds, live]
          call,     \* [Clients -> the call in flight]
          overlap,  \* history: clients whose call met another one
          others,   \* history: RRsets changed by others since a client looked
          given,    \* history: the DS answers given, in order
          faults

recordsVars == <<dotted, rrsets, keys, call, overlap, others, given, faults>>

(***************************************************************************)
(* Names, types and contents                                               *)
(***************************************************************************)
\* A record of the zone and its content: text, in double quotes or not.
Content(text, quoted) == [text |-> text, quoted |-> quoted]
RecordContents == [text : Texts, quoted : BOOLEAN]

Managed(type) == type \in {"SOA", "NS"}

RecordTypes == {"A", "AAAA", "CNAME", "MX", "TXT", "NS", "SRV", "ALIAS", "TLSA"}

InDomain(name) == Len(name) > Len(Domain) /\ IsSuffix(Domain, name)

BuildFullName(name) ==
    IF name = Domain \/ InDomain(name) THEN name ELSE name \o Domain

\* A name as PowerDNS knows it.
LowerCase(name) == [n \in DOMAIN name |-> Lower[name[n]]]

\* A full name ends in a dot: the suffix is found only if the domain has one.
StripDomain(name, withDot) ==
    IF withDot /\ InDomain(name)
    THEN SubSeq(name, 1, Len(name) - Len(Domain))
    ELSE name

FormatRecordContent(type, c) ==
    IF type = "TXT" /\ ~c.quoted THEN Content(c.text, TRUE) ELSE c

StripTXTQuotes(type, c) ==
    IF type = "TXT" /\ c.quoted THEN Content(c.text, FALSE) ELSE c

\* values[0][0] of a zone file entry is the first byte of its first value.
ImportedContent(e) == Content(<<Head(e.content.text)>>, FALSE)

\* PowerDNS never takes a TXT without quotes, nor for the other types a value
\* that is not complete (here: two bytes).
Accepts(type, c) == IF type = "TXT" THEN c.quoted ELSE Len(c.text) = 2

\* The RRset of an entry, as the service names it and as PowerDNS knows it.
SpelledKey(e) == <<BuildFullName(e.name), e.type>>
Key(e) == <<LowerCase(BuildFullName(e.name)), e.type>>

\* The RRset a call writes for an entry of its request.
Written(r, e) ==
    <<FormatRecordContent(e.type,
          IF r.op = "import" THEN ImportedContent(e) ELSE e.content)>>

Request ==
    [op : {"create", "update", "delete", "bulkDelete", "import", "dnssec"},
     mode : {"merge", "replace", "update"}, dry : BOOLEAN, items : Seq(Entries)]

ConstantsOK ==
    /\ Requests \subseteq Request
    /\ \A r \in Requests : /\ r.op \in {"update", "delete"} => Len(r.items) = 1
                           /\ r.dry => r.op \in {"bulkDelete", "import"}
    /\ \A e \in Entries : e.content \in RecordContents /\ Key(e) \in Keys
    /\ \A text \in Texts \ {<<>>} : <<Head(text)>> \in Texts
    /\ Zones \subseteq [Keys -> Seq(RecordContents)]
    /\ \A k \in Keys : k = <<LowerCase(k[1]), k[2]>>
    /\ MaxFaults \in Nat

ASSUME RecordsAssumption == ConstantsOK

(***************************************************************************)
(* Calls                                                                   *)
(***************************************************************************)
NoDS == 0

NoCall == [pc |-> "idle"]

NewCall(r, pc) ==
    [pc |-> pc, req |-> r, i |-> 1, seen |-> [k \in {} |-> <<>>],
     created |-> {}, skipped |-> {}, failed |-> {}, refused |-> {},
     answer |-> <<>>, ds |-> NoDS, fault |-> FALSE]

Busy(c) == call[c].pc \notin {"idle", "done"}
At(c, pc) == call[c].pc = pc
Entry(c) == call[c].req.items[call[c].i]

\* The types a request's body may name, and that it says something.  An update
\* and a deletion take the type from the path, which nothing checks; an import
\* checks its entries later.
Valid(r) ==
    /\ r.op \in {"create", "bulkDelete"} =>
          r.items # <<>> /\ \A j \in DOMAIN r.items : r.items[j].type \in RecordTypes
    /\ r.op \in {"create", "update"} =>
          \A j \in DOMAIN r.items : r.items[j].content # Content(<<>>, FALSE)

\* ParseZoneFile refuses a file without a record.
HasRecords(r) == r.items # <<>>

FirstStep(r) ==
    CASE r.op = "import" -> "look"
      [] r.op = "dnssec" -> "enable"
      [] OTHER -> "entry"

BeginRequest(c, r) ==
    /\ At(c, "idle") /\ Valid(r)
    /\ call' = [call EXCEPT ![c] = NewCall(r, FirstStep(r))]
    /\ LET busy == {d \in Clients : Busy(d)} IN
       overlap' = overlap \cup busy \cup (IF busy = {} THEN {} ELSE {c})
    /\ others' = [others EXCEPT ![c] = {}]
    /\ UNCHANGED <<dotted, rrsets, keys, given, faults>>

\* The zone after client c wrote it; whoever has looked sees it as a change.
Store(c, zone) ==
    /\ rrsets' = zone
    /\ others' = [d \in Clients |->
           IF d = c THEN others[d]
           ELSE others[d] \cup {k \in Keys : zone[k] # rrsets[k]}]

\* One HTTP request fails.
Fault ==
    /\ faults < MaxFaults
    /\ faults' = faults + 1

NextEntry(cl) ==
    IF cl.i = Len(cl.req.items)
    THEN [cl EXCEPT !.pc = "done"]
    ELSE [cl EXCEPT !.pc = "entry", !.i = @ + 1]

\* Mutant of Failed: an entry whose request failed is counted as created.
FailedAsCreated(cl) == NextEntry([cl EXCEPT !.created = @ \cup {cl.i}])

Failed(cl) == NextEntry([cl EXCEPT !.failed = @ \cup {cl.i}])
Created(cl) == NextEntry([cl EXCEPT !.created = @ \cup {cl.i}])
Skipped(cl) == NextEntry([cl EXCEPT !.skipped = @ \cup {cl.i}])

(***************************************************************************)
(* Records: create, update, delete and bulk delete                         *)
(***************************************************************************)
\* The entry's RRset was there when the import looked.
Known(c) == SpelledKey(Entry(c)) \in DOMAIN call[c].seen

Kept(c) == call[c].req.mode = "merge" /\ Known(c)

\* An entry is created rather than updated: the API's creations, and every
\* import but an update of an RRset it saw.
Creates(c) ==
    \/ call[c].req.op = "create"
    \/ call[c].req.op = "import" /\ ~(call[c].req.mode = "update" /\ Known(c))

\* Import: entries that are not written.
SkipEntry(c) ==
    /\ \/ Managed(Entry(c).type)
       \/ Kept(c) /\ Entry(c).content.text # <<>>
    /\ call' = [call EXCEPT ![c] = Skipped(@)]

EmptyEntry(c) ==
    /\ ~Managed(Entry(c).type) /\ Entry(c).content.text = <<>>
    /\ call' = [call EXCEPT ![c] = Failed(@)]

DryEntry(c) ==
    /\ call[c].req.dry
    /\ call' = [call EXCEPT ![c] = Created(@)]

ToWrite(c) ==
    \/ call[c].req.op \in {"create", "update"}
    \/ /\ call[c].req.op = "import" /\ ~Managed(Entry(c).type)
       /\ Entry(c).content.text # <<>> /\ ~Kept(c)

ReportEntry(c) ==
    /\ At(c, "entry") /\ call[c].req.op = "import"
    /\ \/ SkipEntry(c)
       \/ EmptyEntry(c)
       \/ ToWrite(c) /\ DryEntry(c)
    /\ UNCHANGED <<dotted, rrsets, keys, overlap, others, given, faults>>

\* The RRsets after a REPLACE.
Replaced(r, e) == [rrsets EXCEPT ![Key(e)] = Written(r, e)]

\* History: the entries, or the purge (0), of which PowerDNS refused the change.
Refused(cl, entries) == [cl EXCEPT !.refused = @ \cup entries]

Answer(c, cl) == IF Creates(c) THEN [cl EXCEPT !.pc = "readBack"] ELSE Created(cl)

\* CreateRecord and UpdateRecord: the whole RRset is replaced; a creation then
\* reads it back.
WriteEntry(c) ==
    /\ At(c, "entry") /\ ToWrite(c) /\ ~call[c].req.dry
    /\ Accepts(Entry(c).type, Written(call[c].req, Entry(c))[1])
    /\ Store(c, Replaced(call[c].req, Entry(c)))
    /\ call' = [call EXCEPT ![c] = Answer(c, @)]
    /\ UNCHANGED <<dotted, keys, overlap, given, faults>>

\* PowerDNS answers with a status that nobody looks at, and changes nothing: the
\* content is invalid, another record is in the way, or the server is in trouble.
WriteEntryRefused(c) ==
    /\ At(c, "entry") /\ ToWrite(c) /\ ~call[c].req.dry
    /\ call' = [call EXCEPT ![c] = Answer(c, Refused(@, {call[c].i}))]
    /\ UNCHANGED <<dotted, rrsets, keys, overlap, others, given, faults>>

\* The request fails, before or after PowerDNS has carried it out.
WriteEntryFails(c, carried) ==
    /\ At(c, "entry") /\ ToWrite(c) /\ ~call[c].req.dry
    /\ Fault
    /\ carried => Accepts(Entry(c).type, Written(call[c].req, Entry(c))[1])
    /\ Store(c, IF carried THEN Replaced(call[c].req, Entry(c)) ELSE rrsets)
    /\ call' = [call EXCEPT ![c] = [Failed(@) EXCEPT !.fault = TRUE]]
    /\ UNCHANGED <<dotted, keys, overlap, given>>

\* GetRRSet: the first record of the RRset is the answer; a name in upper case
\* is not found among those that PowerDNS answers.
ReadBack(c) ==
    /\ At(c, "readBack")
    /\ LET found == IF SpelledKey(Entry(c)) = Key(Entry(c)) THEN rrsets[Key(Entry(c))] ELSE <<>> IN
       call' = [call EXCEPT ![c] =
           IF found = <<>> THEN Failed(@)
           ELSE Created([@ EXCEPT !.answer =
                    <<StripTXTQuotes(Entry(c).type, found[1])>>])]
    /\ UNCHANGED <<dotted, rrsets, keys, overlap, others, given, faults>>

ReadBackFails(c) ==
    /\ At(c, "readBack")
    /\ Fault
    /\ call' = [call EXCEPT ![c] = [Failed(@) EXCEPT !.fault = TRUE]]
    /\ UNCHANGED <<dotted, rrsets, keys, overlap, others, given>>

Without(deleted) == [k \in Keys |-> IF k \in deleted THEN <<>> ELSE rrsets[k]]

Named(r) == {Key(r.items[j]) : j \in DOMAIN r.items}

\* DeleteRecord and BulkDeleteRecords: one request for all the RRsets.
DeleteRRSets(c) ==
    /\ At(c, "entry") /\ call[c].req.op \in {"delete", "bulkDelete"}
    /\ ~call[c].req.dry
    /\ Store(c, Without(Named(call[c].req)))
    /\ call' = [call EXCEPT ![c].pc = "done",
                            ![c].created = DOMAIN call[c].req.items]
    /\ UNCHANGED <<dotted, keys, overlap, given, faults>>

\* The refusal of the request as a whole is not noticed either.
DeleteRefused(c) ==
    /\ At(c, "entry") /\ call[c].req.op \in {"delete", "bulkDelete"}
    /\ ~call[c].req.dry
    /\ call' = [call EXCEPT ![c].pc = "done",
                            ![c].created = DOMAIN call[c].req.items,
                            ![c].refused = DOMAIN call[c].req.items]
    /\ UNCHANGED <<dotted, rrsets, keys, overlap, others, given, faults>>

\* A dry run reports success without a request.
DryDelete(c) ==
    /\ At(c, "entry") /\ call[c].req.op = "bulkDelete" /\ call[c].req.dry
    /\ call' = [call EXCEPT ![c].pc = "done",
                            ![c].created = DOMAIN call[c].req.items]
    /\ UNCHANGED <<dotted, rrsets, keys, overlap, others, given, faults>>

DeleteFails(c, carried) ==
    /\ At(c, "entry") /\ call[c].req.op \in {"delete", "bulkDelete"}
    /\ ~call[c].req.dry
    /\ Fault
    /\ Store(c, IF carried THEN Without(Named(call[c].req)) ELSE rrsets)
    /\ call' = [call EXCEPT ![c].pc = "done", ![c].fault = TRUE,
                            ![c].failed = DOMAIN call[c].req.items]
    /\ UNCHANGED <<dotted, keys, overlap, given>>

(***************************************************************************)
(* Import of a zone file                                                   *)
(***************************************************************************)
UserManageable == {k \in Keys : rrsets[k] # <<>> /\ ~Managed(k[2])}

\* The zone is read and the RRsets of the user are remembered.
Look(c) ==
    /\ At(c, "look")
    /\ LET r == call[c].req
           seen == [k \in UserManageable |-> rrsets[k]] IN
       call' = [call EXCEPT ![c].seen = seen,
                            ![c].pc =
           CASE ~HasRecords(r) -> "done"
             [] HasRecords(r) /\ r.mode = "replace" /\ ~r.dry /\ UserManageable # {} -> "purge"
             [] OTHER -> "entry"]
    /\ others' = [others EXCEPT ![c] = {}]
    /\ UNCHANGED <<dotted, rrsets, keys, overlap, given, faults>>

LookFails(c) ==
    /\ At(c, "look")
    /\ Fault
    /\ call' = [call EXCEPT ![c].pc = "done", ![c].fault = TRUE]
    /\ UNCHANGED <<dotted, rrsets, keys, overlap, others, given>>

\* Mutant of Purged: the stripped names are taken for full ones.
PurgedAsStripped(c) == {<<StripDomain(k[1], dotted), k[2]>> : k \in DOMAIN call[c].seen}

\* Replace mode: the RRsets seen are deleted by the names BulkDeleteRecords
\* builds from the stripped ones.
Purged(c) ==
    {<<LowerCase(BuildFullName(StripDomain(k[1], dotted))), k[2]>> : k \in DOMAIN call[c].seen}

Purge(c) ==
    /\ At(c, "purge")
    /\ Store(c, Without(Purged(c)))
    /\ call' = [call EXCEPT ![c].pc = "entry"]
    /\ UNCHANGED <<dotted, keys, overlap, given, faults>>

PurgeRefused(c) ==
    /\ At(c, "purge")
    /\ call' = [call EXCEPT ![c].pc = "entry", ![c].refused = {0}]
    /\ UNCHANGED <<dotted, rrsets, keys, overlap, others, given, faults>>

\* The error of the bulk deletion is dropped: the import goes on.
PurgeFails(c, carried) ==
    /\ At(c, "purge")
    /\ Fault
    /\ Store(c, IF carried THEN Without(Purged(c)) ELSE rrsets)
    /\ call' = [call EXCEPT ![c].pc = "entry", ![c].fault = TRUE]
    /\ UNCHANGED <<dotted, keys, overlap, given>>

(***************************************************************************)
(* DNSSEC                                                                  *)
(***************************************************************************)
\* The DS of the first live key that has one, else of the first key.
FirstDSRecord(ks) ==
    LET withDS == {i \in DOMAIN ks : ks[i].ds # NoDS}
        live == {i \in withDS : ks[i].live}
    IN  CASE live # {} -> ks[Min(live)].ds
          [] live = {} /\ withDS # {} -> ks[Min(withDS)].ds
          [] OTHER -> NoDS

\* PowerDNS: the key a request adds; its DS may come later.
NewKey == [ds |-> Len(keys) + 1, live |-> TRUE]

Answered(c, ds) ==
    /\ call' = [call EXCEPT ![c].pc = "done", ![c].ds = ds]
    /\ given' = IF ds = NoDS THEN given
                ELSE Append(given, [ds |-> ds, alone |-> c \notin overlap])

\* EnableDNSSEC turns signing on; PowerDNS may make a key for it.
EnableDNSSEC(c) ==
    /\ At(c, "enable")
    /\ keys' \in {keys} \cup
          (IF keys = <<>> THEN {<<NewKey>>} ELSE {})
    /\ call' = [call EXCEPT ![c].pc = "getKeys"]
    /\ UNCHANGED <<dotted, rrsets, overlap, others, given, faults>>

\* Mutant of GetCryptokeys: the keys there are do not count.
GetNoCryptokeys(c) ==
    /\ At(c, "getKeys")
    /\ call' = [call EXCEPT ![c].pc = "createKey"]
    /\ UNCHANGED <<dotted, rrsets, keys, overlap, others, given, faults>>

GetCryptokeys(c) ==
    /\ At(c, "getKeys")
    /\ IF FirstDSRecord(keys) # NoDS
       THEN Answered(c, FirstDSRecord(keys))
       ELSE call' = [call EXCEPT ![c].pc = "createKey"] /\ UNCHANGED given
    /\ UNCHANGED <<dotted, rrsets, keys, overlap, others, faults>>

\* The answer holds the DS of the new key, or the keys are read once more.
CreateCryptokey(c, ready) ==
    /\ At(c, "createKey")
    /\ keys' = Append(keys, NewKey)
    /\ IF ready
       THEN Answered(c, NewKey.ds)
       ELSE call' = [call EXCEPT ![c].pc = "getAgain"] /\ UNCHANGED given
    /\ UNCHANGED <<dotted, rrsets, overlap, others, faults>>

GetAgain(c) ==
    /\ At(c, "getAgain")
    /\ Answered(c, FirstDSRecord(keys))
    /\ UNCHANGED <<dotted, rrsets, keys, overlap, others, faults>>

DNSSECFails(c) ==
    /\ call[c].pc \in {"enable", "getKeys", "createKey", "getAgain"}
    /\ Fault
    /\ keys' \in {keys} \cup
          (IF At(c, "createKey") THEN {Append(keys, NewKey)} ELSE {})
    /\ call' = [call EXCEPT ![c].pc = "done", ![c].fault = TRUE]
    /\ UNCHANGED <<dotted, rrsets, overlap, others, given>>

(***************************************************************************)
(* The specification                                                       *)
(***************************************************************************)
RecordsInit ==
    /\ dotted \in BOOLEAN
    /\ rrsets \in Zones
    /\ keys \in {<<>>, <<[ds |-> NoDS, live |-> FALSE]>>,
                 <<[ds |-> 1, live |-> FALSE], [ds |-> 2, live |-> TRUE]>>}
    /\ call = [c \in Clients |-> NoCall]
    /\ overlap = {} /\ given = <<>> /\ faults = 0
    /\ others = [c \in Clients |-> {}]

RecordsNext ==
    \E c \in Clients :
        \/ \E r \in Requests : BeginRequest(c, r)
        \/ ReportEntry(c)
        \/ WriteEntry(c)
        \/ WriteEntryRefused(c)
        \/ \E carried \in BOOLEAN : WriteEntryFails(c, carried)
        \/ ReadBack(c)
        \/ ReadBackFails(c)
        \/ DeleteRRSets(c)
        \/ DeleteRefused(c)
        \/ DryDelete(c)
        \/ \E carried \in BOOLEAN : DeleteFails(c, carried)
        \/ Look(c)
        \/ LookFails(c)
        \/ Purge(c)
        \/ PurgeRefused(c)
        \/ \E carried \in BOOLEAN : PurgeFails(c, carried)
        \/ EnableDNSSEC(c)
        \/ GetCryptokeys(c)
        \/ \E ready \in BOOLEAN : CreateCryptokey(c, ready)
        \/ GetAgain(c)
        \/ DNSSECFails(c)

RecordsSpec == RecordsInit /\ [][RecordsNext]_recordsVars

IsCall(cl) ==
    /\ cl \in [pc : {"look", "purge", "entry", "readBack",
                     "enable", "getKeys", "createKey", "getAgain", "done"},
               req : Requests, i : Nat, seen : {cl.seen},
               created : SUBSET Nat, skipped : SUBSET Nat, failed : SUBSET Nat,
               refused : SUBSET Nat, answer : Seq(RecordContents), ds : Nat, fault : BOOLEAN]
    /\ \E S \in SUBSET Keys : cl.seen \in [S -> Seq(RecordContents)]

RecordsTypeOK ==
    /\ dotted \in BOOLEAN
    /\ rrsets \in [Keys -> Seq(RecordContents)]
    /\ keys \in Seq([ds : Nat, live : BOOLEAN])
    /\ DOMAIN call = Clients
    /\ \A c \in Clients : call[c] = NoCall \/ IsCall(call[c])
    /\ overlap \subseteq Clients
    /\ others \in [Clients -> SUBSET Keys]
    /\ given \in Seq([ds : Nat, alone : BOOLEAN])
    /\ faults \in 0 .. MaxFaults

(***************************************************************************)
(* Properties                                                              *)
(***************************************************************************)
Importing(c, mode) == ~At(c, "idle") /\ call[c].req.op = "import" /\ call[c].req.mode = mode

\* The entries of a call that PowerDNS took, or may take, for the RRset k, and
\* whether the j-th is the last of them; an import passes over empty entries.
Taken(cl, k) ==
    {j \in DOMAIN cl.req.items :
        /\ Key(cl.req.items[j]) = k /\ j \notin cl.refused
        /\ cl.req.op = "import" => cl.req.items[j].content.text # <<>>}

LastTaken(cl, j) ==
    LET taken == Taken(cl, Key(cl.req.items[j]))
    IN j \in taken /\ \A m \in taken : m <= j

\* The RRsets that a request names with letters other than PowerDNS's.
Misspelled(r) == {Key(r.items[j]) : j \in {n \in DOMAIN r.items : SpelledKey(r.items[n]) # Key(r.items[n])}}

\* A name is the same after it was stripped of the domain and completed again.
\* It is not when it holds the domain twice, nor when the stored domain has
\* letters in upper case.
Recovered(k, withDot) == LowerCase(BuildFullName(StripDomain(k[1], withDot))) = k[1]

\* ImportZoneFile does what its mode says (dns_service_record.go:373-521).
\* Merge: an RRset the import found is still what it found, with the domain or
\* without, unless another client has changed it or the file names it in other
\* letters than PowerDNS, which the import takes for another name.  Replace:
\* when no request failed and PowerDNS did not refuse the deletion, the RRsets
\* of the user that nobody else has changed are those of the file, each with
\* the last entry that PowerDNS took, and nothing that was there before except
\* RRsets whose name is not the same after stripping and completing it
\* (dns_helpers.go:40-67): these the import does not delete.
ImportHonoursMode ==
    \A c \in Clients :
        LET cl == call[c]
            r == cl.req
        IN
        /\ Importing(c, "merge") =>
              \A k \in DOMAIN cl.seen \ (others[c] \cup Misspelled(r)) : rrsets[k] = cl.seen[k]
        /\ /\ Importing(c, "replace") /\ At(c, "done") /\ ~cl.fault /\ 0 \notin cl.refused
           /\ ~r.dry /\ r.items # <<>>
           => \A k \in Keys \ others[c] : ~Managed(k[2]) =>
                  /\ Taken(cl, k) = {} /\ (k \in DOMAIN cl.seen => Recovered(k, dotted)) => rrsets[k] = <<>>
                  /\ \A j \in Taken(cl, k) : LastTaken(cl, j) => rrsets[k] = Written(r, r.items[j])

\* What a finished call reports as created, updated or deleted is what the zone
\* holds, unless PowerDNS refused it, the status of which nobody looks at
\* (powerdns_client.go:147-166), a later entry of the same request names the
\* same RRset, or another client has changed it; and the record a creation
\* answers is the one it was given, a text without its quotes.  A creation that
\* was refused is reported only where the RRset was there before, since it is
\* read back (dns_service_record.go:132-150).
ReportedIsThere ==
    \A c \in Clients : At(c, "done") /\ ~call[c].req.dry =>
        LET cl == call[c]
            r == cl.req
        IN
        \A j \in cl.created :
            LET e == r.items[j] IN
            Key(e) \notin others[c] =>
                IF r.op \in {"delete", "bulkDelete"} THEN j \notin cl.refused => rrsets[Key(e)] = <<>>
                ELSE /\ LastTaken(cl, j) =>
                           /\ rrsets[Key(e)] = Written(r, e)
                           /\ r.op = "create" /\ (\A m \in cl.created : m <= j) =>
                                  cl.answer[1] = IF e.type = "TXT" THEN Content(e.content.text, FALSE) ELSE e.content
                     /\ r.op = "create" => rrsets[Key(e)] # <<>>

\* EnsureDNSSECAndGetDS: the DS a call that met no other one has answered, which
\* the owner of the name publishes, is the DS every later call answers.
DsIsStable ==
    \A i, j \in DOMAIN given : i < j /\ given[i].alone => given[j].ds = given[i].ds
=============================================================================
