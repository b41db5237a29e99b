---------------------------- MODULE DnsZonesProofs ----------------------------
(***************************************************************************)
(* Proofs about the zones of DnsZones and, second, about the records and   *)
(* DNSSEC keys of one zone in ZoneRecords.                                 *)
(*                                                                         *)
(* For any names and spellings of them, users, contents, callers and       *)
(* number of calls: rows keep their owners, however creations,             *)
(* restorations, deletions and saves of whole rows interleave, and         *)
(* PowerDNS and the rows agree about which names have a zone.  For any     *)
(* requests, entries, zones and clients: imports keep to their mode,       *)
(* reports are true, and the DS answered is stable.                        *)
(***************************************************************************)
EXTENDS DnsZones, ZoneRecords, FiniteSetTheorems, TLAPS

\* A call under way names its domain, operation and user.
NamesZone(a) ==
    calls[a].pc # "idle" =>
        Z(a) \in Domains /\ calls[a].op \in Ops /\ calls[a].user \in Users

\* CreateZone has checked the owner once; what it found still holds when it
\* restores the zone, and when it returns it.
CheckedOwner(a) ==
    calls[a].pc \in {"recreate", "restore", "undo"} \/ (calls[a].pc = "ok" /\ calls[a].op = "create") =>
        Exists(Z(a)) /\ zone[Z(a)].owner = calls[a].user

\* A row that was read earlier, and may be saved whole, has the owner of the
\* row there is now.
CopyOwner(a) ==
    calls[a].pc \in {"remove", "row", "lookup", "save", "column", "patch"} =>
        /\ calls[a].op # "create"
        /\ Exists(Z(a))
        /\ calls[a].copy \in ZoneRow
        /\ calls[a].copy.owner = zone[Z(a)].owner

CallInv(a) == NamesZone(a) /\ CheckedOwner(a) /\ CopyOwner(a)

Inv == TypeOK /\ \A a \in Callers : CallInv(a)

\* Which operation a call is at, by its place in the code, and that the row a
\* call has read was alive.
PlaceOfCall(a) ==
    /\ calls[a].pc \in {"create", "insert", "duplicate", "recreate", "restore", "undo"} =>
          calls[a].op = "create"
    /\ calls[a].pc \in {"remove", "row"} => calls[a].op = "delete"
    /\ calls[a].pc \in {"lookup", "save", "column"} =>
          calls[a].op \in {"validate", "janitor", "update"} /\ calls[a].copy.state = "live"

\* What a call may rely on at its place: a row that was missing is not deleted,
\* one that was read is still alive, a zone that the call has created in (or
\* deleted from) PowerDNS is still there (or gone).
Expect(a, z) ==
    /\ calls[a].pc \in {"create", "insert"} => zone[z].state # "deleted"
    /\ calls[a].pc \in {"insert", "restore"} => Canonical[z] \in pdns
    /\ calls[a].pc \in {"lookup", "save", "column", "remove", "row"} => zone[z].state = "live"
    /\ calls[a].pc = "row" => Canonical[z] \notin pdns
    /\ calls[a].pc # "undo"

\* A deletion is the only call that works on the rows of its name.
Alone(a, z) ==
    calls[a].op = "delete" =>
        \A b \in Callers \ {a} : Z(b) \in Spellings(Canonical[z]) => calls[b].op \notin RowOps

\* PowerDNS and the rows differ only while a call is between the two.
Agrees(n) ==
    /\ \A z \in Spellings(n) : zone[z].state = "live" /\ n \notin pdns =>
          \E a \in Callers : Z(a) = z /\ calls[a].pc = "row"
    /\ n \in pdns /\ (\A z \in Spellings(n) : zone[z].state # "live") =>
          \E a \in Callers : Z(a) \in Spellings(n) /\ calls[a].pc \in {"insert", "restore"}

Undisturbed(n) ==
    excuse[n] = {} =>
        Agrees(n) /\ \A a \in Callers, z \in Spellings(n) : Z(a) = z => Expect(a, z) /\ Alone(a, z)

AgreeInv == (\A n \in Names : Undisturbed(n)) /\ \A a \in Callers : PlaceOfCall(a)
-----------------------------------------------------------------------------
(* The initial states satisfy the invariant: there are no rows and no calls *)
(* in flight.                                                               *)
LEMMA InitInv == Init => Inv
  BY ZonesAssumption
  DEF Init, Inv, TypeOK, CallInv, NamesZone, CheckedOwner, CopyOwner, NoRow, IdleCall, Call, Pcs

(* A step of one caller that keeps the rows does not disturb what the other *)
(* calls of the service have checked or read.                               *)
LEMMA OneCaller ==
  ASSUME Inv, NEW a \in Callers, TypeOK', RowsKept, CallInv(a)',
         \A b \in Callers \ {a} : calls'[b] = calls[b]
  PROVE  Inv'
<1> SUFFICES ASSUME NEW b \in Callers PROVE CallInv(b)'
  BY DEF Inv
<1>1. CASE b = a
  BY <1>1
<1>2. CASE b # a
  <2>1. calls'[b] = calls[b] /\ CallInv(b)
    BY <1>2 DEF Inv
  <2>2. calls[b].pc # "idle" => Z(b) \in Domains
    BY <2>1 DEF CallInv, NamesZone
  <2>3. calls[b].pc # "idle" /\ Exists(Z(b)) =>
          Exists(Z(b))' /\ zone'[Z(b)].owner = zone[Z(b)].owner
    BY <2>1, <2>2 DEF RowsKept, Exists, Z
  <2> QED
    BY <2>1, <2>2, <2>3 DEF CallInv, NamesZone, CheckedOwner, CopyOwner, Exists, Z
<1> QED
  BY <1>1, <1>2

(* A step that leaves the rows alone keeps them.                            *)
LEMMA NoWrite == UNCHANGED zone => RowsKept
  BY DEF RowsKept, Exists

(* A call that fails or returns leaves nothing to be checked (the error and *)
(* success returns of every function of the service).                       *)
LEMMA FailCall ==
  ASSUME Inv, NEW a \in Callers, Fail(a)
  PROVE  /\ calls' \in [Callers -> Call]
         /\ CallInv(a)'
         /\ \A b \in Callers \ {a} : calls'[b] = calls[b]
  BY DEF Inv, TypeOK, Fail, IdleCall, Call, Pcs, NoRow, CallInv, NamesZone, CheckedOwner, CopyOwner

(* A call that goes on keeps its fields (the straight-line code between two *)
(* requests or transactions).                                               *)
LEMMA GotoCall ==
  ASSUME Inv, NEW a \in Callers, NEW pc \in Pcs, Goto(a, pc)
  PROVE  /\ calls' \in [Callers -> Call]
         /\ calls'[a] = [calls[a] EXCEPT !.pc = pc]
         /\ Z(a)' = Z(a)
         /\ calls'[a].pc = pc /\ calls'[a].op = calls[a].op
         /\ calls'[a].user = calls[a].user /\ calls'[a].copy = calls[a].copy
         /\ \A b \in Callers \ {a} : calls'[b] = calls[b]
<1>1. calls \in [Callers -> Call] /\ calls[a] \in Call
  BY DEF Inv, TypeOK
<1> DEFINE new == [calls[a] EXCEPT !.pc = pc]
<1>2. /\ new \in Call
      /\ new.pc = pc /\ new.op = calls[a].op /\ new.zone = calls[a].zone
      /\ new.user = calls[a].user /\ new.copy = calls[a].copy
  BY <1>1 DEF Call
<1>3. calls' = [calls EXCEPT ![a] = new]
  BY <1>1 DEF Goto
<1> QED
  BY <1>1, <1>2, <1>3 DEF Z

(* What the invariant says of one call under way: the domain of its zone,   *)
(* the types of its row and of its fields.                                  *)
LEMMA CallFacts ==
  ASSUME Inv, NEW a \in Callers
  PROVE  /\ calls[a] \in Call /\ calls \in [Callers -> Call]
         /\ calls[a].pc # "idle" =>
              /\ Z(a) \in Domains /\ calls[a].op \in Ops /\ calls[a].user \in Users
              /\ P(a) = Canonical[Z(a)] /\ P(a) \in Names
              /\ zone[Z(a)] \in ZoneRow \union {NoRow}
              /\ Exists(Z(a)) <=> zone[Z(a)] \in ZoneRow
         /\ CheckedOwner(a) /\ CopyOwner(a)
<1>1. TypeOK /\ CallInv(a)
  BY DEF Inv
<1>2. \A r \in ZoneRow \union {NoRow} : r.state # "none" <=> r \in ZoneRow
  BY DEF ZoneRow, NoRow
<1>3. \A z \in Domains : zone[z] \in ZoneRow \union {NoRow}
  BY <1>1 DEF TypeOK
<1> QED
  BY <1>1, <1>2, <1>3, ZonesAssumption DEF TypeOK, CallInv, NamesZone, Exists, P

(* The calls that end without having written the row: failed reads, failed  *)
(* requests to PowerDNS and failed transactions.                            *)
LEMMA FailInv ==
  ASSUME Inv, NEW a \in Callers,
         \/ ReadFails(a) \/ Return(a) \/ CreatePowerDNSFails(a) \/ InsertFails(a)
         \/ UndoRestore(a) \/ DeleteRowFails(a) \/ SaveFails(a) \/ UpdateZoneRRSetsFails(a)
  PROVE  Inv' /\ RowsKept
<1>1. Fail(a) /\ UNCHANGED <<zone, ncalls>> /\ calls[a].pc # "idle"
  BY DEF ReadFails, Return, CreatePowerDNSFails, InsertFails, UndoRestore, DeleteRowFails,
         SaveFails, UpdateZoneRRSetsFails
<1>2. P(a) \in Names /\ calls[a] \in Call
  BY <1>1, CallFacts
<1>3. /\ pdns' \subseteq Names
      /\ record' \in [Names -> Contents \union {None}]
      /\ excuse' \in [Names -> SUBSET {"Failed", "Race", "Shared"}]
  BY <1>2 DEF Inv, TypeOK, Call, ReadFails, Return, CreatePowerDNSFails, InsertFails, UndoRestore,
         DeleteRowFails, SaveFails, UpdateZoneRRSetsFails, RemoveFromPowerDNS, Blame
<1>4. TypeOK'
  BY <1>1, <1>3, FailCall DEF Inv, TypeOK
<1> QED
  BY <1>1, <1>4, FailCall, NoWrite, OneCaller

(* A call begins with nothing checked and nothing read.                     *)
LEMMA BeginInv ==
  ASSUME Inv, NEW a \in Callers, NEW z \in Domains, NEW u \in Users, NEW op \in Ops,
         NEW c \in Contents \union {None}, Begin(a, op, z, u, c)
  PROVE  Inv' /\ RowsKept
<1> DEFINE new == [pc |-> "get", op |-> op, zone |-> z, user |-> u, copy |-> NoRow,
                   valid |-> op = "update", content |-> c]
<1>1. new \in Call
  BY DEF Call, Pcs
<1>2. calls' = [calls EXCEPT ![a] = new] /\ calls \in [Callers -> Call]
  BY DEF Begin, Inv, TypeOK
<1>3. Overlaps(z, op) \subseteq {"Failed", "Race"}
  BY DEF Overlaps
<1>4. excuse' \in [Names -> SUBSET {"Failed", "Race", "Shared"}]
  BY <1>3 DEF Begin, Inv, TypeOK
<1>5. ncalls' \in 0 .. MaxCalls
  BY ZonesAssumption DEF Begin, Inv, TypeOK
<1>6. TypeOK'
  BY <1>1, <1>2, <1>4, <1>5 DEF Begin, Inv, TypeOK
<1>7. CallInv(a)'
  BY <1>2 DEF CallInv, NamesZone, CheckedOwner, CopyOwner, Z
<1> QED
  BY <1>2, <1>6, <1>7, NoWrite, OneCaller DEF Begin

(* The row that a call has read is the row there is (GetZone and the switch *)
(* on what to do with it).                                                  *)
LEMMA GetInv ==
  ASSUME Inv, NEW a \in Callers, Get(a)
  PROVE  Inv' /\ RowsKept
<1>1. CASE ~GetZone(Z(a))
  <2>1. Fail(a) /\ UNCHANGED <<zone, pdns, record, ncalls, excuse>>
    BY <1>1 DEF Get
  <2> QED
    BY <2>1, FailCall, NoWrite, OneCaller DEF Inv, TypeOK
<1>2. CASE GetZone(Z(a))
  <2> DEFINE new == [calls[a] EXCEPT !.pc = AfterGet(calls[a].op), !.copy = zone[Z(a)]]
  <2>1. /\ Z(a) \in Domains /\ calls[a].op \in Ops \ {"create"} /\ calls[a].user \in Users
        /\ calls[a] \in Call /\ Exists(Z(a)) /\ zone[Z(a)] \in ZoneRow
    BY <1>2, CallFacts DEF Get, GetZone, Exists
  <2>2. AfterGet(calls[a].op) \in {"remove", "lookup", "save", "patch"}
    BY <2>1 DEF AfterGet, Ops
  <2>3. /\ new \in Call
        /\ new.pc = AfterGet(calls[a].op) /\ new.copy = zone[Z(a)]
        /\ new.op = calls[a].op /\ new.zone = Z(a) /\ new.user = calls[a].user
    BY <2>1, <2>2 DEF Call, Pcs, Z
  <2>4. calls' = [calls EXCEPT ![a] = new] /\ calls \in [Callers -> Call]
    BY <1>2 DEF Get, Inv, TypeOK
  <2>5. TypeOK' /\ UNCHANGED zone
    BY <2>3, <2>4 DEF Get, Inv, TypeOK
  <2>6. CallInv(a)'
    BY <2>1, <2>2, <2>3, <2>4, <2>5 DEF CallInv, NamesZone, CheckedOwner, CopyOwner, Exists, Z
  <2> QED
    BY <2>4, <2>5, <2>6, NoWrite, OneCaller
<1> QED
  BY <1>1, <1>2

(* CreateZone takes an existing row only after the owner check, on its      *)
(* first look and after a duplicate key.                                    *)
LEMMA TakeInv ==
  ASSUME Inv, NEW a \in Callers, TakeExisting(a), calls[a].pc # "idle",
         UNCHANGED <<zone, pdns, record, ncalls, excuse>>
  PROVE  Inv' /\ RowsKept
<1>1. CASE zone[Z(a)].owner # calls[a].user
  BY <1>1, FailCall, NoWrite, OneCaller DEF TakeExisting, Inv, TypeOK
<1>2. CASE zone[Z(a)].owner = calls[a].user
  <2> DEFINE pc == IF zone[Z(a)].state = "live" THEN "ok" ELSE "recreate"
  <2>1. Goto(a, pc) /\ pc \in Pcs /\ pc \in {"ok", "recreate"}
    BY <1>2 DEF TakeExisting, Pcs
  <2> HIDE DEF pc
  <2>2. Exists(Z(a)) /\ Z(a) \in Domains
    BY <1>2, CallFacts, ZonesAssumption DEF NoRow
  <2>3. CallInv(a)'
    BY <1>2, <2>1, <2>2, GotoCall, CallFacts
    DEF CallInv, NamesZone, CheckedOwner, CopyOwner, Exists, Z
  <2> QED
    BY <2>1, <2>3, GotoCall, NoWrite, OneCaller DEF Inv, TypeOK
<1> QED
  BY <1>1, <1>2

(* The first steps of CreateZone: the look-up, the request to PowerDNS and  *)
(* the insertion, which makes the caller the owner of a row that was not    *)
(* there.                                                                   *)
LEMMA CreateInv ==
  ASSUME Inv, NEW a \in Callers,
         CreateZone(a) \/ CreatePowerDNSZone(a) \/ InsertRow(a) \/ TakeDuplicate(a)
  PROVE  Inv' /\ RowsKept
<1>1. CASE CreateZone(a)
  <2>1. CASE GetZoneByDomain(Z(a))
    BY <1>1, <2>1, TakeInv DEF CreateZone
  <2>2. CASE ~GetZoneByDomain(Z(a))
    <3>1. Goto(a, "create") /\ "create" \in Pcs /\ calls[a].pc # "idle"
          /\ UNCHANGED <<zone, pdns, record, ncalls, excuse>>
      BY <1>1, <2>2 DEF CreateZone, Pcs
    <3>2. CallInv(a)'
      BY <3>1, GotoCall, CallFacts DEF CallInv, NamesZone, CheckedOwner, CopyOwner, Z
    <3> QED
      BY <3>1, <3>2, GotoCall, NoWrite, OneCaller DEF Inv, TypeOK
  <2> QED
    BY <2>1, <2>2
<1>2. CASE CreatePowerDNSZone(a)
  <2> DEFINE pc == IF calls[a].pc = "create" THEN "insert" ELSE "restore"
  <2>1. /\ Goto(a, pc) /\ pc \in Pcs /\ pc \in {"insert", "restore"}
        /\ pc = "restore" => calls[a].pc = "recreate"
        /\ calls[a].pc # "idle" /\ UNCHANGED zone
    BY <1>2 DEF CreatePowerDNSZone, Pcs
  <2> HIDE DEF pc
  <2>2. CallInv(a)'
    BY <2>1, GotoCall, CallFacts DEF CallInv, NamesZone, CheckedOwner, CopyOwner, Exists, Z
  <2>3. TypeOK'
    BY <1>2, <2>1, GotoCall, CallFacts DEF CreatePowerDNSZone, Inv, TypeOK
  <2> QED
    BY <2>1, <2>2, <2>3, GotoCall, NoWrite, OneCaller
<1>3. CASE InsertRow(a) /\ GetZoneByDomain(Z(a))
  <2>1. Goto(a, "duplicate") /\ "duplicate" \in Pcs /\ calls[a].pc # "idle"
        /\ UNCHANGED <<zone, pdns, record, ncalls, excuse>>
    BY <1>3 DEF InsertRow, Pcs
  <2>2. CallInv(a)'
    BY <2>1, GotoCall, CallFacts DEF CallInv, NamesZone, CheckedOwner, CopyOwner, Z
  <2> QED
    BY <2>1, <2>2, GotoCall, NoWrite, OneCaller DEF Inv, TypeOK
<1>4. CASE InsertRow(a) /\ ~GetZoneByDomain(Z(a))
  <2>1. /\ Goto(a, "ok") /\ "ok" \in Pcs /\ calls[a].pc # "idle"
        /\ zone' = [zone EXCEPT ![Z(a)] = NewRow(calls[a].user)]
    BY <1>4 DEF InsertRow, Pcs
  <2>2. /\ Z(a) \in Domains
        /\ NewRow(calls[a].user) \in ZoneRow /\ NewRow(calls[a].user).owner = calls[a].user
        /\ NewRow(calls[a].user).state # "none"
    BY <2>1, CallFacts DEF NewRow, ZoneRow
  <2>3. TypeOK'
    BY <1>4, <2>1, <2>2, GotoCall DEF InsertRow, Inv, TypeOK
  <2>4. RowsKept
    BY <1>4, <2>1, <2>2 DEF RowsKept, Exists, GetZoneByDomain, Inv, TypeOK
  <2>5. CallInv(a)'
    BY <2>1, <2>2, GotoCall, CallFacts
    DEF CallInv, NamesZone, CheckedOwner, CopyOwner, Exists, Z, Inv, TypeOK
  <2> QED
    BY <2>1, <2>3, <2>4, <2>5, GotoCall, OneCaller
<1>5. CASE TakeDuplicate(a)
  BY <1>5, TakeInv DEF TakeDuplicate
<1> QED
  BY <1>1, <1>2, <1>3, <1>4, <1>5

(* A write that changes the row a call has read or checked, and leaves its  *)
(* owner: restoreSoftDeletedZone, the deletion of the row, the janitor's    *)
(* columns.                                                                 *)
LEMMA WriteInv ==
  ASSUME Inv, NEW a \in Callers, NEW pc \in Pcs, Goto(a, pc), calls[a].pc # "idle",
         NEW row \in ZoneRow, row.owner = zone[Z(a)].owner,
         zone' = [zone EXCEPT ![Z(a)] = row],
         calls[a].op = "create" => row.owner = calls[a].user,
         pc \in {"ok", "column"},
         pc = "column" => calls[a].op # "create" /\ calls[a].copy \in ZoneRow
                          /\ calls[a].copy.owner = row.owner,
         UNCHANGED <<pdns, record, ncalls, excuse>>
  PROVE  Inv' /\ RowsKept
<1>1. Z(a) \in Domains /\ zone \in [Domains -> ZoneRow \union {NoRow}] /\ row.state # "none"
  BY CallFacts DEF Inv, TypeOK, ZoneRow
<1>2. TypeOK'
  BY <1>1, GotoCall DEF Inv, TypeOK
<1>3. RowsKept
  BY <1>1 DEF RowsKept, Exists
<1>4. CallInv(a)'
  BY <1>1, GotoCall, CallFacts DEF CallInv, NamesZone, CheckedOwner, CopyOwner, Exists, Z
<1> QED
  BY <1>2, <1>3, <1>4, GotoCall, OneCaller

(* The rest of CreateZone: a deleted row comes back with the owner it had.  *)
LEMMA RestoreInv ==
  ASSUME Inv, NEW a \in Callers, RestoreRow(a) \/ RestoreFails(a)
  PROVE  Inv' /\ RowsKept
<1>1. /\ Z(a) \in Domains /\ Exists(Z(a)) /\ zone[Z(a)] \in ZoneRow
      /\ zone[Z(a)].owner = calls[a].user /\ calls[a].pc = "restore"
  BY CallFacts DEF RestoreRow, RestoreFails, CheckedOwner
<1>2. CASE RestoreRow(a)
  <2> DEFINE row == [zone[Z(a)] EXCEPT !.state = "live", !.status = "pending_nameserver"]
  <2>1. row \in ZoneRow /\ row.owner = zone[Z(a)].owner
    BY <1>1 DEF ZoneRow
  <2>2. zone' = [zone EXCEPT ![Z(a)] = row] /\ Goto(a, "ok") /\ "ok" \in Pcs
        /\ UNCHANGED <<pdns, record, ncalls, excuse>>
    BY <1>1, <1>2 DEF RestoreRow, Pcs, Inv, TypeOK
  <2> HIDE DEF row
  <2> QED
    BY <1>1, <2>1, <2>2, WriteInv
<1>3. CASE RestoreFails(a)
  <2>1. Goto(a, "undo") /\ "undo" \in Pcs /\ UNCHANGED zone
    BY <1>3 DEF RestoreFails, Pcs
  <2>2. TypeOK'
    BY <1>1, <1>3, <2>1, GotoCall DEF RestoreFails, Blame, Inv, TypeOK
  <2>3. CallInv(a)'
    BY <1>1, <2>1, GotoCall, CallFacts DEF CallInv, NamesZone, CheckedOwner, CopyOwner, Exists, Z
  <2> QED
    BY <2>1, <2>2, <2>3, GotoCall, NoWrite, OneCaller
<1> QED
  BY <1>2, <1>3

(* DeleteZone: the request to PowerDNS, done or failed, and the row.        *)
LEMMA DeleteInv ==
  ASSUME Inv, NEW a \in Callers,
         DeletePowerDNSZone(a) \/ DeletePowerDNSFails(a) \/ DeleteRow(a)
  PROVE  Inv' /\ RowsKept
<1>1. /\ calls[a].pc \in {"remove", "row"} /\ CopyOwner(a)
      /\ Z(a) \in Domains /\ calls[a].op # "create"
      /\ Exists(Z(a)) /\ zone[Z(a)] \in ZoneRow
  BY CallFacts DEF DeletePowerDNSZone, DeletePowerDNSFails, DeleteRow, CopyOwner
<1>2. CASE DeletePowerDNSZone(a) \/ DeletePowerDNSFails(a)
  <2>1. Goto(a, "row") /\ "row" \in Pcs /\ UNCHANGED zone
    BY <1>2 DEF DeletePowerDNSZone, DeletePowerDNSFails, Pcs
  <2>2. TypeOK'
    <3>1. /\ pdns' \subseteq Names /\ record' \in [Names -> Contents \union {None}]
          /\ UNCHANGED ncalls
      BY <1>2 DEF DeletePowerDNSZone, DeletePowerDNSFails, RemoveFromPowerDNS, Inv, TypeOK
    <3>2. excuse' \in [Names -> SUBSET {"Failed", "Race", "Shared"}]
      <4>1. Shared(Z(a)) \subseteq {"Failed", "Race", "Shared"} /\ {"Failed"} \subseteq {"Failed", "Race", "Shared"}
        BY DEF Shared
      <4>2. \E what \in SUBSET {"Failed", "Race", "Shared"} :
               excuse' = [excuse EXCEPT ![P(a)] = @ \union what]
        BY <1>2, <4>1 DEF DeletePowerDNSZone, DeletePowerDNSFails, Blame
      <4> QED
        BY <4>2 DEF Inv, TypeOK
    <3> QED
      BY <2>1, <3>1, <3>2, GotoCall DEF Inv, TypeOK
  <2>3. CallInv(a)'
    BY <1>1, <2>1, GotoCall, CallFacts DEF CallInv, NamesZone, CheckedOwner, CopyOwner, Exists, Z
  <2> QED
    BY <2>1, <2>2, <2>3, GotoCall, NoWrite, OneCaller
<1>3. CASE DeleteRow(a)
  <2> DEFINE row == [zone[Z(a)] EXCEPT !.state = "deleted"]
  <2>1. row \in ZoneRow /\ row.owner = zone[Z(a)].owner
    BY <1>1 DEF ZoneRow
  <2>2. zone' = [zone EXCEPT ![Z(a)] = row] /\ Goto(a, "ok") /\ "ok" \in Pcs
        /\ UNCHANGED <<pdns, record, ncalls, excuse>>
    BY <1>3 DEF DeleteRow, Pcs, Inv, TypeOK
  <2> HIDE DEF row
  <2> QED
    BY <1>1, <2>1, <2>2, WriteInv
<1> QED
  BY <1>2, <1>3

(* ValidateNameservers and UpdateZone: a lookup changes nothing but the     *)
(* call, and the whole row that is saved, over a live row or a deleted one, *)
(* has the owner it had.                                                    *)
LEMMA SaveInv ==
  ASSUME Inv, NEW a \in Callers,
         LookupNS(a) \/ LookupFails(a) \/ Save(a) \/ UpdateStatus(a)
  PROVE  Inv' /\ RowsKept
<1>1. /\ calls[a].pc \in {"lookup", "save", "column"} /\ CopyOwner(a)
      /\ Z(a) \in Domains /\ calls[a].op # "create"
      /\ Exists(Z(a)) /\ zone[Z(a)] \in ZoneRow
      /\ calls[a].copy \in ZoneRow /\ calls[a].copy.owner = zone[Z(a)].owner
      /\ zone \in [Domains -> ZoneRow \union {NoRow}]
  BY CallFacts DEF LookupNS, LookupFails, Save, UpdateStatus, CopyOwner, Inv, TypeOK
<1>2. CASE LookupFails(a)
  <2>1. Goto(a, "save") /\ "save" \in Pcs
        /\ UNCHANGED <<zone, pdns, record, ncalls, excuse>>
    BY <1>2 DEF LookupFails, Pcs
  <2>2. CallInv(a)'
    BY <1>1, <2>1, GotoCall, CallFacts DEF CallInv, NamesZone, CheckedOwner, CopyOwner, Exists, Z
  <2> QED
    BY <2>1, <2>2, GotoCall, NoWrite, OneCaller DEF Inv, TypeOK
<1>3. CASE LookupNS(a)
  <2> DEFINE new == [calls[a] EXCEPT !.pc = "save", !.valid = TRUE]
  <2>1. /\ new \in Call /\ new.pc = "save" /\ new.op = calls[a].op /\ new.zone = Z(a)
        /\ new.user = calls[a].user /\ new.copy = calls[a].copy
    BY <1>1, CallFacts DEF Call, Pcs, Z
  <2>2. /\ calls' = [calls EXCEPT ![a] = new] /\ calls \in [Callers -> Call]
        /\ UNCHANGED <<zone, pdns, record, ncalls, excuse>>
    BY <1>3 DEF LookupNS, Inv, TypeOK
  <2> HIDE DEF new
  <2>3. CallInv(a)'
    BY <1>1, <2>1, <2>2, CallFacts DEF CallInv, NamesZone, CheckedOwner, CopyOwner, Exists, Z
  <2>4. TypeOK'
    BY <2>1, <2>2 DEF Inv, TypeOK
  <2> QED
    BY <2>2, <2>3, <2>4, NoWrite, OneCaller
<1>4. CASE Save(a)
  <2> DEFINE row == IF calls[a].valid THEN [calls[a].copy EXCEPT !.status = "active"] ELSE calls[a].copy
             pc == IF calls[a].op = "janitor" /\ calls[a].valid THEN "column" ELSE "ok"
  <2>1. row \in ZoneRow /\ row.owner = zone[Z(a)].owner
    BY <1>1 DEF ZoneRow
  <2>2. pc \in Pcs /\ pc \in {"ok", "column"} /\ Goto(a, pc)
    BY <1>4 DEF Save, Pcs
  <2>3. PICK new \in Saved(Z(a), row) : zone' = [zone EXCEPT ![Z(a)] = new]
    BY <1>4 DEF Save
  <2>4. UNCHANGED <<pdns, record, ncalls, excuse>>
    BY <1>1, <1>4 DEF Save, Inv, TypeOK
  <2> HIDE DEF row, pc
  <2>5. new \in ZoneRow /\ new.owner = zone[Z(a)].owner
    BY <1>1, <2>1, <2>3 DEF Saved
  <2> QED
    BY <1>1, <2>2, <2>3, <2>4, <2>5, WriteInv
<1>5. CASE UpdateStatus(a)
  <2> DEFINE row == [zone[Z(a)] EXCEPT !.status = "active"]
  <2>1. row \in ZoneRow /\ row.owner = zone[Z(a)].owner
    BY <1>1 DEF ZoneRow
  <2>2. Goto(a, "ok") /\ "ok" \in Pcs /\ UNCHANGED <<pdns, record, ncalls, excuse>>
    BY <1>5 DEF UpdateStatus, Pcs, Inv, TypeOK
  <2>3. zone' = [zone EXCEPT ![Z(a)] = row] \/ zone' = [zone EXCEPT ![Z(a)] = zone[Z(a)]]
    BY <1>1, <1>5 DEF UpdateStatus
  <2> HIDE DEF row
  <2> QED
    BY <1>1, <2>1, <2>2, <2>3, WriteInv
<1> QED
  BY <1>2, <1>3, <1>4, <1>5

(* Writing records does not touch the rows.                                 *)
LEMMA PatchInv ==
  ASSUME Inv, NEW a \in Callers, UpdateZoneRRSets(a)
  PROVE  Inv' /\ RowsKept
<1>1. Goto(a, "ok") /\ "ok" \in Pcs /\ UNCHANGED <<zone, pdns, ncalls, excuse>>
      /\ calls[a].pc = "patch" /\ calls[a] \in Call /\ calls[a].op # "create"
  BY CallFacts DEF UpdateZoneRRSets, Pcs, CopyOwner
<1>2. record' \in [Names -> Contents \union {None}]
  BY <1>1 DEF UpdateZoneRRSets, Inv, TypeOK, Call
<1>3. CallInv(a)'
  BY <1>1, GotoCall, CallFacts DEF CallInv, NamesZone, CheckedOwner, CopyOwner, Z
<1> QED
  BY <1>1, <1>2, <1>3, GotoCall, NoWrite, OneCaller DEF Inv, TypeOK
-----------------------------------------------------------------------------
(* Every step of the DNS service and its callers preserves the invariant    *)
(* and leaves rows in place and with their owners.                          *)
LEMMA NextInv == Inv /\ [Next]_vars => Inv' /\ [RowsKept]_vars
<1> SUFFICES ASSUME Inv, [Next]_vars PROVE Inv' /\ [RowsKept]_vars
  OBVIOUS
<1>1. CASE UNCHANGED vars
  BY <1>1 DEF vars, Inv, TypeOK, CallInv, NamesZone, CheckedOwner, CopyOwner, Exists, Z
<1>2. ASSUME NEW a \in Callers, NEW z \in Domains, NEW u \in Users,
             NEW op \in Ops \ {"write"}, Begin(a, op, z, u, None)
      PROVE  Inv' /\ RowsKept
  BY <1>2, BeginInv
<1>3. ASSUME NEW a \in Callers, NEW z \in Domains, NEW u \in Users,
             NEW c \in Contents \union {None}, Begin(a, "write", z, u, c)
      PROVE  Inv' /\ RowsKept
  BY <1>3, BeginInv DEF Ops
<1>4. ASSUME NEW a \in Callers,
             \/ Get(a) \/ ReadFails(a) \/ Return(a)
             \/ CreateZone(a) \/ CreatePowerDNSZone(a) \/ CreatePowerDNSFails(a)
             \/ InsertRow(a) \/ InsertFails(a) \/ TakeDuplicate(a)
             \/ RestoreRow(a) \/ RestoreFails(a) \/ UndoRestore(a)
             \/ DeletePowerDNSZone(a) \/ DeletePowerDNSFails(a) \/ DeleteRow(a) \/ DeleteRowFails(a)
             \/ LookupNS(a) \/ LookupFails(a) \/ Save(a) \/ SaveFails(a) \/ UpdateStatus(a)
             \/ UpdateZoneRRSets(a) \/ UpdateZoneRRSetsFails(a)
      PROVE  Inv' /\ RowsKept
  BY <1>4, GetInv, FailInv, CreateInv, RestoreInv, DeleteInv, SaveInv, PatchInv
<1> QED
  BY <1>1, <1>2, <1>3, <1>4 DEF Next, Finished

(* Every state that the DNS service reaches satisfies the invariant.        *)
THEOREM Invariant == Spec => []Inv
  BY InitInv, NextInv, PTL DEF Spec

(* Rows, copies of rows in calls, and the histories keep their types; in    *)
(* particular a row that exists has a user and one of the two statuses that *)
(* BeforeSave (db/dns_zone.go:41) lets through.                             *)
THEOREM TypeCorrect == Spec => []TypeOK
<1>1. Inv => TypeOK
  BY DEF Inv
<1> QED
  BY <1>1, Invariant, PTL

(* CreateZone never returns the row of another user, whatever number of     *)
(* calls create, restore, delete and save rows of the domain at the same    *)
(* time (dns_service_zone.go:33-99).                                        *)
THEOREM CreateReturnsOwn == Spec => []CreatedIsOwned
<1>1. Inv => CreatedIsOwned
  BY DEF Inv, CallInv, CheckedOwner, CreatedIsOwned
<1> QED
  BY <1>1, Invariant, PTL

(* No step of the service changes the owner of a domain's row or removes    *)
(* the row.                                                                 *)
THEOREM DomainsKeepOwners == Spec => OwnersKept
  BY Invariant, NextInv, PTL DEF Spec, OwnersKept
-----------------------------------------------------------------------------
(* PowerDNS and the rows.  At first there is neither a zone nor a row.      *)
LEMMA InitAgree == Init => AgreeInv
<1> SUFFICES ASSUME Init PROVE AgreeInv
  OBVIOUS
<1>1. \A a \in Callers : calls[a] = IdleCall
  BY DEF Init
<1>2. \A a \in Callers : calls[a].pc = "idle" /\ calls[a].op = None /\ calls[a].zone = None
  BY <1>1 DEF IdleCall
<1>3. pdns = {} /\ \A z \in Domains : zone[z].state = "none" /\ z # None
  BY ZonesAssumption DEF Init, NoRow
<1>4. \A n \in Names : Spellings(n) \subseteq Domains
  BY DEF Spellings
<1> QED
  BY <1>2, <1>3, <1>4 DEF AgreeInv, Undisturbed, Agrees, PlaceOfCall, Z

(* A step of a call works on the call's own zone: what it leaves to be      *)
(* shown is that this zone, when nothing has gone wrong for it, agrees, and *)
(* that all its calls find what they rely on.                               *)
LEMMA OneZone ==
  ASSUME AgreeInv, NEW a \in Callers, NEW z \in Domains, NEW n \in Names, n = Canonical[z], Z(a) = z,
         \A b \in Callers \ {a} : calls'[b] = calls[b],
         calls'[a] = IdleCall \/ (calls'[a].zone = z /\ calls'[a].op = calls[a].op),
         \A y \in Domains \ {z} : zone'[y] = zone[y],
         \A m \in Names \ {n} : excuse'[m] = excuse[m] /\ (m \in pdns' <=> m \in pdns),
         excuse[n] \subseteq excuse'[n],
         PlaceOfCall(a)',
         excuse'[n] = {} =>
            Agrees(n)' /\ Expect(a, z)' /\ \A b \in Callers \ {a}, y \in Spellings(n) : Z(b) = y => Expect(b, y)'
  PROVE  AgreeInv'
<1>1. \A b \in Callers : PlaceOfCall(b)'
  BY DEF AgreeInv, PlaceOfCall
<1>2. IdleCall.zone = None /\ IdleCall.op = None /\ None \notin Domains
  BY ZonesAssumption DEF IdleCall
<1>3. ASSUME NEW m \in Names, m # n PROVE Undisturbed(m)'
  <2>1. z \notin Spellings(m) /\ Spellings(m) \subseteq Domains
    BY <1>3 DEF Spellings
  <2>2. \A b \in Callers : calls'[b].zone \in Spellings(m) => b # a /\ calls[b].zone \in Spellings(m)
                                                           /\ calls'[b] = calls[b]
    BY <1>2, <2>1
  <2>3. \A b \in Callers : calls[b].zone \in Spellings(m) => b # a /\ calls'[b] = calls[b]
    BY <2>1 DEF Z
  <2>4. Undisturbed(m) /\ excuse'[m] = excuse[m] /\ (m \in pdns' <=> m \in pdns)
        /\ \A y \in Spellings(m) : zone'[y] = zone[y] /\ Canonical[y] = m
    BY <1>3, <2>1 DEF AgreeInv, Spellings
  <2>5. Agrees(m) => Agrees(m)'
    BY <2>3, <2>4 DEF Agrees, Z
  <2>6. ASSUME NEW b \in Callers, NEW y \in Spellings(m), calls'[b].zone = y, Expect(b, y) PROVE Expect(b, y)'
    BY <2>2, <2>4, <2>6 DEF Expect
  <2>7. ASSUME NEW b \in Callers, NEW y \in Spellings(m), calls'[b].zone = y, Alone(b, y) PROVE Alone(b, y)'
    BY <2>2, <2>4, <2>7 DEF Alone, Z
  <2> QED
    BY <2>2, <2>4, <2>5, <2>6, <2>7 DEF Undisturbed, Z
<1>4. Undisturbed(n)'
  <2> SUFFICES ASSUME excuse'[n] = {}
               PROVE  Agrees(n)' /\ \A b \in Callers, y \in Spellings(n) : Z(b)' = y => Expect(b, y)' /\ Alone(b, y)'
    BY DEF Undisturbed
  <2>1. \A b \in Callers, y \in Spellings(n) : Z(b) = y => Alone(b, y)
    BY DEF AgreeInv, Undisturbed
  <2>2. Spellings(n) \subseteq Domains /\ \A y \in Spellings(n) : Canonical[y] = n
    BY DEF Spellings
  <2>3. \A b \in Callers : calls'[b].zone \in Spellings(n) =>
            calls'[b].zone = calls[b].zone /\ calls'[b].op = calls[b].op /\ (b = a => calls'[b].zone = z)
    BY <1>2, <2>2 DEF Z
  <2>4. ASSUME NEW b \in Callers, NEW y \in Spellings(n), Z(b)' = y PROVE Alone(b, y)'
    BY <2>1, <2>2, <2>3, <2>4 DEF Alone, Z
  <2>5. ASSUME NEW b \in Callers, NEW y \in Spellings(n), Z(b)' = y PROVE Expect(b, y)'
    BY <2>3, <2>5 DEF Z
  <2> QED
    BY <2>4, <2>5
<1> QED
  BY <1>1, <1>3, <1>4 DEF AgreeInv

(* A step after something went wrong for the zone has nothing to keep.      *)
LEMMA BlamedStep ==
  ASSUME AgreeInv, NEW a \in Callers, NEW z \in Domains, NEW n \in Names, n = Canonical[z], Z(a) = z,
         \A b \in Callers \ {a} : calls'[b] = calls[b],
         calls'[a] = IdleCall \/ (calls'[a].zone = z /\ calls'[a].op = calls[a].op),
         \A y \in Domains \ {z} : zone'[y] = zone[y],
         \A m \in Names \ {n} : excuse'[m] = excuse[m] /\ (m \in pdns' <=> m \in pdns),
         excuse[n] \subseteq excuse'[n], excuse'[n] # {},
         PlaceOfCall(a)'
  PROVE  AgreeInv'
  BY OneZone

(* A step that changes neither PowerDNS nor the state of the row, and does  *)
(* not leave a place between the two, leaves the other calls what they rely *)
(* on.                                                                      *)
LEMMA QuietStep ==
  ASSUME AgreeInv, NEW a \in Callers, NEW z \in Domains, NEW n \in Names, n = Canonical[z], Z(a) = z,
         \A b \in Callers \ {a} : calls'[b] = calls[b],
         calls'[a] = IdleCall \/ (calls'[a].zone = z /\ calls'[a].op = calls[a].op),
         \A y \in Domains \ {z} : zone'[y] = zone[y],
         UNCHANGED <<pdns, excuse>>,
         PlaceOfCall(a)',
         excuse[n] = {} /\ Expect(a, z) => zone'[z].state = zone[z].state /\ Expect(a, z)',
         calls[a].pc \in {"row", "restore"} => excuse[n] # {},
         calls[a].pc = "insert" /\ excuse[n] = {} => zone[z].state = "live"
  PROVE  AgreeInv'
<1>1. ASSUME excuse[n] = {}
      PROVE  Agrees(n)' /\ Expect(a, z)' /\ \A b \in Callers \ {a}, y \in Spellings(n) : Z(b) = y => Expect(b, y)'
  <2>1. Agrees(n) /\ Expect(a, z) /\ \A b \in Callers, y \in Spellings(n) : Z(b) = y => Expect(b, y)
    BY <1>1 DEF AgreeInv, Undisturbed, Spellings
  <2>2. zone'[z].state = zone[z].state
    BY <1>1, <2>1
  <2>3. /\ z \in Spellings(n) /\ Spellings(n) \subseteq Domains
        /\ \A y \in Spellings(n) : zone'[y].state = zone[y].state
    BY <2>2 DEF Spellings
  <2>4. \A b \in Callers \ {a}, y \in Spellings(n) : Z(b) = y => Expect(b, y)'
    BY <2>1, <2>3 DEF Expect
  <2>5. Agrees(n)'
    BY <1>1, <2>1, <2>3 DEF Agrees, Z
  <2> QED
    BY <1>1, <2>1, <2>4, <2>5
<1> QED
  BY <1>1, OneZone

(* A call that has ended relies on nothing.                                 *)
LEMMA EndedCall ==
  ASSUME Inv, NEW a \in Callers, NEW z \in Domains, Fail(a)
  PROVE  /\ calls'[a] = IdleCall /\ PlaceOfCall(a)' /\ Expect(a, z)'
         /\ \A b \in Callers \ {a} : calls'[b] = calls[b]
<1>1. calls'[a] = IdleCall /\ \A b \in Callers \ {a} : calls'[b] = calls[b]
  BY DEF Fail, Inv, TypeOK
<1>2. calls'[a].pc = "idle"
  BY <1>1 DEF IdleCall
<1> QED
  BY <1>1, <1>2 DEF PlaceOfCall, Expect

(* Calls that end without an effect on the row or on PowerDNS, and the      *)
(* failures that may have had one, which are remembered.                    *)
LEMMA FailAgree ==
  ASSUME Inv, AgreeInv, NEW a \in Callers,
         \/ ReadFails(a) \/ Return(a) \/ CreatePowerDNSFails(a) \/ InsertFails(a)
         \/ UndoRestore(a) \/ DeleteRowFails(a) \/ SaveFails(a) \/ UpdateZoneRRSetsFails(a)
  PROVE  AgreeInv'
<1>1. Fail(a) /\ UNCHANGED zone /\ calls[a].pc # "idle"
  BY DEF ReadFails, Return, CreatePowerDNSFails, InsertFails, UndoRestore, DeleteRowFails,
         SaveFails, UpdateZoneRRSetsFails
<1>2. PICK z \in Domains, n \in Names : Z(a) = z /\ n = Canonical[z] /\ P(a) = n /\ z \in Spellings(n)
  BY <1>1, CallFacts DEF Spellings
<1>3. /\ calls'[a] = IdleCall /\ PlaceOfCall(a)' /\ Expect(a, z)'
      /\ \A b \in Callers \ {a} : calls'[b] = calls[b]
  BY <1>1, EndedCall
<1>4. excuse \in [Names -> SUBSET {"Failed", "Race", "Shared"}]
  BY DEF Inv, TypeOK
<1>5. CASE UNCHANGED <<pdns, excuse>> /\ calls[a].pc \in {"get", "duplicate", "ok", "create", "recreate", "save", "patch"}
  BY <1>1, <1>2, <1>3, <1>5, QuietStep
<1>6. CASE Blame(n, "Failed") /\ \A m \in Names \ {n} : m \in pdns' <=> m \in pdns
  <2>1. /\ "Failed" \in excuse'[n] /\ excuse[n] \subseteq excuse'[n]
        /\ \A m \in Names \ {n} : excuse'[m] = excuse[m]
    BY <1>4, <1>6 DEF Blame
  <2> QED
    BY <1>1, <1>2, <1>3, <1>6, <2>1, BlamedStep
<1>7. CASE UndoRestore(a)
  <2>1. excuse[n] # {}
    BY <1>2, <1>7 DEF UndoRestore, AgreeInv, Undisturbed, Expect, Z
  <2>2. UNCHANGED excuse /\ \A m \in Names \ {n} : m \in pdns' <=> m \in pdns
    BY <1>2, <1>7 DEF UndoRestore, RemoveFromPowerDNS
  <2> QED
    BY <1>1, <1>2, <1>3, <2>1, <2>2, BlamedStep
<1> QED
  BY <1>2, <1>5, <1>6, <1>7
  DEF ReadFails, Return, CreatePowerDNSFails, InsertFails, DeleteRowFails, SaveFails, UpdateZoneRRSetsFails

(* Reads and lookups: what a call has found alive is alive.                 *)
LEMMA GetAgree ==
  ASSUME Inv, AgreeInv, NEW a \in Callers, Get(a)
  PROVE  AgreeInv'
<1>1. calls[a].pc = "get" /\ UNCHANGED <<zone, pdns, excuse>>
  BY DEF Get
<1>2. PICK z \in Domains, n \in Names : Z(a) = z /\ n = Canonical[z] /\ P(a) = n /\ z \in Spellings(n)
  BY <1>1, CallFacts DEF Spellings
<1>3. CASE ~GetZone(Z(a))
  <2>1. Fail(a)
    BY <1>3 DEF Get
  <2> QED
    BY <1>1, <1>2, <2>1, EndedCall, QuietStep
<1>4. CASE GetZone(Z(a))
  <2> DEFINE new == [calls[a] EXCEPT !.pc = AfterGet(calls[a].op), !.copy = zone[Z(a)]]
  <2>1. calls[a] \in Call /\ calls[a].op \in Ops \ {"create"} /\ zone[z].state = "live"
    BY <1>1, <1>2, <1>4, CallFacts DEF Get, GetZone
  <2>2. /\ AfterGet(calls[a].op) \in {"remove", "lookup", "save", "patch"}
        /\ AfterGet(calls[a].op) = "remove" => calls[a].op = "delete"
        /\ AfterGet(calls[a].op) \in {"lookup", "save"} => calls[a].op \in {"validate", "janitor", "update"}
    BY <2>1 DEF AfterGet, Ops
  <2>3. /\ new.pc = AfterGet(calls[a].op) /\ new.copy = zone[z]
        /\ new.op = calls[a].op /\ new.zone = z
    BY <1>2, <2>1 DEF Call, Z
  <2>4. calls' = [calls EXCEPT ![a] = new] /\ calls \in [Callers -> Call]
    BY <1>4 DEF Get, Inv, TypeOK
  <2> HIDE DEF new
  <2>5. calls'[a] = new /\ \A b \in Callers \ {a} : calls'[b] = calls[b]
    BY <2>4
  <2>6. PlaceOfCall(a)' /\ Expect(a, z)'
    BY <1>1, <2>1, <2>2, <2>3, <2>5 DEF PlaceOfCall, Expect
  <2> QED
    BY <1>1, <1>2, <2>3, <2>5, <2>6, QuietStep
<1> QED
  BY <1>3, <1>4

(* What GotoCall says of the new place, in the form that OneZone needs.     *)
LEMMA Went ==
  ASSUME Inv, NEW a \in Callers, NEW z \in Domains, NEW n \in Names, n = Canonical[z], Z(a) = z, NEW pc \in Pcs, Goto(a, pc)
  PROVE  /\ calls'[a].pc = pc /\ calls'[a].op = calls[a].op /\ calls'[a].copy = calls[a].copy
         /\ calls'[a].zone = z
         /\ \A b \in Callers \ {a} : calls'[b] = calls[b]
  BY GotoCall DEF Z

(* CreateZone takes a row as it finds it.                                   *)
LEMMA TakeAgree ==
  ASSUME Inv, AgreeInv, NEW a \in Callers, TakeExisting(a), calls[a].op = "create",
         calls[a].pc \in {"get", "duplicate"}, UNCHANGED <<zone, pdns, excuse>>
  PROVE  AgreeInv'
<1>1. PICK z \in Domains, n \in Names : Z(a) = z /\ n = Canonical[z] /\ P(a) = n /\ z \in Spellings(n)
  BY CallFacts DEF Spellings
<1>2. CASE Fail(a)
  BY <1>1, <1>2, EndedCall, QuietStep
<1>3. ASSUME NEW pc \in {"ok", "recreate"}, Goto(a, pc) PROVE AgreeInv'
  <2>1. pc \in Pcs
    BY DEF Pcs
  <2>2. /\ calls'[a].pc = pc /\ calls'[a].op = calls[a].op /\ calls'[a].zone = z
        /\ \A b \in Callers \ {a} : calls'[b] = calls[b]
    BY <1>1, <1>3, <2>1, Went
  <2>3. PlaceOfCall(a)' /\ Expect(a, z)'
    BY <2>2 DEF PlaceOfCall, Expect
  <2> QED
    BY <1>1, <2>2, <2>3, QuietStep
<1> QED
  BY <1>2, <1>3 DEF TakeExisting

(* CreateZone up to the row: the zone is in PowerDNS before its row is      *)
(* there, and the row that another call was faster with is alive.           *)
LEMMA CreateAgree ==
  ASSUME Inv, AgreeInv, NEW a \in Callers,
         CreateZone(a) \/ CreatePowerDNSZone(a) \/ InsertRow(a) \/ TakeDuplicate(a)
  PROVE  AgreeInv'
<1>1. calls[a].pc # "idle" /\ UNCHANGED excuse
  BY DEF CreateZone, CreatePowerDNSZone, InsertRow, TakeDuplicate
<1>2. PICK z \in Domains, n \in Names : Z(a) = z /\ n = Canonical[z] /\ P(a) = n /\ z \in Spellings(n)
  BY <1>1, CallFacts DEF Spellings
<1>3. excuse[n] = {} => Agrees(n) /\ \A b \in Callers, y \in Spellings(n) : Z(b) = y => Expect(b, y) /\ Alone(b, y)
  BY DEF AgreeInv, Undisturbed
<1>4. PlaceOfCall(a)
  BY DEF AgreeInv
<1>5. "create" \in Pcs /\ "insert" \in Pcs /\ "restore" \in Pcs /\ "duplicate" \in Pcs /\ "ok" \in Pcs
  BY DEF Pcs
<1>6. CASE CreateZone(a)
  <2>1. CASE GetZoneByDomain(Z(a))
    BY <1>6, <2>1, TakeAgree DEF CreateZone
  <2>2. CASE ~GetZoneByDomain(Z(a))
    <3>1. Goto(a, "create") /\ calls[a].op = "create" /\ zone[z].state = "none" /\ calls[a].pc = "get"
          /\ UNCHANGED <<zone, pdns>>
      BY <1>2, <1>6, <2>2 DEF CreateZone, GetZoneByDomain
    <3>2. /\ calls'[a].pc = "create" /\ calls'[a].op = calls[a].op /\ calls'[a].zone = z
          /\ \A b \in Callers \ {a} : calls'[b] = calls[b]
      BY <1>2, <1>5, <3>1, Went
    <3>3. PlaceOfCall(a)' /\ Expect(a, z)'
      BY <3>1, <3>2 DEF PlaceOfCall, Expect
    <3> QED
      BY <1>1, <1>2, <3>1, <3>2, <3>3, QuietStep
  <2> QED
    BY <2>1, <2>2
<1>7. CASE CreatePowerDNSZone(a)
  <2> DEFINE pc == IF calls[a].pc = "create" THEN "insert" ELSE "restore"
  <2>1. /\ Goto(a, pc) /\ pc \in Pcs /\ calls[a].pc \in {"create", "recreate"}
        /\ pc \in {"insert", "restore"} /\ (pc = "insert" => calls[a].pc = "create")
        /\ UNCHANGED zone /\ pdns' = pdns \union {n}
    BY <1>2, <1>5, <1>7 DEF CreatePowerDNSZone
  <2> HIDE DEF pc
  <2>2. /\ calls'[a].pc = pc /\ calls'[a].op = calls[a].op /\ calls'[a].zone = z
        /\ \A b \in Callers \ {a} : calls'[b] = calls[b]
    BY <1>2, <2>1, Went
  <2>3. calls[a].op = "create"
    BY <1>4, <2>1 DEF PlaceOfCall
  <2>4. PlaceOfCall(a)'
    BY <2>1, <2>2, <2>3 DEF PlaceOfCall
  <2>5. ASSUME excuse[n] = {}
        PROVE  Agrees(n)' /\ Expect(a, z)' /\ \A b \in Callers \ {a}, y \in Spellings(n) : Z(b) = y => Expect(b, y)'
    <3>1. Expect(a, z)'
      BY <1>2, <1>3, <2>1, <2>2, <2>5 DEF Expect
    <3>2. Agrees(n)'
      BY <1>2, <2>1, <2>2 DEF Agrees, Z
    <3>3. ASSUME NEW b \in Callers \ {a}, NEW y \in Spellings(n), Z(b) = y PROVE Expect(b, y)'
      <4>1. calls[b].pc # "row"
        <5>1. calls[b].op # "delete"
          BY <1>2, <1>3, <2>3, <2>5, <3>3 DEF Alone, RowOps, Spellings
        <5> QED
          BY <5>1 DEF AgreeInv, PlaceOfCall
      <4> QED
        BY <1>3, <2>1, <2>2, <2>5, <3>3, <4>1 DEF Expect, Spellings
    <3> QED
      BY <3>1, <3>2, <3>3
  <2> QED
    BY <1>1, <1>2, <2>1, <2>2, <2>4, <2>5, OneZone
<1>8. CASE InsertRow(a) /\ GetZoneByDomain(Z(a))
  <2>1. /\ Goto(a, "duplicate") /\ calls[a].pc = "insert" /\ UNCHANGED <<zone, pdns>>
        /\ zone[z].state # "none" /\ zone[z] \in ZoneRow \union {NoRow}
    BY <1>2, <1>8 DEF InsertRow, GetZoneByDomain, Inv, TypeOK
  <2>2. /\ calls'[a].pc = "duplicate" /\ calls'[a].op = calls[a].op /\ calls'[a].zone = z
        /\ \A b \in Callers \ {a} : calls'[b] = calls[b]
    BY <1>2, <1>5, <2>1, Went
  <2>3. PlaceOfCall(a)' /\ Expect(a, z)'
    BY <1>4, <2>1, <2>2 DEF PlaceOfCall, Expect
  <2>4. excuse[n] = {} => zone[z].state = "live"
    BY <1>2, <1>3, <2>1 DEF Expect, ZoneRow, NoRow
  <2> QED
    BY <1>1, <1>2, <2>1, <2>2, <2>3, <2>4, QuietStep
<1>9. CASE InsertRow(a) /\ ~GetZoneByDomain(Z(a))
  <2>1. /\ Goto(a, "ok") /\ calls[a].pc = "insert" /\ UNCHANGED pdns
        /\ zone' = [zone EXCEPT ![z] = NewRow(calls[a].user)] /\ zone \in [Domains -> ZoneRow \union {NoRow}]
    BY <1>2, <1>9 DEF InsertRow, Inv, TypeOK
  <2>2. /\ calls'[a].pc = "ok" /\ calls'[a].op = calls[a].op /\ calls'[a].zone = z
        /\ \A b \in Callers \ {a} : calls'[b] = calls[b]
    BY <1>2, <1>5, <2>1, Went
  <2>3. zone'[z].state = "live" /\ \A y \in Domains \ {z} : zone'[y] = zone[y]
    BY <2>1 DEF NewRow
  <2>4. PlaceOfCall(a)' /\ Expect(a, z)'
    BY <2>2 DEF PlaceOfCall, Expect
  <2>5. ASSUME excuse[n] = {}
        PROVE  Agrees(n)' /\ \A b \in Callers \ {a}, y \in Spellings(n) : Z(b) = y => Expect(b, y)'
    BY <1>2, <1>3, <2>1, <2>2, <2>3, <2>5 DEF Agrees, Expect
  <2> QED
    BY <1>1, <1>2, <2>1, <2>2, <2>3, <2>4, <2>5, OneZone
<1>10. CASE TakeDuplicate(a)
  BY <1>4, <1>10, TakeAgree DEF TakeDuplicate, PlaceOfCall
<1> QED
  BY <1>6, <1>7, <1>8, <1>9, <1>10

(* The restoration of a row finds its zone in PowerDNS, or fails.           *)
LEMMA RestoreAgree ==
  ASSUME Inv, AgreeInv, NEW a \in Callers, RestoreRow(a) \/ RestoreFails(a)
  PROVE  AgreeInv'
<1>1. calls[a].pc = "restore" /\ UNCHANGED pdns
  BY DEF RestoreRow, RestoreFails
<1>2. PICK z \in Domains, n \in Names : Z(a) = z /\ n = Canonical[z] /\ P(a) = n /\ z \in Spellings(n)
  BY <1>1, CallFacts DEF Spellings
<1>3. excuse[n] = {} => Agrees(n) /\ \A b \in Callers, y \in Spellings(n) : Z(b) = y => Expect(b, y)
  BY DEF AgreeInv, Undisturbed
<1>4. calls[a].op = "create"
  BY <1>1 DEF AgreeInv, PlaceOfCall
<1>5. "ok" \in Pcs /\ "undo" \in Pcs
  BY DEF Pcs
<1>6. CASE RestoreRow(a)
  <2>1. /\ Goto(a, "ok") /\ UNCHANGED excuse /\ zone \in [Domains -> ZoneRow \union {NoRow}]
        /\ zone' = [zone EXCEPT ![z].state = "live", ![z].status = "pending_nameserver"]
        /\ zone[z] \in ZoneRow
    BY <1>1, <1>2, <1>6, CallFacts DEF RestoreRow, Inv, TypeOK, CheckedOwner
  <2>2. /\ calls'[a].pc = "ok" /\ calls'[a].op = calls[a].op /\ calls'[a].zone = z
        /\ \A b \in Callers \ {a} : calls'[b] = calls[b]
    BY <1>2, <1>5, <2>1, Went
  <2>3. zone'[z].state = "live" /\ \A y \in Domains \ {z} : zone'[y] = zone[y]
    BY <2>1 DEF ZoneRow
  <2>4. PlaceOfCall(a)' /\ Expect(a, z)'
    BY <2>2 DEF PlaceOfCall, Expect
  <2>5. ASSUME excuse[n] = {}
        PROVE  Agrees(n)' /\ \A b \in Callers \ {a}, y \in Spellings(n) : Z(b) = y => Expect(b, y)'
    <3>1. n \in pdns /\ UNCHANGED pdns
      BY <1>1, <1>2, <1>3, <2>5 DEF Expect
    <3>2. Agrees(n)'
      BY <1>2, <2>3, <3>1 DEF Agrees
    <3>3. ASSUME NEW b \in Callers \ {a}, NEW y \in Spellings(n), Z(b) = y PROVE Expect(b, y)'
      <4>1. Expect(b, y) /\ y \in Domains /\ Canonical[y] = n
        BY <1>3, <2>5, <3>3 DEF Spellings
      <4>2. CASE y = z
        BY <2>2, <2>3, <3>1, <4>1, <4>2 DEF Expect
      <4>3. CASE y # z
        BY <2>2, <2>3, <3>1, <4>1, <4>3 DEF Expect
      <4> QED
        BY <4>2, <4>3
    <3> QED
      BY <3>2, <3>3
  <2> QED
    BY <1>1, <1>2, <2>1, <2>2, <2>3, <2>4, <2>5, OneZone
<1>7. CASE RestoreFails(a)
  <2>1. Goto(a, "undo") /\ UNCHANGED zone /\ excuse' = [excuse EXCEPT ![n] = @ \union {"Failed"}]
        /\ excuse \in [Names -> SUBSET {"Failed", "Race", "Shared"}]
    BY <1>2, <1>7 DEF RestoreFails, Blame, Inv, TypeOK
  <2>2. /\ calls'[a].pc = "undo" /\ calls'[a].op = calls[a].op /\ calls'[a].zone = z
        /\ \A b \in Callers \ {a} : calls'[b] = calls[b]
    BY <1>2, <1>5, <2>1, Went
  <2>3. /\ "Failed" \in excuse'[n] /\ excuse[n] \subseteq excuse'[n]
        /\ \A m \in Names \ {n} : excuse'[m] = excuse[m]
    BY <2>1
  <2>4. PlaceOfCall(a)'
    BY <1>4, <2>2 DEF PlaceOfCall
  <2> QED
    BY <1>1, <1>2, <2>1, <2>2, <2>3, <2>4, BlamedStep
<1> QED
  BY <1>6, <1>7

(* A deletion, alone on its zone, takes it out of PowerDNS and then deletes *)
(* the row.                                                                 *)
LEMMA DeleteAgree ==
  ASSUME Inv, AgreeInv, NEW a \in Callers,
         DeletePowerDNSZone(a) \/ DeletePowerDNSFails(a) \/ DeleteRow(a)
  PROVE  AgreeInv'
<1>1. calls[a].pc \in {"remove", "row"}
  BY DEF DeletePowerDNSZone, DeletePowerDNSFails, DeleteRow
<1>2. PICK z \in Domains, n \in Names : Z(a) = z /\ n = Canonical[z] /\ P(a) = n /\ z \in Spellings(n)
  BY <1>1, CallFacts DEF Spellings
<1>3. excuse[n] = {} => Agrees(n) /\ \A b \in Callers, y \in Spellings(n) : Z(b) = y => Expect(b, y) /\ Alone(b, y)
  BY DEF AgreeInv, Undisturbed
<1>4. calls[a].op = "delete" /\ \A b \in Callers : PlaceOfCall(b)
  BY <1>1 DEF AgreeInv, PlaceOfCall
<1>5. "ok" \in Pcs /\ "row" \in Pcs
  BY DEF Pcs
<1>6. ASSUME NEW b \in Callers \ {a}, Z(b) \in Spellings(n), excuse[n] = {}
      PROVE  calls[b].pc \in {"idle", "get", "patch", "ok"}
  <2>1. calls[b].op \notin RowOps
    BY <1>2, <1>3, <1>4, <1>6 DEF Alone
  <2>2. calls[b].pc \in Pcs
    BY CallFacts DEF Call
  <2> QED
    BY <1>4, <2>1, <2>2 DEF PlaceOfCall, RowOps, Pcs
<1>7. ASSUME \A b \in Callers \ {a} : calls'[b] = calls[b], excuse[n] = {}
      PROVE  \A b \in Callers \ {a}, y \in Spellings(n) : Z(b) = y => Expect(b, y)'
  BY <1>3, <1>6, <1>7 DEF Expect
<1>8. CASE DeletePowerDNSZone(a)
  <2>1. /\ Goto(a, "row") /\ UNCHANGED zone /\ pdns' = pdns \ {n} /\ calls[a].pc = "remove"
        /\ excuse' = [excuse EXCEPT ![n] = @ \union Shared(z)]
        /\ excuse \in [Names -> SUBSET {"Failed", "Race", "Shared"}]
    BY <1>2, <1>8 DEF DeletePowerDNSZone, RemoveFromPowerDNS, Inv, TypeOK
  <2>2. /\ calls'[a].pc = "row" /\ calls'[a].op = calls[a].op /\ calls'[a].zone = z
        /\ \A b \in Callers \ {a} : calls'[b] = calls[b]
    BY <1>2, <1>5, <2>1, Went
  <2>3. PlaceOfCall(a)'
    BY <1>4, <2>2 DEF PlaceOfCall
  <2>4. /\ excuse'[n] = excuse[n] \union Shared(z)
        /\ \A m \in Names \ {n} : excuse'[m] = excuse[m] /\ (m \in pdns' <=> m \in pdns)
    BY <2>1
  <2>5. ASSUME excuse'[n] = {}
        PROVE  Agrees(n)' /\ Expect(a, z)' /\ \A b \in Callers \ {a}, y \in Spellings(n) : Z(b) = y => Expect(b, y)'
    <3>1. excuse[n] = {} /\ \A y \in Spellings(n) \ {z} : zone[y].state # "live"
      BY <1>2, <2>4, <2>5 DEF Shared
    <3>2. Expect(a, z)'
      BY <1>2, <1>3, <2>1, <2>2, <3>1 DEF Expect
    <3>3. Agrees(n)'
      BY <1>2, <2>1, <2>2, <3>1 DEF Agrees, Z
    <3> QED
      BY <1>7, <2>2, <3>1, <3>2, <3>3
  <2> QED
    BY <1>2, <2>1, <2>2, <2>3, <2>4, <2>5, OneZone
<1>9. CASE DeletePowerDNSFails(a)
  <2>1. Goto(a, "row") /\ UNCHANGED <<zone, pdns>> /\ excuse' = [excuse EXCEPT ![n] = @ \union {"Failed"}]
        /\ excuse \in [Names -> SUBSET {"Failed", "Race", "Shared"}]
    BY <1>2, <1>9 DEF DeletePowerDNSFails, Blame, Inv, TypeOK
  <2>2. /\ calls'[a].pc = "row" /\ calls'[a].op = calls[a].op /\ calls'[a].zone = z
        /\ \A b \in Callers \ {a} : calls'[b] = calls[b]
    BY <1>2, <1>5, <2>1, Went
  <2>3. /\ "Failed" \in excuse'[n] /\ excuse[n] \subseteq excuse'[n]
        /\ \A m \in Names \ {n} : excuse'[m] = excuse[m]
    BY <2>1
  <2>4. PlaceOfCall(a)'
    BY <1>4, <2>2 DEF PlaceOfCall
  <2> QED
    BY <1>2, <2>1, <2>2, <2>3, <2>4, BlamedStep
<1>10. CASE DeleteRow(a)
  <2>1. /\ Goto(a, "ok") /\ UNCHANGED <<pdns, excuse>> /\ calls[a].pc = "row"
        /\ zone' = [zone EXCEPT ![z].state = "deleted"] /\ zone[z] \in ZoneRow
        /\ zone \in [Domains -> ZoneRow \union {NoRow}]
    BY <1>2, <1>10, CallFacts DEF DeleteRow, CopyOwner, Inv, TypeOK
  <2>2. /\ calls'[a].pc = "ok" /\ calls'[a].op = calls[a].op /\ calls'[a].zone = z
        /\ \A b \in Callers \ {a} : calls'[b] = calls[b]
    BY <1>2, <1>5, <2>1, Went
  <2>3. zone'[z].state = "deleted" /\ \A y \in Domains \ {z} : zone'[y] = zone[y]
    BY <2>1 DEF ZoneRow
  <2>4. PlaceOfCall(a)' /\ Expect(a, z)'
    BY <2>2 DEF PlaceOfCall, Expect
  <2>5. ASSUME excuse[n] = {} PROVE Agrees(n)'
    <3>1. Agrees(n) /\ n \notin pdns /\ n \notin pdns'
      BY <1>2, <1>3, <2>1, <2>5 DEF Expect
    <3>2. ASSUME NEW y \in Spellings(n), zone'[y].state = "live"
          PROVE  \E b \in Callers : Z(b)' = y /\ calls'[b].pc = "row"
      <4>1. y # z /\ y \in Domains
        BY <2>3, <3>2 DEF Spellings
      <4>2. PICK b \in Callers : Z(b) = y /\ calls[b].pc = "row"
        BY <2>3, <3>1, <3>2, <4>1 DEF Agrees
      <4> QED
        BY <1>2, <2>2, <4>1, <4>2 DEF Z
    <3> QED
      BY <3>1, <3>2 DEF Agrees
  <2> QED
    BY <1>2, <1>7, <2>1, <2>2, <2>3, <2>4, <2>5, OneZone
<1> QED
  BY <1>8, <1>9, <1>10

(* A whole row is saved over a live one, and the copy was alive.            *)
LEMMA SaveAgree ==
  ASSUME Inv, AgreeInv, NEW a \in Callers,
         \/ LookupNS(a) \/ LookupFails(a) \/ Save(a) \/ UpdateStatus(a) \/ UpdateZoneRRSets(a)
  PROVE  AgreeInv'
<1>1. calls[a].pc \in {"lookup", "save", "column", "patch"} /\ UNCHANGED <<pdns, excuse>>
  BY DEF LookupNS, LookupFails, Save, UpdateStatus, UpdateZoneRRSets
<1>2. PICK z \in Domains, n \in Names : Z(a) = z /\ n = Canonical[z] /\ P(a) = n /\ z \in Spellings(n)
  BY <1>1, CallFacts DEF Spellings
<1>3. /\ calls \in [Callers -> Call] /\ calls[a] \in Call /\ PlaceOfCall(a)
      /\ zone \in [Domains -> ZoneRow \union {NoRow}]
      /\ zone[z] \in ZoneRow /\ calls[a].copy \in ZoneRow
  BY <1>1, <1>2, CallFacts DEF AgreeInv, Inv, TypeOK, CopyOwner
<1>4. "ok" \in Pcs /\ "save" \in Pcs /\ "column" \in Pcs
  BY DEF Pcs
<1>5. ASSUME NEW pc \in {"ok", "save", "column"}, Goto(a, pc),
             pc # "ok" => calls[a].pc \in {"lookup", "save"},
             \A y \in Domains \ {z} : zone'[y] = zone[y],
             excuse[n] = {} => zone'[z].state = zone[z].state
      PROVE  AgreeInv'
  <2>1. /\ calls'[a].pc = pc /\ calls'[a].op = calls[a].op /\ calls'[a].copy = calls[a].copy
        /\ calls'[a].zone = z
        /\ \A b \in Callers \ {a} : calls'[b] = calls[b]
    BY <1>2, <1>4, <1>5, Went
  <2>2. PlaceOfCall(a)'
    BY <1>3, <1>5, <2>1 DEF PlaceOfCall
  <2>3. excuse[n] = {} /\ Expect(a, z) => Expect(a, z)'
    BY <1>5, <2>1 DEF Expect
  <2> QED
    BY <1>1, <1>2, <1>5, <2>1, <2>2, <2>3, QuietStep
<1>6. CASE LookupFails(a)
  BY <1>5, <1>6 DEF LookupFails
<1>7. CASE LookupNS(a)
  <2> DEFINE new == [calls[a] EXCEPT !.pc = "save", !.valid = TRUE]
  <2>1. /\ new.pc = "save" /\ new.op = calls[a].op /\ new.zone = z /\ new.copy = calls[a].copy
    BY <1>2, <1>3 DEF Call, Z
  <2>2. calls' = [calls EXCEPT ![a] = new] /\ UNCHANGED zone /\ calls[a].pc = "lookup"
    BY <1>3, <1>7 DEF LookupNS
  <2> HIDE DEF new
  <2>3. calls'[a] = new /\ \A b \in Callers \ {a} : calls'[b] = calls[b]
    BY <1>3, <2>2
  <2>4. PlaceOfCall(a)'
    BY <1>3, <2>1, <2>2, <2>3 DEF PlaceOfCall
  <2>5. Expect(a, z) => Expect(a, z)'
    BY <2>1, <2>2, <2>3 DEF Expect
  <2> QED
    BY <1>1, <1>2, <2>1, <2>2, <2>3, <2>4, <2>5, QuietStep
<1>8. CASE Save(a)
  <2> DEFINE row == IF calls[a].valid THEN [calls[a].copy EXCEPT !.status = "active"] ELSE calls[a].copy
             pc == IF calls[a].op = "janitor" /\ calls[a].valid THEN "column" ELSE "ok"
  <2>1. calls[a].pc = "save" /\ pc \in {"ok", "column"} /\ Goto(a, pc)
    BY <1>8 DEF Save
  <2>2. row.state = "live"
    BY <1>3, <2>1 DEF PlaceOfCall, ZoneRow
  <2>3. PICK new \in Saved(z, row) : zone' = [zone EXCEPT ![z] = new]
    BY <1>2, <1>8 DEF Save
  <2> HIDE DEF row, pc
  <2>4. excuse[n] = {} => zone[z].state = "live"
    BY <1>2, <2>1 DEF AgreeInv, Undisturbed, Expect
  <2>5. excuse[n] = {} => new.state = "live"
    BY <2>2, <2>3, <2>4 DEF Saved, GetZone
  <2>6. zone'[z] = new /\ \A y \in Domains \ {z} : zone'[y] = zone[y]
    BY <1>3, <2>3
  <2> QED
    BY <1>5, <2>1, <2>4, <2>5, <2>6
<1>9. CASE UpdateStatus(a)
  <2>1. Goto(a, "ok") /\ (zone' = zone \/ zone' = [zone EXCEPT ![z].status = "active"])
    BY <1>2, <1>9 DEF UpdateStatus
  <2>2. zone'[z].state = zone[z].state /\ \A y \in Domains \ {z} : zone'[y] = zone[y]
    BY <1>3, <2>1 DEF ZoneRow
  <2> QED
    BY <1>5, <2>1, <2>2
<1>10. CASE UpdateZoneRRSets(a)
  BY <1>5, <1>10 DEF UpdateZoneRRSets
<1> QED
  BY <1>6, <1>7, <1>8, <1>9, <1>10

(* A call that begins while a deletion is under way, or a deletion that     *)
(* begins while another call works on the row, is remembered; any other     *)
(* call has nothing to rely on yet.                                         *)
LEMMA BeginAgree ==
  ASSUME Inv, AgreeInv, NEW a \in Callers, NEW z \in Domains, NEW u \in Users, NEW op \in Ops,
         NEW c \in Contents \union {None}, Begin(a, op, z, u, c)
  PROVE  AgreeInv'
<1>1. /\ calls'[a].pc = "get" /\ calls'[a].op = op /\ calls'[a].zone = z
      /\ \A b \in Callers \ {a} : calls'[b] = calls[b]
      /\ calls[a].pc = "idle" /\ UNCHANGED <<zone, pdns>>
  BY DEF Begin, Inv, TypeOK
<1>2. PICK n \in Names : n = Canonical[z] /\ z \in Spellings(n)
  BY ZonesAssumption DEF Spellings
<1>3. /\ excuse'[n] = excuse[n] \union Overlaps(z, op)
      /\ \A m \in Names \ {n} : excuse'[m] = excuse[m]
  BY <1>2 DEF Begin, Inv, TypeOK
<1>4. \A b \in Callers : PlaceOfCall(b)'
  BY <1>1 DEF AgreeInv, PlaceOfCall
<1>5. ASSUME NEW m \in Names, excuse'[m] = {} PROVE Agrees(m)'
  <2>1. Agrees(m)
    BY <1>3, <1>5 DEF AgreeInv, Undisturbed
  <2> QED
    BY <1>1, <2>1 DEF Agrees, Z
<1>6. ASSUME NEW m \in Names, excuse'[m] = {}, NEW b \in Callers, NEW y \in Spellings(m), Z(b)' = y
      PROVE  Expect(b, y)'
  <2>1. CASE b = a
    BY <1>1, <2>1 DEF Expect
  <2>2. CASE b # a
    <3>1. Expect(b, y)
      BY <1>1, <1>3, <1>6, <2>2 DEF AgreeInv, Undisturbed, Z
    <3> QED
      BY <1>1, <2>2, <3>1 DEF Expect
  <2> QED
    BY <2>1, <2>2
<1>7. ASSUME excuse'[n] = {}, op \in RowOps, NEW b \in Callers \ {a}, Z(b) \in Spellings(n), calls[b].op \in RowOps
      PROVE  op # "delete" /\ calls[b].op # "delete"
  <2> DEFINE ops == {calls[d].op : d \in {e \in Callers : calls[e].zone \in Spellings(Canonical[z])}} \intersect RowOps
  <2>1. calls[b].op \in ops
    BY <1>2, <1>7 DEF Z
  <2>2. "Race" \notin Overlaps(z, op)
    BY <1>3, <1>7
  <2>3. ~(ops # {} /\ "delete" \in ops \union {op})
    BY <1>7, <2>2 DEF Overlaps
  <2> HIDE DEF ops
  <2> QED
    BY <2>1, <2>3
<1>8. ASSUME NEW m \in Names, excuse'[m] = {}, NEW b \in Callers, Z(b)' \in Spellings(m),
             calls'[b].op = "delete", NEW d \in Callers \ {b}, Z(d)' \in Spellings(m)
      PROVE  calls'[d].op \notin RowOps
  <2>1. "delete" \in RowOps
    BY DEF RowOps
  <2>2. b = a \/ d = a => m = n
    BY <1>1, <1>2, <1>8 DEF Spellings, Z
  <2>3. CASE b = a
    BY <1>1, <1>7, <1>8, <2>1, <2>2, <2>3 DEF Z
  <2>4. CASE d = a
    BY <1>1, <1>7, <1>8, <2>1, <2>2, <2>4 DEF Z
  <2>5. CASE b # a /\ d # a
    <3>1. PICK y \in Spellings(m) : Z(b) = y
      BY <1>1, <1>8, <2>5 DEF Z
    <3>2. Alone(b, y) /\ Canonical[y] = m
      BY <1>3, <1>8, <3>1 DEF AgreeInv, Undisturbed, Spellings
    <3> QED
      BY <1>1, <1>8, <2>5, <3>2 DEF Alone, Z
  <2> QED
    BY <2>3, <2>4, <2>5
<1>9. ASSUME NEW m \in Names PROVE Undisturbed(m)'
  <2>1. \A y \in Spellings(m) : Canonical[y] = m
    BY DEF Spellings
  <2> QED
    BY <1>5, <1>6, <1>8, <2>1 DEF Undisturbed, Alone
<1> QED
  BY <1>4, <1>9 DEF AgreeInv

(* Every step of the service keeps PowerDNS and the rows together.          *)
LEMMA NextAgree == Inv /\ AgreeInv /\ [Next]_vars => AgreeInv'
<1> SUFFICES ASSUME Inv, AgreeInv, [Next]_vars PROVE AgreeInv'
  OBVIOUS
<1>1. CASE UNCHANGED vars
  BY <1>1 DEF vars, AgreeInv, Undisturbed, Agrees, Expect, Alone, PlaceOfCall, Z
<1>2. ASSUME NEW a \in Callers, NEW z \in Domains, NEW u \in Users,
             NEW op \in Ops \ {"write"}, Begin(a, op, z, u, None)
      PROVE  AgreeInv'
  BY <1>2, BeginAgree
<1>3. ASSUME NEW a \in Callers, NEW z \in Domains, NEW u \in Users,
             NEW c \in Contents \union {None}, Begin(a, "write", z, u, c)
      PROVE  AgreeInv'
  BY <1>3, BeginAgree DEF Ops
<1>4. ASSUME NEW a \in Callers,
             \/ Get(a) \/ ReadFails(a) \/ Return(a)
             \/ CreateZone(a) \/ CreatePowerDNSZone(a) \/ CreatePowerDNSFails(a)
             \/ InsertRow(a) \/ InsertFails(a) \/ TakeDuplicate(a)
             \/ RestoreRow(a) \/ RestoreFails(a) \/ UndoRestore(a)
             \/ DeletePowerDNSZone(a) \/ DeletePowerDNSFails(a) \/ DeleteRow(a) \/ DeleteRowFails(a)
             \/ LookupNS(a) \/ LookupFails(a) \/ Save(a) \/ SaveFails(a) \/ UpdateStatus(a)
             \/ UpdateZoneRRSets(a) \/ UpdateZoneRRSetsFails(a)
      PROVE  AgreeInv'
  BY <1>4, GetAgree, FailAgree, CreateAgree, RestoreAgree, DeleteAgree, SaveAgree
<1> QED
  BY <1>1, <1>2, <1>3, <1>4 DEF Next, Finished

(* Between calls PowerDNS has exactly the names of which some spelling has  *)
(* a live row, for any number of concurrent creations, restorations, saves  *)
(* and record writes of any users and spellings, unless a request or a      *)
(* write for the name failed, a deletion overlapped with another call, or a *)
(* deletion took the PowerDNS zone from the live row of another spelling.   *)
THEOREM ZonesStayTogether == Spec => []ZonesAgree
<1>1. Inv /\ AgreeInv => ZonesAgree
  <2> SUFFICES ASSUME Inv, AgreeInv, NEW n \in Names, ~Working(n),
                      excuse[n] \intersect {"Failed", "Race", "Shared"} = {}
               PROVE  (\E z \in Spellings(n) : GetZone(z)) <=> n \in pdns
    BY DEF ZonesAgree
  <2>1. excuse[n] \subseteq {"Failed", "Race", "Shared"}
    BY DEF Inv, TypeOK
  <2>2. excuse[n] = {}
    BY <2>1
  <2>3. Agrees(n)
    BY <2>2 DEF AgreeInv, Undisturbed
  <2>4. \A a \in Callers : Z(a) \in Spellings(n) => calls[a].pc \notin {"row", "insert", "restore"}
    BY DEF Working, AgreeInv, PlaceOfCall, RowOps
  <2> QED
    BY <2>3, <2>4 DEF Agrees, GetZone
<1> QED
  BY <1>1, InitAgree, NextAgree, Invariant, PTL DEF Spec
-----------------------------------------------------------------------------
(***************************************************************************)
(* The records and the keys of one zone (ZoneRecords).  A client's call is *)
(* a sequence of requests, and between them other clients change the zone. *)
(* What a call relies on is stated of its own view: the RRsets that others *)
(* have changed since it looked (o) are excepted, so that a step of one    *)
(* client keeps the facts of all others (OthersKeep) and only its own are  *)
(* left to prove.                                                          *)
(***************************************************************************)
(* What a call keeps to at its place (dns_service_record.go): an entry it is *)
(* at is one of its request's, and what it has reported so far are entries   *)
(* before it.                                                                *)
PlaceOK(cl) ==
    LET r == cl.req
        n == Len(r.items) IN
    /\ cl.pc \in {"look", "purge"} => r.op = "import" /\ cl.i = 1 /\ cl.created = {}
    /\ cl.pc = "look" => DOMAIN cl.seen = {}
    /\ cl.pc = "purge" => r.mode = "replace" /\ ~r.dry /\ n > 0
    /\ cl.pc \in {"look", "purge"} => cl.refused = {}
    /\ cl.pc = "entry" => cl.refused \subseteq 0 .. (cl.i - 1)
    /\ cl.pc = "readBack" => cl.refused \subseteq 0 .. cl.i
    /\ cl.pc \in {"entry", "readBack"} => cl.i \in 1 .. n /\ cl.created \subseteq 1 .. (cl.i - 1) /\ r.op # "dnssec"
    /\ cl.pc = "entry" /\ r.op \in {"delete", "bulkDelete"} => cl.created = {}
    /\ cl.pc = "readBack" => r.op \in {"create", "import"} /\ ~r.dry
    /\ cl.pc \in {"enable", "getKeys", "createKey", "getAgain"} => r.op = "dnssec" /\ cl.created = {}
    /\ cl.pc = "done" => cl.created \subseteq 1 .. n

(* An import in merge mode has left what it found, but for names in letters  *)
(* other than PowerDNS's (o: what others changed, z: the zone).              *)
MergeKeeps(cl, o, z) ==
    cl.req.op = "import" /\ cl.req.mode = "merge" =>
        \A k \in DOMAIN cl.seen \ (o \cup Misspelled(cl.req)) : z[k] = cl.seen[k]

(* The entries that a call has written or passed over.                       *)
Past(cl) ==
    {j \in 1 .. Len(cl.req.items) : j < cl.i \/ (j = cl.i /\ cl.pc = "readBack") \/ cl.pc = "done"}
PastTaken(cl, k) == Taken(cl, k) \cap Past(cl)
LastPast(cl, j) ==
    LET past == PastTaken(cl, Key(cl.req.items[j]))
    IN j \in past /\ \A m \in past : m <= j

(* An import in replace mode has deleted what it did not find in the part of *)
(* the file that it has been through, and written the rest (d: whether the   *)
(* zone's domain has its final dot).                                         *)
Replacing(cl) ==
    /\ cl.req.op = "import" /\ cl.req.mode = "replace" /\ ~cl.req.dry /\ ~cl.fault
    /\ cl.req.items # <<>> /\ cl.pc # "look" /\ 0 \notin cl.refused
Purgeable(cl, k, d) == k \in DOMAIN cl.seen => Recovered(k, d)
ReplacedSoFar(cl, o, z, d) ==
    Replacing(cl) => \A k \in Keys \ o : ~Managed(k[2]) =>
        IF cl.pc = "purge" THEN k \notin DOMAIN cl.seen => z[k] = <<>>
        ELSE /\ PastTaken(cl, k) = {} /\ Purgeable(cl, k, d) => z[k] = <<>>
             /\ \A j \in PastTaken(cl, k) :
                   (\A m \in PastTaken(cl, k) : m <= j) => z[k] = Written(cl.req, cl.req.items[j])

(* What a creation reads back is what it has written.                        *)
ReadsOwn(cl, o, z) ==
    LET e == cl.req.items[cl.i]
        k == Key(e) IN
    cl.pc = "readBack" /\ k \notin o /\ cl.i \in Taken(cl, k) =>
        z[k] = Written(cl.req, e)

(* What a call has reported so far is there.                                 *)
Unquoted(e) == IF e.type = "TXT" THEN Content(e.content.text, FALSE) ELSE e.content
ReportHolds(cl, o, z) ==
    ~cl.req.dry =>
        \A j \in cl.created :
            LET e == cl.req.items[j] IN
            Key(e) \notin o =>
                IF cl.req.op \in {"delete", "bulkDelete"} THEN j \notin cl.refused => z[Key(e)] = <<>>
                ELSE /\ LastPast(cl, j) =>
                           /\ z[Key(e)] = Written(cl.req, e)
                           /\ cl.req.op = "create" /\ (\A m \in cl.created : m <= j) => cl.answer[1] = Unquoted(e)
                     /\ cl.req.op = "create" => z[Key(e)] # <<>>

ClientOK(cl, o, z, d) ==
    cl # NoCall =>
        /\ PlaceOK(cl)
        /\ MergeKeeps(cl, o, z) /\ ReplacedSoFar(cl, o, z, d)
        /\ ReadsOwn(cl, o, z) /\ ReportHolds(cl, o, z)

RecordsInv == RecordsTypeOK /\ \A c \in Clients : ClientOK(call[c], others[c], rrsets, dotted)

-----------------------------------------------------------------------------
(* What is assumed of requests and zones, spelled out.                       *)
LEMMA RequestFacts ==
  ASSUME ConstantsOK, NEW r \in Requests
  PROVE  /\ r.op \in {"create", "update", "delete", "bulkDelete", "import", "dnssec"}
         /\ r.mode \in {"merge", "replace", "update"}
         /\ r.dry \in BOOLEAN /\ (r.dry => r.op \in {"bulkDelete", "import"})
         /\ r.op \in {"update", "delete"} => Len(r.items) = 1
         /\ r.items \in Seq(Entries) /\ Len(r.items) \in Nat /\ DOMAIN r.items = 1 .. Len(r.items)
         /\ \A j \in 1 .. Len(r.items) : r.items[j] \in Entries
  BY DEF ConstantsOK, Request

(* What an entry writes is one content of the RRset it names. *)
LEMMA EntryFacts ==
  ASSUME ConstantsOK, NEW r \in Requests, NEW e \in Entries,
         r.op = "import" => e.content.text # <<>>
  PROVE  /\ e.content \in RecordContents /\ Key(e) \in Keys /\ Key(e)[2] = e.type
         /\ Written(r, e) \in Seq(RecordContents) /\ Len(Written(r, e)) = 1
<1>1. e.content \in RecordContents /\ Key(e) \in Keys
  BY DEF ConstantsOK
<1>2. Key(e)[2] = e.type
  BY DEF Key
<1>3. ASSUME NEW x \in RecordContents PROVE FormatRecordContent(e.type, x) \in RecordContents
  BY DEF FormatRecordContent, Content, RecordContents
<1>4. CASE r.op = "import"
  <2>1. ImportedContent(e) \in RecordContents
    BY <1>1, <1>4 DEF ImportedContent, Content, RecordContents, ConstantsOK
  <2> QED
    BY <1>1, <1>2, <1>3, <1>4, <2>1 DEF Written
<1>5. CASE r.op # "import"
  BY <1>1, <1>2, <1>3, <1>5 DEF Written
<1> QED
  BY <1>4, <1>5

(* Which entries of a call count for an RRset: entries of its request.       *)
LEMMA TakenFacts ==
  ASSUME ConstantsOK, NEW cl, cl.req \in Requests, NEW k
  PROVE  /\ Taken(cl, k) \subseteq 1 .. Len(cl.req.items)
         /\ \A j \in 1 .. Len(cl.req.items) :
               j \in Taken(cl, k) <=>
                   /\ Key(cl.req.items[j]) = k /\ j \notin cl.refused
                   /\ cl.req.op = "import" => cl.req.items[j].content.text # <<>>
  BY RequestFacts DEF Taken

(* What one client's step leaves of another's invariant: the other's call,   *)
(* and all RRsets but those that count as changed.                           *)
LEMMA OthersKeep ==
  ASSUME NEW cl, NEW o, NEW z, NEW o2, NEW z2, NEW d,
         IsCall(cl), ConstantsOK,
         ClientOK(cl, o, z, d), o \subseteq o2, \A k \in Keys : z2[k] # z[k] => k \in o2
  PROVE  ClientOK(cl, o2, z2, d)
<1> SUFFICES ASSUME cl # NoCall
             PROVE  ClientOK(cl, o2, z2, d)
  BY DEF ClientOK
<1>0. cl.req \in Requests /\ DOMAIN cl.seen \subseteq Keys
  BY DEF IsCall
<1>1. PlaceOK(cl)
  BY DEF ClientOK
<1>2. MergeKeeps(cl, o2, z2)
  BY <1>0 DEF ClientOK, MergeKeeps
<1>3. ReplacedSoFar(cl, o2, z2, d)
  BY <1>0 DEF ClientOK, ReplacedSoFar
<1>4. ReadsOwn(cl, o2, z2)
  <2> SUFFICES ASSUME cl.pc = "readBack" PROVE ReadsOwn(cl, o2, z2)
    BY DEF ReadsOwn
  <2>1. cl.i \in 1 .. Len(cl.req.items)
    BY <1>1 DEF PlaceOK
  <2>2. Key(cl.req.items[cl.i]) \in Keys
    BY <1>0, <2>1, RequestFacts DEF ConstantsOK
  <2> QED
    BY <2>2 DEF ClientOK, ReadsOwn
<1>5. ReportHolds(cl, o2, z2)
  <2> SUFFICES ASSUME ~cl.req.dry, NEW j \in cl.created,
                      Key(cl.req.items[j]) \notin o2
               PROVE  IF cl.req.op \in {"delete", "bulkDelete"}
                      THEN j \notin cl.refused => z2[Key(cl.req.items[j])] = <<>>
                      ELSE /\ LastPast(cl, j) =>
                                 /\ z2[Key(cl.req.items[j])] = Written(cl.req, cl.req.items[j])
                                 /\ cl.req.op = "create" /\ (\A m \in cl.created : m <= j) =>
                                        cl.answer[1] = Unquoted(cl.req.items[j])
                           /\ cl.req.op = "create" => z2[Key(cl.req.items[j])] # <<>>
    BY DEF ReportHolds
  <2>1. j \in 1 .. Len(cl.req.items)
    BY <1>0, <1>1, RequestFacts DEF PlaceOK, IsCall
  <2>2. Key(cl.req.items[j]) \in Keys
    BY <1>0, <2>1, RequestFacts DEF ConstantsOK
  <2>3. ReportHolds(cl, o, z)
    BY DEF ClientOK
  <2> QED
    BY <2>2, <2>3 DEF ReportHolds
<1> QED
  BY <1>1, <1>2, <1>3, <1>4, <1>5 DEF ClientOK

(* A step of one client, which leaves the others their calls and tells them  *)
(* what it changed, is safe for all when it is for its own call.             *)
LEMMA OneClient ==
  ASSUME ConstantsOK, RecordsInv, NEW c \in Clients, RecordsTypeOK',
         \A d \in Clients \ {c} : /\ call'[d] = call[d] /\ others[d] \subseteq others'[d]
                                  /\ \A k \in Keys : rrsets'[k] # rrsets[k] => k \in others'[d],
         UNCHANGED dotted, ClientOK(call'[c], others'[c], rrsets', dotted)
  PROVE  RecordsInv'
<1>1. ASSUME NEW d \in Clients \ {c} PROVE ClientOK(call'[d], others'[d], rrsets', dotted)
  <2>1. CASE call[d] = NoCall
    BY <2>1 DEF ClientOK
  <2>2. CASE call[d] # NoCall
    <3>1. IsCall(call[d]) /\ ClientOK(call[d], others[d], rrsets, dotted)
      BY <2>2 DEF RecordsInv, RecordsTypeOK
    <3> QED
      BY <3>1, OthersKeep
  <2> QED
    BY <2>1, <2>2
<1> QED
  BY <1>1 DEF RecordsInv

(* The calls of the others, and what Store tells them.                       *)
LEMMA StoreTells ==
  ASSUME RecordsTypeOK, NEW c \in Clients, NEW z \in [Keys -> Seq(RecordContents)], Store(c, z)
  PROVE  /\ rrsets' = z
         /\ others' \in [Clients -> SUBSET Keys] /\ others'[c] = others[c]
         /\ \A d \in Clients \ {c} : /\ others[d] \subseteq others'[d]
                                     /\ \A k \in Keys : rrsets'[k] # rrsets[k] => k \in others'[d]
  BY DEF RecordsTypeOK, Store

(* The steps in which a client's call goes on, and in which nothing but the  *)
(* RRsets, and the bound on failures, changes beside it.                     *)
LEMMA CallGoesOn ==
  ASSUME ConstantsOK, RecordsInv, NEW c \in Clients, NEW cl, IsCall(cl),
         NEW z \in [Keys -> Seq(RecordContents)],
         call' = [call EXCEPT ![c] = cl],
         Store(c, z) \/ (z = rrsets /\ UNCHANGED <<rrsets, others>>),
         Fault \/ UNCHANGED faults,
         UNCHANGED <<dotted, keys, overlap, given>>,
         ClientOK(cl, others[c], z, dotted)
  PROVE  RecordsInv'
<1>1. RecordsTypeOK /\ DOMAIN call = Clients
  BY DEF RecordsInv, RecordsTypeOK
<1>2. /\ rrsets' = z
      /\ others' \in [Clients -> SUBSET Keys] /\ others'[c] = others[c]
      /\ \A d \in Clients \ {c} : /\ others[d] \subseteq others'[d]
                                  /\ \A k \in Keys : rrsets'[k] # rrsets[k] => k \in others'[d]
  <2>1. CASE Store(c, z)
    BY <1>1, <2>1, StoreTells
  <2>2. CASE z = rrsets /\ UNCHANGED <<rrsets, others>>
    BY <1>1, <2>2 DEF RecordsTypeOK
  <2> QED
    BY <2>1, <2>2
<1>3. DOMAIN call' = Clients /\ call'[c] = cl /\ \A d \in Clients \ {c} : call'[d] = call[d]
  BY <1>1
<1>4. faults' \in 0 .. MaxFaults
  BY <1>1 DEF RecordsTypeOK, Fault, ConstantsOK
<1>5. RecordsTypeOK'
  BY <1>1, <1>2, <1>3, <1>4 DEF RecordsTypeOK
<1> QED
  BY <1>2, <1>3, <1>5, OneClient

(* A call that has begun, and its request.                                   *)
LEMMA ClientFacts ==
  ASSUME ConstantsOK, RecordsInv, NEW c \in Clients, call[c] # NoCall
  PROVE  /\ IsCall(call[c]) /\ call[c].req \in Requests
         /\ ClientOK(call[c], others[c], rrsets, dotted) /\ PlaceOK(call[c])
         /\ call[c].i \in Nat /\ call[c].created \subseteq Nat
         /\ rrsets \in [Keys -> Seq(RecordContents)] /\ others[c] \subseteq Keys
<1>1. IsCall(call[c]) /\ ClientOK(call[c], others[c], rrsets, dotted)
  BY DEF RecordsInv, RecordsTypeOK
<1>2. call[c].req \in Requests /\ call[c].i \in Nat /\ call[c].created \subseteq Nat
  BY <1>1 DEF IsCall
<1> QED
  BY <1>1, <1>2 DEF RecordsInv, RecordsTypeOK, ClientOK

(* Calls at a place have begun.                                              *)
LEMMA HasBegun ==
  ASSUME NEW c, call[c].pc # "idle"
  PROVE  call[c] # NoCall
  BY DEF NoCall

(* The next entry, or the end of the request (bulkRecords, ImportZoneFile).  *)
LEMMA NextEntryFacts ==
  ASSUME ConstantsOK, NEW x, IsCall(x), x.i \in 1 .. Len(x.req.items)
  PROVE  /\ IsCall(NextEntry(x))
         /\ LET y == NextEntry(x) IN
            /\ y.req = x.req /\ y.seen = x.seen /\ y.created = x.created
            /\ y.answer = x.answer /\ y.fault = x.fault /\ y.refused = x.refused
            /\ IF x.i = Len(x.req.items) THEN y.pc = "done"
               ELSE y.pc = "entry" /\ y.i = x.i + 1 /\ y.i \in 1 .. Len(x.req.items)
            /\ Past(y) = 1 .. x.i
<1> DEFINE y == NextEntry(x)
           n == Len(x.req.items)
<1>1. x.req \in Requests /\ x.i \in Nat /\ n \in Nat
  BY RequestFacts DEF IsCall
<1>2. y = IF x.i = n THEN [x EXCEPT !.pc = "done"] ELSE [x EXCEPT !.pc = "entry", !.i = x.i + 1]
  BY DEF NextEntry, IsCall
<1>3. IsCall(y)
  <2>1. y.seen = x.seen /\ \E S \in SUBSET Keys : x.seen \in [S -> Seq(RecordContents)]
    BY <1>2 DEF IsCall
  <2> DEFINE Shape == [pc : {"look", "purge", "entry", "readBack",
                             "enable", "getKeys", "createKey", "getAgain", "done"},
                       req : Requests, i : Nat, seen : {x.seen},
                       created : SUBSET Nat, skipped : SUBSET Nat, failed : SUBSET Nat,
                       refused : SUBSET Nat, answer : Seq(RecordContents), ds : Nat, fault : BOOLEAN]
  <2>2. x \in Shape
    BY DEF IsCall
  <2>3. [x EXCEPT !.pc = "done"] \in Shape
    BY <2>2
  <2>4. \A i \in Nat : [x EXCEPT !.pc = "entry", !.i = i] \in Shape
    BY <2>2
  <2>5. y \in Shape
    <3> HIDE DEF Shape, y
    <3>1. x.i + 1 \in Nat
      BY <1>1
    <3> QED
      BY <1>2, <2>3, <2>4, <3>1
  <2> QED
    BY <2>1, <2>5 DEF IsCall
<1>4. /\ y.req = x.req /\ y.seen = x.seen /\ y.created = x.created
      /\ y.answer = x.answer /\ y.fault = x.fault /\ y.refused = x.refused
      /\ IF x.i = n THEN y.pc = "done" /\ y.i = n
         ELSE y.pc = "entry" /\ y.i = x.i + 1 /\ y.i \in 1 .. n
  BY <1>1, <1>2 DEF IsCall
<1>5. Past(y) = 1 .. x.i
  BY <1>1, <1>4 DEF Past
<1> QED
  BY <1>3, <1>4, <1>5

(* A call (now x) has dealt with its entry, in the zone z: only the entry's   *)
(* RRset has changed, by its REPLACE, which PowerDNS may have refused; what it *)
(* reports as created is there, and an import in replace mode has written it. *)
Dealt(c, x, z) ==
    LET cl == call[c]
        r == cl.req
        e == r.items[cl.i]
        k == Key(e)
        fits == k \notin others[c] /\ cl.i \in Taken(x, k)
    IN
    /\ x.req = r /\ x.seen = cl.seen /\ (~x.fault => ~cl.fault)
    /\ x.refused = cl.refused \/ (cl.pc = "entry" /\ x.refused = cl.refused \union {cl.i})
    /\ \/ x.created = cl.created /\ x.answer = cl.answer
       \/ /\ x.created = cl.created \union {cl.i}
          /\ fits /\ ~r.dry => z[k] = Written(r, e)
          /\ fits /\ r.op = "create" => x.answer[1] = Unquoted(e)
          /\ k \notin others[c] /\ r.op = "create" => z[k] # <<>>
    /\ \A q \in Keys : z[q] # rrsets[q] =>
          /\ q = k /\ cl.i \in Taken(x, k) /\ z[q] # <<>>
          /\ r.op = "import" /\ r.mode = "merge" => k \notin DOMAIN cl.seen \/ k \in Misspelled(r)
    /\ r.op = "import" /\ r.mode = "replace" /\ ~x.fault /\ ~r.dry /\ ~Managed(k[2]) /\ fits =>
          z[k] = Written(r, e)

(* What it has done so far is still there, and the report is true.           *)
LEMMA EntryStep ==
  ASSUME ConstantsOK, RecordsInv, NEW c \in Clients, call[c].pc \in {"entry", "readBack"},
         call[c].req.op \notin {"delete", "bulkDelete"},
         NEW y, NEW z2, Dealt(c, y, z2),
         y.pc \in {"entry", "readBack", "done"}, Past(y) = 1 .. call[c].i,
         PlaceOK(y), ReadsOwn(y, others[c], z2)
  PROVE  ClientOK(y, others[c], z2, dotted)
<1> DEFINE cl == call[c]
           o == others[c]
           r == cl.req
           i == cl.i
           n == Len(r.items)
           e == r.items[i]
           k == Key(e)
           fits == k \notin o /\ i \in Taken(y, k)
<1>0. call[c].pc # "idle"
  OBVIOUS
<1>1. cl # NoCall
  BY Zenon, <1>0, HasBegun
<1>2. /\ IsCall(cl) /\ r \in Requests /\ ClientOK(cl, o, rrsets, dotted) /\ PlaceOK(cl)
      /\ cl.i \in Nat /\ cl.created \subseteq Nat /\ o \subseteq Keys
  BY Zenon, <1>1, ClientFacts
<1>4. y.req = r /\ y.seen = cl.seen /\ (~y.fault => ~cl.fault)
  BY Zenon DEF Dealt
<1>5. y.refused = cl.refused \/ (cl.pc = "entry" /\ y.refused = cl.refused \union {i})
  BY Zenon DEF Dealt
<1>6. \/ y.created = cl.created /\ y.answer = cl.answer
      \/ /\ y.created = cl.created \union {i}
         /\ fits /\ ~r.dry => z2[k] = Written(r, e)
         /\ fits /\ r.op = "create" => y.answer[1] = Unquoted(e)
         /\ k \notin o /\ r.op = "create" => z2[k] # <<>>
  BY Zenon DEF Dealt
<1>7. \A q \in Keys : z2[q] # rrsets[q] =>
         /\ q = k /\ i \in Taken(y, k) /\ z2[q] # <<>>
         /\ r.op = "import" /\ r.mode = "merge" => k \notin DOMAIN cl.seen \/ k \in Misspelled(r)
  BY DEF Dealt
<1>8. Replacing(y) /\ ~Managed(k[2]) /\ fits => z2[k] = Written(r, e)
  BY DEF Dealt, Replacing
<1>9. Past(y) = 1 .. i /\ cl.pc \in {"entry", "readBack"} /\ r.op \notin {"delete", "bulkDelete"}
  OBVIOUS
<1>10. /\ r = cl.req /\ i = cl.i /\ n = Len(r.items) /\ e = r.items[i] /\ k = Key(e)
       /\ fits <=> k \notin o /\ i \in Taken(y, k)
  OBVIOUS
<1>11. PlaceOK(y) /\ ReadsOwn(y, o, z2) /\ y.pc \in {"entry", "readBack", "done"}
  OBVIOUS
<1> HIDE DEF cl, o, r, i, n, e, k, fits
<1>3. i \in 1 .. n /\ cl.created \subseteq 1 .. (i - 1) /\ r.op # "dnssec" /\ n \in Nat
  BY <1>2, <1>9, <1>10, RequestFacts DEF PlaceOK
<1>12. y.created \subseteq 1 .. i
  BY <1>3, <1>6
<1>13. ASSUME NEW q
       PROVE  /\ \A j \in 1 .. (i - 1) : j \in Taken(y, q) <=> j \in Taken(cl, q)
              /\ i \in Taken(y, q) => q = k /\ i \in Taken(cl, q)
              /\ Taken(y, q) \subseteq 1 .. n /\ Taken(cl, q) \subseteq 1 .. n
  <2>1. /\ \A j \in 1 .. n : j \in Taken(cl, q) <=>
                Key(r.items[j]) = q /\ j \notin cl.refused /\ (r.op = "import" => r.items[j].content.text # <<>>)
        /\ Taken(cl, q) \subseteq 1 .. n
    <3>1. cl.req \in Requests
      BY <1>2, <1>10
    <3> QED
      BY <1>10, <3>1, TakenFacts
  <2>2. /\ \A j \in 1 .. n : j \in Taken(y, q) <=>
                Key(r.items[j]) = q /\ j \notin y.refused /\ (r.op = "import" => r.items[j].content.text # <<>>)
        /\ Taken(y, q) \subseteq 1 .. n
    <3>1. y.req \in Requests
      BY <1>2, <1>4
    <3>2. /\ Taken(y, q) \subseteq 1 .. Len(y.req.items)
          /\ \A j \in 1 .. Len(y.req.items) : j \in Taken(y, q) <=>
                Key(y.req.items[j]) = q /\ j \notin y.refused
                /\ (y.req.op = "import" => y.req.items[j].content.text # <<>>)
      BY <3>1, TakenFacts, Zenon
    <3> QED
      BY <1>4, <1>10, <3>2
  <2>3. \A j \in 1 .. (i - 1) : j \in 1 .. n /\ (j \in y.refused <=> j \in cl.refused)
    BY <1>3, <1>5
  <2>4. i \notin y.refused => i \notin cl.refused
    BY <1>5
  <2>5. \A j \in 1 .. (i - 1) : j \in Taken(y, q) <=> j \in Taken(cl, q)
    BY <2>1, <2>2, <2>3
  <2>6. i \in Taken(y, q) => q = k /\ i \in Taken(cl, q)
    BY <1>3, <1>10, <2>1, <2>2, <2>4
  <2> QED
    BY <2>1, <2>2, <2>5, <2>6
<1>14. ASSUME NEW q, i \notin Taken(y, q) PROVE PastTaken(y, q) = PastTaken(cl, q)
  <2>1. PastTaken(y, q) = Taken(cl, q) \cap 1 .. (i - 1)
    <3>1. PastTaken(y, q) = Taken(y, q) \cap 1 .. i
      BY Zenon, <1>9 DEF PastTaken
    <3>2. \A j \in 1 .. (i - 1) : j \in Taken(y, q) <=> j \in Taken(cl, q)
      BY <1>13
    <3> QED
      BY <1>3, <1>14, <3>1, <3>2
  <2>2. CASE cl.pc = "entry"
    <3>1. Past(cl) = 1 .. (i - 1)
      BY <1>3, <1>10, <2>2 DEF Past
    <3> QED
      BY Zenon, <2>1, <3>1 DEF PastTaken
  <2>3. CASE cl.pc = "readBack"
    <3>1. y.refused = cl.refused /\ y.req = cl.req
      BY <1>4, <1>5, <1>10, <2>3
    <3>2. Taken(cl, q) = Taken(y, q)
      BY Zenon, <3>1 DEF Taken
    <3>3. Past(cl) = 1 .. i
      BY <1>3, <1>10, <2>3 DEF Past
    <3>4. Past(y) = Past(cl)
      BY Zenon, <1>9, <3>3
    <3> QED
      BY Zenon, <3>2, <3>4 DEF PastTaken
  <2> QED
    BY <1>9, <2>2, <2>3
<1>15. MergeKeeps(y, o, z2)
  <2>1. \A q \in DOMAIN cl.seen : q \in Keys
    BY <1>2 DEF IsCall
  <2>2. MergeKeeps(cl, o, rrsets)
    BY <1>1, <1>2 DEF ClientOK
  <2> QED
    BY <1>4, <1>7, <1>10, <2>1, <2>2 DEF MergeKeeps
<1>16. ReplacedSoFar(y, o, z2, dotted)
  <2> SUFFICES ASSUME Replacing(y), NEW q \in Keys \ o, ~Managed(q[2])
               PROVE  /\ PastTaken(y, q) = {} /\ Purgeable(y, q, dotted) => z2[q] = <<>>
                      /\ \A j \in PastTaken(y, q) :
                            (\A m \in PastTaken(y, q) : m <= j) => z2[q] = Written(r, r.items[j])
    BY <1>4, <1>11 DEF ReplacedSoFar
  <2>1. Replacing(cl) /\ cl.pc # "purge"
    BY <1>3, <1>4, <1>5, <1>9, <1>10 DEF Replacing
  <2>2. ReplacedSoFar(cl, o, rrsets, dotted)
    BY <1>1, <1>2 DEF ClientOK
  <2>3. /\ PastTaken(cl, q) = {} /\ Purgeable(cl, q, dotted) => rrsets[q] = <<>>
        /\ \A j \in PastTaken(cl, q) :
              (\A m \in PastTaken(cl, q) : m <= j) => rrsets[q] = Written(r, r.items[j])
    BY <1>10, <2>1, <2>2 DEF ReplacedSoFar
  <2>4. Purgeable(y, q, dotted) <=> Purgeable(cl, q, dotted)
    BY <1>4 DEF Purgeable
  <2>5. PastTaken(y, q) = Taken(y, q) \cap 1 .. i
    BY Zenon, <1>9 DEF PastTaken
  <2>6. CASE i \in Taken(y, q)
    <3>1. q = k /\ fits
      BY <1>10, <1>13, <2>6
    <3>2. z2[q] = Written(r, r.items[i])
      BY <1>8, <1>10, <3>1
    <3>3. i \in PastTaken(y, q)
      BY <1>3, <2>5, <2>6
    <3>4. ASSUME NEW j \in PastTaken(y, q), \A m \in PastTaken(y, q) : m <= j PROVE j = i
      BY <1>3, <2>5, <3>3, <3>4
    <3> QED
      BY <3>2, <3>3, <3>4
  <2>7. CASE i \notin Taken(y, q)
    <3>1. z2[q] = rrsets[q]
      BY <1>7, <2>7
    <3>2. PastTaken(y, q) = PastTaken(cl, q)
      BY <1>14, <2>7
    <3> QED
      BY <2>3, <2>4, <3>1, <3>2
  <2> QED
    BY <2>6, <2>7
<1>17. ReportHolds(y, o, z2)
  <2> SUFFICES ASSUME ~r.dry, NEW j \in y.created, Key(r.items[j]) \notin o
               PROVE  /\ LastPast(y, j) =>
                            /\ z2[Key(r.items[j])] = Written(r, r.items[j])
                            /\ r.op = "create" /\ (\A m \in y.created : m <= j) => y.answer[1] = Unquoted(r.items[j])
                      /\ r.op = "create" => z2[Key(r.items[j])] # <<>>
    BY <1>4, <1>9 DEF ReportHolds
  <2>1. j \in 1 .. i
    BY <1>12
  <2>2. CASE j = i /\ j \notin cl.created
    <3>1. LastPast(y, j) => fits
      BY <1>4, <1>10, <2>2 DEF LastPast, PastTaken
    <3>2. /\ fits /\ ~r.dry => z2[k] = Written(r, e)
          /\ fits /\ r.op = "create" => y.answer[1] = Unquoted(e)
          /\ k \notin o /\ r.op = "create" => z2[k] # <<>>
      BY <1>6, <2>2
    <3> QED
      BY <1>10, <2>2, <3>1, <3>2
  <2>3. CASE j \in cl.created
    <3>1. ReportHolds(cl, o, rrsets)
      BY <1>1, <1>2 DEF ClientOK
    <3>2. /\ LastPast(cl, j) =>
                /\ rrsets[Key(r.items[j])] = Written(r, r.items[j])
                /\ r.op = "create" /\ (\A m \in cl.created : m <= j) => cl.answer[1] = Unquoted(r.items[j])
          /\ r.op = "create" => rrsets[Key(r.items[j])] # <<>>
      BY <1>9, <1>10, <2>3, <3>1 DEF ReportHolds
    <3>3. j < i /\ j \in 1 .. (i - 1)
      BY <1>3, <2>3
    <3>4. Key(r.items[j]) \in Keys
      <4>1. j \in 1 .. Len(r.items)
        BY <1>3, <1>10, <3>3
      <4>2. r.items[j] \in Entries
        BY <1>2, <4>1, RequestFacts
      <4> QED
        BY <4>2 DEF ConstantsOK
    <3>5. r.op = "create" => z2[Key(r.items[j])] # <<>>
      BY <1>7, <3>2, <3>4
    <3>6. ASSUME LastPast(y, j)
          PROVE  /\ z2[Key(r.items[j])] = Written(r, r.items[j])
                 /\ r.op = "create" /\ (\A m \in y.created : m <= j) => y.answer[1] = Unquoted(r.items[j])
      <4> DEFINE K == Key(r.items[j])
      <4>1. j \in PastTaken(y, K) /\ \A m \in PastTaken(y, K) : m <= j
        BY <1>4, <3>6 DEF LastPast
      <4>2. i \notin Taken(y, K)
        <5>1. PastTaken(y, K) = Taken(y, K) \cap 1 .. i
          BY Zenon, <1>9 DEF PastTaken
        <5> HIDE DEF K
        <5> QED
          BY <1>3, <3>3, <4>1, <5>1
      <4>3. PastTaken(y, K) = PastTaken(cl, K)
        BY <1>14, <4>2
      <4>4. z2[K] = rrsets[K]
        <5>1. K \in Keys
          BY <3>4
        <5> HIDE DEF K
        <5> QED
          BY <1>7, <4>2, <5>1
      <4>5. LastPast(cl, j)
        BY Zenon, <1>10, <4>1, <4>3 DEF LastPast
      <4>6. (\A m \in y.created : m <= j) => y.created = cl.created /\ y.answer = cl.answer
        <5>1. (y.created = cl.created /\ y.answer = cl.answer) \/ y.created = cl.created \union {i}
          BY Zenon, <1>6
        <5>2. ASSUME y.created = cl.created \union {i}, \A m \in y.created : m <= j PROVE FALSE
          <6>1. i \in y.created
            BY Zenon, <5>2
          <6>2. i <= j
            BY Zenon, <5>2, <6>1
          <6> QED
            BY <1>3, <3>3, <6>2
        <5> QED
          BY Zenon, <5>1, <5>2
      <4>7. z2[K] = Written(r, r.items[j])
        BY <3>2, <4>4, <4>5
      <4>8. r.op = "create" /\ (\A m \in y.created : m <= j) => y.answer[1] = Unquoted(r.items[j])
        BY <3>2, <4>5, <4>6
      <4> QED
        BY <4>7, <4>8
    <3> QED
      BY <3>5, <3>6
  <2> QED
    BY <1>3, <1>6, <2>1, <2>2, <2>3
<1> QED
  BY <1>11, <1>15, <1>16, <1>17 DEF ClientOK, o

(* An entry's part of a call ends, with a report or without: the next entry  *)
(* is due, or the request is through.                                        *)
LEMMA EntryEnds ==
  ASSUME ConstantsOK, RecordsInv, NEW c \in Clients, call[c].pc \in {"entry", "readBack"},
         call[c].req.op \notin {"delete", "bulkDelete"},
         NEW x, NEW z2, IsCall(x), x.i = call[c].i, Dealt(c, x, z2)
  PROVE  IsCall(NextEntry(x)) /\ ClientOK(NextEntry(x), others[c], z2, dotted)
<1> DEFINE cl == call[c]
           y == NextEntry(x)
           r == cl.req
           i == cl.i
           n == Len(r.items)
<1>1. /\ IsCall(cl) /\ r \in Requests /\ PlaceOK(cl) /\ cl.i \in Nat /\ cl.created \subseteq Nat
  BY HasBegun, ClientFacts
<1>2. i \in 1 .. n /\ cl.created \subseteq 1 .. (i - 1) /\ r.op # "dnssec" /\ n \in Nat
  BY <1>1, RequestFacts DEF PlaceOK
<1>0. /\ x.req = r /\ x.seen = cl.seen
      /\ x.refused = cl.refused \/ (cl.pc = "entry" /\ x.refused = cl.refused \union {i})
      /\ (x.created = cl.created \/ x.created = cl.created \union {i})
  BY DEF Dealt
<1>3. /\ IsCall(y)
      /\ y.req = r /\ y.seen = cl.seen /\ y.created = x.created
      /\ y.answer = x.answer /\ y.fault = x.fault /\ y.refused = x.refused
      /\ y.pc \in {"entry", "done"}
      /\ y.pc = "entry" => y.i = i + 1 /\ y.i \in 1 .. n
      /\ Past(y) = 1 .. i
  BY <1>0, <1>2, NextEntryFacts
<1> HIDE DEF y
<1>4. x.created \subseteq 1 .. i
  BY <1>0, <1>1, <1>2
<1>5. PlaceOK(y)
  <2>1. cl.refused \subseteq 0 .. i
    BY <1>1, <1>2 DEF PlaceOK
  <2>2. y.refused \subseteq 0 .. i
    BY <1>0, <1>2, <1>3, <2>1
  <2> QED
    BY SMTT(30), <1>1, <1>2, <1>3, <1>4, <2>2 DEF PlaceOK
<1>6. ReadsOwn(y, others[c], z2)
  BY SMTT(30), <1>3 DEF ReadsOwn
<1>7. Dealt(c, y, z2)
  <2>1. \A q : Taken(y, q) = Taken(x, q)
    BY <1>0, <1>3 DEF Taken
  <2> QED
    BY <1>0, <1>3, <2>1 DEF Dealt
<1>8. ClientOK(y, others[c], z2, dotted)
  BY <1>3, <1>5, <1>6, <1>7, EntryStep
<1> QED
  BY <1>3, <1>8 DEF y
-----------------------------------------------------------------------------
(* The entries of creations, updates and imports.                            *)

(* What a REPLACE changes (buildRRSet).                                      *)
LEMMA ReplacedFacts ==
  ASSUME ConstantsOK, rrsets \in [Keys -> Seq(RecordContents)],
         NEW r \in Requests, NEW e \in Entries, r.op = "import" => e.content.text # <<>>
  PROVE  /\ Replaced(r, e) \in [Keys -> Seq(RecordContents)]
         /\ Replaced(r, e)[Key(e)] = Written(r, e) /\ Written(r, e) # <<>>
         /\ \A q \in Keys : Replaced(r, e)[q] # rrsets[q] => q = Key(e)
<1>1. Key(e) \in Keys /\ Written(r, e) \in Seq(RecordContents) /\ Len(Written(r, e)) = 1
  BY EntryFacts
<1>2. Written(r, e) # <<>>
  BY DEF Written
<1> QED
  BY <1>1, <1>2 DEF Replaced

(* A call at an entry: the entry and its RRset.                              *)
LEMMA AtEntry ==
  ASSUME ConstantsOK, RecordsInv, NEW c \in Clients, call[c].pc \in {"entry", "readBack"}
  PROVE  LET r == call[c].req
             e == r.items[call[c].i] IN
         /\ IsCall(call[c]) /\ ClientOK(call[c], others[c], rrsets, dotted) /\ PlaceOK(call[c])
         /\ rrsets \in [Keys -> Seq(RecordContents)]
         /\ r \in Requests /\ call[c].i \in 1 .. Len(r.items) /\ call[c].i \in Nat
         /\ e \in Entries /\ e = Entry(c)
         /\ Key(e) \in Keys /\ Key(e)[2] = e.type
         /\ \A x : x.req = r =>
               (call[c].i \in Taken(x, Key(e)) <=>
                    call[c].i \notin x.refused /\ (r.op = "import" => e.content.text # <<>>))
<1> DEFINE r == call[c].req
           e == r.items[call[c].i]
<1>1. /\ IsCall(call[c]) /\ ClientOK(call[c], others[c], rrsets, dotted) /\ PlaceOK(call[c])
      /\ rrsets \in [Keys -> Seq(RecordContents)]
      /\ r \in Requests /\ call[c].i \in Nat
  BY HasBegun, ClientFacts
<1>2. call[c].i \in 1 .. Len(r.items)
  BY <1>1 DEF PlaceOK
<1>3. e \in Entries /\ e = Entry(c)
  BY <1>1, <1>2, RequestFacts DEF Entry
<1>4. Key(e) \in Keys /\ Key(e)[2] = e.type
  BY <1>3 DEF ConstantsOK, Key
<1>5. ASSUME NEW x, x.req = r
      PROVE  call[c].i \in Taken(x, Key(e)) <=>
                 call[c].i \notin x.refused /\ (r.op = "import" => e.content.text # <<>>)
  <2>1. call[c].i \in DOMAIN r.items
    BY <1>1, <1>2, RequestFacts
  <2> QED
    BY <1>5, <2>1 DEF Taken
<1> QED
  BY <1>1, <1>2, <1>3, <1>4, <1>5

(* A call that reports its entry: what else it holds.                        *)
SameBut(x, cl) ==
    /\ IsCall(x)
    /\ x.req = cl.req /\ x.seen = cl.seen /\ x.i = cl.i /\ x.fault = cl.fault /\ x.answer = cl.answer
    /\ x.refused = cl.refused

(* Reporting an entry changes nothing else of the call. *)
LEMMA Reports ==
  ASSUME NEW cl, IsCall(cl)
  PROVE  /\ LET x == [cl EXCEPT !.created = @ \cup {cl.i}] IN SameBut(x, cl) /\ x.created = cl.created \union {cl.i}
         /\ LET x == [cl EXCEPT !.skipped = @ \cup {cl.i}] IN SameBut(x, cl) /\ x.created = cl.created
         /\ LET x == [cl EXCEPT !.failed = @ \cup {cl.i}] IN SameBut(x, cl) /\ x.created = cl.created
<1> DEFINE Shape == [pc : {"look", "purge", "entry", "readBack",
                           "enable", "getKeys", "createKey", "getAgain", "done"},
                     req : Requests, i : Nat, seen : {cl.seen},
                     created : SUBSET Nat, skipped : SUBSET Nat, failed : SUBSET Nat,
                     refused : SUBSET Nat, answer : Seq(RecordContents), ds : Nat, fault : BOOLEAN]
<1>1. cl \in Shape /\ cl.i \in Nat /\ \E S \in SUBSET Keys : cl.seen \in [S -> Seq(RecordContents)]
  BY DEF IsCall
<1>2. \A x \in Shape : x.seen = cl.seen => IsCall(x)
  BY <1>1 DEF IsCall
<1>3. /\ [cl EXCEPT !.created = @ \cup {cl.i}] \in Shape
      /\ [cl EXCEPT !.skipped = @ \cup {cl.i}] \in Shape
      /\ [cl EXCEPT !.failed = @ \cup {cl.i}] \in Shape
  BY <1>1
<1> QED
  BY <1>1, <1>2, <1>3 DEF SameBut

(* Entries of an import that are not written (ImportZoneFile).               *)
LEMMA ReportEntrySafe ==
  ASSUME ConstantsOK, RecordsInv, NEW c \in Clients, ReportEntry(c)
  PROVE  RecordsInv'
<1> DEFINE cl == call[c]
           r == cl.req
           i == cl.i
           e == r.items[i]
           k == Key(e)
<1>1. cl.pc = "entry" /\ r.op = "import" /\ UNCHANGED <<dotted, rrsets, keys, overlap, others, given, faults>>
  BY DEF ReportEntry, At
<1>2. /\ IsCall(cl) /\ e = Entry(c) /\ k[2] = e.type /\ rrsets \in [Keys -> Seq(RecordContents)]
      /\ \A x : x.req = r /\ i \in Taken(x, k) => e.content.text # <<>>
  BY <1>1, AtEntry
<1>3. PICK x : /\ \/ x = [cl EXCEPT !.created = @ \cup {cl.i}] /\ r.dry
                  \/ /\ x = [cl EXCEPT !.skipped = @ \cup {cl.i}]
                     /\ Managed(e.type) \/ r.mode = "merge"
                  \/ x = [cl EXCEPT !.failed = @ \cup {cl.i}] /\ e.content.text = <<>>
               /\ call' = [call EXCEPT ![c] = NextEntry(x)]
  <2>1. CASE SkipEntry(c)
    BY <1>2, <2>1 DEF SkipEntry, Skipped, Kept
  <2>2. CASE EmptyEntry(c)
    BY <1>2, <2>2 DEF EmptyEntry, Failed
  <2>3. CASE DryEntry(c)
    BY <2>3 DEF DryEntry, Created
  <2> QED
    BY <2>1, <2>2, <2>3 DEF ReportEntry
<1>4. SameBut(x, cl) /\ (x.created = cl.created \/ (x.created = cl.created \union {i} /\ r.dry))
  <2>1. CASE x = [cl EXCEPT !.created = @ \cup {cl.i}] /\ r.dry
    BY <1>2, <2>1, Reports
  <2>2. CASE x = [cl EXCEPT !.skipped = @ \cup {cl.i}] \/ x = [cl EXCEPT !.failed = @ \cup {cl.i}]
    BY <1>2, <2>2, Reports
  <2> QED
    BY <1>3, <2>1, <2>2
<1>5. Dealt(c, x, rrsets)
  <2> HIDE DEF k
  <2>1. k = Key(e) /\ k[2] = e.type /\ (i \in Taken(x, k) => e.content.text # <<>>)
    BY <1>2, <1>4 DEF k, SameBut
  <2> QED
    BY <1>1, <1>3, <1>4, <2>1 DEF Dealt, SameBut, k
<1>6. x.i = i /\ IsCall(x) /\ r.op \notin {"delete", "bulkDelete"} /\ cl.pc \in {"entry", "readBack"}
  BY <1>1, <1>4 DEF SameBut
<1>7. IsCall(NextEntry(x)) /\ ClientOK(NextEntry(x), others[c], rrsets, dotted)
  BY <1>5, <1>6, EntryEnds
<1> QED
  BY <1>1, <1>2, <1>3, <1>7, CallGoesOn

(* What a write changes: the RRset of its entry, and in merge mode none that *)
(* the import found, unless it was named in other letters (CreateRecord,     *)
(* UpdateRecord); nothing when PowerDNS refuses it, which is remembered.     *)
LEMMA WriteFacts ==
  ASSUME ConstantsOK, RecordsInv, NEW c \in Clients, call[c].pc = "entry",
         ToWrite(c), ~call[c].req.dry,
         NEW x, x.req = call[c].req /\ x.seen = call[c].seen /\ (~x.fault => ~call[c].fault),
         NEW z,
         \/ z = Replaced(call[c].req, Entry(c)) /\ x.refused = call[c].refused
         \/ z = rrsets /\ x.refused = call[c].refused \union {call[c].i}
  PROVE  /\ z \in [Keys -> Seq(RecordContents)]
         /\ call[c].req.op \in {"create", "update", "import"}
         /\ x.created = call[c].created /\ x.answer = call[c].answer => Dealt(c, x, z)
         /\ x.created = call[c].created \union {call[c].i} /\ call[c].req.op # "create" => Dealt(c, x, z)
         /\ LET e == call[c].req.items[call[c].i] IN call[c].i \in Taken(x, Key(e)) => z[Key(e)] = Written(call[c].req, e)
<1> DEFINE cl == call[c]
           r == cl.req
           i == cl.i
           e == r.items[i]
           k == Key(e)
<1>1. /\ r \in Requests /\ e \in Entries /\ e = Entry(c) /\ k \in Keys
      /\ rrsets \in [Keys -> Seq(RecordContents)]
      /\ i \in Taken(x, k) <=> i \notin x.refused /\ (r.op = "import" => e.content.text # <<>>)
      /\ i \in Nat /\ i \in 1 .. Len(r.items) /\ PlaceOK(cl)
  BY AtEntry
<1>2. /\ r.op \in {"create", "update", "import"}
      /\ r.op = "import" => e.content.text # <<>> /\ ~Kept(c)
  BY <1>1 DEF ToWrite
<1>3. r.op = "import" /\ r.mode = "merge" => k \notin DOMAIN cl.seen \/ k \in Misspelled(r)
  <2>1. i \in DOMAIN r.items
    BY <1>1, RequestFacts
  <2>2. SpelledKey(e) # k => k \in Misspelled(r)
    BY <2>1 DEF Misspelled
  <2> QED
    BY <1>1, <1>2, <2>2 DEF Kept, Known
<1>4. i \notin cl.refused
  BY <1>1 DEF PlaceOK
<1>5. /\ z \in [Keys -> Seq(RecordContents)]
      /\ i \in Taken(x, k) => z[k] = Written(r, e)
      /\ \A q \in Keys : z[q] # rrsets[q] => q = k /\ i \in Taken(x, k) /\ z[q] # <<>>
  <2>1. CASE z = Replaced(r, e) /\ x.refused = cl.refused
    BY <1>1, <1>2, <1>4, <2>1, ReplacedFacts
  <2>2. CASE z = rrsets /\ x.refused = cl.refused \union {i}
    BY <1>1, <2>2
  <2> QED
    BY <1>1, <2>1, <2>2
<1>6. ASSUME \/ x.created = cl.created /\ x.answer = cl.answer
             \/ x.created = cl.created \union {i} /\ r.op # "create"
      PROVE  Dealt(c, x, z)
  BY <1>3, <1>5, <1>6 DEF Dealt
<1> QED
  BY <1>2, <1>5, <1>6

(* A request that has been answered, or has failed.                          *)
LEMMA Faulty ==
  ASSUME NEW x, IsCall(x)
  PROVE  /\ IsCall([x EXCEPT !.fault = TRUE])
         /\ LET y == [x EXCEPT !.fault = TRUE] IN
            /\ y.fault /\ y.req = x.req /\ y.i = x.i /\ y.pc = x.pc /\ y.seen = x.seen
            /\ y.created = x.created /\ y.answer = x.answer /\ y.refused = x.refused
         /\ [NextEntry(x) EXCEPT !.fault = TRUE] = NextEntry([x EXCEPT !.fault = TRUE])
<1> DEFINE Shape == [pc : {"look", "purge", "entry", "readBack",
                           "enable", "getKeys", "createKey", "getAgain", "done"},
                     req : Requests, i : Nat, seen : {x.seen},
                     created : SUBSET Nat, skipped : SUBSET Nat, failed : SUBSET Nat,
                     refused : SUBSET Nat, answer : Seq(RecordContents), ds : Nat, fault : BOOLEAN]
<1>1. x \in Shape /\ \E S \in SUBSET Keys : x.seen \in [S -> Seq(RecordContents)]
  BY DEF IsCall
<1>2. \A y \in Shape : y.seen = x.seen => IsCall(y)
  BY <1>1 DEF IsCall
<1>3. [x EXCEPT !.fault = TRUE] \in Shape
  BY <1>1
<1>4. [NextEntry(x) EXCEPT !.fault = TRUE] = NextEntry([x EXCEPT !.fault = TRUE])
  BY <1>1 DEF NextEntry
<1> QED
  BY <1>1, <1>2, <1>3, <1>4

(* An entry is written, or PowerDNS refuses to (CreateRecord, UpdateRecord). *)
LEMMA WriteEntrySafe ==
  ASSUME ConstantsOK, RecordsInv, NEW c \in Clients, WriteEntry(c) \/ WriteEntryRefused(c)
  PROVE  RecordsInv'
<1> DEFINE cl == call[c]
           r == cl.req
           i == cl.i
           Same(x) == /\ IsCall(x) /\ x.pc = "entry" /\ x.req = r /\ x.seen = cl.seen /\ x.i = i
                      /\ x.fault = cl.fault /\ x.created = cl.created /\ x.answer = cl.answer
<1>1. cl.pc = "entry" /\ ToWrite(c) /\ ~r.dry /\ UNCHANGED <<dotted, keys, overlap, given, faults>>
  BY DEF WriteEntry, WriteEntryRefused, At
<1>2. /\ IsCall(cl) /\ PlaceOK(cl) /\ r \in Requests /\ i \in 1 .. Len(r.items) /\ i \in Nat
      /\ rrsets \in [Keys -> Seq(RecordContents)]
  BY <1>1, AtEntry
<1>3. PICK w, z : /\ Same(w) /\ call' = [call EXCEPT ![c] = Answer(c, w)]
                  /\ \/ z = Replaced(r, Entry(c)) /\ w.refused = cl.refused
                     \/ z = rrsets /\ w.refused = cl.refused \union {i}
                  /\ Store(c, z) \/ (z = rrsets /\ UNCHANGED <<rrsets, others>>)
  <2>1. CASE WriteEntry(c)
    <3>1. Same(cl)
      BY <1>1, <1>2
    <3>2. call' = [call EXCEPT ![c] = Answer(c, cl)] /\ Store(c, Replaced(r, Entry(c)))
      BY <2>1 DEF WriteEntry
    <3> QED
      BY <3>1, <3>2
  <2>2. CASE WriteEntryRefused(c)
    <3> DEFINE w == Refused(cl, {i})
               Shape == [pc : {"look", "purge", "entry", "readBack",
                               "enable", "getKeys", "createKey", "getAgain", "done"},
                         req : Requests, i : Nat, seen : {cl.seen},
                         created : SUBSET Nat, skipped : SUBSET Nat, failed : SUBSET Nat,
                         refused : SUBSET Nat, answer : Seq(RecordContents), ds : Nat, fault : BOOLEAN]
    <3>1. cl \in Shape /\ \E S \in SUBSET Keys : cl.seen \in [S -> Seq(RecordContents)]
      BY <1>2 DEF IsCall
    <3>2. w \in Shape
      BY <1>2, <3>1 DEF Refused
    <3>3. IsCall(w)
      BY <3>1, <3>2 DEF IsCall
    <3>4. Same(w) /\ w.refused = cl.refused \union {i}
      BY <1>1, <3>1, <3>3 DEF Refused
    <3> HIDE DEF w
    <3>5. call' = [call EXCEPT ![c] = Answer(c, w)] /\ UNCHANGED <<rrsets, others>>
      BY <2>2 DEF WriteEntryRefused, w
    <3> QED
      BY <3>4, <3>5
  <2> QED
    BY <2>1, <2>2
<1>4. z \in [Keys -> Seq(RecordContents)] /\ r.op \in {"create", "update", "import"} /\ Dealt(c, w, z)
      /\ (LET e == r.items[i] IN i \in Taken(w, Key(e)) => z[Key(e)] = Written(r, e))
  BY <1>1, <1>3, WriteFacts
<1>5. CASE Creates(c)
  <2> DEFINE y == [w EXCEPT !.pc = "readBack"]
  <2>1. /\ IsCall(y) /\ y.req = r /\ y.seen = cl.seen /\ y.pc = "readBack" /\ y.fault = cl.fault
        /\ y.created = cl.created /\ y.answer = cl.answer /\ y.i = i /\ y.refused = w.refused
    <3> DEFINE Shape == [pc : {"look", "purge", "entry", "readBack",
                               "enable", "getKeys", "createKey", "getAgain", "done"},
                         req : Requests, i : Nat, seen : {w.seen},
                         created : SUBSET Nat, skipped : SUBSET Nat, failed : SUBSET Nat,
                         refused : SUBSET Nat, answer : Seq(RecordContents), ds : Nat, fault : BOOLEAN]
    <3>1. w \in Shape /\ \E S \in SUBSET Keys : w.seen \in [S -> Seq(RecordContents)]
      BY <1>3 DEF IsCall
    <3>2. y \in Shape
      BY <3>1
    <3> QED
      BY <1>3, <3>1, <3>2 DEF IsCall
  <2> HIDE DEF y
  <2>2. Past(y) = 1 .. i
    BY <1>2, <2>1, RequestFacts DEF Past
  <2>3. r.op \in {"create", "import"}
    BY <1>5 DEF Creates
  <2>4. PlaceOK(y)
    <3>1. y.refused \subseteq 0 .. i
      BY <1>1, <1>2, <1>3, <2>1 DEF PlaceOK
    <3> QED
      BY <1>1, <1>2, <2>1, <2>3, <3>1 DEF PlaceOK
  <2>5. \A q : Taken(y, q) = Taken(w, q)
    BY <1>3, <2>1 DEF Taken
  <2>6. Dealt(c, y, z)
    BY <1>3, <1>4, <2>1, <2>5 DEF Dealt
  <2>7. ReadsOwn(y, others[c], z)
    BY <1>4, <2>1, <2>5 DEF ReadsOwn
  <2>8. ClientOK(y, others[c], z, dotted)
    BY <1>1, <1>4, <2>1, <2>2, <2>4, <2>6, <2>7, EntryStep
  <2>9. call' = [call EXCEPT ![c] = y]
    BY <1>3, <1>5 DEF Answer, y
  <2> QED
    BY <1>1, <1>3, <1>4, <2>1, <2>8, <2>9, CallGoesOn
<1>6. CASE ~Creates(c)
  <2> DEFINE x == [w EXCEPT !.created = @ \cup {w.i}]
  <2>1. SameBut(x, w) /\ x.created = cl.created \union {i}
    BY <1>3, Reports
  <2>2. r.op # "create"
    BY <1>6 DEF Creates
  <2>3. call' = [call EXCEPT ![c] = NextEntry(x)]
    BY <1>3, <1>6 DEF Answer, Created
  <2> HIDE DEF x
  <2>4. Dealt(c, x, z)
    BY <1>1, <1>3, <2>1, <2>2, WriteFacts DEF SameBut
  <2>5. IsCall(NextEntry(x)) /\ ClientOK(NextEntry(x), others[c], z, dotted)
    BY <1>1, <1>3, <1>4, <2>1, <2>4, EntryEnds DEF SameBut
  <2> QED
    BY <1>1, <1>3, <1>4, <2>3, <2>5, CallGoesOn
<1> QED
  BY <1>5, <1>6

(* A request about an entry that failed, before or after PowerDNS carried it *)
(* out.                                                                      *)
LEMMA EntryFails ==
  ASSUME ConstantsOK, RecordsInv, NEW c \in Clients, call[c].pc \in {"entry", "readBack"},
         call[c].req.op \notin {"delete", "bulkDelete"}
  PROVE  LET x == [[call[c] EXCEPT !.failed = @ \cup {call[c].i}] EXCEPT !.fault = TRUE] IN
         /\ [Failed(call[c]) EXCEPT !.fault = TRUE] = NextEntry(x)
         /\ IsCall(x) /\ x.req = call[c].req /\ x.seen = call[c].seen /\ x.i = call[c].i /\ x.fault
         /\ x.created = call[c].created /\ x.answer = call[c].answer
         /\ x.refused = call[c].refused
         /\ Dealt(c, x, rrsets)
<1> DEFINE cl == call[c]
           w == [cl EXCEPT !.failed = @ \cup {cl.i}]
           x == [w EXCEPT !.fault = TRUE]
<1>1. IsCall(cl)
  BY AtEntry
<1>2. SameBut(w, cl) /\ w.created = cl.created
  BY <1>1, Reports
<1>3. Failed(cl) = NextEntry(w)
  BY DEF Failed
<1>4. /\ [NextEntry(w) EXCEPT !.fault = TRUE] = NextEntry(x)
      /\ IsCall(x) /\ x.req = cl.req /\ x.seen = cl.seen /\ x.i = cl.i /\ x.fault
      /\ x.created = cl.created /\ x.answer = cl.answer /\ x.refused = cl.refused
  <2> HIDE DEF w
  <2> QED
    BY <1>2, Faulty DEF SameBut
<1>5. Dealt(c, x, rrsets)
  <2> HIDE DEF x, w
  <2> QED
    BY <1>4 DEF Dealt
<1> QED
  BY <1>3, <1>4, <1>5

(* A write that fails, whether it reached the zone or not, is reported as failed. *)
LEMMA WriteEntryFailsSafe ==
  ASSUME ConstantsOK, RecordsInv, NEW c \in Clients, NEW carried, WriteEntryFails(c, carried)
  PROVE  RecordsInv'
<1> DEFINE cl == call[c]
           x == [[cl EXCEPT !.failed = @ \cup {cl.i}] EXCEPT !.fault = TRUE]
           z1 == Replaced(cl.req, Entry(c))
           z2 == IF carried THEN z1 ELSE rrsets
<1>1. /\ cl.pc = "entry" /\ ToWrite(c) /\ ~cl.req.dry /\ Store(c, z2) /\ Fault
      /\ call' = [call EXCEPT ![c] = [Failed(cl) EXCEPT !.fault = TRUE]]
      /\ UNCHANGED <<dotted, keys, overlap, given>>
  BY DEF WriteEntryFails, At
<1>2. cl.req.op \notin {"delete", "bulkDelete"}
  BY <1>1 DEF ToWrite
<1>3. /\ [Failed(cl) EXCEPT !.fault = TRUE] = NextEntry(x)
      /\ IsCall(x) /\ x.req = cl.req /\ x.seen = cl.seen /\ x.i = cl.i /\ x.fault
      /\ x.created = cl.created /\ x.answer = cl.answer /\ x.refused = cl.refused
      /\ Dealt(c, x, rrsets)
  BY <1>1, <1>2, EntryFails
<1> HIDE DEF x
<1>4. Dealt(c, x, z1) /\ z1 \in [Keys -> Seq(RecordContents)]
  BY <1>1, <1>3, WriteFacts
<1> HIDE DEF z1
<1>5. rrsets \in [Keys -> Seq(RecordContents)]
  BY <1>1, AtEntry
<1>6. Dealt(c, x, z2) /\ z2 \in [Keys -> Seq(RecordContents)]
  BY <1>3, <1>4, <1>5
<1> HIDE DEF z2
<1>7. IsCall(NextEntry(x)) /\ ClientOK(NextEntry(x), others[c], z2, dotted)
  BY <1>1, <1>2, <1>3, <1>6, EntryEnds
<1> QED
  BY <1>1, <1>3, <1>6, <1>7, CallGoesOn

(* The RRset is read back (CreateRecord: GetRRSet, stripTXTQuotes).          *)
LEMMA Quotes ==
  ASSUME NEW e, e.content \in RecordContents
  PROVE  StripTXTQuotes(e.type, FormatRecordContent(e.type, e.content)) = Unquoted(e)
  BY DEF StripTXTQuotes, FormatRecordContent, Content, RecordContents, Unquoted

(* An entry is reported as created only when it is read back as it was written. *)
LEMMA ReadBackSafe ==
  ASSUME ConstantsOK, RecordsInv, NEW c \in Clients, ReadBack(c)
  PROVE  RecordsInv'
<1> DEFINE cl == call[c]
           r == cl.req
           i == cl.i
           e == r.items[i]
           k == Key(e)
           found == IF SpelledKey(e) = k THEN rrsets[k] ELSE <<>>
           got == <<StripTXTQuotes(e.type, found[1])>>
<1>1. cl.pc = "readBack" /\ UNCHANGED <<dotted, rrsets, keys, overlap, others, given, faults>>
  BY DEF ReadBack, At
<1>2. /\ IsCall(cl) /\ ClientOK(cl, others[c], rrsets, dotted) /\ PlaceOK(cl) /\ r \in Requests
      /\ rrsets \in [Keys -> Seq(RecordContents)] /\ e \in Entries /\ e = Entry(c) /\ k \in Keys
  BY <1>1, AtEntry
<1>3. call' = [call EXCEPT ![c] = IF found = <<>> THEN Failed(cl) ELSE Created([cl EXCEPT !.answer = got])]
  BY <1>2 DEF ReadBack
<1>4. r.op \in {"create", "import"} /\ ~r.dry
  BY <1>1, <1>2 DEF PlaceOK
<1>5. k \notin others[c] /\ i \in Taken(cl, k) => rrsets[k] = Written(r, e)
  <2>1. cl # NoCall
    BY <1>1, HasBegun
  <2> QED
    BY <1>1, <1>2, <2>1 DEF ClientOK, ReadsOwn
<1>6. CASE found = <<>>
  <2> DEFINE x == [cl EXCEPT !.failed = @ \cup {cl.i}]
  <2>1. SameBut(x, cl) /\ x.created = cl.created
    BY <1>2, Reports
  <2>2. call' = [call EXCEPT ![c] = NextEntry(x)]
    BY <1>3, <1>6 DEF Failed
  <2> HIDE DEF x
  <2>3. Dealt(c, x, rrsets)
    <3>1. \A q : Taken(x, q) = Taken(cl, q)
      BY <2>1 DEF Taken, SameBut
    <3> HIDE DEF found
    <3> QED
      BY <1>5, <2>1, <3>1 DEF Dealt, SameBut
  <2>4. IsCall(NextEntry(x)) /\ ClientOK(NextEntry(x), others[c], rrsets, dotted)
    BY <1>1, <1>4, <2>1, <2>3, EntryEnds DEF SameBut
  <2> QED
    BY <1>1, <1>2, <2>2, <2>4, CallGoesOn
<1>7. CASE found # <<>>
  <2>0. found = rrsets[k]
    BY <1>7
  <2> DEFINE w == [cl EXCEPT !.answer = got]
             x == [w EXCEPT !.created = @ \cup {w.i}]
  <2>1. got \in Seq(RecordContents) /\ got[1] = StripTXTQuotes(e.type, found[1])
    <3>1. found[1] \in RecordContents
      BY <1>2, <1>7, <2>0
    <3>2. StripTXTQuotes(e.type, found[1]) \in RecordContents
      BY <3>1 DEF StripTXTQuotes, Content, RecordContents
    <3> QED
      BY <3>2
  <2>2. r.op = "create" /\ found = Written(r, e) => got[1] = Unquoted(e)
    <3> SUFFICES ASSUME r.op = "create", found = Written(r, e)
                 PROVE  StripTXTQuotes(e.type, found[1]) = Unquoted(e)
      BY <2>1
    <3>1. found[1] = FormatRecordContent(e.type, e.content)
      BY DEF Written
    <3>2. e.content \in RecordContents
      BY <1>2 DEF ConstantsOK
    <3> QED
      BY <3>1, <3>2, Quotes
  <2>3. /\ IsCall(w) /\ w.req = r /\ w.seen = cl.seen /\ w.i = i /\ w.fault = cl.fault
        /\ w.answer = got /\ w.created = cl.created /\ w.refused = cl.refused
    <3> HIDE DEF got
    <3> DEFINE Shape == [pc : {"look", "purge", "entry", "readBack",
                               "enable", "getKeys", "createKey", "getAgain", "done"},
                         req : Requests, i : Nat, seen : {cl.seen},
                         created : SUBSET Nat, skipped : SUBSET Nat, failed : SUBSET Nat,
                         refused : SUBSET Nat, answer : Seq(RecordContents), ds : Nat, fault : BOOLEAN]
    <3>1. cl \in Shape /\ \E S \in SUBSET Keys : cl.seen \in [S -> Seq(RecordContents)]
      BY <1>2 DEF IsCall
    <3>2. w \in Shape
      BY <2>1, <3>1
    <3> QED
      BY <3>1, <3>2 DEF IsCall
  <2>4. call' = [call EXCEPT ![c] = NextEntry(x)]
    BY <1>3, <1>7 DEF Created
  <2> HIDE DEF w, got
  <2>5. SameBut(x, w) /\ x.created = cl.created \union {i}
    BY <2>3, Reports
  <2> HIDE DEF x
  <2>6. Dealt(c, x, rrsets)
    <3>1. \A q : Taken(x, q) = Taken(cl, q)
      BY <2>3, <2>5 DEF Taken, SameBut
    <3>2. rrsets[k] # <<>>
      BY <1>7, <2>0
    <3> HIDE DEF e, k, found
    <3> QED
      BY <1>5, <2>0, <2>2, <2>3, <2>5, <3>1, <3>2 DEF Dealt, SameBut, e, k
  <2>7. IsCall(NextEntry(x)) /\ ClientOK(NextEntry(x), others[c], rrsets, dotted)
    BY <1>1, <1>4, <2>3, <2>5, <2>6, EntryEnds DEF SameBut
  <2> QED
    BY <1>1, <1>2, <2>4, <2>7, CallGoesOn
<1> QED
  BY <1>6, <1>7

(* If it cannot be read back, it is reported as failed. *)
LEMMA ReadBackFailsSafe ==
  ASSUME ConstantsOK, RecordsInv, NEW c \in Clients, ReadBackFails(c)
  PROVE  RecordsInv'
<1> DEFINE cl == call[c]
           x == [[cl EXCEPT !.failed = @ \cup {cl.i}] EXCEPT !.fault = TRUE]
<1>1. /\ cl.pc = "readBack" /\ Fault
      /\ call' = [call EXCEPT ![c] = [Failed(cl) EXCEPT !.fault = TRUE]]
      /\ UNCHANGED <<dotted, rrsets, keys, overlap, others, given>>
  BY DEF ReadBackFails, At
<1>2. rrsets \in [Keys -> Seq(RecordContents)] /\ PlaceOK(cl)
  BY <1>1, AtEntry
<1>3. cl.req.op \notin {"delete", "bulkDelete"}
  BY <1>1, <1>2 DEF PlaceOK
<1>4. /\ [Failed(cl) EXCEPT !.fault = TRUE] = NextEntry(x)
      /\ IsCall(x) /\ x.i = cl.i /\ Dealt(c, x, rrsets)
  BY <1>1, <1>3, EntryFails
<1> HIDE DEF x
<1>5. IsCall(NextEntry(x)) /\ ClientOK(NextEntry(x), others[c], rrsets, dotted)
  BY SMTT(30), <1>1, <1>3, <1>4, EntryEnds
<1> QED
  BY <1>1, <1>2, <1>4, <1>5, CallGoesOn

-----------------------------------------------------------------------------
(* A call that begins, and deletions.                                        *)

(* A call goes on to another place, with a report or without.                *)
LEMMA CallMoves ==
  ASSUME NEW cl, IsCall(cl),
         NEW pc \in {"look", "purge", "entry", "readBack", "enable", "getKeys", "createKey", "getAgain", "done"}
  PROVE  /\ IsCall([cl EXCEPT !.pc = pc])
         /\ IsCall([cl EXCEPT !.pc = pc, !.fault = TRUE])
         /\ \A D \in SUBSET Nat : /\ IsCall([cl EXCEPT !.pc = pc, !.created = D])
                                 /\ IsCall([cl EXCEPT !.pc = pc, !.created = D, !.refused = D])
                                 /\ IsCall([cl EXCEPT !.pc = pc, !.refused = D])
         /\ \A D \in SUBSET Nat : IsCall([cl EXCEPT !.pc = pc, !.fault = TRUE, !.failed = D])
         /\ \A d \in Nat : IsCall([cl EXCEPT !.pc = pc, !.ds = d])
<1> DEFINE Shape == [pc : {"look", "purge", "entry", "readBack",
                           "enable", "getKeys", "createKey", "getAgain", "done"},
                     req : Requests, i : Nat, seen : {cl.seen},
                     created : SUBSET Nat, skipped : SUBSET Nat, failed : SUBSET Nat,
                     refused : SUBSET Nat, answer : Seq(RecordContents), ds : Nat, fault : BOOLEAN]
<1>1. cl \in Shape /\ \E S \in SUBSET Keys : cl.seen \in [S -> Seq(RecordContents)]
  BY DEF IsCall
<1>2. \A x \in Shape : x.seen = cl.seen => IsCall(x)
  BY <1>1 DEF IsCall
<1>3. [cl EXCEPT !.pc = pc] \in Shape /\ [cl EXCEPT !.pc = pc].seen = cl.seen
  BY <1>1
<1>4. [cl EXCEPT !.pc = pc, !.fault = TRUE] \in Shape /\ [cl EXCEPT !.pc = pc, !.fault = TRUE].seen = cl.seen
  BY <1>1
<1>5. ASSUME NEW D \in SUBSET Nat
      PROVE  /\ [cl EXCEPT !.pc = pc, !.created = D] \in Shape /\ [cl EXCEPT !.pc = pc, !.created = D].seen = cl.seen
             /\ [cl EXCEPT !.pc = pc, !.created = D, !.refused = D] \in Shape
             /\ [cl EXCEPT !.pc = pc, !.created = D, !.refused = D].seen = cl.seen
             /\ [cl EXCEPT !.pc = pc, !.refused = D] \in Shape /\ [cl EXCEPT !.pc = pc, !.refused = D].seen = cl.seen
  BY <1>1
<1>6. ASSUME NEW D \in SUBSET Nat
      PROVE  /\ [cl EXCEPT !.pc = pc, !.fault = TRUE, !.failed = D] \in Shape
             /\ [cl EXCEPT !.pc = pc, !.fault = TRUE, !.failed = D].seen = cl.seen
  BY <1>1
<1>7. ASSUME NEW d \in Nat
      PROVE  [cl EXCEPT !.pc = pc, !.ds = d] \in Shape /\ [cl EXCEPT !.pc = pc, !.ds = d].seen = cl.seen
  BY <1>1
<1> HIDE DEF Shape
<1> QED
  BY <1>2, <1>3, <1>4, <1>5, <1>6, <1>7

(* A client makes a call (the API's handlers, EnsureZoneDNSSEC).             *)
LEMMA BeginCallSafe ==
  ASSUME ConstantsOK, RecordsInv, NEW c \in Clients, NEW r \in Requests, BeginRequest(c, r)
  PROVE  RecordsInv'
<1> DEFINE cl == NewCall(r, FirstStep(r))
           n == Len(r.items)
<1>1. /\ Valid(r)
      /\ call' = [call EXCEPT ![c] = cl]
      /\ others' = [others EXCEPT ![c] = {}]
      /\ \E B \in SUBSET Clients : overlap' = overlap \cup B
      /\ UNCHANGED <<dotted, rrsets, keys, given, faults>>
  <2> DEFINE busy == {d \in Clients : Busy(d)}
  <2>1. overlap' = overlap \cup busy \cup (IF busy = {} THEN {} ELSE {c})
    BY DEF BeginRequest
  <2>2. overlap' = overlap \cup (busy \cup (IF busy = {} THEN {} ELSE {c}))
    BY <2>1
  <2> QED
    BY <2>2 DEF BeginRequest
<1>2. RecordsTypeOK /\ DOMAIN call = Clients
  BY DEF RecordsInv, RecordsTypeOK
<1>3. /\ r.op \in {"create", "update", "delete", "bulkDelete", "import", "dnssec"}
      /\ r.op \in {"update", "delete"} => n = 1
      /\ r.items \in Seq(Entries) /\ n \in Nat
  BY RequestFacts
<1>4. r.op \in {"create", "update", "delete", "bulkDelete"} => n > 0
  <2>1. r.items # <<>> => n # 0
    BY <1>3
  <2>2. r.op \in {"create", "bulkDelete"} => r.items # <<>>
    BY <1>1 DEF Valid
  <2>3. r.op \in {"create", "bulkDelete"} => n # 0
    BY <2>1, <2>2
  <2>4. r.op \in {"update", "delete"} => n = 1
    BY <1>3
  <2>5. n \in Nat
    BY <1>3
  <2> HIDE DEF n
  <2> QED
    BY <2>3, <2>4, <2>5
<1>5. /\ cl.req = r /\ cl.i = 1 /\ DOMAIN cl.seen = {} /\ cl.created = {} /\ cl.refused = {}
      /\ cl.pc = FirstStep(r)
  BY DEF NewCall
<1>6. IsCall(cl)
  <2>1. FirstStep(r) \in {"look", "enable", "entry"}
    BY DEF FirstStep
  <2>2. <<>> \in Seq(RecordContents) /\ [k \in {} |-> <<>>] \in [{} -> Seq(RecordContents)]
    OBVIOUS
  <2>3. NoDS \in Nat
    BY DEF NoDS
  <2>4. \E S \in SUBSET Keys : cl.seen \in [S -> Seq(RecordContents)]
    BY <2>2 DEF NewCall
  <2>5. cl \in [pc : {"look", "purge", "entry", "readBack",
                      "enable", "getKeys", "createKey", "getAgain", "done"},
                req : Requests, i : Nat, seen : {cl.seen},
                created : SUBSET Nat, skipped : SUBSET Nat, failed : SUBSET Nat,
                refused : SUBSET Nat, answer : Seq(RecordContents), ds : Nat, fault : BOOLEAN]
    BY <2>1, <2>2, <2>3 DEF NewCall
  <2> QED
    BY <2>4, <2>5 DEF IsCall
<1>7. \/ cl.pc = "look" /\ r.op = "import"
      \/ cl.pc = "enable" /\ r.op = "dnssec"
      \/ cl.pc = "entry" /\ r.op \in {"create", "update", "delete", "bulkDelete"}
  BY <1>3, <1>5 DEF FirstStep
<1> HIDE DEF cl
<1>8. ClientOK(cl, {}, rrsets, dotted)
  <2>1. PlaceOK(cl)
    BY <1>3, <1>4, <1>5, <1>7 DEF PlaceOK
  <2>2. MergeKeeps(cl, {}, rrsets) /\ ReadsOwn(cl, {}, rrsets) /\ ReportHolds(cl, {}, rrsets)
    BY <1>5, <1>7 DEF MergeKeeps, ReadsOwn, ReportHolds
  <2>3. ReplacedSoFar(cl, {}, rrsets, dotted)
    BY <1>5, <1>7 DEF ReplacedSoFar, Replacing
  <2> QED
    BY <2>1, <2>2, <2>3 DEF ClientOK
<1>9. call'[c] = cl /\ others'[c] = {} /\ \A d \in Clients \ {c} : call'[d] = call[d] /\ others'[d] = others[d]
  BY <1>1, <1>2 DEF RecordsTypeOK
<1>10. RecordsTypeOK'
  BY <1>1, <1>2, <1>6, <1>9 DEF RecordsTypeOK
<1> QED
  BY <1>1, <1>8, <1>9, <1>10, OneClient

(* Deletions (DeleteRecord, BulkDeleteRecords).                              *)
LEMMA WithoutFacts ==
  ASSUME rrsets \in [Keys -> Seq(RecordContents)], NEW D
  PROVE  /\ Without(D) \in [Keys -> Seq(RecordContents)]
         /\ \A k \in Keys : Without(D)[k] = IF k \in D THEN <<>> ELSE rrsets[k]
<1>1. <<>> \in Seq(RecordContents)
  OBVIOUS
<1> QED
  BY <1>1 DEF Without

(* A deletion is true when it reports nothing new, when PowerDNS refused it, *)
(* or when all the named RRsets are gone.                                    *)
LEMMA DeletionOK ==
  ASSUME ConstantsOK, RecordsInv, NEW c \in Clients, call[c].pc = "entry",
         call[c].req.op \in {"delete", "bulkDelete"},
         NEW x, x.pc = "done", x.req = call[c].req, NEW z,
         \/ x.created = call[c].created
         \/ /\ x.created = DOMAIN x.req.items
            /\ ~x.req.dry => x.created \subseteq x.refused \/ \A k \in Named(x.req) \cap Keys : z[k] = <<>>
  PROVE  ClientOK(x, others[c], z, dotted)
<1> DEFINE r == x.req
<1>1. r \in Requests /\ PlaceOK(call[c])
  BY HasBegun, ClientFacts
<1>2. x.created \subseteq 1 .. Len(r.items)
  BY <1>1, RequestFacts DEF PlaceOK
<1>3. PlaceOK(x)
  BY <1>2 DEF PlaceOK
<1>4. MergeKeeps(x, others[c], z) /\ ReadsOwn(x, others[c], z) /\ ReplacedSoFar(x, others[c], z, dotted)
  BY DEF MergeKeeps, ReadsOwn, ReplacedSoFar, Replacing
<1>5. ReportHolds(x, others[c], z)
  <2> SUFFICES ASSUME ~r.dry, NEW j \in x.created, j \notin x.refused PROVE z[Key(r.items[j])] = <<>>
    BY DEF ReportHolds
  <2>1. j \in DOMAIN r.items /\ x.created = DOMAIN r.items
    BY <1>1, <1>2, RequestFacts DEF PlaceOK
  <2>2. r.items[j] \in Entries
    BY <1>1, <2>1, RequestFacts
  <2>3. Key(r.items[j]) \in Named(r) \cap Keys
    BY <2>1, <2>2 DEF Named, ConstantsOK
  <2>4. call[c].created = {}
    BY <1>1 DEF PlaceOK
  <2> QED
    BY <2>1, <2>3, <2>4
<1> QED
  BY <1>3, <1>4, <1>5 DEF ClientOK

(* Deletions keep the invariant, whatever fails of them. *)
LEMMA DeleteSafe ==
  ASSUME ConstantsOK, RecordsInv, NEW c \in Clients,
         \/ DeleteRRSets(c) \/ DeleteRefused(c) \/ DryDelete(c)
         \/ \E carried \in BOOLEAN : DeleteFails(c, carried)
  PROVE  RecordsInv'
<1> DEFINE cl == call[c]
           r == cl.req
           z1 == Without(Named(r))
<1>1. cl.pc = "entry" /\ r.op \in {"delete", "bulkDelete"}
  BY DEF DeleteRRSets, DeleteRefused, DryDelete, DeleteFails, At
<1>2. /\ IsCall(cl) /\ PlaceOK(cl) /\ r \in Requests /\ rrsets \in [Keys -> Seq(RecordContents)]
  BY <1>1, AtEntry
<1>3. z1 \in [Keys -> Seq(RecordContents)] /\ \A k \in Named(r) \cap Keys : z1[k] = <<>>
  BY <1>2, WithoutFacts
<1> HIDE DEF z1
<1>4. DOMAIN r.items \in SUBSET Nat
  BY <1>2, RequestFacts
<1> DEFINE x == [cl EXCEPT !.pc = "done", !.created = DOMAIN r.items]
           v == [cl EXCEPT !.pc = "done", !.created = DOMAIN r.items, !.refused = DOMAIN r.items]
           w == [cl EXCEPT !.pc = "done", !.fault = TRUE, !.failed = DOMAIN r.items]
<1>5. IsCall(x) /\ x.pc = "done" /\ x.req = r /\ x.created = DOMAIN x.req.items
  <2>1. IsCall(x)
    BY <1>2, <1>4, CallMoves
  <2> QED
    BY <1>2, <2>1 DEF IsCall
<1>6. IsCall(w) /\ w.pc = "done" /\ w.req = r /\ w.created = cl.created
  <2>1. IsCall(w)
    BY <1>2, <1>4, CallMoves
  <2> QED
    BY <1>2, <2>1 DEF IsCall
<1>10. CASE DeleteRefused(c)
  <2>1. call' = [call EXCEPT ![c] = v]
        /\ UNCHANGED <<dotted, rrsets, keys, overlap, others, given, faults>>
    BY <1>10 DEF DeleteRefused
  <2>2. IsCall(v)
    BY <1>2, <1>4, CallMoves
  <2>3. v.pc = "done" /\ v.req = r /\ v.created = DOMAIN v.req.items /\ v.created = v.refused
    BY <1>2, <2>2 DEF IsCall
  <2> HIDE DEF v
  <2>4. ClientOK(v, others[c], rrsets, dotted)
    BY <1>1, <2>3, DeletionOK
  <2> QED
    BY <1>2, <2>1, <2>2, <2>4, CallGoesOn
<1>7. CASE DeleteRRSets(c)
  <2>1. call' = [call EXCEPT ![c] = x] /\ Store(c, z1)
        /\ UNCHANGED <<dotted, keys, overlap, given, faults>>
    BY <1>7 DEF DeleteRRSets, z1
  <2> HIDE DEF x
  <2>2. ClientOK(x, others[c], z1, dotted)
    BY <1>1, <1>3, <1>5, DeletionOK
  <2> QED
    BY <1>3, <1>5, <2>1, <2>2, CallGoesOn
<1>8. CASE DryDelete(c)
  <2>1. call' = [call EXCEPT ![c] = x] /\ r.dry
        /\ UNCHANGED <<dotted, rrsets, keys, overlap, others, given, faults>>
    BY <1>8 DEF DryDelete
  <2> HIDE DEF x
  <2>2. ClientOK(x, others[c], rrsets, dotted)
    BY <1>1, <1>5, <2>1, DeletionOK
  <2> QED
    BY <1>2, <1>5, <2>1, <2>2, CallGoesOn
<1>9. CASE \E carried \in BOOLEAN : DeleteFails(c, carried)
  <2>1. PICK z : /\ z \in {z1, rrsets} /\ Store(c, z)
                 /\ call' = [call EXCEPT ![c] = w] /\ Fault
                 /\ UNCHANGED <<dotted, keys, overlap, given>>
    <3>1. PICK carried \in BOOLEAN : DeleteFails(c, carried)
      BY <1>9
    <3> HIDE DEF w
    <3>2. call' = [call EXCEPT ![c] = w]
      BY <3>1 DEF DeleteFails, w
    <3>3. Store(c, IF carried THEN z1 ELSE rrsets)
      BY <3>1 DEF DeleteFails, z1
    <3> QED
      BY <3>1, <3>2, <3>3 DEF DeleteFails
  <2> HIDE DEF w
  <2>2. z \in [Keys -> Seq(RecordContents)]
    BY <1>2, <1>3, <2>1
  <2>3. ClientOK(w, others[c], z, dotted)
    BY <1>1, <1>6, DeletionOK
  <2> QED
    BY <1>6, <2>1, <2>2, <2>3, CallGoesOn
<1> QED
  BY <1>7, <1>8, <1>9, <1>10

-----------------------------------------------------------------------------
(* The import of a zone file.                                                *)

(* The zone is read (ImportZoneFile: ListRecords).                           *)
LEMMA LookSafe ==
  ASSUME ConstantsOK, RecordsInv, NEW c \in Clients, Look(c)
  PROVE  RecordsInv'
<1> DEFINE cl == call[c]
           r == cl.req
           U == UserManageable
           seen == [k \in U |-> rrsets[k]]
<1>1. /\ cl.pc = "look" /\ UNCHANGED <<dotted, rrsets, keys, overlap, given, faults>>
      /\ others' = [others EXCEPT ![c] = {}]
  BY DEF Look, At
<1>2. /\ IsCall(cl) /\ PlaceOK(cl) /\ r \in Requests /\ cl.created \subseteq Nat
      /\ rrsets \in [Keys -> Seq(RecordContents)]
  BY <1>1, HasBegun, ClientFacts
<1>3. /\ r.op = "import" /\ cl.i = 1 /\ cl.created = {} /\ cl.refused = {}
      /\ Len(r.items) \in Nat /\ r.items \in Seq(Entries)
  BY <1>1, <1>2, RequestFacts DEF PlaceOK
<1>4. U \subseteq Keys /\ \A k \in Keys : k \notin U /\ ~Managed(k[2]) => rrsets[k] = <<>>
  BY DEF UserManageable
<1> HIDE DEF U
<1>5. seen \in [U -> Seq(RecordContents)] /\ \A k \in U : seen[k] = rrsets[k]
  BY <1>2, <1>4
<1> HIDE DEF seen
<1>6. PICK pc : /\ call' = [call EXCEPT ![c] = [cl EXCEPT !.pc = pc, !.seen = seen]]
                /\ \/ pc = "done" /\ r.items = <<>>
                   \/ pc = "purge" /\ r.mode = "replace" /\ ~r.dry /\ r.items # <<>>
                   \/ pc = "entry" /\ r.items # <<>> /\ (r.mode = "replace" /\ ~r.dry => U = {})
  <2> DEFINE pc == CASE ~HasRecords(r) -> "done"
                     [] HasRecords(r) /\ r.mode = "replace" /\ ~r.dry /\ U # {} -> "purge"
                     [] OTHER -> "entry"
  <2>1. call' = [call EXCEPT ![c].seen = seen, ![c].pc = pc]
    BY DEF Look, seen, U
  <2> HIDE DEF pc
  <2>2. DOMAIN call = Clients
    BY DEF RecordsInv, RecordsTypeOK
  <2>3. call' = [call EXCEPT ![c] = [cl EXCEPT !.pc = pc, !.seen = seen]]
    <3>1. \A g, h : [[cl EXCEPT !.seen = g] EXCEPT !.pc = h] = [cl EXCEPT !.pc = h, !.seen = g]
      BY <1>2 DEF IsCall
    <3> QED
      BY <2>1, <2>2, <3>1
  <2>4. \/ pc = "done" /\ ~HasRecords(r)
        \/ pc = "purge" /\ HasRecords(r) /\ r.mode = "replace" /\ ~r.dry
        \/ pc = "entry" /\ HasRecords(r) /\ (r.mode = "replace" /\ ~r.dry => U = {})
    BY DEF pc
  <2> QED
    BY <2>3, <2>4 DEF HasRecords
<1> DEFINE x == [cl EXCEPT !.pc = pc, !.seen = seen]
<1>7. IsCall(x) /\ x.pc = pc /\ x.seen = seen /\ x.req = r /\ x.i = 1 /\ x.created = {} /\ x.refused = {}
  <2> DEFINE Shape == [pc : {"look", "purge", "entry", "readBack",
                             "enable", "getKeys", "createKey", "getAgain", "done"},
                       req : Requests, i : Nat, seen : {x.seen},
                       created : SUBSET Nat, skipped : SUBSET Nat, failed : SUBSET Nat,
                       refused : SUBSET Nat, answer : Seq(RecordContents), ds : Nat, fault : BOOLEAN]
  <2>1. pc \in {"done", "purge", "entry"}
    BY <1>6
  <2>2. x.pc = pc /\ x.seen = seen /\ x.req = r /\ x.i = 1 /\ x.created = {} /\ x.refused = {}
    BY <1>2, <1>3 DEF IsCall
  <2>3. x \in Shape
    BY <1>2, <2>1, <2>2 DEF IsCall
  <2>4. \E S \in SUBSET Keys : x.seen \in [S -> Seq(RecordContents)]
    BY <1>4, <1>5, <2>2
  <2> QED
    BY <2>2, <2>3, <2>4 DEF IsCall
<1>8. call'[c] = x /\ others'[c] = {} /\ \A d \in Clients \ {c} : call'[d] = call[d] /\ others'[d] = others[d]
  BY <1>1, <1>6 DEF RecordsInv, RecordsTypeOK
<1> HIDE DEF x
<1>9. RecordsTypeOK'
  BY <1>1, <1>6, <1>7, <1>8 DEF RecordsInv, RecordsTypeOK
<1>10. ClientOK(x, {}, rrsets, dotted)
  <2>1. r.items # <<>> => Len(r.items) > 0
    BY <1>3
  <2>2. PlaceOK(x)
    BY <1>2, <1>3, <1>6, <1>7, <2>1 DEF PlaceOK
  <2>3. MergeKeeps(x, {}, rrsets)
    BY <1>5, <1>7 DEF MergeKeeps
  <2>4. ReadsOwn(x, {}, rrsets) /\ ReportHolds(x, {}, rrsets)
    BY <1>6, <1>7 DEF ReadsOwn, ReportHolds
  <2>5. ReplacedSoFar(x, {}, rrsets, dotted)
    <3> SUFFICES ASSUME Replacing(x), NEW k \in Keys, ~Managed(k[2])
                 PROVE  IF pc = "purge" THEN k \notin U => rrsets[k] = <<>>
                        ELSE PastTaken(x, k) = {} /\ rrsets[k] = <<>>
      BY <1>5, <1>7 DEF ReplacedSoFar
    <3>1. pc = "purge" \/ (pc = "entry" /\ U = {})
      BY <1>6, <1>7 DEF Replacing
    <3>2. pc = "entry" => PastTaken(x, k) = {}
      BY <1>3, <1>7 DEF PastTaken, Past
    <3> QED
      BY <1>4, <3>1, <3>2
  <2> QED
    BY <2>2, <2>3, <2>4, <2>5 DEF ClientOK
<1> QED
  BY <1>1, <1>8, <1>9, <1>10, OneClient

(* A client that cannot look at the zone does not touch it. *)
LEMMA LookFailsSafe ==
  ASSUME ConstantsOK, RecordsInv, NEW c \in Clients, LookFails(c)
  PROVE  RecordsInv'
<1> DEFINE cl == call[c]
           x == [cl EXCEPT !.pc = "done", !.fault = TRUE]
<1>1. /\ cl.pc = "look" /\ Fault /\ UNCHANGED <<dotted, rrsets, keys, overlap, others, given>>
      /\ call' = [call EXCEPT ![c] = x]
  BY DEF LookFails, At
<1>2. IsCall(cl) /\ PlaceOK(cl) /\ rrsets \in [Keys -> Seq(RecordContents)]
  BY <1>1, HasBegun, ClientFacts
<1>3. IsCall(x) /\ x.pc = "done" /\ x.fault /\ x.req = cl.req /\ x.seen = cl.seen /\ x.created = cl.created
  <2>1. IsCall(x)
    BY <1>2, CallMoves
  <2> QED
    BY <1>2, <2>1 DEF IsCall
<1> HIDE DEF x
<1>4. cl.created = {} /\ DOMAIN cl.seen = {}
  BY <1>1, <1>2 DEF PlaceOK
<1>5. PlaceOK(x) /\ MergeKeeps(x, others[c], rrsets) /\ ReadsOwn(x, others[c], rrsets) /\ ReportHolds(x, others[c], rrsets)
  BY <1>3, <1>4 DEF PlaceOK, MergeKeeps, ReadsOwn, ReportHolds
<1>6. ReplacedSoFar(x, others[c], rrsets, dotted)
  BY <1>3 DEF ReplacedSoFar, Replacing
<1>7. ClientOK(x, others[c], rrsets, dotted)
  BY <1>5, <1>6 DEF ClientOK
<1> QED
  BY <1>1, <1>2, <1>3, <1>7, CallGoesOn

(* The bulk deletion removes what the import saw, where stripping the names  *)
(* and building them again gives the names that were read (stripDomain,      *)
(* buildFullName).                                                           *)
LEMMA PurgedIsSeen ==
  ASSUME ConstantsOK, NEW c, DOMAIN call[c].seen \subseteq Keys,
         NEW k \in DOMAIN call[c].seen, Recovered(k, dotted)
  PROVE  k \in Purged(c)
<1>1. k = <<k[1], k[2]>>
  BY DEF ConstantsOK
<1> QED
  BY <1>1 DEF Purged, Recovered

(* Replacing a zone first takes away what is there and not imported again. *)
LEMMA PurgeSafe ==
  ASSUME ConstantsOK, RecordsInv, NEW c \in Clients,
         Purge(c) \/ PurgeRefused(c) \/ \E carried \in BOOLEAN : PurgeFails(c, carried)
  PROVE  RecordsInv'
<1> DEFINE cl == call[c]
           r == cl.req
           z1 == Without(Purged(c))
<1>1. cl.pc = "purge"
  BY DEF Purge, PurgeRefused, PurgeFails, At
<1>2. /\ IsCall(cl) /\ ClientOK(cl, others[c], rrsets, dotted) /\ PlaceOK(cl) /\ r \in Requests
      /\ rrsets \in [Keys -> Seq(RecordContents)] /\ cl # NoCall
  BY <1>1, HasBegun, ClientFacts
<1>3. /\ r.op = "import" /\ r.mode = "replace" /\ ~r.dry /\ cl.i = 1 /\ cl.created = {} /\ cl.refused = {}
      /\ Len(r.items) > 0 /\ Len(r.items) \in Nat /\ r.items # <<>>
  BY <1>1, <1>2, RequestFacts DEF PlaceOK
<1>4. DOMAIN cl.seen \subseteq Keys /\ \A k \in DOMAIN cl.seen : Recovered(k, dotted) => k \in Purged(c)
  BY <1>2, PurgedIsSeen DEF IsCall
<1>5. /\ z1 \in [Keys -> Seq(RecordContents)]
      /\ \A k \in DOMAIN cl.seen : Recovered(k, dotted) => z1[k] = <<>>
      /\ \A k \in Keys : rrsets[k] = <<>> => z1[k] = <<>>
  BY <1>2, <1>4, WithoutFacts
<1> HIDE DEF z1
<1>6. ASSUME NEW x, x.pc = "entry", x.req = r, x.seen = cl.seen, x.created = {}, x.i = 1, ~x.fault => ~cl.fault,
             x.refused \subseteq {0}, NEW z, x.fault \/ 0 \in x.refused \/ z = z1
      PROVE  ClientOK(x, others[c], z, dotted)
  <2>1. PlaceOK(x)
    BY <1>3, <1>6 DEF PlaceOK
  <2>2. MergeKeeps(x, others[c], z) /\ ReadsOwn(x, others[c], z) /\ ReportHolds(x, others[c], z)
    BY <1>3, <1>6 DEF MergeKeeps, ReadsOwn, ReportHolds
  <2>3. ReplacedSoFar(x, others[c], z, dotted)
    <3> SUFFICES ASSUME Replacing(x), NEW k \in Keys \ others[c], ~Managed(k[2])
                 PROVE  PastTaken(x, k) = {} /\ (Purgeable(x, k, dotted) => z[k] = <<>>)
      BY <1>6 DEF ReplacedSoFar
    <3>1. PastTaken(x, k) = {}
      BY <1>3, <1>6 DEF PastTaken, Past
    <3>2. Replacing(cl)
      BY <1>1, <1>3, <1>6 DEF Replacing
    <3>3. k \notin DOMAIN cl.seen => rrsets[k] = <<>>
      BY <1>1, <1>2, <3>2 DEF ClientOK, ReplacedSoFar
    <3>4. z = z1
      BY <1>6 DEF Replacing
    <3> QED
      BY <1>5, <1>6, <3>1, <3>3, <3>4 DEF Purgeable
  <2> QED
    BY <2>1, <2>2, <2>3 DEF ClientOK
<1> DEFINE x == [cl EXCEPT !.pc = "entry"]
           v == [cl EXCEPT !.pc = "entry", !.refused = {0}]
           w == [cl EXCEPT !.pc = "entry", !.fault = TRUE]
<1>7. /\ IsCall(x) /\ x.pc = "entry" /\ x.req = r /\ x.seen = cl.seen /\ x.created = {} /\ x.i = 1
      /\ x.fault = cl.fault /\ x.refused = {}
  <2>1. IsCall(x)
    BY <1>2, CallMoves
  <2> QED
    BY <1>2, <1>3, <2>1 DEF IsCall
<1>8. /\ IsCall(w) /\ w.pc = "entry" /\ w.req = r /\ w.seen = cl.seen /\ w.created = {} /\ w.i = 1 /\ w.fault
      /\ w.refused = {}
  <2>1. IsCall(w)
    BY <1>2, CallMoves
  <2> QED
    BY <1>2, <1>3, <2>1 DEF IsCall
<1>11. CASE PurgeRefused(c)
  <2>1. /\ call' = [call EXCEPT ![c] = v]
        /\ UNCHANGED <<dotted, rrsets, keys, overlap, others, given, faults>>
    BY <1>11 DEF PurgeRefused
  <2>2. IsCall(v)
    <3>1. {0} \in SUBSET Nat
      OBVIOUS
    <3> QED
      BY <1>2, <3>1, CallMoves
  <2>3. /\ v.pc = "entry" /\ v.req = r /\ v.seen = cl.seen /\ v.created = {} /\ v.i = 1
        /\ v.fault = cl.fault /\ v.refused = {0}
    BY <1>2, <1>3, <2>2 DEF IsCall
  <2> HIDE DEF v
  <2>4. ClientOK(v, others[c], rrsets, dotted)
    BY <1>6, <2>3
  <2> QED
    BY <1>2, <2>1, <2>2, <2>4, CallGoesOn
<1>9. CASE Purge(c)
  <2>1. /\ call' = [call EXCEPT ![c] = x] /\ Store(c, z1)
        /\ UNCHANGED <<dotted, keys, overlap, given, faults>>
    BY <1>9 DEF Purge, z1
  <2> HIDE DEF x
  <2>2. ClientOK(x, others[c], z1, dotted)
    BY <1>6, <1>7
  <2> QED
    BY <1>5, <1>7, <2>1, <2>2, CallGoesOn
<1>10. CASE \E carried \in BOOLEAN : PurgeFails(c, carried)
  <2>1. PICK z : /\ z \in {z1, rrsets} /\ Store(c, z)
                 /\ call' = [call EXCEPT ![c] = w] /\ Fault
                 /\ UNCHANGED <<dotted, keys, overlap, given>>
    <3>1. PICK carried \in BOOLEAN : PurgeFails(c, carried)
      BY <1>10
    <3> HIDE DEF w
    <3>2. call' = [call EXCEPT ![c] = w]
      BY <3>1 DEF PurgeFails, w
    <3>3. Store(c, IF carried THEN z1 ELSE rrsets)
      BY <3>1 DEF PurgeFails, z1
    <3> QED
      BY <3>1, <3>2, <3>3 DEF PurgeFails
  <2> HIDE DEF w
  <2>2. z \in [Keys -> Seq(RecordContents)]
    BY <1>2, <1>5, <2>1
  <2>3. ClientOK(w, others[c], z, dotted)
    BY <1>6, <1>8
  <2> QED
    BY <1>8, <2>1, <2>2, <2>3, CallGoesOn
<1> QED
  BY <1>9, <1>10, <1>11

-----------------------------------------------------------------------------
(* DNSSEC.                                                                   *)

(* A set of numbers that is not empty has a least one. *)
LEMMA LeastNumber ==
  ASSUME NEW S \in SUBSET Nat, S # {}
  PROVE  \E m \in S : \A k \in S : m <= k
<1> DEFINE T == {0 .. m : m \in S}
<1>1. T \subseteq FiniteSubsetsOf(Nat)
  <2> SUFFICES ASSUME NEW m \in S PROVE 0 .. m \in FiniteSubsetsOf(Nat)
    OBVIOUS
  <2>1. IsFiniteSet(0 .. m)
    BY FS_Interval, m \in Int, 0 \in Int
  <2> QED
    BY <2>1 DEF FiniteSubsetsOf
<1>2. T # {}
  OBVIOUS
<1>3. \E x \in T : \A y \in T : <<y, x>> \notin StrictSubsetOrdering(Nat)
  <2> HIDE DEF T
  <2> QED
    BY <1>1, <1>2, FS_StrictSubsetOrderingWellFounded, WFMin
<1>4. PICK m \in S : \A k \in S : <<0 .. k, 0 .. m>> \notin StrictSubsetOrdering(Nat)
  BY <1>3
<1>5. ASSUME NEW k \in S, k < m PROVE FALSE
  <2>1. 0 .. k \subseteq 0 .. m /\ 0 .. k # 0 .. m /\ 0 .. k \subseteq Nat /\ 0 .. m \subseteq Nat
    BY <1>5
  <2> QED
    BY <1>4, <2>1 DEF StrictSubsetOrdering
<1> QED
  BY <1>5

DNSKeys == [ds : Nat, live : BOOLEAN]

(* FirstDSRecord answers a DS of one of the keys, if one has any.            *)
LEMMA FirstDSFacts ==
  ASSUME NEW ks \in Seq(DNSKeys)
  PROVE  /\ FirstDSRecord(ks) \in Nat
         /\ FirstDSRecord(ks) # NoDS =>
               \E i \in DOMAIN ks : ks[i].ds = FirstDSRecord(ks)
         /\ FirstDSRecord(ks) = NoDS => \A i \in DOMAIN ks : ks[i].ds = NoDS
<1> DEFINE withDS == {i \in DOMAIN ks : ks[i].ds # NoDS}
           live == {i \in withDS : ks[i].live}
<1>1. \A i \in DOMAIN ks : i \in Nat /\ ks[i].ds \in Nat
  <2>1. \A i \in DOMAIN ks : i \in Nat /\ ks[i] \in DNSKeys
    OBVIOUS
  <2> QED
    BY <2>1 DEF DNSKeys
<1>2. ASSUME NEW S \in SUBSET withDS, S # {}
      PROVE  Min(S) \in withDS
  <2>1. S \in SUBSET Nat
    BY <1>1
  <2>2. \E m \in S : \A k \in S : m <= k
    BY <1>2, <2>1, LeastNumber
  <2> QED
    BY <2>2 DEF Min
<1>3. CASE live # {}
  <2>1. FirstDSRecord(ks) = ks[Min(live)].ds
    BY <1>3 DEF FirstDSRecord
  <2>2. Min(live) \in withDS
    BY <1>2, <1>3
  <2> QED
    BY <1>1, <2>1, <2>2
<1>4. CASE live = {} /\ withDS # {}
  <2>1. FirstDSRecord(ks) = ks[Min(withDS)].ds
    BY <1>4 DEF FirstDSRecord
  <2>2. Min(withDS) \in withDS
    BY <1>2, <1>4
  <2> QED
    BY <1>1, <2>1, <2>2
<1>5. CASE withDS = {}
  <2>1. FirstDSRecord(ks) = NoDS
    BY <1>5 DEF FirstDSRecord
  <2> QED
    BY <1>5, <2>1 DEF NoDS
<1> QED
  BY <1>3, <1>4, <1>5

(* The first key with a DS decides, and a key made for a zone whose keys     *)
(* have none.                                                                *)
LEMMA NewKeyFacts ==
  ASSUME keys \in Seq(DNSKeys)
  PROVE  /\ NewKey \in DNSKeys /\ NewKey.ds # NoDS
         /\ Append(keys, NewKey) \in Seq(DNSKeys) /\ <<NewKey>> \in Seq(DNSKeys)
         /\ FirstDSRecord(keys) = NoDS =>
               FirstDSRecord(Append(keys, NewKey)) = NewKey.ds
         /\ FirstDSRecord(<<>>) = NoDS
<1> DEFINE k == NewKey
           ks == Append(keys, k)
<1>1. k \in DNSKeys /\ k.ds # NoDS
  BY DEF NewKey, NoDS, DNSKeys
<1> HIDE DEF k
<1>2. /\ ks \in Seq(DNSKeys) /\ <<k>> \in Seq(DNSKeys)
      /\ DOMAIN ks = DOMAIN keys \union {Len(keys) + 1}
      /\ \A i \in DOMAIN keys : ks[i] = keys[i]
      /\ ks[Len(keys) + 1] = k
  BY <1>1
<1> HIDE DEF ks
<1>3. ASSUME FirstDSRecord(keys) = NoDS
      PROVE  FirstDSRecord(ks) = k.ds
  <2>1. \A i \in DOMAIN keys : keys[i].ds = NoDS
    BY <1>3, FirstDSFacts
  <2>2. FirstDSRecord(ks) # NoDS
    BY <1>1, <1>2, FirstDSFacts
  <2>3. PICK i \in DOMAIN ks : ks[i].ds = FirstDSRecord(ks)
    BY <1>2, <2>2, FirstDSFacts
  <2> QED
    BY <1>2, <2>1, <2>2, <2>3
<1>4. FirstDSRecord(<<>>) = NoDS
  <2>1. <<>> \in Seq(DNSKeys) /\ DOMAIN <<>> = {}
    OBVIOUS
  <2> QED
    BY <2>1, FirstDSFacts
<1> QED
  BY <1>1, <1>2, <1>3, <1>4 DEF k, ks

(* What a step of EnsureZoneDNSSEC does.                                     *)
DNSSECStep(c) ==
    \/ EnableDNSSEC(c) \/ GetCryptokeys(c)
    \/ \E ready \in BOOLEAN : CreateCryptokey(c, ready)
    \/ GetAgain(c) \/ DNSSECFails(c)

DNSSECMoves(c, pc, ds) ==
    /\ \/ call' = [call EXCEPT ![c] = [call[c] EXCEPT !.pc = pc]]
       \/ call' = [call EXCEPT ![c] = [call[c] EXCEPT !.pc = pc, !.fault = TRUE]]
       \/ call' = [call EXCEPT ![c] = [call[c] EXCEPT !.pc = pc, !.ds = ds]]
    /\ pc = "createKey" => FirstDSRecord(keys) = NoDS /\ keys' = keys
    /\ \/ given' = given
       \/ /\ pc = "done"
          /\ given' = Append(given, [ds |-> ds, alone |-> c \notin overlap])
          /\ ds # NoDS
          /\ \/ keys' = keys /\ ds = FirstDSRecord(keys)
             \/ /\ keys' = Append(keys, NewKey) /\ ds = NewKey.ds
                /\ call[c].pc = "createKey"

(* The DNSSEC steps change the keys only by a key that is made and published. *)
LEMMA DNSSECFacts ==
  ASSUME ConstantsOK, RecordsTypeOK, NEW c \in Clients, DNSSECStep(c)
  PROVE  /\ call[c].pc \in {"enable", "getKeys", "createKey", "getAgain"}
         /\ UNCHANGED <<dotted, rrsets, overlap, others>>
         /\ faults' \in 0 .. MaxFaults
         /\ \/ keys' = keys
            \/ keys' = <<NewKey>> /\ keys = <<>> /\ call[c].pc = "enable"
            \/ keys' = Append(keys, NewKey) /\ call[c].pc = "createKey"
         /\ \E pc \in {"getKeys", "createKey", "getAgain", "done"} : \E ds \in Nat : DNSSECMoves(c, pc, ds)
<1>1. /\ keys \in Seq(DNSKeys) /\ faults \in 0 .. MaxFaults /\ MaxFaults \in Nat /\ DOMAIN call = Clients
      /\ FirstDSRecord(keys) \in Nat /\ NewKey.ds \in Nat
  BY FirstDSFacts, NewKeyFacts DEF RecordsTypeOK, ConstantsOK, DNSKeys
<1>2. call[c].pc \in {"enable", "getKeys", "createKey", "getAgain"}
      => \A pc, ds : /\ [call EXCEPT ![c].pc = pc] = [call EXCEPT ![c] = [call[c] EXCEPT !.pc = pc]]
                     /\ [call EXCEPT ![c].pc = pc, ![c].fault = TRUE] = [call EXCEPT ![c] = [call[c] EXCEPT !.pc = pc, !.fault = TRUE]]
                     /\ [call EXCEPT ![c].pc = pc, ![c].ds = ds] = [call EXCEPT ![c] = [call[c] EXCEPT !.pc = pc, !.ds = ds]]
  <2> SUFFICES ASSUME call[c].pc \in {"enable", "getKeys", "createKey", "getAgain"}, NEW pc, NEW ds
               PROVE  /\ [call EXCEPT ![c].pc = pc] = [call EXCEPT ![c] = [call[c] EXCEPT !.pc = pc]]
                      /\ [call EXCEPT ![c].pc = pc, ![c].fault = TRUE] = [call EXCEPT ![c] = [call[c] EXCEPT !.pc = pc, !.fault = TRUE]]
                      /\ [call EXCEPT ![c].pc = pc, ![c].ds = ds] = [call EXCEPT ![c] = [call[c] EXCEPT !.pc = pc, !.ds = ds]]
    OBVIOUS
  <2>1. IsCall(call[c])
    BY HasBegun DEF RecordsTypeOK
  <2> QED
    BY <1>1, <2>1 DEF IsCall
<1>3. ASSUME NEW ds \in Nat, Answered(c, ds), call[c].pc \in {"enable", "getKeys", "createKey", "getAgain"}
      PROVE  /\ call' = [call EXCEPT ![c] = [call[c] EXCEPT !.pc = "done", !.ds = ds]]
             /\ \/ given' = given
                \/ given' = Append(given, [ds |-> ds, alone |-> c \notin overlap]) /\ ds # NoDS
  BY <1>2, <1>3 DEF Answered
<1>4. CASE EnableDNSSEC(c)
  <2>1. call[c].pc = "enable"
    BY <1>4 DEF EnableDNSSEC, At
  <2>2. call' = [call EXCEPT ![c] = [call[c] EXCEPT !.pc = "getKeys"]]
    BY <1>2, <1>4, <2>1 DEF EnableDNSSEC
  <2>3. keys' = keys \/ (keys' = <<NewKey>> /\ keys = <<>>)
    BY <1>4 DEF EnableDNSSEC
  <2>4. UNCHANGED <<dotted, rrsets, overlap, others, given, faults>>
    BY <1>4 DEF EnableDNSSEC
  <2> QED
    BY <1>1, <2>1, <2>2, <2>3, <2>4 DEF DNSSECMoves
<1>5. CASE GetCryptokeys(c)
  <2>1. call[c].pc = "getKeys" /\ UNCHANGED <<dotted, rrsets, keys, overlap, others, faults>>
    BY <1>5 DEF GetCryptokeys, At
  <2>2. CASE FirstDSRecord(keys) # NoDS
    <3>1. Answered(c, FirstDSRecord(keys))
      BY <1>5, <2>2 DEF GetCryptokeys
    <3> QED
      BY <1>1, <1>3, <2>1, <3>1 DEF DNSSECMoves
  <2>3. CASE FirstDSRecord(keys) = NoDS
    <3>1. call' = [call EXCEPT ![c] = [call[c] EXCEPT !.pc = "createKey"]] /\ given' = given
      BY <1>2, <1>5, <2>1, <2>3 DEF GetCryptokeys
    <3> QED
      BY <1>1, <2>1, <2>3, <3>1 DEF DNSSECMoves
  <2> QED
    BY <2>2, <2>3
<1>6. CASE \E ready \in BOOLEAN : CreateCryptokey(c, ready)
  <2>1. /\ call[c].pc = "createKey" /\ keys' = Append(keys, NewKey)
        /\ UNCHANGED <<dotted, rrsets, overlap, others, faults>>
    BY <1>6 DEF CreateCryptokey, At
  <2>2. CASE Answered(c, NewKey.ds)
    BY <1>1, <1>3, <2>1, <2>2 DEF DNSSECMoves
  <2>3. CASE ~Answered(c, NewKey.ds)
    <3>1. call' = [call EXCEPT ![c] = [call[c] EXCEPT !.pc = "getAgain"]] /\ given' = given
      BY <1>2, <1>6, <2>1, <2>3 DEF CreateCryptokey
    <3> QED
      BY <1>1, <2>1, <3>1 DEF DNSSECMoves
  <2> QED
    BY <2>2, <2>3
<1>7. CASE GetAgain(c)
  <2>1. call[c].pc = "getAgain" /\ UNCHANGED <<dotted, rrsets, keys, overlap, others, faults>>
        /\ Answered(c, FirstDSRecord(keys))
    BY <1>7 DEF GetAgain, At
  <2> QED
    BY <1>1, <1>3, <2>1 DEF DNSSECMoves
<1>8. CASE DNSSECFails(c)
  <2>1. /\ call[c].pc \in {"enable", "getKeys", "createKey", "getAgain"}
        /\ UNCHANGED <<dotted, rrsets, overlap, others, given>>
    BY <1>8 DEF DNSSECFails
  <2>2. faults' \in 0 .. MaxFaults
    BY <1>1, <1>8 DEF DNSSECFails, Fault
  <2>3. keys' = keys \/ (keys' = Append(keys, NewKey) /\ call[c].pc = "createKey")
    BY <1>8 DEF DNSSECFails, At
  <2>4. call' = [call EXCEPT ![c] = [call[c] EXCEPT !.pc = "done", !.fault = TRUE]]
    BY <1>2, <1>8, <2>1 DEF DNSSECFails
  <2> QED
    BY <1>1, <2>1, <2>2, <2>3, <2>4 DEF DNSSECMoves
<1> QED
  BY <1>4, <1>5, <1>6, <1>7, <1>8 DEF DNSSECStep

(* So they keep the records' invariant. *)
LEMMA DNSSECSafe ==
  ASSUME ConstantsOK, RecordsInv, NEW c \in Clients, DNSSECStep(c)
  PROVE  RecordsInv'
<1> DEFINE cl == call[c]
<1>0. RecordsTypeOK
  BY DEF RecordsInv
<1>1. /\ cl.pc \in {"enable", "getKeys", "createKey", "getAgain"}
      /\ UNCHANGED <<dotted, rrsets, overlap, others>>
      /\ faults' \in 0 .. MaxFaults
  BY <1>0, DNSSECFacts
<1>2. IsCall(cl) /\ PlaceOK(cl) /\ cl # NoCall
  BY <1>1, HasBegun, ClientFacts
<1>3. cl.req.op = "dnssec" /\ cl.created = {}
  BY <1>1, <1>2 DEF PlaceOK
<1>4. keys' \in Seq(DNSKeys)
  <2>1. keys \in Seq(DNSKeys)
    BY <1>0 DEF RecordsTypeOK, DNSKeys
  <2> QED
    BY <1>0, <2>1, DNSSECFacts, NewKeyFacts
<1>5. PICK pc \in {"getKeys", "createKey", "getAgain", "done"}, ds \in Nat : DNSSECMoves(c, pc, ds)
  BY <1>0, DNSSECFacts
<1>6. given' \in Seq([ds : Nat, alone : BOOLEAN])
  <2> DEFINE A == [ds : Nat, alone : BOOLEAN]
             answer == [ds |-> ds, alone |-> c \notin overlap]
  <2>1. given \in Seq(A) /\ answer \in A
    BY <1>0 DEF RecordsTypeOK
  <2>2. given' = given \/ given' = Append(given, answer)
    BY <1>5 DEF DNSSECMoves
  <2> HIDE DEF A, answer
  <2>3. given' \in Seq(A)
    BY <2>1, <2>2
  <2> QED
    BY <2>3 DEF A
<1>7. ASSUME NEW x \in {[cl EXCEPT !.pc = pc], [cl EXCEPT !.pc = pc, !.fault = TRUE], [cl EXCEPT !.pc = pc, !.ds = ds]}
      PROVE  IsCall(x) /\ x.pc = pc /\ x.req = cl.req /\ x.created = {}
  <2>1. /\ IsCall([cl EXCEPT !.pc = pc])
        /\ IsCall([cl EXCEPT !.pc = pc, !.fault = TRUE])
        /\ IsCall([cl EXCEPT !.pc = pc, !.ds = ds])
    BY <1>2, CallMoves
  <2> QED
    BY <1>2, <1>3, <2>1 DEF IsCall
<1>8. PICK x : /\ call' = [call EXCEPT ![c] = x] /\ IsCall(x)
               /\ x.pc = pc /\ x.req = cl.req /\ x.created = {}
  BY <1>5, <1>7 DEF DNSSECMoves
<1>9. ClientOK(x, others'[c], rrsets', dotted)
  <2>1. PlaceOK(x)
    BY <1>3, <1>8 DEF PlaceOK
  <2>2. /\ MergeKeeps(x, others'[c], rrsets') /\ ReadsOwn(x, others'[c], rrsets')
        /\ ReportHolds(x, others'[c], rrsets') /\ ReplacedSoFar(x, others'[c], rrsets', dotted)
    BY <1>3, <1>8 DEF MergeKeeps, ReadsOwn, ReportHolds, ReplacedSoFar, Replacing
  <2> QED
    BY <2>1, <2>2 DEF ClientOK
<1>10. call'[c] = x /\ \A d \in Clients \ {c} : call'[d] = call[d]
  BY <1>0, <1>8 DEF RecordsTypeOK
<1>11. RecordsTypeOK'
  BY <1>0, <1>1, <1>4, <1>6, <1>8, <1>10 DEF RecordsTypeOK, DNSKeys
<1> QED
  BY <1>1, <1>9, <1>10, <1>11, OneClient

-----------------------------------------------------------------------------
(* The records' invariant holds, and what it is for.                         *)

(* Every step keeps the records' invariant, *)
LEMMA RecordsStep ==
  ASSUME ConstantsOK, RecordsInv, RecordsNext
  PROVE  RecordsInv'
<1>1. PICK c \in Clients :
         \/ \E r \in Requests : BeginRequest(c, r)
         \/ ReportEntry(c)
         \/ WriteEntry(c)
         \/ WriteEntryRefused(c)
         \/ \E carried \in BOOLEAN : WriteEntryFails(c, carried)
         \/ ReadBack(c)
         \/ ReadBackFails(c)
         \/ DeleteRRSets(c)
         \/ DeleteRefused(c)
         \/ DryDelete(c)
         \/ \E carried \in BOOLEAN : DeleteFails(c, carried)
         \/ Look(c)
         \/ LookFails(c)
         \/ Purge(c)
         \/ PurgeRefused(c)
         \/ \E carried \in BOOLEAN : PurgeFails(c, carried)
         \/ EnableDNSSEC(c)
         \/ GetCryptokeys(c)
         \/ \E ready \in BOOLEAN : CreateCryptokey(c, ready)
         \/ GetAgain(c)
         \/ DNSSECFails(c)
  BY DEF RecordsNext
<1>2. CASE \E r \in Requests : BeginRequest(c, r)
  BY <1>2, BeginCallSafe
<1>3. CASE ReportEntry(c)
  BY <1>3, ReportEntrySafe
<1>4. CASE WriteEntry(c) \/ WriteEntryRefused(c)
  BY <1>4, WriteEntrySafe
<1>5. CASE \E carried \in BOOLEAN : WriteEntryFails(c, carried)
  BY <1>5, WriteEntryFailsSafe
<1>6. CASE ReadBack(c)
  BY <1>6, ReadBackSafe
<1>7. CASE ReadBackFails(c)
  BY <1>7, ReadBackFailsSafe
<1>8. CASE \/ DeleteRRSets(c) \/ DeleteRefused(c) \/ DryDelete(c)
           \/ \E carried \in BOOLEAN : DeleteFails(c, carried)
  BY <1>8, DeleteSafe
<1>9. CASE Look(c)
  BY <1>9, LookSafe
<1>10. CASE LookFails(c)
  BY <1>10, LookFailsSafe
<1>11. CASE Purge(c) \/ PurgeRefused(c) \/ \E carried \in BOOLEAN : PurgeFails(c, carried)
  BY <1>11, PurgeSafe
<1>12. CASE DNSSECStep(c)
  BY <1>12, DNSSECSafe
<1> QED
  BY <1>1, <1>2, <1>3, <1>4, <1>5, <1>6, <1>7, <1>8, <1>9, <1>10, <1>11, <1>12, Zenon DEF DNSSECStep

(* which holds at the start. *)
LEMMA RecordsStart ==
  ASSUME ConstantsOK, RecordsInit
  PROVE  RecordsInv
<1>1. rrsets \in [Keys -> Seq(RecordContents)]
  BY DEF RecordsInit, ConstantsOK
<1>2. keys \in Seq([ds : Nat, live : BOOLEAN])
  <2> DEFINE a == [ds |-> NoDS, live |-> FALSE]
             b == [ds |-> 1, live |-> FALSE]
             d == [ds |-> 2, live |-> TRUE]
  <2>1. a \in DNSKeys /\ b \in DNSKeys /\ d \in DNSKeys
    BY DEF DNSKeys, NoDS
  <2>2. keys \in {<<>>, <<a>>, <<b, d>>}
    BY DEF RecordsInit
  <2> HIDE DEF a, b, d
  <2>3. <<>> \in Seq(DNSKeys) /\ <<a>> \in Seq(DNSKeys) /\ <<b, d>> \in Seq(DNSKeys)
    BY <2>1
  <2>4. keys \in Seq(DNSKeys)
    BY <2>2, <2>3
  <2> QED
    BY <2>4 DEF DNSKeys
<1>3. /\ DOMAIN call = Clients /\ \A c \in Clients : call[c] = NoCall
      /\ dotted \in BOOLEAN /\ overlap = {} /\ given = <<>> /\ faults = 0
      /\ others \in [Clients -> SUBSET Keys]
  BY DEF RecordsInit
<1>4. given \in Seq([ds : Nat, alone : BOOLEAN]) /\ faults \in 0 .. MaxFaults
  BY <1>3 DEF ConstantsOK
<1>5. RecordsTypeOK
  BY <1>1, <1>2, <1>3, <1>4 DEF RecordsTypeOK
<1> QED
  BY <1>3, <1>5 DEF RecordsInv, ClientOK

(* In every reachable state, what each client has found and reported of the  *)
(* zone is true, but for the RRsets that others have changed since it looked *)
(* (dns_service_record.go:24-521, api_dns.go:305-479).                       *)
THEOREM RecordsInductive == RecordsSpec => []RecordsInv
<1> USE RecordsAssumption
<1>1. RecordsInit => RecordsInv
  BY RecordsStart
<1>2. RecordsInv /\ [RecordsNext]_recordsVars => RecordsInv'
  <2> SUFFICES ASSUME RecordsInv, [RecordsNext]_recordsVars PROVE RecordsInv'
    OBVIOUS
  <2>1. CASE UNCHANGED recordsVars
    BY <2>1 DEF recordsVars, RecordsInv, RecordsTypeOK
  <2>2. CASE RecordsNext
    BY <2>2, RecordsStep
  <2> QED
    BY <2>1, <2>2
<1> QED
  BY <1>1, <1>2, PTL DEF RecordsSpec

(* Every call has one of the forms the code gives it, whatever the requests, *)
(* the entries and the zone.                                                 *)
THEOREM RecordsTypeCorrect == RecordsSpec => []RecordsTypeOK
<1> USE RecordsAssumption
<1>1. RecordsInv => RecordsTypeOK
  BY DEF RecordsInv
<1> QED
  BY <1>1, RecordsInductive, PTL

(* A call that is done has been through all its entries.                     *)
LEMMA AllPast ==
  ASSUME ConstantsOK, NEW cl, cl.req \in Requests, cl.pc = "done"
  PROVE  \A k : PastTaken(cl, k) = Taken(cl, k)
<1>1. Past(cl) = 1 .. Len(cl.req.items)
  BY DEF Past
<1> QED
  BY <1>1, TakenFacts DEF PastTaken

(* ImportZoneFile keeps to its mode: a merge leaves what it found, but for   *)
(* names that the file writes in other letters than PowerDNS, and a          *)
(* replacement of which no request failed and whose deletion PowerDNS did    *)
(* not refuse leaves the records of the file that were not refused, and      *)
(* nothing else but what its names do not reach: for any file, any names,    *)
(* any zone and any calls of others between its requests                     *)
(* (dns_service_record.go:373-521).                                          *)
THEOREM ImportsHonourTheirMode == RecordsSpec => []ImportHonoursMode
<1> USE RecordsAssumption
<1>1. ASSUME RecordsInv PROVE ImportHonoursMode
  <2>1. ASSUME NEW c \in Clients, ~At(c, "idle")
        PROVE  call[c] # NoCall /\ call[c].req \in Requests /\ ClientOK(call[c], others[c], rrsets, dotted)
    BY <1>1, <2>1, HasBegun, ClientFacts DEF At
  <2>2. ASSUME NEW c \in Clients, Importing(c, "merge"),
               NEW k \in DOMAIN call[c].seen \ (others[c] \cup Misspelled(call[c].req))
        PROVE  rrsets[k] = call[c].seen[k]
    BY <2>1, <2>2 DEF Importing, ClientOK, MergeKeeps
  <2>3. ASSUME NEW c \in Clients, Importing(c, "replace"), At(c, "done"), ~call[c].fault, 0 \notin call[c].refused,
               ~call[c].req.dry, call[c].req.items # <<>>,
               NEW k \in Keys \ others[c], ~Managed(k[2])
        PROVE  /\ Taken(call[c], k) = {} /\ (k \in DOMAIN call[c].seen => Recovered(k, dotted)) => rrsets[k] = <<>>
               /\ \A j \in Taken(call[c], k) :
                     LastTaken(call[c], j) => rrsets[k] = Written(call[c].req, call[c].req.items[j])
    <3> DEFINE cl == call[c]
               r == cl.req
    <3>1. cl # NoCall /\ r \in Requests /\ ClientOK(cl, others[c], rrsets, dotted)
      BY <2>1, <2>3 DEF Importing
    <3>2. Replacing(cl) /\ cl.pc = "done"
      BY <2>3 DEF Replacing, Importing, At
    <3>3. PastTaken(cl, k) = Taken(cl, k)
      BY <3>1, <3>2, AllPast
    <3>4. \A j \in Taken(cl, k) : Key(r.items[j]) = k
      BY DEF Taken
    <3>5. /\ PastTaken(cl, k) = {} /\ Purgeable(cl, k, dotted) => rrsets[k] = <<>>
          /\ \A j \in PastTaken(cl, k) :
                (\A m \in PastTaken(cl, k) : m <= j) => rrsets[k] = Written(r, r.items[j])
      BY <2>3, <3>1, <3>2 DEF ClientOK, ReplacedSoFar
    <3> HIDE DEF cl
    <3> QED
      BY <3>3, <3>4, <3>5 DEF LastTaken, Purgeable, cl
  <2> QED
    BY <2>2, <2>3, Zenon DEF ImportHonoursMode
<1> QED
  BY <1>1, RecordsInductive, PTL

(* What a record call or an import reports is there unless PowerDNS refused  *)
(* it, which nobody notices, and what a creation answers is what it was      *)
(* given (dns_service_record.go:24-282).                                     *)
THEOREM ReportsAreTrue == RecordsSpec => []ReportedIsThere
<1> USE RecordsAssumption
<1>1. ASSUME RecordsInv PROVE ReportedIsThere
  <2> SUFFICES ASSUME NEW c \in Clients, At(c, "done"), ~call[c].req.dry, NEW j \in call[c].created,
                      Key(call[c].req.items[j]) \notin others[c]
               PROVE  IF call[c].req.op \in {"delete", "bulkDelete"}
                      THEN j \notin call[c].refused => rrsets[Key(call[c].req.items[j])] = <<>>
                      ELSE /\ LastTaken(call[c], j) =>
                                 /\ rrsets[Key(call[c].req.items[j])] = Written(call[c].req, call[c].req.items[j])
                                 /\ call[c].req.op = "create" /\ (\A m \in call[c].created : m <= j) =>
                                        call[c].answer[1] = Unquoted(call[c].req.items[j])
                           /\ call[c].req.op = "create" => rrsets[Key(call[c].req.items[j])] # <<>>
    BY DEF ReportedIsThere, Unquoted
  <2>1. ClientOK(call[c], others[c], rrsets, dotted) /\ call[c] # NoCall /\ call[c].req \in Requests
    BY <1>1, HasBegun, ClientFacts DEF At
  <2>2. ReportHolds(call[c], others[c], rrsets)
    BY <2>1 DEF ClientOK
  <2>3. \A k : PastTaken(call[c], k) = Taken(call[c], k)
    BY <2>1, AllPast DEF At
  <2>4. LastTaken(call[c], j) <=> LastPast(call[c], j)
    BY <2>3 DEF LastTaken, LastPast
  <2> QED
    BY <2>2, <2>4 DEF ReportHolds
<1> QED
  BY <1>1, RecordsInductive, PTL

-----------------------------------------------------------------------------
(* The DS answered.                                                          *)

(* A call that met no other one is alone; when it is about to make a key, no *)
(* key has a DS; and once it has answered a DS, that is the first one there  *)
(* is, nobody is about to make another key, and all later answers are it     *)
(* (EnsureZoneDNSSEC).                                                       *)
MetNobody == \A c \in Clients \ overlap : Busy(c) => \A d \in Clients \ {c} : ~Busy(d)
MakesFirst == \A c \in Clients \ overlap : call[c].pc = "createKey" => FirstDSRecord(keys) = NoDS
Settled ==
    \A i \in DOMAIN given : given[i].alone =>
        /\ given[i].ds # NoDS /\ FirstDSRecord(keys) = given[i].ds
        /\ \A c \in Clients : call[c].pc # "createKey"
        /\ \A j \in DOMAIN given : i < j => given[j].ds = given[i].ds
AnswerInv == RecordsTypeOK /\ MetNobody /\ MakesFirst /\ Settled

(* The steps of the record calls and of imports, which leave the keys and    *)
(* the answers alone.                                                        *)
RecordStep(c) ==
    \/ ReportEntry(c) \/ WriteEntry(c) \/ WriteEntryRefused(c)
    \/ \E carried \in BOOLEAN : WriteEntryFails(c, carried)
    \/ ReadBack(c) \/ ReadBackFails(c)
    \/ DeleteRRSets(c) \/ DeleteRefused(c) \/ DryDelete(c)
    \/ \E carried \in BOOLEAN : DeleteFails(c, carried)
    \/ Look(c) \/ LookFails(c) \/ Purge(c) \/ PurgeRefused(c)
    \/ \E carried \in BOOLEAN : PurgeFails(c, carried)

(* A report leads to the next entry or ends the call. *)
LEMMA NextPlace ==
  ASSUME NEW cl, IsCall(cl)
  PROVE  LET Places == {"done", "entry"} IN
         /\ Failed(cl).pc \in Places /\ Created(cl).pc \in Places /\ Skipped(cl).pc \in Places
         /\ [Failed(cl) EXCEPT !.fault = TRUE].pc \in Places
         /\ \A a : Created([cl EXCEPT !.answer = a]).pc \in Places
         /\ \A R : Created(Refused(cl, R)).pc \in Places
<1> DEFINE Fields == {"pc", "req", "i", "seen", "created", "skipped", "failed", "refused", "answer", "ds", "fault"}
           Shaped(x) == DOMAIN x = Fields /\ x = [f \in Fields |-> x[f]]
<1>1. Shaped(cl)
  BY DEF IsCall
<1>2. ASSUME NEW x, Shaped(x)
      PROVE  /\ NextEntry(x).pc \in {"done", "entry"}
             /\ [NextEntry(x) EXCEPT !.fault = TRUE].pc \in {"done", "entry"}
  BY <1>2 DEF NextEntry
<1>3. \A x, v : Shaped(x) => /\ Shaped([x EXCEPT !.failed = v]) /\ Shaped([x EXCEPT !.created = v])
                             /\ Shaped([x EXCEPT !.skipped = v]) /\ Shaped([x EXCEPT !.answer = v])
                             /\ Shaped([x EXCEPT !.refused = v])
  OBVIOUS
<1> HIDE DEF Shaped
<1>4. \A a : Shaped([cl EXCEPT !.answer = a]) /\ Shaped(Refused(cl, a))
  BY <1>1, <1>3 DEF Refused
<1>5. Failed(cl).pc \in {"done", "entry"} /\ [Failed(cl) EXCEPT !.fault = TRUE].pc \in {"done", "entry"}
  BY <1>1, <1>2, <1>3 DEF Failed
<1>6. Skipped(cl).pc \in {"done", "entry"}
  BY <1>1, <1>2, <1>3 DEF Skipped
<1>7. \A x : Shaped(x) => Created(x).pc \in {"done", "entry"}
  BY <1>2, <1>3 DEF Created
<1> QED
  BY <1>1, <1>4, <1>5, <1>6, <1>7

(* The steps on records leave the DNSSEC keys and answers alone. *)
LEMMA RecordStepFacts ==
  ASSUME ConstantsOK, RecordsInv, NEW c \in Clients, RecordStep(c)
  PROVE  /\ Busy(c) /\ call[c].pc # "createKey"
         /\ UNCHANGED <<keys, overlap, given>>
         /\ call'[c].pc # "createKey"
         /\ \A d \in Clients \ {c} : call'[d] = call[d]
<1> DEFINE cl == call[c]
           Places == {"done", "entry", "readBack", "purge"}
           Moves(x) == call' = [call EXCEPT ![c] = x] /\ x.pc \in Places
<1>1. cl.pc \in {"entry", "readBack", "look", "purge"} /\ UNCHANGED <<keys, overlap, given>>
  BY DEF RecordStep, ReportEntry, WriteEntry, WriteEntryFails, ReadBack,
         WriteEntryRefused, ReadBackFails, DeleteRRSets, DeleteRefused, DryDelete, DeleteFails, Look,
         LookFails, Purge, PurgeRefused, PurgeFails, At
<1>2. IsCall(cl) /\ DOMAIN call = Clients
  BY <1>1, HasBegun, ClientFacts DEF RecordsInv, RecordsTypeOK
<1>3. /\ \A p, v : /\ [cl EXCEPT !.pc = p].pc = p
                   /\ [cl EXCEPT !.pc = p, !.created = v].pc = p
                   /\ [cl EXCEPT !.pc = p, !.created = v, !.refused = v].pc = p
                   /\ [cl EXCEPT !.pc = p, !.refused = v].pc = p
                   /\ [Refused(cl, v) EXCEPT !.pc = p].pc = p
                   /\ [cl EXCEPT !.pc = p, !.fault = TRUE].pc = p
                   /\ [cl EXCEPT !.pc = p, !.fault = TRUE, !.failed = v].pc = p
                   /\ [cl EXCEPT !.seen = v, !.pc = p].pc = p
  BY <1>2 DEF IsCall, Refused
<1>4. \E x : Moves(x)
  <2>1. CASE ReportEntry(c)
    BY <1>2, <2>1, NextPlace DEF ReportEntry, SkipEntry, EmptyEntry, DryEntry
  <2>2. CASE WriteEntry(c)
    <3>1. CASE Creates(c)
      <4>1. Moves([cl EXCEPT !.pc = "readBack"])
        BY <1>3, <2>2, <3>1 DEF WriteEntry, Answer
      <4> QED
        BY <4>1
    <3>2. CASE ~Creates(c)
      <4>1. Moves(Created(cl))
        BY <1>2, <2>2, <3>2, NextPlace DEF WriteEntry, Answer
      <4> QED
        BY <4>1
    <3> QED
      BY <3>1, <3>2
  <2>12. CASE WriteEntryRefused(c)
    <3> DEFINE x == Refused(cl, {cl.i})
    <3>1. call' = [call EXCEPT ![c] = Answer(c, x)]
      BY <2>12 DEF WriteEntryRefused
    <3>2. [x EXCEPT !.pc = "readBack"].pc \in Places /\ Created(x).pc \in Places
      BY <1>2, <1>3, NextPlace
    <3> HIDE DEF x
    <3>3. Moves(Answer(c, x))
      BY <3>1, <3>2 DEF Answer
    <3> QED
      BY <3>3
  <2>3. CASE \E carried \in BOOLEAN : WriteEntryFails(c, carried)
    BY <1>2, <2>3, NextPlace DEF WriteEntryFails
  <2>4. CASE ReadBack(c)
    BY <1>2, <2>4, NextPlace DEF ReadBack
  <2>5. CASE ReadBackFails(c)
    BY <1>2, <2>5, NextPlace DEF ReadBackFails
  <2>6. CASE DeleteRRSets(c) \/ DryDelete(c)
    <3> DEFINE x == [cl EXCEPT !.pc = "done", !.created = DOMAIN cl.req.items]
    <3>1. call' = [call EXCEPT ![c] = x]
      BY <2>6 DEF DeleteRRSets, DryDelete
    <3>2. Moves(x)
      BY <1>3, <3>1
    <3> QED
      BY <3>2
  <2>13. CASE DeleteRefused(c)
    <3> DEFINE x == [cl EXCEPT !.pc = "done", !.created = DOMAIN cl.req.items, !.refused = DOMAIN cl.req.items]
    <3>1. call' = [call EXCEPT ![c] = x]
      BY <2>13 DEF DeleteRefused
    <3>2. Moves(x)
      BY <1>3, <3>1
    <3> QED
      BY <3>2
  <2>7. CASE \E carried \in BOOLEAN : DeleteFails(c, carried)
    <3> DEFINE x == [cl EXCEPT !.pc = "done", !.fault = TRUE, !.failed = DOMAIN cl.req.items]
    <3>1. call' = [call EXCEPT ![c] = x]
      BY <2>7 DEF DeleteFails
    <3>2. Moves(x)
      BY <1>3, <3>1
    <3> QED
      BY <3>2
  <2>8. CASE Look(c)
    <3>1. PICK pc, seen : call' = [call EXCEPT ![c].seen = seen, ![c].pc = pc] /\ pc \in Places
      <4> DEFINE pc == CASE ~HasRecords(cl.req) -> "done"
                         [] HasRecords(cl.req) /\ cl.req.mode = "replace" /\ ~cl.req.dry /\ UserManageable # {} -> "purge"
                         [] OTHER -> "entry"
                 seen == [k \in UserManageable |-> rrsets[k]]
      <4>1. call' = [call EXCEPT ![c].seen = seen, ![c].pc = pc]
        BY <2>8 DEF Look
      <4>2. pc \in Places
        OBVIOUS
      <4> HIDE DEF pc, seen
      <4> QED
        BY <4>1, <4>2
    <3> DEFINE x == [cl EXCEPT !.seen = seen, !.pc = pc]
    <3>2. call' = [call EXCEPT ![c] = x]
      BY <1>2, <3>1
    <3>3. Moves(x)
      BY <1>3, <3>1, <3>2
    <3> QED
      BY <3>3
  <2>9. CASE LookFails(c)
    <3> DEFINE x == [cl EXCEPT !.pc = "done", !.fault = TRUE]
    <3>1. call' = [call EXCEPT ![c] = x]
      BY <2>9 DEF LookFails
    <3>2. Moves(x)
      BY <1>3, <3>1
    <3> QED
      BY <3>2
  <2>10. CASE Purge(c)
    <3> DEFINE x == [cl EXCEPT !.pc = "entry"]
    <3>1. call' = [call EXCEPT ![c] = x]
      BY <2>10 DEF Purge
    <3>2. Moves(x)
      BY <1>3, <3>1
    <3> QED
      BY <3>2
  <2>14. CASE PurgeRefused(c)
    <3> DEFINE x == [cl EXCEPT !.pc = "entry", !.refused = {0}]
    <3>1. call' = [call EXCEPT ![c] = x]
      BY <2>14 DEF PurgeRefused
    <3>2. Moves(x)
      BY <1>3, <3>1
    <3> QED
      BY <3>2
  <2>11. CASE \E carried \in BOOLEAN : PurgeFails(c, carried)
    <3> DEFINE x == [cl EXCEPT !.pc = "entry", !.fault = TRUE]
    <3>1. call' = [call EXCEPT ![c] = x]
      BY <2>11 DEF PurgeFails
    <3>2. Moves(x)
      BY <1>3, <3>1
    <3> QED
      BY <3>2
  <2> QED
    BY <2>1, <2>2, <2>3, <2>4, <2>5, <2>6, <2>7, <2>8, <2>9, <2>10, <2>11, <2>12, <2>13, <2>14 DEF RecordStep
<1>5. Busy(c) /\ cl.pc # "createKey"
  BY <1>1 DEF Busy
<1>6. \A p \in Places : p # "createKey"
  OBVIOUS
<1> QED
  BY <1>1, <1>2, <1>4, <1>5, <1>6

(* The zone's keys stay as they are, and a client's call goes on.            *)
LEMMA RecordStepAnswers ==
  ASSUME ConstantsOK, RecordsInv, AnswerInv, NEW c \in Clients, RecordStep(c), RecordsTypeOK'
  PROVE  AnswerInv'
<1>1. /\ Busy(c) /\ call[c].pc # "createKey" /\ UNCHANGED <<keys, overlap, given>>
      /\ call'[c].pc # "createKey" /\ \A d \in Clients \ {c} : call'[d] = call[d]
  BY RecordStepFacts
<1>2. \A d \in Clients : Busy(d)' => Busy(d)
  BY <1>1 DEF Busy
<1>3. MetNobody'
  BY <1>1, <1>2 DEF AnswerInv, MetNobody
<1>4. MakesFirst'
  BY <1>1 DEF AnswerInv, MakesFirst, FirstDSRecord
<1>5. Settled'
  BY ZenonT(40), <1>1 DEF AnswerInv, Settled, FirstDSRecord
<1> QED
  BY <1>3, <1>4, <1>5 DEF AnswerInv

(* A call that begins among others has met them, and they it.                *)
LEMMA BeginAnswers ==
  ASSUME AnswerInv, NEW c \in Clients, NEW r \in Requests, BeginRequest(c, r), RecordsTypeOK'
  PROVE  AnswerInv'
<1> DEFINE busy == {d \in Clients : Busy(d)}
<1>1. /\ overlap' = overlap \cup busy \cup (IF busy = {} THEN {} ELSE {c})
      /\ UNCHANGED <<keys, given>>
      /\ call' = [call EXCEPT ![c] = NewCall(r, FirstStep(r))]
  BY DEF BeginRequest
<1>2. /\ call'[c].pc # "createKey"
      /\ \A d \in Clients \ {c} : call'[d] = call[d]
  <2>1. DOMAIN call = Clients
    BY DEF AnswerInv, RecordsTypeOK
  <2>2. FirstStep(r) # "createKey"
    BY DEF FirstStep
  <2>3. NewCall(r, FirstStep(r)).pc = FirstStep(r)
    BY DEF NewCall
  <2> QED
    BY <1>1, <2>1, <2>2, <2>3
<1>3. \A d \in Clients \ {c} : Busy(d)' = Busy(d)
  BY <1>2 DEF Busy
<1>4. \A d \in Clients \ overlap' : ~Busy(d)
  BY <1>1
<1>5. MetNobody'
  <2> SUFFICES ASSUME NEW d \in Clients \ overlap', NEW b \in Clients \ {d}, Busy(d)', Busy(b)'
               PROVE  FALSE
    BY DEF MetNobody
  <2>1. d = c
    BY <1>3, <1>4
  <2>2. b \in busy
    BY <1>3, <2>1
  <2>3. c \in overlap'
    BY <1>1, <2>2
  <2> QED
    BY <2>1, <2>3
<1>6. MakesFirst'
  BY <1>1, <1>2 DEF AnswerInv, MakesFirst, FirstDSRecord
<1>7. Settled'
  BY SMTT(30), <1>1, <1>2 DEF AnswerInv, Settled, FirstDSRecord
<1> QED
  BY <1>5, <1>6, <1>7 DEF AnswerInv

(* EnsureZoneDNSSEC goes on: once an answer is settled nobody makes a key,   *)
(* and an answer given alone is settled.                                     *)
LEMMA DNSSECAnswers ==
  ASSUME ConstantsOK, AnswerInv, NEW c \in Clients, DNSSECStep(c), RecordsTypeOK'
  PROVE  AnswerInv'
<1> DEFINE cl == call[c]
           first == FirstDSRecord(keys)
           k == NewKey
<1>0. RecordsTypeOK /\ DOMAIN call = Clients /\ keys \in Seq(DNSKeys) /\ given \in Seq([ds : Nat, alone : BOOLEAN])
  BY DEF AnswerInv, RecordsTypeOK, DNSKeys
<1>1. /\ cl.pc \in {"enable", "getKeys", "createKey", "getAgain"}
      /\ overlap' = overlap
      /\ \/ keys' = keys
         \/ keys' = <<k>> /\ keys = <<>> /\ cl.pc = "enable"
         \/ keys' = Append(keys, k) /\ cl.pc = "createKey"
  BY <1>0, DNSSECFacts
<1>2. PICK pc \in {"getKeys", "createKey", "getAgain", "done"}, ds \in Nat : DNSSECMoves(c, pc, ds)
  BY <1>0, DNSSECFacts
<1>3. call'[c].pc = pc /\ \A d \in Clients \ {c} : call'[d] = call[d]
  <2>1. IsCall(cl)
    BY <1>0, <1>1, HasBegun DEF RecordsTypeOK
  <2>2. /\ [cl EXCEPT !.pc = pc].pc = pc /\ [cl EXCEPT !.pc = pc, !.fault = TRUE].pc = pc
        /\ [cl EXCEPT !.pc = pc, !.ds = ds].pc = pc
    BY <2>1 DEF IsCall
  <2> QED
    BY <1>0, <1>2, <2>2 DEF DNSSECMoves
<1>4. Busy(c) /\ \A d \in Clients : Busy(d)' => Busy(d)
  BY <1>1, <1>3 DEF Busy
<1>5. /\ k.ds # NoDS
      /\ first = NoDS => FirstDSRecord(Append(keys, k)) = k.ds
      /\ FirstDSRecord(<<>>) = NoDS
  BY <1>0, NewKeyFacts
<1>6. FirstDSRecord(keys)' = FirstDSRecord(keys')
  BY DEF FirstDSRecord
<1> DEFINE first2 == FirstDSRecord(keys')
<1>7. MetNobody'
  BY <1>1, <1>4 DEF AnswerInv, MetNobody
<1>8. MakesFirst'
  <2> SUFFICES ASSUME NEW d \in Clients \ overlap, call'[d].pc = "createKey" PROVE first2 = NoDS
    BY <1>1, <1>6 DEF MakesFirst
  <2>1. CASE d = c
    BY <1>2, <1>3, <2>1 DEF DNSSECMoves
  <2>2. CASE d # c
    <3>1. Busy(d)
      BY <1>3, <2>2 DEF Busy
    <3> QED
      BY <1>4, <2>2, <3>1 DEF AnswerInv, MetNobody
  <2> QED
    BY <2>1, <2>2
<1>9. ASSUME NEW i \in DOMAIN given, given[i].alone
      PROVE  /\ given[i].ds # NoDS /\ first = given[i].ds /\ keys' = keys
             /\ \A d \in Clients : call'[d].pc # "createKey"
             /\ \A j \in DOMAIN given : i < j => given[j].ds = given[i].ds
             /\ given' # given => ds = given[i].ds
  <2>1. /\ given[i].ds # NoDS /\ first = given[i].ds
        /\ \A d \in Clients : call[d].pc # "createKey"
        /\ \A j \in DOMAIN given : i < j => given[j].ds = given[i].ds
    BY <1>9 DEF AnswerInv, Settled
  <2>2. keys' = keys
    BY <1>1, <1>5, <2>1
  <2>3. pc # "createKey"
    BY <1>2, <2>1 DEF DNSSECMoves
  <2>4. given' # given => ds = given[i].ds
    BY <1>2, <2>1, <2>2 DEF DNSSECMoves
  <2> QED
    BY <1>3, <2>1, <2>2, <2>3, <2>4
<1>90. ASSUME \A i \in DOMAIN given' : given'[i].alone =>
                 /\ given'[i].ds # NoDS /\ first2 = given'[i].ds
                 /\ \A d \in Clients : call'[d].pc # "createKey"
                 /\ \A j \in DOMAIN given' : i < j => given'[j].ds = given'[i].ds
       PROVE  Settled'
  <2> HIDE DEF first2
  <2>1. FirstDSRecord(keys)' = first2
    BY <1>6 DEF first2
  <2> QED
    BY <1>90, <2>1 DEF Settled
<1>10. ASSUME given' = given PROVE Settled'
  <2>1. \A i \in DOMAIN given : given[i].alone =>
            /\ given[i].ds # NoDS /\ first2 = given[i].ds
            /\ \A d \in Clients : call'[d].pc # "createKey"
            /\ \A j \in DOMAIN given : i < j => given[j].ds = given[i].ds
    BY <1>9
  <2> QED
    BY <1>10, <1>90, <2>1
<1>11. ASSUME given' # given PROVE Settled'
  <2> DEFINE answer == [ds |-> ds, alone |-> c \notin overlap]
  <2>1. /\ pc = "done" /\ given' = Append(given, answer) /\ ds # NoDS
        /\ \/ keys' = keys /\ ds = first
           \/ keys' = Append(keys, k) /\ ds = k.ds /\ cl.pc = "createKey"
    BY <1>2, <1>11 DEF DNSSECMoves
  <2>2. answer.ds = ds /\ answer.alone = (c \notin overlap)
    OBVIOUS
  <2> HIDE DEF answer
  <2> DEFINE n == Len(given)
  <2>3. /\ n \in Nat /\ DOMAIN given = 1 .. n /\ DOMAIN given' = 1 .. (n + 1)
        /\ \A i \in 1 .. n : given'[i] = given[i]
        /\ given'[n + 1] = answer
    BY <1>0, <2>1
  <2> HIDE DEF n
  <2>4. ASSUME c \notin overlap
        PROVE  first2 = ds /\ \A d \in Clients : call'[d].pc # "createKey"
    <3>1. \A d \in Clients \ {c} : call[d].pc # "createKey"
      BY <1>4, <2>4 DEF AnswerInv, MetNobody, Busy
    <3>2. cl.pc = "createKey" => first = NoDS
      BY <2>4 DEF AnswerInv, MakesFirst
    <3> QED
      BY <1>3, <1>5, <2>1, <3>1, <3>2
  <2>5. ASSUME NEW i \in 1 .. (n + 1), given'[i].alone
        PROVE  /\ given'[i].ds # NoDS /\ first2 = given'[i].ds
               /\ \A d \in Clients : call'[d].pc # "createKey"
               /\ \A j \in 1 .. (n + 1) : i < j => given'[j].ds = given'[i].ds
    <3>1. CASE i \in 1 .. n
      <4>1. /\ given[i].ds # NoDS /\ first2 = given[i].ds
            /\ \A d \in Clients : call'[d].pc # "createKey"
            /\ \A j \in 1 .. n : i < j => given[j].ds = given[i].ds
            /\ ds = given[i].ds
        BY <1>9, <1>11, <2>3, <2>5, <3>1
      <4>2. \A j \in 1 .. (n + 1) : j \in 1 .. n \/ j = n + 1
        BY <2>3
      <4> QED
        BY <2>2, <2>3, <3>1, <4>1, <4>2
    <3>2. CASE i = n + 1
      <4>1. \A j \in 1 .. (n + 1) : ~(i < j)
        BY <2>3, <3>2
      <4> QED
        BY <2>1, <2>2, <2>3, <2>4, <2>5, <3>2, <4>1
    <3> QED
      BY <2>3, <3>1, <3>2
  <2> QED
    BY <1>90, <2>3, <2>5
<1> QED
  BY <1>7, <1>8, <1>10, <1>11 DEF AnswerInv

(* At the start no DS has been answered. *)
LEMMA AnswersInit ==
  ASSUME ConstantsOK, RecordsInit
  PROVE  AnswerInv
<1>1. RecordsTypeOK
  BY RecordsStart DEF RecordsInv
<1>2. /\ \A c \in Clients : call[c].pc = "idle"
      /\ DOMAIN given = {}
  BY DEF RecordsInit, NoCall
<1> QED
  BY <1>1, <1>2 DEF AnswerInv, MetNobody, MakesFirst, Settled, Busy

(* EnsureZoneDNSSEC: the DS that a call answered which met no other one is   *)
(* the DS that every later call answers, for any keys the zone has and       *)
(* whichever requests of later calls fail (powerdns_client.go:184-306).      *)
THEOREM AnswersAreStable == RecordsSpec => []DsIsStable
<1> USE RecordsAssumption
<1>1. RecordsInv /\ RecordsInv' /\ AnswerInv /\ [RecordsNext]_recordsVars => AnswerInv'
  <2> SUFFICES ASSUME RecordsInv, RecordsInv', AnswerInv, [RecordsNext]_recordsVars PROVE AnswerInv'
    OBVIOUS
  <2>1. RecordsTypeOK'
    BY DEF RecordsInv
  <2>2. CASE UNCHANGED recordsVars
    <3>1. UNCHANGED <<keys, call, overlap, given>>
      BY <2>2 DEF recordsVars
    <3>2. MetNobody'
      BY <3>1 DEF AnswerInv, MetNobody, Busy
    <3>3. MakesFirst'
      BY <3>1 DEF AnswerInv, MakesFirst, FirstDSRecord
    <3>4. FirstDSRecord(keys)' = FirstDSRecord(keys)
      BY <3>1 DEF FirstDSRecord
    <3>5. Settled'
      BY <3>1, <3>4 DEF AnswerInv, Settled
    <3> QED
      BY <2>1, <3>2, <3>3, <3>5 DEF AnswerInv
  <2>3. CASE RecordsNext
    <3>1. PICK c \in Clients : (\E r \in Requests : BeginRequest(c, r)) \/ RecordStep(c) \/ DNSSECStep(c)
      BY <2>3, Zenon DEF RecordsNext, RecordStep, DNSSECStep
    <3> QED
      BY <2>1, <3>1, BeginAnswers, RecordStepAnswers, DNSSECAnswers
  <2> QED
    BY <2>2, <2>3
<1>2. RecordsInit => AnswerInv
  BY AnswersInit
<1>3. AnswerInv => DsIsStable
  BY DEF AnswerInv, Settled, DsIsStable
<1> QED
  BY <1>1, <1>2, <1>3, RecordsInductive, PTL DEF RecordsSpec
=============================================================================
