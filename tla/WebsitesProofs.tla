--------------------------- MODULE WebsitesProofs ---------------------------
(***************************************************************************)
(* What holds of Websites for any number of websites, callers, contents    *)
(* and calls, and whichever requests and writes fail: no step of the       *)
(* proofs looks at the bounds MaxCalls and OneFault.                       *)
(*                                                                         *)
(* A website is a row, a DNSLink record, a zone, a key and, at most, an    *)
(* HNS name, and a call changes them one by one.  The properties excuse    *)
(* what the code itself leaves behind (failures, overlapping calls).  The  *)
(* argument: a call whose domain has no excuse is alone on it (PairInv),   *)
(* so its copy of the row agrees with the stored one (KnowInv), and at     *)
(* each of its points it is known which of the row, the record and the     *)
(* zone it has still to change (DnsInv, HnsInv, CountInv).  IInv, at the   *)
(* end, is the conjunction.                                                *)
(***************************************************************************)
EXTENDS Websites, TLAPS

Busy(a) == ~At(a, "idle")
Stored(w) == site[w].state # "none"
Clean(d) == excuse[d] = {}

(* The points of the calls: before the row is inserted, and by operation. *)
PreInsert == {"c_key", "c_check", "c_insert"}
CreatePCs == PreInsert \union {"c_convert", "c_save", "c_zone", "c_link", "c_records"}
OnPCs == {"on_zone", "on_link", "on_records", "on_status"}
OffPCs == {"off_records", "off_count", "off_zone", "off_status"}
UpdatePCs == {"u_tx", "u_commit", "u_hns"} \union OnPCs \union OffPCs
ValidatePCs == {"v_lookup", "v_token", "v_tsave"}
HnsPCs == {"h_zone", "h_records", "h_insert"}
\* The points at which a call has a zone.
ZonePCs == {"c_link", "on_link", "c_records", "on_records", "d_records", "off_count", "off_zone"}

(* What the point a call is at says of its row, its operation and its request. *)
CallTyped(c) ==
    /\ c.pc # "idle" => c.row \in RowWith(Unresolved) /\ c.row.state = "live" /\ c.site \in Sites
    /\ c.pc \in PreInsert \union {"c_convert", "c_save", "c_zone"} => c.row.zone = None
    /\ c.pc \in ZonePCs => c.row.zone # None
    /\ c.pc \in (CreatePCs \ PreInsert) \union OnPCs => c.row.enabled
    /\ c.pc \in OffPCs => ~c.row.enabled
    /\ c.pc \notin {"idle", "c_key"} => c.row \in Website
    /\ c.pc \in {"c_key", "c_convert"} => c.row.target.hash \in Contents
    /\ c.pc = "idle" => c = IdleCall
    /\ c.pc # "idle" =>
          /\ c.pc \in CreatePCs <=> c.op = "create"
          /\ c.pc \in ValidatePCs <=> c.op = "validate"
          /\ c.pc \in HnsPCs <=> c.op = "hns"
          /\ c.pc = "j_validate" <=> c.op = "janitor"
          /\ c.pc = "b_save" <=> c.op \in {"block", "unblock"}
          /\ c.pc \in UpdatePCs <=> c.op = "update"
    /\ c.pc \in UpdatePCs <=> c.req # NoRequest
    /\ c.pc \in OffPCs => c.req = [kind |-> "dns", on |-> FALSE]
    /\ c.pc = "u_commit" => c.req.kind # "target"
    /\ c.pc = "u_commit" /\ c.req.kind \in {"dns", "domain"} => c.changed = "no"

(* The shapes of the rows, zones, keys and calls, and of what is wanted of a row. *)
TypeInv ==
    /\ TypeOK
    /\ \A a \in Callers : CallTyped(calls[a])
    /\ \A w \in Sites : Stored(w) => want[w] \in [target : Target, enabled : BOOLEAN]

\* Once a website changes its domain, both domains are excused.
Moved == \A d \in Domains : "Moved" \in excuse[d]
DomainsFixed == Moved \/ \A a \in Callers : Busy(a) /\ Stored(W(a)) => Row(a).domain = site[W(a)].domain

(* A website that is being created is nobody else's, and the others are stored. *)
FreshInv ==
    \A a \in Callers :
        /\ calls[a].pc \in PreInsert => /\ ~Stored(W(a))
                                        /\ \A b \in Callers \ {a} : W(b) # W(a)
        /\ calls[a].pc \notin PreInsert /\ Busy(a) => Stored(W(a))

(* Two calls that share a domain, that may stop hosting, or that both create an HNS
   domain, were excused when the second one began. *)
PairInv ==
    \A a, b \in Callers : a # b /\ Busy(a) /\ Busy(b) =>
        /\ \A d \in Touches(a) \intersect Touches(b) :
              /\ "Overlap" \in excuse[d]
              /\ calls[a].op \in Savers => "Saves" \in excuse[d]
        /\ Unhosts(a) => \A d \in Touches(a) \union Touches(b) : "Overlap" \in excuse[d]
        /\ calls[a].op = "hns" /\ calls[b].op = "hns" => \A d \in Touches(a) \union Touches(b) : "Overlap" \in excuse[d]

(* A call whose website was deleted under it overlaps with the deletion. *)
LiveInv ==
    \A a \in Callers : Busy(a) /\ calls[a].pc \notin PreInsert \union {"d_records"} /\ ~Live(W(a)) =>
        "Overlap" \in excuse[Row(a).domain] /\ (calls[a].op \in Savers => "Saves" \in excuse[Row(a).domain])

(* The points from which a call saves its whole copy of the row. *)
Writers == {"c_zone", "c_link", "b_save", "v_lookup", "v_token", "v_tsave", "j_validate"}
Unsaved(d) == excuse[d] \intersect {"Saves", "Retry", "Moved"} = {}
(* A live row and every copy that will be saved over it hold the acknowledged request. *)
AckInv ==
    \A w \in Sites : Live(w) /\ Unsaved(site[w].domain) =>
        /\ Wanted(site[w]) = want[w]
        /\ \A a \in Callers : W(a) = w /\ calls[a].pc \in Writers => Wanted(Row(a)) = want[w]

(* What is being published is what was asked for last, and so is what is published. *)
PublishInv ==
    \A k \in Domains : excuse[k] \intersect {"Failed", "Overlap", "Retry"} = {} =>
        /\ \A p \in publishing : p.key = k => p.cid = asked[k]
        /\ (\A p \in publishing : p.key # k) /\ asked[k] # None => key[k] = asked[k]

\* What a call that is alone on a domain knows.
Unread == PreInsert \union {"c_save", "d_records"}
Unzoned == {"c_convert", "c_save", "c_zone", "on_zone", "c_link", "on_link"}
Zoned == {"u_commit", "b_save", "j_validate", "d_row", "u_hns", "c_records", "on_records",
          "off_records", "off_count", "off_zone", "on_status"} \union ValidatePCs
Vacant(d) == \A w \in Sites : ~(Live(w) /\ site[w].domain = d)
(* A call's copy agrees with the stored row in what it has read of it. *)
Knows(c, s) ==
    /\ c.pc \notin Unread => s.target = c.row.target /\ s.enabled = c.row.enabled
    /\ c.pc = "c_save" => s.enabled = c.row.enabled
    /\ c.pc \in Unzoned => s.zone = None
    /\ c.pc \in Zoned => s.zone = c.row.zone
    /\ c.pc = "u_tx" => c.set = None
    /\ c.pc = "u_commit" => IF c.changed = "no" THEN c.set \in {None, c.row.target} ELSE c.set # None
CallKnows(a) ==
    /\ Knows(calls[a], site[W(a)])
    /\ calls[a].pc \in {"c_insert", "d_records"} => Vacant(Row(a).domain)
(* Hence what a call without excuse knows is true. *)
KnowInv == Moved \/ \A a \in Callers : Busy(a) /\ Clean(Row(a).domain) => CallKnows(a)

(* A zone about to be deleted has no other website, unless that is excused. *)
CountInv ==
    Moved \/ \A a \in Callers : At(a, "off_zone") =>
        \A v \in Sites \ {W(a)} : Live(v) /\ Clean(site[v].domain) => site[v].zone # Row(a).zone

(* A zone is linked to a domain by a hosted row, or by a call that will remove its record. *)
Linked(z, d) ==
    \/ \E w \in Sites : Live(w) /\ site[w].enabled /\ site[w].domain = d /\ site[w].zone = z
    \/ \E a \in Callers : calls[a].pc \in {"d_records", "off_records"} /\ Row(a).domain = d /\ Row(a).zone = z
Unique(d) == \A v, w \in Sites : Live(v) /\ Live(w) /\ site[v].domain = d /\ site[w].domain = d => v = w
Backed(d) == \A z \in Domains : rec[<<z, d>>] # None => zone[z] = "live" /\ Linked(z, d)
Served(d) ==
    \A w \in Sites : Live(w) /\ site[w].enabled /\ site[w].zone # None /\ site[w].domain = d =>
        \/ rec[<<site[w].zone, d>>] = site[w].target
        \/ \E a \in Callers : W(a) = w /\ calls[a].pc \in {"c_records", "on_records"}
(* A domain has one live website; its records belong to it, and it has its records. *)
DnsInv == \A d \in Domains : Clean(d) => Unique(d) /\ Backed(d) /\ Served(d)

(* The HNS name: its website exists, its DNSLink and its row have that website's target,
   and a call that creates it finds none. *)
HnsStored == hns.site # None => hns.site \in Sites /\ Stored(hns.site)
HnsCurrent ==
    hns.site # None /\ Clean(site[hns.site].domain) =>
        /\ Live(hns.site)
        /\ \/ hns.rec = site[hns.site].target /\ hns.cid = site[hns.site].target
           \/ \E a \in Callers : At(a, "u_hns") /\ W(a) = hns.site
HnsCalls ==
    \A a \in Callers : calls[a].pc \in HnsPCs =>
        /\ hns.site # None => ~Clean(site[hns.site].domain) /\ ~Clean(Row(a).domain)
        /\ At(a, "h_insert") /\ Clean(Row(a).domain) => hns.rec = Row(a).target
HnsNew == \A a \in Callers : calls[a].pc \in CreatePCs /\ hns.site = W(a) => ~Clean(Row(a).domain)
HnsInv == HnsStored /\ (Moved \/ (HnsCurrent /\ HnsCalls /\ HnsNew))

PairI == Moved \/ PairInv
LiveI == Moved \/ LiveInv
-----------------------------------------------------------------------------

(* What a running call holds: a website, a row and its zone. *)
LEMMA CallFields ==
    ASSUME TypeInv, NEW a \in Callers, Busy(a)
    PROVE  /\ W(a) \in Sites /\ Row(a) \in RowWith(Unresolved)
           /\ Row(a).domain \in Domains /\ Row(a).zone \in Domains \union {None}
           /\ calls[a] \in Call
  BY DEF TypeInv, TypeOK, CallTyped, Busy, At, W, Row, RowWith

(* A call that only moves on keeps its type when the new point is one its operation has. *)
LEMMA GotoTyped ==
    ASSUME TypeInv, NEW a \in Callers, Busy(a), NEW pc \in PCs \ {"idle"},
           pc \in CreatePCs <=> calls[a].pc \in CreatePCs,
           pc \in ValidatePCs <=> calls[a].pc \in ValidatePCs,
           pc \in HnsPCs <=> calls[a].pc \in HnsPCs,
           pc \in UpdatePCs <=> calls[a].pc \in UpdatePCs,
           pc \in OffPCs => calls[a].pc \in OffPCs,
           pc \in PreInsert => calls[a].pc \in PreInsert,
           pc \in {"c_convert", "c_save", "c_zone"} => calls[a].pc \in {"c_convert", "c_save", "c_zone"},
           pc \in ZonePCs => Row(a).zone # None,
           pc \in (CreatePCs \ PreInsert) \union OnPCs => Row(a).enabled,
           pc \notin {"c_key", "c_convert", "u_commit", "j_validate", "b_save"},
           calls[a].pc \notin {"c_key", "j_validate", "b_save"},
           Goto(a, pc)
    PROVE  /\ calls' \in [Callers -> Call]
           /\ \A b \in Callers : CallTyped(calls'[b])
           /\ \A b \in Callers \ {a} : calls'[b] = calls[b]
  <1> DEFINE c == [calls[a] EXCEPT !.pc = pc]
  <1>1. calls[a] \in Call /\ CallTyped(calls[a])
    BY DEF TypeInv, TypeOK
  <1>2. c \in Call /\ CallTyped(c)
    BY <1>1 DEF Call, CallTyped, Busy, At, Row, OffPCs, ZonePCs, PreInsert
  <1>3. calls' = [calls EXCEPT ![a] = c]
    BY DEF Goto, TypeInv, TypeOK
  <1> HIDE DEF c
  <1> QED
    BY <1>2, <1>3 DEF TypeInv, TypeOK

(* A call that ends keeps the type of all calls. *)
LEMMA DoneTyped ==
    ASSUME TypeInv, NEW a \in Callers, Done(a)
    PROVE  /\ calls' \in [Callers -> Call]
           /\ \A b \in Callers : CallTyped(calls'[b])
           /\ \A b \in Callers \ {a} : calls'[b] = calls[b]
           /\ calls'[a] = IdleCall
  <1>1. IdleCall \in Call /\ CallTyped(IdleCall)
    BY DEF IdleCall, Call, CallTyped, PCs, CreatePCs, PreInsert, ValidatePCs, HnsPCs, UpdatePCs, OnPCs, OffPCs, OpNames, ZonePCs
  <1> QED
    BY <1>1 DEF TypeInv, TypeOK, Done

(* Saving a whole row keeps the type of the table. *)
LEMMA SaveTyped ==
    ASSUME TypeInv, NEW w \in Sites, NEW r \in Website, Save(w, r)
    PROVE  /\ site' \in [Sites -> Website \union {NoSite}]
           /\ \A v \in Sites \ {w} : site'[v] = site[v]
           /\ Live(w) => site'[w] = r
           /\ site'[w] \in {r, site[w]}
  BY DEF Save, TypeInv, TypeOK

(* So does updating some columns of a row. *)
LEMMA ColumnsTyped ==
    ASSUME TypeInv, NEW w \in Sites, NEW r, Live(w) => r \in Website, Columns(w, r)
    PROVE  /\ site' \in [Sites -> Website \union {NoSite}]
           /\ \A v \in Sites \ {w} : site'[v] = site[v]
           /\ site'[w] = IF Live(w) THEN r ELSE site[w]
  BY DEF Columns, TypeInv, TypeOK

(* A stored row is a website. *)
LEMMA LiveIsWebsite ==
    ASSUME TypeInv, NEW w \in Sites, Stored(w)
    PROVE  site[w] \in Website
  BY DEF TypeInv, TypeOK, Stored, NoSite

(* Excusing domains adds to their excuses, and to no other's. *)
LEMMA BlameTyped ==
    ASSUME TypeInv, NEW ds, NEW what \in SUBSET Excuses, Blame(ds, what)
    PROVE  /\ excuse' \in [Domains -> SUBSET Excuses]
           /\ \A d \in Domains : excuse'[d] = IF d \in ds THEN excuse[d] \union what ELSE excuse[d]
  BY DEF Blame, TypeInv, TypeOK

(* A call that meets another one only adds excuses. *)
LEMMA OverlapTyped ==
    ASSUME TypeInv, NEW op, NEW ds, NEW unhosts, Overlap(op, ds, unhosts)
    PROVE  /\ excuse' \in [Domains -> SUBSET Excuses]
           /\ \A d \in Domains : excuse[d] \subseteq excuse'[d]
  <1>1. {"Overlap"} \in SUBSET Excuses /\ {"Overlap", "Saves"} \in SUBSET Excuses
    BY DEF Excuses
  <1> QED
    BY <1>1, BlameTyped DEF Overlap, Blame, TypeInv, TypeOK, Excuses

(* The records of a domain are written, or fail to be, with the type kept. *)
LEMMA WriteTyped ==
    ASSUME TypeInv, NEW z \in Domains, NEW d \in Domains, NEW t \in Target \union {None},
           WriteRecords(z, d, t) \/ WriteRecordsFails(z, d, t)
    PROVE  /\ rec' \in [Domains \X Domains -> Target \union {None}]
           /\ excuse' \in [Domains -> SUBSET Excuses]
  <1>1. {"Failed"} \in SUBSET Excuses
    BY DEF Excuses
  <1>2. ASSUME Blame({d}, {"Failed"})
        PROVE  excuse' \in [Domains -> SUBSET Excuses]
    BY <1>1, <1>2, BlameTyped
  <1>3. excuse' \in [Domains -> SUBSET Excuses]
    BY <1>2 DEF WriteRecords, WriteRecordsFails, TypeInv, TypeOK
  <1>4. [rec EXCEPT ![<<z, d>>] = t] \in [Domains \X Domains -> Target \union {None}]
    BY DEF TypeInv, TypeOK
  <1>5. rec' \in {rec, [rec EXCEPT ![<<z, d>>] = t]}
    BY DEF WriteRecords, WriteRecordsFails
  <1> QED
    BY <1>3, <1>4, <1>5 DEF TypeInv, TypeOK

(* A zone is deleted, or fails to be, with the type kept. *)
LEMMA DeleteZoneTyped ==
    ASSUME TypeInv, NEW z \in Domains, NEW blame \in SUBSET {"Failed"},
           DeleteZone(z, blame) \/ DeleteZoneFails(z)
    PROVE  /\ zone' \in [Domains -> {"none", "live", "deleted"}]
           /\ rec' \in [Domains \X Domains -> Target \union {None}]
           /\ excuse' \in [Domains -> SUBSET Excuses]
  <1>1. {"Failed"} \in SUBSET Excuses /\ blame \in SUBSET Excuses
    BY DEF Excuses
  <1>2. excuse' \in [Domains -> SUBSET Excuses]
    BY <1>1, BlameTyped DEF DeleteZone, DeleteZoneFails
  <1> QED
    BY <1>2 DEF DeleteZone, DeleteZoneFails, TypeInv, TypeOK

(* A publication that starts keeps the type. *)
LEMMA PublishTyped ==
    ASSUME TypeInv, NEW k \in Domains, NEW c \in Contents \union Domains, PublishCIDAsync(k, c)
    PROVE  /\ publishing' \subseteq [key : Domains, cid : Contents \union Domains]
           /\ asked' \in [Domains -> Contents \union Domains \union {None}]
  BY DEF PublishCIDAsync, TypeInv, TypeOK

(* Making sure of a key keeps the type. *)
LEMMA EnsureTyped ==
    ASSUME TypeInv, NEW d \in Domains, NEW c \in Contents \union Domains, EnsureIPNSKey(d, c)
    PROVE  /\ key' \in [Domains -> Contents \union Domains \union {None, NoKey}]
           /\ publishing' \subseteq [key : Domains, cid : Contents \union Domains]
           /\ asked' \in [Domains -> Contents \union Domains \union {None}]
           /\ excuse' \in [Domains -> SUBSET Excuses]
  <1>1. PublishRace(d) \in SUBSET Excuses
    BY DEF PublishRace, Excuses
  <1>2. excuse' \in [Domains -> SUBSET Excuses]
    BY <1>1, BlameTyped DEF EnsureIPNSKey
  <1> QED
    BY <1>2, PublishTyped DEF EnsureIPNSKey, TypeInv, TypeOK

(* The resting call has its type. *)
LEMMA IdleTyped == IdleCall \in Call /\ CallTyped(IdleCall)
  BY DEF IdleCall, Call, CallTyped, PCs, CreatePCs, PreInsert, ValidatePCs, HnsPCs, UpdatePCs, OnPCs, OffPCs, OpNames, ZonePCs

(* The calls keep their type when one is replaced by another. *)
LEMMA CallsTyped ==
    ASSUME TypeInv, NEW a \in Callers, NEW c \in Call, CallTyped(c), calls' = [calls EXCEPT ![a] = c]
    PROVE  /\ calls' \in [Callers -> Call]
           /\ \A b \in Callers : CallTyped(calls'[b])
  BY DEF TypeInv, TypeOK

(* A call that begins at an existing website is well formed. *)
LEMMA BeginAtTyped ==
    ASSUME TypeInv, NEW a \in Callers, NEW op \in OpNames, NEW w \in Sites, NEW pc \in PCs \ {"idle"},
           NEW row \in Website, NEW req \in Request \union {NoRequest},
           BeginAt(a, op, w, pc, row, req),
           row.state = "live", pc \notin CreatePCs \union OnPCs \union OffPCs \union {"u_commit", "d_records"},
           op # "create",
           pc \in ValidatePCs <=> op = "validate",
           pc \in HnsPCs <=> op = "hns",
           pc = "j_validate" <=> op = "janitor",
           pc = "b_save" <=> op \in {"block", "unblock"},
           pc \in UpdatePCs <=> op = "update",
           pc \in UpdatePCs <=> req # NoRequest
    PROVE  TypeInv'
  <1> DEFINE c == [IdleCall EXCEPT !.op = op, !.site = w, !.pc = pc, !.row = row, !.req = req]
  <1>1. IdleCall \in Call
    BY IdleTyped
  <1>2. row \in RowWith(Unresolved)
    BY DEF Website, RowWith, Unresolved
  <1>3. /\ c \in Call
        /\ c.pc = pc /\ c.op = op /\ c.site = w /\ c.row = row /\ c.req = req
    BY <1>1, <1>2 DEF Call
  <1> HIDE DEF c
  <1>4. CallTyped(c)
    BY <1>2, <1>3 DEF CallTyped, CreatePCs, PreInsert, OnPCs, OffPCs, ZonePCs
  <1>5. calls' = [calls EXCEPT ![a] = c]
    BY DEF BeginAt, c
  <1>6. excuse' \in [Domains -> SUBSET Excuses]
    BY OverlapTyped DEF BeginAt
  <1>7. calls' \in [Callers -> Call] /\ \A b \in Callers : CallTyped(calls'[b])
    BY <1>3, <1>4, <1>5, CallsTyped
  <1> QED
    BY <1>6, <1>7 DEF TypeInv, TypeOK, BeginAt, stores, Stored

\* The steps that go on to another point with the call otherwise as it was.
LEMMA GotoStep ==
    ASSUME TypeInv, NEW a \in Callers, NEW pc \in PCs \ {"idle"},
           calls[a].pc \in PCs \ {"idle", "c_key", "j_validate", "b_save"},
           pc \in CreatePCs <=> calls[a].pc \in CreatePCs,
           pc \in ValidatePCs <=> calls[a].pc \in ValidatePCs,
           pc \in HnsPCs <=> calls[a].pc \in HnsPCs,
           pc \in UpdatePCs <=> calls[a].pc \in UpdatePCs,
           pc \in OffPCs => calls[a].pc \in OffPCs,
           pc \in PreInsert => calls[a].pc \in PreInsert,
           pc \in {"c_convert", "c_save", "c_zone"} => calls[a].pc \in {"c_convert", "c_save", "c_zone"},
           pc \in ZonePCs => Row(a).zone # None,
           pc \in (CreatePCs \ PreInsert) \union OnPCs => Row(a).enabled,
           pc \notin {"c_key", "c_convert", "u_commit", "j_validate", "b_save"},
           Goto(a, pc)
    PROVE  calls' \in [Callers -> Call] /\ \A b \in Callers : CallTyped(calls'[b])
  BY GotoTyped DEF Busy, At

(* The steps of CreateWebsite up to the saved target keep the type. *)
LEMMA CreateTyped ==
    ASSUME TypeInv, NEW a \in Callers,
           \/ \E w \in Sites, d \in Domains, on \in BOOLEAN :
                 \E t \in [type : {"ipfs"}, hash : NewContents] \union [type : {"ipns"}, hash : NewContents] :
                    BeginCreate(a, w, d, t, on)
           \/ CreateKey(a) \/ CheckDomain(a) \/ InsertWebsite(a) \/ SaveTarget(a)
    PROVE  TypeInv'
  <1>1. ASSUME NEW w \in Sites, NEW d \in Domains, NEW on \in BOOLEAN,
               NEW t \in [type : {"ipfs"}, hash : NewContents] \union [type : {"ipns"}, hash : NewContents],
               BeginCreate(a, w, d, t, on)
        PROVE  TypeInv'
    <2> DEFINE row == [state |-> "live", domain |-> d, target |-> t, status |-> "pending_validation",
                       zone |-> None, key |-> None, enabled |-> on, ssl |-> FALSE]
               pc == IF t.type = "ipns" /\ t.hash \in Contents THEN "c_key" ELSE "c_check"
               c == [IdleCall EXCEPT !.pc = pc,
                                     !.op = "create", !.site = w, !.row = row]
    <2>1. IdleCall \in Call /\ IdleCall.req = NoRequest
      BY IdleTyped DEF IdleCall
    <2>2. t \in Unresolved /\ t.hash \in Contents /\ (t.type # "ipns" => t \in Target)
      BY WebsitesAssumption DEF Unresolved, Target
    <2>3. row \in RowWith(Unresolved) /\ (t.type # "ipns" => row \in Website)
      BY <2>2 DEF RowWith, Website
    <2>4. /\ c \in Call
          /\ c.pc = pc /\ c.op = "create" /\ c.site = w /\ c.row = row /\ c.req = NoRequest
      <3>1. pc \in PCs
        BY DEF PCs
      <3> HIDE DEF row, pc
      <3> QED BY <2>1, <2>3, <3>1 DEF Call, OpNames
    <2> HIDE DEF c
    <2>5. CallTyped(c)
      BY <2>4, <2>2, <2>3 DEF CallTyped, CreatePCs, PreInsert, ValidatePCs, HnsPCs, UpdatePCs, OnPCs, OffPCs, ZonePCs, NoRequest
    <2>6. calls' = [calls EXCEPT ![a] = c]
      BY <1>1 DEF BeginCreate, c
    <2>7. excuse' \in [Domains -> SUBSET Excuses]
      BY <1>1, OverlapTyped DEF BeginCreate
    <2>8. calls' \in [Callers -> Call] /\ \A b \in Callers : CallTyped(calls'[b])
      BY <2>4, <2>5, <2>6, CallsTyped
    <2> QED
      BY <1>1, <2>7, <2>8 DEF TypeInv, TypeOK, BeginCreate, stores, Stored
  <1>2. CASE CreateKey(a)
    <2> DEFINE d == Row(a).domain
               row == [Row(a) EXCEPT !.target = IPNS(d), !.key = d]
               pc == IF calls[a].pc = "c_key" THEN "c_check" ELSE "c_save"
               c == [calls[a] EXCEPT !.pc = pc, !.row = row]
    <2>1. Busy(a) /\ calls[a].pc \in {"c_key", "c_convert"} /\ CallTyped(calls[a])
      BY <1>2 DEF CreateKey, At, Busy, TypeInv
    <2>2. d \in Domains /\ Row(a) \in RowWith(Unresolved) /\ calls[a] \in Call /\ Row(a).target.hash \in Contents
      BY <2>1, CallFields DEF CallTyped, Row
    <2>3. IPNS(d) \in Target
      BY <2>2 DEF IPNS, Target
    <2>4. /\ row \in RowWith(Unresolved) /\ row \in Website
          /\ row.zone = Row(a).zone /\ row.enabled = Row(a).enabled /\ row.state = Row(a).state
      BY <2>2, <2>3 DEF RowWith, Website, Unresolved
    <2> HIDE DEF row
    <2>5. /\ c \in Call
          /\ c.pc = pc /\ c.op = calls[a].op /\ c.site = calls[a].site /\ c.row = row /\ c.req = calls[a].req
      <3>1. pc \in PCs
        BY DEF PCs
      <3> HIDE DEF pc
      <3> QED BY <2>2, <2>4, <3>1 DEF Call
    <2>6. calls' = [calls EXCEPT ![a] = c]
      BY <1>2 DEF CreateKey, TypeInv, TypeOK, Call, row
    <2> HIDE DEF c
    <2>7. CallTyped(c)
      BY <2>1, <2>4, <2>5 DEF Row, CallTyped, Call, CreatePCs, PreInsert, ValidatePCs, HnsPCs, UpdatePCs, OnPCs, OffPCs, ZonePCs, NoRequest
    <2>8. calls' \in [Callers -> Call] /\ \A b \in Callers : CallTyped(calls'[b])
      BY <2>5, <2>6, <2>7, CallsTyped
    <2>9. EnsureIPNSKey(d, Row(a).target.hash)
      BY <1>2 DEF CreateKey
    <2> HIDE DEF d
    <2> QED
      BY <1>2, <2>2, <2>8, <2>9, EnsureTyped DEF TypeInv, TypeOK, CreateKey, Stored
  <1>3. CASE CheckDomain(a)
    <2>1. CASE Goto(a, "c_insert")
      BY <1>3, <2>1, GotoStep DEF TypeInv, TypeOK, CheckDomain, stores, At, PCs, CreatePCs, PreInsert, ValidatePCs,
         HnsPCs, UpdatePCs, OnPCs, OffPCs, ZonePCs, Stored
    <2>2. CASE Done(a)
      BY <1>3, <2>2, DoneTyped DEF TypeInv, TypeOK, CheckDomain, stores, Stored
    <2> QED
      BY <1>3, <2>1, <2>2 DEF CheckDomain
  <1>4. CASE InsertWebsite(a)
    <2>1. Busy(a) /\ At(a, "c_insert") /\ CallTyped(calls[a]) /\ calls[a] \in Call
      BY <1>4, CallFields DEF InsertWebsite, At, Busy, TypeInv
    <2>2. W(a) \in Sites /\ Row(a) \in Website /\ Wanted(Row(a)) \in [target : Target, enabled : BOOLEAN]
      BY <2>1, CallFields DEF CallTyped, Row, At, W, Wanted, Website, RowWith
    <2>3. PICK valid \in BOOLEAN :
            /\ site' = [site EXCEPT ![W(a)] = [Row(a) EXCEPT !.ssl = valid]]
            /\ \/ Row(a).enabled /\ calls' = [calls EXCEPT ![a].row = [Row(a) EXCEPT !.ssl = valid],
                              ![a].pc = IF Row(a).target.type = "ipfs" THEN "c_convert" ELSE "c_zone"]
               \/ Done(a)
      BY <1>4 DEF InsertWebsite
    <2> DEFINE row == [Row(a) EXCEPT !.ssl = valid]
               pc == IF Row(a).target.type = "ipfs" THEN "c_convert" ELSE "c_zone"
               c == [calls[a] EXCEPT !.row = row, !.pc = pc]
    <2>4. row \in Website /\ row \in RowWith(Unresolved)
      BY <2>2 DEF Website, RowWith, Unresolved
    <2> HIDE DEF row
    <2>5. ASSUME Row(a).enabled,
                 calls' = [calls EXCEPT ![a].row = row,
                              ![a].pc = IF Row(a).target.type = "ipfs" THEN "c_convert" ELSE "c_zone"]
          PROVE  calls' \in [Callers -> Call] /\ \A b \in Callers : CallTyped(calls'[b])
      <3>1. calls' = [calls EXCEPT ![a] = c]
        BY <2>5, <2>1 DEF TypeInv, TypeOK, Call
      <3>2. Row(a).target.type = "ipfs" => Row(a).target.hash \in Contents
        BY <2>2 DEF Website, RowWith, Target
      <3>3. /\ c \in Call
            /\ c.pc = pc /\ c.op = calls[a].op /\ c.site = calls[a].site /\ c.row = row /\ c.req = calls[a].req
        <4>1. pc \in PCs
          BY DEF PCs
        <4> HIDE DEF pc
        <4> QED BY <2>1, <2>4, <4>1 DEF Call
      <3>4. /\ row.target = Row(a).target
            /\ row.zone = Row(a).zone /\ row.enabled = Row(a).enabled /\ row.state = Row(a).state
        BY <2>2 DEF row, Website, RowWith
      <3> HIDE DEF c
      <3>5. CallTyped(c)
        BY <2>1, <2>2, <2>4, <2>5, <3>2, <3>3, <3>4
        DEF Row, CallTyped, Call, At, CreatePCs, PreInsert, ValidatePCs, HnsPCs, UpdatePCs, OnPCs, OffPCs, ZonePCs, NoRequest
      <3> QED
        <4> HIDE DEF pc
        <4> QED BY <3>1, <3>3, <3>5, CallsTyped
    <2>6. calls' \in [Callers -> Call] /\ \A b \in Callers : CallTyped(calls'[b])
      BY <2>3, <2>5, DoneTyped DEF row
    <2>7. want' = [want EXCEPT ![W(a)] = Wanted(Row(a))]
      BY <1>4 DEF InsertWebsite
    <2>8. site' = [site EXCEPT ![W(a)] = row]
      BY <2>3 DEF row
    <2>9. /\ \A w \in Sites : Stored(w)' => want'[w] \in [target : Target, enabled : BOOLEAN]
          /\ site' \in [Sites -> Website \union {NoSite}]
          /\ want' \in [Sites -> [target : Target, enabled : BOOLEAN] \union {None}]
      BY <2>2, <2>4, <2>7, <2>8 DEF TypeInv, TypeOK, Stored
    <2> QED
      BY <1>4, <2>6, <2>9 DEF TypeInv, TypeOK, InsertWebsite
  <1>5. CASE SaveTarget(a)
    <2>1. Busy(a) /\ At(a, "c_save") /\ CallTyped(calls[a])
      BY <1>5 DEF SaveTarget, At, Busy, TypeInv
    <2>2. W(a) \in Sites /\ Row(a) \in Website /\ Wanted(Row(a)) \in [target : Target, enabled : BOOLEAN]
      BY <2>1, CallFields DEF CallTyped, Row, At, W, Wanted, Website, RowWith
    <2>3. calls' \in [Callers -> Call] /\ \A b \in Callers : CallTyped(calls'[b])
      BY <1>5, <2>1, GotoStep DEF SaveTarget, CallTyped, Row, At, PCs, CreatePCs, PreInsert, ValidatePCs, HnsPCs, UpdatePCs, OnPCs, OffPCs, ZonePCs
    <2>4. /\ site' \in [Sites -> Website \union {NoSite}]
          /\ \A v \in Sites \ {W(a)} : site'[v] = site[v]
      BY <1>5, <2>2, SaveTyped DEF SaveTarget
    <2>5. want' = [want EXCEPT ![W(a)] = Wanted(Row(a))]
      BY <1>5 DEF SaveTarget
    <2>6. /\ \A w \in Sites : Stored(w)' => want'[w] \in [target : Target, enabled : BOOLEAN]
          /\ want' \in [Sites -> [target : Target, enabled : BOOLEAN] \union {None}]
      BY <2>2, <2>4, <2>5 DEF TypeInv, TypeOK, Stored
    <2> QED
      BY <1>5, <2>3, <2>4, <2>6 DEF TypeInv, TypeOK, SaveTarget
  <1> QED
    BY <1>1, <1>2, <1>3, <1>4, <1>5

(* A stored row stays one that has a target and a hosting flag wanted of it. *)
LEMMA SaveKeeps ==
    ASSUME TypeInv, NEW w \in Sites, Stored(w), NEW r \in Website, want' = want,
           Save(w, r) \/ (Live(w) /\ site' = [site EXCEPT ![w] = r])
    PROVE  /\ site' \in [Sites -> Website \union {NoSite}]
           /\ \A v \in Sites : Stored(v)' => want'[v] \in [target : Target, enabled : BOOLEAN]
  <1>1. /\ site' \in [Sites -> Website \union {NoSite}]
        /\ \A v \in Sites \ {w} : site'[v] = site[v]
    BY SaveTyped DEF TypeInv, TypeOK
  <1> QED
    BY <1>1 DEF TypeInv, Stored

(* The same for an update of some columns. *)
LEMMA ColumnsKeeps ==
    ASSUME TypeInv, NEW w \in Sites, NEW r, Live(w) => r \in Website, Columns(w, r), want' = want
    PROVE  /\ site' \in [Sites -> Website \union {NoSite}]
           /\ \A v \in Sites : Stored(v)' => want'[v] \in [target : Target, enabled : BOOLEAN]
  <1>1. /\ site' \in [Sites -> Website \union {NoSite}]
        /\ \A v \in Sites \ {w} : site'[v] = site[v]
        /\ ~Live(w) => site'[w] = site[w]
    BY ColumnsTyped
  <1>2. Live(w) => Stored(w)
    BY DEF Live, Stored
  <1> QED
    BY <1>1, <1>2 DEF TypeInv, Stored

(* Past the creation of its key, a call's row is a website's. *)
LEMMA BusyRow ==
    ASSUME TypeInv, NEW a \in Callers, calls[a].pc \notin {"idle", "c_key"}
    PROVE  /\ W(a) \in Sites /\ Row(a) \in Website
           /\ Row(a).domain \in Domains /\ Row(a).zone \in Domains \union {None}
           /\ Row(a).target \in Target /\ Row(a).key \in Domains \union {None}
           /\ calls[a] \in Call /\ CallTyped(calls[a]) /\ Busy(a)
  <1>1. CallTyped(calls[a]) /\ calls[a] \in Call
    BY DEF TypeInv, TypeOK
  <1>2. W(a) \in Sites /\ Row(a) \in Website
    BY <1>1 DEF CallTyped, W, Row
  <1> QED
    BY <1>1, <1>2 DEF Website, RowWith, Busy, At

(* The steps that give a website its zone and records keep the type. *)
LEMMA ZoneTyped ==
    ASSUME TypeInv, NEW a \in Callers,
           AssignZone(a) \/ LinkZone(a) \/ LinkZoneFails(a) \/ CreateRecords(a) \/ GivesUp(a),
           calls[a].pc \notin PreInsert /\ Busy(a) => Stored(W(a))
    PROVE  TypeInv'
  <1> USE DEF PreInsert
  <1>1. CASE AssignZone(a)
    <2> DEFINE z == ZoneFor(Row(a).domain)
               row == [Row(a) EXCEPT !.zone = z]
               pc == IF calls[a].pc = "c_zone" THEN "c_link" ELSE "on_link"
               c == [calls[a] EXCEPT !.pc = pc, !.row = row]
    <2>1. calls[a].pc \in {"c_zone", "on_zone"}
      BY <1>1 DEF AssignZone, At
    <2>2. Row(a) \in Website /\ Row(a).domain \in Domains /\ calls[a] \in Call /\ CallTyped(calls[a])
      BY <2>1, BusyRow
    <2>3. z \in Domains
      BY <2>2 DEF ZoneFor, Domains
    <2>4. /\ row \in Website /\ row \in RowWith(Unresolved)
          /\ row.zone # None /\ row.enabled = Row(a).enabled /\ row.state = Row(a).state
      BY <2>2, <2>3, WebsitesAssumption DEF Website, RowWith, Unresolved, Domains
    <2>5. /\ calls' = [calls EXCEPT ![a].pc = IF @ = "c_zone" THEN "c_link" ELSE "on_link", ![a].row = row]
          /\ TakeZone(z, Row(a).domain)
      BY <1>1 DEF AssignZone
    <2>6. zone' \in [Domains -> {"none", "live", "deleted"}] /\ excuse' \in [Domains -> SUBSET Excuses]
      <3>1. {"DeadZone"} \in SUBSET Excuses
        BY DEF Excuses
      <3> HIDE DEF z
      <3>2. zone' \in [Domains -> {"none", "live", "deleted"}]
        BY <2>3, <2>5 DEF TakeZone, TypeInv, TypeOK
      <3> QED BY <3>1, <3>2, <2>5, BlameTyped DEF TakeZone, TypeInv, TypeOK
    <2> HIDE DEF row
    <2>7. calls' = [calls EXCEPT ![a] = c]
      BY <2>2, <2>5 DEF TypeInv, TypeOK, Call
    <2>8. /\ c \in Call
          /\ c.pc = pc /\ c.op = calls[a].op /\ c.site = calls[a].site /\ c.row = row /\ c.req = calls[a].req
      <3>1. pc \in PCs
        BY DEF PCs
      <3> HIDE DEF pc
      <3> QED BY <2>2, <2>4, <3>1 DEF Call
    <2> HIDE DEF c
    <2>9. CallTyped(c)
      BY <2>1, <2>2, <2>4, <2>8
      DEF Row, CallTyped, Call, CreatePCs, ValidatePCs, HnsPCs, UpdatePCs, OnPCs, OffPCs, ZonePCs
    <2>10. calls' \in [Callers -> Call] /\ \A b \in Callers : CallTyped(calls'[b])
      BY <2>7, <2>8, <2>9, CallsTyped
    <2> QED
      BY <1>1, <2>6, <2>10 DEF TypeInv, TypeOK, AssignZone, Stored
  <1>2. CASE LinkZone(a)
    <2>1. calls[a].pc = "c_link"
      BY <1>2 DEF LinkZone, At
    <2>2. W(a) \in Sites /\ Row(a) \in Website /\ Stored(W(a))
      BY <2>1, BusyRow DEF PreInsert
    <2>3. calls' \in [Callers -> Call] /\ \A b \in Callers : CallTyped(calls'[b])
      BY <1>2, <2>1, BusyRow, GotoStep DEF LinkZone, CallTyped, Row, At, PCs, CreatePCs, ValidatePCs, HnsPCs, UpdatePCs, OnPCs, OffPCs, ZonePCs
    <2> QED
      BY <1>2, <2>2, <2>3, SaveKeeps DEF TypeInv, TypeOK, LinkZone
  <1>3. CASE LinkZoneFails(a)
    <2>1. calls[a].pc \in {"c_link", "on_link"}
      BY <1>3 DEF LinkZoneFails, At
    <2>2. Row(a).zone \in Domains
      BY <2>1, BusyRow DEF CallTyped, Row, ZonePCs
    <2>3. /\ zone' \in [Domains -> {"none", "live", "deleted"}]
          /\ rec' \in [Domains \X Domains -> Target \union {None}]
          /\ excuse' \in [Domains -> SUBSET Excuses]
      BY <1>3, <2>2, DeleteZoneTyped DEF LinkZoneFails, TypeInv, TypeOK
    <2> QED
      BY <1>3, <2>3, DoneTyped DEF TypeInv, TypeOK, LinkZoneFails, Stored
  <1>4. CASE CreateRecords(a)
    <2>1. calls[a].pc = "c_records"
      BY <1>4 DEF CreateRecords, At
    <2>2. Row(a).zone \in Domains /\ Row(a).domain \in Domains /\ Row(a).target \in Target
      BY <2>1, BusyRow DEF CallTyped, Row, ZonePCs
    <2>3. /\ rec' \in [Domains \X Domains -> Target \union {None}]
          /\ excuse' \in [Domains -> SUBSET Excuses]
      BY <1>4, <2>2, WriteTyped DEF CreateRecords
    <2> QED
      BY <1>4, <2>3, DoneTyped DEF TypeInv, TypeOK, CreateRecords, Stored
  <1>5. CASE GivesUp(a)
    BY <1>5, DoneTyped DEF TypeInv, TypeOK, GivesUp, stores, Stored
  <1> QED
    BY <1>1, <1>2, <1>3, <1>4, <1>5

(* Every call but a creation begins with the type kept. *)
LEMMA BeginTyped ==
    ASSUME TypeInv, NEW a \in Callers, NEW w \in Sites,
           \/ \E q \in Request : BeginUpdate(a, w, q)
           \/ BeginDelete(a, w) \/ BeginValidate(a, w) \/ BeginBlock(a, w) \/ BeginUnblock(a, w)
           \/ BeginHNSDomain(a, w) \/ BeginJanitor(a, w)
    PROVE  TypeInv'
  <1> USE DEF PCs, OpNames, CreatePCs, PreInsert, OnPCs, OffPCs, UpdatePCs, ValidatePCs, HnsPCs
  <1>1. Live(w)
    BY DEF BeginUpdate, BeginDelete, BeginValidate, BeginBlock, BeginUnblock, BeginHNSDomain, BeginJanitor, BeginAt
  <1>2. site[w] \in Website /\ site[w].state = "live"
    BY <1>1 DEF TypeInv, TypeOK, Live, NoSite
  <1>3. ASSUME NEW s \in {"blocked", "active"}
        PROVE  [site[w] EXCEPT !.status = s] \in Website /\ [site[w] EXCEPT !.status = s].state = "live"
    BY <1>2 DEF Website, RowWith
  <1>4. ASSUME NEW q \in Request
        PROVE  q # NoRequest
    BY DEF Request, NoRequest
  <1>5. ASSUME NEW q \in Request, BeginUpdate(a, w, q)
        PROVE  TypeInv'
    BY <1>2, <1>4, <1>5, BeginAtTyped DEF BeginUpdate
  <1>6. CASE BeginDelete(a, w)
    BY <1>2, <1>6, BeginAtTyped DEF BeginDelete
  <1>7. CASE BeginValidate(a, w)
    BY <1>2, <1>7, BeginAtTyped DEF BeginValidate
  <1>8. CASE BeginBlock(a, w)
    BY <1>3, <1>8, BeginAtTyped DEF BeginBlock
  <1>9. CASE BeginUnblock(a, w)
    BY <1>3, <1>9, BeginAtTyped DEF BeginUnblock
  <1>10. CASE BeginHNSDomain(a, w)
    BY <1>2, <1>10, BeginAtTyped DEF BeginHNSDomain
  <1>11. CASE BeginJanitor(a, w)
    BY <1>2, <1>11, BeginAtTyped DEF BeginJanitor
  <1> QED
    BY <1>5, <1>6, <1>7, <1>8, <1>9, <1>10, <1>11

\* The steps of hosting, deletion, blocking, validation and the HNS name.
LEMMA OnTyped ==
    ASSUME TypeInv, NEW a \in Callers,
           StoreZone(a) \/ HostRecords(a) \/ ResetStatus(a) \/ ResetStatusFails(a)
    PROVE  TypeInv'
  <1> USE DEF PCs, CreatePCs, PreInsert, OnPCs, OffPCs, UpdatePCs, ValidatePCs, HnsPCs, ZonePCs
  <1>1. CASE StoreZone(a)
    <2>1. calls[a].pc = "on_link"
      BY <1>1 DEF StoreZone, At
    <2>2. W(a) \in Sites /\ Row(a).zone \in Domains /\ Row(a).zone # None /\ Row(a).enabled
      BY <2>1, BusyRow DEF CallTyped, Row
    <2>3. Live(W(a)) => [site[W(a)] EXCEPT !.zone = Row(a).zone] \in Website
      <3> HAVE Live(W(a))
      <3>1. site[W(a)] \in Website
        BY <2>2 DEF Live, NoSite, TypeInv, TypeOK
      <3> QED
        BY <2>2, <3>1 DEF Website, RowWith
    <2>4. calls' \in [Callers -> Call] /\ \A b \in Callers : CallTyped(calls'[b])
      BY <1>1, <2>1, <2>2, GotoStep DEF StoreZone
    <2> QED
      BY <1>1, <2>2, <2>3, <2>4, ColumnsKeeps DEF TypeInv, TypeOK, StoreZone
  <1>2. CASE HostRecords(a)
    <2>1. calls[a].pc = "on_records"
      BY <1>2 DEF HostRecords, At
    <2>2. Row(a).zone \in Domains /\ Row(a).domain \in Domains /\ Row(a).target \in Target /\ Row(a).enabled
      BY <2>1, BusyRow DEF CallTyped, Row
    <2>3. /\ rec' \in [Domains \X Domains -> Target \union {None}]
          /\ excuse' \in [Domains -> SUBSET Excuses]
      BY <1>2, <2>2, WriteTyped DEF HostRecords
    <2>4. calls' \in [Callers -> Call] /\ \A b \in Callers : CallTyped(calls'[b])
      <3>1. ASSUME Goto(a, "on_status")
            PROVE  calls' \in [Callers -> Call] /\ \A b \in Callers : CallTyped(calls'[b])
        BY <2>1, <2>2, <3>1, GotoStep
      <3> QED
        BY <1>2, <3>1, DoneTyped DEF HostRecords
    <2> QED
      BY <1>2, <2>3, <2>4 DEF TypeInv, TypeOK, HostRecords, Stored
  <1>3. CASE ResetStatus(a)
    <2>1. W(a) \in Sites
      BY <1>3, BusyRow DEF ResetStatus, At
    <2> DEFINE r == [site[W(a)] EXCEPT !.status = "pending_validation",
                        !.zone = IF At(a, "off_status") /\ Row(a).zone = None THEN None ELSE @]
    <2>2. Live(W(a)) => r \in Website
      <3> HAVE Live(W(a))
      <3>1. site[W(a)] \in Website
        BY <2>1 DEF Live, NoSite, TypeInv, TypeOK
      <3> DEFINE z == IF At(a, "off_status") /\ Row(a).zone = None THEN None ELSE site[W(a)].zone
      <3>2. z \in Domains \union {None}
        BY <3>1 DEF Website, RowWith
      <3>3. r = [site[W(a)] EXCEPT !.status = "pending_validation", !.zone = z]
        BY <3>1 DEF Website, RowWith
      <3> HIDE DEF z, r
      <3> QED
        BY <3>1, <3>2, <3>3 DEF Website, RowWith
    <2>3. Columns(W(a), r)
      BY <1>3 DEF ResetStatus
    <2> HIDE DEF r
    <2> QED
      BY <1>3, <2>1, <2>2, <2>3, ColumnsKeeps, DoneTyped DEF TypeInv, TypeOK, ResetStatus
  <1>4. CASE ResetStatusFails(a)
    <2>1. {"Failed"} \in SUBSET Excuses
      BY DEF Excuses
    <2>2. excuse' \in [Domains -> SUBSET Excuses]
      BY <1>4, <2>1, BlameTyped DEF ResetStatusFails
    <2> QED
      BY <1>4, <2>2, DoneTyped DEF TypeInv, TypeOK, ResetStatusFails, stores, Stored
  <1> QED
    BY <1>1, <1>2, <1>3, <1>4

(* The steps that stop hosting keep the type. *)
LEMMA OffTyped ==
    ASSUME TypeInv, NEW a \in Callers,
           UnhostRecords(a) \/ CountWebsites(a) \/ DeleteEmptyZone(a)
    PROVE  TypeInv'
  <1> USE DEF PCs, CreatePCs, PreInsert, OnPCs, OffPCs, UpdatePCs, ValidatePCs, HnsPCs, ZonePCs
  <1>1. CASE UnhostRecords(a)
    <2>1. calls[a].pc = "off_records"
      BY <1>1 DEF UnhostRecords, At
    <2>2. Row(a).zone \in Domains \union {None} /\ Row(a).domain \in Domains
      BY <2>1, BusyRow
    <2>3. /\ rec' \in [Domains \X Domains -> Target \union {None}]
          /\ excuse' \in [Domains -> SUBSET Excuses]
      <3>1. ASSUME Row(a).zone # None, ClearRecords(Row(a).zone, Row(a).domain)
            PROVE  /\ rec' \in [Domains \X Domains -> Target \union {None}]
                   /\ excuse' \in [Domains -> SUBSET Excuses]
        BY <2>2, <3>1, WriteTyped DEF ClearRecords
      <3> QED
        BY <1>1, <3>1 DEF UnhostRecords, TypeInv, TypeOK
    <2>4. calls' \in [Callers -> Call] /\ \A b \in Callers : CallTyped(calls'[b])
      <3>1. CASE Goto(a, "off_status")
        <4>1. /\ calls' \in [Callers -> Call] /\ \A b \in Callers : CallTyped(calls'[b])
          BY <2>1, <3>1, GotoStep
        <4> QED BY <4>1
      <3>2. CASE Row(a).zone # None /\ Goto(a, "off_count")
        <4>1. /\ calls' \in [Callers -> Call] /\ \A b \in Callers : CallTyped(calls'[b])
          BY <2>1, <3>2, GotoStep
        <4> QED BY <4>1
      <3> QED
        BY <1>1, <3>1, <3>2 DEF UnhostRecords
    <2> QED
      BY <1>1, <2>3, <2>4 DEF TypeInv, TypeOK, UnhostRecords, Stored
  <1>2. CASE CountWebsites(a)
    <2>1. calls[a].pc = "off_count" /\ Row(a).zone # None
      BY <1>2, BusyRow DEF CountWebsites, At, CallTyped, Row
    <2>2. Goto(a, "off_zone") \/ Goto(a, "off_status")
      BY <1>2 DEF CountWebsites
    <2>3. calls' \in [Callers -> Call] /\ \A b \in Callers : CallTyped(calls'[b])
      BY <2>1, <2>2, GotoStep
    <2> QED
      BY <1>2, <2>3 DEF TypeInv, TypeOK, CountWebsites, stores, Stored
  <1>3. CASE DeleteEmptyZone(a)
    <2>1. calls[a].pc = "off_zone" /\ Row(a).zone # None
      BY <1>3, BusyRow DEF DeleteEmptyZone, At, CallTyped, Row
    <2>2. Row(a).zone \in Domains /\ Row(a) \in Website /\ calls[a] \in Call /\ CallTyped(calls[a])
      BY <2>1, BusyRow
    <2>3. /\ zone' \in [Domains -> {"none", "live", "deleted"}]
          /\ rec' \in [Domains \X Domains -> Target \union {None}]
          /\ excuse' \in [Domains -> SUBSET Excuses]
      <3>1. {} \in SUBSET {"Failed"}
        OBVIOUS
      <3> QED
        BY <1>3, <2>2, <3>1, DeleteZoneTyped DEF DeleteEmptyZone
    <2> DEFINE row == [Row(a) EXCEPT !.zone = None]
               c == [calls[a] EXCEPT !.pc = "off_status", !.row = row]
    <2>4. row \in Website /\ row \in RowWith(Unresolved) /\ row.enabled = Row(a).enabled /\ row.state = Row(a).state
      BY <2>2 DEF Website, RowWith, Unresolved
    <2> HIDE DEF row
    <2>5. /\ c \in Call
          /\ c.pc = "off_status" /\ c.op = calls[a].op /\ c.site = calls[a].site /\ c.row = row /\ c.req = calls[a].req
      <3> DEFINE pc == "off_status"
      <3>1. pc \in PCs
        OBVIOUS
      <3>2. c = [calls[a] EXCEPT !.pc = pc, !.row = row]
        OBVIOUS
      <3> HIDE DEF pc, c
      <3> QED
        BY <2>2, <2>4, <3>1, <3>2 DEF Call, pc
    <2>6. calls' = [calls EXCEPT ![a] = c] \/ Goto(a, "off_status")
      BY <1>3, <2>2 DEF TypeInv, TypeOK, DeleteEmptyZone, Call, row
    <2> HIDE DEF c
    <2>7. CallTyped(c)
      BY <2>1, <2>2, <2>4, <2>5 DEF CallTyped, Row
    <2>8. ASSUME calls' = [calls EXCEPT ![a] = c]
          PROVE  calls' \in [Callers -> Call] /\ \A b \in Callers : CallTyped(calls'[b])
      BY <2>5, <2>7, <2>8, CallsTyped
    <2>9. ASSUME Goto(a, "off_status")
          PROVE  calls' \in [Callers -> Call] /\ \A b \in Callers : CallTyped(calls'[b])
      BY <2>1, <2>9, GotoStep
    <2> QED
      BY <1>3, <2>3, <2>6, <2>8, <2>9 DEF TypeInv, TypeOK, DeleteEmptyZone, Stored
  <1> QED
    BY <1>1, <1>2, <1>3

\* What a request comes to.
LEMMA PlanTyped ==
    ASSUME TypeInv, NEW a \in Callers, calls[a].pc = "u_tx", NEW r \in Website, NEW p, p = Plan(a, r), p.ok
    PROVE  /\ p.set \in Target \union {None} /\ p.setkey \in Domains \union {None}
           /\ p.changed \in {"no", "yes", "auto"} /\ p.publish \in Contents \union {None}
           /\ calls[a].req.kind = "target" => p.set \in Target
           /\ calls[a].req.kind \in {"dns", "domain"} => p.changed = "no"
           /\ p.changed = "no" => p.set \in {calls[a].set, r.target}
           /\ p.changed # "no" => p.set \in Target
  <1> DEFINE q == calls[a].req
             keep == [ok |-> TRUE, set |-> calls[a].set, setkey |-> calls[a].setkey, changed |-> "no", publish |-> None]
             refuse == [keep EXCEPT !.ok = FALSE]
             to(t, changed) == [keep EXCEPT !.set = t, !.changed = IF t = r.target THEN "no" ELSE changed]
             auto(c) == IF ~ValidIPFSTarget(c) THEN refuse
                        ELSE [to(IPNS(r.domain), "auto") EXCEPT !.setkey = r.domain, !.publish = c]
  <1>1. /\ calls[a].set \in Target \union {None} /\ calls[a].setkey \in Domains \union {None}
        /\ q \in Request /\ r.domain \in Domains /\ r.target \in Target
    BY BusyRow DEF CallTyped, UpdatePCs, Call, Website, RowWith
  <1>2. ASSUME NEW k \in Domains
        PROVE  IPNS(k) \in Target
    BY DEF IPNS, Target
  <1>3. ASSUME NEW k \in Contents
        PROVE  IPFS(k) \in Target
    BY DEF IPFS, Target
  <1>4. \/ p \in {keep, refuse} /\ q.kind # "target"
        \/ \E t \in Target : p = to(t, "yes") /\ q.kind = "target"
        \/ \E c \in Contents : p = auto(c) /\ q.kind \in {"target", "type"}
        \/ p = refuse
    <2>1. CASE q.kind = "target"
      <3>1. q.hash \in Domains \union NextContents /\ q.type \in {"ipfs", "ipns"}
        BY <1>1, <2>1 DEF Request
      <3>2. CASE q.hash \in Domains
        <4>1. p = IF ValidIPNSKey(q.hash) THEN to(IPNS(q.hash), "yes") ELSE refuse
          <5>1. q.hash \notin Contents
            BY <3>2, WebsitesAssumption DEF Domains
          <5> QED
            BY <2>1, <3>2, <5>1 DEF Plan
        <4> HIDE DEF keep, refuse, to, auto
        <4> QED
          BY <1>2, <2>1, <3>2, <4>1
      <3>3. CASE q.hash \in Contents /\ q.hash \notin Domains /\ q.type = "ipns"
        <4>1. p = auto(q.hash)
          BY <2>1, <3>3 DEF Plan
        <4> HIDE DEF keep, refuse, to, auto
        <4> QED
          BY <2>1, <3>3, <4>1
      <3>4. CASE q.hash \in Contents /\ q.hash \notin Domains /\ q.type = "ipfs"
        BY <1>3, <2>1, <3>1, <3>4 DEF Plan
      <3> QED
        BY <3>1, <3>2, <3>3, <3>4, WebsitesAssumption
    <2>2. CASE q.kind = "type"
      <3>1. q.type \in {"ipfs", "ipns"} /\ (r.target.type = "ipfs" => r.target.hash \in Contents)
            /\ r.target.type \in {"ipfs", "ipns"}
        BY <1>1, <2>2 DEF Request, Target
      <3>2. CASE q.type = r.target.type
        BY <2>2, <3>1, <3>2 DEF Plan
      <3>3. CASE q.type = "ipns" /\ r.target.type = "ipfs"
        <4>1. p = auto(r.target.hash)
          BY <2>2, <3>3 DEF Plan
        <4> HIDE DEF keep, refuse, to, auto
        <4> QED
          BY <2>2, <3>1, <3>3, <4>1
      <3>4. CASE q.type = "ipfs" /\ r.target.type = "ipns"
        BY <2>2, <3>1, <3>4 DEF Plan
      <3> QED
        BY <3>1, <3>2, <3>3, <3>4
    <2>3. CASE q.kind = "domain"
      BY <2>3 DEF Plan
    <2>4. CASE q.kind = "dns"
      BY <2>4 DEF Plan
    <2> QED
      BY <1>1, <2>1, <2>2, <2>3, <2>4 DEF Request
  <1> HIDE DEF q
  <1>5. ~refuse.ok
    OBVIOUS
  <1>6. CASE p = keep /\ q.kind # "target"
    BY <1>1, <1>6 DEF q
  <1>7. ASSUME NEW t \in Target, p = to(t, "yes"), q.kind = "target"
        PROVE  /\ p.set = t /\ p.setkey \in Domains \union {None}
               /\ p.changed \in {"no", "yes", "auto"} /\ p.publish \in Contents \union {None}
               /\ p.changed = "no" => t = r.target
    BY <1>1, <1>7
  <1>8. ASSUME NEW c \in Contents, p = auto(c)
        PROVE  /\ p.set = IPNS(r.domain) /\ p.setkey \in Domains \union {None}
               /\ p.changed \in {"no", "yes", "auto"} /\ p.publish \in Contents \union {None}
               /\ p.changed = "no" => p.set = r.target
    BY <1>1, <1>5, <1>8
  <1> QED
    BY <1>1, <1>2, <1>4, <1>5, <1>6, <1>7, <1>8 DEF q

(* The row an update commits: the stored row with what was asked for changed. *)
LEMMA UpdatedTyped ==
    ASSUME TypeInv, NEW a \in Callers, calls[a].pc = "u_commit", Live(W(a))
    PROVE  /\ Updated(a) \in Website /\ Updated(a).state = "live"
           /\ Updated(a).domain = IF calls[a].req.kind = "domain" THEN calls[a].req.domain ELSE site[W(a)].domain
           /\ Updated(a).target = IF calls[a].set = None THEN site[W(a)].target ELSE calls[a].set
           /\ Updated(a).enabled = IF calls[a].req.kind = "dns" THEN calls[a].req.on ELSE site[W(a)].enabled
           /\ Updated(a).zone = site[W(a)].zone
  <1> DEFINE t == IF calls[a].set = None THEN site[W(a)].target ELSE calls[a].set
             k == IF calls[a].setkey = None THEN site[W(a)].key ELSE calls[a].setkey
             d == IF calls[a].req.kind = "domain" THEN calls[a].req.domain ELSE site[W(a)].domain
             e == IF calls[a].req.kind = "dns" THEN calls[a].req.on ELSE site[W(a)].enabled
  <1>1. /\ calls[a].set \in Target \union {None} /\ calls[a].setkey \in Domains \union {None}
        /\ calls[a].req \in Request /\ W(a) \in Sites
    BY BusyRow DEF CallTyped, UpdatePCs, Call
  <1>2. site[W(a)] \in Website /\ site[W(a)].state = "live"
    BY <1>1 DEF Live, NoSite, TypeInv, TypeOK
  <1>3. t \in Target /\ k \in Domains \union {None} /\ d \in Domains /\ e \in BOOLEAN
    <2>1. t \in Target
      BY <1>1, <1>2 DEF Website, RowWith
    <2>2. k \in Domains \union {None}
      BY <1>1, <1>2 DEF Website, RowWith
    <2>3. d \in Domains
      BY <1>1, <1>2 DEF Website, RowWith, Request
    <2>4. e \in BOOLEAN
      BY <1>1, <1>2 DEF Website, RowWith, Request
    <2> QED
      BY <2>1, <2>2, <2>3, <2>4
  <1>4. Updated(a) = [site[W(a)] EXCEPT !.target = t, !.key = k, !.domain = d, !.enabled = e]
    BY <1>2 DEF Updated, Website, RowWith
  <1>5. ASSUME NEW r, r = [site[W(a)] EXCEPT !.target = t, !.key = k, !.domain = d, !.enabled = e]
        PROVE  r \in Website /\ r.state = "live" /\ r.domain = d /\ r.target = t /\ r.enabled = e /\ r.zone = site[W(a)].zone
    <2> HIDE DEF t, k, d, e
    <2> QED
      BY <1>2, <1>3, <1>5 DEF Website, RowWith
  <1> QED
    BY <1>4, <1>5

(* What an update does beside its row keeps the type. *)
LEMMA SideEffectsTyped ==
    ASSUME TypeInv, NEW a \in Callers, calls[a].pc = "u_commit", NEW new \in Website,
           NEW blame \in SUBSET {"Retry"}, SideEffects(a, new, blame)
    PROVE  /\ rec' \in [Domains \X Domains -> Target \union {None}]
           /\ publishing' \subseteq [key : Domains, cid : Contents \union Domains]
           /\ asked' \in [Domains -> Contents \union Domains \union {None}]
           /\ excuse' \in [Domains -> SUBSET Excuses]
  <1>1. /\ new.target \in Target /\ new.domain \in Domains /\ new.key \in Domains \union {None}
        /\ new.zone \in Domains \union {None} /\ new.target.hash \in Contents \union Domains
    BY DEF Website, RowWith, Target
  <1>2. publishing' \subseteq [key : Domains, cid : Contents \union Domains] /\ asked' \in [Domains -> Contents \union Domains \union {None}]
    <2>1. CASE calls[a].changed = "yes" /\ new.key # None
      BY <1>1, <2>1, PublishTyped DEF SideEffects
    <2>2. CASE ~(calls[a].changed = "yes" /\ new.key # None)
      BY <2>2 DEF SideEffects, TypeInv, TypeOK
    <2> QED
      BY <2>1, <2>2
  <1>3. excuse' \in [Domains -> SUBSET Excuses]
    <2> DEFINE race == IF calls[a].changed = "yes" /\ new.key # None THEN PublishRace(new.key) ELSE {}
               hosted == calls[a].changed # "no" /\ new.enabled /\ new.zone # None
               ipns == Row(a).target.type = "ipns" /\ new.target.type = "ipns"
               switched == {x \in {"Switched"} : hosted /\ ipns}
               moved == {x \in {"Moved"} : new.domain # Row(a).domain}
               failed(written) == {x \in {"Failed"} : hosted /\ ~ipns /\ ~written}
               what(written) == blame \union race \union switched \union moved \union failed(written)
    <2>1. PICK written \in BOOLEAN : Blame({new.domain, Row(a).domain, new.key}, what(written))
      BY DEF SideEffects
    <2>2. race \in SUBSET Excuses /\ switched \in SUBSET Excuses /\ moved \in SUBSET Excuses
          /\ failed(written) \in SUBSET Excuses /\ blame \in SUBSET Excuses
      BY DEF Excuses, PublishRace
    <2> HIDE DEF race, hosted, ipns, switched, moved, failed
    <2>3. what(written) \in SUBSET Excuses
      BY <2>2
    <2> HIDE DEF what
    <2> QED
      BY <2>1, <2>3, BlameTyped
  <1>4. rec' \in [Domains \X Domains -> Target \union {None}]
    <2>1. PICK written \in BOOLEAN : /\ written => new.zone # None
                                    /\ rec' = IF written THEN [rec EXCEPT ![<<new.zone, new.domain>>] = new.target] ELSE rec
      BY DEF SideEffects
    <2>2. written => [rec EXCEPT ![<<new.zone, new.domain>>] = new.target] \in [Domains \X Domains -> Target \union {None}]
      BY <1>1, <2>1 DEF TypeInv, TypeOK
    <2> QED
      BY <2>1, <2>2 DEF TypeInv, TypeOK
  <1> QED
    BY <1>2, <1>3, <1>4

(* The steps of an update's transaction and of the HNS refresh keep the type. *)
LEMMA UpdateTyped ==
    ASSUME TypeInv, NEW a \in Callers,
           PrepareUpdate(a) \/ CommitUpdate(a) \/ AbortUpdate(a) \/ RefreshHNSDomains(a)
    PROVE  TypeInv'
  <1> USE DEF PCs, CreatePCs, PreInsert, OnPCs, OffPCs, UpdatePCs, ValidatePCs, HnsPCs, ZonePCs
  <1>1. CASE PrepareUpdate(a)
    <2> DEFINE r == site[W(a)]
               p == Plan(a, r)
               q == calls[a].req
               req == IF q.kind = "target" THEN [kind |-> "type", type |-> p.set.type] ELSE q
               c == [calls[a] EXCEPT !.pc = "u_commit", !.row = r, !.set = p.set, !.setkey = p.setkey,
                                     !.changed = p.changed, !.req = req]
    <2>1. calls[a].pc = "u_tx"
      BY <1>1 DEF PrepareUpdate, At
    <2>2. calls[a] \in Call /\ CallTyped(calls[a]) /\ W(a) \in Sites /\ q \in Request
      BY <2>1, BusyRow DEF CallTyped, Call
    <2>3. CASE ~Live(W(a)) \/ ~p.ok
      BY <1>1, <2>3, DoneTyped DEF TypeInv, TypeOK, PrepareUpdate, Stored
    <2>4. ASSUME Live(W(a)), p.ok
          PROVE  TypeInv'
      <3>1. r \in Website /\ r \in RowWith(Unresolved) /\ r.state = "live" /\ r.domain \in Domains
        BY <2>2, <2>4 DEF Live, NoSite, TypeInv, TypeOK, Website, RowWith, Unresolved
      <3>2. /\ p.set \in Target \union {None} /\ p.setkey \in Domains \union {None}
            /\ p.changed \in {"no", "yes", "auto"} /\ p.publish \in Contents \union {None}
            /\ q.kind = "target" => p.set \in Target
            /\ q.kind \in {"dns", "domain"} => p.changed = "no"
        BY <2>1, <2>4, <3>1, PlanTyped
      <3>3. req \in Request /\ req # NoRequest /\ req.kind # "target" /\ (req.kind \in {"dns", "domain"} => p.changed = "no")
        <4>1. CASE q.kind = "target"
          <5>1. p.set.type \in {"ipfs", "ipns"}
            BY <3>2, <4>1 DEF Target
          <5> HIDE DEF p
          <5> QED BY <4>1, <5>1 DEF Request, NoRequest
        <4>2. CASE q.kind # "target"
          BY <2>2, <3>2, <4>2 DEF Request, NoRequest
        <4> QED BY <4>1, <4>2
      <3>4. /\ calls' = [calls EXCEPT ![a].pc = "u_commit", ![a].row = r, ![a].set = p.set, ![a].setkey = p.setkey,
                              ![a].changed = p.changed, ![a].req = req]
            /\ IF p.publish = None THEN UNCHANGED <<key, publishing, asked, excuse>>
                  ELSE EnsureIPNSKey(r.domain, p.publish)
        BY <1>1, <2>4 DEF PrepareUpdate
      <3> HIDE DEF p, req, r
      <3>5. calls' = [calls EXCEPT ![a] = c]
        BY <3>4, <2>2 DEF TypeInv, TypeOK, Call
      <3>6. /\ c \in Call
            /\ c.pc = "u_commit" /\ c.op = calls[a].op /\ c.site = calls[a].site /\ c.row = r /\ c.req = req /\ c.changed = p.changed
        <4> DEFINE pc == "u_commit"
        <4>1. pc \in PCs
          OBVIOUS
        <4>2. c = [calls[a] EXCEPT !.pc = pc, !.row = r, !.set = p.set, !.setkey = p.setkey, !.changed = p.changed, !.req = req]
          OBVIOUS
        <4> HIDE DEF pc, c
        <4> QED BY <2>2, <3>1, <3>2, <3>3, <4>1, <4>2 DEF Call, pc
      <3> HIDE DEF c
      <3>7. CallTyped(c)
        BY <2>1, <2>2, <3>1, <3>3, <3>6 DEF CallTyped
      <3>8. calls' \in [Callers -> Call] /\ \A b \in Callers : CallTyped(calls'[b])
        BY <3>5, <3>6, <3>7, CallsTyped
      <3>9. /\ key' \in [Domains -> Contents \union Domains \union {None, NoKey}]
            /\ publishing' \subseteq [key : Domains, cid : Contents \union Domains]
            /\ asked' \in [Domains -> Contents \union Domains \union {None}]
            /\ excuse' \in [Domains -> SUBSET Excuses]
        BY <3>1, <3>2, <3>4, EnsureTyped DEF TypeInv, TypeOK
      <3> QED
        BY <1>1, <3>8, <3>9 DEF PrepareUpdate, TypeInv, TypeOK, Stored
    <2> QED
      BY <2>3, <2>4
  <1>2. CASE CommitUpdate(a)
    <2> DEFINE new == Updated(a)
               q == calls[a].req
               next == IF calls[a].changed # "no" THEN "u_hns"
                      ELSE IF q.kind # "dns" \/ q.on = Row(a).enabled THEN "idle"
                      ELSE IF ~q.on THEN "off_records" ELSE IF new.zone = None THEN "on_zone" ELSE "on_records"
               c == [calls[a] EXCEPT !.pc = next, !.row = new]
    <2>1. calls[a].pc = "u_commit" /\ Live(W(a))
      BY <1>2 DEF CommitUpdate, At
    <2>2. calls[a] \in Call /\ CallTyped(calls[a]) /\ W(a) \in Sites /\ q \in Request /\ calls[a].set \in Target \union {None}
      BY <2>1, BusyRow DEF CallTyped, Call
    <2>3. /\ new \in Website /\ new \in RowWith(Unresolved) /\ new.state = "live"
          /\ new.enabled = IF q.kind = "dns" THEN q.on ELSE site[W(a)].enabled
      BY <2>1, UpdatedTyped DEF Website, RowWith, Unresolved
    <2>4. site' = [site EXCEPT ![W(a)] = new] /\ SideEffects(a, new, {})
      BY <1>2 DEF CommitUpdate
    <2>5. /\ rec' \in [Domains \X Domains -> Target \union {None}]
          /\ publishing' \subseteq [key : Domains, cid : Contents \union Domains]
          /\ asked' \in [Domains -> Contents \union Domains \union {None}]
          /\ excuse' \in [Domains -> SUBSET Excuses]
      <3>1. {} \in SUBSET {"Retry"}
        OBVIOUS
      <3> HIDE DEF new
      <3> QED
        BY <2>1, <2>3, <2>4, <3>1, SideEffectsTyped
    <2>6. calls' = (IF next = "idle" THEN [calls EXCEPT ![a] = IdleCall] ELSE [calls EXCEPT ![a].pc = next, ![a].row = new])
      BY <1>2 DEF CommitUpdate, Done
    <2> HIDE DEF new
    <2>7. ASSUME next # "idle"
          PROVE  calls' \in [Callers -> Call] /\ \A b \in Callers : CallTyped(calls'[b])
      <3>1. next \in PCs
        OBVIOUS
      <3>2. calls' = [calls EXCEPT ![a] = c]
        BY <2>2, <2>6, <2>7 DEF TypeInv, TypeOK, Call
      <3>3. /\ c \in Call
            /\ c.pc = next /\ c.op = calls[a].op /\ c.site = calls[a].site /\ c.row = new /\ c.req = calls[a].req /\ c.changed = calls[a].changed
        <4> HIDE DEF next, PCs, CreatePCs, PreInsert, OnPCs, OffPCs, UpdatePCs, ValidatePCs, HnsPCs, ZonePCs
        <4> QED BY <2>2, <2>3, <3>1 DEF Call
      <3>4. /\ next \in {"u_hns", "on_zone", "on_records", "off_records"}
            /\ next = "off_records" => q.kind = "dns" /\ ~q.on
            /\ next \in {"on_zone", "on_records"} => q.kind = "dns" /\ q.on
            /\ next = "on_records" => new.zone # None
        BY <2>2, <2>7 DEF Request
      <3>5. next = "off_records" => q = [kind |-> "dns", on |-> FALSE]
        BY <2>2, <3>4 DEF Request
      <3> HIDE DEF c, next
      <3>6. CallTyped(c)
        BY <2>1, <2>2, <2>3, <3>3, <3>4, <3>5 DEF CallTyped
      <3> QED
        BY <3>2, <3>3, <3>6, CallsTyped
    <2>8. ASSUME next = "idle"
          PROVE  calls' \in [Callers -> Call] /\ \A b \in Callers : CallTyped(calls'[b])
      BY <2>6, <2>8, DoneTyped DEF Done
    <2>9. /\ \A w \in Sites : Stored(w)' => want'[w] \in [target : Target, enabled : BOOLEAN]
          /\ site' \in [Sites -> Website \union {NoSite}]
          /\ want' \in [Sites -> [target : Target, enabled : BOOLEAN] \union {None}]
      <3> DEFINE u == [target |-> IF calls[a].set = None THEN want[W(a)].target ELSE calls[a].set,
                       enabled |-> IF q.kind = "dns" THEN q.on ELSE want[W(a)].enabled]
      <3>1. want[W(a)] \in [target : Target, enabled : BOOLEAN]
        BY <2>1, <2>2 DEF TypeInv, Stored, Live
      <3>2. u \in [target : Target, enabled : BOOLEAN]
        BY <2>2, <3>1 DEF Request
      <3>3. want' = [want EXCEPT ![W(a)] = u]
        BY <1>2, <2>2 DEF CommitUpdate, TypeInv, TypeOK
      <3> HIDE DEF u
      <3> QED
        BY <2>2, <2>3, <2>4, <3>2, <3>3 DEF TypeInv, TypeOK, Stored
    <2> QED
      BY <1>2, <2>5, <2>7, <2>8, <2>9 DEF CommitUpdate, TypeInv, TypeOK
  <1>3. CASE AbortUpdate(a)
    <2> DEFINE c == [calls[a] EXCEPT !.pc = "u_tx", !.retried = TRUE]
    <2>1. calls[a].pc = "u_commit"
      BY <1>3 DEF AbortUpdate, At
    <2>2. calls[a] \in Call /\ CallTyped(calls[a]) /\ W(a) \in Sites
      BY <2>1, BusyRow
    <2>3. /\ rec' \in [Domains \X Domains -> Target \union {None}]
          /\ publishing' \subseteq [key : Domains, cid : Contents \union Domains]
          /\ asked' \in [Domains -> Contents \union Domains \union {None}]
          /\ excuse' \in [Domains -> SUBSET Excuses]
      <3>1. {"Retry"} \in SUBSET {"Retry"} /\ {"Retry"} \in SUBSET Excuses
        BY DEF Excuses
      <3>2. CASE Live(W(a)) /\ SideEffects(a, Updated(a), {"Retry"})
        <4>1. Updated(a) \in Website
          BY <2>1, <3>2, UpdatedTyped
        <4> QED BY <2>1, <3>1, <3>2, <4>1, SideEffectsTyped
      <3>3. CASE Blame({Row(a).domain}, {"Retry"}) /\ UNCHANGED <<rec, publishing, asked>>
        BY <3>1, <3>3, BlameTyped DEF TypeInv, TypeOK
      <3> QED
        BY <1>3, <3>2, <3>3 DEF AbortUpdate
    <2>4. ASSUME calls' = [calls EXCEPT ![a].pc = "u_tx", ![a].retried = TRUE]
          PROVE  calls' \in [Callers -> Call] /\ \A b \in Callers : CallTyped(calls'[b])
      <3>1. calls' = [calls EXCEPT ![a] = c]
        BY <2>2, <2>4 DEF TypeInv, TypeOK, Call
      <3>2. /\ c \in Call
            /\ c.pc = "u_tx" /\ c.op = calls[a].op /\ c.site = calls[a].site /\ c.row = Row(a) /\ c.req = calls[a].req
        <4> DEFINE pc == "u_tx"
        <4>1. pc \in PCs
          OBVIOUS
        <4>2. c = [calls[a] EXCEPT !.pc = pc, !.retried = TRUE]
          OBVIOUS
        <4> HIDE DEF pc, c
        <4> QED BY <2>2, <4>1, <4>2 DEF Call, Row, pc
      <3> HIDE DEF c
      <3>3. CallTyped(c)
        BY <2>1, <2>2, <3>2 DEF CallTyped, Row
      <3> QED
        BY <3>1, <3>2, <3>3, CallsTyped
    <2>5. calls' \in [Callers -> Call] /\ \A b \in Callers : CallTyped(calls'[b])
      BY <1>3, <2>4, DoneTyped DEF AbortUpdate
    <2> QED
      BY <1>3, <2>3, <2>5 DEF AbortUpdate, TypeInv, TypeOK, Stored
  <1>4. CASE RefreshHNSDomains(a)
    <2>1. Row(a).target \in Target /\ Row(a).domain \in Domains
      BY <1>4, BusyRow DEF RefreshHNSDomains, At
    <2>2. {"Failed"} \in SUBSET Excuses
      BY DEF Excuses
    <2>3. excuse' \in [Domains -> SUBSET Excuses]
      BY <1>4, <2>2, BlameTyped DEF RefreshHNSDomains, TypeInv, TypeOK
    <2>4. hns' \in {hns, [hns EXCEPT !.rec = Row(a).target], [hns EXCEPT !.rec = Row(a).target, !.cid = Row(a).target]}
      BY <1>4 DEF RefreshHNSDomains
    <2>5. hns' \in [zone : BOOLEAN, rec : Target \union {None}, site : Sites \union {None}, cid : Target \union {None}]
      BY <2>1, <2>4 DEF TypeInv, TypeOK
    <2> QED
      BY <1>4, <2>3, <2>5, DoneTyped DEF RefreshHNSDomains, TypeInv, TypeOK, Stored
  <1> QED
    BY <1>1, <1>2, <1>3, <1>4

(* A row with another status is a website. *)
LEMMA SavedTyped ==
    ASSUME TypeInv, NEW a \in Callers, calls[a].pc \notin {"idle", "c_key"},
           NEW s \in {"pending_validation", "active", "broken", "blocked"}
    PROVE  [Row(a) EXCEPT !.status = s] \in Website
  BY BusyRow DEF Website, RowWith

(* The steps of deletion, blocking, validation and the janitor keep the type. *)
LEMMA SaveStepsTyped ==
    ASSUME TypeInv, NEW a \in Callers, calls[a].pc \notin PreInsert /\ Busy(a) => Stored(W(a)),
           \/ DeleteRow(a) \/ DeleteRecords(a) \/ SaveBlock(a) \/ ValidateWebsite(a)
           \/ RegenerateToken(a) \/ SaveValidated(a)
    PROVE  TypeInv'
  <1> USE DEF PCs, CreatePCs, PreInsert, OnPCs, OffPCs, UpdatePCs, ValidatePCs, HnsPCs, ZonePCs
  <1>1. CASE DeleteRow(a)
    <2>1. calls[a].pc = "d_row"
      BY <1>1 DEF DeleteRow, At
    <2>2. W(a) \in Sites /\ Row(a) \in Website /\ Row(a).zone \in Domains \union {None} /\ CallTyped(calls[a]) /\ calls[a].req = NoRequest
      BY <2>1, BusyRow DEF CallTyped
    <2>3. calls' \in [Callers -> Call] /\ \A b \in Callers : CallTyped(calls'[b])
      <3>1. ASSUME Row(a).zone # None, Goto(a, "d_records")
            PROVE  calls' \in [Callers -> Call] /\ \A b \in Callers : CallTyped(calls'[b])
        BY <2>1, <3>1, GotoStep
      <3> QED
        BY <1>1, <3>1, DoneTyped DEF DeleteRow
    <2>4. /\ site' \in [Sites -> Website \union {NoSite}]
          /\ \A w \in Sites : Stored(w)' => Stored(w)
      <3>1. ASSUME Live(W(a))
            PROVE  [site[W(a)] EXCEPT !.state = "deleted"] \in Website
        <4>1. site[W(a)] \in Website
          BY <2>2, <3>1 DEF Live, NoSite, TypeInv, TypeOK
        <4> QED BY <4>1 DEF Website, RowWith
      <3>2. \/ Live(W(a)) /\ site' = [site EXCEPT ![W(a)] = [site[W(a)] EXCEPT !.state = "deleted"]]
            \/ site' = site
        BY <1>1, <2>2 DEF DeleteRow, TypeInv, TypeOK
      <3>3. CASE Live(W(a)) /\ site' = [site EXCEPT ![W(a)] = [site[W(a)] EXCEPT !.state = "deleted"]]
        <4> DEFINE r == [site[W(a)] EXCEPT !.state = "deleted"]
        <4>1. r \in Website
          BY <3>1, <3>3
        <4>2. site' = [site EXCEPT ![W(a)] = r]
          BY <3>3
        <4> HIDE DEF r
        <4> QED BY <2>2, <3>3, <4>1, <4>2 DEF Live, Stored, TypeInv, TypeOK
      <3> QED BY <3>2, <3>3 DEF Stored, TypeInv, TypeOK
    <2>5. hns' \in [zone : BOOLEAN, rec : Target \union {None}, site : Sites \union {None}, cid : Target \union {None}]
      <3>1. hns' \in {hns, [hns EXCEPT !.site = None, !.cid = None]}
        BY <1>1 DEF DeleteRow
      <3> QED
        BY <3>1 DEF TypeInv, TypeOK
    <2> QED
      BY <1>1, <2>3, <2>4, <2>5 DEF DeleteRow, TypeInv, TypeOK
  <1>2. CASE DeleteRecords(a)
    <2>1. calls[a].pc = "d_records"
      BY <1>2 DEF DeleteRecords, At
    <2>2. Row(a).zone \in Domains /\ Row(a).domain \in Domains
      BY <2>1, BusyRow DEF CallTyped, Row
    <2>3. /\ rec' \in [Domains \X Domains -> Target \union {None}]
          /\ excuse' \in [Domains -> SUBSET Excuses]
      BY <1>2, <2>2, WriteTyped DEF DeleteRecords, ClearRecords
    <2> QED
      BY <1>2, <2>3, DoneTyped DEF DeleteRecords, TypeInv, TypeOK, Stored
  <1>3. CASE SaveBlock(a)
    <2>1. W(a) \in Sites /\ Row(a) \in Website /\ Stored(W(a))
      BY <1>3, BusyRow DEF SaveBlock, At
    <2> QED
      BY <1>3, <2>1, SaveKeeps, DoneTyped DEF SaveBlock, TypeInv, TypeOK
  <1>4. CASE ValidateWebsite(a)
    <2>1. calls[a].pc = "j_validate"
      BY <1>4 DEF ValidateWebsite, At
    <2>2. W(a) \in Sites /\ Row(a) \in Website /\ Stored(W(a))
      BY <2>1, BusyRow
    <2>3. PICK s \in {"active", "broken"} : Save(W(a), [Row(a) EXCEPT !.status = s])
      BY <1>4 DEF ValidateWebsite
    <2>4. [Row(a) EXCEPT !.status = s] \in Website
      BY <2>1, SavedTyped
    <2> QED
      BY <1>4, <2>2, <2>3, <2>4, SaveKeeps, DoneTyped DEF ValidateWebsite, TypeInv, TypeOK
  <1>5. CASE RegenerateToken(a)
    <2>1. calls[a].pc = "v_token"
      BY <1>5 DEF RegenerateToken, At
    <2>2. Row(a).zone \in Domains \union {None} /\ Row(a).domain \in Domains /\ Row(a).target \in Target
      BY <2>1, BusyRow
    <2>3. /\ rec' \in [Domains \X Domains -> Target \union {None}]
          /\ excuse' \in [Domains -> SUBSET Excuses]
      <3>1. ASSUME Row(a).zone # None, WriteRecords(Row(a).zone, Row(a).domain, Row(a).target) \/ WriteRecordsFails(Row(a).zone, Row(a).domain, Row(a).target)
            PROVE  /\ rec' \in [Domains \X Domains -> Target \union {None}]
                   /\ excuse' \in [Domains -> SUBSET Excuses]
        BY <2>2, <3>1, WriteTyped
      <3>2. ASSUME Row(a).zone # None, rec' = [rec EXCEPT ![<<Row(a).zone, Row(a).domain>>] = Row(a).target], Blame({Row(a).domain}, {"Unhosted"})
            PROVE  /\ rec' \in [Domains \X Domains -> Target \union {None}]
                   /\ excuse' \in [Domains -> SUBSET Excuses]
        <4>1. {"Unhosted"} \in SUBSET Excuses
          BY DEF Excuses
        <4>2. excuse' \in [Domains -> SUBSET Excuses]
          BY <3>2, <4>1, BlameTyped
        <4> QED
          BY <2>2, <3>2, <4>2 DEF TypeInv, TypeOK
      <3> QED
        BY <1>5, <3>1, <3>2 DEF RegenerateToken, TypeInv, TypeOK
    <2>4. calls' \in [Callers -> Call] /\ \A b \in Callers : CallTyped(calls'[b])
      BY <1>5, <2>1, GotoStep DEF RegenerateToken
    <2> QED
      BY <1>5, <2>3, <2>4 DEF RegenerateToken, TypeInv, TypeOK, Stored
  <1>6. CASE SaveValidated(a)
    <2>1. calls[a].pc \in {"v_tsave", "v_lookup"}
      BY <1>6 DEF SaveValidated, At
    <2>2. W(a) \in Sites /\ Row(a) \in Website /\ Stored(W(a))
      BY <2>1, BusyRow
    <2> DEFINE s == IF At(a, "v_lookup") THEN "active" ELSE Row(a).status
    <2>3. Save(W(a), [Row(a) EXCEPT !.status = s])
      BY <1>6 DEF SaveValidated
    <2>4. [Row(a) EXCEPT !.status = s] \in Website
      <3>1. s \in {"pending_validation", "active", "broken", "blocked"}
        BY <2>2 DEF Website, RowWith
      <3> HIDE DEF s
      <3> QED BY <2>1, <3>1, SavedTyped
    <2> HIDE DEF s
    <2> QED
      BY <1>6, <2>2, <2>3, <2>4, SaveKeeps, DoneTyped DEF SaveValidated, TypeInv, TypeOK
  <1> QED
    BY <1>1, <1>2, <1>3, <1>4, <1>5, <1>6

(* The steps of CreateHNSDomain keep the type. *)
LEMMA HnsTyped ==
    ASSUME TypeInv, NEW a \in Callers, CreateHNSZone(a) \/ CreateHNSRecords(a) \/ InsertHNSDomain(a)
    PROVE  TypeInv'
  <1> USE DEF PCs, CreatePCs, PreInsert, OnPCs, OffPCs, UpdatePCs, ValidatePCs, HnsPCs, ZonePCs
  <1>1. calls[a].pc \in {"h_zone", "h_records", "h_insert"}
    BY DEF CreateHNSZone, CreateHNSRecords, InsertHNSDomain, At
  <1>2. W(a) \in Sites /\ Row(a).target \in Target
    BY <1>1, BusyRow
  <1>3. hns' \in {hns, [hns EXCEPT !.zone = TRUE], [hns EXCEPT !.rec = Row(a).target], [hns EXCEPT !.site = W(a), !.cid = Row(a).target]}
    BY DEF CreateHNSZone, CreateHNSRecords, InsertHNSDomain
  <1>4. hns' \in [zone : BOOLEAN, rec : Target \union {None}, site : Sites \union {None}, cid : Target \union {None}]
    BY <1>2, <1>3 DEF TypeInv, TypeOK
  <1>5. \/ Goto(a, "h_records") \/ Goto(a, "h_insert") \/ Done(a)
    BY DEF CreateHNSZone, CreateHNSRecords, InsertHNSDomain
  <1>6. calls' \in [Callers -> Call] /\ \A b \in Callers : CallTyped(calls'[b])
    BY <1>1, <1>5, GotoStep, DoneTyped
  <1> QED
    BY <1>4, <1>6 DEF CreateHNSZone, CreateHNSRecords, InsertHNSDomain, TypeInv, TypeOK, Stored

(* Certificate reports, unpins and publications keep the type. *)
LEMMA OtherTyped ==
    ASSUME TypeInv,
           \/ \E w \in Sites, ready \in BOOLEAN : UpdateSSLStatus(w, ready)
           \/ \E c \in Contents : Unpin(c)
           \/ \E p \in publishing : Publish(p)
           \/ UNCHANGED vars
    PROVE  TypeInv'
  <1>1. ASSUME NEW w \in Sites, NEW ready \in BOOLEAN, UpdateSSLStatus(w, ready)
        PROVE  TypeInv'
    <2> DEFINE r == [site[w] EXCEPT !.ssl = ready]
    <2>1. site[w] \in Website /\ Stored(w)
      BY <1>1 DEF UpdateSSLStatus, Live, NoSite, TypeInv, TypeOK, Stored
    <2>2. r \in Website
      BY <2>1 DEF Website, RowWith
    <2>3. site' = [site EXCEPT ![w] = r]
      BY <1>1 DEF UpdateSSLStatus, TypeInv, TypeOK
    <2> HIDE DEF r
    <2> QED
      BY <1>1, <2>1, <2>2, <2>3 DEF UpdateSSLStatus, TypeInv, TypeOK, Stored
  <1>2. ASSUME NEW c \in Contents, Unpin(c)
        PROVE  TypeInv'
    BY <1>2 DEF Unpin, stores, TypeInv, TypeOK, Stored
  <1>3. ASSUME NEW p \in publishing, Publish(p)
        PROVE  TypeInv'
    <2>1. p.key \in Domains /\ p.cid \in Contents \union Domains
      BY DEF TypeInv, TypeOK
    <2>2. {"Failed"} \in SUBSET Excuses
      BY DEF Excuses
    <2>3. excuse' \in [Domains -> SUBSET Excuses]
      BY <1>3, <2>2, BlameTyped DEF Publish, TypeInv, TypeOK
    <2>4. key' \in [Domains -> Contents \union Domains \union {None, NoKey}]
      BY <1>3, <2>1 DEF Publish, TypeInv, TypeOK
    <2> QED
      BY <1>3, <2>3, <2>4 DEF Publish, TypeInv, TypeOK, Stored
  <1>4. CASE UNCHANGED vars
    BY <1>4 DEF vars, TypeInv, TypeOK, Stored
  <1> QED
    BY <1>1, <1>2, <1>3, <1>4
-----------------------------------------------------------------------------
(* What the steps leave as it was.                                          *)

\* Only the call itself changes.
Others(a) == \A b \in Callers \ {a} : calls'[b] = calls[b]
\* It stays the same call, on the same website, with the same request.
Same(a) == W(a)' = W(a) /\ calls'[a].op = calls[a].op /\ calls'[a].req = calls[a].req
           /\ calls'[a].set = calls[a].set /\ calls'[a].changed = calls[a].changed

(* Moving on changes nothing of a call but the point it is at. *)
LEMMA GotoFacts ==
    ASSUME TypeInv, NEW a \in Callers, NEW pc, Goto(a, pc)
    PROVE  Others(a) /\ Same(a) /\ calls'[a].pc = pc /\ Row(a)' = Row(a)
  <1>1. calls[a] \in Call
    BY DEF TypeInv, TypeOK
  <1>2. calls'[a] = [calls[a] EXCEPT !.pc = pc] /\ Others(a)
    BY DEF Goto, TypeInv, TypeOK, Others
  <1>3. /\ calls'[a].pc = pc /\ calls'[a].site = calls[a].site /\ calls'[a].op = calls[a].op
        /\ calls'[a].row = calls[a].row /\ calls'[a].req = calls[a].req
        /\ calls'[a].set = calls[a].set /\ calls'[a].changed = calls[a].changed
    BY <1>1, <1>2 DEF Call
  <1> QED
    BY <1>2, <1>3 DEF Same, W, Row

(* Ending one call leaves the others alone. *)
LEMMA DoneFacts ==
    ASSUME TypeInv, NEW a \in Callers, Done(a)
    PROVE  Others(a) /\ calls'[a] = IdleCall
  BY DEF Done, TypeInv, TypeOK, Others

(* Moving on with another row changes only the point and the row. *)
LEMMA EnterFacts ==
    ASSUME TypeInv, NEW a \in Callers, NEW pc, NEW row, calls' = [calls EXCEPT ![a].pc = pc, ![a].row = row]
    PROVE  Others(a) /\ Same(a) /\ calls'[a].pc = pc /\ Row(a)' = row
  <1>1. calls[a] \in Call
    BY DEF TypeInv, TypeOK
  <1> DEFINE c == [calls[a] EXCEPT !.pc = pc, !.row = row]
  <1>2. calls'[a] = c /\ Others(a)
    BY <1>1 DEF TypeInv, TypeOK, Others, Call
  <1>3. /\ c.pc = pc /\ c.row = row
        /\ c.site = calls[a].site /\ c.op = calls[a].op /\ c.req = calls[a].req
        /\ c.set = calls[a].set /\ c.changed = calls[a].changed
    BY <1>1 DEF Call
  <1> HIDE DEF c
  <1> QED
    BY <1>2, <1>3 DEF Same, W, Row

(* Creating the key makes the target an IPNS name, and nothing else of the website. *)
LEMMA CreateKeyFacts ==
    ASSUME TypeInv, NEW a \in Callers, CreateKey(a)
    PROVE  /\ calls[a].pc \in {"c_key", "c_convert"} /\ Others(a) /\ Same(a)
           /\ calls'[a].pc = IF At(a, "c_key") THEN "c_check" ELSE "c_save"
           /\ Row(a)'.domain = Row(a).domain /\ Row(a)'.zone = Row(a).zone /\ Row(a)'.enabled = Row(a).enabled
           /\ Row(a)'.target = IPNS(Row(a).domain)
           /\ site' = site /\ want' = want /\ rec' = rec /\ zone' = zone /\ hns' = hns
  <1> DEFINE row == [Row(a) EXCEPT !.target = IPNS(Row(a).domain), !.key = Row(a).domain]
             pc == IF calls[a].pc = "c_key" THEN "c_check" ELSE "c_save"
  <1>1. calls[a].pc \in {"c_key", "c_convert"} /\ calls[a] \in Call
    BY DEF CreateKey, At, TypeInv, TypeOK
  <1>2. calls' = [calls EXCEPT ![a].pc = IF @ = "c_key" THEN "c_check" ELSE "c_save", ![a].row = row]
    BY DEF CreateKey
  <1>3. Row(a) \in RowWith(Unresolved)
    BY <1>1, CallFields DEF Busy, At
  <1>4. /\ row.domain = Row(a).domain /\ row.zone = Row(a).zone /\ row.enabled = Row(a).enabled
        /\ row.target = IPNS(Row(a).domain)
    BY <1>3 DEF RowWith
  <1> HIDE DEF row
  <1>5. calls' = [calls EXCEPT ![a].pc = pc, ![a].row = row]
    BY <1>1, <1>2 DEF TypeInv, TypeOK, Call
  <1> HIDE DEF pc
  <1>6. Others(a) /\ Same(a) /\ calls'[a].pc = pc /\ Row(a)' = row
    BY <1>5, EnterFacts
  <1> QED
    BY <1>1, <1>4, <1>6 DEF CreateKey, pc, At

(* The inserted row is the call's, without a zone. *)
LEMMA InsertFacts ==
    ASSUME TypeInv, NEW a \in Callers, InsertWebsite(a)
    PROVE  /\ calls[a].pc = "c_insert" /\ Others(a)
           /\ \/ calls'[a] = IdleCall /\ ~Row(a).enabled
              \/ /\ Same(a) /\ Row(a).enabled
                 /\ calls'[a].pc = IF Row(a).target.type = "ipfs" THEN "c_convert" ELSE "c_zone"
                 /\ Row(a)'.domain = Row(a).domain /\ Row(a)'.zone = Row(a).zone
                 /\ Row(a)'.enabled = Row(a).enabled /\ Row(a)'.target = Row(a).target
           /\ \A v \in Sites \ {W(a)} : site'[v] = site[v]
           /\ LET s == site'[W(a)]
              IN s.state = "live" /\ s.domain = Row(a).domain /\ s.zone = None
                 /\ s.enabled = Row(a).enabled /\ s.target = Row(a).target
           /\ want' = [want EXCEPT ![W(a)] = Wanted(Row(a))]
           /\ rec' = rec /\ zone' = zone /\ hns' = hns /\ excuse' = excuse
  <1>1. calls[a].pc = "c_insert" /\ Row(a) \in Website /\ CallTyped(calls[a]) /\ calls[a] \in Call /\ W(a) \in Sites
    BY BusyRow DEF InsertWebsite, At
  <1>2. PICK valid \in BOOLEAN :
          /\ site' = [site EXCEPT ![W(a)] = [Row(a) EXCEPT !.ssl = valid]]
          /\ \/ Row(a).enabled /\ calls' = [calls EXCEPT ![a].row = [Row(a) EXCEPT !.ssl = valid],
                            ![a].pc = IF Row(a).target.type = "ipfs" THEN "c_convert" ELSE "c_zone"]
             \/ ~Row(a).enabled /\ Done(a)
    BY DEF InsertWebsite
  <1> DEFINE row == [Row(a) EXCEPT !.ssl = valid]
             pc == IF Row(a).target.type = "ipfs" THEN "c_convert" ELSE "c_zone"
  <1>3. /\ row.state = "live" /\ row.domain = Row(a).domain /\ row.zone = None
        /\ row.enabled = Row(a).enabled /\ row.target = Row(a).target /\ Row(a).zone = None
    BY <1>1 DEF Website, RowWith, CallTyped, PreInsert, Row
  <1>4. site' = [site EXCEPT ![W(a)] = row]
    BY <1>2
  <1>5. \/ Row(a).enabled /\ calls' = [calls EXCEPT ![a].row = row, ![a].pc = pc]
        \/ ~Row(a).enabled /\ Done(a)
    BY <1>2
  <1> HIDE DEF row, pc
  <1>6. /\ \A v \in Sites \ {W(a)} : site'[v] = site[v]
        /\ site'[W(a)] = row
    BY <1>1, <1>4 DEF TypeInv, TypeOK
  <1>7. CASE ~Row(a).enabled /\ Done(a)
    BY <1>1, <1>3, <1>6, <1>7, DoneFacts DEF InsertWebsite
  <1>8. CASE Row(a).enabled /\ calls' = [calls EXCEPT ![a].row = row, ![a].pc = pc]
    <2>1. calls' = [calls EXCEPT ![a].pc = pc, ![a].row = row]
      BY <1>1, <1>8 DEF TypeInv, TypeOK, Call
    <2>2. Others(a) /\ Same(a) /\ calls'[a].pc = pc /\ Row(a)' = row
      BY <2>1, EnterFacts
    <2> QED
      BY <1>1, <1>3, <1>6, <1>8, <2>2 DEF InsertWebsite, pc
  <1> QED
    BY <1>5, <1>7, <1>8

(* The call takes the zone of its domain; no row says so yet. *)
LEMMA AssignFacts ==
    ASSUME TypeInv, NEW a \in Callers, AssignZone(a)
    PROVE  /\ calls[a].pc \in {"c_zone", "on_zone"} /\ Others(a) /\ Same(a)
           /\ calls'[a].pc = IF At(a, "c_zone") THEN "c_link" ELSE "on_link"
           /\ Row(a)'.domain = Row(a).domain /\ Row(a)'.zone = ZoneFor(Row(a).domain)
           /\ Row(a)'.enabled = Row(a).enabled /\ Row(a)'.target = Row(a).target
           /\ ZoneFor(Row(a).domain) \in Domains
           /\ site' = site /\ want' = want /\ rec' = rec /\ hns' = hns
           /\ TakeZone(ZoneFor(Row(a).domain), Row(a).domain)
  <1> DEFINE row == [Row(a) EXCEPT !.zone = ZoneFor(Row(a).domain)]
             pc == IF calls[a].pc = "c_zone" THEN "c_link" ELSE "on_link"
  <1>1. calls[a].pc \in {"c_zone", "on_zone"} /\ calls[a] \in Call
    BY DEF AssignZone, At, TypeInv, TypeOK
  <1>2. calls' = [calls EXCEPT ![a].pc = IF @ = "c_zone" THEN "c_link" ELSE "on_link", ![a].row = row]
    BY DEF AssignZone
  <1>3. Row(a) \in Website /\ Row(a).domain \in Domains
    BY <1>1, BusyRow
  <1>4. /\ row.domain = Row(a).domain /\ row.zone = ZoneFor(Row(a).domain) /\ row.enabled = Row(a).enabled
        /\ row.target = Row(a).target
    BY <1>3 DEF Website, RowWith
  <1>5. ZoneFor(Row(a).domain) \in Domains
    BY <1>3 DEF ZoneFor, Domains
  <1> HIDE DEF row
  <1>6. calls' = [calls EXCEPT ![a].pc = pc, ![a].row = row]
    BY <1>1, <1>2 DEF TypeInv, TypeOK, Call
  <1> HIDE DEF pc
  <1>7. Others(a) /\ Same(a) /\ calls'[a].pc = pc /\ Row(a)' = row
    BY <1>6, EnterFacts
  <1> QED
    BY <1>1, <1>4, <1>5, <1>7 DEF AssignZone, pc, At

(* The zone is deleted from DNS; the row keeps naming it until the status is saved. *)
LEMMA DeleteEmptyFacts ==
    ASSUME TypeInv, NEW a \in Callers, DeleteEmptyZone(a)
    PROVE  /\ calls[a].pc = "off_zone" /\ Others(a) /\ Same(a) /\ calls'[a].pc = "off_status"
           /\ Row(a)'.domain = Row(a).domain /\ Row(a)'.enabled = Row(a).enabled /\ Row(a)'.target = Row(a).target
           /\ \/ DeleteZone(Row(a).zone, {}) /\ Row(a)'.zone = None
              \/ DeleteZoneFails(Row(a).zone) /\ Row(a)'.zone = Row(a).zone
           /\ Row(a).zone \in Domains
           /\ site' = site /\ want' = want /\ hns' = hns
  <1> DEFINE row == [Row(a) EXCEPT !.zone = None]
             pc == "off_status"
  <1>1. calls[a].pc = "off_zone" /\ Row(a) \in Website /\ Row(a).zone \in Domains
    BY BusyRow DEF DeleteEmptyZone, At, CallTyped, ZonePCs, Row
  <1>2. \/ DeleteZone(Row(a).zone, {}) /\ calls' = [calls EXCEPT ![a].pc = pc, ![a].row = row]
        \/ DeleteZoneFails(Row(a).zone) /\ Goto(a, pc)
    BY DEF DeleteEmptyZone
  <1>3. row.domain = Row(a).domain /\ row.zone = None /\ row.enabled = Row(a).enabled /\ row.target = Row(a).target
    BY <1>1 DEF Website, RowWith
  <1> HIDE DEF row, pc
  <1>4. CASE DeleteZone(Row(a).zone, {}) /\ calls' = [calls EXCEPT ![a].pc = pc, ![a].row = row]
    <2>1. Others(a) /\ Same(a) /\ calls'[a].pc = pc /\ Row(a)' = row
      BY <1>4, EnterFacts
    <2> QED
      BY <1>1, <1>3, <1>4, <2>1 DEF pc, DeleteEmptyZone
  <1>5. CASE DeleteZoneFails(Row(a).zone) /\ Goto(a, pc)
    BY <1>1, <1>5, GotoFacts DEF pc, DeleteEmptyZone
  <1> QED
    BY <1>2, <1>4, <1>5

(* The transaction reads the stored row and plans the change on it. *)
LEMMA PrepareFacts ==
    ASSUME TypeInv, NEW a \in Callers, PrepareUpdate(a)
    PROVE  /\ calls[a].pc = "u_tx" /\ Others(a)
           /\ site' = site /\ want' = want /\ rec' = rec /\ zone' = zone /\ hns' = hns
           /\ \/ calls'[a] = IdleCall /\ UNCHANGED <<key, publishing, asked, excuse>>
              \/ /\ Live(W(a)) /\ calls'[a].pc = "u_commit" /\ W(a)' = W(a) /\ calls'[a].op = calls[a].op
                 /\ Row(a)' = site[W(a)]
                 /\ calls'[a].req \in Request
                 /\ calls'[a].req.kind \in {"dns", "domain"} => calls'[a].req = calls[a].req
                 /\ calls'[a].changed = "no" => calls'[a].set \in {calls[a].set, site[W(a)].target}
                 /\ calls'[a].changed # "no" => calls'[a].set \in Target
                 /\ \/ UNCHANGED <<key, publishing, asked, excuse>>
                    \/ \E c \in Contents : EnsureIPNSKey(site[W(a)].domain, c)
  <1> DEFINE r == site[W(a)]
             p == Plan(a, r)
             q == calls[a].req
             req == IF q.kind = "target" THEN [kind |-> "type", type |-> p.set.type] ELSE q
             c == [calls[a] EXCEPT !.pc = "u_commit", !.row = r, !.set = p.set, !.setkey = p.setkey,
                                   !.changed = p.changed, !.req = req]
  <1>1. calls[a].pc = "u_tx"
    BY DEF PrepareUpdate, At
  <1>2. calls[a] \in Call /\ W(a) \in Sites /\ q \in Request
    BY <1>1, BusyRow DEF CallTyped, Call, UpdatePCs
  <1>3. CASE ~Live(W(a)) \/ ~p.ok
    BY <1>1, <1>3, DoneFacts DEF PrepareUpdate
  <1>4. ASSUME Live(W(a)), p.ok
        PROVE  /\ Others(a) /\ calls'[a].pc = "u_commit" /\ W(a)' = W(a) /\ calls'[a].op = calls[a].op
               /\ Row(a)' = site[W(a)]
               /\ calls'[a].req \in Request
               /\ calls'[a].req.kind \in {"dns", "domain"} => calls'[a].req = calls[a].req
               /\ calls'[a].changed = "no" => calls'[a].set \in {calls[a].set, site[W(a)].target}
               /\ calls'[a].changed # "no" => calls'[a].set \in Target
               /\ \/ UNCHANGED <<key, publishing, asked, excuse>>
                  \/ \E e \in Contents : EnsureIPNSKey(site[W(a)].domain, e)
    <2>1. r \in Website
      BY <1>2, <1>4 DEF Live, NoSite, TypeInv, TypeOK
    <2>2. /\ p.publish \in Contents \union {None}
          /\ q.kind = "target" => p.set \in Target
          /\ p.changed = "no" => p.set \in {calls[a].set, r.target}
          /\ p.changed # "no" => p.set \in Target
      BY <1>1, <1>4, <2>1, PlanTyped
    <2>3. req \in Request /\ (req.kind \in {"dns", "domain"} => req = q)
      <3>1. q.kind = "target" => p.set.type \in {"ipfs", "ipns"}
        BY <2>2 DEF Target
      <3> HIDE DEF p
      <3> QED BY <1>2, <3>1 DEF Request
    <2>4. /\ calls' = [calls EXCEPT ![a].pc = "u_commit", ![a].row = r, ![a].set = p.set, ![a].setkey = p.setkey,
                            ![a].changed = p.changed, ![a].req = req]
          /\ IF p.publish = None THEN UNCHANGED <<key, publishing, asked, excuse>>
                ELSE EnsureIPNSKey(r.domain, p.publish)
      BY <1>4 DEF PrepareUpdate
    <2> HIDE DEF p, req
    <2>5. calls' = [calls EXCEPT ![a] = c]
      BY <2>4, <1>2 DEF TypeInv, TypeOK, Call
    <2>6. /\ c.pc = "u_commit" /\ c.op = calls[a].op /\ c.site = calls[a].site /\ c.row = r
          /\ c.req = req /\ c.changed = p.changed /\ c.set = p.set
      BY <1>2 DEF Call
    <2> HIDE DEF c
    <2>7. calls'[a] = c /\ Others(a)
      BY <2>5 DEF TypeInv, TypeOK, Others
    <2>8. /\ calls'[a].pc = "u_commit" /\ W(a)' = W(a) /\ calls'[a].op = calls[a].op /\ Row(a)' = site[W(a)]
          /\ calls'[a].req = req /\ calls'[a].changed = p.changed /\ calls'[a].set = p.set
      BY <2>6, <2>7 DEF W, Row
    <2>9. \/ UNCHANGED <<key, publishing, asked, excuse>>
          \/ \E e \in Contents : EnsureIPNSKey(site[W(a)].domain, e)
      BY <2>2, <2>4
    <2> QED
      BY <2>2, <2>3, <2>7, <2>8, <2>9
  <1> QED
    BY <1>1, <1>3, <1>4 DEF PrepareUpdate

(* The commit writes the planned row, and decides where the call goes on. *)
LEMMA CommitFacts ==
    ASSUME TypeInv, NEW a \in Callers, CommitUpdate(a)
    PROVE  LET q == calls[a].req
               new == Updated(a)
               next == calls'[a].pc
           IN /\ calls[a].pc = "u_commit" /\ Others(a) /\ Live(W(a)) /\ W(a) \in Sites
              /\ \A v \in Sites \ {W(a)} : site'[v] = site[v]
              /\ site'[W(a)] = new
              /\ \/ calls'[a] = IdleCall /\ calls[a].changed = "no" /\ (q.kind = "dns" => q.on = Row(a).enabled)
                 \/ /\ Same(a) /\ Row(a)' = new
                    /\ next \in {"u_hns", "off_records", "on_zone", "on_records"}
                    /\ next = "u_hns" <=> calls[a].changed # "no"
                    /\ next = "off_records" => q.kind = "dns" /\ ~q.on
                    /\ next \in {"on_zone", "on_records"} => q.kind = "dns" /\ q.on /\ ~Row(a).enabled
                    /\ next = "on_zone" => new.zone = None
              /\ \A w \in Sites \ {W(a)} : want'[w] = want[w]
              /\ want'[W(a)] = [target |-> IF calls[a].set = None THEN want[W(a)].target ELSE calls[a].set,
                                enabled |-> IF q.kind = "dns" THEN q.on ELSE want[W(a)].enabled]
              /\ SideEffects(a, new, {})
              /\ zone' = zone /\ hns' = hns /\ key' = key
  <1> DEFINE new == Updated(a)
             q == calls[a].req
             next == IF calls[a].changed # "no" THEN "u_hns"
                    ELSE IF q.kind # "dns" \/ q.on = Row(a).enabled THEN "idle"
                    ELSE IF ~q.on THEN "off_records" ELSE IF new.zone = None THEN "on_zone" ELSE "on_records"
  <1>1. calls[a].pc = "u_commit" /\ Live(W(a)) /\ q \in Request /\ W(a) \in Sites /\ Row(a).enabled \in BOOLEAN
    BY BusyRow DEF CommitUpdate, At, CallTyped, Call, UpdatePCs, Website, RowWith
  <1>2. calls' = (IF next = "idle" THEN [calls EXCEPT ![a] = IdleCall] ELSE [calls EXCEPT ![a].pc = next, ![a].row = new])
    BY DEF CommitUpdate, Done
  <1>3. /\ \A v \in Sites \ {W(a)} : site'[v] = site[v]
        /\ site'[W(a)] = new
    BY <1>1 DEF CommitUpdate, TypeInv, TypeOK
  <1>4. /\ \A w \in Sites \ {W(a)} : want'[w] = want[w]
        /\ want'[W(a)] = [target |-> IF calls[a].set = None THEN want[W(a)].target ELSE calls[a].set,
                          enabled |-> IF q.kind = "dns" THEN q.on ELSE want[W(a)].enabled]
    BY <1>1 DEF CommitUpdate, TypeInv, TypeOK
  <1> HIDE DEF new
  <1>5. next # "idle" =>
           /\ next \in {"u_hns", "off_records", "on_zone", "on_records"}
           /\ next = "u_hns" <=> calls[a].changed # "no"
           /\ next = "off_records" => q.kind = "dns" /\ ~q.on
           /\ next \in {"on_zone", "on_records"} => q.kind = "dns" /\ q.on /\ ~Row(a).enabled
           /\ next = "on_zone" => new.zone = None
    BY <1>1 DEF Request
  <1>6. next = "idle" => calls[a].changed = "no" /\ (q.kind = "dns" => q.on = Row(a).enabled)
    OBVIOUS
  <1>7. next # "idle" => Others(a) /\ Same(a) /\ calls'[a].pc = next /\ Row(a)' = new
    <2> HIDE DEF next
    <2> HAVE next # "idle"
    <2>1. calls' = [calls EXCEPT ![a].pc = next, ![a].row = new]
      BY <1>2
    <2> QED BY <2>1, EnterFacts
  <1>8. next = "idle" => Others(a) /\ calls'[a] = IdleCall
    BY <1>2, DoneFacts DEF Done
  <1>9. SideEffects(a, new, {}) /\ zone' = zone /\ hns' = hns /\ key' = key
    BY DEF CommitUpdate, new
  <1> HIDE DEF next
  <1> QED
    BY <1>1, <1>3, <1>4, <1>5, <1>6, <1>7, <1>8, <1>9 DEF new

(* An aborted commit leaves the row as it is: the call is retried or ends. *)
LEMMA AbortFacts ==
    ASSUME TypeInv, NEW a \in Callers, AbortUpdate(a)
    PROVE  /\ calls[a].pc = "u_commit" /\ Others(a)
           /\ \/ calls'[a] = IdleCall
              \/ Same(a) /\ calls'[a].pc = "u_tx" /\ Row(a)' = Row(a)
           /\ site' = site /\ want' = want /\ hns' = hns /\ zone' = zone /\ key' = key
  <1> DEFINE c == [calls[a] EXCEPT !.pc = "u_tx", !.retried = TRUE]
  <1>1. calls[a].pc = "u_commit" /\ calls[a] \in Call
    BY DEF AbortUpdate, At, TypeInv, TypeOK
  <1>2. CASE Done(a)
    BY <1>1, <1>2, DoneFacts DEF AbortUpdate
  <1>3. CASE calls' = [calls EXCEPT ![a].pc = "u_tx", ![a].retried = TRUE]
    <2>1. calls'[a] = c /\ Others(a)
      BY <1>1, <1>3 DEF TypeInv, TypeOK, Call, Others
    <2>2. /\ c.pc = "u_tx" /\ c.site = calls[a].site /\ c.op = calls[a].op
          /\ c.row = calls[a].row /\ c.req = calls[a].req
          /\ c.set = calls[a].set /\ c.changed = calls[a].changed
      BY <1>1 DEF Call
    <2> HIDE DEF c
    <2> QED
      BY <1>1, <2>1, <2>2 DEF AbortUpdate, Same, W, Row
  <1> QED
    BY <1>1, <1>2, <1>3 DEF AbortUpdate

Grows == \A d \in Domains : excuse[d] \subseteq excuse'[d]

(* Excusing domains only adds excuses, to the ones named. *)
LEMMA BlameGrows ==
    ASSUME TypeInv, NEW ds, NEW what, Blame(ds, what)
    PROVE  /\ Grows
           /\ \A d \in Domains \intersect ds : excuse'[d] = excuse[d] \union what
           /\ \A d \in Domains \ ds : excuse'[d] = excuse[d]
  BY DEF Blame, TypeInv, TypeOK, Grows

(* A step that excuses nobody takes no excuse back. *)
LEMMA SameGrows == ASSUME excuse' = excuse PROVE Grows
  BY DEF Grows

(* Nor does writing records, *)
LEMMA WriteGrows ==
    ASSUME TypeInv, NEW z, NEW d, NEW t, WriteRecords(z, d, t) \/ WriteRecordsFails(z, d, t)
    PROVE  Grows
  BY BlameGrows, SameGrows DEF WriteRecords, WriteRecordsFails

(* deleting a zone, *)
LEMMA ZoneGrows ==
    ASSUME TypeInv, NEW z, NEW blame, DeleteZone(z, blame) \/ DeleteZoneFails(z)
    PROVE  Grows
  BY BlameGrows, SameGrows DEF DeleteZone, DeleteZoneFails

(* making sure of a key, *)
LEMMA EnsureGrows == ASSUME TypeInv, NEW k, NEW c, EnsureIPNSKey(k, c) PROVE Grows
  BY BlameGrows DEF EnsureIPNSKey

(* or an update's side effects. *)
LEMMA EffectsGrow ==
    ASSUME TypeInv, NEW a, NEW new, NEW blame, SideEffects(a, new, blame)
    PROVE  Grows
  BY BlameGrows DEF SideEffects

NextStored(w) == site'[w].state # "none"
NextLive(w) == site'[w].state = "live"

\* What a step of a call leaves as it was, and what it may change.
Frame(a) ==
    /\ Busy(a) /\ W(a) \in Sites
    /\ Others(a) /\ Grows
    /\ \A v \in Sites \ {W(a)} : site'[v] = site[v]
    /\ Busy(a)' => W(a)' = W(a) /\ calls'[a].op = calls[a].op
    /\ calls'[a].pc \in PreInsert => calls[a].pc \in PreInsert /\ site' = site
    /\ Busy(a)' /\ calls'[a].pc \notin PreInsert => NextStored(W(a))
    /\ Stored(W(a)) => NextStored(W(a))
    /\ Live(W(a)) => NextLive(W(a)) \/ (calls[a].pc = "d_row" /\ (Busy(a)' => calls'[a].pc = "d_records"))
    /\ calls[a].pc \in PreInsert /\ calls'[a].pc \notin PreInsert /\ Busy(a)' => NextLive(W(a))
    /\ calls[a].pc = "d_records" => ~Busy(a)'
    /\ Unhosts(a)' => Unhosts(a)
    /\ ~Moved' => /\ Busy(a)' => Row(a)'.domain = Row(a).domain
                  /\ Touches(a)' \subseteq Touches(a)
                  /\ NextStored(W(a)) => site'[W(a)].domain = Row(a).domain

(* A domain change is excused for good. *)
LEMMA MovedGrows == ASSUME Grows, ~Moved' PROVE ~Moved
  BY DEF Grows, Moved

(* A call that has ended touches no domain. *)
LEMMA IdleFacts ==
    ASSUME NEW a, calls'[a] = IdleCall
    PROVE  ~Busy(a)' /\ calls'[a].pc = "idle" /\ ~Unhosts(a)' /\ Touches(a)' = {} /\ calls'[a].site = None
  BY DEF IdleCall, Busy, At, Unhosts, Touches, NoRequest

\* The steps that write no row.
LEMMA FrameCalls ==
    ASSUME TypeInv, FreshInv, DomainsFixed, NEW a \in Callers, Busy(a), Others(a), Grows, site' = site,
           \/ calls'[a] = IdleCall
           \/ /\ Same(a) /\ Row(a)'.domain = Row(a).domain
              /\ calls'[a].pc \in PreInsert <=> calls[a].pc \in PreInsert
              /\ calls[a].pc # "d_records"
    PROVE  Frame(a)
  <1>1. W(a) \in Sites /\ (calls[a].pc \notin PreInsert => Stored(W(a)))
    BY CallFields DEF FreshInv
  <1>2. ~Moved' /\ Stored(W(a)) => site[W(a)].domain = Row(a).domain
    BY MovedGrows DEF DomainsFixed
  <1>3. (NextStored(W(a)) <=> Stored(W(a))) /\ (NextLive(W(a)) <=> Live(W(a)))
    BY DEF NextStored, NextLive, Stored, Live
  <1>4. CASE calls'[a] = IdleCall
    <2>1. ~Busy(a)' /\ calls'[a].pc = "idle" /\ ~Unhosts(a)' /\ Touches(a)' = {}
      BY <1>4, IdleFacts
    <2> QED
      BY <1>1, <1>2, <1>3, <2>1 DEF Frame, PreInsert
  <1>5. CASE /\ Same(a) /\ Row(a)'.domain = Row(a).domain
             /\ calls'[a].pc \in PreInsert <=> calls[a].pc \in PreInsert
             /\ calls[a].pc # "d_records"
    <2>1. Touches(a)' \subseteq Touches(a) /\ (Unhosts(a)' => Unhosts(a))
      BY <1>5 DEF Touches, Unhosts, Same, At, Busy
    <2> QED
      BY <1>1, <1>2, <1>3, <1>5, <2>1 DEF Frame, Same
  <1> QED
    BY <1>4, <1>5

\* The steps that write a row: the row stays one of the same domain.
LEMMA FrameSave ==
    ASSUME TypeInv, FreshInv, DomainsFixed, NEW a \in Callers, calls[a].pc \notin PreInsert, Busy(a), Others(a), Grows,
           NEW r \in Website, r.state = "live", r.domain = Row(a).domain, Save(W(a), r),
           \/ calls'[a] = IdleCall
           \/ Same(a) /\ Row(a)'.domain = Row(a).domain /\ calls'[a].pc \notin PreInsert /\ calls[a].pc # "d_records"
    PROVE  Frame(a)
  <1>1. W(a) \in Sites /\ Stored(W(a)) /\ site[W(a)].state \in {"live", "deleted"}
    BY CallFields, LiveIsWebsite DEF FreshInv, Website, RowWith
  <1>2. ~Moved' => site[W(a)].domain = Row(a).domain
    BY <1>1, MovedGrows DEF DomainsFixed
  <1>3. /\ \A v \in Sites \ {W(a)} : site'[v] = site[v]
        /\ NextStored(W(a)) /\ (Live(W(a)) => NextLive(W(a)))
        /\ ~Moved' => site'[W(a)].domain = Row(a).domain
    BY <1>1, <1>2, SaveTyped DEF NextStored, NextLive, Live
  <1>4. CASE calls'[a] = IdleCall
    BY <1>1, <1>3, <1>4, IdleFacts DEF Frame, PreInsert
  <1>5. CASE Same(a) /\ Row(a)'.domain = Row(a).domain /\ calls'[a].pc \notin PreInsert /\ calls[a].pc # "d_records"
    <2>1. Touches(a)' \subseteq Touches(a) /\ (Unhosts(a)' => Unhosts(a))
      BY <1>5 DEF Touches, Unhosts, Same, At, Busy
    <2> QED
      BY <1>1, <1>3, <1>5, <2>1 DEF Frame, Same
  <1> QED
    BY <1>4, <1>5

(* The steps that save a whole row write the target, zone and flag of the call's copy. *)
LEMMA SaveStepFacts ==
    ASSUME TypeInv, NEW a \in Callers, SaveTarget(a) \/ LinkZone(a) \/ SaveBlock(a) \/ ValidateWebsite(a) \/ SaveValidated(a)
    PROVE  /\ calls[a].pc \in {"c_save", "c_link", "b_save", "j_validate", "v_lookup", "v_tsave"} /\ Others(a)
           /\ \E r \in Website :
                 /\ r.state = "live" /\ r.domain = Row(a).domain /\ r.target = Row(a).target
                 /\ r.zone = Row(a).zone /\ r.enabled = Row(a).enabled
                 /\ Save(W(a), r)
           /\ \/ calls'[a] = IdleCall /\ calls[a].pc \notin {"c_save", "c_link"}
              \/ /\ Same(a) /\ Row(a)' = Row(a)
                 /\ \/ calls[a].pc = "c_save" /\ calls'[a].pc = "c_zone"
                    \/ calls[a].pc = "c_link" /\ calls'[a].pc = "c_records"
           /\ IF SaveTarget(a) THEN want' = [want EXCEPT ![W(a)] = Wanted(Row(a))] ELSE want' = want
           /\ SaveTarget(a) <=> calls[a].pc = "c_save"
           /\ zone' = zone /\ rec' = rec /\ key' = key /\ publishing' = publishing /\ asked' = asked
           /\ hns' = hns /\ excuse' = excuse
  <1>1. calls[a].pc \in {"c_save", "c_link", "b_save", "j_validate", "v_lookup", "v_tsave"}
    BY DEF SaveTarget, LinkZone, SaveBlock, ValidateWebsite, SaveValidated, At
  <1>2. Row(a) \in Website /\ Row(a).state = "live"
    BY <1>1, BusyRow DEF CallTyped, Row
  <1>3. Row(a).status \in {"pending_validation", "active", "broken", "blocked"}
    BY <1>2 DEF Website, RowWith
  <1>4. \/ Save(W(a), Row(a))
        \/ \E s \in {"pending_validation", "active", "broken", "blocked"} : Save(W(a), [Row(a) EXCEPT !.status = s])
    BY <1>1, <1>3 DEF SaveTarget, LinkZone, SaveBlock, ValidateWebsite, SaveValidated
  <1>5. ASSUME NEW s \in {"pending_validation", "active", "broken", "blocked"}
        PROVE  LET r == [Row(a) EXCEPT !.status = s]
               IN r \in Website /\ r.state = "live" /\ r.domain = Row(a).domain /\ r.target = Row(a).target
                  /\ r.zone = Row(a).zone /\ r.enabled = Row(a).enabled
    BY <1>2 DEF Website, RowWith
  <1>6. \E r \in Website :
           /\ r.state = "live" /\ r.domain = Row(a).domain /\ r.target = Row(a).target
           /\ r.zone = Row(a).zone /\ r.enabled = Row(a).enabled
           /\ Save(W(a), r)
    <2>1. CASE Save(W(a), Row(a))
      BY <1>2, <2>1
    <2>2. ASSUME NEW s \in {"pending_validation", "active", "broken", "blocked"}, Save(W(a), [Row(a) EXCEPT !.status = s])
          PROVE  \E r \in Website :
                    /\ r.state = "live" /\ r.domain = Row(a).domain /\ r.target = Row(a).target
                    /\ r.zone = Row(a).zone /\ r.enabled = Row(a).enabled
                    /\ Save(W(a), r)
      <3> DEFINE r == [Row(a) EXCEPT !.status = s]
      <3>1. r \in Website /\ r.state = "live" /\ r.domain = Row(a).domain /\ r.target = Row(a).target
            /\ r.zone = Row(a).zone /\ r.enabled = Row(a).enabled /\ Save(W(a), r)
        BY <1>5, <2>2
      <3> HIDE DEF r
      <3> QED BY <3>1
    <2> QED
      BY <1>4, <2>1, <2>2
  <1>7. \/ calls[a].pc = "c_save" /\ Goto(a, "c_zone")
        \/ calls[a].pc = "c_link" /\ Goto(a, "c_records")
        \/ calls[a].pc \notin {"c_save", "c_link"} /\ Done(a)
    BY DEF SaveTarget, LinkZone, SaveBlock, ValidateWebsite, SaveValidated, At
  <1>8. /\ Others(a)
        /\ \/ calls'[a] = IdleCall /\ calls[a].pc \notin {"c_save", "c_link"}
           \/ /\ Same(a) /\ Row(a)' = Row(a)
              /\ \/ calls[a].pc = "c_save" /\ calls'[a].pc = "c_zone"
                 \/ calls[a].pc = "c_link" /\ calls'[a].pc = "c_records"
    BY <1>7, GotoFacts, DoneFacts
  <1>9. /\ IF SaveTarget(a) THEN want' = [want EXCEPT ![W(a)] = Wanted(Row(a))] ELSE want' = want
        /\ SaveTarget(a) <=> calls[a].pc = "c_save"
        /\ zone' = zone /\ rec' = rec /\ key' = key /\ publishing' = publishing /\ asked' = asked
        /\ hns' = hns /\ excuse' = excuse
    BY <1>1 DEF SaveTarget, LinkZone, SaveBlock, ValidateWebsite, SaveValidated, At
  <1> QED
    BY <1>1, <1>6, <1>8, <1>9

(* Every step of a call keeps to its frame. *)
LEMMA StepFrame ==
    ASSUME TypeInv, FreshInv, DomainsFixed, NEW a \in Callers, Step(a)
    PROVE  Frame(a)
  <1> USE DEF PreInsert
  <1> DEFINE Ends == Others(a) /\ calls'[a] = IdleCall
             Goes == Others(a) /\ Same(a) /\ Row(a)' = Row(a)
  <1>0. ASSUME NEW pc, Goto(a, pc)
        PROVE  Goes /\ calls'[a].pc = pc
    BY <1>0, GotoFacts
  <1>00. Done(a) => Ends
    BY DoneFacts
  <1> HIDE DEF Ends, Goes
  <1>1. ASSUME Busy(a), Grows, site' = site, Ends \/ (Goes /\ (calls'[a].pc \in PreInsert <=> calls[a].pc \in PreInsert) /\ calls[a].pc # "d_records")
        PROVE  Frame(a)
    BY <1>1, FrameCalls DEF Ends, Goes
  <1>2. CASE CreateKey(a)
    <2>1. Grows
      BY <1>2, EnsureGrows DEF CreateKey
    <2> QED
      BY <1>2, <2>1, CreateKeyFacts, FrameCalls DEF Busy, At
  <1>3. CASE CheckDomain(a)
    BY <1>3, <1>0, <1>00, <1>1, SameGrows DEF CheckDomain, stores, Busy, At
  <1>4. CASE InsertWebsite(a)
    <2>1. W(a) \in Sites /\ Grows /\ Busy(a)
      BY <1>4, InsertFacts, BusyRow, SameGrows
    <2>2. /\ calls[a].pc = "c_insert" /\ Others(a)
          /\ \/ calls'[a] = IdleCall
             \/ Same(a) /\ calls'[a].pc \in {"c_convert", "c_zone"} /\ Row(a)'.domain = Row(a).domain
          /\ \A v \in Sites \ {W(a)} : site'[v] = site[v]
          /\ site'[W(a)].state = "live" /\ site'[W(a)].domain = Row(a).domain
      BY <1>4, InsertFacts
    <2>3. Touches(a)' \subseteq Touches(a) /\ (Unhosts(a)' => Unhosts(a))
      BY <2>1, <2>2, IdleFacts DEF Touches, Unhosts, Same, At, Busy
    <2> QED
      BY <2>1, <2>2, <2>3, IdleFacts DEF Frame, NextStored, NextLive, Same, Busy, At
  <1>5. CASE SaveTarget(a) \/ LinkZone(a) \/ SaveBlock(a) \/ ValidateWebsite(a) \/ SaveValidated(a)
    <2>1. Busy(a) /\ Grows
      BY <1>5, SaveStepFacts, SameGrows DEF Busy, At
    <2> QED
      BY <1>5, <2>1, SaveStepFacts, FrameSave
  <1>6. CASE AssignZone(a)
    <2>1. Grows
      BY <1>6, SameGrows, BlameGrows DEF AssignZone, TakeZone
    <2> QED
      BY <1>6, <2>1, AssignFacts, FrameCalls DEF Busy, At
  <1>7. CASE LinkZoneFails(a)
    <2>1. Grows
      BY <1>7, SameGrows, ZoneGrows DEF LinkZoneFails
    <2> QED
      BY <1>7, <2>1, <1>00, <1>1 DEF LinkZoneFails, Busy, At
  <1>8. CASE CreateRecords(a)
    <2>1. Grows
      BY <1>8, WriteGrows DEF CreateRecords
    <2> QED
      BY <1>8, <2>1, <1>00, <1>1 DEF CreateRecords, Busy, At
  <1>9. CASE GivesUp(a)
    BY <1>9, <1>00, <1>1, SameGrows DEF GivesUp, stores, Busy, At
  <1>10. CASE PrepareUpdate(a)
    <2>1. Grows
      BY <1>10, PrepareFacts, EnsureGrows, SameGrows
    <2>2. CASE calls'[a] = IdleCall
      BY <1>10, <2>1, <2>2, PrepareFacts, FrameCalls DEF Busy, At
    <2>3. CASE calls'[a] # IdleCall
      <3>1. /\ calls[a].pc = "u_tx" /\ Others(a) /\ site' = site
            /\ Live(W(a)) /\ calls'[a].pc = "u_commit" /\ W(a)' = W(a) /\ calls'[a].op = calls[a].op
            /\ Row(a)' = site[W(a)]
            /\ calls'[a].req.kind \in {"dns", "domain"} => calls'[a].req = calls[a].req
        BY <1>10, <2>3, PrepareFacts
      <3>2. ~Moved' => site[W(a)].domain = Row(a).domain
        BY <2>1, <3>1, MovedGrows DEF DomainsFixed, Busy, At, Live, Stored
      <3>3. ~Moved' => Touches(a)' \subseteq Touches(a)
        BY <3>1, <3>2 DEF Touches, At
      <3>4. Unhosts(a)' => Unhosts(a)
        BY <3>1 DEF Unhosts
      <3>5. W(a) \in Sites
        BY <3>1, BusyRow
      <3> QED
        BY <2>1, <3>1, <3>2, <3>3, <3>4, <3>5 DEF Frame, Busy, At, NextStored, NextLive, Stored, Live
    <2> QED
      BY <2>2, <2>3
  <1>11. CASE CommitUpdate(a)
    <2>1. Grows
      BY <1>11, EffectsGrow DEF CommitUpdate
    <2>2. /\ calls[a].pc = "u_commit" /\ Others(a) /\ Live(W(a)) /\ W(a) \in Sites
          /\ \A v \in Sites \ {W(a)} : site'[v] = site[v]
          /\ site'[W(a)] = Updated(a)
          /\ \/ calls'[a] = IdleCall
             \/ Same(a) /\ Row(a)' = Updated(a) /\ calls'[a].pc \in {"u_hns", "off_records", "on_zone", "on_records"}
          /\ SideEffects(a, Updated(a), {})
      BY <1>11, CommitFacts
    <2>3. /\ Updated(a).state = "live"
          /\ Updated(a).domain = IF calls[a].req.kind = "domain" THEN calls[a].req.domain ELSE site[W(a)].domain
          /\ Updated(a).domain \in Domains /\ site[W(a)].domain \in Domains
      BY <2>2, UpdatedTyped, LiveIsWebsite DEF Website, RowWith, Live, Stored
    <2>4. ~Moved' => site[W(a)].domain = Row(a).domain /\ Updated(a).domain = Row(a).domain
      <3> HAVE ~Moved'
      <3>1. site[W(a)].domain = Row(a).domain
        BY <2>1, <2>2, MovedGrows DEF DomainsFixed, Busy, At, Live, Stored
      <3>2. ASSUME Updated(a).domain # Row(a).domain
            PROVE  Moved'
        <4>1. PICK ds, what : Blame(ds, what) /\ {Updated(a).domain, Row(a).domain} \subseteq ds /\ "Moved" \in what
          <5> DEFINE n == Updated(a)
                     race == IF calls[a].changed = "yes" /\ n.key # None THEN PublishRace(n.key) ELSE {}
                     hosted == calls[a].changed # "no" /\ n.enabled /\ n.zone # None
                     ipns == Row(a).target.type = "ipns" /\ n.target.type = "ipns"
                     what(written) == {} \union race \union {x \in {"Switched"} : hosted /\ ipns}
                          \union {x \in {"Moved"} : n.domain # Row(a).domain} \union {x \in {"Failed"} : hosted /\ ~ipns /\ ~written}
          <5>1. PICK written \in BOOLEAN : Blame({n.domain, Row(a).domain, n.key}, what(written))
            BY <2>2 DEF SideEffects
          <5>2. "Moved" \in what(written)
            BY <3>2
          <5> HIDE DEF what, n
          <5>3. {n.domain, Row(a).domain} \subseteq {n.domain, Row(a).domain, n.key}
            OBVIOUS
          <5> QED BY <5>1, <5>2, <5>3 DEF n
        <4>2. Domains \subseteq {Updated(a).domain, Row(a).domain}
          BY <2>3, <3>1, <3>2 DEF Domains
        <4> QED
          BY <4>1, <4>2, BlameGrows DEF Moved
      <3> QED BY <3>1, <3>2
    <2>5. ~Moved' => Touches(a)' \subseteq Touches(a)
      BY <2>2, <2>4, IdleFacts DEF Touches, Same, At
    <2>6. Unhosts(a)' => Unhosts(a)
      BY <2>2, IdleFacts DEF Unhosts, Same
    <2> QED
      BY <2>1, <2>2, <2>3, <2>4, <2>5, <2>6, IdleFacts DEF Frame, NextStored, NextLive, Same, Busy, At, Stored, Live
  <1>12. CASE AbortUpdate(a)
    <2>1. Grows
      BY <1>12, EffectsGrow, BlameGrows DEF AbortUpdate
    <2> QED
      BY <1>12, <2>1, AbortFacts, FrameCalls DEF Busy, At
  <1>13. CASE RefreshHNSDomains(a)
    <2>1. Grows
      BY <1>13, SameGrows, BlameGrows DEF RefreshHNSDomains
    <2> QED
      BY <1>13, <2>1, <1>00, <1>1 DEF RefreshHNSDomains, Busy, At
  <1>14. CASE StoreZone(a) \/ ResetStatus(a)
    <2>1. calls[a].pc \in {"on_link", "on_status", "off_status"} /\ Busy(a) /\ W(a) \in Sites /\ Stored(W(a)) /\ Grows
      BY <1>14, SameGrows, BusyRow DEF StoreZone, ResetStatus, At, FreshInv
    <2>2. Ends \/ (Goes /\ calls'[a].pc = "on_records")
      BY <1>14, <1>0, <1>00 DEF StoreZone, ResetStatus
    <2>3. site[W(a)] \in Website
      BY <2>1, LiveIsWebsite
    <2>4. PICK r : Columns(W(a), r) /\ r.domain = site[W(a)].domain /\ r.state = site[W(a)].state
      <3>1. CASE StoreZone(a)
        <4> DEFINE r == [site[W(a)] EXCEPT !.zone = Row(a).zone]
        <4>1. r.domain = site[W(a)].domain /\ r.state = site[W(a)].state
          BY <2>3 DEF Website, RowWith
        <4>2. Columns(W(a), r)
          BY <3>1 DEF StoreZone
        <4> QED BY <4>1, <4>2
      <3>2. CASE ResetStatus(a)
        <4> DEFINE r == [site[W(a)] EXCEPT !.status = "pending_validation",
                        !.zone = IF At(a, "off_status") /\ Row(a).zone = None THEN None ELSE @]
        <4>1. r.domain = site[W(a)].domain /\ r.state = site[W(a)].state
          BY <2>3 DEF Website, RowWith
        <4>2. Columns(W(a), r)
          BY <3>2 DEF ResetStatus
        <4> QED BY <4>1, <4>2
      <3> QED
        BY <1>14, <3>1, <3>2
    <2>5. /\ \A v \in Sites \ {W(a)} : site'[v] = site[v]
          /\ site'[W(a)].domain = site[W(a)].domain /\ site'[W(a)].state = site[W(a)].state
      BY <2>1, <2>4 DEF Columns, TypeInv, TypeOK
    <2>6. ~Moved' => site[W(a)].domain = Row(a).domain
      BY <2>1, MovedGrows DEF DomainsFixed
    <2>7. Touches(a)' \subseteq Touches(a) /\ (Unhosts(a)' => Unhosts(a)) /\ Others(a)
      BY <2>1, <2>2, IdleFacts DEF Touches, Unhosts, Same, At, Busy, Ends, Goes
    <2> QED
      BY <2>1, <2>2, <2>5, <2>6, <2>7, IdleFacts DEF Frame, NextStored, NextLive, Stored, Live, Same, Ends, Goes
  <1>15. CASE HostRecords(a)
    <2>1. Grows
      BY <1>15, WriteGrows DEF HostRecords
    <2> QED
      BY <1>15, <2>1, <1>0, <1>00, <1>1 DEF HostRecords, Busy, At
  <1>16. CASE UnhostRecords(a)
    <2>1. Grows
      BY <1>16, WriteGrows, SameGrows DEF UnhostRecords, ClearRecords
    <2> QED
      BY <1>16, <2>1, <1>0, <1>1 DEF UnhostRecords, Busy, At
  <1>17. CASE CountWebsites(a)
    BY <1>17, <1>0, <1>1, SameGrows DEF CountWebsites, stores, Busy, At
  <1>18. CASE DeleteEmptyZone(a)
    <2>1. Grows
      BY <1>18, ZoneGrows DEF DeleteEmptyZone
    <2> QED
      BY <1>18, <2>1, DeleteEmptyFacts, FrameCalls DEF Busy, At
  <1>19. CASE ResetStatusFails(a)
    <2>1. Grows
      BY <1>19, BlameGrows DEF ResetStatusFails
    <2> QED
      BY <1>19, <2>1, <1>00, <1>1 DEF ResetStatusFails, stores, Busy, At
  <1>20. CASE DeleteRow(a)
    <2>1. calls[a].pc = "d_row" /\ Busy(a) /\ W(a) \in Sites /\ Stored(W(a)) /\ Grows
      BY <1>20, SameGrows, BusyRow DEF DeleteRow, At, FreshInv
    <2>2. Ends \/ (Goes /\ calls'[a].pc = "d_records")
      BY <1>20, <1>0, <1>00 DEF DeleteRow
    <2>3. site[W(a)] \in Website
      BY <2>1, LiveIsWebsite
    <2>4. /\ \A v \in Sites \ {W(a)} : site'[v] = site[v]
          /\ site'[W(a)].domain = site[W(a)].domain /\ site'[W(a)].state # "none"
      BY <1>20, <2>1, <2>3 DEF DeleteRow, TypeInv, TypeOK, Website, RowWith
    <2>5. ~Moved' => site[W(a)].domain = Row(a).domain
      BY <2>1, MovedGrows DEF DomainsFixed
    <2>6. Touches(a)' \subseteq Touches(a) /\ (Unhosts(a)' => Unhosts(a)) /\ Others(a)
      BY <2>1, <2>2, IdleFacts DEF Touches, Unhosts, Same, At, Busy, Ends, Goes
    <2> QED
      BY <2>1, <2>2, <2>4, <2>5, <2>6, IdleFacts DEF Frame, NextStored, NextLive, Same, Ends, Goes
  <1>21. CASE DeleteRecords(a)
    <2>1. Grows
      BY <1>21, WriteGrows DEF DeleteRecords, ClearRecords
    <2> QED
      BY <1>21, <2>1, <1>00, <1>1 DEF DeleteRecords, Busy, At
  <1>22. CASE RegenerateToken(a)
    <2>1. Grows
      BY <1>22, WriteGrows, SameGrows, BlameGrows DEF RegenerateToken
    <2> QED
      BY <1>22, <2>1, <1>0, <1>1 DEF RegenerateToken, Busy, At
  <1>23. CASE CreateHNSZone(a) \/ CreateHNSRecords(a) \/ InsertHNSDomain(a)
    BY <1>23, <1>0, <1>00, <1>1, SameGrows DEF CreateHNSZone, CreateHNSRecords, InsertHNSDomain, Busy, At
  <1> QED
    BY <1>2, <1>3, <1>4, <1>5, <1>6, <1>7, <1>8, <1>9, <1>10, <1>11, <1>12, <1>13, <1>14, <1>15, <1>16, <1>17,
       <1>18, <1>19, <1>20, <1>21, <1>22, <1>23 DEF Step
-----------------------------------------------------------------------------
(* Which calls meet, and that their websites stay.                          *)

(* Every step of a call keeps the type. *)
LEMMA StepTyped ==
    ASSUME TypeInv, FreshInv, NEW a \in Callers, Step(a)
    PROVE  TypeInv'
  <1>1. calls[a].pc \notin PreInsert /\ Busy(a) => Stored(W(a))
    BY DEF FreshInv
  <1> QED
    BY <1>1, CreateTyped, ZoneTyped, OnTyped, OffTyped, UpdateTyped, SaveStepsTyped, HnsTyped DEF Step

(* A call that has not inserted its row stays the only one at its website. *)
LEMMA StepFresh ==
    ASSUME TypeInv, FreshInv, NEW a \in Callers, Frame(a), TypeInv'
    PROVE  FreshInv'
  <1>1. ASSUME NEW b \in Callers, b # a, calls[b].pc \in PreInsert
        PROVE  ~NextStored(W(b)) /\ \A c \in Callers \ {b} : calls'[c].site # W(b)
    <2>1. Busy(b) /\ W(b) \in Sites /\ W(b) # W(a) /\ ~Stored(W(b))
      BY <1>1, CallFields DEF FreshInv, Busy, At, PreInsert
    <2>2. ~NextStored(W(b))
      BY <2>1 DEF Frame, Stored, NextStored
    <2>3. ASSUME NEW c \in Callers \ {b}
          PROVE  calls'[c].site # W(b)
      <3>1. CASE c # a
        BY <1>1, <3>1 DEF Frame, Others, FreshInv, W
      <3>2. CASE c = a /\ Busy(a)'
        BY <2>1, <3>2 DEF Frame, W
      <3>3. CASE c = a /\ ~Busy(a)'
        <4>1. calls'[a] = IdleCall
          BY <3>3 DEF TypeInv, CallTyped, Busy, At
        <4> QED
          BY <2>1, <3>3, <4>1, IdleFacts, WebsitesAssumption
      <3> QED BY <3>1, <3>2, <3>3
    <2> QED BY <2>2, <2>3
  <1>2. ASSUME NEW b \in Callers, b # a, calls[b].pc \notin PreInsert, Busy(b)
        PROVE  NextStored(W(b))
    <2>1. Stored(W(b)) /\ W(b) \in Sites
      BY <1>2, CallFields DEF FreshInv
    <2> QED
      BY <2>1 DEF Frame, Stored, NextStored
  <1>3. ASSUME calls'[a].pc \in PreInsert
        PROVE  W(a)' = W(a) /\ ~NextStored(W(a)) /\ \A c \in Callers \ {a} : calls'[c].site # W(a)
    <2>1. calls[a].pc \in PreInsert /\ site' = site /\ Busy(a)'
      BY <1>3 DEF Frame, Busy, At, PreInsert
    <2> QED
      BY <2>1 DEF Frame, FreshInv, Stored, NextStored, Others, W
  <1>4. ASSUME NEW b \in Callers, b # a
        PROVE  calls'[b] = calls[b]
    BY <1>4 DEF Frame, Others
  <1>5. ASSUME NEW b \in Callers
        PROVE  (/\ calls[b].pc \in PreInsert => /\ ~Stored(W(b))
                                                /\ \A c \in Callers \ {b} : W(c) # W(b)
                /\ calls[b].pc \notin PreInsert /\ Busy(b) => Stored(W(b)))'
    <2>1. CASE b # a
      BY <1>1, <1>2, <1>4, <2>1 DEF NextStored, Stored, W, Busy, At
    <2>2. CASE b = a
      BY <1>3, <2>2 DEF Frame, NextStored, Stored, W, Busy, At
    <2> QED BY <2>1, <2>2
  <1> QED
    BY <1>5 DEF FreshInv

(* Unless one was moved, a call's copy names the domain of its website. *)
LEMMA StepDomains ==
    ASSUME TypeInv, FreshInv, DomainsFixed, NEW a \in Callers, Frame(a)
    PROVE  DomainsFixed'
  <1> SUFFICES ASSUME ~Moved', NEW b \in Callers, Busy(b)', site'[calls'[b].site].state # "none"
               PROVE  calls'[b].row.domain = site'[calls'[b].site].domain
    BY DEF DomainsFixed, Stored, W, Row
  <1>1. ~Moved
    BY MovedGrows DEF Frame
  <1>2. CASE b = a
    BY <1>2 DEF Frame, NextStored, W, Row
  <1>3. CASE b # a
    <2>1. calls'[b] = calls[b] /\ Busy(b) /\ W(b) \in Sites
      BY <1>3, CallFields DEF Frame, Others, Busy, At
    <2>2. CASE W(b) # W(a)
      BY <1>1, <2>1, <2>2 DEF Frame, DomainsFixed, Stored, W, Row
    <2>3. CASE W(b) = W(a)
      <3>1. calls[b].pc \notin PreInsert /\ Stored(W(b)) /\ calls[a].pc \notin PreInsert
        BY <1>3, <2>1, <2>3 DEF FreshInv
      <3>2. Row(b).domain = site[W(b)].domain /\ Row(a).domain = site[W(a)].domain
        BY <1>1, <2>1, <2>3, <3>1 DEF DomainsFixed, Frame
      <3>3. site'[W(a)].domain = Row(a).domain
        BY <2>1, <2>3 DEF Frame, NextStored, W
      <3> QED
        BY <2>1, <2>3, <3>2, <3>3 DEF W, Row
    <2> QED BY <2>2, <2>3
  <1> QED BY <1>2, <1>3

(* Calls that met stay excused. *)
LEMMA StepPair ==
    ASSUME TypeInv, PairI, NEW a \in Callers, Frame(a)
    PROVE  PairI'
  <1> SUFFICES ASSUME ~Moved', NEW b \in Callers, NEW c \in Callers, b # c, Busy(b)', Busy(c)'
               PROVE  /\ \A d \in Touches(b)' \intersect Touches(c)' :
                            /\ "Overlap" \in excuse'[d]
                            /\ calls'[b].op \in Savers => "Saves" \in excuse'[d]
                      /\ Unhosts(b)' => \A d \in Touches(b)' \union Touches(c)' : "Overlap" \in excuse'[d]
                      /\ calls'[b].op = "hns" /\ calls'[c].op = "hns" => \A d \in Touches(b)' \union Touches(c)' : "Overlap" \in excuse'[d]
    BY DEF PairI, PairInv
  <1>1. ~Moved /\ PairInv
    BY MovedGrows DEF Frame, PairI
  <1>2. ASSUME NEW x \in Callers, Busy(x)'
        PROVE  /\ Busy(x) /\ Touches(x)' \subseteq Touches(x) /\ (Unhosts(x)' => Unhosts(x)) /\ calls'[x].op = calls[x].op
               /\ Touches(x) \subseteq Domains
    <2>1. CASE x = a
      <3>1. Touches(a) \subseteq Domains
        <4>1. Busy(a) /\ calls[a] \in Call /\ Row(a).domain \in Domains
          BY CallFields DEF Frame
        <4> QED BY <4>1 DEF Touches, Call, Request, NoRequest
      <3> QED
        BY <1>2, <2>1, <3>1 DEF Frame
    <2>2. CASE x # a
      <3>1. calls'[x] = calls[x] /\ Busy(x)
        BY <1>2, <2>2 DEF Frame, Others, Busy, At
      <3>2. Touches(x)' = Touches(x) /\ (Unhosts(x)' => Unhosts(x))
        BY <3>1 DEF Touches, Unhosts, At, Row
      <3>3. Touches(x) \subseteq Domains
        <4>1. calls[x] \in Call /\ Row(x).domain \in Domains
          BY <3>1, CallFields
        <4> QED BY <4>1 DEF Touches, Call, Request, NoRequest
      <3> QED
        BY <3>1, <3>2, <3>3
    <2> QED BY <2>1, <2>2
  <1>3. \A d \in Domains : excuse[d] \subseteq excuse'[d]
    BY DEF Frame, Grows
  <1>4. /\ \A d \in Touches(b) \intersect Touches(c) :
              /\ "Overlap" \in excuse[d]
              /\ calls[b].op \in Savers => "Saves" \in excuse[d]
        /\ Unhosts(b) => \A d \in Touches(b) \union Touches(c) : "Overlap" \in excuse[d]
        /\ calls[b].op = "hns" /\ calls[c].op = "hns" => \A d \in Touches(b) \union Touches(c) : "Overlap" \in excuse[d]
    BY <1>1, <1>2 DEF PairInv
  <1>5. /\ Touches(b)' \subseteq Touches(b) /\ (Unhosts(b)' => Unhosts(b)) /\ calls'[b].op = calls[b].op /\ Touches(b) \subseteq Domains
        /\ Touches(c)' \subseteq Touches(c) /\ calls'[c].op = calls[c].op /\ Touches(c) \subseteq Domains
    BY <1>2
  <1> QED
    BY <1>3, <1>4, <1>5

\* Two calls on a website, or on a domain, know that they overlap.
LEMMA Meet ==
    ASSUME TypeInv, FreshInv, DomainsFixed, PairI, ~Moved, NEW a \in Callers, NEW b \in Callers, a # b, Busy(a), Busy(b),
           W(a) = W(b) \/ Row(a).domain = Row(b).domain
    PROVE  /\ "Overlap" \in excuse[Row(b).domain] /\ "Overlap" \in excuse[Row(a).domain]
           /\ calls[a].op \in Savers \/ calls[b].op \in Savers => "Saves" \in excuse[Row(a).domain] /\ "Saves" \in excuse[Row(b).domain]
           /\ Row(a).domain = Row(b).domain
  <1>1. Row(a).domain = Row(b).domain
    <2> SUFFICES ASSUME W(a) = W(b) PROVE Row(a).domain = Row(b).domain
      OBVIOUS
    <2>1. Stored(W(a))
      BY DEF FreshInv
    <2> QED
      BY <2>1 DEF DomainsFixed
  <1>2. Row(a).domain \in Touches(a) /\ Row(b).domain \in Touches(b)
    BY DEF Touches, Busy
  <1> QED
    BY <1>1, <1>2 DEF PairI, PairInv

(* A call still works on a live row, or overlaps with its deletion. *)
LEMMA StepLive ==
    ASSUME TypeInv, FreshInv, DomainsFixed, PairI, LiveI, NEW a \in Callers, Frame(a)
    PROVE  LiveI'
  <1> SUFFICES ASSUME ~Moved', NEW b \in Callers, Busy(b)', calls'[b].pc \notin PreInsert \union {"d_records"}, ~NextLive(calls'[b].site)
               PROVE  /\ "Overlap" \in excuse'[calls'[b].row.domain]
                      /\ calls'[b].op \in Savers => "Saves" \in excuse'[calls'[b].row.domain]
    BY DEF LiveI, LiveInv, Live, NextLive, W, Row
  <1>1. ~Moved /\ PairInv /\ LiveInv
    BY MovedGrows DEF Frame, PairI, LiveI
  <1>2. CASE b = a
    <2>1. W(a)' = W(a) /\ Row(a)'.domain = Row(a).domain /\ calls'[a].op = calls[a].op /\ Busy(a) /\ ~NextLive(W(a))
      BY <1>2 DEF Frame, W
    <2>2. calls[a].pc \notin PreInsert \union {"d_records"} /\ ~Live(W(a))
      BY <1>2, <2>1 DEF Frame
    <2>3. Row(a).domain \in Domains
      BY <2>1, CallFields
    <2> QED
      BY <1>1, <1>2, <2>1, <2>2, <2>3 DEF LiveInv, Frame, Grows, Row
  <1>3. CASE b # a
    <2>1. calls'[b] = calls[b] /\ Busy(b)
      BY <1>3 DEF Frame, Others, Busy, At
    <2>2. W(b) \in Sites /\ Row(b).domain \in Domains
      BY <2>1, CallFields
    <2>3. CASE ~Live(W(b))
      BY <1>1, <2>1, <2>2, <2>3 DEF LiveInv, Frame, Grows, Row
    <2>4. CASE Live(W(b))
      <3>1. W(b) = W(a) /\ Busy(a)
        BY <2>1, <2>2, <2>4 DEF Frame, Live, NextLive, W
      <3>2. /\ "Overlap" \in excuse[Row(b).domain]
            /\ calls[b].op \in Savers => "Saves" \in excuse[Row(b).domain]
        BY <1>1, <1>3, <2>1, <3>1, Meet
      <3> QED
        BY <2>1, <2>2, <3>2 DEF Frame, Grows, Row
    <2> QED BY <2>3, <2>4
  <1> QED BY <1>2, <1>3

\* A call that begins.
Enters(a, w, op) ==
    /\ At(a, "idle") /\ Others(a) /\ Grows
    /\ Busy(a)' /\ W(a)' = w /\ calls'[a].op = op /\ calls'[a].set = None
    /\ \E ds, unhosts : Overlap(op, ds, unhosts) /\ Touches(a)' = ds /\ (Unhosts(a)' => unhosts)
    /\ \/ calls'[a].pc \in {"c_key", "c_check"} /\ op = "create" /\ Fresh(w)
       \/ /\ calls'[a].pc \in {"u_tx", "d_row", "b_save", "v_lookup", "v_token", "h_zone", "j_validate"} /\ op # "create" /\ Live(w)
          /\ Row(a)'.domain = site[w].domain /\ Row(a)'.target = site[w].target
          /\ Row(a)'.zone = site[w].zone /\ Row(a)'.enabled = site[w].enabled
    /\ calls'[a].pc = "h_zone" => hns.site = None
    /\ UNCHANGED <<stores, want, asked>>

(* A call at an existing website starts from the stored row. *)
LEMMA BeginAtEnters ==
    ASSUME TypeInv, NEW a \in Callers, NEW op \in OpNames, NEW w \in Sites,
           NEW pc \in {"u_tx", "d_row", "b_save", "v_lookup", "v_token", "h_zone", "j_validate"},
           NEW row \in Website, NEW req \in Request \union {NoRequest},
           BeginAt(a, op, w, pc, row, req), op # "create",
           row.domain = site[w].domain, row.target = site[w].target, row.zone = site[w].zone, row.enabled = site[w].enabled,
           pc = "h_zone" => hns.site = None
    PROVE  Enters(a, w, op)
  <1> DEFINE c == [IdleCall EXCEPT !.op = op, !.site = w, !.pc = pc, !.row = row, !.req = req]
             ds == {row.domain} \union (IF req.kind = "domain" THEN {req.domain} ELSE {})
             unhosts == req = [kind |-> "dns", on |-> FALSE]
  <1>1. c.op = op /\ c.site = w /\ c.pc = pc /\ c.row = row /\ c.req = req /\ c.set = None
    BY DEF IdleCall
  <1> HIDE DEF c
  <1>2. calls'[a] = c /\ Others(a) /\ At(a, "idle") /\ Live(w)
    BY DEF BeginAt, TypeInv, TypeOK, Others, c
  <1>3. Overlap(op, ds, unhosts)
    BY DEF BeginAt
  <1>4. Busy(a)' /\ W(a)' = w /\ calls'[a].op = op /\ calls'[a].set = None /\ calls'[a].pc = pc /\ Row(a)' = row
    BY <1>1, <1>2 DEF Busy, At, W, Row
  <1>5. Touches(a)' = ds /\ (Unhosts(a)' => unhosts)
    BY <1>1, <1>2, <1>4 DEF Touches, Unhosts, Busy
  <1>6. Grows
    BY <1>3, OverlapTyped DEF Grows
  <1>7. UNCHANGED <<stores, want, asked>>
    BY DEF BeginAt
  <1> HIDE DEF ds, unhosts
  <1> QED
    BY <1>2, <1>3, <1>4, <1>5, <1>6, <1>7 DEF Enters

(* So every call that begins either starts from the stored row, or at a fresh website. *)
LEMMA BeginEnters ==
    ASSUME TypeInv, NEW a \in Callers, NEW w \in Sites,
           \/ \E d \in Domains, on \in BOOLEAN :
                 \E t \in [type : {"ipfs"}, hash : NewContents] \union [type : {"ipns"}, hash : NewContents] :
                    BeginCreate(a, w, d, t, on)
           \/ \E q \in Request : BeginUpdate(a, w, q)
           \/ BeginDelete(a, w) \/ BeginValidate(a, w) \/ BeginBlock(a, w) \/ BeginUnblock(a, w)
           \/ BeginHNSDomain(a, w) \/ BeginJanitor(a, w)
    PROVE  \E op \in OpNames : Enters(a, w, op)
  <1> USE DEF OpNames
  <1>1. ASSUME NEW d \in Domains, NEW on \in BOOLEAN,
               NEW t \in [type : {"ipfs"}, hash : NewContents] \union [type : {"ipns"}, hash : NewContents],
               BeginCreate(a, w, d, t, on)
        PROVE  Enters(a, w, "create")
    <2> DEFINE row == [state |-> "live", domain |-> d, target |-> t, status |-> "pending_validation",
                      zone |-> None, key |-> None, enabled |-> on, ssl |-> FALSE]
               pc == IF t.type = "ipns" /\ t.hash \in Contents THEN "c_key" ELSE "c_check"
               c == [IdleCall EXCEPT !.pc = pc, !.op = "create", !.site = w, !.row = row]
    <2>1. c.op = "create" /\ c.site = w /\ c.pc = pc /\ c.row.domain = d /\ c.req = NoRequest /\ c.set = None
      BY DEF IdleCall
    <2>2. calls'[a] = c /\ Others(a) /\ At(a, "idle") /\ Fresh(w) /\ Overlap("create", {d}, FALSE)
      BY <1>1 DEF BeginCreate, TypeInv, TypeOK, Others
    <2>3. pc \in {"c_key", "c_check"} /\ pc # "idle" /\ pc # "h_zone"
      OBVIOUS
    <2> HIDE DEF c, pc
    <2>4. Busy(a)' /\ W(a)' = w /\ calls'[a].op = "create" /\ calls'[a].set = None /\ calls'[a].pc = pc
      BY <2>1, <2>2, <2>3 DEF Busy, At, W
    <2>5. Touches(a)' = {d} /\ (Unhosts(a)' => FALSE)
      BY <2>1, <2>2, <2>4 DEF Touches, Unhosts, Busy, NoRequest, Row
    <2>6. Grows
      BY <2>2, OverlapTyped DEF Grows
    <2>7. UNCHANGED <<stores, want, asked>>
      BY <1>1 DEF BeginCreate
    <2> QED
      BY <2>2, <2>3, <2>4, <2>5, <2>6, <2>7 DEF Enters
  <1>2. ASSUME ~\E d \in Domains, on \in BOOLEAN :
                 \E t \in [type : {"ipfs"}, hash : NewContents] \union [type : {"ipns"}, hash : NewContents] :
                    BeginCreate(a, w, d, t, on)
        PROVE  \E op \in OpNames : Enters(a, w, op)
    <2>1. Live(w)
      BY <1>2 DEF BeginUpdate, BeginDelete, BeginValidate, BeginBlock, BeginUnblock, BeginHNSDomain, BeginJanitor, BeginAt
    <2>2. site[w] \in Website /\ site[w].state = "live"
      BY <2>1 DEF TypeInv, TypeOK, Live, NoSite
    <2>3. ASSUME NEW s \in {"blocked", "active"}
          PROVE  LET r == [site[w] EXCEPT !.status = s]
                 IN r \in Website /\ r.domain = site[w].domain /\ r.target = site[w].target
                    /\ r.zone = site[w].zone /\ r.enabled = site[w].enabled
      BY <2>2 DEF Website, RowWith
    <2>4. ASSUME NEW q \in Request, BeginUpdate(a, w, q)
          PROVE  Enters(a, w, "update")
      BY <2>2, <2>4, BeginAtEnters DEF BeginUpdate
    <2>5. CASE BeginDelete(a, w)
      BY <2>2, <2>5, BeginAtEnters DEF BeginDelete
    <2>6. CASE BeginValidate(a, w)
      BY <2>2, <2>6, BeginAtEnters DEF BeginValidate
    <2>7. CASE BeginBlock(a, w)
      BY <2>3, <2>7, BeginAtEnters DEF BeginBlock
    <2>8. CASE BeginUnblock(a, w)
      BY <2>3, <2>8, BeginAtEnters DEF BeginUnblock
    <2>9. CASE BeginHNSDomain(a, w)
      BY <2>2, <2>9, BeginAtEnters DEF BeginHNSDomain
    <2>10. CASE BeginJanitor(a, w)
      BY <2>2, <2>10, BeginAtEnters DEF BeginJanitor
    <2> QED
      BY <1>2, <2>4, <2>5, <2>6, <2>7, <2>8, <2>9, <2>10
  <1> QED
    BY <1>1, <1>2

\* The begun call and those in flight are excused for each other.
LEMMA EntersMeets ==
    ASSUME TypeInv, NEW a \in Callers, NEW w, NEW op, Enters(a, w, op), NEW b \in Callers, b # a, Busy(b),
           \/ Touches(a)' \intersect Touches(b) # {} \/ Unhosts(b) \/ Unhosts(a)'
           \/ op = "hns" /\ calls[b].op = "hns",
           Touches(a)' \subseteq Domains, Touches(b) \subseteq Domains
    PROVE  \A d \in Touches(a)' \union Touches(b) :
              /\ "Overlap" \in excuse'[d]
              /\ op \in Savers \/ calls[b].op \in Savers => "Saves" \in excuse'[d]
  <1>1. PICK ds, unhosts : Overlap(op, ds, unhosts) /\ Touches(a)' = ds /\ (Unhosts(a)' => unhosts)
    BY DEF Enters
  <1> DEFINE others == {x \in Callers : \/ Touches(x) \intersect ds # {} \/ Unhosts(x) \/ (unhosts /\ ~At(x, "idle"))
                                        \/ op = "hns" /\ calls[x].op = "hns"}
             saves == op \in Savers \/ \E x \in others : calls[x].op \in Savers
             es == ds \union UNION {Touches(x) : x \in others}
             what == {"Overlap"} \union {x \in {"Saves"} : saves}
  <1>2. b \in others
    BY <1>1 DEF Busy
  <1>3. Blame(es, what)
    BY <1>1, <1>2 DEF Overlap
  <1>4. Touches(a)' \union Touches(b) \subseteq es /\ "Overlap" \in what /\ (op \in Savers \/ calls[b].op \in Savers => "Saves" \in what)
    BY <1>1, <1>2
  <1> HIDE DEF es, what
  <1> QED
    BY <1>3, <1>4, BlameGrows

(* A call touches domains, *)
LEMMA TouchesDomains ==
    ASSUME TypeInv, NEW a \in Callers
    PROVE  Touches(a) \subseteq Domains
  <1>1. CASE At(a, "idle")
    BY <1>1 DEF Touches
  <1>2. CASE Busy(a)
    <2>1. calls[a] \in Call /\ Row(a).domain \in Domains
      BY <1>2, CallFields
    <2> QED
      BY <2>1 DEF Touches, Call, Request, NoRequest
  <1> QED
    BY <1>1, <1>2 DEF Busy

(* and so it does after the step. *)
LEMMA TouchesDomainsNext ==
    ASSUME TypeInv', NEW a \in Callers
    PROVE  Touches(a)' \subseteq Domains
  <1>1. calls'[a] \in Call /\ CallTyped(calls'[a])
    BY DEF TypeInv, TypeOK
  <1>2. CASE At(a, "idle")'
    BY <1>2 DEF Touches
  <1>3. CASE ~At(a, "idle")'
    <2>1. calls'[a].row.domain \in Domains /\ calls'[a].req \in Request \union {NoRequest}
      BY <1>1, <1>3 DEF CallTyped, Call, At, RowWith
    <2> QED
      BY <2>1 DEF Touches, Row, Request, NoRequest
  <1> QED
    BY <1>2, <1>3

(* A call that begins keeps the invariants that do not depend on the rows' contents. *)
LEMMA BeginEasy ==
    ASSUME TypeInv, FreshInv, DomainsFixed, PairI, LiveI, TypeInv', NEW a \in Callers, NEW w \in Sites,
           NEW op \in OpNames, Enters(a, w, op)
    PROVE  FreshInv' /\ DomainsFixed' /\ PairI' /\ LiveI'
  <1>1. /\ At(a, "idle") /\ Others(a) /\ Grows /\ site' = site
        /\ Busy(a)' /\ W(a)' = w /\ calls'[a].op = op
        /\ \/ calls'[a].pc \in PreInsert /\ Fresh(w)
           \/ calls'[a].pc \notin PreInsert \union {"d_records"} /\ Live(w) /\ Row(a)'.domain = site[w].domain
    BY DEF Enters, stores, PreInsert
  <1>2. FreshInv'
    <2>1. ASSUME NEW b \in Callers, b # a
          PROVE  (/\ calls[b].pc \in PreInsert => ~Stored(W(b)) /\ \A c \in Callers \ {b} : W(c) # W(b)
                  /\ calls[b].pc \notin PreInsert /\ Busy(b) => Stored(W(b)))'
      BY <1>1, <2>1 DEF FreshInv, Others, W, Stored, Busy, At, Fresh, Live
    <2>2. (/\ calls[a].pc \in PreInsert => ~Stored(W(a)) /\ \A c \in Callers \ {a} : W(c) # W(a)
           /\ calls[a].pc \notin PreInsert /\ Busy(a) => Stored(W(a)))'
      BY <1>1 DEF Others, W, Stored, Fresh, Live, NoSite
    <2>3. ASSUME NEW b \in Callers
          PROVE  (/\ calls[b].pc \in PreInsert => ~Stored(W(b)) /\ \A c \in Callers \ {b} : W(c) # W(b)
                  /\ calls[b].pc \notin PreInsert /\ Busy(b) => Stored(W(b)))'
      <3>1. CASE b = a
        BY <2>2, <3>1
      <3> QED BY <2>1, <3>1
    <2> QED BY <2>3 DEF FreshInv
  <1>3. DomainsFixed'
    <2> SUFFICES ASSUME ~Moved', NEW b \in Callers, Busy(b)', Stored(W(b))'
                 PROVE  Row(b)'.domain = (site[W(b)].domain)'
      BY DEF DomainsFixed
    <2>1. ~Moved
      BY <1>1, MovedGrows
    <2>2. CASE b = a
      BY <1>1, <2>2 DEF Fresh, Stored, NoSite
    <2>3. CASE b # a
      BY <1>1, <2>1, <2>3 DEF DomainsFixed, Others, W, Row, Busy, At, Stored
    <2> QED BY <2>2, <2>3
  <1>4. PairI'
    <2> SUFFICES ASSUME ~Moved', NEW b \in Callers, NEW c \in Callers, b # c, Busy(b)', Busy(c)'
                 PROVE  /\ \A d \in Touches(b)' \intersect Touches(c)' :
                              /\ "Overlap" \in excuse'[d]
                              /\ calls'[b].op \in Savers => "Saves" \in excuse'[d]
                        /\ Unhosts(b)' => \A d \in Touches(b)' \union Touches(c)' : "Overlap" \in excuse'[d]
                        /\ calls'[b].op = "hns" /\ calls'[c].op = "hns" => \A d \in Touches(b)' \union Touches(c)' : "Overlap" \in excuse'[d]
      BY DEF PairI, PairInv
    <2>1. ~Moved /\ PairInv
      BY <1>1, MovedGrows DEF PairI
    <2>2. ASSUME NEW x \in Callers, x # a, Busy(x)'
          PROVE  /\ Busy(x) /\ Touches(x)' = Touches(x) /\ (Unhosts(x)' <=> Unhosts(x)) /\ calls'[x].op = calls[x].op
                 /\ Touches(x) \subseteq Domains
      <3>1. calls'[x] = calls[x]
        BY <1>1, <2>2 DEF Others
      <3> QED
        BY <2>2, <3>1, TouchesDomains DEF Touches, Unhosts, Busy, At, Row
    <2>3. Touches(a)' \subseteq Domains
      BY TouchesDomainsNext
    <2>4. \A d \in Domains : excuse[d] \subseteq excuse'[d]
      BY <1>1 DEF Grows
    <2>5. ASSUME NEW x \in Callers, x # a, Busy(x)',
                 \/ Touches(a)' \intersect Touches(x)' # {} \/ Unhosts(x)' \/ Unhosts(a)'
                 \/ calls'[a].op = "hns" /\ calls'[x].op = "hns"
          PROVE  \A d \in Touches(a)' \union Touches(x)' :
                    /\ "Overlap" \in excuse'[d]
                    /\ calls'[a].op \in Savers \/ calls'[x].op \in Savers => "Saves" \in excuse'[d]
      <3>1. /\ Busy(x) /\ Touches(x)' = Touches(x) /\ (Unhosts(x)' <=> Unhosts(x)) /\ calls'[x].op = calls[x].op
            /\ Touches(x) \subseteq Domains
        BY <2>2, <2>5
      <3>2. \/ Touches(a)' \intersect Touches(x) # {} \/ Unhosts(x) \/ Unhosts(a)'
            \/ op = "hns" /\ calls[x].op = "hns"
        BY <1>1, <2>5, <3>1
      <3>3. \A d \in Touches(a)' \union Touches(x) :
                    /\ "Overlap" \in excuse'[d]
                    /\ op \in Savers \/ calls[x].op \in Savers => "Saves" \in excuse'[d]
        BY <2>3, <2>5, <3>1, <3>2, EntersMeets
      <3> QED
        BY <1>1, <3>1, <3>3
    <2>6. CASE b = a
      BY <2>5, <2>6
    <2>7. CASE c = a
      BY <2>5, <2>7
    <2>8. CASE b # a /\ c # a
      <3>1. /\ Busy(b) /\ Touches(b)' = Touches(b) /\ (Unhosts(b)' <=> Unhosts(b)) /\ calls'[b].op = calls[b].op
            /\ Touches(b) \subseteq Domains
            /\ Busy(c) /\ Touches(c)' = Touches(c) /\ calls'[c].op = calls[c].op
            /\ Touches(c) \subseteq Domains
        BY <2>2, <2>8
      <3>2. /\ \A d \in Touches(b) \intersect Touches(c) :
                  /\ "Overlap" \in excuse[d]
                  /\ calls[b].op \in Savers => "Saves" \in excuse[d]
            /\ Unhosts(b) => \A d \in Touches(b) \union Touches(c) : "Overlap" \in excuse[d]
            /\ calls[b].op = "hns" /\ calls[c].op = "hns" => \A d \in Touches(b) \union Touches(c) : "Overlap" \in excuse[d]
        BY <2>1, <3>1 DEF PairInv
      <3> QED
        BY <2>4, <3>1, <3>2
    <2> QED BY <2>6, <2>7, <2>8
  <1>5. LiveI'
    <2> SUFFICES ASSUME ~Moved', NEW b \in Callers, Busy(b)', calls'[b].pc \notin PreInsert \union {"d_records"}, ~Live(W(b))'
                 PROVE  /\ "Overlap" \in excuse'[calls'[b].row.domain]
                        /\ calls'[b].op \in Savers => "Saves" \in excuse'[calls'[b].row.domain]
      BY DEF LiveI, LiveInv, Row
    <2>1. ~Moved /\ LiveInv
      BY <1>1, MovedGrows DEF LiveI
    <2>2. CASE b = a
      BY <1>1, <2>2 DEF Live
    <2>3. CASE b # a
      <3>1. calls'[b] = calls[b] /\ Busy(b) /\ ~Live(W(b))
        BY <1>1, <2>3 DEF Others, Busy, At, Live, W
      <3>2. Row(b).domain \in Domains
        BY <3>1, CallFields
      <3> QED
        BY <1>1, <2>1, <3>1, <3>2 DEF LiveInv, Grows, Row
    <2> QED BY <2>2, <2>3
  <1> QED
    BY <1>2, <1>3, <1>4, <1>5
-----------------------------------------------------------------------------
(* What was acknowledged.                                                   *)

(* A call about to save a whole row is one of the operations that do. *)
LEMMA WritersSave ==
    ASSUME TypeInv, NEW b \in Callers, calls[b].pc \in Writers
    PROVE  calls[b].op \in Savers /\ Busy(b) /\ calls[b].pc \notin PreInsert \union {"d_records"}
  <1>1. CallTyped(calls[b]) /\ calls[b].pc # "idle" /\ Busy(b)
    BY DEF TypeInv, Writers, Busy, At
  <1> QED
    BY <1>1 DEF CallTyped, Writers, Savers, CreatePCs, ValidatePCs, PreInsert

(* AckInv is kept when the step's own website is written as it is wanted. *)
LEMMA AckStep ==
    ASSUME TypeInv, FreshInv, DomainsFixed, AckInv, NEW a \in Callers, Frame(a), TypeInv',
           \A v \in Sites \ {W(a)} : want'[v] = want[v],
           ~Moved' /\ NextLive(W(a)) /\ Unsaved(Row(a).domain) /\ excuse'[Row(a).domain] \intersect {"Saves", "Retry", "Moved"} = {} =>
               /\ Wanted(site'[W(a)]) = want'[W(a)]
               /\ calls'[a].pc \in Writers => Wanted(calls'[a].row) = want'[W(a)]
               /\ \A b \in Callers \ {a} : W(b) = W(a) /\ calls[b].pc \in Writers => Wanted(Row(b)) = want'[W(a)]
    PROVE  AckInv'
  <1> SUFFICES ASSUME NEW w \in Sites, NextLive(w), excuse'[site'[w].domain] \intersect {"Saves", "Retry", "Moved"} = {}
               PROVE  /\ Wanted(site'[w]) = want'[w]
                      /\ \A b \in Callers : calls'[b].site = w /\ calls'[b].pc \in Writers => Wanted(calls'[b].row) = want'[w]
    BY DEF AckInv, Live, NextLive, Unsaved, W, Row, Wanted
  <1>1. site'[w] \in Website
    BY DEF TypeInv, TypeOK, NextLive, NoSite
  <1>2. ~Moved' /\ \A d \in Domains : excuse[d] \subseteq excuse'[d]
    BY <1>1 DEF Moved, Frame, Grows, Website, RowWith
  <1>3. site'[w].domain \in Domains /\ Unsaved(site'[w].domain)
    BY <1>1, <1>2 DEF Website, RowWith, Unsaved
  <1>4. CASE w = W(a)
    <2>1. site'[w].domain = Row(a).domain
      BY <1>2, <1>4 DEF Frame, NextLive, NextStored
    <2>2. ASSUME NEW b \in Callers, calls'[b].site = w, calls'[b].pc \in Writers
          PROVE  Wanted(calls'[b].row) = want'[w]
      BY <1>2, <1>3, <1>4, <2>1, <2>2 DEF Frame, Others, W, Row
    <2> QED
      BY <1>2, <1>3, <1>4, <2>1, <2>2
  <1>5. CASE w # W(a)
    <2>1. site'[w] = site[w] /\ want'[w] = want[w] /\ Live(w)
      BY <1>5 DEF Frame, Live, NextLive
    <2>2. /\ Wanted(site[w]) = want[w]
          /\ \A b \in Callers : W(b) = w /\ calls[b].pc \in Writers => Wanted(Row(b)) = want[w]
      BY <1>3, <2>1 DEF AckInv
    <2>3. ASSUME NEW b \in Callers, calls'[b].site = w, calls'[b].pc \in Writers
          PROVE  Wanted(calls'[b].row) = want'[w]
      <3>1. b # a
        BY <1>5, <2>3 DEF Frame, W, Busy, At, Writers
      <3> QED
        BY <2>1, <2>2, <2>3, <3>1 DEF Frame, Others, W, Row
    <2> QED BY <2>1, <2>2, <2>3
  <1> QED BY <1>4, <1>5

\* Nothing of what is wanted changes.
LEMMA AckKeep ==
    ASSUME TypeInv, FreshInv, DomainsFixed, AckInv, NEW a \in Callers, Frame(a), TypeInv', want' = want,
           NextLive(W(a)) /\ Unsaved(Row(a).domain) /\ ~Moved => Live(W(a)) /\ Wanted(site'[W(a)]) = Wanted(site[W(a)]),
           calls'[a].pc \in Writers => calls[a].pc \in Writers /\ Wanted(calls'[a].row) = Wanted(Row(a))
    PROVE  AckInv'
  <1>1. ASSUME ~Moved', NextLive(W(a)), Unsaved(Row(a).domain)
        PROVE  /\ Wanted(site'[W(a)]) = want'[W(a)]
               /\ calls'[a].pc \in Writers => Wanted(calls'[a].row) = want'[W(a)]
               /\ \A b \in Callers \ {a} : W(b) = W(a) /\ calls[b].pc \in Writers => Wanted(Row(b)) = want'[W(a)]
    <2>1. ~Moved /\ Live(W(a)) /\ W(a) \in Sites /\ Busy(a)
      BY <1>1, MovedGrows DEF Frame
    <2>2. Row(a).domain = site[W(a)].domain
      BY <2>1 DEF DomainsFixed, Live, Stored
    <2>3. /\ Wanted(site[W(a)]) = want[W(a)]
          /\ \A b \in Callers : W(b) = W(a) /\ calls[b].pc \in Writers => Wanted(Row(b)) = want[W(a)]
      BY <1>1, <2>1, <2>2 DEF AckInv
    <2> QED
      BY <1>1, <2>1, <2>3
  <1> QED
    BY <1>1, AckStep

\* The row and what is wanted change together, and no other call has a copy.
LEMMA AckWrite ==
    ASSUME TypeInv, FreshInv, DomainsFixed, PairI, AckInv, NEW a \in Callers, Frame(a), TypeInv',
           \A v \in Sites \ {W(a)} : want'[v] = want[v],
           NextLive(W(a)) /\ Unsaved(Row(a).domain) /\ ~Moved => Wanted(site'[W(a)]) = want'[W(a)],
           calls'[a].pc \in Writers => Wanted(calls'[a].row) = want'[W(a)]
    PROVE  AckInv'
  <1>1. ASSUME ~Moved', Unsaved(Row(a).domain), NEW b \in Callers \ {a}, W(b) = W(a), calls[b].pc \in Writers
        PROVE  FALSE
    <2>1. ~Moved /\ Busy(a)
      BY <1>1, MovedGrows DEF Frame
    <2>2. calls[b].op \in Savers /\ Busy(b)
      BY <1>1, WritersSave
    <2>3. "Saves" \in excuse[Row(a).domain]
      BY <1>1, <2>1, <2>2, Meet
    <2> QED
      BY <1>1, <2>3 DEF Unsaved
  <1>2. ~Moved' => ~Moved
    BY MovedGrows DEF Frame
  <1> QED
    BY <1>1, <1>2, AckStep

(* Every step of a call keeps AckInv. *)
LEMMA StepAck ==
    ASSUME TypeInv, FreshInv, DomainsFixed, PairI, LiveI, AckInv, NEW a \in Callers, Step(a), Frame(a), TypeInv'
    PROVE  AckInv'
  <1> DEFINE Ends == Others(a) /\ calls'[a] = IdleCall
             Goes == Others(a) /\ Same(a) /\ Row(a)' = Row(a)
  <1>0. ASSUME NEW pc, Goto(a, pc)
        PROVE  Goes /\ calls'[a].pc = pc
    BY <1>0, GotoFacts
  <1>00. Done(a) => Ends
    BY DoneFacts
  <1> HIDE DEF Ends, Goes
  <1>1. ASSUME site' = site, want' = want,
               Ends \/ (Goes /\ (calls'[a].pc \in Writers => calls[a].pc \in Writers))
        PROVE  AckInv'
    <2>1. NextLive(W(a)) => Live(W(a))
      BY <1>1 DEF NextLive, Live
    <2>2. calls'[a].pc \in Writers => calls[a].pc \in Writers /\ Wanted(calls'[a].row) = Wanted(Row(a))
      BY <1>1, IdleFacts DEF Ends, Goes, Writers, Row
    <2> QED
      BY <1>1, <2>1, <2>2, AckKeep
  <1>2. CASE CreateKey(a)
    <2>1. site' = site /\ want' = want /\ calls'[a].pc \notin Writers
      BY <1>2, CreateKeyFacts DEF Writers
    <2> QED
      BY <2>1, AckKeep DEF NextLive, Live
  <1>3. CASE InsertWebsite(a)
    <2>1. W(a) \in Sites /\ Row(a) \in Website
      BY <1>3, InsertFacts, BusyRow
    <2>2. /\ \A v \in Sites \ {W(a)} : want'[v] = want[v]
          /\ want'[W(a)] = Wanted(Row(a)) /\ Wanted(site'[W(a)]) = Wanted(Row(a))
      BY <1>3, <2>1, InsertFacts DEF TypeInv, TypeOK, Wanted
    <2>3. calls'[a].pc \in Writers => Wanted(calls'[a].row) = Wanted(Row(a))
      BY <1>3, InsertFacts, IdleFacts DEF Wanted, Writers, Row
    <2> QED
      BY <2>2, <2>3, AckWrite
  <1>4. CASE SaveTarget(a)
    <2>1. calls[a].pc = "c_save" /\ W(a) \in Sites /\ Row(a) \in Website /\ CallTyped(calls[a]) /\ Busy(a)
      BY <1>4, BusyRow DEF SaveTarget, At
    <2>2. PICK r \in Website : r.target = Row(a).target /\ r.enabled = Row(a).enabled /\ Save(W(a), r)
      BY <1>4, SaveStepFacts
    <2>3. want' = [want EXCEPT ![W(a)] = Wanted(Row(a))] /\ calls'[a].pc = "c_zone" /\ Row(a)' = Row(a)
      BY <1>4, <2>1, SaveStepFacts
    <2>4. Unsaved(Row(a).domain) /\ ~Moved => Live(W(a))
      <3>1. calls[a].op \in Savers
        BY <2>1 DEF CallTyped, CreatePCs, Savers
      <3> QED
        BY <2>1, <3>1 DEF LiveI, LiveInv, Unsaved, PreInsert
    <2>5. Unsaved(Row(a).domain) /\ ~Moved => Wanted(site'[W(a)]) = Wanted(Row(a))
      BY <2>1, <2>2, <2>4, SaveTyped DEF Wanted
    <2>6. (\A v \in Sites \ {W(a)} : want'[v] = want[v]) /\ want'[W(a)] = Wanted(Row(a))
      BY <2>1, <2>3 DEF TypeInv, TypeOK
    <2> QED
      BY <2>3, <2>5, <2>6, AckWrite DEF Row
  <1>5. CASE LinkZone(a) \/ SaveBlock(a) \/ ValidateWebsite(a) \/ SaveValidated(a)
    <2>1. /\ calls[a].pc \in {"c_link", "b_save", "j_validate", "v_lookup", "v_tsave"} /\ want' = want
          /\ calls'[a] = IdleCall \/ (calls[a].pc = "c_link" /\ calls'[a].pc = "c_records")
      BY <1>5, SaveStepFacts DEF LinkZone, SaveBlock, ValidateWebsite, SaveValidated, At
    <2>2. W(a) \in Sites /\ Busy(a) /\ calls[a].op \in Savers /\ calls[a].pc \notin PreInsert \union {"d_records"} /\ calls[a].pc \in Writers
      BY <2>1, BusyRow, WritersSave DEF Writers
    <2>3. PICK r \in Website : r.target = Row(a).target /\ r.enabled = Row(a).enabled /\ Save(W(a), r)
      BY <1>5, SaveStepFacts
    <2>4. Unsaved(Row(a).domain) /\ ~Moved => Live(W(a))
      BY <2>2 DEF LiveI, LiveInv, Unsaved
    <2>5. ASSUME Unsaved(Row(a).domain), ~Moved
          PROVE  Live(W(a)) /\ Wanted(site'[W(a)]) = Wanted(site[W(a)])
      <3>1. Live(W(a)) /\ Row(a).domain = site[W(a)].domain
        BY <2>2, <2>4, <2>5 DEF DomainsFixed, Live, Stored
      <3>2. Wanted(Row(a)) = Wanted(site[W(a)])
        BY <2>2, <2>5, <3>1 DEF AckInv
      <3>3. Wanted(r) = Wanted(Row(a)) /\ site'[W(a)] = r
        BY <2>2, <2>3, <3>1, SaveTyped DEF Wanted
      <3> QED
        BY <3>1, <3>2, <3>3
    <2>6. calls'[a].pc \notin Writers
      BY <2>1, IdleFacts DEF Writers
    <2> QED
      BY <2>1, <2>5, <2>6, AckKeep
  <1>6. CASE AssignZone(a)
    <2>1. /\ site' = site /\ want' = want
          /\ calls'[a].pc \in Writers => calls[a].pc \in Writers /\ Wanted(calls'[a].row) = Wanted(Row(a))
      BY <1>6, AssignFacts DEF Writers, Wanted, Row, At
    <2> QED
      BY <2>1, AckKeep DEF NextLive, Live
  <1>7. CASE PrepareUpdate(a)
    <2>1. site' = site /\ want' = want /\ calls'[a].pc \notin Writers
      BY <1>7, PrepareFacts, IdleFacts DEF Writers
    <2> QED
      BY <2>1, AckKeep DEF NextLive, Live
  <1>8. CASE CommitUpdate(a)
    <2>1. /\ calls[a].pc = "u_commit" /\ Live(W(a)) /\ W(a) \in Sites
          /\ site'[W(a)] = Updated(a)
          /\ calls'[a].pc \notin Writers
          /\ \A w \in Sites \ {W(a)} : want'[w] = want[w]
          /\ want'[W(a)] = [target |-> IF calls[a].set = None THEN want[W(a)].target ELSE calls[a].set,
                            enabled |-> IF calls[a].req.kind = "dns" THEN calls[a].req.on ELSE want[W(a)].enabled]
      BY <1>8, CommitFacts, IdleFacts DEF Writers
    <2>2. /\ Updated(a).target = IF calls[a].set = None THEN site[W(a)].target ELSE calls[a].set
          /\ Updated(a).enabled = IF calls[a].req.kind = "dns" THEN calls[a].req.on ELSE site[W(a)].enabled
      BY <2>1, UpdatedTyped
    <2>3. ASSUME Unsaved(Row(a).domain), ~Moved
          PROVE  Wanted(Updated(a)) = want'[W(a)]
      <3>1. Row(a).domain = site[W(a)].domain
        BY <2>1, <2>3 DEF DomainsFixed, Live, Stored, Busy, At
      <3>2. Wanted(site[W(a)]) = want[W(a)]
        BY <2>1, <2>3, <3>1 DEF AckInv
      <3>3. want[W(a)].target = site[W(a)].target /\ want[W(a)].enabled = site[W(a)].enabled
        BY <3>2 DEF Wanted
      <3> QED
        BY <2>1, <2>2, <3>3 DEF Wanted
    <2> QED
      BY <2>1, <2>3, AckWrite
  <1>9. CASE AbortUpdate(a)
    <2>1. site' = site /\ want' = want /\ calls'[a].pc \notin Writers
      BY <1>9, AbortFacts, IdleFacts DEF Writers
    <2> QED
      BY <2>1, AckKeep DEF NextLive, Live
  <1>10. CASE StoreZone(a) \/ ResetStatus(a)
    <2>1. calls[a].pc \in {"on_link", "on_status", "off_status"} /\ want' = want
      BY <1>10 DEF StoreZone, ResetStatus, At
    <2>2. calls'[a].pc \notin Writers
      BY <1>10, <1>0, <1>00, IdleFacts DEF StoreZone, ResetStatus, Ends, Goes, Writers
    <2>3. W(a) \in Sites /\ Stored(W(a)) /\ site[W(a)] \in Website
      BY <2>1, BusyRow, LiveIsWebsite DEF FreshInv, PreInsert
    <2>4. PICK r : Columns(W(a), r) /\ r.target = site[W(a)].target /\ r.enabled = site[W(a)].enabled
      <3>1. CASE StoreZone(a)
        <4> DEFINE r == [site[W(a)] EXCEPT !.zone = Row(a).zone]
        <4>1. r.target = site[W(a)].target /\ r.enabled = site[W(a)].enabled
          BY <2>3 DEF Website, RowWith
        <4>2. Columns(W(a), r)
          BY <3>1 DEF StoreZone
        <4> QED BY <4>1, <4>2
      <3>2. CASE ResetStatus(a)
        <4> DEFINE r == [site[W(a)] EXCEPT !.status = "pending_validation",
                        !.zone = IF At(a, "off_status") /\ Row(a).zone = None THEN None ELSE @]
        <4>1. r.target = site[W(a)].target /\ r.enabled = site[W(a)].enabled
          BY <2>3 DEF Website, RowWith
        <4>2. Columns(W(a), r)
          BY <3>2 DEF ResetStatus
        <4> QED BY <4>1, <4>2
      <3> QED
        BY <1>10, <3>1, <3>2
    <2>5. NextLive(W(a)) => Live(W(a)) /\ Wanted(site'[W(a)]) = Wanted(site[W(a)])
      BY <2>3, <2>4 DEF Columns, TypeInv, TypeOK, Wanted, NextLive, Live
    <2> QED
      BY <2>1, <2>2, <2>5, AckKeep
  <1>11. CASE DeleteEmptyZone(a)
    <2>1. site' = site /\ want' = want /\ calls'[a].pc \notin Writers
      BY <1>11, DeleteEmptyFacts DEF Writers
    <2> QED
      BY <2>1, AckKeep DEF NextLive, Live
  <1>12. CASE DeleteRow(a)
    <2>1. calls[a].pc = "d_row" /\ want' = want
      BY <1>12 DEF DeleteRow, At
    <2>2. calls'[a].pc \notin Writers
      BY <1>12, <1>0, <1>00, IdleFacts DEF DeleteRow, Ends, Goes, Writers
    <2>3. W(a) \in Sites /\ Stored(W(a)) /\ site[W(a)] \in Website
      BY <2>1, BusyRow, LiveIsWebsite DEF FreshInv, PreInsert
    <2>4. NextLive(W(a)) => Live(W(a)) /\ site' = site
      BY <1>12, <2>3 DEF DeleteRow, TypeInv, TypeOK, NextLive, Live, Website, RowWith
    <2> QED
      BY <2>1, <2>2, <2>4, AckKeep
  <1>13. CASE CheckDomain(a) \/ LinkZoneFails(a) \/ CreateRecords(a) \/ GivesUp(a) \/ RefreshHNSDomains(a)
    BY <1>13, <1>0, <1>00, <1>1
    DEF CheckDomain, LinkZoneFails, CreateRecords, GivesUp, RefreshHNSDomains, stores, Writers
  <1>14. CASE HostRecords(a) \/ UnhostRecords(a) \/ CountWebsites(a) \/ ResetStatusFails(a) \/ DeleteRecords(a)
    BY <1>14, <1>0, <1>00, <1>1
    DEF HostRecords, UnhostRecords, CountWebsites, ResetStatusFails, DeleteRecords, stores, Writers
  <1>15. CASE RegenerateToken(a) \/ CreateHNSZone(a) \/ CreateHNSRecords(a) \/ InsertHNSDomain(a)
    BY <1>15, <1>0, <1>00, <1>1
    DEF RegenerateToken, CreateHNSZone, CreateHNSRecords, InsertHNSDomain, stores, Writers, At
  <1> QED
    BY <1>2, <1>3, <1>4, <1>5, <1>6, <1>7, <1>8, <1>9, <1>10, <1>11, <1>12, <1>13, <1>14, <1>15 DEF Step
-----------------------------------------------------------------------------
(* What is published.                                                       *)
Unraced(k) == excuse[k] \intersect {"Failed", "Overlap", "Retry"} = {}

(* PublishInv is kept by a step that publishes nothing, *)
LEMMA PublishKeep ==
    ASSUME PublishInv, Grows, UNCHANGED <<key, publishing, asked>>
    PROVE  PublishInv'
  BY DEF PublishInv, Grows

\* A publication that is alone is the one that was asked for.
LEMMA PublishStarts ==
    ASSUME TypeInv, PublishInv, Grows, NEW k \in Domains, NEW c, PublishCIDAsync(k, c),
           PublishRace(k) \subseteq excuse'[k] \/ "Retry" \in excuse'[k],
           \A l \in Domains \ {k} : key'[l] = key[l]
    PROVE  PublishInv'
  <1> SUFFICES ASSUME NEW l \in Domains, excuse'[l] \intersect {"Failed", "Overlap", "Retry"} = {}
               PROVE  /\ \A p \in publishing' : p.key = l => p.cid = asked'[l]
                      /\ (\A p \in publishing' : p.key # l) /\ asked'[l] # None => key'[l] = asked'[l]
    BY DEF PublishInv
  <1>1. Unraced(l)
    BY DEF Grows, Unraced
  <1>2. /\ \A p \in publishing : p.key = l => p.cid = asked[l]
        /\ (\A p \in publishing : p.key # l) /\ asked[l] # None => key[l] = asked[l]
    BY <1>1 DEF PublishInv, Unraced
  <1>3. publishing' = publishing \union {[key |-> k, cid |-> c]} /\ asked' = [asked EXCEPT ![k] = c]
    BY DEF PublishCIDAsync
  <1>4. CASE l = k
    <2>1. \A p \in publishing : p.key # k
      BY <1>4 DEF PublishRace
    <2>2. asked'[k] = c
      BY <1>3 DEF TypeInv, TypeOK
    <2> DEFINE n == [key |-> k, cid |-> c]
    <2>3. n \in publishing' /\ n.key = k /\ n.cid = c /\ \A p \in publishing' : p \in publishing \/ p = n
      BY <1>3
    <2> HIDE DEF n
    <2> QED
      BY <1>4, <2>1, <2>2, <2>3
  <1>5. CASE l # k
    <2>1. asked'[l] = asked[l] /\ key'[l] = key[l]
      BY <1>3, <1>5 DEF TypeInv, TypeOK
    <2> QED
      BY <1>2, <1>3, <1>5, <2>1
  <1> QED BY <1>4, <1>5

(* by a key that is made sure of, *)
LEMMA PublishEnsure ==
    ASSUME TypeInv, PublishInv, NEW k \in Domains, NEW c, EnsureIPNSKey(k, c)
    PROVE  PublishInv'
  <1>1. Grows /\ PublishRace(k) \subseteq excuse'[k] /\ PublishCIDAsync(k, c)
    BY BlameGrows DEF EnsureIPNSKey
  <1>2. \A l \in Domains \ {k} : key'[l] = key[l]
    BY DEF EnsureIPNSKey, TypeInv, TypeOK
  <1> QED
    BY <1>1, <1>2, PublishStarts

(* and by an update's side effects. *)
LEMMA PublishEffects ==
    ASSUME TypeInv, PublishInv, NEW a \in Callers, NEW new \in Website, NEW blame,
           SideEffects(a, new, blame), key' = key
    PROVE  PublishInv'
  <1>1. Grows
    BY EffectsGrow
  <1>2. CASE calls[a].changed = "yes" /\ new.key # None
    <2>1. new.key \in Domains
      BY <1>2 DEF Website, RowWith
    <2>2. PublishRace(new.key) \subseteq excuse'[new.key]
      <3>1. PICK ds, what : Blame(ds, what) /\ new.key \in ds /\ PublishRace(new.key) \subseteq what
        <4> DEFINE race == IF calls[a].changed = "yes" /\ new.key # None THEN PublishRace(new.key) ELSE {}
                   hosted == calls[a].changed # "no" /\ new.enabled /\ new.zone # None
                   ipns == Row(a).target.type = "ipns" /\ new.target.type = "ipns"
                   what(written) == blame \union race \union {x \in {"Switched"} : hosted /\ ipns}
                        \union {x \in {"Moved"} : new.domain # Row(a).domain} \union {x \in {"Failed"} : hosted /\ ~ipns /\ ~written}
        <4>1. PICK written \in BOOLEAN : Blame({new.domain, Row(a).domain, new.key}, what(written))
          BY DEF SideEffects
        <4>2. PublishRace(new.key) \subseteq what(written)
          BY <1>2
        <4> HIDE DEF what
        <4> QED BY <4>1, <4>2
      <3> QED
        BY <2>1, <3>1, BlameGrows
    <2>3. PublishCIDAsync(new.key, new.target.hash)
      BY <1>2 DEF SideEffects
    <2> QED
      BY <1>1, <2>1, <2>2, <2>3, PublishStarts
  <1>3. CASE ~(calls[a].changed = "yes" /\ new.key # None)
    BY <1>1, <1>3, PublishKeep DEF SideEffects
  <1> QED BY <1>2, <1>3

(* Every step of a call keeps PublishInv. *)
LEMMA StepPublish ==
    ASSUME TypeInv, PublishInv, NEW a \in Callers, Step(a), Frame(a)
    PROVE  PublishInv'
  <1>1. Grows
    BY DEF Frame
  <1>2. CASE CreateKey(a)
    <2>1. Row(a).domain \in Domains
      BY <1>2, CreateKeyFacts, CallFields DEF Busy, At
    <2> QED
      BY <1>2, <2>1, PublishEnsure DEF CreateKey
  <1>3. CASE PrepareUpdate(a)
    <2>1. CASE UNCHANGED <<key, publishing, asked>>
      BY <1>1, <2>1, PublishKeep
    <2>2. CASE Live(W(a)) /\ \E c \in Contents : EnsureIPNSKey(site[W(a)].domain, c)
      <3>1. W(a) \in Sites
        BY DEF Frame
      <3>2. site[W(a)].domain \in Domains
        BY <2>2, <3>1, LiveIsWebsite DEF Live, Stored, Website, RowWith
      <3> QED
        BY <2>2, <3>2, PublishEnsure
    <2> QED
      BY <1>3, <2>1, <2>2, PrepareFacts
  <1>4. CASE CommitUpdate(a)
    <2>1. calls[a].pc = "u_commit" /\ Live(W(a)) /\ SideEffects(a, Updated(a), {}) /\ key' = key
      BY <1>4, CommitFacts
    <2>2. Updated(a) \in Website
      BY <2>1, UpdatedTyped
    <2> QED
      BY <2>1, <2>2, PublishEffects
  <1>5. CASE AbortUpdate(a)
    <2>1. calls[a].pc = "u_commit" /\ key' = key
      BY <1>5, AbortFacts
    <2>2. CASE Live(W(a)) /\ SideEffects(a, Updated(a), {"Retry"})
      <3>1. Updated(a) \in Website
        BY <2>1, <2>2, UpdatedTyped
      <3> QED
        BY <2>1, <2>2, <3>1, PublishEffects
    <2>3. CASE UNCHANGED <<rec, publishing, asked>>
      BY <1>1, <2>1, <2>3, PublishKeep
    <2> QED
      BY <1>5, <2>2, <2>3 DEF AbortUpdate
  <1>6. CASE ~(CreateKey(a) \/ PrepareUpdate(a) \/ CommitUpdate(a) \/ AbortUpdate(a))
    <2>1. UNCHANGED <<key, publishing, asked>>
      BY <1>6 DEF Step, CheckDomain, InsertWebsite, SaveTarget, AssignZone, LinkZone, LinkZoneFails, CreateRecords, GivesUp,
         RefreshHNSDomains, StoreZone, HostRecords, UnhostRecords, CountWebsites, DeleteEmptyZone, ResetStatus, ResetStatusFails,
         DeleteRow, DeleteRecords, SaveBlock, ValidateWebsite, RegenerateToken, SaveValidated, CreateHNSZone, CreateHNSRecords,
         InsertHNSDomain, stores
    <2> QED
      BY <1>1, <2>1, PublishKeep
  <1> QED
    BY <1>2, <1>3, <1>4, <1>5, <1>6

(* So does a publication that ends. *)
LEMMA EndPublish ==
    ASSUME TypeInv, PublishInv, NEW p \in publishing, Publish(p)
    PROVE  PublishInv'
  <1>1. p.key \in Domains
    BY DEF TypeInv, TypeOK
  <1>2. Grows
    BY BlameGrows, SameGrows DEF Publish
  <1> SUFFICES ASSUME NEW l \in Domains, excuse'[l] \intersect {"Failed", "Overlap", "Retry"} = {}
               PROVE  /\ \A q \in publishing' : q.key = l => q.cid = asked'[l]
                      /\ (\A q \in publishing' : q.key # l) /\ asked'[l] # None => key'[l] = asked'[l]
    BY DEF PublishInv
  <1>3. Unraced(l)
    BY <1>2 DEF Grows, Unraced
  <1>4. /\ \A q \in publishing : q.key = l => q.cid = asked[l]
        /\ (\A q \in publishing : q.key # l) /\ asked[l] # None => key[l] = asked[l]
    BY <1>3 DEF PublishInv, Unraced
  <1>5. publishing' = publishing \ {p} /\ asked' = asked
    BY DEF Publish
  <1>6. CASE l # p.key
    <2>1. key'[l] = key[l]
      BY <1>6 DEF Publish, TypeInv, TypeOK
    <2> QED BY <1>4, <1>5, <1>6, <2>1
  <1>7. CASE l = p.key
    <2>1. key' = [key EXCEPT ![p.key] = p.cid]
      <3>1. ASSUME Blame({p.key}, {"Failed"})
            PROVE  FALSE
        BY <1>1, <1>7, <3>1, BlameGrows
      <3> QED BY <3>1 DEF Publish
    <2>2. key'[l] = asked[l]
      BY <1>1, <1>4, <1>7, <2>1 DEF TypeInv, TypeOK
    <2> QED BY <1>4, <1>5, <2>2
  <1> QED BY <1>6, <1>7
-----------------------------------------------------------------------------
(* What a call knows of its website.                                        *)

NextVacant(d) == \A w \in Sites : ~(NextLive(w) /\ site'[w].domain = d)

(* What another call knows is not disturbed, unless both are excused. *)
LEMMA KnowOther ==
    ASSUME TypeInv, FreshInv, DomainsFixed, PairI, KnowInv, NEW a \in Callers, Frame(a), ~Moved',
           NEW b \in Callers, b # a, Busy(b), excuse'[Row(b).domain] = {}
    PROVE  /\ Knows(calls[b], site'[W(b)]) /\ (calls[b].pc \in {"c_insert", "d_records"} => NextVacant(Row(b).domain))
           /\ site'[W(b)] = site[W(b)] /\ W(b) # W(a) /\ Row(b).domain # Row(a).domain
           /\ Clean(Row(b).domain)
  <1>1. ~Moved /\ Busy(a) /\ W(b) \in Sites /\ Row(b).domain \in Domains
    BY MovedGrows, CallFields DEF Frame
  <1>2. Clean(Row(b).domain)
    BY <1>1 DEF Frame, Grows, Clean
  <1>3. CallKnows(b)
    BY <1>1, <1>2 DEF KnowInv
  <1>4. W(b) # W(a) /\ Row(b).domain # Row(a).domain
    BY <1>1, <1>2, Meet DEF Clean
  <1>5. site'[W(b)] = site[W(b)]
    BY <1>1, <1>4 DEF Frame
  <1>6. Vacant(Row(b).domain) => NextVacant(Row(b).domain)
    BY <1>4 DEF Vacant, NextVacant, Frame, Live, NextLive, NextStored
  <1> QED
    BY <1>2, <1>3, <1>4, <1>5, <1>6 DEF CallKnows

\* A call that is alone on its domain, before and after a step.
Alone(a) ==
    /\ ~Moved /\ Clean(Row(a).domain) /\ excuse'[Row(a).domain] = {}
    /\ CallKnows(a)
    /\ Stored(W(a)) => site[W(a)].domain = Row(a).domain
    /\ calls[a].pc \notin PreInsert \union {"d_records"} => Live(W(a))

(* A call whose domain has no excuse is alone on it. *)
LEMMA AloneFacts ==
    ASSUME TypeInv, FreshInv, DomainsFixed, LiveI, KnowInv, NEW a \in Callers, Frame(a), ~Moved', excuse'[Row(a).domain] = {}
    PROVE  Alone(a)
  <1>1. ~Moved /\ Busy(a) /\ Row(a).domain \in Domains
    BY MovedGrows, CallFields DEF Frame
  <1>2. Clean(Row(a).domain)
    BY <1>1 DEF Frame, Grows, Clean
  <1>3. CallKnows(a)
    BY <1>1, <1>2 DEF KnowInv
  <1>4. Stored(W(a)) => site[W(a)].domain = Row(a).domain
    BY <1>1 DEF DomainsFixed
  <1>5. calls[a].pc \notin PreInsert \union {"d_records"} => Live(W(a))
    BY <1>1, <1>2 DEF LiveI, LiveInv, Clean
  <1> QED
    BY <1>1, <1>2, <1>3, <1>4, <1>5 DEF Alone

(* KnowInv is kept when the call that steps still knows its website. *)
LEMMA KnowStep ==
    ASSUME TypeInv, FreshInv, DomainsFixed, PairI, LiveI, KnowInv, NEW a \in Callers, Frame(a), TypeInv',
           Busy(a)' /\ Alone(a) =>
               /\ Knows(calls'[a], site'[W(a)])
               /\ calls'[a].pc \in {"c_insert", "d_records"} => NextVacant(Row(a).domain)
    PROVE  KnowInv'
  <1> SUFFICES ASSUME ~Moved', NEW b \in Callers, Busy(b)', excuse'[calls'[b].row.domain] = {}
               PROVE  /\ Knows(calls'[b], site'[calls'[b].site])
                      /\ calls'[b].pc \in {"c_insert", "d_records"} => NextVacant(calls'[b].row.domain)
    BY DEF KnowInv, CallKnows, Clean, Knows, Vacant, NextVacant, NextLive, Live, W, Row
  <1>1. CASE b = a
    <2>1. W(a)' = W(a) /\ Row(a)'.domain = Row(a).domain
      BY <1>1 DEF Frame
    <2>2. Alone(a)
      BY <1>1, <2>1, AloneFacts DEF Row
    <2> QED
      BY <1>1, <2>1, <2>2 DEF W, Row
  <1>2. CASE b # a
    <2>1. calls'[b] = calls[b] /\ Busy(b)
      BY <1>2 DEF Frame, Others, Busy, At
    <2>2. /\ Knows(calls[b], site'[W(b)]) /\ (calls[b].pc \in {"c_insert", "d_records"} => NextVacant(Row(b).domain))
      BY <1>2, <2>1, KnowOther DEF Row
    <2> QED
      BY <2>1, <2>2 DEF W, Row
  <1> QED BY <1>1, <1>2

\* The steps that change neither the website nor what the call has of it.
LEMMA KnowGoes ==
    ASSUME NEW a \in Callers, CallKnows(a), site' = site, Same(a),
           Row(a)'.target = Row(a).target, Row(a)'.enabled = Row(a).enabled, Row(a)'.zone = Row(a).zone,
           calls'[a].pc \notin Unread => calls[a].pc \notin Unread,
           calls'[a].pc \in Unzoned => calls[a].pc \in Unzoned,
           calls'[a].pc \in Zoned => calls[a].pc \in Zoned,
           calls'[a].pc \notin {"c_save", "u_commit", "d_records"},
           calls'[a].pc = "u_tx" => calls[a].set = None
    PROVE  Knows(calls'[a], site'[W(a)])
  BY DEF CallKnows, Knows, Same, Row, W

(* A retried transaction excuses its domain. *)
LEMMA AbortBlames ==
    ASSUME TypeInv, NEW a \in Callers, AbortUpdate(a)
    PROVE  "Retry" \in excuse'[Row(a).domain]
  <1>1. Row(a).domain \in Domains
    BY BusyRow DEF AbortUpdate, At
  <1>2. CASE Blame({Row(a).domain}, {"Retry"})
    BY <1>1, <1>2, BlameGrows
  <1>3. CASE SideEffects(a, Updated(a), {"Retry"})
    <2>1. PICK ds, what : Blame(ds, what) /\ Row(a).domain \in ds /\ "Retry" \in what
      <3> DEFINE new == Updated(a)
                 race == IF calls[a].changed = "yes" /\ new.key # None THEN PublishRace(new.key) ELSE {}
                 hosted == calls[a].changed # "no" /\ new.enabled /\ new.zone # None
                 ipns == Row(a).target.type = "ipns" /\ new.target.type = "ipns"
                 what(written) == {"Retry"} \union race \union {x \in {"Switched"} : hosted /\ ipns}
                      \union {x \in {"Moved"} : new.domain # Row(a).domain} \union {x \in {"Failed"} : hosted /\ ~ipns /\ ~written}
      <3>1. PICK written \in BOOLEAN : Blame({new.domain, Row(a).domain, new.key}, what(written))
        BY <1>3 DEF SideEffects
      <3>2. "Retry" \in what(written)
        OBVIOUS
      <3> HIDE DEF what, new
      <3> QED BY <3>1, <3>2
    <2> QED
      BY <1>1, <2>1, BlameGrows
  <1> QED
    BY <1>2, <1>3 DEF AbortUpdate

(* Every step of a call keeps KnowInv. *)
LEMMA StepKnow ==
    ASSUME TypeInv, FreshInv, DomainsFixed, PairI, LiveI, KnowInv, DnsInv, NEW a \in Callers, Step(a), Frame(a), TypeInv'
    PROVE  KnowInv'
  <1> DEFINE Goal == /\ Knows(calls'[a], site'[W(a)])
                     /\ calls'[a].pc \in {"c_insert", "d_records"} => NextVacant(Row(a).domain)
             Ends == Others(a) /\ calls'[a] = IdleCall
             Goes == Others(a) /\ Same(a) /\ Row(a)' = Row(a)
  <1> SUFFICES ASSUME Busy(a)', Alone(a)
               PROVE  Goal
    BY KnowStep
  <1>0. ASSUME NEW pc, Goto(a, pc)
        PROVE  Goes /\ calls'[a].pc = pc
    BY <1>0, GotoFacts
  <1>1. ~Done(a) /\ calls'[a] # IdleCall
    BY DoneFacts, IdleFacts
  <1>2. CallKnows(a) /\ Clean(Row(a).domain) /\ excuse'[Row(a).domain] = {} /\ W(a) \in Sites
    BY DEF Alone, Frame
  <1> HIDE DEF Goal, Ends, Goes
  <1> USE DEF PreInsert, Unread, Unzoned, Zoned, ValidatePCs
  <1>3. ASSUME site' = site, Goes, calls'[a].pc \notin {"c_save", "u_commit", "d_records", "u_tx", "c_insert"},
               calls'[a].pc \notin Unread => calls[a].pc \notin Unread,
               calls'[a].pc \in Unzoned => calls[a].pc \in Unzoned,
               calls'[a].pc \in Zoned => calls[a].pc \in Zoned
        PROVE  Goal
    <2>1. Knows(calls'[a], site'[W(a)])
      BY <1>2, <1>3, KnowGoes DEF Goes
    <2> QED
      BY <1>3, <2>1 DEF Goal
  <1>4. CASE CreateKey(a)
    BY <1>2, <1>4, CreateKeyFacts DEF Goal, CallKnows, Knows, Row, At
  <1>5. CASE CheckDomain(a)
    <2>1. Goes /\ calls'[a].pc = "c_insert" /\ site' = site
      BY <1>5, <1>0, <1>1 DEF CheckDomain, stores
    <2>2. Vacant(Row(a).domain)
      BY <1>5, <1>1 DEF CheckDomain, Vacant
    <2> QED
      BY <2>1, <2>2 DEF Goal, Knows, Vacant, NextVacant, Live, NextLive
  <1>6. CASE InsertWebsite(a)
    BY <1>1, <1>6, InsertFacts DEF Goal, Knows, Row
  <1>7. CASE SaveTarget(a)
    <2>1. calls[a].pc = "c_save" /\ Live(W(a)) /\ Row(a).zone = None
      BY <1>7, BusyRow DEF SaveTarget, At, Alone, CallTyped, Row
    <2>2. PICK r \in Website : /\ r.target = Row(a).target /\ r.zone = Row(a).zone /\ r.enabled = Row(a).enabled
                               /\ Save(W(a), r)
      BY <1>7, SaveStepFacts
    <2>3. site'[W(a)] = r /\ calls'[a].pc = "c_zone" /\ Row(a)' = Row(a)
      BY <1>2, <1>7, <2>1, <2>2, SaveTyped, SaveStepFacts
    <2> QED
      BY <2>1, <2>2, <2>3 DEF Goal, Knows, Row
  <1>8. CASE LinkZone(a)
    <2>1. calls[a].pc = "c_link" /\ Live(W(a))
      BY <1>8 DEF LinkZone, At, Alone
    <2>2. PICK r \in Website : /\ r.target = Row(a).target /\ r.zone = Row(a).zone /\ r.enabled = Row(a).enabled
                               /\ Save(W(a), r)
      BY <1>8, SaveStepFacts
    <2>3. site'[W(a)] = r /\ calls'[a].pc = "c_records" /\ Row(a)' = Row(a)
      BY <1>2, <1>8, <2>1, <2>2, SaveTyped, SaveStepFacts, IdleFacts
    <2> QED
      BY <2>1, <2>2, <2>3 DEF Goal, Knows, Row
  <1>9. CASE AssignZone(a)
    BY <1>2, <1>9, AssignFacts DEF Goal, CallKnows, Knows, Row, At
  <1>10. CASE PrepareUpdate(a)
    <2>1. /\ calls[a].pc = "u_tx" /\ site' = site /\ calls'[a].pc = "u_commit" /\ Row(a)' = site[W(a)]
          /\ calls'[a].changed = "no" => calls'[a].set \in {calls[a].set, site[W(a)].target}
          /\ calls'[a].changed # "no" => calls'[a].set \in Target
      BY <1>1, <1>10, PrepareFacts
    <2>2. calls[a].set = None
      BY <1>2, <2>1 DEF CallKnows, Knows
    <2>3. None \notin Target
      BY WebsitesAssumption DEF Target, Domains
    <2> QED
      BY <2>1, <2>2, <2>3 DEF Goal, Knows, Row
  <1>11. CASE CommitUpdate(a)
    <2>1. /\ site'[W(a)] = Updated(a) /\ Row(a)' = Updated(a)
          /\ calls'[a].pc \in {"u_hns", "off_records", "on_zone", "on_records"}
          /\ calls'[a].pc = "on_zone" => Updated(a).zone = None
      BY <1>1, <1>11, CommitFacts
    <2> QED
      BY <2>1 DEF Goal, Knows, Row
  <1>12. CASE AbortUpdate(a)
    <2>1. calls[a].pc = "u_commit" /\ calls'[a].pc = "u_tx"
      BY <1>1, <1>12, AbortFacts
    <2>2. Row(a).domain \in Domains
      BY <2>1, BusyRow
    <2>3. "Retry" \in excuse'[Row(a).domain]
      BY <1>12, AbortBlames
    <2> QED
      BY <1>2, <2>3
  <1>13. CASE StoreZone(a)
    <2>1. calls[a].pc = "on_link" /\ Live(W(a)) /\ Goes /\ calls'[a].pc = "on_records"
      BY <1>0, <1>13 DEF StoreZone, At, Alone
    <2>2. site[W(a)] \in Website
      BY <1>2, <2>1, LiveIsWebsite DEF Live, Stored
    <2>3. site'[W(a)] = [site[W(a)] EXCEPT !.zone = Row(a).zone]
      BY <1>2, <1>13, <2>1 DEF StoreZone, Columns, TypeInv, TypeOK
    <2>4. site'[W(a)].zone = Row(a).zone /\ site'[W(a)].target = site[W(a)].target /\ site'[W(a)].enabled = site[W(a)].enabled
      BY <2>2, <2>3 DEF Website, RowWith
    <2> QED
      BY <1>2, <2>1, <2>4 DEF Goal, CallKnows, Knows, Row, Goes
  <1>14. CASE DeleteEmptyZone(a)
    BY <1>2, <1>14, DeleteEmptyFacts DEF Goal, CallKnows, Knows, Row
  <1>15. CASE DeleteRow(a)
    <2>1. calls[a].pc = "d_row" /\ Live(W(a)) /\ Goes /\ calls'[a].pc = "d_records"
      BY <1>0, <1>1, <1>15 DEF DeleteRow, At, Alone
    <2>2. Row(a).domain \in Domains /\ site[W(a)].domain = Row(a).domain
      BY <2>1, BusyRow DEF Alone, Live, Stored
    <2>3. site[W(a)] \in Website
      BY <1>2, <2>1, LiveIsWebsite DEF Live, Stored
    <2>4. ~NextLive(W(a)) /\ \A v \in Sites \ {W(a)} : site'[v] = site[v]
      BY <1>2, <1>15, <2>1, <2>3 DEF DeleteRow, NextLive, TypeInv, TypeOK, Website, RowWith
    <2>5. \A v \in Sites : Live(v) /\ site[v].domain = Row(a).domain => v = W(a)
      BY <1>2, <2>1, <2>2 DEF DnsInv, Unique
    <2>6. NextVacant(Row(a).domain)
      BY <2>4, <2>5 DEF NextVacant, Live, NextLive
    <2> QED
      BY <2>1, <2>6 DEF Goal, Knows
  <1>16. CASE ResetStatus(a) \/ ResetStatusFails(a) \/ LinkZoneFails(a) \/ CreateRecords(a) \/ GivesUp(a) \/ RefreshHNSDomains(a)
              \/ DeleteRecords(a) \/ SaveBlock(a) \/ ValidateWebsite(a) \/ SaveValidated(a) \/ InsertHNSDomain(a)
    BY <1>1, <1>16 DEF ResetStatus, ResetStatusFails, LinkZoneFails, CreateRecords, GivesUp, RefreshHNSDomains, DeleteRecords,
       SaveBlock, ValidateWebsite, SaveValidated, InsertHNSDomain
  <1>17. CASE HostRecords(a)
    BY <1>0, <1>1, <1>3, <1>17 DEF HostRecords, At
  <1>18. CASE UnhostRecords(a)
    BY <1>0, <1>3, <1>18 DEF UnhostRecords, At
  <1>19. CASE CountWebsites(a)
    BY <1>0, <1>3, <1>19 DEF CountWebsites, stores, At
  <1>20. CASE RegenerateToken(a)
    BY <1>0, <1>3, <1>20 DEF RegenerateToken, At
  <1>21. CASE CreateHNSZone(a) \/ CreateHNSRecords(a)
    BY <1>0, <1>3, <1>21 DEF CreateHNSZone, CreateHNSRecords, At
  <1> QED
    BY <1>4, <1>5, <1>6, <1>7, <1>8, <1>9, <1>10, <1>11, <1>12, <1>13, <1>14, <1>15, <1>16, <1>17, <1>18, <1>19, <1>20, <1>21 DEF Step

-----------------------------------------------------------------------------
(* A zone that is about to be deleted.                                      *)

\* Only the count of the websites in a zone lets a call delete it.
LEMMA CountSets ==
    ASSUME TypeInv, NEW a \in Callers, Step(a), calls'[a].pc = "off_zone"
    PROVE  CountWebsites(a)
  <1> DEFINE pc == calls'[a].pc
  <1>0. ASSUME NEW p, Goto(a, p)
        PROVE  pc = p
    BY <1>0, GotoFacts
  <1>00. ASSUME Done(a)
         PROVE  pc = "idle"
    BY <1>00, DoneFacts DEF IdleCall
  <1> HIDE DEF pc
  <1>1. CASE CreateKey(a) \/ InsertWebsite(a) \/ AssignZone(a) \/ PrepareUpdate(a) \/ CommitUpdate(a) \/ AbortUpdate(a) \/ DeleteEmptyZone(a)
    BY <1>1, CreateKeyFacts, InsertFacts, AssignFacts, PrepareFacts, CommitFacts, AbortFacts, DeleteEmptyFacts, IdleFacts
  <1>2. CASE CheckDomain(a) \/ SaveTarget(a) \/ LinkZone(a) \/ LinkZoneFails(a) \/ CreateRecords(a) \/ GivesUp(a) \/ RefreshHNSDomains(a)
              \/ StoreZone(a) \/ HostRecords(a) \/ UnhostRecords(a) \/ ResetStatus(a) \/ ResetStatusFails(a)
    BY <1>2, <1>0, <1>00 DEF pc, CheckDomain, SaveTarget, LinkZone, LinkZoneFails, CreateRecords, GivesUp, RefreshHNSDomains,
       StoreZone, HostRecords, UnhostRecords, ResetStatus, ResetStatusFails
  <1>3. CASE DeleteRow(a) \/ DeleteRecords(a) \/ SaveBlock(a) \/ ValidateWebsite(a) \/ RegenerateToken(a) \/ SaveValidated(a)
              \/ CreateHNSZone(a) \/ CreateHNSRecords(a) \/ InsertHNSDomain(a)
    BY <1>3, <1>0, <1>00 DEF pc, DeleteRow, DeleteRecords, SaveBlock, ValidateWebsite, RegenerateToken, SaveValidated,
       CreateHNSZone, CreateHNSRecords, InsertHNSDomain
  <1> QED
    BY <1>1, <1>2, <1>3 DEF Step

(* Every step of a call keeps CountInv: the zone it found empty stays empty, or is excused. *)
LEMMA StepCount ==
    ASSUME TypeInv, PairI, CountInv, NEW a \in Callers, Step(a), Frame(a), TypeInv'
    PROVE  CountInv'
  <1> SUFFICES ASSUME ~Moved', NEW b \in Callers, calls'[b].pc = "off_zone", NEW v \in Sites \ {calls'[b].site},
                      NextLive(v), excuse'[site'[v].domain] = {}
               PROVE  site'[v].zone # calls'[b].row.zone
    BY DEF CountInv, At, Live, NextLive, Clean, W, Row
  <1>1. ~Moved
    BY MovedGrows DEF Frame
  <1>2. CASE b = a
    <2>1. CountWebsites(a)
      BY <1>2, CountSets
    <2>2. Goto(a, "off_zone") \/ Goto(a, "off_status")
      BY <2>1 DEF CountWebsites
    <2>3. calls'[a].site = W(a) /\ calls'[a].row = Row(a) /\ ~Goto(a, "off_status")
      BY <1>2, <2>2, GotoFacts DEF Same, W, Row
    <2> QED
      BY <1>2, <2>1, <2>3 DEF CountWebsites, stores, Live, NextLive
  <1>3. CASE b # a
    <2>1. calls'[b] = calls[b] /\ calls[b].pc = "off_zone" /\ Busy(b)
      BY <1>3 DEF Frame, Others, Busy, At
    <2>2. Unhosts(b)
      BY <2>1 DEF TypeInv, CallTyped, OffPCs, Unhosts
    <2>3. site'[v].domain \in Domains
      BY LiveIsWebsite DEF TypeInv, TypeOK, NextLive, NoSite, Website, RowWith
    <2>4. v # W(a)
      <3> SUFFICES ASSUME v = W(a) PROVE FALSE
        OBVIOUS
      <3>1. site'[v].domain = Row(a).domain /\ Busy(a)
        BY DEF Frame, NextStored, NextLive
      <3>2. "Overlap" \in excuse[Row(a).domain]
        BY <1>1, <1>3, <2>1, <2>2, <3>1 DEF PairI, PairInv, Touches, Busy
      <3> QED
        BY <2>3, <3>1, <3>2 DEF Frame, Grows
    <2>5. site'[v] = site[v] /\ Live(v) /\ Clean(site[v].domain)
      BY <2>3, <2>4 DEF Frame, Grows, Clean, Live, NextLive
    <2> QED
      BY <1>1, <2>1, <2>5 DEF CountInv, At, W, Row
  <1> QED BY <1>2, <1>3

-----------------------------------------------------------------------------
(* What a call that is alone writes into its website's row.                 *)

(* A call that is alone saves a row that agrees with its copy. *)
LEMMA SavesOwn ==
    ASSUME TypeInv, NEW a \in Callers, Alone(a),
           SaveTarget(a) \/ LinkZone(a) \/ SaveBlock(a) \/ ValidateWebsite(a) \/ SaveValidated(a)
    PROVE  /\ Live(W(a)) /\ NextLive(W(a))
           /\ site'[W(a)].target = Row(a).target /\ site'[W(a)].zone = Row(a).zone /\ site'[W(a)].enabled = Row(a).enabled
           /\ site'[W(a)].domain = Row(a).domain
  <1>1. calls[a].pc \in {"c_save", "c_link", "b_save", "j_validate", "v_lookup", "v_tsave"} /\ W(a) \in Sites
    BY SaveStepFacts, BusyRow
  <1>2. PICK r \in Website : /\ r.state = "live" /\ r.domain = Row(a).domain /\ r.target = Row(a).target
                             /\ r.zone = Row(a).zone /\ r.enabled = Row(a).enabled
                             /\ Save(W(a), r)
    BY SaveStepFacts
  <1>3. Live(W(a))
    BY <1>1 DEF Alone, PreInsert
  <1> QED
    BY <1>1, <1>2, <1>3, SaveTyped DEF NextLive

(* Its column updates change the zone only, when it is the zone that is saved. *)
LEMMA ColumnsOwn ==
    ASSUME TypeInv, NEW a \in Callers, Alone(a), StoreZone(a) \/ ResetStatus(a)
    PROVE  /\ calls[a].pc \in {"on_link", "on_status", "off_status"}
           /\ Live(W(a)) /\ NextLive(W(a))
           /\ site'[W(a)].target = site[W(a)].target /\ site'[W(a)].enabled = site[W(a)].enabled
           /\ site'[W(a)].domain = site[W(a)].domain
           /\ site'[W(a)].zone = IF calls[a].pc = "on_link" THEN Row(a).zone
                                 ELSE IF calls[a].pc = "off_status" /\ Row(a).zone = None THEN None ELSE site[W(a)].zone
  <1>1. calls[a].pc \in {"on_link", "on_status", "off_status"} /\ W(a) \in Sites
    BY BusyRow DEF StoreZone, ResetStatus, At
  <1>2. Live(W(a))
    BY <1>1 DEF Alone, PreInsert
  <1>3. site[W(a)] \in Website
    BY <1>1, <1>2, LiveIsWebsite DEF Live, Stored
  <1> DEFINE zone1 == Row(a).zone
             zone2 == IF calls[a].pc = "off_status" /\ Row(a).zone = None THEN None ELSE site[W(a)].zone
  <1>4. CASE StoreZone(a)
    <2>1. site'[W(a)] = [site[W(a)] EXCEPT !.zone = zone1] /\ calls[a].pc = "on_link"
      BY <1>1, <1>2, <1>4 DEF StoreZone, Columns, TypeInv, TypeOK, At
    <2> QED
      BY <1>1, <1>2, <1>3, <2>1 DEF Website, RowWith, Live, NextLive
  <1>5. CASE ResetStatus(a)
    <2>1. site'[W(a)] = [site[W(a)] EXCEPT !.status = "pending_validation",
                            !.zone = IF At(a, "off_status") /\ Row(a).zone = None THEN None ELSE @]
          /\ calls[a].pc # "on_link"
      BY <1>1, <1>2, <1>5 DEF ResetStatus, Columns, TypeInv, TypeOK, At
    <2>2. site'[W(a)] = [site[W(a)] EXCEPT !.status = "pending_validation", !.zone = zone2]
      BY <1>3, <2>1 DEF Website, RowWith, At
    <2> HIDE DEF zone2
    <2>3. /\ site'[W(a)].target = site[W(a)].target /\ site'[W(a)].enabled = site[W(a)].enabled
          /\ site'[W(a)].domain = site[W(a)].domain /\ site'[W(a)].state = site[W(a)].state /\ site'[W(a)].zone = zone2
      BY <1>3, <2>2 DEF Website, RowWith
    <2> QED
      BY <1>1, <1>2, <2>1, <2>3 DEF Live, NextLive, zone2
  <1> QED BY <1>4, <1>5

(* Its commit changes the target or the flag only as asked. *)
LEMMA CommitOwn ==
    ASSUME TypeInv, NEW a \in Callers, Alone(a), CommitUpdate(a), Frame(a)
    PROVE  LET s == site'[W(a)]
               q == calls[a].req
           IN /\ NextLive(W(a)) /\ s.domain = Row(a).domain
              /\ s.zone = site[W(a)].zone
              /\ s.enabled = IF q.kind = "dns" THEN q.on ELSE site[W(a)].enabled
              /\ s.target = IF calls[a].set = None THEN site[W(a)].target ELSE calls[a].set
              /\ calls[a].changed = "no" => s.target = site[W(a)].target
              /\ calls[a].changed # "no" => calls'[a].pc = "u_hns" /\ W(a)' = W(a) /\ s.enabled = site[W(a)].enabled
  <1>1. /\ calls[a].pc = "u_commit" /\ Live(W(a)) /\ W(a) \in Sites /\ site'[W(a)] = Updated(a)
        /\ calls[a].changed # "no" => calls'[a].pc = "u_hns" /\ W(a)' = W(a)
    BY CommitFacts, IdleFacts DEF Same
  <1>2. /\ Updated(a).state = "live"
        /\ Updated(a).domain = IF calls[a].req.kind = "domain" THEN calls[a].req.domain ELSE site[W(a)].domain
        /\ Updated(a).target = IF calls[a].set = None THEN site[W(a)].target ELSE calls[a].set
        /\ Updated(a).enabled = IF calls[a].req.kind = "dns" THEN calls[a].req.on ELSE site[W(a)].enabled
        /\ Updated(a).zone = site[W(a)].zone
    BY <1>1, UpdatedTyped
  <1>3. calls[a].changed # "no" => calls[a].req.kind # "dns"
    BY <1>1 DEF TypeInv, CallTyped
  <1>4. Updated(a).domain = Row(a).domain
    <2>1. Row(a).domain \in Domains
      BY <1>1, BusyRow
    <2>2. ~Moved'
      BY <2>1 DEF Moved, Alone
    <2> QED
      BY <1>1, <1>2, <2>2 DEF Frame, NextStored
  <1>5. calls[a].changed = "no" => calls[a].set \in {None, site[W(a)].target}
    BY <1>1 DEF Alone, CallKnows, Knows, Unread, PreInsert
  <1> QED
    BY <1>1, <1>2, <1>3, <1>4, <1>5 DEF NextLive

-----------------------------------------------------------------------------
(* The HNS name.                                                            *)

\* A call, but the ones that write the HNS name, leaves it alone.
HnsWrites(a) == RefreshHNSDomains(a) \/ DeleteRow(a) \/ CreateHNSZone(a) \/ CreateHNSRecords(a) \/ InsertHNSDomain(a)

(* Only these steps change the HNS name. *)
LEMMA HnsUnwritten ==
    ASSUME NEW a \in Callers, Step(a), ~HnsWrites(a)
    PROVE  hns' = hns
  <1>1. CASE CreateKey(a) \/ CheckDomain(a) \/ InsertWebsite(a) \/ SaveTarget(a) \/ AssignZone(a) \/ LinkZone(a)
              \/ LinkZoneFails(a) \/ CreateRecords(a) \/ GivesUp(a) \/ PrepareUpdate(a) \/ CommitUpdate(a) \/ AbortUpdate(a)
    BY <1>1 DEF CreateKey, CheckDomain, InsertWebsite, SaveTarget, AssignZone, LinkZone, LinkZoneFails, CreateRecords, GivesUp,
       PrepareUpdate, CommitUpdate, AbortUpdate, stores
  <1>2. CASE StoreZone(a) \/ HostRecords(a) \/ UnhostRecords(a) \/ CountWebsites(a) \/ DeleteEmptyZone(a) \/ ResetStatus(a)
              \/ ResetStatusFails(a) \/ DeleteRecords(a) \/ SaveBlock(a) \/ ValidateWebsite(a) \/ RegenerateToken(a) \/ SaveValidated(a)
    BY <1>2 DEF StoreZone, HostRecords, UnhostRecords, CountWebsites, DeleteEmptyZone, ResetStatus, ResetStatusFails, DeleteRecords,
       SaveBlock, ValidateWebsite, RegenerateToken, SaveValidated, stores
  <1> QED
    BY <1>1, <1>2 DEF Step, HnsWrites

\* A call for an HNS name takes the three steps of CreateHNSDomain.
LEMMA HnsSteps ==
    ASSUME TypeInv, NEW a \in Callers, Step(a), Frame(a), TypeInv', calls'[a].pc \in HnsPCs
    PROVE  /\ calls[a].pc \in HnsPCs /\ Row(a)' = Row(a)
           /\ calls'[a].pc = "h_insert" <=> CreateHNSRecords(a)
  <1>1. Busy(a)' /\ calls'[a].op = calls[a].op /\ Busy(a)
    BY DEF Frame, Busy, At, HnsPCs
  <1>2. calls'[a].op = "hns"
    BY <1>1 DEF TypeInv, CallTyped, Busy, At
  <1>3. calls[a].pc \in HnsPCs
    BY <1>1, <1>2 DEF TypeInv, CallTyped, Busy, At
  <1>4. ~Done(a)
    BY <1>1, DoneFacts, IdleFacts
  <1>5. CreateHNSZone(a) \/ CreateHNSRecords(a)
    <2> USE DEF HnsPCs, At
    <2>1. ~(CreateKey(a) \/ InsertWebsite(a) \/ AssignZone(a) \/ PrepareUpdate(a) \/ CommitUpdate(a) \/ AbortUpdate(a) \/ DeleteEmptyZone(a))
      BY <1>3, InsertFacts, CreateKeyFacts, AssignFacts, PrepareFacts, CommitFacts, AbortFacts, DeleteEmptyFacts
    <2>2. ~(SaveTarget(a) \/ LinkZone(a) \/ SaveBlock(a) \/ ValidateWebsite(a) \/ SaveValidated(a))
      BY <1>3, SaveStepFacts
    <2>3. ~(CheckDomain(a) \/ LinkZoneFails(a) \/ CreateRecords(a) \/ GivesUp(a) \/ RefreshHNSDomains(a) \/ StoreZone(a) \/ HostRecords(a)
            \/ UnhostRecords(a) \/ CountWebsites(a))
      BY <1>3, <1>4 DEF CheckDomain, LinkZoneFails, CreateRecords, GivesUp, RefreshHNSDomains, StoreZone, HostRecords,
         UnhostRecords, CountWebsites
    <2>4. ~(ResetStatus(a) \/ ResetStatusFails(a) \/ DeleteRow(a) \/ DeleteRecords(a) \/ RegenerateToken(a) \/ InsertHNSDomain(a))
      BY <1>3, <1>4 DEF ResetStatus, ResetStatusFails, DeleteRow, DeleteRecords, RegenerateToken, InsertHNSDomain
    <2> QED
      BY <2>1, <2>2, <2>3, <2>4 DEF Step
  <1>6. CASE CreateHNSZone(a)
    BY <1>3, <1>6, GotoFacts DEF CreateHNSZone, CreateHNSRecords, At
  <1>7. CASE CreateHNSRecords(a)
    BY <1>3, <1>7, GotoFacts DEF CreateHNSRecords
  <1> QED BY <1>5, <1>6, <1>7

\* Two calls for the HNS name know that they overlap.
LEMMA HnsMeet ==
    ASSUME TypeInv, PairI, ~Moved, NEW a \in Callers, NEW b \in Callers, a # b, calls[a].pc \in HnsPCs, calls[b].pc \in HnsPCs
    PROVE  "Overlap" \in excuse[Row(a).domain] /\ "Overlap" \in excuse[Row(b).domain]
  <1>1. calls[a].op = "hns" /\ calls[b].op = "hns" /\ Busy(a) /\ Busy(b)
    BY DEF TypeInv, CallTyped, Busy, At, HnsPCs
  <1>2. Row(a).domain \in Touches(a) /\ Row(b).domain \in Touches(b)
    BY <1>1 DEF Touches, Busy
  <1> QED
    BY <1>1, <1>2 DEF PairI, PairInv

(* A step that leaves the HNS name with its website keeps the excuses that go with it. *)
LEMMA HnsSame ==
    ASSUME TypeInv, FreshInv, DomainsFixed, PairI, HnsInv, NEW a \in Callers, Frame(a), TypeInv', ~Moved', hns'.site = hns.site
    PROVE  /\ HnsStored' /\ HnsNew'
           /\ hns.site # None /\ ~Clean(site[hns.site].domain) => excuse'[site'[hns.site].domain] # {}
           /\ hns.site # None /\ excuse'[site'[hns.site].domain] = {} => Clean(site[hns.site].domain)
  <1>1. ~Moved /\ HnsStored /\ HnsNew
    BY MovedGrows DEF Frame, HnsInv
  <1>2. HnsStored'
    BY <1>1 DEF HnsStored, Frame, Stored, NextStored
  <1>3. ASSUME NEW b \in Callers, calls'[b].pc \in CreatePCs, hns'.site = calls'[b].site
        PROVE  excuse'[calls'[b].row.domain] # {}
    <2>1. Busy(b)' /\ calls'[b].op = "create"
      BY <1>3 DEF TypeInv, CallTyped, Busy, At, CreatePCs, PreInsert
    <2>2. Busy(b) /\ calls[b].pc \in CreatePCs /\ W(b) = hns.site /\ calls'[b].row.domain = Row(b).domain
      <3>1. Busy(b) /\ calls[b].op = "create" /\ W(b) = hns.site /\ calls'[b].row.domain = Row(b).domain
        BY <1>3, <2>1 DEF Frame, Others, Busy, At, W, Row
      <3> QED
        BY <3>1 DEF TypeInv, CallTyped, Busy, At
    <2>3. Row(b).domain \in Domains /\ ~Clean(Row(b).domain)
      BY <1>1, <2>2, CallFields DEF HnsNew
    <2> QED
      BY <2>2, <2>3 DEF Frame, Grows, Clean
  <1>4. HnsNew'
    BY <1>3 DEF HnsNew, Clean, W, Row
  <1>5. ASSUME hns.site # None
        PROVE  site'[hns.site].domain = site[hns.site].domain /\ site[hns.site].domain \in Domains
    <2>1. hns.site \in Sites /\ Stored(hns.site)
      BY <1>1, <1>5 DEF HnsStored
    <2>2. site[hns.site].domain \in Domains
      BY <2>1, LiveIsWebsite DEF Website, RowWith
    <2>3. CASE hns.site = W(a)
      BY <1>1, <2>1, <2>2, <2>3 DEF Frame, DomainsFixed
    <2>4. CASE hns.site # W(a)
      BY <2>1, <2>2, <2>4 DEF Frame
    <2> QED BY <2>3, <2>4
  <1> QED
    BY <1>2, <1>4, <1>5 DEF Clean, Frame, Grows

\* The name of another call's website.
LEMMA HnsElsewhere ==
    ASSUME TypeInv, FreshInv, DomainsFixed, PairI, HnsInv, NEW a \in Callers, Frame(a), TypeInv', ~Moved', hns' = hns,
           hns.site # W(a)
    PROVE  HnsCurrent'
  <1>1. ~Moved /\ HnsCurrent /\ HnsStored
    BY MovedGrows DEF Frame, HnsInv
  <1> SUFFICES ASSUME hns.site # None, excuse'[site'[hns.site].domain] = {}
               PROVE  /\ NextLive(hns.site)
                      /\ \/ hns.rec = site'[hns.site].target /\ hns.cid = site'[hns.site].target
                         \/ \E b \in Callers : calls'[b].pc = "u_hns" /\ calls'[b].site = hns.site
    BY DEF HnsCurrent, Clean, Live, NextLive, At, W
  <1>2. Clean(site[hns.site].domain) /\ hns.site \in Sites
    BY <1>1, HnsSame DEF HnsStored
  <1>3. site'[hns.site] = site[hns.site]
    BY <1>2 DEF Frame
  <1>4. ASSUME NEW b \in Callers, At(b, "u_hns"), W(b) = hns.site
        PROVE  calls'[b].pc = "u_hns" /\ calls'[b].site = hns.site
    BY <1>4 DEF Frame, Others, At, W
  <1> QED
    BY <1>1, <1>2, <1>3, <1>4 DEF HnsCurrent, Live, NextLive

\* The calls for an HNS name.
LEMMA HnsCallsKept ==
    ASSUME TypeInv, FreshInv, DomainsFixed, PairI, HnsInv, NEW a \in Callers, Frame(a), TypeInv', ~Moved', hns'.site = hns.site,
           calls'[a].pc \in HnsPCs => /\ calls[a].pc \in HnsPCs /\ Row(a)' = Row(a)
                                      /\ calls'[a].pc = "h_insert" => hns'.rec = Row(a).target,
           hns'.rec = hns.rec \/ hns.site # None \/ calls[a].pc \in HnsPCs
    PROVE  HnsCalls'
  <1>1. ~Moved /\ HnsCalls
    BY MovedGrows DEF Frame, HnsInv
  <1> SUFFICES ASSUME NEW b \in Callers, calls'[b].pc \in HnsPCs
               PROVE  /\ hns.site # None => excuse'[site'[hns.site].domain] # {} /\ excuse'[calls'[b].row.domain] # {}
                      /\ calls'[b].pc = "h_insert" /\ excuse'[calls'[b].row.domain] = {} => hns'.rec = calls'[b].row.target
    BY DEF HnsCalls, Clean, At, Row
  <1>2. calls[b].pc \in HnsPCs /\ calls'[b].row = Row(b)
    BY DEF Frame, Others, Row
  <1>3. Busy(b) /\ Row(b).domain \in Domains
    BY <1>2, BusyRow DEF HnsPCs
  <1>4. hns.site # None => excuse'[site'[hns.site].domain] # {} /\ excuse'[calls'[b].row.domain] # {}
    BY <1>1, <1>2, <1>3, HnsSame DEF HnsCalls, Frame, Grows, Clean
  <1>5. ASSUME calls'[b].pc = "h_insert", excuse'[calls'[b].row.domain] = {}
        PROVE  hns'.rec = calls'[b].row.target
    <2>1. CASE b = a
      BY <1>5, <2>1 DEF Row
    <2>2. CASE b # a
      <3>1. At(b, "h_insert") /\ Clean(Row(b).domain)
        BY <1>2, <1>3, <1>5, <2>2 DEF Frame, Others, Grows, Clean, At
      <3>2. hns.rec = Row(b).target
        BY <1>1, <1>2, <3>1 DEF HnsCalls
      <3>3. CASE hns'.rec = hns.rec
        BY <1>2, <3>2, <3>3
      <3>4. CASE hns.site # None
        BY <1>4, <1>5, <3>4
      <3>5. CASE calls[a].pc \in HnsPCs
        BY <1>1, <1>2, <1>3, <2>2, <3>1, <3>5, HnsMeet DEF Clean
      <3> QED BY <3>3, <3>4, <3>5
    <2> QED BY <2>1, <2>2
  <1> QED BY <1>4, <1>5

(* A call that has to refresh the HNS name can do nothing else. *)
LEMMA RefreshOnly ==
    ASSUME TypeInv, NEW a \in Callers, Step(a), At(a, "u_hns")
    PROVE  RefreshHNSDomains(a)
  <1> USE DEF At
  <1>1. ~(CreateKey(a) \/ InsertWebsite(a) \/ AssignZone(a) \/ PrepareUpdate(a) \/ CommitUpdate(a) \/ AbortUpdate(a) \/ DeleteEmptyZone(a))
    BY InsertFacts, CreateKeyFacts, AssignFacts, PrepareFacts, CommitFacts, AbortFacts, DeleteEmptyFacts
  <1>2. ~(SaveTarget(a) \/ LinkZone(a) \/ SaveBlock(a) \/ ValidateWebsite(a) \/ SaveValidated(a))
    BY SaveStepFacts
  <1>3. ~(CheckDomain(a) \/ LinkZoneFails(a) \/ CreateRecords(a) \/ GivesUp(a) \/ StoreZone(a) \/ HostRecords(a)
          \/ UnhostRecords(a) \/ CountWebsites(a))
    BY DEF CheckDomain, LinkZoneFails, CreateRecords, GivesUp, StoreZone, HostRecords, UnhostRecords, CountWebsites
  <1>4. ~(ResetStatus(a) \/ ResetStatusFails(a) \/ DeleteRow(a) \/ DeleteRecords(a) \/ RegenerateToken(a)
          \/ CreateHNSZone(a) \/ CreateHNSRecords(a) \/ InsertHNSDomain(a))
    BY DEF ResetStatus, ResetStatusFails, DeleteRow, DeleteRecords, RegenerateToken, CreateHNSZone, CreateHNSRecords, InsertHNSDomain
  <1> QED
    BY <1>1, <1>2, <1>3, <1>4 DEF Step

\* A call that is alone keeps the target, or is about to refresh the HNS name.
LEMMA TargetKept ==
    ASSUME TypeInv, NEW a \in Callers, Step(a), Frame(a), Alone(a), calls[a].pc \notin CreatePCs \union {"d_row"}, Live(W(a))
    PROVE  \/ site'[W(a)].target = site[W(a)].target
           \/ calls'[a].pc = "u_hns" /\ W(a)' = W(a)
  <1>1. CASE CreateKey(a) \/ InsertWebsite(a) \/ AssignZone(a) \/ PrepareUpdate(a) \/ AbortUpdate(a) \/ DeleteEmptyZone(a)
    BY <1>1, CreateKeyFacts, InsertFacts, AssignFacts, PrepareFacts, AbortFacts, DeleteEmptyFacts DEF CreatePCs, PreInsert
  <1>2. CASE SaveTarget(a) \/ LinkZone(a) \/ SaveBlock(a) \/ ValidateWebsite(a) \/ SaveValidated(a)
    <2>1. site'[W(a)].target = Row(a).target
      BY <1>2, SavesOwn
    <2>2. calls[a].pc \notin Unread
      BY <1>2, SaveStepFacts DEF CreatePCs, Unread, PreInsert
    <2> QED
      BY <2>1, <2>2 DEF Alone, CallKnows, Knows, Row
  <1>3. CASE StoreZone(a) \/ ResetStatus(a)
    BY <1>3, ColumnsOwn
  <1>4. CASE CommitUpdate(a)
    BY <1>4, CommitOwn
  <1>5. CASE CheckDomain(a) \/ LinkZoneFails(a) \/ CreateRecords(a) \/ GivesUp(a) \/ RefreshHNSDomains(a) \/ HostRecords(a)
              \/ UnhostRecords(a) \/ CountWebsites(a)
    BY <1>5 DEF CheckDomain, LinkZoneFails, CreateRecords, GivesUp, RefreshHNSDomains, HostRecords, UnhostRecords, CountWebsites, stores
  <1>6. CASE ResetStatusFails(a) \/ DeleteRow(a) \/ DeleteRecords(a) \/ RegenerateToken(a)
              \/ CreateHNSZone(a) \/ CreateHNSRecords(a) \/ InsertHNSDomain(a)
    BY <1>6 DEF ResetStatusFails, DeleteRow, DeleteRecords, RegenerateToken, CreateHNSZone, CreateHNSRecords, InsertHNSDomain, stores, At
  <1> QED
    BY <1>1, <1>2, <1>3, <1>4, <1>5, <1>6 DEF Step

\* The name of the call's own website.
LEMMA HnsOwn ==
    ASSUME TypeInv, FreshInv, DomainsFixed, PairI, LiveI, KnowInv, HnsInv, NEW a \in Callers, Step(a), Frame(a), TypeInv', ~Moved',
           hns' = hns, hns.site = W(a), ~RefreshHNSDomains(a), calls[a].pc # "d_row"
    PROVE  HnsCurrent'
  <1>1. ~Moved /\ HnsStored /\ HnsCurrent /\ HnsNew /\ W(a) \in Sites /\ Busy(a)
    BY MovedGrows DEF Frame, HnsInv
  <1>2. hns.site # None /\ Stored(W(a)) /\ NextStored(W(a)) /\ site'[W(a)].domain = Row(a).domain
    BY <1>1, WebsitesAssumption DEF HnsStored, Frame
  <1> SUFFICES ASSUME excuse'[Row(a).domain] = {}
               PROVE  /\ NextLive(W(a))
                      /\ \/ hns.rec = site'[W(a)].target /\ hns.cid = site'[W(a)].target
                         \/ \E b \in Callers : calls'[b].pc = "u_hns" /\ calls'[b].site = W(a)
    BY <1>2 DEF HnsCurrent, Clean, Live, NextLive, At, W
  <1>3. Alone(a)
    BY AloneFacts
  <1>4. Clean(site[W(a)].domain) /\ Clean(Row(a).domain)
    BY <1>2, <1>3 DEF Alone
  <1>5. calls[a].pc \notin CreatePCs
    BY <1>1, <1>4 DEF HnsNew
  <1>6. Live(W(a)) /\ NextLive(W(a))
    BY <1>1, <1>2, <1>4 DEF HnsCurrent, Frame
  <1>7. hns.rec = site[W(a)].target /\ hns.cid = site[W(a)].target
    <2> SUFFICES ASSUME NEW b \in Callers, At(b, "u_hns"), W(b) = W(a)
                 PROVE  FALSE
      BY <1>1, <1>2, <1>4 DEF HnsCurrent
    <2>1. CASE b = a
      BY <2>1, RefreshOnly
    <2>2. CASE b # a
      BY <1>1, <1>4, <2>2, Meet DEF Busy, At, Clean
    <2> QED BY <2>1, <2>2
  <1>8. \/ site'[W(a)].target = site[W(a)].target
        \/ calls'[a].pc = "u_hns" /\ W(a)' = W(a)
    BY <1>3, <1>5, <1>6, TargetKept
  <1> QED
    BY <1>6, <1>7, <1>8 DEF W

(* Every step of a call keeps HnsInv. *)
LEMMA StepHns ==
    ASSUME TypeInv, FreshInv, DomainsFixed, PairI, LiveI, KnowInv, HnsInv, NEW a \in Callers, Step(a), Frame(a), TypeInv'
    PROVE  HnsInv'
  <1>1. Busy(a) /\ W(a) \in Sites /\ W(a) # None
    BY WebsitesAssumption DEF Frame
  <1>2. calls[a].pc # "d_row" \/ DeleteRow(a) \/ GivesUp(a)
    <2> SUFFICES ASSUME calls[a].pc = "d_row" PROVE DeleteRow(a) \/ GivesUp(a)
      OBVIOUS
    <2>1. ~(CreateKey(a) \/ InsertWebsite(a) \/ AssignZone(a) \/ PrepareUpdate(a) \/ CommitUpdate(a) \/ AbortUpdate(a) \/ DeleteEmptyZone(a))
      BY InsertFacts, CreateKeyFacts, AssignFacts, PrepareFacts, CommitFacts, AbortFacts, DeleteEmptyFacts
    <2>2. ~(SaveTarget(a) \/ LinkZone(a) \/ SaveBlock(a) \/ ValidateWebsite(a) \/ SaveValidated(a))
      BY SaveStepFacts
    <2>3. ~(CheckDomain(a) \/ LinkZoneFails(a) \/ CreateRecords(a) \/ RefreshHNSDomains(a) \/ StoreZone(a) \/ HostRecords(a)
            \/ UnhostRecords(a) \/ CountWebsites(a))
      BY DEF CheckDomain, LinkZoneFails, CreateRecords, RefreshHNSDomains, StoreZone, HostRecords, UnhostRecords, CountWebsites, At
    <2>4. ~(ResetStatus(a) \/ ResetStatusFails(a) \/ DeleteRecords(a) \/ RegenerateToken(a)
            \/ CreateHNSZone(a) \/ CreateHNSRecords(a) \/ InsertHNSDomain(a))
      BY DEF ResetStatus, ResetStatusFails, DeleteRecords, RegenerateToken, CreateHNSZone, CreateHNSRecords, InsertHNSDomain, At
    <2> QED
      BY <2>1, <2>2, <2>3, <2>4 DEF Step
  <1>3. hns \in [zone : BOOLEAN, rec : Target \union {None}, site : Sites \union {None}, cid : Target \union {None}]
    BY DEF TypeInv, TypeOK
  <1>4. calls'[a].pc \in HnsPCs => /\ calls[a].pc \in HnsPCs /\ Row(a)' = Row(a)
                                   /\ calls'[a].pc = "h_insert" <=> CreateHNSRecords(a)
    BY HnsSteps
  <1>5. HnsStored /\ (Moved \/ (HnsCurrent /\ HnsCalls /\ HnsNew))
    BY DEF HnsInv
  <1>6. CASE Moved'
    <2>1. HnsStored'
      <3>1. hns'.site \in {hns.site, None} \/ (hns'.site = W(a) /\ InsertHNSDomain(a))
        <4>1. CASE ~HnsWrites(a)
          BY <4>1, HnsUnwritten
        <4>2. CASE HnsWrites(a)
          BY <1>3, <4>2 DEF HnsWrites, RefreshHNSDomains, DeleteRow, CreateHNSZone, CreateHNSRecords, InsertHNSDomain
        <4> QED BY <4>1, <4>2
      <3>2. InsertHNSDomain(a) => Stored(W(a))
        BY DEF InsertHNSDomain, At, FreshInv, PreInsert, Busy
      <3> QED
        BY <1>1, <1>5, <3>1, <3>2 DEF HnsStored, Frame, Stored, NextStored
    <2> QED
      BY <1>6, <2>1 DEF HnsInv
  <1> SUFFICES ASSUME ~Moved'
               PROVE  HnsInv'
    BY <1>6
  <1>7. ~Moved /\ HnsCurrent /\ HnsCalls /\ HnsNew
    BY <1>5, MovedGrows DEF Frame
  <1>8. ASSUME hns'.site = hns.site, HnsCurrent', HnsCalls'
        PROVE  HnsInv'
    BY <1>8, HnsSame DEF HnsInv
  <1>9. ASSUME hns' = hns, ~RefreshHNSDomains(a), ~CreateHNSRecords(a), calls[a].pc = "d_row" => hns.site # W(a) \/ ~Live(W(a)) \/ GivesUp(a)
        PROVE  HnsInv'
    <2>1. HnsCalls'
      BY <1>4, <1>9, HnsCallsKept
    <2>2. HnsCurrent'
      <3>1. CASE hns.site # W(a)
        BY <1>9, <3>1, HnsElsewhere
      <3>2. CASE hns.site = W(a) /\ calls[a].pc # "d_row"
        BY <1>9, <3>2, HnsOwn
      <3>3. CASE hns.site = W(a) /\ calls[a].pc = "d_row"
        <4>1. NextStored(W(a)) /\ site'[W(a)].domain = Row(a).domain
          BY <1>1, <1>5, <3>3 DEF Frame, HnsStored
        <4> SUFFICES ASSUME excuse'[Row(a).domain] = {}
                     PROVE  /\ NextLive(W(a))
                            /\ \/ hns.rec = site'[W(a)].target /\ hns.cid = site'[W(a)].target
                               \/ \E b \in Callers : calls'[b].pc = "u_hns" /\ calls'[b].site = W(a)
          BY <1>9, <3>3, <4>1 DEF HnsCurrent, Clean, Live, NextLive, At, W
        <4>2. Alone(a)
          BY AloneFacts
        <4>3. Live(W(a)) /\ Clean(site[W(a)].domain)
          BY <1>5, <1>1, <3>3, <4>2 DEF Alone, PreInsert, HnsStored
        <4>4. GivesUp(a)
          BY <1>9, <3>3, <4>3
        <4>5. site' = site
          BY <4>4 DEF GivesUp, stores
        <4>6. ASSUME NEW b \in Callers, At(b, "u_hns"), W(b) = W(a)
              PROVE  calls'[b].pc = "u_hns" /\ calls'[b].site = W(a)
          BY <3>3, <4>6 DEF Frame, Others, At, W
        <4> QED
          BY <1>1, <1>7, <3>3, <4>3, <4>5, <4>6 DEF HnsCurrent, Live, NextLive
      <3> QED BY <3>1, <3>2, <3>3
    <2> QED
      BY <1>8, <1>9, <2>1, <2>2
  <1>10. CASE ~HnsWrites(a)
    BY <1>2, <1>9, <1>10, HnsUnwritten DEF HnsWrites
  <1>11. CASE RefreshHNSDomains(a)
    <2>1. calls[a].pc = "u_hns" /\ site' = site /\ Done(a) /\ Row(a).domain \in Domains
      BY <1>11, BusyRow DEF RefreshHNSDomains, At
    <2>2. \/ hns.site # W(a) /\ hns' = hns
          \/ hns.site = W(a) /\ hns'.site = W(a) /\ hns'.rec = Row(a).target /\ hns'.cid = Row(a).target
          \/ hns.site = W(a) /\ hns'.site = W(a) /\ Blame({Row(a).domain}, {"Failed"})
      BY <1>3, <1>11 DEF RefreshHNSDomains
    <2>3. hns'.site = hns.site /\ (hns'.rec = hns.rec \/ hns.site # None) /\ calls'[a].pc \notin HnsPCs
      BY <1>1, <2>1, <2>2, DoneFacts, IdleFacts DEF HnsPCs
    <2>4. HnsCalls'
      BY <2>3, HnsCallsKept
    <2>5. HnsCurrent'
      <3>1. CASE hns.site # W(a)
        BY <2>2, <3>1, HnsElsewhere
      <3>2. CASE hns.site = W(a)
        <4>1. NextStored(W(a)) /\ site'[W(a)].domain = Row(a).domain
          BY <1>1, <1>5, <3>2 DEF Frame, HnsStored
        <4> SUFFICES ASSUME excuse'[Row(a).domain] = {}
                     PROVE  NextLive(W(a)) /\ hns'.rec = site'[W(a)].target /\ hns'.cid = site'[W(a)].target
          BY <2>2, <3>2, <4>1 DEF HnsCurrent, Clean, Live, NextLive
        <4>2. Alone(a)
          BY AloneFacts
        <4>3. Live(W(a)) /\ site[W(a)].target = Row(a).target
          BY <2>1, <4>2 DEF Alone, PreInsert, CallKnows, Knows, Unread, Row
        <4>4. ~Blame({Row(a).domain}, {"Failed"})
          BY <2>1, BlameGrows
        <4> QED
          BY <2>1, <2>2, <3>2, <4>3, <4>4 DEF Live, NextLive
      <3> QED BY <3>1, <3>2
    <2> QED
      BY <1>8, <2>3, <2>4, <2>5
  <1>12. CASE DeleteRow(a)
    <2>1. calls[a].pc = "d_row" /\ calls'[a].pc \notin HnsPCs
      BY <1>12, GotoFacts, DoneFacts, IdleFacts DEF DeleteRow, At, HnsPCs
    <2>2. CASE ~(Live(W(a)) /\ hns.site = W(a))
      <3>1. hns' = hns /\ ~RefreshHNSDomains(a) /\ ~CreateHNSRecords(a)
        BY <1>12, <2>1, <2>2 DEF DeleteRow, RefreshHNSDomains, CreateHNSRecords, At
      <3> QED
        BY <1>9, <2>2, <3>1
    <2>3. CASE Live(W(a)) /\ hns.site = W(a)
      <3>1. hns'.site = None /\ hns'.rec = hns.rec
        BY <1>3, <1>12, <2>3 DEF DeleteRow
      <3>2. ASSUME NEW b \in Callers, calls'[b].pc = "h_insert", excuse'[calls'[b].row.domain] = {}
            PROVE  hns.rec = calls'[b].row.target
        <4>1. calls'[b] = calls[b] /\ At(b, "h_insert") /\ Row(b).domain \in Domains
          BY <2>1, <3>2, BusyRow DEF Frame, Others, HnsPCs, At
        <4>2. Clean(Row(b).domain)
          BY <3>2, <4>1 DEF Frame, Grows, Clean, Row
        <4> QED
          BY <1>7, <4>1, <4>2 DEF HnsCalls, HnsPCs, At, Row
      <3>3. ASSUME NEW b \in Callers, calls'[b].pc \in CreatePCs
            PROVE  calls'[b].site # None
        BY <3>3, WebsitesAssumption DEF TypeInv, CallTyped, CreatePCs, PreInsert
      <3> QED
        BY <3>1, <3>2, <3>3 DEF HnsInv, HnsStored, HnsCurrent, HnsCalls, HnsNew, Clean, At, W, Row
    <2> QED BY <2>2, <2>3
  <1>13. CASE CreateHNSZone(a) \/ CreateHNSRecords(a)
    <2>1. /\ calls[a].pc \in HnsPCs /\ site' = site /\ hns'.site = hns.site /\ hns'.cid = hns.cid
          /\ CreateHNSZone(a) => hns'.rec = hns.rec
          /\ CreateHNSRecords(a) => hns'.rec = Row(a).target
      BY <1>3, <1>13 DEF CreateHNSZone, CreateHNSRecords, At, HnsPCs
    <2>2. HnsCalls'
      BY <1>4, <2>1, HnsCallsKept
    <2>3. hns.site # None => excuse'[site'[hns.site].domain] # {}
      BY <1>7, <2>1, HnsSame DEF HnsCalls
    <2>4. HnsCurrent'
      BY <2>1, <2>3 DEF HnsCurrent, Clean
    <2> QED
      BY <1>8, <2>1, <2>2, <2>4
  <1>14. CASE InsertHNSDomain(a)
    <2>1. calls[a].pc = "h_insert" /\ site' = site /\ calls'[a] = IdleCall /\ Row(a).domain \in Domains
      BY <1>14, DoneFacts, BusyRow DEF InsertHNSDomain, At
    <2>2. CASE hns.site # None
      <3>1. hns' = hns /\ ~RefreshHNSDomains(a) /\ ~CreateHNSRecords(a)
        BY <1>14, <2>1, <2>2 DEF InsertHNSDomain, RefreshHNSDomains, CreateHNSRecords, At
      <3> QED
        BY <1>9, <2>1, <3>1
    <2>3. CASE hns.site = None
      <3>1. hns'.site = W(a) /\ hns'.cid = Row(a).target /\ hns'.rec = hns.rec
        BY <1>3, <1>14, <2>3 DEF InsertHNSDomain
      <3>2. Stored(W(a)) /\ NextStored(W(a)) /\ site'[W(a)].domain = Row(a).domain
        BY <1>1, <2>1 DEF FreshInv, PreInsert, Frame
      <3>3. HnsStored'
        BY <1>1, <3>1, <3>2 DEF HnsStored, Stored, NextStored
      <3>4. HnsCurrent'
        <4> SUFFICES ASSUME excuse'[Row(a).domain] = {}
                     PROVE  NextLive(W(a)) /\ hns'.rec = site'[W(a)].target /\ hns'.cid = site'[W(a)].target
          BY <3>1, <3>2 DEF HnsCurrent, Clean, Live, NextLive
        <4>1. Alone(a)
          BY AloneFacts
        <4>2. Live(W(a)) /\ site[W(a)].target = Row(a).target /\ Clean(Row(a).domain)
          BY <2>1, <4>1 DEF Alone, PreInsert, CallKnows, Knows, Unread, Row
        <4>3. hns.rec = Row(a).target
          BY <1>7, <2>1, <4>2 DEF HnsCalls, HnsPCs, At
        <4> QED
          BY <2>1, <3>1, <4>2, <4>3 DEF Live, NextLive
      <3>5. ASSUME NEW b \in Callers, calls'[b].pc \in HnsPCs
            PROVE  excuse'[site'[W(a)].domain] # {} /\ excuse'[calls'[b].row.domain] # {}
        <4>1. b # a /\ calls'[b] = calls[b] /\ calls[b].pc \in HnsPCs
          BY <2>1, <3>5, IdleFacts DEF Frame, Others, HnsPCs
        <4>2. "Overlap" \in excuse[Row(a).domain] /\ "Overlap" \in excuse[Row(b).domain]
          BY <1>7, <2>1, <4>1, HnsMeet DEF HnsPCs
        <4>3. Row(b).domain \in Domains
          BY <4>1, BusyRow DEF HnsPCs
        <4> QED
          BY <2>1, <3>2, <4>1, <4>2, <4>3 DEF Frame, Grows, Row
      <3>6. HnsCalls'
        BY <3>1, <3>5 DEF HnsCalls, Clean, Row
      <3>7. ASSUME NEW b \in Callers, calls'[b].pc \in CreatePCs, calls'[b].site = W(a)
            PROVE  excuse'[calls'[b].row.domain] # {}
        <4>1. b # a /\ calls'[b] = calls[b] /\ Busy(b)
          BY <2>1, <3>7, IdleFacts DEF Frame, Others, CreatePCs, PreInsert, Busy, At
        <4>2. "Overlap" \in excuse[Row(b).domain] /\ Row(b).domain \in Domains
          BY <1>1, <1>7, <3>7, <4>1, Meet, CallFields DEF W
        <4> QED
          BY <4>1, <4>2 DEF Frame, Grows, Row
      <3>8. HnsNew'
        BY <3>1, <3>7 DEF HnsNew, Clean, W, Row
      <3> QED
        BY <3>3, <3>4, <3>6, <3>8 DEF HnsInv
    <2> QED BY <2>2, <2>3
  <1> QED
    BY <1>10, <1>11, <1>12, <1>13, <1>14 DEF HnsWrites

-----------------------------------------------------------------------------
(* DNS.                                                                     *)

\* Only an insert makes a website live.
LEMMA InsertOnly ==
    ASSUME TypeInv, NEW a \in Callers, Step(a), Frame(a), Alone(a), ~Live(W(a)), NextLive(W(a))
    PROVE  InsertWebsite(a)
  <1>1. calls[a].pc \in PreInsert \union {"d_records"} /\ site' # site
    BY DEF Alone, Live, NextLive
  <1> USE DEF PreInsert
  <1>2. ~(CreateKey(a) \/ AssignZone(a) \/ PrepareUpdate(a) \/ CommitUpdate(a) \/ AbortUpdate(a) \/ DeleteEmptyZone(a))
    BY <1>1, CreateKeyFacts, AssignFacts, PrepareFacts, CommitFacts, AbortFacts, DeleteEmptyFacts
  <1>3. ~(SaveTarget(a) \/ LinkZone(a) \/ SaveBlock(a) \/ ValidateWebsite(a) \/ SaveValidated(a))
    BY <1>1, SaveStepFacts
  <1>4. ~(CheckDomain(a) \/ LinkZoneFails(a) \/ CreateRecords(a) \/ GivesUp(a) \/ RefreshHNSDomains(a) \/ StoreZone(a) \/ HostRecords(a)
          \/ UnhostRecords(a) \/ CountWebsites(a))
    BY <1>1 DEF CheckDomain, LinkZoneFails, CreateRecords, GivesUp, RefreshHNSDomains, StoreZone, HostRecords,
       UnhostRecords, CountWebsites, At, stores
  <1>5. ~(ResetStatus(a) \/ ResetStatusFails(a) \/ DeleteRow(a) \/ DeleteRecords(a) \/ RegenerateToken(a)
          \/ CreateHNSZone(a) \/ CreateHNSRecords(a) \/ InsertHNSDomain(a))
    BY <1>1 DEF ResetStatus, ResetStatusFails, DeleteRow, DeleteRecords, RegenerateToken, CreateHNSZone, CreateHNSRecords,
       InsertHNSDomain, At
  <1> QED
    BY <1>2, <1>3, <1>4, <1>5 DEF Step

\* A domain keeps to one live website.
LEMMA StepUnique ==
    ASSUME TypeInv, FreshInv, DomainsFixed, LiveI, KnowInv, DnsInv, NEW a \in Callers, Step(a), Frame(a), ~Moved',
           NEW d \in Domains, excuse'[d] = {}
    PROVE  \A v, w \in Sites : NextLive(v) /\ NextLive(w) /\ site'[v].domain = d /\ site'[w].domain = d => v = w
  <1>1. Unique(d) /\ ~Moved
    BY MovedGrows DEF DnsInv, Frame, Grows, Clean
  <1> SUFFICES ASSUME NEW v \in Sites, NEW w \in Sites, NextLive(v), NextLive(w), site'[v].domain = d, site'[w].domain = d,
                      v # w, w # W(a)
               PROVE  FALSE
    OBVIOUS
  <1>2. Live(w) /\ site[w].domain = d
    BY DEF Frame, Live, NextLive
  <1>3. CASE v # W(a)
    BY <1>1, <1>2, <1>3 DEF Unique, Frame, Live, NextLive
  <1>4. CASE v = W(a)
    <2>1. Row(a).domain = d
      BY <1>4 DEF Frame, NextStored, NextLive
    <2>2. Alone(a)
      BY <2>1, AloneFacts
    <2>3. Live(W(a)) => site[W(a)].domain = d
      BY <2>1, <2>2 DEF Alone, Stored, Live
    <2>4. CASE Live(W(a))
      BY <1>1, <1>2, <1>4, <2>3, <2>4 DEF Unique, Frame
    <2>5. CASE ~Live(W(a))
      <3>1. InsertWebsite(a)
        BY <1>4, <2>2, <2>5, InsertOnly
      <3>2. Vacant(Row(a).domain)
        BY <2>2, <3>1 DEF InsertWebsite, At, Alone, CallKnows
      <3> QED
        BY <1>2, <2>1, <3>2 DEF Vacant
    <2> QED BY <2>4, <2>5
  <1> QED BY <1>3, <1>4

\* What a step may do to the records of another domain.
Untouched(a, d) ==
    \A z \in Domains :
        /\ rec'[<<z, d>>] # None => rec'[<<z, d>>] = rec[<<z, d>>] /\ (zone[z] = "live" => zone'[z] = "live")
        /\ rec'[<<z, d>>] # rec[<<z, d>>] => At(a, "off_zone") /\ z = Row(a).zone

(* Records are not disturbed by writing another domain's, *)
LEMMA WriteUntouched ==
    ASSUME TypeInv, NEW a \in Callers, NEW z \in Domains, NEW e \in Domains, NEW t,
           WriteRecords(z, e, t) \/ WriteRecordsFails(z, e, t), zone' = zone, NEW d \in Domains, d # e
    PROVE  Untouched(a, d)
  BY DEF WriteRecords, WriteRecordsFails, Untouched, TypeInv, TypeOK

(* by deleting a zone, unless that is excused or the call's own, *)
LEMMA ZoneUntouched ==
    ASSUME TypeInv, NEW a \in Callers, NEW z \in Domains, NEW blame, NEW d \in Domains, excuse'[d] = {},
           \/ DeleteZone(z, blame) /\ (blame # {} \/ (At(a, "off_zone") /\ z = Row(a).zone))
           \/ DeleteZoneFails(z)
    PROVE  Untouched(a, d)
  <1>1. ~Blame(Domains, {"Failed"}) /\ (blame # {} => ~Blame(Domains, blame))
    BY BlameGrows
  <1>2. /\ DeleteZone(z, blame) /\ At(a, "off_zone") /\ z = Row(a).zone
        /\ zone' = [zone EXCEPT ![z] = "deleted"]
        /\ rec' = [x \in Domains \X Domains |-> IF x[1] = z THEN None ELSE rec[x]]
    BY <1>1 DEF DeleteZone, DeleteZoneFails
  <1> QED
    BY <1>2 DEF Untouched, TypeInv, TypeOK

(* or by the side effects of an update of another domain. *)
LEMMA EffectsUntouched ==
    ASSUME TypeInv, NEW a \in Callers, NEW new \in Website, NEW blame, SideEffects(a, new, blame), zone' = zone,
           NEW d \in Domains, d # new.domain \/ (blame # {} /\ excuse'[d] = {})
    PROVE  Untouched(a, d)
  <1> DEFINE race == IF calls[a].changed = "yes" /\ new.key # None THEN PublishRace(new.key) ELSE {}
             hosted == calls[a].changed # "no" /\ new.enabled /\ new.zone # None
             ipns == Row(a).target.type = "ipns" /\ new.target.type = "ipns"
             what(written) == blame \union race \union {x \in {"Switched"} : hosted /\ ipns}
                  \union {x \in {"Moved"} : new.domain # Row(a).domain} \union {x \in {"Failed"} : hosted /\ ~ipns /\ ~written}
  <1>1. PICK written \in BOOLEAN : /\ rec' = IF written THEN [rec EXCEPT ![<<new.zone, new.domain>>] = new.target] ELSE rec
                                   /\ Blame({new.domain, Row(a).domain, new.key}, what(written))
    BY DEF SideEffects
  <1>2. blame \subseteq what(written)
    OBVIOUS
  <1> HIDE DEF what
  <1>3. d # new.domain
    BY <1>1, <1>2, BlameGrows
  <1>4. \A z \in Domains : rec'[<<z, d>>] = rec[<<z, d>>]
    BY <1>1, <1>3 DEF TypeInv, TypeOK
  <1> QED
    BY <1>4 DEF Untouched

(* So no step disturbs the records of another domain that has no excuse after it. *)
LEMMA StepUntouched ==
    ASSUME TypeInv, NEW a \in Callers, Step(a), Frame(a), ~Moved', NEW d \in Domains, d # Row(a).domain, excuse'[d] = {}
    PROVE  Untouched(a, d)
  <1>1. ASSUME rec' = rec, zone' = zone
        PROVE  Untouched(a, d)
    BY <1>1 DEF Untouched
  <1>2. CASE CreateKey(a) \/ InsertWebsite(a) \/ PrepareUpdate(a)
    BY <1>1, <1>2, CreateKeyFacts, InsertFacts, PrepareFacts
  <1>3. CASE SaveTarget(a) \/ LinkZone(a) \/ SaveBlock(a) \/ ValidateWebsite(a) \/ SaveValidated(a)
    BY <1>1, <1>3, SaveStepFacts
  <1>4. CASE CheckDomain(a) \/ GivesUp(a) \/ RefreshHNSDomains(a) \/ StoreZone(a) \/ CountWebsites(a) \/ ResetStatus(a)
              \/ ResetStatusFails(a) \/ DeleteRow(a) \/ CreateHNSZone(a) \/ CreateHNSRecords(a) \/ InsertHNSDomain(a)
    BY <1>1, <1>4 DEF CheckDomain, GivesUp, RefreshHNSDomains, StoreZone, CountWebsites, ResetStatus, ResetStatusFails,
       DeleteRow, CreateHNSZone, CreateHNSRecords, InsertHNSDomain, stores
  <1>5. CASE AssignZone(a)
    BY <1>5, AssignFacts DEF TakeZone, Untouched, TypeInv, TypeOK
  <1>6. CASE LinkZoneFails(a)
    <2>1. Row(a).zone \in Domains
      BY <1>6, BusyRow DEF LinkZoneFails, At, CallTyped, ZonePCs, Row
    <2> QED
      BY <1>1, <1>6, <2>1, ZoneUntouched DEF LinkZoneFails
  <1>7. CASE CreateRecords(a) \/ HostRecords(a)
    <2>1. Row(a).zone \in Domains /\ Row(a).domain \in Domains
      BY <1>7, BusyRow DEF CreateRecords, HostRecords, At, CallTyped, ZonePCs, Row
    <2> QED
      BY <1>7, <2>1, WriteUntouched DEF CreateRecords, HostRecords
  <1>8. CASE UnhostRecords(a)
    <2>1. Row(a).zone \in Domains \union {None} /\ Row(a).domain \in Domains
      BY <1>8, BusyRow DEF UnhostRecords, At
    <2> QED
      BY <1>1, <1>8, <2>1, WriteUntouched DEF UnhostRecords, ClearRecords
  <1>9. CASE DeleteRecords(a)
    <2>1. Row(a).zone \in Domains /\ Row(a).domain \in Domains
      BY <1>9, BusyRow DEF DeleteRecords, At, CallTyped, ZonePCs, Row
    <2> QED
      BY <1>9, <2>1, WriteUntouched DEF DeleteRecords, ClearRecords
  <1>10. CASE RegenerateToken(a)
    <2>1. Row(a).zone \in Domains \union {None} /\ Row(a).domain \in Domains /\ zone' = zone
      BY <1>10, BusyRow DEF RegenerateToken, At
    <2>2. CASE rec' = [rec EXCEPT ![<<Row(a).zone, Row(a).domain>>] = Row(a).target]
      BY <2>1, <2>2 DEF Untouched, TypeInv, TypeOK
    <2> QED
      BY <1>1, <1>10, <2>1, <2>2, WriteUntouched DEF RegenerateToken
  <1>11. CASE CommitUpdate(a)
    <2>1. calls[a].pc = "u_commit" /\ Live(W(a)) /\ site'[W(a)] = Updated(a) /\ SideEffects(a, Updated(a), {}) /\ zone' = zone
      BY <1>11, CommitFacts
    <2>2. Updated(a) \in Website /\ Updated(a).state = "live"
      BY <2>1, UpdatedTyped
    <2>3. Updated(a).domain = Row(a).domain
      BY <2>1, <2>2 DEF Frame, NextStored
    <2> QED
      BY <2>1, <2>2, <2>3, EffectsUntouched
  <1>12. CASE AbortUpdate(a)
    <2>1. calls[a].pc = "u_commit" /\ zone' = zone
      BY <1>12, AbortFacts
    <2>2. Live(W(a)) => Updated(a) \in Website
      BY <2>1, UpdatedTyped
    <2> QED
      BY <1>1, <1>12, <2>1, <2>2, EffectsUntouched DEF AbortUpdate
  <1>13. CASE DeleteEmptyZone(a)
    BY <1>13, DeleteEmptyFacts, ZoneUntouched DEF At
  <1> QED
    BY <1>2, <1>3, <1>4, <1>5, <1>6, <1>7, <1>8, <1>9, <1>10, <1>11, <1>12, <1>13 DEF Step

\* The domains of other calls.
LEMMA DnsElsewhere ==
    ASSUME TypeInv, FreshInv, DomainsFixed, CountInv, DnsInv, NEW a \in Callers, Step(a), Frame(a), ~Moved',
           NEW d \in Domains, d # Row(a).domain, excuse'[d] = {}
    PROVE  Backed(d)' /\ Served(d)'
  <1>1. Backed(d) /\ Served(d) /\ ~Moved /\ Clean(d)
    BY MovedGrows DEF DnsInv, Frame, Grows, Clean
  <1>2. Untouched(a, d)
    BY StepUntouched
  <1>3. ASSUME NEW w \in Sites, Live(w), site[w].domain = d
        PROVE  w # W(a) /\ site'[w] = site[w]
    BY <1>1, <1>3 DEF Frame, DomainsFixed, Live, Stored
  <1>4. ASSUME NEW w \in Sites, NextLive(w), site'[w].domain = d
        PROVE  w # W(a) /\ site'[w] = site[w] /\ Live(w)
    BY <1>4 DEF Frame, NextStored, NextLive, Live
  <1>5. Backed(d)'
    <2> SUFFICES ASSUME NEW z \in Domains, rec'[<<z, d>>] # None
                 PROVE  /\ zone'[z] = "live"
                        /\ \/ \E w \in Sites : NextLive(w) /\ site'[w].enabled /\ site'[w].domain = d /\ site'[w].zone = z
                           \/ \E b \in Callers : calls'[b].pc \in {"d_records", "off_records"} /\ calls'[b].row.domain = d /\ calls'[b].row.zone = z
      BY DEF Backed, Linked, Live, NextLive, Row
    <2>1. rec[<<z, d>>] # None /\ (zone[z] = "live" => zone'[z] = "live")
      BY <1>2 DEF Untouched
    <2>2. zone[z] = "live" /\ Linked(z, d)
      BY <1>1, <2>1 DEF Backed
    <2>3. ASSUME NEW w \in Sites, Live(w), site[w].enabled, site[w].domain = d, site[w].zone = z
          PROVE  NextLive(w) /\ site'[w].enabled /\ site'[w].domain = d /\ site'[w].zone = z
      BY <1>3, <2>3 DEF Live, NextLive
    <2>4. ASSUME NEW b \in Callers, calls[b].pc \in {"d_records", "off_records"}, Row(b).domain = d, Row(b).zone = z
          PROVE  calls'[b].pc \in {"d_records", "off_records"} /\ calls'[b].row.domain = d /\ calls'[b].row.zone = z
      BY <2>4 DEF Frame, Others, Row
    <2> QED
      BY <2>1, <2>2, <2>3, <2>4 DEF Linked
  <1>6. Served(d)'
    <2> SUFFICES ASSUME NEW w \in Sites, NextLive(w), site'[w].enabled, site'[w].zone # None, site'[w].domain = d
                 PROVE  \/ rec'[<<site'[w].zone, d>>] = site'[w].target
                        \/ \E b \in Callers : calls'[b].site = w /\ calls'[b].pc \in {"c_records", "on_records"}
      BY DEF Served, Live, NextLive, W
    <2>1. w # W(a) /\ site'[w] = site[w] /\ Live(w)
      BY <1>4
    <2>2. site[w].zone \in Domains
      BY <2>1, LiveIsWebsite DEF Website, RowWith, Live, Stored
    <2>3. rec'[<<site[w].zone, d>>] = rec[<<site[w].zone, d>>]
      <3>1. At(a, "off_zone") => site[w].zone # Row(a).zone
        BY <1>1, <2>1 DEF CountInv
      <3> QED
        BY <1>2, <2>2, <3>1 DEF Untouched
    <2>4. \/ rec[<<site[w].zone, d>>] = site[w].target
          \/ \E b \in Callers : W(b) = w /\ calls[b].pc \in {"c_records", "on_records"}
      BY <1>1, <2>1 DEF Served
    <2>5. ASSUME NEW b \in Callers, W(b) = w, calls[b].pc \in {"c_records", "on_records"}
          PROVE  calls'[b].site = w /\ calls'[b].pc \in {"c_records", "on_records"}
      BY <2>1, <2>5 DEF Frame, Others, W
    <2> QED
      BY <2>1, <2>3, <2>4, <2>5
  <1> QED BY <1>5, <1>6

\* What a call that is alone finds of its domain.
OwnFound(a) ==
    LET s == site[W(a)]
        d == Row(a).domain
    IN /\ \A w \in Sites \ {W(a)} : ~(Live(w) /\ site[w].domain = d)
       /\ \A z \in Domains : rec[<<z, d>>] # None =>
             /\ zone[z] = "live"
             /\ \/ Live(W(a)) /\ s.enabled /\ s.zone = z
                \/ calls[a].pc \in {"d_records", "off_records"} /\ Row(a).zone = z
       /\ Live(W(a)) /\ s.enabled /\ s.zone # None =>
             rec[<<s.zone, d>>] = s.target \/ calls[a].pc \in {"c_records", "on_records"}

(* DnsInv, read for the domain of a call that is alone on it, *)
LEMMA OwnBefore ==
    ASSUME TypeInv, FreshInv, DomainsFixed, PairI, DnsInv, NEW a \in Callers, Frame(a), Alone(a), calls[a].pc \notin {"c_key", "c_check"}
    PROVE  OwnFound(a)
  <1> DEFINE d == Row(a).domain
  <1>1. Busy(a) /\ W(a) \in Sites /\ d \in Domains /\ ~Moved /\ Clean(d)
    BY CallFields DEF Frame, Alone
  <1>2. Unique(d) /\ Backed(d) /\ Served(d)
    BY <1>1 DEF DnsInv
  <1>3. Stored(W(a)) => site[W(a)].domain = d
    BY DEF Alone
  <1>4. \A w \in Sites \ {W(a)} : ~(Live(w) /\ site[w].domain = d)
    <2>1. CASE calls[a].pc \in {"c_insert", "d_records"}
      BY <2>1 DEF Alone, CallKnows, Vacant
    <2>2. CASE calls[a].pc \notin {"c_insert", "d_records"}
      <3>1. Live(W(a)) /\ site[W(a)].domain = d
        BY <1>3, <2>2 DEF Alone, PreInsert, Live, Stored
      <3> QED
        BY <1>1, <1>2, <3>1 DEF Unique
    <2> QED BY <2>1, <2>2
  <1>5. ASSUME NEW b \in Callers, Busy(b), Row(b).domain = d \/ W(b) = W(a)
        PROVE  b = a
    BY <1>1, <1>5, Meet DEF Clean
  <1>6. ASSUME NEW z \in Domains, rec[<<z, d>>] # None
        PROVE  /\ zone[z] = "live"
               /\ \/ Live(W(a)) /\ site[W(a)].enabled /\ site[W(a)].zone = z
                  \/ calls[a].pc \in {"d_records", "off_records"} /\ Row(a).zone = z
    <2>1. zone[z] = "live" /\ Linked(z, d)
      BY <1>2, <1>6 DEF Backed
    <2>2. ASSUME NEW w \in Sites, Live(w), site[w].enabled, site[w].domain = d, site[w].zone = z
          PROVE  Live(W(a)) /\ site[W(a)].enabled /\ site[W(a)].zone = z
      BY <1>4, <2>2
    <2>3. ASSUME NEW b \in Callers, calls[b].pc \in {"d_records", "off_records"}, Row(b).domain = d, Row(b).zone = z
          PROVE  calls[a].pc \in {"d_records", "off_records"} /\ Row(a).zone = z
      BY <1>5, <2>3 DEF Busy, At
    <2> QED
      BY <2>1, <2>2, <2>3 DEF Linked
  <1>7. ASSUME Live(W(a)), site[W(a)].enabled, site[W(a)].zone # None
        PROVE  rec[<<site[W(a)].zone, d>>] = site[W(a)].target \/ calls[a].pc \in {"c_records", "on_records"}
    <2>1. site[W(a)].domain = d
      BY <1>3, <1>7 DEF Live, Stored
    <2>2. ASSUME NEW b \in Callers, W(b) = W(a), calls[b].pc \in {"c_records", "on_records"}
          PROVE  calls[a].pc \in {"c_records", "on_records"}
      BY <1>5, <2>2 DEF Busy, At
    <2> QED
      BY <1>1, <1>2, <1>7, <2>1, <2>2 DEF Served
  <1> QED BY <1>4, <1>6, <1>7 DEF OwnFound

\* What it has to leave.
OwnBacked(a) ==
    \A z \in Domains : rec'[<<z, Row(a).domain>>] # None =>
        /\ zone'[z] = "live"
        /\ \/ NextLive(W(a)) /\ site'[W(a)].enabled /\ site'[W(a)].zone = z
           \/ calls'[a].pc \in {"d_records", "off_records"} /\ Row(a)'.zone = z
OwnServed(a) ==
    NextLive(W(a)) /\ site'[W(a)].enabled /\ site'[W(a)].zone # None =>
        rec'[<<site'[W(a)].zone, Row(a).domain>>] = site'[W(a)].target \/ calls'[a].pc \in {"c_records", "on_records"}

(* and read back after its step. *)
LEMMA OwnAfter ==
    ASSUME TypeInv, FreshInv, DomainsFixed, PairI, DnsInv, NEW a \in Callers, Frame(a), Alone(a), ~Moved',
           calls[a].pc \notin {"c_key", "c_check"}, OwnBacked(a), OwnServed(a), NEW d, d = Row(a).domain
    PROVE  Backed(d)' /\ Served(d)'
  <1>1. W(a) \in Sites /\ (NextLive(W(a)) => site'[W(a)].domain = d)
    BY DEF Frame, NextStored, NextLive
  <1>2. \A w \in Sites \ {W(a)} : ~(NextLive(w) /\ site'[w].domain = d)
    <2>1. \A w \in Sites \ {W(a)} : ~(Live(w) /\ site[w].domain = d)
      BY OwnBefore DEF OwnFound
    <2> QED
      BY <2>1 DEF Frame, Live, NextLive
  <1>3. ASSUME calls'[a].pc \in {"d_records", "off_records", "c_records", "on_records"}
        PROVE  calls'[a].row.domain = d /\ calls'[a].site = W(a)
    <2>1. Busy(a)'
      BY <1>3 DEF Busy, At
    <2> QED
      BY <2>1 DEF Frame, W, Row
  <1>4. ASSUME NEW z \in Domains, rec'[<<z, d>>] # None
        PROVE  /\ zone'[z] = "live"
               /\ \/ \E w \in Sites : NextLive(w) /\ site'[w].enabled /\ site'[w].domain = d /\ site'[w].zone = z
                  \/ \E b \in Callers : calls'[b].pc \in {"d_records", "off_records"} /\ calls'[b].row.domain = d /\ calls'[b].row.zone = z
    BY <1>1, <1>3, <1>4 DEF OwnBacked, Row
  <1>5. ASSUME NEW w \in Sites, NextLive(w), site'[w].enabled, site'[w].zone # None, site'[w].domain = d
        PROVE  \/ rec'[<<site'[w].zone, d>>] = site'[w].target
               \/ \E b \in Callers : calls'[b].site = w /\ calls'[b].pc \in {"c_records", "on_records"}
    BY <1>2, <1>3, <1>5 DEF OwnServed
  <1> QED
    BY <1>4, <1>5 DEF Backed, Served, Linked, Live, NextLive, W, Row

\* The steps that leave the website and its records alone.
LEMMA OwnSame ==
    ASSUME TypeInv, NEW a \in Callers, OwnFound(a), calls[a].pc \notin {"d_records", "off_records", "c_records", "on_records"},
           NextLive(W(a)) => /\ Live(W(a)) /\ site'[W(a)].enabled = site[W(a)].enabled
                             /\ site'[W(a)].zone = site[W(a)].zone /\ site'[W(a)].target = site[W(a)].target,
           Live(W(a)) => NextLive(W(a)),
           rec' = rec, \A z \in Domains : zone[z] = "live" => zone'[z] = "live"
    PROVE  OwnBacked(a) /\ OwnServed(a)
  BY DEF OwnFound, OwnBacked, OwnServed

\* The steps after which the domain has no records.
LEMMA OwnNone ==
    ASSUME NEW a \in Callers, \A z \in Domains : rec'[<<z, Row(a).domain>>] = None,
           \/ ~NextLive(W(a)) \/ ~site'[W(a)].enabled \/ site'[W(a)].zone = None
           \/ calls'[a].pc \in {"c_records", "on_records"}
    PROVE  OwnBacked(a) /\ OwnServed(a)
  BY DEF OwnBacked, OwnServed

\* The steps that write them.
LEMMA OwnWrites ==
    ASSUME TypeInv, NEW a \in Callers, OwnFound(a), NEW z \in Domains, NEW t,
           zone[z] = "live", rec' = [rec EXCEPT ![<<z, Row(a).domain>>] = t], zone' = zone, Row(a).domain \in Domains,
           Live(W(a)), NextLive(W(a)), site'[W(a)].enabled, site'[W(a)].zone = z, site'[W(a)].target = t, site[W(a)].zone = z,
           calls[a].pc \notin {"d_records", "off_records"}
    PROVE  OwnBacked(a) /\ OwnServed(a)
  <1>1. \A y \in Domains : rec'[<<y, Row(a).domain>>] = IF y = z THEN t ELSE rec[<<y, Row(a).domain>>]
    BY DEF TypeInv, TypeOK
  <1> QED
    BY <1>1 DEF OwnFound, OwnBacked, OwnServed

\* A failure is an excuse.
LEMMA WriteOwn ==
    ASSUME TypeInv, NEW z, NEW d \in Domains, NEW t, excuse'[d] = {}, WriteRecords(z, d, t) \/ WriteRecordsFails(z, d, t)
    PROVE  zone[z] = "live" /\ rec' = [rec EXCEPT ![<<z, d>>] = t]
  <1>1. ~Blame({d}, {"Failed"})
    BY BlameGrows
  <1> QED
    BY <1>1 DEF WriteRecords, WriteRecordsFails

\* A commit writes the records of a website that is hosted and changes its target.
LEMMA CommitWrites ==
    ASSUME TypeInv, NEW a \in Callers, CommitUpdate(a), Row(a).domain \in Domains, excuse'[Row(a).domain] = {}
    PROVE  LET new == site'[W(a)]
           IN IF calls[a].changed # "no" /\ new.enabled /\ new.zone # None
              THEN zone[new.zone] = "live" /\ rec' = [rec EXCEPT ![<<new.zone, new.domain>>] = new.target]
              ELSE rec' = rec
  <1> DEFINE new == site'[W(a)]
             race == IF calls[a].changed = "yes" /\ new.key # None THEN PublishRace(new.key) ELSE {}
             hosted == calls[a].changed # "no" /\ new.enabled /\ new.zone # None
             ipns == Row(a).target.type = "ipns" /\ new.target.type = "ipns"
             what(written) == {} \union race \union {x \in {"Switched"} : hosted /\ ipns}
                  \union {x \in {"Moved"} : new.domain # Row(a).domain} \union {x \in {"Failed"} : hosted /\ ~ipns /\ ~written}
  <1>1. site'[W(a)] = Updated(a) /\ SideEffects(a, Updated(a), {})
    BY CommitFacts
  <1>2. PICK written \in BOOLEAN : /\ written => hosted /\ ~ipns /\ zone[new.zone] = "live"
                                   /\ rec' = IF written THEN [rec EXCEPT ![<<new.zone, new.domain>>] = new.target] ELSE rec
                                   /\ Blame({new.domain, Row(a).domain, new.key}, what(written))
    BY <1>1 DEF SideEffects
  <1>3. /\ hosted /\ ipns => "Switched" \in what(written)
        /\ hosted /\ ~ipns /\ ~written => "Failed" \in what(written)
    OBVIOUS
  <1> HIDE DEF what, ipns
  <1>4. "Switched" \notin what(written) /\ "Failed" \notin what(written)
    BY <1>2, BlameGrows
  <1> QED
    BY <1>2, <1>3, <1>4

(* Every step of a call that is alone keeps its domain's records and rows together. *)
LEMMA StepOwn ==
    ASSUME TypeInv, NEW a \in Callers, Step(a), Frame(a), Alone(a), OwnFound(a), calls[a].pc \notin {"c_key", "c_check"}
    PROVE  OwnBacked(a) /\ OwnServed(a)
  <1> DEFINE d == Row(a).domain
             s == site[W(a)]
             new == site'[W(a)]
             Goal == OwnBacked(a) /\ OwnServed(a)
  <1>1. /\ d \in Domains /\ W(a) \in Sites /\ CallTyped(calls[a]) /\ CallKnows(a) /\ excuse'[d] = {}
        /\ Row(a).zone \in Domains \union {None} /\ Row(a) \in Website
    BY BusyRow DEF Frame, Alone, Busy, At
  <1>2. calls[a].pc \notin PreInsert \union {"d_records"} => Live(W(a))
    BY DEF Alone
  <1>3. /\ \A z \in Domains : rec[<<z, d>>] # None =>
             /\ zone[z] = "live"
             /\ \/ Live(W(a)) /\ s.enabled /\ s.zone = z
                \/ calls[a].pc \in {"d_records", "off_records"} /\ Row(a).zone = z
    BY DEF OwnFound
  <1>4. calls[a].pc \notin Unread => s.target = Row(a).target /\ s.enabled = Row(a).enabled
    BY <1>1 DEF CallKnows, Knows, Row
  <1>5. /\ calls[a].pc \in Unzoned => s.zone = None
        /\ calls[a].pc \in Zoned => s.zone = Row(a).zone
    BY <1>1 DEF CallKnows, Knows, Row
  <1>6. /\ calls[a].pc \in (CreatePCs \ PreInsert) \union OnPCs => Row(a).enabled
        /\ calls[a].pc \in OffPCs => ~Row(a).enabled
        /\ calls[a].pc \in ZonePCs => Row(a).zone \in Domains
        /\ calls[a].pc \in PreInsert \union {"c_convert", "c_save", "c_zone"} => Row(a).zone = None
        /\ Row(a).zone \in Domains \union {None}
    BY <1>1 DEF CallTyped, Row
  <1>7. None \notin Domains
    BY WebsitesAssumption DEF Domains
  <1>8. ASSUME site' = site, rec' = rec, \A z \in Domains : zone[z] = "live" => zone'[z] = "live",
               calls[a].pc \notin {"d_records", "off_records", "c_records", "on_records"}
        PROVE  Goal
    BY <1>8, OwnSame DEF Live, NextLive
  <1>9. ASSUME ~Live(W(a)) \/ ~s.enabled \/ s.zone = None, calls[a].pc \notin {"d_records", "off_records"}
        PROVE  \A z \in Domains : rec[<<z, d>>] = None
    BY <1>3, <1>7, <1>9
  <1> HIDE DEF Goal, d, s, new
  <1> USE DEF PreInsert, Unread, Unzoned, Zoned, CreatePCs, OnPCs, OffPCs, ZonePCs, ValidatePCs
  <1>10. CASE CreateKey(a) \/ PrepareUpdate(a)
    BY <1>8, <1>10, CreateKeyFacts, PrepareFacts DEF Goal
  <1>11. CASE CheckDomain(a) \/ GivesUp(a) \/ RefreshHNSDomains(a) \/ CountWebsites(a) \/ ResetStatusFails(a)
               \/ CreateHNSZone(a) \/ CreateHNSRecords(a) \/ InsertHNSDomain(a)
    BY <1>8, <1>11 DEF CheckDomain, GivesUp, RefreshHNSDomains, CountWebsites, ResetStatusFails,
       CreateHNSZone, CreateHNSRecords, InsertHNSDomain, stores, At, Goal
  <1>12. CASE InsertWebsite(a)
    <2>1. calls[a].pc = "c_insert" /\ rec' = rec /\ site'[W(a)].zone = None /\ ~Live(W(a))
      BY <1>1, <1>12, InsertFacts DEF Alone, CallKnows, Vacant, Live, Stored
    <2> QED
      BY <1>9, <2>1, OwnNone DEF Goal, d
  <1>13. CASE SaveTarget(a)
    <2>1. calls[a].pc = "c_save" /\ rec' = rec /\ site'[W(a)].zone = Row(a).zone
      BY <1>13, SaveStepFacts, SavesOwn
    <2> QED
      BY <1>5, <1>6, <1>9, <2>1, OwnNone DEF Goal, d
  <1>14. CASE AssignZone(a)
    BY <1>8, <1>14, AssignFacts DEF TakeZone, TypeInv, TypeOK, Goal
  <1>15. CASE LinkZone(a)
    <2>1. calls[a].pc = "c_link" /\ rec' = rec /\ calls'[a].pc = "c_records"
      BY <1>15, SaveStepFacts DEF LinkZone, At
    <2> QED
      BY <1>5, <1>9, <2>1, OwnNone DEF Goal, d
  <1>16. CASE LinkZoneFails(a)
    <2>1. ~Blame(Domains, {"Failed"})
      BY <1>1, BlameGrows
    <2> QED
      BY <1>8, <1>16, <2>1 DEF LinkZoneFails, DeleteZone, DeleteZoneFails, At, Goal
  <1>17. CASE CreateRecords(a) \/ HostRecords(a)
    <2>1. calls[a].pc \in {"c_records", "on_records"} /\ site' = site /\ zone' = zone
      BY <1>17 DEF CreateRecords, HostRecords, At
    <2>2. WriteRecords(Row(a).zone, d, Row(a).target) \/ WriteRecordsFails(Row(a).zone, d, Row(a).target)
      BY <1>17 DEF CreateRecords, HostRecords, d
    <2>3. zone[Row(a).zone] = "live" /\ rec' = [rec EXCEPT ![<<Row(a).zone, d>>] = Row(a).target]
      BY <1>1, <2>2, WriteOwn
    <2>4. Live(W(a)) /\ NextLive(W(a)) /\ s.target = Row(a).target /\ s.enabled /\ s.zone = Row(a).zone /\ Row(a).zone \in Domains
      BY <1>2, <1>4, <1>5, <1>6, <2>1 DEF Live, NextLive
    <2> QED
      BY <1>1, <2>1, <2>3, <2>4, OwnWrites DEF Goal, d, s
  <1>18. CASE StoreZone(a)
    <2>1. calls[a].pc = "on_link" /\ rec' = rec /\ calls'[a].pc = "on_records"
      BY <1>18, GotoFacts DEF StoreZone, At
    <2> QED
      BY <1>5, <1>9, <2>1, OwnNone DEF Goal, d
  <1>19. CASE UnhostRecords(a)
    <2>1. calls[a].pc = "off_records" /\ site' = site /\ zone' = zone /\ ~s.enabled
      BY <1>4, <1>6, <1>19 DEF UnhostRecords, At
    <2>2. \A z \in Domains : rec'[<<z, d>>] = None
      <3>1. CASE Row(a).zone = None \/ zone[Row(a).zone] # "live"
        BY <1>3, <1>7, <1>19, <2>1, <3>1 DEF UnhostRecords
      <3>2. CASE ~(Row(a).zone = None \/ zone[Row(a).zone] # "live")
        <4>1. rec' = [rec EXCEPT ![<<Row(a).zone, d>>] = None]
          BY <1>1, <1>19, <3>2, WriteOwn DEF UnhostRecords, ClearRecords, d
        <4> QED
          BY <1>1, <1>3, <2>1, <4>1 DEF TypeInv, TypeOK
      <3> QED BY <3>1, <3>2
    <2> QED
      BY <2>1, <2>2, OwnNone DEF Goal, d, s
  <1>20. CASE DeleteEmptyZone(a)
    <2>1. calls[a].pc = "off_zone" /\ site' = site /\ ~s.enabled
      BY <1>4, <1>6, <1>20, DeleteEmptyFacts
    <2>2. \A z \in Domains : rec[<<z, d>>] = None
      BY <1>9, <2>1
    <2>3. \A z \in Domains : rec'[<<z, d>>] = None
      BY <1>1, <1>20, <2>2, DeleteEmptyFacts DEF DeleteZone, DeleteZoneFails
    <2> QED
      BY <2>1, <2>3, OwnNone DEF Goal, d, s
  <1>21. CASE ResetStatus(a)
    <2>1. rec' = rec /\ zone' = zone
      BY <1>21 DEF ResetStatus
    <2>2. CASE calls[a].pc = "off_status"
      <3>1. ~s.enabled /\ site'[W(a)].enabled = s.enabled
        BY <1>4, <1>6, <1>21, <2>2, ColumnsOwn DEF s
      <3> QED
        BY <1>9, <2>1, <2>2, <3>1, OwnNone DEF Goal, d
    <2>3. CASE calls[a].pc # "off_status"
      BY <1>21, <2>1, <2>3, ColumnsOwn, OwnSame DEF Goal, ResetStatus, At
    <2> QED BY <2>2, <2>3
  <1>22. CASE DeleteRow(a)
    <2>1. calls[a].pc = "d_row" /\ rec' = rec /\ zone' = zone /\ Live(W(a)) /\ s.zone = Row(a).zone
      BY <1>2, <1>5, <1>22 DEF DeleteRow, At
    <2>2. ~NextLive(W(a))
      BY <1>1, <1>22, <2>1, LiveIsWebsite DEF DeleteRow, NextLive, Live, Stored, TypeInv, TypeOK, Website, RowWith
    <2>3. CASE Row(a).zone = None
      BY <1>9, <2>1, <2>2, <2>3, OwnNone DEF Goal, d
    <2>4. CASE Row(a).zone # None
      <3>1. calls'[a].pc = "d_records" /\ Row(a)' = Row(a)
        BY <1>22, <2>1, <2>4, GotoFacts DEF DeleteRow
      <3> QED
        BY <1>3, <2>1, <2>2, <3>1 DEF Goal, OwnBacked, OwnServed, d
    <2> QED BY <2>3, <2>4
  <1>23. CASE DeleteRecords(a)
    <2>1. calls[a].pc = "d_records" /\ site' = site /\ zone' = zone
      BY <1>23 DEF DeleteRecords, At
    <2>2. ~Live(W(a))
      BY <1>1, <2>1 DEF CallKnows, Vacant, Alone, Live, Stored
    <2>3. rec' = [rec EXCEPT ![<<Row(a).zone, d>>] = None]
      BY <1>1, <1>23, WriteOwn DEF DeleteRecords, ClearRecords, d
    <2>4. \A z \in Domains : rec'[<<z, d>>] = None
      BY <1>1, <1>3, <2>1, <2>2, <2>3 DEF TypeInv, TypeOK
    <2> QED
      BY <2>1, <2>2, <2>4, OwnNone DEF Goal, d, Live, NextLive
  <1>24. CASE SaveBlock(a) \/ ValidateWebsite(a) \/ SaveValidated(a)
    <2>1. calls[a].pc \in {"b_save", "j_validate", "v_lookup", "v_tsave"} /\ rec' = rec /\ zone' = zone
      BY <1>24, SaveStepFacts DEF SaveBlock, ValidateWebsite, SaveValidated, At
    <2> QED
      BY <1>4, <1>5, <1>24, <2>1, SavesOwn, OwnSame DEF Goal, s
  <1>25. CASE RegenerateToken(a)
    <2>1. calls[a].pc = "v_token" /\ site' = site /\ zone' = zone
      BY <1>25 DEF RegenerateToken, At
    <2>2. CASE rec' = rec
      BY <1>8, <2>1, <2>2 DEF Goal
    <2>3. CASE rec' # rec
      <3>1. ~Blame({d}, {"Unhosted"}) /\ ~Blame({d}, {"Failed"})
        BY <1>1, BlameGrows
      <3>2. Row(a).zone # None /\ Row(a).enabled /\ WriteRecords(Row(a).zone, d, Row(a).target)
        BY <1>25, <2>3, <3>1 DEF RegenerateToken, WriteRecordsFails, d
      <3>3. Live(W(a)) /\ NextLive(W(a)) /\ s.target = Row(a).target /\ s.enabled /\ s.zone = Row(a).zone /\ Row(a).zone \in Domains
        BY <1>2, <1>4, <1>5, <1>6, <2>1, <3>2 DEF Live, NextLive
      <3> QED
        BY <1>1, <2>1, <3>2, <3>3, OwnWrites DEF Goal, d, s, WriteRecords
    <2> QED BY <2>2, <2>3
  <1>26. CASE CommitUpdate(a)
    <2> DEFINE q == calls[a].req
               next == calls'[a].pc
    <2>1. /\ calls[a].pc = "u_commit" /\ zone' = zone /\ Live(W(a)) /\ NextLive(W(a))
          /\ new.domain = d /\ new.zone = s.zone
          /\ new.enabled = IF q.kind = "dns" THEN q.on ELSE s.enabled
          /\ calls[a].changed = "no" => new.target = s.target
          /\ calls[a].changed # "no" => new.enabled = s.enabled
      BY <1>26, CommitFacts, CommitOwn DEF new, s, d
    <2>2. IF calls[a].changed # "no" /\ new.enabled /\ new.zone # None
          THEN zone[new.zone] = "live" /\ rec' = [rec EXCEPT ![<<new.zone, new.domain>>] = new.target]
          ELSE rec' = rec
      BY <1>1, <1>26, CommitWrites DEF new, d
    <2>3. CASE calls[a].changed # "no"
      <3>1. CASE new.enabled /\ new.zone # None
        <4>1. new.zone \in Domains
          BY <1>5, <1>6, <2>1, <3>1
        <4> QED
          BY <1>1, <2>1, <2>2, <2>3, <3>1, <4>1, OwnWrites DEF Goal, d, s, new
      <3>2. CASE ~(new.enabled /\ new.zone # None)
        BY <1>9, <2>1, <2>2, <2>3, <3>2, OwnNone DEF Goal, d, new
      <3> QED BY <3>1, <3>2
    <2>4. CASE calls[a].changed = "no" /\ new.enabled = s.enabled
      BY <2>1, <2>2, <2>4, OwnSame DEF Goal, s, new
    <2>5. CASE calls[a].changed = "no" /\ new.enabled # s.enabled
      <3>1. q.kind = "dns" /\ q.on = new.enabled /\ s.enabled = Row(a).enabled /\ rec' = rec
        BY <1>4, <2>1, <2>2, <2>5
      <3>2. /\ Row(a)' = new
            /\ next \in {"u_hns", "off_records", "on_zone", "on_records"}
            /\ next = "u_hns" <=> calls[a].changed # "no"
            /\ next = "off_records" => q.kind = "dns" /\ ~q.on
            /\ next \in {"on_zone", "on_records"} => q.kind = "dns" /\ q.on /\ ~Row(a).enabled
            /\ next = "on_zone" => new.zone = None
        BY <1>26, <2>5, <3>1, CommitFacts DEF new
      <3>3. CASE new.enabled
        <4>1. ~s.enabled
          BY <1>1, <1>4, <2>1, <2>5, <3>3 DEF Website, RowWith
        <4>2. next \in {"on_zone", "on_records"}
          BY <2>5, <3>1, <3>2, <3>3
        <4> QED
          BY <1>9, <2>1, <3>1, <3>2, <4>1, <4>2, OwnNone DEF Goal, d, new
      <3>4. CASE ~new.enabled
        <4>1. next = "off_records"
          BY <2>5, <3>1, <3>2, <3>4
        <4> QED
          BY <1>3, <2>1, <3>1, <3>2, <3>4, <4>1 DEF Goal, OwnBacked, OwnServed, d, new
      <3> QED BY <3>3, <3>4
    <2> QED BY <2>3, <2>4, <2>5
  <1>27. CASE AbortUpdate(a)
    BY <1>1, <1>27, AbortBlames DEF d
  <1> QED
    BY <1>10, <1>11, <1>12, <1>13, <1>14, <1>15, <1>16, <1>17, <1>18, <1>19, <1>20, <1>21, <1>22, <1>23, <1>24, <1>25, <1>26, <1>27
       DEF Step, Goal

\* Before its check a call has written nothing.
LEMMA BeforeCheck ==
    ASSUME TypeInv, NEW a \in Callers, Step(a), calls[a].pc \in {"c_key", "c_check"}
    PROVE  site' = site /\ rec' = rec /\ zone' = zone
  <1>1. ~(InsertWebsite(a) \/ AssignZone(a) \/ PrepareUpdate(a) \/ CommitUpdate(a) \/ AbortUpdate(a) \/ DeleteEmptyZone(a))
    BY InsertFacts, AssignFacts, PrepareFacts, CommitFacts, AbortFacts, DeleteEmptyFacts
  <1>2. ~(SaveTarget(a) \/ LinkZone(a) \/ SaveBlock(a) \/ ValidateWebsite(a) \/ SaveValidated(a))
    BY SaveStepFacts
  <1>3. ~(LinkZoneFails(a) \/ CreateRecords(a) \/ RefreshHNSDomains(a) \/ StoreZone(a) \/ HostRecords(a)
          \/ UnhostRecords(a) \/ CountWebsites(a))
    BY DEF LinkZoneFails, CreateRecords, RefreshHNSDomains, StoreZone, HostRecords, UnhostRecords, CountWebsites, At
  <1>4. ~(ResetStatus(a) \/ ResetStatusFails(a) \/ DeleteRow(a) \/ DeleteRecords(a) \/ RegenerateToken(a)
          \/ CreateHNSZone(a) \/ CreateHNSRecords(a) \/ InsertHNSDomain(a))
    BY DEF ResetStatus, ResetStatusFails, DeleteRow, DeleteRecords, RegenerateToken, CreateHNSZone, CreateHNSRecords, InsertHNSDomain, At
  <1>5. CreateKey(a) \/ CheckDomain(a) \/ GivesUp(a)
    BY <1>1, <1>2, <1>3, <1>4 DEF Step
  <1> QED
    BY <1>5, CreateKeyFacts DEF CheckDomain, GivesUp, stores

(* A step that writes no row, record or zone disturbs no domain. *)
LEMMA DnsUnwritten ==
    ASSUME NEW a, Others(a), calls[a].pc \notin {"d_records", "off_records", "c_records", "on_records"},
           site' = site, rec' = rec, zone' = zone, NEW d, Backed(d), Served(d)
    PROVE  Backed(d)' /\ Served(d)'
  <1>1. ASSUME NEW b \in Callers, calls[b].pc \in {"d_records", "off_records", "c_records", "on_records"}
        PROVE  calls'[b] = calls[b]
    BY <1>1 DEF Others
  <1>2. \A z : Linked(z, d) => Linked(z, d)'
    BY <1>1 DEF Linked, Live, Row
  <1>3. Backed(d)'
    BY <1>2 DEF Backed
  <1>4. Served(d)'
    BY <1>1 DEF Served, Live, W
  <1> QED BY <1>3, <1>4

(* Every step of a call keeps DnsInv. *)
LEMMA StepDns ==
    ASSUME TypeInv, FreshInv, DomainsFixed, PairI, LiveI, KnowInv, CountInv, DnsInv, NEW a \in Callers, Step(a), Frame(a)
    PROVE  DnsInv'
  <1> SUFFICES ASSUME NEW d \in Domains, excuse'[d] = {}
               PROVE  Unique(d)' /\ Backed(d)' /\ Served(d)'
    BY DEF DnsInv, Clean
  <1>1. ~Moved'
    BY DEF Moved
  <1>2. Unique(d)'
    BY <1>1, StepUnique DEF Unique, Live, NextLive
  <1>3. Backed(d)' /\ Served(d)'
    <2>1. CASE d # Row(a).domain
      BY <1>1, <2>1, DnsElsewhere
    <2>2. CASE d = Row(a).domain /\ calls[a].pc \in {"c_key", "c_check"}
      <3>1. site' = site /\ rec' = rec /\ zone' = zone
        BY <2>2, BeforeCheck
      <3>2. Backed(d) /\ Served(d)
        BY DEF DnsInv, Frame, Grows, Clean
      <3> QED
        BY <2>2, <3>1, <3>2, DnsUnwritten DEF Frame
    <2>3. CASE d = Row(a).domain /\ calls[a].pc \notin {"c_key", "c_check"}
      <3>1. Alone(a)
        BY <1>1, <2>3, AloneFacts
      <3>2. OwnFound(a)
        BY <2>3, <3>1, OwnBefore
      <3>3. OwnBacked(a) /\ OwnServed(a)
        BY <2>3, <3>1, <3>2, StepOwn
      <3> QED
        BY <1>1, <2>3, <3>1, <3>3, OwnAfter
    <2> QED BY <2>1, <2>2, <2>3
  <1> QED BY <1>2, <1>3

-----------------------------------------------------------------------------
(* A call begins; the single steps.                                         *)

(* A call that begins keeps the invariants about rows, records and keys. *)
LEMMA BeginRest ==
    ASSUME TypeInv, AckInv, PublishInv, KnowInv, CountInv, DnsInv, HnsInv, TypeInv', NEW a \in Callers, NEW w \in Sites,
           NEW op \in OpNames, Enters(a, w, op)
    PROVE  AckInv' /\ PublishInv' /\ KnowInv' /\ CountInv' /\ DnsInv' /\ HnsInv'
  <1>1. /\ At(a, "idle") /\ Others(a) /\ Grows /\ UNCHANGED <<stores, want, asked>>
        /\ Busy(a)' /\ calls'[a].site = w /\ calls'[a].set = None
        /\ \/ calls'[a].pc \in {"c_key", "c_check"} /\ Fresh(w)
           \/ /\ calls'[a].pc \in {"u_tx", "d_row", "b_save", "v_lookup", "v_token", "h_zone", "j_validate"} /\ Live(w)
              /\ calls'[a].row.domain = site[w].domain /\ calls'[a].row.target = site[w].target
              /\ calls'[a].row.zone = site[w].zone /\ calls'[a].row.enabled = site[w].enabled
        /\ calls'[a].pc = "h_zone" => hns.site = None
    BY DEF Enters, W, Row
  <1>2. site' = site /\ zone' = zone /\ rec' = rec /\ key' = key /\ publishing' = publishing /\ hns' = hns /\ want' = want /\ asked' = asked
    BY <1>1 DEF stores
  <1>3. \A d \in Domains : excuse[d] \subseteq excuse'[d]
    BY <1>1 DEF Grows
  <1>4. ~Moved' => ~Moved
    BY <1>1, MovedGrows
  <1>5. ASSUME NEW b \in Callers, b # a
        PROVE  calls'[b] = calls[b]
    BY <1>1, <1>5 DEF Others
  <1>6. AckInv'
    <2> SUFFICES ASSUME NEW v \in Sites, Live(v), excuse'[site[v].domain] \intersect {"Saves", "Retry", "Moved"} = {}
                 PROVE  /\ Wanted(site[v]) = want[v]
                        /\ \A b \in Callers : calls'[b].site = v /\ calls'[b].pc \in Writers => Wanted(calls'[b].row) = want[v]
      BY <1>2 DEF AckInv, Live, Unsaved, W, Row, Wanted
    <2>1. site[v].domain \in Domains
      BY LiveIsWebsite DEF Website, RowWith, Live, Stored
    <2>2. /\ Wanted(site[v]) = want[v]
          /\ \A b \in Callers : W(b) = v /\ calls[b].pc \in Writers => Wanted(Row(b)) = want[v]
      BY <1>3, <2>1 DEF AckInv, Unsaved
    <2>3. calls'[a].site = v /\ calls'[a].pc \in Writers => Wanted(calls'[a].row) = want[v]
      BY <1>1, <2>2 DEF Wanted, Writers
    <2> QED
      BY <1>5, <2>2, <2>3 DEF W, Row
  <1>7. PublishInv'
    BY <1>1, <1>2, PublishKeep
  <1>8. KnowInv'
    <2> SUFFICES ASSUME ~Moved', NEW b \in Callers, Busy(b)', excuse'[calls'[b].row.domain] = {}
                 PROVE  /\ Knows(calls'[b], site[calls'[b].site])
                        /\ calls'[b].pc \in {"c_insert", "d_records"} => Vacant(calls'[b].row.domain)
      BY <1>2 DEF KnowInv, CallKnows, Clean, Knows, Vacant, Live, W, Row
    <2>1. CASE b = a
      BY <1>1, <2>1 DEF Knows, Unread, PreInsert, Unzoned, Zoned, ValidatePCs
    <2>2. CASE b # a
      <3>1. calls'[b] = calls[b] /\ Busy(b)
        BY <1>5, <2>2 DEF Busy, At
      <3>2. Clean(Row(b).domain)
        BY <1>3, <3>1, CallFields DEF Clean, Row
      <3> QED
        BY <1>4, <3>1, <3>2 DEF KnowInv, CallKnows, W, Row
    <2> QED BY <2>1, <2>2
  <1>9. CountInv'
    <2> SUFFICES ASSUME ~Moved', NEW b \in Callers, calls'[b].pc = "off_zone", NEW v \in Sites \ {calls'[b].site},
                        Live(v), excuse'[site[v].domain] = {}
                 PROVE  site[v].zone # calls'[b].row.zone
      BY <1>2 DEF CountInv, At, Live, Clean, W, Row
    <2>1. calls'[b] = calls[b]
      BY <1>1, <1>5
    <2>2. Clean(site[v].domain)
      BY <1>3, LiveIsWebsite DEF Website, RowWith, Live, Stored, Clean
    <2> QED
      BY <1>4, <2>1, <2>2 DEF CountInv, At, W, Row
  <1>10. DnsInv'
    <2> SUFFICES ASSUME NEW d \in Domains, excuse'[d] = {}
                 PROVE  Unique(d)' /\ Backed(d)' /\ Served(d)'
      BY DEF DnsInv, Clean
    <2>1. Unique(d) /\ Backed(d) /\ Served(d)
      BY <1>3 DEF DnsInv, Clean
    <2>2. Backed(d)' /\ Served(d)'
      BY <1>1, <1>2, <2>1, DnsUnwritten DEF At
    <2> QED
      BY <1>2, <2>1, <2>2 DEF Unique, Live
  <1>11. HnsInv'
    <2>1. HnsStored /\ (Moved \/ (HnsCurrent /\ HnsCalls /\ HnsNew))
      BY DEF HnsInv
    <2>2. HnsStored'
      BY <1>2, <2>1 DEF HnsStored, Stored
    <2>3. ASSUME ~Moved'
          PROVE  HnsCurrent' /\ HnsCalls' /\ HnsNew'
      <3>1. HnsCurrent /\ HnsCalls /\ HnsNew
        BY <1>4, <2>1, <2>3
      <3>2. hns.site # None => hns.site \in Sites /\ Stored(hns.site) /\ site[hns.site].domain \in Domains
        BY <2>1, LiveIsWebsite DEF HnsStored, Website, RowWith
      <3>3. ASSUME hns.site # None, excuse'[site[hns.site].domain] = {}
            PROVE  /\ Live(hns.site)
                   /\ \/ hns.rec = site[hns.site].target /\ hns.cid = site[hns.site].target
                      \/ \E b \in Callers : calls'[b].pc = "u_hns" /\ calls'[b].site = hns.site
        <4>1. Clean(site[hns.site].domain)
          BY <1>3, <3>2, <3>3 DEF Clean
        <4>2. ASSUME NEW b \in Callers, At(b, "u_hns"), W(b) = hns.site
              PROVE  calls'[b].pc = "u_hns" /\ calls'[b].site = hns.site
          BY <1>1, <1>5, <4>2 DEF At, W
        <4> QED
          BY <3>1, <3>3, <4>1, <4>2 DEF HnsCurrent
      <3>4. HnsCurrent'
        BY <1>2, <3>3 DEF HnsCurrent, Clean, Live, At, W
      <3>5. ASSUME NEW b \in Callers, calls'[b].pc \in HnsPCs
            PROVE  /\ hns.site # None => excuse'[site[hns.site].domain] # {} /\ excuse'[calls'[b].row.domain] # {}
                   /\ calls'[b].pc = "h_insert" /\ excuse'[calls'[b].row.domain] = {} => hns.rec = calls'[b].row.target
        <4>1. CASE b = a
          BY <1>1, <3>5, <4>1 DEF HnsPCs
        <4>2. CASE b # a
          <5>1. calls'[b] = calls[b] /\ Row(b).domain \in Domains
            BY <1>5, <3>5, <4>2, BusyRow DEF HnsPCs
          <5> QED
            BY <1>3, <3>1, <3>2, <3>5, <5>1 DEF HnsCalls, Clean, At, Row
        <4> QED BY <4>1, <4>2
      <3>6. HnsCalls'
        BY <1>2, <3>5 DEF HnsCalls, Clean, At, Row
      <3>7. ASSUME NEW b \in Callers, calls'[b].pc \in CreatePCs, hns.site = calls'[b].site
            PROVE  excuse'[calls'[b].row.domain] # {}
        <4>1. CASE b = a
          BY <1>1, <3>2, <3>7, <4>1, WebsitesAssumption DEF CreatePCs, PreInsert, Fresh, Stored, NoSite
        <4>2. CASE b # a
          <5>1. calls'[b] = calls[b] /\ Busy(b)
            BY <1>5, <3>7, <4>2 DEF Busy, At, CreatePCs, PreInsert
          <5> QED
            BY <1>3, <3>1, <3>7, <5>1, CallFields DEF HnsNew, Clean, W, Row
        <4> QED BY <4>1, <4>2
      <3>8. HnsNew'
        BY <1>2, <3>7 DEF HnsNew, Clean, W, Row
      <3> QED BY <3>4, <3>6, <3>8
    <2> QED
      BY <2>2, <2>3 DEF HnsInv
  <1> QED BY <1>6, <1>7, <1>8, <1>9, <1>10, <1>11

\* The steps that change no more than what the other parts do not read.
LEMMA AsideKeeps ==
    ASSUME TypeInv, FreshInv, DomainsFixed, PairI, LiveI, AckInv, KnowInv, CountInv, DnsInv, HnsInv,
           calls' = calls, zone' = zone, rec' = rec, hns' = hns, want' = want, Grows,
           \A w \in Sites : /\ NextStored(w) <=> Stored(w)
                            /\ NextLive(w) <=> Live(w)
                            /\ Stored(w) => /\ site'[w].domain = site[w].domain /\ site'[w].target = site[w].target
                                            /\ site'[w].zone = site[w].zone /\ site'[w].enabled = site[w].enabled
    PROVE  FreshInv' /\ DomainsFixed' /\ PairI' /\ LiveI' /\ AckInv' /\ KnowInv' /\ CountInv' /\ DnsInv' /\ HnsInv'
  <1>1. \A d \in Domains : excuse[d] \subseteq excuse'[d]
    BY DEF Grows
  <1>2. ~Moved' => ~Moved
    BY MovedGrows
  <1>3. \A w \in Sites : Stored(w) => site[w].domain \in Domains
    BY LiveIsWebsite DEF Website, RowWith
  <1>4. \A w \in Sites : (Live(w) => Stored(w)) /\ (NextLive(w) => NextStored(w))
    BY DEF Live, Stored, NextLive, NextStored
  <1>5. \A a \in Callers : Busy(a) => Row(a).domain \in Domains /\ W(a) \in Sites
    BY CallFields
  <1>6. FreshInv'
    BY <1>5 DEF FreshInv, Stored, NextStored, W, Busy, At, PreInsert
  <1>7. DomainsFixed'
    BY <1>2, <1>5 DEF DomainsFixed, Stored, NextStored, W, Row, Busy, At
  <1>8. PairI'
    <2>1. \A a \in Callers : Touches(a) \subseteq Domains
      BY TouchesDomains
    <2>2. \A a \in Callers : Touches(a)' = Touches(a) /\ (Unhosts(a)' <=> Unhosts(a)) /\ (Busy(a)' <=> Busy(a))
      BY DEF Touches, Unhosts, Busy, At, Row
    <2>3. PairInv => PairInv'
      <3> SUFFICES ASSUME PairInv, NEW a \in Callers, NEW b \in Callers, a # b, Busy(a), Busy(b)
                   PROVE  /\ \A d \in Touches(a) \intersect Touches(b) :
                                /\ "Overlap" \in excuse'[d]
                                /\ calls[a].op \in Savers => "Saves" \in excuse'[d]
                          /\ Unhosts(a) => \A d \in Touches(a) \union Touches(b) : "Overlap" \in excuse'[d]
                          /\ calls[a].op = "hns" /\ calls[b].op = "hns" => \A d \in Touches(a) \union Touches(b) : "Overlap" \in excuse'[d]
        BY <2>2 DEF PairInv
      <3> QED
        BY <1>1, <2>1 DEF PairInv
    <2> QED
      BY <1>2, <2>3 DEF PairI
  <1>9. LiveI'
    <2> SUFFICES ASSUME ~Moved', NEW b \in Callers, Busy(b), calls[b].pc \notin PreInsert \union {"d_records"}, ~NextLive(W(b))
                 PROVE  /\ "Overlap" \in excuse'[Row(b).domain]
                        /\ calls[b].op \in Savers => "Saves" \in excuse'[Row(b).domain]
      BY DEF LiveI, LiveInv, NextLive, Live, Row, W, Busy, At
    <2> QED
      BY <1>1, <1>2, <1>5 DEF LiveI, LiveInv
  <1>10. AckInv'
    <2> SUFFICES ASSUME NEW v \in Sites, NextLive(v), excuse'[site'[v].domain] \intersect {"Saves", "Retry", "Moved"} = {}
                 PROVE  /\ Wanted(site'[v]) = want[v]
                        /\ \A b \in Callers : W(b) = v /\ calls[b].pc \in Writers => Wanted(Row(b)) = want[v]
      BY DEF AckInv, Live, NextLive, Unsaved, W, Row, Wanted
    <2>1. Live(v) /\ Unsaved(site[v].domain) /\ site'[v].target = site[v].target /\ site'[v].enabled = site[v].enabled
      BY <1>1, <1>3, <1>4 DEF Unsaved
    <2> QED
      BY <2>1 DEF AckInv, Wanted
  <1>11. KnowInv'
    <2> SUFFICES ASSUME ~Moved', NEW b \in Callers, Busy(b), excuse'[Row(b).domain] = {}
                 PROVE  /\ Knows(calls[b], site'[W(b)])
                        /\ calls[b].pc \in {"c_insert", "d_records"} => NextVacant(Row(b).domain)
      BY DEF KnowInv, CallKnows, Clean, Knows, Vacant, NextVacant, Live, NextLive, W, Row, Busy, At
    <2>1. CallKnows(b)
      BY <1>1, <1>2, <1>5 DEF KnowInv, Clean
    <2>2. Vacant(Row(b).domain) => NextVacant(Row(b).domain)
      BY <1>4 DEF Vacant, NextVacant
    <2>3. CASE Stored(W(b))
      BY <1>5, <2>1, <2>2, <2>3 DEF CallKnows, Knows
    <2>4. CASE ~Stored(W(b))
      <3>1. calls[b].pc \in PreInsert
        BY <2>4 DEF FreshInv
      <3> QED
        BY <2>1, <2>2, <3>1 DEF CallKnows, Knows, Unread, Unzoned, Zoned, ValidatePCs, PreInsert
    <2> QED BY <2>3, <2>4
  <1>12. CountInv'
    <2> SUFFICES ASSUME ~Moved', NEW b \in Callers, At(b, "off_zone"), NEW v \in Sites \ {W(b)}, NextLive(v), excuse'[site'[v].domain] = {}
                 PROVE  site'[v].zone # Row(b).zone
      BY DEF CountInv, At, Live, NextLive, Clean, W, Row
    <2>1. Live(v) /\ Clean(site[v].domain) /\ site'[v].zone = site[v].zone
      BY <1>1, <1>3, <1>4 DEF Clean
    <2> QED
      BY <1>2, <2>1 DEF CountInv
  <1>13. DnsInv'
    <2> SUFFICES ASSUME NEW d \in Domains, excuse'[d] = {}
                 PROVE  Unique(d)' /\ Backed(d)' /\ Served(d)'
      BY DEF DnsInv, Clean
    <2>1. Unique(d) /\ Backed(d) /\ Served(d)
      BY <1>1 DEF DnsInv, Clean
    <2>2. Unique(d)'
      BY <1>4, <2>1 DEF Unique, Live, NextLive
    <2>3. Backed(d)'
      <3> SUFFICES ASSUME NEW z \in Domains, rec[<<z, d>>] # None
                   PROVE  /\ zone[z] = "live"
                          /\ \/ \E w \in Sites : NextLive(w) /\ site'[w].enabled /\ site'[w].domain = d /\ site'[w].zone = z
                             \/ \E b \in Callers : calls[b].pc \in {"d_records", "off_records"} /\ Row(b).domain = d /\ Row(b).zone = z
        BY DEF Backed, Linked, Live, NextLive, Row
      <3> QED
        BY <1>4, <2>1 DEF Backed, Linked
    <2>4. Served(d)'
      <3> SUFFICES ASSUME NEW w \in Sites, NextLive(w), site'[w].enabled, site'[w].zone # None, site'[w].domain = d
                   PROVE  \/ rec[<<site'[w].zone, d>>] = site'[w].target
                          \/ \E b \in Callers : W(b) = w /\ calls[b].pc \in {"c_records", "on_records"}
        BY DEF Served, Live, NextLive, W
      <3> QED
        BY <1>4, <2>1 DEF Served
    <2> QED BY <2>2, <2>3, <2>4
  <1>14. HnsInv'
    <2>1. HnsStored /\ (Moved \/ (HnsCurrent /\ HnsCalls /\ HnsNew))
      BY DEF HnsInv
    <2>2. HnsStored'
      BY <2>1 DEF HnsStored, Stored, NextStored
    <2>3. hns.site # None => hns.site \in Sites /\ Stored(hns.site) /\ site[hns.site].domain \in Domains
      BY <1>3, <2>1 DEF HnsStored
    <2>4. ASSUME ~Moved'
          PROVE  HnsCurrent' /\ HnsCalls' /\ HnsNew'
      <3>1. HnsCurrent /\ HnsCalls /\ HnsNew
        BY <1>2, <2>1, <2>4
      <3>2. ASSUME hns.site # None, excuse'[site'[hns.site].domain] = {}
            PROVE  /\ NextLive(hns.site)
                   /\ \/ hns.rec = site'[hns.site].target /\ hns.cid = site'[hns.site].target
                      \/ \E b \in Callers : At(b, "u_hns") /\ W(b) = hns.site
        BY <1>1, <2>3, <3>1, <3>2 DEF HnsCurrent, Clean
      <3>3. HnsCurrent'
        BY <3>2 DEF HnsCurrent, Clean, Live, NextLive, At, W
      <3>4. ASSUME NEW b \in Callers, calls[b].pc \in HnsPCs
            PROVE  /\ hns.site # None => excuse'[site'[hns.site].domain] # {} /\ excuse'[Row(b).domain] # {}
                   /\ At(b, "h_insert") /\ excuse'[Row(b).domain] = {} => hns.rec = Row(b).target
        <4>1. Row(b).domain \in Domains
          BY <3>4, BusyRow DEF HnsPCs
        <4> QED
          BY <1>1, <2>3, <3>1, <3>4, <4>1 DEF HnsCalls, Clean
      <3>5. HnsCalls'
        BY <3>4 DEF HnsCalls, Clean, At, Row
      <3>6. ASSUME NEW b \in Callers, calls[b].pc \in CreatePCs, hns.site = W(b)
            PROVE  excuse'[Row(b).domain] # {}
        BY <1>1, <1>5, <3>1, <3>6 DEF HnsNew, Clean, Busy, At, CreatePCs, PreInsert
      <3>7. HnsNew'
        BY <3>6 DEF HnsNew, Clean, W, Row
      <3> QED BY <3>3, <3>5, <3>7
    <2> QED
      BY <2>2, <2>4 DEF HnsInv
  <1> QED BY <1>6, <1>7, <1>8, <1>9, <1>10, <1>11, <1>12, <1>13, <1>14

-----------------------------------------------------------------------------
(* The inductive invariant.                                                 *)
IInv ==
    /\ TypeInv /\ FreshInv /\ DomainsFixed /\ PairI /\ LiveI
    /\ AckInv /\ PublishInv /\ KnowInv /\ CountInv /\ DnsInv /\ HnsInv

(* The inductive invariant holds at the start, *)
LEMMA InitInv == Init => IInv
  <1> SUFFICES ASSUME Init PROVE IInv
    OBVIOUS
  <1>1. /\ \A a \in Callers : calls[a] = IdleCall
        /\ \A w \in Sites : site[w] = NoSite
    BY DEF Init
  <1>2. \A a \in Callers : calls[a].pc = "idle" /\ calls[a].op = None /\ calls[a].req = NoRequest
    BY <1>1 DEF IdleCall
  <1>3. \A w \in Sites : site[w].state = "none"
    BY <1>1 DEF NoSite
  <1>4. TypeInv
    <2>1. site \in [Sites -> Website \union {NoSite}] /\ calls \in [Callers -> Call]
      BY IdleTyped DEF Init
    <2>2. zone \in [Domains -> {"none", "live", "deleted"}] /\ key \in [Domains -> Contents \union Domains \union {None, NoKey}]
      BY DEF Init
    <2>3. rec \in [Domains \X Domains -> Target \union {None}]
      BY DEF Init
    <2>4. publishing \subseteq [key : Domains, cid : Contents \union Domains] /\ pinned \subseteq Contents
      BY DEF Init
    <2>5. hns \in [zone : BOOLEAN, rec : Target \union {None}, site : Sites \union {None}, cid : Target \union {None}]
      BY DEF Init, NoHns
    <2>6. /\ want \in [Sites -> [target : Target, enabled : BOOLEAN] \union {None}]
          /\ asked \in [Domains -> Contents \union Domains \union {None}]
          /\ excuse \in [Domains -> SUBSET Excuses]
      BY DEF Init
    <2>7. TypeOK
      BY <2>1, <2>2, <2>3, <2>4, <2>5, <2>6 DEF TypeOK
    <2> QED
      BY <1>1, <1>3, <2>7, IdleTyped DEF TypeInv, Stored
  <1>5. FreshInv /\ DomainsFixed /\ PairI /\ LiveI
    BY <1>2 DEF FreshInv, DomainsFixed, PairI, PairInv, LiveI, LiveInv, PreInsert, Busy, At
  <1>6. AckInv /\ KnowInv /\ CountInv
    BY <1>2, <1>3 DEF AckInv, KnowInv, CountInv, Live, Busy, At
  <1>7. PublishInv
    BY DEF Init, PublishInv
  <1>8. DnsInv
    <2>1. \A z, d \in Domains : rec[<<z, d>>] = None
      BY DEF Init
    <2> QED
      BY <1>3, <2>1 DEF DnsInv, Unique, Backed, Served, Live
  <1>9. HnsInv
    <2>1. hns.site = None
      BY DEF Init, NoHns
    <2> QED
      BY <1>2, <2>1 DEF HnsInv, HnsStored, HnsCurrent, HnsCalls, HnsNew, HnsPCs, CreatePCs, PreInsert
  <1> QED BY <1>4, <1>5, <1>6, <1>7, <1>8, <1>9 DEF IInv

(* when a call begins, *)
LEMMA BeginInv ==
    ASSUME IInv, NEW a \in Callers, NEW w \in Sites,
           \/ \E d \in Domains, on \in BOOLEAN :
                 \E t \in [type : {"ipfs"}, hash : NewContents] \union [type : {"ipns"}, hash : NewContents] :
                    BeginCreate(a, w, d, t, on)
           \/ \E q \in Request : BeginUpdate(a, w, q)
           \/ BeginDelete(a, w) \/ BeginValidate(a, w) \/ BeginBlock(a, w) \/ BeginUnblock(a, w)
           \/ BeginHNSDomain(a, w) \/ BeginJanitor(a, w)
    PROVE  IInv'
  <1>1. PICK op \in OpNames : Enters(a, w, op)
    BY BeginEnters DEF IInv
  <1>2. TypeInv'
    BY CreateTyped, BeginTyped DEF IInv
  <1> QED
    BY <1>1, <1>2, BeginEasy, BeginRest DEF IInv

(* after every step of a call, *)
LEMMA StepInv ==
    ASSUME IInv, NEW a \in Callers, Step(a)
    PROVE  IInv'
  <1>1. TypeInv' /\ Frame(a)
    BY StepTyped, StepFrame DEF IInv
  <1>2. FreshInv' /\ DomainsFixed' /\ PairI' /\ LiveI'
    BY <1>1, StepFresh, StepDomains, StepPair, StepLive DEF IInv
  <1>3. AckInv' /\ PublishInv'
    BY <1>1, StepAck, StepPublish DEF IInv
  <1>4. KnowInv' /\ CountInv'
    BY <1>1, StepKnow, StepCount DEF IInv
  <1>5. DnsInv' /\ HnsInv'
    BY <1>1, StepDns, StepHns DEF IInv
  <1> QED BY <1>1, <1>2, <1>3, <1>4, <1>5 DEF IInv

(* after certificate reports, unpins and publications, *)
LEMMA AsideInv ==
    ASSUME IInv,
           \/ \E w \in Sites, ready \in BOOLEAN : UpdateSSLStatus(w, ready)
           \/ \E c \in Contents : Unpin(c)
           \/ \E p \in publishing : Publish(p)
           \/ UNCHANGED vars
    PROVE  IInv'
  <1>1. TypeInv'
    BY OtherTyped DEF IInv
  <1>2. Grows
    BY BlameGrows, SameGrows DEF IInv, UpdateSSLStatus, Unpin, Publish, vars
  <1>3. calls' = calls /\ zone' = zone /\ rec' = rec /\ hns' = hns /\ want' = want
    BY DEF UpdateSSLStatus, Unpin, Publish, vars, stores
  <1>4. \A w \in Sites : /\ NextStored(w) <=> Stored(w)
                         /\ NextLive(w) <=> Live(w)
                         /\ Stored(w) => /\ site'[w].domain = site[w].domain /\ site'[w].target = site[w].target
                                         /\ site'[w].zone = site[w].zone /\ site'[w].enabled = site[w].enabled
    <2>1. CASE site' = site
      BY <2>1 DEF NextStored, Stored, NextLive, Live
    <2>2. ASSUME NEW w \in Sites, NEW ready \in BOOLEAN, UpdateSSLStatus(w, ready)
          PROVE  \A v \in Sites : /\ NextStored(v) <=> Stored(v)
                                  /\ NextLive(v) <=> Live(v)
                                  /\ Stored(v) => /\ site'[v].domain = site[v].domain /\ site'[v].target = site[v].target
                                                  /\ site'[v].zone = site[v].zone /\ site'[v].enabled = site[v].enabled
      <3>1. site' = [site EXCEPT ![w].ssl = ready] /\ Live(w)
        BY <2>2 DEF UpdateSSLStatus
      <3>2. site[w] \in Website
        BY <3>1, LiveIsWebsite DEF IInv, Live, Stored
      <3>3. site'[w] = [site[w] EXCEPT !.ssl = ready] /\ \A v \in Sites \ {w} : site'[v] = site[v]
        BY <3>1 DEF IInv, TypeInv, TypeOK
      <3>4. /\ site'[w].state = site[w].state /\ site'[w].domain = site[w].domain /\ site'[w].target = site[w].target
            /\ site'[w].zone = site[w].zone /\ site'[w].enabled = site[w].enabled
        BY <3>2, <3>3 DEF Website, RowWith
      <3> QED
        BY <3>3, <3>4 DEF NextStored, Stored, NextLive, Live
    <2>3. site' = site \/ \E w \in Sites, ready \in BOOLEAN : UpdateSSLStatus(w, ready)
      BY DEF Unpin, Publish, vars, stores
    <2> QED BY <2>1, <2>2, <2>3
  <1>5. PublishInv'
    <2>1. CASE \E p \in publishing : Publish(p)
      BY <2>1, EndPublish DEF IInv
    <2>2. CASE ~\E p \in publishing : Publish(p)
      <3>1. UNCHANGED <<key, publishing, asked>>
        BY <2>2 DEF UpdateSSLStatus, Unpin, vars, stores
      <3> QED
        BY <1>2, <3>1, PublishKeep DEF IInv
    <2> QED BY <2>1, <2>2
  <1>6. FreshInv' /\ DomainsFixed' /\ PairI' /\ LiveI' /\ AckInv' /\ KnowInv' /\ CountInv' /\ DnsInv' /\ HnsInv'
    BY <1>2, <1>3, <1>4, AsideKeeps DEF IInv
  <1> QED BY <1>1, <1>5, <1>6 DEF IInv

(* and so after every step. *)
LEMMA NextInv == IInv /\ [Next]_vars => IInv'
  <1> SUFFICES ASSUME IInv, [Next]_vars PROVE IInv'
    OBVIOUS
  <1>1. ASSUME NEW a \in Callers, NEW w \in Sites,
               \/ \E d \in Domains, on \in BOOLEAN :
                     \E t \in [type : {"ipfs"}, hash : NewContents] \union [type : {"ipns"}, hash : NewContents] :
                        BeginCreate(a, w, d, t, on)
               \/ \E q \in Request : BeginUpdate(a, w, q)
               \/ BeginDelete(a, w) \/ BeginValidate(a, w) \/ BeginBlock(a, w) \/ BeginUnblock(a, w)
               \/ BeginHNSDomain(a, w) \/ BeginJanitor(a, w)
        PROVE  IInv'
    BY <1>1, BeginInv
  <1>2. ASSUME NEW a \in Callers, Step(a)
        PROVE  IInv'
    BY <1>2, StepInv
  <1>3. CASE \/ \E w \in Sites, ready \in BOOLEAN : UpdateSSLStatus(w, ready)
             \/ \E c \in Contents : Unpin(c)
             \/ \E p \in publishing : Publish(p)
             \/ UNCHANGED vars
    BY <1>3, AsideInv
  <1>4. CASE Next
    BY <1>1, <1>2, <1>3, <1>4 DEF Next, Finished
  <1> QED BY <1>3, <1>4

(* No call is at work on a settled domain. *)
LEMMA QuietDomain ==
    ASSUME IInv, NEW d \in Domains, Settled(d), NEW a \in Callers, Busy(a)
    PROVE  /\ Row(a).domain # d
           /\ Stored(W(a)) => site[W(a)].domain # d
  <1>1. Row(a).domain # d
    BY DEF Settled, Quiet, Touches, Busy
  <1>2. ~Moved
    BY DEF Settled, Moved
  <1> QED
    BY <1>1, <1>2 DEF IInv, DomainsFixed

(* The inductive invariant has HostedIsServed for the settled domains, *)
LEMMA InvHosted == IInv => HostedIsServed
  <1> SUFFICES ASSUME IInv PROVE HostedIsServed
    OBVIOUS
  <1>1. ASSUME NEW w \in Sites, Live(w), site[w].enabled, site[w].zone # None, Settled(site[w].domain)
        PROVE  rec[<<site[w].zone, site[w].domain>>] = site[w].target
    <2>1. site[w].domain \in Domains /\ Stored(w)
      BY <1>1, LiveIsWebsite DEF IInv, Website, RowWith, Live, Stored
    <2>2. Served(site[w].domain)
      BY <1>1, <2>1 DEF IInv, DnsInv, Clean, Settled
    <2>3. ASSUME NEW b \in Callers, W(b) = w, calls[b].pc \in {"c_records", "on_records"}
          PROVE  FALSE
      BY <1>1, <2>1, <2>3, QuietDomain DEF Busy, At
    <2> QED
      BY <1>1, <2>2, <2>3 DEF Served
  <1>2. ASSUME NEW z \in Domains, NEW d \in Domains, rec[<<z, d>>] # None, Settled(d)
        PROVE  \E w \in Sites : Live(w) /\ site[w].enabled /\ site[w].domain = d /\ site[w].zone = z
    <2>1. Linked(z, d)
      BY <1>2 DEF IInv, DnsInv, Clean, Settled, Backed
    <2>2. ASSUME NEW b \in Callers, calls[b].pc \in {"d_records", "off_records"}, Row(b).domain = d
          PROVE  FALSE
      BY <1>2, <2>2, QuietDomain DEF Busy, At
    <2> QED
      BY <2>1, <2>2 DEF Linked
  <1> QED BY <1>1, <1>2 DEF HostedIsServed

(* HnsFollows, *)
LEMMA InvHns == IInv => HnsFollows
  <1> SUFFICES ASSUME IInv, hns.site # None, Settled(site[hns.site].domain)
               PROVE  Live(hns.site) /\ hns.rec = site[hns.site].target /\ hns.cid = site[hns.site].target
    BY DEF HnsFollows
  <1>1. hns.site \in Sites /\ Stored(hns.site)
    BY DEF IInv, HnsInv, HnsStored
  <1>2. site[hns.site].domain \in Domains
    BY <1>1, LiveIsWebsite DEF IInv, Website, RowWith
  <1>3. ~Moved
    BY <1>2 DEF Settled, Moved
  <1>4. HnsCurrent
    BY <1>3 DEF IInv, HnsInv
  <1>5. ASSUME NEW b \in Callers, At(b, "u_hns"), W(b) = hns.site
        PROVE  FALSE
    BY <1>1, <1>2, <1>5, QuietDomain DEF Busy, At
  <1> QED
    BY <1>4, <1>5 DEF HnsCurrent, Clean, Settled

(* and the other properties. *)
LEMMA InvRest == IInv => TypeOK /\ PublishedIsAsked /\ AckedIsKept
  BY DEF IInv, TypeInv, PublishInv, PublishedIsAsked, AckInv, AckedIsKept, Unsaved

(* The inductive invariant holds in every reachable state. *)
LEMMA Inductive == Spec => []IInv
  <1>1. IInv /\ [Next]_vars => IInv'
    BY NextInv
  <1> QED BY InitInv, <1>1, PTL DEF Spec

-----------------------------------------------------------------------------
(* The rows, the zones, the keys and the calls of the website service have  *)
(* the shapes the code gives them (website.go, hns.go, models/website.go).  *)
THEOREM TypeCorrect == Spec => []TypeOK
  BY Inductive, InvRest, PTL

(* Whatever requests, certificate reports, administrators, validations and  *)
(* the janitor do, on any number of websites and in any number of calls at  *)
(* once: a live, hosted website is in DNS with its target once the calls on *)
(* its domain have ended, and no DNSLink is left that belongs to none       *)
(* (website.go:229-295, 729-916), for every domain without an excuse.       *)
THEOREM HostedWebsitesAreServed == Spec => []HostedIsServed
  BY Inductive, InvHosted, PTL

(* The DNSLink and the row of the HNS name have the target of its website,  *)
(* which is alive (hns.go:235-335, 397-434), for every such domain.         *)
THEOREM HnsNamesFollow == Spec => []HnsFollows
  BY Inductive, InvHns, PTL

(* The last CID asked for under a key is the one that is published under it *)
(* in the end (website.go:492-526, 588-615, 648-664).                       *)
THEOREM PublishedAsAsked == Spec => []PublishedIsAsked
  BY Inductive, InvRest, PTL

(* Nothing that is written from a copy of a row takes back the target or    *)
(* the hosting flag of an acknowledged update, but a whole row saved by an  *)
(* overlapping call (website.go:1254, janitor.go:208).                      *)
THEOREM AcknowledgedIsKept == Spec => []AckedIsKept
  BY Inductive, InvRest, PTL
=============================================================================
