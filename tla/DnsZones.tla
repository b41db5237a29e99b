------------------------------ MODULE DnsZones ------------------------------
(***************************************************************************)
(* DNS zones (internal/service/dns).  A zone is a row in the database,     *)
(* which is soft-deleted and restored, and a zone in PowerDNS, which holds *)
(* the records; no transaction spans the two.  Users, website operations   *)
(* and the janitor work on the same zones, and a call reads the row long   *)
(* before it writes it: PowerDNS requests and DNS lookups lie between.     *)
(*                                                                         *)
(* A row belongs to a domain as it was spelled, with a final dot or        *)
(* without, and in the letter case that the database tells apart; its      *)
(* unique index (MySQL) counts deleted rows too.  PowerDNS knows the name  *)
(* in canonical form, so that rows of several spellings, and of several    *)
(* users, can share one zone there.  A zone has one record here, say its   *)
(* DNSLink.  DNSSEC keys and the check timestamps are left out.            *)
(***************************************************************************)
EXTENDS Integers, FiniteSets

CONSTANTS Domains,     \* domains as the database tells them apart
          Names,       \* names of zones in PowerDNS
          Canonical,   \* the name of each domain
          Users,
          Contents,    \* what a record can say
          Callers,     \* calls of the service that may be in flight together
          None,
          MaxCalls     \* bound on the calls ever begun

ASSUME ZonesAssumption ==
    /\ IsFiniteSet(Domains) /\ IsFiniteSet(Callers) /\ MaxCalls \in Nat
    /\ Canonical \in [Domains -> Names]
    /\ None \notin Users \union Contents \union Domains

VARIABLES zone,      \* the ipfs_dns_zones row of a domain
          pdns,      \* names that have a zone in PowerDNS
          record,    \* the record in the PowerDNS zone
          calls,     \* calls in flight, with the row they read last
          ncalls,    \* calls begun
          excuse     \* history: what went wrong for a name (Failed, Race, Shared)

vars == <<zone, pdns, record, calls, ncalls, excuse>>

NoRow == [state |-> "none", owner |-> None, status |-> None]
ZoneRow == [state : {"live", "deleted"}, owner : Users,
            status : {"pending_nameserver", "active"}]

NewRow(u) == [state |-> "live", owner |-> u, status |-> "pending_nameserver"]

Ops == {"create", "delete", "validate", "janitor", "update", "write"}
Pcs == {"idle", "get", "create", "insert", "duplicate", "recreate", "restore", "undo",
        "remove", "row", "lookup", "save", "column", "patch", "ok"}
Call == [pc : Pcs, op : Ops \union {None}, zone : Domains \union {None},
         user : Users \union {None}, copy : ZoneRow \union {NoRow}, valid : BOOLEAN,
         content : Contents \union {None}]
IdleCall == [pc |-> "idle", op |-> None, zone |-> None, user |-> None, copy |-> NoRow,
             valid |-> FALSE, content |-> None]

Init ==
    /\ zone = [z \in Domains |-> NoRow]
    /\ pdns = {}
    /\ record = [n \in Names |-> None]
    /\ calls = [a \in Callers |-> IdleCall]
    /\ ncalls = 0
    /\ excuse = [n \in Names |-> {}]

Spellings(n) == {z \in Domains : Canonical[z] = n}

Z(a) == calls[a].zone
P(a) == Canonical[Z(a)]   \* the zone's name in PowerDNS
Goto(a, pc) == calls' = [calls EXCEPT ![a].pc = pc]
Fail(a) == calls' = [calls EXCEPT ![a] = IdleCall]

\* GetZone does not see deleted rows, GetZoneByDomain does.
GetZone(z) == zone[z].state = "live"
GetZoneByDomain(z) == zone[z].state # "none"
-----------------------------------------------------------------------------
(* History: a request or a write failed; a deletion overlapped with a call  *)
(* that writes a row of the name; a deletion removed the PowerDNS zone that *)
(* a live row of another spelling needs.                                    *)
Blame(n, what) == excuse' = [excuse EXCEPT ![n] = @ \union {what}]

Shared(z) == {x \in {"Shared"} : \E y \in Spellings(Canonical[z]) \ {z} : zone[y].state = "live"}

RowOps == {"validate", "janitor", "update", "create", "delete"}

Overlaps(z, op) ==
    LET others == {calls[b].op : b \in {c \in Callers : calls[c].zone \in Spellings(Canonical[z])}} \intersect RowOps
    IN IF op \notin RowOps THEN {}
       ELSE {x \in {"Race"} : others # {} /\ "delete" \in others \union {op}}

\* A call begins.  The endpoints of zones that exist check first that the
\* caller owns them (verifyZoneOwnership).
Begin(a, op, z, u, c) ==
    /\ calls[a].pc = "idle" /\ ncalls < MaxCalls
    /\ op \in {"create", "janitor"} \/ (GetZone(z) /\ zone[z].owner = u)
    /\ op = "janitor" => GetZone(z) /\ zone[z].status = "pending_nameserver"
    /\ calls' = [calls EXCEPT ![a] = [pc |-> "get", op |-> op, zone |-> z, user |-> u,
                                      copy |-> NoRow, valid |-> op = "update",
                                      content |-> c]]
    /\ ncalls' = ncalls + 1
    /\ excuse' = [excuse EXCEPT ![Canonical[z]] = @ \union Overlaps(z, op)]
    /\ UNCHANGED <<zone, pdns, record>>

\* What a call does once it has read the row.
AfterGet(op) == CASE op = "delete" -> "remove" [] op \in {"validate", "janitor"} -> "lookup"
                  [] op = "update" -> "save" [] op = "write" -> "patch"

Get(a) ==
    /\ calls[a].pc = "get" /\ calls[a].op # "create"
    /\ IF GetZone(Z(a))
       THEN calls' = [calls EXCEPT ![a].pc = AfterGet(calls[a].op), ![a].copy = zone[Z(a)]]
       ELSE Fail(a)
    /\ UNCHANGED <<zone, pdns, record, ncalls, excuse>>

\* The database does not answer the read.
ReadFails(a) ==
    /\ calls[a].pc \in {"get", "duplicate"}
    /\ Fail(a)
    /\ UNCHANGED <<zone, pdns, record, ncalls, excuse>>

\* The caller has seen the result.
Return(a) ==
    /\ calls[a].pc = "ok"
    /\ Fail(a)
    /\ UNCHANGED <<zone, pdns, record, ncalls, excuse>>
-----------------------------------------------------------------------------
(* CreateZone.                                                              *)

\* Mutant of TakeExisting: the row of another user is taken too.
TakeAnyones(a) ==
    Goto(a, IF zone[Z(a)].state = "live" THEN "ok" ELSE "recreate")

\* There is a row: another user's is refused, a live one returned, a deleted
\* one restored.
TakeExisting(a) ==
    IF zone[Z(a)].owner # calls[a].user THEN Fail(a)
    ELSE Goto(a, IF zone[Z(a)].state = "live" THEN "ok" ELSE "recreate")

CreateZone(a) ==
    /\ calls[a].pc = "get" /\ calls[a].op = "create"
    /\ IF GetZoneByDomain(Z(a)) THEN TakeExisting(a) ELSE Goto(a, "create")
    /\ UNCHANGED <<zone, pdns, record, ncalls, excuse>>

\* PowerDNS creates the zone, or answers that it has it, with its records.
CreatePowerDNSZone(a) ==
    /\ calls[a].pc \in {"create", "recreate"}
    /\ pdns' = pdns \union {P(a)}
    /\ Goto(a, IF calls[a].pc = "create" THEN "insert" ELSE "restore")
    /\ UNCHANGED <<zone, record, ncalls, excuse>>

\* An error, which a request that PowerDNS has carried out may end with too.
CreatePowerDNSFails(a) ==
    /\ calls[a].pc \in {"create", "recreate"}
    /\ Fail(a)
    /\ \/ UNCHANGED <<pdns, excuse>>
       \/ pdns' = pdns \union {P(a)} /\ Blame(P(a), "Failed")
    /\ UNCHANGED <<zone, record, ncalls>>

\* Mutant of InsertRow: a duplicate key is reported as a failure, after the
\* PowerDNS zone was cleaned up.
InsertRowCleanup(a) ==
    /\ calls[a].pc = "insert"
    /\ IF GetZoneByDomain(Z(a))
       THEN zone' = zone /\ Fail(a) /\ pdns' = pdns \ {P(a)}
       ELSE /\ zone' = [zone EXCEPT ![Z(a)] = NewRow(calls[a].user)]
            /\ Goto(a, "ok") /\ UNCHANGED pdns
    /\ UNCHANGED <<record, ncalls, excuse>>

\* Mutant of InsertRow: a deleted row is no duplicate, and is overwritten.
InsertOverDeleted(a) ==
    /\ calls[a].pc = "insert"
    /\ IF GetZone(Z(a))
       THEN Goto(a, "duplicate") /\ UNCHANGED zone
       ELSE /\ zone' = [zone EXCEPT ![Z(a)] = NewRow(calls[a].user)]
            /\ Goto(a, "ok")
    /\ UNCHANGED <<pdns, record, ncalls, excuse>>

\* A duplicate key means that another call was faster.
InsertRow(a) ==
    /\ calls[a].pc = "insert"
    /\ IF GetZoneByDomain(Z(a))
       THEN Goto(a, "duplicate") /\ UNCHANGED zone
       ELSE /\ zone' = [zone EXCEPT ![Z(a)] = NewRow(calls[a].user)]
            /\ Goto(a, "ok")
    /\ UNCHANGED <<pdns, record, ncalls, excuse>>

\* Another error: the PowerDNS zone stays behind.
InsertFails(a) ==
    /\ calls[a].pc = "insert"
    /\ Fail(a)
    /\ Blame(P(a), "Failed")
    /\ UNCHANGED <<zone, pdns, record, ncalls>>

TakeDuplicate(a) ==
    /\ calls[a].pc = "duplicate"
    /\ TakeExisting(a)
    /\ UNCHANGED <<zone, pdns, record, ncalls, excuse>>

RestoreRow(a) ==
    /\ calls[a].pc = "restore"
    /\ zone' = [zone EXCEPT ![Z(a)].state = "live", ![Z(a)].status = "pending_nameserver"]
    /\ Goto(a, "ok")
    /\ UNCHANGED <<pdns, record, ncalls, excuse>>

RestoreFails(a) ==
    /\ calls[a].pc = "restore"
    /\ Goto(a, "undo")
    /\ Blame(P(a), "Failed")
    /\ UNCHANGED <<zone, pdns, record, ncalls>>

RemoveFromPowerDNS(n) ==
    /\ pdns' = pdns \ {n}
    /\ record' = [record EXCEPT ![n] = None]

\* The PowerDNS zone is deleted again; its failure is only logged.
UndoRestore(a) ==
    /\ calls[a].pc = "undo"
    /\ RemoveFromPowerDNS(P(a)) \/ UNCHANGED <<pdns, record>>
    /\ Fail(a)
    /\ UNCHANGED <<zone, ncalls, excuse>>
-----------------------------------------------------------------------------
(* DeleteZone: PowerDNS first, then the row.  An error of PowerDNS is       *)
(* logged, a status other than success is not even noticed.                 *)
DeletePowerDNSZone(a) ==
    /\ calls[a].pc = "remove"
    /\ RemoveFromPowerDNS(P(a))
    /\ excuse' = [excuse EXCEPT ![P(a)] = @ \union Shared(Z(a))]
    /\ Goto(a, "row")
    /\ UNCHANGED <<zone, ncalls>>

DeletePowerDNSFails(a) ==
    /\ calls[a].pc = "remove"
    /\ Goto(a, "row")
    /\ Blame(P(a), "Failed")
    /\ UNCHANGED <<zone, pdns, record, ncalls>>

DeleteRow(a) ==
    /\ calls[a].pc = "row"
    /\ zone' = [zone EXCEPT ![Z(a)].state = "deleted"]
    /\ Goto(a, "ok")
    /\ UNCHANGED <<pdns, record, ncalls, excuse>>

DeleteRowFails(a) ==
    /\ calls[a].pc = "row"
    /\ Fail(a)
    /\ Blame(P(a), "Failed")
    /\ UNCHANGED <<zone, pdns, record, ncalls>>
-----------------------------------------------------------------------------
(* ValidateNameservers, for a user or the janitor, and UpdateZone save the  *)
(* whole row as they read it, with the status changed or not.               *)

\* The nameservers are not the approved ones, or there was no answer.
LookupFails(a) ==
    /\ calls[a].pc = "lookup"
    /\ Goto(a, "save")
    /\ UNCHANGED <<zone, pdns, record, ncalls, excuse>>

LookupNS(a) ==
    /\ calls[a].pc = "lookup"
    /\ calls' = [calls EXCEPT ![a].pc = "save", ![a].valid = TRUE]
    /\ UNCHANGED <<zone, pdns, record, ncalls, excuse>>

\* A whole row written over a deleted one may bring it back: the update finds
\* no row, and gorm falls back to an insert that overwrites.
Saved(z, row) == IF GetZone(z) THEN {row} ELSE {row, zone[z]}

Save(a) ==
    LET z == Z(a)
        row == IF calls[a].valid THEN [calls[a].copy EXCEPT !.status = "active"] ELSE calls[a].copy
    IN /\ calls[a].pc = "save"
       /\ \E new \in Saved(z, row) : zone' = [zone EXCEPT ![z] = new]
       /\ Goto(a, IF calls[a].op = "janitor" /\ calls[a].valid THEN "column" ELSE "ok")
       /\ UNCHANGED <<pdns, record, ncalls, excuse>>

SaveFails(a) ==
    /\ calls[a].pc = "save"
    /\ Fail(a)
    /\ UNCHANGED <<zone, pdns, record, ncalls, excuse>>

\* The janitor writes the status once more, into a row that is not deleted;
\* a failure is only logged.
UpdateStatus(a) ==
    /\ calls[a].pc = "column"
    /\ \/ GetZone(Z(a)) /\ zone' = [zone EXCEPT ![Z(a)].status = "active"]
       \/ UNCHANGED zone
    /\ Goto(a, "ok")
    /\ UNCHANGED <<pdns, record, ncalls, excuse>>
-----------------------------------------------------------------------------
(* Records are written and deleted in PowerDNS only.  The client does not   *)
(* see that a request is refused, which one for a missing zone always is.   *)
UpdateZoneRRSets(a) ==
    /\ calls[a].pc = "patch"
    /\ \/ P(a) \in pdns /\ record' = [record EXCEPT ![P(a)] = calls[a].content]
       \/ UNCHANGED record
    /\ Goto(a, "ok")
    /\ UNCHANGED <<zone, pdns, ncalls, excuse>>

\* No answer, whether or not the request was carried out.
UpdateZoneRRSetsFails(a) ==
    /\ calls[a].pc = "patch"
    /\ Fail(a)
    /\ \/ P(a) \in pdns /\ record' = [record EXCEPT ![P(a)] = calls[a].content]
       \/ UNCHANGED record
    /\ UNCHANGED <<zone, pdns, ncalls, excuse>>
-----------------------------------------------------------------------------
\* Every call that is allowed has been made, and none is stuck half way.
Finished ==
    /\ ncalls = MaxCalls /\ \A a \in Callers : calls[a].pc = "idle"
    /\ UNCHANGED vars

Next ==
    \/ \E a \in Callers :
          \/ \E z \in Domains, u \in Users, op \in Ops \ {"write"} : Begin(a, op, z, u, None)
          \/ \E z \in Domains, u \in Users, c \in Contents \union {None} : Begin(a, "write", z, u, c)
          \/ Get(a) \/ ReadFails(a) \/ Return(a)
          \/ CreateZone(a) \/ CreatePowerDNSZone(a) \/ CreatePowerDNSFails(a)
          \/ InsertRow(a) \/ InsertFails(a) \/ TakeDuplicate(a)
          \/ RestoreRow(a) \/ RestoreFails(a) \/ UndoRestore(a)
          \/ DeletePowerDNSZone(a) \/ DeletePowerDNSFails(a) \/ DeleteRow(a) \/ DeleteRowFails(a)
          \/ LookupNS(a) \/ LookupFails(a) \/ Save(a) \/ SaveFails(a) \/ UpdateStatus(a)
          \/ UpdateZoneRRSets(a) \/ UpdateZoneRRSetsFails(a)
    \/ Finished

Spec == Init /\ [][Next]_vars
-----------------------------------------------------------------------------
TypeOK ==
    /\ zone \in [Domains -> ZoneRow \union {NoRow}]
    /\ pdns \subseteq Names
    /\ record \in [Names -> Contents \union {None}]
    /\ calls \in [Callers -> Call]
    /\ ncalls \in 0 .. MaxCalls
    /\ excuse \in [Names -> SUBSET {"Failed", "Race", "Shared"}]

Working(n) == \E a \in Callers : Z(a) \in Spellings(n) /\ calls[a].op \in RowOps /\ calls[a].pc # "ok"

(* Between calls PowerDNS has exactly the zones of which a row is alive, so *)
(* that nothing is served for a deleted zone and a live one can hold        *)
(* records: also when several CreateZone calls, of several users and for    *)
(* several spellings of a name, create or restore one zone together         *)
(* (dns_service_zone.go:60-97, 677-717, powerdns_client.go:107-121).        *)
(* Excepted are names for which a request or a write failed, those for      *)
(* which a deletion overlapped with another call, and those of which the    *)
(* row of one spelling was deleted while that of another was alive: the two *)
(* share the zone, and the deletion takes it from both.                     *)
ZonesAgree ==
    \A n \in Names : ~Working(n) /\ excuse[n] \intersect {"Failed", "Race", "Shared"} = {} =>
        ((\E z \in Spellings(n) : GetZone(z)) <=> n \in pdns)

Exists(z) == zone[z].state # "none"

(* CreateZone returns a row that is the caller's own for the domain as the  *)
(* caller spells it, whoever was faster at each step: the owner is checked  *)
(* when the row is looked up, and PowerDNS and the database are written     *)
(* requests later (dns_service_zone.go:38-48, 76-96, 677-717).  It is still *)
(* the caller's when the call returns.  Nothing is said of the zone in      *)
(* PowerDNS: the owner is looked up under the raw spelling (:143) and a     *)
(* zone that PowerDNS has already is handed out (powerdns_client.go:81,     *)
(* 107-121), so under another spelling of the name it can be another user's *)
(* too.                                                                     *)
CreatedIsOwned ==
    \A a \in Callers : calls[a].op = "create" /\ calls[a].pc = "ok" =>
        Exists(Z(a)) /\ zone[Z(a)].owner = calls[a].user

RowsKept ==
    \A z \in Domains : Exists(z) => Exists(z)' /\ zone'[z].owner = zone[z].owner

(* A domain never changes hands: whoever has a zone's row, live or deleted, *)
(* keeps it, also when two users insert it together (dns_service_zone.go:   *)
(* 73-99) and when ValidateNameservers or UpdateZone saves a whole row that *)
(* was read before another call deleted, restored or saved it.              *)
OwnersKept == [][RowsKept]_vars
=============================================================================
