------------------------------ MODULE Websites ------------------------------
(***************************************************************************)
(* Websites (internal/service/website).  A website is a row that binds a   *)
(* domain to a target, a CID or an IPNS key.  The service keeps four other *)
(* things in step with it, none of them in the row's transaction: the      *)
(* DNSLink record of the domain in a hosted zone, which a subdomain shares *)
(* with its parent; the CID last published under the domain's own key,     *)
(* which is published in the background; the zone and row of a Handshake   *)
(* (HNS) name; and the status, which users, the administrator, the DNS     *)
(* validation and the janitor write.                                       *)
(*                                                                         *)
(* One user, one HNS name, and two domains, one the parent of the other.   *)
(* A request changes one thing.  Tokens and timestamps are left out:       *)
(* whether a token has expired is left to chance.  Zones are as DnsZones   *)
(* has them, keys are named after the domain they were made for.           *)
(***************************************************************************)
EXTENDS Integers, FiniteSets

CONSTANTS Sites,       \* website ids
          Apex, Sub,   \* domains; Apex is the parent of Sub
          Contents,    \* CIDs
          NewContents, \* CIDs a website is created with
          NextContents, \* CIDs it is updated to
          Callers,     \* calls that may be in flight together
          None,
          Ops,         \* the operations a run considers
          MaxCalls,    \* bound on the calls ever begun
          OneFault     \* bound: one request or write fails in a behaviour, of a
                       \* call that is alone, and no call begins after that

ASSUME WebsitesAssumption ==
    /\ Apex # Sub /\ {Apex, Sub} \intersect Contents = {}
    /\ None \notin Sites \union Contents \union {Apex, Sub}
    /\ None \notin [type : {"ipfs", "ipns"}, hash : Contents \union {Apex, Sub}]
    /\ NewContents \union NextContents \subseteq Contents /\ MaxCalls \in Nat /\ OneFault \in BOOLEAN

Domains == {Apex, Sub}

VARIABLES site,        \* the ipfs_websites rows
          zone,        \* the DNS zone of a domain: none, live or deleted
          rec,         \* DNSLink in a zone for a domain
          key,         \* CID last published under the key of a domain, None, or NoKey
          publishing,  \* publications in the background
          hns,         \* the HNS name: its zone, its DNSLink, its row
          pinned,      \* CIDs the user has pinned
          calls,       \* calls in flight
          ncalls,      \* calls begun
          want,        \* history: target and hosting flag last acknowledged
          asked,       \* history: CID last asked for under a key
          excuse       \* history: what went wrong for a domain

stores == <<site, zone, rec, key, publishing, hns>>
vars == <<site, zone, rec, key, publishing, hns, pinned, calls, ncalls, want, asked, excuse>>

NoKey == "nokey"
Target == [type : {"ipfs"}, hash : Contents] \union [type : {"ipns"}, hash : Domains]
IPFS(c) == [type |-> "ipfs", hash |-> c]
IPNS(k) == [type |-> "ipns", hash |-> k]

RowWith(targets) ==
    [state : {"live", "deleted"}, domain : Domains, target : targets,
     status : {"pending_validation", "active", "broken", "blocked"},
     zone : Domains \union {None}, key : Domains \union {None},
     enabled : BOOLEAN, ssl : BOOLEAN]
Website == RowWith(Target)
NoSite == [state |-> "none"]

\* A request: a target (a CID with either type, or a key, which is taken as an
\* IPNS name whatever the type), a type alone, another domain, hosting on or off.
Request == [kind : {"target"}, type : {"ipfs", "ipns"}, hash : NextContents]
           \union [kind : {"target"}, type : {"ipns"}, hash : Domains]
           \union [kind : {"type"}, type : {"ipfs", "ipns"}]
           \union [kind : {"domain"}, domain : Domains]
           \union [kind : {"dns"}, on : BOOLEAN]
NoRequest == [kind |-> "none"]

IdleCall == [pc |-> "idle", op |-> None, site |-> None, row |-> NoSite, req |-> NoRequest,
             set |-> None, setkey |-> None, changed |-> "no", retried |-> FALSE]
NoHns == [zone |-> FALSE, rec |-> None, site |-> None, cid |-> None]

Init ==
    /\ site = [w \in Sites |-> NoSite]
    /\ zone = [d \in Domains |-> "none"]
    /\ rec = [d \in Domains \X Domains |-> None]
    /\ key = [d \in Domains |-> NoKey]
    /\ publishing = {}
    /\ hns = NoHns
    /\ pinned = Contents
    /\ calls = [a \in Callers |-> IdleCall]
    /\ ncalls = 0
    /\ want = [w \in Sites |-> None]
    /\ asked = [d \in Domains |-> None]
    /\ excuse = [d \in Domains |-> {}]
-----------------------------------------------------------------------------
(* Helpers.                                                                 *)
Live(w) == site[w].state = "live"
W(a) == calls[a].site
Row(a) == calls[a].row
At(a, pc) == calls[a].pc = pc
Goto(a, pc) == calls' = [calls EXCEPT ![a].pc = pc]
Done(a) == calls' = [calls EXCEPT ![a] = IdleCall]
\* No request or write has failed; what the bound OneFault lets fail.
Faultless == \A d \in Domains : excuse[d] \intersect {"Failed", "Retry"} = {}
MayFail == OneFault => Faultless /\ Cardinality({a \in Callers : ~At(a, "idle")}) <= 1
Blame(ds, what) == excuse' = [d \in Domains |-> IF d \in ds THEN excuse[d] \union what ELSE excuse[d]]

\* The domains a call has to do with.
Touches(a) ==
    IF At(a, "idle") THEN {}
    ELSE {Row(a).domain} \union (IF calls[a].req.kind = "domain" THEN {calls[a].req.domain} ELSE {})
\* Switching hosting off may delete a zone that others share.
Unhosts(a) == calls[a].req = [kind |-> "dns", on |-> FALSE]
Savers == {"create", "validate", "block", "unblock", "janitor"}
Quiet(d) == \A a \in Callers : d \notin Touches(a) /\ ~Unhosts(a)

\* What a call that begins and the calls in flight do to each other.  Two calls
\* for the HNS name meet in its zone, whatever their websites.
Overlap(op, ds, unhosts) ==
    LET others == {b \in Callers : \/ Touches(b) \intersect ds # {} \/ Unhosts(b) \/ (unhosts /\ ~At(b, "idle"))
                                   \/ op = "hns" /\ calls[b].op = "hns"}
        saves == op \in Savers \/ \E b \in others : calls[b].op \in Savers
    IN IF others = {} THEN excuse' = excuse
       ELSE Blame(ds \union UNION {Touches(b) : b \in others},
                  {"Overlap"} \union {x \in {"Saves"} : saves})

\* A whole row is written: over a deleted one, gorm's update finds nothing and
\* falls back to an insert that may bring it back.
Save(w, r) == \E new \in (IF Live(w) THEN {r} ELSE {r, site[w]}) : site' = [site EXCEPT ![w] = new]
\* Some columns are written, of a row that is not deleted.
Columns(w, r) == site' = IF Live(w) THEN [site EXCEPT ![w] = r] ELSE site

\* The records of a domain in a zone are written; PowerDNS may not answer, in
\* which case they may have been written all the same.
WriteRecords(z, d, t) == zone[z] = "live" /\ rec' = [rec EXCEPT ![<<z, d>>] = t] /\ UNCHANGED excuse
WriteRecordsFails(z, d, t) ==
    /\ Blame({d}, {"Failed"})
    /\ zone[z] = "live" => MayFail
    /\ UNCHANGED rec \/ (zone[z] = "live" /\ rec' = [rec EXCEPT ![<<z, d>>] = t])

\* The records of a domain are deleted; the service returns no error of
\* PowerDNS, but one for a zone that is deleted.
ClearRecords(z, d) == WriteRecords(z, d, None) \/ WriteRecordsFails(z, d, None)

\* DeleteZone: the row is deleted even if PowerDNS does not answer, and then
\* the records stay.  A zone that is deleted already is an error.
DeleteZone(z, blame) ==
    /\ zone[z] = "live" /\ zone' = [zone EXCEPT ![z] = "deleted"]
    /\ \/ rec' = [x \in Domains \X Domains |-> IF x[1] = z THEN None ELSE rec[x]] /\ Blame(Domains, blame)
       \/ MayFail /\ UNCHANGED rec /\ Blame(Domains, {"Failed"})
DeleteZoneFails(z) == (zone[z] = "live" => MayFail) /\ UNCHANGED <<zone, rec>> /\ Blame(Domains, {"Failed"})

\* The zone a website is put into: the parent's if there is a row for it, a
\* deleted row too, or its own, created or restored.
ZoneFor(d) == IF d = Sub /\ zone[Apex] # "none" THEN Apex ELSE d
TakeZone(z, d) ==
    /\ zone' = IF z = d THEN [zone EXCEPT ![z] = "live"] ELSE zone
    /\ IF zone'[z] = "live" THEN excuse' = excuse ELSE Blame({d}, {"DeadZone"})

\* A publication starts; several of one key may finish in any order.
PublishCIDAsync(k, c) ==
    /\ publishing' = publishing \union {[key |-> k, cid |-> c]}
    /\ asked' = [asked EXCEPT ![k] = c]
PublishRace(k) == {x \in {"Overlap"} : \E p \in publishing : p.key = k}

\* Mutant of EnsureIPNSKey: nothing is published to a key that exists.
EnsureNewKey(d, c) ==
    /\ key' = IF key[d] = NoKey THEN [key EXCEPT ![d] = None] ELSE key
    /\ IF key[d] = NoKey THEN PublishCIDAsync(d, c)
       ELSE UNCHANGED publishing /\ asked' = [asked EXCEPT ![d] = c]
    /\ Blame({d}, PublishRace(d))

\* The key of a domain is found or created, and the CID published to it.
EnsureIPNSKey(d, c) ==
    /\ key' = IF key[d] = NoKey THEN [key EXCEPT ![d] = None] ELSE key
    /\ PublishCIDAsync(d, c)
    /\ Blame({d}, PublishRace(d))
-----------------------------------------------------------------------------
(* CreateWebsite.                                                           *)
Fresh(w) == site[w] = NoSite /\ \A a \in Callers : W(a) # w
Begins(op) == op \in Ops /\ (OneFault => Faultless) /\ ncalls < MaxCalls /\ ncalls' = ncalls + 1

\* The target is a CID, or a CID to be published under the domain's key; a key
\* would be taken without looking it up.
BeginCreate(a, w, d, t, on) ==
    /\ At(a, "idle") /\ Begins("create")
    /\ Fresh(w) /\ \A v \in Sites : Fresh(v) => w <= v
    /\ calls' = [calls EXCEPT ![a] =
          [IdleCall EXCEPT !.pc = IF t.type = "ipns" /\ t.hash \in Contents THEN "c_key" ELSE "c_check",
             !.op = "create", !.site = w,
             !.row = [state |-> "live", domain |-> d, target |-> t, status |-> "pending_validation",
                      zone |-> None, key |-> None, enabled |-> on, ssl |-> FALSE]]]
    /\ Overlap("create", {d}, FALSE)
    /\ UNCHANGED <<stores, pinned, want, asked>>

\* The CID is published under the domain's key, which becomes the target.
CreateKey(a) ==
    LET d == Row(a).domain
    IN /\ At(a, "c_key") \/ At(a, "c_convert")
       /\ EnsureIPNSKey(d, Row(a).target.hash)
       /\ calls' = [calls EXCEPT ![a].pc = IF @ = "c_key" THEN "c_check" ELSE "c_save",
                                 ![a].row = [Row(a) EXCEPT !.target = IPNS(d), !.key = d]]
       /\ UNCHANGED <<site, zone, rec, hns, pinned, ncalls, want>>

CheckDomain(a) ==
    /\ At(a, "c_check")
    /\ IF \E w \in Sites : Live(w) /\ site[w].domain = Row(a).domain THEN Done(a) ELSE Goto(a, "c_insert")
    /\ UNCHANGED <<stores, pinned, ncalls, want, asked, excuse>>

Wanted(r) == [target |-> r.target, enabled |-> r.enabled]

\* A certificate of a deleted website of the domain is taken over while it is
\* valid.  With hosting on, a CID is published under the domain's key too.
InsertWebsite(a) ==
    LET r == Row(a)
        old == \E w \in Sites : site[w].state = "deleted" /\ site[w].domain = r.domain /\ site[w].ssl
    IN /\ At(a, "c_insert")
       /\ \E valid \in {FALSE, old} :
            /\ site' = [site EXCEPT ![W(a)] = [r EXCEPT !.ssl = valid]]
            /\ IF r.enabled
               THEN calls' = [calls EXCEPT ![a].row = [r EXCEPT !.ssl = valid],
                                 ![a].pc = IF r.target.type = "ipfs" THEN "c_convert" ELSE "c_zone"]
               ELSE Done(a)
       /\ want' = [want EXCEPT ![W(a)] = Wanted(r)]
       /\ UNCHANGED <<zone, rec, key, publishing, hns, pinned, ncalls, asked, excuse>>

SaveTarget(a) ==
    /\ At(a, "c_save")
    /\ Save(W(a), Row(a))
    /\ want' = [want EXCEPT ![W(a)] = Wanted(Row(a))]
    /\ Goto(a, "c_zone")
    /\ UNCHANGED <<zone, rec, key, publishing, hns, pinned, ncalls, asked, excuse>>

AssignZone(a) ==
    LET z == ZoneFor(Row(a).domain)
    IN /\ At(a, "c_zone") \/ At(a, "on_zone")
       /\ TakeZone(z, Row(a).domain)
       /\ calls' = [calls EXCEPT ![a].pc = IF @ = "c_zone" THEN "c_link" ELSE "on_link",
                                 ![a].row = [Row(a) EXCEPT !.zone = z]]
       /\ UNCHANGED <<site, rec, key, publishing, hns, pinned, ncalls, want, asked>>

LinkZone(a) ==
    /\ At(a, "c_link")
    /\ Save(W(a), Row(a))
    /\ Goto(a, "c_records")
    /\ UNCHANGED <<zone, rec, key, publishing, hns, pinned, ncalls, want, asked, excuse>>

\* The zone is deleted again, if it is the website's own.
LinkZoneFails(a) ==
    /\ At(a, "c_link") \/ At(a, "on_link")
    /\ MayFail
    /\ IF Row(a).zone = Row(a).domain
       THEN DeleteZone(Row(a).zone, {"Failed"}) \/ DeleteZoneFails(Row(a).zone)
       ELSE UNCHANGED <<zone, rec, excuse>>
    /\ Done(a)
    /\ UNCHANGED <<site, key, publishing, hns, pinned, ncalls, want, asked>>

CreateRecords(a) ==
    /\ At(a, "c_records")
    /\ \/ WriteRecords(Row(a).zone, Row(a).domain, Row(a).target)
       \/ WriteRecordsFails(Row(a).zone, Row(a).domain, Row(a).target)
    /\ Done(a)
    /\ UNCHANGED <<site, zone, key, publishing, hns, pinned, ncalls, want, asked>>

\* The call ends with an error; the steps before it are not taken back.
GivesUp(a) ==
    /\ calls[a].pc \in {"c_key", "c_check", "c_insert", "c_convert", "c_save", "c_zone", "u_tx", "on_zone",
                        "b_save", "d_row", "v_lookup", "v_tsave", "h_zone", "h_records", "h_insert", "j_validate"}
    /\ MayFail
    /\ Done(a)
    /\ UNCHANGED <<stores, pinned, ncalls, want, asked, excuse>>
-----------------------------------------------------------------------------
(* UpdateWebsite: a transaction that is retried, with side effects in it.   *)
\* A call on a website begins with reading its row; a call that would be
\* refused then changes nothing and is left out.
BeginAt(a, op, w, pc, row, req) ==
    /\ At(a, "idle") /\ Begins(op)
    /\ Live(w)
    /\ calls' = [calls EXCEPT ![a] = [IdleCall EXCEPT !.op = op, !.site = w, !.pc = pc, !.row = row, !.req = req]]
    /\ Overlap(op, {row.domain} \union (IF req.kind = "domain" THEN {req.domain} ELSE {}),
               req = [kind |-> "dns", on |-> FALSE])
    /\ UNCHANGED <<stores, pinned, want, asked>>

\* A request for what the row has already is left out.
BeginUpdate(a, w, q) ==
    /\ site[w] # NoSite
    /\ CASE q.kind = "domain" -> q.domain # site[w].domain
         [] q.kind = "dns" -> q.on # site[w].enabled
         [] q.kind = "type" -> q.type # site[w].target.type
         [] q.kind = "target" -> [type |-> q.type, hash |-> q.hash] # site[w].target
    /\ BeginAt(a, "update", w, "u_tx", site[w], q)

\* A CID must be pinned, a key must exist.
ValidIPFSTarget(c) == c \in pinned
ValidIPNSKey(k) == key[k] # NoKey

\* What a request comes to against the row as read: the columns to set, which
\* a second try keeps, whether the target changes ("auto": to the domain's own
\* key, with a CID published there), or a refusal.
Plan(a, r) ==
    LET q == calls[a].req
        keep == [ok |-> TRUE, set |-> calls[a].set, setkey |-> calls[a].setkey, changed |-> "no", publish |-> None]
        refuse == [keep EXCEPT !.ok = FALSE]
        to(t, changed) == [keep EXCEPT !.set = t, !.changed = IF t = r.target THEN "no" ELSE changed]
        auto(c) == IF ~ValidIPFSTarget(c) THEN refuse
                   ELSE [to(IPNS(r.domain), "auto") EXCEPT !.setkey = r.domain, !.publish = c]
    IN CASE q.kind = "target" /\ q.hash \in Domains -> IF ValidIPNSKey(q.hash) THEN to(IPNS(q.hash), "yes") ELSE refuse
         [] q.kind = "target" /\ q.hash \in Contents /\ q.type = "ipns" -> auto(q.hash)
         [] q.kind = "target" /\ q.hash \in Contents /\ q.type = "ipfs" ->
               IF ValidIPFSTarget(q.hash) THEN to(IPFS(q.hash), "yes") ELSE refuse
         [] q.kind = "type" /\ q.type = r.target.type -> keep
         [] q.kind = "type" /\ q.type = "ipns" /\ r.target.type = "ipfs" -> auto(r.target.hash)
         [] q.kind = "type" /\ q.type = "ipfs" /\ r.target.type = "ipns" -> refuse
         [] q.kind = "domain" -> IF \E v \in Sites \ {W(a)} : Live(v) /\ site[v].domain = q.domain THEN refuse ELSE keep
         [] OTHER -> keep

\* The first part of the transaction.  The edited request is what a second try
\* works from: the hash is gone, the type is set.
PrepareUpdate(a) ==
    LET r == site[W(a)]
        p == Plan(a, r)
        q == calls[a].req
    IN /\ At(a, "u_tx")
       /\ IF ~Live(W(a)) \/ ~p.ok
          THEN Done(a) /\ UNCHANGED <<key, publishing, asked, excuse>>
          ELSE /\ calls' = [calls EXCEPT ![a].pc = "u_commit", ![a].row = r, ![a].set = p.set, ![a].setkey = p.setkey,
                              ![a].changed = p.changed,
                              ![a].req = IF q.kind = "target" THEN [kind |-> "type", type |-> p.set.type] ELSE q]
               /\ IF p.publish = None THEN UNCHANGED <<key, publishing, asked, excuse>>
                  ELSE EnsureIPNSKey(r.domain, p.publish)
       /\ UNCHANGED <<site, zone, rec, hns, pinned, ncalls, want>>

Updated(a) ==
    LET r == site[W(a)]
        q == calls[a].req
    IN [r EXCEPT !.target = IF calls[a].set = None THEN @ ELSE calls[a].set,
                 !.key = IF calls[a].setkey = None THEN @ ELSE calls[a].setkey,
                 !.domain = IF q.kind = "domain" THEN q.domain ELSE @,
                 !.enabled = IF q.kind = "dns" THEN q.on ELSE @]

\* The rest of the transaction, the row apart: a new target is published under
\* the website's key, if that was not done before, and written to its DNSLink,
\* unless it was and stays an IPNS name.  Failures are only logged.
SideEffects(a, new, blame) ==
    LET changed == calls[a].changed # "no"
        publish == calls[a].changed = "yes" /\ new.key # None
        hosted == changed /\ new.enabled /\ new.zone # None
        ipns == Row(a).target.type = "ipns" /\ new.target.type = "ipns"
        race == IF publish THEN PublishRace(new.key) ELSE {}
        switched == {x \in {"Switched"} : hosted /\ ipns}
        moved == {x \in {"Moved"} : new.domain # Row(a).domain}
    IN /\ IF publish THEN PublishCIDAsync(new.key, new.target.hash) ELSE UNCHANGED <<publishing, asked>>
       /\ \E written \in BOOLEAN :
            /\ written => hosted /\ ~ipns /\ zone[new.zone] = "live"
            /\ hosted /\ ~ipns /\ zone[new.zone] = "live" => written \/ MayFail
            /\ rec' = IF written THEN [rec EXCEPT ![<<new.zone, new.domain>>] = new.target] ELSE rec
            /\ Blame({new.domain, Row(a).domain, new.key},
                     blame \union race \union switched \union moved
                     \union {x \in {"Failed"} : hosted /\ ~ipns /\ ~written})

CommitUpdate(a) ==
    LET new == Updated(a)
        q == calls[a].req
    IN /\ At(a, "u_commit") /\ Live(W(a))
       /\ site' = [site EXCEPT ![W(a)] = new]
       /\ want' = [want EXCEPT ![W(a)] = [target |-> IF calls[a].set = None THEN @.target ELSE calls[a].set,
                                          enabled |-> IF q.kind = "dns" THEN q.on ELSE @.enabled]]
       /\ SideEffects(a, new, {})
       /\ LET next == IF calls[a].changed # "no" THEN "u_hns"
                      ELSE IF q.kind # "dns" \/ q.on = Row(a).enabled THEN "idle"
                      ELSE IF ~q.on THEN "off_records" ELSE IF new.zone = None THEN "on_zone" ELSE "on_records"
          IN IF next = "idle" THEN Done(a) ELSE calls' = [calls EXCEPT ![a].pc = next, ![a].row = new]
       /\ UNCHANGED <<zone, key, hns, pinned, ncalls>>

\* The transaction is rolled back, before or after its side effects, and tried
\* once more or given up; the row may also be gone.
AbortUpdate(a) ==
    /\ At(a, "u_commit") /\ (Live(W(a)) => MayFail)
    /\ \/ Live(W(a)) /\ SideEffects(a, Updated(a), {"Retry"})
       \/ Blame({Row(a).domain}, {"Retry"}) /\ UNCHANGED <<rec, publishing, asked>>
    /\ \/ ~calls[a].retried /\ calls' = [calls EXCEPT ![a].pc = "u_tx", ![a].retried = TRUE]
       \/ Done(a)
    /\ UNCHANGED <<site, zone, key, hns, pinned, ncalls, want>>

\* Mutant of RefreshHNSDomains: a website that is not hosted is skipped.
RefreshHosted(a) ==
    LET t == Row(a).target
    IN /\ At(a, "u_hns")
       /\ hns' = IF hns.site # W(a) \/ ~Row(a).enabled THEN hns ELSE [hns EXCEPT !.rec = t, !.cid = t]
       /\ Done(a)
       /\ UNCHANGED <<site, zone, rec, key, publishing, pinned, ncalls, want, asked, excuse>>

\* refreshHNSDomains: the records of the HNS name, then its row.
RefreshHNSDomains(a) ==
    LET t == Row(a).target
    IN /\ At(a, "u_hns")
       /\ IF hns.site # W(a) THEN UNCHANGED <<hns, excuse>>
          ELSE \/ hns' = [hns EXCEPT !.rec = t, !.cid = t] /\ UNCHANGED excuse
               \/ MayFail /\ hns' \in {hns, [hns EXCEPT !.rec = t]} /\ Blame({Row(a).domain}, {"Failed"})
       /\ Done(a)
       /\ UNCHANGED <<site, zone, rec, key, publishing, pinned, ncalls, want, asked>>
-----------------------------------------------------------------------------
(* Hosting is switched on: a zone if the website has none (AssignZone), its *)
(* id, the records, and the status.                                         *)
\* Mutant of StoreZone: the whole row is written.
StoreRow(a) ==
    /\ At(a, "on_link")
    /\ Save(W(a), Row(a))
    /\ Goto(a, "on_records")
    /\ UNCHANGED <<zone, rec, key, publishing, hns, pinned, ncalls, want, asked, excuse>>

StoreZone(a) ==
    /\ At(a, "on_link")
    /\ Columns(W(a), [site[W(a)] EXCEPT !.zone = Row(a).zone])
    /\ Goto(a, "on_records")
    /\ UNCHANGED <<zone, rec, key, publishing, hns, pinned, ncalls, want, asked, excuse>>

HostRecords(a) ==
    LET r == Row(a)
    IN /\ At(a, "on_records")
       /\ \/ WriteRecords(r.zone, r.domain, r.target) /\ Goto(a, "on_status")
          \/ WriteRecordsFails(r.zone, r.domain, r.target) /\ Done(a)
       /\ UNCHANGED <<site, zone, key, publishing, hns, pinned, ncalls, want, asked>>

(* Hosting is switched off: the records are deleted, then the zone if no    *)
(* other website has it, then the status and the zone's id.                 *)
UnhostRecords(a) ==
    LET r == Row(a)
    IN /\ At(a, "off_records")
       /\ IF r.zone = None \/ zone[r.zone] # "live"
          THEN Goto(a, "off_status") /\ UNCHANGED <<rec, excuse>>
          ELSE ClearRecords(r.zone, r.domain) /\ Goto(a, "off_count")
       /\ UNCHANGED <<site, zone, key, publishing, hns, pinned, ncalls, want, asked>>

\* Mutant of CountWebsites: only websites of the same domain count.
CountSameDomain(a) ==
    /\ At(a, "off_count")
    /\ \/ /\ \A v \in Sites \ {W(a)} : ~(Live(v) /\ site[v].zone = Row(a).zone /\ site[v].domain = Row(a).domain)
          /\ Goto(a, "off_zone")
       \/ MayFail /\ Goto(a, "off_status")
    /\ UNCHANGED <<stores, pinned, ncalls, want, asked, excuse>>

CountWebsites(a) ==
    /\ At(a, "off_count")
    /\ \/ /\ \A v \in Sites \ {W(a)} : ~(Live(v) /\ site[v].zone = Row(a).zone)
          /\ Goto(a, "off_zone")
       \/ /\ MayFail \/ \E v \in Sites \ {W(a)} : Live(v) /\ site[v].zone = Row(a).zone
          /\ Goto(a, "off_status")
    /\ UNCHANGED <<stores, pinned, ncalls, want, asked, excuse>>

\* The zone's id is cleared only if the zone was deleted.
DeleteEmptyZone(a) ==
    /\ At(a, "off_zone")
    /\ \/ DeleteZone(Row(a).zone, {}) /\ calls' = [calls EXCEPT ![a].pc = "off_status", ![a].row = [Row(a) EXCEPT !.zone = None]]
       \/ DeleteZoneFails(Row(a).zone) /\ Goto(a, "off_status")
    /\ UNCHANGED <<site, key, publishing, hns, pinned, ncalls, want, asked>>

ResetStatus(a) ==
    /\ At(a, "on_status") \/ At(a, "off_status")
    /\ Columns(W(a), [site[W(a)] EXCEPT !.status = "pending_validation",
                        !.zone = IF At(a, "off_status") /\ Row(a).zone = None THEN None ELSE @])
    /\ Done(a)
    /\ UNCHANGED <<zone, rec, key, publishing, hns, pinned, ncalls, want, asked, excuse>>

ResetStatusFails(a) ==
    /\ At(a, "on_status") \/ At(a, "off_status")
    /\ MayFail
    /\ Done(a)
    /\ Blame({Row(a).domain}, {"Failed"})
    /\ UNCHANGED <<stores, pinned, ncalls, want, asked>>
-----------------------------------------------------------------------------
(* DeleteWebsite: the status is read, the row and the HNS row are deleted,  *)
(* then the records.  Zones stay, an HNS zone with its records too.         *)
BeginDelete(a, w) ==
    /\ site[w] # NoSite /\ site[w].status # "blocked"
    /\ BeginAt(a, "delete", w, "d_row", site[w], NoRequest)

DeleteRow(a) ==
    /\ At(a, "d_row")
    /\ IF Live(W(a)) THEN /\ site' = [site EXCEPT ![W(a)].state = "deleted"]
                          /\ hns' = IF hns.site = W(a) THEN [hns EXCEPT !.site = None, !.cid = None] ELSE hns
                     ELSE UNCHANGED <<site, hns>>
    /\ IF Live(W(a)) /\ Row(a).zone # None THEN Goto(a, "d_records") ELSE Done(a)
    /\ UNCHANGED <<zone, rec, key, publishing, pinned, ncalls, want, asked, excuse>>

DeleteRecords(a) ==
    LET r == Row(a)
    IN /\ At(a, "d_records")
       /\ ClearRecords(r.zone, r.domain)
       /\ Done(a)
       /\ UNCHANGED <<site, zone, key, publishing, hns, pinned, ncalls, want, asked>>
-----------------------------------------------------------------------------
(* The administrator blocks and unblocks: a row is read and written whole.  *)
BeginBlock(a, w) == BeginAt(a, "block", w, "b_save", [site[w] EXCEPT !.status = "blocked"], NoRequest)
BeginUnblock(a, w) ==
    /\ site[w] # NoSite /\ site[w].status = "blocked"
    /\ BeginAt(a, "unblock", w, "b_save", [site[w] EXCEPT !.status = "active"], NoRequest)

SaveBlock(a) ==
    /\ At(a, "b_save")
    /\ Save(W(a), Row(a))
    /\ Done(a)
    /\ UNCHANGED <<zone, rec, key, publishing, hns, pinned, ncalls, want, asked, excuse>>
-----------------------------------------------------------------------------
(* ValidateDNS looks the domain up on the Internet, which may say anything. *)
(* An expired token of a pending website is replaced instead.               *)
BeginValidate(a, w) ==
    \/ BeginAt(a, "validate", w, "v_lookup", site[w], NoRequest)
    \/ /\ site[w] # NoSite /\ site[w].status = "pending_validation"
       /\ BeginAt(a, "validate", w, "v_token", site[w], NoRequest)

\* The records are written also if the website has a zone but hosting is off.
RegenerateToken(a) ==
    LET r == Row(a)
    IN /\ At(a, "v_token")
       /\ \/ r.zone = None /\ UNCHANGED <<rec, excuse>>
          \/ r.zone # None /\ r.enabled /\ WriteRecords(r.zone, r.domain, r.target)
          \/ /\ r.zone # None /\ ~r.enabled /\ zone[r.zone] = "live"
             /\ rec' = [rec EXCEPT ![<<r.zone, r.domain>>] = r.target] /\ Blame({r.domain}, {"Unhosted"})
          \/ r.zone # None /\ WriteRecordsFails(r.zone, r.domain, r.target)
       /\ Goto(a, "v_tsave")
       /\ UNCHANGED <<site, zone, key, publishing, hns, pinned, ncalls, want, asked>>

SaveValidated(a) ==
    /\ At(a, "v_tsave") \/ At(a, "v_lookup")
    /\ Save(W(a), [Row(a) EXCEPT !.status = IF At(a, "v_lookup") THEN "active" ELSE @])
    /\ Done(a)
    /\ UNCHANGED <<zone, rec, key, publishing, hns, pinned, ncalls, want, asked, excuse>>
-----------------------------------------------------------------------------
(* CreateHNSDomain: zone, DNSSEC and records, then the row, whose name is   *)
(* unique among rows that are not deleted.  A failure leaves the zone.      *)
BeginHNSDomain(a, w) ==
    /\ hns.site = None
    /\ BeginAt(a, "hns", w, "h_zone", site[w], NoRequest)

CreateHNSZone(a) ==
    /\ At(a, "h_zone")
    /\ hns' = [hns EXCEPT !.zone = TRUE]
    /\ Goto(a, "h_records")
    /\ UNCHANGED <<site, zone, rec, key, publishing, pinned, ncalls, want, asked, excuse>>

CreateHNSRecords(a) ==
    /\ At(a, "h_records")
    /\ hns' = [hns EXCEPT !.rec = Row(a).target]
    /\ Goto(a, "h_insert")
    /\ UNCHANGED <<site, zone, rec, key, publishing, pinned, ncalls, want, asked, excuse>>

InsertHNSDomain(a) ==
    /\ At(a, "h_insert")
    /\ hns' = IF hns.site = None THEN [hns EXCEPT !.site = W(a), !.cid = Row(a).target] ELSE hns
    /\ Done(a)
    /\ UNCHANGED <<site, zone, rec, key, publishing, pinned, ncalls, want, asked, excuse>>
-----------------------------------------------------------------------------
(* Single steps: a certificate's status, written under a row lock; the user *)
(* unpins a CID; and a publication ends.                                    *)
UpdateSSLStatus(w, ready) ==
    /\ Begins("ssl")
    /\ Live(w)
    /\ site' = [site EXCEPT ![w].ssl = ready]
    /\ UNCHANGED <<zone, rec, key, publishing, hns, pinned, calls, want, asked, excuse>>

Unpin(c) ==
    /\ Begins("unpin") /\ c \in pinned
    /\ pinned' = pinned \ {c}
    /\ UNCHANGED <<stores, calls, want, asked, excuse>>

Publish(p) ==
    /\ publishing' = publishing \ {p}
    /\ \/ key' = [key EXCEPT ![p.key] = p.cid] /\ UNCHANGED excuse
       \/ MayFail /\ UNCHANGED key /\ Blame({p.key}, {"Failed"})
    /\ UNCHANGED <<site, zone, rec, hns, pinned, calls, ncalls, want, asked>>
-----------------------------------------------------------------------------
(* The janitor loads a row that is due, and a worker validates it later: a  *)
(* pinned CID, or an own key with a pinned CID published, makes a website   *)
(* active, anything else broken, whatever the status was.                   *)
ContentPinned(t) == IF t.type = "ipfs" THEN t.hash \in pinned ELSE key[t.hash] \in pinned

BeginJanitor(a, w) == BeginAt(a, "janitor", w, "j_validate", site[w], NoRequest)

ValidateWebsite(a) ==
    LET r == Row(a)
    IN /\ At(a, "j_validate")
       /\ Save(W(a), [r EXCEPT !.status = IF ContentPinned(r.target) THEN "active" ELSE "broken"])
       /\ Done(a)
       /\ UNCHANGED <<zone, rec, key, publishing, hns, pinned, ncalls, want, asked, excuse>>
-----------------------------------------------------------------------------
Step(a) ==
    \/ CreateKey(a) \/ CheckDomain(a) \/ InsertWebsite(a) \/ SaveTarget(a) \/ AssignZone(a) \/ LinkZone(a)
    \/ LinkZoneFails(a) \/ CreateRecords(a) \/ GivesUp(a)
    \/ PrepareUpdate(a) \/ CommitUpdate(a) \/ AbortUpdate(a) \/ RefreshHNSDomains(a)
    \/ StoreZone(a) \/ HostRecords(a)
    \/ UnhostRecords(a) \/ CountWebsites(a) \/ DeleteEmptyZone(a) \/ ResetStatus(a) \/ ResetStatusFails(a)
    \/ DeleteRow(a) \/ DeleteRecords(a)
    \/ SaveBlock(a) \/ ValidateWebsite(a) \/ RegenerateToken(a) \/ SaveValidated(a)
    \/ CreateHNSZone(a) \/ CreateHNSRecords(a) \/ InsertHNSDomain(a)

Finished ==
    /\ ncalls = MaxCalls \/ (OneFault /\ ~Faultless)
    /\ \A a \in Callers : At(a, "idle")
    /\ publishing = {}
    /\ UNCHANGED vars

Next ==
    \/ \E a \in Callers :
         \/ \E w \in Sites, d \in Domains, on \in BOOLEAN :
               \E t \in [type : {"ipfs"}, hash : NewContents] \union [type : {"ipns"}, hash : NewContents] :
                  BeginCreate(a, w, d, t, on)
         \/ \E w \in Sites, q \in Request : BeginUpdate(a, w, q)
         \/ \E w \in Sites : \/ BeginDelete(a, w) \/ BeginValidate(a, w) \/ BeginBlock(a, w) \/ BeginUnblock(a, w)
                           \/ BeginHNSDomain(a, w) \/ BeginJanitor(a, w)
         \/ Step(a)
    \/ \E w \in Sites, ready \in BOOLEAN : UpdateSSLStatus(w, ready)
    \/ \E c \in Contents : Unpin(c)
    \/ \E p \in publishing : Publish(p)
    \/ Finished

Spec == Init /\ [][Next]_vars
-----------------------------------------------------------------------------
Excuses == {"Failed", "Overlap", "Saves", "Retry", "Moved", "Switched", "DeadZone", "Unhosted"}

PCs == {"idle", "c_key", "c_check", "c_insert", "c_convert", "c_save", "c_zone", "c_link", "c_records",
        "u_tx", "u_commit", "u_hns", "on_zone", "on_link", "on_records", "on_status",
        "off_records", "off_count", "off_zone", "off_status", "d_row", "d_records",
        "b_save", "j_validate", "v_lookup", "v_token", "v_tsave", "h_zone", "h_records", "h_insert"}
OpNames == {"create", "update", "delete", "validate", "block", "unblock", "hns", "janitor"}
\* Until the key of a new website is made, its target may be a CID as an IPNS name.
Unresolved == Target \union [type : {"ipns"}, hash : Contents]
Call == [pc : PCs, op : OpNames \union {None}, site : Sites \union {None}, row : RowWith(Unresolved) \union {NoSite},
         req : Request \union {NoRequest}, set : Target \union {None}, setkey : Domains \union {None},
         changed : {"no", "yes", "auto"}, retried : BOOLEAN]

TypeOK ==
    /\ site \in [Sites -> Website \union {NoSite}]
    /\ zone \in [Domains -> {"none", "live", "deleted"}]
    /\ rec \in [Domains \X Domains -> Target \union {None}]
    /\ key \in [Domains -> Contents \union Domains \union {None, NoKey}]
    /\ publishing \subseteq [key : Domains, cid : Contents \union Domains]
    /\ hns \in [zone : BOOLEAN, rec : Target \union {None}, site : Sites \union {None}, cid : Target \union {None}]
    /\ pinned \subseteq Contents
    /\ calls \in [Callers -> Call]
    /\ want \in [Sites -> [target : Target, enabled : BOOLEAN] \union {None}]
    /\ asked \in [Domains -> Contents \union Domains \union {None}]
    /\ excuse \in [Domains -> SUBSET Excuses]

(* Hosted websites are in DNS and nothing else is: between calls, the       *)
(* DNSLink of a live, hosted website is its target, and a DNSLink in a zone *)
(* belongs to such a website, also when a website and its parent share a    *)
(* zone that one of them creates, leaves or empties (website.go:229-295,    *)
(* 729-916).  Excepted are domains for which a request failed, calls        *)
(* overlapped, an update was retried, whose website changed its domain or   *)
(* went from one IPNS key to another, was put into a deleted zone, or had   *)
(* its token renewed with hosting off.                                      *)
Settled(d) == Quiet(d) /\ excuse[d] = {}
HostedIsServed ==
    /\ \A w \in Sites : Live(w) /\ site[w].enabled /\ site[w].zone # None /\ Settled(site[w].domain) =>
          rec[<<site[w].zone, site[w].domain>>] = site[w].target
    /\ \A z, d \in Domains : rec[<<z, d>>] # None /\ Settled(d) =>
          \E w \in Sites : Live(w) /\ site[w].enabled /\ site[w].domain = d /\ site[w].zone = z

(* Between calls an HNS name's DNSLink and its row have the target of its   *)
(* website, which is alive (hns.go:397-434, HNS_DANE.md:63), with the same  *)
(* exceptions.                                                              *)
HnsFollows ==
    hns.site # None /\ Settled(site[hns.site].domain) =>
        Live(hns.site) /\ hns.rec = site[hns.site].target /\ hns.cid = site[hns.site].target

(* Once its publications have ended, a key has the CID that was asked for   *)
(* last (website.go:492-526, 588-615, 648-664), unless two publications of  *)
(* the key were on their way together, one failed, or a transaction was     *)
(* retried.                                                                 *)
PublishedIsAsked ==
    \A k \in Domains : (\A p \in publishing : p.key # k) /\ asked[k] # None
                       /\ excuse[k] \intersect {"Failed", "Overlap", "Retry"} = {} => key[k] = asked[k]

(* A website keeps the target and the hosting flag that the last update     *)
(* acknowledged, although updates, certificate reports, hosting transitions *)
(* and HNS calls write the row from copies read earlier: they write their   *)
(* own columns only.  Excepted are websites of which a whole row was saved  *)
(* by an overlapping call (website.go:1254, janitor.go:208), and retries.   *)
AckedIsKept ==
    \A w \in Sites : Live(w) /\ excuse[site[w].domain] \intersect {"Saves", "Retry", "Moved"} = {} =>
        Wanted(site[w]) = want[w]
=============================================================================
