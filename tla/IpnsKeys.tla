------------------------------ MODULE IpnsKeys ------------------------------
(***************************************************************************)
(* IPNS keys, publications and the republisher                             *)
(* (internal/service/ipns_key, internal/api/api_ipns.go).  A key has a row *)
(* in the database, with the CID that was published last, and a record on  *)
(* the network.  A publication writes the record first and the row second; *)
(* it runs in an API call or in a goroutine that a website operation       *)
(* started.  The republisher broadcasts what it read from the rows earlier.*)
(* Records are never read back into rows, so the two drift apart whenever  *)
(* publications overlap or the second write fails.                         *)
(*                                                                         *)
(* Which keys active websites point to is state of the website service; it *)
(* is pointing here, which that service changes as it likes.               *)
(***************************************************************************)
EXTENDS Integers, FiniteSets

CONSTANTS Keys, CIDs,
          Names,       \* names of keys: a website's domain, or the user's choice
          None,
          Pubs,        \* publications that may be in flight together
          Deleters,    \* DeleteKey calls that may be in flight together
          MaxPubs      \* bound on the publications ever started

ASSUME IpnsAssumption ==
    /\ IsFiniteSet(Keys) /\ IsFiniteSet(Pubs) /\ MaxPubs \in Nat
    /\ None \notin CIDs \union Names \union Keys
    /\ Pubs \intersect [key : Keys, cid : CIDs] = {}   \* a call is not a row

VARIABLES keys,      \* the rows: state, name and last_published_cid
          record,    \* the record that the network serves for a key
          pubs,      \* PublishWithKey calls in flight
          sweep,     \* what the republisher has read and not yet published
          deleting,  \* DeleteKey calls in flight
          pointing,  \* keys that an active website has as its target
          npubs,     \* publications started
          want,      \* history: the CID of the last publication that succeeded
          blame      \* history: keys that the exceptions of NamesSettle name

keyVars == <<keys, record, pubs, sweep, deleting, npubs, want, blame>>
ipnsVars == <<keyVars, pointing>>

KeyRow == [state : {"none", "live", "deleted"}, name : Names \union {None},
           last : CIDs \union {None}]
Pub == [pc : {"key", "publish", "row"}, key : Keys, cid : CIDs]
     \union [pc : {"idle"}, key : {None}, cid : {None}]
IdlePub == [pc |-> "idle", key |-> None, cid |-> None]
Deleter == [pc : {"idle"}, key : {None}] \union [pc : {"check", "delete"}, key : Keys]
IdleDeleter == [pc |-> "idle", key |-> None]

IpnsInit ==
    /\ keys = [k \in Keys |-> [state |-> "none", name |-> None, last |-> None]]
    /\ record = [k \in Keys |-> None]
    /\ pubs = [p \in Pubs |-> IdlePub]
    /\ sweep = {}
    /\ deleting = [d \in Deleters |-> IdleDeleter]
    /\ pointing = {}
    /\ npubs = 0
    /\ want = [k \in Keys |-> None]
    /\ blame = {}

Live(k) == keys[k].state = "live"
InFlight(k) == {p \in Pubs : pubs[p].key = k}
-----------------------------------------------------------------------------
(* CreateKey and ImportKey: a row of a peer ID that never had one.  A key   *)
(* has one owner here, and the unique index on owner and peer ID counts     *)
(* deleted rows, so a deleted key cannot be imported again.                 *)
CreateKey(k, n) ==
    /\ keys[k].state = "none"
    /\ keys' = [keys EXCEPT ![k] = [state |-> "live", name |-> n, last |-> None]]
    /\ UNCHANGED <<record, pubs, sweep, deleting, npubs, want, blame>>

\* A publication begins: PublishCID called by the API or in a goroutine of
\* its own by a website operation.
Begin(p, k, c) ==
    /\ pubs[p].pc = "idle" /\ npubs < MaxPubs
    /\ pubs' = [pubs EXCEPT ![p] = [pc |-> "key", key |-> k, cid |-> c]]
    /\ npubs' = npubs + 1
    /\ UNCHANGED <<keys, record, sweep, deleting, want>>

Start(p, k, c) ==
    /\ Begin(p, k, c)
    /\ blame' = IF InFlight(k) # {} THEN blame \union {k} ELSE blame

\* POST /ipns/publish looks the key up by ID first.
PublishIPNS(p, k, c) == Live(k) /\ Start(p, k, c)

\* The republish endpoints, the user's and the administrator's, take the CID
\* from the published record; the user's takes the row's when there is none.
\* A record that the row does not name is an older or a failed publication.
RepublishIPNS(p, k) ==
    LET c == IF record[k] # None THEN record[k] ELSE keys[k].last
    IN /\ Live(k) /\ c # None
       /\ Begin(p, k, c)
       /\ blame' = IF InFlight(k) # {} \/ c # keys[k].last THEN blame \union {k} ELSE blame

Finish(p) == pubs' = [pubs EXCEPT ![p] = IdlePub]

\* GetPrivateKeyByPeerID.
GetPrivateKeyByPeerID(p) ==
    /\ pubs[p].pc = "key"
    /\ IF Live(pubs[p].key) THEN pubs' = [pubs EXCEPT ![p].pc = "publish"] ELSE Finish(p)
    /\ UNCHANGED <<keys, record, sweep, deleting, npubs, want, blame>>

\* A put goes to the DHT and to pubsub at once; the DHT decides what is
\* returned.  After an error some of the network may have the record.
PutValue(k, c, err) ==
    \E dht, pubsub \in BOOLEAN :
        /\ err = ~dht
        /\ record' = IF dht \/ pubsub THEN [record EXCEPT ![k] = c] ELSE record

PublishRecord(p) ==
    /\ pubs[p].pc = "publish"
    /\ PutValue(pubs[p].key, pubs[p].cid, FALSE)
    /\ pubs' = [pubs EXCEPT ![p].pc = "row"]
    /\ UNCHANGED <<keys, sweep, deleting, npubs, want, blame>>

PublishFails(p) ==
    /\ pubs[p].pc = "publish"
    /\ PutValue(pubs[p].key, pubs[p].cid, TRUE)
    /\ Finish(p)
    /\ UNCHANGED <<keys, sweep, deleting, npubs, want, blame>>

\* Mutant of WriteRow: the row keeps the CID of the first publication.
WriteRowOnce(p) ==
    LET k == pubs[p].key
    IN /\ pubs[p].pc = "row"
       /\ want' = [want EXCEPT ![k] = pubs[p].cid]
       /\ keys' = [keys EXCEPT ![k].last = IF @ = None THEN pubs[p].cid ELSE @]
       /\ Finish(p)
       /\ UNCHANGED <<record, sweep, deleting, npubs, blame>>

\* The second write; its failure is logged and the publication has succeeded.
WriteRow(p) ==
    LET k == pubs[p].key
    IN /\ pubs[p].pc = "row"
       /\ want' = [want EXCEPT ![k] = pubs[p].cid]
       /\ \/ /\ Live(k)
             /\ keys' = [keys EXCEPT ![k].last = pubs[p].cid]
             /\ UNCHANGED blame
          \/ keys' = keys /\ blame' = blame \union {k}
       /\ Finish(p)
       /\ UNCHANGED <<record, sweep, deleting, npubs>>
-----------------------------------------------------------------------------
(* The republisher: one cycle reads every row with a CID and publishes what *)
(* it read, key by key; a key that fails is skipped.                        *)
Entry == [key : Keys, cid : CIDs]

\* Mutant of ListKeysWithCID: deleted rows are read too.
ListWithDeleted ==
    {e \in Entry : keys[e.key].state # "none" /\ keys[e.key].last = e.cid}

ListKeysWithCID == {e \in Entry : Live(e.key) /\ keys[e.key].last = e.cid}

RepublishAll ==
    /\ sweep = {}
    /\ sweep' = ListKeysWithCID
    /\ UNCHANGED <<keys, record, pubs, deleting, npubs, want, blame>>

RepublishKey(e) ==
    /\ e \in sweep
    /\ sweep' = sweep \ {e}
    /\ PutValue(e.key, e.cid, FALSE)
    /\ UNCHANGED <<keys, pubs, deleting, npubs, want, blame>>

RepublishKeyFails(e) ==
    /\ e \in sweep
    /\ sweep' = sweep \ {e}
    /\ PutValue(e.key, e.cid, TRUE)
    /\ UNCHANGED <<keys, pubs, deleting, npubs, want, blame>>
-----------------------------------------------------------------------------
(* DeleteKey: find the row, count the active websites that point to it,     *)
(* delete the row: three transactions.                                      *)
DeleteKey(d, k) ==
    /\ deleting[d].pc = "idle" /\ Live(k)
    /\ deleting' = [deleting EXCEPT ![d] = [pc |-> "check", key |-> k]]
    /\ UNCHANGED <<keys, record, pubs, sweep, npubs, want, blame>>

CheckReferences(d) ==
    /\ deleting[d].pc = "check"
    /\ deleting' = IF deleting[d].key \in pointing
                   THEN [deleting EXCEPT ![d] = IdleDeleter]
                   ELSE [deleting EXCEPT ![d].pc = "delete"]
    /\ UNCHANGED <<keys, record, pubs, sweep, npubs, want, blame>>

DeleteRow(d) ==
    /\ deleting[d].pc = "delete"
    /\ keys' = IF Live(deleting[d].key)
               THEN [keys EXCEPT ![deleting[d].key].state = "deleted"] ELSE keys
    /\ deleting' = [deleting EXCEPT ![d] = IdleDeleter]
    /\ UNCHANGED <<record, pubs, sweep, npubs, want, blame>>

KeyStep ==
    \/ \E k \in Keys, n \in Names : CreateKey(k, n)
    \/ \E p \in Pubs, k \in Keys, c \in CIDs : PublishIPNS(p, k, c)
    \/ \E p \in Pubs, k \in Keys : RepublishIPNS(p, k)
    \/ \E p \in Pubs : \/ GetPrivateKeyByPeerID(p) \/ PublishRecord(p)
                       \/ PublishFails(p) \/ WriteRow(p)
    \/ RepublishAll
    \/ \E e \in sweep : RepublishKey(e) \/ RepublishKeyFails(e)
    \/ \E d \in Deleters : \/ \E k \in Keys : DeleteKey(d, k)
                           \/ CheckReferences(d) \/ DeleteRow(d)

\* Websites become active on keys, or no longer are.
Repoint ==
    /\ pointing' \in SUBSET {k \in Keys : keys[k].state # "none"}
    /\ UNCHANGED keyVars

IpnsNext == (KeyStep /\ UNCHANGED pointing) \/ Repoint

\* Goroutines and calls go on until they are through; the republisher's timer
\* fires again and again; a key whose broadcast is tried for ever is
\* eventually broadcast.
Fairness ==
    /\ \A p \in Pubs : WF_ipnsVars((GetPrivateKeyByPeerID(p) \/ PublishRecord(p) \/ WriteRow(p))
                                 /\ UNCHANGED pointing)
    /\ WF_ipnsVars(RepublishAll /\ UNCHANGED pointing)
    /\ \A k \in Keys : SF_ipnsVars((\E e \in sweep : e.key = k /\ RepublishKey(e)) /\ UNCHANGED pointing)
    /\ WF_ipnsVars((\E e \in sweep : RepublishKey(e) \/ RepublishKeyFails(e)) /\ UNCHANGED pointing)

IpnsSpec == IpnsInit /\ [][IpnsNext]_ipnsVars /\ Fairness
-----------------------------------------------------------------------------
TypeOK ==
    /\ keys \in [Keys -> KeyRow]
    /\ record \in [Keys -> CIDs \union {None}]
    /\ pubs \in [Pubs -> Pub]
    /\ sweep \subseteq Entry
    /\ deleting \in [Deleters -> Deleter]
    /\ pointing \subseteq Keys
    /\ npubs \in 0 .. MaxPubs
    /\ want \in [Keys -> CIDs \union {None}]
    /\ blame \subseteq Keys

(* A CID that was published with success (PublishWithKey returned nil) ends *)
(* up as the one the network serves and the row names, and stays so: the    *)
(* republisher does not bring an older CID back for good, although each of  *)
(* its cycles may broadcast one it read before (republisher.go:83-139).     *)
(* Excepted are keys whose publications overlapped, whose row was not       *)
(* written (ipns_key.go:696-713), or whose record was taken up by a         *)
(* republish call while the row named another CID (api_ipns.go:388-410).    *)
NamesSettle ==
    \A k \in Keys : <>[](Live(k) /\ k \notin blame /\ want[k] # None
                            => record[k] = want[k] /\ keys[k].last = want[k])

\* Those who have read the key, in a row or as a private key, and will
\* publish with it.
Users(k) == {p \in InFlight(k) : pubs[p].pc = "publish"} \union {e \in sweep : e.key = k}

(* A deleted key falls silent: nobody begins to use it any more, neither    *)
(* the republisher (db_keystore.go:104-116) nor a publication               *)
(* (ipns_key.go:522-550), and whoever had read it before the deletion       *)
(* changes its record at most once.                                         *)
DeletedKeysFallSilent ==
    [][\A k \in Keys : keys[k].state = "deleted" =>
          /\ Users(k)' \subseteq Users(k)
          /\ record'[k] # record[k] => Users(k)' # Users(k)]_ipnsVars
=============================================================================
