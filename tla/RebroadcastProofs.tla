--------------------------- MODULE RebroadcastProofs ---------------------------
(***************************************************************************)
(* Proofs about the two loops that tell the network what the node has: the *)
(* reprovider of Reprovider, and the IPNS keys with their republisher of   *)
(* IpnsKeys, which meet in nothing but their purpose.  For any blocks, any *)
(* batch size and any number of failures, restarts and changes: what the   *)
(* store has down as announced was announced, and no Trigger is lost.  For *)
(* any keys, CIDs, names and calls in flight: a deleted key falls silent,  *)
(* however publications, cycles of the republisher and deletions           *)
(* interleave.                                                             *)
(***************************************************************************)
EXTENDS Reprovider, IpnsKeys, FiniteSetTheorems, TLAPS

-----------------------------------------------------------------------------
(* The reprovider.                                                          *)

(* The flags are Booleans: NewReprovider and Run never write anything else. *)
FlagsOK ==
    /\ fullrt \in BOOLEAN /\ trigger \in BOOLEAN /\ cancelled \in BOOLEAN
    /\ wanted \in BOOLEAN

(* The announcement times are ranks of blocks, and a batch and what is to   *)
(* be written down are blocks (MetadataStoreDefault.ProvideCIDs,            *)
(* performProvide).                                                         *)
StoreOK ==
    /\ blocks \subseteq Cids /\ batch \subseteq Cids /\ done \subseteq Cids
    /\ last \in [Cids -> Nat] /\ cutoff \in Nat

(* Between two looks at the store the loop holds only blocks that are due,  *)
(* whatever is deleted, added or expires meanwhile; and unless the node is  *)
(* going down, what is to be written down has been announced                *)
(* (performProvide, basicDHTProvider.ProvideMany).                          *)
HoldsDue == \A c \in batch \union done : Stale(c)
DoneIsProvided == ~cancelled => done \subseteq provided

AnnounceInv == StoreOK /\ HoldsDue /\ DoneIsProvided /\ AnnouncedIsProvided

(* A Trigger that no look at the store has followed is in the channel, or   *)
(* has sent the loop on its way to one (Trigger, Run).                      *)
TriggerInv == wanted => trigger \/ pc \in {"delay", "fetch", "stopped"}

-----------------------------------------------------------------------------
(* Ranks.                                                                   *)

(* The times of the ready blocks are finitely many.                         *)
LEMMA FiniteTimes ==
  ASSUME StoreOK, NEW l \in [Cids -> Nat]
  PROVE  /\ IsFiniteSet({l[c] : c \in blocks} \ {0})
         /\ \A T \in SUBSET ({l[c] : c \in blocks} \ {0}) : IsFiniteSet(T) /\ Cardinality(T) \in Nat
<1> DEFINE times == {l[c] : c \in blocks}
           f == [c \in blocks |-> l[c]]
<1>1. IsFiniteSet(blocks)
  BY ReproviderAssumption, FS_Subset DEF StoreOK
<1>2. f \in Surjection(blocks, times)
  BY DEF Surjection
<1>3. IsFiniteSet(times)
  BY <1>1, <1>2, FS_Surjection
<1>4. \A T \in SUBSET (times \ {0}) : IsFiniteSet(T) /\ Cardinality(T) \in Nat
  BY <1>3, FS_Subset, FS_CardinalityType
<1> QED
  BY <1>4

(* Closing the gaps between the times keeps their order: a block that was   *)
(* due stays due (SetLastAnnouncement).                                     *)
LEMMA RanksKeepOrder ==
  ASSUME StoreOK, NEW l \in [Cids -> Nat], NEW cut \in Nat, Ranked(l, cut)
  PROVE  /\ last' \in [Cids -> Nat] /\ cutoff' \in Nat
         /\ \A c \in blocks : l[c] <= cut => last'[c] <= cutoff'
<1> DEFINE used == {l[c] : c \in blocks} \ {0}
           below(n) == {k \in used : k <= n}
<1>1. \A n \in Nat : IsFiniteSet(below(n)) /\ Cardinality(below(n)) \in Nat
  BY FiniteTimes
<1>2. /\ last' = [c \in Cids |-> IF c \in blocks THEN Cardinality(below(l[c])) ELSE 0]
      /\ cutoff' = Cardinality(below(cut))
  BY DEF Ranked
<1>3. last' \in [Cids -> Nat] /\ cutoff' \in Nat
  BY <1>1, <1>2
<1>4. ASSUME NEW c \in blocks, l[c] <= cut
      PROVE  last'[c] <= cutoff'
  <2>1. c \in Cids /\ l[c] \in Nat
    BY DEF StoreOK
  <2>2. below(l[c]) \in SUBSET below(cut)
    BY <1>4, <2>1, \A c2 \in blocks : l[c2] \in Nat DEF StoreOK
  <2>3. Cardinality(below(l[c])) <= Cardinality(below(cut))
    BY <1>1, <2>2, FS_Subset
  <2> QED
    BY <1>2, <2>1, <2>3
<1> QED
  BY <1>3, <1>4
-----------------------------------------------------------------------------
(* What the store has down as announced was announced.                      *)

(* A new node has announced nothing and has nothing down as announced.      *)
LEMMA InitAnnounced == Init => AnnounceInv
  BY DEF Init, AnnounceInv, StoreOK, HoldsDue, DoneIsProvided, AnnouncedIsProvided, Stale

(* Steps that leave the times, the batch and the history alone: the waits   *)
(* of the loop, a Trigger and the end of the node's context (Run, Trigger). *)
LEMMA WaitsKeepAnnounced ==
  ASSUME AnnounceInv,
         UNCHANGED <<blocks, last, cutoff, batch, done, provided>>,
         cancelled => cancelled'
  PROVE  AnnounceInv'
  BY DEF AnnounceInv, StoreOK, HoldsDue, DoneIsProvided, AnnouncedIsProvided, Stale

(* Blocks that are stored, deleted or due again (PublishOperationHandler,   *)
(* MetadataStoreDefault.Unpin).  A block the loop holds is due already, so  *)
(* that time takes nothing back from it, and a deletion does not either.    *)
LEMMA ChangesKeepAnnounced ==
  ASSUME AnnounceInv, (\E c \in Cids : AddBlock(c) \/ DeleteBlock(c)) \/ Expire
  PROVE  AnnounceInv'
<1>1. CASE \E c \in Cids : AddBlock(c)
  BY <1>1 DEF AddBlock, AnnounceInv, StoreOK, HoldsDue, DoneIsProvided, AnnouncedIsProvided, Stale
<1>2. CASE \E c \in Cids : DeleteBlock(c)
  BY <1>2 DEF DeleteBlock, AnnounceInv, StoreOK, HoldsDue, DoneIsProvided, AnnouncedIsProvided, Stale
<1>3. CASE Expire
  <2>1. \A c \in batch \union done : last[c] \in Nat /\ last[c] <= cutoff
    BY DEF AnnounceInv, StoreOK, HoldsDue, Stale
  <2>2. StoreOK' /\ HoldsDue' /\ DoneIsProvided'
    BY <1>3, <2>1 DEF Expire, AnnounceInv, StoreOK, HoldsDue, DoneIsProvided, Stale
  <2>3. AnnouncedIsProvided'
    BY <1>3 DEF Expire, AnnounceInv, StoreOK, AnnouncedIsProvided, Stale
  <2> QED
    BY <2>2, <2>3 DEF AnnounceInv
<1> QED
  BY <1>1, <1>2, <1>3

(* A restart, which loses what was not written down (NewNode).              *)
LEMMA RestartKeepsAnnounced ==
  ASSUME AnnounceInv, Restart
  PROVE  AnnounceInv'
  BY DEF Restart, AnnounceInv, StoreOK, HoldsDue, DoneIsProvided, AnnouncedIsProvided, Stale

(* A look at the store: the batch is of blocks that are due (performProvide,*)
(* ProvideCIDs).                                                            *)
LEMMA FetchKeepsAnnounced ==
  ASSUME AnnounceInv, Fetch
  PROVE  AnnounceInv'
<1>1. batch' = batch \/ batch' \in ProvideCIDs
  BY DEF Fetch
<1>2. \A c \in batch' : c \in batch \/ (c \in blocks /\ Stale(c))
  BY <1>1 DEF ProvideCIDs
<1> QED
  BY <1>2 DEF Fetch, AnnounceInv, StoreOK, HoldsDue, DoneIsProvided, AnnouncedIsProvided, Stale

(* What an announcement comes to is about blocks of the batch; the blocks   *)
(* that did not fail were announced, or the node is going down              *)
(* (fullrtProvider.ProvideMany, basicDHTProvider.ProvideMany).              *)
LEMMA OutcomesOfBatch ==
  ASSUME NEW o \in Outcomes
  PROVE  ~cancelled => batch \ o.failed \subseteq o.tried \ o.failed
<1>1. CASE o \in FullRTOutcomes
  BY <1>1 DEF FullRTOutcomes
<1>2. CASE o \in BasicOutcomes
  BY <1>2 DEF BasicOutcomes
<1> QED
  BY <1>1, <1>2 DEF Outcomes

(* The announcement (performProvide).                                       *)
LEMMA ProvideKeepsAnnounced ==
  ASSUME AnnounceInv, ProvideMany
  PROVE  AnnounceInv'
<1>1. PICK o \in Outcomes : /\ provided' = provided \union (o.tried \ o.failed)
                            /\ done' = batch \ o.failed
  BY DEF ProvideMany
<1>2. done' \subseteq batch
  BY <1>1
<1>3. ~cancelled => done' \subseteq provided'
  BY <1>1, OutcomesOfBatch
<1>4. UNCHANGED <<blocks, last, cutoff, batch, cancelled>>
  BY DEF ProvideMany
<1> QED
  BY <1>1, <1>2, <1>3, <1>4 DEF AnnounceInv, StoreOK, HoldsDue, DoneIsProvided, AnnouncedIsProvided, Stale

(* The announced blocks are written down, unless the node is going down or  *)
(* one of them is gone (performProvide, SetLastAnnouncement).               *)
LEMMA RecordKeepsAnnounced ==
  ASSUME AnnounceInv, Record
  PROVE  AnnounceInv'
<1> DEFINE l == [c \in Cids |-> IF c \in done THEN Cardinality(Cids) + 1 ELSE last[c]]
<1>1. batch' = {} /\ done' = {} /\ UNCHANGED <<blocks, cancelled, provided>>
  BY DEF Record
<1>2. CASE UNCHANGED <<last, cutoff>>
  BY <1>1, <1>2 DEF AnnounceInv, StoreOK, HoldsDue, DoneIsProvided, AnnouncedIsProvided, Stale
<1>3. CASE ~SetFails(done) /\ SetLastAnnouncement(done)
  <2>1. StoreOK /\ l \in [Cids -> Nat] /\ cutoff \in Nat
    BY ReproviderAssumption, FS_CardinalityType DEF AnnounceInv, StoreOK
  <2>2. Ranked(l, cutoff)
    BY <1>3 DEF SetLastAnnouncement
  <2>3. /\ last' \in [Cids -> Nat] /\ cutoff' \in Nat
        /\ \A c \in blocks : l[c] <= cutoff => last'[c] <= cutoff'
    BY <2>1, <2>2, RanksKeepOrder
  <2>4. done \subseteq provided
    BY <1>3 DEF SetFails, AnnounceInv, DoneIsProvided
  <2>5. ASSUME NEW c \in blocks, ~(last'[c] <= cutoff')
        PROVE  c \in provided
    <3>1. CASE c \in done
      BY <2>4, <3>1
    <3>2. CASE c \notin done
      BY <2>1, <2>3, <2>5, <3>2 DEF AnnounceInv, StoreOK, AnnouncedIsProvided, Stale
    <3> QED
      BY <3>1, <3>2
  <2> QED
    BY <1>1, <2>1, <2>3, <2>5 DEF AnnounceInv, StoreOK, HoldsDue, DoneIsProvided, AnnouncedIsProvided, Stale
<1> QED
  BY <1>2, <1>3 DEF Record

(* A block the store has down as announced within the interval was          *)
(* announced, however failures, deletions, shutdowns and the passing of     *)
(* time interleave with the loop (performProvide, Run).                     *)
THEOREM Announced == Spec => []AnnouncedIsProvided
<1>1. AnnounceInv /\ [Next]_vars => AnnounceInv'
  <2> SUFFICES ASSUME AnnounceInv, [Next]_vars PROVE AnnounceInv'
    OBVIOUS
  <2>1. CASE Ready \/ Wake \/ Delay \/ Trigger \/ Shutdown \/ UNCHANGED vars
    <3>1. UNCHANGED <<blocks, last, cutoff, batch, done, provided>> /\ (cancelled => cancelled')
      BY <2>1 DEF Ready, Wake, Delay, Trigger, Shutdown, vars
    <3> QED
      BY <3>1, WaitsKeepAnnounced
  <2>2. CASE Restart \/ Fetch \/ ProvideMany \/ Record
    BY <2>2, RestartKeepsAnnounced, FetchKeepsAnnounced, ProvideKeepsAnnounced, RecordKeepsAnnounced
  <2>3. CASE (\E c \in Cids : AddBlock(c) \/ DeleteBlock(c)) \/ Expire
    BY <2>3, ChangesKeepAnnounced
  <2> QED
    BY <2>1, <2>2, <2>3 DEF Next, Run
<1>2. AnnounceInv => AnnouncedIsProvided
  BY DEF AnnounceInv
<1> QED
  BY InitAnnounced, <1>1, <1>2, PTL DEF Spec

-----------------------------------------------------------------------------
(* No Trigger is lost.                                                      *)

(* A Trigger leads the loop from one place to the next until it looks at    *)
(* the store: every step keeps it in the channel or on that way.            *)
LEMMA TriggerStep == FlagsOK /\ TriggerInv /\ [Next]_vars => FlagsOK' /\ TriggerInv'
<1> SUFFICES ASSUME FlagsOK, TriggerInv, [Next]_vars
             PROVE  FlagsOK' /\ TriggerInv'
  OBVIOUS
<1>1. CASE Trigger /\ UNCHANGED fullrt
  BY <1>1 DEF Trigger, FlagsOK, TriggerInv
<1>2. CASE (Expire \/ (\E c \in Cids : AddBlock(c) \/ DeleteBlock(c)) \/ ProvideMany) /\ UNCHANGED fullrt
  BY <1>2 DEF Expire, AddBlock, DeleteBlock, ProvideMany, FlagsOK, TriggerInv
<1>3. CASE (Shutdown \/ Restart) /\ UNCHANGED fullrt
  <2>1. CASE Shutdown
    BY <1>3, <2>1 DEF Shutdown, FlagsOK, TriggerInv
  <2>2. CASE Restart
    BY <1>3, <2>2 DEF Restart, FlagsOK, TriggerInv
  <2> QED
    BY <1>3, <2>1, <2>2
<1>4. CASE Ready /\ UNCHANGED fullrt
  BY <1>4 DEF Ready, FlagsOK, TriggerInv
<1>5. CASE Wake /\ UNCHANGED fullrt
  BY <1>5 DEF Wake, FlagsOK, TriggerInv
<1>6. CASE Delay /\ UNCHANGED fullrt
  BY <1>6 DEF Delay, FlagsOK, TriggerInv
<1>7. CASE Fetch /\ UNCHANGED fullrt
  BY <1>7 DEF Fetch, FlagsOK, TriggerInv
<1>8. CASE Record /\ UNCHANGED fullrt
  BY <1>8 DEF Record, Sleep, FlagsOK, TriggerInv
<1>9. CASE UNCHANGED vars
  BY <1>9 DEF vars, FlagsOK, TriggerInv
<1> QED
  BY <1>1, <1>2, <1>3, <1>4, <1>5, <1>6, <1>7, <1>8, <1>9 DEF Next, Run

(* Whenever the loop goes to sleep, a Trigger that no look at the store has *)
(* followed is still in the channel (Trigger, Run).                         *)
THEOREM NoTriggerLost == Spec => []TriggerKept
<1>1. Init => FlagsOK /\ TriggerInv
  BY DEF Init, FlagsOK, TriggerInv
<1>2. FlagsOK /\ TriggerInv => TriggerKept
  BY DEF TriggerInv, TriggerKept
<1> QED
  BY <1>1, <1>2, TriggerStep, PTL DEF Spec
-----------------------------------------------------------------------------
(* The IPNS keys and their republisher.                                      *)

(* The initial states have their types: no rows, no calls, an empty sweep.  *)
LEMMA InitType == IpnsInit => TypeOK
  BY IpnsAssumption DEF IpnsInit, TypeOK, KeyRow, Pub, IdlePub, Deleter, IdleDeleter

(* What the types say of one publication and of one deletion: a call under  *)
(* way has a key.                                                           *)
LEMMA CallTypes ==
  ASSUME TypeOK
  PROVE  /\ \A p \in Pubs : /\ pubs[p] \in Pub
                            /\ pubs[p].pc # "idle" => pubs[p].key \in Keys /\ pubs[p].cid \in CIDs
         /\ \A d \in Deleters : /\ deleting[d] \in Deleter
                                /\ deleting[d].pc # "idle" => deleting[d].key \in Keys
         /\ \A k \in Keys : /\ keys[k] \in KeyRow
                            /\ record[k] \in CIDs \union {None}
                            /\ keys[k].last \in CIDs \union {None}
         /\ IdlePub \in Pub /\ IdleDeleter \in Deleter
  BY DEF TypeOK, Pub, Deleter, KeyRow, IdlePub, IdleDeleter

(* A publication that begins or goes on keeps its type (PublishCID,         *)
(* PublishWithKey).                                                         *)
LEMMA PubType ==
  ASSUME TypeOK, NEW p \in Pubs
  PROVE  /\ [pubs EXCEPT ![p] = IdlePub] \in [Pubs -> Pub]
         /\ \A k \in Keys, c \in CIDs :
               [pubs EXCEPT ![p] = [pc |-> "key", key |-> k, cid |-> c]] \in [Pubs -> Pub]
         /\ pubs[p].pc # "idle" =>
               \A place \in {"publish", "row"} : [pubs EXCEPT ![p].pc = place] \in [Pubs -> Pub]
<1>1. pubs \in [Pubs -> Pub] /\ IdlePub \in Pub
  BY DEF TypeOK, IdlePub, Pub
<1>2. \A k \in Keys, c \in CIDs : [pc |-> "key", key |-> k, cid |-> c] \in Pub
  BY DEF Pub
<1>3. ASSUME NEW place \in {"publish", "row"}, pubs[p].pc # "idle"
      PROVE  [pubs EXCEPT ![p].pc = place] \in [Pubs -> Pub]
  <2>1. pubs[p] \in [pc : {"key", "publish", "row"}, key : Keys, cid : CIDs]
    BY <1>1, <1>3 DEF Pub
  <2>2. [pubs[p] EXCEPT !.pc = place] \in Pub
    BY <2>1 DEF Pub
  <2> QED
    BY <1>1, <2>2
<1> QED
  BY <1>1, <1>2, <1>3

(* A put leaves a CID or nothing in every record, and reaches only the      *)
(* record of its key (publisher.go: the DHT and pubsub).                    *)
LEMMA PutType ==
  ASSUME TypeOK, NEW k \in Keys, NEW c \in CIDs, NEW err \in BOOLEAN, PutValue(k, c, err)
  PROVE  /\ record' \in [Keys -> CIDs \union {None}]
         /\ \A q \in Keys : record'[q] # record[q] => q = k
  BY DEF TypeOK, PutValue

(* The actions of publications preserve the types.                          *)
LEMMA PublishType ==
  ASSUME TypeOK, NEW p \in Pubs, UNCHANGED pointing,
         \/ \E k \in Keys, c \in CIDs : PublishIPNS(p, k, c)
         \/ \E k \in Keys : RepublishIPNS(p, k)
         \/ GetPrivateKeyByPeerID(p) \/ PublishRecord(p) \/ PublishFails(p) \/ WriteRow(p)
  PROVE  TypeOK'
<1> USE IpnsAssumption
<1>1. ASSUME NEW k \in Keys, NEW c \in CIDs, Begin(p, k, c), blame' \in {blame, blame \union {k}}
      PROVE  TypeOK'
  <2>1. npubs' \in 0 .. MaxPubs
    BY <1>1 DEF TypeOK, Begin
  <2>2. pubs' \in [Pubs -> Pub]
    BY <1>1, PubType DEF Begin
  <2> QED
    BY <1>1, <2>1, <2>2 DEF Begin, TypeOK
<1>2. ASSUME NEW k \in Keys, NEW c \in CIDs, PublishIPNS(p, k, c) PROVE TypeOK'
  BY <1>1, <1>2 DEF PublishIPNS, Start
<1>3. ASSUME NEW k \in Keys, RepublishIPNS(p, k) PROVE TypeOK'
  <2> DEFINE c == IF record[k] # None THEN record[k] ELSE keys[k].last
  <2>1. c \in CIDs
    BY <1>3, CallTypes DEF RepublishIPNS
  <2>2. Begin(p, k, c) /\ blame' \in {blame, blame \union {k}}
    BY <1>3 DEF RepublishIPNS
  <2> QED
    BY <2>1, <2>2, <1>1
<1>4. CASE GetPrivateKeyByPeerID(p)
  <2>1. pubs' \in [Pubs -> Pub]
    BY <1>4, PubType DEF GetPrivateKeyByPeerID, Finish
  <2> QED
    BY <1>4, <2>1 DEF GetPrivateKeyByPeerID, TypeOK
<1>5. CASE PublishRecord(p) \/ PublishFails(p)
  <2>1. pubs' \in [Pubs -> Pub]
    BY <1>5, PubType DEF PublishRecord, PublishFails, Finish
  <2>2. record' \in [Keys -> CIDs \union {None}]
    BY <1>5, CallTypes, PutType DEF PublishRecord, PublishFails
  <2> QED
    BY <1>5, <2>1, <2>2 DEF PublishRecord, PublishFails, TypeOK
<1>6. CASE WriteRow(p)
  <2> DEFINE k == pubs[p].key
  <2>1. k \in Keys /\ pubs[p].cid \in CIDs /\ keys[k] \in KeyRow
    BY <1>6, CallTypes DEF WriteRow
  <2>2. [keys[k] EXCEPT !.last = pubs[p].cid] \in KeyRow
    BY <2>1 DEF KeyRow
  <2>3. keys' \in [Keys -> KeyRow]
    BY <1>6, <2>1, <2>2 DEF WriteRow, TypeOK
  <2>4. pubs' \in [Pubs -> Pub] /\ want' \in [Keys -> CIDs \union {None}] /\ blame' \subseteq Keys
    BY <1>6, <2>1, PubType DEF WriteRow, TypeOK, Finish
  <2> QED
    BY <1>6, <2>3, <2>4 DEF WriteRow, TypeOK
<1> QED
  BY <1>2, <1>3, <1>4, <1>5, <1>6

(* The actions of rows, of the republisher and of deletions preserve the    *)
(* types.                                                                   *)
LEMMA OtherType ==
  ASSUME TypeOK, UNCHANGED pointing,
         \/ \E k \in Keys, n \in Names : CreateKey(k, n)
         \/ RepublishAll
         \/ \E e \in sweep : RepublishKey(e) \/ RepublishKeyFails(e)
         \/ \E d \in Deleters : \/ \E k \in Keys : DeleteKey(d, k)
                                \/ CheckReferences(d) \/ DeleteRow(d)
  PROVE  TypeOK'
<1> USE IpnsAssumption
<1>1. ASSUME NEW k \in Keys, NEW n \in Names, CreateKey(k, n) PROVE TypeOK'
  <2>1. [state |-> "live", name |-> n, last |-> None] \in KeyRow
    BY DEF KeyRow
  <2> QED
    BY <1>1, <2>1 DEF CreateKey, TypeOK
<1>2. CASE RepublishAll
  BY <1>2 DEF RepublishAll, ListKeysWithCID, TypeOK
<1>3. ASSUME NEW e \in sweep, RepublishKey(e) \/ RepublishKeyFails(e) PROVE TypeOK'
  <2>1. e.key \in Keys /\ e.cid \in CIDs
    BY DEF TypeOK, Entry
  <2>2. record' \in [Keys -> CIDs \union {None}]
    BY <1>3, <2>1, PutType DEF RepublishKey, RepublishKeyFails
  <2> QED
    BY <1>3, <2>2 DEF RepublishKey, RepublishKeyFails, TypeOK
<1>4. ASSUME NEW d \in Deleters, NEW k \in Keys, DeleteKey(d, k) PROVE TypeOK'
  <2>1. [pc |-> "check", key |-> k] \in Deleter
    BY DEF Deleter
  <2> QED
    BY <1>4, <2>1 DEF DeleteKey, TypeOK
<1>5. ASSUME NEW d \in Deleters, CheckReferences(d) PROVE TypeOK'
  <2>1. deleting[d] \in [pc : {"check", "delete"}, key : Keys]
    BY <1>5 DEF TypeOK, Deleter, CheckReferences
  <2>2. [deleting[d] EXCEPT !.pc = "delete"] \in Deleter /\ IdleDeleter \in Deleter
    BY <2>1 DEF Deleter, IdleDeleter
  <2> QED
    BY <1>5, <2>2 DEF CheckReferences, TypeOK
<1>6. ASSUME NEW d \in Deleters, DeleteRow(d) PROVE TypeOK'
  <2>1. deleting[d].key \in Keys /\ keys[deleting[d].key] \in KeyRow /\ IdleDeleter \in Deleter
    BY <1>6, CallTypes DEF DeleteRow
  <2>2. [keys[deleting[d].key] EXCEPT !.state = "deleted"] \in KeyRow
    BY <2>1 DEF KeyRow
  <2> QED
    BY <1>6, <2>1, <2>2 DEF DeleteRow, TypeOK
<1> QED
  BY <1>1, <1>2, <1>3, <1>4, <1>5, <1>6

(* Every step preserves the types.                                          *)
LEMMA NextType == TypeOK /\ [IpnsNext]_ipnsVars => TypeOK'
<1> SUFFICES ASSUME TypeOK, [IpnsNext]_ipnsVars PROVE TypeOK'
  OBVIOUS
<1>1. CASE KeyStep /\ UNCHANGED pointing
  BY <1>1, PublishType, OtherType DEF KeyStep
<1>2. CASE Repoint
  BY <1>2 DEF Repoint, keyVars, TypeOK
<1>3. CASE UNCHANGED ipnsVars
  BY <1>3 DEF ipnsVars, keyVars, TypeOK
<1> QED
  BY <1>1, <1>2, <1>3 DEF IpnsNext

(* IpnsKeys has its types: in particular a publication that holds a private *)
(* key, and an entry of the republisher, name a key that exists.            *)
THEOREM IpnsTypeCorrect == IpnsSpec => []TypeOK
  BY InitType, NextType, PTL DEF IpnsSpec
-----------------------------------------------------------------------------
(* What one step may do to a deleted key (ipns_key.go:522-550,              *)
(* db_keystore.go:104-116).                                                 *)
Silent(k) ==
    keys[k].state = "deleted" =>
        /\ Users(k)' \subseteq Users(k)
        /\ record'[k] # record[k] => Users(k)' # Users(k)

(* A step that changes neither publications, nor sweep, nor records uses no *)
(* key.                                                                     *)
LEMMA NoUse ==
  ASSUME NEW k \in Keys, UNCHANGED <<pubs, sweep, record>>
  PROVE  Silent(k)
  BY DEF Silent, Users, InFlight

(* Publications do not take up a deleted key, and write its record at most  *)
(* once, when they let go of it.                                            *)
LEMMA PublishSilent ==
  ASSUME TypeOK, NEW k \in Keys, NEW p \in Pubs,
         \/ \E q \in Keys, c \in CIDs : PublishIPNS(p, q, c)
         \/ \E q \in Keys : RepublishIPNS(p, q)
         \/ GetPrivateKeyByPeerID(p) \/ PublishRecord(p) \/ PublishFails(p) \/ WriteRow(p)
  PROVE  Silent(k)
<1> SUFFICES ASSUME keys[k].state = "deleted"
             PROVE  /\ Users(k)' \subseteq Users(k)
                    /\ record'[k] # record[k] => Users(k)' # Users(k)
  BY DEF Silent
<1>1. sweep' = sweep
  BY DEF PublishIPNS, Start, RepublishIPNS, Begin, GetPrivateKeyByPeerID, PublishRecord,
         PublishFails, WriteRow
<1>2. /\ pubs \in [Pubs -> Pub]
      /\ \A q \in Pubs \ {p} : pubs'[q] = pubs[q]
  BY DEF TypeOK, PublishIPNS, Start, RepublishIPNS, Begin, GetPrivateKeyByPeerID, PublishRecord,
         PublishFails, WriteRow, Finish
<1>3. ~(pubs'[p].pc = "publish" /\ pubs'[p].key = k)
  <2>1. CASE \/ \E q \in Keys, c \in CIDs : PublishIPNS(p, q, c)
             \/ \E q \in Keys : RepublishIPNS(p, q)
    BY <2>1, <1>2 DEF PublishIPNS, Start, RepublishIPNS, Begin
  <2>2. CASE PublishRecord(p)
    BY <2>2, <1>2, CallTypes DEF PublishRecord, Pub
  <2>3. CASE PublishFails(p) \/ WriteRow(p)
    <3>1. Finish(p)
      BY <2>3 DEF PublishFails, WriteRow
    <3> QED
      BY <3>1, <1>2 DEF Finish, IdlePub
  <2>4. CASE GetPrivateKeyByPeerID(p)
    BY <2>4, <1>2 DEF GetPrivateKeyByPeerID, Live, Finish, IdlePub, Pub
  <2> QED
    BY <2>1, <2>2, <2>3, <2>4
<1>4. Users(k)' \subseteq Users(k)
  BY <1>1, <1>2, <1>3 DEF Users, InFlight
<1>5. record'[k] # record[k] => pubs[p].pc = "publish" /\ pubs[p].key = k
  <2>1. CASE PublishRecord(p) \/ PublishFails(p)
    BY <2>1, CallTypes, PutType DEF PublishRecord, PublishFails
  <2>2. CASE ~(PublishRecord(p) \/ PublishFails(p))
    BY <2>2 DEF PublishIPNS, Start, RepublishIPNS, Begin, GetPrivateKeyByPeerID, WriteRow
  <2> QED
    BY <2>1, <2>2
<1>6. p \notin sweep
  BY IpnsAssumption DEF TypeOK, Entry
<1>7. p \notin Users(k)'
  BY <1>1, <1>3, <1>6 DEF Users, InFlight
<1>8. record'[k] # record[k] => p \in Users(k)
  BY <1>5 DEF Users, InFlight
<1> QED
  BY <1>4, <1>7, <1>8

(* A cycle of the republisher reads no deleted key, and broadcasts what it  *)
(* had read before at most once.                                            *)
LEMMA SweepSilent ==
  ASSUME TypeOK, NEW k \in Keys,
         RepublishAll \/ \E e \in sweep : RepublishKey(e) \/ RepublishKeyFails(e)
  PROVE  Silent(k)
<1>1. CASE RepublishAll
  BY <1>1 DEF RepublishAll, ListKeysWithCID, Live, Silent, Users, InFlight
<1>2. ASSUME NEW e \in sweep, RepublishKey(e) \/ RepublishKeyFails(e)
      PROVE  Silent(k)
  <2>1. e.key \in Keys /\ e.cid \in CIDs /\ e \notin Pubs
    BY IpnsAssumption DEF TypeOK, Entry
  <2>2. record'[k] # record[k] => k = e.key
    BY <1>2, <2>1, PutType DEF RepublishKey, RepublishKeyFails
  <2>3. sweep' = sweep \ {e} /\ pubs' = pubs
    BY <1>2 DEF RepublishKey, RepublishKeyFails
  <2> QED
    BY <2>1, <2>2, <2>3 DEF Silent, Users, InFlight
<1> QED
  BY <1>1, <1>2

(* Every step leaves the deleted keys silent.                               *)
LEMMA NextSilent == TypeOK /\ [IpnsNext]_ipnsVars => \A k \in Keys : Silent(k)
<1> SUFFICES ASSUME TypeOK, [IpnsNext]_ipnsVars, NEW k \in Keys PROVE Silent(k)
  OBVIOUS
<1>1. CASE \E p \in Pubs : \/ \E q \in Keys, c \in CIDs : PublishIPNS(p, q, c)
                           \/ \E q \in Keys : RepublishIPNS(p, q)
                           \/ GetPrivateKeyByPeerID(p) \/ PublishRecord(p)
                           \/ PublishFails(p) \/ WriteRow(p)
  BY <1>1, PublishSilent
<1>2. CASE RepublishAll \/ \E e \in sweep : RepublishKey(e) \/ RepublishKeyFails(e)
  BY <1>2, SweepSilent
<1>3. CASE \E q \in Keys, n \in Names : CreateKey(q, n)
  BY <1>3, NoUse DEF CreateKey
<1>4. CASE \E d \in Deleters : \/ \E q \in Keys : DeleteKey(d, q)
                               \/ CheckReferences(d) \/ DeleteRow(d)
  BY <1>4, NoUse DEF DeleteKey, CheckReferences, DeleteRow
<1>5. CASE Repoint \/ UNCHANGED ipnsVars
  BY <1>5, NoUse DEF Repoint, ipnsVars, keyVars
<1> QED
  BY <1>1, <1>2, <1>3, <1>4, <1>5 DEF IpnsNext, KeyStep

(* A deleted key falls silent, for any number of keys, publications and     *)
(* deletions: nobody begins to use it, and who had read it before changes   *)
(* its record at most once (db_keystore.go:104-116, ipns_key.go:522-550).   *)
THEOREM Silence == IpnsSpec => DeletedKeysFallSilent
<1>1. TypeOK /\ [IpnsNext]_ipnsVars => [\A k \in Keys : Silent(k)]_ipnsVars
  BY NextSilent
<1> QED
  BY <1>1, IpnsTypeCorrect, PTL DEF IpnsSpec, DeletedKeysFallSilent, Silent
=============================================================================
