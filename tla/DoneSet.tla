------------------------------- MODULE DoneSet -------------------------------
(***************************************************************************)
(* What the DoneTracker interface promises, without locks, maps or         *)
(* channels: a set of CIDs that have been marked done, and WaitDone calls  *)
(* that each return once, with TRUE only for a CID that has been marked.   *)
(***************************************************************************)
CONSTANTS Cids,    \* content identifiers
          Calls    \* invocations of WaitDone

VARIABLES marked,  \* the CIDs Done has been called for
          want,    \* the CID a call waits for; NoCid before the call
          result   \* "pending", "true" or "false"

absVars == <<marked, want, result>>

NoCid == "none"

AbsInit ==
    /\ marked = {}
    /\ want = [w \in Calls |-> NoCid]
    /\ result = [w \in Calls |-> "pending"]

Mark(c) ==
    /\ marked' = marked \union {c}
    /\ UNCHANGED <<want, result>>

\* A call names its CID and may return at once when it is marked already.
Ask(w, c) ==
    /\ want[w] = NoCid
    /\ want' = [want EXCEPT ![w] = c]
    /\ \/ result' = result
       \/ c \in marked /\ result' = [result EXCEPT ![w] = "true"]
    /\ UNCHANGED marked

ReturnTrue(w) ==
    /\ want[w] \in marked
    /\ result[w] = "pending"
    /\ result' = [result EXCEPT ![w] = "true"]
    /\ UNCHANGED <<marked, want>>

\* The caller's context was cancelled.
ReturnFalse(w) ==
    /\ want[w] # NoCid
    /\ result[w] = "pending"
    /\ result' = [result EXCEPT ![w] = "false"]
    /\ UNCHANGED <<marked, want>>

AbsNext ==
    \/ \E c \in Cids : Mark(c)
    \/ \E w \in Calls, c \in Cids : Ask(w, c)
    \/ \E w \in Calls : ReturnTrue(w) \/ ReturnFalse(w)

AbsSpec == AbsInit /\ [][AbsNext]_absVars
=============================================================================
