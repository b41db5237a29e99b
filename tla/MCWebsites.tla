----------------------------- MODULE MCWebsites -----------------------------
(***************************************************************************)
(* The instance of Websites that TLC checks: callers are interchangeable.  *)
(***************************************************************************)
EXTENDS Websites, TLC

CallerSymmetry == Permutations(Callers)
=============================================================================
