------------------------------ MODULE MCManager ------------------------------
(***************************************************************************)
(* Manager for TLC.  The effects of the last input decide nothing, so they *)
(* are left out of the view; sessions and accounts are interchangeable.    *)
(***************************************************************************)
EXTENDS Manager, TLC

NoFx == <<m, granted, env>>
Interchangeable == Permutations(Uids) \cup Permutations(Sids)
==============================================================================
