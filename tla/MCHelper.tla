-------------------------------- MODULE MCHelper -------------------------------
(* Model-checking instances of Helper: two sessions that share a session id.      *)
EXTENDS Helper
MCSid == [j \in Job |-> "s"]
MCJobGen == [j \in Job |-> 1]
================================================================================
