------------------------------ MODULE FolderView ------------------------------
(***************************************************************************)
(* What opening a folder promises the window that shows it, whatever the   *)
(* loader does to be fast: names may appear while a read is under way, but *)
(* a listing that calls itself complete is one a single read of the folder *)
(* could have returned.  For every name it agrees with what the folder     *)
(* held at some moment since that read began (a folder cannot be read at   *)
(* one instant, so no more can be promised).  One weakness is part of the  *)
(* promise: a complete listing that held nothing fills up name by name.    *)
(***************************************************************************)
CONSTANT Names

VARIABLES
  files,     \* the names in the folder
  seen,      \* for each name, whether it was there at moments since the read began
  shown,     \* the names in the window's listing
  complete   \* the listing calls itself complete
fvars == <<files, seen, shown, complete>>

Possible(s) == \A n \in Names : (n \in s) \in seen[n]

Init ==
  /\ files \in SUBSET Names
  /\ seen = [n \in Names |-> {n \in files}]
  /\ shown = {} /\ complete = FALSE

\* Something else changes the folder.
Change ==
  /\ files' \in SUBSET Names
  /\ seen' = [n \in Names |-> seen[n] \cup {n \in files'}]
  /\ UNCHANGED <<shown, complete>>

\* A read begins.
Begin ==
  /\ seen' = [n \in Names |-> {n \in files}]
  /\ UNCHANGED <<files, shown, complete>>

\* Names are shown before the read that vouches for them has ended.
Preview ==
  /\ ~complete
  /\ shown' \in SUBSET Names
  /\ UNCHANGED <<files, seen, complete>>

\* A complete listing of an empty folder takes in names as they are read.
Fill ==
  /\ shown \subseteq shown' /\ shown' \subseteq Names
  /\ \A n \in shown' \ shown : TRUE \in seen[n]
  /\ UNCHANGED <<files, seen, complete>>

\* A read ends, and another may begin at once.
Finish ==
  /\ shown' \in SUBSET Names
  /\ Possible(shown')
  /\ complete' = TRUE
  /\ seen' \in {seen, [n \in Names |-> {n \in files}]}
  /\ UNCHANGED files

\* The window leaves the folder, and opens it again.
Leave ==
  /\ shown' = {} /\ complete' = FALSE
  /\ UNCHANGED <<files, seen>>

Next == Change \/ Begin \/ Preview \/ Fill \/ Finish \/ Leave
Spec == Init /\ [][Next]_fvars
===============================================================================
