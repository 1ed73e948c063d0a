-------------------------------- MODULE MCTrash --------------------------------
(* Model-checking instances of Trash: two files of one name in two folders, a     *)
(* third to come, two threads.                                                    *)
EXTENDS Trash, TLC
CONSTANTS p, q
MCStart == [a \in Place |-> IF a = "docs" THEN "f" ELSE "g"]
MCPid == [t \in Proc |-> t]
MCThreads == Permutations(Proc)
===============================================================================
