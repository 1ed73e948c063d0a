------------------------------ MODULE MCTransfer ------------------------------
(* Model-checking instances of Transfer: a folder `d' with a small file, a big    *)
(* file and a link, and two files called "x" selected in two folders.             *)
EXTENDS Transfer

MCNode == {"d", "a", "b", "l", "x", "y"}
MCKind == [n \in MCNode |-> CASE n = "d" -> "dir" [] n = "b" -> "big" [] n = "l" -> "link"
                              [] OTHER -> "file"]
MCFrom == [n \in MCNode |-> IF n = "y" THEN "work" ELSE "home"]
MCPath == [n \in MCNode |-> CASE n = "d" -> <<"d">> [] n \in {"x", "y"} -> <<"x">>
                              [] OTHER -> <<"d", n>>]
MCRoots == <<"d", "x", "y">>

At_(path, k) == [path |-> path, k |-> k]
Setup(mode, policy, level, env, old) ==
  [mode |-> mode, policy |-> policy, level |-> level, env |-> env, old |-> old]
Merge == {At_(<<"d">>, "dir"), At_(<<"d", "a">>, "file"), At_(<<"x">>, "file")}
Clash == {At_(<<"d">>, "file"), At_(<<"x">>, "dir")}

\* Every mode and answer, with names that clash, under each environment in turn.
MCSetups ==
  {Setup(mode, policy, level, env, Merge) :
     mode \in Modes, policy \in {"Skip", "Replace", "KeepBoth"}, level \in {"Lazy", "Device"},
     env \in {{"crash", "cancel"}, {"other"}}}
  \cup {Setup("CopyDelete", policy, "Lazy", {"fail", "write"}, Merge) :
          policy \in {"Skip", "KeepBoth"}}
  \cup {Setup(mode, policy, "Lazy", {"fail", "crash"}, Clash) :
          mode \in Modes, policy \in {"Replace", "KeepBoth"}}
  \cup {Setup("CopyDelete", "Skip", "Lazy", {"write", "crash"}, Merge)}
  \cup {Setup("Rename", policy, "Lazy", {"exdev"} \cup env, Merge) :
          policy \in {"Replace", "KeepBoth"}, env \in {{"crash"}, {"fail"}}}
  \cup {Setup(mode, "Ask", "Lazy", {"crash"}, Merge) : mode \in Modes}

\* A folder that replaces a file, where the kernel refuses the rename.
MCAside == {Setup("Rename", "Replace", "Lazy", {"exdev", "fail"}, Clash)}
===============================================================================
