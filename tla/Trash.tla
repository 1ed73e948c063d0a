--------------------------------- MODULE Trash ---------------------------------
(***************************************************************************)
(* The bin (crates/files/src/ops/trash.rs, trash_empty.rs, restore.rs and  *)
(* trash_info.rs).  Several windows and programs bin, undo, restore,       *)
(* delete and empty at once; there is no lock, only the order in which     *)
(* each makes and removes the two halves of an item: its file in `files'   *)
(* and its `.trashinfo' in `info'.  Every system call is a step.           *)
(*                                                                         *)
(* All the files here have one name, in folders of their own, so they meet *)
(* in the bin: slot k is that name for k = 1 and its k-th number after.    *)
(***************************************************************************)
EXTENDS Integers, Sequences, FiniteSetsExt

CONSTANTS
  Nil,
  Proc,      \* threads that work on the bin
  Pid,       \* of each, the process it is a thread of
  File,      \* what a file is, wherever it is
  Place,     \* the places outside the bin the files have
  Start,     \* the file at each place to begin with
  MaxSlot,   \* how many numbers a name gets
  MaxOps,    \* how many operations the threads do
  Envs       \* the environments, each a set of the choices below

\* The operations done: "trash", "untrash", "restore", "delete", "empty".
\* "copy": a rename into the bin says EXDEV; "fail": a move fails, with its source
\* as it was (Transfer has the moves that do not); "sync": making a move durable
\* fails; "kill": a process is killed; "other": another program makes a file where
\* there is none; "alone": one thread only.
EnvChoices == {"trash", "untrash", "restore", "delete", "empty", "copy", "fail",
               "sync", "kill", "other", "alone"}
ASSUME EnvAssumption == Envs \subseteq SUBSET EnvChoices
ASSUME BoundAssumption == MaxSlot \in Nat \ {0} /\ MaxOps \in Nat

Slot == 1..MaxSlot
\* Where keep_both_target puts a file whose place is taken.
Spare == "spare"
Spot == Place \cup {Spare}
ASSUME StartAssumption ==
  /\ Start \in [Place -> File]
  /\ \A a, b \in Place : Start[a] = Start[b] => a = b
  /\ Spare \notin Place
\* Nil is no file, no place and no info file.
ASSUME NilAssumption ==
  /\ Nil \notin File \cup Spot
  /\ \A p \in Proc, a \in Place \cup {Nil} : [by |-> p, place |-> a] # Nil

VARIABLES
  home,    \* the file at each place outside the bin
  bin,     \* the file in each slot of the bin's `files'
  info,    \* the .trashinfo of each slot: who made it, and the place it records
  stage,   \* what is in the .moving folder of each process
  pr,      \* the threads
  undo,    \* the Trashed lists a window can undo
  hist,    \* the files deleted for good, and where each was binned from (not in the code)
  env      \* the environment; it never changes
vars == <<home, bin, info, stage, pr, undo, hist, env>>

Has(choice) == choice \in env
Idle == [pc |-> "idle", op |-> "", todo |-> <<>>, k |-> 1, done |-> <<>>, target |-> Nil,
         from |-> 0, list |-> <<>>, res |-> "", had |-> {}, ops |-> 0]

Init ==
  /\ env \in Envs
  /\ home = [s \in Spot |-> IF s \in Place THEN Start[s] ELSE Nil]
  /\ bin = [k \in Slot |-> Nil]
  /\ info = [k \in Slot |-> Nil]
  /\ stage = [i \in {Pid[p] : p \in Proc} |-> {}]
  /\ pr = [p \in Proc |-> Idle]
  /\ undo = {}
  /\ hist = [gone |-> {}, emptied |-> FALSE, was |-> [f \in File |-> Nil]]

Files(fun) == {fun[x] : x \in DOMAIN fun} \ {Nil}
Me(p) == pr[p]
Goto(p, pc) == pr' = [pr EXCEPT ![p].pc = pc]
Begun(p, pc, op) == [Idle EXCEPT !.pc = pc, !.op = op, !.ops = Me(p).ops + 1]
End(p, res) == pr' = [pr EXCEPT ![p] = [Idle EXCEPT !.op = Me(p).op, !.res = res, !.had = Me(p).had, !.ops = Me(p).ops]]

\* What a trash that fails has moved so far goes back.
PutBack(p) == pr' = [pr EXCEPT ![p].pc = "u.check", ![p].list = Me(p).done, ![p].res = "failed"]

------------------------------------------------------------------------------
(* trash_in and trash_into.                                                *)

\* The person bins some of the places, each once, in some order.
Todos == UNION {Injection(1..n, Place) : n \in Slot}
\* What is at the places when the call begins (for AllOrNothing).
Found == [at : Place, file : File]
Had(todo) ==
  {w \in Found : Has("alone") /\ home[w.at] = w.file /\ \E i \in DOMAIN todo : todo[i] = w.at}
BeginTrash(p) ==
  /\ Has("trash")
  /\ \E todo \in Todos :
       pr' = [pr EXCEPT ![p] = [Begun(p, "t.meta", "trash") EXCEPT !.todo = todo, !.had = Had(todo)]]
  /\ UNCHANGED <<home, bin, info, stage, undo, hist, env>>

\* symlink_metadata of what is to be binned.
TrashMeta(p) ==
  /\ Me(p).pc = "t.meta"
  /\ IF home[Head(Me(p).todo)] = Nil
     THEN PutBack(p)
     ELSE pr' = [pr EXCEPT ![p].pc = "t.info", ![p].k = 1]
  /\ UNCHANGED <<home, bin, info, stage, undo, hist, env>>

\* "name", then "name 2", "name 3".
NextNumber(p) == pr' = [pr EXCEPT ![p].pc = "t.info", ![p].k = Me(p).k + 1]

\* The info file is made with O_EXCL, which reserves the name.  Mutant: without it.
TrashInfo_Shared(p) ==
  /\ Me(p).pc = "t.info"
  /\ info' = [info EXCEPT ![Me(p).k] = [by |-> p, place |-> Nil]]
  /\ Goto(p, "t.look")
  /\ UNCHANGED <<home, bin, stage, undo, hist, env>>
TrashInfo(p) ==
  /\ Me(p).pc = "t.info"
  /\ \/ /\ info[Me(p).k] # Nil /\ Me(p).k < MaxSlot
        /\ NextNumber(p)
        /\ UNCHANGED info
     \/ /\ info[Me(p).k] = Nil
        /\ info' = [info EXCEPT ![Me(p).k] = [by |-> p, place |-> Nil]]
        /\ Goto(p, "t.look")
  /\ UNCHANGED <<home, bin, stage, undo, hist, env>>

\* A file with no info is left alone, and the next number is tried.
TrashLook(p) ==
  /\ Me(p).pc = "t.look"
  /\ Goto(p, IF bin[Me(p).k] = Nil THEN "t.write" ELSE "t.drop")
  /\ UNCHANGED <<home, bin, info, stage, undo, hist, env>>
TrashDrop(p) ==
  /\ Me(p).pc = "t.drop" /\ Me(p).k < MaxSlot
  /\ info' = [info EXCEPT ![Me(p).k] = Nil]
  /\ NextNumber(p)
  /\ UNCHANGED <<home, bin, stage, undo, hist, env>>

\* The text goes to the open file, whatever has become of its name.
TrashWrite(p) ==
  /\ Me(p).pc = "t.write"
  /\ info' = [k \in Slot |-> IF k = Me(p).k /\ info[k] = [by |-> p, place |-> Nil]
                             THEN [by |-> p, place |-> Head(Me(p).todo)] ELSE info[k]]
  /\ Goto(p, "t.move")
  /\ UNCHANGED <<home, bin, stage, undo, hist, env>>

\* One rename_noreplace, or copy_into.  Mutant: a rename that replaces.
Lands_Over(k) == TRUE
Lands(k) == bin[k] = Nil
TrashMove(p) ==
  /\ Me(p).pc = "t.move"
  /\ LET a == Head(Me(p).todo)
         k == Me(p).k
         i == Pid[p]
     IN \/ \* It fails; copy_into then removes the whole staging folder.
           /\ home[a] = Nil \/ (~Has("copy") /\ ~Lands(k)) \/ Has("fail")
           /\ Goto(p, "t.back")
           /\ stage' = IF Has("copy") THEN [stage EXCEPT ![i] = {}] ELSE stage
           /\ UNCHANGED <<home, bin, hist>>
        \/ /\ home[a] # Nil /\ Lands(k) /\ ~Has("copy")
           /\ bin' = [bin EXCEPT ![k] = home[a]]
           /\ home' = [home EXCEPT ![a] = Nil]
           /\ hist' = [hist EXCEPT !.was[home[a]] = a]
           /\ Goto(p, "t.sync")
           /\ UNCHANGED stage
        \/ /\ home[a] # Nil /\ Has("copy")
           /\ stage' = [stage EXCEPT ![i] = @ \cup {home[a]}]
           /\ home' = [home EXCEPT ![a] = Nil]
           /\ hist' = [hist EXCEPT !.was[home[a]] = a]
           /\ pr' = [pr EXCEPT ![p].pc = "t.land", ![p].target = home[a]]
           /\ UNCHANGED bin
  /\ UNCHANGED <<info, undo, env>>

\* The copy is whole: it gets its name in `files', or stays in the staging folder.
TrashLand(p) ==
  /\ Me(p).pc = "t.land"
  /\ LET f == Me(p).target
     IN IF f \in stage[Pid[p]] /\ Lands(Me(p).k)
        THEN /\ bin' = [bin EXCEPT ![Me(p).k] = f]
             /\ stage' = [stage EXCEPT ![Pid[p]] = @ \ {f}]
             /\ Goto(p, "t.sync")
        ELSE Goto(p, "t.back") /\ UNCHANGED <<bin, stage>>
  /\ UNCHANGED <<home, info, undo, hist, env>>

\* sync_written, sync_dirs: the next item, or the list for Undo.
TrashSync(p) ==
  /\ Me(p).pc = "t.sync"
  /\ LET done == Append(Me(p).done, [place |-> Head(Me(p).todo), k |-> Me(p).k])
     IN \/ /\ Has("sync")
           /\ PutBack(p)
           /\ UNCHANGED undo
        \/ /\ Len(Me(p).todo) > 1
           /\ pr' = [pr EXCEPT ![p].pc = "t.meta", ![p].todo = Tail(@), ![p].done = done]
           /\ UNCHANGED undo
        \/ /\ Len(Me(p).todo) = 1
           /\ undo' = IF Has("untrash") /\ Me(p).op = "trash" THEN undo \cup {done} ELSE undo
           /\ IF Me(p).op = "restore"
              THEN pr' = [pr EXCEPT ![p].pc = "r.move", ![p].target = Head(Me(p).todo)]
              ELSE End(p, "ok")
  /\ UNCHANGED <<home, bin, info, stage, hist, env>>

\* It did not get in: its info file goes, and what this call has moved goes back.
\* Mutants: the info file stays; what was moved before stays in the bin.
TrashBack_KeepsInfo(p) ==
  /\ Me(p).pc = "t.back"
  /\ PutBack(p)
  /\ UNCHANGED <<home, bin, info, stage, undo, hist, env>>
TrashBack_Leaves(p) ==
  /\ Me(p).pc = "t.back"
  /\ info' = [info EXCEPT ![Me(p).k] = Nil]
  /\ End(p, "failed")
  /\ UNCHANGED <<home, bin, stage, undo, hist, env>>
TrashBack(p) ==
  /\ Me(p).pc = "t.back"
  /\ info' = [info EXCEPT ![Me(p).k] = Nil]
  /\ PutBack(p)
  /\ UNCHANGED <<home, bin, stage, undo, hist, env>>

------------------------------------------------------------------------------
(* untrash: Undo, and the way back of a trash that failed.                 *)

BeginUntrash(p) ==
  /\ Has("untrash")
  /\ \E list \in undo :
       /\ pr' = [pr EXCEPT ![p] = [Begun(p, "u.check", "untrash") EXCEPT !.list = list, !.res = "ok"]]
       /\ undo' = undo \ {list}
  /\ UNCHANGED <<home, bin, info, stage, hist, env>>

\* If any place is taken nothing moves.
UntrashCheck(p) ==
  /\ Me(p).pc = "u.check"
  /\ IF \E i \in DOMAIN Me(p).list : home[Me(p).list[i].place] # Nil
     THEN End(p, "failed") ELSE Goto(p, "u.move")
  /\ UNCHANGED <<home, bin, info, stage, undo, hist, env>>

\* rename_noreplace: nothing is there.
Free(a) == home[a] = Nil
UntrashMove(p) ==
  /\ Me(p).pc = "u.move"
  /\ IF Me(p).list = <<>> THEN End(p, Me(p).res) /\ UNCHANGED <<home, bin>>
     ELSE LET it == Head(Me(p).list)
          IN IF bin[it.k] = Nil \/ ~Free(it.place)
             THEN End(p, "failed") /\ UNCHANGED <<home, bin>>
             ELSE /\ home' = [home EXCEPT ![it.place] = bin[it.k]]
                  /\ bin' = [bin EXCEPT ![it.k] = Nil]
                  /\ Goto(p, "u.info")
  /\ UNCHANGED <<info, stage, undo, hist, env>>
UntrashInfo(p) ==
  /\ Me(p).pc = "u.info"
  /\ info' = [info EXCEPT ![Head(Me(p).list).k] = Nil]
  /\ pr' = [pr EXCEPT ![p].pc = "u.move", ![p].list = Tail(@)]
  /\ UNCHANGED <<home, bin, stage, undo, hist, env>>

------------------------------------------------------------------------------
(* plan_restore and restore_one.                                           *)

\* The info file says where the item goes; one that says nothing is left out.
BeginRestore(p) ==
  /\ Has("restore")
  /\ \E k \in Slot :
       /\ bin[k] # Nil /\ info[k] # Nil /\ info[k].place # Nil
       /\ pr' = [pr EXCEPT ![p] = [Begun(p, "r.look", "restore") EXCEPT !.from = k,
                                                                         !.target = info[k].place]]
  /\ UNCHANGED <<home, bin, info, stage, undo, hist, env>>

\* A taken name: skip, keep both, or send what is there to the bin.
RestoreLook(p) ==
  /\ Me(p).pc = "r.look"
  /\ IF home[Me(p).target] = Nil THEN Goto(p, "r.move")
     ELSE \/ End(p, "skipped")
          \/ home[Spare] = Nil /\ pr' = [pr EXCEPT ![p].pc = "r.move", ![p].target = Spare]
          \/ Me(p).target # Spare
             /\ pr' = [pr EXCEPT ![p].pc = "t.meta", ![p].todo = <<Me(p).target>>]
  /\ UNCHANGED <<home, bin, info, stage, undo, hist, env>>

RestoreMove(p) ==
  /\ Me(p).pc = "r.move"
  /\ LET k == Me(p).from
         a == Me(p).target
     IN IF bin[k] = Nil \/ ~Free(a)
        THEN End(p, "failed") /\ UNCHANGED <<home, bin>>
        ELSE /\ home' = [home EXCEPT ![a] = bin[k]]
             /\ bin' = [bin EXCEPT ![k] = Nil]
             /\ Goto(p, "r.info")
  /\ UNCHANGED <<info, stage, undo, hist, env>>
RestoreInfo(p) ==
  /\ Me(p).pc = "r.info"
  /\ info' = [info EXCEPT ![Me(p).from] = Nil]
  /\ End(p, "ok")
  /\ UNCHANGED <<home, bin, stage, undo, hist, env>>

------------------------------------------------------------------------------
(* delete_trashed and empty_bins.                                          *)

BeginDelete(p) ==
  /\ Has("delete")
  /\ \E k \in Slot :
       /\ bin[k] # Nil
       /\ pr' = [pr EXCEPT ![p] = [Begun(p, "d.file", "delete") EXCEPT !.from = k]]
  /\ UNCHANGED <<home, bin, info, stage, undo, hist, env>>
DeleteFile(p) ==
  /\ Me(p).pc = "d.file"
  /\ \/ UNCHANGED <<bin, hist>>   \* cancelled, or refused
     \/ /\ hist' = [hist EXCEPT !.gone = @ \cup ({bin[Me(p).from]} \ {Nil})]
        /\ bin' = [bin EXCEPT ![Me(p).from] = Nil]
  /\ Goto(p, "d.info")
  /\ UNCHANGED <<home, info, stage, undo, env>>
\* The info of an item that is gone goes too.
DeleteInfo(p) ==
  /\ Me(p).pc = "d.info"
  /\ info' = IF bin[Me(p).from] = Nil THEN [info EXCEPT ![Me(p).from] = Nil] ELSE info
  /\ End(p, "ok")
  /\ UNCHANGED <<home, bin, stage, undo, hist, env>>

\* The files are listed first, then the info files, each in any order; they are
\* deleted in that order.
Doomed(files, infos) == files \o infos
Listings(slots) == UNION {Bijection(1..n, slots) : n \in 0..MaxSlot}
Entries(part, slots) == [i \in DOMAIN slots |-> [part |-> part, k |-> slots[i]]]
BeginEmpty(p) ==
  /\ Has("empty")
  /\ \E slots \in Listings({k \in Slot : bin[k] # Nil}) :
        pr' = [pr EXCEPT ![p] = [Begun(p, "e.info", "empty") EXCEPT !.list = Entries("files", slots)]]
  /\ hist' = [hist EXCEPT !.emptied = TRUE]
  /\ UNCHANGED <<home, bin, info, stage, undo, env>>
EmptyInfo(p) ==
  /\ Me(p).pc = "e.info"
  /\ \E slots \in Listings({k \in Slot : info[k] # Nil}) :
        pr' = [pr EXCEPT ![p].pc = "e.del",
                                 ![p].list = Doomed(@, Entries("info", slots))]
  /\ UNCHANGED <<home, bin, info, stage, undo, hist, env>>
\* delete: a cancel, or what is no longer there, ends it.
EmptyDelete(p) ==
  /\ Me(p).pc = "e.del"
  /\ IF Me(p).list = <<>> THEN End(p, "ok") /\ UNCHANGED <<bin, info, hist>>
     ELSE LET it == Head(Me(p).list)
              there == IF it.part = "files" THEN bin[it.k] # Nil ELSE info[it.k] # Nil
          IN \/ End(p, "failed") /\ UNCHANGED <<bin, info, hist>>
             \/ /\ there
                /\ pr' = [pr EXCEPT ![p].pc = "e.del", ![p].list = Tail(@)]
                /\ IF it.part = "files"
                   THEN /\ hist' = [hist EXCEPT !.gone = @ \cup {bin[it.k]}]
                        /\ bin' = [bin EXCEPT ![it.k] = Nil]
                        /\ UNCHANGED info
                   ELSE info' = [info EXCEPT ![it.k] = Nil] /\ UNCHANGED <<bin, hist>>
  /\ UNCHANGED <<home, stage, undo, env>>

------------------------------------------------------------------------------
(* The world around, and the whole.                                        *)

\* A process is killed: all its threads stop where they are.
Kill(i) ==
  /\ Has("kill")
  /\ \E p \in Proc : Pid[p] = i /\ Me(p).pc \notin {"idle", "dead"}
  /\ pr' = [p \in Proc |-> IF Pid[p] = i THEN [pr[p] EXCEPT !.pc = "dead"] ELSE pr[p]]
  /\ UNCHANGED <<home, bin, info, stage, undo, hist, env>>

\* Another program makes a file at a place that is free.
Other ==
  /\ Has("other")
  /\ \E a \in Place, f \in File :
       /\ home[a] = Nil
       /\ f \notin Files(home) \cup Files(bin) \cup UNION {stage[i] : i \in DOMAIN stage} \cup hist.gone
       /\ home' = [home EXCEPT ![a] = f]
  /\ UNCHANGED <<bin, info, stage, pr, undo, hist, env>>

OpsLeft == MapThenSumSet(LAMBDA q : pr[q].ops, Proc) < MaxOps
Begin(p) ==
  /\ Me(p).pc = "idle" /\ OpsLeft
  /\ Has("alone") => \A q \in Proc \ {p} : pr[q].ops = 0
  /\ BeginTrash(p) \/ BeginUntrash(p) \/ BeginRestore(p) \/ BeginDelete(p) \/ BeginEmpty(p)
Step(p) ==
  \/ TrashMeta(p) \/ TrashInfo(p) \/ TrashLook(p) \/ TrashDrop(p) \/ TrashWrite(p)
  \/ TrashMove(p) \/ TrashLand(p) \/ TrashSync(p) \/ TrashBack(p)
  \/ UntrashCheck(p) \/ UntrashMove(p) \/ UntrashInfo(p)
  \/ RestoreLook(p) \/ RestoreMove(p) \/ RestoreInfo(p)
  \/ DeleteFile(p) \/ DeleteInfo(p) \/ EmptyInfo(p) \/ EmptyDelete(p)

Next ==
  \/ \E p \in Proc : Begin(p) \/ Step(p)
  \/ \E i \in DOMAIN stage : Kill(i)
  \/ Other
Spec == Init /\ [][Next]_vars

------------------------------------------------------------------------------
(* What a person relies on.                                                *)

Staged == UNION {stage[i] : i \in DOMAIN stage}
Quiet == \A p \in Proc : pr[p].pc = "idle"

\* Every variable holds what its declaration says, and no file is in two places.
TypeOK ==
  /\ home \in [Spot -> File \cup {Nil}]
  /\ bin \in [Slot -> File \cup {Nil}]
  /\ \A k \in Slot : info[k] = Nil \/ info[k].place \in Place \cup {Nil}
  /\ \A a, b \in Spot : home[a] = home[b] /\ home[a] # Nil => a = b
  /\ \A j, k \in Slot : bin[j] = bin[k] /\ bin[j] # Nil => j = k
  /\ Files(home) \cap Files(bin) = {}

\* Nothing vanishes: a file that was ever there is outside the bin, in it, in a
\* staging folder, or was deleted by delete_trashed or empty_trash.  Binning,
\* undoing and restoring never replace or lose a file, whatever runs beside them
\* ("Nothing is ever deleted instead", trash.rs:15).
NothingVanishes ==
  \A f \in File :
    (\E a \in Place : Start[a] = f) =>
      f \in Files(home) \cup Files(bin) \cup Staged \cup hist.gone

\* A file in the bin has an info file that says where it was, at every step and
\* after a kill at any step: the info file is made first and removed last, also when
\* an emptying is cut short ("a file with no info could not be put back",
\* trash_empty.rs:100).  Emptying lists the bin and then deletes by name, so this is
\* claimed of it only while nobody else bins.
CanGoBack ==
  ~hist.emptied \/ Has("alone") =>
    \A k \in Slot : bin[k] # Nil => info[k] # Nil /\ info[k].place = hist.was[bin[k]]

\* "no orphan is left that would number a later item's name" (trash_empty.rs:126):
\* when all is quiet an info file has its file, also after operations that failed.
NoOrphanInfo ==
  Quiet /\ ~hist.emptied => \A k \in Slot : info[k] # Nil => bin[k] # Nil

\* trash is all or nothing: when it fails, and nobody else is at work, every item is
\* where it was.
AllOrNothing ==
  Has("alone") /\ env \cap {"sync", "other"} = {} =>
    \A p \in Proc :
      pr[p].op = "trash" /\ pr[p].pc = "idle" /\ pr[p].res = "failed" =>
        \A w \in pr[p].had : home[w.at] = w.file
===============================================================================
