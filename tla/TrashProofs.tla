------------------------------ MODULE TrashProofs ------------------------------
(***************************************************************************)
(* What the bin promises a person, proved for any number of threads,       *)
(* processes, files, places and slots: no info file is left over, what is  *)
(* in the bin can go back, and no file vanishes.                           *)
(***************************************************************************)
EXTENDS TrashTypes

------------------------------------------------------------------------------
(* No info file is left over.                                              *)

\* p has made the info file of slot k and has not put the file there yet, or has
\* taken the file and has yet to remove the info file, or was killed.
HoldPcs == {"t.look", "t.drop", "t.write", "t.move", "t.land", "t.back"}
Holds(p, k) == pr[p].pc \in HoldPcs /\ pr[p].k = k
Removes(p, k) ==
  \/ pr[p].pc = "u.info" /\ Head(pr[p].list).k = k
  \/ pr[p].pc \in {"r.info", "d.info"} /\ pr[p].from = k
Answers(p, k) == Holds(p, k) \/ Removes(p, k) \/ pr[p].pc = "dead"
OrphanInv ==
  /\ \A p \in Proc : pr[p].pc \in EmptyPcs => hist.emptied
  /\ ~hist.emptied =>
       \A k \in Slot : info[k] # Nil => bin[k] # Nil \/ \E p \in Proc : Answers(p, k)

\* What a step of p does to a slot nobody else answers for.
LEMMA OrphanSlot ==
  ASSUME Typed, NEW p \in Proc, ThreadStep(p), pr[p].pc # "e.del",
         NEW k \in Slot, info'[k] # Nil,
         info[k] = Nil \/ bin[k] # Nil \/ Answers(p, k)
  PROVE  bin'[k] # Nil \/ Answers(p, k)'
  <1> DEFINE t == pr[p]
  <1>a. /\ t.k \in Slot /\ Knows(t) /\ info \in [Slot -> Info \cup {Nil}] /\ bin \in [Slot -> File \cup {Nil}]
        /\ home \in [Spot -> File \cup {Nil}]
    BY Zenon, ThreadFields DEF Typed
  <1>n. Nil \notin File
    BY NilAssumption
  <1>f. /\ t.pc \in {"r.move", "r.info", "d.file", "d.info"} => t.from \in Slot
        /\ t.pc \in {"u.move", "u.info"} /\ t.list # <<>> => Head(t.list) \in Item
        /\ t.pc \in TrashPcs => Head(t.todo) \in Spot
    <2>1. t.pc \in {"u.move", "u.info"} /\ t.list # <<>> => Head(t.list) \in Item
      BY Zenon, <1>a, HeadTail DEF Knows, UndoPcs
    <2>2. t.pc \in {"r.move", "r.info", "d.file", "d.info"} => t.from \in Slot
      BY Zenon, <1>a DEF Knows, RestorePcs, DeletePcs, Stopped
    <2> QED BY Zenon, <2>1, <2>2, StepPlaces DEF Me
  <1>i. t.pc \in {"u.move", "u.info"} /\ t.list # <<>> => Head(t.list).k \in Slot
    BY Zenon, <1>f DEF Item
  <1> USE DEF Answers, Holds, Removes, HoldPcs
  <1>1. CASE MetaStep(p)
    BY Zenon, <1>1 DEF MetaStep, Rest
  <1>2. CASE InfoStep(p)
    BY Zenon, <1>2, <1>a DEF InfoStep
  <1>3. CASE LookStep(p)
    BY <1>3 DEF LookStep, OnItem, Rest
  <1>4. CASE DropStep(p)
    BY Zenon, <1>4, <1>a DEF DropStep
  <1>5. CASE WriteStep(p)
    BY Zenon, <1>5, <1>a DEF WriteStep, OnItem
  <1>6. CASE MoveStep(p)
    BY Zenon, <1>6, <1>a, <1>n, <1>f DEF MoveStep, OnItem, IntoBin, IntoStage
  <1>7. CASE LandStep(p)
    <2>1. t.pc = "t.land" => t.target \in File
      BY Zenon, <1>a DEF Knows
    <2> QED BY Zenon, <1>7, <2>1, <1>a, <1>n DEF LandStep, OnItem, FromStage
  <1>8. CASE SyncStep(p)
    BY <1>8 DEF SyncStep
  <1>9. CASE BackStep(p)
    BY Zenon, <1>9, <1>a DEF BackStep
  <1>10. CASE UndoCheckStep(p)
    BY Zenon, <1>10 DEF UndoCheckStep, Rest
  <1>11. CASE UndoMoveStep(p)
    BY Zenon, <1>11, <1>a, <1>i DEF UndoMoveStep, FromBin
  <1>12. CASE UndoInfoStep(p)
    <2>1. t.pc = "u.info" /\ t.list # <<>>
      BY Zenon, <1>12, <1>a DEF UndoInfoStep, Knows
    <2> QED BY Zenon, <1>12, <2>1, <1>a, <1>i DEF UndoInfoStep
  <1>13. CASE RestoreLookStep(p)
    BY Zenon, <1>13 DEF RestoreLookStep, Rest
  <1>14. CASE RestoreMoveStep(p)
    BY Zenon, <1>14, <1>a, <1>f DEF RestoreMoveStep, FromBin
  <1>15. CASE RestoreInfoStep(p)
    BY Zenon, <1>15, <1>a, <1>f DEF RestoreInfoStep
  <1>16. CASE DeleteFileStep(p)
    BY Zenon, <1>16, <1>a, <1>f DEF DeleteFileStep, Deletes
  <1>17. CASE DeleteInfoStep(p)
    BY Zenon, <1>17, <1>a, <1>f DEF DeleteInfoStep
  <1>18. CASE EmptyInfoStep(p)
    BY Zenon, <1>18 DEF EmptyInfoStep, Rest
  <1>19. CASE EmptyDeleteStep(p)
    BY Zenon, <1>19 DEF EmptyDeleteStep
  <1> QED BY ZenonT(30), <1>1, <1>2, <1>3, <1>4, <1>5, <1>6, <1>7, <1>8, <1>9, <1>10, <1>11, <1>12, <1>13, <1>14,
             <1>15, <1>16, <1>17, <1>18, <1>19 DEF ThreadStep

\* A step begins nothing but what Begin begins, and empties only what is being emptied.
LEMMA EmptyingSteps ==
  ASSUME Typed, NEW p \in Proc, ThreadStep(p)
  PROVE  /\ hist'.emptied = hist.emptied /\ env' = env
         /\ pr'[p].pc \in EmptyPcs => pr[p].pc \in EmptyPcs
         /\ pr'[p].pc \in DeletePcs => pr[p].pc \in DeletePcs
         /\ pr[p].pc \notin Stopped
  <1> USE DEF EmptyPcs, DeletePcs, Stopped, PutsBack, Ends
  <1>1. CASE MetaStep(p) \/ InfoStep(p) \/ LookStep(p) \/ DropStep(p) \/ WriteStep(p)
    BY Zenon, <1>1 DEF MetaStep, InfoStep, LookStep, DropStep, WriteStep, Rest
  <1>2. CASE MoveStep(p) \/ LandStep(p) \/ SyncStep(p) \/ BackStep(p)
    BY Zenon, <1>2 DEF MoveStep, LandStep, SyncStep, BackStep
  <1>3. CASE UndoCheckStep(p) \/ UndoMoveStep(p) \/ UndoInfoStep(p)
    BY Zenon, <1>3 DEF UndoCheckStep, UndoMoveStep, UndoInfoStep, Rest
  <1>4. CASE RestoreLookStep(p) \/ RestoreMoveStep(p) \/ RestoreInfoStep(p)
    BY Zenon, <1>4 DEF RestoreLookStep, RestoreMoveStep, RestoreInfoStep, Rest
  <1>5. CASE DeleteFileStep(p) \/ DeleteInfoStep(p)
    BY ZenonT(30), <1>5 DEF DeleteFileStep, DeleteInfoStep
  <1>6. CASE EmptyInfoStep(p) \/ EmptyDeleteStep(p)
    BY <1>6 DEF EmptyInfoStep, EmptyDeleteStep, Rest
  <1> QED BY Zenon, <1>1, <1>2, <1>3, <1>4, <1>5, <1>6 DEF ThreadStep

LEMMA OrphanNext ==
  ASSUME Typed, OrphanInv, [Next]_vars
  PROVE  OrphanInv'
  <1>1. CASE UNCHANGED vars
    BY <1>1 DEF vars, OrphanInv, Answers, Holds, Removes
  <1>2. CASE Killed
    <2>1. ASSUME NEW q \in Proc, NEW k \in Slot, Answers(q, k)
          PROVE  Answers(q, k)'
      BY <1>2, <2>1 DEF Killed, Answers, Holds, Removes
    <2>2. \A q \in Proc : pr'[q].pc \in EmptyPcs => pr[q].pc \in EmptyPcs
      BY <1>2 DEF Killed, EmptyPcs
    <2>3. UNCHANGED <<info, bin, hist>>
      BY <1>2 DEF Killed, Rest
    <2> HIDE DEF Answers
    <2> QED BY Zenon, <2>1, <2>2, <2>3 DEF OrphanInv
  <1>3. CASE UNCHANGED <<pr, bin, info, stage, undo, hist, env>>
    BY <1>3 DEF OrphanInv, Answers, Holds, Removes
  <1>4. ASSUME NEW p \in Proc, Others(p), pr[p].pc = "idle", BeginStep(p)
        PROVE  OrphanInv'
    <2>1. ASSUME NEW q \in Proc, NEW k \in Slot, Answers(q, k)
          PROVE  q # p /\ Answers(q, k)'
      BY Zenon, <1>4, <2>1 DEF Others, Answers, Holds, Removes, HoldPcs
    <2>2. \A q \in Proc : pr'[q].pc \in EmptyPcs => hist'.emptied
      BY <1>4 DEF OrphanInv, Others, BeginStep, EmptyPcs
    <2>3. UNCHANGED <<info, bin>> /\ (hist.emptied => hist'.emptied)
      BY <1>4 DEF BeginStep
    <2> QED BY Zenon, <2>1, <2>2, <2>3 DEF OrphanInv
  <1>5. ASSUME NEW p \in Proc, Others(p), ThreadStep(p)
        PROVE  OrphanInv'
    <2>0. \A q \in Proc \ {p}, k \in Slot : Answers(q, k) => Answers(q, k)'
      BY <1>5 DEF Others, Answers, Holds, Removes
    <2>1. \A q \in Proc : pr'[q].pc \in EmptyPcs => hist'.emptied
      BY <1>5, EmptyingSteps DEF OrphanInv, Others
    <2>2. ASSUME ~hist'.emptied, NEW k \in Slot, info'[k] # Nil
          PROVE  bin'[k] # Nil \/ \E q \in Proc : Answers(q, k)'
      <3>1. ~hist.emptied /\ pr[p].pc # "e.del"
        BY <1>5, <2>2, EmptyingSteps DEF OrphanInv, EmptyPcs
      <3>2. CASE \E q \in Proc \ {p} : Answers(q, k)
        BY <2>0, <3>2
      <3>3. CASE info[k] = Nil \/ bin[k] # Nil \/ Answers(p, k)
        BY Zenon, <1>5, <2>2, <3>1, <3>3, OrphanSlot
      <3> QED BY Zenon, <3>1, <3>2, <3>3 DEF OrphanInv
    <2> QED BY <2>1, <2>2 DEF OrphanInv
  <1> QED BY ZenonT(30), <1>1, <1>2, <1>3, <1>4, <1>5, Steps

\* NoOrphanInfo, for any number of threads and whatever runs beside them, as long as
\* nothing was emptied: an info file with no file belongs to a thread that is about to
\* put one there or to remove it, or that was killed.
THEOREM OrphansAreCleared == Spec => []NoOrphanInfo
  <1>1. Init => Typed /\ OrphanInv
    <2> SUFFICES ASSUME Init PROVE OrphanInv
      BY InitTyped
    <2>1. (\A k \in Slot : info[k] = Nil) /\ \A p \in Proc : pr[p].pc = "idle"
      BY Zenon DEF Init, Idle
    <2> QED BY <2>1 DEF OrphanInv, EmptyPcs
  <1>2. Typed /\ OrphanInv /\ [Next]_vars => (Typed /\ OrphanInv)'
    BY TypedNext, OrphanNext
  <1>3. OrphanInv => NoOrphanInfo
    BY ZenonT(30) DEF OrphanInv, NoOrphanInfo, Quiet, Answers, Holds, Removes, HoldPcs
  <1> QED BY <1>1, <1>2, <1>3, PTL DEF Spec

------------------------------------------------------------------------------
(* One thread only, and what a thread does only if it may.                 *)

AloneInv ==
  /\ Has("alone") => \A p, q \in Proc : p # q => pr[p].ops = 0 \/ pr[q].ops = 0
  /\ \A p \in Proc : pr[p].pc \in DeletePcs => Has("delete")
  /\ \A p \in Proc : pr[p].pc \in EmptyPcs => hist.emptied
  /\ \A p \in Proc : pr[p].pc = "t.land" => Has("copy")
  /\ hist.emptied => Has("empty")

LEMMA LandingSteps ==
  ASSUME NEW p \in Proc, ThreadStep(p), pr'[p].pc = "t.land"
  PROVE  Has("copy")
  <1> USE DEF PutsBack, Ends
  <1>1. CASE MetaStep(p) \/ InfoStep(p) \/ LookStep(p) \/ DropStep(p) \/ WriteStep(p)
    BY Zenon, <1>1 DEF MetaStep, InfoStep, LookStep, DropStep, WriteStep
  <1>2. CASE MoveStep(p) \/ LandStep(p) \/ SyncStep(p) \/ BackStep(p)
    BY Zenon, <1>2 DEF MoveStep, LandStep, SyncStep, BackStep
  <1>3. CASE UndoCheckStep(p) \/ UndoMoveStep(p) \/ UndoInfoStep(p)
    BY Zenon, <1>3 DEF UndoCheckStep, UndoMoveStep, UndoInfoStep
  <1>4. CASE RestoreLookStep(p) \/ RestoreMoveStep(p) \/ RestoreInfoStep(p)
    BY Zenon, <1>4 DEF RestoreLookStep, RestoreMoveStep, RestoreInfoStep
  <1>5. CASE DeleteFileStep(p) \/ DeleteInfoStep(p) \/ EmptyInfoStep(p) \/ EmptyDeleteStep(p)
    BY Zenon, <1>5 DEF DeleteFileStep, DeleteInfoStep, EmptyInfoStep, EmptyDeleteStep
  <1> QED BY Zenon, <1>1, <1>2, <1>3, <1>4, <1>5 DEF ThreadStep

LEMMA AloneNext ==
  ASSUME Typed, AloneInv, [Next]_vars
  PROVE  AloneInv'
  <1>1. CASE UNCHANGED vars
    BY <1>1 DEF vars, AloneInv, Has
  <1>2. CASE Killed
    <2>1. \A q \in Proc : pr'[q].ops = pr[q].ops /\ (pr'[q].pc = pr[q].pc \/ pr'[q].pc = "dead")
      BY <1>2 DEF Killed, KeepsWork
    <2>2. UNCHANGED <<hist, env>>
      BY <1>2 DEF Killed, Rest
    <2> QED BY <2>1, <2>2 DEF AloneInv, Has, EmptyPcs, DeletePcs
  <1>3. CASE UNCHANGED <<pr, bin, info, stage, undo, hist, env>>
    BY <1>3 DEF AloneInv, Has
  <1>4. ASSUME NEW p \in Proc, Others(p), Has("alone") => \A q \in Proc \ {p} : pr[q].ops = 0, BeginStep(p)
        PROVE  AloneInv'
    <2>1. env' = env /\ (hist.emptied => hist'.emptied)
      BY <1>4 DEF BeginStep
    <2>2. Has("alone") => \A q \in Proc \ {p} : pr'[q].ops = 0
      BY <1>4 DEF Others
    <2>3. \A q \in Proc : pr'[q].pc \in DeletePcs => Has("delete")
      BY <1>4 DEF Others, BeginStep, AloneInv, DeletePcs
    <2>4. \A q \in Proc : pr'[q].pc \in EmptyPcs => hist'.emptied
      BY Zenon, <1>4, <2>1 DEF Others, BeginStep, AloneInv, EmptyPcs
    <2>5. \A q \in Proc : pr'[q].pc = "t.land" => Has("copy")
      BY <1>4 DEF Others, BeginStep, AloneInv
    <2>6. hist'.emptied => Has("empty")
      BY <1>4 DEF BeginStep, AloneInv
    <2> QED BY ZenonT(30), <2>1, <2>2, <2>3, <2>4, <2>5, <2>6 DEF AloneInv, Has
  <1>5. ASSUME NEW p \in Proc, Others(p), KeepsWork(p), ThreadStep(p)
        PROVE  AloneInv'
    <2>1. /\ hist'.emptied = hist.emptied /\ env' = env
          /\ pr'[p].pc \in EmptyPcs => pr[p].pc \in EmptyPcs
          /\ pr'[p].pc \in DeletePcs => pr[p].pc \in DeletePcs
          /\ pr'[p].pc = "t.land" => Has("copy")
      BY Zenon, <1>5, EmptyingSteps, LandingSteps
    <2>2. \A q \in Proc : pr'[q].ops = pr[q].ops
      BY <1>5 DEF Others, KeepsWork
    <2> QED BY Zenon, <1>5, <2>1, <2>2 DEF AloneInv, Has, Others
  <1> QED BY ZenonT(30), <1>1, <1>2, <1>3, <1>4, <1>5, Steps

\* Who is at work alone is.
LEMMA AtWorkAlone ==
  ASSUME Typed, AloneInv, Has("alone"), NEW p \in Proc, pr[p].pc \notin Stopped
  PROVE  \A q \in Proc \ {p} : pr[q].pc \in Stopped
  <1>1. \A q \in Proc : Knows(pr[q])
    BY DEF Typed
  <1>2. pr[p].ops # 0
    BY <1>1 DEF Knows
  <1> QED BY Zenon, <1>1, <1>2 DEF AloneInv, Knows

------------------------------------------------------------------------------
(* What is in the bin can go back.                                         *)

\* Emptying goes by name, so that the halves of an item are together for certain only
\* where it has the bin to itself.
Guarded == hist.emptied => Has("alone")

SlotInv(k) == bin[k] # Nil => info[k] # Nil /\ info[k].place = hist.was[bin[k]]
\* A thread that made the info file of a slot has the slot to itself.
HoldInv(p) ==
  /\ pr[p].pc # "t.drop"
  /\ pr[p].pc \in {"t.look", "t.write"} =>
       info[pr[p].k] = [by |-> p, place |-> Nil] /\ bin[pr[p].k] = Nil
  /\ pr[p].pc \in {"t.move", "t.land", "t.back"} =>
       info[pr[p].k] = [by |-> p, place |-> Head(pr[p].todo)] /\ bin[pr[p].k] = Nil
  /\ pr[p].pc = "t.land" =>
       pr[p].target \in stage[Pid[p]] /\ hist.was[pr[p].target] = Head(pr[p].todo)
\* A thread that took the file of a slot is the one that will remove its info.
Strips(p, k) ==
  \/ pr[p].pc = "u.info" /\ Head(pr[p].list).k = k
  \/ pr[p].pc = "r.info" /\ pr[p].from = k
StripInv(p) == \A k \in Slot : Strips(p, k) => bin[k] = Nil /\ info[k] # Nil
Exclusive ==
  \A p \in Proc, q \in Proc, k \in Slot : p # q /\ Strips(p, k) => ~Strips(q, k) /\ ~Holds(q, k)
Paired ==
  /\ \A k \in Slot : SlotInv(k)
  /\ \A p \in Proc : HoldInv(p) /\ StripInv(p)
  /\ Exclusive
Owns(p, k) == \A q \in Proc \ {p} : ~Strips(q, k) /\ ~Holds(q, k)

LEMMA Owners ==
  ASSUME Typed, Paired, NEW p \in Proc, NEW k \in Slot,
         info[k] = Nil \/ bin[k] # Nil \/ Strips(p, k) \/ Holds(p, k)
  PROVE  Owns(p, k)
  <1> SUFFICES ASSUME NEW q \in Proc \ {p}
               PROVE  ~Strips(q, k) /\ ~Holds(q, k)
    BY DEF Owns
  <1>b. ASSUME NEW r \in Proc, Holds(r, k)
        PROVE  info[k] # Nil /\ info[k].by = r /\ bin[k] = Nil
    <2>1. \E a \in Place \cup {Nil} : info[k] = [by |-> r, place |-> a]
      BY Zenon, <1>b, StepPlaces DEF Paired, HoldInv, Holds, HoldPcs, TrashPcs, Me
    <2>2. bin[k] = Nil
      BY Zenon, <1>b DEF Paired, HoldInv, Holds, HoldPcs
    <2> QED BY SMTT(30), <2>1, <2>2, NilAssumption
  <1>1. CASE Strips(p, k)
    BY <1>1 DEF Paired, Exclusive
  <1>2. CASE Holds(p, k)
    BY <1>2, <1>b DEF Paired, Exclusive
  <1>3. CASE bin[k] # Nil
    BY Zenon, <1>3, <1>b DEF Paired, StripInv
  <1>4. CASE info[k] = Nil
    BY Zenon, <1>4, <1>b DEF Paired, StripInv
  <1> QED BY ZenonT(30), <1>1, <1>2, <1>3, <1>4

\* A step that touches no slot and leaves p answering for none.
LEMMA PairedQuiet ==
  ASSUME Typed, Paired, NEW p \in Proc, Others(p), UNCHANGED <<bin, info, stage>>, hist'.was = hist.was,
         pr'[p].pc \notin HoldPcs, pr'[p].pc \notin {"u.info", "r.info"}
  PROVE  Paired'
  <1>1. \A k \in Slot : SlotInv(k)'
    BY Zenon DEF Paired, SlotInv
  <1>2. HoldInv(p)' /\ StripInv(p)' /\ \A k \in Slot : ~Strips(p, k)' /\ ~Holds(p, k)'
    BY Zenon DEF HoldInv, StripInv, Strips, Holds, HoldPcs
  <1>3. \A q \in Proc \ {p} : HoldInv(q)'
    BY ZenonT(30) DEF Paired, HoldInv, Others
  <1>4. \A q \in Proc \ {p}, k \in Slot : (Strips(q, k)' <=> Strips(q, k)) /\ (Holds(q, k)' <=> Holds(q, k))
    BY Zenon DEF Strips, Holds, Others
  <1>5. \A q \in Proc : StripInv(q)'
    BY Zenon, <1>2, <1>4 DEF Paired, StripInv
  <1>6. Exclusive'
    BY Zenon, <1>2, <1>4 DEF Paired, Exclusive
  <1> QED BY ZenonT(30), <1>1, <1>2, <1>3, <1>5, <1>6 DEF Paired

\* A step that touches one slot, which no other thread answers for.
LEMMA PairedSlot ==
  ASSUME Typed, Paired, NEW p \in Proc, Others(p), NEW k \in Slot, Owns(p, k),
         \A j \in Slot \ {k} : info'[j] = info[j] /\ bin'[j] = bin[j],
         \A j \in Slot \ {k} : bin[j] # Nil => hist'.was[bin[j]] = hist.was[bin[j]],
         \A q \in Proc \ {p} : pr[q].pc = "t.land" =>
           stage'[Pid[q]] = stage[Pid[q]] /\ hist'.was[pr[q].target] = hist.was[pr[q].target],
         \A j \in Slot : Holds(p, j)' \/ Strips(p, j)' => j = k,
         SlotInv(k)', HoldInv(p)', StripInv(p)'
  PROVE  Paired'
  <1>1. \A j \in Slot : SlotInv(j)'
    BY SMTT(30) DEF Paired, SlotInv
  <1>2. ASSUME NEW q \in Proc \ {p}, NEW j \in Slot
        PROVE  /\ (Strips(q, j)' <=> Strips(q, j)) /\ (Holds(q, j)' <=> Holds(q, j))
               /\ Strips(q, j) \/ Holds(q, j) => j # k
    BY ZenonT(30) DEF Strips, Holds, Others, Owns
  <1>3. ASSUME NEW q \in Proc \ {p}
        PROVE  HoldInv(q)'
    <2>1. pr'[q] = pr[q] /\ pr[q].k \in Slot
      BY Zenon, ThreadFields DEF Others
    <2>2. pr[q].pc \in HoldPcs => pr[q].k # k
      BY Zenon, <1>2, <2>1 DEF Holds
    <2>3. HoldInv(q)
      BY Zenon DEF Paired
    <2> QED BY SMTT(30), <2>1, <2>2, <2>3 DEF HoldInv, HoldPcs
  <1>4. \A q \in Proc : StripInv(q)'
    BY ZenonT(30), <1>2 DEF Paired, StripInv
  <1>5. Exclusive'
    <2> SUFFICES ASSUME NEW q \in Proc, NEW r \in Proc, NEW j \in Slot, q # r, Strips(q, j)'
                 PROVE  ~Strips(r, j)' /\ ~Holds(r, j)'
      BY Zenon DEF Exclusive
    <2>1. CASE q = p
      BY Zenon, <1>2, <2>1
    <2>2. CASE r = p
      BY ZenonT(30), <1>2, <2>2
    <2>3. CASE q # p /\ r # p
      BY <1>2, <2>3 DEF Paired, Exclusive
    <2> QED BY Zenon, <2>1, <2>2, <2>3
  <1> QED BY Zenon, <1>1, <1>3, <1>4, <1>5 DEF Paired

\* No two threads share a staging folder: copy_into names it after the process.
OwnFolders(e) == "copy" \in e => \A p, q \in Proc : Pid[p] = Pid[q] => p = q

LEMMA PairedTrash ==
  ASSUME Typed, Apart, AloneInv, OwnFolders(env), Paired, NEW p \in Proc, Others(p),
         \/ MetaStep(p) \/ InfoStep(p) \/ LookStep(p) \/ DropStep(p) \/ WriteStep(p)
         \/ MoveStep(p) \/ LandStep(p) \/ SyncStep(p) \/ BackStep(p)
  PROVE  Paired'
  <1> DEFINE t == pr[p]
             a == Head(t.todo)
  <1>k. PICK k \in Slot : k = t.k
    BY Zenon, ThreadFields
  <1>a. /\ Knows(t) /\ info \in [Slot -> Info \cup {Nil}] /\ bin \in [Slot -> File \cup {Nil}]
        /\ home \in [Spot -> File \cup {Nil}] /\ stage \in [{Pid[q] : q \in Proc} -> SUBSET File]
        /\ hist.was \in [File -> Place \cup {Nil}] /\ Pid[p] \in DOMAIN stage
    BY ZenonT(30), ThreadFields DEF Typed
  <1>b. t.pc \in TrashPcs => a \in Place /\ a \in Spot
    BY Zenon, StepPlaces DEF Me
  <1>n. /\ Nil \notin File /\ Nil \notin Place
        /\ \A q \in Proc, x \in Place \cup {Nil} : [by |-> q, place |-> x] # Nil
    BY NilAssumption DEF Spot
  <1>h. HoldInv(p) /\ SlotInv(k)
    BY DEF Paired
  <1>o. t.pc \in HoldPcs => Owns(p, k)
    BY Zenon, <1>k, Owners DEF Holds
  <1>q. ASSUME NEW q \in Proc \ {p}, pr[q].pc = "t.land"
        PROVE  Has("copy") /\ Pid[q] # Pid[p] /\ Pid[q] \in DOMAIN stage /\ pr[q].target \in stage[Pid[q]]
    <2>1. Has("copy")
      BY <1>q DEF AloneInv
    <2>2. Pid[q] # Pid[p]
      BY Zenon, <2>1 DEF OwnFolders, Has
    <2>3. pr[q].target \in stage[Pid[q]]
      BY Zenon, <1>q DEF Paired, HoldInv
    <2> QED BY ZenonT(30), <1>a, <2>1, <2>2, <2>3
  <1>1. CASE MetaStep(p)
    <2>1. pr'[p].pc \in {"u.check", "t.info"} /\ UNCHANGED <<bin, info, stage, hist>>
      BY <1>1 DEF MetaStep, Rest, PutsBack
    <2> QED BY <2>1, PairedQuiet DEF HoldPcs
  <1>2. CASE InfoStep(p)
    <2>1. CASE pr'[p].pc = "t.info" /\ UNCHANGED info
      <3>1. UNCHANGED <<bin, info, stage, hist>>
        BY Zenon, <1>k, <1>2, <2>1 DEF InfoStep
      <3> QED BY Zenon, <2>1, <3>1, PairedQuiet DEF HoldPcs
    <2>2. CASE /\ pr'[p].pc = "t.look" /\ pr'[p].k = k /\ info[k] = Nil
               /\ info' = [info EXCEPT ![k] = [by |-> p, place |-> Nil]]
      <3>1. Owns(p, k)
        BY Zenon, <2>2, <1>a, Owners
      <3>2. UNCHANGED <<bin, stage, hist>>
        BY Zenon, <1>k, <1>2 DEF InfoStep
      <3>3. bin[k] = Nil
        BY Zenon, <2>2, <1>h DEF SlotInv
      <3>4. info'[k] = [by |-> p, place |-> Nil] /\ \A j \in Slot \ {k} : info'[j] = info[j]
        BY Zenon, <2>2, <1>a
      <3>5. SlotInv(k)' /\ HoldInv(p)' /\ StripInv(p)' /\ \A j \in Slot : Holds(p, j)' \/ Strips(p, j)' => j = k
        BY ZenonT(30), <2>2, <3>2, <3>3, <3>4 DEF SlotInv, HoldInv, StripInv, Holds, Strips
      <3> QED BY ZenonT(30), <1>a, <3>1, <3>2, <3>4, <3>5, PairedSlot
    <2> QED BY Zenon, <1>k, <1>2, <2>1, <2>2 DEF InfoStep
  <1>3. CASE LookStep(p)
    <2>1. t.pc = "t.look" /\ UNCHANGED <<bin, info, stage, hist>> /\ pr'[p].k = k
      BY Zenon, <1>k, <1>3 DEF LookStep, Rest, OnItem
    <2>2. bin[k] = Nil /\ info[k] = [by |-> p, place |-> Nil]
      BY Zenon, <1>k, <2>1, <1>h DEF HoldInv
    <2>3. pr'[p].pc = "t.write"
      BY Zenon, <1>k, <1>3, <2>2 DEF LookStep
    <2>4. SlotInv(k)' /\ HoldInv(p)' /\ StripInv(p)' /\ \A j \in Slot : Holds(p, j)' \/ Strips(p, j)' => j = k
      BY ZenonT(30), <2>1, <2>2, <2>3 DEF SlotInv, HoldInv, StripInv, Holds, Strips
    <2>5. Owns(p, k)
      BY Zenon, <2>1, <1>o DEF HoldPcs
    <2> QED BY ZenonT(30), <1>a, <2>1, <2>4, <2>5, PairedSlot
  <1>4. CASE DropStep(p)
    BY Zenon, <1>4, <1>h DEF DropStep, HoldInv
  <1>5. CASE WriteStep(p)
    <2>1. t.pc = "t.write" /\ UNCHANGED <<bin, stage, hist>> /\ pr'[p].k = k /\ pr'[p].todo = t.todo
          /\ pr'[p].pc = "t.move"
      BY Zenon, <1>k, <1>5 DEF WriteStep, OnItem, KeepsItem
    <2>2. bin[k] = Nil /\ info[k] = [by |-> p, place |-> Nil]
      BY Zenon, <1>k, <2>1, <1>h DEF HoldInv
    <2>3. info'[k] = [by |-> p, place |-> a] /\ \A j \in Slot \ {k} : info'[j] = info[j]
      BY ZenonT(30), <1>k, <1>5, <2>2, <1>a DEF WriteStep
    <2>4. SlotInv(k)' /\ HoldInv(p)' /\ StripInv(p)' /\ \A j \in Slot : Holds(p, j)' \/ Strips(p, j)' => j = k
      BY Zenon, <2>1, <2>2, <2>3 DEF SlotInv, HoldInv, StripInv, Holds, Strips
    <2>5. Owns(p, k)
      BY Zenon, <2>1, <1>o DEF HoldPcs
    <2> QED BY ZenonT(30), <1>a, <2>1, <2>3, <2>4, <2>5, PairedSlot
  <1>6. CASE MoveStep(p)
    <2>1. t.pc = "t.move" /\ UNCHANGED info /\ pr'[p].k = k /\ pr'[p].todo = t.todo
      BY Zenon, <1>k, <1>6 DEF MoveStep, OnItem, KeepsItem
    <2>2. bin[k] = Nil /\ info[k] = [by |-> p, place |-> a] /\ a \in Place /\ a \in Spot
      BY ZenonT(30), <1>k, <2>1, <1>h, <1>b DEF HoldInv, TrashPcs
    <2>3. Owns(p, k)
      BY Zenon, <2>1, <1>o DEF HoldPcs
    <2>4. CASE /\ pr'[p].pc = "t.back" /\ UNCHANGED <<home, bin, hist>>
               /\ (Has("copy") /\ stage' = [stage EXCEPT ![Pid[p]] = {}]) \/ (~Has("copy") /\ UNCHANGED stage)
      <3>1. \A q \in Proc \ {p} : pr[q].pc = "t.land" => stage'[Pid[q]] = stage[Pid[q]]
        BY Zenon, <2>4, <1>q
      <3>2. SlotInv(k)' /\ HoldInv(p)' /\ StripInv(p)' /\ \A j \in Slot : Holds(p, j)' \/ Strips(p, j)' => j = k
        BY Zenon, <2>1, <2>2, <2>4 DEF SlotInv, HoldInv, StripInv, Holds, Strips
      <3> QED BY ZenonT(30), <1>a, <2>1, <2>3, <2>4, <3>1, <3>2, PairedSlot
    <2>5. CASE pr'[p].pc = "t.sync" /\ ~Has("copy") /\ IntoBin(a, k)
      <3> DEFINE f == home[a]
      <3>1. f \in File /\ \A j \in Slot : bin[j] # f
        BY ZenonT(30), <2>2, <2>5, <1>a DEF IntoBin, Apart
      <3>2. bin' = [bin EXCEPT ![k] = f] /\ hist'.was = [hist.was EXCEPT ![f] = a]
        BY Zenon, <2>5 DEF IntoBin
      <3> HIDE DEF f
      <3>3. /\ bin'[k] = f /\ hist'.was[f] = a /\ \A j \in Slot \ {k} : bin'[j] = bin[j]
            /\ \A j \in Slot : bin[j] # Nil => hist'.was[bin[j]] = hist.was[bin[j]]
        BY Zenon, <1>a, <3>1, <3>2
      <3>4. SlotInv(k)'
        BY SMTT(30), <2>1, <2>2, <3>3, <1>n DEF SlotInv
      <3>5. HoldInv(p)' /\ StripInv(p)' /\ \A j \in Slot : ~Holds(p, j)' /\ ~Strips(p, j)'
        BY <2>5 DEF HoldInv, StripInv, Holds, Strips, HoldPcs
      <3>6. \A q \in Proc \ {p} : pr[q].pc # "t.land"
        BY <2>5, <1>q
      <3> QED BY ZenonT(30), <1>a, <2>1, <2>3, <3>3, <3>4, <3>5, <3>6, PairedSlot
    <2>6. CASE /\ pr'[p].pc = "t.land" /\ Has("copy") /\ IntoStage(a, Pid[p])
               /\ pr'[p].target = home[a]
      <3> DEFINE f == home[a]
      <3>1. f \in File /\ (\A j \in Slot : bin[j] # f) /\ \A i \in DOMAIN stage : f \notin stage[i]
        <4>1. f # Nil
          BY Zenon, <2>6 DEF IntoStage
        <4>2. f \in File
          BY Zenon, <4>1, <2>2, <1>a
        <4>3. \A j \in Slot : bin[j] # f
          BY Zenon, <4>1, <2>2 DEF Apart
        <4>4. \A i \in DOMAIN stage : f \notin stage[i]
          BY SMTT(30), <2>2 DEF Apart
        <4> QED BY ZenonT(30), <4>2, <4>3, <4>4
      <3>2. /\ UNCHANGED bin /\ stage' = [stage EXCEPT ![Pid[p]] = @ \cup {f}]
            /\ hist'.was = [hist.was EXCEPT ![f] = a] /\ pr'[p].target = f
        BY Zenon, <2>6 DEF IntoStage
      <3> HIDE DEF f
      <3>3. hist'.was[f] = a /\ \A j \in Slot : bin[j] # Nil => hist'.was[bin[j]] = hist.was[bin[j]]
        BY Zenon, <1>a, <3>1, <3>2
      <3>4. f \in stage'[Pid[p]]
        BY Zenon, <1>a, <3>2
      <3>5. \A q \in Proc \ {p} : pr[q].pc = "t.land" =>
              stage'[Pid[q]] = stage[Pid[q]] /\ hist'.was[pr[q].target] = hist.was[pr[q].target]
        BY Zenon, <1>a, <1>q, <3>1, <3>2
      <3>6. SlotInv(k)' /\ HoldInv(p)' /\ StripInv(p)' /\ \A j \in Slot : Holds(p, j)' \/ Strips(p, j)' => j = k
        BY Zenon, <2>1, <2>2, <2>6, <3>2, <3>3, <3>4 DEF SlotInv, HoldInv, StripInv, Holds, Strips
      <3> QED BY ZenonT(30), <1>a, <2>1, <2>3, <3>2, <3>3, <3>5, <3>6, PairedSlot
    <2> QED BY ZenonT(30), <1>k, <1>6, <2>4, <2>5, <2>6 DEF MoveStep
  <1>7. CASE LandStep(p)
    <2> DEFINE f == t.target
    <2>1. t.pc = "t.land" /\ UNCHANGED <<info, hist>>
      BY Zenon, <1>k, <1>7 DEF LandStep
    <2>2. /\ bin[k] = Nil /\ info[k] = [by |-> p, place |-> a] /\ f \in stage[Pid[p]] /\ hist.was[f] = a
      BY ZenonT(30), <1>k, <2>1, <1>h DEF HoldInv
    <2>3. pr'[p].pc = "t.sync" /\ FromStage(f, Pid[p], k)
      BY Zenon, <1>k, <1>7, <2>2 DEF LandStep
    <2>4. bin' = [bin EXCEPT ![k] = f] /\ stage' = [stage EXCEPT ![Pid[p]] = @ \ {f}]
      BY Zenon, <2>3 DEF FromStage
    <2>5. bin'[k] = f /\ \A j \in Slot \ {k} : bin'[j] = bin[j]
      BY ZenonT(30), <1>a, <2>4
    <2>6. \A q \in Proc \ {p} : pr[q].pc = "t.land" => stage'[Pid[q]] = stage[Pid[q]]
      BY ZenonT(30), <1>a, <1>q, <2>4
    <2>7. SlotInv(k)'
      BY SMTT(30), <2>1, <2>2, <2>5, <1>n, <1>b DEF SlotInv, TrashPcs
    <2>8. HoldInv(p)' /\ StripInv(p)' /\ \A j \in Slot : ~Holds(p, j)' /\ ~Strips(p, j)'
      BY <2>3 DEF HoldInv, StripInv, Holds, Strips, HoldPcs
    <2>9. Owns(p, k)
      BY <2>1, <1>o DEF HoldPcs
    <2> QED BY ZenonT(30), <1>a, <2>1, <2>5, <2>6, <2>7, <2>8, <2>9, PairedSlot
  <1>8. CASE SyncStep(p)
    <2>1. pr'[p].pc \in {"u.check", "t.meta", "r.move", "idle"} /\ UNCHANGED <<bin, info, stage, hist>>
      BY Zenon, <1>8 DEF SyncStep, PutsBack, Ends
    <2> QED BY Zenon, <2>1, PairedQuiet DEF HoldPcs
  <1>9. CASE BackStep(p)
    <2>1. t.pc = "t.back" /\ UNCHANGED <<bin, stage, hist>> /\ info' = [info EXCEPT ![k] = Nil]
          /\ pr'[p].pc = "u.check"
      BY ZenonT(30), <1>k, <1>9 DEF BackStep, PutsBack
    <2>2. bin[k] = Nil /\ Owns(p, k)
      BY ZenonT(30), <1>k, <2>1, <1>h, <1>o DEF HoldInv, HoldPcs
    <2>3. \A j \in Slot \ {k} : info'[j] = info[j]
      BY Zenon, <1>a, <2>1
    <2>4. SlotInv(k)' /\ HoldInv(p)' /\ StripInv(p)' /\ \A j \in Slot : ~Holds(p, j)' /\ ~Strips(p, j)'
      BY Zenon, <2>1, <2>2 DEF SlotInv, HoldInv, StripInv, Holds, Strips, HoldPcs
    <2> QED BY ZenonT(30), <1>a, <2>1, <2>2, <2>3, <2>4, PairedSlot
  <1> QED BY ZenonT(30), <1>1, <1>2, <1>3, <1>4, <1>5, <1>6, <1>7, <1>8, <1>9

LEMMA PairedBack ==
  ASSUME Typed, Paired, NEW p \in Proc, Others(p),
         \/ UndoCheckStep(p) \/ UndoMoveStep(p) \/ UndoInfoStep(p)
         \/ RestoreLookStep(p) \/ RestoreMoveStep(p) \/ RestoreInfoStep(p)
  PROVE  Paired'
  <1> DEFINE t == pr[p]
  <1>a. Knows(t) /\ info \in [Slot -> Info \cup {Nil}] /\ bin \in [Slot -> File \cup {Nil}]
    BY Zenon, ThreadFields DEF Typed
  <1>t. ASSUME NEW k \in Slot, FromBin(k, t.target) \/ FromBin(k, Head(t.list).place), UNCHANGED info,
               \/ pr'[p].pc = "u.info" /\ Head(pr'[p].list).k = k
               \/ pr'[p].pc = "r.info" /\ pr'[p].from = k
        PROVE  Paired'
    <2>1. bin[k] # Nil /\ UNCHANGED stage /\ bin' = [bin EXCEPT ![k] = Nil] /\ hist'.was = hist.was
      BY Zenon, <1>t DEF FromBin, KeepsHist
    <2>2. Owns(p, k)
      BY Zenon, <2>1, Owners
    <2>3. bin'[k] = Nil /\ \A j \in Slot \ {k} : bin'[j] = bin[j]
      BY Zenon, <2>1, <1>a
    <2>4. info[k] # Nil
      BY Zenon, <2>1 DEF Paired, SlotInv
    <2>5. SlotInv(k)' /\ HoldInv(p)' /\ StripInv(p)' /\ \A j \in Slot : Holds(p, j)' \/ Strips(p, j)' => j = k
      BY SMTT(30), <1>t, <2>3, <2>4 DEF SlotInv, HoldInv, StripInv, Holds, Strips, HoldPcs
    <2> QED BY ZenonT(30), <1>t, <2>1, <2>2, <2>3, <2>5, PairedSlot
  <1>s. ASSUME NEW k \in Slot, Strips(p, k), info' = [info EXCEPT ![k] = Nil],
               UNCHANGED <<bin, stage, hist>>, pr'[p].pc \in {"u.move", "idle"}
        PROVE  Paired'
    <2>1. Owns(p, k)
      BY Zenon, <1>s, Owners
    <2>2. bin[k] = Nil
      BY Zenon, <1>s DEF Paired, StripInv
    <2>3. \A j \in Slot \ {k} : info'[j] = info[j]
      BY Zenon, <1>s, <1>a
    <2>4. SlotInv(k)' /\ HoldInv(p)' /\ StripInv(p)' /\ \A j \in Slot : ~Holds(p, j)' /\ ~Strips(p, j)'
      BY Zenon, <1>s, <2>2 DEF SlotInv, HoldInv, StripInv, Holds, Strips, HoldPcs
    <2> QED BY Zenon, <1>s, <2>1, <2>3, <2>4, PairedSlot
  <1>1. CASE UndoCheckStep(p)
    <2>1. pr'[p].pc \in {"idle", "u.move"} /\ UNCHANGED <<bin, info, stage, hist>>
      BY Zenon, <1>1 DEF UndoCheckStep, Rest, Ends
    <2> QED BY Zenon, <2>1, PairedQuiet DEF HoldPcs
  <1>2. CASE UndoMoveStep(p)
    <2>1. CASE pr'[p].pc = "idle" /\ UNCHANGED <<home, bin>>
      <3>1. UNCHANGED <<bin, info, stage, hist>>
        BY Zenon, <1>2, <2>1 DEF UndoMoveStep
      <3> QED BY Zenon, <2>1, <3>1, PairedQuiet DEF HoldPcs
    <2>2. CASE /\ t.list # <<>> /\ pr'[p].pc = "u.info" /\ pr'[p].list = t.list
               /\ FromBin(Head(t.list).k, Head(t.list).place)
      <3>1. PICK k \in Slot : k = Head(t.list).k
        BY Zenon, <1>2, <2>2, StepPlaces DEF UndoMoveStep, Me
      <3>2. UNCHANGED info
        BY Zenon, <1>2 DEF UndoMoveStep
      <3> QED BY ZenonT(30), <2>2, <3>1, <3>2, <1>t
    <2> QED BY Zenon, <1>2, <2>1, <2>2 DEF UndoMoveStep, Ends
  <1>3. CASE UndoInfoStep(p)
    <2>1. t.list \in Seq(Item) /\ t.list # <<>>
      BY Zenon, <1>3, <1>a DEF UndoInfoStep, Knows, UndoPcs
    <2>2. Head(t.list) \in Item
      BY Zenon, <2>1, HeadTail
    <2>3. PICK k \in Slot : k = Head(t.list).k
      BY Zenon, <2>2 DEF Item
    <2>4. Strips(p, k) /\ info' = [info EXCEPT ![k] = Nil] /\ UNCHANGED <<bin, stage, hist>> /\ pr'[p].pc = "u.move"
      BY Zenon, <1>3, <2>3 DEF UndoInfoStep, Strips
    <2> QED BY Zenon, <2>4, <1>s
  <1>4. CASE RestoreLookStep(p)
    <2>1. UNCHANGED <<bin, info, stage, hist>> /\ pr'[p].pc \in {"idle", "r.move", "t.meta"}
      BY Zenon, <1>4 DEF RestoreLookStep, Rest
    <2> QED BY Zenon, <2>1, PairedQuiet DEF HoldPcs
  <1>f. t.pc \in RestorePcs => t.from \in Slot
    BY Zenon, <1>a DEF Knows, RestorePcs, Stopped
  <1>5. CASE RestoreMoveStep(p)
    <2>1. CASE pr'[p].pc = "idle" /\ UNCHANGED <<home, bin>>
      <3>1. UNCHANGED <<bin, info, stage, hist>>
        BY Zenon, <1>5, <2>1 DEF RestoreMoveStep
      <3> QED BY Zenon, <2>1, <3>1, PairedQuiet DEF HoldPcs
    <2>2. CASE pr'[p].pc = "r.info" /\ pr'[p].from = t.from /\ FromBin(t.from, t.target)
      <3>1. PICK k \in Slot : k = t.from
        BY Zenon, <1>5, <1>f DEF RestoreMoveStep, RestorePcs
      <3>2. UNCHANGED info
        BY Zenon, <1>5 DEF RestoreMoveStep
      <3> QED BY Zenon, <2>2, <3>1, <3>2, <1>t
    <2> QED BY ZenonT(30), <1>5, <2>1, <2>2 DEF RestoreMoveStep
  <1>6. CASE RestoreInfoStep(p)
    <2>1. PICK k \in Slot : k = t.from
      BY <1>6, <1>f DEF RestoreInfoStep, RestorePcs
    <2>2. Strips(p, k) /\ info' = [info EXCEPT ![k] = Nil] /\ UNCHANGED <<bin, stage, hist>> /\ pr'[p].pc = "idle"
      BY Zenon, <1>6, <2>1 DEF RestoreInfoStep, Strips
    <2> QED BY Zenon, <2>2, <1>s
  <1> QED BY ZenonT(30), <1>1, <1>2, <1>3, <1>4, <1>5, <1>6

\* What an emptying has yet to delete: every file there is, and the files first.
ListInv(p) ==
  pr[p].pc \in EmptyPcs =>
    /\ \A k \in Slot : bin[k] # Nil =>
         \E i \in 1..Len(pr[p].list) : pr[p].list[i].part = "files" /\ pr[p].list[i].k = k
    /\ \A i, j \in 1..Len(pr[p].list) :
         i < j /\ pr[p].list[j].part = "files" => pr[p].list[i].part = "files"
    /\ pr[p].pc = "e.info" => \A i \in 1..Len(pr[p].list) : pr[p].list[i].part = "files"

LEMMA PairedDeletion ==
  ASSUME Typed, AloneInv, Has("alone"), Paired, NEW p \in Proc, ListInv(p), Others(p),
         DeleteFileStep(p) \/ DeleteInfoStep(p) \/ EmptyInfoStep(p) \/ EmptyDeleteStep(p)
  PROVE  Paired'
  <1> DEFINE t == pr[p]
  <1>a. Knows(t) /\ info \in [Slot -> Info \cup {Nil}] /\ bin \in [Slot -> File \cup {Nil}]
    BY Zenon, ThreadFields DEF Typed
  <1>0. t.pc \notin Stopped
    BY Zenon DEF DeleteFileStep, DeleteInfoStep, EmptyInfoStep, EmptyDeleteStep, Stopped
  <1>s. \A q \in Proc \ {p} : pr[q].pc \in Stopped
    BY Zenon, <1>0, AtWorkAlone
  <1>o. \A k \in Slot : Owns(p, k)
    BY Zenon, <1>s DEF Owns, Strips, Holds, HoldPcs, Stopped
  <1>l. \A q \in Proc \ {p} : pr[q].pc # "t.land"
    BY Zenon, <1>s DEF Stopped
  <1>d. ASSUME NEW k \in Slot, Deletes(k), UNCHANGED info, pr'[p].pc \in {"d.info", "e.del"}
        PROVE  Paired'
    <2>1. bin'[k] = Nil /\ hist'.was = hist.was
      BY Zenon, <1>d, <1>a DEF Deletes
    <2>2. \A j \in Slot \ {k} : info'[j] = info[j] /\ bin'[j] = bin[j]
      BY Zenon, <1>d, <1>a DEF Deletes
    <2>3. SlotInv(k)' /\ HoldInv(p)' /\ StripInv(p)' /\ \A j \in Slot : ~Holds(p, j)' /\ ~Strips(p, j)'
      BY Zenon, <1>d, <2>1 DEF SlotInv, HoldInv, StripInv, Holds, Strips, HoldPcs
    <2> QED BY ZenonT(30), <1>o, <1>l, <2>1, <2>2, <2>3, PairedSlot
  <1>f. t.pc \in DeletePcs => t.from \in Slot
    BY Zenon, <1>a DEF Knows, DeletePcs, Stopped
  <1>q. ASSUME UNCHANGED <<bin, info, stage, hist>>, pr'[p].pc \in {"d.info", "e.del", "idle"}
        PROVE  Paired'
    BY Zenon, <1>q, PairedQuiet DEF HoldPcs
  <1>1. CASE DeleteFileStep(p)
    <2>1. PICK k \in Slot : k = t.from
      BY Zenon, <1>1, <1>f DEF DeleteFileStep, DeletePcs
    <2>2. UNCHANGED <<info, stage>> /\ pr'[p].pc = "d.info" /\ (UNCHANGED <<bin, hist>> \/ Deletes(k))
      BY Zenon, <1>1, <2>1 DEF DeleteFileStep
    <2> QED BY Zenon, <2>2, <1>d, <1>q
  <1>2. CASE DeleteInfoStep(p)
    <2>1. PICK k \in Slot : k = t.from
      BY Zenon, <1>2, <1>f DEF DeleteInfoStep, DeletePcs
    <2>2. /\ UNCHANGED <<bin, stage, hist>> /\ pr'[p].pc = "idle"
          /\ UNCHANGED info \/ (bin[k] = Nil /\ info' = [info EXCEPT ![k] = Nil])
      BY Zenon, <1>2, <2>1 DEF DeleteInfoStep
    <2>3. CASE UNCHANGED info
      BY Zenon, <2>2, <2>3, <1>q
    <2>4. CASE bin[k] = Nil /\ info' = [info EXCEPT ![k] = Nil]
      <3>1. \A j \in Slot \ {k} : info'[j] = info[j]
        BY Zenon, <2>4, <1>a
      <3>2. SlotInv(k)' /\ HoldInv(p)' /\ StripInv(p)' /\ \A j \in Slot : ~Holds(p, j)' /\ ~Strips(p, j)'
        BY Zenon, <2>2, <2>4 DEF SlotInv, HoldInv, StripInv, Holds, Strips, HoldPcs
      <3> QED BY ZenonT(30), <2>2, <1>o, <1>l, <3>1, <3>2, PairedSlot
    <2> QED BY Zenon, <2>2, <2>3, <2>4
  <1>3. CASE EmptyInfoStep(p)
    BY Zenon, <1>3, <1>q DEF EmptyInfoStep, Rest
  <1>4. CASE EmptyDeleteStep(p)
    <2> DEFINE it == Head(t.list)
    <2>1. CASE pr'[p].pc = "idle" /\ UNCHANGED <<bin, info, hist>>
      BY ZenonT(30), <1>4, <2>1, <1>q DEF EmptyDeleteStep
    <2>2. CASE t.list # <<>> /\ pr'[p].pc = "e.del"
      <3>0. t.list \in Seq(Doom) /\ t.pc = "e.del"
        BY ZenonT(30), <1>4, <1>a DEF EmptyDeleteStep, Knows, EmptyPcs
      <3>1. it \in Doom /\ 1 \in 1..Len(t.list) /\ t.list[1] = it /\ Len(t.list) \in Nat
        BY SMTT(30), <2>2, <3>0, HeadTail
      <3>2. PICK k \in Slot : k = it.k
        BY Zenon, <3>1 DEF Doom
      <3>3. CASE it.part = "files" /\ Deletes(k) /\ UNCHANGED info
        <4>1. UNCHANGED stage
          BY Zenon, <1>4 DEF EmptyDeleteStep
        <4> QED BY Zenon, <2>2, <3>3, <4>1, <1>d
      <3>4. CASE it.part = "info" /\ UNCHANGED <<bin, hist>> /\ info' = [info EXCEPT ![k] = Nil]
        <4>1. \A i \in 1..Len(t.list) : t.list[i].part # "files"
          <5> SUFFICES ASSUME NEW i \in 1..Len(t.list), t.list[i].part = "files"
                       PROVE  FALSE
            BY Zenon
          <5>1. i # 1
            BY Zenon, <3>1, <3>4
          <5>2. 1 < i
            BY SMTT(30), <5>1
          <5>3. t.list[1].part = "files"
            BY Zenon, <3>0, <3>1, <5>2 DEF ListInv, EmptyPcs
          <5> QED BY Zenon, <3>1, <3>4, <5>3
        <4>2. bin[k] = Nil
          BY ZenonT(30), <3>0, <4>1 DEF ListInv, EmptyPcs
        <4>3. UNCHANGED stage
          BY Zenon, <1>4 DEF EmptyDeleteStep
        <4>4. \A j \in Slot \ {k} : info'[j] = info[j]
          BY Zenon, <3>4, <1>a
        <4>5. SlotInv(k)' /\ HoldInv(p)' /\ StripInv(p)' /\ \A j \in Slot : ~Holds(p, j)' /\ ~Strips(p, j)'
          BY ZenonT(30), <2>2, <3>4, <4>2 DEF SlotInv, HoldInv, StripInv, Holds, Strips, HoldPcs
        <4> QED BY Zenon, <3>4, <1>o, <1>l, <4>3, <4>4, <4>5, PairedSlot
      <3> QED BY ZenonT(30), <1>4, <2>2, <3>2, <3>3, <3>4 DEF EmptyDeleteStep
    <2> QED BY ZenonT(30), <1>4, <2>1, <2>2 DEF EmptyDeleteStep
  <1> QED BY ZenonT(30), <1>1, <1>2, <1>3, <1>4

LEMMA EmptyingIs ==
  ASSUME NEW p \in Proc, ThreadStep(p), pr[p].pc \in EmptyPcs
  PROVE  EmptyInfoStep(p) \/ EmptyDeleteStep(p)
  <1> USE DEF EmptyPcs
  <1>1. ~MetaStep(p) /\ ~InfoStep(p) /\ ~LookStep(p) /\ ~DropStep(p) /\ ~WriteStep(p)
    BY Zenon DEF MetaStep, InfoStep, LookStep, DropStep, WriteStep
  <1>2. ~MoveStep(p) /\ ~LandStep(p) /\ ~SyncStep(p) /\ ~BackStep(p)
    BY Zenon DEF MoveStep, LandStep, SyncStep, BackStep
  <1>3. ~UndoCheckStep(p) /\ ~UndoMoveStep(p) /\ ~UndoInfoStep(p)
    BY Zenon DEF UndoCheckStep, UndoMoveStep, UndoInfoStep
  <1>4. ~RestoreLookStep(p) /\ ~RestoreMoveStep(p) /\ ~RestoreInfoStep(p)
    BY Zenon DEF RestoreLookStep, RestoreMoveStep, RestoreInfoStep
  <1>5. ~DeleteFileStep(p) /\ ~DeleteInfoStep(p)
    BY Zenon DEF DeleteFileStep, DeleteInfoStep
  <1> QED BY ZenonT(30), <1>1, <1>2, <1>3, <1>4, <1>5 DEF ThreadStep

\* The emptying's own steps keep its list.
LEMMA ListSteps ==
  ASSUME Typed, NEW p \in Proc, ListInv(p), EmptyInfoStep(p) \/ EmptyDeleteStep(p)
  PROVE  ListInv(p)'
  <1> DEFINE l == pr[p].list
  <1>a. l \in Seq(Doom) /\ bin \in [Slot -> File \cup {Nil}]
    BY ZenonT(30), ThreadFields DEF Typed, Knows, EmptyPcs, EmptyInfoStep, EmptyDeleteStep
  <1>1. CASE EmptyInfoStep(p)
    <2>1. PICK slots \in Listings({k \in Slot : info[k] # Nil}) : pr'[p].list = l \o Entries("info", slots)
      BY Zenon, <1>1 DEF EmptyInfoStep
    <2>2. PICK u \in Seq(Doom) : u = Entries("info", slots) /\ \A i \in 1..Len(u) : u[i].part = "info"
      <3>1. /\ Entries("info", slots) \in Seq(Doom) /\ DOMAIN Entries("info", slots) = DOMAIN slots
            /\ \A i \in DOMAIN slots : Entries("info", slots)[i] = [part |-> "info", k |-> slots[i]]
        <4>1. {k \in Slot : info[k] # Nil} \in SUBSET Slot /\ "info" \in {"files", "info"}
          BY Zenon
        <4> QED BY <4>1, EntriesTyped
      <3>2. PICK v \in Seq(Doom) : v = Entries("info", slots)
        BY Zenon, <3>1
      <3>3. \A i \in 1..Len(v) : v[i] = [part |-> "info", k |-> slots[i]]
        BY SMTT(30), <3>1, <3>2
      <3>4. \A i \in 1..Len(v) : v[i].part = "info"
        <4> TAKE i \in 1..Len(v)
        <4>1. v[i] = [part |-> "info", k |-> slots[i]]
          BY Zenon, <3>3
        <4> QED BY <4>1
      <3> QED BY <3>2, <3>4, Zenon
    <2>3. PICK m \in Seq(Doom) : m = l \o u /\ m = pr'[p].list
      BY ZenonT(30), <2>1, <2>2, <1>a, ConcatTyped
    <2>4. /\ Len(l) \in Nat /\ Len(u) \in Nat /\ Len(m) = Len(l) + Len(u)
          /\ \A i \in 1..Len(l) : m[i] = l[i]
          /\ \A i \in 1..Len(u) : m[Len(l) + i] = u[i]
      <3>1. /\ l \o u \in Seq(Doom) /\ Len(l \o u) = Len(l) + Len(u)
            /\ \A i \in 1..Len(l) : (l \o u)[i] = l[i]
            /\ \A i \in 1..Len(u) : (l \o u)[Len(l) + i] = u[i]
        BY <1>a, ConcatTyped
      <3>2. Len(l) \in Nat /\ Len(u) \in Nat
        BY SMTT(30), <1>a
      <3> HIDE DEF l
      <3> QED BY Zenon, <2>3, <3>1, <3>2
    <2>5. \A i \in 1..Len(l) : l[i].part = "files" /\ m[i].part = "files" /\ m[i].k = l[i].k
      BY Zenon, <1>1, <2>4 DEF EmptyInfoStep, ListInv, EmptyPcs
    <2>6. \A j \in 1..Len(m) : m[j].part = "files" => j \in 1..Len(l)
      <3> SUFFICES ASSUME NEW j \in 1..Len(m), j \notin 1..Len(l) PROVE m[j].part = "info"
        OBVIOUS
      <3>1. PICK i \in 1..Len(u) : j = Len(l) + i
        <4>1. j - Len(l) \in 1..Len(u) /\ j = Len(l) + (j - Len(l))
          BY <2>4
        <4> QED BY Zenon, <4>1
      <3> QED BY Zenon, <2>2, <2>4, <3>1
    <2>7. \A i, j \in 1..Len(m) : i < j /\ m[j].part = "files" => m[i].part = "files"
      <3> SUFFICES ASSUME NEW i \in 1..Len(m), NEW j \in 1..Len(m), i < j, m[j].part = "files"
                   PROVE  m[i].part = "files"
        BY Zenon
      <3>1. i \in 1..Len(l)
        BY SMTT(30), <2>4, <2>6
      <3> QED BY <2>5, <3>1
    <2>8. \A k \in Slot : bin[k] # Nil => \E i \in 1..Len(m) : m[i].part = "files" /\ m[i].k = k
      <3> SUFFICES ASSUME NEW k \in Slot, bin[k] # Nil
                   PROVE  \E i \in 1..Len(m) : m[i].part = "files" /\ m[i].k = k
        BY Zenon
      <3>1. PICK i \in 1..Len(l) : l[i].part = "files" /\ l[i].k = k
        BY Zenon, <1>1 DEF EmptyInfoStep, ListInv, EmptyPcs
      <3>2. i \in 1..Len(m)
        BY SMTT(30), <2>4
      <3> QED BY Zenon, <2>5, <3>1, <3>2
    <2>9. pr'[p].pc = "e.del" /\ bin' = bin
      BY Zenon, <1>1 DEF EmptyInfoStep, Rest
    <2> QED BY SMTT(30), <2>3, <2>7, <2>8, <2>9 DEF ListInv
  <1>2. CASE EmptyDeleteStep(p) /\ pr'[p].pc = "idle"
    BY Zenon, <1>2 DEF ListInv, EmptyPcs
  <1>3. CASE EmptyDeleteStep(p) /\ pr'[p].pc # "idle"
    <2>1. l # <<>> /\ pr'[p].pc = "e.del" /\ pr'[p].list = Tail(l) /\ pr[p].pc = "e.del"
      BY <1>3 DEF EmptyDeleteStep
    <2>2. PICK m \in Seq(Doom) : m = Tail(l) /\ m = pr'[p].list
      BY ZenonT(30), <2>1, <1>a, HeadTail
    <2>3. /\ Len(l) \in Nat \ {0} /\ Len(m) = Len(l) - 1 /\ l[1] = Head(l) /\ Head(l) \in Doom
          /\ \A i \in 1..Len(m) : m[i] = l[i + 1] /\ i + 1 \in 1..Len(l)
      BY <2>1, <2>2, <1>a, HeadTail, TailElements
    <2>4. \A i, j \in 1..Len(m) : i < j /\ m[j].part = "files" => m[i].part = "files"
      <3> SUFFICES ASSUME NEW i \in 1..Len(m), NEW j \in 1..Len(m), i < j, m[j].part = "files"
                   PROVE  m[i].part = "files"
        BY Zenon
      <3>1. i + 1 < j + 1 /\ l[j + 1].part = "files" /\ i + 1 \in 1..Len(l) /\ j + 1 \in 1..Len(l)
        BY SMTT(30), <2>3
      <3>2. l[i + 1].part = "files"
        BY Zenon, <2>1, <3>1 DEF ListInv, EmptyPcs
      <3> QED BY Zenon, <2>3, <3>2
    <2>5. Head(l).part = "files" => bin'[Head(l).k] = Nil
      <3>1. Head(l).k \in Slot
        BY Zenon, <2>3 DEF Doom
      <3>2. Head(l).part = "files" => Deletes(Head(l).k)
        BY Zenon, <1>3, <2>1 DEF EmptyDeleteStep
      <3> QED BY Zenon, <3>1, <3>2, <1>a DEF Deletes
    <2>6. \A k \in Slot : bin'[k] # Nil => bin[k] # Nil
      <3>1. bin' = bin \/ (Head(l).k \in Slot /\ Deletes(Head(l).k))
        BY ZenonT(30), <1>3, <2>1, <2>3 DEF EmptyDeleteStep, Doom
      <3> QED BY Zenon, <3>1, <1>a DEF Deletes
    <2>7. \A k \in Slot : bin'[k] # Nil => \E i \in 1..Len(m) : m[i].part = "files" /\ m[i].k = k
      <3> SUFFICES ASSUME NEW k \in Slot, bin'[k] # Nil
                   PROVE  \E i \in 1..Len(m) : m[i].part = "files" /\ m[i].k = k
        BY Zenon
      <3>1. PICK j \in 1..Len(l) : l[j].part = "files" /\ l[j].k = k
        BY Zenon, <2>1, <2>6 DEF ListInv, EmptyPcs
      <3>2. j # 1
        BY ZenonT(30), <2>3, <2>5, <3>1
      <3>3. PICK i \in 1..Len(m) : j = i + 1
        <4>1. j - 1 \in 1..Len(m) /\ j = (j - 1) + 1
          BY <2>3, <3>2
        <4> QED BY Zenon, <4>1
      <3> QED BY ZenonT(30), <2>3, <3>1, <3>3
    <2> QED BY SMTT(30), <2>1, <2>2, <2>4, <2>7 DEF ListInv
  <1> QED BY ZenonT(30), <1>1, <1>2, <1>3

\* Guarded, one thread empties and no other works: its list stays true.
LEMMA ListBegin ==
  ASSUME Typed, NEW p \in Proc, BeginStep(p)
  PROVE  ListInv(p)'
  <1>1. CASE pr'[p].pc \notin EmptyPcs
    BY Zenon, <1>1 DEF ListInv
  <1>2. CASE pr'[p].pc \in EmptyPcs
    <2>1. /\ pr'[p].pc = "e.info" /\ bin' = bin
          /\ \E s \in Listings({k \in Slot : bin[k] # Nil}) : pr'[p].list = Entries("files", s)
      BY Zenon, <1>2 DEF BeginStep, EmptyPcs
    <2>2. PICK slots \in Listings({k \in Slot : bin[k] # Nil}) : pr'[p].list = Entries("files", slots)
      BY Zenon, <2>1
    <2>3. /\ Entries("files", slots) \in Seq(Doom) /\ DOMAIN Entries("files", slots) = DOMAIN slots
          /\ \A i \in DOMAIN slots : Entries("files", slots)[i] = [part |-> "files", k |-> slots[i]]
          /\ \A k \in {j \in Slot : bin[j] # Nil} : \E i \in DOMAIN slots : slots[i] = k
      <3>1. {k \in Slot : bin[k] # Nil} \in SUBSET Slot /\ "files" \in {"files", "info"}
        BY Zenon
      <3> QED BY Zenon, <3>1, EntriesTyped
    <2>4. PICK m \in Seq(Doom) : m = pr'[p].list /\ DOMAIN slots = 1..Len(m)
                                 /\ \A i \in 1..Len(m) : m[i] = [part |-> "files", k |-> slots[i]]
      BY SMTT(30), <2>2, <2>3
    <2>5. \A i \in 1..Len(m) : m[i].part = "files" /\ m[i].k = slots[i]
      <3> TAKE i \in 1..Len(m)
      <3>1. m[i] = [part |-> "files", k |-> slots[i]]
        BY <2>4
      <3> QED BY <3>1
    <2>6. \A k \in Slot : bin'[k] # Nil => \E i \in 1..Len(m) : m[i].part = "files" /\ m[i].k = k
      BY <2>1, <2>3, <2>4, <2>5
    <2> QED BY Zenon, <2>4, <2>5, <2>6 DEF ListInv
  <1> QED BY Zenon, <1>1, <1>2

LEMMA ListNext ==
  ASSUME Typed, AloneInv, Guarded, \A p \in Proc : ListInv(p), [Next]_vars
  PROVE  \A p \in Proc : ListInv(p)'
  <1>1. CASE UNCHANGED vars
    BY <1>1 DEF vars, ListInv
  <1>2. CASE Killed
    <2>1. \A q \in Proc : pr'[q] = pr[q] \/ pr'[q].pc = "dead"
      BY Zenon, <1>2 DEF Killed
    <2>2. bin' = bin
      BY Zenon, <1>2 DEF Killed, Rest
    <2>3. ASSUME NEW q \in Proc PROVE ListInv(q)'
      <3>1. CASE pr'[q].pc = "dead"
        BY Zenon, <3>1 DEF ListInv, EmptyPcs
      <3>2. CASE pr'[q] = pr[q]
        BY SMTT(30), <3>2, <2>2 DEF ListInv
      <3> QED BY ZenonT(30), <2>1, <3>1, <3>2
    <2> QED BY Zenon, <2>3
  <1>3. CASE UNCHANGED <<pr, bin, info, stage, undo, hist, env>>
    BY Zenon, <1>3 DEF ListInv
  <1>4. ASSUME NEW p \in Proc, Others(p), NEW q \in Proc \ {p}, Has("alone") => pr[q].pc \in Stopped
        PROVE  ListInv(q)'
    <2>1. pr[q].pc \in EmptyPcs => Has("alone")
      BY Zenon DEF AloneInv, Guarded
    <2>2. pr[q].pc \notin EmptyPcs
      BY Zenon, <1>4, <2>1 DEF EmptyPcs, Stopped
    <2> QED BY Zenon, <1>4, <2>2 DEF ListInv, Others
  <1>5. ASSUME NEW p \in Proc, Others(p), Has("alone") => \A q \in Proc \ {p} : pr[q].ops = 0, BeginStep(p)
        PROVE  \A q \in Proc : ListInv(q)'
    <2>1. \A q \in Proc : pr[q].ops = 0 => pr[q].pc \in Stopped
      BY Zenon DEF Typed, Knows
    <2>2. \A q \in Proc \ {p} : ListInv(q)'
      BY Zenon, <1>5, <2>1, <1>4
    <2>3. ListInv(p)'
      BY Zenon, <1>5, ListBegin
    <2> QED BY Zenon, <2>2, <2>3
  <1>6. ASSUME NEW p \in Proc, Others(p), ThreadStep(p)
        PROVE  \A q \in Proc : ListInv(q)'
    <2>1. pr[p].pc \notin Stopped /\ (pr'[p].pc \in EmptyPcs => pr[p].pc \in EmptyPcs)
      BY Zenon, <1>6, EmptyingSteps
    <2>2. \A q \in Proc \ {p} : ListInv(q)'
      BY ZenonT(30), <1>6, <1>4, <2>1, AtWorkAlone
    <2>3. ListInv(p)'
      <3>1. CASE pr'[p].pc \notin EmptyPcs
        BY <3>1 DEF ListInv
      <3>2. CASE pr[p].pc \in EmptyPcs
        BY ZenonT(30), <1>6, <3>2, EmptyingIs, ListSteps
      <3> QED BY ZenonT(30), <2>1, <3>1, <3>2
    <2> QED BY <2>2, <2>3
  <1> QED BY Zenon, <1>1, <1>2, <1>3, <1>5, <1>6, Steps, Zenon

\* What the proof needs of an environment: two threads that copy are of two
\* processes (the staging folder is named by the process), and files are deleted
\* for good only when nobody else is at work.
Orderly(e) == OwnFolders(e) /\ ("delete" \in e => "alone" \in e)
BackInv == Orderly(env) /\ Guarded => Paired /\ \A p \in Proc : ListInv(p)

LEMMA PairedKilled ==
  ASSUME Paired, Killed
  PROVE  Paired'
  <1>1. UNCHANGED <<bin, info, stage, hist>>
    BY Zenon DEF Killed, Rest
  <1>2. \A q \in Proc : pr'[q] = pr[q] \/ pr'[q].pc = "dead"
    BY Zenon DEF Killed
  <1>3. \A k \in Slot : SlotInv(k)'
    BY Zenon, <1>1 DEF Paired, SlotInv
  <1>4. \A q \in Proc : HoldInv(q)'
    <2> SUFFICES ASSUME NEW q \in Proc PROVE HoldInv(q)'
      BY Zenon
    <2>1. CASE pr'[q].pc = "dead"
      BY Zenon, <2>1 DEF HoldInv
    <2>2. CASE pr'[q] = pr[q]
      BY Zenon, <2>2, <1>1 DEF HoldInv, Paired
    <2> QED BY ZenonT(30), <1>2, <2>1, <2>2
  <1>5. \A q \in Proc, k \in Slot : (Strips(q, k)' => Strips(q, k)) /\ (Holds(q, k)' => Holds(q, k))
    BY Zenon, <1>2 DEF Strips, Holds, HoldPcs
  <1>6. \A q \in Proc : StripInv(q)'
    BY Zenon, <1>1, <1>5 DEF Paired, StripInv
  <1>7. Exclusive'
    BY <1>5 DEF Paired, Exclusive
  <1> QED BY ZenonT(30), <1>3, <1>4, <1>6, <1>7 DEF Paired

LEMMA PairedNext ==
  ASSUME Typed, Apart, AloneInv, Orderly(env), Guarded, Paired, \A p \in Proc : ListInv(p), [Next]_vars
  PROVE  Paired'
  <1>1. CASE UNCHANGED <<pr, bin, info, stage, hist>>
    BY SMTT(30), <1>1 DEF Paired, SlotInv, HoldInv, StripInv, Exclusive, Strips, Holds
  <1>2. ASSUME NEW p \in Proc, Others(p), BeginStep(p)
        PROVE  Paired'
    <2>1. /\ UNCHANGED <<bin, info, stage>> /\ hist'.was = hist.was
          /\ pr'[p].pc \in {"t.meta", "u.check", "r.look", "d.file", "e.info"}
      BY Zenon, <1>2 DEF BeginStep, KeepsHist
    <2> QED BY Zenon, <1>2, <2>1, PairedQuiet DEF HoldPcs
  <1>3. ASSUME NEW p \in Proc, Others(p), ThreadStep(p)
        PROVE  Paired'
    <2>1. CASE \/ MetaStep(p) \/ InfoStep(p) \/ LookStep(p) \/ DropStep(p) \/ WriteStep(p)
               \/ MoveStep(p) \/ LandStep(p) \/ SyncStep(p) \/ BackStep(p)
      BY Zenon, <1>3, <2>1, PairedTrash DEF Orderly
    <2>2. CASE \/ UndoCheckStep(p) \/ UndoMoveStep(p) \/ UndoInfoStep(p)
               \/ RestoreLookStep(p) \/ RestoreMoveStep(p) \/ RestoreInfoStep(p)
      BY ZenonT(30), <1>3, <2>2, PairedBack
    <2>3. CASE DeleteFileStep(p) \/ DeleteInfoStep(p) \/ EmptyInfoStep(p) \/ EmptyDeleteStep(p)
      <3>1. pr[p].pc \in DeletePcs \/ pr[p].pc \in EmptyPcs
        BY Zenon, <2>3 DEF DeleteFileStep, DeleteInfoStep, EmptyInfoStep, EmptyDeleteStep, DeletePcs, EmptyPcs
      <3>2. Has("alone")
        BY Zenon, <3>1 DEF AloneInv, Guarded, Orderly, Has
      <3> QED BY ZenonT(30), <1>3, <2>3, <3>2, PairedDeletion
    <2> QED BY ZenonT(30), <1>3, <2>1, <2>2, <2>3 DEF ThreadStep
  <1>4. CASE UNCHANGED vars
    BY <1>4, <1>1 DEF vars
  <1> QED BY ZenonT(30), <1>1, <1>2, <1>3, <1>4, PairedKilled, Steps, Zenon

LEMMA GuardedBefore ==
  ASSUME Typed, [Next]_vars
  PROVE  env' = env /\ (hist.emptied => hist'.emptied)
  <1>1. CASE UNCHANGED <<hist, env>>
    BY Zenon, <1>1
  <1>2. ASSUME NEW p \in Proc, BeginStep(p)
        PROVE  env' = env /\ (hist.emptied => hist'.emptied)
    BY Zenon, <1>2 DEF BeginStep
  <1>3. ASSUME NEW p \in Proc, ThreadStep(p)
        PROVE  env' = env /\ (hist.emptied => hist'.emptied)
    BY ZenonT(30), <1>3, EmptyingSteps
  <1>4. UNCHANGED vars \/ Killed => UNCHANGED <<hist, env>>
    BY DEF vars, Killed, Rest
  <1> QED BY ZenonT(30), <1>1, <1>2, <1>3, <1>4, Steps, Zenon

LEMMA BackNext ==
  ASSUME Typed, Apart, AloneInv, BackInv, [Next]_vars
  PROVE  BackInv'
  <1> SUFFICES ASSUME Orderly(env)', Guarded'
               PROVE  (Paired /\ \A p \in Proc : ListInv(p))'
    BY DEF BackInv
  <1>1. Orderly(env) /\ Guarded
    BY GuardedBefore DEF Orderly, OwnFolders, Guarded, Has
  <1>2. Paired /\ \A p \in Proc : ListInv(p)
    BY Zenon, <1>1 DEF BackInv
  <1> QED BY ZenonT(30), <1>1, <1>2, PairedNext, ListNext

LEMMA InitBack == Init => AloneInv /\ BackInv /\ env \in Envs
  <1> SUFFICES ASSUME Init PROVE AloneInv /\ BackInv /\ env \in Envs
    BY Zenon
  <1>1. /\ \A k \in Slot : info[k] = Nil /\ bin[k] = Nil
        /\ \A p \in Proc : pr[p].pc = "idle" /\ pr[p].ops = 0
        /\ hist.emptied = FALSE /\ env \in Envs
    BY Zenon DEF Init, Idle
  <1>2. AloneInv
    BY Zenon, <1>1 DEF AloneInv, DeletePcs, EmptyPcs
  <1>3. BackInv
    BY Zenon, <1>1 DEF BackInv, Paired, SlotInv, HoldInv, StripInv, Exclusive, Strips, ListInv, EmptyPcs
  <1> QED BY Zenon, <1>1, <1>2, <1>3

\* CanGoBack: the info file beside a binned file names the place it was taken from
\* (trash.rs `write_info' before `move_to_bin'), whatever the threads, kills and
\* failures, in every environment the runs assume of the code's callers.
THEOREM BinnedCanGoBack ==
  ASSUME \A e \in Envs : Orderly(e)
  PROVE  Spec => []CanGoBack
  <1>1. Init => Typed /\ Apart /\ AloneInv /\ BackInv /\ Orderly(env)
    BY ZenonT(30), InitTyped, InitApart, InitBack
  <1>2. Typed /\ Apart /\ AloneInv /\ BackInv /\ Orderly(env) /\ [Next]_vars
          => (Typed /\ Apart /\ AloneInv /\ BackInv /\ Orderly(env))'
    <2> SUFFICES ASSUME Typed, Apart, AloneInv, BackInv, Orderly(env), [Next]_vars
                 PROVE  (Typed /\ Apart /\ AloneInv /\ BackInv /\ Orderly(env))'
      OBVIOUS
    <2>1. Orderly(env)'
      BY Zenon, GuardedBefore DEF Orderly, OwnFolders
    <2> QED BY ZenonT(30), <2>1, TypedNext, ApartNext, AloneNext, BackNext
  <1>3. BackInv /\ Orderly(env) => CanGoBack
    BY Zenon DEF BackInv, Guarded, CanGoBack, Paired, SlotInv
  <1> QED BY <1>1, <1>2, <1>3, PTL DEF Spec

------------------------------------------------------------------------------
(* A file is somewhere, or was deleted for good.                           *)

\* In an environment with copies nothing is deleted beside another's work.
Keeping(e) == "copy" \in e => Orderly(e) /\ ("empty" \in e => "alone" \in e)
\* A staging folder holds the file its one thread is about to land, and no other,
\* unless the process died: what `remove_dir_all(&staging)' removes is empty.
StageInv(p) ==
  /\ pr[p].pc = "t.land" => stage[Pid[p]] = {pr[p].target}
  /\ pr[p].pc \notin {"t.land", "dead"} => stage[Pid[p]] = {}

LEMMA StageSteps ==
  ASSUME Typed, Has("copy"), Paired, NEW p \in Proc, StageInv(p), ThreadStep(p)
  PROVE  StageInv(p)' /\ \A i \in DOMAIN stage \ {Pid[p]} : stage'[i] = stage[i]
  <1> DEFINE t == pr[p]
  <1>a. stage \in [{Pid[q] : q \in Proc} -> SUBSET File] /\ Pid[p] \in DOMAIN stage
    BY SMTT(30) DEF Typed
  <1>q. ASSUME t.pc \notin {"t.land", "dead"}, pr'[p].pc \notin {"t.land", "dead"}, UNCHANGED stage
        PROVE  StageInv(p)' /\ \A i \in DOMAIN stage \ {Pid[p]} : stage'[i] = stage[i]
    BY Zenon, <1>q DEF StageInv
  <1> USE DEF PutsBack, Ends
  <1>1. CASE MetaStep(p) \/ InfoStep(p) \/ LookStep(p) \/ DropStep(p) \/ WriteStep(p)
    BY Zenon, <1>1, <1>q DEF MetaStep, InfoStep, LookStep, DropStep, WriteStep, Rest
  <1>2. CASE MoveStep(p)
    <2>1. stage[Pid[p]] = {}
      BY Zenon, <1>2 DEF MoveStep, StageInv
    <2>2. CASE pr'[p].pc = "t.back" /\ stage' = [stage EXCEPT ![Pid[p]] = {}]
      BY Zenon, <2>2, <1>a DEF StageInv
    <2>3. CASE pr'[p].pc = "t.land" /\ IntoStage(Head(t.todo), Pid[p]) /\ pr'[p].target = home[Head(t.todo)]
      <3>1. stage' = [stage EXCEPT ![Pid[p]] = {home[Head(t.todo)]}]
        BY ZenonT(30), <2>1, <2>3, <1>a DEF IntoStage
      <3> QED BY ZenonT(30), <2>3, <3>1, <1>a DEF StageInv
    <2> QED BY ZenonT(30), <1>2, <2>2, <2>3 DEF MoveStep
  <1>3. CASE LandStep(p)
    <2>1. stage[Pid[p]] = {t.target} /\ t.target \in stage[Pid[p]] /\ bin[t.k] = Nil
      BY Zenon, <1>3 DEF LandStep, StageInv, Paired, HoldInv
    <2>2. pr'[p].pc = "t.sync" /\ stage' = [stage EXCEPT ![Pid[p]] = {}]
      BY ZenonT(30), <1>3, <2>1, <1>a DEF LandStep, FromStage
    <2> QED BY Zenon, <2>2, <1>a DEF StageInv
  <1>4. CASE SyncStep(p) \/ BackStep(p)
    BY Zenon, <1>4, <1>q DEF SyncStep, BackStep
  <1>5. CASE UndoCheckStep(p) \/ UndoMoveStep(p) \/ UndoInfoStep(p)
    BY Zenon, <1>5, <1>q DEF UndoCheckStep, UndoMoveStep, UndoInfoStep, Rest
  <1>6. CASE RestoreLookStep(p) \/ RestoreMoveStep(p) \/ RestoreInfoStep(p)
    BY Zenon, <1>6, <1>q DEF RestoreLookStep, RestoreMoveStep, RestoreInfoStep, Rest
  <1>7. CASE DeleteFileStep(p) \/ DeleteInfoStep(p) \/ EmptyInfoStep(p) \/ EmptyDeleteStep(p)
    BY Zenon, <1>7, <1>q DEF DeleteFileStep, DeleteInfoStep, EmptyInfoStep, EmptyDeleteStep, Rest
  <1> QED BY ZenonT(30), <1>1, <1>2, <1>3, <1>4, <1>5, <1>6, <1>7 DEF ThreadStep

LEMMA StageNext ==
  ASSUME Typed, Has("copy"), OwnFolders(env), Paired, \A p \in Proc : StageInv(p), [Next]_vars
  PROVE  \A p \in Proc : StageInv(p)'
  <1>1. CASE UNCHANGED <<pr, stage>>
    BY Zenon, <1>1 DEF StageInv
  <1>2. CASE Killed
    <2>1. stage' = stage /\ \A q \in Proc : pr'[q] = pr[q] \/ pr'[q].pc = "dead"
      BY <1>2 DEF Killed, Rest
    <2> QED BY Zenon, <2>1 DEF StageInv
  <1>3. ASSUME NEW p \in Proc, Others(p), pr[p].pc = "idle", BeginStep(p)
        PROVE  \A q \in Proc : StageInv(q)'
    <2>1. stage' = stage /\ pr'[p].pc \notin {"t.land", "dead"}
      BY Zenon, <1>3 DEF BeginStep
    <2>2. StageInv(p)'
      BY Zenon, <1>3, <2>1 DEF StageInv
    <2>3. \A q \in Proc \ {p} : StageInv(q)'
      BY Zenon, <1>3, <2>1 DEF StageInv, Others
    <2> QED BY Zenon, <2>2, <2>3
  <1>4. ASSUME NEW p \in Proc, Others(p), ThreadStep(p)
        PROVE  \A q \in Proc : StageInv(q)'
    <2>1. StageInv(p)' /\ \A i \in DOMAIN stage \ {Pid[p]} : stage'[i] = stage[i]
      BY Zenon, <1>4, StageSteps
    <2>2. \A q \in Proc \ {p} : Pid[q] \in DOMAIN stage \ {Pid[p]}
      BY ZenonT(30) DEF OwnFolders, Has, Typed
    <2>3. \A q \in Proc \ {p} : StageInv(q)'
      BY Zenon, <1>4, <2>1, <2>2 DEF StageInv, Others
    <2> QED BY Zenon, <2>1, <2>3
  <1>5. CASE UNCHANGED vars
    BY Zenon, <1>5, <1>1 DEF vars
  <1> QED BY ZenonT(30), <1>1, <1>2, <1>3, <1>4, <1>5, Steps, Zenon

Kept(f) ==
  \/ \E a \in Spot : home[a] = f
  \/ \E k \in Slot : bin[k] = f
  \/ \E i \in DOMAIN stage : f \in stage[i]
  \/ f \in hist.gone

\* A step moves a file on, or deletes it for good.
LEMMA KeptNext ==
  ASSUME Typed, [Next]_vars, Has("copy") => \A p \in Proc : StageInv(p), NEW f \in File, Kept(f)
  PROVE  Kept(f)'
  <1>t. /\ home \in [Spot -> File \cup {Nil}] /\ bin \in [Slot -> File \cup {Nil}]
        /\ stage \in [DOMAIN stage -> SUBSET File] /\ f # Nil
    BY Zenon, NilAssumption DEF Typed
  <1>1. CASE KeepsFiles
    BY Zenon, <1>1 DEF KeepsFiles, KeepsHist, Kept
  <1>2. ASSUME NEW a \in Spot, NEW k \in Slot, IntoBin(a, k)
        PROVE  Kept(f)'
    BY Zenon, <1>t, <1>2 DEF IntoBin, Kept
  <1>3. ASSUME NEW a \in Spot, NEW i \in DOMAIN stage, IntoStage(a, i)
        PROVE  Kept(f)'
    BY Zenon, <1>t, <1>3 DEF IntoStage, Kept
  <1>4. ASSUME NEW i \in DOMAIN stage, stage[i] = {}, Clears(i)
        PROVE  Kept(f)'
    BY Zenon, <1>t, <1>4 DEF Clears, KeepsHist, Kept
  <1>5. ASSUME NEW g \in File, NEW i \in DOMAIN stage, NEW k \in Slot, FromStage(g, i, k)
        PROVE  Kept(f)'
    BY Zenon, <1>t, <1>5 DEF FromStage, KeepsHist, Kept
  <1>6. ASSUME NEW k \in Slot, NEW a \in Spot, FromBin(k, a)
        PROVE  Kept(f)'
    BY Zenon, <1>t, <1>6 DEF FromBin, KeepsHist, Kept
  <1>7. ASSUME NEW k \in Slot, Deletes(k)
        PROVE  Kept(f)'
    BY Zenon, <1>t, <1>7 DEF Deletes, Kept
  <1>8. ASSUME NEW a \in Place, NEW g \in File, Makes(a, g)
        PROVE  Kept(f)'
    BY Zenon, <1>t, <1>8 DEF Makes, KeepsHist, Kept, Spot
  <1>9. ASSUME NEW p \in Proc, FileStep(p)
        PROVE  Kept(f)'
    <2>1. Me(p).pc = "t.move" /\ Has("copy") => stage[Pid[p]] = {}
      BY DEF StageInv, Me
    <2> QED BY ZenonT(30), <1>9, <2>1, <1>1, <1>2, <1>3, <1>4, <1>5, <1>6, <1>7, StepPlaces DEF FileStep, TrashPcs, Spot
  <1> QED BY ZenonT(30), <1>1, <1>8, <1>9, FileSteps

KeepInv == Has("copy") => \A p \in Proc : StageInv(p)

\* NothingVanishes: a file is at a place, in the bin, in the staging folder of the
\* copy that fetched it, or was deleted for good by who asked for that: no step of
\* trash_into, untrash, restore_one, delete_for_good or Empty loses one, whatever
\* fails and whenever a process is killed.
THEOREM NoFileVanishes ==
  ASSUME \A e \in Envs : Keeping(e)
  PROVE  Spec => []NothingVanishes
  <1> DEFINE All == \A a \in Place : Kept(Start[a])
             Inv == /\ Typed /\ Apart /\ AloneInv /\ BackInv
                    /\ Keeping(env) /\ KeepInv /\ All
  <1>1. Init => Inv
    <2> SUFFICES ASSUME Init PROVE AloneInv /\ BackInv /\ Keeping(env) /\ KeepInv /\ All
      BY Zenon, InitTyped, InitApart
    <2>1. AloneInv /\ BackInv /\ env \in Envs
      BY Zenon, InitBack
    <2>2. KeepInv
      BY Zenon DEF Init, Idle, KeepInv, StageInv
    <2>3. All
      BY Zenon DEF Init, Kept, Spot
    <2> QED BY ZenonT(30), <2>1, <2>2, <2>3
  <1>2. Inv /\ [Next]_vars => Inv'
    <2> SUFFICES ASSUME Inv, [Next]_vars PROVE Inv'
      OBVIOUS
    <2>1. (Typed /\ Apart /\ AloneInv /\ BackInv)'
      BY ZenonT(30), TypedNext, ApartNext, AloneNext, BackNext
    <2>2. env' = env
      BY Zenon, GuardedBefore
    <2>3. Keeping(env)'
      BY Zenon, <2>2 DEF Keeping, Orderly, OwnFolders
    <2>4. KeepInv'
      <3>1. Has("copy") => Guarded /\ Orderly(env)
        BY DEF Keeping, Guarded, AloneInv, Has
      <3>2. Has("copy") => Paired /\ OwnFolders(env)
        BY Zenon, <3>1 DEF BackInv, Orderly
      <3> QED BY ZenonT(30), <2>2, <3>2, StageNext DEF KeepInv, Has
    <2>5. All'
      BY Zenon, KeptNext, StartAssumption DEF KeepInv
    <2> QED BY ZenonT(30), <2>1, <2>3, <2>4, <2>5
  <1>3. Inv => NothingVanishes
    <2> SUFFICES ASSUME Inv, NEW a \in Place
                 PROVE  Start[a] \in Files(home) \cup Files(bin) \cup Staged \cup hist.gone
      BY Zenon DEF NothingVanishes
    <2>1. Kept(Start[a]) /\ Start[a] # Nil
      BY ZenonT(30), StartAssumption, NilAssumption
    <2>2. DOMAIN home = Spot /\ DOMAIN bin = Slot
      BY DEF Typed
    <2> QED BY Zenon, <2>1, <2>2 DEF Kept, Files, Staged
  <1> QED BY <1>1, <1>2, <1>3, PTL DEF Spec
===============================================================================
