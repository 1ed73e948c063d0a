------------------------------ MODULE TrashTypes ------------------------------
(***************************************************************************)
(* The bin, for any number of threads, processes, files, places and slots: *)
(* the types of its state, where a file can be, and what each step does to *)
(* each part of the state, which the later proofs use instead of Trash's   *)
(* own actions.                                                            *)
(***************************************************************************)
EXTENDS Trash, TLAPS

------------------------------------------------------------------------------
(* The types of the threads, and where a file can be.                      *)

TrashPcs == {"t.meta", "t.info", "t.look", "t.drop", "t.write", "t.move", "t.land",
             "t.sync", "t.back"}
UndoPcs == {"u.check", "u.move", "u.info"}
RestorePcs == {"r.look", "r.move", "r.info"}
DeletePcs == {"d.file", "d.info"}
EmptyPcs == {"e.info", "e.del"}
Stopped == {"idle", "dead"}
Pcs == TrashPcs \cup UndoPcs \cup RestorePcs \cup DeletePcs \cup EmptyPcs \cup Stopped

Item == [place : Place, k : Slot]
Doom == [part : {"files", "info"}, k : Slot]
Info == [by : Proc, place : Place \cup {Nil}]
Ops == {"", "trash", "untrash", "restore", "delete", "empty"}
Thread == [pc : Pcs, op : Ops, todo : Seq(Place), k : Slot, done : Seq(Item),
           target : File \cup Spot \cup {Nil}, from : 0..MaxSlot, list : Seq(Item) \cup Seq(Doom),
           res : {"", "ok", "failed", "skipped"}, had : SUBSET Found, ops : Nat]

\* What a thread knows at each step.
Knows(t) ==
  /\ t.pc \in TrashPcs => t.todo # <<>> /\ t.op \in {"trash", "restore"}
  /\ t.pc = "t.land" => t.target \in File
  /\ t.pc \in UndoPcs => t.list \in Seq(Item)
  /\ t.pc = "u.info" => t.list # <<>>
  /\ t.pc \in RestorePcs => t.op = "restore" /\ t.target \in Spot
  /\ t.pc = "r.look" => t.target \in Place
  /\ t.pc \in DeletePcs => t.op = "delete"
  /\ t.pc \notin Stopped /\ t.op \in {"restore", "delete"} => t.from \in Slot
  /\ t.pc \in EmptyPcs => t.list \in Seq(Doom)
  /\ t.ops = 0 => t.pc \in Stopped

Typed ==
  /\ env \in Envs
  /\ home \in [Spot -> File \cup {Nil}]
  /\ bin \in [Slot -> File \cup {Nil}]
  /\ info \in [Slot -> Info \cup {Nil}]
  /\ stage \in [{Pid[p] : p \in Proc} -> SUBSET File]
  /\ undo \subseteq Seq(Item)
  /\ hist \in [gone : SUBSET File, emptied : BOOLEAN, was : [File -> Place \cup {Nil}]]
  /\ pr \in [Proc -> Thread]
  /\ \A p \in Proc : Knows(pr[p])

LEMMA EmptySeq == ASSUME NEW S PROVE <<>> \in Seq(S)
  OBVIOUS
LEMMA IsASeq == ASSUME NEW n \in Nat, NEW S, NEW f \in [1..n -> S] PROVE f \in Seq(S) /\ Len(f) = n
  OBVIOUS
LEMMA ElementOfSeq == ASSUME NEW S, NEW s \in Seq(S), NEW i \in 1..Len(s) PROVE s[i] \in S
  OBVIOUS
LEMMA HeadTail ==
  ASSUME NEW S, NEW s \in Seq(S), s # <<>>
  PROVE  /\ Head(s) \in S /\ Tail(s) \in Seq(S) /\ Len(s) \in Nat \ {0}
         /\ Len(Tail(s)) = Len(s) - 1 /\ s[1] = Head(s) /\ 1 \in DOMAIN s
  OBVIOUS
LEMMA TailElements ==
  ASSUME NEW S, NEW s \in Seq(S), s # <<>>, NEW i \in 1..Len(Tail(s))
  PROVE  Tail(s)[i] = s[i + 1] /\ i + 1 \in 1..Len(s)
  OBVIOUS
LEMMA AppendTyped ==
  ASSUME NEW S, NEW s \in Seq(S), NEW x \in S
  PROVE  /\ Append(s, x) \in Seq(S) /\ Len(Append(s, x)) = Len(s) + 1
         /\ \A i \in 1..Len(s) : Append(s, x)[i] = s[i]
         /\ Append(s, x)[Len(s) + 1] = x
  OBVIOUS
LEMMA ConcatTyped ==
  ASSUME NEW S, NEW s \in Seq(S), NEW u \in Seq(S)
  PROVE  /\ s \o u \in Seq(S) /\ Len(s \o u) = Len(s) + Len(u)
         /\ \A i \in 1..Len(s) : (s \o u)[i] = s[i]
         /\ \A i \in 1..Len(u) : (s \o u)[Len(s) + i] = u[i]
  OBVIOUS

LEMMA SlotFacts == Slot \subseteq Nat /\ 1 \in Slot /\ Slot \subseteq 0..MaxSlot
                   /\ 0 \in 0..MaxSlot /\ \A k \in Slot : k < MaxSlot => k + 1 \in Slot
  BY BoundAssumption DEF Slot

LEMMA IdleTyped == Idle \in Thread /\ Knows(Idle)
  <1>1. <<>> \in Seq(Place) /\ <<>> \in Seq(Item) /\ <<>> \in Seq(File \cup {Nil})
    BY EmptySeq
  <1> QED BY <1>1, SlotFacts DEF Idle, Thread, Knows, Ops, Pcs, TrashPcs, UndoPcs, RestorePcs, DeletePcs, EmptyPcs, Stopped

LEMMA InitTyped == Init => Typed
  <1> SUFFICES ASSUME Init PROVE Typed
    OBVIOUS
  <1>1. home \in [Spot -> File \cup {Nil}]
    BY StartAssumption DEF Init, Spot
  <1> QED BY <1>1, IdleTyped DEF Init, Typed

\* A step of p that leaves p well typed leaves every thread well typed.
LEMMA ThreadTyped ==
  ASSUME Typed, NEW p \in Proc, NEW t \in Thread, Knows(t), pr' = [pr EXCEPT ![p] = t]
  PROVE  pr' \in [Proc -> Thread] /\ \A q \in Proc : Knows(pr'[q])
  BY DEF Typed

\* What the steps that only move a thread on leave alone.
Rest == <<home, bin, info, stage, undo, hist, env>>

LEMMA TypedPr ==
  ASSUME Typed, UNCHANGED Rest,
         pr' \in [Proc -> Thread], \A q \in Proc : Knows(pr'[q])
  PROVE  Typed'
  BY DEF Typed, Rest

LEMMA ThreadFields ==
  ASSUME Typed, NEW p \in Proc
  PROVE  /\ pr[p] \in Thread /\ Knows(pr[p])
         /\ pr[p].pc \in Pcs
         /\ pr[p].op \in Ops
         /\ pr[p].todo \in Seq(Place) /\ pr[p].k \in Slot /\ pr[p].done \in Seq(Item)
         /\ pr[p].target \in File \cup Spot \cup {Nil} /\ pr[p].from \in 0..MaxSlot
         /\ pr[p].list \in Seq(Item) \cup Seq(Doom) /\ pr[p].res \in {"", "ok", "failed", "skipped"}
         /\ pr[p].had \subseteq Found /\ pr[p].ops \in Nat
  <1>1. pr[p] \in Thread /\ Knows(pr[p])
    BY DEF Typed
  <1> QED BY Zenon, <1>1 DEF Thread

LEMMA BegunTyped ==
  ASSUME Typed, NEW p \in Proc, NEW pc \in Pcs, NEW op \in Ops
  PROVE  /\ Begun(p, pc, op) \in Thread
         /\ Begun(p, pc, op).pc = pc /\ Begun(p, pc, op).op = op
         /\ Begun(p, pc, op).ops \in Nat /\ Begun(p, pc, op).ops # 0
  <1> DEFINE n == pr[p].ops + 1
  <1>1. n \in Nat /\ n # 0
    <2>1. pr[p].ops \in Nat
      BY Zenon, ThreadFields, Zenon
    <2> QED BY <2>1
  <1>2. Begun(p, pc, op) = [Idle EXCEPT !.pc = pc, !.op = op, !.ops = n]
    BY DEF Begun, Me
  <1> HIDE DEF n
  <1>3. [Idle EXCEPT !.pc = pc, !.op = op, !.ops = n] \in Thread
    BY Zenon, <1>1, IdleTyped, Zenon DEF Thread
  <1> QED BY Zenon, <1>1, <1>2, <1>3, Zenon DEF Idle

\* What the slots of the bin are listed as.
LEMMA EntriesTyped ==
  ASSUME NEW S \in SUBSET Slot, NEW slots \in Listings(S), NEW part \in {"files", "info"}
  PROVE  /\ Entries(part, slots) \in Seq(Doom)
         /\ DOMAIN Entries(part, slots) = DOMAIN slots
         /\ \A i \in DOMAIN slots : Entries(part, slots)[i] = [part |-> part, k |-> slots[i]]
         /\ \A k \in S : \E i \in DOMAIN slots : slots[i] = k
  <1>1. PICK n \in 0..MaxSlot : slots \in Bijection(1..n, S)
    BY DEF Listings
  <1>2. slots \in [1..n -> S] /\ \A k \in S : \E i \in 1..n : slots[i] = k
    BY <1>1 DEF Bijection, Injection, Surjection
  <1>3. Entries(part, slots) \in [1..n -> Doom] /\ n \in Nat
    BY <1>2, BoundAssumption DEF Entries, Doom
  <1> QED BY <1>2, <1>3, IsASeq DEF Entries

LEMMA PcFacts ==
  /\ {"t.meta", "u.check", "r.look", "d.file", "e.info"} \subseteq Pcs
  /\ {"trash", "untrash", "restore", "delete", "empty"} \subseteq Ops
  BY DEF Pcs, TrashPcs, UndoPcs, RestorePcs, DeletePcs, EmptyPcs, Ops

LEMMA TodosTyped ==
  ASSUME NEW todo \in Todos
  PROVE  todo \in Seq(Place) /\ todo # <<>> /\ \A i, j \in 1..Len(todo) : todo[i] = todo[j] => i = j
  <1>1. PICK n \in Slot : todo \in Injection(1..n, Place)
    BY DEF Todos
  <1>2. n \in Nat /\ n # 0 /\ todo \in [1..n -> Place]
    BY <1>1, BoundAssumption DEF Injection, Slot
  <1>3. todo \in Seq(Place) /\ Len(todo) = n
    BY <1>2, IsASeq
  <1>4. \A i, j \in 1..n : todo[i] = todo[j] => i = j
    BY <1>1, <1>2 DEF Injection, IsInjective
  <1> QED BY <1>2, <1>3, <1>4

LEMMA TypedBegin ==
  ASSUME Typed, NEW p \in Proc, Begin(p)
  PROVE  Typed'
  <1> USE DEF TrashPcs, UndoPcs, RestorePcs, DeletePcs, EmptyPcs, Stopped
  <1>1. CASE BeginTrash(p)
    <2>0. UNCHANGED Rest
      BY <1>1, Zenon DEF BeginTrash, Rest
    <2>1. PICK todo \in Todos :
            pr' = [pr EXCEPT ![p] = [Begun(p, "t.meta", "trash") EXCEPT !.todo = todo, !.had = Had(todo)]]
      BY <1>1, Zenon DEF BeginTrash
    <2>2. todo \in Seq(Place) /\ todo # <<>>
      BY TodosTyped
    <2>3. Had(todo) \in SUBSET Found
      BY DEF Had
    <2> DEFINE b == Begun(p, "t.meta", "trash")
               t == [b EXCEPT !.todo = todo, !.had = Had(todo)]
    <2>4. b \in Thread /\ b.pc = "t.meta" /\ b.op = "trash" /\ b.ops # 0
      BY BegunTyped, PcFacts
    <2> HIDE DEF b
    <2>5. t \in Thread
      BY Zenon, <2>2, <2>3, <2>4, Zenon DEF Thread
    <2>6. t.pc = "t.meta" /\ t.op = "trash" /\ t.ops # 0 /\ t.todo = todo
      BY <2>4, Zenon DEF Thread
    <2>7. Knows(t)
      BY <2>2, <2>6 DEF Knows
    <2>8. pr' = [pr EXCEPT ![p] = t]
      BY <2>1 DEF b
    <2> HIDE DEF t
    <2> QED BY Zenon, <2>0, <2>5, <2>7, <2>8, ThreadTyped, TypedPr
  <1>2. CASE BeginUntrash(p)
    <2>1. PICK list \in undo :
            /\ pr' = [pr EXCEPT ![p] = [Begun(p, "u.check", "untrash") EXCEPT !.list = list, !.res = "ok"]]
            /\ undo' = undo \ {list}
      BY <1>2, Zenon DEF BeginUntrash
    <2>2. list \in Seq(Item)
      BY DEF Typed
    <2> DEFINE b == Begun(p, "u.check", "untrash")
               t == [b EXCEPT !.list = list, !.res = "ok"]
    <2>3. b \in Thread /\ b.pc = "u.check" /\ b.op = "untrash" /\ b.ops # 0
      BY BegunTyped, PcFacts
    <2>4. pr' = [pr EXCEPT ![p] = t]
      BY <2>1
    <2> HIDE DEF b
    <2>5. t \in Thread
      BY <2>2, <2>3, Zenon DEF Thread
    <2>6. t.pc = "u.check" /\ t.op = "untrash" /\ t.ops # 0 /\ t.list = list
      BY <2>3, Zenon DEF Thread
    <2>7. Knows(t)
      BY <2>2, <2>6 DEF Knows
    <2> HIDE DEF t
    <2> QED BY <2>1, <2>4, <2>5, <2>7, <1>2, ThreadTyped DEF BeginUntrash, Typed
  <1>3. CASE BeginRestore(p)
    <2>0. UNCHANGED Rest
      BY <1>3, Zenon DEF BeginRestore, Rest
    <2>1. PICK k \in Slot :
            /\ info[k] # Nil /\ info[k].place # Nil
            /\ pr' = [pr EXCEPT ![p] = [Begun(p, "r.look", "restore") EXCEPT !.from = k,
                                                                           !.target = info[k].place]]
      BY <1>3, Zenon DEF BeginRestore
    <2>2. info[k].place \in Place /\ info[k].place \in Spot /\ k \in 0..MaxSlot
      BY <2>1, SlotFacts DEF Typed, Info, Spot
    <2> DEFINE b == Begun(p, "r.look", "restore")
               t == [b EXCEPT !.from = k, !.target = info[k].place]
    <2>3. b \in Thread /\ b.pc = "r.look" /\ b.op = "restore" /\ b.ops # 0
      BY BegunTyped, PcFacts
    <2>4. pr' = [pr EXCEPT ![p] = t]
      BY <2>1
    <2> HIDE DEF b
    <2>5. t \in Thread
      BY <2>2, <2>3, Zenon DEF Thread
    <2>6. t.pc = "r.look" /\ t.op = "restore" /\ t.ops # 0 /\ t.from = k /\ t.target = info[k].place
      BY <2>3, Zenon DEF Thread
    <2>7. Knows(t)
      BY <2>2, <2>6 DEF Knows
    <2> HIDE DEF t
    <2> QED BY Zenon, <2>0, <2>4, <2>5, <2>7, ThreadTyped, TypedPr
  <1>4. CASE BeginDelete(p)
    <2>0. UNCHANGED Rest
      BY <1>4, Zenon DEF BeginDelete, Rest
    <2>1. PICK k \in Slot : pr' = [pr EXCEPT ![p] = [Begun(p, "d.file", "delete") EXCEPT !.from = k]]
      BY <1>4, Zenon DEF BeginDelete
    <2> DEFINE b == Begun(p, "d.file", "delete")
               t == [b EXCEPT !.from = k]
    <2>3. b \in Thread /\ b.pc = "d.file" /\ b.op = "delete" /\ b.ops # 0
      BY BegunTyped, PcFacts
    <2>4. pr' = [pr EXCEPT ![p] = t]
      BY <2>1
    <2> HIDE DEF b
    <2>5. t \in Thread
      BY Zenon, <2>3, SlotFacts, Zenon DEF Thread
    <2>6. t.pc = "d.file" /\ t.op = "delete" /\ t.ops # 0 /\ t.from = k
      BY <2>3, Zenon DEF Thread
    <2>7. Knows(t)
      BY <2>6 DEF Knows
    <2> HIDE DEF t
    <2> QED BY Zenon, <2>0, <2>4, <2>5, <2>7, ThreadTyped, TypedPr
  <1>5. CASE BeginEmpty(p)
    <2>1. PICK slots \in Listings({k \in Slot : bin[k] # Nil}) :
            pr' = [pr EXCEPT ![p] = [Begun(p, "e.info", "empty") EXCEPT !.list = Entries("files", slots)]]
      BY <1>5, Zenon DEF BeginEmpty
    <2> DEFINE list == Entries("files", slots)
               b == Begun(p, "e.info", "empty")
               t == [b EXCEPT !.list = list]
    <2>2. list \in Seq(Doom)
      BY EntriesTyped
    <2>3. b \in Thread /\ b.pc = "e.info" /\ b.op = "empty" /\ b.ops # 0
      BY BegunTyped, PcFacts
    <2>4. pr' = [pr EXCEPT ![p] = t]
      BY <2>1
    <2> HIDE DEF b, list
    <2>5. t \in Thread
      BY <2>2, <2>3, Zenon DEF Thread
    <2>6. t.pc = "e.info" /\ t.op = "empty" /\ t.ops # 0 /\ t.list = list
      BY <2>3, Zenon DEF Thread
    <2>7. Knows(t)
      BY <2>2, <2>6 DEF Knows
    <2> HIDE DEF t
    <2>8. pr' \in [Proc -> Thread] /\ \A q \in Proc : Knows(pr'[q])
      BY Zenon, <2>4, <2>5, <2>7, ThreadTyped
    <2> QED BY Zenon, <2>8, <1>5 DEF BeginEmpty, Typed
  <1> QED BY Zenon, <1>1, <1>2, <1>3, <1>4, <1>5, Zenon DEF Begin

------------------------------------------------------------------------------
(* The ways a step changes its own thread, field by field.                 *)

Others(p) == \A q \in Proc \ {p} : pr'[q] = pr[q]
KeepsWork(p) == pr'[p].op = pr[p].op /\ pr'[p].had = pr[p].had /\ pr'[p].ops = pr[p].ops
KeepsItem(p) == pr'[p].todo = pr[p].todo /\ pr'[p].done = pr[p].done
KeepsPlan(p) == pr'[p].list = pr[p].list /\ pr'[p].res = pr[p].res /\ pr'[p].from = pr[p].from

LEMMA Becomes ==
  ASSUME Typed, NEW p \in Proc, NEW t \in Thread, pr' = [pr EXCEPT ![p] = t]
  PROVE  pr'[p] = t /\ Others(p) /\ pr' \in [Proc -> Thread]
  BY DEF Typed, Others

LEMMA GotoSteps ==
  ASSUME Typed, NEW p \in Proc, NEW pc \in Pcs, Goto(p, pc)
  PROVE  /\ pr'[p].pc = pc /\ pr'[p].k = pr[p].k /\ pr'[p].target = pr[p].target
         /\ KeepsWork(p) /\ KeepsItem(p) /\ KeepsPlan(p)
         /\ Others(p) /\ pr' \in [Proc -> Thread]
  <1> DEFINE t == pr[p]
             u == [t EXCEPT !.pc = pc]
  <1>1. t \in Thread  BY DEF Typed
  <1>2. pr' = [pr EXCEPT ![p] = u]  BY DEF Goto
  <1> HIDE DEF t
  <1>3. u \in Thread  BY <1>1, Zenon DEF Thread
  <1>4. /\ u.pc = pc /\ u.op = t.op /\ u.todo = t.todo /\ u.k = t.k /\ u.done = t.done
        /\ u.target = t.target /\ u.from = t.from /\ u.list = t.list /\ u.res = t.res
        /\ u.had = t.had /\ u.ops = t.ops
    BY <1>1, Zenon DEF Thread
  <1> HIDE DEF u
  <1>5. pr'[p] = u /\ Others(p) /\ pr' \in [Proc -> Thread]  BY Zenon, <1>2, <1>3, Becomes
  <1> QED BY <1>4, <1>5 DEF t, KeepsWork, KeepsItem, KeepsPlan

LEMMA PutBackSteps ==
  ASSUME Typed, NEW p \in Proc, PutBack(p)
  PROVE  /\ pr'[p].pc = "u.check" /\ pr'[p].list = pr[p].done /\ pr'[p].res = "failed"
         /\ pr'[p].from = pr[p].from /\ KeepsWork(p)
         /\ Others(p) /\ pr' \in [Proc -> Thread]
  <1> DEFINE t == pr[p]
             u == [t EXCEPT !.pc = "u.check", !.list = t.done, !.res = "failed"]
  <1>1. t \in Thread  BY DEF Typed
  <1>2. pr' = [pr EXCEPT ![p] = u]  BY Zenon DEF PutBack, Me
  <1> HIDE DEF t
  <1>3. u \in Thread  BY Zenon, <1>1, PcFacts, Zenon DEF Thread
  <1>4. /\ u.pc = "u.check" /\ u.op = t.op /\ u.from = t.from /\ u.list = t.done /\ u.res = "failed"
        /\ u.had = t.had /\ u.ops = t.ops
    BY <1>1, Zenon DEF Thread
  <1> HIDE DEF u
  <1>5. pr'[p] = u /\ Others(p) /\ pr' \in [Proc -> Thread]  BY Zenon, <1>2, <1>3, Becomes
  <1> QED BY <1>4, <1>5 DEF t, KeepsWork

LEMMA EndSteps ==
  ASSUME Typed, NEW p \in Proc, NEW res \in {"ok", "failed", "skipped"} \cup {pr[p].res}, End(p, res)
  PROVE  /\ pr'[p].pc = "idle" /\ pr'[p].res = res /\ KeepsWork(p)
         /\ Others(p) /\ pr' \in [Proc -> Thread]
  <1> DEFINE t == pr[p]
             u == [Idle EXCEPT !.op = t.op, !.res = res, !.had = t.had, !.ops = t.ops]
  <1>1. t \in Thread  BY DEF Typed
  <1>2. pr' = [pr EXCEPT ![p] = u]  BY DEF End, Me
  <1>r. res \in {"", "ok", "failed", "skipped"}  BY Zenon, ThreadFields, Zenon
  <1> HIDE DEF t
  <1>3. u \in Thread  BY Zenon, <1>1, <1>r, IdleTyped, Zenon DEF Thread
  <1>4. /\ u.pc = "idle" /\ u.op = t.op /\ u.res = res /\ u.had = t.had /\ u.ops = t.ops
    BY Zenon DEF Idle
  <1> HIDE DEF u
  <1>5. pr'[p] = u /\ Others(p) /\ pr' \in [Proc -> Thread]  BY Zenon, <1>2, <1>3, Becomes
  <1> QED BY <1>4, <1>5 DEF t, KeepsWork

Numbers(p, pc, k) == pr' = [pr EXCEPT ![p].pc = pc, ![p].k = k]
LEMMA NumberSteps ==
  ASSUME Typed, NEW p \in Proc, NEW pc \in Pcs, NEW k \in Slot,
         Numbers(p, pc, k)
  PROVE  /\ pr'[p].pc = pc /\ pr'[p].k = k /\ KeepsWork(p) /\ KeepsItem(p) /\ KeepsPlan(p)
         /\ pr'[p].target = pr[p].target
         /\ Others(p) /\ pr' \in [Proc -> Thread]
  <1> DEFINE t == pr[p]
             u == [t EXCEPT !.pc = pc, !.k = k]
  <1>1. t \in Thread  BY DEF Typed
  <1>2. pr' = [pr EXCEPT ![p] = u]  BY Zenon DEF Numbers
  <1> HIDE DEF t
  <1>3. u \in Thread  BY <1>1, Zenon DEF Thread
  <1>4. /\ u.pc = pc /\ u.op = t.op /\ u.todo = t.todo /\ u.k = k /\ u.done = t.done /\ u.target = t.target
        /\ u.from = t.from /\ u.list = t.list /\ u.res = t.res /\ u.had = t.had /\ u.ops = t.ops
    BY <1>1, Zenon DEF Thread
  <1> HIDE DEF u
  <1>5. pr'[p] = u /\ Others(p) /\ pr' \in [Proc -> Thread]  BY Zenon, <1>2, <1>3, Becomes
  <1> QED BY <1>4, <1>5 DEF t, KeepsWork, KeepsItem, KeepsPlan

Aims(p, pc, x) == pr' = [pr EXCEPT ![p].pc = pc, ![p].target = x]
LEMMA TargetSteps ==
  ASSUME Typed, NEW p \in Proc, NEW pc \in Pcs, NEW x \in File \cup Spot \cup {Nil},
         Aims(p, pc, x)
  PROVE  /\ pr'[p].pc = pc /\ pr'[p].target = x /\ KeepsWork(p) /\ KeepsItem(p) /\ KeepsPlan(p)
         /\ pr'[p].k = pr[p].k
         /\ Others(p) /\ pr' \in [Proc -> Thread]
  <1> DEFINE t == pr[p]
             u == [t EXCEPT !.pc = pc, !.target = x]
  <1>1. t \in Thread  BY DEF Typed
  <1>2. pr' = [pr EXCEPT ![p] = u]  BY Zenon DEF Aims
  <1> HIDE DEF t
  <1>3. u \in Thread  BY <1>1, Zenon DEF Thread
  <1>4. /\ u.pc = pc /\ u.op = t.op /\ u.todo = t.todo /\ u.k = t.k /\ u.done = t.done /\ u.target = x
        /\ u.from = t.from /\ u.list = t.list /\ u.res = t.res /\ u.had = t.had /\ u.ops = t.ops
    BY <1>1, Zenon DEF Thread
  <1> HIDE DEF u
  <1>5. pr'[p] = u /\ Others(p) /\ pr' \in [Proc -> Thread]  BY Zenon, <1>2, <1>3, Becomes
  <1> QED BY <1>4, <1>5 DEF t, KeepsWork, KeepsItem, KeepsPlan

Takes(p, pc, todo, done) == pr' = [pr EXCEPT ![p].pc = pc, ![p].todo = todo, ![p].done = done]
LEMMA ItemSteps ==
  ASSUME Typed, NEW p \in Proc, NEW pc \in Pcs, NEW todo \in Seq(Place), NEW done \in Seq(Item),
         Takes(p, pc, todo, done)
  PROVE  /\ pr'[p].pc = pc /\ pr'[p].todo = todo /\ pr'[p].done = done /\ KeepsWork(p)
         /\ KeepsPlan(p) /\ pr'[p].k = pr[p].k /\ pr'[p].target = pr[p].target
         /\ Others(p) /\ pr' \in [Proc -> Thread]
  <1> DEFINE t == pr[p]
             u == [t EXCEPT !.pc = pc, !.todo = todo, !.done = done]
  <1>1. t \in Thread  BY DEF Typed
  <1>2. pr' = [pr EXCEPT ![p] = u]  BY Zenon DEF Takes
  <1> HIDE DEF t
  <1>3. u \in Thread  BY <1>1, Zenon DEF Thread
  <1>4. /\ u.pc = pc /\ u.op = t.op /\ u.todo = todo /\ u.k = t.k /\ u.done = done /\ u.target = t.target
        /\ u.from = t.from /\ u.list = t.list /\ u.res = t.res /\ u.had = t.had /\ u.ops = t.ops
    BY <1>1, Zenon DEF Thread
  <1> HIDE DEF u
  <1>5. pr'[p] = u /\ Others(p) /\ pr' \in [Proc -> Thread]  BY Zenon, <1>2, <1>3, Becomes
  <1> QED BY <1>4, <1>5 DEF t, KeepsWork, KeepsPlan

Starts(p, pc, todo) == pr' = [pr EXCEPT ![p].pc = pc, ![p].todo = todo]
LEMMA TodoSteps ==
  ASSUME Typed, NEW p \in Proc, NEW pc \in Pcs, NEW todo \in Seq(Place),
         Starts(p, pc, todo)
  PROVE  /\ pr'[p].pc = pc /\ pr'[p].todo = todo /\ KeepsWork(p) /\ KeepsPlan(p)
         /\ pr'[p].k = pr[p].k /\ pr'[p].done = pr[p].done /\ pr'[p].target = pr[p].target
         /\ Others(p) /\ pr' \in [Proc -> Thread]
  <1> DEFINE t == pr[p]
             u == [t EXCEPT !.pc = pc, !.todo = todo]
  <1>1. t \in Thread  BY DEF Typed
  <1>2. pr' = [pr EXCEPT ![p] = u]  BY Zenon DEF Starts
  <1> HIDE DEF t
  <1>3. u \in Thread  BY <1>1, Zenon DEF Thread
  <1>4. /\ u.pc = pc /\ u.op = t.op /\ u.todo = todo /\ u.k = t.k /\ u.done = t.done /\ u.target = t.target
        /\ u.from = t.from /\ u.list = t.list /\ u.res = t.res /\ u.had = t.had /\ u.ops = t.ops
    BY <1>1, Zenon DEF Thread
  <1> HIDE DEF u
  <1>5. pr'[p] = u /\ Others(p) /\ pr' \in [Proc -> Thread]  BY Zenon, <1>2, <1>3, Becomes
  <1> QED BY <1>4, <1>5 DEF t, KeepsWork, KeepsPlan

Plans(p, pc, list) == pr' = [pr EXCEPT ![p].pc = pc, ![p].list = list]
LEMMA PlanSteps ==
  ASSUME Typed, NEW p \in Proc, NEW pc \in Pcs, NEW list \in Seq(Item) \cup Seq(Doom),
         Plans(p, pc, list)
  PROVE  /\ pr'[p].pc = pc /\ pr'[p].list = list /\ KeepsWork(p) /\ KeepsItem(p)
         /\ pr'[p].k = pr[p].k /\ pr'[p].target = pr[p].target /\ pr'[p].from = pr[p].from
         /\ pr'[p].res = pr[p].res
         /\ Others(p) /\ pr' \in [Proc -> Thread]
  <1> DEFINE t == pr[p]
             u == [t EXCEPT !.pc = pc, !.list = list]
  <1>1. t \in Thread  BY DEF Typed
  <1>2. pr' = [pr EXCEPT ![p] = u]  BY Zenon DEF Plans
  <1> HIDE DEF t
  <1>3. u \in Thread  BY <1>1, Zenon DEF Thread
  <1>4. /\ u.pc = pc /\ u.op = t.op /\ u.todo = t.todo /\ u.k = t.k /\ u.done = t.done /\ u.target = t.target
        /\ u.from = t.from /\ u.list = list /\ u.res = t.res /\ u.had = t.had /\ u.ops = t.ops
    BY <1>1, Zenon DEF Thread
  <1> HIDE DEF u
  <1>5. pr'[p] = u /\ Others(p) /\ pr' \in [Proc -> Thread]  BY Zenon, <1>2, <1>3, Becomes
  <1> QED BY <1>4, <1>5 DEF t, KeepsWork, KeepsItem

------------------------------------------------------------------------------
(* Every step keeps the types.                                             *)

LEMMA Undisturbed ==
  ASSUME Typed, NEW p \in Proc, Others(p), pr' \in [Proc -> Thread], Knows(pr'[p])
  PROVE  pr' \in [Proc -> Thread] /\ \A q \in Proc : Knows(pr'[q])
  BY DEF Typed, Others

LEMMA InPcs ==
  /\ TrashPcs \subseteq Pcs /\ UndoPcs \subseteq Pcs /\ RestorePcs \subseteq Pcs
  /\ DeletePcs \subseteq Pcs /\ EmptyPcs \subseteq Pcs
  BY DEF Pcs

LEMMA TailMore ==
  ASSUME NEW S, NEW s \in Seq(S), Len(s) > 1
  PROVE  s # <<>> /\ Tail(s) \in Seq(S) /\ Tail(s) # <<>>
  <1>1. s # <<>>
    OBVIOUS
  <1>2. Tail(s) \in Seq(S) /\ Len(Tail(s)) = Len(s) - 1
    BY <1>1, HeadTail
  <1>3. Len(s) \in Nat
    OBVIOUS
  <1> DEFINE x == Tail(s)
  <1>4. x \in Seq(S) /\ Len(x) # 0
    BY <1>2, <1>3
  <1> HIDE DEF x
  <1>5. x # <<>>
    BY <1>4
  <1> QED BY <1>1, <1>2, <1>5 DEF x

LEMMA TypedTrash ==
  ASSUME Typed, NEW p \in Proc,
         \/ TrashMeta(p) \/ TrashInfo(p) \/ TrashLook(p) \/ TrashDrop(p) \/ TrashWrite(p)
         \/ TrashMove(p) \/ TrashLand(p) \/ TrashSync(p) \/ TrashBack(p)
  PROVE  Typed'
  <1> USE DEF TrashPcs, UndoPcs, RestorePcs, DeletePcs, EmptyPcs, Stopped
  <1> DEFINE t == pr[p]
  <1>a. /\ t \in Thread /\ Knows(t) /\ t.todo \in Seq(Place) /\ t.k \in Slot /\ t.done \in Seq(Item)
        /\ t.ops \in Nat
    BY Zenon, ThreadFields
  <1>b. t.pc \in TrashPcs
    BY Zenon DEF TrashMeta, TrashInfo, TrashLook, TrashDrop, TrashWrite, TrashMove, TrashLand, TrashSync,
           TrashBack, Me
  <1>c. /\ t.todo # <<>> /\ t.op \in {"trash", "restore"} /\ t.ops # 0
        /\ t.op = "restore" => t.from \in Slot
    BY <1>a, <1>b DEF Knows
  <1>d. Head(t.todo) \in Place
    BY <1>a, <1>c, HeadTail
  <1>p. PutBack(p) => pr' \in [Proc -> Thread] /\ \A q \in Proc : Knows(pr'[q])
    <2> HAVE PutBack(p)
    <2>1. /\ pr'[p].pc = "u.check" /\ pr'[p].list = t.done /\ pr'[p].from = t.from /\ KeepsWork(p)
          /\ Others(p) /\ pr' \in [Proc -> Thread]
      BY Zenon, PutBackSteps
    <2>2. Knows(pr'[p])
      BY <1>a, <1>c, <2>1 DEF Knows, KeepsWork
    <2> QED BY <2>1, <2>2, Undisturbed
  <1>g. ASSUME NEW pc \in TrashPcs \ {"t.land"}, Goto(p, pc)
        PROVE  pr' \in [Proc -> Thread] /\ \A q \in Proc : Knows(pr'[q])
    <2>1. /\ pr'[p].pc = pc /\ KeepsWork(p) /\ KeepsItem(p) /\ KeepsPlan(p)
          /\ Others(p) /\ pr' \in [Proc -> Thread]
      BY Zenon, <1>g, GotoSteps, InPcs
    <2>2. Knows(pr'[p])
      BY <1>a, <1>c, <2>1 DEF Knows, KeepsWork, KeepsItem, KeepsPlan
    <2> QED BY Zenon, <2>1, <2>2, Undisturbed
  <1>n. ASSUME NEW k \in Slot, Numbers(p, "t.info", k)
        PROVE  pr' \in [Proc -> Thread] /\ \A q \in Proc : Knows(pr'[q])
    <2>1. /\ pr'[p].pc = "t.info" /\ KeepsWork(p) /\ KeepsItem(p) /\ KeepsPlan(p)
          /\ Others(p) /\ pr' \in [Proc -> Thread]
      BY ZenonT(30), <1>n, NumberSteps, InPcs
    <2>2. Knows(pr'[p])
      BY <1>a, <1>c, <2>1 DEF Knows, KeepsWork, KeepsItem, KeepsPlan
    <2> QED BY Zenon, <2>1, <2>2, Undisturbed
  <1>i. \A a \in Place \cup {Nil} : [by |-> p, place |-> a] \in Info
    BY DEF Info
  <1> HIDE DEF t
  <1>1. CASE TrashMeta(p)
    <2>1. PutBack(p) \/ Numbers(p, "t.info", 1)
      BY <1>1 DEF TrashMeta, Numbers
    <2>2. UNCHANGED Rest
      BY Zenon, <1>1 DEF TrashMeta, Rest
    <2> QED BY <2>1, <2>2, <1>p, <1>n, SlotFacts, TypedPr
  <1>2. CASE TrashInfo(p)
    <2>1. CASE NextNumber(p) /\ UNCHANGED info /\ t.k < MaxSlot
      <3>1. t.k + 1 \in Slot
        BY Zenon, <2>1, <1>a, SlotFacts
      <3>2. Numbers(p, "t.info", t.k + 1)
        BY <2>1 DEF NextNumber, Numbers, Me, t
      <3>3. UNCHANGED Rest
        BY <1>2, <2>1 DEF TrashInfo, Rest
      <3> QED BY <3>1, <3>2, <3>3, <1>n, TypedPr
    <2>2. CASE info' = [info EXCEPT ![t.k] = [by |-> p, place |-> Nil]] /\ Goto(p, "t.look")
      <3>1. pr' \in [Proc -> Thread] /\ \A q \in Proc : Knows(pr'[q])
        BY <2>2, <1>g
      <3>2. info' \in [Slot -> Info \cup {Nil}]
        BY Zenon, <2>2, <1>i DEF Typed
      <3> QED BY <1>2, <3>1, <3>2 DEF TrashInfo, Typed
    <2> QED BY <1>2, <2>1, <2>2 DEF TrashInfo, Me, t
  <1>3. CASE TrashLook(p)
    <2>1. Goto(p, "t.write") \/ Goto(p, "t.drop")
      BY <1>3 DEF TrashLook
    <2>2. UNCHANGED Rest
      BY <1>3 DEF TrashLook, Rest
    <2> QED BY <2>1, <2>2, <1>g, TypedPr
  <1>4. CASE TrashDrop(p)
    <2>0. Numbers(p, "t.info", t.k + 1)
      BY ZenonT(30), <1>4 DEF TrashDrop, NextNumber, Numbers, Me, t
    <2>1. t.k + 1 \in Slot
      BY <1>4, <1>a, SlotFacts DEF TrashDrop, Me, t
    <2>2. pr' \in [Proc -> Thread] /\ \A q \in Proc : Knows(pr'[q])
      BY Zenon, <2>0, <2>1, <1>n
    <2>3. info' \in [Slot -> Info \cup {Nil}]
      BY ZenonT(30), <1>4 DEF TrashDrop, Typed
    <2> QED BY <1>4, <2>2, <2>3 DEF TrashDrop, Typed
  <1>5. CASE TrashWrite(p)
    <2>1. pr' \in [Proc -> Thread] /\ \A q \in Proc : Knows(pr'[q])
      BY Zenon, <1>5, <1>g DEF TrashWrite
    <2>2. info' \in [Slot -> Info \cup {Nil}]
      BY Zenon, <1>5, <1>d, <1>i DEF TrashWrite, Typed, Me, t
    <2> QED BY <1>5, <2>1, <2>2 DEF TrashWrite, Typed
  <1>6. CASE TrashMove(p)
    <2> DEFINE a == Head(t.todo)
               f == home[a]
    <2>a. a \in Spot /\ a \in Place /\ (f # Nil => f \in File) /\ Pid[p] \in {Pid[q] : q \in Proc}
      BY ZenonT(30), <1>d DEF Spot, Typed
    <2>1. CASE Goto(p, "t.back") /\ UNCHANGED <<home, bin, hist>>
               /\ stage' = IF Has("copy") THEN [stage EXCEPT ![Pid[p]] = {}] ELSE stage
      <3>1. pr' \in [Proc -> Thread] /\ \A q \in Proc : Knows(pr'[q])
        BY Zenon, <2>1, <1>g
      <3>2. stage' \in [{Pid[q] : q \in Proc} -> SUBSET File]
        BY Zenon, <2>1 DEF Typed
      <3> QED BY <1>6, <2>1, <3>1, <3>2 DEF TrashMove, Typed
    <2>2. CASE /\ f # Nil /\ bin' = [bin EXCEPT ![t.k] = f] /\ home' = [home EXCEPT ![a] = Nil]
               /\ hist' = [hist EXCEPT !.was[f] = a] /\ Goto(p, "t.sync") /\ UNCHANGED stage
      <3>1. pr' \in [Proc -> Thread] /\ \A q \in Proc : Knows(pr'[q])
        BY <2>2, <1>g
      <3>2. /\ bin' \in [Slot -> File \cup {Nil}] /\ home' \in [Spot -> File \cup {Nil}]
            /\ hist' \in [gone : SUBSET File, emptied : BOOLEAN, was : [File -> Place \cup {Nil}]]
        BY Zenon, <2>a, <2>2, <1>a DEF Typed
      <3> QED BY Zenon, <1>6, <2>2, <3>1, <3>2 DEF TrashMove, Typed
    <2>3. CASE /\ f # Nil /\ stage' = [stage EXCEPT ![Pid[p]] = @ \cup {f}]
               /\ home' = [home EXCEPT ![a] = Nil]
               /\ hist' = [hist EXCEPT !.was[f] = a]
               /\ Aims(p, "t.land", f)
               /\ UNCHANGED bin
      <3>1. /\ pr'[p].pc = "t.land" /\ pr'[p].target = f /\ KeepsWork(p) /\ KeepsItem(p) /\ KeepsPlan(p)
            /\ Others(p) /\ pr' \in [Proc -> Thread]
        <4>1. f \in File \cup Spot \cup {Nil} /\ "t.land" \in Pcs
          BY Zenon, <2>3, <2>a, InPcs
        <4> QED BY <4>1, <2>3, TargetSteps
      <3>2. Knows(pr'[p])
        BY ZenonT(30), <1>a, <1>c, <2>a, <2>3, <3>1 DEF Knows, KeepsWork, KeepsItem, KeepsPlan, t
      <3>3. pr' \in [Proc -> Thread] /\ \A q \in Proc : Knows(pr'[q])
        BY <3>1, <3>2, Undisturbed
      <3>4. /\ home' \in [Spot -> File \cup {Nil}]
            /\ hist' \in [gone : SUBSET File, emptied : BOOLEAN, was : [File -> Place \cup {Nil}]]
        BY <2>a, <2>3 DEF Typed
      <3>5. stage' \in [{Pid[q] : q \in Proc} -> SUBSET File]
        BY Zenon, <2>a, <2>3 DEF Typed
      <3> QED BY Zenon, <1>6, <2>3, <3>3, <3>4, <3>5 DEF TrashMove, Typed
    <2> QED BY Zenon, <1>6, <2>1, <2>2, <2>3 DEF TrashMove, Me, t, Aims
  <1>7. CASE TrashLand(p)
    <2>1. CASE /\ bin' = [bin EXCEPT ![t.k] = t.target] /\ stage' = [stage EXCEPT ![Pid[p]] = @ \ {t.target}]
               /\ Goto(p, "t.sync")
      <3>1. pr' \in [Proc -> Thread] /\ \A q \in Proc : Knows(pr'[q])
        BY Zenon, <2>1, <1>g
      <3>2. t.target \in File /\ Pid[p] \in {Pid[q] : q \in Proc}
        BY Zenon, <1>7, <1>a DEF TrashLand, Me, t, Knows
      <3>3. bin' \in [Slot -> File \cup {Nil}]
        BY Zenon, <2>1, <3>2, <1>a DEF Typed
      <3>4. stage' \in [{Pid[q] : q \in Proc} -> SUBSET File]
        BY ZenonT(30), <2>1, <3>2 DEF Typed
      <3> QED BY <1>7, <3>1, <3>3, <3>4 DEF TrashLand, Typed
    <2>2. CASE Goto(p, "t.back") /\ UNCHANGED <<bin, stage>>
      <3>1. pr' \in [Proc -> Thread] /\ \A q \in Proc : Knows(pr'[q])
        BY Zenon, <2>2, <1>g
      <3> QED BY <1>7, <2>2, <3>1 DEF TrashLand, Typed
    <2> QED BY ZenonT(30), <1>7, <2>1, <2>2 DEF TrashLand, Me, t
  <1>8. CASE TrashSync(p)
    <2> DEFINE done == Append(t.done, [place |-> Head(t.todo), k |-> t.k])
    <2>0. done \in Seq(Item)
      <3>1. [place |-> Head(t.todo), k |-> t.k] \in Item
        BY <1>a, <1>d DEF Item
      <3> QED BY <3>1, <1>a, AppendTyped
    <2>1. CASE PutBack(p) /\ UNCHANGED undo
      <3>1. UNCHANGED Rest
        BY <1>8, <2>1 DEF TrashSync, Rest
      <3> QED BY ZenonT(30), <3>1, <2>1, <1>p, TypedPr
    <2>2. CASE Len(t.todo) > 1 /\ UNCHANGED undo
               /\ Takes(p, "t.meta", Tail(t.todo), done)
      <3>1. Tail(t.todo) \in Seq(Place) /\ Tail(t.todo) # <<>>
        BY <1>a, <2>2, TailMore
      <3> HIDE DEF done
      <3>2. /\ pr'[p].pc = "t.meta" /\ pr'[p].todo = Tail(t.todo) /\ KeepsWork(p) /\ KeepsPlan(p)
            /\ Others(p) /\ pr' \in [Proc -> Thread]
        <4>1. "t.meta" \in Pcs
          BY InPcs
        <4> DEFINE todo == Tail(t.todo)
        <4>2. todo \in Seq(Place) /\ Takes(p, "t.meta", todo, done)
          BY Zenon, <2>2, <3>1
        <4> HIDE DEF todo
        <4>3. /\ pr'[p].pc = "t.meta" /\ pr'[p].todo = todo /\ KeepsWork(p) /\ KeepsPlan(p)
              /\ Others(p) /\ pr' \in [Proc -> Thread]
          BY ZenonT(30), <2>0, <4>1, <4>2, ItemSteps
        <4> QED BY <4>3 DEF todo
      <3>3. Knows(pr'[p])
        BY Zenon, <1>a, <1>c, <3>1, <3>2 DEF Knows, KeepsWork, KeepsPlan, t
      <3>4. UNCHANGED Rest
        BY <1>8, <2>2 DEF TrashSync, Rest
      <3> QED BY <3>2, <3>3, <3>4, Undisturbed, TypedPr
    <2>3. CASE /\ undo' = undo \cup {done} \/ undo' = undo
               /\ IF t.op = "restore" THEN Aims(p, "r.move", Head(t.todo))
                  ELSE End(p, "ok")
      <3>1. undo' \subseteq Seq(Item)
        BY Zenon, <2>0, <2>3 DEF Typed
      <3>2. CASE t.op = "restore"
        <4>1. /\ pr'[p].pc = "r.move" /\ pr'[p].target = Head(t.todo) /\ KeepsWork(p) /\ KeepsPlan(p)
              /\ Others(p) /\ pr' \in [Proc -> Thread]
          <5>1. Head(t.todo) \in File \cup Spot \cup {Nil} /\ "r.move" \in Pcs
            BY ZenonT(30), <1>d, InPcs DEF Spot
          <5> QED BY <5>1, <2>3, <3>2, TargetSteps
        <4>2. Knows(pr'[p])
          BY <1>a, <1>c, <1>d, <3>2, <4>1 DEF Knows, KeepsWork, KeepsPlan, Spot, t
        <4>3. pr' \in [Proc -> Thread] /\ \A q \in Proc : Knows(pr'[q])
          BY Zenon, <4>1, <4>2, Undisturbed
        <4> QED BY <1>8, <3>1, <4>3 DEF TrashSync, Typed
      <3>3. CASE t.op # "restore"
        <4>1. pr'[p].pc = "idle" /\ KeepsWork(p) /\ Others(p) /\ pr' \in [Proc -> Thread]
          BY Zenon, <2>3, <3>3, EndSteps
        <4>2. Knows(pr'[p])
          BY <1>a, <4>1 DEF Knows, KeepsWork
        <4>3. pr' \in [Proc -> Thread] /\ \A q \in Proc : Knows(pr'[q])
          BY ZenonT(30), <4>1, <4>2, Undisturbed
        <4> QED BY <1>8, <3>1, <4>3 DEF TrashSync, Typed
      <3> QED BY Zenon, <3>2, <3>3
    <2> QED BY ZenonT(30), <1>8, <2>1, <2>2, <2>3 DEF TrashSync, Me, t, Takes, Aims
  <1>9. CASE TrashBack(p)
    <2>1. pr' \in [Proc -> Thread] /\ \A q \in Proc : Knows(pr'[q])
      BY Zenon, <1>9, <1>p DEF TrashBack
    <2>2. info' \in [Slot -> Info \cup {Nil}]
      BY Zenon, <1>9 DEF TrashBack, Typed
    <2> QED BY <1>9, <2>1, <2>2 DEF TrashBack, Typed
  <1> QED BY Zenon, <1>1, <1>2, <1>3, <1>4, <1>5, <1>6, <1>7, <1>8, <1>9

LEMMA TypedUntrash ==
  ASSUME Typed, NEW p \in Proc, UntrashCheck(p) \/ UntrashMove(p) \/ UntrashInfo(p)
  PROVE  Typed'
  <1> USE DEF TrashPcs, UndoPcs, RestorePcs, DeletePcs, EmptyPcs, Stopped
  <1> DEFINE t == pr[p]
             typed == pr' \in [Proc -> Thread] /\ \A q \in Proc : Knows(pr'[q])
  <1>a. t \in Thread /\ Knows(t) /\ t.ops \in Nat /\ t.pc \in UndoPcs
    BY ZenonT(30), ThreadFields DEF UntrashCheck, UntrashMove, UntrashInfo, Me
  <1>b. t.list \in Seq(Item) /\ t.ops # 0 /\ (t.op \in {"restore", "delete"} => t.from \in Slot)
    BY <1>a DEF Knows
  <1>g. ASSUME NEW pc \in UndoPcs, Goto(p, pc), pc = "u.info" => t.list # <<>>
        PROVE  typed
    <2>1. /\ pr'[p].pc = pc /\ KeepsWork(p) /\ KeepsPlan(p) /\ Others(p) /\ pr' \in [Proc -> Thread]
      BY Zenon, <1>g, GotoSteps, InPcs
    <2>2. Knows(pr'[p])
      BY Zenon, <1>a, <1>b, <1>g, <2>1 DEF Knows, KeepsWork, KeepsPlan
    <2> QED BY Zenon, <2>1, <2>2, Undisturbed
  <1>e. ASSUME NEW res \in {"failed", t.res}, End(p, res)
        PROVE  typed
    <2>1. pr'[p].pc = "idle" /\ KeepsWork(p) /\ Others(p) /\ pr' \in [Proc -> Thread]
      BY Zenon, <1>e, EndSteps
    <2>2. Knows(pr'[p])
      BY <2>1 DEF Knows
    <2> QED BY <2>1, <2>2, Undisturbed
  <1> HIDE DEF t, typed
  <1>1. CASE UntrashCheck(p)
    <2>1. End(p, "failed") \/ Goto(p, "u.move")
      BY Zenon, <1>1 DEF UntrashCheck
    <2>2. typed
      BY Zenon, <2>1, <1>e, <1>g
    <2>3. UNCHANGED Rest
      BY Zenon, <1>1 DEF UntrashCheck, Rest
    <2> QED BY Zenon, <2>2, <2>3, TypedPr DEF typed
  <1>2. CASE UntrashMove(p)
    <2> DEFINE it == Head(t.list)
    <2>1. CASE (End(p, t.res) \/ End(p, "failed")) /\ UNCHANGED <<home, bin>>
      <3>1. typed
        BY Zenon, <2>1, <1>e
      <3>2. UNCHANGED Rest
        BY ZenonT(30), <1>2, <2>1 DEF UntrashMove, Rest
      <3> QED BY <3>1, <3>2, TypedPr DEF typed
    <2>2. CASE /\ t.list # <<>> /\ Goto(p, "u.info")
               /\ home' = [home EXCEPT ![it.place] = bin[it.k]] /\ bin' = [bin EXCEPT ![it.k] = Nil]
      <3>1. typed
        BY <2>2, <1>g
      <3>2. it \in Item
        BY <2>2, <1>b, HeadTail
      <3>3. it.k \in Slot
        BY Zenon, <3>2 DEF Item
      <3> HIDE DEF it
      <3>4. home' \in [Spot -> File \cup {Nil}] /\ bin' \in [Slot -> File \cup {Nil}]
        BY Zenon, <2>2, <3>3 DEF Typed
      <3> QED BY <1>2, <3>1, <3>4 DEF UntrashMove, Typed, typed
    <2> QED BY Zenon, <1>2, <2>1, <2>2 DEF UntrashMove, Me, t
  <1>3. CASE UntrashInfo(p)
    <2> DEFINE list == Tail(t.list)
    <2>0. t.list # <<>>
      BY <1>3, <1>a DEF UntrashInfo, Knows, Me, t
    <2>1. list \in Seq(Item)
      BY <1>b, <2>0, HeadTail
    <2>2. Plans(p, "u.move", list)
      BY <1>3 DEF UntrashInfo, Plans, t
    <2> HIDE DEF list
    <2>3. /\ pr'[p].pc = "u.move" /\ pr'[p].list = list /\ KeepsWork(p) /\ pr'[p].from = pr[p].from
          /\ Others(p) /\ pr' \in [Proc -> Thread]
      BY <2>1, <2>2, PlanSteps, InPcs
    <2>4. Knows(pr'[p])
      BY Zenon, <1>a, <1>b, <2>1, <2>3 DEF Knows, KeepsWork, t
    <2>5. typed
      BY <2>3, <2>4, Undisturbed DEF typed
    <2>6. info' \in [Slot -> Info \cup {Nil}]
      BY Zenon, <1>3 DEF UntrashInfo, Typed
    <2> QED BY <1>3, <2>5, <2>6 DEF UntrashInfo, Typed, typed
  <1> QED BY <1>1, <1>2, <1>3

LEMMA TypedRestore ==
  ASSUME Typed, NEW p \in Proc, RestoreLook(p) \/ RestoreMove(p) \/ RestoreInfo(p)
  PROVE  Typed'
  <1> USE DEF TrashPcs, UndoPcs, RestorePcs, DeletePcs, EmptyPcs, Stopped
  <1> DEFINE t == pr[p]
             typed == pr' \in [Proc -> Thread] /\ \A q \in Proc : Knows(pr'[q])
  <1>a. t \in Thread /\ Knows(t) /\ t.ops \in Nat /\ t.pc \in RestorePcs
    BY Zenon, ThreadFields DEF RestoreLook, RestoreMove, RestoreInfo, Me
  <1>b. t.op = "restore" /\ t.from \in Slot /\ t.target \in Spot /\ t.ops # 0
    BY <1>a DEF Knows
  <1>g. ASSUME NEW pc \in {"r.move", "r.info"}, Goto(p, pc)
        PROVE  typed
    <2>1. /\ pr'[p].pc = pc /\ pr'[p].target = t.target /\ KeepsWork(p) /\ KeepsPlan(p)
          /\ Others(p) /\ pr' \in [Proc -> Thread]
      BY ZenonT(30), <1>g, GotoSteps, InPcs
    <2>2. Knows(pr'[p])
      BY <1>a, <1>b, <1>g, <2>1 DEF Knows, KeepsWork, KeepsPlan
    <2> QED BY <2>1, <2>2, Undisturbed
  <1>e. ASSUME NEW res \in {"failed", "ok", "skipped"}, End(p, res)
        PROVE  typed
    <2>1. pr'[p].pc = "idle" /\ KeepsWork(p) /\ Others(p) /\ pr' \in [Proc -> Thread]
      BY ZenonT(30), <1>e, EndSteps
    <2>2. Knows(pr'[p])
      BY <2>1 DEF Knows
    <2> QED BY Zenon, <2>1, <2>2, Undisturbed
  <1>s. ASSUME Aims(p, "r.move", Spare)
        PROVE  typed
    <2>1. /\ pr'[p].pc = "r.move" /\ pr'[p].target = Spare /\ KeepsWork(p) /\ KeepsPlan(p)
          /\ Others(p) /\ pr' \in [Proc -> Thread]
      <3>1. "r.move" \in Pcs /\ Spare \in File \cup Spot \cup {Nil}
        BY Zenon, InPcs DEF Spot
      <3> QED BY <1>s, <3>1, TargetSteps
    <2>2. Knows(pr'[p])
      BY Zenon, <1>a, <1>b, <2>1 DEF Knows, KeepsWork, KeepsPlan, Spot
    <2> QED BY <2>1, <2>2, Undisturbed
  <1>t. ASSUME t.pc = "r.look", Starts(p, "t.meta", <<t.target>>)
        PROVE  typed
    <2>1. /\ pr'[p].pc = "t.meta" /\ pr'[p].todo = <<t.target>> /\ KeepsWork(p) /\ KeepsPlan(p)
          /\ Others(p) /\ pr' \in [Proc -> Thread]
      <3>1. "t.meta" \in Pcs /\ t.target \in Place
        BY <1>t, <1>a, InPcs DEF Knows
      <3>2. <<t.target>> \in Seq(Place)
        BY <3>1
      <3>3. PICK todo \in Seq(Place) : todo = <<t.target>>
        BY <3>2
      <3>4. Starts(p, "t.meta", todo)
        BY Zenon, <1>t, <3>3
      <3> QED BY ZenonT(30), <3>1, <3>3, <3>4, TodoSteps
    <2>2. Knows(pr'[p])
      BY <1>a, <1>b, <2>1 DEF Knows, KeepsWork, KeepsPlan
    <2> QED BY Zenon, <2>1, <2>2, Undisturbed
  <1> HIDE DEF t, typed
  <1>1. CASE RestoreLook(p)
    <2>1. \/ Goto(p, "r.move") \/ End(p, "skipped") \/ Aims(p, "r.move", Spare)
          \/ Starts(p, "t.meta", <<t.target>>)
      BY <1>1 DEF RestoreLook, Aims, Starts, Me, t
    <2>2. t.pc = "r.look"
      BY <1>1 DEF RestoreLook, Me, t
    <2>3. typed
      BY <2>1, <2>2, <1>e, <1>g, <1>s, <1>t
    <2>4. UNCHANGED Rest
      BY <1>1 DEF RestoreLook, Rest
    <2> QED BY <2>3, <2>4, TypedPr DEF typed
  <1>2. CASE RestoreMove(p)
    <2>1. CASE End(p, "failed") /\ UNCHANGED <<home, bin>>
      <3>1. typed
        BY <2>1, <1>e
      <3>2. UNCHANGED Rest
        BY Zenon, <1>2, <2>1 DEF RestoreMove, Rest
      <3> QED BY <3>1, <3>2, TypedPr DEF typed
    <2>2. CASE /\ Goto(p, "r.info")
               /\ home' = [home EXCEPT ![t.target] = bin[t.from]] /\ bin' = [bin EXCEPT ![t.from] = Nil]
      <3>1. typed
        BY <2>2, <1>g
      <3>2. home' \in [Spot -> File \cup {Nil}] /\ bin' \in [Slot -> File \cup {Nil}]
        BY Zenon, <2>2, <1>b DEF Typed
      <3> QED BY Zenon, <1>2, <3>1, <3>2 DEF RestoreMove, Typed, typed
    <2> QED BY Zenon, <1>2, <2>1, <2>2 DEF RestoreMove, Me, t
  <1>3. CASE RestoreInfo(p)
    <2>1. typed
      BY Zenon, <1>3, <1>e DEF RestoreInfo
    <2>2. info' \in [Slot -> Info \cup {Nil}]
      BY Zenon, <1>3 DEF RestoreInfo, Typed
    <2> QED BY <1>3, <2>1, <2>2 DEF RestoreInfo, Typed, typed
  <1> QED BY <1>1, <1>2, <1>3

LEMMA TypedDelete ==
  ASSUME Typed, NEW p \in Proc, DeleteFile(p) \/ DeleteInfo(p)
  PROVE  Typed'
  <1> USE DEF TrashPcs, UndoPcs, RestorePcs, DeletePcs, EmptyPcs, Stopped
  <1> DEFINE t == pr[p]
             typed == pr' \in [Proc -> Thread] /\ \A q \in Proc : Knows(pr'[q])
  <1>a. t \in Thread /\ Knows(t) /\ t.ops \in Nat /\ t.pc \in DeletePcs
    BY Zenon, ThreadFields DEF DeleteFile, DeleteInfo, Me
  <1>b. t.op = "delete" /\ t.from \in Slot /\ t.ops # 0
    BY <1>a DEF Knows
  <1>1. CASE DeleteFile(p)
    <2>1. /\ pr'[p].pc = "d.info" /\ KeepsWork(p) /\ KeepsPlan(p) /\ Others(p) /\ pr' \in [Proc -> Thread]
      BY <1>1, GotoSteps, InPcs DEF DeleteFile
    <2>2. Knows(pr'[p])
      BY <1>a, <1>b, <2>1 DEF Knows, KeepsWork, KeepsPlan
    <2>3. typed
      BY <2>1, <2>2, Undisturbed
    <2> HIDE DEF t, typed
    <2>4. CASE UNCHANGED <<bin, hist>>
      BY <1>1, <2>3, <2>4 DEF DeleteFile, Typed, typed
    <2>5. CASE /\ hist' = [hist EXCEPT !.gone = @ \cup ({bin[t.from]} \ {Nil})]
               /\ bin' = [bin EXCEPT ![t.from] = Nil]
      <3>1. bin' \in [Slot -> File \cup {Nil}]
        BY Zenon, <2>5 DEF Typed
      <3>2. {bin[t.from]} \ {Nil} \subseteq File
        BY <1>b DEF Typed
      <3>3. hist' \in [gone : SUBSET File, emptied : BOOLEAN, was : [File -> Place \cup {Nil}]]
        BY <2>5, <3>2 DEF Typed
      <3> QED BY <1>1, <2>3, <3>1, <3>3 DEF DeleteFile, Typed, typed
    <2> QED BY <1>1, <2>4, <2>5 DEF DeleteFile, Me, t
  <1>2. CASE DeleteInfo(p)
    <2>1. pr'[p].pc = "idle" /\ Others(p) /\ pr' \in [Proc -> Thread]
      BY Zenon, <1>2, EndSteps DEF DeleteInfo
    <2>2. Knows(pr'[p])
      BY <2>1 DEF Knows
    <2>3. typed
      BY Zenon, <2>1, <2>2, Undisturbed
    <2> HIDE DEF typed
    <2>4. info' \in [Slot -> Info \cup {Nil}]
      BY Zenon, <1>2 DEF DeleteInfo, Typed
    <2> QED BY <1>2, <2>3, <2>4 DEF DeleteInfo, Typed, typed
  <1> QED BY <1>1, <1>2

LEMMA TypedEmpty ==
  ASSUME Typed, NEW p \in Proc, EmptyInfo(p) \/ EmptyDelete(p)
  PROVE  Typed'
  <1> USE DEF TrashPcs, UndoPcs, RestorePcs, DeletePcs, EmptyPcs, Stopped
  <1> DEFINE t == pr[p]
             typed == pr' \in [Proc -> Thread] /\ \A q \in Proc : Knows(pr'[q])
  <1>a. t \in Thread /\ Knows(t) /\ t.ops \in Nat /\ t.pc \in EmptyPcs
    BY Zenon, ThreadFields DEF EmptyInfo, EmptyDelete, Me
  <1>b. t.list \in Seq(Doom) /\ t.ops # 0 /\ (t.op \in {"restore", "delete"} => t.from \in Slot)
    BY <1>a DEF Knows
  <1>l. ASSUME NEW list \in Seq(Doom), Plans(p, "e.del", list)
        PROVE  typed
    <2>1. /\ pr'[p].pc = "e.del" /\ pr'[p].list = list /\ KeepsWork(p) /\ pr'[p].from = t.from
          /\ Others(p) /\ pr' \in [Proc -> Thread]
      BY ZenonT(30), <1>l, PlanSteps, InPcs
    <2>2. Knows(pr'[p])
      BY <1>a, <1>b, <2>1 DEF Knows, KeepsWork
    <2> QED BY Zenon, <2>1, <2>2, Undisturbed
  <1> HIDE DEF t, typed
  <1>1. CASE EmptyInfo(p)
    <2>1. PICK slots \in Listings({k \in Slot : info[k] # Nil}) :
            pr' = [pr EXCEPT ![p].pc = "e.del", ![p].list = Doomed(@, Entries("info", slots))]
      BY <1>1, Zenon DEF EmptyInfo
    <2> DEFINE more == Entries("info", slots)
               list == t.list \o more
    <2>2. more \in Seq(Doom)
      BY EntriesTyped
    <2>3. Plans(p, "e.del", list)
      BY <2>1 DEF Plans, Doomed, t
    <2> HIDE DEF more
    <2>4. list \in Seq(Doom)
      BY <1>b, <2>2, ConcatTyped
    <2> HIDE DEF list
    <2>5. typed
      BY <2>3, <2>4, <1>l
    <2>6. UNCHANGED Rest
      BY Zenon, <1>1 DEF EmptyInfo, Rest
    <2> QED BY <2>5, <2>6, TypedPr DEF typed
  <1>2. CASE EmptyDelete(p)
    <2>1. CASE (End(p, "ok") \/ End(p, "failed")) /\ UNCHANGED <<bin, info, hist>>
      <3>1. pr'[p].pc = "idle" /\ Others(p) /\ pr' \in [Proc -> Thread]
        BY ZenonT(30), <2>1, EndSteps
      <3>2. Knows(pr'[p])
        BY <3>1 DEF Knows
      <3>3. UNCHANGED Rest
        BY <1>2, <2>1 DEF EmptyDelete, Rest
      <3> QED BY <3>1, <3>2, <3>3, Undisturbed, TypedPr
    <2> DEFINE it == Head(t.list)
               list == Tail(t.list)
    <2>2. CASE /\ t.list # <<>> /\ Plans(p, "e.del", list)
               /\ IF it.part = "files"
                  THEN /\ bin[it.k] # Nil
                       /\ hist' = [hist EXCEPT !.gone = @ \cup {bin[it.k]}]
                       /\ bin' = [bin EXCEPT ![it.k] = Nil]
                       /\ UNCHANGED info
                  ELSE info' = [info EXCEPT ![it.k] = Nil] /\ UNCHANGED <<bin, hist>>
      <3>1. it \in Doom /\ list \in Seq(Doom)
        BY <2>2, <1>b, HeadTail
      <3>2. it.k \in Slot
        BY <3>1 DEF Doom
      <3> HIDE DEF it, list
      <3>3. typed
        BY ZenonT(30), <2>2, <3>1, <1>l
      <3>4. CASE it.part = "files"
        <4>1. bin' \in [Slot -> File \cup {Nil}]
          BY <2>2, <3>4 DEF Typed
        <4>2. bin[it.k] \in File
          BY <2>2, <3>2, <3>4 DEF Typed
        <4>3. hist' \in [gone : SUBSET File, emptied : BOOLEAN, was : [File -> Place \cup {Nil}]]
          BY SMTT(30), <2>2, <3>4, <4>2 DEF Typed
        <4> QED BY <1>2, <2>2, <3>3, <3>4, <4>1, <4>3 DEF EmptyDelete, Typed, typed
      <3>5. CASE it.part # "files"
        <4>1. info' \in [Slot -> Info \cup {Nil}]
          BY <2>2, <3>5 DEF Typed
        <4> QED BY <1>2, <2>2, <3>3, <3>5, <4>1 DEF EmptyDelete, Typed, typed
      <3> QED BY <3>4, <3>5
    <2> QED BY Zenon, <1>2, <2>1, <2>2 DEF EmptyDelete, Plans, Me, t
  <1> QED BY <1>1, <1>2

LEMMA KillSteps ==
  ASSUME Typed, NEW i, Kill(i)
  PROVE  /\ pr' \in [Proc -> Thread] /\ UNCHANGED Rest
         /\ \A q \in Proc :
              \/ pr'[q] = pr[q]
              \/ Pid[q] = i /\ pr'[q].pc = "dead" /\ KeepsWork(q)
  <1>1. pr' = [p \in Proc |-> IF Pid[p] = i THEN [pr[p] EXCEPT !.pc = "dead"] ELSE pr[p]]
    BY DEF Kill
  <1>2. "dead" \in Pcs
    BY DEF Pcs, Stopped
  <1>3. ASSUME NEW t \in Thread
        PROVE  LET u == [t EXCEPT !.pc = "dead"]
               IN u \in Thread /\ u.pc = "dead" /\ u.op = t.op /\ u.had = t.had /\ u.ops = t.ops
    BY <1>2, Zenon DEF Thread
  <1>4. \A q \in Proc : pr[q] \in Thread
    BY DEF Typed
  <1>5. ASSUME NEW q \in Proc
        PROVE  /\ pr'[q] \in Thread
               /\ pr'[q] = pr[q] \/ (Pid[q] = i /\ pr'[q].pc = "dead" /\ KeepsWork(q))
    <2>1. CASE Pid[q] = i
      <3>1. pr'[q] = [pr[q] EXCEPT !.pc = "dead"]
        BY <1>1, <2>1
      <3> QED BY <1>3, <1>4, <2>1, <3>1 DEF KeepsWork
    <2>2. CASE Pid[q] # i
      BY <1>1, <1>4, <2>2
    <2> QED BY <2>1, <2>2
  <1>6. DOMAIN pr' = Proc /\ pr' = [q \in Proc |-> pr'[q]]
    BY <1>1
  <1>7. pr' \in [Proc -> Thread]
    BY <1>5, <1>6
  <1>8. UNCHANGED Rest
    BY DEF Kill, Rest
  <1> QED BY <1>5, <1>7, <1>8

LEMMA TypedKill ==
  ASSUME Typed, NEW i, Kill(i)
  PROVE  Typed'
  <1>1. \A q \in Proc : Knows(pr'[q])
    <2> TAKE q \in Proc
    <2>1. CASE pr'[q] = pr[q]
      BY <2>1 DEF Typed
    <2>2. CASE pr'[q].pc = "dead"
      BY <2>2 DEF Knows, TrashPcs, UndoPcs, RestorePcs, DeletePcs, EmptyPcs, Stopped
    <2> QED BY <2>1, <2>2, KillSteps
  <1> QED BY <1>1, KillSteps, TypedPr

LEMMA TypedNext == Typed /\ [Next]_vars => Typed'
  <1> SUFFICES ASSUME Typed, [Next]_vars PROVE Typed'
    OBVIOUS
  <1>1. CASE \E p \in Proc : Begin(p) \/ Step(p)
    BY <1>1, TypedBegin, TypedTrash, TypedUntrash, TypedRestore, TypedDelete, TypedEmpty DEF Step
  <1>2. CASE \E i \in DOMAIN stage : Kill(i)
    BY <1>2, TypedKill
  <1>3. CASE Other
    <2>1. home' \in [Spot -> File \cup {Nil}]
      BY ZenonT(30), <1>3 DEF Other, Typed
    <2> QED BY <1>3, <2>1 DEF Other, Typed
  <1>4. CASE UNCHANGED vars
    BY <1>4 DEF vars, Typed
  <1> QED BY <1>1, <1>2, <1>3, <1>4 DEF Next

------------------------------------------------------------------------------
(* What a step does to the files, whichever operation it belongs to.       *)

KeepsHist == hist'.gone = hist.gone /\ hist'.was = hist.was
KeepsFiles == UNCHANGED <<home, bin, stage>> /\ KeepsHist
\* A file goes from its place to the bin, or to a staging folder;
IntoBin(a, k) ==
  /\ home[a] # Nil /\ bin[k] = Nil /\ UNCHANGED stage
  /\ home' = [home EXCEPT ![a] = Nil] /\ bin' = [bin EXCEPT ![k] = home[a]]
  /\ hist'.gone = hist.gone /\ hist'.was = [hist.was EXCEPT ![home[a]] = a]
IntoStage(a, i) ==
  /\ home[a] # Nil /\ UNCHANGED bin
  /\ home' = [home EXCEPT ![a] = Nil] /\ stage' = [stage EXCEPT ![i] = @ \cup {home[a]}]
  /\ hist'.gone = hist.gone /\ hist'.was = [hist.was EXCEPT ![home[a]] = a]
\* from there to the bin; from the bin to a place.
FromStage(f, i, k) ==
  /\ f \in stage[i] /\ bin[k] = Nil /\ UNCHANGED home
  /\ bin' = [bin EXCEPT ![k] = f] /\ stage' = [stage EXCEPT ![i] = @ \ {f}] /\ KeepsHist
FromBin(k, a) ==
  /\ bin[k] # Nil /\ home[a] = Nil /\ UNCHANGED stage
  /\ home' = [home EXCEPT ![a] = bin[k]] /\ bin' = [bin EXCEPT ![k] = Nil] /\ KeepsHist
\* A staging folder is removed, a file is deleted, or one is made.
Clears(i) == stage' = [stage EXCEPT ![i] = {}] /\ UNCHANGED <<home, bin>> /\ KeepsHist
Deletes(k) ==
  /\ UNCHANGED <<home, stage>> /\ bin' = [bin EXCEPT ![k] = Nil]
  /\ hist'.gone = hist.gone \cup ({bin[k]} \ {Nil}) /\ hist'.was = hist.was
Makes(a, f) ==
  /\ home[a] = Nil
  /\ f \notin Files(home) \cup Files(bin) \cup UNION {stage[i] : i \in DOMAIN stage} \cup hist.gone
  /\ home' = [home EXCEPT ![a] = f] /\ UNCHANGED <<bin, stage>> /\ KeepsHist

FileStep(p) ==
  \/ KeepsFiles
  \/ Me(p).pc = "t.move" /\ IntoBin(Head(Me(p).todo), Me(p).k)
  \/ Me(p).pc = "t.move" /\ Has("copy") /\ (IntoStage(Head(Me(p).todo), Pid[p]) \/ Clears(Pid[p]))
  \/ Me(p).pc = "t.land" /\ FromStage(Me(p).target, Pid[p], Me(p).k)
  \/ Me(p).pc = "u.move" /\ Me(p).list # <<>> /\ FromBin(Head(Me(p).list).k, Head(Me(p).list).place)
  \/ Me(p).pc = "r.move" /\ FromBin(Me(p).from, Me(p).target)
  \/ Me(p).pc = "d.file" /\ Deletes(Me(p).from)
  \/ Me(p).pc = "e.del" /\ Me(p).list # <<>> /\ Deletes(Head(Me(p).list).k)

LEMMA FileSteps ==
  ASSUME Typed, [Next]_vars
  PROVE  KeepsFiles \/ (\E a \in Place, f \in File : Makes(a, f)) \/ \E p \in Proc : FileStep(p)
  <1>h. hist.gone \subseteq File /\ hist \in [gone : SUBSET File, emptied : BOOLEAN, was : [File -> Place \cup {Nil}]]
    BY DEF Typed
  <1>0. UNCHANGED <<home, bin, stage, hist>> => KeepsFiles
    BY DEF KeepsFiles, KeepsHist
  <1>1. ASSUME NEW p \in Proc, Begin(p)
        PROVE  KeepsFiles
    <2>1. UNCHANGED <<home, bin, stage>> /\ (hist' = hist \/ hist' = [hist EXCEPT !.emptied = TRUE])
      BY Zenon, <1>1 DEF Begin, BeginTrash, BeginUntrash, BeginRestore, BeginDelete, BeginEmpty
    <2> QED BY Zenon, <1>h, <2>1 DEF KeepsFiles, KeepsHist
  <1>2. ASSUME NEW p \in Proc,
               \/ TrashMeta(p) \/ TrashInfo(p) \/ TrashLook(p) \/ TrashDrop(p) \/ TrashWrite(p)
               \/ TrashSync(p) \/ TrashBack(p) \/ UntrashCheck(p) \/ UntrashInfo(p) \/ RestoreLook(p)
               \/ RestoreInfo(p) \/ DeleteInfo(p) \/ EmptyInfo(p)
        PROVE  KeepsFiles
    <2>1. UNCHANGED <<home, bin, stage, hist>>
      BY <1>2, Zenon DEF TrashMeta, TrashInfo, TrashLook, TrashDrop, TrashWrite, TrashSync, TrashBack,
         UntrashCheck, UntrashInfo, RestoreLook, RestoreInfo, DeleteInfo, EmptyInfo
    <2> QED BY <2>1, <1>0
  <1>3. ASSUME NEW p \in Proc, TrashMove(p)
        PROVE  FileStep(p)
    <2> DEFINE a == Head(Me(p).todo)
               f == home[a]
    <2>a. a \in Place /\ (f # Nil => f \in File)
      <3>1. pr[p].todo \in Seq(Place) /\ Knows(pr[p])
        BY ZenonT(30), ThreadFields
      <3>2. pr[p].todo # <<>>
        BY <3>1, <1>3 DEF TrashMove, Me, Knows, TrashPcs
      <3> QED BY Zenon, <3>1, <3>2, HeadTail DEF Me, Typed, Spot
    <2>1. CASE UNCHANGED <<home, bin, hist>>
               /\ stage' = IF Has("copy") THEN [stage EXCEPT ![Pid[p]] = {}] ELSE stage
      <3>1. CASE Has("copy")
        <4>1. Clears(Pid[p])
          BY Zenon, <2>1, <3>1 DEF Clears, KeepsHist
        <4> QED BY <1>3, <3>1, <4>1 DEF FileStep, TrashMove
      <3>2. CASE ~Has("copy")
        BY ZenonT(30), <2>1, <3>2, <1>0 DEF FileStep
      <3> QED BY <3>1, <3>2
    <2>2. CASE /\ f # Nil /\ Lands(Me(p).k) /\ bin' = [bin EXCEPT ![Me(p).k] = f]
               /\ home' = [home EXCEPT ![a] = Nil]
               /\ hist' = [hist EXCEPT !.was[f] = a] /\ UNCHANGED stage
      <3> HIDE DEF a
      <3>1. hist'.gone = hist.gone /\ hist'.was = [hist.was EXCEPT ![f] = a]
        BY <1>h, <2>2
      <3>2. IntoBin(a, Me(p).k)
        BY ZenonT(30), <2>2, <3>1 DEF IntoBin, Lands
      <3> QED BY <1>3, <3>2 DEF FileStep, TrashMove, a
    <2>3. CASE /\ f # Nil /\ Has("copy") /\ stage' = [stage EXCEPT ![Pid[p]] = @ \cup {f}]
               /\ home' = [home EXCEPT ![a] = Nil]
               /\ hist' = [hist EXCEPT !.was[f] = a] /\ UNCHANGED bin
      <3> HIDE DEF a
      <3>1. hist'.gone = hist.gone /\ hist'.was = [hist.was EXCEPT ![f] = a]
        BY <1>h, <2>3
      <3>2. IntoStage(a, Pid[p])
        BY <2>3, <3>1 DEF IntoStage
      <3> QED BY <1>3, <2>3, <3>2 DEF FileStep, TrashMove, a
    <2> QED BY Zenon, <1>3, <2>1, <2>2, <2>3 DEF TrashMove
  <1>4. ASSUME NEW p \in Proc, TrashLand(p)
        PROVE  FileStep(p)
    <2>1. CASE UNCHANGED <<bin, stage>>
      BY ZenonT(30), <1>4, <2>1, <1>0 DEF TrashLand, FileStep
    <2>2. CASE Me(p).target \in stage[Pid[p]] /\ Lands(Me(p).k)
      <3>1. FromStage(Me(p).target, Pid[p], Me(p).k)
        BY Zenon, <1>4, <2>2 DEF TrashLand, FromStage, Lands, KeepsHist
      <3> QED BY <1>4, <3>1 DEF TrashLand, FileStep
    <2> QED BY Zenon, <1>4, <2>1, <2>2 DEF TrashLand
  <1>5. ASSUME NEW p \in Proc, UntrashMove(p)
        PROVE  FileStep(p)
    <2>1. CASE UNCHANGED <<home, bin>>
      BY Zenon, <1>5, <2>1, <1>0 DEF UntrashMove, FileStep
    <2> DEFINE it == Head(Me(p).list)
    <2>2. CASE /\ Me(p).list # <<>> /\ bin[it.k] # Nil /\ Free(it.place)
               /\ home' = [home EXCEPT ![it.place] = bin[it.k]] /\ bin' = [bin EXCEPT ![it.k] = Nil]
      <3>1. FromBin(it.k, it.place)
        BY <1>5, <2>2 DEF UntrashMove, FromBin, Free, KeepsHist
      <3> QED BY ZenonT(30), <1>5, <2>2, <3>1 DEF UntrashMove, FileStep
    <2> QED BY Zenon, <1>5, <2>1, <2>2 DEF UntrashMove
  <1>6. ASSUME NEW p \in Proc, RestoreMove(p)
        PROVE  FileStep(p)
    <2>1. CASE UNCHANGED <<home, bin>>
      BY ZenonT(30), <1>6, <2>1, <1>0 DEF RestoreMove, FileStep
    <2>2. CASE ~(bin[Me(p).from] = Nil \/ ~Free(Me(p).target))
      <3>1. FromBin(Me(p).from, Me(p).target)
        BY <1>6, <2>2 DEF RestoreMove, FromBin, Free, KeepsHist
      <3> QED BY <1>6, <3>1 DEF RestoreMove, FileStep
    <2> QED BY Zenon, <1>6, <2>1, <2>2 DEF RestoreMove
  <1>7. ASSUME NEW p \in Proc, DeleteFile(p)
        PROVE  FileStep(p)
    <2> DEFINE k == Me(p).from
    <2>1. CASE UNCHANGED <<bin, hist>>
      BY <1>7, <2>1, <1>0 DEF DeleteFile, FileStep
    <2>2. CASE hist' = [hist EXCEPT !.gone = @ \cup ({bin[k]} \ {Nil})] /\ bin' = [bin EXCEPT ![k] = Nil]
      <3>1. Deletes(k)
        BY <1>h, <1>7, <2>2 DEF DeleteFile, Deletes
      <3> QED BY <1>7, <3>1 DEF DeleteFile, FileStep
    <2> QED BY <1>7, <2>1, <2>2 DEF DeleteFile
  <1>8. ASSUME NEW p \in Proc, EmptyDelete(p)
        PROVE  FileStep(p)
    <2>1. CASE UNCHANGED <<bin, hist>>
      BY ZenonT(30), <1>8, <2>1, <1>0 DEF EmptyDelete, FileStep
    <2> DEFINE k == Head(Me(p).list).k
    <2>2. CASE /\ Me(p).list # <<>> /\ bin[k] # Nil
               /\ hist' = [hist EXCEPT !.gone = @ \cup {bin[k]}] /\ bin' = [bin EXCEPT ![k] = Nil]
      <3>1. hist'.gone = hist.gone \cup ({bin[k]} \ {Nil}) /\ hist'.was = hist.was
        BY ZenonT(30), <1>h, <2>2
      <3>2. Deletes(k)
        BY <1>8, <2>2, <3>1 DEF EmptyDelete, Deletes
      <3> QED BY <1>8, <2>2, <3>2 DEF EmptyDelete, FileStep
    <2> QED BY <1>8, <2>1, <2>2 DEF EmptyDelete
  <1>9. ASSUME Other
        PROVE  \E a \in Place, f \in File : Makes(a, f)
    BY Zenon, <1>9 DEF Other, Makes, KeepsHist
  <1>10. ASSUME NEW i, Kill(i)
         PROVE  KeepsFiles
    BY <1>10, <1>0 DEF Kill
  <1>11. ASSUME UNCHANGED vars
         PROVE  KeepsFiles
    BY <1>11, <1>0 DEF vars
  <1> QED BY <1>1, <1>2, <1>3, <1>4, <1>5, <1>6, <1>7, <1>8, <1>9, <1>10, <1>11 DEF Next, Step

------------------------------------------------------------------------------
(* No file is in two places.                                               *)

Apart ==
  /\ \A a, b \in Spot : home[a] = home[b] /\ home[a] # Nil => a = b
  /\ \A j, k \in Slot : bin[j] = bin[k] /\ bin[j] # Nil => j = k
  /\ \A a \in Spot, k \in Slot : home[a] # Nil => home[a] # bin[k]
  /\ \A i, j \in DOMAIN stage : \A f \in stage[i] :
       /\ \A a \in Spot : home[a] # f
       /\ \A k \in Slot : bin[k] # f
       /\ f \in stage[j] => i = j

LEMMA StepPlaces ==
  ASSUME Typed, NEW p \in Proc
  PROVE  /\ Me(p).k \in Slot /\ Pid[p] \in DOMAIN stage
         /\ Me(p).pc \in TrashPcs => Head(Me(p).todo) \in Place /\ Head(Me(p).todo) \in Spot
         /\ Me(p).pc = "t.land" => Me(p).target \in File
         /\ Me(p).pc = "u.move" /\ Me(p).list # <<>> =>
              Head(Me(p).list).k \in Slot /\ Head(Me(p).list).place \in Place
         /\ Me(p).pc = "r.move" => Me(p).from \in Slot /\ Me(p).target \in Spot
         /\ Me(p).pc = "d.file" => Me(p).from \in Slot
         /\ Me(p).pc = "e.del" /\ Me(p).list # <<>> => Head(Me(p).list).k \in Slot
  <1>1. Knows(Me(p)) /\ Me(p).k \in Slot /\ Me(p).todo \in Seq(Place)
    BY Zenon, ThreadFields DEF Me
  <1>2. Pid[p] \in DOMAIN stage
    BY ZenonT(30) DEF Typed
  <1>3. ASSUME Me(p).pc \in TrashPcs
        PROVE  Head(Me(p).todo) \in Place /\ Head(Me(p).todo) \in Spot
    BY <1>1, <1>3, HeadTail DEF Knows, Spot
  <1>4. ASSUME Me(p).pc = "u.move", Me(p).list # <<>>
        PROVE  Head(Me(p).list).k \in Slot /\ Head(Me(p).list).place \in Place
    <2>1. Me(p).list \in Seq(Item)
      BY <1>1, <1>4 DEF Knows, UndoPcs
    <2>2. Head(Me(p).list) \in Item
      BY <1>4, <2>1, HeadTail
    <2> QED BY Zenon, <2>2 DEF Item
  <1>5. ASSUME Me(p).pc = "e.del", Me(p).list # <<>>
        PROVE  Head(Me(p).list).k \in Slot
    <2>1. Me(p).list \in Seq(Doom)
      BY <1>1, <1>5 DEF Knows, EmptyPcs
    <2>2. Head(Me(p).list) \in Doom
      BY <1>5, <2>1, HeadTail
    <2> QED BY Zenon, <2>2 DEF Doom
  <1> QED BY <1>1, <1>2, <1>3, <1>4, <1>5 DEF Knows, RestorePcs, DeletePcs, Stopped

LEMMA InitApart == Init => Apart
  <1> SUFFICES ASSUME Init PROVE Apart
    OBVIOUS
  <1>1. \A a, b \in Spot : home[a] = home[b] /\ home[a] # Nil => a = b
    BY Zenon, StartAssumption DEF Init, Spot
  <1>2. (\A k \in Slot : bin[k] = Nil) /\ (\A i \in DOMAIN stage : stage[i] = {})
    BY DEF Init
  <1> QED BY Zenon, <1>1, <1>2 DEF Apart

LEMMA ApartNext ==
  ASSUME Typed, Apart, [Next]_vars
  PROVE  Apart'
  <1>t. /\ home \in [Spot -> File \cup {Nil}] /\ bin \in [Slot -> File \cup {Nil}]
        /\ stage \in [DOMAIN stage -> SUBSET File]
    BY DEF Typed
  <1>n. Nil \notin File
    BY Zenon, NilAssumption
  <1>1. CASE KeepsFiles
    BY ZenonT(30), <1>1 DEF KeepsFiles, Apart
  <1>2. ASSUME NEW a \in Spot, NEW k \in Slot, IntoBin(a, k)
        PROVE  Apart'
    BY <1>t, <1>n, <1>2 DEF IntoBin, Apart
  <1>3. ASSUME NEW a \in Spot, NEW i \in DOMAIN stage, IntoStage(a, i)
        PROVE  Apart'
    BY <1>t, <1>n, <1>3 DEF IntoStage, Apart
  <1>4. ASSUME NEW i \in DOMAIN stage, Clears(i)
        PROVE  Apart'
    BY <1>t, <1>4 DEF Clears, Apart
  <1>5. ASSUME NEW f \in File, NEW i \in DOMAIN stage, NEW k \in Slot, FromStage(f, i, k)
        PROVE  Apart'
    BY <1>t, <1>n, <1>5 DEF FromStage, Apart
  <1>6. ASSUME NEW k \in Slot, NEW a \in Spot, FromBin(k, a)
        PROVE  Apart'
    BY <1>t, <1>n, <1>6 DEF FromBin, Apart
  <1>7. ASSUME NEW k \in Slot, Deletes(k)
        PROVE  Apart'
    BY <1>t, <1>n, <1>7 DEF Deletes, Apart
  <1>8. ASSUME NEW a \in Place, NEW f \in File, Makes(a, f)
        PROVE  Apart'
    <2>1. \A b \in Spot : home[b] # f
      BY Zenon, <1>t, <1>n, <1>8 DEF Makes, Files
    <2>2. \A k \in Slot : bin[k] # f
      BY Zenon, <1>t, <1>n, <1>8 DEF Makes, Files
    <2>3. \A i \in DOMAIN stage : f \notin stage[i]
      BY <1>8 DEF Makes
    <2>4. home' = [home EXCEPT ![a] = f] /\ UNCHANGED <<bin, stage>> /\ a \in Spot
      BY Zenon, <1>8 DEF Makes, Spot
    <2> QED BY <1>t, <1>n, <2>1, <2>2, <2>3, <2>4 DEF Apart
  <1>9. ASSUME NEW p \in Proc, FileStep(p)
        PROVE  Apart'
    BY Zenon, <1>9, <1>1, <1>2, <1>3, <1>4, <1>5, <1>6, <1>7, StepPlaces DEF FileStep, TrashPcs, Spot
  <1> QED BY ZenonT(30), <1>1, <1>8, <1>9, FileSteps

\* Every variable keeps its type and no file is ever in two places at once: the moves
\* of trash_into, untrash, restore_one and copy_into take a file from where it was in
\* the step that puts it somewhere else, and never put it where one already is.
THEOREM TypeCorrect == Spec => []TypeOK
  <1>1. Init => Typed /\ Apart
    BY InitTyped, InitApart
  <1>2. Typed /\ Apart /\ [Next]_vars => (Typed /\ Apart)'
    BY Zenon, TypedNext, ApartNext
  <1>3. Typed /\ Apart => TypeOK
    <2> SUFFICES ASSUME Typed, Apart PROVE TypeOK
      BY Zenon
    <2>1. \A k \in Slot : info[k] = Nil \/ info[k].place \in Place \cup {Nil}
      BY Zenon DEF Typed, Info
    <2>2. Files(home) \cap Files(bin) = {}
      BY SMTT(30) DEF Typed, Apart, Files
    <2> QED BY <2>1, <2>2 DEF Typed, Apart, TypeOK
  <1> QED BY <1>1, <1>2, <1>3, PTL DEF Spec

------------------------------------------------------------------------------
(* What each step does, field by field.                                    *)

PutsBack(p) == pr'[p].pc = "u.check" /\ pr'[p].list = pr[p].done /\ pr'[p].res = "failed"
Ends(p, res) == pr'[p].pc = "idle" /\ pr'[p].res = res
OnItem(p) == KeepsItem(p) /\ pr'[p].k = pr[p].k

MetaStep(p) ==
  /\ pr[p].pc = "t.meta" /\ UNCHANGED Rest
  /\ \/ home[Head(pr[p].todo)] = Nil /\ PutsBack(p)
     \/ home[Head(pr[p].todo)] # Nil /\ pr'[p].pc = "t.info" /\ KeepsItem(p)
InfoStep(p) ==
  /\ pr[p].pc = "t.info" /\ UNCHANGED <<home, bin, stage, undo, hist, env>> /\ KeepsItem(p)
  /\ \/ pr'[p].pc = "t.info" /\ UNCHANGED info
     \/ /\ pr'[p].pc = "t.look" /\ pr'[p].k = pr[p].k /\ info[pr[p].k] = Nil
        /\ info' = [info EXCEPT ![pr[p].k] = [by |-> p, place |-> Nil]]
LookStep(p) ==
  /\ pr[p].pc = "t.look" /\ UNCHANGED Rest /\ OnItem(p)
  /\ \/ bin[pr[p].k] = Nil /\ pr'[p].pc = "t.write"
     \/ bin[pr[p].k] # Nil /\ pr'[p].pc = "t.drop"
DropStep(p) ==
  /\ pr[p].pc = "t.drop" /\ UNCHANGED <<home, bin, stage, undo, hist, env>> /\ KeepsItem(p)
  /\ pr'[p].pc = "t.info"
  /\ info' = [info EXCEPT ![pr[p].k] = Nil]
WriteStep(p) ==
  /\ pr[p].pc = "t.write" /\ UNCHANGED <<home, bin, stage, undo, hist, env>> /\ OnItem(p)
  /\ pr'[p].pc = "t.move"
  /\ info' = [k \in Slot |-> IF k = pr[p].k /\ info[k] = [by |-> p, place |-> Nil]
                             THEN [by |-> p, place |-> Head(pr[p].todo)] ELSE info[k]]
MoveStep(p) ==
  /\ pr[p].pc = "t.move" /\ UNCHANGED <<info, undo, env>> /\ OnItem(p)
  /\ hist'.emptied = hist.emptied
  /\ \/ /\ pr'[p].pc = "t.back" /\ UNCHANGED <<home, bin, hist>>
        /\ (Has("copy") /\ stage' = [stage EXCEPT ![Pid[p]] = {}]) \/ (~Has("copy") /\ UNCHANGED stage)
     \/ pr'[p].pc = "t.sync" /\ ~Has("copy") /\ IntoBin(Head(pr[p].todo), pr[p].k)
     \/ /\ pr'[p].pc = "t.land" /\ Has("copy") /\ IntoStage(Head(pr[p].todo), Pid[p])
        /\ pr'[p].target = home[Head(pr[p].todo)]
LandStep(p) ==
  /\ pr[p].pc = "t.land" /\ UNCHANGED <<home, info, undo, hist, env>> /\ OnItem(p)
  /\ \/ pr'[p].pc = "t.sync" /\ FromStage(pr[p].target, Pid[p], pr[p].k)
     \/ /\ ~(pr[p].target \in stage[Pid[p]] /\ bin[pr[p].k] = Nil)
        /\ pr'[p].pc = "t.back" /\ UNCHANGED <<bin, stage>>
SyncStep(p) ==
  /\ pr[p].pc = "t.sync" /\ UNCHANGED <<home, bin, info, stage, hist, env>>
  /\ \/ Has("sync") /\ PutsBack(p)
     \/ /\ Len(pr[p].todo) > 1 /\ pr'[p].pc = "t.meta" /\ pr'[p].todo = Tail(pr[p].todo)
        /\ pr'[p].done = Append(pr[p].done, [place |-> Head(pr[p].todo), k |-> pr[p].k])
     \/ pr[p].op = "restore" /\ pr'[p].pc = "r.move" /\ pr'[p].from = pr[p].from
     \/ pr[p].op # "restore" /\ Ends(p, "ok")
BackStep(p) ==
  /\ pr[p].pc = "t.back" /\ UNCHANGED <<home, bin, stage, undo, hist, env>> /\ PutsBack(p)
  /\ info' = [info EXCEPT ![pr[p].k] = Nil]

LEMMA TrashSteps ==
  ASSUME Typed, NEW p \in Proc,
         \/ TrashMeta(p) \/ TrashInfo(p) \/ TrashLook(p) \/ TrashDrop(p) \/ TrashWrite(p)
         \/ TrashMove(p) \/ TrashLand(p) \/ TrashSync(p) \/ TrashBack(p)
  PROVE  /\ Others(p) /\ KeepsWork(p)
         /\ \/ MetaStep(p) \/ InfoStep(p) \/ LookStep(p) \/ DropStep(p) \/ WriteStep(p)
            \/ MoveStep(p) \/ LandStep(p) \/ SyncStep(p) \/ BackStep(p)
  <1> DEFINE t == pr[p]
  <1>a. /\ Knows(t) /\ t.k \in Slot /\ t.todo \in Seq(Place) /\ t.done \in Seq(Item)
    BY Zenon, ThreadFields
  <1>b. t.pc \in TrashPcs
    BY Zenon DEF TrashMeta, TrashInfo, TrashLook, TrashDrop, TrashWrite, TrashMove, TrashLand, TrashSync,
           TrashBack, Me, TrashPcs
  <1>c. t.todo # <<>> /\ Head(t.todo) \in Place
    BY Zenon, <1>a, <1>b, HeadTail DEF Knows
  <1>p. PutBack(p) => PutsBack(p) /\ Others(p) /\ KeepsWork(p)
    BY Zenon, PutBackSteps DEF PutsBack
  <1>g. ASSUME NEW pc \in TrashPcs, Goto(p, pc)
        PROVE  pr'[p].pc = pc /\ OnItem(p) /\ Others(p) /\ KeepsWork(p)
    BY Zenon, <1>g, GotoSteps, InPcs DEF OnItem
  <1>n. ASSUME NEW k \in Slot, Numbers(p, "t.info", k)
        PROVE  pr'[p].pc = "t.info" /\ KeepsItem(p) /\ Others(p) /\ KeepsWork(p)
    <2>1. "t.info" \in Pcs
      BY Zenon, InPcs DEF TrashPcs
    <2> QED BY Zenon, <1>n, <2>1, NumberSteps
  <1>m. NextNumber(p) /\ t.k < MaxSlot => pr'[p].pc = "t.info" /\ KeepsItem(p) /\ Others(p) /\ KeepsWork(p)
    <2> HAVE NextNumber(p) /\ t.k < MaxSlot
    <2>1. t.k + 1 \in Slot
      BY Zenon, <1>a, SlotFacts
    <2>2. Numbers(p, "t.info", t.k + 1)
      BY DEF NextNumber, Numbers, Me
    <2> QED BY Zenon, <2>1, <2>2, <1>n
  <1>1. CASE TrashMeta(p)
    <2>0. t.pc = "t.meta" /\ UNCHANGED Rest
      BY <1>1 DEF TrashMeta, Rest, Me
    <2>1. CASE home[Head(t.todo)] = Nil
      <3>1. PutBack(p)
        BY Zenon, <1>1, <2>1 DEF TrashMeta, Me
      <3> QED BY Zenon, <2>0, <2>1, <3>1, <1>p DEF MetaStep
    <2>2. CASE home[Head(t.todo)] # Nil
      <3>1. Numbers(p, "t.info", 1)
        BY Zenon, <1>1, <2>2 DEF TrashMeta, Numbers, Me
      <3> QED BY Zenon, <2>0, <2>2, <3>1, <1>n, SlotFacts DEF MetaStep
    <2> QED BY <2>1, <2>2
  <1>2. CASE TrashInfo(p)
    <2>0. t.pc = "t.info" /\ UNCHANGED <<home, bin, stage, undo, hist, env>>
      BY Zenon, <1>2 DEF TrashInfo, Me
    <2>1. CASE NextNumber(p) /\ UNCHANGED info /\ t.k < MaxSlot
      BY Zenon, <2>0, <2>1, <1>m DEF InfoStep
    <2>2. CASE info[t.k] = Nil /\ info' = [info EXCEPT ![t.k] = [by |-> p, place |-> Nil]] /\ Goto(p, "t.look")
      <3>1. pr'[p].pc = "t.look" /\ OnItem(p) /\ Others(p) /\ KeepsWork(p)
        BY Zenon, <2>2, <1>g DEF TrashPcs
      <3> QED BY Zenon, <2>0, <2>2, <3>1 DEF InfoStep, OnItem
    <2> QED BY Zenon, <1>2, <2>1, <2>2 DEF TrashInfo, Me
  <1>3. CASE TrashLook(p)
    <2>0. t.pc = "t.look" /\ UNCHANGED Rest
      BY Zenon, <1>3 DEF TrashLook, Rest, Me
    <2>1. CASE bin[t.k] = Nil
      <3>1. pr'[p].pc = "t.write" /\ OnItem(p) /\ Others(p) /\ KeepsWork(p)
        BY Zenon, <1>3, <2>1, <1>g DEF TrashLook, TrashPcs, Me
      <3> QED BY Zenon, <2>0, <2>1, <3>1 DEF LookStep
    <2>2. CASE bin[t.k] # Nil
      <3>1. pr'[p].pc = "t.drop" /\ OnItem(p) /\ Others(p) /\ KeepsWork(p)
        BY Zenon, <1>3, <2>2, <1>g DEF TrashLook, TrashPcs, Me
      <3> QED BY Zenon, <2>0, <2>2, <3>1 DEF LookStep
    <2> QED BY Zenon, <2>1, <2>2
  <1>4. CASE TrashDrop(p)
    BY Zenon, <1>4, <1>m DEF TrashDrop, DropStep, Me
  <1>5. CASE TrashWrite(p)
    <2>1. pr'[p].pc = "t.move" /\ OnItem(p) /\ Others(p) /\ KeepsWork(p)
      BY Zenon, <1>5, <1>g DEF TrashWrite, TrashPcs
    <2> QED BY Zenon, <1>5, <2>1 DEF TrashWrite, WriteStep, Me
  <1>6. CASE TrashMove(p)
    <2> DEFINE a == Head(t.todo)
               f == home[a]
    <2>0. t.pc = "t.move" /\ UNCHANGED <<info, undo, env>>
      BY Zenon, <1>6 DEF TrashMove, Me
    <2>h. hist \in [gone : SUBSET File, emptied : BOOLEAN, was : [File -> Place \cup {Nil}]]
      BY Zenon DEF Typed
    <2>1. CASE Goto(p, "t.back") /\ UNCHANGED <<home, bin, hist>>
               /\ stage' = IF Has("copy") THEN [stage EXCEPT ![Pid[p]] = {}] ELSE stage
      <3>1. pr'[p].pc = "t.back" /\ OnItem(p) /\ Others(p) /\ KeepsWork(p)
        BY Zenon, <2>1, <1>g DEF TrashPcs
      <3> QED BY Zenon, <2>0, <2>1, <3>1 DEF MoveStep
    <2>w. hist' = [hist EXCEPT !.was[f] = a] =>
            hist'.emptied = hist.emptied /\ hist'.gone = hist.gone /\ hist'.was = [hist.was EXCEPT ![f] = a]
      BY Zenon, <2>h
    <2>2. CASE /\ f # Nil /\ Lands(t.k) /\ ~Has("copy") /\ bin' = [bin EXCEPT ![t.k] = f]
               /\ home' = [home EXCEPT ![a] = Nil]
               /\ hist' = [hist EXCEPT !.was[f] = a] /\ Goto(p, "t.sync") /\ UNCHANGED stage
      <3>1. pr'[p].pc = "t.sync" /\ OnItem(p) /\ Others(p) /\ KeepsWork(p)
        BY Zenon, <2>2, <1>g DEF TrashPcs
      <3>2. IntoBin(a, t.k)
        BY Zenon, <2>2, <2>w DEF IntoBin, Lands
      <3> QED BY Zenon, <2>0, <2>2, <2>w, <3>1, <3>2 DEF MoveStep
    <2>3. CASE /\ f # Nil /\ Has("copy") /\ stage' = [stage EXCEPT ![Pid[p]] = @ \cup {f}]
               /\ home' = [home EXCEPT ![a] = Nil]
               /\ hist' = [hist EXCEPT !.was[f] = a] /\ Aims(p, "t.land", f) /\ UNCHANGED bin
      <3>0. f \in File \cup Spot \cup {Nil} /\ "t.land" \in Pcs
        BY Zenon, <1>c, InPcs DEF Typed, Spot, TrashPcs
      <3>1. pr'[p].pc = "t.land" /\ pr'[p].target = f /\ OnItem(p) /\ Others(p) /\ KeepsWork(p)
        BY SMTT(30), <2>3, <3>0, TargetSteps DEF OnItem
      <3>2. IntoStage(a, Pid[p])
        BY Zenon, <2>3, <2>w DEF IntoStage
      <3> QED BY Zenon, <2>0, <2>3, <2>w, <3>1, <3>2 DEF MoveStep
    <2> QED BY Zenon, <1>6, <2>1, <2>2, <2>3 DEF TrashMove, Me, Aims
  <1>7. CASE TrashLand(p)
    <2>0. t.pc = "t.land" /\ UNCHANGED <<home, info, undo, hist, env>>
      BY Zenon, <1>7 DEF TrashLand, Me
    <2>1. CASE t.target \in stage[Pid[p]] /\ Lands(t.k)
      <3>1. pr'[p].pc = "t.sync" /\ OnItem(p) /\ Others(p) /\ KeepsWork(p)
        BY Zenon, <1>7, <2>1, <1>g DEF TrashLand, TrashPcs, Me
      <3>2. FromStage(t.target, Pid[p], t.k)
        BY Zenon, <1>7, <2>1 DEF TrashLand, FromStage, Lands, KeepsHist, Me
      <3> QED BY Zenon, <2>0, <3>1, <3>2 DEF LandStep
    <2>2. CASE ~(t.target \in stage[Pid[p]] /\ Lands(t.k))
      <3>1. pr'[p].pc = "t.back" /\ OnItem(p) /\ Others(p) /\ KeepsWork(p)
        BY Zenon, <1>7, <2>2, <1>g DEF TrashLand, TrashPcs, Me
      <3> QED BY Zenon, <1>7, <2>0, <2>2, <3>1 DEF LandStep, TrashLand, Lands, Me
    <2> QED BY Zenon, <2>1, <2>2
  <1>8. CASE TrashSync(p)
    <2> DEFINE it == [place |-> Head(t.todo), k |-> t.k]
               done == Append(t.done, it)
    <2>0. t.pc = "t.sync" /\ UNCHANGED <<home, bin, info, stage, hist, env>>
      BY Zenon, <1>8 DEF TrashSync, Me
    <2>1. CASE Has("sync") /\ PutBack(p)
      BY Zenon, <2>0, <2>1, <1>p DEF SyncStep
    <2>2. CASE Len(t.todo) > 1 /\ Takes(p, "t.meta", Tail(t.todo), done)
      <3>1. done \in Seq(Item)
        <4>1. it \in Item
          BY Zenon, <1>a, <1>c DEF Item
        <4> QED BY Zenon, <4>1, <1>a, AppendTyped
      <3> DEFINE todo == Tail(t.todo)
                 done2 == done
      <3>2. todo \in Seq(Place) /\ done2 \in Seq(Item) /\ Takes(p, "t.meta", todo, done2) /\ "t.meta" \in Pcs
        BY Zenon, <2>2, <3>1, <1>a, TailMore, InPcs DEF TrashPcs
      <3> HIDE DEF todo, done2
      <3>3. pr'[p].pc = "t.meta" /\ pr'[p].todo = todo /\ pr'[p].done = done2 /\ Others(p) /\ KeepsWork(p)
        BY ZenonT(30), <3>2, ItemSteps
      <3> QED BY Zenon, <2>0, <2>2, <3>3 DEF todo, done2, SyncStep
    <2>3. CASE IF t.op = "restore" THEN Aims(p, "r.move", Head(t.todo)) ELSE End(p, "ok")
      <3>1. CASE t.op = "restore"
        <4>1. Head(t.todo) \in File \cup Spot \cup {Nil} /\ "r.move" \in Pcs
          BY Zenon, <1>c, InPcs DEF Spot, RestorePcs
        <4>2. pr'[p].pc = "r.move" /\ KeepsPlan(p) /\ Others(p) /\ KeepsWork(p)
          BY ZenonT(30), <2>3, <3>1, <4>1, TargetSteps
        <4> QED BY Zenon, <2>0, <3>1, <4>2 DEF SyncStep, KeepsPlan
      <3>2. CASE t.op # "restore"
        <4>1. Ends(p, "ok") /\ Others(p) /\ KeepsWork(p)
          BY Zenon, <2>3, <3>2, EndSteps DEF Ends
        <4> QED BY Zenon, <2>0, <3>2, <4>1 DEF SyncStep
      <3> QED BY Zenon, <3>1, <3>2
    <2> QED BY Zenon, <1>8, <2>1, <2>2, <2>3 DEF TrashSync, Me, Takes, Aims
  <1>9. CASE TrashBack(p)
    BY Zenon, <1>9, <1>p DEF TrashBack, BackStep, Me
  <1> QED BY Zenon, <1>1, <1>2, <1>3, <1>4, <1>5, <1>6, <1>7, <1>8, <1>9

UndoCheckStep(p) ==
  /\ pr[p].pc = "u.check" /\ UNCHANGED Rest
  /\ \/ Ends(p, "failed") /\ \E i \in DOMAIN pr[p].list : home[pr[p].list[i].place] # Nil
     \/ pr'[p].pc = "u.move" /\ pr'[p].list = pr[p].list /\ pr'[p].res = pr[p].res
UndoMoveStep(p) ==
  /\ pr[p].pc = "u.move" /\ UNCHANGED <<info, stage, undo, hist, env>>
  /\ \/ pr[p].list = <<>> /\ Ends(p, pr[p].res) /\ UNCHANGED <<home, bin>>
     \/ /\ pr[p].list # <<>> /\ Ends(p, "failed") /\ UNCHANGED <<home, bin>>
        /\ bin[Head(pr[p].list).k] = Nil \/ home[Head(pr[p].list).place] # Nil
     \/ /\ pr[p].list # <<>> /\ pr'[p].pc = "u.info" /\ pr'[p].list = pr[p].list /\ pr'[p].res = pr[p].res
        /\ FromBin(Head(pr[p].list).k, Head(pr[p].list).place)
UndoInfoStep(p) ==
  /\ pr[p].pc = "u.info" /\ UNCHANGED <<home, bin, stage, undo, hist, env>>
  /\ pr'[p].pc = "u.move" /\ pr'[p].list = Tail(pr[p].list) /\ pr'[p].res = pr[p].res
  /\ info' = [info EXCEPT ![Head(pr[p].list).k] = Nil]
RestoreLookStep(p) ==
  /\ pr[p].pc = "r.look" /\ UNCHANGED Rest
  /\ pr'[p].pc \in {"idle", "r.move", "t.meta"}
RestoreMoveStep(p) ==
  /\ pr[p].pc = "r.move" /\ UNCHANGED <<info, stage, undo, hist, env>>
  /\ \/ pr'[p].pc = "idle" /\ UNCHANGED <<home, bin>>
     \/ pr'[p].pc = "r.info" /\ pr'[p].from = pr[p].from /\ FromBin(pr[p].from, pr[p].target)
RestoreInfoStep(p) ==
  /\ pr[p].pc = "r.info" /\ UNCHANGED <<home, bin, stage, undo, hist, env>>
  /\ pr'[p].pc = "idle"
  /\ info' = [info EXCEPT ![pr[p].from] = Nil]

LEMMA BackSteps ==
  ASSUME Typed, NEW p \in Proc,
         \/ UntrashCheck(p) \/ UntrashMove(p) \/ UntrashInfo(p)
         \/ RestoreLook(p) \/ RestoreMove(p) \/ RestoreInfo(p)
  PROVE  /\ Others(p) /\ KeepsWork(p)
         /\ \/ UndoCheckStep(p) \/ UndoMoveStep(p) \/ UndoInfoStep(p)
            \/ RestoreLookStep(p) \/ RestoreMoveStep(p) \/ RestoreInfoStep(p)
  <1> DEFINE t == pr[p]
  <1>a. Knows(t) /\ t.res \in {"", "ok", "failed", "skipped"}
    BY Zenon, ThreadFields
  <1>e. ASSUME NEW res \in {"ok", "failed", "skipped", t.res}, End(p, res)
        PROVE  Ends(p, res) /\ Others(p) /\ KeepsWork(p)
    BY Zenon, <1>e, EndSteps DEF Ends
  <1>g. ASSUME NEW pc \in UndoPcs \cup RestorePcs, Goto(p, pc)
        PROVE  pr'[p].pc = pc /\ KeepsPlan(p) /\ Others(p) /\ KeepsWork(p)
    BY Zenon, <1>g, GotoSteps, InPcs
  <1> USE DEF UndoPcs, RestorePcs
  <1>1. CASE UntrashCheck(p)
    <2>0. t.pc = "u.check" /\ UNCHANGED Rest
      BY Zenon, <1>1 DEF UntrashCheck, Rest, Me
    <2>1. CASE \E i \in DOMAIN t.list : home[t.list[i].place] # Nil
      <3>1. End(p, "failed")
        BY Zenon, <1>1, <2>1 DEF UntrashCheck, Me
      <3> QED BY Zenon, <2>0, <2>1, <3>1, <1>e DEF UndoCheckStep
    <2>2. CASE Goto(p, "u.move")
      BY Zenon, <2>0, <2>2, <1>g DEF UndoCheckStep, KeepsPlan
    <2> QED BY Zenon, <1>1, <2>1, <2>2 DEF UntrashCheck, Me
  <1>2. CASE UntrashMove(p)
    <2> DEFINE it == Head(t.list)
    <2>0. t.pc = "u.move" /\ UNCHANGED <<info, stage, undo, hist, env>>
      BY Zenon, <1>2 DEF UntrashMove, Me
    <2>1. CASE t.list = <<>>
      <3>1. End(p, t.res) /\ UNCHANGED <<home, bin>>
        BY Zenon, <1>2, <2>1 DEF UntrashMove, Me
      <3> QED BY Zenon, <2>0, <2>1, <3>1, <1>e DEF UndoMoveStep
    <2>2. CASE t.list # <<>> /\ (bin[it.k] = Nil \/ ~Free(it.place))
      <3>1. End(p, "failed") /\ UNCHANGED <<home, bin>>
        BY Zenon, <1>2, <2>2 DEF UntrashMove, Me
      <3> QED BY ZenonT(30), <2>0, <2>2, <3>1, <1>e DEF UndoMoveStep, Free
    <2>3. CASE t.list # <<>> /\ ~(bin[it.k] = Nil \/ ~Free(it.place))
      <3>1. /\ Goto(p, "u.info")
            /\ home' = [home EXCEPT ![it.place] = bin[it.k]] /\ bin' = [bin EXCEPT ![it.k] = Nil]
        BY Zenon, <1>2, <2>3 DEF UntrashMove, Me
      <3>2. FromBin(it.k, it.place)
        BY Zenon, <2>0, <2>3, <3>1 DEF FromBin, Free, KeepsHist
      <3>3. pr'[p].pc = "u.info" /\ KeepsPlan(p) /\ Others(p) /\ KeepsWork(p)
        BY Zenon, <3>1, <1>g
      <3> QED BY ZenonT(30), <2>0, <2>3, <3>2, <3>3 DEF UndoMoveStep, KeepsPlan
    <2> QED BY Zenon, <2>1, <2>2, <2>3
  <1>3. CASE UntrashInfo(p)
    <2> DEFINE list == Tail(t.list)
    <2>0. t.pc = "u.info" /\ UNCHANGED <<home, bin, stage, undo, hist, env>>
          /\ info' = [info EXCEPT ![Head(t.list).k] = Nil]
      BY Zenon, <1>3 DEF UntrashInfo, Me
    <2>1. t.list \in Seq(Item) /\ t.list # <<>>
      BY ZenonT(30), <1>a, <2>0 DEF Knows
    <2>2. list \in Seq(Item) \cup Seq(Doom)
      BY <2>1, HeadTail
    <2>3. Plans(p, "u.move", list) /\ "u.move" \in Pcs
      BY Zenon, <1>3, InPcs DEF UntrashInfo, Plans
    <2> HIDE DEF list
    <2>4. pr'[p].pc = "u.move" /\ pr'[p].list = list /\ pr'[p].res = t.res /\ KeepsWork(p) /\ Others(p)
      BY ZenonT(30), <2>2, <2>3, PlanSteps
    <2> QED BY Zenon, <2>0, <2>4 DEF UndoInfoStep, list
  <1>4. CASE RestoreLook(p)
    <2>0. t.pc = "r.look" /\ UNCHANGED Rest
      BY <1>4 DEF RestoreLook, Rest, Me
    <2>1. \/ Goto(p, "r.move") \/ End(p, "skipped") \/ Aims(p, "r.move", Spare)
          \/ Starts(p, "t.meta", <<t.target>>)
      BY Zenon, <1>4 DEF RestoreLook, Aims, Starts, Me
    <2>2. CASE Goto(p, "r.move")
      BY Zenon, <2>0, <2>2, <1>g DEF RestoreLookStep
    <2>3. CASE End(p, "skipped")
      BY ZenonT(30), <2>0, <2>3, <1>e DEF RestoreLookStep, Ends
    <2>4. CASE Aims(p, "r.move", Spare)
      <3>1. "r.move" \in Pcs /\ Spare \in File \cup Spot \cup {Nil}
        BY Zenon, InPcs DEF Spot
      <3>2. pr'[p].pc = "r.move" /\ Others(p) /\ KeepsWork(p)
        BY Zenon, <2>4, <3>1, TargetSteps
      <3> QED BY <2>0, <3>2 DEF RestoreLookStep
    <2>5. CASE Starts(p, "t.meta", <<t.target>>)
      <3>1. "t.meta" \in Pcs /\ t.target \in Place
        BY Zenon, <1>a, <2>0, InPcs DEF Knows, TrashPcs
      <3>2. <<t.target>> \in Seq(Place)
        BY SMTT(30), <3>1
      <3>3. pr'[p].pc = "t.meta" /\ Others(p) /\ KeepsWork(p)
        BY Zenon, <2>5, <3>1, <3>2, TodoSteps
      <3> QED BY Zenon, <2>0, <3>3 DEF RestoreLookStep
    <2> QED BY Zenon, <2>1, <2>2, <2>3, <2>4, <2>5
  <1>5. CASE RestoreMove(p)
    <2>0. t.pc = "r.move" /\ UNCHANGED <<info, stage, undo, hist, env>>
      BY Zenon, <1>5 DEF RestoreMove, Me
    <2>1. CASE bin[t.from] = Nil \/ ~Free(t.target)
      <3>1. End(p, "failed") /\ UNCHANGED <<home, bin>>
        BY Zenon, <1>5, <2>1 DEF RestoreMove, Me
      <3> QED BY Zenon, <2>0, <3>1, <1>e DEF RestoreMoveStep, Ends
    <2>2. CASE ~(bin[t.from] = Nil \/ ~Free(t.target))
      <3>1. /\ Goto(p, "r.info")
            /\ home' = [home EXCEPT ![t.target] = bin[t.from]] /\ bin' = [bin EXCEPT ![t.from] = Nil]
        BY Zenon, <1>5, <2>2 DEF RestoreMove, Me
      <3>2. FromBin(t.from, t.target)
        BY Zenon, <2>0, <2>2, <3>1 DEF FromBin, Free, KeepsHist
      <3>3. pr'[p].pc = "r.info" /\ KeepsPlan(p) /\ Others(p) /\ KeepsWork(p)
        BY Zenon, <3>1, <1>g
      <3> QED BY Zenon, <2>0, <3>2, <3>3 DEF RestoreMoveStep, KeepsPlan
    <2> QED BY Zenon, <2>1, <2>2
  <1>6. CASE RestoreInfo(p)
    BY Zenon, <1>6, <1>e DEF RestoreInfo, RestoreInfoStep, Ends, Me
  <1> QED BY ZenonT(30), <1>1, <1>2, <1>3, <1>4, <1>5, <1>6

DeleteFileStep(p) ==
  /\ pr[p].pc = "d.file" /\ UNCHANGED <<home, info, stage, undo, env>>
  /\ pr'[p].pc = "d.info" /\ pr'[p].from = pr[p].from /\ hist'.emptied = hist.emptied
  /\ UNCHANGED <<bin, hist>> \/ Deletes(pr[p].from)
DeleteInfoStep(p) ==
  /\ pr[p].pc = "d.info" /\ UNCHANGED <<home, bin, stage, undo, hist, env>>
  /\ pr'[p].pc = "idle"
  /\ \/ bin[pr[p].from] = Nil /\ info' = [info EXCEPT ![pr[p].from] = Nil]
     \/ bin[pr[p].from] # Nil /\ UNCHANGED info
EmptyInfoStep(p) ==
  /\ pr[p].pc = "e.info" /\ UNCHANGED Rest
  /\ pr'[p].pc = "e.del"
  /\ \E slots \in Listings({k \in Slot : info[k] # Nil}) :
       pr'[p].list = pr[p].list \o Entries("info", slots)
EmptyDeleteStep(p) ==
  /\ pr[p].pc = "e.del" /\ UNCHANGED <<home, stage, undo, env>> /\ hist'.emptied = hist.emptied
  /\ \/ pr'[p].pc = "idle" /\ UNCHANGED <<bin, info, hist>>
     \/ /\ pr[p].list # <<>> /\ pr'[p].pc = "e.del" /\ pr'[p].list = Tail(pr[p].list)
        /\ \/ /\ Head(pr[p].list).part = "files" /\ bin[Head(pr[p].list).k] # Nil
              /\ Deletes(Head(pr[p].list).k) /\ UNCHANGED info
           \/ /\ Head(pr[p].list).part = "info" /\ UNCHANGED <<bin, hist>>
              /\ info' = [info EXCEPT ![Head(pr[p].list).k] = Nil]

LEMMA DeletionSteps ==
  ASSUME Typed, NEW p \in Proc, DeleteFile(p) \/ DeleteInfo(p) \/ EmptyInfo(p) \/ EmptyDelete(p)
  PROVE  /\ Others(p) /\ KeepsWork(p)
         /\ DeleteFileStep(p) \/ DeleteInfoStep(p) \/ EmptyInfoStep(p) \/ EmptyDeleteStep(p)
  <1> DEFINE t == pr[p]
  <1>a. Knows(t)
    BY Zenon, ThreadFields
  <1>h. hist \in [gone : SUBSET File, emptied : BOOLEAN, was : [File -> Place \cup {Nil}]]
    BY Zenon DEF Typed
  <1>e. ASSUME NEW res \in {"ok", "failed", "skipped"}, End(p, res)
        PROVE  pr'[p].pc = "idle" /\ Others(p) /\ KeepsWork(p)
    BY Zenon, <1>e, EndSteps
  <1>l. ASSUME NEW list \in Seq(Doom), Plans(p, "e.del", list)
        PROVE  pr'[p].pc = "e.del" /\ pr'[p].list = list /\ Others(p) /\ KeepsWork(p)
    <2>1. "e.del" \in Pcs /\ list \in Seq(Item) \cup Seq(Doom)
      BY InPcs DEF EmptyPcs
    <2> QED BY ZenonT(30), <1>l, <2>1, PlanSteps
  <1>1. CASE DeleteFile(p)
    <2>0. t.pc = "d.file" /\ UNCHANGED <<home, info, stage, undo, env>> /\ Goto(p, "d.info")
      BY Zenon, <1>1 DEF DeleteFile, Me
    <2>1. pr'[p].pc = "d.info" /\ KeepsPlan(p) /\ Others(p) /\ KeepsWork(p)
      BY Zenon, <2>0, GotoSteps, InPcs DEF DeletePcs
    <2>2. CASE UNCHANGED <<bin, hist>>
      BY Zenon, <2>0, <2>1, <2>2 DEF DeleteFileStep, KeepsPlan
    <2>3. CASE /\ hist' = [hist EXCEPT !.gone = @ \cup ({bin[t.from]} \ {Nil})]
               /\ bin' = [bin EXCEPT ![t.from] = Nil]
      <3>1. /\ hist'.gone = hist.gone \cup ({bin[t.from]} \ {Nil}) /\ hist'.was = hist.was
            /\ hist'.emptied = hist.emptied
        BY <1>h, <2>3
      <3>2. Deletes(t.from)
        BY Zenon, <2>0, <2>3, <3>1 DEF Deletes
      <3> QED BY ZenonT(30), <2>0, <2>1, <3>1, <3>2 DEF DeleteFileStep, KeepsPlan
    <2> QED BY <1>1, <2>2, <2>3 DEF DeleteFile, Me
  <1>2. CASE DeleteInfo(p)
    BY Zenon, <1>2, <1>e DEF DeleteInfo, DeleteInfoStep, Me
  <1>3. CASE EmptyInfo(p)
    <2>0. t.pc = "e.info" /\ UNCHANGED Rest
      BY <1>3 DEF EmptyInfo, Rest, Me
    <2>1. PICK slots \in Listings({k \in Slot : info[k] # Nil}) :
            pr' = [pr EXCEPT ![p].pc = "e.del", ![p].list = Doomed(@, Entries("info", slots))]
      BY <1>3, Zenon DEF EmptyInfo
    <2> DEFINE more == Entries("info", slots)
               list == t.list \o more
    <2>2. more \in Seq(Doom)
      BY EntriesTyped
    <2>3. Plans(p, "e.del", list)
      BY Zenon, <2>1 DEF Plans, Doomed
    <2>4. t.list \in Seq(Doom)
      BY Zenon, <1>a, <2>0 DEF Knows, EmptyPcs
    <2> HIDE DEF more
    <2>5. list \in Seq(Doom)
      BY Zenon, <2>2, <2>4, ConcatTyped
    <2> HIDE DEF list
    <2>6. pr'[p].pc = "e.del" /\ pr'[p].list = list /\ Others(p) /\ KeepsWork(p)
      BY Zenon, <2>3, <2>5, <1>l
    <2> QED BY ZenonT(30), <2>0, <2>6 DEF EmptyInfoStep, list, more
  <1>4. CASE EmptyDelete(p)
    <2> DEFINE it == Head(t.list)
               list == Tail(t.list)
    <2>0. t.pc = "e.del" /\ UNCHANGED <<home, stage, undo, env>>
      BY Zenon, <1>4 DEF EmptyDelete, Me
    <2>1. CASE (End(p, "ok") \/ End(p, "failed")) /\ UNCHANGED <<bin, info, hist>>
      BY ZenonT(30), <2>0, <2>1, <1>e DEF EmptyDeleteStep
    <2>2. CASE /\ t.list # <<>> /\ Plans(p, "e.del", list)
               /\ IF it.part = "files"
                  THEN /\ bin[it.k] # Nil
                       /\ hist' = [hist EXCEPT !.gone = @ \cup {bin[it.k]}]
                       /\ bin' = [bin EXCEPT ![it.k] = Nil]
                       /\ UNCHANGED info
                  ELSE info' = [info EXCEPT ![it.k] = Nil] /\ UNCHANGED <<bin, hist>>
      <3>1. t.list \in Seq(Doom)
        BY Zenon, <1>a, <2>0 DEF Knows, EmptyPcs
      <3>2. it \in Doom /\ list \in Seq(Doom)
        BY Zenon, <2>2, <3>1, HeadTail
      <3>3. it.part \in {"files", "info"}
        BY <3>2 DEF Doom
      <3> HIDE DEF it, list
      <3>4. pr'[p].pc = "e.del" /\ pr'[p].list = list /\ Others(p) /\ KeepsWork(p)
        BY Zenon, <2>2, <3>2, <1>l
      <3>5. CASE it.part = "files"
        <4>1. /\ hist'.gone = hist.gone \cup ({bin[it.k]} \ {Nil}) /\ hist'.was = hist.was
              /\ hist'.emptied = hist.emptied
          BY <1>h, <2>2, <3>5
        <4>2. Deletes(it.k)
          BY ZenonT(30), <2>0, <2>2, <3>5, <4>1 DEF Deletes
        <4> QED BY ZenonT(30), <2>0, <2>2, <3>4, <3>5, <4>1, <4>2 DEF EmptyDeleteStep, it, list
      <3>6. CASE it.part = "info"
        BY ZenonT(30), <2>0, <2>2, <3>4, <3>6 DEF EmptyDeleteStep, it, list
      <3> QED BY Zenon, <3>3, <3>5, <3>6
    <2> QED BY Zenon, <1>4, <2>1, <2>2 DEF EmptyDelete, Plans, Me
  <1> QED BY Zenon, <1>1, <1>2, <1>3, <1>4

\* What an operation starts with.
BeginStep(p) ==
  /\ UNCHANGED <<home, bin, info, stage, env>> /\ KeepsHist
  /\ \/ /\ pr'[p].pc = "t.meta" /\ pr'[p].op = "trash" /\ pr'[p].done = <<>> /\ UNCHANGED hist
        /\ pr'[p].todo \in Todos /\ pr'[p].had = Had(pr'[p].todo)
     \/ pr'[p].pc \in {"u.check", "r.look"} /\ pr'[p].op # "trash" /\ UNCHANGED hist
     \/ Has("delete") /\ pr'[p].pc = "d.file" /\ pr'[p].op # "trash" /\ UNCHANGED hist
     \/ /\ Has("empty") /\ pr'[p].pc = "e.info" /\ pr'[p].op # "trash" /\ hist'.emptied
        /\ \E slots \in Listings({k \in Slot : bin[k] # Nil}) : pr'[p].list = Entries("files", slots)

LEMMA BeginSteps ==
  ASSUME Typed, NEW p \in Proc, Begin(p)
  PROVE  /\ pr[p].pc = "idle" /\ (Has("alone") => \A q \in Proc \ {p} : pr[q].ops = 0)
         /\ Others(p) /\ BeginStep(p)
  <1>0. pr[p].pc = "idle" /\ (Has("alone") => \A q \in Proc \ {p} : pr[q].ops = 0)
    BY Zenon DEF Begin, Me
  <1>h. hist \in [gone : SUBSET File, emptied : BOOLEAN, was : [File -> Place \cup {Nil}]]
    BY Zenon DEF Typed
  <1>o. ASSUME NEW t, pr' = [pr EXCEPT ![p] = t]
        PROVE  pr'[p] = t /\ Others(p)
    BY Zenon, <1>o DEF Typed, Others
  <1>b. ASSUME NEW pc \in Pcs, NEW op \in Ops
        PROVE  /\ Begun(p, pc, op) \in Thread
               /\ Begun(p, pc, op).pc = pc /\ Begun(p, pc, op).op = op
               /\ Begun(p, pc, op).done = <<>>
    <2>1. Begun(p, pc, op).done = <<>>
      BY Zenon DEF Begun, Idle
    <2> QED BY <2>1, BegunTyped
  <1>1. CASE BeginTrash(p)
    <2>1. PICK todo \in Todos :
            pr' = [pr EXCEPT ![p] = [Begun(p, "t.meta", "trash") EXCEPT !.todo = todo, !.had = Had(todo)]]
      BY <1>1, Zenon DEF BeginTrash
    <2> DEFINE b == Begun(p, "t.meta", "trash")
               t == [b EXCEPT !.todo = todo, !.had = Had(todo)]
    <2>2. b \in Thread /\ b.pc = "t.meta" /\ b.op = "trash" /\ b.done = <<>>
      BY <1>b, PcFacts
    <2>3. pr'[p] = t /\ Others(p)
      BY Zenon, <2>1, <1>o
    <2> HIDE DEF b
    <2>4. t.pc = "t.meta" /\ t.op = "trash" /\ t.done = <<>> /\ t.todo = todo /\ t.had = Had(todo)
      BY <2>2, Zenon DEF Thread
    <2>5. UNCHANGED <<home, bin, info, stage, env, hist>>
      BY <1>1, Zenon DEF BeginTrash
    <2> HIDE DEF t
    <2> QED BY ZenonT(30), <1>0, <2>3, <2>4, <2>5 DEF BeginStep, KeepsHist
  <1>2. CASE BeginUntrash(p)
    <2>1. PICK list \in undo :
            pr' = [pr EXCEPT ![p] = [Begun(p, "u.check", "untrash") EXCEPT !.list = list, !.res = "ok"]]
      BY <1>2, Zenon DEF BeginUntrash
    <2> DEFINE b == Begun(p, "u.check", "untrash")
               t == [b EXCEPT !.list = list, !.res = "ok"]
    <2>2. b \in Thread /\ b.pc = "u.check" /\ b.op = "untrash"
      BY <1>b, PcFacts
    <2>3. pr'[p] = t /\ Others(p)
      BY Zenon, <2>1, <1>o
    <2> HIDE DEF b
    <2>4. t.pc = "u.check" /\ t.op = "untrash"
      BY <2>2, Zenon DEF Thread
    <2>5. UNCHANGED <<home, bin, info, stage, env, hist>>
      BY <1>2, Zenon DEF BeginUntrash
    <2> HIDE DEF t
    <2> QED BY Zenon, <1>0, <2>3, <2>4, <2>5 DEF BeginStep, KeepsHist
  <1>3. CASE BeginRestore(p)
    <2>1. PICK k \in Slot :
            pr' = [pr EXCEPT ![p] = [Begun(p, "r.look", "restore") EXCEPT !.from = k, !.target = info[k].place]]
      BY <1>3, Zenon DEF BeginRestore
    <2> DEFINE b == Begun(p, "r.look", "restore")
               t == [b EXCEPT !.from = k, !.target = info[k].place]
    <2>2. b \in Thread /\ b.pc = "r.look" /\ b.op = "restore"
      BY <1>b, PcFacts
    <2>3. pr'[p] = t /\ Others(p)
      BY Zenon, <2>1, <1>o
    <2> HIDE DEF b
    <2>4. t.pc = "r.look" /\ t.op = "restore"
      BY <2>2, Zenon DEF Thread
    <2>5. UNCHANGED <<home, bin, info, stage, env, hist>>
      BY <1>3, Zenon DEF BeginRestore
    <2> HIDE DEF t
    <2> QED BY <1>0, <2>3, <2>4, <2>5 DEF BeginStep, KeepsHist
  <1>4. CASE BeginDelete(p)
    <2>1. PICK k \in Slot : pr' = [pr EXCEPT ![p] = [Begun(p, "d.file", "delete") EXCEPT !.from = k]]
      BY <1>4, Zenon DEF BeginDelete
    <2> DEFINE b == Begun(p, "d.file", "delete")
               t == [b EXCEPT !.from = k]
    <2>2. b \in Thread /\ b.pc = "d.file" /\ b.op = "delete"
      BY <1>b, PcFacts
    <2>3. pr'[p] = t /\ Others(p)
      BY Zenon, <2>1, <1>o
    <2> HIDE DEF b
    <2>4. t.pc = "d.file" /\ t.op = "delete"
      BY <2>2, Zenon DEF Thread
    <2>5. UNCHANGED <<home, bin, info, stage, env, hist>> /\ Has("delete")
      BY <1>4, Zenon DEF BeginDelete
    <2> HIDE DEF t
    <2> QED BY <1>0, <2>3, <2>4, <2>5 DEF BeginStep, KeepsHist
  <1>5. CASE BeginEmpty(p)
    <2>1. PICK slots \in Listings({k \in Slot : bin[k] # Nil}) :
            pr' = [pr EXCEPT ![p] = [Begun(p, "e.info", "empty") EXCEPT !.list = Entries("files", slots)]]
      BY <1>5, Zenon DEF BeginEmpty
    <2> DEFINE b == Begun(p, "e.info", "empty")
               list == Entries("files", slots)
               t == [b EXCEPT !.list = list]
    <2>2. b \in Thread /\ b.pc = "e.info" /\ b.op = "empty"
      BY <1>b, PcFacts
    <2>3. pr'[p] = t /\ Others(p)
      BY Zenon, <2>1, <1>o
    <2> HIDE DEF b, list
    <2>4. t.pc = "e.info" /\ t.op = "empty" /\ t.list = list
      BY <2>2, Zenon DEF Thread
    <2>5. UNCHANGED <<home, bin, info, stage, env>> /\ Has("empty") /\ hist' = [hist EXCEPT !.emptied = TRUE]
      BY <1>5, Zenon DEF BeginEmpty
    <2>6. KeepsHist /\ hist'.emptied
      BY <1>h, <2>5 DEF KeepsHist
    <2> HIDE DEF t
    <2> QED BY ZenonT(30), <1>0, <2>3, <2>4, <2>5, <2>6 DEF BeginStep, list
  <1> QED BY ZenonT(30), <1>1, <1>2, <1>3, <1>4, <1>5, Zenon DEF Begin

\* Every step there is.
ThreadStep(p) ==
  \/ MetaStep(p) \/ InfoStep(p) \/ LookStep(p) \/ DropStep(p) \/ WriteStep(p)
  \/ MoveStep(p) \/ LandStep(p) \/ SyncStep(p) \/ BackStep(p)
  \/ UndoCheckStep(p) \/ UndoMoveStep(p) \/ UndoInfoStep(p)
  \/ RestoreLookStep(p) \/ RestoreMoveStep(p) \/ RestoreInfoStep(p)
  \/ DeleteFileStep(p) \/ DeleteInfoStep(p) \/ EmptyInfoStep(p) \/ EmptyDeleteStep(p)
Killed ==
  /\ UNCHANGED Rest
  /\ \E i : \A q \in Proc : pr'[q] = pr[q] \/ (Pid[q] = i /\ pr'[q].pc = "dead" /\ KeepsWork(q))

LEMMA Steps ==
  ASSUME Typed, [Next]_vars
  PROVE  \/ UNCHANGED vars
         \/ Killed
         \/ /\ UNCHANGED <<pr, bin, info, stage, undo, hist, env>> /\ Has("other")
            /\ \E a \in Place, f \in File : Makes(a, f)
         \/ \E p \in Proc :
              /\ Others(p)
              /\ \/ /\ pr[p].pc = "idle" /\ (Has("alone") => \A q \in Proc \ {p} : pr[q].ops = 0)
                    /\ BeginStep(p)
                 \/ KeepsWork(p) /\ ThreadStep(p)
  <1>1. ASSUME NEW p \in Proc, Step(p)
        PROVE  Others(p) /\ KeepsWork(p) /\ ThreadStep(p)
    BY ZenonT(30), <1>1, TrashSteps, BackSteps, DeletionSteps, Zenon DEF Step, ThreadStep
  <1>2. ASSUME NEW i, Kill(i)
        PROVE  Killed
    BY Zenon, <1>2, KillSteps DEF Killed
  <1>3. ASSUME Other
        PROVE  /\ UNCHANGED <<pr, bin, info, stage, undo, hist, env>> /\ Has("other")
               /\ \E a \in Place, f \in File : Makes(a, f)
    BY Zenon, <1>3 DEF Other, Makes, KeepsHist
  <1> QED BY Zenon, <1>1, <1>2, <1>3, BeginSteps, Zenon DEF Next
===============================================================================
