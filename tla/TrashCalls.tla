------------------------------ MODULE TrashCalls ------------------------------
(***************************************************************************)
(* A call of trash is all or nothing, for any number of items.             *)
(***************************************************************************)
EXTENDS TrashProofs

------------------------------------------------------------------------------
(* A call that fails, with nobody else at work, has put everything back.   *)

AtHome(w) == home[w.at] = w.file
\* The items of a list from lo on are in the bin, can go back, and are apart.
Ready(l, lo) ==
  \A j \in lo..Len(l) :
    /\ bin[l[j].k] # Nil /\ home[l[j].place] = Nil
    /\ \A i \in lo..Len(l) : i # j => l[i].k # l[j].k /\ l[i].place # l[j].place
Listed(l, lo, w) == \E j \in lo..Len(l) : bin[l[j].k] = w.file /\ l[j].place = w.at
\* What is yet to be binned and what is binned already.
Planned(p) ==
  /\ \A i, j \in 1..Len(pr[p].todo) : pr[p].todo[i] = pr[p].todo[j] => i = j
  /\ \A i \in 1..Len(pr[p].done), j \in 1..Len(pr[p].todo) : pr[p].done[i].place # pr[p].todo[j]
  /\ Ready(pr[p].done, 1)
\* The item at hand.
Located(p) ==
  /\ pr[p].pc \in {"t.write", "t.move", "t.land", "t.back"} => bin[pr[p].k] = Nil
  /\ pr[p].pc \in {"t.land", "t.sync"} => home[Head(pr[p].todo)] = Nil
  /\ pr[p].pc = "t.land" => pr[p].target \in stage[Pid[p]]
  /\ pr[p].pc = "t.sync" =>
       bin[pr[p].k] # Nil /\ \A i \in 1..Len(pr[p].done) : pr[p].done[i].k # pr[p].k
\* Where each file is that was at one of the places when the call began.
HadIt(p, w) == w \in pr[p].had
Whereabouts(p, w) ==
  \/ AtHome(w) \/ Listed(pr[p].done, 1, w)
  \/ pr[p].pc = "t.land" /\ pr[p].target = w.file /\ Head(pr[p].todo) = w.at
  \/ pr[p].pc = "t.sync" /\ bin[pr[p].k] = w.file /\ Head(pr[p].todo) = w.at
Covered(p) == \A w \in Found : HadIt(p, w) => Whereabouts(p, w)
\* A call that is putting back has the items of its list from lo on to go.
Behind(p, lo) ==
  /\ Ready(pr[p].list, lo) /\ pr[p].res = "failed"
  /\ \A w \in Found : HadIt(p, w) => AtHome(w) \/ Listed(pr[p].list, lo, w)
WholeInv(p) ==
  pr[p].op = "trash" =>
    /\ pr[p].ops # 0 /\ pr[p].pc \in TrashPcs \cup UndoPcs \cup Stopped
    /\ pr[p].pc \in TrashPcs => Planned(p) /\ Located(p) /\ Covered(p)
    /\ pr[p].pc \in {"u.check", "u.move"} => Behind(p, 1)
    /\ pr[p].pc = "u.info" => Behind(p, 2)
    /\ pr[p].pc = "idle" /\ pr[p].res = "failed" =>
         \A w \in Found : HadIt(p, w) => AtHome(w)

\* The steps of a call that moves no file.
LEMMA WholePutsBack ==
  ASSUME NEW p \in Proc, pr[p].op = "trash", KeepsWork(p), Planned(p), Covered(p), pr[p].pc \notin {"t.land", "t.sync"},
         PutsBack(p), UNCHANGED <<home, bin>>, pr[p].ops # 0
  PROVE  WholeInv(p)'
  <1>1. pr'[p].pc = "u.check" /\ pr'[p].list = pr[p].done /\ pr'[p].res = "failed" /\ pr'[p].had = pr[p].had /\ pr'[p].ops # 0
    BY Zenon DEF PutsBack, KeepsWork
  <1>2. Ready(pr[p].list, 1)'
    BY <1>1 DEF Planned, Ready
  <1>3. \A w \in Found : HadIt(p, w)' => AtHome(w)' \/ Listed(pr[p].list, 1, w)'
    BY <1>1 DEF Covered, HadIt, Whereabouts, AtHome, Listed
  <1>4. Behind(p, 1)'
    BY Zenon, <1>1, <1>2, <1>3 DEF Behind
  <1> QED BY <1>1, <1>4 DEF WholeInv, TrashPcs, UndoPcs

LEMMA WholeQuiet ==
  ASSUME NEW p \in Proc, pr[p].op = "trash", KeepsWork(p), Planned(p), Covered(p), pr[p].pc \notin {"t.land", "t.sync"},
         pr[p].ops # 0, KeepsItem(p), UNCHANGED <<home, bin>>,
         pr'[p].pc \in {"t.info", "t.look", "t.drop", "t.write", "t.move", "t.back"},
         pr'[p].pc \in {"t.write", "t.move", "t.back"} => bin[pr'[p].k] = Nil
  PROVE  WholeInv(p)'
  <1>1. pr'[p].todo = pr[p].todo /\ pr'[p].done = pr[p].done /\ pr'[p].had = pr[p].had /\ pr'[p].ops # 0
    BY Zenon DEF KeepsItem, KeepsWork
  <1>2. Planned(p)'
    BY SMTT(30), <1>1 DEF Planned, Ready
  <1>3. Located(p)'
    BY DEF Located
  <1>4. Covered(p)'
    <2>1. \A w \in Found : (HadIt(p, w)' <=> HadIt(p, w)) /\ (AtHome(w)' <=> AtHome(w))
      BY <1>1 DEF HadIt, AtHome
    <2>2. \A w \in Found : Listed(pr[p].done, 1, w)' <=> Listed(pr[p].done, 1, w)
      BY <1>1 DEF Listed
    <2> QED BY <2>1, <2>2 DEF Covered, Whereabouts
  <1> QED BY Zenon, <1>1, <1>2, <1>3, <1>4 DEF WholeInv, TrashPcs, UndoPcs

LEMMA WholeMove ==
  ASSUME Typed, NEW p \in Proc, pr[p].op = "trash", KeepsWork(p), WholeInv(p), MoveStep(p)
  PROVE  WholeInv(p)'
  <1> DEFINE t == pr[p]
             d == pr[p].done
  <1>a. /\ t.todo \in Seq(Place) /\ t.todo # <<>> /\ d \in Seq(Item) /\ t.pc = "t.move"
        /\ home \in [Spot -> File \cup {Nil}] /\ bin \in [Slot -> File \cup {Nil}]
        /\ stage \in [{Pid[q] : q \in Proc} -> SUBSET File] /\ Pid[p] \in DOMAIN stage
    <2>1. t.todo \in Seq(Place) /\ d \in Seq(Item) /\ Knows(t)
      BY Zenon, ThreadFields
    <2>2. t.pc = "t.move"
      BY DEF MoveStep
    <2>3. t.todo # <<>>
      BY ZenonT(30), <2>1, <2>2 DEF Knows, TrashPcs
    <2> QED BY ZenonT(30), <2>1, <2>2, <2>3 DEF Typed
  <1>p. Planned(p) /\ Located(p) /\ Covered(p) /\ t.ops # 0
    BY Zenon, <1>a DEF WholeInv, TrashPcs
  <1>i. OnItem(p) /\ pr'[p].k = t.k /\ pr'[p].todo = t.todo /\ pr'[p].done = d /\ pr'[p].had = t.had /\ pr'[p].ops = t.ops
    BY Zenon DEF MoveStep, OnItem, KeepsItem, KeepsWork
  <1>k. PICK k \in Slot : k = t.k /\ bin[k] = Nil
    BY ZenonT(30), <1>a, <1>p, ThreadFields DEF Located
  <1>h. PICK a \in Place : a = Head(t.todo) /\ a \in Spot /\ t.todo[1] = a /\ 1 \in 1..Len(t.todo)
    BY SMTT(30), <1>a, HeadTail DEF Spot
  <1>d. \A j \in 1..Len(d) : d[j].place \in Spot /\ d[j].k \in Slot /\ d[j].k # k /\ d[j].place # a
    <2> TAKE j \in 1..Len(d)
    <2>1. d[j] \in Item
      BY Zenon, <1>a, ElementOfSeq
    <2>2. d[j].place \in Spot /\ d[j].k \in Slot
      BY Zenon, <2>1 DEF Item, Spot
    <2>3. bin[d[j].k] # Nil /\ d[j].place # t.todo[1]
      BY Zenon, <1>p, <1>h DEF Planned, Ready
    <2> QED BY Zenon, <2>2, <2>3, <1>k, <1>h
  <1>1. CASE pr'[p].pc = "t.back" /\ UNCHANGED <<home, bin>>
    BY Zenon, <1>1, <1>a, <1>p, <1>i, <1>k, WholeQuiet DEF OnItem
  <1>m. ASSUME home[a] # Nil, home' = [home EXCEPT ![a] = Nil],
               \A j \in Slot \ {k} : bin'[j] = bin[j]
        PROVE  /\ Planned(p)' /\ home'[a] = Nil
               /\ \A w \in Found : w.at # a /\ AtHome(w) => AtHome(w)'
               /\ \A w \in Found : Listed(pr[p].done, 1, w) => Listed(pr[p].done, 1, w)'
    <2>1. home'[a] = Nil /\ \A b \in Spot \ {a} : home'[b] = home[b]
      BY ZenonT(30), <1>m, <1>h, <1>a
    <2>2. \A j \in 1..Len(d) : bin'[d[j].k] = bin[d[j].k] /\ home'[d[j].place] = home[d[j].place]
      BY ZenonT(30), <1>d, <1>m, <2>1
    <2>3. Planned(p)'
      BY SMTT(30), <1>p, <1>i, <2>2 DEF Planned, Ready
    <2>4. \A w \in Found : w.at # a /\ AtHome(w) => AtHome(w)'
      BY <2>1 DEF AtHome, Found, Spot
    <2>5. \A w \in Found : Listed(pr[p].done, 1, w) => Listed(pr[p].done, 1, w)'
      BY <1>i, <2>2 DEF Listed
    <2> QED BY ZenonT(30), <2>1, <2>3, <2>4, <2>5
  <1>t. \A w \in Found : HadIt(p, w)' <=> HadIt(p, w)
    BY <1>i DEF HadIt
  <1>2. CASE pr'[p].pc = "t.sync" /\ IntoBin(Head(t.todo), t.k)
    <2>1. home[a] # Nil /\ home' = [home EXCEPT ![a] = Nil] /\ bin' = [bin EXCEPT ![k] = home[a]]
      BY ZenonT(30), <1>2, <1>h, <1>k DEF IntoBin
    <2>2. bin'[k] = home[a] /\ \A j \in Slot \ {k} : bin'[j] = bin[j]
      BY Zenon, <2>1, <1>a
    <2>3. /\ Planned(p)' /\ home'[a] = Nil
          /\ \A w \in Found : w.at # a /\ AtHome(w) => AtHome(w)'
          /\ \A w \in Found : Listed(pr[p].done, 1, w) => Listed(pr[p].done, 1, w)'
      BY ZenonT(30), <2>1, <2>2, <1>m
    <2>4. Located(p)'
      BY ZenonT(30), <1>2, <1>i, <1>k, <1>h, <1>d, <2>1, <2>2, <2>3 DEF Located
    <2>6. \A w \in Found : w.at = a /\ AtHome(w) => w.file = home[a]
      BY Zenon DEF AtHome
    <2>5. Covered(p)'
      BY ZenonT(30), <1>2, <1>a, <1>p, <1>i, <1>k, <1>h, <1>t, <2>2, <2>3, <2>6 DEF Covered, Whereabouts
    <2> QED BY ZenonT(30), <1>2, <1>p, <1>i, <2>3, <2>4, <2>5 DEF WholeInv, TrashPcs, UndoPcs
  <1>3. CASE pr'[p].pc = "t.land" /\ IntoStage(Head(t.todo), Pid[p]) /\ pr'[p].target = home[Head(t.todo)]
    <2>1. home[a] # Nil /\ home' = [home EXCEPT ![a] = Nil] /\ bin' = bin /\ home[a] \in stage'[Pid[p]]
      BY ZenonT(30), <1>3, <1>h, <1>a DEF IntoStage
    <2>3. /\ Planned(p)' /\ home'[a] = Nil
          /\ \A w \in Found : w.at # a /\ AtHome(w) => AtHome(w)'
          /\ \A w \in Found : Listed(pr[p].done, 1, w) => Listed(pr[p].done, 1, w)'
      BY ZenonT(30), <2>1, <1>m
    <2>4. Located(p)'
      BY ZenonT(30), <1>3, <1>i, <1>k, <1>h, <2>1, <2>3 DEF Located
    <2>6. \A w \in Found : w.at = a /\ AtHome(w) => w.file = home[a]
      BY DEF AtHome
    <2>5. Covered(p)'
      BY ZenonT(30), <1>3, <1>a, <1>p, <1>i, <1>h, <1>t, <2>3, <2>6 DEF Covered, Whereabouts
    <2> QED BY ZenonT(30), <1>3, <1>p, <1>i, <2>3, <2>4, <2>5 DEF WholeInv, TrashPcs, UndoPcs
  <1> QED BY <1>1, <1>2, <1>3 DEF MoveStep

LEMMA WholeLand ==
  ASSUME Typed, NEW p \in Proc, pr[p].op = "trash", KeepsWork(p), WholeInv(p), LandStep(p)
  PROVE  WholeInv(p)'
  <1> DEFINE t == pr[p]
             d == pr[p].done
  <1>a. d \in Seq(Item) /\ t.pc = "t.land" /\ bin \in [Slot -> File \cup {Nil}]
    BY Zenon, ThreadFields DEF Typed, LandStep
  <1>p. Planned(p) /\ Located(p) /\ Covered(p) /\ t.ops # 0
    BY Zenon, <1>a DEF WholeInv, TrashPcs
  <1>i. pr'[p].k = t.k /\ pr'[p].todo = t.todo /\ pr'[p].done = d /\ pr'[p].had = t.had /\ pr'[p].ops = t.ops
    BY Zenon DEF LandStep, OnItem, KeepsItem, KeepsWork
  <1>k. PICK k \in Slot : k = t.k /\ bin[k] = Nil
    BY ZenonT(30), <1>a, <1>p, ThreadFields DEF Located
  <1>1. pr'[p].pc = "t.sync" /\ home' = home /\ bin' = [bin EXCEPT ![k] = t.target] /\ t.target # Nil
    <2>1. pr'[p].pc = "t.sync" /\ home' = home /\ FromStage(t.target, Pid[p], k)
      BY ZenonT(30), <1>a, <1>p, <1>k DEF LandStep, Located
    <2>2. t.target \in File
      BY Zenon, <1>a, ThreadFields DEF Knows
    <2> QED BY ZenonT(30), <2>1, <2>2, NilAssumption DEF FromStage
  <1>2. bin'[k] = t.target /\ \A j \in Slot \ {k} : bin'[j] = bin[j]
    BY Zenon, <1>1, <1>a
  <1>d. \A j \in 1..Len(d) : d[j].k # k /\ bin'[d[j].k] = bin[d[j].k]
    <2> TAKE j \in 1..Len(d)
    <2>1. d[j] \in Item
      BY Zenon, <1>a, ElementOfSeq
    <2>2. d[j].k \in Slot
      BY Zenon, <2>1 DEF Item
    <2>3. bin[d[j].k] # Nil
      BY Zenon, <1>p DEF Planned, Ready
    <2> QED BY ZenonT(30), <2>2, <2>3, <1>k, <1>2
  <1>3. Planned(p)'
    <2>1. Ready(d, 1)
      BY Zenon, <1>p DEF Planned
    <2>2. Ready(pr[p].done, 1)'
      <3>1. \A j \in 1..Len(d) :
              /\ bin'[d[j].k] # Nil /\ home'[d[j].place] = Nil
              /\ \A i \in 1..Len(d) : i # j => d[i].k # d[j].k /\ d[i].place # d[j].place
        BY <2>1, <1>d, <1>1 DEF Ready
      <3> QED BY <3>1, <1>i DEF Ready
    <2> QED BY <2>2, <1>p, <1>i DEF Planned
  <1>4. Located(p)'
    BY SMTT(30), <1>a, <1>p, <1>i, <1>k, <1>d, <1>1, <1>2 DEF Located
  <1>5. Covered(p)'
    <2>1. \A w \in Found : (HadIt(p, w)' <=> HadIt(p, w)) /\ (AtHome(w)' <=> AtHome(w))
      BY Zenon, <1>i, <1>1 DEF HadIt, AtHome
    <2>2. \A w \in Found : Listed(pr[p].done, 1, w) => Listed(pr[p].done, 1, w)'
      BY Zenon, <1>i, <1>d DEF Listed
    <2> QED BY ZenonT(30), <1>a, <1>p, <1>i, <1>k, <1>1, <1>2, <2>1, <2>2 DEF Covered, Whereabouts
  <1> QED BY ZenonT(30), <1>p, <1>i, <1>1, <1>3, <1>4, <1>5 DEF WholeInv, TrashPcs, UndoPcs

LEMMA WholeSync ==
  ASSUME Typed, NEW p \in Proc, pr[p].op = "trash", ~Has("sync"), KeepsWork(p), WholeInv(p), SyncStep(p)
  PROVE  WholeInv(p)'
  <1> DEFINE t == pr[p]
  <1>a. t.done \in Seq(Item) /\ t.pc = "t.sync" /\ t.todo \in Seq(Place) /\ t.k \in Slot /\ Knows(t)
    BY Zenon, ThreadFields DEF SyncStep
  <1>p. Planned(p) /\ Located(p) /\ Covered(p) /\ t.ops # 0
    BY Zenon, <1>a DEF WholeInv, TrashPcs
  <1>d. PICK d \in Seq(Item), td \in Seq(Place) :
          /\ d = t.done /\ td = t.todo
          /\ \A i, j \in 1..Len(td) : td[i] = td[j] => i = j
          /\ \A i \in 1..Len(d), j \in 1..Len(td) : d[i].place # td[j]
          /\ \A j \in 1..Len(d) : bin[d[j].k] # Nil /\ home[d[j].place] = Nil /\ d[j].k # t.k
          /\ \A i, j \in 1..Len(d) : i # j => d[i].k # d[j].k /\ d[i].place # d[j].place
    BY ZenonT(30), <1>a, <1>p DEF Planned, Ready, Located
  <1>i. pr'[p].had = t.had /\ pr'[p].ops = t.ops /\ home' = home /\ bin' = bin
    BY Zenon DEF SyncStep, KeepsWork
  <1>h. Head(td) \in Place /\ td[1] = Head(td) /\ Len(td) \in Nat \ {0} /\ td # <<>>
    <2>1. td # <<>>
      BY Zenon, <1>a, <1>d DEF Knows, TrashPcs
    <2> QED BY <2>1, HeadTail
  <1>1. CASE Ends(p, "ok")
    BY ZenonT(30), <1>1, <1>p, <1>i DEF Ends, WholeInv, TrashPcs, UndoPcs, Stopped
  <1>2. CASE /\ Len(t.todo) > 1 /\ pr'[p].pc = "t.meta" /\ pr'[p].todo = Tail(t.todo)
             /\ pr'[p].done = Append(t.done, [place |-> Head(t.todo), k |-> t.k])
    <2>x. PICK x \in Item : x = [place |-> Head(td), k |-> t.k] /\ x.k = t.k /\ x.place = td[1]
      <3> DEFINE x == [place |-> Head(td), k |-> t.k]
      <3>1. x.k = t.k /\ x.place = Head(td)
        OBVIOUS
      <3>2. x \in Item
        BY ZenonT(30), <1>a, <1>h DEF Item
      <3> HIDE DEF x
      <3>3. x.k = t.k /\ x.place = td[1] /\ x = [place |-> Head(td), k |-> t.k]
        BY ZenonT(30), <1>h, <3>1 DEF x
      <3> QED BY <3>2, <3>3, Zenon
    <2>0. /\ Append(d, x) \in Seq(Item) /\ Len(Append(d, x)) = Len(d) + 1 /\ Len(d) \in Nat
          /\ \A i \in 1..Len(d) : Append(d, x)[i] = d[i]
          /\ Append(d, x)[Len(d) + 1] = x
      BY AppendTyped
    <2>1. PICK e \in Seq(Item) : /\ e = pr'[p].done /\ Len(e) = Len(d) + 1 /\ Len(d) \in Nat
                                 /\ \A i \in 1..Len(d) : e[i] = d[i]
                                 /\ e[Len(d) + 1] = x
      <3>1. pr'[p].done = Append(d, x)
        BY <1>2, <1>d, <2>x
      <3> QED BY ZenonT(30), <2>0, <3>1
    <2>2. PICK u \in Seq(Place) : u = pr'[p].todo /\ \A i \in 1..Len(u) : u[i] = td[i + 1] /\ i + 1 \in 1..Len(td)
      <3>1. pr'[p].todo = Tail(td) /\ Tail(td) \in Seq(Place)
        BY <1>2, <1>d, <1>h, HeadTail
      <3> QED BY ZenonT(30), <3>1, <1>h, TailElements
    <2>3. bin[x.k] # Nil /\ home[x.place] = Nil
      BY ZenonT(30), <1>a, <1>d, <1>h, <1>p, <2>x DEF Located
    <2>4. \A i \in 1..Len(d) : d[i].k # x.k /\ d[i].place # x.place
      BY SMTT(30), <1>d, <1>h, <2>x
    <2>l. \A i \in 1..Len(e) : i \in 1..Len(d) \/ i = Len(d) + 1
      BY SMTT(30), <2>1
    <2>5. \A i \in 1..Len(e) : bin[e[i].k] # Nil /\ home[e[i].place] = Nil
      <3> TAKE i \in 1..Len(e)
      <3>1. CASE i \in 1..Len(d)
        <4>1. e[i] = d[i]
          BY Zenon, <3>1, <2>1
        <4>2. bin[d[i].k] # Nil /\ home[d[i].place] = Nil
          BY ZenonT(30), <3>1, <1>d
        <4> QED BY Zenon, <4>1, <4>2
      <3>2. CASE i = Len(d) + 1
        BY ZenonT(30), <3>2, <2>1, <2>3
      <3> QED BY Zenon, <3>1, <3>2, <2>l
    <2>6. \A i, j \in 1..Len(e) : i # j => e[i].k # e[j].k /\ e[i].place # e[j].place
      <3> SUFFICES ASSUME NEW i \in 1..Len(e), NEW j \in 1..Len(e), i # j
                   PROVE  e[i].k # e[j].k /\ e[i].place # e[j].place
        OBVIOUS
      <3>1. CASE i \in 1..Len(d) /\ j \in 1..Len(d)
        <4>1. e[i] = d[i] /\ e[j] = d[j]
          BY ZenonT(30), <3>1, <2>1
        <4>2. d[i].k # d[j].k /\ d[i].place # d[j].place
          BY ZenonT(30), <3>1, <1>d
        <4> QED BY ZenonT(30), <4>1, <4>2
      <3>2. CASE i = Len(d) + 1 /\ j \in 1..Len(d)
        BY ZenonT(30), <3>2, <2>1, <2>4
      <3>3. CASE j = Len(d) + 1 /\ i \in 1..Len(d)
        BY ZenonT(30), <3>3, <2>1, <2>4
      <3> QED BY ZenonT(30), <3>1, <3>2, <3>3, <2>l
    <2>7. Ready(pr[p].done, 1)'
      BY ZenonT(30), <1>i, <2>1, <2>5, <2>6 DEF Ready
    <2>8. \A i, j \in 1..Len(u) : u[i] = u[j] => i = j
      <3> SUFFICES ASSUME NEW i \in 1..Len(u), NEW j \in 1..Len(u), u[i] = u[j] PROVE i = j
        BY Zenon
      <3>1. td[i + 1] = td[j + 1] /\ i + 1 \in 1..Len(td) /\ j + 1 \in 1..Len(td)
        BY Zenon, <2>2
      <3>2. i + 1 = j + 1
        BY ZenonT(30), <1>d, <3>1
      <3> QED BY <3>2
    <2>9. \A i \in 1..Len(e), j \in 1..Len(u) : e[i].place # u[j]
      <3> SUFFICES ASSUME NEW i \in 1..Len(e), NEW j \in 1..Len(u) PROVE e[i].place # u[j]
        OBVIOUS
      <3>1. u[j] = td[j + 1] /\ j + 1 \in 1..Len(td) /\ j + 1 # 1 /\ 1 \in 1..Len(td)
        BY <2>2, <1>h
      <3>2. CASE i \in 1..Len(d)
        <4>1. e[i] = d[i]
          BY Zenon, <3>2, <2>1
        <4>2. d[i].place # td[j + 1]
          BY Zenon, <3>1, <3>2, <1>d
        <4> QED BY Zenon, <3>1, <4>1, <4>2
      <3>3. CASE i = Len(d) + 1
        BY SMTT(30), <3>1, <3>3, <1>d, <2>1, <2>x
      <3> QED BY ZenonT(30), <3>2, <3>3, <2>l
    <2>10. Planned(p)'
      BY Zenon, <2>1, <2>2, <2>7, <2>8, <2>9 DEF Planned
    <2>11. Located(p)'
      BY <1>2 DEF Located
    <2>12. Covered(p)'
      <3>1. \A w \in Found : (HadIt(p, w)' <=> HadIt(p, w)) /\ (AtHome(w)' <=> AtHome(w))
        BY Zenon, <1>i DEF HadIt, AtHome
      <3>2. \A w \in Found : Listed(pr[p].done, 1, w) \/ (bin[t.k] = w.file /\ Head(t.todo) = w.at) => Listed(pr[p].done, 1, w)'
        <4> SUFFICES ASSUME NEW w \in Found, Listed(pr[p].done, 1, w) \/ (bin[t.k] = w.file /\ Head(t.todo) = w.at)
                     PROVE  \E j \in 1..Len(e) : (bin[e[j].k] = w.file /\ e[j].place = w.at)
          BY ZenonT(30), <1>i, <2>1 DEF Listed
        <4>1. CASE \E j \in 1..Len(d) : (bin[d[j].k] = w.file /\ d[j].place = w.at)
          <5>1. PICK j \in 1..Len(d) : (bin[d[j].k] = w.file /\ d[j].place = w.at)
            BY Zenon, <4>1
          <5>2. j \in 1..Len(e) /\ e[j] = d[j]
            BY <2>1
          <5> QED BY ZenonT(30), <5>1, <5>2
        <4>2. CASE (bin[t.k] = w.file /\ Head(t.todo) = w.at)
          <5>1. Len(d) + 1 \in 1..Len(e) /\ e[Len(d) + 1].k = t.k /\ e[Len(d) + 1].place = Head(t.todo)
            <6>1. Head(t.todo) = td[1]
              BY Zenon, <1>d, <1>h
            <6> QED BY SMTT(30), <6>1, <2>1, <2>x
          <5> QED BY Zenon, <4>2, <5>1
        <4> QED BY ZenonT(30), <1>d, <4>1, <4>2 DEF Listed
      <3> QED BY Zenon, <1>a, <1>p, <3>1, <3>2 DEF Covered, Whereabouts
    <2> QED BY ZenonT(30), <1>2, <1>p, <1>i, <2>10, <2>11, <2>12 DEF WholeInv, TrashPcs, UndoPcs
  <1> QED BY ZenonT(30), <1>1, <1>2 DEF SyncStep

LEMMA WholeTrash ==
  ASSUME Typed, NEW p \in Proc, pr[p].op = "trash", ~Has("sync"), KeepsWork(p), WholeInv(p),
         \/ MetaStep(p) \/ InfoStep(p) \/ LookStep(p) \/ DropStep(p) \/ WriteStep(p)
         \/ MoveStep(p) \/ LandStep(p) \/ SyncStep(p) \/ BackStep(p)
  PROVE  WholeInv(p)'
  <1>p. pr[p].pc \in TrashPcs => Planned(p) /\ Located(p) /\ Covered(p) /\ pr[p].ops # 0
    BY Zenon DEF WholeInv
  <1>1. CASE MetaStep(p)
    <2>1. UNCHANGED <<home, bin>> /\ pr[p].pc = "t.meta" /\ (PutsBack(p) \/ (pr'[p].pc = "t.info" /\ KeepsItem(p)))
      BY Zenon, <1>1 DEF MetaStep, Rest
    <2> QED BY ZenonT(30), <1>p, <2>1, WholePutsBack, WholeQuiet DEF TrashPcs
  <1>2. CASE InfoStep(p) \/ DropStep(p)
    <2>1. /\ UNCHANGED <<home, bin>> /\ pr[p].pc \in {"t.info", "t.drop"} /\ KeepsItem(p)
          /\ pr'[p].pc \in {"t.info", "t.look"}
      BY Zenon, <1>2 DEF InfoStep, DropStep
    <2> QED BY ZenonT(30), <1>p, <2>1, WholeQuiet DEF TrashPcs
  <1>3. CASE LookStep(p)
    <2>1. /\ UNCHANGED <<home, bin>> /\ pr[p].pc = "t.look" /\ KeepsItem(p) /\ pr'[p].k = pr[p].k
          /\ pr'[p].pc = "t.drop" \/ (pr'[p].pc = "t.write" /\ bin[pr[p].k] = Nil)
      BY Zenon, <1>3 DEF LookStep, Rest, OnItem
    <2> QED BY ZenonT(30), <1>p, <2>1, WholeQuiet DEF TrashPcs
  <1>4. CASE WriteStep(p)
    <2>1. /\ UNCHANGED <<home, bin>> /\ pr[p].pc = "t.write" /\ KeepsItem(p) /\ pr'[p].k = pr[p].k
          /\ pr'[p].pc = "t.move"
      BY Zenon, <1>4 DEF WriteStep, OnItem
    <2> QED BY ZenonT(30), <1>p, <2>1, WholeQuiet DEF TrashPcs, Located
  <1>5. CASE BackStep(p)
    <2>1. UNCHANGED <<home, bin>> /\ pr[p].pc = "t.back" /\ PutsBack(p)
      BY <1>5 DEF BackStep
    <2> QED BY ZenonT(30), <1>p, <2>1, WholePutsBack DEF TrashPcs
  <1> QED BY Zenon, <1>1, <1>2, <1>3, <1>4, <1>5, WholeMove, WholeLand, WholeSync

LEMMA WholeUndo ==
  ASSUME Typed, NEW p \in Proc, pr[p].op = "trash", KeepsWork(p), WholeInv(p),
         UndoCheckStep(p) \/ UndoMoveStep(p) \/ UndoInfoStep(p)
  PROVE  WholeInv(p)'
  <1> DEFINE t == pr[p]
  <1>a. /\ t.pc \in UndoPcs /\ Knows(t)
        /\ home \in [Spot -> File \cup {Nil}] /\ bin \in [Slot -> File \cup {Nil}]
    BY Zenon, ThreadFields DEF Typed, UndoCheckStep, UndoMoveStep, UndoInfoStep, UndoPcs
  <1>l. PICK l \in Seq(Item) : l = t.list /\ Len(l) \in Nat
    BY SMTT(30), <1>a DEF Knows
  <1>b. \A j \in 1..Len(l) : l[j].place \in Spot /\ l[j].k \in Slot
    <2> TAKE j \in 1..Len(l)
    <2>1. l[j] \in Item
      BY Zenon, ElementOfSeq
    <2> QED BY <2>1 DEF Item, Spot
  <1>w. t.ops # 0 /\ pr'[p].ops = t.ops /\ pr'[p].had = t.had
    BY DEF WholeInv, KeepsWork
  <1>h. \A w \in Found : HadIt(p, w)' <=> HadIt(p, w)
    BY Zenon, <1>w DEF HadIt
  <1>r. t.pc \in {"u.check", "u.move"} =>
          /\ t.res = "failed"
          /\ \A j \in 1..Len(l) : bin[l[j].k] # Nil /\ home[l[j].place] = Nil
          /\ \A i, j \in 1..Len(l) : i # j => l[i].k # l[j].k /\ l[i].place # l[j].place
          /\ \A w \in Found : HadIt(p, w) => AtHome(w) \/ \E j \in 1..Len(l) : (bin[l[j].k] = w.file /\ l[j].place = w.at)
    BY ZenonT(30), <1>l DEF WholeInv, Behind, Ready, Listed
  <1>1. CASE UndoCheckStep(p)
    <2>1. t.pc = "u.check" /\ home' = home /\ bin' = bin
      BY Zenon, <1>1 DEF UndoCheckStep, Rest
    <2>2. ~ \E i \in DOMAIN t.list : home[t.list[i].place] # Nil
      <3>1. \A j \in 1..Len(l) : home[l[j].place] = Nil
        BY Zenon, <2>1, <1>r
      <3> QED BY <3>1, <1>l
    <2>3. pr'[p].pc = "u.move" /\ pr'[p].list = t.list /\ pr'[p].res = t.res
      BY Zenon, <1>1, <2>2 DEF UndoCheckStep
    <2>4. Behind(p, 1)
      BY Zenon, <2>1 DEF WholeInv
    <2>5. \A w \in Found : AtHome(w)' <=> AtHome(w)
      BY Zenon, <2>1 DEF AtHome
    <2>6. \A w \in Found : Listed(pr[p].list, 1, w)' <=> Listed(pr[p].list, 1, w)
      BY Zenon, <2>1, <2>3 DEF Listed
    <2>7. Ready(pr[p].list, 1)'
      BY SMTT(30), <2>1, <2>3, <2>4 DEF Behind, Ready
    <2>8. Behind(p, 1)'
      BY Zenon, <1>h, <2>3, <2>4, <2>5, <2>6, <2>7 DEF Behind
    <2> QED BY ZenonT(30), <1>w, <2>3, <2>8 DEF WholeInv, TrashPcs, UndoPcs
  <1>2. CASE UndoMoveStep(p)
    <2>1. t.pc = "u.move"
      BY Zenon, <1>2 DEF UndoMoveStep
    <2>2. CASE t.list = <<>>
      <3>1. Ends(p, t.res) /\ home' = home
        BY Zenon, <1>2, <2>2 DEF UndoMoveStep
      <3>2. Len(l) = 0
        BY Zenon, <1>l, <2>2
      <3>3. \A w \in Found : HadIt(p, w) => AtHome(w)
        BY SMTT(30), <1>r, <2>1, <3>2
      <3>4. \A w \in Found : AtHome(w)' <=> AtHome(w)
        BY Zenon, <3>1 DEF AtHome
      <3> QED BY Zenon, <1>w, <1>h, <3>1, <3>3, <3>4 DEF Ends, WholeInv, TrashPcs, UndoPcs, Stopped
    <2>3. CASE t.list # <<>>
      <3>1. 1 \in 1..Len(l) /\ l[1] = Head(t.list)
        BY SMTT(30), <1>l, <2>3, HeadTail
      <3>2. PICK k \in Slot, a \in Spot : k = l[1].k /\ a = l[1].place /\ bin[k] # Nil /\ home[a] = Nil
        BY Zenon, <1>r, <1>b, <2>1, <3>1
      <3>3. pr'[p].pc = "u.info" /\ pr'[p].list = l /\ pr'[p].res = t.res /\ FromBin(k, a)
        BY Zenon, <1>2, <1>l, <2>3, <3>1, <3>2 DEF UndoMoveStep
      <3>4. /\ home'[a] = bin[k] /\ \A b \in Spot \ {a} : home'[b] = home[b]
            /\ \A j \in Slot \ {k} : bin'[j] = bin[j]
        BY ZenonT(30), <1>a, <3>3 DEF FromBin
      <3>5. \A j \in 2..Len(l) : j \in 1..Len(l) /\ j # 1
        BY SMTT(30), <1>l
      <3>6. \A j \in 2..Len(l) : bin'[l[j].k] = bin[l[j].k] /\ home'[l[j].place] = home[l[j].place]
        BY ZenonT(30), <1>b, <1>r, <2>1, <3>1, <3>2, <3>4, <3>5
      <3>7. Ready(pr[p].list, 2)'
        BY SMTT(30), <1>r, <2>1, <3>3, <3>5, <3>6 DEF Ready
      <3>8. \A w \in Found : HadIt(p, w) => AtHome(w)' \/ Listed(pr[p].list, 2, w)'
        <4> SUFFICES ASSUME NEW w \in Found, HadIt(p, w)
                     PROVE  home'[w.at] = w.file \/ \E j \in 2..Len(l) : (bin'[l[j].k] = w.file /\ l[j].place = w.at)
          BY Zenon, <3>3 DEF AtHome, Listed
        <4>0. w.at \in Spot /\ w.file # Nil
          BY Zenon, NilAssumption DEF Found, Spot
        <4>1. CASE AtHome(w)
          BY Zenon, <4>0, <4>1, <3>2, <3>4 DEF AtHome
        <4>2. CASE \E j \in 1..Len(l) : (bin[l[j].k] = w.file /\ l[j].place = w.at)
          <5>1. PICK j \in 1..Len(l) : (bin[l[j].k] = w.file /\ l[j].place = w.at)
            BY Zenon, <4>2
          <5>2. CASE j = 1
            BY ZenonT(30), <5>1, <5>2, <3>2, <3>4
          <5>3. CASE j # 1
            <6>1. j \in 2..Len(l)
              BY SMTT(30), <5>3, <1>l
            <6> QED BY ZenonT(30), <5>1, <6>1, <3>6
          <5> QED BY Zenon, <5>2, <5>3
        <4> QED BY Zenon, <1>r, <2>1, <4>1, <4>2
      <3>9. Behind(p, 2)'
        BY ZenonT(30), <1>h, <1>r, <2>1, <3>3, <3>7, <3>8 DEF Behind
      <3> QED BY Zenon, <1>w, <3>3, <3>9 DEF WholeInv, TrashPcs, UndoPcs
    <2> QED BY Zenon, <2>2, <2>3
  <1>3. CASE UndoInfoStep(p)
    <2>1. t.pc = "u.info" /\ home' = home /\ bin' = bin /\ pr'[p].pc = "u.move" /\ pr'[p].list = Tail(l) /\ pr'[p].res = t.res
      BY Zenon, <1>3, <1>l DEF UndoInfoStep
    <2>2. l # <<>>
      BY ZenonT(30), <1>a, <1>l, <2>1 DEF Knows
    <2>3. PICK m \in Seq(Item) : /\ m = pr'[p].list /\ Len(m) = Len(l) - 1 /\ Len(m) \in Nat
                                 /\ \A i \in 1..Len(m) : m[i] = l[i + 1] /\ i + 1 \in 1..Len(l)
      <3>1. Tail(l) \in Seq(Item) /\ Len(Tail(l)) = Len(l) - 1 /\ Len(l) \in Nat \ {0}
        BY Zenon, <2>2, HeadTail
      <3>2. \A i \in 1..Len(Tail(l)) : Tail(l)[i] = l[i + 1] /\ i + 1 \in 1..Len(l)
        BY Zenon, <2>2, TailElements
      <3>3. Len(Tail(l)) \in Nat /\ Tail(l) = pr'[p].list
        BY SMTT(30), <2>1, <3>1
      <3> QED BY ZenonT(30), <3>1, <3>2, <3>3, Zenon
    <2>4. Behind(p, 2)
      BY Zenon, <2>1 DEF WholeInv
    <2>5. /\ t.res = "failed"
          /\ \A j \in 2..Len(l) : bin[l[j].k] # Nil /\ home[l[j].place] = Nil
          /\ \A i, j \in 2..Len(l) : i # j => l[i].k # l[j].k /\ l[i].place # l[j].place
          /\ \A w \in Found : HadIt(p, w) => AtHome(w) \/ \E j \in 2..Len(l) : (bin[l[j].k] = w.file /\ l[j].place = w.at)
      BY Zenon, <1>l, <2>4 DEF Behind, Ready, Listed
    <2>6. \A i \in 1..Len(m) : i + 1 \in 2..Len(l)
      BY SMTT(30), <1>l, <2>3
    <2>7. \A i \in 1..Len(m) : bin[m[i].k] # Nil /\ home[m[i].place] = Nil
      BY ZenonT(30), <2>3, <2>5, <2>6
    <2>8. \A i, j \in 1..Len(m) : i # j => m[i].k # m[j].k /\ m[i].place # m[j].place
      <3> SUFFICES ASSUME NEW i \in 1..Len(m), NEW j \in 1..Len(m), i # j
                   PROVE  m[i].k # m[j].k /\ m[i].place # m[j].place
        BY Zenon
      <3>1. i + 1 \in 2..Len(l) /\ j + 1 \in 2..Len(l) /\ i + 1 # j + 1 /\ m[i] = l[i + 1] /\ m[j] = l[j + 1]
        BY SMTT(30), <2>3, <2>6
      <3> QED BY Zenon, <2>5, <3>1
    <2>9. Ready(pr[p].list, 1)'
      BY ZenonT(30), <2>1, <2>3, <2>7, <2>8 DEF Ready
    <2>10. \A w \in Found : HadIt(p, w) => AtHome(w) \/ \E i \in 1..Len(m) : (bin[m[i].k] = w.file /\ m[i].place = w.at)
      <3> SUFFICES ASSUME NEW w \in Found, NEW j \in 2..Len(l), (bin[l[j].k] = w.file /\ l[j].place = w.at)
                   PROVE  \E i \in 1..Len(m) : (bin[m[i].k] = w.file /\ m[i].place = w.at)
        BY Zenon, <2>5
      <3>1. PICK i \in 1..Len(m) : j = i + 1
        <4>1. j - 1 \in 1..Len(m) /\ j = (j - 1) + 1
          BY SMTT(30), <1>l, <2>3
        <4> QED BY Zenon, <4>1
      <3>2. m[i].k = l[j].k /\ m[i].place = l[j].place
        BY Zenon, <2>3, <3>1
      <3> QED BY Zenon, <3>2
    <2>11. \A w \in Found : HadIt(p, w)' => AtHome(w)' \/ Listed(pr[p].list, 1, w)'
      <3>1. \A w \in Found : AtHome(w)' <=> AtHome(w)
        BY Zenon, <2>1 DEF AtHome
      <3>2. \A w \in Found : (\E i \in 1..Len(m) : (bin[m[i].k] = w.file /\ m[i].place = w.at)) => Listed(pr[p].list, 1, w)'
        BY Zenon, <2>1, <2>3 DEF Listed
      <3> QED BY Zenon, <1>h, <2>10, <3>1, <3>2
    <2>12. Behind(p, 1)'
      BY Zenon, <2>1, <2>5, <2>9, <2>11 DEF Behind
    <2> QED BY ZenonT(30), <1>w, <2>1, <2>12 DEF WholeInv, TrashPcs, UndoPcs
  <1> QED BY ZenonT(30), <1>1, <1>2, <1>3

LEMMA WholeBegin ==
  ASSUME Typed, Has("alone"), NEW p \in Proc, BeginStep(p), pr'[p].ops # 0
  PROVE  WholeInv(p)'
  <1>1. CASE pr'[p].op # "trash"
    BY Zenon, <1>1 DEF WholeInv
  <1>2. CASE pr'[p].op = "trash"
    <2>1. /\ pr'[p].pc = "t.meta" /\ pr'[p].done = <<>> /\ pr'[p].todo \in Todos
          /\ pr'[p].had = Had(pr'[p].todo) /\ home' = home
      BY Zenon, <1>2 DEF BeginStep
    <2>2. PICK td \in Todos : td = pr'[p].todo /\ td \in Seq(Place) /\ \A i, j \in 1..Len(td) : td[i] = td[j] => i = j
      BY Zenon, <2>1, TodosTyped
    <2>3. Planned(p)'
      <3>1. Len(pr'[p].done) = 0
        BY SMTT(30), <2>1
      <3> QED BY <2>2, <3>1 DEF Planned, Ready
    <2>4. Located(p)'
      BY Zenon, <2>1 DEF Located
    <2>5. Covered(p)'
      <3> SUFFICES ASSUME NEW w \in Found, HadIt(p, w)'
                   PROVE  AtHome(w)'
        BY DEF Covered, Whereabouts
      <3> QED BY Zenon, <2>1 DEF HadIt, Had, AtHome
    <2> QED BY ZenonT(30), <2>1, <2>3, <2>4, <2>5 DEF WholeInv, TrashPcs, UndoPcs
  <1> QED BY Zenon, <1>1, <1>2

\* Nobody else is at work, and no synchronising fails.
Unharmed == Has("alone") /\ env \cap {"sync", "other"} = {}
AllInv == Unharmed => \A p \in Proc : WholeInv(p)

LEMMA AllNext ==
  ASSUME Typed, AloneInv, Unharmed, \A p \in Proc : WholeInv(p), [Next]_vars
  PROVE  \A p \in Proc : WholeInv(p)'
  <1>e. Has("alone") /\ ~Has("sync") /\ ~Has("other")
    BY Zenon DEF Unharmed, Has
  <1>0. ASSUME NEW q \in Proc, pr'[q] = pr[q], UNCHANGED <<home, bin, stage>>
        PROVE  WholeInv(q)'
    <2>1. Planned(q)' <=> Planned(q)
      BY SMTT(30), <1>0 DEF Planned, Ready
    <2>2. Located(q)' <=> Located(q)
      BY Zenon, <1>0 DEF Located
    <2>3. \A w \in Found : (HadIt(q, w)' <=> HadIt(q, w)) /\ (AtHome(w)' <=> AtHome(w))
      BY Zenon, <1>0 DEF HadIt, AtHome
    <2>4. Covered(q)' <=> Covered(q)
      BY Zenon, <1>0, <2>3 DEF Covered, Whereabouts, Listed
    <2>5. (Behind(q, 1)' <=> Behind(q, 1)) /\ (Behind(q, 2)' <=> Behind(q, 2))
      <3>1. \A lo \in {1, 2} : Ready(pr[q].list, lo)' <=> Ready(pr[q].list, lo)
        BY <1>0 DEF Ready
      <3>2. \A lo \in {1, 2}, w \in Found : Listed(pr[q].list, lo, w)' <=> Listed(pr[q].list, lo, w)
        BY Zenon, <1>0 DEF Listed
      <3> QED BY Zenon, <1>0, <2>3, <3>1, <3>2 DEF Behind
    <2> QED BY Zenon, <1>0, <2>1, <2>2, <2>3, <2>4, <2>5 DEF WholeInv
  <1>1. CASE UNCHANGED vars
    BY Zenon, <1>0, <1>1 DEF vars
  <1>2. CASE Killed
    <2>1. UNCHANGED <<home, bin, stage>> /\ \A q \in Proc : pr'[q] = pr[q] \/ (pr'[q].pc = "dead" /\ KeepsWork(q))
      BY Zenon, <1>2 DEF Killed, Rest
    <2>2. ASSUME NEW q \in Proc PROVE WholeInv(q)'
      <3>1. CASE pr'[q] = pr[q]
        BY Zenon, <2>1, <3>1, <1>0
      <3>2. CASE pr'[q].pc = "dead" /\ KeepsWork(q)
        BY Zenon, <3>2 DEF WholeInv, KeepsWork, TrashPcs, UndoPcs, Stopped
      <3> QED BY Zenon, <2>1, <3>1, <3>2
    <2> QED BY Zenon, <2>2
  <1>3. ASSUME NEW p \in Proc, NEW q \in Proc \ {p}, Others(p), pr[q].ops = 0
        PROVE  WholeInv(q)'
    <2>1. pr[q].op # "trash" /\ pr'[q] = pr[q]
      BY Zenon, <1>3 DEF WholeInv, Others
    <2> QED BY Zenon, <2>1 DEF WholeInv
  <1>4. ASSUME NEW p \in Proc, Others(p), \A q \in Proc \ {p} : pr[q].ops = 0, BeginStep(p)
        PROVE  \A q \in Proc : WholeInv(q)'
    <2>1. pr'[p].ops # 0
      <3>1. pr'[p].pc \notin Stopped
        BY Zenon, <1>4 DEF BeginStep, Stopped
      <3>2. Typed'
        BY Zenon, TypedNext
      <3>3. Knows(pr[p])'
        BY Zenon, <3>2 DEF Typed
      <3> QED BY Zenon, <3>1, <3>3 DEF Knows
    <2> QED BY SMTT(30), <1>3, <1>4, <1>e, <2>1, WholeBegin
  <1>5. ASSUME NEW p \in Proc, Others(p), KeepsWork(p), ThreadStep(p)
        PROVE  \A q \in Proc : WholeInv(q)'
    <2>1. pr[p].pc \notin Stopped
      BY Zenon, <1>5, EmptyingSteps
    <2>2. pr[p].ops # 0
      BY Zenon, <2>1 DEF Typed, Knows
    <2>3. \A q \in Proc \ {p} : pr[q].ops = 0
      BY Zenon, <1>e, <2>2 DEF AloneInv
    <2>4. WholeInv(p)'
      <3>1. CASE pr[p].op # "trash"
        BY Zenon, <1>5, <3>1 DEF WholeInv, KeepsWork
      <3>2. CASE pr[p].op = "trash"
        <4>1. pr[p].pc \in TrashPcs \cup UndoPcs
          BY Zenon, <2>1, <3>2 DEF WholeInv
        <4>2. ~RestoreLookStep(p) /\ ~RestoreMoveStep(p) /\ ~RestoreInfoStep(p)
          BY Zenon, <4>1 DEF RestoreLookStep, RestoreMoveStep, RestoreInfoStep, TrashPcs, UndoPcs
        <4>3. ~DeleteFileStep(p) /\ ~DeleteInfoStep(p) /\ ~EmptyInfoStep(p) /\ ~EmptyDeleteStep(p)
          BY Zenon, <4>1 DEF DeleteFileStep, DeleteInfoStep, EmptyInfoStep, EmptyDeleteStep, TrashPcs, UndoPcs
        <4> QED BY ZenonT(30), <1>5, <1>e, <3>2, <4>2, <4>3, WholeTrash, WholeUndo, Zenon DEF ThreadStep
      <3> QED BY Zenon, <3>1, <3>2
    <2> QED BY ZenonT(30), <1>3, <1>5, <2>3, <2>4
  <1> QED BY Zenon, <1>1, <1>2, <1>4, <1>5, <1>e, Steps, Zenon

\* AllOrNothing: "All or nothing" (trash.rs, trash_in): a call that fails has put every
\* file it took back where it was or never moved it, when nobody else is at work and
\* every sync answers; for calls on any number of files.
THEOREM FailedCallPutsBack == Spec => []AllOrNothing
  <1>1. Init => Typed /\ AloneInv /\ AllInv
    <2> SUFFICES ASSUME Init PROVE AllInv
      BY Zenon, InitTyped, InitBack
    <2>1. \A p \in Proc : pr[p].op = ""
      BY Zenon DEF Init, Idle
    <2> QED BY Zenon, <2>1 DEF AllInv, WholeInv
  <1>2. Typed /\ AloneInv /\ AllInv /\ [Next]_vars => (Typed /\ AloneInv /\ AllInv)'
    <2> SUFFICES ASSUME Typed, AloneInv, AllInv, [Next]_vars, Unharmed'
                 PROVE  (\A p \in Proc : WholeInv(p))'
      BY Zenon, TypedNext, AloneNext DEF AllInv
    <2>1. Unharmed
      BY Zenon, GuardedBefore DEF Unharmed, Has
    <2> QED BY Zenon, <2>1, AllNext DEF AllInv
  <1>3. Typed /\ AllInv => AllOrNothing
    <2> SUFFICES ASSUME Typed, AllInv, Unharmed, NEW p \in Proc,
                        pr[p].op = "trash", pr[p].pc = "idle", pr[p].res = "failed",
                        NEW w \in pr[p].had
                 PROVE  home[w.at] = w.file
      BY Zenon DEF AllOrNothing, Unharmed
    <2>1. w \in Found
      BY Zenon, ThreadFields
    <2> QED BY Zenon, <2>1 DEF AllInv, WholeInv, HadIt, AtHome
  <1> QED BY <1>1, <1>2, <1>3, PTL DEF Spec
===============================================================================
