------------------------------- MODULE Transfer -------------------------------
(***************************************************************************)
(* Copying and moving (crates/files/src/ops/transfer.rs with durable.rs).  *)
(* One thread, the walker, walks the sources; small files are copied by    *)
(* workers it feeds through a queue.  A move between drives copies,        *)
(* flushes, checks and only then removes, source by source.                *)
(*                                                                         *)
(* The recursion of place, replace, copy_node and copy_dir is the stack    *)
(* `stk' of what is still to do; an error unwinds it.  Every system call   *)
(* that changes a disk is a step of its own, so another program, a cancel  *)
(* or a power loss comes between any two.  A file's content is a version   *)
(* number; its length and time of change are that number too.              *)
(***************************************************************************)
EXTENDS Integers, Sequences, FiniteSets, SequencesExt

CONSTANTS
  Node,      \* what the selection holds, folders and their contents
  Kind,      \* of each node: "file", "big" (copied by the walker), "link", "dir"
  From,      \* of each node: the folder its root was selected in
  Path,      \* of each node: its path in that folder, a sequence of names
  Roots,     \* the selection, in order
  Workers,   \* how many files are copied at once
  Setups     \* the operations and environments to check, see SetupAssumption

Base(n) == Path[n][Len(Path[n])]
Below(n) == {m \in Node : From[m] = From[n] /\ IsPrefix(Path[n], Path[m])}
Children(n) == {m \in Below(n) : Len(Path[m]) = Len(Path[n]) + 1}

\* "cancel": the person cancels; "fail": any call may fail; "write": a source is
\* rewritten by another program; "other": another program makes a file in the
\* destination; "exdev": the drive refuses to rename; "crash": the power fails.
EnvChoices == {"cancel", "fail", "write", "other", "exdev", "crash"}
Modes == {"Copy", "Rename", "CopyDelete"}
ASSUME SetupAssumption ==
  \A s \in Setups :
    /\ s.mode \in Modes
    /\ s.policy \in {"Skip", "Replace", "KeepBoth", "Ask"}
    /\ s.level \in {"Lazy", "Device"}
    /\ s.env \subseteq EnvChoices
    /\ s.old \subseteq [path : Seq(STRING), k : {"file", "dir"}]
ASSUME TreeAssumption ==
  /\ \A i \in DOMAIN Roots : Roots[i] \in Node /\ Len(Path[Roots[i]]) = 1
  /\ \A n \in Node : Len(Path[n]) > 1 => \E d \in Node : Kind[d] = "dir" /\ n \in Children(d)

VARIABLES
  setup,     \* the operation and its environment; never changes
  src,       \* the sources: the version of each node, 0 when it is gone
  dst,       \* the destination: what each path holds, the paths there as its domain
  parts,     \* the .bingux-*.part files copies go to: [n, dir]
  aside,     \* the files put aside by replace: [target, old]
  stk,       \* what the walker still has to do, the next thing first
  err,       \* an error is on its way out of the walker
  res,       \* "run", then "ok" or "failed", or "down" when the power failed
  queue,     \* the channel of jobs
  active,    \* the jobs being copied
  failure,   \* Ctx.failure
  stop,      \* Ctx.stop
  cancel,    \* Ctx.cancel
  reserved,  \* Ctx.reserved
  journal,   \* Ctx.journal
  moving,    \* what finish_move took from the journal and is removing
  dirty,     \* Durable.dirty, the folders of the destination
  hist       \* what happened so far (not in the code)

disk == <<src, dst, parts, aside>>
walker == <<stk, err, res>>
pool == <<queue, active, failure, stop, reserved>>
ledger == <<journal, moving, dirty>>
vars == <<setup, disk, walker, pool, cancel, ledger, hist>>

Has(choice) == choice \in setup.env
Mode == setup.mode
\* Level::flushes of level_for(mode).
Flushes(mode) == setup.level = "Device" \/ mode = "CopyDelete"
\* Ctx::check.
Stopped == cancel \/ stop
Pending == Len(queue) + Cardinality({j \in active : ~j.own})

------------------------------------------------------------------------------
(* The destination.  A name is <<base, n>>: n is 0 for the name itself and *)
(* counts its "(copy)" names.  `named': the name survives a power loss;    *)
(* `synced': so does the data; `whole': what is read is all of it.         *)

Name(b) == <<b, 0>>
Exists(p) == p \in DOMAIN dst
IsDir(p) == Exists(p) /\ dst[p].k = "dir"
DirThere(d) == d = <<>> \/ IsDir(d)
Inside(d) == {p \in DOMAIN dst : IsPrefix(d, p)}
Put(f, p, r) == [q \in DOMAIN f \cup {p} |-> IF q = p THEN r ELSE f[q]]
Drop(f, ps) == [q \in DOMAIN f \ ps |-> f[q]]

Folder == [k |-> "dir", of |-> "new", ver |-> 0, synced |-> TRUE, named |-> FALSE,
           whole |-> TRUE, moved |-> FALSE]
Written(n, v, synced) == [Folder EXCEPT !.k = "file", !.of = n, !.ver = v, !.synced = synced]
Foreign(k, by) == [Folder EXCEPT !.k = k, !.of = by, !.ver = 1, !.named = TRUE]

\* unique_target: the name itself, else its first "(copy)" name that is free.
UniqueTarget(dir, b) ==
  LET at(i) == Append(dir, <<b, i>>)
      taken(i) == Exists(at(i)) \/ at(i) \in reserved
  IN at(CHOOSE i \in 0..(Cardinality(DOMAIN dst) + Cardinality(reserved)) :
          ~taken(i) /\ \A j \in 0..(i - 1) : taken(j))

------------------------------------------------------------------------------
(* The walker's stack.                                                     *)

PlaceFrame(n, dir, mode) == [k |-> "place", n |-> n, dir |-> dir, mode |-> mode]
\* transfer_node, and copy_node where that is what it comes to.
NodeFrame(n, target, mode, replace, meta) ==
  [k |-> IF mode = "Rename" THEN "rename" ELSE "node",
   n |-> n, target |-> target, mode |-> mode, replace |-> replace, meta |-> meta]
Frame(k) == [k |-> k]

\* with_workers ends, then finish_move.  Mutant: the sources go before the flush.
FinishMove_FlushesLast ==
  <<Frame("join"), Frame("verify"), Frame("remove"), Frame("flush")>>
FinishMove == <<Frame("join"), Frame("flush"), Frame("verify"), Frame("remove"), Frame("flush")>>

\* copy_in; move_in.  Mutant: a copy does not wait for its workers.
Program_NoJoin(mode) ==
  LET place(n) == <<PlaceFrame(n, <<>>, mode)>>
  IN IF mode = "CopyDelete"
     THEN FlattenSeq([i \in DOMAIN Roots |-> place(Roots[i]) \o FinishMove]) \o <<Frame("flush")>>
     ELSE FlattenSeq([i \in DOMAIN Roots |-> place(Roots[i])]) \o <<Frame("flush")>>
Program(mode) ==
  LET place(n) == <<PlaceFrame(n, <<>>, mode)>>
  IN CASE mode = "Copy" -> FlattenSeq([i \in DOMAIN Roots |-> place(Roots[i])])
                             \o <<Frame("join"), Frame("flush")>>
       [] mode = "Rename" -> FlattenSeq([i \in DOMAIN Roots |-> place(Roots[i])])
                               \o <<Frame("flush")>>
       [] OTHER -> FlattenSeq([i \in DOMAIN Roots |-> place(Roots[i]) \o FinishMove])
                     \o <<Frame("flush")>>

\* The children of a folder, in one order.
Kids(n, target, mode) ==
  LET kids == SetToSeq({m \in Children(n) : src[m] # 0})
  IN [i \in DOMAIN kids |-> PlaceFrame(kids[i], target, mode)]

At(k) == res = "run" /\ ~err /\ stk # <<>> /\ Head(stk).k = k
Continue(frames) == stk' = frames \o Tail(stk) /\ UNCHANGED <<err, res>>
Throw == stk' = Tail(stk) /\ err' = TRUE /\ UNCHANGED res

Init ==
  /\ setup \in Setups
  /\ src = [n \in Node |-> 1]
  /\ dst = [p \in {[i \in DOMAIN o.path |-> Name(o.path[i])] : o \in setup.old} |->
              Foreign((CHOOSE o \in setup.old : [i \in DOMAIN o.path |-> Name(o.path[i])] = p).k,
                      "old")]
  /\ parts = {} /\ aside = {}
  /\ stk = Program(setup.mode) /\ err = FALSE /\ res = "run"
  /\ queue = <<>> /\ active = {} /\ failure = FALSE /\ stop = FALSE /\ reserved = {}
  /\ cancel = FALSE
  /\ journal = <<>> /\ moving = <<>> /\ dirty = {}
  /\ hist = [skip |-> {}, sure |-> [n \in Node |-> 0], over |-> {}, broke |-> FALSE,
             dropped |-> FALSE]

------------------------------------------------------------------------------
(* The walker: place, replace, transfer_node, copy_node, copy_dir.         *)

Remember(f) ==
  journal' = IF f.mode = "CopyDelete"
             THEN Append(journal, [n |-> f.n, target |-> f.target, meta |-> f.meta])
             ELSE journal
\* name_added.
NameAdded(dirs, mode) == dirty' = IF Flushes(mode) THEN dirty \cup dirs ELSE dirty

\* rename_noreplace succeeds, or rename does: a file or link may be replaced, a
\* folder never.  Mutant: a plain rename, which replaces what has come meanwhile.
MayTake_Over(f) == ~IsDir(f.target)
MayTake(f) == \/ ~Exists(f.target)
              \/ f.replace /\ ~IsDir(f.target)

Answers == IF setup.policy = "Ask" THEN {"Skip", "Replace", "KeepBoth", "Cancel"}
           ELSE {setup.policy}

\* replace.
Replace(n, t, mode, meta) ==
  /\ hist' = [hist EXCEPT !.over = @ \cup {[path |-> t, of |-> dst[t].of]}]
  /\ IF Kind[n] = "dir" /\ IsDir(t)
     THEN /\ Continue(Kids(n, t, mode))
          /\ Remember(NodeFrame(n, t, mode, FALSE, meta))
          /\ UNCHANGED <<dst, aside>>
     ELSE IF Kind[n] # "dir" /\ IsDir(t)
     THEN Throw /\ UNCHANGED <<dst, aside, journal>>
     ELSE IF Kind[n] = "dir"
     THEN /\ aside' = aside \cup {[target |-> t, old |-> dst[t]]}
          /\ dst' = Drop(dst, {t})
          /\ Continue(<<NodeFrame(n, t, mode, FALSE, meta), [k |-> "aside", target |-> t]>>)
          /\ UNCHANGED journal
     ELSE /\ Continue(<<NodeFrame(n, t, mode, TRUE, meta)>>)
          /\ UNCHANGED <<dst, aside, journal>>

\* The second half of place: is the name taken, and what then.
Settle(n, dir, mode, meta) ==
  LET t == Append(dir, Name(Base(n)))
  IN /\ \/ /\ ~Exists(t)
           /\ Continue(<<NodeFrame(n, t, mode, FALSE, meta)>>)
           /\ UNCHANGED <<dst, aside, journal, hist>>
        \/ /\ Exists(t)
           /\ \E answer \in Answers :
                \/ /\ answer = "Skip"
                   /\ Continue(<<>>)
                   /\ hist' = [hist EXCEPT !.skip = @ \cup Below(n)]
                   /\ UNCHANGED <<dst, aside, journal>>
                \/ /\ answer = "KeepBoth"
                   /\ Continue(<<NodeFrame(n, UniqueTarget(dir, Base(n)), mode, FALSE, meta)>>)
                   /\ UNCHANGED <<dst, aside, journal, hist>>
                \/ answer = "Replace" /\ Replace(n, t, mode, meta)
                \/ answer = "Cancel" /\ Throw /\ UNCHANGED <<dst, aside, journal, hist>>
     /\ UNCHANGED <<setup, src, parts, pool, cancel, moving, dirty>>

\* place, up to the name: an item of this operation may be about to take it.
Place ==
  /\ At("place")
  /\ LET f == Head(stk)
     IN IF Stopped \/ src[f.n] = 0
        THEN Throw /\ UNCHANGED <<setup, disk, pool, cancel, ledger, hist>>
        ELSE IF Append(f.dir, Name(Base(f.n))) \in reserved
        THEN /\ Continue(<<[k |-> "drain", n |-> f.n, dir |-> f.dir, mode |-> f.mode, meta |-> src[f.n]]>>)
             /\ UNCHANGED <<setup, disk, pool, cancel, ledger, hist>>
        ELSE Settle(f.n, f.dir, f.mode, src[f.n])

\* drain, and the rest of place.
Drain ==
  /\ At("drain")
  /\ Pending = 0
  /\ IF Stopped THEN Throw /\ UNCHANGED <<setup, disk, pool, cancel, ledger, hist>>
     ELSE Settle(Head(stk).n, Head(stk).dir, Head(stk).mode, Head(stk).meta)

\* transfer_node in Mode::Rename, and replace of a file in that mode: the kernel
\* renames, or says EXDEV and the item is moved by copy.
Rename ==
  /\ At("rename")
  /\ LET f == Head(stk)
         free == DirThere(Front(f.target)) /\ MayTake(f)
         here(m) == f.target \o [i \in 1..(Len(Path[m]) - Len(Path[f.n])) |->
                                   Name(Path[m][Len(Path[f.n]) + i])]
         came == {m \in Below(f.n) : src[m] # 0}
         item(m) == [Written(m, src[m], TRUE)
                       EXCEPT !.k = IF Kind[m] = "dir" THEN "dir" ELSE "file", !.moved = TRUE]
     IN IF Has("exdev")
        THEN /\ Continue(<<NodeFrame(f.n, f.target, "CopyDelete", f.replace, f.meta)>> \o FinishMove)
             /\ UNCHANGED <<disk, dirty, hist>>
        ELSE IF free /\ src[f.n] # 0
        THEN /\ src' = [m \in Node |-> IF m \in came THEN 0 ELSE src[m]]
             /\ dst' = [p \in DOMAIN dst \cup {here(m) : m \in came} |->
                          IF \E m \in came : here(m) = p
                          THEN [item(CHOOSE m \in came : here(m) = p)
                                  EXCEPT !.named = p # f.target]
                          ELSE dst[p]]
             /\ NameAdded({Front(f.target)}, "Rename")
             /\ hist' = [hist EXCEPT !.sure = [m \in Node |-> IF m \in came THEN src[m] ELSE @[m]]]
             /\ Continue(<<>>)
             /\ UNCHANGED <<parts, aside>>
        ELSE Throw /\ UNCHANGED <<disk, dirty, hist>>
  /\ UNCHANGED <<setup, pool, cancel, journal, moving>>

\* copy_dir of a folder that is to be made; copy_link; a file given to a worker,
\* or copied by the walker itself when it is big or there are no workers.
MakeFolder(f) ==
  /\ Kind[f.n] = "dir"
  /\ IF Exists(f.target) \/ ~DirThere(Front(f.target))
     THEN Throw /\ UNCHANGED <<dst, journal, dirty>>
     ELSE /\ dst' = Put(dst, f.target, Folder)
          /\ NameAdded({Front(f.target), f.target}, f.mode)
          /\ Remember(f)
          /\ Continue(Kids(f.n, f.target, f.mode))
  /\ UNCHANGED <<queue, active, reserved>>
CopyLink(f) ==
  /\ Kind[f.n] = "link"
  /\ IF src[f.n] = 0 \/ ~DirThere(Front(f.target))
        \/ ~MayTake(f)
     THEN Throw /\ UNCHANGED <<dst, journal, dirty>>
     ELSE /\ dst' = Put(dst, f.target, Written(f.n, src[f.n], TRUE))
          /\ NameAdded({Front(f.target)}, f.mode)
          /\ Remember(f)
          /\ Continue(<<>>)
  /\ UNCHANGED <<queue, active, reserved>>
Job(f, own) == [n |-> f.n, target |-> f.target, mode |-> f.mode, replace |-> f.replace,
                meta |-> f.meta, ver |-> 0, own |-> own, st |-> "taken"]
CopyOrQueue(f) ==
  /\ Kind[f.n] \in {"file", "big"}
  /\ IF Kind[f.n] = "file" /\ Workers > 1
     THEN /\ queue' = Append(queue, Job(f, FALSE))
          /\ reserved' = reserved \cup {f.target}
          /\ Continue(<<>>)
          /\ UNCHANGED active
     ELSE /\ active' = active \cup {Job(f, TRUE)}
          /\ Continue(<<Frame("own")>>)
          /\ UNCHANGED <<queue, reserved>>
  /\ UNCHANGED <<dst, journal, dirty>>

\* copy_node.
CopyNode ==
  /\ At("node")
  /\ IF Stopped
     THEN Throw /\ UNCHANGED <<dst, journal, dirty, queue, active, reserved>>
     ELSE \/ MakeFolder(Head(stk))
          \/ CopyLink(Head(stk))
          \/ CopyOrQueue(Head(stk))
  /\ UNCHANGED <<setup, src, parts, aside, failure, stop, cancel, moving, hist>>

\* The walker's own copy has ended.
Own ==
  /\ At("own") /\ \A j \in active : ~j.own
  /\ Continue(<<>>)
  /\ UNCHANGED <<setup, disk, pool, cancel, ledger, hist>>

\* The folder that replaces a file has arrived, as far as the walker knows.
ForgetAside ==
  /\ At("aside")
  /\ aside' = {a \in aside : a.target # Head(stk).target}
  /\ Continue(<<>>)
  /\ UNCHANGED <<setup, src, dst, parts, pool, cancel, ledger, hist>>

\* A call of the walker fails: a folder that cannot be read, a full drive.
WalkerFails ==
  /\ Has("fail")
  /\ \E k \in {"place", "rename", "node", "flush", "remove"} : At(k)
  /\ Throw
  /\ dirty' = IF Head(stk).k = "flush" THEN {} ELSE dirty
  /\ UNCHANGED <<setup, disk, pool, cancel, journal, moving, hist>>

------------------------------------------------------------------------------
(* The end of with_workers, finish_move and durable.finish.                *)

\* The workers are done: their failure is the answer.
Join ==
  /\ res = "run" /\ stk # <<>> /\ Head(stk).k = "join"
  /\ queue = <<>> /\ active = {}
  /\ stk' = Tail(stk)
  /\ err' = (err \/ failure)
  /\ failure' = FALSE
  /\ UNCHANGED <<setup, disk, res, queue, active, stop, reserved, cancel, ledger, hist>>

\* Durable::finish: every folder that changed, then the whole drive.
Flush ==
  /\ At("flush")
  /\ dst' = [p \in DOMAIN dst |->
               [dst[p] EXCEPT !.named = @ \/ Front(p) \in dirty]]
  /\ dirty' = {}
  /\ Continue(<<>>)
  /\ UNCHANGED <<setup, src, parts, aside, pool, cancel, journal, moving, hist>>

\* verify: every copy is there and as long as what was read, and no source has
\* changed since it was looked at.
Complete(c) ==
  CASE Kind[c.n] = "dir" -> IsDir(c.target)
    [] Kind[c.n] = "link" -> \/ src[c.n] = 0
                             \/ Exists(c.target) /\ dst[c.target].ver = src[c.n]
    [] OTHER -> /\ Exists(c.target) /\ ~IsDir(c.target)
                /\ dst[c.target].ver = c.meta
                /\ src[c.n] \in {0, c.meta}
Verify ==
  /\ At("verify")
  /\ journal' = <<>>
  /\ IF \A i \in DOMAIN journal : Complete(journal[i])
     THEN /\ moving' = journal
          /\ hist' = [hist EXCEPT !.sure = [n \in Node |->
                        IF \E i \in DOMAIN journal : journal[i].n = n THEN src[n] ELSE @[n]]]
          /\ Continue(<<>>)
     ELSE Throw /\ UNCHANGED <<moving, hist>>
  /\ UNCHANGED <<setup, disk, pool, cancel, dirty>>

\* remove_sources: the files and links, then the folders that are empty by now,
\* the last one first.
RemoveSources ==
  /\ At("remove")
  /\ LET files == SelectSeq(moving, LAMBDA c : Kind[c.n] # "dir")
         dirs  == SelectSeq(moving, LAMBDA c : Kind[c.n] = "dir")
         gone(n) == src' = [src EXCEPT ![n] = 0]
         last  == Last(dirs).n
     IN \/ /\ moving = <<>>
           /\ Continue(<<>>)
           /\ UNCHANGED <<src, moving>>
        \/ /\ files # <<>>
           /\ gone(Head(files).n)
           /\ moving' = Tail(files) \o dirs
           /\ UNCHANGED walker
        \/ /\ files = <<>> /\ dirs # <<>>
           /\ IF \E m \in Children(last) : src[m] # 0 THEN UNCHANGED src ELSE gone(last)
           /\ moving' = Front(dirs)
           /\ UNCHANGED walker
  /\ UNCHANGED <<setup, dst, parts, aside, pool, cancel, journal, dirty, hist>>

\* An error leaves the walker's calls one by one.  replace gives the file that was
\* aside back, which fails when a worker writes into the folder as it is removed.
Unwind ==
  /\ res = "run" /\ err /\ stk # <<>> /\ Head(stk).k # "join"
  /\ stk' = Tail(stk)
  /\ IF Head(stk).k = "aside"
     THEN LET t == Head(stk).target
              a == CHOOSE x \in aside : x.target = t
          IN \/ /\ dst' = Put(Drop(dst, Inside(t)), t, a.old)
                /\ parts' = {x \in parts : ~IsPrefix(t, x.dir)}
                /\ aside' = aside \ {a}
             \/ /\ \E j \in active : IsPrefix(t, j.target)
                /\ dst' = Drop(dst, Inside(t) \ {t})
                /\ UNCHANGED <<parts, aside>>
     ELSE UNCHANGED <<dst, parts, aside>>
  /\ UNCHANGED <<setup, src, err, res, pool, cancel, ledger, hist>>

Return ==
  /\ res = "run" /\ stk = <<>>
  /\ res' = IF err THEN "failed" ELSE "ok"
  /\ UNCHANGED <<setup, disk, stk, err, pool, cancel, ledger, hist>>

------------------------------------------------------------------------------
(* A worker: run_job and copy_file, which the walker also calls.           *)

Part(j) == [n |-> j.n, dir |-> Front(j.target)]

\* A copy ends with an error: fail, or the error of the walker's own call.
Fails(j) ==
  /\ active' = active \ {j}
  /\ parts' = parts \ {Part(j)}
  /\ IF j.own THEN err' = TRUE /\ UNCHANGED <<failure, stop>>
     ELSE failure' = TRUE /\ stop' = TRUE /\ UNCHANGED err
  /\ hist' = [hist EXCEPT !.broke = TRUE]

\* A worker takes a job; it lets it fall when the operation has stopped.
\* Mutant: it ends then, and the queue is left as it is.
TakeJob_Quits ==
  /\ queue # <<>> /\ ~Stopped
  /\ Cardinality({j \in active : ~j.own}) < Workers
  /\ queue' = Tail(queue)
  /\ active' = active \cup {Head(queue)}
  /\ UNCHANGED <<setup, disk, walker, failure, stop, reserved, cancel, ledger, hist>>
TakeJob ==
  /\ queue # <<>>
  /\ Cardinality({j \in active : ~j.own}) < Workers
  /\ queue' = Tail(queue)
  /\ IF Stopped THEN hist' = [hist EXCEPT !.dropped = @ \/ ~stop] /\ UNCHANGED active
     ELSE active' = active \cup {Head(queue)} /\ UNCHANGED hist
  /\ UNCHANGED <<setup, disk, walker, failure, stop, reserved, cancel, ledger>>

\* copy_file, up to the part file.
OpenFiles ==
  /\ \E j \in active :
       /\ j.st = "taken"
       /\ \/ /\ Stopped \/ src[j.n] = 0 \/ ~DirThere(Front(j.target)) \/ Has("fail")
             /\ Fails(j)
          \/ /\ ~Stopped /\ src[j.n] # 0 /\ DirThere(Front(j.target))
             /\ active' = (active \ {j}) \cup {[j EXCEPT !.st = "open", !.ver = src[j.n]]}
             /\ parts' = parts \cup {Part(j)}
             /\ UNCHANGED <<err, failure, stop, hist>>
  /\ UNCHANGED <<setup, src, dst, aside, stk, res, queue, reserved, cancel, ledger>>

\* The data is copied, and made durable where the drive needs it.
CopyData ==
  /\ \E j \in active :
       /\ j.st = "open"
       /\ \/ (Stopped \/ Has("fail")) /\ Fails(j)
          \/ /\ active' = (active \ {j}) \cup
                            {[j EXCEPT !.st = "written", !.ver = IF src[j.n] = 0 THEN @ ELSE src[j.n]]}
             /\ UNCHANGED <<parts, err, failure, stop, hist>>
  /\ UNCHANGED <<setup, src, dst, aside, stk, res, queue, reserved, cancel, ledger>>

\* The part file gets its name.
NameCopy ==
  /\ \E j \in active :
       /\ j.st = "written"
       /\ \/ /\ Part(j) \notin parts \/ ~MayTake(j) \/ Has("fail")
             /\ Fails(j)
             /\ UNCHANGED <<dst, journal, dirty>>
          \/ /\ Part(j) \in parts /\ MayTake(j)
             /\ dst' = Put(dst, j.target, Written(j.n, j.ver, Flushes(j.mode)))
             /\ parts' = parts \ {Part(j)}
             /\ NameAdded({Front(j.target)}, j.mode)
             /\ Remember(j)
             /\ active' = active \ {j}
             /\ UNCHANGED <<err, failure, stop, hist>>
  /\ UNCHANGED <<setup, src, aside, stk, res, queue, reserved, cancel, moving>>

------------------------------------------------------------------------------
(* The world around.                                                       *)

Cancel ==
  /\ Has("cancel") /\ res = "run" /\ ~cancel
  /\ cancel' = TRUE
  /\ UNCHANGED <<setup, disk, walker, pool, ledger, hist>>

\* Another program rewrites a source, once.
Write ==
  /\ Has("write") /\ res = "run"
  /\ \E n \in Node : /\ Kind[n] # "dir" /\ src[n] = 1
                     /\ src' = [src EXCEPT ![n] = 2]
  /\ UNCHANGED <<setup, dst, parts, aside, walker, pool, cancel, ledger, hist>>

\* Another program makes a file where the operation is about to.
Other ==
  /\ Has("other") /\ res = "run"
  /\ \A p \in DOMAIN dst : dst[p].of # "other"
  /\ \E p \in {Append(d, Name(Base(n))) : n \in Node, d \in {<<>>} \cup {q \in DOMAIN dst : IsDir(q)}} :
       /\ ~Exists(p)
       /\ dst' = Put(dst, p, Foreign("file", "other"))
  /\ UNCHANGED <<setup, src, parts, aside, walker, pool, cancel, ledger, hist>>

\* The power fails: of the names not flushed all are kept or none, data not
\* flushed is not whole, and a rename that did not last is undone.
Crash ==
  /\ Has("crash") /\ res = "run"
  /\ \E keep \in BOOLEAN :
       LET lasts(p) == keep \/ \A i \in 1..Len(p) : dst[SubSeq(p, 1, i)].named
           lost == {p \in DOMAIN dst : ~lasts(p)}
       IN /\ dst' = [p \in DOMAIN dst \ lost |-> [dst[p] EXCEPT !.whole = dst[p].synced]]
          /\ src' = [n \in Node |->
                       LET back == {p \in lost : dst[p].of = n /\ dst[p].moved}
                       IN IF back = {} THEN src[n] ELSE dst[CHOOSE p \in back : TRUE].ver]
  /\ res' = "down" /\ stk' = <<>> /\ queue' = <<>> /\ active' = {}
  /\ UNCHANGED <<setup, parts, aside, err, failure, stop, reserved, cancel, ledger, hist>>

Walk == \/ Place \/ Drain \/ Rename \/ CopyNode \/ Own \/ ForgetAside \/ Join \/ Flush
        \/ Verify \/ RemoveSources \/ Unwind \/ Return
Work == TakeJob \/ OpenFiles \/ CopyData \/ NameCopy
World == WalkerFails \/ Cancel \/ Write \/ Other \/ Crash
Next == Walk \/ Work \/ World

Spec == Init /\ [][Next]_vars
\* The walker and its workers are threads of one process; a read or a write of a
\* drive ends, with data or an error.
FairSpec == Spec /\ WF_vars(Walk) /\ WF_vars(Work)

------------------------------------------------------------------------------
(* What a person who copies or moves relies on.                            *)

\* Every variable holds what its declaration says; a job is in one place.
TypeOK ==
  /\ src \in [Node -> 0..2]
  /\ \A p \in DOMAIN dst : DirThere(Front(p))
  /\ res \in {"run", "ok", "failed", "down"}
  /\ {err, failure, stop, cancel} \subseteq BOOLEAN
  /\ \A j \in active : j.st \in {"taken", "open", "written"} /\ j.n \in Node
  /\ Cardinality(active) <= Workers + 1
  /\ failure => stop

\* A source that is gone is in the destination, as it was when the copy was checked
\* and all of it, in every state: after an error, a cancel, a rewrite by another
\* program and a power loss at any step (remove_sources runs after flush and verify).
NothingLost ==
  \A n \in Node :
    Kind[n] # "dir" /\ src[n] = 0 =>
      \/ \E p \in DOMAIN dst : dst[p].of = n /\ dst[p].ver = hist.sure[n] /\ dst[p].whole
      \/ \E o \in hist.over : o.of = n

\* On a drive that is flushed, and in a move between drives, a name in the
\* destination never stands for part of a file, not even after a power loss
\* (file_written comes before the rename).
NeverHalf ==
  setup.level = "Device" \/ Mode = "CopyDelete" => \A p \in DOMAIN dst : dst[p].whole

\* A source answered "Skip" is never removed, nor is anything below it, nor a folder
\* it is in.
SkippedStays == \A n \in hist.skip : \A m \in Node : n \in Below(m) => src[m] # 0

\* Sources are safe: none is lost, halved or taken against the answer.
SourcesAreSafe == TypeOK /\ NothingLost /\ NeverHalf /\ SkippedStays

\* Nothing in the destination is replaced or removed unless "Replace" was answered
\* for it: not what was there, not what another program makes after the name was
\* looked at, not what another item of the same operation made (rename_noreplace,
\* reserved, unique_target).
ReplacesOnlyAsked ==
  \A p \in DOMAIN dst :
    (IF p \in DOMAIN dst' THEN dst'[p].of # dst[p].of ELSE TRUE) =>
      \/ \E r \in hist'.over : IsPrefix(r.path, p)
      \/ res' = "down"

\* Once a copy has failed no source is removed any more: neither what the failed
\* copy was of, nor what other workers have copied meanwhile.
FailureKeepsSources == hist.broke => \A n \in Node : src[n] # 0 => src'[n] # 0

\* No step replaces or removes what it may not, at either end.
OnlyAskedReplaces == [][ReplacesOnlyAsked /\ FailureKeepsSources]_vars

\* An operation that ended leaves no part file of a copy behind.
NoPartsLeft == res \in {"ok", "failed"} => parts = {}

\* Done means on the device: what an operation on such a drive put there survives a
\* power loss from the moment it reports success.
DoneIsDurable ==
  res = "ok" /\ setup.level = "Device" =>
    \A p \in DOMAIN dst : dst[p].named /\ dst[p].synced

\* Success means every source that was not skipped is in the destination, unless a
\* cancel came when its copy had not begun.
OkMeansThere ==
  res = "ok" /\ ~hist.dropped =>
    \A n \in Node : Kind[n] # "dir" /\ n \notin hist.skip =>
       \/ \E p \in DOMAIN dst : dst[p].of = n
       \/ \E o \in hist.over : o.of = n

\* "ok" is true: everything is there, on the device, and nothing else is left.
SuccessIsTrue == OkMeansThere /\ DoneIsDurable /\ NoPartsLeft

\* Every operation ends: the walker waits for its workers (drain, the end of
\* with_workers), and they end after an error or a cancel too.
Ends == <>(res # "run")
===============================================================================
