-------------------------------- MODULE Loader --------------------------------
(***************************************************************************)
(* Opening a folder (crates/files/src/loader.rs, with listing.rs, cache.rs *)
(* and watch.rs).  The loader thread owns a listing of its own (`master'), *)
(* shows the cached listing first, and takes what its other threads send   *)
(* to one channel: the reader of each generation, the stat workers, the    *)
(* inotify watcher and the poller.  Every event it emits is applied by the *)
(* window to the listing the window shows (`view').                        *)
(*                                                                         *)
(* Other programs change the folder and the cache directory at any moment. *)
(* A name is a number (the cache keeps entries in name order); what statx  *)
(* tells of a file is its version.  A batch of the reader is one entry:    *)
(* the finest cut there is.                                                *)
(***************************************************************************)
EXTENDS Integers, Sequences, FiniteSets, SequencesExt

CONSTANTS
  Nil,
  Names,        \* the names a folder may hold
  MaxChanges,   \* how often other programs change the folder in a "busy" environment
  MaxOpens,     \* how often the window opens it in a "reopen" environment
  MaxAsks,      \* how often the window asks for each thing below
  Envs          \* the environments, each a set of the choices below

ASSUME NamesAssumption == Names \subseteq Nat /\ Nil \notin Nat
\* "network": a mount where entries arrive unsized and the folder is polled (else
\* a local disk, where they are sized and the folder is watched); "rewrite": files
\* are rewritten in place; "refresh", "stop", "rows", "all": the window calls
\* refresh, stop_read, want_stats, stat_all; "sweep": the cache file is evicted
\* by another process; "fail": a read fails; "hang": the drive is slow to answer;
\* "busy", "reopen": more than one change, more than one opening.
EnvChoices == {"network", "rewrite", "refresh", "stop", "rows", "all", "sweep", "fail", "hang",
               "busy", "reopen"}
ASSUME EnvAssumption == Envs \subseteq SUBSET EnvChoices

VARIABLES
  dir,      \* the folder: the version of each file, 0 for a name not there
  stamp,    \* stat::dir_stamp of the folder: moves when a name comes or goes
  cache,    \* the cache file of the folder: Nil, or a stamp and entries
  ld,       \* struct Loader, its master listing aside
  master,   \* Loader.master
  view,     \* the Listing of the window
  mail,     \* the channel of Msg to the loader thread
  readers,  \* the reader threads, by generation
  jobs,     \* StatQueue (high, low) and the results workers have not sent
  watch,    \* the watcher's thread: off, idle, or with a change to report
  poller,   \* the poll thread: Nil or "out"
  req,      \* Load.requested
  seen,     \* for each name, whether it was there since the read began (not in the code)
  missed,   \* a change came unwatched, or its read failed or was stopped (not in the code)
  used,     \* how often each bounded thing has happened
  env       \* the environment this behaviour has; it never changes
vars == <<dir, stamp, cache, ld, master, view, mail, readers, jobs, watch, poller, req,
          seen, missed, used, env>>

Local == "network" \notin env

------------------------------------------------------------------------------
(* Listings (listing.rs).                                                  *)

Entries == [n : Names, v : Nat, sized : BOOLEAN]
NamesOf(ents) == {ents[i].n : i \in DOMAIN ents}
EntryOf(ents, n) == ents[CHOOSE i \in DOMAIN ents : ents[i].n = n]

\* Listing::new.
NewListing == [ents |-> <<>>, rev |-> 0, complete |-> FALSE, fromCache |-> FALSE,
               unresponsive |-> FALSE, stopped |-> FALSE]

\* Event::Diff applied: retain, replace in place, append.
Patch(ents, d) ==
  LET kept == SelectSeq(ents, LAMBDA e : e.n \notin d.removed)
      put  == [i \in DOMAIN kept |-> IF kept[i].n \in NamesOf(d.changed)
                                     THEN EntryOf(d.changed, kept[i].n) ELSE kept[i]]
  IN put \o d.added

\* Listing::apply_event.  Mutant: a removal moves the rows without a new revision.
Apply_KeepsRevision(l, e) ==
  CASE e.t = "Cached" -> [l EXCEPT !.ents = e.ents, !.rev = @ + 1, !.complete = FALSE,
                                   !.stopped = FALSE, !.fromCache = TRUE]
    [] e.t = "Batch" -> [l EXCEPT !.ents = @ \o e.ents]
    [] e.t = "Done" -> [l EXCEPT !.complete = TRUE, !.fromCache = FALSE, !.stopped = FALSE]
    [] e.t = "Diff" -> [l EXCEPT !.ents = Patch(@, e.d)]
    [] OTHER -> l
Apply(l, e) ==
  CASE e.t = "Cached" -> [l EXCEPT !.ents = e.ents, !.rev = @ + 1, !.complete = FALSE,
                                   !.stopped = FALSE, !.fromCache = TRUE]
    [] e.t = "Batch" -> [l EXCEPT !.ents = @ \o e.ents, !.unresponsive = FALSE]
    [] e.t = "Done" -> [l EXCEPT !.complete = TRUE, !.fromCache = FALSE, !.stopped = FALSE,
                                 !.unresponsive = FALSE]
    [] e.t = "Diff" -> [l EXCEPT !.ents = Patch(@, e.d), !.unresponsive = FALSE,
                                 !.rev = IF e.d.removed = {} THEN @ ELSE @ + 1]
    [] e.t = "Stats" -> [l EXCEPT !.unresponsive = FALSE,
                           !.ents = IF e.rev # l.rev THEN @
                                    ELSE [i \in DOMAIN @ |-> IF i \in DOMAIN e.up
                                            THEN [@[i] EXCEPT !.v = e.up[i], !.sized = TRUE]
                                            ELSE @[i]]]
    [] e.t = "Stopped" -> [l EXCEPT !.stopped = ~l.complete]
    [] e.t = "Unresponsive" -> [l EXCEPT !.unresponsive = TRUE]

\* diff_entries: an entry read without its size wipes no size.
DiffEntries(old, new) ==
  [added   |-> SelectSeq(new, LAMBDA e : e.n \notin NamesOf(old)),
   removed |-> NamesOf(old) \ NamesOf(new),
   changed |-> SelectSeq(new, LAMBDA e : /\ e.n \in NamesOf(old)
                                         /\ e.sized
                                         /\ \/ EntryOf(old, e.n).v # e.v
                                            \/ ~EntryOf(old, e.n).sized)]
NoDiff(d) == d.added = <<>> /\ d.removed = {} /\ d.changed = <<>>

\* cache::encode and decode: the entries come back in name order.
InNameOrder(ents) == SortSeq(ents, LAMBDA a, b : a.n < b.n)

------------------------------------------------------------------------------
(* The loader thread, on the record S of what it may write.                *)

S0 == [ld |-> ld, master |-> master, view |-> view, cache |-> cache, readers |-> readers,
       jobs |-> jobs, watch |-> watch, seen |-> seen]

Emit(S, e) == [S EXCEPT !.master = Apply(@, e), !.view = Apply(@, e)]

\* has_content: a read of a listing that shows something sends differences.
HasContent(S) == S.ld.lazy # Nil \/ S.master.fromCache \/ S.master.ents # <<>>

NoneOf(ents) == [i \in DOMAIN ents |-> FALSE]

\* ensure_master: the loader's own copy of what the cache gave the window.
\* Mutant: the copy is dropped undecoded.
EnsureMaster_Drops(S) == [S EXCEPT !.ld.lazy = Nil]
EnsureMaster(S) ==
  IF S.ld.lazy = Nil THEN S
  ELSE [S EXCEPT !.master.ents = S.ld.lazy, !.ld.lazy = Nil,
                 !.ld.verified = NoneOf(S.ld.lazy), !.ld.queued = NoneOf(S.ld.lazy)]

\* start_read: the reader of the last generation is told to stop, and goes on
\* until it notices.
StartRead(S, hint) ==
  [S EXCEPT !.ld.gen = @ + 1, !.ld.reading = TRUE, !.ld.sent = FALSE, !.ld.fresh = <<>>,
            !.ld.mode = IF HasContent(S) THEN "Diff" ELSE "Append",
            !.readers = @ \cup {[gen |-> S.ld.gen + 1, pc |-> "stamp", hint |-> hint,
                                 stamp |-> Nil, todo |-> Names]},
            !.seen = [n \in Names |-> {dir[n] # 0}]]

\* restart_read: a change during a read asks for another one after it.  Mutant:
\* the read under way is thought to be enough.
RestartRead_Forgets(S) == IF S.ld.reading THEN S ELSE StartRead(S, Nil)
RestartRead(S) ==
  IF S.ld.reading THEN [S EXCEPT !.ld.reread = TRUE] ELSE StartRead(S, Nil)

StopRead(S) ==
  IF ~S.ld.reading THEN S
  ELSE Emit([S EXCEPT !.ld.gen = @ + 1, !.ld.reading = FALSE, !.ld.reread = FALSE,
                      !.ld.fresh = <<>>], [t |-> "Stopped"])

\* apply_diff: the flags of the rows follow the rows.
ApplyDiff(S, d) ==
  LET T == Emit(S, [t |-> "Diff", d |-> d])
      before(n) == /\ n \in NamesOf(S.master.ents)
                   /\ S.ld.verified[CHOOSE i \in DOMAIN S.master.ents : S.master.ents[i].n = n]
      moved == [i \in DOMAIN T.master.ents |-> before(T.master.ents[i].n)]
      grown == S.ld.verified \o [i \in DOMAIN d.added |-> d.added[i].sized]
      flags == IF d.removed # {} THEN moved ELSE grown
  IN [T EXCEPT !.ld.verified = [i \in DOMAIN T.master.ents |->
                                  IF T.master.ents[i].n \in NamesOf(d.changed)
                                  THEN T.master.ents[i].sized
                                  ELSE i \in DOMAIN flags /\ flags[i]],
               !.ld.queued = NoneOf(T.master.ents)]

\* Cache::store, in place at once: a temporary file renamed.
Store(S) ==
  IF S.ld.stamp = Nil THEN S
  ELSE [S EXCEPT !.cache = [stamp |-> S.ld.stamp, ents |-> InNameOrder(S.master.ents)]]

SaveIfDirty(S) ==
  IF ~S.ld.dirty THEN S
  ELSE LET T == [S EXCEPT !.ld.dirty = FALSE] IN IF T.ld.once THEN Store(T) ELSE T

\* start_watching: from the first read that ends well, on a drive that is not polled.
StartWatching(S) == IF Local THEN [S EXCEPT !.watch = "idle"] ELSE S

\* read_done.
ReadDone(S, m) ==
  IF ~m.ok THEN S
  ELSE IF m.unchanged /\ ~HasContent(S) THEN StartRead(S, Nil)
  ELSE
    LET d       == DiffEntries(S.master.ents, S.ld.fresh)
        diffing == ~m.unchanged /\ S.ld.mode = "Diff"
        changed == ~m.unchanged /\ (diffing => ~NoDiff(d))
        first   == ~S.ld.once
        S1 == IF diffing THEN [S EXCEPT !.ld.fresh = <<>>] ELSE S
        S2 == IF diffing /\ changed THEN ApplyDiff(S1, d) ELSE S1
        S3 == Emit([S2 EXCEPT !.ld.stamp = m.stamp, !.ld.once = TRUE], [t |-> "Done"])
        S4 == IF (first /\ ~m.unchanged) \/ changed
              THEN [Store(S3) EXCEPT !.ld.dirty = FALSE] ELSE S3
        S5 == IF first THEN StartWatching(S4) ELSE S4
    IN IF S5.ld.reread THEN StartRead([S5 EXCEPT !.ld.reread = FALSE], Nil) ELSE S5

\* The rows of `is' that are neither known nor asked for become a job.
Ask(S, is, urgent) ==
  LET new == {i \in is : i \in DOMAIN S.master.ents /\ ~S.ld.verified[i] /\ ~S.ld.queued[i]}
      job == [rev |-> S.master.rev, items |-> [i \in new |-> S.master.ents[i].n]]
  IN IF new = {} THEN S
     ELSE [S EXCEPT !.ld.queued = [i \in DOMAIN @ |-> i \in new \/ @[i]],
                    !.ld.flying = @ + Cardinality(new),
                    !.jobs.high = IF urgent THEN Append(@, job) ELSE @,
                    !.jobs.low = IF urgent THEN @ ELSE Append(@, job)]

Want(S, m) == IF m.rev # S.master.rev THEN S ELSE Ask(S, m.rows, TRUE)
StatEverything(S) == Ask(S, DOMAIN S.master.ents, FALSE)

\* stats: version 0 is a file that was not found.
Stats(S, m) ==
  LET S1   == [S EXCEPT !.ld.flying = @ - Cardinality(DOMAIN m.res), !.ld.sent = FALSE]
      at   == DOMAIN m.res \cap DOMAIN S.master.ents
      up   == {i \in at : /\ m.res[i] # 0
                          /\ \/ ~S.master.ents[i].sized
                             \/ S.master.ents[i].v # m.res[i]}
      S2   == [S1 EXCEPT !.ld.verified = [i \in DOMAIN @ |-> i \in at \/ @[i]],
                         !.ld.queued = [i \in DOMAIN @ |-> i \notin at /\ @[i]]]
      S3   == IF up = {} THEN S2
              ELSE Emit([S2 EXCEPT !.ld.dirty = TRUE],
                        [t |-> "Stats", rev |-> m.rev, up |-> [i \in up |-> m.res[i]]])
  IN IF m.rev # S.master.rev THEN S1
     ELSE IF (\E i \in at : m.res[i] = 0) /\ S.ld.once THEN RestartRead(S3) ELSE S3

\* handle.  The drive answering clears unresponsive_sent (activity).
Handle(S, m) ==
  LET awake == [S EXCEPT !.ld.sent = FALSE]
      done  == [awake EXCEPT !.ld.reading = FALSE]
  IN
  CASE m.t = "Want" -> Want(EnsureMaster(S), m)
    [] m.t = "StatAll" -> StatEverything(EnsureMaster(S))
    [] m.t = "Stats" -> Stats(EnsureMaster(S), m)
    [] m.t = "Refresh" -> RestartRead(S)
    [] m.t = "StopRead" -> StopRead(S)
    [] m.t = "Entries" ->
         IF m.gen # S.ld.gen THEN S
         ELSE IF S.ld.mode = "Diff" THEN [awake EXCEPT !.ld.fresh = @ \o m.ents]
         ELSE Emit([awake EXCEPT !.ld.verified = @ \o [i \in DOMAIN m.ents |-> m.ents[i].sized],
                                 !.ld.queued = @ \o NoneOf(m.ents)],
                   [t |-> "Batch", ents |-> m.ents])
    [] m.t = "ReadDone" ->
         IF m.gen # S.ld.gen THEN S
         ELSE ReadDone(IF m.unchanged THEN done ELSE EnsureMaster(done), m)
    [] m.t = "Changed" -> IF S.ld.once THEN RestartRead(S) ELSE S
    [] m.t = "Polled" ->
         LET T == [S EXCEPT !.ld.polling = FALSE]
         IN IF S.ld.stamp # Nil /\ m.stamp # S.ld.stamp /\ ~S.ld.reading
            THEN RestartRead(T) ELSE T

Become(S) ==
  /\ ld' = S.ld /\ master' = S.master /\ view' = S.view /\ cache' = S.cache
  /\ readers' = S.readers /\ jobs' = S.jobs /\ watch' = S.watch /\ seen' = S.seen

------------------------------------------------------------------------------
(* Steps of the loader thread.                                             *)

NewLoader == [phase |-> "starting", lazy |-> Nil, verified |-> <<>>, queued |-> <<>>,
              stamp |-> Nil, gen |-> 0, reading |-> FALSE, mode |-> "Append", fresh |-> <<>>,
              reread |-> FALSE, once |-> FALSE, flying |-> 0, sent |-> FALSE, dirty |-> FALSE,
              polling |-> FALSE, forced |-> FALSE]
NoJobs == [high |-> <<>>, low |-> <<>>, busy |-> <<>>]

Init ==
  /\ env \in Envs
  /\ \E F \in SUBSET Names : dir = [n \in Names |-> IF n \in F THEN 1 ELSE 0]
  /\ stamp = 0 /\ cache = Nil
  /\ ld = [NewLoader EXCEPT !.phase = "closed"]
  /\ master = NewListing /\ view = NewListing
  /\ mail = <<>> /\ readers = {} /\ jobs = NoJobs /\ watch = "off" /\ poller = Nil
  /\ req = [rev |-> 0, rows |-> {}]
  /\ seen = [n \in Names |-> {dir[n] # 0}]
  /\ missed = FALSE
  /\ used = [changes |-> 0, opens |-> 0, refresh |-> 0, stop |-> 0, all |-> 0, fail |-> 0]

MayOpen == used.opens < IF "reopen" \in env THEN MaxOpens ELSE 1

\* open, and `run' up to start_read: the cached stamp is a hint to the reader.
\* A forced load (F5) looks at no cache.
Open ==
  /\ ld.phase = "closed" /\ MayOpen
  /\ \E force \in IF "refresh" \in env THEN BOOLEAN ELSE {FALSE} :
       LET fresh == [S0 EXCEPT !.ld = [NewLoader EXCEPT !.forced = force],
                               !.master = NewListing, !.view = NewListing]
       IN Become(StartRead(fresh, IF force \/ cache = Nil THEN Nil ELSE cache.stamp))
  /\ req' = [rev |-> 0, rows |-> {}]
  /\ missed' = FALSE
  /\ used' = [used EXCEPT !.opens = @ + 1]
  /\ UNCHANGED <<dir, stamp, mail, poller, env>>

\* `run' up to its loop: the window is given the cached entries, if the file is
\* (still) there; the loader decodes its own copy later.
ShowCache ==
  /\ ld.phase = "starting"
  /\ IF ld.forced \/ cache = Nil
     THEN Become([S0 EXCEPT !.ld.phase = "running"])
     ELSE Become([S0 EXCEPT !.ld.phase = "running", !.ld.stamp = cache.stamp,
                            !.ld.mode = "Diff", !.ld.lazy = cache.ents,
                            !.master.rev = @ + 1, !.master.fromCache = TRUE,
                            !.view = Apply(@, [t |-> "Cached", ents |-> cache.ents])])
  /\ UNCHANGED <<dir, stamp, mail, poller, req, missed, used, env>>

\* The loop: one message.  On a watched folder, a change whose read fails or is
\* stopped stays unshown until a read begins again.
Deliver ==
  /\ ld.phase = "running" /\ mail # <<>>
  /\ LET m == Head(mail)
         T == Handle(S0, m)
     IN /\ Become(T)
        /\ missed' = IF T.readers # readers THEN FALSE
                     ELSE \/ missed
                          \/ /\ Local /\ ld.reading /\ ~T.ld.reading
                             /\ m.t = "StopRead" \/ ~m.ok
  /\ mail' = Tail(mail)
  /\ UNCHANGED <<dir, stamp, poller, req, used, env>>

\* tick: the drive has not answered for unresponsive_after.
TickUnresponsive ==
  /\ "hang" \in env /\ ld.phase = "running"
  /\ ld.reading \/ ld.flying > 0
  /\ ~ld.sent
  /\ Become(Emit([S0 EXCEPT !.ld.sent = TRUE], [t |-> "Unresponsive"]))
  /\ UNCHANGED <<dir, stamp, mail, poller, req, missed, used, env>>

\* tick: sizes that came in are kept.
TickSave ==
  /\ ld.phase = "running" /\ ld.dirty /\ ld.flying = 0
  /\ Become(SaveIfDirty(S0))
  /\ UNCHANGED <<dir, stamp, mail, poller, req, missed, used, env>>

\* tick: time to look at the folder's stamp, on another thread.
TickPoll ==
  /\ ld.phase = "running" /\ ld.once /\ ~ld.polling /\ ~ld.reading /\ ~Local /\ watch = "off"
  /\ Become([S0 EXCEPT !.ld.polling = TRUE])
  /\ poller' = "out"
  /\ UNCHANGED <<dir, stamp, mail, req, missed, used, env>>

\* Cancel, or the Load dropped: finish.  What other threads still send is lost.
Close ==
  /\ ld.phase = "running" /\ MayOpen
  /\ Become([SaveIfDirty(S0) EXCEPT !.ld = [NewLoader EXCEPT !.phase = "closed"],
                                    !.readers = {}, !.jobs = NoJobs, !.watch = "off",
                                    !.master = NewListing, !.view = NewListing])
  /\ mail' = <<>> /\ poller' = Nil
  /\ UNCHANGED <<dir, stamp, req, missed, used, env>>

------------------------------------------------------------------------------
(* The other threads.                                                      *)

Send(m) == mail' = Append(mail, m)

\* read_job up to the read: the stamp is taken before the folder is listed.
\* Mutant: a folder the cache knows is taken for unchanged.
ReaderStamp_TrustsCache(r) ==
  /\ r.pc = "stamp"
  /\ IF r.hint # Nil
     THEN /\ Send([t |-> "ReadDone", gen |-> r.gen, stamp |-> stamp, unchanged |-> TRUE,
                   ok |-> TRUE])
          /\ readers' = readers \ {r}
     ELSE /\ readers' = (readers \ {r}) \cup {[r EXCEPT !.pc = "list", !.stamp = stamp]}
          /\ UNCHANGED mail
  /\ UNCHANGED <<dir, stamp, cache, ld, master, view, jobs, watch, poller, req, seen, missed,
                 used, env>>
ReaderStamp(r) ==
  /\ r.pc = "stamp"
  /\ IF r.hint = stamp
     THEN /\ Send([t |-> "ReadDone", gen |-> r.gen, stamp |-> stamp, unchanged |-> TRUE,
                   ok |-> TRUE])
          /\ readers' = readers \ {r}
     ELSE /\ readers' = (readers \ {r}) \cup {[r EXCEPT !.pc = "list", !.stamp = stamp]}
          /\ UNCHANGED mail
  /\ UNCHANGED <<dir, stamp, cache, ld, master, view, jobs, watch, poller, req, seen, missed,
                 used, env>>

\* read_folder, one entry: sized where statx is cheap.
ReaderEntry(r) ==
  /\ r.pc = "list" /\ r.gen = ld.gen
  /\ \E n \in r.todo :
       /\ readers' = (readers \ {r}) \cup {[r EXCEPT !.todo = @ \ {n}]}
       /\ IF dir[n] = 0 THEN UNCHANGED mail
          ELSE Send([t |-> "Entries", gen |-> r.gen,
                     ents |-> <<[n |-> n, v |-> IF Local THEN dir[n] ELSE 0, sized |-> Local]>>])
  /\ UNCHANGED <<dir, stamp, cache, ld, master, view, jobs, watch, poller, req, seen, missed,
                 used, env>>

\* read_folder at its end, cancelled (the generation is over), or failing.
\* Mutant: the folder is stamped after it is listed.
ReaderEnd_StampsLast(r) ==
  /\ r.pc = "list" /\ r.todo = {}
  /\ Send([t |-> "ReadDone", gen |-> r.gen, stamp |-> stamp, unchanged |-> FALSE, ok |-> TRUE])
  /\ readers' = readers \ {r}
  /\ UNCHANGED <<dir, stamp, cache, ld, master, view, jobs, watch, poller, req, seen, missed,
                 used, env>>
ReaderEnd(r) ==
  /\ \/ r.pc = "list" /\ r.todo = {} /\ used' = used
        /\ Send([t |-> "ReadDone", gen |-> r.gen, stamp |-> r.stamp, unchanged |-> FALSE,
                 ok |-> TRUE])
     \/ r.pc = "list" /\ r.gen # ld.gen /\ used' = used
        /\ Send([t |-> "ReadDone", gen |-> r.gen, stamp |-> r.stamp, unchanged |-> FALSE,
                 ok |-> FALSE])
     \/ "fail" \in env /\ used.fail < MaxAsks /\ used' = [used EXCEPT !.fail = @ + 1]
        /\ Send([t |-> "ReadDone", gen |-> r.gen, stamp |-> r.stamp, unchanged |-> FALSE,
                 ok |-> FALSE])
  /\ readers' = readers \ {r}
  /\ UNCHANGED <<dir, stamp, cache, ld, master, view, jobs, watch, poller, req, seen, missed, env>>

\* StatQueue::pop, newest urgent job first, and the statx calls of stat_worker.
\* Four workers on a local disk (two here), one on a network mount.
WorkerTake ==
  /\ Len(jobs.busy) < IF Local THEN 2 ELSE 1
  /\ jobs.high # <<>> \/ jobs.low # <<>>
  /\ LET j == IF jobs.high # <<>> THEN Last(jobs.high) ELSE Head(jobs.low) IN
       jobs' = [high |-> IF jobs.high # <<>> THEN Front(jobs.high) ELSE jobs.high,
                low  |-> IF jobs.high # <<>> THEN jobs.low ELSE Tail(jobs.low),
                busy |-> Append(jobs.busy, [rev |-> j.rev, items |-> j.items,
                                            res |-> [i \in DOMAIN j.items |-> dir[j.items[i]]]])]
  /\ UNCHANGED <<dir, stamp, cache, ld, master, view, mail, readers, watch, poller, req, seen,
                 missed, used, env>>

\* stat_worker sends what it read.
WorkerSend ==
  /\ \E k \in DOMAIN jobs.busy :
       /\ Send([t |-> "Stats", rev |-> jobs.busy[k].rev, items |-> jobs.busy[k].items,
                res |-> jobs.busy[k].res])
       /\ jobs' = [jobs EXCEPT !.busy = RemoveAt(@, k)]
  /\ UNCHANGED <<dir, stamp, cache, ld, master, view, readers, watch, poller, req, seen, missed,
                 used, env>>

\* watch::run: a burst of changes has been quiet long enough.
WatchFires ==
  /\ watch = "changed"
  /\ watch' = "idle"
  /\ Send([t |-> "Changed"])
  /\ UNCHANGED <<dir, stamp, cache, ld, master, view, readers, jobs, poller, req, seen, missed,
                 used, env>>

PollAnswers ==
  /\ poller = "out"
  /\ poller' = Nil
  /\ Send([t |-> "Polled", stamp |-> stamp])
  /\ UNCHANGED <<dir, stamp, cache, ld, master, view, readers, jobs, watch, req, seen, missed,
                 used, env>>

------------------------------------------------------------------------------
(* The window, and the rest of the system.                                 *)

Opened == ld.phase # "closed"

\* Load::want_stats for every row, called on every frame: a row is asked for once
\* per revision.
WantRows ==
  /\ "rows" \in env /\ Opened
  /\ LET old  == IF req.rev = view.rev THEN req.rows ELSE {}
         rows == DOMAIN view.ents \ old
     IN /\ rows # {}
        /\ Send([t |-> "Want", rev |-> view.rev, rows |-> rows])
        /\ req' = [rev |-> view.rev, rows |-> old \cup rows]
  /\ UNCHANGED <<dir, stamp, cache, ld, master, view, readers, jobs, watch, poller, seen, missed,
                 used, env>>

\* Load::refresh, stop_read, stat_all.
Asks(what, m) ==
  /\ what \in env /\ Opened /\ used[what] < MaxAsks
  /\ Send([t |-> m])
  /\ used' = [used EXCEPT ![what] = @ + 1]
  /\ UNCHANGED <<dir, stamp, cache, ld, master, view, readers, jobs, watch, poller, req, seen,
                 missed, env>>

\* Another program creates, deletes or rewrites a file.  A rewrite leaves the
\* folder's stamp alone; the inotify watch sees all three.
Change(n) ==
  /\ used.changes < IF "busy" \in env THEN MaxChanges ELSE 1
  /\ used' = [used EXCEPT !.changes = @ + 1]
  /\ \/ dir' = [dir EXCEPT ![n] = IF @ = 0 THEN used.changes + 2 ELSE 0] /\ stamp' = stamp + 1
     \/ "rewrite" \in env /\ dir[n] # 0 /\ dir' = [dir EXCEPT ![n] = used.changes + 2]
        /\ stamp' = stamp
  /\ seen' = [seen EXCEPT ![n] = @ \cup {dir'[n] # 0}]
  /\ watch' = IF watch = "off" THEN "off" ELSE "changed"
  /\ missed' = (missed \/ (Local /\ watch = "off"))
  /\ UNCHANGED <<cache, ld, master, view, mail, readers, jobs, poller, req, env>>

\* Another process evicts the cache file (Cache::sweep).
Sweep ==
  /\ "sweep" \in env /\ cache # Nil
  /\ cache' = Nil
  /\ UNCHANGED <<dir, stamp, ld, master, view, mail, readers, jobs, watch, poller, req, seen,
                 missed, used, env>>

Refresh == Asks("refresh", "Refresh")
Stop == Asks("stop", "StopRead")
StatAll == Asks("all", "StatAll")
Reader == \E r \in readers : ReaderStamp(r) \/ ReaderEntry(r) \/ ReaderEnd(r)
\* What a Deliver step does to the channel, and no other step of an open loader.
Takes == ld.phase = "running" /\ mail # <<>> /\ mail' = Tail(mail)
Worker == WorkerTake \/ WorkerSend
Follower == WatchFires \/ PollAnswers
Next ==
  \/ Open \/ Close \/ ShowCache \/ Deliver \/ TickUnresponsive \/ TickSave \/ TickPoll
  \/ \E r \in readers : ReaderStamp(r)
  \/ \E r \in readers : ReaderEntry(r)
  \/ \E r \in readers : ReaderEnd(r)
  \/ WorkerTake \/ WorkerSend \/ WatchFires \/ PollAnswers
  \/ WantRows \/ Refresh \/ Stop \/ StatAll \/ Sweep
  \/ \E n \in Names : Change(n)
Spec == Init /\ [][Next]_vars

\* Every thread runs, the drive answers every call in the end, and the window
\* asks for the rows it shows on every frame.
Fairness ==
  /\ WF_mail(Takes) /\ WF_vars(ShowCache \/ TickSave \/ TickPoll)
  /\ WF_vars(Reader) /\ WF_vars(Worker) /\ WF_vars(Follower) /\ WF_vars(WantRows)
FairSpec == Spec /\ Fairness

------------------------------------------------------------------------------
(* Properties.                                                             *)

Present == {n \in Names : dir[n] # 0}

TypeOK ==
  /\ dir \in [Names -> Nat] /\ stamp \in Nat
  /\ \A l \in {master, view} : l.ents \in Seq(Entries) /\ l.rev \in Nat
  /\ ld.flying \in Nat /\ ld.mode \in {"Append", "Diff"}
  /\ ld.phase \in {"closed", "starting", "running"}
  /\ watch \in {"off", "idle", "changed"}

\* The loader's own listing is the one the window shows: it is decoded late
\* (ensure_master) and patched by hand beside the events, so the two could part.
MirrorsView ==
  /\ master.rev = view.rev
  /\ ld.lazy = Nil => master.ents = view.ents
  /\ ld.lazy # Nil => view.ents = ld.lazy

\* The flags of the rows fit the rows: `want', `stat_everything' and `stats'
\* index verified and queued by row, and would panic.
FlagsFitRows ==
  ld.lazy = Nil => DOMAIN ld.verified = DOMAIN master.ents /\ DOMAIN ld.queued = DOMAIN master.ents

\* A late stat result is applied to the file it was read from, never to a row
\* that has moved up after a removal.
StatsFitRows ==
  \A k \in DOMAIN mail :
    mail[k].t = "Stats" /\ mail[k].rev = view.rev =>
      \A i \in DOMAIN mail[k].items : i \in DOMAIN view.ents /\ view.ents[i].n = mail[k].items[i]

\* No name is shown twice: a batch is appended only to a listing that held nothing
\* before this read.
NoNameTwice == Cardinality(NamesOf(view.ents)) = Len(view.ents)

\* The rows are well formed: everything that is indexed by row fits them.
RowsFit == TypeOK /\ FlagsFitRows /\ StatsFitRows /\ NoNameTwice

\* A cached listing whose stamp is the folder's own is the folder's content, so
\* showing it without a read is right: the stamp is taken before the listing.
CacheIsHonest == cache # Nil /\ cache.stamp = stamp => NamesOf(cache.ents) = Present

\* The loader keeps FolderView's promise.
ShownNames == NamesOf(view.ents)
FV == INSTANCE FolderView WITH files <- Present, shown <- ShownNames, complete <- view.complete
KeepsPromise == FV!Spec

\* A folder that is followed is shown as it is once it stops changing: polled, or
\* watched with no change before the watch began.
FolderIsShown == ld.phase = "running" /\ ld.once /\ ~missed => ShownNames = Present

\* Every row a window shows has its size, though requests and results for an older
\* layout of the rows are dropped.
RowsHaveSizes == ld.phase = "running" /\ "rows" \in env => \A i \in DOMAIN view.ents : view.ents[i].sized

\* In the end the window shows the folder and its sizes, whatever was dropped, stopped
\* or restarted on the way.
Settles == <>[](FolderIsShown /\ RowsHaveSizes)
===============================================================================
