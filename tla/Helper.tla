--------------------------------- MODULE Helper --------------------------------
(***************************************************************************)
(* bsm-helper, the root process that runs PAM (bsm/helper/src/server.rs),  *)
(* with the processes it forks: authentication children (auth.rs) that     *)
(* park with their PAM handle behind a ticket (ticket.rs) and become the   *)
(* supervisor of a desktop when the ticket is redeemed (session.rs), the   *)
(* greeter (greeter.rs) and the short-lived children that tell logind of a *)
(* lock.  The peer, bsm, connects, asks, closes and connects again; the    *)
(* helper itself may die and come back, and then adopts what still runs.   *)
(*                                                                         *)
(* The helper is one thread: a handler of its loop is one step.  Every     *)
(* other process takes its own steps in between.  A child is named by the  *)
(* request that forked it, and so is its ticket.                           *)
(***************************************************************************)
EXTENDS Integers, Sequences, FiniteSets, SequencesExt

CONSTANTS
  MaxConv,     \* authentications asked for
  Job,         \* sessions asked for
  Sid,         \* of each, its session id
  Gen,         \* generations of the login screen
  JobGen,      \* of each job, the generation it is asked in
  MaxHint,     \* lock hints asked for
  MaxConns,    \* connections of the peer
  MaxDying,    \* MAX_DYING (8)
  MaxTickets,  \* MAX_TICKETS (64)
  MaxMissed,   \* exits kept while nobody is connected (64)
  MaxOut,      \* events queued for a peer that does not read (1024)
  Room,        \* events the socket itself holds
  FreeFails,   \* free_failures (3)
  MaxFails,    \* bound of the failures counted
  MaxLives,    \* how often the helper is started
  Envs         \* the environments, each a set of the choices below

\* "unlock": unlocks are asked for too; "abort": the peer takes requests back;
\* "bad": it asks for what is refused; "open": it opens sessions; "close": it closes
\* them; "greeter", "hint": it asks for those; "leave": it closes its connection and
\* comes back; "slow": it may leave events unread; "die": a child is killed;
\* "late": deadlines pass; "crash": the helper dies; "norand": no random numbers;
\* "one", "more": one conversation, or MaxConv, instead of two.
EnvChoices == {"unlock", "abort", "bad", "open", "close", "greeter", "hint", "leave",
               "slow", "die", "late", "crash", "norand", "one", "more"}
ASSUME EnvAssumption == Envs \subseteq SUBSET EnvChoices
ASSUME BoundAssumption ==
  {MaxConv, MaxHint, MaxConns, MaxDying, MaxTickets, MaxMissed, MaxOut, Room, FreeFails,
   MaxFails, MaxLives} \subseteq Nat
ASSUME JobAssumption == DOMAIN Sid = Job /\ JobGen \in [Job -> Gen]

Conv == 1..MaxConv
Hint == 1..MaxHint
None == 0

VARIABLES
  h,     \* the helper's memory: struct Server
  pr,    \* the children
  gr,    \* the greeters' processes and directories
  lg,    \* what the peer was told and logind holds, and what happened (the rest is not in the code)
  env    \* the environment; it never changes
vars == <<h, pr, gr, lg, env>>

Has(choice) == choice \in env
Convs == IF Has("greeter") THEN 0 ELSE IF Has("one") THEN 1 ELSE IF Has("more") THEN MaxConv ELSE 2

\* A handler maps the whole state; an action takes it over.
Now == [h |-> h, pr |-> pr, gr |-> gr, lg |-> lg]
Take(s) == h' = s.h /\ pr' = s.pr /\ gr' = s.gr /\ lg' = s.lg /\ UNCHANGED env

Topic == ({"auth"} \X Conv) \cup ({"job"} \X Job) \cup ({"greet"} \X Gen) \cup ({"hint"} \X Hint)
Event(to, id, k) == [to |-> <<to, id>>, k |-> k]

NewServer == [up |-> TRUE, conn |-> "none", out |-> <<>>, missed |-> <<>>, auths |-> {},
              dying |-> {}, tickets |-> {}, sess |-> {}, greeter |-> None, term |-> FALSE,
              hints |-> {}, fails |-> 0, wait |-> FALSE]
NoChild == [st |-> "none", kid |-> FALSE, sock |-> FALSE, up |-> <<>>, dn |-> <<>>,
            intent |-> "", gen |-> None, job |-> None, pam |-> FALSE]

\* The states of a child: an authentication, then a supervisor.
Talking == {"talk", "asked", "judge"}
Supervising == {"start", "open", "run", "end"}

Init ==
  /\ env \in Envs
  /\ h = NewServer
  /\ pr = [c \in Conv |-> NoChild]
  /\ gr = [run |-> {}, gone |-> {}, dirs |-> {}]
  /\ lg = [told |-> [t \in Topic |-> <<>>], from |-> [t \in Topic |-> None], wire |-> <<>>,
           conns |-> 0, lives |-> 1, owed |-> FALSE, hint |-> FALSE,
           acts |-> [n \in Hint |-> "none"], vals |-> [n \in Hint |-> FALSE]]

------------------------------------------------------------------------------
(* The sockets and the processes.                                          *)

Alive(s, c) == s.pr[c].st \notin {"none", "gone"}
Shut(s, C) ==
  [s EXCEPT !.pr = [c \in Conv |-> IF c \in C THEN [s.pr[c] EXCEPT !.sock = FALSE, !.up = <<>>]
                                   ELSE s.pr[c]]]
Kill(s, C) ==
  [s EXCEPT !.pr = [c \in Conv |-> IF c \in C /\ Alive(s, c) THEN [s.pr[c] EXCEPT !.st = "gone"]
                                   ELSE s.pr[c]]]
Send(s, c, cmd) ==
  IF Alive(s, c) THEN [s EXCEPT !.pr[c].dn = Append(@, cmd)] ELSE s

\* What the peer reads.
Tell(s, ev) ==
  IF ev.k = "prompt" THEN s
  ELSE [s EXCEPT !.lg.told[ev.to] = Append(@, ev.k)]
TellAll(s, evs) == FoldLeft(Tell, s, evs)

\* drop_connection.  A peer that is still there reads what it was sent.
Drop(s) ==
  LET convs == {a.c : a \in s.h.auths}
      parked == {t.c : t \in {u \in s.h.tickets : u.child}}
      read == IF s.h.conn = "live" THEN TellAll(s, s.lg.wire) ELSE s
      off == [read EXCEPT !.h.conn = "none", !.h.out = <<>>, !.lg.wire = <<>>,
                          !.h.auths = {}, !.h.dying = @ \cup convs, !.h.tickets = {},
                          !.h.term = @ \/ s.h.greeter # None]
  IN Shut(Kill(off, convs), convs \cup parked)

\* emit.
Emit(s, ev) ==
  LET queued == [s EXCEPT !.h.out = Append(@, ev)]
      kept == Append(IF Len(s.h.missed) >= MaxMissed THEN Tail(s.h.missed) ELSE s.h.missed, ev)
      waits == s.h.out # <<>> \/ (Has("slow") /\ Len(s.lg.wire) >= Room)
  IN CASE s.h.conn = "none" -> IF ev.k = "exited" /\ ev.to[1] = "job" THEN [s EXCEPT !.h.missed = kept] ELSE s
       [] s.h.conn # "none" /\ waits ->
            IF Len(queued.h.out) > MaxOut THEN Drop(queued) ELSE queued
       [] s.h.conn = "dead" /\ ~waits -> Drop(s)
       [] s.h.conn = "live" /\ ~waits ->
            IF Has("slow") THEN [s EXCEPT !.lg.wire = Append(@, ev)] ELSE Tell(s, ev)
EmitAll(s, evs) == FoldLeft(Emit, s, evs)

\* flush, once the peer has read.
Flush ==
  /\ h.up /\ h.conn = "live" /\ h.out # <<>> /\ Len(lg.wire) < Room
  /\ Take([Now EXCEPT !.h.out = Tail(@), !.lg.wire = Append(@, Head(h.out))])

PeerRead ==
  /\ h.conn = "live" /\ lg.wire # <<>>
  /\ Take(Tell([Now EXCEPT !.lg.wire = Tail(@)], Head(lg.wire)))

PeerClose ==
  /\ Has("leave") /\ h.conn = "live"
  /\ Take([Now EXCEPT !.h.conn = "dead", !.lg.wire = <<>>])

\* The end of the connection is read: read_requests, Eof.
ReadEof ==
  /\ h.up /\ h.conn = "dead"
  /\ Take(Drop(Now))

\* accept_connections.  An old connection that has ended is read first.
Accept ==
  /\ h.up /\ h.conn # "live" /\ lg.conns < MaxConns
  /\ LET free == IF h.conn = "dead" THEN Drop(Now) ELSE Now
         new == [free EXCEPT !.h.conn = "live", !.h.missed = <<>>, !.lg.conns = @ + 1]
     IN Take(EmitAll(new, free.h.missed))

\* A request is read: from the peer, or from what it sent before it closed.
Asked(to, id) == h.up /\ h.conn # "none" /\ lg.from[<<to, id>>] = None
Noted(to, id) == [Now EXCEPT !.lg.from[<<to, id>>] = lg.conns]

------------------------------------------------------------------------------
(* Authentication: auth_start, auth_response, abort_auth, read_auth.       *)

\* note_failure.  `early': PAM's own delay has not passed since the answer.
NoteFailure(s, early) ==
  LET n == IF s.h.fails < MaxFails THEN s.h.fails + 1 ELSE MaxFails
  IN [s EXCEPT !.h.fails = n, !.h.wait = @ \/ early \/ n > FreeFails, !.lg.owed = @ \/ early]

\* abort_auth.
Abort(s, a) ==
  LET gone == [s EXCEPT !.h.auths = @ \ {a}, !.h.dying = @ \cup {a.c}]
      paid == IF a.answered # "no" THEN NoteFailure(gone, a.answered = "now") ELSE gone
  IN Emit(Shut(Send(paid, a.c, "abort"), {a.c}), Event("auth", a.c, "no"))
AbortAll(s) == FoldSet(LAMBDA a, t : IF a \in t.h.auths THEN Abort(t, a) ELSE t, s, s.h.auths)

\* auth_start.  `how' is whether the account and the service are refused, or the fork fails.
AuthStart(c, intent, gen, how) ==
  /\ Asked("auth", c) /\ c <= Convs
  /\ \A d \in 1..(c - 1) : lg.from[<<"auth", d>>] # None
  /\ LET s == Noted("auth", c)
         free == AbortAll(s)
         child == [NoChild EXCEPT !.st = "talk", !.kid = TRUE, !.sock = TRUE, !.intent = intent,
                                  !.gen = gen]
         no(t) == Emit(t, Event("auth", c, "no"))
     IN Take(IF how = "refused" THEN no(s)
             ELSE IF Cardinality(free.h.dying) >= MaxDying \/ free.h.wait \/ how = "nofork"
               THEN no(free)
             ELSE [free EXCEPT !.pr[c] = child,
                               !.h.auths = @ \cup {[c |-> c, awaiting |-> FALSE, answered |-> "no"]}])

AuthResponse ==
  /\ h.up /\ h.conn # "none"
  /\ \E a \in h.auths :
       /\ a.awaiting
       /\ Take(Send([Now EXCEPT !.h.auths = (@ \ {a}) \cup {[a EXCEPT !.awaiting = FALSE, !.answered = "now"]}],
                    a.c, "answer"))

\* FAIL_DELAY passes after an answer.
AnswerAges ==
  /\ Has("late") /\ h.up
  /\ \E a \in h.auths :
       /\ a.answered = "now"
       /\ Take([Now EXCEPT !.h.auths = (@ \ {a}) \cup {[a EXCEPT !.answered = "before"]}])

AuthAbort ==
  /\ Has("abort") /\ h.up /\ h.conn # "none"
  /\ \E a \in h.auths : Take(Abort(Now, a))

\* mint: the one that ends soonest makes room.  Without random numbers there is no ticket.
Mint(s, c, child) ==
  LET first == CHOOSE t \in s.h.tickets : \A u \in s.h.tickets : t.c <= u.c
      full == Cardinality(s.h.tickets) >= MaxTickets
      evicted == IF full THEN Shut([s EXCEPT !.h.tickets = @ \ {first}], {first.c}) ELSE s
  IN [evicted EXCEPT !.h.tickets = @ \cup {[c |-> c, child |-> child]}]

\* Mutant: the ticket of a predictable value is left behind.
ReadOk_Keeps(s, a, rand) ==
  LET login == s.pr[a.c].intent = "login"
      done == [s EXCEPT !.h.auths = @ \ {a}, !.h.fails = 0, !.h.wait = FALSE,
                        !.h.dying = IF login THEN @ ELSE @ \cup {a.c}]
      kept == IF login THEN done ELSE Shut(done, {a.c})
  IN IF rand THEN Emit(Mint(kept, a.c, login), Event("auth", a.c, "ok"))
     ELSE Emit(Shut(Mint(kept, a.c, FALSE), {a.c}), Event("auth", a.c, "no"))
\* The verdict of a child.
ReadOk(s, a, rand) ==
  LET login == s.pr[a.c].intent = "login"
      done == [s EXCEPT !.h.auths = @ \ {a}, !.h.fails = 0, !.h.wait = FALSE,
                        !.h.dying = IF login THEN @ ELSE @ \cup {a.c}]
      kept == IF login THEN done ELSE Shut(done, {a.c})
  IN IF rand THEN Emit(Mint(kept, a.c, login), Event("auth", a.c, "ok"))
     ELSE Emit(Shut(kept, {a.c}), Event("auth", a.c, "no"))
ReadNo(s, a) ==
  LET done == Shut([s EXCEPT !.h.auths = @ \ {a}, !.h.dying = @ \cup {a.c}], {a.c})
  IN Emit(IF a.answered # "no" THEN NoteFailure(done, FALSE) ELSE done, Event("auth", a.c, "no"))
\* Mutant: the end of a child without a verdict is not reported.
ReadEnd_Silent(s, a) ==
  Shut(Kill([s EXCEPT !.h.auths = @ \ {a}, !.h.dying = @ \cup {a.c}], {a.c}), {a.c})
\* It ended without one.
ReadEnd(s, a) ==
  Emit(Shut(Kill([s EXCEPT !.h.auths = @ \ {a}, !.h.dying = @ \cup {a.c}], {a.c}), {a.c}),
       Event("auth", a.c, "no"))
ReadPrompt(s, a) ==
  Emit([s EXCEPT !.h.auths = (@ \ {a}) \cup {[a EXCEPT !.awaiting = TRUE]}],
       Event("auth", a.c, "prompt"))

\* read_auth: everything the child has sent, until a verdict or until nothing is left.
ReadOne(s, c, msg, rand) ==
  IF \A a \in s.h.auths : a.c # c THEN s
  ELSE LET a == CHOOSE b \in s.h.auths : b.c = c
       IN CASE msg = "prompt" -> ReadPrompt(s, a)
            [] msg = "ok" -> ReadOk(s, a, rand)
            [] msg = "no" -> ReadNo(s, a)
            [] msg = "eof" -> ReadEnd(s, a)
ReadAll(s, c, rand) ==
  LET msgs == s.pr[c].up \o (IF Alive(s, c) THEN <<>> ELSE <<"eof">>)
  IN FoldLeft(LAMBDA t, msg : ReadOne(t, c, msg, rand), [s EXCEPT !.pr[c].up = <<>>], msgs)

ReadAuth(c, rand) ==
  /\ h.up /\ \E a \in h.auths : a.c = c
  /\ pr[c].up # <<>> \/ ~Alive(Now, c)
  /\ Take(ReadAll(Now, c, rand))

\* child_exited, of an authentication child or a supervisor.
Reap(c, rand) ==
  /\ h.up /\ pr[c].kid /\ pr[c].st = "gone"
  /\ LET s == [Now EXCEPT !.pr[c].kid = FALSE]
         read == IF \E a \in h.auths : a.c = c THEN ReadAll(s, c, rand) ELSE s
         dead == {t \in read.h.tickets : t.c = c /\ t.child}
         done == [read EXCEPT !.h.dying = @ \ {c},
                              !.h.tickets = (@ \ dead) \cup {[t EXCEPT !.child = FALSE] : t \in dead}]
     IN Take(IF dead = {} THEN done ELSE Shut(done, {c}))

\* Mutant: the children of running conversations are killed, not those that are to be gone.
TimerDying_Never(c) ==
  /\ h.up /\ (\E a \in h.auths : a.c = c) /\ Alive(Now, c)
  /\ Take(Kill(Now, {c}))
\* Mutant: an expired ticket keeps the socket of its child.
TimerTicket_Leaks == h.up /\ \E t \in h.tickets : Take([Now EXCEPT !.h.tickets = @ \ {t}])
\* timers: of a child that is to be gone, of a conversation, of a ticket, of the back-off.
TimerDying(c) ==
  /\ h.up /\ c \in h.dying /\ Alive(Now, c)
  /\ Take(Kill(Now, {c}))
TimerAuth ==
  /\ Has("late") /\ h.up
  /\ \E a \in h.auths : Take(Kill(Abort(Now, a), {a.c}))
TimerTicket ==
  /\ h.up
  /\ \E t \in h.tickets : Take(Shut([Now EXCEPT !.h.tickets = @ \ {t}], IF t.child THEN {t.c} ELSE {}))
TimerBackOff ==
  /\ h.up /\ h.wait
  /\ Take([Now EXCEPT !.h.wait = FALSE, !.lg.owed = FALSE])
TimerForget ==
  /\ h.up /\ ~h.wait /\ h.fails > 0
  /\ Take([Now EXCEPT !.h.fails = 0])

------------------------------------------------------------------------------
(* The child: converse, run_conversation and child_main.                   *)

\* A message of a child: lost when the helper has closed its end.
Say(c, msg) == IF pr[c].sock THEN Append(pr[c].up, msg) ELSE <<>>
Go(c, st) == [Now EXCEPT !.pr[c].st = st]
Says(c, st, msg) == [Now EXCEPT !.pr[c].st = st, !.pr[c].up = Say(c, msg)]
Eof(c) == ~pr[c].sock /\ pr[c].dn = <<>>
Reads(c, cmd) == pr[c].dn # <<>> /\ Head(pr[c].dn) = cmd
Read(s, c) == [s EXCEPT !.pr[c].dn = Tail(@)]

\* A prompt that wants an answer; PAM may have several.
ChildPrompt(c) ==
  /\ pr[c].st \in {"talk", "judge"}
  /\ Take(IF pr[c].sock THEN Says(c, "asked", "prompt") ELSE Go(c, "gone"))
ChildAnswered(c) == pr[c].st = "asked" /\ Reads(c, "answer") /\ Take(Read(Go(c, "judge"), c))
ChildInterrupted(c) ==
  /\ pr[c].st = "asked"
  /\ Reads(c, "abort") \/ Eof(c) \/ Has("late")
  /\ Take(Says(c, "gone", "no"))
\* The verdict, with or without a prompt before it.
ChildPasses(c) ==
  /\ pr[c].st \in {"talk", "judge"}
  /\ Take(Says(c, IF pr[c].intent = "login" THEN "parked" ELSE "gone", "ok"))
ChildFails(c) == pr[c].st \in {"talk", "judge"} /\ Take(Says(c, "gone", "no"))
\* Parked.
ChildStarts(c) == pr[c].st = "parked" /\ Reads(c, "start") /\ Take(Read(Go(c, "start"), c))
ChildSkips(c) ==
  /\ pr[c].st = "parked" /\ pr[c].dn # <<>> /\ ~Reads(c, "start")
  /\ Take(Read(Now, c))
ChildEnds(c) == pr[c].st = "parked" /\ Eof(c) /\ Take(Go(c, "gone"))
Dies(c) == Has("die") /\ Alive(Now, c) /\ Take(Kill(Now, {c}))

------------------------------------------------------------------------------
(* Sessions: open_session, read_session, and the supervisor.               *)

\* redeem and open_session.  `bad' is whether an argument is refused.
OpenSession(j, c, bad) ==
  /\ Has("open") /\ Asked("job", j)
  /\ lg.told[<<"auth", c>>] = <<"ok">>
  /\ LET s == Noted("job", j)
         had == {t \in h.tickets : t.c = c}
         child == \E t \in had : t.child
         burnt == [s EXCEPT !.h.tickets = @ \ had]
         passes == /\ child /\ pr[c].intent = "login" /\ pr[c].gen = JobGen[j] /\ ~bad
                   /\ \A e \in h.sess : Sid[e.j] # Sid[j]
                   /\ Alive(Now, c)
         entry == [j |-> j, c |-> c, asks |-> TRUE, opened |-> FALSE, timed |-> TRUE]
     IN Take(IF passes
             THEN Send([burnt EXCEPT !.h.sess = @ \cup {entry}, !.pr[c].job = j], c, "start")
             ELSE Emit(IF child THEN Shut(burnt, {c}) ELSE burnt, Event("job", j, "failed")))

CloseSession ==
  /\ Has("close") /\ h.up /\ h.conn # "none"
  /\ \E e \in h.sess : "close" \notin ToSet(pr[e.c].dn) /\ Take(Send(Now, e.c, "close"))

\* session_event and session_vanished; `reaped' is whether its wait finds the child gone.
ReadSession(e, reaped) ==
  /\ h.up /\ e \in h.sess
  /\ pr[e.c].up # <<>> \/ ~Alive(Now, e.c)
  /\ LET msg == IF pr[e.c].up = <<>> THEN "eof" ELSE Head(pr[e.c].up)
         s == IF msg = "eof" THEN Now ELSE [Now EXCEPT !.pr[e.c].up = Tail(@)]
         ended == Shut([s EXCEPT !.h.sess = @ \ {e}, !.pr[e.c].kid = @ /\ ~reaped], {e.c})
         k == CASE msg = "eof" -> IF e.opened THEN "exited" ELSE "failed" [] OTHER -> msg
         now == [e EXCEPT !.opened = TRUE, !.timed = FALSE, !.asks = FALSE]
     IN /\ reaped => (msg # "opened" /\ pr[e.c].st = "gone")
        /\ Take(IF msg = "opened" THEN Emit([s EXCEPT !.h.sess = (@ \ {e}) \cup {now}], Event("job", e.j, k))
                ELSE Emit(ended, Event("job", e.j, k)))

\* The start took too long.
TimerStart ==
  /\ Has("late") /\ h.up
  /\ \E e \in h.sess :
       /\ e.timed
       /\ Take(Emit(Shut(Kill([Now EXCEPT !.h.sess = @ \ {e}], {e.c}), {e.c}), Event("job", e.j, "failed")))

\* Supervisor::run and after_open.
SupOpen(c) == pr[c].st = "start" /\ Take([Go(c, "open") EXCEPT !.pr[c].pam = TRUE])
SupFail(c) ==
  /\ pr[c].st \in {"start", "open"}
  /\ Take([Says(c, "gone", "failed") EXCEPT !.pr[c].pam = FALSE])
SupRun(c) == pr[c].st = "open" /\ Take(Says(c, "run", "opened"))
SupClose(c) == pr[c].st = "run" /\ Reads(c, "close") /\ Take(Read(Go(c, "end"), c))
SupLeave(c) == pr[c].st = "run" /\ Take(Go(c, "end"))
SupDone(c) ==
  /\ pr[c].st = "end"
  /\ Take([Says(c, "gone", "exited") EXCEPT !.pr[c].pam = FALSE])

------------------------------------------------------------------------------
(* The greeter.                                                            *)

\* Mutant: a new greeter does not wait for the old one to go.
SpawnGreeter_Beside(g, how) ==
  /\ Has("greeter") /\ Asked("greet", g)
  /\ LET s == Noted("greet", g)
         old == s.h.greeter
         fail(t) == Emit(t, Event("greet", g, "exited"))
         out(t) == IF old = None THEN t ELSE Emit(t, Event("greet", old, "exited"))
         taken == [s EXCEPT !.h.greeter = None, !.h.term = FALSE]
         clear == [taken EXCEPT !.gr.dirs = @ \ {old}]
         new == out(clear)
     IN /\ how = "stuck" => gr.run # {}
        /\ Take(CASE how = "refused" -> fail(s)
                  [] how = "stuck" -> fail(out(taken))
                  [] how = "failed" -> fail(new)
                  [] how = "ok" -> Emit([new EXCEPT !.h.greeter = g, !.gr.run = @ \cup {g},
                                                    !.gr.dirs = @ \cup {g}],
                                        Event("greet", g, "spawned")))
\* spawn_greeter.  `how': "refused", "stuck" (processes of the old one would not die),
\* "failed" (its directories or its program), "ok".
SpawnGreeter(g, how) ==
  /\ Has("greeter") /\ Asked("greet", g)
  /\ LET s == Noted("greet", g)
         old == s.h.greeter
         fail(t) == Emit(t, Event("greet", g, "exited"))
         out(t) == IF old = None THEN t ELSE Emit(t, Event("greet", old, "exited"))
         taken == [s EXCEPT !.h.greeter = None, !.h.term = FALSE]
         clear == [taken EXCEPT !.gr.run = {}, !.gr.gone = @ \ {old}, !.gr.dirs = @ \ {old}]
         new == out(clear)
     IN /\ how = "stuck" => gr.run # {}
        /\ Take(CASE how = "refused" -> fail(s)
                  [] how = "stuck" -> fail(out(taken))
                  [] how = "failed" -> fail(new)
                  [] how = "ok" -> Emit([new EXCEPT !.h.greeter = g, !.gr.run = @ \cup {g},
                                                    !.gr.dirs = @ \cup {g}],
                                        Event("greet", g, "spawned")))

KillGreeter ==
  /\ Has("greeter") /\ h.up /\ h.conn # "none" /\ h.greeter # None /\ ~h.term
  /\ Take([Now EXCEPT !.h.term = TRUE])
\* It ends by itself, by SIGTERM, or two seconds later by SIGKILL.
GreeterEnds(g) ==
  /\ g \in gr.run
  /\ Take([Now EXCEPT !.gr.run = @ \ {g}, !.gr.gone = @ \cup {g}])
\* child_exited, of a greeter.
ReapGreeter(g) ==
  /\ h.up /\ g \in gr.gone
  /\ LET s == [Now EXCEPT !.gr.gone = @ \ {g}]
     IN Take(IF h.greeter # g THEN s
             ELSE Emit([s EXCEPT !.h.greeter = None, !.h.term = FALSE, !.gr.run = {}, !.gr.dirs = @ \ {g}],
                       Event("greet", g, "exited")))

------------------------------------------------------------------------------
(* logind's lock hint: each request is a child of its own.                 *)

\* set_locked_hint.  `bad': the session has no logind session, or the fork fails.
LockHint(n, locked, bad) ==
  /\ Has("hint") /\ Asked("hint", n) /\ \A m \in 1..(n - 1) : lg.from[<<"hint", m>>] # None
  /\ LET s == Noted("hint", n)
     IN Take(IF ~bad /\ \E e \in h.sess : e.opened
             THEN [s EXCEPT !.h.hints = @ \cup {n}, !.lg.acts[n] = "run", !.lg.vals[n] = locked]
             ELSE Emit(s, Event("hint", n, "no")))
HintCalls(n, ok) ==
  /\ lg.acts[n] = "run"
  /\ Take([Now EXCEPT !.lg.acts[n] = IF ok THEN "done" ELSE "failed",
                      !.lg.hint = IF ok THEN lg.vals[n] ELSE @])
ReapHint(n) ==
  /\ h.up /\ n \in h.hints /\ lg.acts[n] # "run"
  /\ Take(Emit([Now EXCEPT !.h.hints = @ \ {n}],
               Event("hint", n, IF lg.acts[n] = "done" THEN "ok" ELSE "no")))

------------------------------------------------------------------------------
(* The helper dies or is stopped, and starts again.                        *)

\* Authentication children, hints and the greeter die with it; supervisors do not.
Crash ==
  /\ Has("crash") /\ h.up
  /\ LET auth == {c \in Conv : pr[c].st \in Talking \cup {"parked"}}
         dead == Shut(Kill(Now, auth), Conv)
         read == IF h.conn = "live" THEN TellAll(dead, lg.wire) ELSE dead
     IN Take([read EXCEPT !.h = [NewServer EXCEPT !.up = FALSE], !.lg.wire = <<>>, !.lg.owed = FALSE,
                          !.pr = [c \in Conv |-> [read.pr[c] EXCEPT !.kid = FALSE]],
                          !.gr = [@ EXCEPT !.run = {}, !.gone = {}],
                          !.lg.acts = [n \in Hint |-> IF @[n] = "run" THEN "failed" ELSE @[n]]])

\* Server::new: clean_stale and adopt_running_sessions.
Restart ==
  /\ ~h.up /\ lg.lives < MaxLives
  /\ LET found == {c \in Conv : pr[c].st = "run"}
         entry(c) == [j |-> pr[c].job, c |-> c, asks |-> FALSE, opened |-> TRUE, timed |-> FALSE]
     IN Take([Now EXCEPT !.h = [NewServer EXCEPT !.sess = {entry(c) : c \in found}],
                         !.pr = [c \in Conv |-> [pr[c] EXCEPT !.sock = c \in found]],
                         !.gr.dirs = {}, !.lg.lives = @ + 1])

------------------------------------------------------------------------------
Requests ==
  \/ \E c \in Conv, intent \in {"login"} \cup (IF Has("unlock") THEN {"unlock"} ELSE {}),
        gen \in (IF Has("bad") THEN Gen ELSE {1}), how \in {"ok"} \cup (IF Has("bad") THEN {"refused", "nofork"} ELSE {}) :
       AuthStart(c, intent, gen, how)
  \/ AuthResponse \/ AuthAbort
  \/ \E j \in Job, c \in Conv, bad \in {FALSE} \cup (IF Has("bad") THEN {TRUE} ELSE {}) :
       OpenSession(j, c, bad)
  \/ CloseSession
  \/ \E g \in Gen, how \in {"ok", "refused", "stuck", "failed"} : SpawnGreeter(g, how)
  \/ KillGreeter
  \/ \E n \in Hint, locked, bad \in BOOLEAN : LockHint(n, locked, bad)
Peer == Accept \/ PeerRead \/ PeerClose
Rands == {TRUE} \cup (IF Has("norand") THEN {FALSE} ELSE {})
Loop ==
  \/ Flush \/ ReadEof
  \/ \E c \in Conv, rand \in Rands : ReadAuth(c, rand) \/ Reap(c, rand)
  \/ \E e \in h.sess, reaped \in BOOLEAN : ReadSession(e, reaped)
  \/ \E g \in Gen : ReapGreeter(g)
  \/ \E n \in Hint : ReapHint(n)
Timers == (\E c \in Conv : TimerDying(c)) \/ AnswerAges \/ TimerAuth \/ TimerTicket \/ TimerBackOff \/ TimerForget \/ TimerStart
Child(c) ==
  \/ ChildPrompt(c) \/ ChildAnswered(c) \/ ChildInterrupted(c) \/ ChildPasses(c) \/ ChildFails(c)
  \/ ChildStarts(c) \/ ChildSkips(c) \/ ChildEnds(c) \/ Dies(c)
  \/ SupOpen(c) \/ SupFail(c) \/ SupRun(c) \/ SupClose(c) \/ SupLeave(c) \/ SupDone(c)
Others == (\E g \in Gen : GreeterEnds(g)) \/ (\E n \in Hint, ok \in BOOLEAN : HintCalls(n, ok))
Next ==
  \/ Requests \/ Peer \/ Loop \/ Timers \/ Others
  \/ \E c \in Conv : Child(c)
  \/ Crash \/ Restart

Spec == Init /\ [][Next]_vars

\* The steps the loop owes (a source is ready, a deadline has passed) and those a child
\* takes when what it waits for has come.  PAM, the desktop and the peer owe nothing.
Served ==
  \/ ReadEof \/ TimerAuth \/ TimerTicket \/ TimerStart
  \/ \E c \in Conv :
       ReadAuth(c, TRUE) \/ Reap(c, TRUE) \/ TimerDying(c)
       \/ ChildStarts(c) \/ ChildSkips(c) \/ ChildEnds(c)
  \/ \E e \in h.sess : ReadSession(e, FALSE)

------------------------------------------------------------------------------
(* Properties.                                                             *)

\* What is on its way to the peer, about a request; prompts apart.
Queued(t) == SelectSeq(lg.wire \o h.out, LAMBDA ev : ev.to = t /\ ev.k # "prompt")
Kinds(t) == lg.told[t] \o [i \in DOMAIN Queued(t) |-> Queued(t)[i].k]
Said(t) == ToSet(Kinds(t))

\* The shape of the state.
TypeOK ==
  /\ env \in Envs
  /\ h.conn \in {"none", "live", "dead"} /\ (h.conn = "none" => h.out = <<>> /\ lg.wire = <<>>)
  /\ Len(h.out) <= MaxOut /\ Len(h.missed) <= MaxMissed /\ Len(lg.wire) <= Room
  /\ h.fails \in 0..MaxFails
  /\ \A c \in Conv :
       /\ pr[c].st \in {"none", "parked", "gone"} \cup Talking \cup Supervising
       /\ pr[c].up # <<>> => pr[c].sock
       /\ Len(pr[c].up) <= 2 /\ Len(pr[c].dn) <= 2
       /\ pr[c].pam => pr[c].job \in Job

\* Every request on this connection is pending or answered, and once: a conversation
\* by its AuthDone, an OpenSession by SessionOpened or SessionFailed (server.rs, every
\* `emit' and every removal from `auths' and `sessions').
EveryRequestIsAnswered ==
  h.conn = "live" =>
    /\ \A c \in Conv : lg.from[<<"auth", c>>] = lg.conns =>
         Len(Kinds(<<"auth", c>>)) + Cardinality({a \in h.auths : a.c = c}) = 1
    /\ \A j \in Job : lg.from[<<"job", j>>] = lg.conns =>
         Cardinality(Said(<<"job", j>>) \cap {"opened", "failed"}) +
         Cardinality({e \in h.sess : e.j = j /\ e.asks}) = 1
    /\ \A n \in Hint : lg.from[<<"hint", n>>] = lg.conns =>
         Len(Kinds(<<"hint", n>>)) + Cardinality(h.hints \cap {n}) = 1

\* What the peer hears of one session or one greeter, in the order it hears it: an exit
\* last and once, a failure alone; also for a peer that reads late (emit, flush).
StoriesAreInOrder ==
  /\ \A c \in Conv : Len(Kinds(<<"auth", c>>)) <= 1
  /\ \A j \in Job : Kinds(<<"job", j>>) \in
       {<<>>, <<"opened">>, <<"failed">>, <<"exited">>, <<"opened", "exited">>}
  /\ \A g \in Gen : Kinds(<<"greet", g>>) \in {<<>>, <<"spawned">>, <<"exited">>, <<"spawned", "exited">>}

\* Each request gets its answer, once and in order.
AnsweredOnce == EveryRequestIsAnswered /\ StoriesAreInOrder

\* "Its result is never used, even if it authenticated in the meantime" (docs/bsm/helper.md,
\* abort_auth): a conversation reported as failed opens no session and leaves no ticket.
ResultIsNotUsed ==
  \A c \in Conv : "no" \in Said(<<"auth", c>>) =>
    pr[c].st \notin Supervising /\ \A t \in h.tickets : t.c # c

\* A session reported as failed does not run, and no two desktops have one session id
\* while the helper lives (open_session, timers, session_event).
FailedMeansGone ==
  /\ \A c \in Conv : (pr[c].job # None /\ pr[c].st # "gone") => "failed" \notin Said(<<"job", pr[c].job>>)
  /\ \A c, d \in Conv : (c # d /\ ~Has("crash") /\ pr[c].job # None /\ pr[d].job # None
                         /\ Sid[pr[c].job] = Sid[pr[d].job]) => "gone" \in {pr[c].st, pr[d].st}

\* An authenticated child that waits has its ticket, or its verdict is still to be read,
\* or it has been told to start or to end: "a child that is never redeemed ends with the
\* ticket" (auth.rs:11).
ParkedHasTicket ==
  \A c \in Conv : pr[c].st = "parked" =>
    \/ [c |-> c, child |-> TRUE] \in h.tickets
    \/ \E a \in h.auths : a.c = c
    \/ "start" \in ToSet(pr[c].dn)
    \/ ~pr[c].sock

\* A desktop runs on the handle that authenticated it, for a ticket of its generation
\* (redeem, open_session, child_main).
RunsOnItsTicket ==
  \A c \in Conv : pr[c].st \in Supervising =>
    /\ pr[c].intent = "login" /\ pr[c].job # None /\ pr[c].gen = JobGen[pr[c].job]
    /\ Kinds(<<"auth", c>>) = <<"ok">>
    /\ \A d \in Conv \ {c} : pr[d].job # pr[c].job

\* Only what was authenticated, asked for and reported so runs.
OnlyWhatPassedRuns == ResultIsNotUsed /\ FailedMeansGone /\ RunsOnItsTicket

\* Only children that are still to be reaped count as dying; one that stayed in the list
\* would in the end refuse every authentication (child_exited, MAX_DYING).
DyingIsReaped == \A c \in h.dying : pr[c].kid

\* The children that authenticate or are ending are at most MAX_DYING.
ChildrenAreBounded == Cardinality(h.dying) + Cardinality(h.auths) <= MaxDying

\* No conversation runs while the delay of a guess that was taken back is owed
\* (review F7 in abort_auth: supersede first, then ask the back-off).
DelayIsServed == lg.owed => h.auths = {}

\* Every child is accounted for, and so is the delay of every guess.
ChildrenAreKnown == TypeOK /\ ParkedHasTicket /\ DyingIsReaped /\ ChildrenAreBounded /\ DelayIsServed

\* Greeters do not overlap, and the peer knows of the end of each: on this connection a
\* greeter's exit has been said exactly when the helper no longer has it.
GreetersAreFollowed ==
  /\ Cardinality(gr.run) <= 1
  /\ h.greeter # None => h.greeter \in (gr.run \cup gr.gone) \cap gr.dirs
  /\ h.conn = "live" => \A g \in Gen : lg.from[<<"greet", g>>] = lg.conns =>
       ("exited" \in Said(<<"greet", g>>) <=> h.greeter # g)

\* Nothing waits for what never comes.  When neither the loop nor a waiting child has a
\* step to take, whatever PAM, the desktop and the peer do or leave: no child is dying or
\* parked, and where deadlines pass every conversation and every OpenSession has its
\* answer (timers, next_deadline, child_main).
NothingIsStuck ==
  ~ENABLED Served =>
    /\ h.dying = {} /\ \A c \in Conv : pr[c].st # "parked"
    /\ Has("late") => h.auths = {} /\ \A e \in h.sess : ~e.asks

================================================================================
