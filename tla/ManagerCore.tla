----------------------------- MODULE ManagerCore -----------------------------
(***************************************************************************)
(* The pure core of the session manager (bsm/manager/src/core).  In the    *)
(* source `Manager::handle' is a function from an input to effects; here   *)
(* the manager is the record `m', its methods are operators from the old   *)
(* record to the new one, and m.fx collects the effects of one input.      *)
(*                                                                         *)
(* What only a reader of the D-Bus or greeter interface sees (snapshots,   *)
(* revisions, history, progress text, error codes) is left out.  A session *)
(* id stands for the pair of id and generation: both are drawn afresh for  *)
(* every session, so an id is used again only once nothing mentions it.    *)
(* The evidence the launch gate collects is reduced to the session states  *)
(* it leads to, and the presented-frame counts to whether they cover every *)
(* output with frames newer than the evidence base.                        *)
(***************************************************************************)
EXTENDS Integers, Sequences, FiniteSetsExt

CONSTANTS
  Sids,         \* session ids
  Uids,         \* accounts
  Ops,          \* operation ids, 0 .. n - 1; the counter wraps
  GGens,        \* greeter generations, 0 .. n - 1; chosen in turn
  MaxFailures,  \* Policy.max_failures
  Nil

ASSUME ManagerAssumption ==
  /\ Nil \notin Sids \cup Uids \cup Ops \cup GGens
  /\ {"None", "Greeter", "Root"} \cap Sids = {} /\ Nil \notin {"None", "Greeter", "Root"}
  /\ Ops # {} /\ Ops = 0..(Cardinality(Ops) - 1)
  /\ GGens # {} /\ GGens = 0..(Cardinality(GGens) - 1)
  /\ MaxFailures \in Nat \ {0}

------------------------------------------------------------------------------
(* States.                                                                 *)

\* enum SessionState; "none" is a session that is not in the registry.
Launching == {"Creating", "PamOpening", "GnoblinStarting", "BinguxStarting", "OutputReady"}
Locked == {"LockedBackground", "LockedGreeterForeground"}
Revealable == {"ReadyBackground"} \cup Locked
Visible == {"Foreground", "LockRequested"}
Running == Launching \cup Revealable \cup Visible
Closing == {"Stopping", "Failed"}
States == Running \cup Closing \cup {"none"}

\* tables.rs: session_legal; Terminated is the removal from the registry.
SessionLegal(from, to) ==
  \/ from \in Running /\ to \in Closing
  \/ from \in Closing /\ to = "none"
  \/ from = "ReadyBackground" /\ to = "Foreground"
  \/ from = "Foreground" /\ to = "LockRequested"
  \/ from \in {"LockRequested"} \cup Locked /\ to \in Locked \ {from}
  \/ from \in Locked /\ to = "Foreground"
  \/ <<from, to>> \in {<<"Creating", "PamOpening">>, <<"PamOpening", "GnoblinStarting">>,
                       <<"GnoblinStarting", "BinguxStarting">>, <<"BinguxStarting", "OutputReady">>,
                       <<"OutputReady", "ReadyBackground">>}

\* tables.rs: transition_legal.  Every operation phase goes with one transition
\* state (Authorising with WaitingForAuth, Preparing with WaitingForFrames and
\* Prepared), so phase_legal adds nothing.
TransitionLegal(from, to) ==
  \/ from = to
  \/ to \in CASE from = "Idle" -> {"WaitingForAuth", "WaitingForFrames", "Prepared"}
              [] from = "WaitingForAuth" -> {"WaitingForFrames", "Prepared"}
              [] from = "WaitingForFrames" -> {"Prepared"}
              [] from = "Prepared" -> {"Animating", "Committed"}
              [] from = "Animating" -> {"Committed"}
              [] OTHER -> {}

\* struct Session.  stale: the outputs changed after OutputsConfigured; ev: do
\* the surfaces cover every output, and with frames newer than evidence_base.
Evidence == {"none", "old", "fresh"}
NoSession == [st |-> "none", uid |-> Nil, rec |-> FALSE, conn |-> FALSE, stale |-> FALSE,
              ev |-> "none"]
Sessions == [st : States, uid : Uids \cup {Nil}, rec : BOOLEAN, conn : BOOLEAN,
             stale : BOOLEAN, ev : Evidence]

\* struct Operation.  A power operation is one of two kinds, as reboot and
\* power off differ in the request to logind only.
Power == {"Suspend", "PowerOff"}
OpKinds == {"Reveal", "Lock", "SwitchUser", "Logout"} \cup Power
Requesters == {"Greeter", "Root"} \cup Sids
Owners == {"None", "Greeter"} \cup Sids
NoOp == [id |-> Nil, kind |-> "None", req |-> "Root", ts |-> "Idle", sess |-> Nil,
         began |-> FALSE, creq |-> FALSE, pfail |-> FALSE, comm |-> FALSE, newl |-> FALSE,
         farmed |-> FALSE, polkit |-> FALSE, inh |-> FALSE, wait |-> {}, prev |-> "None"]
Operations == {NoOp} \cup
  [id : Ops, kind : OpKinds, req : Requesters,
   ts : {"WaitingForAuth", "WaitingForFrames", "Prepared", "Animating", "Committed"},
   sess : Sids \cup {Nil}, began : BOOLEAN, creq : BOOLEAN, pfail : BOOLEAN, comm : BOOLEAN,
   newl : BOOLEAN, farmed : BOOLEAN, polkit : BOOLEAN, inh : BOOLEAN, wait : SUBSET Sids,
   prev : Owners]

\* struct Challenge; its id and helper request are those of its operation.
\* plan is the existing session, or Nil for a new one.
NoChallenge == [op |-> Nil, uid |-> Nil, plan |-> Nil, await |-> FALSE]
Challenges == {NoChallenge} \cup
  [op : Ops, uid : Uids, plan : Sids \cup {Nil}, await : BOOLEAN]

\* struct GreeterState.
Greeters == [gen : GGens \cup {Nil}, last : GGens, pid : BOOLEAN, wl : BOOLEAN,
             ctl : {"none", "peer", "hello"}, respawn : BOOLEAN]

\* enum TimerId: the timers of a session and the others.
SessionTimers == {"Stage", "Protect", "Close", "Recovery"}
OpTimers == {"Frames", "Transition", "Checks", "Power"}
Timers == (SessionTimers \X Sids) \cup ((OpTimers \cup {"Auth", "Sleep", "GreeterRespawn"}) \X {Nil})

\* Manager::new, after Start and Recovered were handled; rec gives the account
\* of each recovered session.
Recovered(u) ==
  IF u = Nil THEN NoSession ELSE [NoSession EXCEPT !.st = "LockedBackground", !.uid = u, !.rec = TRUE]
NewManager(rec) ==
  [users |-> {}, sess |-> [s \in Sids |-> Recovered(rec[s])], sel |-> Nil, fg |-> Nil,
   prot |-> {s \in Sids : rec[s] # Nil}, chal |-> NoChallenge, owner |-> "None", op |-> NoOp,
   next |-> 0, bg |-> {}, ready |-> FALSE, outs |-> FALSE,
   gre |-> [gen |-> Nil, last |-> 0, pid |-> FALSE, wl |-> FALSE, ctl |-> "none", respawn |-> FALSE],
   helper |-> FALSE, fails |-> [u \in Uids |-> 0], shutting |-> FALSE, down |-> FALSE,
   prep |-> FALSE, sleep |-> {},
   timers |-> {<<"Recovery", s>> : s \in {x \in Sids : rec[x] # Nil}}, due |-> {}, fx |-> <<>>]

------------------------------------------------------------------------------
(* Effects and timers.                                                     *)

Push(m, effect) == [m EXCEPT !.fx = Append(@, effect)]
Push2(m, a, b) == Push(Push(m, a), b)
Arm(m, name, x) == [m EXCEPT !.timers = @ \cup {<<name, x>>}]
Disarm(m, ts) == [m EXCEPT !.timers = @ \ ts]

\* Give the input to `who' and tell the compositor.
Grant(m, who) == Push([m EXCEPT !.owner = who], <<"SetInputOwner", who>>)

------------------------------------------------------------------------------
(* Queries.                                                                *)

Active(m) == m.op.id # Nil
InConversation(m) == m.chal.op # Nil
IsIn(m, s, states) == m.sess[s].st \in states
Some(m, states) == \E s \in Sids : IsIn(m, s, states)
Among(m, states) == {s \in Sids : IsIn(m, s, states)}

RunningOf(m, uid) == {s \in Sids : m.sess[s].uid = uid /\ IsIn(m, s, Running)}
GreeterTarget(m) == Among(m, {"LockedGreeterForeground"})
PowerCommitted(m) == m.shutting \/ (m.op.kind = "PowerOff" /\ m.op.comm)

\* down is seat == ShuttingDown, as the last settle computed it.
GreeterAuthoritative(m) == ~m.down /\ ~Some(m, Visible)

SurfacesReady(m, s) == m.sess[s].ev = "fresh" /\ m.sess[s].conn /\ m.outs

\* Ids a new session may be given.
Mentioned(m) == m.bg \cup m.op.wait \cup m.sleep \cup {m.op.sess, m.op.req, m.op.prev, m.chal.plan}
Fresh(m) == {s \in Sids : IsIn(m, s, {"none"}) /\ s \notin Mentioned(m)}

------------------------------------------------------------------------------
(* Operations: bookkeeping.                                                *)

SetState(m, s, to) ==
  IF SessionLegal(m.sess[s].st, to) THEN [m EXCEPT !.sess[s].st = to] ELSE m

NewOperation(m, kind, req, s) ==
  [m EXCEPT !.op = [NoOp EXCEPT !.id = m.next, !.kind = kind, !.req = req, !.sess = s, !.prev = m.owner],
            !.next = (@ + 1) % Cardinality(Ops)]

OpSet(m, ts) ==
  IF Active(m) /\ TransitionLegal(m.op.ts, ts) THEN [m EXCEPT !.op.ts = ts] ELSE m

\* op_finish, whatever the final phase.  A conversation never outlives the
\* operation it belongs to.  (A timer of the operation that fired already finds
\* another id or none, so it is dropped with the armed ones.)
OfOperation == (OpTimers \cup {"Auth"}) \X {Nil}
OpFinish(m) ==
  IF ~Active(m) THEN m
  ELSE LET x == IF InConversation(m) /\ m.chal.op = m.op.id
                THEN Push([m EXCEPT !.chal = NoChallenge], <<"AuthAbort", m.op.id>>) ELSE m
       IN  [x EXCEPT !.op = NoOp, !.timers = @ \ OfOperation, !.due = @ \ OfOperation]

\* End the conversation without success, and its operation with it.
FailChallenge(m) ==
  IF ~InConversation(m) THEN m
  ELSE LET x == Push(Disarm([m EXCEPT !.chal = NoChallenge], {<<"Auth", Nil>>}), <<"AuthAbort", m.chal.op>>)
       IN  IF x.op.id = m.chal.op THEN OpFinish(x) ELSE x

\* Fall back to the greeter scene and fail the operation.
OpAbort(m) ==
  IF ~Active(m) THEN m
  ELSE LET x == IF m.op.began THEN Push(m, <<"CancelTransition", m.op.id>>) ELSE m
       IN  OpFinish(Push(x, <<"ShowGreeterOnly">>))

\* begin_transition.
BeginTransition(m, kind, source, target) ==
  OpSet(Arm(Disarm(Push([m EXCEPT !.op.began = TRUE],
                        <<"BeginTransition", m.op.id, kind, source, target>>),
                   {<<"Frames", Nil>>}),
            "Transition", Nil),
        "Prepared")

------------------------------------------------------------------------------
(* Sessions: cleanup.                                                      *)

\* begin_cleanup: hide, close, and wait for the exit.
Uncovered(m, s) ==
  [m EXCEPT !.fg = IF @ = s THEN Nil ELSE @, !.prot = @ \ {s}]
BeginCleanup(m, s, to) ==
  IF ~SessionLegal(m.sess[s].st, to) THEN m
  ELSE LET x == Disarm(SetState(m, s, to), {<<"Stage", s>>, <<"Recovery", s>>})
           y == Uncovered(Arm(Push2(x, <<"Protect", s>>, <<"CloseSession", s>>), "Close", s), s)
       IN  IF y.owner = s THEN Grant(y, "Greeter") ELSE y

\* terminate_session, with finish_bg_logout.  A timer of the session that is
\* still armed will find no session, so it is dropped here.
OfSession(s) == SessionTimers \X {s}
TerminateSession(m, s) ==
  [Push(m, <<"UnregisterSession", s>>) EXCEPT
     !.sess[s] = NoSession, !.prot = @ \ {s}, !.bg = @ \ {s},
     !.timers = @ \ OfSession(s), !.due = @ \ OfSession(s)]

\* fail_launch: the operation that depended on the launch ends with it.  Mutant: it
\* goes on.
FailLaunch_KeepsOp(m, s) == IF IsIn(m, s, Launching) THEN BeginCleanup(m, s, "Failed") ELSE m
FailLaunch(m, s) ==
  IF ~IsIn(m, s, Launching) THEN m
  ELSE LET x == BeginCleanup(m, s, "Failed")
       IN  IF x.op.sess = s THEN OpFinish(x) ELSE x

------------------------------------------------------------------------------
(* The reveal gate.                                                        *)

\* try_reveal.  A session that is still launching is bounded by its stage timer.
Waiting(m) == m.op.kind = "Reveal" /\ m.op.ts = "WaitingForFrames" /\ ~m.op.began /\ m.op.sess # Nil
GateOpen(m, s) == m.gre.wl /\ GreeterAuthoritative(m) /\ SurfacesReady(m, s)
\* Mutant: no timer bounds the wait for frames.
TryReveal_Untimed(m) ==
  LET s == m.op.sess
  IN  IF ~Waiting(m) THEN m
      ELSE IF IsIn(m, s, {"none"}) THEN OpFinish(m)
      ELSE IF ~IsIn(m, s, Revealable) THEN m
      ELSE IF m.op.newl /\ m.sess[s].stale THEN OpFinish(BeginCleanup(m, s, "Failed"))
      ELSE IF GateOpen(m, s)
           THEN BeginTransition(m, IF m.op.newl THEN "NewLoginFade" ELSE "UnlockSlideUp", Nil, s)
      ELSE m
TryReveal(m) ==
  LET s == m.op.sess
  IN  IF ~Waiting(m) THEN m
      ELSE IF IsIn(m, s, {"none"}) THEN OpFinish(m)
      ELSE IF ~IsIn(m, s, Revealable) THEN m
      ELSE IF m.op.newl /\ m.sess[s].stale THEN OpFinish(BeginCleanup(m, s, "Failed"))
      ELSE IF GateOpen(m, s)
           THEN BeginTransition(m, IF m.op.newl THEN "NewLoginFade" ELSE "UnlockSlideUp", Nil, s)
      ELSE IF m.op.farmed THEN m
      ELSE Arm([m EXCEPT !.op.farmed = TRUE], "Frames", Nil)

------------------------------------------------------------------------------
(* Sleep preparation.                                                      *)

FinishSleepPrep(m) ==
  LET x == Disarm([m EXCEPT !.prep = FALSE, !.sleep = {}], {<<"Sleep", Nil>>})
      y == IF GreeterAuthoritative(x) THEN Grant(x, "Greeter") ELSE x
  IN  Push2(y, <<"ShowGreeterOnly">>, <<"SleepReady">>)

MaybeSleepReady(m) == IF m.prep /\ m.sleep = {} THEN FinishSleepPrep(m) ELSE m

------------------------------------------------------------------------------
(* Loss of a session.                                                      *)

\* session_lost: the session died without being asked to.
OnGreeter(m) ==
  LET x == Push(m, <<"ShowGreeterOnly">>)
  IN  IF x.owner # "Greeter" THEN Grant(x, "Greeter") ELSE x
SessionLost(m, s) ==
  LET involved == m.op.sess = s
      x == BeginCleanup(IF involved THEN OpAbort(m) ELSE m, s, "Failed")
      y == IF x.prep /\ s \in x.sleep THEN MaybeSleepReady([x EXCEPT !.sleep = @ \ {s}]) ELSE x
      z == IF involved \/ IsIn(m, s, Visible \cup {"LockedGreeterForeground"}) THEN OnGreeter(y) ELSE y
      uid == m.sess[s].uid
  IN  IF ~IsIn(m, s, Running) THEN m
      ELSE IF IsIn(m, s, Launching) THEN FailLaunch(m, s)
      ELSE [(IF z.sel # uid THEN FailChallenge(z) ELSE z) EXCEPT !.sel = uid]

------------------------------------------------------------------------------
(* Starting operations.                                                    *)

\* cancel_immediate: nothing was begun, so nothing is to be undone on screen.
\* Mutant: the half-started session goes on starting.
CancelImmediate_Launching(m) ==
  IF m.op.kind = "Reveal" /\ InConversation(m) /\ m.chal.op = m.op.id THEN FailChallenge(m) ELSE OpFinish(m)
CancelImmediate(m) ==
  IF m.op.kind = "Reveal" /\ InConversation(m) /\ m.chal.op = m.op.id THEN FailChallenge(m)
  ELSE IF m.op.kind = "Reveal" /\ m.op.newl /\ m.op.sess # Nil /\ IsIn(m, m.op.sess, Launching)
       THEN OpFinish(BeginCleanup(m, m.op.sess, "Stopping"))
  ELSE OpFinish(m)

\* interrupt_current is refused, or leaves no operation.
Interruptible(m) ==
  Active(m) => ~m.op.comm /\ ~m.op.began /\ m.op.kind \notin {"Lock", "SwitchUser"}
Interrupted(m) == IF Active(m) THEN CancelImmediate(m) ELSE m

\* May `req' start an operation: a session never preempts one.
MayStart(m, req) == Interruptible(m) /\ (req \in Sids => ~Active(m))

\* begin_protect: revoke input, then protect and wait for the acknowledgement.
\* Mutant: the input is revoked only with the acknowledgement.
BeginProtect_KeepsInput(m, s) ==
  Arm(Push(SetState(m, s, "LockRequested"), <<"Protect", s>>), "Protect", s)
BeginProtect(m, s) ==
  LET x == IF m.owner = s THEN Grant(m, "None") ELSE m
  IN  Arm(Push(SetState(x, s, "LockRequested"), <<"Protect", s>>), "Protect", s)

RequestLock(m, req, s, kind) ==
  LET x == OpSet(NewOperation(Interrupted(m), kind, req, s), "WaitingForFrames")
  IN  IF IsIn(m, s, {"Foreground"}) /\ MayStart(m, req)
      THEN BeginProtect([x EXCEPT !.op.wait = {s}, !.sel = m.sess[s].uid], s) ELSE m

\* logout_hidden: a session that is not on screen is closed at once.
LogoutHidden(m, s) ==
  LET x == IF m.op.sess = s THEN OpAbort(m) ELSE m
      y == BeginCleanup([x EXCEPT !.bg = @ \cup {s}], s, "Stopping")
  IN  IF s \in m.bg THEN x
      ELSE IF IsIn(m, s, {"LockedGreeterForeground"}) THEN Push(y, <<"ShowGreeterOnly">>) ELSE y

RequestLogout(m, req, s) ==
  LET x == OpSet(NewOperation(Interrupted(m), "Logout", req, s), "WaitingForFrames")
  IN  IF ~IsIn(m, s, Running \ {"LockRequested"}) THEN m
      ELSE IF ~IsIn(m, s, {"Foreground"}) THEN LogoutHidden(m, s)
      ELSE IF MayStart(m, req) THEN BeginTransition(x, "LogoutFade", s, Nil)
      ELSE m

\* The greeter may not power off while somebody is signed in (default policy).
GreeterMayPower(m, kind) == kind = "Suspend" \/ ~Some(m, Running)
RequestPower(m, req, kind) ==
  LET x == NewOperation(Interrupted(m), kind, req, Nil)
  IN  IF PowerCommitted(m) \/ ~MayStart(m, req) THEN m
      ELSE Arm(OpSet([x EXCEPT !.op.polkit = req \notin Sids], "WaitingForAuth"), "Checks", Nil)

CancelOperation(m, who) ==
  IF \/ ~Active(m) \/ m.op.comm
     \/ who # "Root" /\ who # m.op.req
     \/ m.op.kind \in {"Lock", "SwitchUser"}
  THEN m
  ELSE IF ~m.op.began THEN CancelImmediate(m)
  ELSE IF m.op.creq THEN m
  ELSE Push([m EXCEPT !.op.creq = TRUE], <<"CancelTransition", m.op.id>>)

------------------------------------------------------------------------------
(* Power.                                                                  *)

\* protect_visible_sessions, and those whose acknowledgement is awaited.
ProtectOne(s, m) ==
  IF IsIn(m, s, {"Foreground"}) THEN BeginProtect([m EXCEPT !.sel = m.sess[s].uid], s) ELSE m
ProtectVisible(m) == FoldSet(ProtectOne, m, Among(m, Visible))

SuspendSceneReady(m) == BeginTransition(Grant(m, "Greeter"), "Suspend", Nil, Nil)

\* The cover or the lock scene is committed: now, and only now, call logind.
CommitPower(m) ==
  LET x == IF m.op.kind = "Suspend" THEN m ELSE Grant(m, "None")
  IN  OpSet(Arm(Push(x, <<"SystemPower", m.op.kind>>), "Power", Nil), "Committed")

\* Mutant: the suspend does not wait for the acknowledgements.
PowerChecksDone_Hasty(m) ==
  LET x == OpSet(Disarm(m, {<<"Checks", Nil>>}), "WaitingForFrames")
      shown == Among(m, {"Foreground"})
      source == IF shown = {} THEN Nil ELSE CHOOSE s \in shown : TRUE
  IN  IF ~m.op.polkit \/ ~m.op.inh THEN m
      ELSE IF m.op.kind = "PowerOff" THEN BeginTransition(x, "PowerFade", source, Nil)
      ELSE SuspendSceneReady(ProtectVisible(x))
PowerChecksDone(m) ==
  LET x == OpSet(Disarm(m, {<<"Checks", Nil>>}), "WaitingForFrames")
      shown == Among(m, {"Foreground"})
      source == IF shown = {} THEN Nil ELSE CHOOSE s \in shown : TRUE
      waiting == [ProtectVisible(x) EXCEPT !.op.wait = Among(m, Visible)]
  IN  IF ~m.op.polkit \/ ~m.op.inh THEN m
      ELSE IF m.op.kind = "PowerOff" THEN BeginTransition(x, "PowerFade", source, Nil)
      ELSE IF waiting.op.wait = {} THEN SuspendSceneReady(waiting) ELSE waiting

\* Give the input back to who had it before the operation.
RollbackPowerScene(m) ==
  LET prev == m.op.prev
      restorable == prev \in Sids => IsIn(m, prev, {"Foreground"}) /\ prev \notin m.prot
  IN  IF m.op.kind = "PowerOff" /\ m.op.comm THEN Grant(m, IF restorable THEN prev ELSE "Greeter") ELSE m

PowerResult(m, ok) ==
  IF ~(m.op.kind \in Power /\ m.op.comm /\ ~m.op.pfail) THEN m
  ELSE IF ok THEN OpFinish([m EXCEPT !.shutting = @ \/ m.op.kind = "PowerOff"])
  ELSE IF m.op.kind = "Suspend" THEN OpFinish(m)
  ELSE Arm(Push([m EXCEPT !.op.pfail = TRUE, !.op.creq = TRUE], <<"CancelTransition", m.op.id>>),
           "Power", Nil)

------------------------------------------------------------------------------
(* Reports of the compositor on the transition.                            *)

\* The greeter gets the input unless a session is in the foreground.
GreeterTakesInput(m) ==
  IF m.owner # "Greeter" /\ ~Some(m, {"Foreground"}) THEN Grant(m, "Greeter") ELSE m

TransitionFailed(m) ==
  OpFinish(CASE m.op.kind \in {"Lock", "SwitchUser"} -> Push(m, <<"ShowGreeterOnly">>)
             [] m.op.kind \in Power -> RollbackPowerScene(m)
             [] OTHER -> GreeterTakesInput(m))

CommitReveal(m, s) ==
  LET x == SetState([m EXCEPT !.op.comm = TRUE, !.prot = @ \ {s}], s, "Foreground")
  IN  IF ~IsIn(m, s, Revealable) THEN OpAbort(m)
      ELSE OpSet(Grant([x EXCEPT !.fg = s, !.sel = m.sess[s].uid, !.sess[s].stale = FALSE], s),
                 "Committed")
CommitLogout(m, s) ==
  OpSet([BeginCleanup(Grant([m EXCEPT !.op.comm = TRUE], "Greeter"), s, "Stopping") EXCEPT
           !.sel = IF m.sess[s].uid # Nil THEN m.sess[s].uid ELSE @], "Committed")
CommitOp(m) ==
  IF m.op.comm THEN m
  ELSE CASE m.op.kind = "Reveal" -> CommitReveal(m, m.op.sess)
         [] m.op.kind = "Logout" -> CommitLogout(m, m.op.sess)
         [] m.op.kind \in Power -> CommitPower([m EXCEPT !.op.comm = TRUE])
         [] OTHER -> OpSet([m EXCEPT !.op.comm = TRUE], "Committed")

CompleteTransition(m) == IF m.op.kind \in Power THEN m ELSE OpFinish(m)

PhaseCounts(m, id) == m.op.id = id /\ m.op.began
TransitionPhase(m, id, phase) ==
  IF ~PhaseCounts(m, id) THEN m
  ELSE CASE phase = "Prepared" -> m
         [] phase = "Animating" -> IF m.op.comm THEN m ELSE OpSet(m, "Animating")
         [] phase = "Committed" -> CommitOp(m)
         [] phase = "Completed" -> CompleteTransition(CommitOp(m))
         [] phase = "Failed" -> TransitionFailed(m)
         [] phase = "Cancelled" -> IF m.op.creq THEN OpFinish(RollbackPowerScene(m)) ELSE TransitionFailed(m)

------------------------------------------------------------------------------
(* Acknowledged protection.                                                *)

\* on_protected.  The first locked session of the selected account gets the
\* unlock form.
LockSceneReady(m) == BeginTransition(Grant(m, "Greeter"), m.op.kind, m.op.sess, Nil)
SceneReady(m) ==
  IF ~(Active(m) /\ m.op.wait = {} /\ m.op.ts = "WaitingForFrames") THEN m
  ELSE CASE m.op.kind \in {"Lock", "SwitchUser"} -> LockSceneReady(m)
         [] m.op.kind = "Suspend" -> SuspendSceneReady(m)
         [] OTHER -> m
OnProtected(m, s) ==
  LET form == m.sel = m.sess[s].uid /\ GreeterTarget(m) = {}
      x == SetState(Disarm([m EXCEPT !.prot = @ \cup {s}], {<<"Protect", s>>}), s,
                    IF form THEN "LockedGreeterForeground" ELSE "LockedBackground")
      y == SceneReady([x EXCEPT !.op.wait = @ \ {s}])
  IN  IF ~IsIn(m, s, {"LockRequested"}) THEN m
      ELSE MaybeSleepReady([y EXCEPT !.sleep = @ \ {s}])

------------------------------------------------------------------------------
(* Authentication.                                                         *)

SelectUser(m, uid) ==
  LET x == IF m.op.ts = "WaitingForAuth" THEN FailChallenge(m) ELSE m
      form(s) == IsIn(x, s, {"LockedGreeterForeground"}) /\ x.sess[s].uid # uid
  IN  IF ~GreeterAuthoritative(m) \/ uid \notin m.users \/ m.sel = uid
         \/ (Active(m) /\ m.op.ts # "WaitingForAuth")
      THEN m
      ELSE [x EXCEPT !.sel = uid,
                     !.sess = [s \in Sids |-> IF form(s) THEN [x.sess[s] EXCEPT !.st = "LockedBackground"]
                                              ELSE x.sess[s]]]

\* The session an authentication of uid acts on: Nil for a new one.  Mutant: the
\* account of the session is not compared.
Plans_AnyAccount(m, uid, intent) ==
  IF intent = "Unlock" THEN GreeterTarget(m)
  ELSE IF RunningOf(m, uid) = {} THEN {Nil}
  ELSE {s \in RunningOf(m, uid) : IsIn(m, s, Revealable)}
Plans(m, uid, intent) ==
  IF intent = "Unlock" THEN {s \in GreeterTarget(m) : m.sess[s].uid = uid}
  ELSE IF RunningOf(m, uid) = {} THEN {Nil}
  ELSE {s \in RunningOf(m, uid) : IsIn(m, s, Revealable)}

\* greeter_begin_auth.  A newer request supersedes a conversation, and the user
\* at the keyboard goes before a session's power request that is being checked.
Superseded(m) ==
  LET x == IF m.op.ts = "WaitingForAuth" THEN FailChallenge(m) ELSE m
  IN  IF x.op.kind \in Power /\ ~x.op.began /\ ~x.op.comm /\ x.op.req \in Sids
      THEN CancelImmediate(x) ELSE x
BeginAuth(m, uid, intent) ==
  LET x == Superseded(m)
      plans == Plans(x, uid, intent)
      plan == CHOOSE p \in plans : TRUE
      y == NewOperation(x, "Reveal", "Greeter", plan)
  IN  IF \/ ~GreeterAuthoritative(m) \/ ~m.helper \/ uid \notin m.users \/ m.sel # uid
         \/ m.fails[uid] >= MaxFailures
      THEN m
      ELSE IF Active(x) \/ plans = {} THEN x
      ELSE Arm(Push(OpSet([y EXCEPT !.chal = [op |-> y.op.id, uid |-> uid, plan |-> plan, await |-> FALSE]],
                          "WaitingForAuth"),
                    <<"AuthStart", y.op.id>>),
               "Auth", Nil)

\* The guess is charged when it is submitted.
AuthResponse(m) ==
  IF ~m.chal.await THEN m
  ELSE [m EXCEPT !.chal.await = FALSE,
                 !.fails[m.chal.uid] = IF @ < MaxFailures THEN @ + 1 ELSE @]

\* create_session, for id s.
CreateSession(m, s, uid) ==
  Arm(Push([m EXCEPT !.sess[s] = [NoSession EXCEPT !.st = "Creating", !.uid = uid]],
           <<"RegisterSession", s>>),
      "Stage", s)

\* on_auth_success.  A hidden session must show a frame newer than it had.
NewLogin(m, s, uid) ==
  OpSet([CreateSession(m, s, uid) EXCEPT !.op.sess = s, !.op.newl = TRUE], "WaitingForFrames")
Older(ev) == IF ev = "fresh" THEN "old" ELSE ev
Resume(m, s) ==
  LET first == IsIn(m, s, {"ReadyBackground"})
      x == OpSet([m EXCEPT !.op.sess = s, !.op.newl = first], "WaitingForFrames")
  IN  TryReveal(IF first THEN x
                ELSE Push([x EXCEPT !.sess[s].ev = Older(@)], <<"RequestEvidence", s>>))

\* on_auth_done of the conversation in progress; s is the id of a new session.
\* The challenge is gone before anything is decided.
StillValid(m, c) ==
  /\ m.sel = c.uid /\ m.op.id = c.op /\ m.gre.ctl # "none"
  /\ IF c.plan = Nil THEN RunningOf(m, c.uid) = {} ELSE IsIn(m, c.plan, Revealable)
AuthDone(m, ok, s) ==
  LET c == m.chal
      x == Disarm([m EXCEPT !.chal = NoChallenge], {<<"Auth", Nil>>})
      y == [x EXCEPT !.fails[c.uid] = 0]
  IN  IF ~ok THEN (IF x.op.id = c.op THEN OpFinish(x) ELSE x)
      ELSE IF ~StillValid(y, c) THEN (IF y.op.id = c.op THEN OpFinish(y) ELSE y)
      ELSE IF c.plan = Nil THEN NewLogin(y, s, c.uid) ELSE Resume(y, c.plan)

------------------------------------------------------------------------------
(* The greeter process.                                                    *)

MaybeSpawnGreeter(m) ==
  LET g == (m.gre.last + 1) % Cardinality(GGens)
  IN  IF ~m.helper \/ ~m.ready \/ m.gre.gen # Nil \/ m.gre.respawn THEN m
      ELSE Push([m EXCEPT !.gre.gen = g, !.gre.last = g, !.gre.pid = FALSE], <<"SpawnGreeter", g>>)

\* greeter_lost: nothing it protected is released.
GreeterLost(m) ==
  LET x == FailChallenge([m EXCEPT !.owner = IF @ = "Greeter" THEN "None" ELSE @,
                                   !.gre = [@ EXCEPT !.gen = Nil, !.pid = FALSE, !.wl = FALSE, !.ctl = "none"]])
  IN  IF x.gre.respawn THEN x ELSE Arm([x EXCEPT !.gre.respawn = TRUE], "GreeterRespawn", Nil)

HelperConnected(m) ==
  MaybeSpawnGreeter([m EXCEPT !.helper = TRUE, !.gre.gen = IF m.gre.wl THEN @ ELSE Nil])

HelperLost(m) ==
  LET FailOne(s, x) == FailLaunch(x, s)
      opened == Among(m, Launching \ {"Creating"})
  IN  FoldSet(FailOne, FailChallenge([m EXCEPT !.helper = FALSE]), opened)

------------------------------------------------------------------------------
(* Events about sessions and outputs.                                      *)

\* on_accounts, once after the start; u is the account used last, or the first.
OnAccounts(m, users, u) ==
  [m EXCEPT !.users = users, !.sel = IF @ \in users THEN @ ELSE u]

OnSocketReady(m, s) ==
  IF m.sess[s].rec THEN Push2(m, <<"BindHost", s>>, <<"Protect", s>>)
  ELSE IF IsIn(m, s, {"Creating"}) THEN SetState(Push(m, <<"OpenSession", s>>), s, "PamOpening")
  ELSE m

\* A launch keeps one timer, for the stage that is pending; the timer of an
\* earlier stage that fired already is ignored.
NewStage(m, s) == Arm([m EXCEPT !.due = @ \ {<<"Stage", s>>}], "Stage", s)

OnSessionOpened(m, s, valid) ==
  IF ~IsIn(m, s, {"PamOpening"}) THEN m
  ELSE IF ~valid THEN FailLaunch(m, s)
  ELSE NewStage(SetState(Push(m, <<"BindHost", s>>), s, "GnoblinStarting"), s)

OnSessionConnected(m, s) ==
  LET x == [m EXCEPT !.sess[s].conn = TRUE]
  IN  IF m.sess[s].rec /\ IsIn(m, s, Running) THEN TryReveal(Disarm(x, {<<"Recovery", s>>}))
      ELSE IF IsIn(m, s, {"GnoblinStarting"}) THEN x
      ELSE m

\* advance_launch: the evidence for the next state of a launch is complete.
\* Gnoblin reports only over the bridge; what follows needs every output.
NextStage(st) ==
  CASE st = "GnoblinStarting" -> "BinguxStarting"
    [] st = "BinguxStarting" -> "OutputReady"
    [] OTHER -> "ReadyBackground"
AdvanceLaunch(m, s) ==
  LET to == NextStage(m.sess[s].st)
      x == NewStage(SetState(m, s, to), s)
  IN  IF to # "ReadyBackground" THEN x
      ELSE TryReveal(Disarm([x EXCEPT !.sess[s].ev = "fresh"], {<<"Stage", s>>}))
MayAdvance(m, s) ==
  /\ IsIn(m, s, {"GnoblinStarting", "BinguxStarting", "OutputReady"})
  /\ m.sess[s].conn
  /\ m.outs \/ IsIn(m, s, {"GnoblinStarting"})

\* on_surfaces of a session that is not launching.
OnSurfaces(m, s, ev) == TryReveal([m EXCEPT !.sess[s].ev = ev])

OnSessionGone(m, s) ==
  LET x == [m EXCEPT !.sess[s].conn = FALSE]
  IN  IF ~IsIn(m, s, Running) THEN m
      ELSE IF m.sess[s].rec THEN x
      ELSE SessionLost(x, s)

OnSessionExited(m, s) ==
  IF IsIn(m, s, Closing) THEN TerminateSession(m, s) ELSE SessionLost(m, s)

\* update_outputs to a different list; any: it is not empty; adv: the launches
\* whose OutputsConfigured the change completes; ev: what the surfaces of the
\* others cover now.
OnOutputsChanged(m, any, adv, ev) ==
  LET Changed(s, x) ==
        IF IsIn(x, s, {"OutputReady"}) THEN FailLaunch(x, s)
        ELSE IF s \in adv /\ any /\ MayAdvance(x, s) /\ IsIn(x, s, {"BinguxStarting"})
        THEN AdvanceLaunch(x, s) ELSE x
      seen(s) == [m.sess[s] EXCEPT !.stale = @ \/ IsIn(m, s, {"ReadyBackground"}),
                                   !.ev = IF IsIn(m, s, Running \ Launching) THEN ev[s] ELSE @]
      x == [m EXCEPT !.outs = any, !.sess = [s \in Sids |-> seen(s)]]
  IN  TryReveal(FoldSet(Changed, x, Among(m, Launching \ {"Creating"})))

OnReady(m, any, ev) ==
  LET x == IF any = m.outs /\ ~any THEN m ELSE OnOutputsChanged(m, any, {}, ev)
  IN  MaybeSpawnGreeter(Push([x EXCEPT !.ready = TRUE], <<"ShowGreeterOnly">>))

\* InputOwnerChanged: an owner that contradicts the manager is corrected.
OnInputOwner(m, who) ==
  IF who \in Sids => m.fg = who /\ IsIn(m, who, {"Foreground"}) /\ who \notin m.prot
  THEN [m EXCEPT !.owner = who] ELSE Push(m, <<"SetInputOwner", m.owner>>)

\* Mutant: sleep is allowed at once.
OnPrepareForSleep_Hasty(m, start) == IF start THEN Push(m, <<"SleepReady">>) ELSE m
OnPrepareForSleep(m, start) ==
  LET idle == CASE m.op.began /\ ~m.op.comm -> OpAbort(m)
                [] Active(m) /\ ~m.op.began /\ ~m.op.comm /\ Interruptible(m) -> Interrupted(m)
                [] OTHER -> m
      x == [ProtectVisible(idle) EXCEPT !.prep = TRUE, !.sleep = Among(idle, Visible)]
      again == {<<"Protect", s>> : s \in Among(m, {"LockRequested"} \cup Locked)}
      y == FoldSet(LAMBDA c, a : Push(a, c), Push(m, <<"SetDpms", TRUE>>), again)
  IN  IF start
      THEN IF m.op.kind = "Suspend" /\ m.op.comm THEN Push(m, <<"SleepReady">>)
           ELSE IF m.prep THEN m
           ELSE MaybeSleepReady(Arm(x, "Sleep", Nil))
      ELSE IF ~Active(m) /\ GreeterAuthoritative(m) THEN Grant(Push(y, <<"ShowGreeterOnly">>), "Greeter")
      ELSE y

------------------------------------------------------------------------------
(* Timers.                                                                 *)

OnProtectTimeout(m, s) ==
  LET x == Arm(Push2(m, <<"ShowGreeterOnly">>, <<"Protect", s>>), "Protect", s)
  IN  IF ~IsIn(m, s, {"LockRequested"}) THEN m ELSE IF s \in m.op.wait THEN OpFinish(x) ELSE x

OnTransitionTimeout(m) ==
  IF ~Active(m) THEN m
  ELSE IF m.op.comm THEN CompleteTransition(m)
  ELSE OpAbort(GreeterTakesInput(m))

OnPowerTimeout(m) ==
  IF m.op.pfail THEN OpFinish(RollbackPowerScene(m)) ELSE PowerResult(m, FALSE)

OnTimer(m, t) ==
  LET name == t[1]
      s == t[2]
  IN  CASE name = "GreeterRespawn" -> MaybeSpawnGreeter([m EXCEPT !.gre.respawn = FALSE])
        [] name = "Stage" -> FailLaunch(m, s)
        [] name = "Protect" -> OnProtectTimeout(m, s)
        [] name = "Frames" -> IF ~m.op.began /\ m.op.ts = "WaitingForFrames" THEN OpFinish(m) ELSE m
        [] name = "Auth" -> FailChallenge(m)
        [] name = "Close" -> IF IsIn(m, s, Closing) THEN TerminateSession(m, s) ELSE m
        [] name = "Transition" -> OnTransitionTimeout(m)
        [] name = "Checks" -> IF m.op.kind \in Power /\ m.op.ts = "WaitingForAuth" THEN OpFinish(m) ELSE m
        [] name = "Power" -> OnPowerTimeout(m)
        [] name = "Sleep" -> IF m.prep THEN FinishSleepPrep(m) ELSE m
        [] name = "Recovery" -> IF m.sess[s].rec /\ ~m.sess[s].conn THEN SessionLost(m, s) ELSE m

------------------------------------------------------------------------------
\* settle, after every input: the greeter owns the input whenever it is what the
\* seat shows.  Mutant: only a greeter that was given the input has it.
Settle_Passive(m) == [m EXCEPT !.down = PowerCommitted(m)]
Settle(m) ==
  LET x == IF /\ m.gre.wl /\ m.owner = "None" /\ GreeterAuthoritative(m)
              /\ ~PowerCommitted(m) /\ ~m.op.pfail
           THEN Grant(m, "Greeter") ELSE m
  IN  [x EXCEPT !.down = PowerCommitted(x)]
==============================================================================
