----------------------------- MODULE SceneEngine -----------------------------
(***************************************************************************)
(* The scene and transition engine of the compositor                       *)
(* (bsm/compositor/src/engine.rs).  The engine is a pure value in the      *)
(* source; here it is the record `e', and every method that mutates it is  *)
(* an operator from the old record to the new one.  The module has no      *)
(* variables: Compositor holds the record and calls the operators.         *)
(*                                                                         *)
(* Opacities and offsets are reduced to the one thing that decides whether *)
(* a session's pixels are on a screen: is the timeline of the transition   *)
(* at its start (0), under way (1) or at its end (2).                      *)
(***************************************************************************)
EXTENDS Integers, Sequences

CONSTANTS
  Sids,   \* session ids
  Gens,   \* generations a session id may be registered with
  Ops,    \* operation ids chosen by the manager
  Nil     \* the value of an absent Option

ASSUME NilIsNoKey == Nil \notin (Sids \X Gens) /\ Nil \notin Ops

Keys == Sids \X Gens

Kinds == {"NewLoginFade", "UnlockSlideUp", "Lock", "SwitchUser", "Suspend",
          "LogoutFade", "PowerFade"}
RevealKinds == {"NewLoginFade", "UnlockSlideUp"}
LockFamily == {"Lock", "SwitchUser", "Suspend"}
Start == 0
End   == 2

------------------------------------------------------------------------------
\* enum Base.
Cover == [scene |-> "cover", key |-> Nil]
Greeter == [scene |-> "greeter", key |-> Nil]
Session(k) == [scene |-> "session", key |-> k]
Bases == {Cover, Greeter} \cup {Session(k) : k \in Keys}

\* struct Running; "none" is the absent value.  started is start_ms.is_some(),
\* quick is a transition of one frame (reduce_motion, or no duration).
NoRun == [phase |-> "none", op |-> Nil, kind |-> Nil, source |-> Nil, target |-> Nil,
          snapshot |-> Cover, wasProt |-> FALSE, started |-> FALSE, t |-> Start,
          reverse |-> FALSE, quick |-> FALSE]

\* struct Held: a committed power fade whose cover is held.
NoHeld == [op |-> Nil, snapshot |-> Cover, quick |-> FALSE]

\* Engine::new.
NewEngine == [base |-> Cover, prot |-> {}, run |-> NoRun, held |-> NoHeld,
              queued |-> {}, flight |-> {}, out |-> <<>>]

PhaseEvents == {"Prepared", "Animating", "Committed", "Completed", "Cancelled", "Failed"}
PhaseEvent(op, ph) == [ev |-> "TransitionPhase", op |-> op, phase |-> ph]
ProtectedEvent(ks) == [ev |-> "Protected", keys |-> ks]

ActiveRuns == [phase : {"Prepared", "Animating", "Settling"}, op : Ops, kind : Kinds,
               source : Keys \cup {Nil}, target : Keys \cup {Nil}, snapshot : Bases,
               wasProt : BOOLEAN, started : BOOLEAN, t : Start..End, reverse : BOOLEAN,
               quick : BOOLEAN]
Runs == {NoRun} \cup ActiveRuns
Helds == {NoHeld} \cup [op : Ops, snapshot : Bases, quick : BOOLEAN]
EngineEvents == [ev : {"TransitionPhase"}, op : Ops, phase : PhaseEvents]
                  \cup [ev : {"Protected"}, keys : SUBSET Keys]
Engines == [base : Bases, prot : SUBSET Keys, run : Runs,
            held : Helds, queued : SUBSET Keys, flight : SUBSET Keys, out : Seq(EngineEvents)]

Some(k) == {k} \ {Nil}
Emit(e, x) == [e EXCEPT !.out = Append(@, x)]
WithRun(e, r) == [e EXCEPT !.run = r]

------------------------------------------------------------------------------
(* Queries.                                                                *)

Running(e) == e.run.phase # "none"
Uncommitted(e) == e.run.phase \in {"Prepared", "Animating"}

\* The committed, fully visible foreground, or Nil.
ForegroundSession(e) ==
  IF /\ e.base.scene = "session"
     /\ ~Uncommitted(e)
     /\ e.base.key \notin e.prot
  THEN e.base.key ELSE Nil

GreeterOwnsScene(e) ==
  IF Running(e) /\ e.run.kind # "PowerFade" THEN TRUE ELSE e.base = Greeter

HasQueuedProtect(e) == e.queued # {} \/ e.flight # {}

\* A probe is [greeter: the greeter is presentable, exists: registered keys,
\* presentable: keys whose every output is proven].
\* Mutant: a transition does not notice that its session was protected.
MayShow_Protected(e, k, probe) == k \in probe.exists \cap probe.presentable
MayShow(e, k, probe) == k \notin e.prot /\ k \in probe.exists \cap probe.presentable

Validate(e, r, probe) ==
  /\ r.kind # "PowerFade" => probe.greeter
  /\ r.kind \in RevealKinds => MayShow(e, r.target, probe)
  /\ r.kind = "LogoutFade" => MayShow(e, r.source, probe)

\* Mutant: a power fade ends on the greeter.
EndScene_NoCover(kind, target) ==
  IF kind \in RevealKinds THEN (IF target = Nil THEN Greeter ELSE Session(target)) ELSE Greeter
EndScene(kind, target) ==
  IF kind \in RevealKinds THEN (IF target = Nil THEN Greeter ELSE Session(target))
  ELSE IF kind = "PowerFade" THEN Cover ELSE Greeter

------------------------------------------------------------------------------
(* Commands.                                                               *)

Protect(e, k) ==
  [e EXCEPT !.prot = @ \cup {k},
            !.base = IF @ = Session(k) THEN Cover ELSE @,
            !.queued = IF k \in e.flight THEN @ ELSE @ \cup {k}]

UnregisterKey(e, k) ==
  [e EXCEPT !.prot = @ \ {k}, !.queued = @ \ {k}, !.flight = @ \ {k},
            !.base = IF @ = Session(k) THEN Cover ELSE @]

\* The target of a transition that ends before its commit is protected again
\* when it was protected before.
Reprotected(e, r) == e.prot \cup (IF r.wasProt THEN Some(r.target) ELSE {})

OnGreeter(e) == [e EXCEPT !.held = NoHeld, !.run = NoRun, !.base = Greeter]
ShowGreeterOnly(e) ==
  OnGreeter(CASE Uncommitted(e) -> Emit([e EXCEPT !.prot = Reprotected(e, e.run)],
                                        PhaseEvent(e.run.op, "Cancelled"))
              [] e.run.phase = "Settling" -> Emit(e, PhaseEvent(e.run.op, "Completed"))
              [] OTHER -> e)

\* The safe scene after a failed transition.
FailSafe(e, r) ==
  [e EXCEPT !.prot = @ \cup Some(r.source) \cup Some(r.target) \cup Some(e.base.key),
            !.base = Greeter]

NewRun(e, op, kind, source, target, quick) ==
  [phase |-> "Prepared", op |-> op, kind |-> kind, source |-> source, target |-> target,
   snapshot |-> e.base, wasProt |-> target \in e.prot, started |-> FALSE, t |-> Start,
   reverse |-> FALSE, quick |-> quick]
\* A reveal lifts the protection of its target, a lock protects its source.
Lifted(e, kind, target) ==
  [e EXCEPT !.held = NoHeld, !.prot = IF kind \in RevealKinds THEN @ \ {target} ELSE @]
Shielded(e, kind, source) ==
  IF kind \in LockFamily /\ source # Nil /\ source \notin e.prot THEN Protect(e, source) ELSE e
Refused(e, r) ==
  FailSafe(Emit([e EXCEPT !.prot = Reprotected(e, r)], PhaseEvent(r.op, "Failed")), r)

Begin(e, probe, op, kind, source, target, quick) ==
  LET r == NewRun(e, op, kind, source, target, quick)
      lifted == Lifted(e, kind, target)
  IN  IF Running(e) THEN Emit(e, PhaseEvent(op, "Failed"))
      ELSE IF ~Validate(lifted, r, probe) THEN Refused(lifted, r)
      ELSE WithRun(Emit(Shielded(lifted, kind, source), PhaseEvent(op, "Prepared")), r)

\* Reverse a held cover onto the scene that was authorised before the fade.
\* held.take() drops a held fade even when it belongs to another operation.
Reversal(h) ==
  [phase |-> "Animating", op |-> h.op, kind |-> "PowerFade", source |-> Nil, target |-> Nil,
   snapshot |-> h.snapshot, wasProt |-> FALSE, started |-> FALSE, t |-> Start,
   reverse |-> TRUE, quick |-> h.quick]
Unhold(e, op) ==
  IF e.held.op # op THEN [e EXCEPT !.held = NoHeld]
  ELSE [e EXCEPT !.held = NoHeld, !.base = e.held.snapshot, !.run = Reversal(e.held)]

Cancel(e, op) ==
  LET r == e.run
  IN  IF ~Running(e) THEN Unhold(e, op)
      ELSE IF Uncommitted(e) /\ r.op = op
      THEN Emit([e EXCEPT !.prot = Reprotected(e, r), !.base = r.snapshot, !.run = NoRun],
                PhaseEvent(op, "Cancelled"))
      ELSE IF r.phase = "Settling" /\ r.op = op /\ r.kind = "PowerFade"
      THEN Unhold(Emit(WithRun(e, NoRun), PhaseEvent(op, "Completed")), op)
      ELSE e

------------------------------------------------------------------------------
(* Frames.                                                                 *)

\* The session of a plan made from the base scene alone.
BasePlan(e, probe) ==
  IF e.base.scene = "session" /\ MayShow(e, e.base.key, probe) THEN e.base.key ELSE Nil

\* The timeline positions the clock may give the next planned frame.
NextProgress(r) ==
  IF r.quick THEN {End} ELSE IF r.started THEN r.t..End ELSE {Start}

\* The session layer of an animated frame, and whether any of its pixels show:
\* opacity or vacated area is zero at one end, the power cover opaque at one.
AnimatedLayer(e, r, probe) ==
  CASE r.kind \in RevealKinds -> r.target
    [] r.kind = "LogoutFade" -> r.source
    [] r.kind = "PowerFade" -> BasePlan(e, probe)
    [] OTHER -> Nil
PixelsShow(r, t) ==
  CASE r.kind \in RevealKinds -> t > Start
    [] r.kind = "LogoutFade" -> t < End
    [] r.kind = "PowerFade" -> IF r.reverse THEN t > Start ELSE t < End
    [] OTHER -> FALSE

BaseGreeter(e, probe) == e.base = Greeter /\ probe.greeter

\* Engine::plan, as the engine it leaves behind and the plan it returns:
\* layer is the session in the plan, seen the session whose pixels it shows,
\* greeter whether the greeter is in the plan.
Taken(e) == [e EXCEPT !.flight = @ \cup e.queued, !.queued = {}]
GivenUp(e) == WithRun(FailSafe(Emit(e, PhaseEvent(e.run.op, "Failed")), e.run), NoRun)
Still(e, probe) ==
  [eng |-> e, layer |-> BasePlan(e, probe), seen |-> BasePlan(e, probe),
   greeter |-> BaseGreeter(e, probe)]
Animated(e, probe, t) ==
  LET layer == AnimatedLayer(e, e.run, probe)
  IN  [eng |-> WithRun(e, [e.run EXCEPT !.started = TRUE, !.t = t]), layer |-> layer,
       seen |-> IF PixelsShow(e.run, t) THEN layer ELSE Nil,
       greeter |-> e.run.kind # "PowerFade" \/ BaseGreeter(e, probe)]
Plan(e, probe, t) ==
  IF ~Uncommitted(e) THEN Still(Taken(e), probe)
  ELSE IF ~Validate(Taken(e), e.run, probe) THEN Still(GivenUp(Taken(e)), probe)
  ELSE Animated(Taken(e), probe, t)

\* The planned frame never fully reached the screen.
\* Mutant: the protections of the lost frame are forgotten.
FrameFailed_Forgets(e) == [e EXCEPT !.flight = {}]
FrameFailed(e) == [e EXCEPT !.queued = @ \cup e.flight, !.flight = {}]

AbortTransition(e) ==
  IF Uncommitted(e) THEN GivenUp(e)
  ELSE IF Running(e) THEN WithRun(Emit(e, PhaseEvent(e.run.op, "Completed")), NoRun)
  ELSE e

HeldAfter(e) ==
  IF e.run.kind = "PowerFade"
  THEN [op |-> e.run.op, snapshot |-> e.run.snapshot, quick |-> e.run.quick] ELSE e.held
Commit(e) ==
  Emit([e EXCEPT !.held = HeldAfter(e), !.base = EndScene(e.run.kind, e.run.target),
                 !.run = [e.run EXCEPT !.phase = "Settling"]],
       PhaseEvent(e.run.op, "Committed"))

\* Mutant: a protection asked for after the frame was planned is acknowledged
\* with it.
Acknowledge_Queued(e) ==
  IF e.flight \cup e.queued = {} THEN e
  ELSE Emit([e EXCEPT !.flight = {}, !.queued = {}], ProtectedEvent(e.flight \cup e.queued))
Acknowledge(e) ==
  IF e.flight = {} THEN e ELSE Emit([e EXCEPT !.flight = {}], ProtectedEvent(e.flight))

\* The planned frame is on the screen: acknowledge and advance.
FrameDone(e) ==
  LET acked == Acknowledge(e)
      r == e.run
      moved == Emit(WithRun(acked, [r EXCEPT !.phase = "Animating"]), PhaseEvent(r.op, "Animating"))
      ended(ph) == Emit(WithRun(acked, NoRun), PhaseEvent(r.op, ph))
  IN  IF ~Running(e) THEN acked
      ELSE IF r.reverse THEN (IF r.t = End THEN ended("Cancelled") ELSE acked)
      ELSE IF r.phase = "Prepared" THEN (IF r.t = End THEN Commit(moved) ELSE moved)
      ELSE IF r.phase = "Animating" THEN (IF r.t = End THEN Commit(acked) ELSE acked)
      ELSE ended("Completed")
==============================================================================
