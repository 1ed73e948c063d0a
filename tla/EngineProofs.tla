---------------------------- MODULE EngineProofs -----------------------------
(***************************************************************************)
(* Every method of the scene engine (bsm/compositor/src/engine.rs) takes   *)
(* an engine to an engine: a phase is never left without its operation, a  *)
(* held cover never without the scene it reverses to.  One lemma for each  *)
(* operator of SceneEngine; Compositor's type invariant rests on them.     *)
(***************************************************************************)
EXTENDS SceneEngine, TLAPS

------------------------------------------------------------------------------
(* The engine's operators keep its type.                                   *)

\* The three kinds of base scene have the type of enum Base, and only a session has a key.
LEMMA BaseTypes == 
  /\ Cover \in Bases /\ Greeter \in Bases
  /\ \A k \in Keys : Session(k) \in Bases
  /\ \A b \in Bases : b.scene \in {"cover", "greeter", "session"} /\ b.key \in Keys \cup {Nil}
  /\ \A b \in Bases : b.scene = "session" => b.key \in Keys /\ b = Session(b.key)
  <1>1. Cover \in Bases /\ Greeter \in Bases
    BY DEF Bases
  <1>2. \A k \in Keys : Session(k) \in Bases
    BY DEF Bases
  <1>3. ASSUME NEW b \in Bases
        PROVE  /\ b.scene \in {"cover", "greeter", "session"} /\ b.key \in Keys \cup {Nil}
               /\ b.scene = "session" => b.key \in Keys /\ b = Session(b.key)
    <2>1. CASE b = Cover  BY <2>1 DEF Cover
    <2>2. CASE b = Greeter  BY <2>2 DEF Greeter
    <2>3. CASE \E k \in Keys : b = Session(k)
      <3>1. PICK k \in Keys : b = Session(k)  BY <2>3
      <3>2. QED  BY <3>1 DEF Session
    <2>4. QED  BY <2>1, <2>2, <2>3 DEF Bases
  <1>4. QED  BY <1>1, <1>2, <1>3

\* The absent value is neither a session nor an operation.
LEMMA NilFacts == Nil \notin Keys /\ Nil \notin Ops
  BY NilIsNoKey DEF Keys

\* No transition is a transition record, in no phase.
LEMMA NoRunType == NoRun \in Runs /\ NoRun.phase = "none"
  BY DEF NoRun, Runs

\* A transition that runs has an operation, a kind and a position on its timeline.
LEMMA RunFacts ==
  ASSUME NEW r \in Runs
  PROVE  /\ r.source \in Keys \cup {Nil} /\ r.target \in Keys \cup {Nil}
         /\ r.snapshot \in Bases
         /\ r.phase # "none" => r \in ActiveRuns /\ r.op \in Ops /\ r.kind \in Kinds
  <1>1. CASE r = NoRun  BY <1>1, BaseTypes DEF NoRun
  <1>2. CASE r \in ActiveRuns  BY <1>2 DEF ActiveRuns
  <1>3. QED  BY <1>1, <1>2 DEF Runs

\* A held power fade has an operation and a scene to reverse to.
LEMMA HeldFacts ==
  ASSUME NEW h \in Helds
  PROVE  h.snapshot \in Bases /\ (h.op # Nil => h.op \in Ops /\ h.quick \in BOOLEAN)
  <1>1. CASE h = NoHeld  BY <1>1, BaseTypes DEF NoHeld
  <1>2. CASE h \in [op : Ops, snapshot : Bases, quick : BOOLEAN]  BY <1>2
  <1>3. QED  BY <1>1, <1>2 DEF Helds

\* The fields of an engine have their types.
LEMMA EngineFields ==
  ASSUME NEW e \in Engines
  PROVE  /\ e.base \in Bases /\ e.prot \in SUBSET Keys /\ e.run \in Runs /\ e.held \in Helds
         /\ e.queued \in SUBSET Keys /\ e.flight \in SUBSET Keys
         /\ e.out \in Seq(EngineEvents)
  BY DEF Engines

\* A phase report is an event of the engine.
LEMMA PhaseEventType ==
  ASSUME NEW op \in Ops, NEW ph \in PhaseEvents
  PROVE  PhaseEvent(op, ph) \in EngineEvents
  BY DEF PhaseEvent, EngineEvents

\* Engine::new is an engine.
LEMMA NewEngineType == NewEngine \in Engines
  BY BaseTypes, NoRunType DEF NewEngine, Engines, Helds

\* Emitting an event keeps everything but the event queue.
LEMMA EmitType ==
  ASSUME NEW e \in Engines, NEW x \in EngineEvents
  PROVE  Emit(e, x) \in Engines
  <1>1. e.out \in Seq(EngineEvents)  BY DEF Engines
  <1>2. Append(e.out, x) \in Seq(EngineEvents)  BY <1>1
  <1>3. Emit(e, x) = [e EXCEPT !.out = Append(e.out, x)]  BY DEF Emit
  <1>4. QED  BY <1>2, <1>3 DEF Engines

\* Engine::protect keeps the type.
LEMMA ProtectType ==
  ASSUME NEW e \in Engines, NEW k \in Keys
  PROVE  Protect(e, k) \in Engines
  BY BaseTypes DEF Protect, Engines

\* Engine::unregister keeps the type.
LEMMA UnregisterKeyType ==
  ASSUME NEW e \in Engines, NEW k
  PROVE  UnregisterKey(e, k) \in Engines
  BY BaseTypes DEF UnregisterKey, Engines

\* The safe scene after a failed transition (fail_safe) keeps the type and the transition.
LEMMA FailSafeType ==
  ASSUME NEW e \in Engines, NEW r \in Runs
  PROVE  FailSafe(e, r) \in Engines
  <1>1. r.source \in Keys \cup {Nil} /\ r.target \in Keys \cup {Nil}  BY RunFacts
  <1>2. e.base \in Bases /\ e.prot \in SUBSET Keys  BY DEF Engines
  <1>3. e.base.key \in Keys \cup {Nil}  BY <1>2, BaseTypes
  <1>4. e.prot \cup Some(r.source) \cup Some(r.target) \cup Some(e.base.key) \in SUBSET Keys
    BY <1>1, <1>2, <1>3 DEF Some
  <1>5. QED  BY <1>4, BaseTypes DEF FailSafe, Engines

\* Protecting the target again gives a set of sessions.
LEMMA ReprotectedType ==
  ASSUME NEW e \in Engines, NEW r \in Runs
  PROVE  Reprotected(e, r) \in SUBSET Keys
  BY EngineFields, RunFacts DEF Reprotected, Some

\* Engine::show_greeter_only keeps the type.
LEMMA ShowGreeterOnlyType ==
  ASSUME NEW e \in Engines
  PROVE  ShowGreeterOnly(e) \in Engines
  <1>1. e.run \in Runs  BY EngineFields
  <1>2. ASSUME NEW d \in Engines
        PROVE  OnGreeter(d) \in Engines
    BY BaseTypes, NoRunType DEF OnGreeter, Engines, Helds
  <1>3. [e EXCEPT !.prot = Reprotected(e, e.run)] \in Engines
    BY <1>1, ReprotectedType DEF Engines
  <1>4. CASE Uncommitted(e)
    <2>1. PhaseEvent(e.run.op, "Cancelled") \in EngineEvents
      BY <1>1, <1>4, RunFacts, PhaseEventType DEF Uncommitted, PhaseEvents
    <2>2. Emit([e EXCEPT !.prot = Reprotected(e, e.run)], PhaseEvent(e.run.op, "Cancelled"))
            \in Engines
      BY <1>3, <2>1, EmitType
    <2>3. QED  BY <1>2, <1>4, <2>2 DEF ShowGreeterOnly, Uncommitted
  <1>5. CASE ~Uncommitted(e) /\ e.run.phase = "Settling"
    <2>1. PhaseEvent(e.run.op, "Completed") \in EngineEvents
      BY <1>1, <1>5, RunFacts, PhaseEventType DEF PhaseEvents
    <2>2. Emit(e, PhaseEvent(e.run.op, "Completed")) \in Engines  BY <2>1, EmitType
    <2>3. QED  BY <1>2, <1>5, <2>2 DEF ShowGreeterOnly
  <1>6. CASE ~Uncommitted(e) /\ e.run.phase # "Settling"
    BY <1>2, <1>6 DEF ShowGreeterOnly
  <1>7. QED  BY <1>4, <1>5, <1>6

\* Replacing the transition keeps the type.
LEMMA WithRunType ==
  ASSUME NEW e \in Engines, NEW r \in Runs
  PROVE  WithRun(e, r) \in Engines
  BY DEF WithRun, Engines

\* The transition Engine::begin sets up is a running one.
LEMMA NewRunType ==
  ASSUME NEW e \in Engines, NEW op \in Ops, NEW kind \in Kinds, NEW source \in Keys \cup {Nil},
         NEW target \in Keys \cup {Nil}, NEW quick \in BOOLEAN
  PROVE  /\ NewRun(e, op, kind, source, target, quick) \in Runs
         /\ NewRun(e, op, kind, source, target, quick).op = op
  <1>1. e.base \in Bases  BY EngineFields
  <1>2. Start \in Start..End  BY DEF Start, End
  <1>3. QED  BY <1>1, <1>2 DEF NewRun, Runs, ActiveRuns

\* Lifting the protection of a reveal target (begin) keeps the type and the transition.
LEMMA LiftedType ==
  ASSUME NEW e \in Engines, NEW kind, NEW target
  PROVE  Lifted(e, kind, target) \in Engines
  BY DEF Lifted, Engines, Helds

\* Protecting the source of a lock (begin) keeps the type.
LEMMA ShieldedType ==
  ASSUME NEW e \in Engines, NEW kind, NEW source \in Keys \cup {Nil}
  PROVE  Shielded(e, kind, source) \in Engines
  BY ProtectType DEF Shielded

\* A transition refused by begin leaves an engine.
LEMMA RefusedType ==
  ASSUME NEW e \in Engines, NEW r \in Runs, r.op \in Ops
  PROVE  Refused(e, r) \in Engines
  <1>1. [e EXCEPT !.prot = Reprotected(e, r)] \in Engines  BY ReprotectedType DEF Engines
  <1>2. PhaseEvent(r.op, "Failed") \in EngineEvents  BY PhaseEventType DEF PhaseEvents
  <1>3. QED  BY <1>1, <1>2, EmitType, FailSafeType DEF Refused

\* Engine::begin keeps the type, whether it refuses or starts the transition.
LEMMA BeginType ==
  ASSUME NEW e \in Engines, NEW probe, NEW op \in Ops, NEW kind \in Kinds,
         NEW source \in Keys \cup {Nil}, NEW target \in Keys \cup {Nil}, NEW quick \in BOOLEAN
  PROVE  Begin(e, probe, op, kind, source, target, quick) \in Engines
  <1> DEFINE r == NewRun(e, op, kind, source, target, quick)
             lifted == Lifted(e, kind, target)
  <1>1. r \in Runs /\ r.op \in Ops  BY NewRunType
  <1>2. lifted \in Engines  BY LiftedType
  <1>3. Refused(lifted, r) \in Engines  BY <1>1, <1>2, RefusedType
  <1>4. \A ph \in PhaseEvents : PhaseEvent(op, ph) \in EngineEvents  BY PhaseEventType
  <1>5. Emit(e, PhaseEvent(op, "Failed")) \in Engines  BY <1>4, EmitType DEF PhaseEvents
  <1>6. Emit(Shielded(lifted, kind, source), PhaseEvent(op, "Prepared")) \in Engines
    BY <1>2, <1>4, ShieldedType, EmitType DEF PhaseEvents
  <1>7. WithRun(Emit(Shielded(lifted, kind, source), PhaseEvent(op, "Prepared")), r) \in Engines
    BY <1>1, <1>6, WithRunType
  <1> HIDE DEF r, lifted
  <1>8. QED  BY <1>3, <1>5, <1>7 DEF Begin, r, lifted

\* Reversing or dropping a held cover (cancel) keeps the type.
LEMMA UnholdType ==
  ASSUME NEW e \in Engines, NEW op \in Ops
  PROVE  Unhold(e, op) \in Engines
  <1>1. e.held \in Helds  BY EngineFields
  <1>2. CASE e.held.op # op  BY <1>2 DEF Unhold, Engines, Helds
  <1>3. CASE e.held.op = op
    <2>1. e.held.op \in Ops /\ e.held.quick \in BOOLEAN /\ e.held.snapshot \in Bases
      BY <1>1, <1>3, HeldFacts, NilFacts
    <2>2. Start \in Start..End  BY DEF Start, End
    <2>3. Reversal(e.held) \in Runs
      BY <2>1, <2>2 DEF Reversal, Runs, ActiveRuns, Kinds
    <2>4. QED  BY <1>3, <2>1, <2>3 DEF Unhold, Engines, Helds
  <1>4. QED  BY <1>2, <1>3

\* Engine::cancel keeps the type in each of its cases.
LEMMA CancelType ==
  ASSUME NEW e \in Engines, NEW op \in Ops
  PROVE  Cancel(e, op) \in Engines
  <1>1. e.run \in Runs  BY EngineFields
  <1>2. \A ph \in PhaseEvents : PhaseEvent(op, ph) \in EngineEvents  BY PhaseEventType
  <1>3. Unhold(e, op) \in Engines  BY UnholdType
  <1>4. [e EXCEPT !.prot = Reprotected(e, e.run), !.base = e.run.snapshot, !.run = NoRun] \in Engines
    BY <1>1, RunFacts, ReprotectedType, NoRunType DEF Engines
  <1>5. Emit([e EXCEPT !.prot = Reprotected(e, e.run), !.base = e.run.snapshot, !.run = NoRun],
             PhaseEvent(op, "Cancelled")) \in Engines
    BY <1>2, <1>4, EmitType DEF PhaseEvents
  <1>6. Emit(WithRun(e, NoRun), PhaseEvent(op, "Completed")) \in Engines
    BY <1>2, NoRunType, WithRunType, EmitType DEF PhaseEvents
  <1>7. Unhold(Emit(WithRun(e, NoRun), PhaseEvent(op, "Completed")), op) \in Engines
    BY <1>6, UnholdType
  <1>8. QED  BY <1>3, <1>5, <1>7 DEF Cancel

\* Taking the queued protections into the frame (plan) keeps the type.
LEMMA TakenType ==
  ASSUME NEW e \in Engines
  PROVE  Taken(e) \in Engines /\ Taken(e).run = e.run
  BY DEF Taken, Engines

\* Giving up a transition that cannot be shown (plan, abort_transition) keeps the type.
LEMMA GivenUpType ==
  ASSUME NEW e \in Engines, Running(e)
  PROVE  GivenUp(e) \in Engines
  <1>1. e.run \in Runs /\ e.run.op \in Ops  BY EngineFields, RunFacts DEF Running
  <1>2. Emit(e, PhaseEvent(e.run.op, "Failed")) \in Engines
    BY <1>1, PhaseEventType, EmitType DEF PhaseEvents
  <1>3. QED  BY <1>1, <1>2, FailSafeType, NoRunType, WithRunType DEF GivenUp

\* The plan of the base scene shows one session or none.
LEMMA BasePlanType ==
  ASSUME NEW e \in Engines, NEW probe
  PROVE  BasePlan(e, probe) \in Keys \cup {Nil}
  BY EngineFields, BaseTypes DEF BasePlan

\* An animated frame shows one session or none.
LEMMA AnimatedLayerType ==
  ASSUME NEW e \in Engines, NEW r \in Runs, NEW probe
  PROVE  AnimatedLayer(e, r, probe) \in Keys \cup {Nil}
  BY RunFacts, BasePlanType DEF AnimatedLayer, RevealKinds

\* What a plan is: the engine it leaves behind, what it shows and what it composes.
Plans == [eng : Engines, layer : Keys \cup {Nil}, seen : Keys \cup {Nil}, greeter : BOOLEAN]

\* A plan of the base scene is a plan.
LEMMA StillType ==
  ASSUME NEW e \in Engines, NEW probe
  PROVE  Still(e, probe) \in Plans
  BY BasePlanType DEF Still, BaseGreeter, Plans

\* A plan of an animated frame is a plan.
LEMMA AnimatedType ==
  ASSUME NEW e \in Engines, Running(e), NEW probe, NEW t \in Start..End
  PROVE  Animated(e, probe, t) \in Plans
  <1>1. e.run \in Runs /\ e.run \in ActiveRuns  BY EngineFields, RunFacts DEF Running
  <1>2. [e.run EXCEPT !.started = TRUE, !.t = t] \in Runs  BY <1>1 DEF Runs, ActiveRuns
  <1>3. WithRun(e, [e.run EXCEPT !.started = TRUE, !.t = t]) \in Engines  BY <1>2, WithRunType
  <1>4. AnimatedLayer(e, e.run, probe) \in Keys \cup {Nil}  BY <1>1, AnimatedLayerType
  <1>5. QED  BY <1>3, <1>4 DEF Animated, Plans, BaseGreeter

\* Engine::plan leaves an engine and returns a plan.
LEMMA PlanType ==
  ASSUME NEW e \in Engines, NEW probe, NEW t \in Start..End
  PROVE  Plan(e, probe, t) \in Plans
  <1>1. Taken(e) \in Engines /\ Taken(e).run = e.run  BY TakenType
  <1>2. CASE ~Uncommitted(e)  BY <1>1, <1>2, StillType DEF Plan
  <1>3. CASE Uncommitted(e)
    <2>1. Running(Taken(e))  BY <1>1, <1>3 DEF Uncommitted, Running
    <2>2. Still(GivenUp(Taken(e)), probe) \in Plans  BY <1>1, <2>1, GivenUpType, StillType
    <2>3. Animated(Taken(e), probe, t) \in Plans  BY <1>1, <2>1, AnimatedType
    <2>4. QED  BY <1>3, <2>2, <2>3 DEF Plan
  <1>4. QED  BY <1>2, <1>3

\* The clock gives a position on the timeline.
LEMMA NextProgressType ==
  ASSUME NEW r \in Runs, NEW t \in NextProgress(r)
  PROVE  t \in Start..End
  <1>1. CASE r = NoRun  BY <1>1 DEF NextProgress, NoRun, Start, End
  <1>2. CASE r \in ActiveRuns  BY <1>2 DEF NextProgress, ActiveRuns, Start, End
  <1>3. QED  BY <1>1, <1>2 DEF Runs

\* Engine::frame_failed keeps the type.
LEMMA FrameFailedType ==
  ASSUME NEW e \in Engines
  PROVE  FrameFailed(e) \in Engines
  BY DEF FrameFailed, Engines

\* Engine::abort_transition keeps the type.
LEMMA AbortTransitionType ==
  ASSUME NEW e \in Engines
  PROVE  AbortTransition(e) \in Engines
  <1>1. CASE Uncommitted(e)
    BY <1>1, GivenUpType DEF AbortTransition, Uncommitted, Running
  <1>2. CASE ~Uncommitted(e) /\ Running(e)
    <2>1. e.run.op \in Ops  BY <1>2, EngineFields, RunFacts DEF Running
    <2>2. Emit(e, PhaseEvent(e.run.op, "Completed")) \in Engines
      BY <2>1, PhaseEventType, EmitType DEF PhaseEvents
    <2>3. QED  BY <1>2, <2>2, NoRunType, WithRunType DEF AbortTransition
  <1>3. CASE ~Uncommitted(e) /\ ~Running(e)  BY <1>3 DEF AbortTransition
  <1>4. QED  BY <1>1, <1>2, <1>3

\* Engine::commit keeps the type: a power fade leaves a complete Held.
LEMMA CommitType ==
  ASSUME NEW e \in Engines, Running(e)
  PROVE  Commit(e) \in Engines
  <1>1. e.run \in ActiveRuns  BY EngineFields, RunFacts DEF Running
  <1>2. HeldAfter(e) \in Helds  BY <1>1, EngineFields DEF HeldAfter, Helds, ActiveRuns
  <1>3. EndScene(e.run.kind, e.run.target) \in Bases
    BY <1>1, BaseTypes DEF EndScene, ActiveRuns
  <1>4. [e.run EXCEPT !.phase = "Settling"] \in Runs  BY <1>1 DEF Runs, ActiveRuns
  <1>5. [e EXCEPT !.held = HeldAfter(e), !.base = EndScene(e.run.kind, e.run.target),
                  !.run = [e.run EXCEPT !.phase = "Settling"]] \in Engines
    BY <1>2, <1>3, <1>4 DEF Engines
  <1>6. PhaseEvent(e.run.op, "Committed") \in EngineEvents
    BY <1>1, PhaseEventType DEF ActiveRuns, PhaseEvents
  <1>7. QED  BY <1>5, <1>6, EmitType DEF Commit

\* Acknowledging the protections of a frame (frame_done) keeps the type.
LEMMA AcknowledgeType ==
  ASSUME NEW e \in Engines
  PROVE  Acknowledge(e) \in Engines /\ Acknowledge(e).run = e.run
  <1>1. ProtectedEvent(e.flight) \in EngineEvents
    BY EngineFields DEF ProtectedEvent, EngineEvents
  <1>2. [e EXCEPT !.flight = {}] \in Engines /\ [e EXCEPT !.flight = {}].run = e.run
    BY DEF Engines
  <1>3. Emit([e EXCEPT !.flight = {}], ProtectedEvent(e.flight)) \in Engines
    BY <1>1, <1>2, EmitType
  <1>4. Emit([e EXCEPT !.flight = {}], ProtectedEvent(e.flight)).run = e.run
    BY <1>2 DEF Emit, Engines
  <1>5. QED  BY <1>3, <1>4 DEF Acknowledge

\* Engine::frame_done keeps the type in every phase.
LEMMA FrameDoneType ==
  ASSUME NEW e \in Engines
  PROVE  FrameDone(e) \in Engines
  <1> DEFINE ack == Acknowledge(e)
             moved == Emit(WithRun(ack, [e.run EXCEPT !.phase = "Animating"]),
                           PhaseEvent(e.run.op, "Animating"))
             ended(ph) == Emit(WithRun(ack, NoRun), PhaseEvent(e.run.op, ph))
  <1>1. ack \in Engines /\ ack.run = e.run  BY AcknowledgeType
  <1>2. CASE ~Running(e)  BY <1>1, <1>2 DEF FrameDone
  <1>3. CASE Running(e)
    <2>1. e.run \in ActiveRuns  BY <1>3, EngineFields, RunFacts DEF Running
    <2>2. \A ph \in PhaseEvents : PhaseEvent(e.run.op, ph) \in EngineEvents
      BY <2>1, PhaseEventType DEF ActiveRuns
    <2>3. \A ph \in PhaseEvents : ended(ph) \in Engines
      BY <1>1, <2>2, NoRunType, WithRunType, EmitType
    <2>4. [e.run EXCEPT !.phase = "Animating"] \in Runs  BY <2>1 DEF Runs, ActiveRuns
    <2>5. WithRun(ack, [e.run EXCEPT !.phase = "Animating"]) \in Engines
      BY <1>1, <2>4, WithRunType
    <2>6. moved \in Engines  BY <2>2, <2>5, EmitType DEF PhaseEvents
    <2>7. moved.run.phase = "Animating"
      BY <1>1, <2>1, <2>5 DEF Emit, WithRun, Engines, ActiveRuns
    <2>8. Commit(moved) \in Engines  BY <2>6, <2>7, CommitType DEF Running
    <2>9. Commit(ack) \in Engines  BY <1>1, <1>3, CommitType DEF Running
    <2>10. ended("Cancelled") \in Engines /\ ended("Completed") \in Engines
      BY <2>3 DEF PhaseEvents
    <2> HIDE DEF ack, moved, ended
    <2>11. QED  BY <1>1, <1>3, <2>6, <2>8, <2>9, <2>10 DEF FrameDone, ack, moved, ended
  <1>4. QED  BY <1>2, <1>3

\* Draining the events (take_events) keeps the type.
LEMMA DrainedType ==
  ASSUME NEW e \in Engines
  PROVE  [e EXCEPT !.out = <<>>] \in Engines
  <1>1. <<>> \in Seq(EngineEvents)  OBVIOUS
  <1>2. QED  BY <1>1 DEF Engines
==============================================================================
