-------------------------- MODULE ProtectionProofs ---------------------------
(***************************************************************************)
(* What a Protected acknowledgement is worth.  For any number of sessions, *)
(* operations and frame failures, and any loss of frames, VT switches,     *)
(* output changes and client crashes, a manager that does not reveal a     *)
(* session whose Protect is still unanswered can rely on two facts: when   *)
(* Protected is sent no output shows the session (AckTruthful), and none   *)
(* shows it until a reveal lifts the protection (AckCorrect).              *)
(*                                                                         *)
(* Neither is inductive: a frame in flight was planned in an earlier       *)
(* state.  AckInv adds what that frame may show: the session it shows is   *)
(* not one the frame will acknowledge nor one acknowledged before.         *)
(***************************************************************************)
EXTENDS CompositorProofs

------------------------------------------------------------------------------
(* An engine is sound when every protection it still owes a frame for is   *)
(* in force, and it has no acknowledgement waiting to be sent.             *)

PhaseNotes == [ev : {"TransitionPhase"}, op : Ops, phase : PhaseEvents]
Sound(e) ==
  /\ e \in Engines
  /\ e.queued \cup e.flight \subseteq e.prot
  /\ e.out \in Seq(PhaseNotes)

\* A phase report is no acknowledgement.
LEMMA PhaseNoteType ==
  ASSUME NEW op \in Ops, NEW ph \in PhaseEvents
  PROVE  PhaseEvent(op, ph) \in PhaseNotes
  BY DEF PhaseEvent, PhaseNotes

\* Emitting an event leaves the protections alone.
LEMMA EmitFields ==
  ASSUME NEW e \in Engines, NEW x
  PROVE  /\ Emit(e, x).prot = e.prot /\ Emit(e, x).queued = e.queued
         /\ Emit(e, x).flight = e.flight /\ Emit(e, x).run = e.run
         /\ Emit(e, x).out = Append(e.out, x)
  BY DEF Emit, Engines

\* Replacing the transition leaves the protections alone.
LEMMA WithRunFields ==
  ASSUME NEW e \in Engines, NEW r
  PROVE  /\ WithRun(e, r).prot = e.prot /\ WithRun(e, r).queued = e.queued
         /\ WithRun(e, r).flight = e.flight /\ WithRun(e, r).out = e.out
  BY DEF WithRun, Engines

\* A command that keeps what is owed and lifts no protection keeps soundness.
LEMMA SoundGrows ==
  ASSUME NEW e, Sound(e), NEW d \in Engines, e.prot \subseteq d.prot,
         d.queued = e.queued, d.flight = e.flight, d.out = e.out
  PROVE  Sound(d)
  BY DEF Sound

\* Reporting a phase keeps an engine sound.
LEMMA EmitSound ==
  ASSUME NEW e, Sound(e), NEW op \in Ops, NEW ph \in PhaseEvents
  PROVE  Sound(Emit(e, PhaseEvent(op, ph))) /\ Emit(e, PhaseEvent(op, ph)).flight = e.flight
  <1>1. e \in Engines /\ e.out \in Seq(PhaseNotes)  BY DEF Sound
  <1>2. Emit(e, PhaseEvent(op, ph)) \in Engines  BY <1>1, PhaseEventType, EmitType
  <1>3. PhaseEvent(op, ph) \in PhaseNotes  BY PhaseNoteType
  <1>4. Append(e.out, PhaseEvent(op, ph)) \in Seq(PhaseNotes)  BY <1>1, <1>3
  <1>5. QED  BY <1>1, <1>2, <1>4, EmitFields DEF Sound

\* Replacing the transition keeps an engine sound.
LEMMA WithRunSound ==
  ASSUME NEW e, Sound(e), NEW r \in Runs
  PROVE  Sound(WithRun(e, r)) /\ WithRun(e, r).flight = e.flight
  <1>1. e \in Engines  BY DEF Sound
  <1>2. QED  BY <1>1, WithRunType, WithRunFields, SoundGrows

\* Engine::protect keeps an engine sound and puts nothing in flight.
LEMMA ProtectSound ==
  ASSUME NEW e, Sound(e), NEW k \in Keys
  PROVE  Sound(Protect(e, k)) /\ Protect(e, k).flight = e.flight
  <1>1. e \in Engines  BY DEF Sound
  <1>2. /\ Protect(e, k).prot = e.prot \cup {k} /\ Protect(e, k).flight = e.flight
        /\ Protect(e, k).queued \subseteq e.queued \cup {k} /\ Protect(e, k).out = e.out
    BY <1>1 DEF Protect, Engines
  <1>3. Protect(e, k) \in Engines  BY <1>1, ProtectType
  <1>4. QED  BY <1>2, <1>3 DEF Sound

\* Engine::unregister forgets the debt together with the protection.
LEMMA UnregisterKeySound ==
  ASSUME NEW e, Sound(e), NEW k
  PROVE  Sound(UnregisterKey(e, k)) /\ UnregisterKey(e, k).flight \subseteq e.flight
  <1>1. e \in Engines  BY DEF Sound
  <1>2. /\ UnregisterKey(e, k).prot = e.prot \ {k} /\ UnregisterKey(e, k).flight = e.flight \ {k}
        /\ UnregisterKey(e, k).queued = e.queued \ {k} /\ UnregisterKey(e, k).out = e.out
    BY <1>1 DEF UnregisterKey, Engines
  <1>3. UnregisterKey(e, k) \in Engines  BY <1>1, UnregisterKeyType
  <1>4. QED  BY <1>2, <1>3 DEF Sound

\* fail_safe only adds protections.
LEMMA FailSafeSound ==
  ASSUME NEW e, Sound(e), NEW r \in Runs
  PROVE  Sound(FailSafe(e, r)) /\ FailSafe(e, r).flight = e.flight
  <1>1. e \in Engines  BY DEF Sound
  <1>2. /\ e.prot \subseteq FailSafe(e, r).prot /\ FailSafe(e, r).flight = e.flight
        /\ FailSafe(e, r).queued = e.queued /\ FailSafe(e, r).out = e.out
    BY <1>1 DEF FailSafe, Engines
  <1>3. QED  BY <1>1, <1>2, FailSafeType, SoundGrows

\* Protecting the target of an ended transition again only adds a protection.
LEMMA ReprotectSound ==
  ASSUME NEW e, Sound(e), NEW r \in Runs
  PROVE  /\ Sound([e EXCEPT !.prot = Reprotected(e, r)])
         /\ [e EXCEPT !.prot = Reprotected(e, r)].flight = e.flight
  <1> DEFINE d == [e EXCEPT !.prot = Reprotected(e, r)]
  <1>1. e \in Engines  BY DEF Sound
  <1>2. d \in Engines  BY <1>1, ReprotectedType DEF Engines
  <1>3. /\ d.prot = Reprotected(e, r) /\ d.flight = e.flight
        /\ d.queued = e.queued /\ d.out = e.out
    BY <1>1 DEF Engines
  <1>4. e.prot \subseteq Reprotected(e, r)  BY DEF Reprotected
  <1> HIDE DEF d
  <1>5. Sound(d) /\ d.flight = e.flight  BY <1>2, <1>3, <1>4, SoundGrows
  <1>6. QED  BY <1>5 DEF d

\* The transition that runs has an operation to report about.
LEMMA RunOp ==
  ASSUME NEW e \in Engines, Running(e)
  PROVE  e.run \in Runs /\ e.run.op \in Ops
  BY EngineFields, RunFacts DEF Running

\* Engine::show_greeter_only keeps an engine sound.
LEMMA ShowGreeterOnlySound ==
  ASSUME NEW e, Sound(e)
  PROVE  Sound(ShowGreeterOnly(e)) /\ ShowGreeterOnly(e).flight = e.flight
  <1>1. e \in Engines  BY DEF Sound
  <1>2. ASSUME NEW d, Sound(d)
        PROVE  Sound(OnGreeter(d)) /\ OnGreeter(d).flight = d.flight
    <2>1. d \in Engines  BY <1>2 DEF Sound
    <2>2. OnGreeter(d) \in Engines  BY <2>1, BaseTypes, NoRunType DEF OnGreeter, Engines, Helds
    <2>3. /\ OnGreeter(d).prot = d.prot /\ OnGreeter(d).flight = d.flight
          /\ OnGreeter(d).queued = d.queued /\ OnGreeter(d).out = d.out
      BY <2>1 DEF OnGreeter, Engines
    <2>4. QED  BY <1>2, <2>2, <2>3, SoundGrows
  <1>3. CASE Uncommitted(e)
    <2> DEFINE d == [e EXCEPT !.prot = Reprotected(e, e.run)]
    <2>1. e.run \in Runs /\ e.run.op \in Ops  BY <1>1, <1>3, RunOp DEF Uncommitted, Running
    <2>2. Sound(d) /\ d.flight = e.flight  BY <2>1, ReprotectSound
    <2> HIDE DEF d
    <2>3. /\ Sound(Emit(d, PhaseEvent(e.run.op, "Cancelled")))
          /\ Emit(d, PhaseEvent(e.run.op, "Cancelled")).flight = e.flight
      BY <2>1, <2>2, EmitSound DEF PhaseEvents
    <2>4. ShowGreeterOnly(e) = OnGreeter(Emit(d, PhaseEvent(e.run.op, "Cancelled")))
      BY <1>3 DEF ShowGreeterOnly, d, Uncommitted
    <2>5. QED  BY <1>2, <2>3, <2>4
  <1>4. CASE ~Uncommitted(e) /\ e.run.phase = "Settling"
    <2>1. e.run.op \in Ops  BY <1>1, <1>4, RunOp DEF Running
    <2>2. /\ Sound(Emit(e, PhaseEvent(e.run.op, "Completed")))
          /\ Emit(e, PhaseEvent(e.run.op, "Completed")).flight = e.flight
      BY <2>1, EmitSound DEF PhaseEvents
    <2>3. ShowGreeterOnly(e) = OnGreeter(Emit(e, PhaseEvent(e.run.op, "Completed")))
      BY <1>4 DEF ShowGreeterOnly
    <2>4. QED  BY <1>2, <2>2, <2>3
  <1>5. CASE ~Uncommitted(e) /\ e.run.phase # "Settling"
    <2>1. ShowGreeterOnly(e) = OnGreeter(e)  BY <1>5 DEF ShowGreeterOnly
    <2>2. QED  BY <1>2, <2>1
  <1>6. QED  BY <1>3, <1>4, <1>5

\* A transition begun by a disciplined manager: the target of a reveal is not
\* waiting for an acknowledgement.
LEMMA BeginSound ==
  ASSUME NEW e, Sound(e), NEW probe, NEW op \in Ops, NEW kind \in Kinds,
         NEW source \in Keys \cup {Nil}, NEW target \in Keys \cup {Nil}, NEW quick \in BOOLEAN,
         kind \in RevealKinds => target \notin e.queued \cup e.flight
  PROVE  /\ Sound(Begin(e, probe, op, kind, source, target, quick))
         /\ Begin(e, probe, op, kind, source, target, quick).flight = e.flight
  <1> DEFINE r == NewRun(e, op, kind, source, target, quick)
             lifted == Lifted(e, kind, target)
             safe == Shielded(lifted, kind, source)
  <1>1. e \in Engines  BY DEF Sound
  <1>2. r \in Runs /\ r.op = op  BY <1>1, NewRunType
  <1>3. Sound(lifted) /\ lifted.flight = e.flight
    <2>1. lifted \in Engines  BY <1>1, LiftedType
    <2>2. /\ lifted.prot = IF kind \in RevealKinds THEN e.prot \ {target} ELSE e.prot
          /\ lifted.queued = e.queued /\ lifted.flight = e.flight /\ lifted.out = e.out
      BY <1>1 DEF Lifted, Engines
    <2>3. QED  BY <2>1, <2>2 DEF Sound
  <1> HIDE DEF r, lifted
  <1>4. Sound(safe) /\ safe.flight = e.flight  BY <1>3, ProtectSound DEF Shielded
  <1> HIDE DEF safe
  <1>5. Sound(Emit(e, PhaseEvent(op, "Failed"))) /\ Emit(e, PhaseEvent(op, "Failed")).flight = e.flight
    BY EmitSound DEF PhaseEvents
  <1>6. Sound(Refused(lifted, r)) /\ Refused(lifted, r).flight = e.flight
    <2> DEFINE d == [lifted EXCEPT !.prot = Reprotected(lifted, r)]
    <2>1. Sound(d) /\ d.flight = e.flight  BY <1>2, <1>3, ReprotectSound
    <2> HIDE DEF d
    <2>2. Sound(Emit(d, PhaseEvent(op, "Failed"))) /\ Emit(d, PhaseEvent(op, "Failed")).flight = e.flight
      BY <2>1, EmitSound DEF PhaseEvents
    <2>3. Refused(lifted, r) = FailSafe(Emit(d, PhaseEvent(op, "Failed")), r)
      BY <1>2 DEF Refused, d
    <2>4. QED  BY <1>2, <2>2, <2>3, FailSafeSound
  <1> DEFINE begun == WithRun(Emit(safe, PhaseEvent(op, "Prepared")), r)
  <1>7. Sound(begun) /\ begun.flight = e.flight
    <2>1. /\ Sound(Emit(safe, PhaseEvent(op, "Prepared")))
          /\ Emit(safe, PhaseEvent(op, "Prepared")).flight = e.flight
      BY <1>4, EmitSound DEF PhaseEvents
    <2>2. QED  BY <1>2, <2>1, WithRunSound
  <1> HIDE DEF begun
  <1>8. Begin(e, probe, op, kind, source, target, quick)
          \in {Emit(e, PhaseEvent(op, "Failed")), Refused(lifted, r), begun}
    BY DEF Begin, r, lifted, safe, begun
  <1>9. QED  BY <1>5, <1>6, <1>7, <1>8

\* Reversing a held cover keeps an engine sound.
LEMMA UnholdSound ==
  ASSUME NEW e, Sound(e), NEW op \in Ops
  PROVE  Sound(Unhold(e, op)) /\ Unhold(e, op).flight = e.flight
  <1>1. e \in Engines  BY DEF Sound
  <1>2. /\ Unhold(e, op).prot = e.prot /\ Unhold(e, op).flight = e.flight
        /\ Unhold(e, op).queued = e.queued /\ Unhold(e, op).out = e.out
    BY <1>1 DEF Unhold, Engines
  <1>3. QED  BY <1>1, <1>2, UnholdType, SoundGrows

\* Engine::cancel keeps an engine sound: it lifts no protection.
LEMMA CancelSound ==
  ASSUME NEW e, Sound(e), NEW op \in Ops
  PROVE  Sound(Cancel(e, op)) /\ Cancel(e, op).flight = e.flight
  <1> DEFINE back == [e EXCEPT !.prot = Reprotected(e, e.run), !.base = e.run.snapshot, !.run = NoRun]
             rest == Emit(WithRun(e, NoRun), PhaseEvent(op, "Completed"))
  <1>1. e \in Engines /\ e.run \in Runs  BY EngineFields DEF Sound
  <1>2. Sound(back) /\ back.flight = e.flight
    <2>1. back \in Engines
      BY <1>1, RunFacts, ReprotectedType, NoRunType DEF Engines
    <2>2. /\ back.prot = Reprotected(e, e.run) /\ back.flight = e.flight
          /\ back.queued = e.queued /\ back.out = e.out
      BY <1>1 DEF Engines
    <2>3. e.prot \subseteq Reprotected(e, e.run)  BY DEF Reprotected
    <2> HIDE DEF back
    <2>4. QED  BY <2>1, <2>2, <2>3, SoundGrows
  <1> HIDE DEF back
  <1>3. Sound(Emit(back, PhaseEvent(op, "Cancelled"))) /\ Emit(back, PhaseEvent(op, "Cancelled")).flight = e.flight
    BY <1>2, EmitSound DEF PhaseEvents
  <1>4. Sound(rest) /\ rest.flight = e.flight
    BY NoRunType, WithRunSound, EmitSound DEF PhaseEvents
  <1> HIDE DEF rest
  <1>5. Sound(Unhold(rest, op)) /\ Unhold(rest, op).flight = e.flight  BY <1>4, UnholdSound
  <1>6. Cancel(e, op) \in {Unhold(e, op), Emit(back, PhaseEvent(op, "Cancelled")), Unhold(rest, op), e}
    BY DEF Cancel, back, rest
  <1>7. QED  BY <1>3, <1>5, <1>6, UnholdSound

\* Giving up a transition only adds protections.
LEMMA GivenUpSound ==
  ASSUME NEW e, Sound(e), Running(e)
  PROVE  Sound(GivenUp(e)) /\ GivenUp(e).flight = e.flight
  <1> DEFINE told == Emit(e, PhaseEvent(e.run.op, "Failed"))
  <1>1. e.run \in Runs /\ e.run.op \in Ops  BY RunOp DEF Sound
  <1>2. Sound(told) /\ told.flight = e.flight  BY <1>1, EmitSound DEF PhaseEvents
  <1> HIDE DEF told
  <1>3. Sound(FailSafe(told, e.run)) /\ FailSafe(told, e.run).flight = e.flight
    BY <1>1, <1>2, FailSafeSound
  <1>4. GivenUp(e) = WithRun(FailSafe(told, e.run), NoRun)  BY DEF GivenUp, told
  <1>5. QED  BY <1>3, <1>4, NoRunType, WithRunSound

\* After Engine::frame_failed nothing is in flight, and what was is owed again.
LEMMA FrameFailedSound ==
  ASSUME NEW e, Sound(e)
  PROVE  Sound(FrameFailed(e)) /\ FrameFailed(e).flight = {}
  <1>1. e \in Engines  BY DEF Sound
  <1>2. /\ FrameFailed(e).prot = e.prot /\ FrameFailed(e).flight = {}
        /\ FrameFailed(e).queued = e.queued \cup e.flight /\ FrameFailed(e).out = e.out
    BY <1>1 DEF FrameFailed, Engines
  <1>3. QED  BY <1>1, <1>2, FrameFailedType DEF Sound

\* Engine::abort_transition keeps an engine sound.
LEMMA AbortTransitionSound ==
  ASSUME NEW e, Sound(e)
  PROVE  Sound(AbortTransition(e)) /\ AbortTransition(e).flight = e.flight
  <1>1. CASE Uncommitted(e)
    BY <1>1, GivenUpSound DEF AbortTransition, Uncommitted, Running
  <1>2. CASE ~Uncommitted(e) /\ Running(e)
    <2>1. e.run.op \in Ops  BY <1>2, RunOp DEF Sound
    <2> DEFINE told == Emit(e, PhaseEvent(e.run.op, "Completed"))
    <2>2. Sound(told) /\ told.flight = e.flight  BY <2>1, EmitSound DEF PhaseEvents
    <2>3. AbortTransition(e) = WithRun(told, NoRun)  BY <1>2 DEF AbortTransition
    <2> HIDE DEF told
    <2>4. QED  BY <2>2, <2>3, NoRunType, WithRunSound
  <1>3. CASE ~Uncommitted(e) /\ ~Running(e)  BY <1>3 DEF AbortTransition
  <1>4. QED  BY <1>1, <1>2, <1>3

\* The protections Engine::plan takes into the frame are in force.
LEMMA TakenSound ==
  ASSUME NEW e, Sound(e)
  PROVE  Sound(Taken(e)) /\ Taken(e).run = e.run
  <1>1. e \in Engines  BY DEF Sound
  <1>2. /\ Taken(e).prot = e.prot /\ Taken(e).flight = e.flight \cup e.queued
        /\ Taken(e).queued = {} /\ Taken(e).out = e.out
    BY <1>1 DEF Taken, Engines
  <1>3. QED  BY <1>1, <1>2, TakenType DEF Sound

\* The base scene never shows a protected session.
LEMMA BasePlanUnprotected ==
  ASSUME NEW e \in Engines, NEW probe
  PROVE  BasePlan(e, probe) \notin e.prot
  BY EngineFields, NilFacts DEF BasePlan, MayShow

\* A plan is made from a sound engine, and the session whose pixels it shows is
\* not protected.
LEMMA PlanSound ==
  ASSUME NEW e, Sound(e), NEW probe, NEW t \in Start..End
  PROVE  /\ Plan(e, probe, t) \in Plans
         /\ Sound(Plan(e, probe, t).eng)
         /\ Plan(e, probe, t).seen \notin Plan(e, probe, t).eng.prot
  <1> DEFINE k == Taken(e)
  <1>1. e \in Engines  BY DEF Sound
  <1>2. Plan(e, probe, t) \in Plans  BY <1>1, PlanType
  <1>3. Sound(k) /\ k \in Engines /\ k.run = e.run  BY TakenSound DEF Sound
  <1> HIDE DEF k
  <1>4. ASSUME NEW d, Sound(d)
        PROVE  Still(d, probe).eng = d /\ Still(d, probe).seen \notin d.prot
    BY <1>4, BasePlanUnprotected DEF Still, Sound
  <1>5. CASE ~Uncommitted(e)
    <2>1. Plan(e, probe, t) = Still(k, probe)  BY <1>5 DEF Plan, k
    <2>2. QED  BY <1>2, <1>3, <1>4, <2>1
  <1>6. CASE Uncommitted(e) /\ ~Validate(k, e.run, probe)
    <2>1. Plan(e, probe, t) = Still(GivenUp(k), probe)  BY <1>6 DEF Plan, k
    <2>2. Sound(GivenUp(k))  BY <1>3, <1>6, GivenUpSound DEF Uncommitted, Running
    <2>3. QED  BY <1>2, <1>4, <2>1, <2>2
  <1>7. CASE Uncommitted(e) /\ Validate(k, e.run, probe)
    <2> DEFINE r == [k.run EXCEPT !.started = TRUE, !.t = t]
    <2>1. Plan(e, probe, t) = Animated(k, probe, t)  BY <1>7 DEF Plan, k
    <2>2. k.run \in ActiveRuns
      BY <1>3, <1>7, EngineFields, RunFacts DEF Uncommitted
    <2>3. r \in Runs  BY <2>2 DEF Runs, ActiveRuns
    <2>4. Animated(k, probe, t).eng = WithRun(k, r)  BY DEF Animated
    <2> HIDE DEF r
    <2>5. Sound(WithRun(k, r)) /\ WithRun(k, r).prot = k.prot
      BY <1>3, <2>3, WithRunSound, WithRunFields
    <2>6. AnimatedLayer(k, k.run, probe) \notin k.prot
      BY <1>3, <1>7, BasePlanUnprotected, EngineFields, NilFacts
         DEF AnimatedLayer, Validate, MayShow, RevealKinds
    <2>7. Animated(k, probe, t).seen \in {AnimatedLayer(k, k.run, probe), Nil}  BY DEF Animated
    <2>8. Nil \notin k.prot  BY <1>3, EngineFields, NilFacts
    <2>9. QED  BY <1>2, <2>1, <2>4, <2>5, <2>6, <2>7, <2>8
  <1>8. QED  BY <1>5, <1>6, <1>7 DEF k

\* What the engine has to say when a frame is done: phases, and one acknowledgement.
DoneNotes(e) == PhaseNotes \cup {ProtectedEvent(e.flight)}

\* Engine::commit leaves the protections alone.
LEMMA CommitFields ==
  ASSUME NEW e \in Engines
  PROVE  /\ Commit(e).prot = e.prot /\ Commit(e).queued = e.queued /\ Commit(e).flight = e.flight
         /\ Commit(e).out = Append(e.out, PhaseEvent(e.run.op, "Committed"))
  <1> DEFINE d == [e EXCEPT !.held = HeldAfter(e), !.base = EndScene(e.run.kind, e.run.target),
                            !.run = [e.run EXCEPT !.phase = "Settling"]]
  <1>1. d.prot = e.prot /\ d.queued = e.queued /\ d.flight = e.flight /\ d.out = e.out
    BY DEF Engines
  <1>2. \A x : /\ Emit(d, x).prot = d.prot /\ Emit(d, x).queued = d.queued
               /\ Emit(d, x).flight = d.flight /\ Emit(d, x).out = Append(d.out, x)
    BY DEF Emit, Engines
  <1>3. Commit(e) = Emit(d, PhaseEvent(e.run.op, "Committed"))  BY DEF Commit
  <1> HIDE DEF d
  <1>4. QED  BY <1>1, <1>2, <1>3

\* Acknowledging a frame reports exactly the protections it was planned with.
LEMMA AcknowledgeFields ==
  ASSUME NEW e, Sound(e)
  PROVE  /\ Acknowledge(e) \in Engines /\ Acknowledge(e).run = e.run
         /\ Acknowledge(e).prot = e.prot /\ Acknowledge(e).queued = e.queued
         /\ Acknowledge(e).flight = {} /\ Acknowledge(e).out \in Seq(DoneNotes(e))
  <1> DEFINE d == [e EXCEPT !.flight = {}]
             ack == ProtectedEvent(e.flight)
  <1>1. e \in Engines /\ e.out \in Seq(PhaseNotes)  BY DEF Sound
  <1>2. /\ d \in Engines /\ d.prot = e.prot /\ d.queued = e.queued /\ d.flight = {}
        /\ d.out = e.out
    BY <1>1 DEF Engines
  <1>3. e.out \in Seq(DoneNotes(e)) /\ ack \in DoneNotes(e)  BY <1>1 DEF DoneNotes
  <1>4. Append(e.out, ack) \in Seq(DoneNotes(e))  BY <1>3
  <1> HIDE DEF d, ack
  <1>5. CASE e.flight = {}  BY <1>1, <1>3, <1>5 DEF Acknowledge
  <1>6. CASE e.flight # {}
    <2>1. Acknowledge(e) = Emit(d, ack)  BY <1>6 DEF Acknowledge, d, ack
    <2>2. QED  BY <1>1, <1>2, <1>4, <2>1, EmitFields, AcknowledgeType
  <1>7. QED  BY <1>5, <1>6

\* Engine::frame_done reports exactly the protections in flight, and only once.
LEMMA FrameDoneFields ==
  ASSUME NEW e, Sound(e)
  PROVE  /\ FrameDone(e) \in Engines /\ FrameDone(e).prot = e.prot
         /\ FrameDone(e).queued = e.queued /\ FrameDone(e).flight = {}
         /\ FrameDone(e).out \in Seq(DoneNotes(e))
  <1> DEFINE ack == Acknowledge(e)
             moved == Emit(WithRun(ack, [e.run EXCEPT !.phase = "Animating"]),
                           PhaseEvent(e.run.op, "Animating"))
             ended(ph) == Emit(WithRun(ack, NoRun), PhaseEvent(e.run.op, ph))
             Like(d) == /\ d \in Engines /\ d.prot = e.prot /\ d.queued = e.queued
                        /\ d.flight = {} /\ d.out \in Seq(DoneNotes(e))
  <1>1. e \in Engines  BY DEF Sound
  <1>2. FrameDone(e) \in Engines  BY <1>1, FrameDoneType
  <1>3. Like(ack) /\ ack.run = e.run  BY AcknowledgeFields
  <1> HIDE DEF ack
  <1>4. CASE ~Running(e)
    <2>1. FrameDone(e) = ack  BY <1>4 DEF FrameDone, ack
    <2>2. QED  BY <1>3, <2>1
  <1>5. CASE Running(e)
    <2>1. e.run \in ActiveRuns /\ e.run.op \in Ops
      BY <1>1, <1>5, EngineFields, RunFacts DEF Running
    <2>2. \A ph \in PhaseEvents : PhaseEvent(e.run.op, ph) \in EngineEvents \cap DoneNotes(e)
      BY <2>1, PhaseNoteType, PhaseEventType DEF DoneNotes
    <2>3. ASSUME NEW d, Like(d), NEW r \in Runs PROVE Like(WithRun(d, r)) /\ WithRun(d, r).run = r
      <3>1. WithRun(d, r).run = r  BY <2>3 DEF WithRun, Engines
      <3>2. QED  BY <2>3, <3>1, WithRunType, WithRunFields
    <2>4. ASSUME NEW d, Like(d), NEW ph \in PhaseEvents
          PROVE  Like(Emit(d, PhaseEvent(e.run.op, ph))) /\ Emit(d, PhaseEvent(e.run.op, ph)).run = d.run
      <3>1. Append(d.out, PhaseEvent(e.run.op, ph)) \in Seq(DoneNotes(e))  BY <2>2, <2>4
      <3>2. QED  BY <2>2, <2>4, <3>1, EmitFields, EmitType
    <2>5. ASSUME NEW d, Like(d), d.run \in ActiveRuns, d.run.op = e.run.op PROVE Like(Commit(d))
      <3>1. Append(d.out, PhaseEvent(e.run.op, "Committed")) \in Seq(DoneNotes(e))
        BY <2>2, <2>5 DEF PhaseEvents
      <3>2. Commit(d) \in Engines  BY <2>5, CommitType DEF Running, ActiveRuns
      <3>3. QED  BY <2>5, <3>1, <3>2, CommitFields
    <2>6. [e.run EXCEPT !.phase = "Animating"] \in ActiveRuns \cap Runs
          /\ [e.run EXCEPT !.phase = "Animating"].op = e.run.op
      BY <2>1 DEF Runs, ActiveRuns
    <2> HIDE DEF Like
    <2>7. Like(moved) /\ moved.run \in ActiveRuns /\ moved.run.op = e.run.op
      <3>1. Like(WithRun(ack, [e.run EXCEPT !.phase = "Animating"]))
            /\ WithRun(ack, [e.run EXCEPT !.phase = "Animating"]).run = [e.run EXCEPT !.phase = "Animating"]
        BY <1>3, <2>3, <2>6
      <3>2. Like(moved) /\ moved.run = [e.run EXCEPT !.phase = "Animating"]
        BY <2>4, <3>1 DEF PhaseEvents
      <3>3. QED  BY <2>6, <3>2
    <2>8. Like(ended("Cancelled")) /\ Like(ended("Completed"))
      BY <1>3, <2>3, <2>4, NoRunType DEF PhaseEvents
    <2> HIDE DEF moved, ended
    <2>9. Like(Commit(moved))  BY <2>5, <2>7
    <2>10. Like(Commit(ack))  BY <1>3, <2>1, <2>5
    <2>11. FrameDone(e) \in {ended("Cancelled"), ack, Commit(moved), moved, Commit(ack), ended("Completed")}
      BY <1>5 DEF FrameDone, ack, moved, ended
    <2>12. QED  BY <1>3, <2>7, <2>8, <2>9, <2>10, <2>11 DEF Like
  <1>6. QED  BY <1>4, <1>5

------------------------------------------------------------------------------
(* The invariant.                                                          *)

\* The engine is sound; nothing acknowledged is unprotected, on a screen or in
\* the frame on its way; that frame shows no session it will acknowledge; and
\* nothing is on a screen, or on its way, while the displays are off.
AckInv ==
  /\ Sound(eng)
  /\ acked \subseteq eng.prot
  /\ fr.seen \notin eng.flight \cup acked
  /\ acked \cap screen = {}
  /\ fr.await # "frame" => fr.seen = Nil
  /\ ~fr.dpms => fr.await = "none" /\ ~fr.blanking /\ screen = {}

\* Events that are no acknowledgement.
Silent == Notes \cup PhaseNotes

\* No other event is an acknowledgement.
LEMMA SilentFacts == \A n \in Silent : n.ev # "Protected"
  BY DEF Silent, Notes, PhaseNotes, OwnerEvent, KeyEvent, GreeterEvent, KeyNotes

\* A step that emits only other events keeps every acknowledgement true.
LEMMA SilentStep ==
  ASSUME evt' \in Seq(Silent)
  PROVE  AckStep
  BY SilentFacts DEF AckStep

\* A command whose engine is sound and takes nothing in flight, and that leaves the
\* frame pump's own fields alone.
LEMMA HandledAck ==
  ASSUME TypeOK, AckInv, NEW e, Sound(e), e.flight \subseteq eng.flight, NEW r, NEW x \in Routed,
         Handled(e, r, x), screen' = screen, fr'.seen = fr.seen, fr'.await = fr.await,
         ~fr'.dpms => ~fr.dpms /\ ~fr'.blanking
  PROVE  AckInv' /\ AckStep
  <1> DEFINE y == ReconcileInput(x, e, r, outs)
  <1>1. e \in Engines /\ e.out \in Seq(PhaseNotes)  BY DEF Sound
  <1>2. y \in Routed  BY ReconcileInputType
  <1>3. eng' = [e EXCEPT !.out = <<>>] /\ evt' = y.ev \o e.out /\ acked' = acked \cap e.prot
    BY DEF Handled
  <1> HIDE DEF y
  <1>4. y.ev \in Seq(Silent) /\ e.out \in Seq(Silent)  BY <1>1, <1>2 DEF Routed, Silent
  <1>5. evt' \in Seq(Silent)  BY <1>3, <1>4
  <1>6. AckStep  BY <1>5, SilentStep
  <1>7. /\ eng' \in Engines /\ eng'.prot = e.prot /\ eng'.queued = e.queued
        /\ eng'.flight = e.flight /\ eng'.out = <<>>
    BY <1>1, <1>3, DrainedType DEF Engines
  <1>8. Sound(eng)'  BY <1>7 DEF Sound
  <1>9. QED  BY <1>3, <1>6, <1>7, <1>8 DEF AckInv

\* Asking for a frame leaves the awaited frame alone.
LEMMA RedrawKeeps ==
  ASSUME TypeOK, AckInv, Redraw
  PROVE  /\ fr'.seen = fr.seen /\ fr'.await = fr.await /\ fr'.dpms = fr.dpms
         /\ fr'.blanking = fr.blanking /\ (~fr'.dpms => ~fr.dpms /\ ~fr'.blanking)
  BY DEF TypeOK, AckInv, Redraw, Frames

\* The manager never reveals a session whose Protect is still unanswered.
Careful == \A e \in Envs : "eager" \notin e

\* The input record of a state is well typed.
LEMMA QuietRouted ==
  ASSUME TypeOK
  PROVE  Quiet(inp) \in Routed
  BY QuietType DEF TypeOK

\* No command of a careful manager brings an acknowledged session back.
LEMMA CommandsAck ==
  ASSUME Careful, TypeOK, AckInv, Commands
  PROVE  AckInv' /\ AckStep
  <1>1. Sound(eng) /\ eng \in Engines  BY DEF AckInv, Sound
  <1>2. Quiet(inp) \in Routed  BY QuietRouted
  <1>3. ASSUME NEW e, Sound(e), e.flight \subseteq eng.flight, NEW r, NEW x \in Routed,
               Handled(e, r, x), screen' = screen, Redraw
        PROVE  AckInv' /\ AckStep
    BY <1>3, HandledAck, RedrawKeeps
  <1>4. ASSUME NEW e, Sound(e), e.flight \subseteq eng.flight, EngineCommand(e)
        PROVE  AckInv' /\ AckStep
    BY <1>2, <1>3, <1>4 DEF EngineCommand
  <1>5. ASSUME NEW s \in Sids, NEW g \in Gens, NEW ok \in BOOLEAN, RegisterSession(s, g, ok)
        PROVE  AckInv' /\ AckStep
    <2> DEFINE stale == reg[s].gen \notin {Nil, g}
               e == IF stale THEN UnregisterKey(eng, KeyOf(reg, s)) ELSE eng
               x == IF stale THEN DropOwner(Quiet(inp), s) ELSE Quiet(inp)
    <2>1. Sound(e) /\ e.flight \subseteq eng.flight  BY <1>1, UnregisterKeySound
    <2>2. x \in Routed  BY <1>2, DropOwnerType
    <2>3. \A n \in KeyNotes : Tell(x, KeyEvent(n, <<s, g>>)) \in Routed
      BY <2>2, KeyNoteType, TellType
    <2> HIDE DEF stale, e, x
    <2>4. \E n \in KeyNotes : Handled(e, reg', Tell(x, KeyEvent(n, <<s, g>>)))
      BY <1>5 DEF RegisterSession, KeyNotes, stale, e, x
    <2>5. Redraw /\ screen' = screen  BY <1>5 DEF RegisterSession
    <2>6. QED  BY <1>3, <2>1, <2>3, <2>4, <2>5
  <1>6. ASSUME NEW s \in Sids, NEW g \in Gens, NEW ok \in BOOLEAN, BindHost(s, g, ok)
        PROVE  AckInv' /\ AckStep
    <2> DEFINE note == IF ok THEN "SessionConnected" ELSE "SessionConnectionRejected"
               told == IF ~reg[s].pend THEN Quiet(inp) ELSE Tell(Quiet(inp), KeyEvent(note, <<s, g>>))
    <2>1. note \in KeyNotes  BY DEF KeyNotes
    <2> HIDE DEF note
    <2>2. told \in Routed  BY <1>2, <2>1, KeyNoteType, TellType
    <2> HIDE DEF told
    <2>3. \E x \in Routed : Handled(eng, reg', x)
      BY <1>2, <1>6, <2>2 DEF BindHost, told, note
    <2>4. Redraw /\ screen' = screen  BY <1>6 DEF BindHost
    <2>5. QED  BY <1>1, <1>3, <2>3, <2>4
  <1>7. ASSUME NEW s \in Sids, NEW g \in Gens, RequestEvidence(s, g) PROVE AckInv' /\ AckStep
    BY <1>1, <1>2, <1>3, <1>7 DEF RequestEvidence
  <1>8. ASSUME NEW s \in Sids, NEW g \in Gens, UnregisterSession(s, g) PROVE AckInv' /\ AckStep
    <2>1. /\ Sound(UnregisterKey(eng, <<s, g>>))
          /\ UnregisterKey(eng, <<s, g>>).flight \subseteq eng.flight
          /\ DropOwner(Quiet(inp), s) \in Routed
      BY <1>1, <1>2, UnregisterKeySound, DropOwnerType
    <2>2. \E e, x : /\ Sound(e) /\ e.flight \subseteq eng.flight
                    /\ x \in Routed /\ Handled(e, reg', x)
      BY <1>1, <1>2, <1>8, <2>1 DEF UnregisterSession
    <2>3. Redraw /\ screen' = screen  BY <1>8 DEF UnregisterSession
    <2>4. QED  BY <1>3, <2>2, <2>3
  <1>9. ASSUME NEW s \in Sids, NEW g \in Gens, ProtectSession(s, g) PROVE AckInv' /\ AckStep
    <2>1. <<s, g>> \in Keys  BY DEF Keys
    <2>2. /\ Sound(Protect(eng, <<s, g>>)) /\ Protect(eng, <<s, g>>).flight \subseteq eng.flight
          /\ RevokeInputOf(Quiet(inp), s) \in Routed
      BY <1>1, <1>2, <2>1, ProtectSound, RevokeInputOfType
    <2>3. \E e, x : /\ Sound(e) /\ e.flight \subseteq eng.flight
                    /\ x \in Routed /\ Handled(e, reg, x)
      BY <1>1, <1>2, <1>9, <2>2 DEF ProtectSession
    <2>4. Redraw /\ screen' = screen  BY <1>9 DEF ProtectSession
    <2>5. QED  BY <1>3, <2>3, <2>4
  <1>10. ASSUME NEW g \in GGens, RegisterGreeter(g) PROVE AckInv' /\ AckStep
    <2>1. GreeterEvent("GreeterConnected", g) \in Notes  BY DEF Notes
    <2>2. Tell(Quiet(inp), GreeterEvent("GreeterConnected", g)) \in Routed
      BY <1>2, <2>1, TellType
    <2>3. \E x \in Routed : Handled(eng, reg, x)  BY <1>2, <1>10, <2>2 DEF RegisterGreeter
    <2>4. Redraw /\ screen' = screen  BY <1>10 DEF RegisterGreeter
    <2>5. QED  BY <1>1, <1>3, <2>3, <2>4
  <1>11. ASSUME NEW g \in GGens, UnregisterGreeter(g) PROVE AckInv' /\ AckStep
    BY <1>1, <1>2, <1>3, <1>11 DEF UnregisterGreeter
  <1>12. ASSUME NEW who \in Owners, SetInputOwner(who) PROVE AckInv' /\ AckStep
    <2>1. RequestOwner(Quiet(inp), eng, reg, outs, who) \in Routed  BY <1>2, RequestOwnerType
    <2>2. QED  BY <1>1, <1>3, <1>12, <2>1 DEF SetInputOwner
  <1>13. CASE GreeterOnly
    BY <1>1, <1>4, <1>13, ShowGreeterOnlySound DEF GreeterOnly
  <1>14. ASSUME NEW op \in Ops, NEW sh \in Shapes, NEW quick \in BOOLEAN, Disciplined(sh),
                BeginTransition(op, sh[1], sh[2], sh[3], quick)
         PROVE  AckInv' /\ AckStep
    <2> DEFINE d == Begin(eng, Probe(reg, gre, outs), op, sh[1], sh[2], sh[3], quick)
    <2>1. sh[1] \in RevealKinds => sh[3] \notin eng.queued \cup eng.flight
      BY <1>14 DEF Disciplined
    <2>2. Sound(d) /\ d.flight = eng.flight  BY <1>1, <2>1, ShapeType, BeginSound
    <2>3. EngineCommand(d)  BY <1>14 DEF BeginTransition
    <2> HIDE DEF d
    <2>4. QED  BY <1>4, <2>2, <2>3
  <1>15. ASSUME NEW op \in Ops, CancelTransition(op) PROVE AckInv' /\ AckStep
    BY <1>1, <1>4, <1>15, CancelSound DEF CancelTransition
  <1>16. ASSUME NEW on \in BOOLEAN, SetDpms(on) PROVE AckInv' /\ AckStep
    <2>1. /\ fr'.seen = fr.seen /\ fr'.await = fr.await
          /\ ~fr'.dpms => ~fr.dpms /\ ~fr'.blanking
      BY <1>16 DEF SetDpms, TypeOK, AckInv, Frames
    <2>2. Handled(eng, reg, Quiet(inp)) /\ screen' = screen  BY <1>16 DEF SetDpms
    <2>3. QED  BY <1>1, <1>2, <2>1, <2>2, HandledAck
  <1>17. "eager" \notin env  BY DEF Careful, TypeOK
  <1>18. QED
    BY <1>17, <1>5, <1>6, <1>7, <1>8, <1>9, <1>10, <1>11, <1>12, <1>13, <1>14, <1>15, <1>16
       DEF Commands

\* A step outside the engine: it touches neither the engine nor the screen, and
\* only asks for a frame.
LEMMA AsideAck ==
  ASSUME TypeOK, AckInv, UNCHANGED <<eng, screen, acked>>,
         fr'.seen = fr.seen, fr'.await = fr.await, fr'.dpms = fr.dpms, fr'.blanking = fr.blanking
  PROVE  AckInv'
  BY DEF AckInv, Sound

\* Session hosts, the greeter, the outputs and the return of the VT change nothing on a screen.
LEMMA ClientsAck ==
  ASSUME TypeOK, AckInv, Clients \/ SetOutputs \/ ActivateSession
  PROVE  AckInv' /\ AckStep
  <1>1. UNCHANGED <<eng, screen, acked>>
    BY DEF Clients, SetOutputs, ActivateSession, Clientside, HostConnects, HostCommits,
           HostDropsSurface, HostDisconnects, GreeterConnects, GreeterDisconnects, GreeterUnmaps,
           ExpirePending, GreeterMaps, Wake
  <1>2. /\ fr'.seen = fr.seen /\ fr'.await = fr.await /\ fr'.dpms = fr.dpms
        /\ fr'.blanking = fr.blanking
    <2>1. \A b : /\ [fr EXCEPT !.redraw = b].seen = fr.seen
                 /\ [fr EXCEPT !.redraw = b].await = fr.await
                 /\ [fr EXCEPT !.redraw = b].dpms = fr.dpms
                 /\ [fr EXCEPT !.redraw = b].blanking = fr.blanking
      BY DEF TypeOK, Frames
    <2>2. /\ [fr EXCEPT !.active = TRUE, !.redraw = TRUE].seen = fr.seen
          /\ [fr EXCEPT !.active = TRUE, !.redraw = TRUE].await = fr.await
          /\ [fr EXCEPT !.active = TRUE, !.redraw = TRUE].dpms = fr.dpms
          /\ [fr EXCEPT !.active = TRUE, !.redraw = TRUE].blanking = fr.blanking
      BY DEF TypeOK, Frames
    <2>3. \/ fr' = fr \/ fr' = [fr EXCEPT !.active = TRUE, !.redraw = TRUE]
          \/ \E b : fr' = [fr EXCEPT !.redraw = b]
      BY DEF Clients, SetOutputs, ActivateSession, HostConnects, HostCommits,
           HostDropsSurface, HostDisconnects, GreeterConnects, GreeterDisconnects, GreeterUnmaps,
           ExpirePending, GreeterMaps, Wake, Redraw
    <2>4. QED  BY <2>1, <2>2, <2>3
  <1>3. AckInv'  BY <1>1, <1>2, AsideAck
  <1>4. \/ evt' = <<>>
        \/ \E n : evt' = <<n>> /\ n.ev # "Protected"
    <2>1. \A x, y, z : /\ KeyEvent(x, y).ev = x /\ SurfacesEvent(y, z).ev = "SessionSurfaces"
                       /\ OutputsEvent(y, z).ev = "OutputsChanged" /\ GreeterEvent(x, y).ev = x
      BY DEF KeyEvent, SurfacesEvent, OutputsEvent, GreeterEvent
    <2>2. ASSUME OutputsChange  PROVE \E y, z : evt' = <<OutputsEvent(y, z)>>
      BY <2>2 DEF OutputsChange, NewOutputs
    <2>3. ASSUME NEW s \in Sids, NEW ok \in BOOLEAN, HostConnects(s, ok)
          PROVE  evt' = <<>> \/ \E y : evt' = <<KeyEvent("SessionConnected", y)>>
                                    \/ evt' = <<KeyEvent("SessionConnectionRejected", y)>>
      <3>1. TypeOK  OBVIOUS
      <3>2. reg[s].bound \in BOOLEAN  BY DEF TypeOK, Recs
      <3>3. QED  BY <2>3, <3>2 DEF HostConnects
    <2>4. ASSUME NEW s \in Sids, NEW ok \in BOOLEAN,
                 HostCommits(s, ok) \/ HostDropsSurface(s, ok)
          PROVE  evt' = <<>> \/ \E y, z : evt' = <<SurfacesEvent(y, z)>>
      BY <2>4 DEF HostCommits, HostDropsSurface
    <2>5. ASSUME NEW s \in Sids, HostDisconnects(s)
          PROVE  \E y : evt' = <<KeyEvent("SessionGone", y)>>
      BY <2>5 DEF HostDisconnects
    <2>6. ASSUME NEW g \in GGens, GreeterConnects(g)
          PROVE  evt' = <<>> \/ \E y : evt' = <<GreeterEvent("GreeterConnected", y)>>
      BY <2>6 DEF GreeterConnects
    <2>7. ASSUME GreeterDisconnects \/ GreeterUnmaps \/ ExpirePending \/ GreeterMaps \/ Wake
          PROVE  evt' = <<>> \/ \E y : evt' = <<GreeterEvent("GreeterGone", y)>>
      BY <2>7 DEF GreeterDisconnects, GreeterUnmaps, ExpirePending, GreeterMaps, Wake
    <2>8. ASSUME SetOutputs \/ ActivateSession  PROVE evt' = <<>> \/ OutputsChange
      BY <2>8 DEF SetOutputs, ActivateSession
    <2>9. CASE SetOutputs \/ ActivateSession  BY <2>9, <2>1, <2>2, <2>8
    <2>10. CASE Clients  BY <2>10, <2>1, <2>3, <2>4, <2>5, <2>6, <2>7 DEF Clients
    <2>11. QED  BY <2>9, <2>10
  <1>5. AckStep  BY <1>4 DEF AckStep
  <1>6. QED  BY <1>3, <1>5

\* A frame that is shown (frame_shown) acknowledges only sessions it does not show.
LEMMA FrameShownAck ==
  ASSUME TypeOK, AckInv, NEW e, Sound(e), NEW f \in Frames, NEW x \in Routed, NEW blank \in BOOLEAN,
         NEW seen \in Keys \cup {Nil}, FrameShown(e, f, x, blank, seen),
         seen \notin e.flight \cup (acked \cap e.prot), f.await = "none", f.seen = Nil,
         ~f.dpms => ~f.blanking /\ screen = {}
  PROVE  AckInv' /\ AckStep
  <1>1. e \in Engines /\ e.out \in Seq(PhaseNotes)  BY DEF Sound
  <1>2. x.ev \in Seq(Notes)  BY DEF Routed
  <1>3. CASE blank
    <2>1. /\ eng' = e /\ screen' = {} /\ evt' = x.ev /\ acked' = acked \cap e.prot
          /\ fr' = [f EXCEPT !.fails = 0, !.blanking = FALSE, !.dpms = @ /\ ~f.blanking]
      BY <1>3 DEF FrameShown
    <2>2. fr'.seen = Nil /\ fr'.await = "none" /\ fr'.blanking = FALSE
      BY <2>1 DEF Frames
    <2>3. evt' \in Seq(Silent)  BY <1>2, <2>1 DEF Silent
    <2>4. Nil \notin e.flight \cup acked
      BY <1>1, EngineFields, NilFacts DEF TypeOK
    <2>5. QED  BY <2>1, <2>2, <2>3, <2>4, SilentStep DEF AckInv, Sound
  <1>4. CASE ~blank
    <2> DEFINE d == FrameDone(e)
    <2>1. /\ d \in Engines /\ d.prot = e.prot /\ d.queued = e.queued /\ d.flight = {}
          /\ d.out \in Seq(DoneNotes(e))
      BY FrameDoneFields
    <2>2. /\ eng' = [d EXCEPT !.out = <<>>] /\ evt' = x.ev \o d.out
          /\ acked' = (acked \cup e.flight) \cap d.prot
          /\ screen' = IF f.dpms THEN Some(seen) ELSE screen
          /\ fr' = [f EXCEPT !.fails = 0, !.redraw = @ \/ NeedsFrame(d)]
      BY <1>4 DEF FrameShown
    <2> HIDE DEF d
    <2>3. fr'.seen = Nil /\ fr'.await = "none" /\ fr'.blanking = f.blanking /\ fr'.dpms = f.dpms
      BY <2>2 DEF Frames
    <2>4. /\ eng' \in Engines /\ eng'.prot = e.prot /\ eng'.queued = e.queued
          /\ eng'.flight = {} /\ eng'.out = <<>>
      BY <2>1, <2>2, DrainedType DEF Engines
    <2>5. Sound(eng)'  BY <2>4 DEF Sound
    <2>6. screen' \cap (e.flight \cup (acked \cap e.prot)) = {}
      BY <2>2 DEF Some
    <2>7. Nil \notin acked'  BY <2>1, <2>2, EngineFields, NilFacts
    <2>8. AckInv'  BY <2>1, <2>2, <2>3, <2>4, <2>5, <2>6, <2>7 DEF AckInv
    <2>9. evt' \in Seq(Notes \cup DoneNotes(e))  BY <1>2, <2>1, <2>2
    <2>10. \A n \in Notes \cup DoneNotes(e) : n.ev = "Protected" => n.keys = e.flight
      BY SilentFacts DEF Silent, DoneNotes, ProtectedEvent
    <2>11. AckStep  BY <2>6, <2>9, <2>10 DEF AckStep
    <2>12. QED  BY <2>8, <2>11
  <1>5. QED  BY <1>3, <1>4

\* A frame that is lost (frame_failed) acknowledges nothing.
LEMMA FrameLostAck ==
  ASSUME TypeOK, AckInv, NEW e, Sound(e), NEW f \in Frames, NEW x \in Routed, NEW blank \in BOOLEAN,
         FrameLost(e, f, x, blank), f.await = "none", f.seen = Nil,
         acked \cap screen' = {}, ~f.dpms => ~f.blanking /\ screen' = {}
  PROVE  AckInv' /\ AckStep
  <1> DEFINE fails == IF f.fails < MaxFrameFailures THEN f.fails + 1 ELSE f.fails
             back == IF blank THEN e ELSE FrameFailed(e)
             giveUp == ~blank /\ fails = MaxFrameFailures
             done == IF giveUp THEN AbortTransition(back) ELSE back
  <1>1. Sound(back)  BY FrameFailedSound
  <1> HIDE DEF back
  <1>2. Sound(done)  BY <1>1, AbortTransitionSound
  <1> HIDE DEF giveUp, done, fails
  <1>3. /\ fr' = [f EXCEPT !.fails = fails, !.redraw = TRUE]
        /\ eng' = (IF giveUp THEN [done EXCEPT !.out = <<>>] ELSE done)
        /\ evt' = (IF giveUp THEN x.ev \o done.out ELSE x.ev)
        /\ acked' = acked \cap done.prot
    BY DEF FrameLost, fails, back, giveUp, done
  <1>4. fr'.seen = Nil /\ fr'.await = "none" /\ fr'.blanking = f.blanking /\ fr'.dpms = f.dpms
    BY <1>3 DEF Frames
  <1>5. done \in Engines /\ done.out \in Seq(PhaseNotes)  BY <1>2 DEF Sound
  <1>6. Sound([done EXCEPT !.out = <<>>]) /\ [done EXCEPT !.out = <<>>].prot = done.prot
    <2> DEFINE d == [done EXCEPT !.out = <<>>]
    <2>1. /\ d \in Engines /\ d.prot = done.prot /\ d.queued = done.queued
          /\ d.flight = done.flight /\ d.out = <<>>
      BY <1>5, DrainedType DEF Engines
    <2> HIDE DEF d
    <2>2. Sound(d)  BY <1>2, <2>1 DEF Sound
    <2>3. QED  BY <2>1, <2>2 DEF d
  <1>7. Sound(eng') /\ eng'.prot = done.prot  BY <1>2, <1>3, <1>6
  <1>8. Nil \notin eng'.flight \cup acked'
    BY <1>3, <1>7, EngineFields, NilFacts DEF Sound
  <1>9. AckInv'  BY <1>3, <1>4, <1>7, <1>8 DEF AckInv, Sound
  <1>10. x.ev \in Seq(Silent) /\ done.out \in Seq(Silent)  BY <1>5 DEF Routed, Silent
  <1>11. evt' \in Seq(Silent)  BY <1>3, <1>10
  <1>12. QED  BY <1>9, <1>11, SilentStep

\* Whatever becomes of a submitted frame (settle), acknowledgements stay true.
LEMMA SettleFrameAck ==
  ASSUME TypeOK, AckInv, NEW e, Sound(e), NEW f \in Frames, NEW x \in Routed, NEW blank \in BOOLEAN,
         NEW seen \in Keys \cup {Nil}, seen \notin e.prot, blank => seen = Nil, NEW outcome,
         SettleFrame(e, f, x, blank, seen, outcome), f.await = "none", f.seen = Nil,
         ~f.dpms => ~f.blanking /\ screen = {} /\ outcome = "Shown"
  PROVE  AckInv' /\ AckStep
  <1>1. e.flight \subseteq e.prot /\ e \in Engines  BY DEF Sound
  <1>2. CASE outcome = "Shown"
    <2>1. FrameShown(e, f, x, blank, seen)  BY <1>2 DEF SettleFrame
    <2>2. QED  BY <1>1, <2>1, FrameShownAck
  <1>3. CASE outcome = "Failed"
    <2>1. FrameLost(e, f, x, blank) /\ screen' = screen  BY <1>3 DEF SettleFrame
    <2>2. acked \cap screen = {}  BY DEF AckInv
    <2>3. QED  BY <1>3, <2>1, <2>2, FrameLostAck
  <1>4. CASE outcome \notin {"Shown", "Failed"}
    <2> DEFINE part == outcome = "Partial"
    <2>1. /\ fr' = [f EXCEPT !.await = IF blank THEN "blank" ELSE "frame", !.partial = part, !.seen = seen]
          /\ eng' = e /\ evt' = x.ev /\ acked' = acked \cap e.prot /\ screen' = screen
      BY <1>4 DEF SettleFrame
    <2> HIDE DEF part
    <2>2. /\ fr'.await = (IF blank THEN "blank" ELSE "frame") /\ fr'.seen = seen
          /\ fr'.dpms = f.dpms
      BY <2>1 DEF Frames
    <2>3. f.dpms  BY <1>4
    <2>4. evt' \in Seq(Silent)  BY <2>1 DEF Routed, Silent
    <2>5. Sound(eng')  BY <2>1
    <2>6. AckInv'  BY <1>1, <2>1, <2>2, <2>3, <2>5 DEF AckInv, Sound
    <2>7. QED  BY <2>4, <2>6, SilentStep
  <1>5. QED  BY <1>2, <1>3, <1>4

\* The frame render_frame plans shows no protected session.
LEMMA RenderFrameAck ==
  ASSUME TypeOK, AckInv, NEW t \in Start..End, NEW outcome, RenderFrame(t, outcome)
  PROVE  AckInv' /\ AckStep
  <1> DEFINE x1 == ReconcileInput(Quiet(inp), eng, reg, outs)
             x2 == ApplyPendingOwner(x1, eng, reg, outs)
             p == Plan(eng, Probe(reg, gre, outs), t)
             x3 == ReconcileInput(x2, p.eng, reg, outs)
             planned == [fr EXCEPT !.redraw = FALSE, !.layer = p.layer, !.greeter = p.greeter]
             idle == [fr EXCEPT !.redraw = FALSE]
  <1>1. x1 \in Routed  BY QuietRouted, ReconcileInputType
  <1> HIDE DEF x1
  <1>2. x2 \in Routed  BY <1>1, ApplyPendingOwnerType
  <1>3. Sound(eng)  BY DEF AckInv
  <1>4. p \in Plans /\ Sound(p.eng) /\ p.seen \notin p.eng.prot  BY <1>3, PlanSound
  <1> HIDE DEF x2, p
  <1>5. x3 \in Routed  BY <1>2, ReconcileInputType
  <1>6. p.seen \in Keys \cup {Nil}  BY <1>4 DEF Plans
  <1>7. fr.await = "none" /\ fr.seen = Nil  BY DEF RenderFrame, AckInv
  <1>8. /\ planned \in Frames /\ planned.await = "none" /\ planned.seen = Nil
        /\ planned.dpms = fr.dpms /\ planned.blanking = fr.blanking
    BY <1>4, <1>7 DEF Plans, TypeOK, Frames
  <1>9. /\ idle \in Frames /\ idle.await = "none" /\ idle.seen = Nil
        /\ idle.dpms = fr.dpms /\ idle.blanking = fr.blanking
    BY <1>7 DEF TypeOK, Frames
  <1>10. ~fr.dpms => ~fr.blanking /\ screen = {}  BY DEF AckInv
  <1>11. Nil \notin eng.prot  BY <1>3, EngineFields, NilFacts DEF Sound
  <1> HIDE DEF x3, planned, idle
  <1>12. \/ fr.blanking /\ SettleFrame(eng, idle, x1, TRUE, Nil, outcome)
         \/ (fr.dpms \/ outcome = "Shown") /\ SettleFrame(p.eng, planned, x3, FALSE, p.seen, outcome)
    BY DEF RenderFrame, x1, x2, x3, p, planned, idle
  <1>13. CASE fr.blanking /\ SettleFrame(eng, idle, x1, TRUE, Nil, outcome)
    BY <1>1, <1>3, <1>9, <1>10, <1>11, <1>13, SettleFrameAck
  <1>14. CASE (fr.dpms \/ outcome = "Shown") /\ SettleFrame(p.eng, planned, x3, FALSE, p.seen, outcome)
    BY <1>4, <1>5, <1>6, <1>8, <1>10, <1>14, SettleFrameAck
  <1>15. QED  BY <1>12, <1>13, <1>14

\* A completed frame is no longer awaited.
LEMMA LandedFacts ==
  ASSUME TypeOK
  PROVE  /\ Landed \in Frames /\ Landed.await = "none" /\ Landed.seen = Nil
         /\ Landed.dpms = fr.dpms /\ Landed.blanking = fr.blanking
  BY DEF Landed, TypeOK, Frames

\* Completed and timed-out page flips keep acknowledgements true, on every output.
LEMMA FlipsAck ==
  ASSUME TypeOK, AckInv, FlipsDone \/ FlipTimeout
  PROVE  AckInv' /\ AckStep
  <1>1. Sound(eng) /\ fr.seen \notin eng.flight \cup acked /\ acked \cap screen = {}
    BY DEF AckInv
  <1>2. fr.await # "none" /\ fr.dpms  BY DEF FlipsDone, FlipTimeout, AckInv, TypeOK, Frames
  <1>3. fr.seen \in Keys \cup {Nil} /\ Blank \in BOOLEAN  BY DEF TypeOK, Frames, Blank
  <1>4. PICK b \in BOOLEAN, f \in Frames, q \in Routed :
          /\ f = Landed
          /\ \/ FrameShown(eng, f, q, b, fr.seen)
             \/ FrameLost(eng, f, q, b) /\ screen' = screen \cup Some(fr.seen)
    BY <1>3, LandedFacts, QuietRouted DEF FlipsDone, FlipTimeout
  <1>5. f.await = "none" /\ f.seen = Nil /\ f.dpms  BY <1>2, <1>4, LandedFacts
  <1>6. CASE FrameShown(eng, f, q, b, fr.seen)
    <2>1. fr.seen \notin eng.flight \cup (acked \cap eng.prot)  BY <1>1
    <2>2. QED  BY <1>1, <1>3, <1>5, <1>6, <2>1, FrameShownAck
  <1>7. CASE FrameLost(eng, f, q, b) /\ screen' = screen \cup Some(fr.seen)
    <2>1. acked \cap screen' = {}  BY <1>1, <1>7 DEF Some
    <2>2. QED  BY <1>1, <1>5, <1>7, <2>1, FrameLostAck
  <1>8. QED  BY <1>4, <1>6, <1>7

\* Losing the VT with a frame in flight keeps acknowledgements true.
LEMMA PauseAck ==
  ASSUME TypeOK, AckInv, PauseSession
  PROVE  AckInv' /\ AckStep
  <1>1. Sound(eng) /\ fr.seen \notin eng.flight \cup acked /\ acked \cap screen = {}
    BY DEF AckInv
  <1>2. Sound(FrameFailed(eng)) /\ FrameFailed(eng).prot = eng.prot
    BY <1>1, FrameFailedSound DEF FrameFailed, Sound, Engines
  <1>3. eng' = (IF fr.await # "none" THEN FrameFailed(eng) ELSE eng)  BY DEF PauseSession
  <1>4. Sound(eng') /\ eng'.prot = eng.prot  BY <1>1, <1>2, <1>3
  <1>5. /\ fr'.seen = Nil /\ fr'.await = "none" /\ fr'.dpms = fr.dpms /\ fr'.blanking = fr.blanking
    BY LandedFacts DEF PauseSession, Frames
  <1>6. Nil \notin eng'.flight \cup acked
    BY <1>4, EngineFields, NilFacts DEF Sound, TypeOK
  <1>7. acked' = acked /\ screen' = screen \cup Some(fr.seen) /\ evt' = <<>>  BY DEF PauseSession
  <1>8. acked \cap screen' = {}  BY <1>1, <1>7 DEF Some
  <1>9. ~fr.dpms => fr.await = "none" /\ ~fr.blanking /\ screen = {} /\ fr.seen = Nil  BY DEF AckInv
  <1>10. ~fr'.dpms => screen' = {}  BY <1>5, <1>7, <1>9 DEF Some
  <1>11. AckInv'  BY <1>4, <1>5, <1>6, <1>7, <1>8, <1>9, <1>10 DEF AckInv
  <1>12. AckStep  BY <1>7 DEF AckStep
  <1>13. QED  BY <1>11, <1>12

\* A held-back frame shows nothing new.
LEMMA RenderHeldAck ==
  ASSUME TypeOK, AckInv, RenderHeld
  PROVE  AckInv' /\ AckStep
  <1> DEFINE x == ReconcileInput(Quiet(inp), eng, reg, outs)
  <1>1. x \in Routed  BY QuietRouted, ReconcileInputType
  <1>2. evt' = x.ev /\ UNCHANGED <<eng, fr, screen, acked>>  BY DEF RenderHeld
  <1> HIDE DEF x
  <1>3. AckInv'  BY <1>2, AsideAck
  <1>4. evt' \in Seq(Silent)  BY <1>1, <1>2 DEF Routed, Silent
  <1>5. QED  BY <1>3, <1>4, SilentStep

\* The invariant holds at the start: nothing is shown and nothing acknowledged.
LEMMA InitAck == Init => AckInv
  <1>1. NewEngine \in Engines  BY NewEngineType
  <1>2. /\ NewEngine.prot = {} /\ NewEngine.queued = {} /\ NewEngine.flight = {}
        /\ NewEngine.out = <<>>
    BY DEF NewEngine
  <1>3. Sound(NewEngine)  BY <1>1, <1>2 DEF Sound
  <1>4. QED  BY <1>2, <1>3 DEF Init, AckInv

\* Every step keeps the invariant and sends only true acknowledgements.
LEMMA NextAck ==
  ASSUME Careful, TypeOK, AckInv, Next
  PROVE  AckInv' /\ AckStep
  <1>1. CASE Commands  BY <1>1, CommandsAck
  <1>2. CASE Clients  BY <1>2, ClientsAck
  <1>3. CASE Hardware  BY <1>3, ClientsAck, FlipsAck, PauseAck DEF Hardware
  <1>4. CASE FramePump
    <2>1. eng.run \in Runs  BY EngineFields DEF TypeOK
    <2>2. ASSUME NEW t \in NextProgress(eng.run), NEW outcome \in Outcomes, RenderFrame(t, outcome)
          PROVE  AckInv' /\ AckStep
      BY <2>1, <2>2, NextProgressType, RenderFrameAck
    <2>3. QED  BY <1>4, <2>2, RenderHeldAck, FlipsAck DEF FramePump
  <1>5. QED  BY <1>1, <1>2, <1>3, <1>4 DEF Next

\* A session whose protection was acknowledged stays off every output, and out of the
\* frame on its way to them, until a reveal lifts the protection (engine.rs plan, cancel,
\* frame_failed; state.rs settle), provided the manager is careful.
THEOREM AckCorrect ==
  ASSUME Careful
  PROVE  Spec => []AckedStaysHidden
  <1>1. TypeOK /\ AckInv /\ [Next]_vars => AckInv'
    <2>1. ASSUME UNCHANGED vars, AckInv  PROVE AckInv'
      BY <2>1 DEF vars, AckInv, Sound
    <2>2. QED  BY <2>1, NextAck
  <1>2. AckInv => AckedStaysHidden  BY DEF AckInv, AckedStaysHidden, Some
  <1>3. QED  BY <1>1, <1>2, InitAck, TypeCorrect, PTL DEF Spec

\* A Protected reply is true when it is sent (engine.rs frame_done, after the frame was
\* shown on all outputs), provided the manager is careful.
THEOREM AckTruthful ==
  ASSUME Careful
  PROVE  Spec => AckMeansGone
  <1>1. TypeOK /\ AckInv /\ [Next]_vars => AckInv' /\ [AckStep]_vars
    <2>1. ASSUME UNCHANGED vars, AckInv  PROVE AckInv'
      BY <2>1 DEF vars, AckInv, Sound
    <2>2. QED  BY <2>1, NextAck
  <1>2. QED  BY <1>1, InitAck, TypeCorrect, PTL DEF Spec, AckMeansGone
==============================================================================
