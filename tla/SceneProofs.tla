----------------------------- MODULE SceneProofs -----------------------------
(***************************************************************************)
(* What the scene promises to input and to a power fade.  For any number   *)
(* of sessions, operations and frame failures, and any loss of frames, VT  *)
(* switches, output changes and client crashes: physical input reaches a   *)
(* session only while no other session is visible (InputCorrect), and a    *)
(* held power fade leaves nothing but the cover on the outputs             *)
(* (HeldCorrect).                                                          *)
(*                                                                         *)
(* Neither is inductive.  A transition commits long after it was asked     *)
(* for, when its last frame is on the outputs, so SceneInv follows it: the *)
(* scene it started from, the session its frames may show, and what the    *)
(* frame that will commit it shows.                                        *)
(***************************************************************************)
EXTENDS ProtectionProofs

------------------------------------------------------------------------------
(* What an engine says about the sessions S that are visible or about to   *)
(* be, and about the frame that waits (w) for its flips and shows `seen'.  *)

\* A session scene has no other session on the outputs.
Fits(b, S) == b.scene = "session" => S \subseteq {b.key}

\* A transition before its commit has the scene it started from, or the cover,
\* behind it: no session behind a reveal, none but its own behind a logout.
Underway(e, S) ==
  /\ Fits(e.run.snapshot, S)
  /\ e.base \in {e.run.snapshot, Cover}
  /\ e.held.op = Nil
  /\ e.run.kind \in RevealKinds => e.run.snapshot.scene # "session"
  /\ e.run.kind = "LogoutFade" => e.run.snapshot.key \in {Nil, e.run.source}
  /\ e.run.reverse => e.run.kind = "PowerFade"

Staged(e, S) ==
  /\ Fits(e.base, S)
  /\ Uncommitted(e) => Underway(e, S)
  /\ e.held.op # Nil => e.base = Cover /\ S = {}

\* The frame that commits a reveal shows its target, that of a power fade nobody.
Ready(e, w, seen) ==
  w /\ Uncommitted(e) /\ e.run.t = End =>
    /\ e.run.kind \in RevealKinds => Some(seen) \subseteq {e.run.target}
    /\ e.run.kind = "PowerFade" /\ ~e.run.reverse => seen = Nil

\* The cover and the greeter are no session, and nothing is held at first.
LEMMA SceneFacts ==
  /\ Cover.scene = "cover" /\ Cover.key = Nil /\ Greeter.scene = "greeter" /\ Greeter.key = Nil
  /\ \A k : Session(k).scene = "session" /\ Session(k).key = k /\ Session(k) # Cover
  /\ NoHeld.op = Nil /\ NoRun.phase = "none"
  /\ \A S : Fits(Cover, S) /\ Fits(Greeter, S)
  BY DEF Cover, Greeter, Session, NoHeld, NoRun, Fits

\* The scene of an engine is its base, its transition and what it holds.
LEMMA SameScene ==
  ASSUME NEW e, NEW d, NEW S, NEW w, NEW seen, Staged(e, S), Ready(e, w, seen),
         d.base = e.base, d.run = e.run, d.held = e.held
  PROVE  Staged(d, S) /\ Ready(d, w, seen)
  BY DEF Staged, Ready, Underway, Uncommitted

\* A scene may be covered at any time.
LEMMA CoveredScene ==
  ASSUME NEW e, NEW d, NEW S, NEW w, NEW seen, Staged(e, S), Ready(e, w, seen),
         d.base \in {e.base, Cover}, d.run = e.run, d.held = e.held
  PROVE  Staged(d, S) /\ Ready(d, w, seen)
  BY SceneFacts DEF Staged, Ready, Underway, Uncommitted

\* An engine at rest needs only a scene that fits.
LEMMA RestingScene ==
  ASSUME NEW d, NEW S, NEW w, NEW seen, Fits(d.base, S), ~Uncommitted(d), d.held.op = Nil
  PROVE  Staged(d, S) /\ Ready(d, w, seen)
  BY DEF Staged, Ready

\* Fewer visible sessions are always fine.
LEMMA FewerSeen ==
  ASSUME NEW e, NEW S, NEW T, Staged(e, S), T \subseteq S
  PROVE  Staged(e, T)
  BY DEF Staged, Underway, Fits

\* Emitting, and replacing the transition, leave the rest of the scene alone.
LEMMA SceneFields ==
  ASSUME NEW e \in Engines, NEW x, NEW r
  PROVE  /\ Emit(e, x).base = e.base /\ Emit(e, x).run = e.run /\ Emit(e, x).held = e.held
         /\ WithRun(e, r).base = e.base /\ WithRun(e, r).run = r /\ WithRun(e, r).held = e.held
  BY DEF Emit, WithRun, Engines

------------------------------------------------------------------------------
(* The commands of the engine keep its scene.                              *)

\* Engine::protect covers the scene or leaves it alone.
LEMMA ProtectScene ==
  ASSUME NEW e \in Engines, NEW S, NEW w, NEW seen, NEW k, Staged(e, S), Ready(e, w, seen)
  PROVE  Staged(Protect(e, k), S) /\ Ready(Protect(e, k), w, seen)
  <1>1. /\ Protect(e, k).base \in {e.base, Cover} /\ Protect(e, k).run = e.run
        /\ Protect(e, k).held = e.held
    BY DEF Protect, Engines
  <1>2. QED  BY <1>1, CoveredScene

\* Engine::unregister covers the scene or leaves it alone.
LEMMA UnregisterKeyScene ==
  ASSUME NEW e \in Engines, NEW S, NEW w, NEW seen, NEW k, Staged(e, S), Ready(e, w, seen)
  PROVE  Staged(UnregisterKey(e, k), S) /\ Ready(UnregisterKey(e, k), w, seen)
  <1>1. /\ UnregisterKey(e, k).base \in {e.base, Cover} /\ UnregisterKey(e, k).run = e.run
        /\ UnregisterKey(e, k).held = e.held
    BY DEF UnregisterKey, Engines
  <1>2. QED  BY <1>1, CoveredScene

\* Engine::show_greeter_only leaves the greeter alone on the scene.
LEMMA ShowGreeterOnlyScene ==
  ASSUME NEW e \in Engines, NEW S, NEW w, NEW seen
  PROVE  Staged(ShowGreeterOnly(e), S) /\ Ready(ShowGreeterOnly(e), w, seen)
  <1> DEFINE told == CASE Uncommitted(e) -> Emit([e EXCEPT !.prot = Reprotected(e, e.run)],
                                                PhaseEvent(e.run.op, "Cancelled"))
                       [] e.run.phase = "Settling" -> Emit(e, PhaseEvent(e.run.op, "Completed"))
                       [] OTHER -> e
  <1>1. ShowGreeterOnly(e) = [told EXCEPT !.held = NoHeld, !.run = NoRun, !.base = Greeter]
    BY DEF ShowGreeterOnly, OnGreeter
  <1>2. ShowGreeterOnly(e) \in Engines  BY ShowGreeterOnlyType
  <1>3. DOMAIN ShowGreeterOnly(e) = DOMAIN told  BY <1>1
  <1>4. {"base", "run", "held"} \subseteq DOMAIN ShowGreeterOnly(e)  BY <1>2 DEF Engines
  <1> HIDE DEF told
  <1>5. /\ ShowGreeterOnly(e).base = Greeter /\ ShowGreeterOnly(e).run = NoRun
        /\ ShowGreeterOnly(e).held = NoHeld
    BY <1>1, <1>3, <1>4
  <1>6. ~Uncommitted(ShowGreeterOnly(e))  BY <1>5, SceneFacts DEF Uncommitted
  <1>7. QED  BY <1>5, <1>6, SceneFacts, RestingScene

\* Giving up a transition leaves the greeter on the scene, and keeps what is held.
LEMMA GivenUpScene ==
  ASSUME NEW e \in Engines, NEW S, NEW w, NEW seen, Staged(e, S), Uncommitted(e)
  PROVE  Staged(GivenUp(e), S) /\ Ready(GivenUp(e), w, seen)
  <1> DEFINE told == Emit(e, PhaseEvent(e.run.op, "Failed"))
  <1>1. e.run \in Runs /\ e.run.op \in Ops  BY RunOp DEF Uncommitted, Running
  <1>2. told \in Engines /\ told.held = e.held
    BY <1>1, PhaseEventType, EmitType, SceneFields DEF PhaseEvents
  <1> HIDE DEF told
  <1>3. FailSafe(told, e.run) \in Engines  BY <1>1, <1>2, FailSafeType
  <1>4. FailSafe(told, e.run).base = Greeter /\ FailSafe(told, e.run).held = e.held
    BY <1>2 DEF FailSafe, Engines
  <1>5. GivenUp(e) = WithRun(FailSafe(told, e.run), NoRun)  BY DEF GivenUp, told
  <1>6. GivenUp(e).base = Greeter /\ GivenUp(e).run = NoRun /\ GivenUp(e).held = e.held
    BY <1>3, <1>4, <1>5, SceneFields
  <1>7. e.held.op = Nil  BY DEF Staged, Underway
  <1>8. ~Uncommitted(GivenUp(e))  BY <1>6, SceneFacts DEF Uncommitted
  <1>9. QED  BY <1>6, <1>7, <1>8, SceneFacts, RestingScene

\* Engine::begin asked for by a disciplined manager: a reveal starts from a scene
\* without a session, a logout from its own.
LEMMA BeginScene ==
  ASSUME NEW e \in Engines, NEW S, NEW w, NEW seen, Staged(e, S), Ready(e, w, seen),
         NEW probe, NEW op \in Ops, NEW kind \in Kinds,
         NEW source \in Keys \cup {Nil}, NEW target \in Keys \cup {Nil}, NEW quick \in BOOLEAN,
         kind \in RevealKinds => e.base.scene # "session",
         kind = "LogoutFade" => e.base.key \in {Nil, source}
  PROVE  LET d == Begin(e, probe, op, kind, source, target, quick)
         IN  Staged(d, S) /\ Ready(d, w, seen)
  <1> DEFINE r == NewRun(e, op, kind, source, target, quick)
             lifted == Lifted(e, kind, target)
             safe == Shielded(lifted, kind, source)
             told == Emit(e, PhaseEvent(op, "Failed"))
             begun == WithRun(Emit(safe, PhaseEvent(op, "Prepared")), r)
  <1>1. PhaseEvent(op, "Failed") \in EngineEvents /\ PhaseEvent(op, "Prepared") \in EngineEvents
    BY PhaseEventType DEF PhaseEvents
  <1>2. lifted \in Engines  BY LiftedType
  <1>3. lifted.base = e.base /\ lifted.run = e.run /\ lifted.held = NoHeld
    BY DEF Lifted, Engines
  <1>4. /\ r \in Runs /\ r.op = op /\ r.kind = kind /\ r.source = source /\ r.t = Start
        /\ r.snapshot = e.base /\ r.reverse = FALSE /\ r.phase = "Prepared"
    BY NewRunType DEF NewRun
  <1> HIDE DEF r, lifted
  <1>5. CASE Running(e)
    <2>1. Staged(told, S) /\ Ready(told, w, seen)  BY SceneFields, SameScene
    <2>2. Begin(e, probe, op, kind, source, target, quick) = told  BY <1>5 DEF Begin
    <2>3. QED  BY <2>1, <2>2
  <1>6. CASE ~Running(e) /\ ~Validate(lifted, r, probe)
    <2> DEFINE back == [lifted EXCEPT !.prot = Reprotected(lifted, r)]
               failed == Emit(back, PhaseEvent(op, "Failed"))
    <2>1. back \in Engines  BY <1>2, <1>4, ReprotectedType DEF Engines
    <2>2. back.run = e.run /\ back.held = NoHeld  BY <1>2, <1>3 DEF Engines
    <2> HIDE DEF back
    <2>3. failed \in Engines /\ failed.run = e.run /\ failed.held = NoHeld
      BY <1>1, <2>1, <2>2, EmitType, SceneFields
    <2>4. Begin(e, probe, op, kind, source, target, quick) = FailSafe(failed, r)
      BY <1>4, <1>6 DEF Begin, Refused, r, lifted, back
    <2> HIDE DEF failed
    <2>5. /\ FailSafe(failed, r).base = Greeter /\ FailSafe(failed, r).run = e.run
          /\ FailSafe(failed, r).held = NoHeld
      BY <2>3 DEF FailSafe, Engines
    <2>6. ~Uncommitted(FailSafe(failed, r))  BY <1>6, <2>5 DEF Uncommitted, Running
    <2>7. QED  BY <2>4, <2>5, <2>6, SceneFacts, RestingScene
  <1>7. CASE ~Running(e) /\ Validate(lifted, r, probe)
    <2>1. safe \in Engines /\ safe.base \in {e.base, Cover} /\ safe.held = NoHeld
      <3>1. CASE safe = lifted  BY <1>2, <1>3, <3>1
      <3>2. CASE source \in Keys /\ safe = Protect(lifted, source)
        <4>1. Protect(lifted, source) \in Engines  BY <1>2, <3>2, ProtectType
        <4>2. Protect(lifted, source).base \in {e.base, Cover} /\ Protect(lifted, source).held = NoHeld
          BY <1>2, <1>3 DEF Protect, Engines
        <4>3. QED  BY <3>2, <4>1, <4>2
      <3>3. QED  BY <3>1, <3>2 DEF Shielded
    <2> HIDE DEF safe
    <2>2. Emit(safe, PhaseEvent(op, "Prepared")) \in Engines  BY <1>1, <2>1, EmitType
    <2>3. begun.base \in {e.base, Cover} /\ begun.run = r /\ begun.held = NoHeld
      BY <2>1, <2>2, SceneFields
    <2>4. Begin(e, probe, op, kind, source, target, quick) = begun
      BY <1>7 DEF Begin, r, lifted, safe
    <2> HIDE DEF begun
    <2>5. Underway(begun, S)  BY <1>4, <2>3, SceneFacts DEF Underway, Staged
    <2>6. Staged(begun, S)  BY <2>3, <2>5, SceneFacts DEF Staged
    <2>7. Ready(begun, w, seen)  BY <1>4, <2>3 DEF Ready, Start, End
    <2>8. QED  BY <2>4, <2>6, <2>7
  <1>8. QED  BY <1>5, <1>6, <1>7

\* Reversing a held cover: nothing is visible yet, so any scene fits.
LEMMA UnholdScene ==
  ASSUME NEW e \in Engines, NEW S, NEW w, NEW seen, Staged(e, S), ~Uncommitted(e), NEW op \in Ops
  PROVE  Staged(Unhold(e, op), S) /\ Ready(Unhold(e, op), w, seen)
  <1>1. CASE e.held.op # op
    <2>1. /\ Unhold(e, op).base = e.base /\ Unhold(e, op).run = e.run
          /\ Unhold(e, op).held = NoHeld
      BY <1>1 DEF Unhold, Engines
    <2>2. ~Uncommitted(Unhold(e, op))  BY <2>1 DEF Uncommitted
    <2>3. QED  BY <2>1, <2>2, SceneFacts, RestingScene DEF Staged
  <1>2. CASE e.held.op = op
    <2>1. /\ Unhold(e, op).base = e.held.snapshot /\ Unhold(e, op).run = Reversal(e.held)
          /\ Unhold(e, op).held = NoHeld
      BY <1>2 DEF Unhold, Engines
    <2>2. S = {}  BY <1>2, NilFacts DEF Staged
    <2>3. /\ Reversal(e.held).snapshot = e.held.snapshot /\ Reversal(e.held).kind = "PowerFade"
          /\ Reversal(e.held).t = Start
      BY DEF Reversal
    <2>4. \A b : Fits(b, S)  BY <2>2 DEF Fits
    <2>5. Underway(Unhold(e, op), S)
      BY <2>1, <2>3, <2>4, SceneFacts DEF Underway, RevealKinds
    <2>6. QED  BY <2>1, <2>3, <2>4, <2>5, SceneFacts DEF Staged, Ready, Start, End
  <1>3. QED  BY <1>1, <1>2

\* Engine::cancel goes back to the scene the transition started from.
LEMMA CancelScene ==
  ASSUME NEW e \in Engines, NEW S, NEW w, NEW seen, Staged(e, S), Ready(e, w, seen), NEW op \in Ops
  PROVE  Staged(Cancel(e, op), S) /\ Ready(Cancel(e, op), w, seen)
  <1> DEFINE back == [e EXCEPT !.prot = Reprotected(e, e.run), !.base = e.run.snapshot, !.run = NoRun]
             told == Emit(back, PhaseEvent(op, "Cancelled"))
             rest == Emit(WithRun(e, NoRun), PhaseEvent(op, "Completed"))
  <1>1. e.run \in Runs  BY EngineFields
  <1>2. \/ Cancel(e, op) = Unhold(e, op) /\ ~Uncommitted(e)
        \/ Cancel(e, op) = told /\ Uncommitted(e)
        \/ Cancel(e, op) = Unhold(rest, op) /\ ~Uncommitted(e)
        \/ Cancel(e, op) = e
    BY DEF Cancel, Running, Uncommitted
  <1>3. CASE Cancel(e, op) = Unhold(e, op) /\ ~Uncommitted(e)  BY <1>3, UnholdScene
  <1>4. CASE Cancel(e, op) = told /\ Uncommitted(e)
    <2>1. back \in Engines  BY <1>1, RunFacts, ReprotectedType, NoRunType DEF Engines
    <2>2. back.base = e.run.snapshot /\ back.run = NoRun /\ back.held = e.held  BY DEF Engines
    <2> HIDE DEF back
    <2>3. told.base = e.run.snapshot /\ told.run = NoRun /\ told.held = e.held
      BY <2>1, <2>2, SceneFields
    <2> HIDE DEF told
    <2>4. Fits(told.base, S) /\ told.held.op = Nil  BY <1>4, <2>3 DEF Staged, Underway
    <2>5. ~Uncommitted(told)  BY <2>3, SceneFacts DEF Uncommitted
    <2>6. QED  BY <1>4, <2>4, <2>5, RestingScene
  <1>5. CASE Cancel(e, op) = Unhold(rest, op) /\ ~Uncommitted(e)
    <2>1. WithRun(e, NoRun) \in Engines  BY NoRunType, WithRunType
    <2>2. rest \in Engines  BY <2>1, PhaseEventType, EmitType DEF PhaseEvents
    <2>3. rest.base = e.base /\ rest.run = NoRun /\ rest.held = e.held  BY <2>1, SceneFields
    <2> HIDE DEF rest
    <2>4. ~Uncommitted(rest)  BY <2>3, SceneFacts DEF Uncommitted
    <2>5. Staged(rest, S)  BY <2>3, <2>4 DEF Staged
    <2>6. QED  BY <1>5, <2>2, <2>4, <2>5, UnholdScene
  <1>6. QED  BY <1>2, <1>3, <1>4, <1>5

------------------------------------------------------------------------------
(* Frames keep the scene.                                                  *)

\* A frame of the base scene shows nobody the scene does not fit.
LEMMA StillScene ==
  ASSUME NEW d \in Engines, NEW S, Staged(d, S), ~Uncommitted(d), NEW probe
  PROVE  Staged(d, S \cup Some(BasePlan(d, probe)))
  BY SceneFacts DEF Staged, Fits, BasePlan, Some

\* An animated frame shows the session of its transition, and the frame that ends
\* the transition what Ready says.
LEMMA AnimatedScene ==
  ASSUME NEW k \in Engines, NEW S, Staged(k, S), Uncommitted(k), NEW probe, NEW t \in Start..End
  PROVE  LET p == Animated(k, probe, t)
         IN  Staged(p.eng, S \cup Some(p.seen)) /\ Ready(p.eng, TRUE, p.seen)
  <1> DEFINE r == [k.run EXCEPT !.started = TRUE, !.t = t]
             d == WithRun(k, r)
             layer == AnimatedLayer(k, k.run, probe)
             seen == IF PixelsShow(k.run, t) THEN layer ELSE Nil
  <1>1. Animated(k, probe, t).eng = d /\ Animated(k, probe, t).seen = seen  BY DEF Animated
  <1>2. k.run \in ActiveRuns  BY EngineFields, RunFacts DEF Uncommitted
  <1>3. /\ r.kind = k.run.kind /\ r.source = k.run.source /\ r.target = k.run.target /\ r.t = t
        /\ r.snapshot = k.run.snapshot /\ r.reverse = k.run.reverse /\ r.phase = k.run.phase
    BY <1>2 DEF ActiveRuns
  <1>4. d.base = k.base /\ d.run = r /\ d.held = k.held  BY SceneFields
  <1>5. /\ k.run.snapshot \in Bases /\ k.run.source \in Keys \cup {Nil} /\ k.run.kind \in Kinds
        /\ k.run.reverse \in BOOLEAN
    BY <1>2 DEF ActiveRuns
  <1>6. k.run.snapshot.scene = "session" => k.run.snapshot.key \in Keys  BY <1>5, BaseTypes
  <1>7. Underway(k, S)  BY DEF Staged
  <1>8. \A b \in {k.run.snapshot, Cover} : k.base = b => Fits(b, S \cup Some(layer))
    BY <1>5, <1>6, <1>7, SceneFacts, NilFacts
       DEF Underway, Fits, AnimatedLayer, BasePlan, Some, RevealKinds
  <1>9. Fits(k.run.snapshot, S \cup Some(layer))
    BY <1>5, <1>6, <1>7, SceneFacts, NilFacts
       DEF Underway, Fits, AnimatedLayer, BasePlan, Some, RevealKinds
  <1> HIDE DEF layer
  <1>10. S \cup Some(seen) \subseteq S \cup Some(layer)  BY DEF Some
  <1>11. Fits(k.base, S \cup Some(seen)) /\ Fits(k.run.snapshot, S \cup Some(seen))
    BY <1>7, <1>8, <1>9, <1>10 DEF Underway, Fits
  <1>12. t = End => /\ k.run.kind \in RevealKinds => Some(seen) \subseteq {k.run.target}
                    /\ k.run.kind = "PowerFade" /\ ~k.run.reverse => seen = Nil
    BY DEF PixelsShow, layer, AnimatedLayer, Some, RevealKinds, Start, End
  <1> HIDE DEF r, d, seen
  <1>13. Underway(d, S \cup Some(seen))  BY <1>3, <1>4, <1>7, <1>11 DEF Underway
  <1>14. Staged(d, S \cup Some(seen))  BY <1>4, <1>11, <1>13 DEF Staged, Underway
  <1>15. Ready(d, TRUE, seen)  BY <1>3, <1>4, <1>12 DEF Ready
  <1>16. QED  BY <1>1, <1>14, <1>15

\* Engine::plan: what the new frame shows fits the scene it was planned from.
LEMMA PlanScene ==
  ASSUME NEW e \in Engines, NEW S, Staged(e, S), NEW probe, NEW t \in Start..End
  PROVE  LET p == Plan(e, probe, t)
         IN  Staged(p.eng, S \cup Some(p.seen)) /\ Ready(p.eng, TRUE, p.seen)
  <1> DEFINE k == Taken(e)
  <1>1. k \in Engines /\ k.base = e.base /\ k.run = e.run /\ k.held = e.held
    BY TakenType DEF Taken, Engines
  <1>2. Plan(e, probe, t) = IF ~Uncommitted(e) THEN Still(k, probe)
                            ELSE IF ~Validate(k, e.run, probe) THEN Still(GivenUp(k), probe)
                            ELSE Animated(k, probe, t)
    BY DEF Plan
  <1> HIDE DEF k
  <1>3. Staged(k, S) /\ (Uncommitted(k) <=> Uncommitted(e))
    BY <1>1 DEF Staged, Underway, Uncommitted
  <1>4. ASSUME NEW d \in Engines, Staged(d, S), ~Uncommitted(d)
        PROVE  LET p == Still(d, probe)
               IN  Staged(p.eng, S \cup Some(p.seen)) /\ Ready(p.eng, TRUE, p.seen)
    <2>1. Staged(d, S \cup Some(BasePlan(d, probe)))  BY <1>4, StillScene
    <2>2. Ready(d, TRUE, BasePlan(d, probe))  BY <1>4 DEF Ready
    <2>3. QED  BY <2>1, <2>2 DEF Still
  <1>5. CASE ~Uncommitted(e)  BY <1>1, <1>2, <1>3, <1>4, <1>5
  <1>6. CASE Uncommitted(e) /\ ~Validate(k, e.run, probe)
    <2>1. Staged(GivenUp(k), S)  BY <1>1, <1>3, <1>6, GivenUpScene
    <2>2. GivenUp(k) \in Engines
      BY <1>1, <1>3, <1>6, GivenUpType DEF Uncommitted, Running
    <2>3. GivenUp(k).run = NoRun
      <3>1. k.run \in Runs /\ k.run.op \in Ops  BY <1>1, <1>3, <1>6, RunOp DEF Uncommitted, Running
      <3>2. Emit(k, PhaseEvent(k.run.op, "Failed")) \in Engines
        BY <1>1, <3>1, PhaseEventType, EmitType DEF PhaseEvents
      <3>3. FailSafe(Emit(k, PhaseEvent(k.run.op, "Failed")), k.run) \in Engines
        BY <3>1, <3>2, FailSafeType
      <3>4. QED  BY <3>3, SceneFields DEF GivenUp
    <2>4. ~Uncommitted(GivenUp(k))  BY <2>3, SceneFacts DEF Uncommitted
    <2>5. QED  BY <1>2, <1>4, <1>6, <2>1, <2>2, <2>4
  <1>7. CASE Uncommitted(e) /\ Validate(k, e.run, probe)
    BY <1>1, <1>2, <1>3, <1>7, AnimatedScene
  <1>8. QED  BY <1>5, <1>6, <1>7

\* Acknowledging a frame leaves the scene alone.
LEMMA AcknowledgeScene ==
  ASSUME NEW e \in Engines
  PROVE  /\ Acknowledge(e) \in Engines /\ Acknowledge(e).base = e.base
         /\ Acknowledge(e).run = e.run /\ Acknowledge(e).held = e.held
         /\ Acknowledge(e).prot = e.prot
  <1> DEFINE d == [e EXCEPT !.flight = {}]
  <1>1. d \in Engines /\ d.base = e.base /\ d.run = e.run /\ d.held = e.held /\ d.prot = e.prot
    BY DEF Engines
  <1> HIDE DEF d
  <1>2. Acknowledge(e) \in {e, Emit(d, ProtectedEvent(e.flight))}  BY DEF Acknowledge, d
  <1>3. QED  BY <1>1, <1>2, AcknowledgeType, SceneFields, EmitFields

\* Engine::commit: the scene a transition ends on fits what its last frame shows.
LEMMA CommitScene ==
  ASSUME NEW e \in Engines, NEW seen, e.run \in ActiveRuns, e.held.op = Nil, ~e.run.reverse,
         e.run.kind \in RevealKinds => Some(seen) \subseteq {e.run.target},
         e.run.kind = "PowerFade" /\ ~e.run.reverse => seen = Nil
  PROVE  Staged(Commit(e), Some(seen))
  <1> DEFINE d == [e EXCEPT !.held = HeldAfter(e), !.base = EndScene(e.run.kind, e.run.target),
                            !.run = [e.run EXCEPT !.phase = "Settling"]]
  <1>1. Commit(e) = [d EXCEPT !.out = Append(d.out, PhaseEvent(e.run.op, "Committed"))]
    BY DEF Commit, Emit
  <1>2. /\ d.base = EndScene(e.run.kind, e.run.target) /\ d.held = HeldAfter(e)
        /\ d.run = [e.run EXCEPT !.phase = "Settling"]
        /\ {"base", "held", "run"} \subseteq DOMAIN d
    BY DEF Engines
  <1> HIDE DEF d
  <1>3. /\ Commit(e).base = EndScene(e.run.kind, e.run.target) /\ Commit(e).held = HeldAfter(e)
        /\ Commit(e).run = [e.run EXCEPT !.phase = "Settling"]
    BY <1>1, <1>2
  <1>4. ~Uncommitted(Commit(e))  BY <1>3 DEF Uncommitted, ActiveRuns
  <1>5. HeldAfter(e).op # Nil => e.run.kind = "PowerFade"  BY DEF HeldAfter
  <1>6. Fits(EndScene(e.run.kind, e.run.target), Some(seen))
    BY SceneFacts DEF EndScene, Fits
  <1>7. e.run.kind = "PowerFade" => EndScene(e.run.kind, e.run.target) = Cover /\ Some(seen) = {}
    BY DEF EndScene, RevealKinds, Some
  <1>8. QED  BY <1>3, <1>4, <1>5, <1>6, <1>7 DEF Staged

\* Engine::frame_done: the scene fits the frame that is now on every output.
LEMMA FrameDoneScene ==
  ASSUME NEW e \in Engines, NEW S, NEW seen, Staged(e, S), Ready(e, TRUE, seen), Some(seen) \subseteq S
  PROVE  Staged(FrameDone(e), Some(seen))
  <1> DEFINE T == Some(seen)
             ack == Acknowledge(e)
             moved == Emit(WithRun(ack, [e.run EXCEPT !.phase = "Animating"]),
                           PhaseEvent(e.run.op, "Animating"))
             ended(ph) == Emit(WithRun(ack, NoRun), PhaseEvent(e.run.op, ph))
  <1>1. Staged(e, T)  BY FewerSeen
  <1>2. /\ ack \in Engines /\ ack.base = e.base /\ ack.run = e.run /\ ack.held = e.held
    BY AcknowledgeScene
  <1> HIDE DEF ack
  <1>3. Staged(ack, T)  BY <1>1, <1>2 DEF Staged, Underway, Uncommitted
  <1>4. CASE ~Running(e)
    <2>1. FrameDone(e) = ack  BY <1>4 DEF FrameDone, ack
    <2>2. QED  BY <1>3, <2>1
  <1>5. CASE Running(e)
    <2> DEFINE r == [e.run EXCEPT !.phase = "Animating"]
    <2>1. e.run \in ActiveRuns /\ e.run.op \in Ops
      BY <1>5, EngineFields, RunFacts DEF Running
    <2>2. \A ph \in PhaseEvents : PhaseEvent(e.run.op, ph) \in EngineEvents
      BY <2>1, PhaseEventType
    <2>3. ASSUME NEW ph \in PhaseEvents  PROVE Staged(ended(ph), T)
      <3>1. WithRun(ack, NoRun) \in Engines  BY <1>2, NoRunType, WithRunType
      <3>2. ended(ph).base = e.base /\ ended(ph).run = NoRun /\ ended(ph).held = e.held
        BY <1>2, <3>1, SceneFields
      <3>3. ~Uncommitted(ended(ph))  BY <3>2, SceneFacts DEF Uncommitted
      <3> HIDE DEF ended
      <3>4. QED  BY <1>1, <3>2, <3>3 DEF Staged
    <2>4. /\ r \in ActiveRuns /\ r \in Runs /\ r.kind = e.run.kind /\ r.source = e.run.source
          /\ r.target = e.run.target /\ r.t = e.run.t /\ r.snapshot = e.run.snapshot
          /\ r.reverse = e.run.reverse /\ r.phase = "Animating" /\ r.op = e.run.op
      BY <2>1 DEF ActiveRuns, Runs
    <2> HIDE DEF r
    <2>5. WithRun(ack, r) \in Engines  BY <1>2, <2>4, WithRunType
    <2>6. moved \in Engines /\ moved.base = e.base /\ moved.run = r /\ moved.held = e.held
      <3>1. moved = Emit(WithRun(ack, r), PhaseEvent(e.run.op, "Animating"))  BY DEF r
      <3> HIDE DEF moved
      <3>2. PhaseEvent(e.run.op, "Animating") \in EngineEvents  BY <2>2 DEF PhaseEvents
      <3>3. QED  BY <1>2, <2>5, <3>1, <3>2, SceneFields, EmitType
    <2> HIDE DEF moved
    <2>7. e.run.phase = "Prepared" => Staged(moved, T)
      BY <1>1, <2>4, <2>6 DEF Staged, Underway, Uncommitted
    <2>8. ASSUME Uncommitted(e), e.run.t = End, ~e.run.reverse
          PROVE  Staged(Commit(moved), T) /\ Staged(Commit(ack), T)
      <3>1. e.held.op = Nil  BY <1>1, <2>8 DEF Staged, Underway
      <3>2. /\ e.run.kind \in RevealKinds => Some(seen) \subseteq {e.run.target}
            /\ e.run.kind = "PowerFade" /\ ~e.run.reverse => seen = Nil
        BY <2>8 DEF Ready
      <3>3. Staged(Commit(moved), T)  BY <2>4, <2>6, <2>8, <3>1, <3>2, CommitScene
      <3>4. Staged(Commit(ack), T)  BY <1>2, <2>1, <2>8, <3>1, <3>2, CommitScene
      <3>5. QED  BY <3>3, <3>4
    <2>9. \/ FrameDone(e) = ended("Cancelled") \/ FrameDone(e) = ended("Completed")
          \/ FrameDone(e) = ack
          \/ FrameDone(e) = moved /\ e.run.phase = "Prepared"
          \/ /\ FrameDone(e) \in {Commit(moved), Commit(ack)}
             /\ Uncommitted(e) /\ e.run.t = End /\ ~e.run.reverse
      BY <1>5, <2>1 DEF FrameDone, ack, moved, ended, Uncommitted
    <2> HIDE DEF ended
    <2>10. QED  BY <1>3, <2>3, <2>7, <2>8, <2>9 DEF PhaseEvents
  <1>6. QED  BY <1>4, <1>5

\* Engine::frame_failed leaves the scene alone.
LEMMA FrameFailedScene ==
  ASSUME NEW e \in Engines, NEW S, Staged(e, S)
  PROVE  /\ Staged(FrameFailed(e), S)
         /\ FrameFailed(e).base = e.base /\ FrameFailed(e).run = e.run /\ FrameFailed(e).prot = e.prot
  <1>1. /\ FrameFailed(e).base = e.base /\ FrameFailed(e).run = e.run
        /\ FrameFailed(e).held = e.held /\ FrameFailed(e).prot = e.prot
    BY DEF FrameFailed, Engines
  <1>2. QED  BY <1>1 DEF Staged, Underway, Uncommitted

\* Engine::abort_transition keeps the scene, or ends on the greeter.
LEMMA AbortTransitionScene ==
  ASSUME NEW e \in Engines, NEW S, Staged(e, S)
  PROVE  Staged(AbortTransition(e), S)
  <1>1. CASE Uncommitted(e)  BY <1>1, GivenUpScene DEF AbortTransition
  <1>2. CASE ~Uncommitted(e) /\ Running(e)
    <2> DEFINE told == Emit(e, PhaseEvent(e.run.op, "Completed"))
    <2>1. e.run.op \in Ops  BY <1>2, RunOp
    <2>2. told \in Engines /\ told.base = e.base /\ told.held = e.held
      BY <2>1, PhaseEventType, EmitType, SceneFields DEF PhaseEvents
    <2>3. AbortTransition(e) = WithRun(told, NoRun)  BY <1>2 DEF AbortTransition
    <2> HIDE DEF told
    <2>4. /\ AbortTransition(e).base = e.base /\ AbortTransition(e).run = NoRun
          /\ AbortTransition(e).held = e.held
      BY <2>2, <2>3, SceneFields
    <2>5. ~Uncommitted(AbortTransition(e))  BY <2>4, SceneFacts DEF Uncommitted
    <2>6. QED  BY <2>4, <2>5 DEF Staged
  <1>3. CASE ~Uncommitted(e) /\ ~Running(e)  BY <1>3 DEF AbortTransition
  <1>4. QED  BY <1>1, <1>2, <1>3

------------------------------------------------------------------------------
(* Input follows the foreground.                                           *)

\* The session that owns the input is the registered foreground.
Routes(e, r, i) ==
  i.owner \in Sids => r[i.owner].gen # Nil /\ ForegroundSession(e) = KeyOf(r, i.owner)

\* reconcile_input (input.rs) takes the input from every other session.
LEMMA ReconcileRoutes ==
  ASSUME NEW x \in Routed, NEW e, NEW r, NEW o
  PROVE  Routes(e, r, ReconcileInput(x, e, r, o).i)
  <1> DEFINE y == ReconcileInput(x, e, r, o)
             lost == SetOwnerNow(x, "None")
             want == x.i.want /\ x.i.owner # "Greeter"
             shut == [lost EXCEPT !.i.susp = Suspended(e, r, x.i.owner), !.i.pend = x.i.pend,
                                  !.i.want = want]
  <1>1. "None" \notin Sids /\ "Greeter" \notin Sids  BY OwnersDiffer
  <1>2. ASSUME NEW who \in Sids, OwnerAllowed(e, r, o, who)
        PROVE  r[who].gen # Nil /\ ForegroundSession(e) = KeyOf(r, who)
    BY <1>1, <1>2 DEF OwnerAllowed
  <1>3. shut.i.owner = "None"
    <2>1. lost.i = [owner |-> "None", pend |-> Nil, want |-> FALSE, susp |-> Nil]
      BY DEF SetOwnerNow
    <2>2. lost \in Routed  BY SetOwnerNowType DEF Owners
    <2> HIDE DEF lost, want
    <2>3. DOMAIN lost.i = {"owner", "pend", "want", "susp"} /\ DOMAIN lost = {"i", "ev"}
      BY <2>2 DEF Routed, Inputs
    <2>4. shut.i.owner = lost.i.owner  BY <2>3
    <2>5. QED  BY <2>1, <2>4
  <1>4. \A who : SetOwnerNow(x, who).i.owner = who  BY DEF SetOwnerNow
  <1>5. \/ y.i.owner = "None" \/ y.i.owner = "Greeter"
        \/ OwnerAllowed(e, r, o, y.i.owner)
    <2> HIDE DEF lost, shut
    <2>1. \/ y = shut
          \/ y = x /\ OwnerAllowed(e, r, o, x.i.owner)
          \/ y = SetOwnerNow(x, x.i.susp) /\ OwnerAllowed(e, r, o, x.i.susp)
          \/ y = SetOwnerNow(x, "Greeter")
      BY DEF ReconcileInput, shut, lost, want
    <2> HIDE DEF y
    <2>2. QED  BY <1>3, <1>4, <2>1
  <1> HIDE DEF y
  <1>6. Routes(e, r, y.i)  BY <1>1, <1>2, <1>5 DEF Routes
  <1>7. QED  BY <1>6 DEF y

\* A foreground stays one as long as base, protections and phase do.
LEMMA SameForeground ==
  ASSUME NEW e, NEW d, NEW r, NEW i, Routes(e, r, i),
         i.owner \in Sids /\ ~Uncommitted(e) =>
           d.base = e.base /\ d.prot = e.prot /\ ~Uncommitted(d),
         i.owner \in Sids => KeyOf(r, i.owner) # Nil
  PROVE  Routes(d, r, i)
  BY DEF Routes, ForegroundSession

\* Engine::frame_done leaves a committed foreground alone.
LEMMA FrameDoneForeground ==
  ASSUME NEW e \in Engines, ~Uncommitted(e)
  PROVE  FrameDone(e).base = e.base /\ FrameDone(e).prot = e.prot /\ ~Uncommitted(FrameDone(e))
  <1> DEFINE ack == Acknowledge(e)
             ended(ph) == Emit(WithRun(ack, NoRun), PhaseEvent(e.run.op, ph))
  <1>1. /\ ack \in Engines /\ ack.base = e.base /\ ack.run = e.run /\ ack.prot = e.prot
    BY AcknowledgeScene
  <1>2. FrameDone(e) \in {ack, ended("Cancelled"), ended("Completed")}
    BY DEF FrameDone, Uncommitted, Running
  <1> HIDE DEF ack
  <1>3. ASSUME NEW ph
        PROVE  ended(ph).base = e.base /\ ended(ph).prot = e.prot /\ ended(ph).run = NoRun
    <2>1. WithRun(ack, NoRun) \in Engines  BY <1>1, NoRunType, WithRunType
    <2>2. WithRun(ack, NoRun).base = e.base /\ WithRun(ack, NoRun).prot = e.prot
          /\ WithRun(ack, NoRun).run = NoRun
      BY <1>1, SceneFields, WithRunFields
    <2>3. QED  BY <2>1, <2>2, SceneFields, EmitFields
  <1> HIDE DEF ended
  <1>4. QED  BY <1>1, <1>2, <1>3, SceneFacts DEF Uncommitted

\* Engine::abort_transition leaves a committed foreground alone.
LEMMA AbortForeground ==
  ASSUME NEW e \in Engines, ~Uncommitted(e)
  PROVE  /\ AbortTransition(e).base = e.base /\ AbortTransition(e).prot = e.prot
         /\ ~Uncommitted(AbortTransition(e))
  <1>1. CASE Running(e)
    <2> DEFINE told == Emit(e, PhaseEvent(e.run.op, "Completed"))
    <2>1. e.run.op \in Ops  BY <1>1, RunOp
    <2>2. told \in Engines /\ told.base = e.base /\ told.prot = e.prot
      BY <2>1, PhaseEventType, EmitType, SceneFields, EmitFields DEF PhaseEvents
    <2>3. AbortTransition(e) = WithRun(told, NoRun)  BY <1>1 DEF AbortTransition
    <2> HIDE DEF told
    <2>4. /\ AbortTransition(e).base = e.base /\ AbortTransition(e).prot = e.prot
          /\ AbortTransition(e).run = NoRun
      BY <2>2, <2>3, SceneFields, WithRunFields
    <2>5. QED  BY <2>4, SceneFacts DEF Uncommitted
  <1>2. CASE ~Running(e)  BY <1>2 DEF AbortTransition
  <1>3. QED  BY <1>1, <1>2

------------------------------------------------------------------------------
(* The invariant, and the commands.                                        *)

Visible == screen \cup Some(fr.seen)
Awaited == fr.await = "frame"
SceneInv ==
  /\ Staged(eng, Visible)
  /\ Ready(eng, Awaited, fr.seen)
  /\ Routes(eng, reg, inp)

\* Draining the events leaves the scene alone.
LEMMA DrainedScene ==
  ASSUME NEW e \in Engines
  PROVE  LET d == [e EXCEPT !.out = <<>>]
         IN  d.base = e.base /\ d.run = e.run /\ d.held = e.held /\ d.prot = e.prot
  BY DEF Engines

\* A drained engine has the same foreground.
LEMMA DrainedRoutes ==
  ASSUME NEW e \in Engines, NEW r, NEW i, Routes(e, r, i)
  PROVE  Routes([e EXCEPT !.out = <<>>], r, i)
  <1> DEFINE d == [e EXCEPT !.out = <<>>]
  <1>1. d.base = e.base /\ d.run = e.run /\ d.prot = e.prot  BY DrainedScene
  <1> HIDE DEF d
  <1>2. Routes(d, r, i)  BY <1>1 DEF Routes, ForegroundSession, Uncommitted
  <1>3. QED  BY <1>2 DEF d

\* A command whose engine keeps the scene, with the frame in flight left alone.
LEMMA HandledScene ==
  ASSUME TypeOK, NEW e \in Engines, Staged(e, Visible), Ready(e, Awaited, fr.seen),
         NEW x \in Routed, Handled(e, reg', x), screen' = screen,
         fr'.seen = fr.seen, fr'.await = fr.await
  PROVE  SceneInv'
  <1> DEFINE y == ReconcileInput(x, e, reg', outs)
             d == [e EXCEPT !.out = <<>>]
  <1>1. Routes(e, reg', y.i)  BY ReconcileRoutes
  <1>2. eng' = d /\ inp' = y.i  BY DEF Handled
  <1>3. d.base = e.base /\ d.run = e.run /\ d.held = e.held  BY DrainedScene
  <1>4. Routes(d, reg', y.i)  BY <1>1, DrainedRoutes
  <1> HIDE DEF d, y
  <1>5. Staged(d, Visible) /\ Ready(d, Awaited, fr.seen)  BY <1>3, SameScene
  <1>6. QED  BY <1>2, <1>4, <1>5 DEF SceneInv, Visible, Awaited

\* Every command of a careful manager keeps the invariant.
LEMMA CommandsScene ==
  ASSUME Careful, TypeOK, SceneInv, Commands
  PROVE  SceneInv'
  <1>1. /\ eng \in Engines /\ Staged(eng, Visible) /\ Ready(eng, Awaited, fr.seen)
    BY DEF TypeOK, SceneInv
  <1>2. Quiet(inp) \in Routed  BY QuietRouted
  <1>3. ASSUME NEW e \in Engines, Staged(e, Visible), Ready(e, Awaited, fr.seen), NEW x \in Routed,
               Handled(e, reg', x), screen' = screen, Redraw
        PROVE  SceneInv'
    <2>1. fr'.seen = fr.seen /\ fr'.await = fr.await  BY <1>3 DEF Redraw, TypeOK, Frames
    <2>2. QED  BY <1>3, <2>1, HandledScene
  <1>4. ASSUME NEW e \in Engines, Staged(e, Visible), Ready(e, Awaited, fr.seen), EngineCommand(e)
        PROVE  SceneInv'
    BY <1>2, <1>3, <1>4 DEF EngineCommand
  <1>5. ASSUME NEW s \in Sids, NEW g \in Gens, NEW ok \in BOOLEAN, RegisterSession(s, g, ok)
        PROVE  SceneInv'
    <2> DEFINE stale == reg[s].gen \notin {Nil, g}
               e == IF stale THEN UnregisterKey(eng, KeyOf(reg, s)) ELSE eng
               x == IF stale THEN DropOwner(Quiet(inp), s) ELSE Quiet(inp)
    <2>1. e \in Engines /\ Staged(e, Visible) /\ Ready(e, Awaited, fr.seen)
      BY <1>1, UnregisterKeyType, UnregisterKeyScene
    <2>2. x \in Routed  BY <1>2, DropOwnerType
    <2>3. \A n \in KeyNotes : Tell(x, KeyEvent(n, <<s, g>>)) \in Routed
      BY <2>2, KeyNoteType, TellType
    <2> HIDE DEF stale, e, x
    <2>4. \E n \in KeyNotes : Handled(e, reg', Tell(x, KeyEvent(n, <<s, g>>)))
      BY <1>5 DEF RegisterSession, KeyNotes, stale, e, x
    <2>5. Redraw /\ screen' = screen  BY <1>5 DEF RegisterSession
    <2>6. QED  BY <1>3, <2>1, <2>3, <2>4, <2>5
  <1>6. ASSUME NEW s \in Sids, NEW g \in Gens, NEW ok \in BOOLEAN, BindHost(s, g, ok)
        PROVE  SceneInv'
    <2> DEFINE note == IF ok THEN "SessionConnected" ELSE "SessionConnectionRejected"
               told == IF ~reg[s].pend THEN Quiet(inp) ELSE Tell(Quiet(inp), KeyEvent(note, <<s, g>>))
    <2>1. note \in KeyNotes  BY DEF KeyNotes
    <2> HIDE DEF note
    <2>2. told \in Routed  BY <1>2, <2>1, KeyNoteType, TellType
    <2> HIDE DEF told
    <2>3. \E x \in Routed : Handled(eng, reg', x)
      BY <1>2, <1>6, <2>2 DEF BindHost, told, note
    <2>4. Redraw /\ screen' = screen  BY <1>6 DEF BindHost
    <2>5. QED  BY <1>1, <1>3, <2>3, <2>4
  <1>7. ASSUME NEW s \in Sids, NEW g \in Gens, RequestEvidence(s, g) PROVE SceneInv'
    BY <1>1, <1>2, <1>3, <1>7 DEF RequestEvidence
  <1>8. ASSUME NEW s \in Sids, NEW g \in Gens, UnregisterSession(s, g) PROVE SceneInv'
    <2> DEFINE e == UnregisterKey(eng, <<s, g>>)
    <2>1. /\ e \in Engines /\ Staged(e, Visible) /\ Ready(e, Awaited, fr.seen)
          /\ DropOwner(Quiet(inp), s) \in Routed
      BY <1>1, <1>2, UnregisterKeyType, UnregisterKeyScene, DropOwnerType
    <2>2. \/ Handled(e, reg', DropOwner(Quiet(inp), s)) \/ Handled(eng, reg', Quiet(inp))
      BY <1>8 DEF UnregisterSession
    <2>3. Redraw /\ screen' = screen  BY <1>8 DEF UnregisterSession
    <2> HIDE DEF e
    <2>4. QED  BY <1>1, <1>2, <1>3, <2>1, <2>2, <2>3
  <1>9. ASSUME NEW s \in Sids, NEW g \in Gens, ProtectSession(s, g) PROVE SceneInv'
    <2> DEFINE e == Protect(eng, <<s, g>>)
    <2>1. <<s, g>> \in Keys  BY DEF Keys
    <2>2. /\ e \in Engines /\ Staged(e, Visible) /\ Ready(e, Awaited, fr.seen)
          /\ RevokeInputOf(Quiet(inp), s) \in Routed
      BY <1>1, <1>2, <2>1, ProtectType, ProtectScene, RevokeInputOfType
    <2>3. \/ Handled(e, reg', RevokeInputOf(Quiet(inp), s)) \/ Handled(eng, reg', Quiet(inp))
      BY <1>9 DEF ProtectSession
    <2>4. Redraw /\ screen' = screen  BY <1>9 DEF ProtectSession
    <2> HIDE DEF e
    <2>5. QED  BY <1>1, <1>2, <1>3, <2>2, <2>3, <2>4
  <1>10. ASSUME NEW g \in GGens, RegisterGreeter(g) PROVE SceneInv'
    <2>1. GreeterEvent("GreeterConnected", g) \in Notes  BY DEF Notes
    <2>2. Tell(Quiet(inp), GreeterEvent("GreeterConnected", g)) \in Routed
      BY <1>2, <2>1, TellType
    <2>3. \E x \in Routed : Handled(eng, reg', x)  BY <1>2, <1>10, <2>2 DEF RegisterGreeter
    <2>4. Redraw /\ screen' = screen  BY <1>10 DEF RegisterGreeter
    <2>5. QED  BY <1>1, <1>3, <2>3, <2>4
  <1>11. ASSUME NEW g \in GGens, UnregisterGreeter(g) PROVE SceneInv'
    BY <1>1, <1>2, <1>3, <1>11 DEF UnregisterGreeter
  <1>12. ASSUME NEW who \in Owners, SetInputOwner(who) PROVE SceneInv'
    <2>1. RequestOwner(Quiet(inp), eng, reg, outs, who) \in Routed  BY <1>2, RequestOwnerType
    <2>2. QED  BY <1>1, <1>3, <1>12, <2>1 DEF SetInputOwner
  <1>13. CASE GreeterOnly
    BY <1>1, <1>4, <1>13, ShowGreeterOnlyType, ShowGreeterOnlyScene DEF GreeterOnly
  <1>14. ASSUME NEW op \in Ops, NEW sh \in Shapes, NEW quick \in BOOLEAN, Disciplined(sh),
                BeginTransition(op, sh[1], sh[2], sh[3], quick)
         PROVE  SceneInv'
    <2> DEFINE d == Begin(eng, Probe(reg, gre, outs), op, sh[1], sh[2], sh[3], quick)
    <2>1. /\ sh[1] \in RevealKinds => eng.base.scene # "session"
          /\ sh[1] = "LogoutFade" => eng.base.key \in {Nil, sh[2]}
      BY <1>14 DEF Disciplined
    <2>2. d \in Engines  BY <1>1, ShapeType, BeginType
    <2>3. Staged(d, Visible) /\ Ready(d, Awaited, fr.seen)  BY <1>1, <2>1, ShapeType, BeginScene
    <2>4. EngineCommand(d)  BY <1>14 DEF BeginTransition
    <2> HIDE DEF d
    <2>5. QED  BY <1>4, <2>2, <2>3, <2>4
  <1>15. ASSUME NEW op \in Ops, CancelTransition(op) PROVE SceneInv'
    BY <1>1, <1>4, <1>15, CancelType, CancelScene DEF CancelTransition
  <1>16. ASSUME NEW on \in BOOLEAN, SetDpms(on) PROVE SceneInv'
    <2>1. fr'.seen = fr.seen /\ fr'.await = fr.await  BY <1>16 DEF SetDpms, TypeOK, Frames
    <2>2. Handled(eng, reg', Quiet(inp)) /\ screen' = screen  BY <1>16 DEF SetDpms
    <2>3. QED  BY <1>1, <1>2, <2>1, <2>2, HandledScene
  <1>17. "eager" \notin env  BY DEF Careful, TypeOK
  <1>18. QED
    BY <1>17, <1>5, <1>6, <1>7, <1>8, <1>9, <1>10, <1>11, <1>12, <1>13, <1>14, <1>15, <1>16
       DEF Commands

------------------------------------------------------------------------------
(* Clients, outputs and frames.                                            *)

\* No client and no output change re-registers a session.
LEMMA GenerationsKept ==
  ASSUME TypeOK, Clients \/ SetOutputs \/ ActivateSession
  PROVE  \A s \in Sids : reg'[s].gen = reg[s].gen
  <1>1. \A s \in Sids : reg[s] \in Recs  BY DEF TypeOK
  <1>2. ASSUME NEW s \in Sids, NEW rec, rec.gen = reg[s].gen, reg' = [reg EXCEPT ![s] = rec]
        PROVE  \A z \in Sids : reg'[z].gen = reg[z].gen
    BY <1>2 DEF TypeOK
  <1>3. ASSUME NEW s \in Sids, NEW ok \in BOOLEAN, HostConnects(s, ok)
        PROVE  \A z \in Sids : reg'[z].gen = reg[z].gen
    <2>1. reg[s].bound \in BOOLEAN  BY <1>1 DEF Recs
    <2>2. \/ reg' = [reg EXCEPT ![s].pend = TRUE]
          \/ reg' = [reg EXCEPT ![s] = [@ EXCEPT !.conn = TRUE, !.pend = FALSE]]
          \/ reg' = reg
      BY <1>3, <2>1 DEF HostConnects
    <2>3. CASE reg' = [reg EXCEPT ![s].pend = TRUE]  BY <1>1, <2>3 DEF TypeOK, Recs
    <2>4. CASE reg' = [reg EXCEPT ![s] = [@ EXCEPT !.conn = TRUE, !.pend = FALSE]]
      BY <1>1, <2>4 DEF TypeOK, Recs
    <2>5. QED  BY <2>2, <2>3, <2>4
  <1>4. ASSUME NEW s \in Sids, NEW ok \in BOOLEAN, HostCommits(s, ok)
        PROVE  \A z \in Sids : reg'[z].gen = reg[z].gen
    <2> DEFINE report == ok /\ (~reg[s].proven \/ reg[s].asked)
               rec == [reg[s] EXCEPT !.valid = ok, !.proven = @ \/ ok, !.asked = @ /\ ~report]
    <2>1. reg' = [reg EXCEPT ![s] = rec]  BY <1>4 DEF HostCommits
    <2>2. rec.gen = reg[s].gen  BY <1>1 DEF Recs
    <2> HIDE DEF rec
    <2>3. QED  BY <1>2, <2>1, <2>2
  <1>5. ASSUME NEW s \in Sids, NEW ok \in BOOLEAN, HostDropsSurface(s, ok)
        PROVE  \A z \in Sids : reg'[z].gen = reg[z].gen
    BY <1>1, <1>5 DEF HostDropsSurface, TypeOK, Recs
  <1>6. ASSUME NEW s \in Sids, HostDisconnects(s)
        PROVE  \A z \in Sids : reg'[z].gen = reg[z].gen
    <2>1. [NoRec EXCEPT !.gen = reg[s].gen, !.bound = TRUE].gen = reg[s].gen  BY DEF NoRec
    <2>2. QED  BY <1>2, <1>6, <2>1 DEF HostDisconnects
  <1>7. ASSUME OutputsChange  PROVE \A z \in Sids : reg'[z].gen = reg[z].gen
    <2>1. PICK any \in BOOLEAN, mapped \in BOOLEAN, lost \in SUBSET Sids, gained \in SUBSET Sids :
            NewOutputs(any, lost, gained, mapped)
      BY <1>7 DEF OutputsChange
    <2> DEFINE proof(s) == any /\ reg[s].conn /\ s \notin lost /\ (reg[s].proven \/ s \in gained)
               rec(s) == [reg[s] EXCEPT !.proven = proof(s), !.valid = proof(s) /\ (@ \/ s \in gained)]
    <2>2. reg' = [s \in Sids |-> rec(s)]  BY <2>1 DEF NewOutputs
    <2>3. \A s \in Sids : rec(s).gen = reg[s].gen
      <3> HIDE DEF proof
      <3>1. QED  BY <1>1 DEF Recs
    <2> HIDE DEF rec
    <2>4. QED  BY <2>2, <2>3
  <1>8. ASSUME ExpirePending  PROVE \A z \in Sids : reg'[z].gen = reg[z].gen
    BY <1>1, <1>8 DEF ExpirePending, Recs
  <1>9. CASE Clients
    BY <1>3, <1>4, <1>5, <1>6, <1>8, <1>9
       DEF Clients, GreeterConnects, GreeterDisconnects, GreeterUnmaps, GreeterMaps, Wake
  <1>10. CASE SetOutputs \/ ActivateSession  BY <1>7, <1>10 DEF SetOutputs, ActivateSession
  <1>11. QED  BY <1>9, <1>10

\* Session hosts, the greeter, the outputs and the return of the VT change neither
\* the scene nor what is visible.
LEMMA ClientsScene ==
  ASSUME TypeOK, SceneInv, Clients \/ SetOutputs \/ ActivateSession
  PROVE  SceneInv'
  <1>1. UNCHANGED <<eng, screen, inp>>
    BY DEF Clients, SetOutputs, ActivateSession, Clientside, HostConnects, HostCommits,
           HostDropsSurface, HostDisconnects, GreeterConnects, GreeterDisconnects, GreeterUnmaps,
           ExpirePending, GreeterMaps, Wake
  <1>2. fr'.seen = fr.seen /\ fr'.await = fr.await
    <2>1. \A b : [fr EXCEPT !.redraw = b].seen = fr.seen /\ [fr EXCEPT !.redraw = b].await = fr.await
      BY DEF TypeOK, Frames
    <2>2. /\ [fr EXCEPT !.active = TRUE, !.redraw = TRUE].seen = fr.seen
          /\ [fr EXCEPT !.active = TRUE, !.redraw = TRUE].await = fr.await
      BY DEF TypeOK, Frames
    <2>3. \/ fr' = fr \/ fr' = [fr EXCEPT !.active = TRUE, !.redraw = TRUE]
          \/ \E b : fr' = [fr EXCEPT !.redraw = b]
      BY DEF Clients, SetOutputs, ActivateSession, HostConnects, HostCommits,
           HostDropsSurface, HostDisconnects, GreeterConnects, GreeterDisconnects, GreeterUnmaps,
           ExpirePending, GreeterMaps, Wake, Redraw
    <2>4. QED  BY <2>1, <2>2, <2>3
  <1>3. \A s \in Sids : reg'[s].gen = reg[s].gen  BY GenerationsKept
  <1>4. Routes(eng, reg', inp)  BY <1>3 DEF SceneInv, Routes, KeyOf
  <1>5. QED  BY <1>1, <1>2, <1>4 DEF SceneInv, Visible, Awaited

\* The session that owns the input has a key.
LEMMA OwnerKey ==
  ASSUME TypeOK, NEW e, NEW i, Routes(e, reg, i), i.owner \in Sids
  PROVE  KeyOf(reg, i.owner) # Nil
  BY NilFacts DEF TypeOK, Recs, Routes, KeyOf, Keys

\* A frame that is shown (frame_shown) leaves a scene that fits it.
LEMMA FrameShownScene ==
  ASSUME TypeOK, NEW e \in Engines, NEW S, Staged(e, S), NEW f \in Frames, NEW x,
         NEW blank \in BOOLEAN, NEW seen, FrameShown(e, f, x, blank, seen),
         ~blank => Ready(e, TRUE, seen) /\ Some(seen) \subseteq S,
         f.await = "none", f.seen = Nil, ~f.dpms => screen = {},
         Routes(e, reg, inp'), reg' = reg
  PROVE  SceneInv'
  <1>1. CASE blank
    <2>1. eng' = e /\ screen' = {} /\ fr' = [f EXCEPT !.fails = 0, !.blanking = FALSE, !.dpms = @ /\ ~f.blanking]
      BY <1>1 DEF FrameShown
    <2>2. fr'.seen = Nil /\ fr'.await = "none"  BY <2>1 DEF Frames
    <2>3. Visible' = {} /\ ~Awaited'  BY <2>1, <2>2 DEF Visible, Awaited, Some
    <2>4. Staged(e, {})  BY FewerSeen
    <2>5. QED  BY <2>1, <2>3, <2>4 DEF SceneInv, Ready
  <1>2. CASE ~blank
    <2> DEFINE d == FrameDone(e)
    <2>1. d \in Engines /\ Staged(d, Some(seen))  BY <1>2, FrameDoneScene, FrameDoneType
    <2>2. /\ eng' = [d EXCEPT !.out = <<>>] /\ screen' = IF f.dpms THEN Some(seen) ELSE screen
          /\ fr' = [f EXCEPT !.fails = 0, !.redraw = @ \/ NeedsFrame(d)]
      BY <1>2 DEF FrameShown
    <2>3. ~Uncommitted(e) => d.base = e.base /\ d.prot = e.prot /\ ~Uncommitted(d)
      BY FrameDoneForeground
    <2> HIDE DEF d
    <2>4. fr'.seen = Nil /\ fr'.await = "none"  BY <2>2 DEF Frames
    <2>5. Visible' \subseteq Some(seen) /\ ~Awaited'  BY <2>2, <2>4 DEF Visible, Awaited, Some
    <2>6. Staged(d, Visible')  BY <2>1, <2>5, FewerSeen
    <2>7. inp'.owner \in Sids => KeyOf(reg, inp'.owner) # Nil  BY OwnerKey
    <2>8. Routes(d, reg, inp')  BY <2>3, <2>7, SameForeground
    <2>9. Routes(eng', reg', inp')  BY <2>1, <2>2, <2>8, DrainedRoutes
    <2>10. eng'.base = d.base /\ eng'.run = d.run /\ eng'.held = d.held  BY <2>1, <2>2, DrainedScene
    <2>11. Staged(eng', Visible')  BY <2>6, <2>10 DEF Staged, Underway, Uncommitted
    <2>12. QED  BY <2>5, <2>9, <2>11 DEF SceneInv, Ready
  <1>3. QED  BY <1>1, <1>2

\* A frame that is lost (frame_failed) leaves the scene, or ends it on the greeter.
LEMMA FrameLostScene ==
  ASSUME TypeOK, NEW e \in Engines, NEW S, Staged(e, S), NEW f \in Frames, NEW x,
         NEW blank \in BOOLEAN, FrameLost(e, f, x, blank), screen' \subseteq S,
         f.await = "none", f.seen = Nil, Routes(e, reg, inp'), reg' = reg
  PROVE  SceneInv'
  <1> DEFINE fails == IF f.fails < MaxFrameFailures THEN f.fails + 1 ELSE f.fails
             back == IF blank THEN e ELSE FrameFailed(e)
             giveUp == ~blank /\ fails = MaxFrameFailures
             done == IF giveUp THEN AbortTransition(back) ELSE back
  <1>1. /\ back \in Engines /\ Staged(back, S) /\ back.base = e.base /\ back.run = e.run
        /\ back.prot = e.prot
    BY FrameFailedScene, FrameFailedType
  <1>2. fr' = [f EXCEPT !.fails = fails, !.redraw = TRUE]
        /\ eng' = (IF giveUp THEN [done EXCEPT !.out = <<>>] ELSE done)
    BY DEF FrameLost
  <1> HIDE DEF back, giveUp, fails
  <1>3. done \in Engines /\ Staged(done, S)
    BY <1>1, AbortTransitionScene, AbortTransitionType
  <1>4. ~Uncommitted(e) => done.base = e.base /\ done.prot = e.prot /\ ~Uncommitted(done)
    <2>1. Uncommitted(e) <=> Uncommitted(back)  BY <1>1 DEF Uncommitted
    <2>2. QED  BY <1>1, <2>1, AbortForeground
  <1> HIDE DEF done
  <1>5. inp'.owner \in Sids => KeyOf(reg, inp'.owner) # Nil  BY OwnerKey
  <1>6. Routes(done, reg, inp')  BY <1>4, <1>5, SameForeground
  <1>7. Routes(eng', reg', inp')  BY <1>2, <1>3, <1>6, DrainedRoutes
  <1>8. eng'.base = done.base /\ eng'.run = done.run /\ eng'.held = done.held
    BY <1>2, <1>3, DrainedScene
  <1>9. Staged(eng', S)  BY <1>3, <1>8 DEF Staged, Underway, Uncommitted
  <1>10. fr'.seen = Nil /\ fr'.await = "none"  BY <1>2 DEF Frames
  <1>11. Visible' \subseteq S /\ ~Awaited'  BY <1>10 DEF Visible, Awaited, Some
  <1>12. Staged(eng', Visible')  BY <1>9, <1>11, FewerSeen
  <1>13. QED  BY <1>7, <1>11, <1>12 DEF SceneInv, Ready

\* Whatever becomes of a submitted frame (settle), the scene fits it.
LEMMA SettleFrameScene ==
  ASSUME TypeOK, NEW e \in Engines, NEW f \in Frames, NEW x \in Routed, NEW blank \in BOOLEAN,
         NEW seen, NEW outcome, SettleFrame(e, f, x, blank, seen, outcome),
         Staged(e, screen \cup Some(seen)), ~blank => Ready(e, TRUE, seen), blank => seen = Nil,
         f.await = "none", f.seen = Nil, ~f.dpms => screen = {},
         Routes(e, reg, x.i), reg' = reg
  PROVE  SceneInv'
  <1> DEFINE S == screen \cup Some(seen)
  <1>1. inp' = x.i /\ Routes(e, reg, inp')  BY DEF SettleFrame
  <1>2. CASE outcome = "Shown"
    <2>1. FrameShown(e, f, x, blank, seen)  BY <1>2 DEF SettleFrame
    <2>2. Staged(e, S) /\ (~blank => Ready(e, TRUE, seen) /\ Some(seen) \subseteq S)  OBVIOUS
    <2> HIDE DEF S
    <2>3. QED  BY <1>1, <2>1, <2>2, FrameShownScene
  <1>3. CASE outcome = "Failed"
    <2>1. FrameLost(e, f, x, blank) /\ screen' \subseteq S  BY <1>3 DEF SettleFrame
    <2>2. Staged(e, S)  OBVIOUS
    <2> HIDE DEF S
    <2>3. QED  BY <1>1, <2>1, <2>2, FrameLostScene
  <1>4. CASE outcome \notin {"Shown", "Failed"}
    <2> DEFINE part == outcome = "Partial"
    <2>1. /\ fr' = [f EXCEPT !.await = IF blank THEN "blank" ELSE "frame", !.partial = part, !.seen = seen]
          /\ eng' = e /\ screen' = screen
      BY <1>4 DEF SettleFrame
    <2> HIDE DEF part
    <2>2. fr'.await = (IF blank THEN "blank" ELSE "frame") /\ fr'.seen = seen
      BY <2>1 DEF Frames
    <2>3. Visible' = S /\ (Awaited' => ~blank)  BY <2>1, <2>2 DEF Visible, Awaited
    <2>4. QED  BY <1>1, <2>1, <2>2, <2>3 DEF SceneInv, Ready
  <1>5. QED  BY <1>2, <1>3, <1>4

\* The frame render_frame plans fits the scene.
LEMMA RenderFrameScene ==
  ASSUME TypeOK, AckInv, SceneInv, NEW t \in Start..End, NEW outcome, RenderFrame(t, outcome)
  PROVE  SceneInv'
  <1> DEFINE x1 == ReconcileInput(Quiet(inp), eng, reg, outs)
             x2 == ApplyPendingOwner(x1, eng, reg, outs)
             p == Plan(eng, Probe(reg, gre, outs), t)
             x3 == ReconcileInput(x2, p.eng, reg, outs)
             planned == [fr EXCEPT !.redraw = FALSE, !.layer = p.layer, !.greeter = p.greeter]
             idle == [fr EXCEPT !.redraw = FALSE]
  <1>1. x1 \in Routed /\ Routes(eng, reg, x1.i)
    BY QuietRouted, ReconcileInputType, ReconcileRoutes
  <1> HIDE DEF x1
  <1>2. x2 \in Routed  BY <1>1, ApplyPendingOwnerType
  <1>3. eng \in Engines /\ fr.await = "none" /\ fr.seen = Nil
    BY DEF TypeOK, RenderFrame, AckInv
  <1>4. Staged(eng, screen)  BY <1>3, FewerSeen DEF SceneInv, Visible
  <1>5. p \in Plans /\ p.eng \in Engines  BY <1>3, PlanType DEF Plans
  <1>6. Staged(p.eng, screen \cup Some(p.seen)) /\ Ready(p.eng, TRUE, p.seen)
    BY <1>3, <1>4, PlanScene
  <1> HIDE DEF x2, p
  <1>7. x3 \in Routed /\ Routes(p.eng, reg, x3.i)
    BY <1>2, ReconcileInputType, ReconcileRoutes
  <1>8. planned \in Frames /\ planned.await = "none" /\ planned.seen = Nil /\ planned.dpms = fr.dpms
    BY <1>3, <1>5 DEF Plans, TypeOK, Frames
  <1>9. idle \in Frames /\ idle.await = "none" /\ idle.seen = Nil /\ idle.dpms = fr.dpms
    BY <1>3 DEF TypeOK, Frames
  <1>10. ~fr.dpms => screen = {}  BY DEF AckInv
  <1>11. screen \cup Some(Nil) = screen  BY DEF Some
  <1> HIDE DEF x3, planned, idle
  <1>12. \/ SettleFrame(eng, idle, x1, TRUE, Nil, outcome)
         \/ SettleFrame(p.eng, planned, x3, FALSE, p.seen, outcome)
    BY DEF RenderFrame, x1, x2, x3, p, planned, idle
  <1>13. reg' = reg  BY DEF RenderFrame
  <1>14. CASE SettleFrame(eng, idle, x1, TRUE, Nil, outcome)
    <2>1. Staged(eng, screen \cup Some(Nil))  BY <1>4, <1>11
    <2>2. QED  BY <1>1, <1>3, <1>9, <1>10, <1>13, <1>14, <2>1, SettleFrameScene
  <1>15. CASE SettleFrame(p.eng, planned, x3, FALSE, p.seen, outcome)
    BY <1>5, <1>6, <1>7, <1>8, <1>10, <1>13, <1>15, SettleFrameScene
  <1>16. QED  BY <1>12, <1>14, <1>15

\* Completed and timed-out page flips: the committing frame is the one on the outputs.
LEMMA FlipsScene ==
  ASSUME TypeOK, AckInv, SceneInv, FlipsDone \/ FlipTimeout
  PROVE  SceneInv'
  <1>1. eng \in Engines /\ Staged(eng, Visible) /\ Routes(eng, reg, inp)  BY DEF TypeOK, SceneInv
  <1>2. fr.await # "none" /\ fr.dpms /\ inp' = inp /\ reg' = reg
    BY DEF FlipsDone, FlipTimeout, AckInv
  <1>3. Blank \in BOOLEAN  BY DEF Blank
  <1>4. Some(fr.seen) \subseteq Visible  BY DEF Visible
  <1>5. ~Blank => Ready(eng, TRUE, fr.seen)
    <2>1. ~Blank => fr.await = "frame"  BY <1>2 DEF Blank, TypeOK, Frames
    <2>2. QED  BY <2>1 DEF SceneInv, Ready, Awaited
  <1>6. /\ Landed \in Frames /\ Landed.await = "none" /\ Landed.seen = Nil /\ Landed.dpms
    BY <1>2, LandedFacts
  <1>7. CASE FrameShown(eng, Landed, Quiet(inp), Blank, fr.seen)
    BY <1>1, <1>2, <1>3, <1>4, <1>5, <1>6, <1>7, FrameShownScene
  <1>8. CASE /\ FrameLost(eng, Landed, Quiet(inp), Blank)
             /\ screen' = screen \cup Some(fr.seen)
    <2>1. screen' \subseteq Visible  BY <1>8 DEF Visible
    <2>2. QED  BY <1>1, <1>2, <1>3, <1>6, <1>8, <2>1, FrameLostScene
  <1>9. QED  BY <1>7, <1>8 DEF FlipsDone, FlipTimeout

\* Losing the VT with a frame in flight leaves the scene alone.
LEMMA PauseScene ==
  ASSUME TypeOK, SceneInv, PauseSession
  PROVE  SceneInv'
  <1>1. eng \in Engines /\ Staged(eng, Visible) /\ Routes(eng, reg, inp)  BY DEF TypeOK, SceneInv
  <1>2. /\ Staged(FrameFailed(eng), Visible) /\ FrameFailed(eng).base = eng.base
        /\ FrameFailed(eng).run = eng.run /\ FrameFailed(eng).prot = eng.prot
    BY <1>1, FrameFailedScene
  <1>3. eng' = (IF fr.await # "none" THEN FrameFailed(eng) ELSE eng)  BY DEF PauseSession
  <1>4. Staged(eng', Visible) /\ eng'.base = eng.base /\ eng'.run = eng.run /\ eng'.prot = eng.prot
    BY <1>1, <1>2, <1>3
  <1>5. fr'.seen = Nil /\ fr'.await = "none"  BY LandedFacts DEF PauseSession, Frames
  <1>6. screen' = screen \cup Some(fr.seen) /\ UNCHANGED <<reg, inp>>  BY DEF PauseSession
  <1>7. Visible' = Visible /\ ~Awaited'  BY <1>5, <1>6 DEF Visible, Awaited, Some
  <1>8. Routes(eng', reg', inp')
    BY <1>1, <1>4, <1>6 DEF Routes, ForegroundSession, Uncommitted
  <1>9. QED  BY <1>4, <1>7, <1>8 DEF SceneInv, Ready

\* A held-back frame only reconciles the input.
LEMMA RenderHeldScene ==
  ASSUME TypeOK, SceneInv, RenderHeld
  PROVE  SceneInv'
  <1>1. Routes(eng, reg, ReconcileInput(Quiet(inp), eng, reg, outs).i)
    BY QuietRouted, ReconcileRoutes
  <1>2. /\ inp' = ReconcileInput(Quiet(inp), eng, reg, outs).i
        /\ UNCHANGED <<eng, reg, fr, screen>>
    BY DEF RenderHeld
  <1>3. QED  BY <1>1, <1>2 DEF SceneInv, Visible, Awaited

\* The invariant holds at the start: the cover, and nobody visible.
LEMMA InitScene == Init => SceneInv
  <1> SUFFICES ASSUME Init PROVE SceneInv  OBVIOUS
  <1>1. eng.base = Cover /\ eng.run = NoRun /\ eng.held = NoHeld /\ inp.owner = "None"
    BY DEF Init, NewEngine
  <1>2. ~Uncommitted(eng)  BY <1>1, SceneFacts DEF Uncommitted
  <1>3. Staged(eng, Visible) /\ Ready(eng, Awaited, fr.seen)
    BY <1>1, <1>2, SceneFacts, RestingScene
  <1>4. QED  BY <1>1, <1>3, OwnersDiffer DEF SceneInv, Routes

\* Every step keeps the invariant.
LEMMA NextScene ==
  ASSUME Careful, TypeOK, AckInv, SceneInv, [Next]_vars
  PROVE  SceneInv'
  <1>1. CASE Commands  BY <1>1, CommandsScene
  <1>2. CASE Clients  BY <1>2, ClientsScene
  <1>3. CASE Hardware  BY <1>3, ClientsScene, FlipsScene, PauseScene DEF Hardware
  <1>4. CASE FramePump
    <2>1. eng.run \in Runs  BY EngineFields DEF TypeOK
    <2>2. ASSUME NEW t \in NextProgress(eng.run), NEW outcome \in Outcomes, RenderFrame(t, outcome)
          PROVE  SceneInv'
      BY <2>1, <2>2, NextProgressType, RenderFrameScene
    <2>3. QED  BY <1>4, <2>2, RenderHeldScene, FlipsScene DEF FramePump
  <1>5. CASE UNCHANGED vars  BY <1>5 DEF vars, SceneInv, Visible, Awaited
  <1>6. QED  BY <1>1, <1>2, <1>3, <1>4, <1>5 DEF Next

\* SceneInv is an invariant of the compositor with a careful manager.
LEMMA SceneHolds ==
  ASSUME Careful
  PROVE  Spec => []SceneInv
  <1>1. TypeOK /\ AckInv /\ [Next]_vars => AckInv'
    <2>1. ASSUME UNCHANGED vars, AckInv  PROVE AckInv'
      BY <2>1 DEF vars, AckInv, Sound
    <2>2. QED  BY <2>1, NextAck
  <1>2. TypeOK /\ AckInv /\ SceneInv /\ [Next]_vars => SceneInv'  BY NextScene
  <1>3. QED  BY <1>1, <1>2, InitAck, InitScene, TypeCorrect, PTL DEF Spec

\* Physical input reaches a session only while it is the committed, unprotected
\* foreground of the registered generation and no other session is visible on an
\* output (input.rs owner_allowed, reconcile_input), provided the manager is careful.
THEOREM InputCorrect ==
  ASSUME Careful
  PROVE  Spec => []InputFollowsScene
  <1>1. TypeOK /\ SceneInv => InputFollowsScene
    <2> SUFFICES ASSUME TypeOK, SceneInv, inp.owner \in Sids
                 PROVE  /\ reg[inp.owner].gen # Nil
                        /\ ForegroundSession(eng) = KeyOf(reg, inp.owner)
                        /\ screen \subseteq {KeyOf(reg, inp.owner)}
      BY DEF InputFollowsScene
    <2>1. reg[inp.owner].gen # Nil /\ ForegroundSession(eng) = KeyOf(reg, inp.owner)
      BY DEF SceneInv, Routes
    <2>2. KeyOf(reg, inp.owner) # Nil  BY OwnerKey DEF SceneInv
    <2>3. eng.base.scene = "session" /\ eng.base.key = KeyOf(reg, inp.owner)
      BY <2>1, <2>2 DEF ForegroundSession
    <2>4. QED  BY <2>1, <2>3 DEF SceneInv, Staged, Fits, Visible
  <1>2. QED  BY <1>1, SceneHolds, TypeCorrect, PTL

\* A committed power fade holds an opaque cover: as long as it is held the scene is the
\* cover and no session is visible (engine.rs commit, Held), provided the manager is careful.
THEOREM HeldCorrect ==
  ASSUME Careful
  PROVE  Spec => []HeldCoverHolds
  <1>1. SceneInv => HeldCoverHolds  BY DEF SceneInv, Staged, HeldCoverHolds, Visible
  <1>2. QED  BY <1>1, SceneHolds, PTL
==============================================================================
