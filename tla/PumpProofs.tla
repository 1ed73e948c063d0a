----------------------------- MODULE PumpProofs ------------------------------
(***************************************************************************)
(* What the frame pump owes, for any number of sessions and operations and *)
(* any environment.                                                        *)
(*                                                                         *)
(* OwedCorrect: no wake-up is lost.  The pump sleeps (nothing asked for,   *)
(* no flip awaited) only while the engine owes nothing, with an            *)
(* undisciplined manager too.  The cover frame that goes before switching  *)
(* the displays off is the one frame that does not ask again; OwedInv adds *)
(* that a switch-on that overtakes it has asked for a frame already.       *)
(*                                                                         *)
(* StaleCorrect: no session's last picture stays on an output for good,    *)
(* with a careful manager.  The frame after which the pump sleeps was      *)
(* planned earlier; StaleInv adds that nothing happened to the scene since *)
(* or a frame is asked for.                                                *)
(*                                                                         *)
(* ShownCorrect: the desktop in the foreground is not left unpainted, with *)
(* a careful manager.  The last frame was planned from an older state of   *)
(* the surfaces; ShownInv says that no session became presentable since    *)
(* without a frame being asked for, which rests on what a registration     *)
(* says about its surfaces (RegInv).                                       *)
(***************************************************************************)
EXTENDS SceneProofs

------------------------------------------------------------------------------
(* No wake-up is lost.                                                     *)

OwedInv ==
  /\ OwedFrameIsAskedFor
  /\ fr.await = "blank" => fr.blanking \/ fr.redraw

\* A step that asks for a frame keeps the invariant.
LEMMA AskedOwed ==
  ASSUME fr'.redraw = TRUE
  PROVE  OwedInv'
  BY DEF OwedInv, OwedFrameIsAskedFor

\* Every command asks for a frame (handle_command).
LEMMA CommandsAsk ==
  ASSUME TypeOK, Commands
  PROVE  fr'.redraw = TRUE
  <1>1. Redraw => fr'.redraw = TRUE  BY DEF Redraw, TypeOK, Frames
  <1>2. \A on \in BOOLEAN : SetDpms(on) => fr'.redraw = TRUE  BY DEF SetDpms, TypeOK, Frames
  <1>3. ASSUME NEW s \in Sids, NEW g \in Gens, NEW ok \in BOOLEAN,
               RegisterSession(s, g, ok) \/ BindHost(s, g, ok)
        PROVE  Redraw
    <2>1. RegisterSession(s, g, ok) => Redraw  BY Zenon DEF RegisterSession
    <2>2. BindHost(s, g, ok) => Redraw  BY Zenon DEF BindHost
    <2> QED BY <1>3, <2>1, <2>2
  <1>4. ASSUME NEW s \in Sids, NEW g \in Gens,
               RequestEvidence(s, g) \/ UnregisterSession(s, g) \/ ProtectSession(s, g)
        PROVE  Redraw
    BY <1>4, Zenon DEF RequestEvidence, UnregisterSession, ProtectSession
  <1>5. ASSUME NEW g \in GGens, RegisterGreeter(g) \/ UnregisterGreeter(g)
        PROVE  Redraw
    BY <1>5, Zenon DEF RegisterGreeter, UnregisterGreeter
  <1>6. ASSUME NEW e, EngineCommand(e)
        PROVE  Redraw
    BY <1>6, Zenon DEF EngineCommand
  <1>7. ASSUME NEW who \in Owners, SetInputOwner(who)
        PROVE  Redraw
    BY <1>7, Zenon DEF SetInputOwner
  <1>8. \/ \E s \in Sids, g \in Gens, ok \in BOOLEAN : RegisterSession(s, g, ok) \/ BindHost(s, g, ok)
        \/ \E s \in Sids, g \in Gens : RequestEvidence(s, g) \/ UnregisterSession(s, g) \/ ProtectSession(s, g)
        \/ \E g \in GGens : RegisterGreeter(g) \/ UnregisterGreeter(g)
        \/ \E e : EngineCommand(e)
        \/ \E who \in Owners : SetInputOwner(who)
        \/ \E on \in BOOLEAN : SetDpms(on)
    <2> DEFINE asks == \E e : EngineCommand(e)
    <2>1. GreeterOnly => asks  BY Zenon DEF GreeterOnly
    <2>2. \A op, kind, source, target, quick : BeginTransition(op, kind, source, target, quick) => asks
      BY Zenon DEF BeginTransition
    <2>3. \A op : CancelTransition(op) => asks  BY Zenon DEF CancelTransition
    <2> HIDE DEF asks
    <2>4. \/ \E s \in Sids, g \in Gens, ok \in BOOLEAN : RegisterSession(s, g, ok) \/ BindHost(s, g, ok)
          \/ \E s \in Sids, g \in Gens : RequestEvidence(s, g) \/ UnregisterSession(s, g) \/ ProtectSession(s, g)
          \/ \E g \in GGens : RegisterGreeter(g) \/ UnregisterGreeter(g)
          \/ asks
          \/ \E who \in Owners : SetInputOwner(who)
          \/ \E on \in BOOLEAN : SetDpms(on)
      BY <2>1, <2>2, <2>3 DEF Commands
    <2> QED BY <2>4, Zenon DEF asks
  <1> QED BY <1>1, <1>2, <1>3, <1>4, <1>5, <1>6, <1>7, <1>8, Zenon

\* Clients and outputs may ask for a frame, and withdraw no request.
LEMMA ClientsOwed ==
  ASSUME TypeOK, OwedInv, Clients \/ SetOutputs \/ ActivateSession
  PROVE  OwedInv'
  <1>1. eng' = eng
    BY DEF Clients, SetOutputs, ActivateSession, Clientside, HostConnects, HostCommits,
           HostDropsSurface, HostDisconnects, GreeterConnects, GreeterDisconnects, GreeterUnmaps,
           ExpirePending, GreeterMaps, Wake
  <1>2. fr.redraw \in BOOLEAN /\ fr \in Frames  BY DEF TypeOK, Frames
  <1>3. \/ fr' = fr \/ fr' = [fr EXCEPT !.active = TRUE, !.redraw = TRUE]
        \/ fr' = [fr EXCEPT !.redraw = TRUE]
        \/ \E b : fr' = [fr EXCEPT !.redraw = fr.redraw \/ b]
    BY DEF Clients, SetOutputs, ActivateSession, HostConnects, HostCommits,
           HostDropsSurface, HostDisconnects, GreeterConnects, GreeterDisconnects, GreeterUnmaps,
           ExpirePending, GreeterMaps, Wake, Redraw
  <1>4. CASE fr' = fr  BY <1>1, <1>4 DEF OwedInv, OwedFrameIsAskedFor
  <1>5. CASE \/ fr' = [fr EXCEPT !.active = TRUE, !.redraw = TRUE]
             \/ fr' = [fr EXCEPT !.redraw = TRUE]
    <2>1. fr'.redraw = TRUE  BY <1>2, <1>5 DEF Frames
    <2>2. QED  BY <2>1, AskedOwed
  <1>6. CASE \E b : fr' = [fr EXCEPT !.redraw = fr.redraw \/ b]
    <2>1. PICK b : fr' = [fr EXCEPT !.redraw = fr.redraw \/ b]  BY <1>6
    <2>2. /\ fr'.await = fr.await /\ fr'.blanking = fr.blanking /\ fr'.active = fr.active
          /\ fr'.dpms = fr.dpms /\ (fr.redraw => fr'.redraw)
      BY <1>2, <2>1 DEF Frames
    <2>3. QED  BY <1>1, <2>2 DEF OwedInv, OwedFrameIsAskedFor
  <1>7. QED  BY <1>3, <1>4, <1>5, <1>6

\* frame_failed asks for the frame again.
LEMMA FrameLostOwed ==
  ASSUME NEW e, NEW f \in Frames, NEW x, NEW blank, FrameLost(e, f, x, blank)
  PROVE  OwedInv'
  <1>1. fr'.redraw = TRUE  BY DEF FrameLost, Frames
  <1>2. QED  BY <1>1, AskedOwed

\* frame_shown asks for the next frame as long as the engine needs one; a cover frame
\* leaves the displays off, unless a switch-on overtook it.
LEMMA FrameShownOwed ==
  ASSUME NEW e \in Engines, NEW f \in Frames, NEW x, NEW blank \in BOOLEAN, NEW seen,
         FrameShown(e, f, x, blank, seen), blank => f.blanking \/ f.redraw, f.await = "none"
  PROVE  OwedInv'
  <1>1. CASE blank
    <2>1. fr' = [f EXCEPT !.fails = 0, !.blanking = FALSE, !.dpms = @ /\ ~f.blanking]
      BY <1>1 DEF FrameShown
    <2>2. /\ fr'.await = "none" /\ fr'.redraw = f.redraw /\ fr'.dpms = (f.dpms /\ ~f.blanking)
      BY <2>1 DEF Frames
    <2>3. QED  BY <1>1, <2>2 DEF OwedInv, OwedFrameIsAskedFor
  <1>2. CASE ~blank
    <2> DEFINE d == FrameDone(e)
    <2>1. d \in Engines  BY FrameDoneType
    <2>2. eng' = [d EXCEPT !.out = <<>>] /\ fr' = [f EXCEPT !.fails = 0, !.redraw = @ \/ NeedsFrame(d)]
      BY <1>2 DEF FrameShown
    <2> HIDE DEF d
    <2>3. fr'.await = "none" /\ (NeedsFrame(d) => fr'.redraw)  BY <2>2 DEF Frames
    <2>4. eng'.run = d.run /\ eng'.queued = d.queued /\ eng'.flight = d.flight
      BY <2>1, <2>2 DEF Engines
    <2>5. QED  BY <2>3, <2>4 DEF OwedInv, OwedFrameIsAskedFor, NeedsFrame, Running, HasQueuedProtect
  <1>3. QED  BY <1>1, <1>2

\* A queued frame is awaited.
LEMMA SettleFrameOwed ==
  ASSUME NEW e \in Engines, NEW f \in Frames, NEW x, NEW blank \in BOOLEAN, NEW seen, NEW outcome,
         SettleFrame(e, f, x, blank, seen, outcome), blank => f.blanking, f.await = "none"
  PROVE  OwedInv'
  <1>1. CASE outcome = "Shown"  BY <1>1, FrameShownOwed DEF SettleFrame
  <1>2. CASE outcome = "Failed"  BY <1>2, FrameLostOwed DEF SettleFrame
  <1>3. CASE outcome \notin {"Shown", "Failed"}
    <2> DEFINE part == outcome = "Partial"
    <2>1. fr' = [f EXCEPT !.await = IF blank THEN "blank" ELSE "frame", !.partial = part, !.seen = seen]
      BY <1>3 DEF SettleFrame
    <2> HIDE DEF part
    <2>2. fr'.await = (IF blank THEN "blank" ELSE "frame") /\ fr'.blanking = f.blanking
      BY <2>1 DEF Frames
    <2>3. QED  BY <2>2 DEF OwedInv, OwedFrameIsAskedFor
  <1>4. QED  BY <1>1, <1>2, <1>3

\* The frame pump and the display hardware lose no request.
LEMMA PumpOwed ==
  ASSUME TypeOK, OwedInv, FramePump \/ FlipTimeout \/ PauseSession
  PROVE  OwedInv'
  <1>1. fr \in Frames /\ eng \in Engines  BY DEF TypeOK
  <1>2. ASSUME NEW t \in NextProgress(eng.run), NEW outcome \in Outcomes, RenderFrame(t, outcome)
        PROVE  OwedInv'
    <2> DEFINE p == Plan(eng, Probe(reg, gre, outs), t)
               planned == [fr EXCEPT !.redraw = FALSE, !.layer = p.layer, !.greeter = p.greeter]
               idle == [fr EXCEPT !.redraw = FALSE]
    <2>1. p \in Plans
      <3>1. eng.run \in Runs  BY <1>1, EngineFields
      <3>2. t \in Start..End  BY <3>1, NextProgressType
      <3>3. QED  BY <1>1, <3>2, PlanType
    <2>2. \/ fr.blanking /\ \E x : SettleFrame(eng, idle, x, TRUE, Nil, outcome)
          \/ \E x : SettleFrame(p.eng, planned, x, FALSE, p.seen, outcome)
      BY <1>2 DEF RenderFrame
    <2>3. fr.await = "none"  BY <1>2 DEF RenderFrame
    <2> HIDE DEF p
    <2>4. planned \in Frames /\ planned.await = "none" /\ p.eng \in Engines
      BY <1>1, <2>1, <2>3 DEF Plans, Frames
    <2>5. idle \in Frames /\ idle.await = "none" /\ idle.blanking = fr.blanking
      BY <1>1, <2>3 DEF Frames
    <2> HIDE DEF planned, idle
    <2>6. QED  BY <1>1, <2>2, <2>4, <2>5, SettleFrameOwed
  <1>3. CASE FlipsDone \/ FlipTimeout
    <2>1. /\ Landed \in Frames /\ Landed.await = "none" /\ Landed.redraw = fr.redraw
          /\ Landed.blanking = fr.blanking
      BY <1>1 DEF Landed, Frames
    <2>2. Blank \in BOOLEAN /\ (Blank => fr.blanking \/ fr.redraw)  BY DEF Blank, OwedInv
    <2>3. \/ FrameLost(eng, Landed, Quiet(inp), Blank)
          \/ FrameShown(eng, Landed, Quiet(inp), Blank, fr.seen)
      BY <1>3 DEF FlipsDone, FlipTimeout
    <2> HIDE DEF Landed, Blank
    <2>4. QED  BY <1>1, <2>1, <2>2, <2>3, FrameLostOwed, FrameShownOwed
  <1>4. CASE PauseSession
    <2>1. fr'.active = FALSE /\ fr'.await = "none"
      BY <1>1, <1>4 DEF PauseSession, Landed, Frames
    <2>2. QED  BY <2>1 DEF OwedInv, OwedFrameIsAskedFor
  <1>5. CASE RenderHeld  BY <1>5 DEF RenderHeld, OwedInv, OwedFrameIsAskedFor
  <1>6. QED  BY <1>2, <1>3, <1>4, <1>5 DEF FramePump

\* OwedInv is invariant.
LEMMA OwedHolds == Spec => []OwedInv
  <1>1. Init => OwedInv  BY DEF Init, OwedInv, OwedFrameIsAskedFor
  <1>2. TypeOK /\ OwedInv /\ [Next]_vars => OwedInv'
    <2> SUFFICES ASSUME TypeOK, OwedInv, [Next]_vars PROVE OwedInv'  OBVIOUS
    <2>1. CASE Commands  BY <2>1, CommandsAsk, AskedOwed
    <2>2. CASE Clients  BY <2>2, ClientsOwed
    <2>3. CASE Hardware  BY <2>3, ClientsOwed, PumpOwed DEF Hardware
    <2>4. CASE FramePump  BY <2>4, PumpOwed
    <2>5. CASE UNCHANGED vars  BY <2>5 DEF vars, OwedInv, OwedFrameIsAskedFor
    <2>6. QED  BY <2>1, <2>2, <2>3, <2>4, <2>5 DEF Next
  <1>3. QED  BY <1>1, <1>2, TypeCorrect, PTL DEF Spec

\* No wake-up is lost: as long as a protection is owed its frame or a transition is under
\* way, a frame is asked for or on its way, or the VT or the displays are away (state.rs
\* complete_frame, settle; commands.rs handle_command), whatever the manager asks for.
THEOREM OwedCorrect == Spec => []OwedFrameIsAskedFor
  <1>1. OwedInv => OwedFrameIsAskedFor  BY DEF OwedInv
  <1>2. QED  BY <1>1, OwedHolds, PTL

------------------------------------------------------------------------------
(* No picture outlives its session.                                        *)

\* The engine has no commit ahead of it: at rest, settling, or reversing a fade.
Resting(e) == Uncommitted(e) => e.run.reverse

StaleInv ==
  /\ StalePixelsArePainted
  /\ fr.await = "frame" /\ ~fr.redraw /\ Resting(eng) => Some(fr.seen) \subseteq {eng.base.key}

\* A step that asks for a frame keeps the invariant.
LEMMA AskedStale ==
  ASSUME fr'.redraw = TRUE
  PROVE  StaleInv'
  BY DEF StaleInv, StalePixelsArePainted

\* A frame planned by an engine with no commit ahead shows the base scene.
LEMMA PlanResting ==
  ASSUME NEW e \in Engines, NEW S, Staged(e, S), NEW probe, NEW t \in Start..End,
         Resting(Plan(e, probe, t).eng)
  PROVE  Some(Plan(e, probe, t).seen) \subseteq {Plan(e, probe, t).eng.base.key}
  <1> DEFINE k == Taken(e)
  <1>1. k \in Engines /\ k.run = e.run  BY TakenType DEF Taken, Engines
  <1>2. Plan(e, probe, t) = IF ~Uncommitted(e) THEN Still(k, probe)
                            ELSE IF ~Validate(k, e.run, probe) THEN Still(GivenUp(k), probe)
                            ELSE Animated(k, probe, t)
    BY DEF Plan
  <1> HIDE DEF k
  <1>3. \A d : Some(Still(d, probe).seen) \subseteq {Still(d, probe).eng.base.key}
    BY DEF Still, BasePlan, Some
  <1>4. CASE Uncommitted(e) /\ Validate(k, e.run, probe)
    <2> DEFINE r == [k.run EXCEPT !.started = TRUE, !.t = t]
               layer == AnimatedLayer(k, k.run, probe)
               seen == IF PixelsShow(k.run, t) THEN layer ELSE Nil
    <2>1. k.run \in ActiveRuns
      BY <1>1, <1>4, EngineFields, RunFacts DEF Uncommitted
    <2>2. r.reverse = k.run.reverse /\ r.phase = k.run.phase  BY <2>1 DEF ActiveRuns
    <2>3. /\ Plan(e, probe, t).eng = WithRun(k, r) /\ Plan(e, probe, t).seen = seen
      BY <1>2, <1>4 DEF Animated
    <2>4. WithRun(k, r).run = r /\ WithRun(k, r).base = k.base  BY <1>1, SceneFields
    <2> HIDE DEF r
    <2>5. k.run.reverse  BY <1>1, <1>4, <2>2, <2>3, <2>4 DEF Resting, Uncommitted
    <2>6. k.run.kind = "PowerFade"  BY <1>1, <1>4, <2>5 DEF Staged, Underway
    <2>7. Some(layer) \subseteq {k.base.key}
      BY <2>6 DEF AnimatedLayer, BasePlan, Some, RevealKinds
    <2> HIDE DEF layer
    <2>8. Some(seen) \subseteq {k.base.key}  BY <2>7 DEF Some
    <2> HIDE DEF seen
    <2>9. QED  BY <2>3, <2>4, <2>8
  <1>5. QED  BY <1>2, <1>3, <1>4

\* After frame_done nothing runs only if nothing was left to commit, and then the base
\* scene is the same.
LEMMA FrameDoneResting ==
  ASSUME NEW e \in Engines, ~Running(FrameDone(e))
  PROVE  Resting(e) /\ FrameDone(e).base = e.base
  <1>1. CASE ~Uncommitted(e)  BY <1>1, FrameDoneForeground DEF Resting
  <1>2. CASE Uncommitted(e)
    <2> DEFINE ack == Acknowledge(e)
               r == [e.run EXCEPT !.phase = "Animating"]
               moved == Emit(WithRun(ack, r), PhaseEvent(e.run.op, "Animating"))
               ended == Emit(WithRun(ack, NoRun), PhaseEvent(e.run.op, "Cancelled"))
    <2>1. ack \in Engines /\ ack.run = e.run /\ ack.base = e.base  BY AcknowledgeScene
    <2>2. e.run \in ActiveRuns /\ e.run.op \in Ops
      BY <1>2, EngineFields, RunFacts DEF Uncommitted
    <2>3. \/ (FrameDone(e) = ended /\ e.run.reverse) \/ FrameDone(e) = ack \/ FrameDone(e) = moved
          \/ FrameDone(e) = Commit(moved) \/ FrameDone(e) = Commit(ack)
      BY <1>2 DEF FrameDone, Running, Uncommitted
    <2>4. r \in ActiveRuns /\ r \in Runs  BY <2>2 DEF ActiveRuns, Runs
    <2> HIDE DEF ack, r
    <2>5. WithRun(ack, r) \in Engines /\ WithRun(ack, NoRun) \in Engines
      BY <2>1, <2>4, NoRunType, WithRunType
    <2>6. PhaseEvent(e.run.op, "Animating") \in EngineEvents  BY <2>2, PhaseEventType DEF PhaseEvents
    <2>7. moved \in Engines /\ moved.run = r  BY <2>1, <2>5, <2>6, SceneFields, EmitType
    <2>8. ended.base = e.base  BY <2>1, <2>5, SceneFields
    <2> HIDE DEF moved, ended
    <2>9. ASSUME NEW d \in Engines, d.run \in ActiveRuns  PROVE Running(d) /\ Running(Commit(d))
      <3> DEFINE c == [d EXCEPT !.held = HeldAfter(d), !.base = EndScene(d.run.kind, d.run.target),
                                !.run = [d.run EXCEPT !.phase = "Settling"]]
      <3>1. Commit(d) = [c EXCEPT !.out = Append(c.out, PhaseEvent(d.run.op, "Committed"))]
        BY DEF Commit, Emit
      <3>2. c.run = [d.run EXCEPT !.phase = "Settling"] /\ "run" \in DOMAIN c  BY DEF Engines
      <3> HIDE DEF c
      <3>3. Commit(d).run = [d.run EXCEPT !.phase = "Settling"]  BY <3>1, <3>2
      <3>4. QED  BY <2>9, <3>3 DEF Running, ActiveRuns
    <2>10. QED  BY <2>1, <2>2, <2>3, <2>4, <2>7, <2>8, <2>9 DEF Resting
  <1>3. QED  BY <1>1, <1>2

\* A frame that is shown and asks for no other shows the base scene.
LEMMA FrameShownStale ==
  ASSUME NEW e \in Engines, NEW f \in Frames, NEW x, NEW blank \in BOOLEAN, NEW seen,
         FrameShown(e, f, x, blank, seen), f.await = "none", ~f.dpms => screen = {},
         ~blank /\ ~f.redraw /\ Resting(e) => Some(seen) \subseteq {e.base.key}
  PROVE  StaleInv'
  <1>1. CASE blank
    <2>1. fr' = [f EXCEPT !.fails = 0, !.blanking = FALSE, !.dpms = @ /\ ~f.blanking] /\ screen' = {}
      BY <1>1 DEF FrameShown
    <2>2. fr'.await = "none"  BY <2>1 DEF Frames
    <2>3. QED  BY <2>1, <2>2 DEF StaleInv, StalePixelsArePainted
  <1>2. CASE ~blank
    <2> DEFINE d == FrameDone(e)
    <2>1. d \in Engines  BY FrameDoneType
    <2>2. /\ eng' = [d EXCEPT !.out = <<>>] /\ fr' = [f EXCEPT !.fails = 0, !.redraw = @ \/ NeedsFrame(d)]
          /\ screen' = IF f.dpms THEN Some(seen) ELSE screen
      BY <1>2 DEF FrameShown
    <2>3. ~Running(d) => Resting(e) /\ d.base = e.base  BY FrameDoneResting
    <2> HIDE DEF d
    <2>4. fr'.await = "none" /\ (f.redraw \/ NeedsFrame(d) => fr'.redraw)  BY <2>2 DEF Frames
    <2>5. eng'.base = d.base  BY <2>1, <2>2, DrainedScene
    <2>6. CASE f.redraw \/ NeedsFrame(d)
      BY <2>4, <2>6 DEF StaleInv, StalePixelsArePainted
    <2>7. CASE ~f.redraw /\ ~NeedsFrame(d)
      <3>1. Resting(e) /\ d.base = e.base  BY <2>3, <2>7 DEF NeedsFrame
      <3>2. screen' \subseteq {eng'.base.key}  BY <1>2, <2>2, <2>5, <2>7, <3>1
      <3>3. QED  BY <2>4, <3>2 DEF StaleInv, StalePixelsArePainted
    <2>8. QED  BY <2>6, <2>7
  <1>3. QED  BY <1>1, <1>2

\* Whatever becomes of a submitted frame (settle), stale pixels are painted over.
LEMMA SettleFrameStale ==
  ASSUME NEW e \in Engines, NEW f \in Frames, NEW x, NEW blank \in BOOLEAN, NEW seen, NEW outcome,
         SettleFrame(e, f, x, blank, seen, outcome), f.await = "none", ~f.dpms => screen = {},
         ~blank /\ Resting(e) => Some(seen) \subseteq {e.base.key}
  PROVE  StaleInv'
  <1>1. CASE outcome = "Shown"  BY <1>1, FrameShownStale DEF SettleFrame
  <1>2. CASE outcome = "Failed"
    <2>1. fr'.redraw = TRUE  BY <1>2 DEF SettleFrame, FrameLost, Frames
    <2>2. QED  BY <2>1, AskedStale
  <1>3. CASE outcome \notin {"Shown", "Failed"}
    <2> DEFINE part == outcome = "Partial"
    <2>1. /\ fr' = [f EXCEPT !.await = IF blank THEN "blank" ELSE "frame", !.partial = part, !.seen = seen]
          /\ eng' = e
      BY <1>3 DEF SettleFrame
    <2> HIDE DEF part
    <2>2. fr'.await = (IF blank THEN "blank" ELSE "frame") /\ fr'.seen = seen
      BY <2>1 DEF Frames
    <2>3. QED  BY <2>1, <2>2 DEF StaleInv, StalePixelsArePainted
  <1>4. QED  BY <1>1, <1>2, <1>3

\* Clients and outputs leave what is shown alone, and withdraw no request.
LEMMA ClientsStale ==
  ASSUME TypeOK, StaleInv, Clients \/ SetOutputs \/ ActivateSession
  PROVE  StaleInv'
  <1>1. eng' = eng /\ screen' = screen
    BY DEF Clients, SetOutputs, ActivateSession, Clientside, HostConnects, HostCommits,
           HostDropsSurface, HostDisconnects, GreeterConnects, GreeterDisconnects, GreeterUnmaps,
           ExpirePending, GreeterMaps, Wake
  <1>2. fr \in Frames  BY DEF TypeOK
  <1>3. \/ fr' = fr \/ fr' = [fr EXCEPT !.active = TRUE, !.redraw = TRUE]
        \/ fr' = [fr EXCEPT !.redraw = TRUE]
        \/ \E b : fr' = [fr EXCEPT !.redraw = fr.redraw \/ b]
    BY DEF Clients, SetOutputs, ActivateSession, HostConnects, HostCommits,
           HostDropsSurface, HostDisconnects, GreeterConnects, GreeterDisconnects, GreeterUnmaps,
           ExpirePending, GreeterMaps, Wake, Redraw
  <1>4. CASE fr' = fr  BY <1>1, <1>4 DEF StaleInv, StalePixelsArePainted, Resting
  <1>5. CASE \/ fr' = [fr EXCEPT !.active = TRUE, !.redraw = TRUE]
             \/ fr' = [fr EXCEPT !.redraw = TRUE]
    <2>1. fr'.redraw = TRUE  BY <1>2, <1>5 DEF Frames
    <2>2. QED  BY <2>1, AskedStale
  <1>6. CASE \E b : fr' = [fr EXCEPT !.redraw = fr.redraw \/ b]
    <2>1. PICK b : fr' = [fr EXCEPT !.redraw = fr.redraw \/ b]  BY <1>6
    <2>2. /\ fr'.await = fr.await /\ fr'.active = fr.active /\ fr'.seen = fr.seen
          /\ (fr.redraw => fr'.redraw)
      BY <1>2, <2>1 DEF Frames
    <2>3. QED  BY <1>1, <2>2 DEF StaleInv, StalePixelsArePainted, Resting
  <1>7. QED  BY <1>3, <1>4, <1>5, <1>6

\* The frame pump sleeps only on a picture of the present scene.
LEMMA PumpStale ==
  ASSUME TypeOK, AckInv, SceneInv, StaleInv, FramePump \/ FlipTimeout \/ PauseSession
  PROVE  StaleInv'
  <1>1. fr \in Frames /\ eng \in Engines  BY DEF TypeOK
  <1>2. ~fr.dpms => screen = {}  BY DEF AckInv
  <1>3. ASSUME NEW t \in NextProgress(eng.run), NEW outcome \in Outcomes, RenderFrame(t, outcome)
        PROVE  StaleInv'
    <2> DEFINE p == Plan(eng, Probe(reg, gre, outs), t)
               planned == [fr EXCEPT !.redraw = FALSE, !.layer = p.layer, !.greeter = p.greeter]
               idle == [fr EXCEPT !.redraw = FALSE]
    <2>1. t \in Start..End
      <3>1. eng.run \in Runs  BY <1>1, EngineFields
      <3>2. QED  BY <3>1, NextProgressType
    <2>2. p \in Plans  BY <1>1, <2>1, PlanType
    <2>3. Resting(p.eng) => Some(p.seen) \subseteq {p.eng.base.key}
      BY <1>1, <2>1, PlanResting DEF SceneInv
    <2>4. \/ \E x : SettleFrame(eng, idle, x, TRUE, Nil, outcome)
          \/ \E x : SettleFrame(p.eng, planned, x, FALSE, p.seen, outcome)
      BY <1>3 DEF RenderFrame
    <2>5. fr.await = "none"  BY <1>3 DEF RenderFrame
    <2> HIDE DEF p
    <2>6. planned \in Frames /\ planned.await = "none" /\ planned.dpms = fr.dpms /\ p.eng \in Engines
      BY <1>1, <2>2, <2>5 DEF Plans, Frames
    <2>7. idle \in Frames /\ idle.await = "none" /\ idle.dpms = fr.dpms  BY <1>1, <2>5 DEF Frames
    <2> HIDE DEF planned, idle
    <2>8. QED  BY <1>1, <1>2, <2>3, <2>4, <2>6, <2>7, SettleFrameStale
  <1>4. CASE FlipsDone \/ FlipTimeout
    <2>1. Landed.redraw = fr.redraw /\ Landed \in Frames /\ Landed.await = "none" /\ Landed.dpms = fr.dpms
      BY <1>1 DEF Landed, Frames
    <2>2. \/ FrameLost(eng, Landed, Quiet(inp), Blank)
          \/ FrameShown(eng, Landed, Quiet(inp), Blank, fr.seen)
      BY <1>4 DEF FlipsDone, FlipTimeout
    <2>3. Blank \in BOOLEAN /\ (~Blank => fr.await = "frame")
      BY <1>1, <1>4 DEF Blank, FlipsDone, FlipTimeout, Frames
    <2>4. ~Blank /\ ~fr.redraw /\ Resting(eng) => Some(fr.seen) \subseteq {eng.base.key}
      BY <2>3 DEF StaleInv
    <2>5. ASSUME FrameLost(eng, Landed, Quiet(inp), Blank)  PROVE fr'.redraw = TRUE
      BY <2>1, <2>5 DEF FrameLost, Frames
    <2> HIDE DEF Landed, Blank
    <2>6. QED  BY <1>1, <1>2, <2>1, <2>2, <2>3, <2>4, <2>5, AskedStale, FrameShownStale
  <1>5. CASE PauseSession
    <2>1. fr'.active = FALSE /\ fr'.await = "none"
      BY <1>1, <1>5 DEF PauseSession, Landed, Frames
    <2>2. QED  BY <2>1 DEF StaleInv, StalePixelsArePainted
  <1>6. CASE RenderHeld  BY <1>6 DEF RenderHeld, StaleInv, StalePixelsArePainted, Resting
  <1>7. QED  BY <1>3, <1>4, <1>5, <1>6 DEF FramePump

\* Pixels of a session that left the scene do not stay on an output for good: a session
\* that is visible but neither the base scene nor part of the transition under way is about
\* to be painted over (broker.rs client_gone and unregister_session, commands.rs, gfx_drm.rs
\* drm_session_event), provided the manager is careful.
THEOREM StaleCorrect ==
  ASSUME Careful
  PROVE  Spec => []StalePixelsArePainted
  <1>1. Init => StaleInv  BY DEF Init, StaleInv, StalePixelsArePainted
  <1>2. TypeOK /\ AckInv /\ [Next]_vars => AckInv'
    <2>1. ASSUME UNCHANGED vars, AckInv  PROVE AckInv'
      BY <2>1 DEF vars, AckInv, Sound
    <2>2. QED  BY <2>1, NextAck
  <1>3. TypeOK /\ AckInv /\ SceneInv /\ StaleInv /\ [Next]_vars => StaleInv'
    <2> SUFFICES ASSUME TypeOK, AckInv, SceneInv, StaleInv, [Next]_vars PROVE StaleInv'  OBVIOUS
    <2>1. CASE Commands  BY <2>1, CommandsAsk, AskedStale
    <2>2. CASE Clients  BY <2>2, ClientsStale
    <2>3. CASE Hardware  BY <2>3, ClientsStale, PumpStale DEF Hardware
    <2>4. CASE FramePump  BY <2>4, PumpStale
    <2>5. CASE UNCHANGED vars
      BY <2>5 DEF vars, StaleInv, StalePixelsArePainted, Resting
    <2>6. QED  BY <2>1, <2>2, <2>3, <2>4, <2>5 DEF Next
  <1>4. StaleInv => StalePixelsArePainted  BY DEF StaleInv
  <1>5. QED  BY <1>1, <1>2, <1>3, <1>4, InitAck, SceneHolds, TypeCorrect, PTL DEF Spec

------------------------------------------------------------------------------
(* The foreground is painted.                                              *)

\* Every buffer has the size of its output.
Fitting == "badbuffer" \notin env

\* Only a connected host is proven, and a proven one has valid buffers.
RegInv == \A s \in Sids : reg[s].proven => reg[s].conn /\ (Fitting => reg[s].valid)

\* The base scene is a session that may be shown.
Foremost(e) == e.base.scene = "session" /\ e.base.key \notin e.prot

\* Somebody will ask, or has asked, for a frame.
Awake(f) == f.redraw \/ f.blanking \/ ~f.dpms \/ ~f.active

ShownInv ==
  /\ RegInv
  /\ Resting(eng) /\ Foremost(eng) /\ eng.base.key \in Presentable(reg, outs) /\ Fitting
       => fr.layer = eng.base.key \/ Awake(fr)

\* A step that asks for a frame keeps the invariant if it keeps RegInv.
LEMMA AskedShown ==
  ASSUME fr'.redraw = TRUE, RegInv'
  PROVE  ShownInv'
  BY DEF ShownInv, Awake

------------------------------------------------------------------------------
(* Registrations.                                                          *)

\* A registration with this record keeps RegInv.
LEMMA OneRec ==
  ASSUME TypeOK, RegInv, NEW s \in Sids, NEW rec, reg' = [reg EXCEPT ![s] = rec], env' = env,
         rec.proven => rec.conn /\ (Fitting => rec.valid)
  PROVE  RegInv'
  BY DEF TypeOK, RegInv, Fitting

\* An empty registration is not proven.
LEMMA NoRecFacts ==
  ASSUME NEW g, NEW b
  PROVE  /\ NoRec.proven = FALSE /\ [NoRec EXCEPT !.gen = g].proven = FALSE
         /\ [NoRec EXCEPT !.gen = g, !.bound = b].proven = FALSE
  BY DEF NoRec

\* The commands keep RegInv.
LEMMA CommandsReg ==
  ASSUME TypeOK, RegInv, Commands
  PROVE  RegInv'
  <1>1. ASSUME NEW s \in Sids, NEW g \in Gens, NEW ok \in BOOLEAN, RegisterSession(s, g, ok)
        PROVE  RegInv'
    <2>1. env' = env  BY <1>1 DEF RegisterSession, Handled
    <2>2. \/ reg' = reg \/ reg' = [reg EXCEPT ![s] = NoRec]
          \/ reg' = [reg EXCEPT ![s] = [NoRec EXCEPT !.gen = g]]
          \/ reg' = [[reg EXCEPT ![s] = NoRec] EXCEPT ![s] = [NoRec EXCEPT !.gen = g]]
      BY <1>1 DEF RegisterSession, Dropped
    <2>3. \A a, b : [[reg EXCEPT ![s] = a] EXCEPT ![s] = b] = [reg EXCEPT ![s] = b]
      BY DEF TypeOK
    <2>4. reg' = reg \/ \E rec : rec.proven = FALSE /\ reg' = [reg EXCEPT ![s] = rec]
      BY <2>2, <2>3, NoRecFacts
    <2>5. CASE reg' = reg  BY <2>1, <2>5 DEF RegInv, Fitting
    <2>6. QED  BY <2>1, <2>4, <2>5, OneRec
  <1>2. ASSUME NEW s \in Sids, NEW g \in Gens, NEW ok \in BOOLEAN, BindHost(s, g, ok)
        PROVE  RegInv'
    <2> DEFINE rec == [reg[s] EXCEPT !.bound = TRUE, !.pend = FALSE, !.conn = reg[s].pend /\ ok]
    <2>1. env' = env  BY <1>2 DEF BindHost, Handled
    <2>2. \/ reg' = reg
          \/ ~reg[s].conn /\ reg' = [reg EXCEPT ![s].bound = TRUE, ![s].pend = FALSE,
                                               ![s].conn = reg[s].pend /\ ok]
      BY <1>2 DEF BindHost
    <2>3. [reg EXCEPT ![s].bound = TRUE, ![s].pend = FALSE, ![s].conn = reg[s].pend /\ ok]
            = [reg EXCEPT ![s] = rec]
      BY DEF TypeOK, Recs
    <2>4. rec.proven = reg[s].proven  BY RegFacts DEF Recs
    <2> HIDE DEF rec
    <2>5. CASE reg' = reg  BY <2>1, <2>5 DEF RegInv, Fitting
    <2>6. CASE ~reg[s].conn /\ reg' = [reg EXCEPT ![s] = rec]
      <3>1. ~rec.proven  BY <2>4, <2>6 DEF RegInv
      <3>2. QED  BY <2>1, <2>6, <3>1, OneRec
    <2>7. QED  BY <2>2, <2>3, <2>5, <2>6
  <1>3. ASSUME NEW s \in Sids, NEW g \in Gens, RequestEvidence(s, g)  PROVE RegInv'
    <2> DEFINE rec == [reg[s] EXCEPT !.asked = TRUE]
    <2>1. env' = env  BY <1>3 DEF RequestEvidence, Handled
    <2>2. reg' = reg \/ reg' = [reg EXCEPT ![s] = rec]  BY <1>3 DEF RequestEvidence
    <2>3. rec.proven = reg[s].proven /\ rec.conn = reg[s].conn /\ rec.valid = reg[s].valid
      BY RegFacts DEF Recs
    <2> HIDE DEF rec
    <2>4. CASE reg' = reg  BY <2>1, <2>4 DEF RegInv, Fitting
    <2>5. CASE reg' = [reg EXCEPT ![s] = rec]  BY <2>1, <2>3, <2>5, OneRec DEF RegInv
    <2>6. QED  BY <2>2, <2>4, <2>5
  <1>4. ASSUME NEW s \in Sids, NEW g \in Gens, UnregisterSession(s, g)  PROVE RegInv'
    <2>1. env' = env  BY <1>4 DEF UnregisterSession, Handled
    <2>2. reg' = reg \/ reg' = [reg EXCEPT ![s] = NoRec]  BY <1>4 DEF UnregisterSession, Dropped
    <2>3. CASE reg' = reg  BY <2>1, <2>3 DEF RegInv, Fitting
    <2>4. QED  BY <2>1, <2>2, <2>3, NoRecFacts, OneRec
  <1>5. ASSUME reg' = reg, env' = env  PROVE RegInv'  BY <1>5 DEF RegInv, Fitting
  <1>6. QED
    BY <1>1, <1>2, <1>3, <1>4, <1>5
    DEF Commands, ProtectSession, RegisterGreeter, UnregisterGreeter, SetInputOwner, GreeterOnly,
        BeginTransition, CancelTransition, EngineCommand, SetDpms, Handled

\* A change of the outputs keeps RegInv.
LEMMA OutputsReg ==
  ASSUME TypeOK, RegInv, OutputsChange, env' = env
  PROVE  RegInv'
  <1>1. PICK any \in BOOLEAN, mapped \in BOOLEAN, lost \in SUBSET Sids, gained \in SUBSET Sids :
          NewOutputs(any, lost, gained, mapped)
    BY DEF OutputsChange
  <1> DEFINE proof(s) == any /\ reg[s].conn /\ s \notin lost /\ (reg[s].proven \/ s \in gained)
             valid(s) == proof(s) /\ (reg[s].valid \/ s \in gained)
  <1>2. \A s \in Sids : reg'[s] = [reg[s] EXCEPT !.proven = proof(s), !.valid = valid(s)]
    BY <1>1 DEF NewOutputs
  <1>3. \A s \in Sids : reg[s] \in Recs  BY DEF TypeOK
  <1>4. \A s \in Sids : proof(s) => reg[s].conn /\ (Fitting => valid(s))  BY DEF RegInv
  <1> HIDE DEF proof, valid
  <1>5. \A s \in Sids : reg'[s].proven = proof(s) /\ reg'[s].valid = valid(s) /\ reg'[s].conn = reg[s].conn
    BY <1>2, <1>3 DEF Recs
  <1>6. QED  BY <1>4, <1>5 DEF RegInv, Fitting

------------------------------------------------------------------------------
(* Clients.                                                                *)

\* With proofs that were there before, nothing new is presentable.
LEMMA NothingNew ==
  ASSUME \A s \in Sids : /\ reg'[s].gen = reg[s].gen
                         /\ IsPresentable(reg', outs', s) => IsPresentable(reg, outs, s)
  PROVE  Presentable(reg', outs') \subseteq Presentable(reg, outs)
  BY DEF Presentable, Registered, KeyOf

\* A step of a client that makes nothing presentable needs no frame.
LEMMA QuietShown ==
  ASSUME ShownInv, RegInv', eng' = eng, env' = env,
         Fitting => Presentable(reg', outs') \subseteq Presentable(reg, outs),
         fr'.layer = fr.layer, fr'.blanking = fr.blanking, fr'.dpms = fr.dpms,
         fr'.active = fr.active, fr.redraw => fr'.redraw
  PROVE  ShownInv'
  BY DEF ShownInv, Awake, Fitting, Resting, Uncommitted, Foremost

\* A client may ask for a frame, and leaves the rest of the pump alone.
LEMMA ClientFrames ==
  ASSUME TypeOK, \/ fr' = fr \/ fr' = [fr EXCEPT !.redraw = TRUE]
                 \/ \E b : fr' = [fr EXCEPT !.redraw = fr.redraw \/ b]
  PROVE  /\ fr'.layer = fr.layer /\ fr'.blanking = fr.blanking /\ fr'.dpms = fr.dpms
         /\ fr'.active = fr.active /\ (fr.redraw => fr'.redraw)
  BY DEF TypeOK, Frames

\* A new connection has nothing to show yet.
LEMMA HostConnectsShown ==
  ASSUME TypeOK, ShownInv, NEW s \in Sids, NEW ok \in BOOLEAN, HostConnects(s, ok)
  PROVE  ShownInv'
  <1> DEFINE held == [reg[s] EXCEPT !.pend = TRUE]
             up == [reg[s] EXCEPT !.conn = TRUE, !.pend = FALSE]
  <1>1. RegInv /\ reg[s].proven = FALSE  BY RegFacts DEF ShownInv, RegInv, HostConnects, Recs
  <1>2. /\ held.proven = reg[s].proven /\ held.gen = reg[s].gen
        /\ up.proven = reg[s].proven /\ up.gen = reg[s].gen
    BY RegFacts DEF Recs
  <1>3. reg' = reg \/ reg' = [reg EXCEPT ![s] = held] \/ reg' = [reg EXCEPT ![s] = up]
    BY DEF HostConnects
  <1>4. eng' = eng /\ env' = env /\ outs' = outs /\ fr' = fr  BY DEF HostConnects, Clientside
  <1> HIDE DEF held, up
  <1>5. /\ reg' = reg \/ \E rec : reg' = [reg EXCEPT ![s] = rec] /\ rec.proven = FALSE
        /\ \A x \in Sids : reg'[x].gen = reg[x].gen /\ (x # s => reg'[x] = reg[x])
        /\ reg'[s].proven = FALSE
    BY <1>1, <1>2, <1>3 DEF TypeOK
  <1>6. RegInv'
    <2>1. CASE reg' = reg  BY <1>1, <1>4, <2>1 DEF RegInv, Fitting
    <2>2. QED  BY <1>1, <1>4, <1>5, <2>1, OneRec
  <1>7. Presentable(reg', outs') \subseteq Presentable(reg, outs)
    BY <1>4, <1>5, NothingNew DEF IsPresentable
  <1>8. QED  BY <1>4, <1>6, <1>7, ClientFrames, QuietShown

\* A commit that wakes nobody proves nothing new.
LEMMA HostCommitsShown ==
  ASSUME TypeOK, ShownInv, NEW s \in Sids, NEW fits \in BOOLEAN, HostCommits(s, fits),
         fits \/ "badbuffer" \in env
  PROVE  ShownInv'
  <1> DEFINE report == fits /\ (~reg[s].proven \/ reg[s].asked)
             visible == fr.layer # Nil /\ fr.layer[1] = s
             asks == fits /\ WakesRenderer(visible, report)
             asked == reg[s].asked /\ ~report
             rec == [reg[s] EXCEPT !.valid = fits, !.proven = reg[s].proven \/ fits, !.asked = asked]
  <1>1. RegInv  BY DEF ShownInv
  <1>2. reg[s].conn /\ reg' = [reg EXCEPT ![s] = rec]  BY DEF HostCommits
  <1>3. eng' = eng /\ env' = env /\ outs' = outs  BY DEF HostCommits, Clientside
  <1>4. fr' = [fr EXCEPT !.redraw = fr.redraw \/ asks]  BY DEF HostCommits
  <1>5. report => asks  BY DEF WakesRenderer
  <1>6. reg[s].proven \in BOOLEAN /\ fits \in BOOLEAN  BY RegFacts DEF Recs
  <1>7. fits /\ ~report => reg[s].proven = TRUE  BY <1>6
  <1>8. /\ rec.valid = fits /\ rec.proven = (reg[s].proven \/ fits) /\ rec.conn = reg[s].conn
        /\ rec.gen = reg[s].gen
    BY RegFacts DEF Recs
  <1> HIDE DEF rec, asked, visible
  <1>9. RegInv'
    <2>1. rec.proven => rec.conn /\ (Fitting => rec.valid)  BY <1>2, <1>8 DEF Fitting
    <2>2. QED  BY <1>1, <1>2, <1>3, <2>1, OneRec
  <1>10. CASE report
    <2>1. fr'.redraw = TRUE  BY <1>4, <1>5, <1>10 DEF TypeOK, Frames
    <2>2. QED  BY <1>9, <2>1, AskedShown
  <1>11. CASE ~report
    <2>1. ASSUME Fitting  PROVE Presentable(reg', outs') \subseteq Presentable(reg, outs)
      <3>1. reg[s].proven /\ reg[s].valid  BY <1>1, <1>7, <1>11, <2>1 DEF Fitting, RegInv
      <3>2. \A x \in Sids : reg'[x].gen = reg[x].gen /\ (x # s => reg'[x] = reg[x])
        BY <1>2, <1>8 DEF TypeOK
      <3>3. QED  BY <1>2, <1>3, <3>1, <3>2, NothingNew DEF IsPresentable
    <2>2. \E b : fr' = [fr EXCEPT !.redraw = fr.redraw \/ b]  BY <1>4
    <2>3. QED  BY <1>3, <1>9, <2>1, <2>2, ClientFrames, QuietShown
  <1>12. QED  BY <1>10, <1>11

\* No client leaves a presentable session out without asking for a frame.
LEMMA ClientsShown ==
  ASSUME TypeOK, ShownInv, Clients
  PROVE  ShownInv'
  <1>1. RegInv  BY DEF ShownInv
  <1>2. ASSUME NEW s \in Sids, NEW wakes \in BOOLEAN, HostDropsSurface(s, wakes)  PROVE ShownInv'
    <2> DEFINE rec == [reg[s] EXCEPT !.proven = FALSE, !.valid = FALSE, !.asked = FALSE]
    <2>1. reg' = [reg EXCEPT ![s] = rec] /\ eng' = eng /\ env' = env /\ outs' = outs
      BY <1>2 DEF HostDropsSurface, Clientside
    <2>2. rec.proven = FALSE /\ rec.gen = reg[s].gen  BY RegFacts DEF Recs
    <2> HIDE DEF rec
    <2>3. RegInv'  BY <1>1, <2>1, <2>2, OneRec
    <2>4. \A x \in Sids : reg'[x].gen = reg[x].gen /\ (x # s => reg'[x] = reg[x])
      BY <2>1, <2>2 DEF TypeOK
    <2>5. reg'[s].proven = FALSE  BY <2>1, <2>2 DEF TypeOK
    <2>6. Presentable(reg', outs') \subseteq Presentable(reg, outs)
      BY <2>1, <2>4, <2>5, NothingNew DEF IsPresentable
    <2>7. \E b : fr' = [fr EXCEPT !.redraw = fr.redraw \/ b]  BY <1>2 DEF HostDropsSurface
    <2>8. QED  BY <2>1, <2>3, <2>6, <2>7, ClientFrames, QuietShown
  <1>3. ASSUME NEW s \in Sids, HostDisconnects(s)  PROVE ShownInv'
    <2>1. env' = env /\ fr'.redraw = TRUE
      BY <1>3 DEF HostDisconnects, Clientside, Redraw, TypeOK, Frames
    <2>2. reg' = [reg EXCEPT ![s] = [NoRec EXCEPT !.gen = reg[s].gen, !.bound = TRUE]]
      BY <1>3 DEF HostDisconnects
    <2>3. QED  BY <1>1, <2>1, <2>2, NoRecFacts, OneRec, AskedShown
  <1>4. ASSUME ExpirePending  PROVE ShownInv'
    <2>1. eng' = eng /\ env' = env /\ outs' = outs /\ fr' = fr
      BY <1>4 DEF ExpirePending, Clientside
    <2>2. \A x \in Sids : reg'[x] = [reg[x] EXCEPT !.pend = FALSE]  BY <1>4 DEF ExpirePending
    <2>3. \A x \in Sids : /\ reg'[x].gen = reg[x].gen /\ reg'[x].proven = reg[x].proven
                          /\ reg'[x].conn = reg[x].conn /\ reg'[x].valid = reg[x].valid
      BY <2>2, RegFacts DEF Recs
    <2>4. RegInv'  BY <1>1, <2>1, <2>3 DEF RegInv, Fitting
    <2>5. Presentable(reg', outs') \subseteq Presentable(reg, outs)
      BY <2>1, <2>3, NothingNew DEF IsPresentable
    <2>6. QED  BY <2>1, <2>4, <2>5, ClientFrames, QuietShown
  <1>5. ASSUME \/ \E g \in GGens : GreeterConnects(g)
               \/ GreeterDisconnects \/ GreeterUnmaps \/ GreeterMaps \/ Wake
        PROVE  ShownInv'
    <2>1. eng' = eng /\ env' = env /\ outs' = outs /\ reg' = reg
      BY <1>5 DEF GreeterConnects, GreeterDisconnects, GreeterUnmaps, GreeterMaps, Wake, Clientside
    <2>2. \/ fr' = fr \/ fr' = [fr EXCEPT !.redraw = TRUE]
          \/ \E b : fr' = [fr EXCEPT !.redraw = fr.redraw \/ b]
      BY <1>5 DEF GreeterConnects, GreeterDisconnects, GreeterUnmaps, GreeterMaps, Wake, Redraw
    <2>3. RegInv'  BY <1>1, <2>1 DEF RegInv, Fitting
    <2>4. QED  BY <2>1, <2>2, <2>3, ClientFrames, QuietShown
  <1>6. QED
    BY <1>2, <1>3, <1>4, <1>5, HostConnectsShown, HostCommitsShown DEF Clients

\* New outputs and a VT that comes back ask for a frame.
LEMMA OutputsShown ==
  ASSUME TypeOK, ShownInv, SetOutputs \/ ActivateSession
  PROVE  ShownInv'
  <1>1. env' = env /\ fr'.redraw = TRUE
    BY DEF SetOutputs, ActivateSession, Clientside, Redraw, TypeOK, Frames
  <1>2. reg' = reg \/ OutputsChange  BY DEF SetOutputs, ActivateSession
  <1>3. RegInv'
    <2>1. CASE reg' = reg  BY <1>1, <2>1 DEF ShownInv, RegInv, Fitting
    <2>2. CASE OutputsChange  BY <1>1, <2>2, OutputsReg DEF ShownInv
    <2>3. QED  BY <1>2, <2>1, <2>2
  <1>4. QED  BY <1>1, <1>3, AskedShown

------------------------------------------------------------------------------
(* Frames.                                                                 *)

\* A frame planned by an engine with no commit ahead has the foreground session in it,
\* when it is presentable.
LEMMA PlanShown ==
  ASSUME NEW e \in Engines, NEW S, Staged(e, S), NEW probe, NEW t \in Start..End,
         LET d == Plan(e, probe, t).eng
         IN  Resting(d) /\ Foremost(d) /\ d.base.key \in probe.exists \cap probe.presentable
  PROVE  Plan(e, probe, t).layer = Plan(e, probe, t).eng.base.key
  <1> DEFINE k == Taken(e)
             d == Plan(e, probe, t).eng
  <1>1. k \in Engines /\ k.run = e.run  BY TakenType DEF Taken, Engines
  <1>2. Plan(e, probe, t) = IF ~Uncommitted(e) THEN Still(k, probe)
                            ELSE IF ~Validate(k, e.run, probe) THEN Still(GivenUp(k), probe)
                            ELSE Animated(k, probe, t)
    BY DEF Plan
  <1> HIDE DEF k
  <1>3. \A c : Still(c, probe).eng = c /\ Still(c, probe).layer = BasePlan(c, probe)
    BY DEF Still
  <1>4. ASSUME NEW c, Foremost(c), c.base.key \in probe.exists \cap probe.presentable
        PROVE  BasePlan(c, probe) = c.base.key
    BY <1>4 DEF Foremost, BasePlan, MayShow
  <1>5. CASE Uncommitted(e) /\ Validate(k, e.run, probe)
    <2> DEFINE r == [k.run EXCEPT !.started = TRUE, !.t = t]
    <2>1. k.run \in ActiveRuns
      BY <1>1, <1>5, EngineFields, RunFacts DEF Uncommitted
    <2>2. r.reverse = k.run.reverse /\ r.phase = k.run.phase  BY <2>1 DEF ActiveRuns
    <2>3. d = WithRun(k, r) /\ Plan(e, probe, t).layer = AnimatedLayer(k, k.run, probe)
      BY <1>2, <1>5 DEF Animated
    <2>4. WithRun(k, r).run = r /\ WithRun(k, r).base = k.base /\ WithRun(k, r).prot = k.prot
      BY <1>1 DEF WithRun, Engines
    <2> HIDE DEF r
    <2>5. k.run.reverse  BY <1>1, <1>5, <2>2, <2>3, <2>4 DEF Resting, Uncommitted
    <2>6. k.run.kind = "PowerFade"  BY <1>1, <1>5, <2>5 DEF Staged, Underway
    <2>7. AnimatedLayer(k, k.run, probe) = BasePlan(k, probe)
      BY <2>6 DEF AnimatedLayer, RevealKinds
    <2>8. BasePlan(k, probe) = k.base.key  BY <1>4, <2>3, <2>4 DEF Foremost
    <2>9. QED  BY <2>3, <2>4, <2>7, <2>8
  <1>6. CASE ~(Uncommitted(e) /\ Validate(k, e.run, probe))
    <2>1. Plan(e, probe, t).layer = BasePlan(d, probe)  BY <1>2, <1>3, <1>6
    <2> HIDE DEF d
    <2>2. QED  BY <1>4, <2>1 DEF d
  <1>7. QED  BY <1>5, <1>6

\* After frame_done nothing runs only if the protections are what they were.
LEMMA FrameDoneProt ==
  ASSUME NEW e \in Engines, ~Running(FrameDone(e))
  PROVE  FrameDone(e).prot = e.prot
  <1>1. CASE ~Uncommitted(e)  BY <1>1, FrameDoneForeground
  <1>2. CASE Uncommitted(e)
    <2> DEFINE ack == Acknowledge(e)
               r == [e.run EXCEPT !.phase = "Animating"]
               moved == Emit(WithRun(ack, r), PhaseEvent(e.run.op, "Animating"))
               ended == Emit(WithRun(ack, NoRun), PhaseEvent(e.run.op, "Cancelled"))
    <2>1. ack \in Engines /\ ack.prot = e.prot  BY AcknowledgeScene
    <2>2. e.run \in ActiveRuns /\ e.run.op \in Ops
      BY <1>2, EngineFields, RunFacts DEF Uncommitted
    <2>3. \/ FrameDone(e) = ended \/ FrameDone(e) = ack \/ FrameDone(e) = moved
          \/ FrameDone(e) = Commit(moved) \/ FrameDone(e) = Commit(ack)
      BY <1>2 DEF FrameDone, Running, Uncommitted
    <2>4. r \in Runs  BY <2>2 DEF ActiveRuns, Runs
    <2> HIDE DEF ack, r
    <2>5. WithRun(ack, r) \in Engines /\ WithRun(ack, NoRun) \in Engines
      BY <2>1, <2>4, NoRunType, WithRunType
    <2>6. WithRun(ack, r).prot = e.prot /\ WithRun(ack, NoRun).prot = e.prot
      BY <2>1 DEF WithRun, Engines
    <2>7. moved.prot = e.prot /\ ended.prot = e.prot  BY <2>5, <2>6 DEF Emit, Engines
    <2>8. PhaseEvent(e.run.op, "Animating") \in EngineEvents  BY <2>2, PhaseEventType DEF PhaseEvents
    <2>9. moved \in Engines  BY <2>5, <2>8, EmitType
    <2> HIDE DEF moved, ended
    <2>10. ASSUME NEW d \in Engines  PROVE Commit(d).prot = d.prot
      BY DEF Commit, Emit, Engines
    <2>11. QED  BY <2>1, <2>3, <2>7, <2>9, <2>10
  <1>3. QED  BY <1>1, <1>2

\* The foreground session of e, if presentable, is in the frame f was planned with.
Covers(e, f) ==
  Resting(e) /\ Foremost(e) /\ e.base.key \in Presentable(reg, outs) /\ Fitting
    => f.layer = e.base.key \/ Awake(f)

\* The frame pump does not touch the surfaces.
Surfaces == reg' = reg /\ outs' = outs /\ env' = env

\* A frame that is shown leaves the foreground session shown, or asks for another.
LEMMA FrameShownShown ==
  ASSUME NEW e \in Engines, NEW f \in Frames, NEW x, NEW blank \in BOOLEAN, NEW seen,
         FrameShown(e, f, x, blank, seen), RegInv, Surfaces,
         blank => f.blanking \/ f.redraw, ~blank => Covers(e, f)
  PROVE  ShownInv'
  <1>1. RegInv'  BY DEF RegInv, Fitting, Surfaces
  <1>2. CASE blank
    <2>1. fr' = [f EXCEPT !.fails = 0, !.blanking = FALSE, !.dpms = @ /\ ~f.blanking]
      BY <1>2 DEF FrameShown
    <2>2. fr'.redraw = f.redraw /\ fr'.dpms = (f.dpms /\ ~f.blanking)  BY <2>1 DEF Frames
    <2>3. QED  BY <1>1, <1>2, <2>2 DEF ShownInv, Awake
  <1>3. CASE ~blank
    <2> DEFINE d == FrameDone(e)
    <2>1. d \in Engines  BY FrameDoneType
    <2>2. eng' = [d EXCEPT !.out = <<>>] /\ fr' = [f EXCEPT !.fails = 0, !.redraw = @ \/ NeedsFrame(d)]
      BY <1>3 DEF FrameShown
    <2>3. ~Running(d) => Resting(e) /\ d.base = e.base /\ d.prot = e.prot
      BY FrameDoneResting, FrameDoneProt
    <2> HIDE DEF d
    <2>4. /\ fr'.layer = f.layer /\ fr'.blanking = f.blanking /\ fr'.dpms = f.dpms
          /\ fr'.active = f.active /\ (f.redraw \/ NeedsFrame(d) => fr'.redraw)
      BY <2>2 DEF Frames
    <2>5. eng'.base = d.base /\ eng'.prot = d.prot  BY <2>1, <2>2, DrainedScene
    <2>6. CASE NeedsFrame(d)  BY <1>1, <2>4, <2>6 DEF ShownInv, Awake
    <2>7. CASE ~NeedsFrame(d)
      <3>1. Resting(e) /\ eng'.base = e.base /\ eng'.prot = e.prot
        BY <2>3, <2>5, <2>7 DEF NeedsFrame
      <3>2. QED
        BY <1>1, <1>3, <2>4, <3>1 DEF ShownInv, Awake, Covers, Foremost, Surfaces, Fitting
    <2>8. QED  BY <2>6, <2>7
  <1>4. QED  BY <1>2, <1>3

\* Whatever becomes of a submitted frame (settle), the foreground session is not left out.
LEMMA SettleFrameShown ==
  ASSUME NEW e \in Engines, NEW f \in Frames, NEW x, NEW blank \in BOOLEAN, NEW seen, NEW outcome,
         SettleFrame(e, f, x, blank, seen, outcome), RegInv, Surfaces,
         blank => f.blanking, ~blank => Covers(e, f)
  PROVE  ShownInv'
  <1>1. RegInv'  BY DEF RegInv, Fitting, Surfaces
  <1>2. CASE outcome = "Shown"  BY <1>2, FrameShownShown DEF SettleFrame
  <1>3. CASE outcome = "Failed"
    <2>1. fr'.redraw = TRUE  BY <1>3 DEF SettleFrame, FrameLost, Frames
    <2>2. QED  BY <1>1, <2>1, AskedShown
  <1>4. CASE outcome \notin {"Shown", "Failed"}
    <2> DEFINE part == outcome = "Partial"
               wait == IF blank THEN "blank" ELSE "frame"
    <2>1. fr' = [f EXCEPT !.await = wait, !.partial = part, !.seen = seen] /\ eng' = e
      BY <1>4 DEF SettleFrame
    <2> HIDE DEF part, wait
    <2>2. /\ fr'.layer = f.layer /\ fr'.blanking = f.blanking /\ fr'.dpms = f.dpms
          /\ fr'.active = f.active /\ fr'.redraw = f.redraw
      BY <2>1 DEF Frames
    <2>3. QED
      BY <1>1, <2>1, <2>2
      DEF ShownInv, Awake, Covers, Foremost, Resting, Uncommitted, Surfaces, Fitting
  <1>5. QED  BY <1>2, <1>3, <1>4

\* The frame pump sleeps only on a frame with the foreground session in it.
LEMMA PumpShown ==
  ASSUME TypeOK, SceneInv, OwedInv, ShownInv, FramePump \/ FlipTimeout \/ PauseSession
  PROVE  ShownInv'
  <1>1. fr \in Frames /\ eng \in Engines /\ RegInv  BY DEF TypeOK, ShownInv
  <1>2. Surfaces
    BY DEF FramePump, RenderFrame, RenderHeld, FlipsDone, FlipTimeout, PauseSession, Surfaces
  <1>3. RegInv'  BY <1>1, <1>2 DEF RegInv, Fitting, Surfaces
  <1>4. Covers(eng, fr)  BY DEF ShownInv, Covers
  <1>5. ASSUME NEW t \in NextProgress(eng.run), NEW outcome \in Outcomes, RenderFrame(t, outcome)
        PROVE  ShownInv'
    <2> DEFINE probe == Probe(reg, gre, outs)
               p == Plan(eng, probe, t)
               planned == [fr EXCEPT !.redraw = FALSE, !.layer = p.layer, !.greeter = p.greeter]
               idle == [fr EXCEPT !.redraw = FALSE]
    <2>1. t \in Start..End
      <3>1. eng.run \in Runs  BY <1>1, EngineFields
      <3>2. QED  BY <3>1, NextProgressType
    <2>2. p \in Plans  BY <1>1, <2>1, PlanType
    <2>3. probe.presentable = Presentable(reg, outs) /\ Presentable(reg, outs) \subseteq probe.exists
      BY DEF Probe, Presentable
    <2>4. \/ fr.blanking /\ \E x : SettleFrame(eng, idle, x, TRUE, Nil, outcome)
          \/ \E x : SettleFrame(p.eng, planned, x, FALSE, p.seen, outcome)
      BY <1>5 DEF RenderFrame
    <2> HIDE DEF probe
    <2>5. Resting(p.eng) /\ Foremost(p.eng) /\ p.eng.base.key \in Presentable(reg, outs)
          => p.layer = p.eng.base.key
      BY <1>1, <2>1, <2>3, PlanShown DEF SceneInv
    <2> HIDE DEF p
    <2>6. planned \in Frames /\ planned.layer = p.layer /\ p.eng \in Engines
      BY <1>1, <2>2 DEF Plans, Frames
    <2>7. idle \in Frames /\ idle.blanking = fr.blanking  BY <1>1 DEF Frames
    <2> HIDE DEF planned, idle
    <2>8. Covers(p.eng, planned)  BY <2>5, <2>6 DEF Covers
    <2>9. QED  BY <1>1, <1>2, <2>4, <2>6, <2>7, <2>8, SettleFrameShown
  <1>6. CASE FlipsDone \/ FlipTimeout
    <2>1. /\ Landed \in Frames /\ Landed.redraw = fr.redraw /\ Landed.blanking = fr.blanking
          /\ Landed.layer = fr.layer /\ Landed.dpms = fr.dpms /\ Landed.active = fr.active
      BY <1>1 DEF Landed, Frames
    <2>2. Blank \in BOOLEAN /\ (Blank => fr.blanking \/ fr.redraw)  BY DEF Blank, OwedInv
    <2>3. \/ FrameLost(eng, Landed, Quiet(inp), Blank)
          \/ FrameShown(eng, Landed, Quiet(inp), Blank, fr.seen)
      BY <1>6 DEF FlipsDone, FlipTimeout
    <2>4. ASSUME FrameLost(eng, Landed, Quiet(inp), Blank)  PROVE fr'.redraw = TRUE
      BY <2>1, <2>4 DEF FrameLost, Frames
    <2>5. Covers(eng, Landed)  BY <1>4, <2>1 DEF Covers, Awake
    <2> HIDE DEF Landed, Blank
    <2>6. QED
      BY <1>1, <1>2, <1>3, <2>1, <2>2, <2>3, <2>4, <2>5, AskedShown, FrameShownShown
  <1>7. CASE PauseSession
    <2>1. fr'.active = FALSE  BY <1>1, <1>7 DEF PauseSession, Landed, Frames
    <2>2. QED  BY <1>3, <2>1 DEF ShownInv, Awake
  <1>8. CASE RenderHeld
    <2>1. eng' = eng /\ fr' = fr  BY <1>8 DEF RenderHeld
    <2>2. QED
      BY <1>2, <1>3, <2>1 DEF ShownInv, Awake, Foremost, Resting, Uncommitted, Surfaces, Fitting
  <1>9. QED  BY <1>5, <1>6, <1>7, <1>8 DEF FramePump

\* A foreground session whose every output is proven is in the last planned frame, or a
\* frame is asked for or on its way, or the displays or the VT are away (host.rs
\* host_surface_commit's decision not to wake the renderer, broker.rs promote_host, state.rs
\* set_outputs), provided the manager is careful and no host commits a buffer of the wrong size.
THEOREM ShownCorrect ==
  ASSUME Careful
  PROVE  Spec => []PresentableIsShown
  <1>1. Init => ShownInv
    <2> SUFFICES ASSUME Init PROVE ShownInv  OBVIOUS
    <2>1. fr.redraw  BY DEF Init
    <2>2. RegInv  BY NoRecFacts DEF Init, RegInv
    <2>3. QED  BY <2>1, <2>2 DEF ShownInv, Awake
  <1>2. TypeOK /\ SceneInv /\ OwedInv /\ ShownInv /\ [Next]_vars => ShownInv'
    <2> SUFFICES ASSUME TypeOK, SceneInv, OwedInv, ShownInv, [Next]_vars PROVE ShownInv'  OBVIOUS
    <2>1. CASE Commands  BY <2>1, CommandsAsk, CommandsReg, AskedShown DEF ShownInv
    <2>2. CASE Clients  BY <2>2, ClientsShown
    <2>3. CASE Hardware  BY <2>3, OutputsShown, PumpShown DEF Hardware
    <2>4. CASE FramePump  BY <2>4, PumpShown
    <2>5. CASE UNCHANGED vars
      BY <2>5 DEF vars, ShownInv, RegInv, Fitting, Awake, Foremost, Resting, Uncommitted
    <2>6. QED  BY <2>1, <2>2, <2>3, <2>4, <2>5 DEF Next
  <1>3. TypeOK /\ ShownInv => PresentableIsShown
    <2> SUFFICES ASSUME TypeOK, ShownInv PROVE PresentableIsShown  OBVIOUS
    <2>1. ASSUME ~Running(eng), ForegroundSession(eng) # Nil
          PROVE  Resting(eng) /\ Foremost(eng) /\ ForegroundSession(eng) = eng.base.key
      BY <2>1 DEF Running, ForegroundSession, Resting, Foremost, Uncommitted
    <2>2. QED  BY <2>1 DEF PresentableIsShown, ShownInv, Awake, Fitting
  <1>4. QED  BY <1>1, <1>2, <1>3, OwedHolds, SceneHolds, TypeCorrect, PTL DEF Spec
==============================================================================
