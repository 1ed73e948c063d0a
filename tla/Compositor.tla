----------------------------- MODULE Compositor ------------------------------
(***************************************************************************)
(* The compositor process (bsm/compositor/src): the scene engine together  *)
(* with what surrounds it in `State' - the brokered session registrations  *)
(* and the greeter's, the routing of physical input, and the frame pump    *)
(* that plans a frame, waits for its page flips and only then lets the     *)
(* engine acknowledge it.                                                  *)
(*                                                                         *)
(* The manager (which sends the commands), the clients (which connect,     *)
(* commit buffers and disappear), the outputs and the display hardware are *)
(* the environment: any of them may act between two steps of the           *)
(* compositor.                                                             *)
(***************************************************************************)
EXTENDS SceneEngine

CONSTANTS
  GGens,              \* generations of the greeter
  MaxFrameFailures,   \* MAX_FRAME_FAILURES
  Envs                \* the environments, each a set of the choices below

ASSUME FailuresAssumption == MaxFrameFailures \in Nat \ {0}
ASSUME NilIsNoPeer == Nil \notin Sids /\ Nil \notin Gens /\ Nil \notin GGens /\ Nil \notin {"None", "Greeter"}
ASSUME OwnersDiffer == {"None", "Greeter"} \cap Sids = {}
\* What an environment does besides the core protocol.  A kind of transition: the
\* manager asks for it; "eager": it reveals without the discipline defined below;
\* "blank": it switches the displays off; "evidence": it asks for fresh frames;
\* "refuse": registrations fail, peers are refused, surfaces are dropped; "leave":
\* hosts disconnect and sessions are unregistered; "greeter": the greeter crashes,
\* connects early and is replaced; "outputs": outputs change; "vt": the VT is
\* switched; "badbuffer": hosts commit buffers of the wrong size; "lossy": frames
\* fail, and flips miss outputs or never complete.
EnvChoices == {"eager", "blank", "evidence", "refuse", "leave", "greeter", "outputs", "vt",
               "badbuffer", "lossy"}
ASSUME EnvAssumption == Envs \subseteq SUBSET (EnvChoices \cup Kinds)

VARIABLES
  eng,     \* State.engine
  reg,     \* State.sessions: the registration of each session id
  gre,     \* State.greeter
  inp,     \* State.owner, pending_owner, wanted_greeter, suspended_owner
  fr,      \* the frame pump: awaiting, last_plan, needs_redraw, blanking, ...
  outs,    \* is there an output
  screen,  \* the sessions whose pixels some output shows (not in the code)
  acked,   \* the sessions reported Protected and not revealed since (not in the code)
  evt,     \* the events this step sent to the manager
  env      \* the environment this behaviour has; it never changes
vars == <<eng, reg, gre, inp, fr, outs, screen, acked, evt, env>>

------------------------------------------------------------------------------
(* Types.                                                                  *)

Owners == {"None", "Greeter"} \cup Sids

\* struct SessionRec, reduced: pend is a held, unverified connection; proven,
\* that every output has a frame presented after its configure was acked;
\* valid, that the last buffer of every surface fits its output; asked, that
\* some surface has evidence_pending.
NoRec == [gen |-> Nil, bound |-> FALSE, pend |-> FALSE, conn |-> FALSE,
          proven |-> FALSE, valid |-> FALSE, asked |-> FALSE]
Recs == [gen : Gens \cup {Nil}, bound : BOOLEAN, pend : BOOLEAN, conn : BOOLEAN,
         proven : BOOLEAN, valid : BOOLEAN, asked : BOOLEAN]

\* greeter.auth, greeter.client (with greeter.connected), greeter.pending, and
\* whether the greeter has a layer surface with a buffer on every output.
Greeters == [auth : GGens \cup {Nil}, conn : GGens \cup {Nil}, pend : SUBSET GGens,
             mapped : BOOLEAN]

Inputs == [owner : Owners, pend : Owners \cup {Nil}, want : BOOLEAN, susp : Sids \cup {Nil}]

\* await: the kind of frame whose flips are outstanding; partial: Queued{failed};
\* seen: the session whose pixels that frame shows; layer, greeter: last_plan.
Frames == [await : {"none", "frame", "blank"}, partial : BOOLEAN, seen : Keys \cup {Nil},
           layer : Keys \cup {Nil}, greeter : BOOLEAN, redraw : BOOLEAN,
           blanking : BOOLEAN, dpms : BOOLEAN, active : BOOLEAN,
           fails : 0..MaxFrameFailures]

------------------------------------------------------------------------------
(* Events other than the engine's.                                         *)

OwnerEvent(o) == [ev |-> "InputOwnerChanged", owner |-> o]
KeyEvent(ev, k) == [ev |-> ev, key |-> k]
SurfacesEvent(k, ok) == [ev |-> "SessionSurfaces", key |-> k, proven |-> ok]
OutputsEvent(any, ks) == [ev |-> "OutputsChanged", any |-> any, proven |-> ks]
GreeterEvent(ev, g) == [ev |-> ev, gen |-> g]

------------------------------------------------------------------------------
(* ProbeView.                                                              *)

KeyOf(r, s) == <<s, r[s].gen>>
Registered(r) == {s \in Sids : r[s].gen # Nil}
IsPresentable(r, o, s) == r[s].conn /\ o /\ r[s].proven /\ r[s].valid
Presentable(r, o) == {KeyOf(r, s) : s \in {x \in Registered(r) : IsPresentable(r, o, x)}}
Probe(r, g, o) ==
  [greeter     |-> g.conn # Nil /\ o /\ g.mapped,
   exists      |-> {KeyOf(r, s) : s \in Registered(r)},
   presentable |-> Presentable(r, o)]
IsRegistered(r, s, g) == r[s].gen = g /\ g # Nil

------------------------------------------------------------------------------
(* Input routing.  An input record travels with the events it emitted.     *)

Quiet(i) == [i |-> i, ev |-> <<>>]
Tell(x, e) == [x EXCEPT !.ev = Append(@, e)]

\* Mutant: any proven session may own the input.
OwnerAllowed_Proven(e, r, o, who) ==
  CASE who = "None" -> TRUE
    [] who = "Greeter" -> GreeterOwnsScene(e)
    [] OTHER -> r[who].gen # Nil /\ KeyOf(r, who) \in Presentable(r, o)
OwnerAllowed(e, r, o, who) ==
  CASE who = "None" -> TRUE
    [] who = "Greeter" -> GreeterOwnsScene(e)
    [] OTHER -> /\ r[who].gen # Nil
                /\ ForegroundSession(e) = KeyOf(r, who)
                /\ KeyOf(r, who) \in Presentable(r, o)

SetOwnerNow(x, who) ==
  [i  |-> [owner |-> who, pend |-> Nil, want |-> FALSE, susp |-> Nil],
   ev |-> IF who # x.i.owner THEN Append(x.ev, OwnerEvent(who)) ELSE x.ev]

RequestOwner(x, e, r, o, who) ==
  IF OwnerAllowed(e, r, o, who)
  THEN [x EXCEPT !.i.pend = who, !.i.want = FALSE]
  ELSE Tell([x EXCEPT !.i.want = (who = "Greeter")], OwnerEvent(x.i.owner))

ApplyPendingOwner(x, e, r, o) ==
  LET who == x.i.pend
  IN  IF who = Nil THEN x
      ELSE IF OwnerAllowed(e, r, o, who) THEN SetOwnerNow(x, who)
      ELSE Tell([x EXCEPT !.i.pend = Nil], OwnerEvent(x.i.owner))

RevokeInputOf(x, s) ==
  LET y == [x EXCEPT !.i.pend = IF @ = s THEN Nil ELSE @,
                     !.i.susp = IF @ = s THEN Nil ELSE @]
  IN  IF y.i.owner = s THEN SetOwnerNow(y, "None") ELSE y

\* The owner to give input back to: the foreground, when only its proof is gone.
Suspended(e, r, was) ==
  IF was \in Sids /\ r[was].gen # Nil /\ ForegroundSession(e) = KeyOf(r, was) THEN was ELSE Nil

\* Fail closed on an owner that is not allowed any more; give back what only
\* waited for the scene.
ReconcileInput(x, e, r, o) ==
  LET was == x.i.owner
      lost == SetOwnerNow(x, "None")
  IN  IF ~OwnerAllowed(e, r, o, was)
      THEN [lost EXCEPT !.i.susp = Suspended(e, r, was),
                        !.i.pend = x.i.pend,
                        !.i.want = x.i.want /\ was # "Greeter"]
      ELSE IF was # "None" THEN x
      ELSE IF x.i.susp # Nil /\ OwnerAllowed(e, r, o, x.i.susp)
           THEN SetOwnerNow(x, x.i.susp)
      ELSE IF x.i.want /\ OwnerAllowed(e, r, o, "Greeter")
           THEN SetOwnerNow(x, "Greeter")
      ELSE x

------------------------------------------------------------------------------
Init ==
  /\ eng = NewEngine
  /\ reg = [s \in Sids |-> NoRec]
  /\ gre = [auth |-> Nil, conn |-> Nil, pend |-> {}, mapped |-> FALSE]
  /\ inp = [owner |-> "None", pend |-> Nil, want |-> FALSE, susp |-> Nil]
  /\ fr = [await |-> "none", partial |-> FALSE, seen |-> Nil, layer |-> Nil,
           greeter |-> FALSE, redraw |-> TRUE, blanking |-> FALSE, dpms |-> TRUE,
           active |-> TRUE, fails |-> 0]
  /\ outs = TRUE
  /\ screen = {}
  /\ acked = {}
  /\ evt = <<>>
  /\ env \in Envs

------------------------------------------------------------------------------
(* Manager commands (handle_command).  Whatever the command did to the     *)
(* engine, the registrations and the input record, input is reconciled     *)
(* with the scene, the engine's events go out and a frame is asked for.    *)

Handled(e, r, x) ==
  LET y == ReconcileInput(x, e, r, outs)
  IN  /\ eng' = [e EXCEPT !.out = <<>>]
      /\ inp' = y.i
      /\ evt' = y.ev \o e.out
      /\ acked' = acked \cap e.prot
      /\ UNCHANGED env

Redraw == fr' = [fr EXCEPT !.redraw = TRUE]
EngineCommand(e) ==
  /\ Handled(e, reg, Quiet(inp))
  /\ Redraw
  /\ UNCHANGED <<reg, gre, outs, screen>>

\* unregister_session, as its effect on registrations, engine and input.
Dropped(r, s) == [r EXCEPT ![s] = NoRec]
DropOwner(x, s) == IF x.i.owner = s THEN SetOwnerNow(x, "None") ELSE x

\* ok: could the listening socket be created.
RegisterSession(s, g, ok) ==
  LET stale == reg[s].gen \notin {Nil, g}
      r == IF stale THEN Dropped(reg, s) ELSE reg
      e == IF stale THEN UnregisterKey(eng, KeyOf(reg, s)) ELSE eng
      x == IF stale THEN DropOwner(Quiet(inp), s) ELSE Quiet(inp)
  IN  /\ IF reg[s].gen = g \/ ok
         THEN /\ reg' = IF reg[s].gen = g THEN reg ELSE [r EXCEPT ![s] = [NoRec EXCEPT !.gen = g]]
              /\ Handled(e, reg', Tell(x, KeyEvent("SessionSocketReady", <<s, g>>)))
         ELSE /\ reg' = r
              /\ Handled(e, reg', Tell(x, KeyEvent("SessionConnectionRejected", <<s, g>>)))
      /\ Redraw
      /\ UNCHANGED <<gre, outs, screen>>

\* ok: does a held connection pass verify_host.
BindHost(s, g, ok) ==
  LET promoted == reg[s].pend /\ ok
      told == IF ~reg[s].pend THEN Quiet(inp)
              ELSE Tell(Quiet(inp), KeyEvent(IF ok THEN "SessionConnected"
                                             ELSE "SessionConnectionRejected", <<s, g>>))
  IN  /\ IF IsRegistered(reg, s, g) /\ ~reg[s].conn
         THEN /\ reg' = [reg EXCEPT ![s].bound = TRUE, ![s].pend = FALSE, ![s].conn = promoted]
              /\ Handled(eng, reg', told)
         ELSE /\ reg' = reg
              /\ Handled(eng, reg, Quiet(inp))
      /\ Redraw
      /\ UNCHANGED <<gre, outs, screen>>

RequestEvidence(s, g) ==
  /\ reg' = IF IsRegistered(reg, s, g) /\ reg[s].conn THEN [reg EXCEPT ![s].asked = TRUE] ELSE reg
  /\ Handled(eng, reg', Quiet(inp))
  /\ Redraw
  /\ UNCHANGED <<gre, outs, screen>>

\* Mutant: the place of the session is not painted over.
UnregisterSession_Unpainted(s, g) ==
  /\ IF IsRegistered(reg, s, g)
     THEN /\ reg' = Dropped(reg, s)
          /\ Handled(UnregisterKey(eng, <<s, g>>), reg', DropOwner(Quiet(inp), s))
     ELSE /\ Handled(eng, reg, Quiet(inp))
          /\ reg' = reg
  /\ UNCHANGED <<gre, fr, outs, screen>>
UnregisterSession(s, g) ==
  /\ IF IsRegistered(reg, s, g)
     THEN /\ reg' = Dropped(reg, s)
          /\ Handled(UnregisterKey(eng, <<s, g>>), reg', DropOwner(Quiet(inp), s))
     ELSE /\ Handled(eng, reg, Quiet(inp))
          /\ reg' = reg
  /\ Redraw
  /\ UNCHANGED <<gre, outs, screen>>

\* A held connection of the new generation is promoted, unless an older
\* greeter is still connected (its disconnection is asynchronous): every held
\* connection is used up either way.
RegisterGreeter(g) ==
  LET promoted == g \in gre.pend /\ gre.conn = Nil
  IN  /\ gre' = [gre EXCEPT !.auth = g, !.pend = {}, !.conn = IF promoted THEN g ELSE @]
      /\ Handled(eng, reg, IF promoted THEN Tell(Quiet(inp), GreeterEvent("GreeterConnected", g))
                           ELSE Quiet(inp))
      /\ Redraw
      /\ UNCHANGED <<reg, outs, screen>>

UnregisterGreeter(g) ==
  /\ gre' = [gre EXCEPT !.auth = IF @ = g THEN Nil ELSE @]
  /\ Handled(eng, reg, Quiet(inp))
  /\ Redraw
  /\ UNCHANGED <<reg, outs, screen>>

ProtectSession(s, g) ==
  /\ IF reg[s].gen \in {Nil, g}
     THEN Handled(Protect(eng, <<s, g>>), reg, RevokeInputOf(Quiet(inp), s))
     ELSE Handled(eng, reg, Quiet(inp))
  /\ Redraw
  /\ UNCHANGED <<reg, gre, outs, screen>>

SetInputOwner(who) ==
  /\ Handled(eng, reg, RequestOwner(Quiet(inp), eng, reg, outs, who))
  /\ Redraw
  /\ UNCHANGED <<reg, gre, outs, screen>>

GreeterOnly == EngineCommand(ShowGreeterOnly(eng))

BeginTransition(op, kind, source, target, quick) ==
  EngineCommand(Begin(eng, Probe(reg, gre, outs), op, kind, source, target, quick))

CancelTransition(op) == EngineCommand(Cancel(eng, op))

SetDpms(on) ==
  /\ Handled(eng, reg, Quiet(inp))
  /\ fr' = [fr EXCEPT !.redraw = TRUE, !.blanking = IF on THEN FALSE ELSE @ \/ fr.dpms,
                      !.dpms = @ \/ on]
  /\ UNCHANGED <<reg, gre, outs, screen>>

------------------------------------------------------------------------------
(* Clients and outputs.  None of these handlers touches the engine or the  *)
(* owner; input follows at the next frame.                                 *)

Clientside == UNCHANGED <<eng, inp, screen, acked, env>>

\* session_accept; ok: does the peer pass verify_host.
HostConnects(s, ok) ==
  /\ reg[s].gen # Nil /\ ~reg[s].conn
  /\ CASE ~reg[s].bound -> reg' = [reg EXCEPT ![s].pend = TRUE] /\ evt' = <<>>
       [] reg[s].bound /\ ok ->
            /\ reg' = [reg EXCEPT ![s] = [@ EXCEPT !.conn = TRUE, !.pend = FALSE]]
            /\ evt' = <<KeyEvent("SessionConnected", KeyOf(reg, s))>>
       [] OTHER -> reg' = reg /\ evt' = <<KeyEvent("SessionConnectionRejected", KeyOf(reg, s))>>
  /\ Clientside /\ UNCHANGED <<gre, fr, outs>>

\* client_gone of a host: the registration stays, the surfaces go.
HostDisconnects(s) ==
  /\ reg[s].conn
  /\ reg' = [reg EXCEPT ![s] = [NoRec EXCEPT !.gen = reg[s].gen, !.bound = TRUE]]
  /\ evt' = <<KeyEvent("SessionGone", KeyOf(reg, s))>>
  /\ Redraw /\ Clientside /\ UNCHANGED <<gre, outs>>

\* Mutant: proof alone does not wake the renderer.
WakesRenderer_Visible(visible, report) == visible
WakesRenderer(visible, report) == visible \/ report

\* The host has committed on every output since they were acknowledged; fits:
\* do the buffers have the outputs' size.
HostCommits(s, fits) ==
  LET report == fits /\ (~reg[s].proven \/ reg[s].asked)
      visible == fr.layer # Nil /\ fr.layer[1] = s
      rec == [reg[s] EXCEPT !.valid = fits, !.proven = @ \/ fits, !.asked = @ /\ ~report]
  IN  /\ reg[s].conn /\ outs
      /\ reg' = [reg EXCEPT ![s] = rec]
      /\ evt' = IF report THEN <<SurfacesEvent(KeyOf(reg, s), TRUE)>> ELSE <<>>
      /\ fr' = [fr EXCEPT !.redraw = @ \/ (fits /\ WakesRenderer(visible, report))]
      /\ Clientside /\ UNCHANGED <<gre, outs>>

\* drop_hosted_surface; wakes: was the wl_surface itself destroyed.
HostDropsSurface(s, wakes) ==
  /\ reg[s].conn
  /\ reg' = [reg EXCEPT ![s] = [@ EXCEPT !.proven = FALSE, !.valid = FALSE, !.asked = FALSE]]
  /\ evt' = <<SurfacesEvent(KeyOf(reg, s), FALSE)>>
  /\ fr' = [fr EXCEPT !.redraw = @ \/ wakes]
  /\ Clientside /\ UNCHANGED <<gre, outs>>

\* greeter_accept of the process of generation g.
GreeterConnects(g) ==
  /\ gre.conn # g
  /\ IF gre.auth = Nil
     THEN gre' = [gre EXCEPT !.pend = @ \cup {g}] /\ evt' = <<>> /\ fr' = fr
     ELSE IF gre.auth = g /\ gre.conn = Nil
     THEN /\ gre' = [gre EXCEPT !.conn = g]
          /\ evt' = <<GreeterEvent("GreeterConnected", g)>>
          /\ Redraw
     ELSE gre' = gre /\ evt' = <<>> /\ fr' = fr
  /\ Clientside /\ UNCHANGED <<reg, outs>>

\* client_gone of the greeter; its auth goes with it.
GreeterDisconnects ==
  /\ gre.conn # Nil
  /\ gre' = [gre EXCEPT !.conn = Nil, !.mapped = FALSE,
                        !.auth = IF @ = gre.conn THEN Nil ELSE @]
  /\ evt' = <<GreeterEvent("GreeterGone", gre.conn)>>
  /\ Redraw /\ Clientside /\ UNCHANGED <<reg, outs>>

\* A layer surface of the greeter is committed on every output, or goes.  A
\* greeter covered by a session does not wake the renderer with a commit.
GreeterMaps ==
  /\ gre.conn # Nil /\ outs
  /\ gre' = [gre EXCEPT !.mapped = TRUE]
  /\ fr' = [fr EXCEPT !.redraw = @ \/ ~(~fr.greeter /\ fr.layer # Nil)]
  /\ evt' = <<>>
  /\ Clientside /\ UNCHANGED <<reg, outs>>

GreeterUnmaps ==
  /\ gre.mapped
  /\ gre' = [gre EXCEPT !.mapped = FALSE]
  /\ evt' = <<>>
  /\ Redraw /\ Clientside /\ UNCHANGED <<reg, outs>>

\* expire_pending: a held connection waited longer than PENDING_TTL.
ExpirePending ==
  /\ gre' = [gre EXCEPT !.pend = {}]
  /\ reg' = [s \in Sids |-> [reg[s] EXCEPT !.pend = FALSE]]
  /\ evt' = <<>>
  /\ Clientside /\ UNCHANGED <<fr, outs>>

\* set_outputs.  A changed or new output voids the proof of every session in
\* lost; a removed one may complete the proof of those in gained.  The
\* per-session reports it sends are folded into the event.
NewOutputs(any, lost, gained, mapped) ==
  LET proof(s) == any /\ reg[s].conn /\ s \notin lost /\ (reg[s].proven \/ s \in gained)
  IN  /\ outs' = any
      /\ reg' = [s \in Sids |-> [reg[s] EXCEPT !.proven = proof(s),
                                  !.valid = proof(s) /\ (@ \/ s \in gained)]]
      /\ gre' = [gre EXCEPT !.mapped = mapped /\ any /\ gre.conn # Nil]
      /\ evt' = <<OutputsEvent(any, {KeyOf(reg, s) : s \in {x \in Sids : proof(x)}})>>
OutputsChange ==
  \E any, mapped \in BOOLEAN, lost, gained \in SUBSET Sids : NewOutputs(any, lost, gained, mapped)

SetOutputs == OutputsChange /\ Redraw /\ Clientside

\* Pointer motion and cursor changes ask for a frame.
Wake == Redraw /\ evt' = <<>> /\ Clientside /\ UNCHANGED <<reg, gre, outs>>

------------------------------------------------------------------------------
(* The frame pump.                                                         *)

\* Does the engine need another frame.  Mutant: a transition does not.
NeedsFrame_Protect(e) == HasQueuedProtect(e)
NeedsFrame(e) == Running(e) \/ HasQueuedProtect(e)

\* frame_shown: the frame is on every output; e is the engine it was planned
\* by, f the pump without that frame, x the input record and what it emitted.
\* A frame composed while the displays are off reaches no output.
FrameShown(e, f, x, blank, seen) ==
  IF blank
  THEN /\ fr' = [f EXCEPT !.fails = 0, !.blanking = FALSE, !.dpms = @ /\ ~f.blanking]
       /\ screen' = {}
       /\ eng' = e
       /\ evt' = x.ev
       /\ acked' = acked \cap e.prot
  ELSE LET d == FrameDone(e)
       IN  /\ fr' = [f EXCEPT !.fails = 0,
                              !.redraw = @ \/ NeedsFrame(d)]
           /\ screen' = IF f.dpms THEN Some(seen) ELSE screen
           /\ eng' = [d EXCEPT !.out = <<>>]
           /\ evt' = x.ev \o d.out
           /\ acked' = (acked \cup e.flight) \cap d.prot

\* frame_failed: nothing is acknowledged, the scene is composed again, and a
\* transition that cannot be shown is given up.
FrameLost(e, f, x, blank) ==
  LET fails == IF f.fails < MaxFrameFailures THEN f.fails + 1 ELSE f.fails
      back == IF blank THEN e ELSE FrameFailed(e)
      giveUp == ~blank /\ fails = MaxFrameFailures
      done == IF giveUp THEN AbortTransition(back) ELSE back
  IN  /\ fr' = [f EXCEPT !.fails = fails, !.redraw = TRUE]
      /\ eng' = IF giveUp THEN [done EXCEPT !.out = <<>>] ELSE done
      /\ evt' = IF giveUp THEN x.ev \o done.out ELSE x.ev
      /\ acked' = acked \cap done.prot

\* settle.  A queued frame waits for its flips; partial says that some output
\* could not be composed or queued.
SettleFrame(e, f, x, blank, seen, outcome) ==
  /\ inp' = x.i
  /\ CASE outcome = "Shown" -> FrameShown(e, f, x, blank, seen)
       [] outcome = "Failed" -> FrameLost(e, f, x, blank) /\ screen' = screen
       [] OTHER -> /\ fr' = [f EXCEPT !.await = IF blank THEN "blank" ELSE "frame",
                                      !.partial = (outcome = "Partial"), !.seen = seen]
                   /\ eng' = e
                   /\ evt' = x.ev
                   /\ acked' = acked \cap e.prot
                   /\ screen' = screen

Outcomes == {"Shown", "Queued", "Partial", "Failed"}

\* render_frame, run by after_dispatch when a frame was asked for.  t is what
\* the clock makes of the running transition.
RenderFrame(t, outcome) ==
  LET x1 == ReconcileInput(Quiet(inp), eng, reg, outs)
      x2 == ApplyPendingOwner(x1, eng, reg, outs)
      p == Plan(eng, Probe(reg, gre, outs), t)
      x3 == ReconcileInput(x2, p.eng, reg, outs)
      planned == [fr EXCEPT !.redraw = FALSE, !.layer = p.layer, !.greeter = p.greeter]
  IN  /\ fr.redraw /\ fr.await = "none" /\ fr.active
      /\ IF fr.blanking
         THEN SettleFrame(eng, [fr EXCEPT !.redraw = FALSE], x1, TRUE, Nil, outcome)
         ELSE /\ fr.dpms \/ outcome = "Shown"
              /\ SettleFrame(p.eng, planned, x3, FALSE, p.seen, outcome)
      /\ UNCHANGED <<reg, gre, outs, env>>

\* render_frame while the VT is switched away or a failed frame backs off: no
\* frame, but input follows the scene.
RenderHeld ==
  LET x == ReconcileInput(Quiet(inp), eng, reg, outs)
  IN  /\ fr.redraw /\ fr.await = "none"
      /\ ~fr.active \/ fr.fails > 0
      /\ inp' = x.i /\ evt' = x.ev
      /\ UNCHANGED <<eng, reg, gre, fr, outs, screen, acked, env>>

Landed == [fr EXCEPT !.await = "none", !.partial = FALSE, !.seen = Nil]
Blank == fr.await = "blank"

\* complete_awaiting: the flips of the awaited frame completed.  A frame that
\* missed an output may show its session next to what the output had.
FlipsDone ==
  /\ fr.await # "none"
  /\ IF fr.partial
     THEN FrameLost(eng, Landed, Quiet(inp), Blank) /\ screen' = screen \cup Some(fr.seen)
     ELSE FrameShown(eng, Landed, Quiet(inp), Blank, fr.seen)
  /\ UNCHANGED <<reg, gre, inp, outs, env>>

\* flip_watchdog: it is unknown which outputs show the frame.
FlipTimeout ==
  /\ fr.await # "none"
  /\ FrameLost(eng, Landed, Quiet(inp), Blank)
  /\ screen' = screen \cup Some(fr.seen)
  /\ UNCHANGED <<reg, gre, inp, outs, env>>

\* drm_session_event: the VT was switched away.
PauseSession ==
  /\ fr.active
  /\ fr' = [Landed EXCEPT !.active = FALSE]
  /\ eng' = IF fr.await # "none" THEN FrameFailed(eng) ELSE eng
  /\ screen' = screen \cup Some(fr.seen)
  /\ evt' = <<>>
  /\ UNCHANGED <<reg, gre, inp, outs, acked, env>>

\* The connectors are scanned again on the way back.
ActivateSession ==
  /\ ~fr.active
  /\ fr' = [fr EXCEPT !.active = TRUE, !.redraw = TRUE]
  /\ \/ evt' = <<>> /\ UNCHANGED <<reg, gre, outs>>
     \/ "outputs" \in env /\ OutputsChange
  /\ Clientside

------------------------------------------------------------------------------
(* What the manager asks a transition for (begin_transition).              *)

Shapes ==
  {<<k, Nil, y>> : k \in RevealKinds, y \in Keys} \cup
  {<<k, x, Nil>> : k \in LockFamily \cup {"PowerFade"}, x \in Keys \cup {Nil}} \cup
  {<<"LogoutFade", x, Nil>> : x \in Keys}

\* The manager reveals a session only while no other is in the foreground
\* (try_reveal) and, except after a restart, only one whose Protect was
\* answered; and it fades out only the foreground (request_logout).
Disciplined(sh) ==
  /\ sh[1] \in RevealKinds =>
       eng.base.scene # "session" /\ sh[3] \notin eng.queued \cup eng.flight
  /\ sh[1] = "LogoutFade" => eng.base.key \in {Nil, sh[2]}

Commands ==
  \/ \E s \in Sids, g \in Gens :
       \/ \E ok \in BOOLEAN : /\ ok \/ "refuse" \in env
                             /\ (RegisterSession(s, g, ok) \/ BindHost(s, g, ok))
       \/ "evidence" \in env /\ RequestEvidence(s, g)
       \/ "leave" \in env /\ UnregisterSession(s, g)
       \/ ProtectSession(s, g)
  \/ \E g \in GGens : RegisterGreeter(g) \/ ("greeter" \in env /\ UnregisterGreeter(g))
  \/ \E who \in Owners : SetInputOwner(who)
  \/ GreeterOnly
  \/ \E op \in Ops, sh \in Shapes, quick \in BOOLEAN :
       /\ sh[1] \in env
       /\ "eager" \in env \/ Disciplined(sh)
       /\ BeginTransition(op, sh[1], sh[2], sh[3], quick)
  \/ \E op \in Ops : CancelTransition(op)
  \/ "blank" \in env /\ \E on \in BOOLEAN : SetDpms(on)

Clients ==
  \/ \E s \in Sids :
       \/ \E ok \in BOOLEAN : (ok \/ "refuse" \in env) /\ HostConnects(s, ok)
       \/ \E fits \in BOOLEAN : (fits \/ "badbuffer" \in env) /\ HostCommits(s, fits)
       \/ \E wakes \in BOOLEAN : "refuse" \in env /\ HostDropsSurface(s, wakes)
       \/ "leave" \in env /\ HostDisconnects(s)
  \/ \E g \in GGens : (gre.auth = g \/ "greeter" \in env) /\ GreeterConnects(g)
  \/ "greeter" \in env /\ (GreeterDisconnects \/ GreeterUnmaps \/ ExpirePending)
  \/ GreeterMaps
  \/ Wake

Hardware ==
  \/ "outputs" \in env /\ SetOutputs
  \/ "lossy" \in env /\ FlipTimeout
  \/ "vt" \in env /\ (PauseSession \/ ActivateSession)

FramePump ==
  \/ \E t \in NextProgress(eng.run), outcome \in Outcomes :
       (outcome \in {"Shown", "Queued"} \/ "lossy" \in env) /\ RenderFrame(t, outcome)
  \/ RenderHeld
  \/ FlipsDone

Next == Commands \/ Clients \/ Hardware \/ FramePump
Spec == Init /\ [][Next]_vars

\* The loop renders when a frame is asked for and the VT is ours, the clock of
\* a transition reaches its end, queued flips complete unless the VT is switched
\* away every time, and a VT switched away comes back.
Rendered(t) == \E outcome \in {"Shown", "Queued"} : RenderFrame(t, outcome)
Fairness ==
  /\ SF_vars(\E t \in NextProgress(eng.run) : Rendered(t))
  /\ SF_vars(End \in NextProgress(eng.run) /\ Rendered(End))
  /\ SF_vars(FlipsDone)
  /\ WF_vars(ActivateSession)

------------------------------------------------------------------------------
(* Properties.                                                             *)

\* The variables keep the shapes of the fields of `State' they stand for.
TypeOK ==
  /\ eng \in Engines
  /\ reg \in [Sids -> Recs]
  /\ gre \in Greeters
  /\ inp \in Inputs
  /\ fr \in Frames
  /\ outs \in BOOLEAN
  /\ screen \in SUBSET Keys
  /\ acked \in SUBSET Keys
  /\ env \in Envs

\* A Protected reply is true when it is sent: no output shows a pixel of the
\* session, whatever frames were in flight, failed or only half shown since
\* Protect (engine.rs frame_done and plan, state.rs settle).
AckStep == \A n \in DOMAIN evt' : evt'[n].ev = "Protected" => evt'[n].keys \cap screen' = {}
AckMeansGone == [][AckStep]_vars

\* A session whose protection was acknowledged stays off every output until a
\* reveal lifts the protection: no cancelled, failed or reversed transition
\* and no late frame brings it back (engine.rs session_ok, validate, cancel).
AckedStaysHidden == acked \cap screen = {} /\ acked \cap Some(fr.seen) = {}

\* Physical input reaches a session only while it is the committed foreground,
\* unprotected, of the registered generation, and no other session is still
\* visible on an output (input.rs owner_allowed, reconcile_input).
InputFollowsScene ==
  inp.owner \in Sids =>
    /\ reg[inp.owner].gen # Nil
    /\ ForegroundSession(eng) = KeyOf(reg, inp.owner)
    /\ screen \subseteq {KeyOf(reg, inp.owner)}

\* A committed power fade holds an opaque cover: as long as it is held, the
\* scene is the cover and no session is visible (engine.rs commit, Held).
HeldCoverHolds == eng.held.op # Nil => eng.base = Cover /\ screen = {}

\* No wake-up is lost: as long as a protection is owed its frame or a
\* transition is under way, a frame is asked for or on its way to the outputs,
\* or the VT is switched away (state.rs complete_frame, settle).  Displays that are
\* off are left out: the cover frame that goes before switching them off clears
\* needs_redraw and frame_shown does not ask again, so what was owed then waits for
\* the next command or client (state.rs:799, 851).
OwedFrameIsAskedFor ==
  HasQueuedProtect(eng) \/ Running(eng) =>
    fr.redraw \/ fr.await # "none" \/ ~fr.active \/ ~fr.dpms

\* Pixels of a session that left the scene do not stay on an output for good:
\* a session that is visible but is neither the base scene nor part of the
\* transition under way is about to be painted over (broker.rs client_gone and
\* unregister_session, commands.rs, gfx_drm.rs drm_session_event).
StalePixelsArePainted ==
  screen \subseteq {eng.base.key, eng.run.source, eng.run.target, eng.run.snapshot.key}
    \/ fr.redraw \/ fr.await # "none" \/ ~fr.active

\* A foreground session whose every output is proven is in the last planned
\* frame, or a frame is asked for (host.rs host_surface_commit's decision not to
\* wake the renderer, broker.rs promote_host, state.rs set_outputs).  Displays
\* that are off are left out, as above, and buffers of the wrong size: a host that
\* commits one and then a right one is proven all along, so the second commit
\* wakes nobody (host.rs:297).
PresentableIsShown ==
  LET k == ForegroundSession(eng)
  IN  (~Running(eng) /\ k # Nil /\ k \in Presentable(reg, outs) /\ "badbuffer" \notin env) =>
        \/ fr.layer = k \/ fr.redraw \/ fr.await # "none"
        \/ fr.blanking \/ ~fr.dpms \/ ~fr.active

\* Every Protect is answered: a session waiting for its frame is acknowledged,
\* or no longer protected, also when frames in flight are dropped by VT switches
\* (engine.rs protect, plan, frame_failed, frame_done).
ProtectIsAnswered ==
  \A k \in Keys : k \in eng.queued \cup eng.flight ~> k \in acked \/ k \notin eng.prot

\* Every transition ends, by itself if nobody cancels it (engine.rs frame_done,
\* commit; the manager's Transition timer relies on it only as a last resort).
TransitionEnds == Running(eng) ~> ~Running(eng)
====
