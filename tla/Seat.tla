-------------------------------- MODULE Seat ---------------------------------
(***************************************************************************)
(* The bsm process (bsm/core/src/run.rs): the session manager on the       *)
(* driver's thread and the compositor on the main thread, joined by two    *)
(* channels.  The manager's scene commands and the compositor's events     *)
(* cross, so each side acts on what the other was a while ago.             *)
(*                                                                         *)
(* Manager and Compositor are instantiated as they are; only their free    *)
(* choices of what the other one does are replaced by the channels.  A     *)
(* session id of the manager stands for one generation, Gen.               *)
(***************************************************************************)
EXTENDS Integers, Sequences, FiniteSets, SequencesExt

CONSTANTS
  Nil, Sids, Uids, Ops, GGens, MaxFailures, MaxFrameFailures,
  Envs,      \* the environments: [manager, compositor, timers]
  Backlog    \* a bound: nobody outside acts while more messages are on their way

Gen == 1
Gens == {Gen}

VARIABLES
  m, fx, granted, menv,                                       \* Manager
  eng, reg, gre, inp, fr, outs, screen, acked, evt, cenv,     \* Compositor
  cmds,      \* the channel of scene commands
  evs,       \* the channel of scene events
  slow       \* the timers that may expire in this behaviour; never changes

manager == <<m, fx, granted, menv>>
compositor == <<eng, reg, gre, inp, fr, outs, screen, acked, evt, cenv>>
vars == <<manager, compositor, cmds, evs, slow>>

M == INSTANCE Manager WITH env <- menv, Envs <- {e.manager : e \in Envs}
C == INSTANCE Compositor WITH env <- cenv, Envs <- {e.compositor : e \in Envs}

ASSUME SeatAssumption ==
  /\ Backlog \in Nat
  /\ \A e \in Envs : /\ e.manager \subseteq M!EnvChoices \cup M!OpKinds
                     /\ e.compositor \subseteq C!EnvChoices
                     /\ e.timers \subseteq M!SessionTimers \cup M!OpTimers \cup {"Auth", "Sleep", "GreeterRespawn"}

\* The compositor announces itself with its outputs (state.rs run); the manager
\* registers the sessions it recovered (recover_session).
Init ==
  \E e \in Envs :
    /\ M!Init /\ menv = e.manager
    /\ C!Init /\ cenv = e.compositor
    /\ slow = e.timers
    /\ cmds = SetToSeq({<<"RegisterSession", s>> : s \in M!Among(m, M!Running)})
    /\ evs = <<[ev |-> "Ready"]>>

------------------------------------------------------------------------------
(* The channels.                                                           *)

SceneCommands ==
  {"RegisterSession", "BindHost", "RequestEvidence", "UnregisterSession", "Protect", "SetInputOwner",
   "ShowGreeterOnly", "BeginTransition", "CancelTransition", "RegisterGreeter", "SetDpms"}
\* Mutants: one command is not for the compositor.
IsScene_NoGreeterOnly(effect) == effect[1] \in SceneCommands \ {"ShowGreeterOnly"}
IsScene_NoProtect(effect) == effect[1] \in SceneCommands \ {"Protect"}
IsScene(effect) == effect[1] \in SceneCommands

\* Driver::exec: the scene commands among the effects go to the compositor, in order.
Sends == cmds' = cmds \o SelectSeq(fx', IsScene)

\* State::emit.  A frame acknowledges its protected sessions one by one.
OneByOne(e) ==
  IF e.ev # "Protected" THEN <<e>>
  ELSE [i \in 1..Cardinality(e.keys) |-> [ev |-> "Protected", key |-> SetToSeq(e.keys)[i]]]
\* Mutant: a later event overtakes.
Emits_Overtaking == evs' = FlattenSeq([i \in DOMAIN evt' |-> OneByOne(evt'[i])]) \o evs
Emits == evs' = evs \o FlattenSeq([i \in DOMAIN evt' |-> OneByOne(evt'[i])])

\* Operation ids are never used again; here, not while somebody still speaks of one.
OpMentioned(id) ==
  \/ id \in {eng.run.op, eng.held.op}
  \/ \E i \in DOMAIN cmds : cmds[i][1] \in {"BeginTransition", "CancelTransition"} /\ cmds[i][2] = id
  \/ \E i \in DOMAIN evs : evs[i].ev = "TransitionPhase" /\ evs[i].op = id
GreeterMentioned(g) ==
  \/ g \in {gre.auth, gre.conn} \cup gre.pend
  \/ \E i \in DOMAIN cmds : cmds[i] = <<"RegisterGreeter", g>>
  \/ \E i \in DOMAIN evs : evs[i].ev \in {"GreeterConnected", "GreeterGone"} /\ evs[i].gen = g
FreshIds ==
  /\ m'.op.id \in {Nil, m.op.id} \/ ~OpMentioned(m'.op.id)
  /\ m'.gre.gen \in {Nil, m.gre.gen} \/ ~GreeterMentioned(m'.gre.gen)

Key(s) == IF s = Nil THEN Nil ELSE <<s, Gen>>
Room == Len(cmds) + Len(evs) <= Backlog
ByManager == UNCHANGED <<compositor, slow>>
ByCompositor == UNCHANGED <<manager, slow>>

------------------------------------------------------------------------------
(* Manager::on_scene: the next event reaches the manager.                  *)

\* The evidence for the next stage of a launch may be complete with this report;
\* the last stage needs frames newer than the report of the desktop.
Advances(s, proof) ==
  \/ M!Input(m)
  \/ /\ M!MayAdvance(m, s)
     /\ m.sess[s].st = "OutputReady" => proof
     /\ M!Input(M!AdvanceLaunch(m, s))

OnSurfaces(s, proven) ==
  IF M!IsIn(m, s, M!Launching) THEN Advances(s, proven)
  ELSE M!Input(M!OnSurfaces(m, s, IF proven THEN "fresh" ELSE "none"))

\* What the surfaces cover after a change of the outputs; new: with frames that count.
Evidence(proven, new) ==
  [s \in Sids |-> IF Key(s) \notin proven THEN "none"
                  ELSE IF s \in new \/ m.sess[s].ev = "fresh" THEN "fresh" ELSE "old"]

\* An event about a greeter that was replaced changes nothing.  Mutant: any generation
\* will do.
IsCurrent_Any(gen) == m.gre.gen # Nil
IsCurrent(gen) == m.gre.gen = gen

OnScene(e) ==
  CASE e.ev = "Ready" -> M!Input(M!OnReady(m, TRUE, [s \in Sids |-> "none"]))
    [] e.ev = "OutputsChanged" ->
         \E adv, new \in SUBSET Sids : M!Input(M!OnOutputsChanged(m, e.any, adv, Evidence(e.proven, new)))
    [] e.ev = "GreeterConnected" ->
         M!Input(IF IsCurrent(e.gen)
                 THEN M!TryReveal([m EXCEPT !.gre.wl = TRUE, !.gre.pid = TRUE]) ELSE m)
    [] e.ev = "GreeterGone" -> M!Input(IF IsCurrent(e.gen) THEN M!GreeterLost(m) ELSE m)
    [] e.ev = "SessionSocketReady" -> M!Input(M!OnSocketReady(m, e.key[1]))
    [] e.ev = "SessionConnected" -> M!Input(M!OnSessionConnected(m, e.key[1]))
    [] e.ev = "SessionConnectionRejected" -> M!Input(m)
    [] e.ev = "SessionReport" -> Advances(e.key[1], FALSE)
    [] e.ev = "SessionSurfaces" -> OnSurfaces(e.key[1], e.proven)
    [] e.ev = "SessionGone" -> M!Input(M!OnSessionGone(m, e.key[1]))
    [] e.ev = "Protected" -> M!Input(M!OnProtected(m, e.key[1]))
    [] e.ev = "InputOwnerChanged" -> M!Input(M!OnInputOwner(m, e.owner))
    [] e.ev = "TransitionPhase" -> M!Input(M!TransitionPhase(m, e.op, e.phase))

Receive ==
  /\ evs # <<>>
  /\ OnScene(Head(evs))
  /\ evs' = Tail(evs)
  /\ Sends /\ ByManager

------------------------------------------------------------------------------
(* State::handle_command: the next command reaches the compositor.         *)

HandleCommand(c) ==
  CASE c[1] = "RegisterSession" -> C!RegisterSession(c[2], Gen, TRUE)
    [] c[1] = "BindHost" -> C!BindHost(c[2], Gen, TRUE)
    [] c[1] = "RequestEvidence" -> C!RequestEvidence(c[2], Gen)
    [] c[1] = "UnregisterSession" -> C!UnregisterSession(c[2], Gen)
    [] c[1] = "Protect" -> C!ProtectSession(c[2], Gen)
    [] c[1] = "SetInputOwner" -> C!SetInputOwner(c[2])
    [] c[1] = "ShowGreeterOnly" -> C!GreeterOnly
    [] c[1] = "BeginTransition" -> C!BeginTransition(c[2], c[3], Key(c[4]), Key(c[5]), FALSE)
    [] c[1] = "CancelTransition" -> C!CancelTransition(c[2])
    [] c[1] = "RegisterGreeter" -> C!RegisterGreeter(c[2])
    [] c[1] = "SetDpms" -> C!SetDpms(c[2])

Execute ==
  /\ cmds # <<>>
  /\ HandleCommand(Head(cmds))
  /\ cmds' = Tail(cmds)
  /\ Emits /\ ByCompositor

------------------------------------------------------------------------------
(* Everybody else.                                                         *)

\* A new session has an id and a generation that nobody has heard of.
Mentions(s) ==
  \/ reg[s].gen # Nil \/ Key(s) \in eng.prot \cup eng.queued \cup eng.flight \cup screen
  \/ \E i \in DOMAIN cmds : \E j \in DOMAIN cmds[i] : cmds[i][j] = s
  \/ \E i \in DOMAIN evs : evs[i] # [ev |-> "Ready"] /\ "key" \in DOMAIN evs[i] /\ evs[i].key = Key(s)
LogsIn == M!AuthSucceeds /\ \A s \in Sids : m.sess[s].st = "none" /\ m'.sess[s].st # "none" => ~Mentions(s)

Expires == \E t \in M!Timers : t[1] \in slow /\ (M!Timeout(t) \/ M!LateTimeout(t))

\* The helper, the greeter, D-Bus, polkit, logind and the timers act on the manager.
OnManager ==
  \/ M!Accounts \/ M!HelperUp \/ M!HelperDown \/ M!GreeterSpawned \/ M!GreeterPeer \/ M!Hello
  \/ M!GreeterDisconnected \/ M!GreeterGone \/ M!Select \/ M!BeginAuthentication \/ M!CancelAuth \/ M!GreeterPower
  \/ M!AuthFails \/ LogsIn
  \/ \E s \in Sids : \/ M!SessionOpened(s) \/ M!SessionFailed(s) \/ M!SessionExited(s)
                     \/ M!LockRequest(s) \/ M!LogoutRequest(s)
  \/ M!PowerRequest \/ M!Cancel \/ M!Polkit \/ M!Inhibitors \/ M!LogindAnswers \/ M!Sleep
  \/ Expires
Decide == Room /\ OnManager /\ FreshIds /\ Sends /\ ByManager /\ UNCHANGED evs

\* A report of the session's shell asks for evidence with the next commit (host.rs).
HostReports(s) ==
  /\ reg[s].conn
  /\ reg' = [reg EXCEPT ![s].asked = TRUE]
  /\ evt' = <<[ev |-> "SessionReport", key |-> Key(s)]>>
  /\ UNCHANGED <<eng, gre, inp, fr, outs, screen, acked, cenv>>

\* The host runs once the helper was asked for the session, the greeter once it was
\* asked for; a greeter that was replaced is disconnected (kill_greeter_client).
Hosted(s) == m.sess[s].st \notin {"none", "Creating"}
Replaced == gre.conn # Nil /\ gre.auth \notin {Nil, gre.conn}
\* A monitor is plugged in, or the last one is taken away.
Hotplug == \E any \in BOOLEAN : C!NewOutputs(any, Sids, {}, gre.mapped) /\ C!Redraw /\ C!Clientside
OnCompositor ==
  \/ \E s \in Sids :
       \/ Hosted(s) /\ C!HostConnects(s, TRUE) /\ reg' # reg
       \/ M!IsIn(m, s, M!Launching) /\ HostReports(s)
       \/ C!HostCommits(s, TRUE) /\ reg' # reg
       \/ "leave" \in cenv /\ C!HostDisconnects(s)
  \/ m.gre.gen # Nil /\ C!GreeterConnects(m.gre.gen) /\ gre' # gre
  \/ ("greeter" \in cenv \/ Replaced) /\ C!GreeterDisconnects
  \/ "greeter" \in cenv /\ C!ExpirePending
  \/ C!GreeterMaps /\ gre' # gre
  \/ "outputs" \in cenv /\ Hotplug
  \/ "lossy" \in cenv /\ C!FlipTimeout
Happen == Room /\ OnCompositor /\ Emits /\ ByCompositor /\ UNCHANGED cmds

Paint == C!FramePump /\ Emits /\ ByCompositor /\ UNCHANGED cmds

Next == Receive \/ Execute \/ Decide \/ Happen \/ Paint
Spec == Init /\ [][Next]_vars

------------------------------------------------------------------------------
(* Properties.                                                             *)

\* Nothing is on its way, no operation and no frame is under way, and the machine is not
\* going down.
AtRest ==
  /\ cmds = <<>> /\ evs = <<>> /\ m.ready /\ ~m.shutting
  /\ ~M!Active(m) /\ ~fr.redraw /\ fr.await = "none"

\* The sessions in the foreground for the manager that the compositor can present.
Presented == {s \in M!Among(m, {"Foreground"}) : Key(s) \in C!Presentable(reg, outs)}

\* Whatever crossed before, at rest both agree on who has the input (on_scene
\* InputOwnerChanged: "it never assumes its request was honoured").  While no greeter
\* runs the compositor may still name it; nobody gets the input then.
InputAgrees == AtRest /\ m.gre.wl => inp.owner = m.owner

\* At rest the outputs show the session the manager has in the foreground and no other.
\* After a resume the foreground may be missing: GreeterOrDesktop.
ScreenAgrees ==
  AtRest => /\ screen \subseteq {Key(s) : s \in Presented}
            /\ "sleep" \notin menv => {Key(s) : s \in Presented} \subseteq screen

\* At rest the desktop on screen has the input: the grant that follows a committed reveal
\* is not lost between the two (commit_reveal, request_owner, apply_pending_owner).  It is
\* lost, and not asked for again, when the scene changes between the grant and the next
\* frame: a monitor, the host or a power fade at that moment; those are left out here.
ForegroundHasInput ==
  AtRest /\ {"outputs", "leave", "sleep", "PowerOff"} \cap (menv \cup cenv) = {} =>
    \A s \in Presented : inp.owner = s

\* At rest, with a greeter that can be shown, the seat shows the greeter or a desktop and
\* never the bare cover.  power.rs on a resume: "Hide everything again, then show the
\* greeter"; the Protect sent then may cross the Committed of an unlock.
SomethingIsShown == AtRest /\ m.gre.wl /\ gre.mapped /\ outs => eng.base.scene # "cover"

\* At rest the two sides agree on who has the input and what is on screen, and the
\* desktop that is there can be used.
SidesAgree == InputAgrees /\ ScreenAgrees /\ ForegroundHasInput

\* SomethingIsShown, where the machine does not resume.
GreeterOrDesktop == "sleep" \notin menv => SomethingIsShown

\* A host the compositor accepted is known to the manager, or the event is on its way:
\* also when the host is faster than the answer about its session (on_session_connected).
Told(name, k) == \E i \in DOMAIN evs : evs[i].ev = name /\ "key" \in DOMAIN evs[i] /\ evs[i].key = k
ConnectionIsKnown ==
  \A s \in M!Among(m, M!Running) :
    reg[s].conn => m.sess[s].conn \/ Told("SessionConnected", Key(s))

\* At rest the manager counts on a greeter exactly when the compositor has that greeter
\* connected, whatever greeters were replaced or died meanwhile (accept_greeter,
\* register_greeter, on_scene GreeterConnected and GreeterGone).
GreeterIsKnown ==
  AtRest => (m.gre.wl <=> gre.conn # Nil /\ gre.conn = m.gre.gen)

\* Neither side takes a client for connected, or for gone, when the other knows better.
ConnectionsAreKnown == ConnectionIsKnown /\ GreeterIsKnown

\* Input reaches a session only while the manager has it in the foreground or the command
\* that takes the input away is on its way (begin_protect, revoke_input_of).
InputIsMeant ==
  inp.owner \in Sids =>
    \/ M!IsIn(m, inp.owner, {"Foreground"})
    \/ \E i \in DOMAIN cmds : cmds[i] \in {<<"Protect", inp.owner>>, <<"UnregisterSession", inp.owner>>}

\* A session becomes locked (on_protected: the operation goes on, logind and D-Bus are
\* told) only when its pixels are off every output, although the acknowledgement is as
\* old as the channel is long.  And logind is asked to suspend only while no output
\* shows a desktop (commit_power: "now, and only now").
LocksDark ==
  [][/\ \A s \in M!Among(m, {"LockRequested"}) : m'.sess[s].st \in M!Locked => Key(s) \notin screen
     /\ M!SuspendStep => screen = {}]_vars
==============================================================================
