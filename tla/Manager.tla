------------------------------- MODULE Manager -------------------------------
(***************************************************************************)
(* The session manager as a process: every input of `Manager::handle'      *)
(* (core/types.rs, enum Input) is an action, followed in the same step by  *)
(* `settle'.  The compositor, the helper, the greeter, the callers on      *)
(* D-Bus, polkit and logind are the environment; they answer in any order, *)
(* late or never, and the timers of the runtime may expire at any time.    *)
(***************************************************************************)
EXTENDS ManagerCore

CONSTANT Envs   \* the environments, each a set of the choices below

\* What an environment does besides the core protocol.  A kind of operation: it is
\* asked for; "crash": sessions fail to start or die; "greeter": the greeter comes and goes;
\* "helper": the helper connection is lost; "outputs": outputs and surfaces change;
\* "recovered": bsm restarted while sessions ran; "sleep": logind announces sleep;
\* "prompts": PAM asks for answers; "root": root acts on any session; "select": the
\* greeter selects accounts; "cancel": operations are cancelled; "late": a timer
\* that fired is delivered after other inputs; "input": the compositor reports
\* input owners of its own accord.
EnvChoices == {"crash", "greeter", "helper", "outputs", "recovered", "sleep", "prompts", "root",
               "select", "cancel", "late", "input"}
ASSUME ManagerEnvAssumption == Envs \subseteq SUBSET (EnvChoices \cup OpKinds)

VARIABLES
  m,        \* the manager
  fx,       \* the effects of the last input
  granted,  \* the account whose authentication the current operation rests on;
            \* the code has no such variable
  env       \* the environment this behaviour has; it never changes
vars == <<m, fx, granted, env>>

\* Manager::handle: the handler of one input, then settle.
Handle(x) ==
  LET y == Settle(x)
  IN  /\ m' = [y EXCEPT !.fx = <<>>]
      /\ fx' = y.fx
      /\ UNCHANGED env
Authorised(x) == x.op.kind = "Reveal" /\ x.op.ts # "WaitingForAuth"
Input(x) == Handle(x) /\ granted' = IF Authorised(m') THEN granted ELSE Nil

\* A restart finds the sessions that survived it, one for an account.
Init ==
  /\ env \in Envs
  /\ \E rec \in [Sids -> Uids \cup {Nil}] :
    /\ \A s, t \in Sids : rec[s] = rec[t] /\ rec[s] # Nil => s = t
    /\ (\E s \in Sids : rec[s] # Nil) => "recovered" \in env
    /\ m = NewManager(rec)
    /\ fx = <<>>
    /\ granted = Nil

------------------------------------------------------------------------------
(* Start, outputs and the greeter process.                                 *)

Accounts ==
  /\ m.users = {}
  /\ \E u \in Uids : Input(OnAccounts(m, Uids, u))

Ready ==
  /\ ~m.ready
  /\ \E any \in BOOLEAN :
       /\ any \/ "outputs" \in env
       /\ Input(OnReady(m, any, [s \in Sids |-> "none"]))

OutputsChange ==
  /\ "outputs" \in env /\ m.ready
  /\ \E any \in BOOLEAN, adv \in SUBSET Sids, ev \in [Sids -> Evidence] :
       /\ any \/ m.outs
       /\ Input(OnOutputsChanged(m, any, adv, ev))

HelperUp == ~m.helper /\ Input(HelperConnected(m))
HelperDown == "helper" \in env /\ m.helper /\ Input(HelperLost(m))

GreeterSpawned ==
  /\ m.gre.gen # Nil /\ ~m.gre.pid
  /\ Input(Push([m EXCEPT !.gre.pid = TRUE], <<"RegisterGreeter", m.gre.gen>>))
GreeterConnected ==
  /\ m.gre.gen # Nil /\ ~m.gre.wl
  /\ Input(TryReveal([m EXCEPT !.gre.wl = TRUE, !.gre.pid = TRUE]))
GreeterPeer ==
  /\ m.gre.pid /\ m.gre.gen # Nil /\ m.gre.ctl = "none"
  /\ Input([m EXCEPT !.gre.ctl = "peer"])
Hello ==
  /\ m.gre.ctl # "none"
  /\ \E good \in BOOLEAN :
       /\ good \/ "greeter" \in env
       /\ Input([m EXCEPT !.gre.ctl = IF good THEN "hello" ELSE "none"])
GreeterDisconnected ==
  /\ "greeter" \in env /\ m.gre.ctl # "none"
  /\ Input(FailChallenge([m EXCEPT !.gre.ctl = "none"]))

\* GreeterGone (its Wayland connection closed) and GreeterExited (its process).
GreeterGone ==
  /\ "greeter" \in env /\ m.gre.gen # Nil
  /\ Input(GreeterLost(m))

------------------------------------------------------------------------------
(* Messages of the greeter.                                                *)

AtGreeter == m.gre.ctl = "hello"
Select ==
  /\ "select" \in env /\ (AtGreeter \/ "root" \in env)
  /\ \E u \in Uids : Input(SelectUser(m, u))
BeginAuthentication ==
  /\ AtGreeter /\ "Reveal" \in env
  /\ \E u \in Uids, intent \in {"Login", "Unlock"} : Input(BeginAuth(m, u, intent))
Respond == AtGreeter /\ "prompts" \in env /\ Input(AuthResponse(m))
CancelAuth == AtGreeter /\ "cancel" \in env /\ Input(FailChallenge(m))
GreeterPower ==
  /\ AtGreeter /\ GreeterAuthoritative(m)
  /\ \E kind \in Power \cap env : GreeterMayPower(m, kind) /\ Input(RequestPower(m, "Greeter", kind))

------------------------------------------------------------------------------
(* The helper.                                                             *)

AuthPrompt ==
  /\ "prompts" \in env /\ InConversation(m)
  /\ \E await \in BOOLEAN : Input([m EXCEPT !.chal.await = await])
AuthFails == InConversation(m) /\ Input(AuthDone(m, FALSE, Nil))
AuthSucceeds ==
  /\ InConversation(m)
  /\ \E s \in Fresh(m) \cup {Nil} :
       /\ (m.chal.plan = Nil) = (s # Nil)
       /\ Handle(AuthDone(m, TRUE, s))
       /\ granted' = IF Authorised(m') THEN m.chal.uid ELSE Nil
CooldownEnds == \E u \in Uids : m.fails[u] > 0 /\ Input([m EXCEPT !.fails[u] = 0])

Exists(s) == ~IsIn(m, s, {"none"})
SocketReady(s) == Exists(s) /\ Input(OnSocketReady(m, s))
SessionOpened(s) ==
  \E valid \in BOOLEAN : (valid \/ "crash" \in env) /\ Exists(s) /\ Input(OnSessionOpened(m, s, valid))
SessionFailed(s) ==
  "crash" \in env /\ IsIn(m, s, Launching \ {"Creating"}) /\ Input(FailLaunch(m, s))
SessionExited(s) ==
  /\ Exists(s) /\ ("crash" \in env \/ IsIn(m, s, Closing))
  /\ Input(OnSessionExited(m, s))

------------------------------------------------------------------------------
(* The compositor.                                                         *)

SessionConnected(s) == Exists(s) /\ Input(OnSessionConnected(m, s))
LaunchAdvances(s) == MayAdvance(m, s) /\ Input(AdvanceLaunch(m, s))
Surfaces(s) ==
  /\ IsIn(m, s, Running \ Launching)
  /\ \E ev \in IF "outputs" \in env THEN Evidence ELSE {"fresh"} : Input(OnSurfaces(m, s, ev))
SessionGone(s) == "crash" \in env /\ Exists(s) /\ Input(OnSessionGone(m, s))
Protected(s) == Exists(s) /\ Input(OnProtected(m, s))

InputOwnerChanged ==
  "input" \in env /\ \E who \in Owners : Input(OnInputOwner(m, who))

\* What the compositor reports on the transition it was told to run.  Cancelled
\* and Failed come only before the commit, except that a power fade which logind
\* refused is taken back after it.
Phase ==
  /\ Active(m) /\ m.op.began
  /\ \E phase \in {"Prepared", "Animating", "Committed", "Completed", "Failed", "Cancelled"} :
       /\ m.op.comm => phase = "Completed" \/ (phase = "Cancelled" /\ m.op.creq)
       /\ Input(TransitionPhase(m, m.op.id, phase))

------------------------------------------------------------------------------
(* Requests over D-Bus, polkit and logind.                                 *)

\* A hosted session is known by its scope, which it has once PAM opened it.
Callers == {s \in Sids : IsIn(m, s, Running \ {"Creating", "PamOpening"})}
Acting(s) == (IF s \in Callers THEN {s} ELSE {}) \cup (IF "root" \in env THEN {"Root"} ELSE {})
LockRequest(s) ==
  \E req \in Acting(s), kind \in {"Lock", "SwitchUser"} \cap env : Input(RequestLock(m, req, s, kind))
LogoutRequest(s) ==
  \E req \in Acting(s) : "Logout" \in env /\ Input(RequestLogout(m, req, s))
PowerRequest ==
  \E kind \in Power \cap env, req \in Callers \cup (IF "root" \in env THEN {"Root"} ELSE {}) :
    Input(RequestPower(m, req, kind))
Cancel ==
  "cancel" \in env /\ \E who \in Requesters : Input(CancelOperation(m, who))

Polkit ==
  /\ m.op.kind \in Power /\ ~m.op.polkit
  /\ \E ok \in BOOLEAN : Input(IF ok THEN PowerChecksDone([m EXCEPT !.op.polkit = TRUE]) ELSE OpFinish(m))
Inhibitors ==
  /\ m.op.kind \in Power /\ ~m.op.inh
  /\ \E free \in BOOLEAN : Input(IF free THEN PowerChecksDone([m EXCEPT !.op.inh = TRUE]) ELSE OpFinish(m))
LogindAnswers == \E ok \in BOOLEAN : Active(m) /\ Input(PowerResult(m, ok))
Sleep == "sleep" \in env /\ \E start \in BOOLEAN : Input(OnPrepareForSleep(m, start))

------------------------------------------------------------------------------
(* Timers: the driver pushes those that are due behind the inputs that are *)
(* queued already, so a timer may be delivered after it was cancelled.     *)

Fire == "late" \in env /\ \E t \in m.timers : m' = [m EXCEPT !.timers = @ \ {t}, !.due = @ \cup {t}]
                                             /\ UNCHANGED <<fx, granted, env>>
Timeout(t) == t \in m.timers /\ Input(OnTimer([m EXCEPT !.timers = @ \ {t}], t))
LateTimeout(t) == t \in m.due /\ Input(OnTimer([m EXCEPT !.due = @ \ {t}], t))

OfOneSession(s) ==
  \/ SocketReady(s) \/ SessionOpened(s) \/ SessionFailed(s) \/ SessionExited(s)
  \/ SessionConnected(s) \/ LaunchAdvances(s) \/ Surfaces(s) \/ SessionGone(s) \/ Protected(s)
  \/ LockRequest(s) \/ LogoutRequest(s)

Next ==
  \/ Accounts \/ Ready \/ OutputsChange \/ HelperUp \/ HelperDown
  \/ GreeterSpawned \/ GreeterConnected \/ GreeterPeer \/ Hello \/ GreeterDisconnected \/ GreeterGone
  \/ Select \/ BeginAuthentication \/ Respond \/ CancelAuth \/ GreeterPower
  \/ AuthPrompt \/ AuthFails \/ AuthSucceeds \/ CooldownEnds
  \/ \E s \in Sids : OfOneSession(s)
  \/ InputOwnerChanged \/ Phase \/ PowerRequest \/ Cancel \/ Polkit \/ Inhibitors \/ LogindAnswers \/ Sleep
  \/ Fire \/ \E t \in Timers : Timeout(t) \/ LateTimeout(t)

Spec == Init /\ [][Next]_vars

\* The driver sleeps until the next deadline and then delivers what is due, so a
\* timer that stays armed expires.  Nobody else is assumed to do anything.
LiveSpec == Spec /\ \A t \in Timers : WF_vars(Timeout(t))

------------------------------------------------------------------------------
(* Properties.                                                             *)

\* The manager's record keeps its shape: every field stays within its type, whatever
\* inputs arrive in whatever order.
TypeOK ==
  /\ m.users \subseteq Uids /\ m.sess \in [Sids -> Sessions] /\ m.sel \in Uids \cup {Nil}
  /\ m.fg \in Sids \cup {Nil} /\ m.prot \subseteq Sids /\ m.chal \in Challenges /\ m.owner \in Owners
  /\ m.op \in Operations /\ m.next \in Ops /\ m.bg \subseteq Sids /\ m.gre \in Greeters
  /\ {m.ready, m.outs, m.helper, m.shutting, m.down, m.prep} \subseteq BOOLEAN
  /\ m.fails \in [Uids -> 0..MaxFailures] /\ m.sleep \subseteq Sids
  /\ m.timers \subseteq Timers /\ m.due \subseteq Timers /\ m.fx = <<>>
  /\ granted \in Uids \cup {Nil} /\ env \in Envs

\* check_invariants, which debug builds assert after every input: only the one
\* foreground session may own the input, locked sessions are protected and the
\* foreground one is not, an account runs one session, and a conversation is for
\* the selected account and belongs to the operation.
CheckInvariants ==
  /\ m.owner \in Sids => m.fg = m.owner /\ IsIn(m, m.owner, {"Foreground"})
  /\ \A s, t \in Among(m, {"Foreground"}) : s = t
  /\ Among(m, Locked) \subseteq m.prot
  /\ Among(m, {"Foreground"}) \cap m.prot = {}
  /\ \A s, t \in Among(m, Running) : m.sess[s].uid = m.sess[t].uid => s = t
  /\ m.fg # Nil => IsIn(m, m.fg, Running)
  /\ InConversation(m) => m.sel = m.chal.uid /\ m.op.id = m.chal.op

\* A session comes to the foreground only in an operation in which its own account
\* was authenticated: no crash, timeout, cancellation or output change in between
\* lets commit_op show a session that somebody else's password was given for.
RevealStep ==
  \A s \in Sids : IsIn(m', s, {"Foreground"}) /\ ~IsIn(m, s, {"Foreground"}) => granted = m.sess[s].uid
RevealedByOwner == [][RevealStep]_vars

\* logind is asked to suspend only when no desktop is visible or about to be locked
\* (commit_power): whatever happened since the sessions were protected, the machine
\* does not go to sleep with a desktop on screen.
SuspendStep ==
  \E i \in DOMAIN fx' : fx'[i] = <<"SystemPower", "Suspend">>
SuspendsLocked == [][SuspendStep => ~Some(m', Visible)]_vars

\* What the manager waits for is bounded by a timer (types.rs: "never in an endless
\* wait"), and what an operation waits for still exists.  A suspend's wait for its
\* sessions is stated below; a recovered session that lost its bridge again is on no
\* timer (on_session_connected cancelled it) and is left out.
Armed(name, x) == <<name, x>> \in m.timers \cup m.due
OperationIsTimed ==
  \/ ~Active(m)
  \/ m.op.began /\ ~(m.op.comm /\ m.op.kind \in Power) /\ Armed("Transition", Nil)
  \/ m.op.comm /\ m.op.kind \in Power /\ Armed("Power", Nil)
  \/ m.op.ts = "WaitingForAuth" /\ m.op.kind \in Power /\ Armed("Checks", Nil)
  \/ m.op.ts = "WaitingForAuth" /\ m.chal.op = m.op.id /\ Armed("Auth", Nil)
  \/ Waiting(m) /\ (IsIn(m, m.op.sess, Launching) \/ (IsIn(m, m.op.sess, Revealable) /\ Armed("Frames", Nil)))
  \/ m.op.kind \in {"Lock", "SwitchUser"} /\ m.op.wait = {m.op.sess} /\ IsIn(m, m.op.sess, {"LockRequested"})
  \/ m.op.kind = "Suspend" /\ m.op.wait # {}
\* The greeter always comes back: with the helper and the compositor there, either a
\* greeter was asked for or the respawn timer runs (greeter_lost, on_helper_connected).
GreeterComesBack ==
  m.helper /\ m.ready /\ m.gre.gen = Nil => m.gre.respawn /\ Armed("GreeterRespawn", Nil)
WaitsAreTimed ==
  /\ \A s \in Among(m, Launching) : Armed("Stage", s)
  /\ \A s \in Among(m, {"LockRequested"}) : Armed("Protect", s)
  /\ \A s \in Among(m, Closing) : Armed("Close", s)
  /\ m.prep => Armed("Sleep", Nil)
  /\ OperationIsTimed
  /\ GreeterComesBack

\* A suspend waits only for sessions that are being locked, each with a timer of its
\* own (power_checks_done, types.rs: "never in an endless wait").
SuspendWaitEnds == ~m.op.began => \A s \in m.op.wait : IsIn(m, s, {"LockRequested"})

\* A session that is launching belongs to the login in progress: when the operation
\* ends or is cancelled, op_finish's callers have closed the half-started session,
\* so no session is left starting that nobody waits for.
NoOrphanLaunch ==
  \A s \in Among(m, Launching) : m.op.kind = "Reveal" /\ m.op.newl /\ m.op.sess = s /\ ~m.op.began

\* At rest the input is where the screen is: after an input that leaves no operation
\* running, a foreground session owns the input, and otherwise the connected greeter
\* does, however the last operation ended (transition_failed, cleanup, settle).  The
\* exception is the very input that ends a power operation: settle then still looks at
\* the seat state before it, and only the next input puts it right.  Claimed while no
\* host crashes and the compositor does not move the owner by itself: those are put
\* right by the report that follows.
Placed(x) ==
  /\ \A s \in Among(x, {"Foreground"}) : x.owner = s
  /\ x.gre.wl /\ ~Some(x, Visible) => x.owner = "Greeter"
EndsPower == m.op.kind \in Power
InputAtRest ==
  [][~Active(m') /\ ~m'.shutting /\ ~EndsPower /\ ~Fire /\ env \cap {"crash", "input"} = {}
       => Placed(m')]_vars

\* The delay lock on sleep is released only with every desktop hidden or asked to be:
\* whatever operation was running when logind announced sleep, none is left, or comes,
\* in the foreground (on_prepare_for_sleep, finish_sleep_prep).
SleepStep == \E i \in DOMAIN fx' : fx'[i] = <<"SleepReady">>
SleepsHidden == [][SleepStep => ~Some(m', {"Foreground"})]_vars

\* Every operation ends: the compositor, the helper, polkit and logind may never answer,
\* because a timer bounds each of its phases.
OperationEnds == \A id \in Ops : m.op.id = id ~> m.op.id # id

==============================================================================
