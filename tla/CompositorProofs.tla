-------------------------- MODULE CompositorProofs ---------------------------
(***************************************************************************)
(* Type correctness of the compositor, for any number of sessions,         *)
(* generations and operations, any failure limit and any environment.  One *)
(* lemma for each routine that computes the new input record and one for   *)
(* each action.                                                            *)
(***************************************************************************)
EXTENDS Compositor, EngineProofs

------------------------------------------------------------------------------
(* Input routing keeps its type, and emits nothing but notes.              *)

KeyNotes == {"SessionSocketReady", "SessionConnected", "SessionConnectionRejected"}
Notes == {OwnerEvent(o) : o \in Owners} \cup {KeyEvent(n, k) : n \in KeyNotes, k \in Keys}
           \cup {GreeterEvent("GreeterConnected", g) : g \in GGens}
Routed == [i : Inputs, ev : Seq(Notes)]

\* An input record that emitted nothing is well typed.
LEMMA QuietType ==
  ASSUME NEW i \in Inputs
  PROVE  Quiet(i) \in Routed
  BY DEF Quiet, Routed

\* Sending a note keeps the input record.
LEMMA TellType ==
  ASSUME NEW x \in Routed, NEW n \in Notes
  PROVE  Tell(x, n) \in Routed /\ Tell(x, n).i = x.i
  <1>1. x.ev \in Seq(Notes)  BY DEF Routed
  <1>2. Append(x.ev, n) \in Seq(Notes)  BY <1>1
  <1>3. Tell(x, n) = [x EXCEPT !.ev = Append(x.ev, n)]  BY DEF Tell
  <1>4. QED  BY <1>2, <1>3 DEF Routed

\* InputOwnerChanged is a note.
LEMMA OwnerEventType == \A o \in Owners : OwnerEvent(o) \in Notes
  BY DEF Notes

\* set_owner_now (input.rs) keeps the type.
LEMMA SetOwnerNowType ==
  ASSUME NEW x \in Routed, NEW who \in Owners
  PROVE  SetOwnerNow(x, who) \in Routed
  <1>1. x.ev \in Seq(Notes)  BY DEF Routed
  <1>2. Append(x.ev, OwnerEvent(who)) \in Seq(Notes)  BY <1>1, OwnerEventType
  <1>3. [owner |-> who, pend |-> Nil, want |-> FALSE, susp |-> Nil] \in Inputs  BY DEF Inputs
  <1>4. QED  BY <1>1, <1>2, <1>3 DEF SetOwnerNow, Routed

\* The fields of an input record have their types.
LEMMA RoutedFields ==
  ASSUME NEW x \in Routed
  PROVE  /\ x.i \in Inputs /\ x.i.owner \in Owners /\ x.i.pend \in Owners \cup {Nil}
         /\ x.i.susp \in Sids \cup {Nil} /\ x.i.want \in BOOLEAN
  BY DEF Routed, Inputs

\* request_owner (input.rs) keeps the type.
LEMMA RequestOwnerType ==
  ASSUME NEW x \in Routed, NEW e, NEW r, NEW o, NEW who \in Owners
  PROVE  RequestOwner(x, e, r, o, who) \in Routed
  <1>1. [x EXCEPT !.i.pend = who, !.i.want = FALSE] \in Routed  BY DEF Routed, Inputs
  <1>2. [x EXCEPT !.i.want = (who = "Greeter")] \in Routed  BY DEF Routed, Inputs
  <1>3. OwnerEvent(x.i.owner) \in Notes  BY RoutedFields, OwnerEventType
  <1>4. Tell([x EXCEPT !.i.want = (who = "Greeter")], OwnerEvent(x.i.owner)) \in Routed
    BY <1>2, <1>3, TellType
  <1>5. QED  BY <1>1, <1>4 DEF RequestOwner

\* apply_pending_owner (input.rs) keeps the type.
LEMMA ApplyPendingOwnerType ==
  ASSUME NEW x \in Routed, NEW e, NEW r, NEW o
  PROVE  ApplyPendingOwner(x, e, r, o) \in Routed
  <1>1. [x EXCEPT !.i.pend = Nil] \in Routed  BY DEF Routed, Inputs
  <1>2. Tell([x EXCEPT !.i.pend = Nil], OwnerEvent(x.i.owner)) \in Routed
    BY <1>1, RoutedFields, OwnerEventType, TellType
  <1>3. x.i.pend # Nil => SetOwnerNow(x, x.i.pend) \in Routed
    BY RoutedFields, SetOwnerNowType
  <1>4. QED  BY <1>2, <1>3 DEF ApplyPendingOwner

\* Taking input from an unregistered session keeps the type.
LEMMA DropOwnerType ==
  ASSUME NEW x \in Routed, NEW s
  PROVE  DropOwner(x, s) \in Routed
  BY SetOwnerNowType DEF DropOwner, Owners

\* revoke_input_of (input.rs) keeps the type.
LEMMA RevokeInputOfType ==
  ASSUME NEW x \in Routed, NEW s
  PROVE  RevokeInputOf(x, s) \in Routed
  <1> DEFINE y == [x EXCEPT !.i.pend = IF @ = s THEN Nil ELSE @,
                            !.i.susp = IF @ = s THEN Nil ELSE @]
  <1>1. y \in Routed  BY DEF Routed, Inputs
  <1>2. SetOwnerNow(y, "None") \in Routed  BY <1>1, SetOwnerNowType DEF Owners
  <1> HIDE DEF y
  <1>3. QED  BY <1>1, <1>2 DEF RevokeInputOf, y

\* reconcile_input (input.rs) keeps the type, whatever the scene.
LEMMA ReconcileInputType ==
  ASSUME NEW x \in Routed, NEW e, NEW r, NEW o
  PROVE  ReconcileInput(x, e, r, o) \in Routed
  <1> DEFINE was == x.i.owner
             lost == SetOwnerNow(x, "None")
             shut == [lost EXCEPT !.i.susp = Suspended(e, r, was), !.i.pend = x.i.pend,
                                  !.i.want = x.i.want /\ was # "Greeter"]
  <1>1. lost \in Routed  BY SetOwnerNowType DEF Owners
  <1>2. Suspended(e, r, was) \in Sids \cup {Nil}  BY DEF Suspended
  <1>3. x.i.pend \in Owners \cup {Nil} /\ x.i.susp \in Sids \cup {Nil}  BY RoutedFields
  <1> HIDE DEF lost, was
  <1>4. shut \in Routed  BY <1>1, <1>2, <1>3 DEF Routed, Inputs
  <1>5. x.i.susp # Nil => SetOwnerNow(x, x.i.susp) \in Routed
    BY <1>3, SetOwnerNowType DEF Owners
  <1>6. SetOwnerNow(x, "Greeter") \in Routed  BY SetOwnerNowType DEF Owners
  <1> HIDE DEF shut
  <1>7. QED  BY <1>4, <1>5, <1>6 DEF ReconcileInput, shut, lost, was

------------------------------------------------------------------------------
(* Every step keeps the types.                                             *)

\* A handled command leaves the engine, the input record and acked typed.
LEMMA HandledType ==
  ASSUME TypeOK, NEW e \in Engines, NEW r, NEW x \in Routed, Handled(e, r, x)
  PROVE  eng' \in Engines /\ inp' \in Inputs /\ acked' \in SUBSET Keys /\ env' \in Envs
  <1>1. ReconcileInput(x, e, r, outs) \in Routed  BY ReconcileInputType
  <1>2. [e EXCEPT !.out = <<>>] \in Engines  BY DrainedType
  <1>3. QED  BY <1>1, <1>2, RoutedFields DEF Handled, TypeOK

\* Asking for a frame keeps the type of the frame pump.
LEMMA RedrawType ==
  ASSUME TypeOK, Redraw
  PROVE  fr' \in Frames
  BY DEF TypeOK, Redraw, Frames

\* An empty registration is one, and a registration has a key.
LEMMA RegFacts ==
  ASSUME TypeOK, NEW s \in Sids
  PROVE  /\ reg[s] \in Recs /\ reg[s].gen \in Gens \cup {Nil}
         /\ reg[s].gen # Nil => KeyOf(reg, s) \in Keys
         /\ Dropped(reg, s) \in [Sids -> Recs]
  BY DEF TypeOK, Recs, KeyOf, Keys, Dropped, NoRec

\* The three reports about a session connection are notes.
LEMMA KeyNoteType ==
  ASSUME NEW n \in KeyNotes, NEW s \in Sids, NEW g \in Gens
  PROVE  KeyEvent(n, <<s, g>>) \in Notes
  BY DEF Notes, Keys

\* A command that only changes the engine keeps the type.
LEMMA EngineCommandType ==
  ASSUME TypeOK, NEW e \in Engines, EngineCommand(e)
  PROVE  TypeOK'
  <1>1. Quiet(inp) \in Routed  BY QuietType DEF TypeOK
  <1>2. eng' \in Engines /\ inp' \in Inputs /\ acked' \in SUBSET Keys /\ env' \in Envs
    BY <1>1, HandledType DEF EngineCommand
  <1>3. fr' \in Frames  BY RedrawType DEF EngineCommand
  <1>4. QED  BY <1>2, <1>3 DEF EngineCommand, TypeOK

\* RegisterSession keeps the type, also when it replaces an older generation.
LEMMA RegisterSessionType ==
  ASSUME TypeOK, NEW s \in Sids, NEW g \in Gens, NEW ok \in BOOLEAN, RegisterSession(s, g, ok)
  PROVE  TypeOK'
  <1> DEFINE stale == reg[s].gen \notin {Nil, g}
             r == IF stale THEN Dropped(reg, s) ELSE reg
             e == IF stale THEN UnregisterKey(eng, KeyOf(reg, s)) ELSE eng
             x == IF stale THEN DropOwner(Quiet(inp), s) ELSE Quiet(inp)
             made == [r EXCEPT ![s] = [NoRec EXCEPT !.gen = g]]
  <1>1. e \in Engines  BY UnregisterKeyType DEF TypeOK
  <1>2. x \in Routed  BY QuietType, DropOwnerType DEF TypeOK
  <1>3. r \in [Sids -> Recs]  BY RegFacts DEF TypeOK
  <1>4. made \in [Sids -> Recs]  BY <1>3 DEF NoRec, Recs
  <1>5. \A n \in KeyNotes : Tell(x, KeyEvent(n, <<s, g>>)) \in Routed
    BY <1>2, KeyNoteType, TellType
  <1> HIDE DEF stale, r, e, x, made
  <1>6. /\ reg' \in [Sids -> Recs]
        /\ \E n \in KeyNotes : Handled(e, reg', Tell(x, KeyEvent(n, <<s, g>>)))
    BY <1>3, <1>4 DEF RegisterSession, KeyNotes, TypeOK, stale, r, e, x, made
  <1>7. eng' \in Engines /\ inp' \in Inputs /\ acked' \in SUBSET Keys /\ env' \in Envs
    BY <1>1, <1>5, <1>6, HandledType
  <1>8. fr' \in Frames /\ UNCHANGED <<gre, outs, screen>>  BY RedrawType DEF RegisterSession
  <1>9. QED  BY <1>6, <1>7, <1>8 DEF TypeOK

\* BindHost keeps the type.
LEMMA BindHostType ==
  ASSUME TypeOK, NEW s \in Sids, NEW g \in Gens, NEW ok \in BOOLEAN, BindHost(s, g, ok)
  PROVE  TypeOK'
  <1> DEFINE promoted == reg[s].pend /\ ok
             bound == [reg EXCEPT ![s].bound = TRUE, ![s].pend = FALSE, ![s].conn = promoted]
             note == IF ok THEN "SessionConnected" ELSE "SessionConnectionRejected"
             told == IF ~reg[s].pend THEN Quiet(inp) ELSE Tell(Quiet(inp), KeyEvent(note, <<s, g>>))
  <1>1. Quiet(inp) \in Routed  BY QuietType DEF TypeOK
  <1>2. note \in KeyNotes  BY DEF KeyNotes
  <1> HIDE DEF note
  <1>3. told \in Routed  BY <1>1, <1>2, KeyNoteType, TellType
  <1>4. promoted \in BOOLEAN  BY DEF TypeOK, Recs
  <1> HIDE DEF promoted
  <1>5. bound \in [Sids -> Recs]
    <2>1. [reg[s] EXCEPT !.bound = TRUE, !.pend = FALSE, !.conn = promoted] \in Recs
      BY <1>4, RegFacts DEF Recs
    <2>2. reg \in [Sids -> Recs]  BY DEF TypeOK
    <2>3. QED  BY <2>1, <2>2
  <1> HIDE DEF told, bound
  <1>6. reg' \in [Sids -> Recs] /\ \E x \in Routed : Handled(eng, reg', x)
    BY <1>1, <1>3, <1>5 DEF BindHost, TypeOK, told, bound, note, promoted
  <1>7. eng' \in Engines /\ inp' \in Inputs /\ acked' \in SUBSET Keys /\ env' \in Envs
    BY <1>6, HandledType DEF TypeOK
  <1>8. fr' \in Frames /\ UNCHANGED <<gre, outs, screen>>  BY RedrawType DEF BindHost
  <1>9. QED  BY <1>6, <1>7, <1>8 DEF TypeOK

\* RequestFreshFrames keeps the type.
LEMMA RequestEvidenceType ==
  ASSUME TypeOK, NEW s \in Sids, NEW g \in Gens, RequestEvidence(s, g)
  PROVE  TypeOK'
  <1>1. Quiet(inp) \in Routed  BY QuietType DEF TypeOK
  <1>2. reg' \in [Sids -> Recs]  BY DEF RequestEvidence, TypeOK, Recs
  <1>3. eng' \in Engines /\ inp' \in Inputs /\ acked' \in SUBSET Keys /\ env' \in Envs
    BY <1>1, HandledType DEF RequestEvidence, TypeOK
  <1>4. fr' \in Frames /\ UNCHANGED <<gre, outs, screen>>  BY RedrawType DEF RequestEvidence
  <1>5. QED  BY <1>2, <1>3, <1>4 DEF TypeOK

\* UnregisterSession keeps the type.
LEMMA UnregisterSessionType ==
  ASSUME TypeOK, NEW s \in Sids, NEW g \in Gens, UnregisterSession(s, g)
  PROVE  TypeOK'
  <1>1. Quiet(inp) \in Routed /\ DropOwner(Quiet(inp), s) \in Routed
    BY QuietType, DropOwnerType DEF TypeOK
  <1>2. UnregisterKey(eng, <<s, g>>) \in Engines  BY UnregisterKeyType DEF TypeOK
  <1>3. /\ reg' \in [Sids -> Recs]
        /\ \E e \in Engines, x \in Routed : Handled(e, reg', x)
    BY <1>1, <1>2, RegFacts DEF UnregisterSession, TypeOK
  <1>4. eng' \in Engines /\ inp' \in Inputs /\ acked' \in SUBSET Keys /\ env' \in Envs
    BY <1>3, HandledType
  <1>5. fr' \in Frames /\ UNCHANGED <<gre, outs, screen>>  BY RedrawType DEF UnregisterSession
  <1>6. QED  BY <1>3, <1>4, <1>5 DEF TypeOK

\* RegisterGreeter keeps the type.
LEMMA RegisterGreeterType ==
  ASSUME TypeOK, NEW g \in GGens, RegisterGreeter(g)
  PROVE  TypeOK'
  <1>1. Quiet(inp) \in Routed  BY QuietType DEF TypeOK
  <1>2. GreeterEvent("GreeterConnected", g) \in Notes  BY DEF Notes
  <1>3. Tell(Quiet(inp), GreeterEvent("GreeterConnected", g)) \in Routed
    BY <1>1, <1>2, TellType
  <1>4. gre' \in Greeters  BY DEF RegisterGreeter, TypeOK, Greeters
  <1>5. \E x \in Routed : Handled(eng, reg, x)  BY <1>1, <1>3 DEF RegisterGreeter
  <1>6. eng' \in Engines /\ inp' \in Inputs /\ acked' \in SUBSET Keys /\ env' \in Envs
    BY <1>5, HandledType DEF TypeOK
  <1>7. fr' \in Frames /\ UNCHANGED <<reg, outs, screen>>  BY RedrawType DEF RegisterGreeter
  <1>8. QED  BY <1>4, <1>6, <1>7 DEF TypeOK

\* UnregisterGreeter keeps the type.
LEMMA UnregisterGreeterType ==
  ASSUME TypeOK, NEW g \in GGens, UnregisterGreeter(g)
  PROVE  TypeOK'
  <1>1. Quiet(inp) \in Routed  BY QuietType DEF TypeOK
  <1>2. gre' \in Greeters  BY DEF UnregisterGreeter, TypeOK, Greeters
  <1>3. eng' \in Engines /\ inp' \in Inputs /\ acked' \in SUBSET Keys /\ env' \in Envs
    BY <1>1, HandledType DEF UnregisterGreeter, TypeOK
  <1>4. fr' \in Frames /\ UNCHANGED <<reg, outs, screen>>  BY RedrawType DEF UnregisterGreeter
  <1>5. QED  BY <1>2, <1>3, <1>4 DEF TypeOK

\* Protect keeps the type.
LEMMA ProtectSessionType ==
  ASSUME TypeOK, NEW s \in Sids, NEW g \in Gens, ProtectSession(s, g)
  PROVE  TypeOK'
  <1>1. Quiet(inp) \in Routed /\ RevokeInputOf(Quiet(inp), s) \in Routed
    BY QuietType, RevokeInputOfType DEF TypeOK
  <1>2. <<s, g>> \in Keys  BY DEF Keys
  <1>3. Protect(eng, <<s, g>>) \in Engines  BY <1>2, ProtectType DEF TypeOK
  <1>4. \E e \in Engines, x \in Routed : Handled(e, reg, x)
    BY <1>1, <1>3 DEF ProtectSession, TypeOK
  <1>5. eng' \in Engines /\ inp' \in Inputs /\ acked' \in SUBSET Keys /\ env' \in Envs
    BY <1>4, HandledType
  <1>6. fr' \in Frames /\ UNCHANGED <<reg, gre, outs, screen>>  BY RedrawType DEF ProtectSession
  <1>7. QED  BY <1>5, <1>6 DEF TypeOK

\* SetInputOwner keeps the type.
LEMMA SetInputOwnerType ==
  ASSUME TypeOK, NEW who \in Owners, SetInputOwner(who)
  PROVE  TypeOK'
  <1>1. RequestOwner(Quiet(inp), eng, reg, outs, who) \in Routed
    BY QuietType, RequestOwnerType DEF TypeOK
  <1>2. eng' \in Engines /\ inp' \in Inputs /\ acked' \in SUBSET Keys /\ env' \in Envs
    BY <1>1, HandledType DEF SetInputOwner, TypeOK
  <1>3. fr' \in Frames /\ UNCHANGED <<reg, gre, outs, screen>>  BY RedrawType DEF SetInputOwner
  <1>4. QED  BY <1>2, <1>3 DEF TypeOK

\* SetDpms keeps the type.
LEMMA SetDpmsType ==
  ASSUME TypeOK, NEW on \in BOOLEAN, SetDpms(on)
  PROVE  TypeOK'
  <1>1. Quiet(inp) \in Routed  BY QuietType DEF TypeOK
  <1>2. eng' \in Engines /\ inp' \in Inputs /\ acked' \in SUBSET Keys /\ env' \in Envs
    BY <1>1, HandledType DEF SetDpms, TypeOK
  <1>3. fr' \in Frames  BY DEF SetDpms, TypeOK, Frames
  <1>4. QED  BY <1>2, <1>3 DEF SetDpms, TypeOK

\* What the manager asks a transition for is a kind and two optional sessions.
LEMMA ShapeType ==
  ASSUME NEW sh \in Shapes
  PROVE  sh[1] \in Kinds /\ sh[2] \in Keys \cup {Nil} /\ sh[3] \in Keys \cup {Nil}
  BY DEF Shapes, RevealKinds, LockFamily, Kinds

\* Every command of the manager (handle_command) keeps the type.
LEMMA CommandsType == TypeOK /\ Commands => TypeOK'
  <1> SUFFICES ASSUME TypeOK, Commands PROVE TypeOK'  OBVIOUS
  <1>1. ASSUME NEW s \in Sids, NEW g \in Gens, NEW ok \in BOOLEAN,
               RegisterSession(s, g, ok) \/ BindHost(s, g, ok)
        PROVE  TypeOK'
    BY <1>1, RegisterSessionType, BindHostType
  <1>2. ASSUME NEW s \in Sids, NEW g \in Gens,
               RequestEvidence(s, g) \/ UnregisterSession(s, g) \/ ProtectSession(s, g)
        PROVE  TypeOK'
    BY <1>2, RequestEvidenceType, UnregisterSessionType, ProtectSessionType
  <1>3. ASSUME NEW g \in GGens, RegisterGreeter(g) \/ UnregisterGreeter(g)
        PROVE  TypeOK'
    BY <1>3, RegisterGreeterType, UnregisterGreeterType
  <1>4. ASSUME NEW who \in Owners, SetInputOwner(who) PROVE TypeOK'
    BY <1>4, SetInputOwnerType
  <1>5. CASE GreeterOnly
    BY <1>5, ShowGreeterOnlyType, EngineCommandType DEF GreeterOnly, TypeOK
  <1>6. ASSUME NEW op \in Ops, NEW sh \in Shapes, NEW quick \in BOOLEAN,
               BeginTransition(op, sh[1], sh[2], sh[3], quick)
        PROVE  TypeOK'
    <2>1. Begin(eng, Probe(reg, gre, outs), op, sh[1], sh[2], sh[3], quick) \in Engines
      BY ShapeType, BeginType DEF TypeOK
    <2>2. QED  BY <1>6, <2>1, EngineCommandType DEF BeginTransition
  <1>7. ASSUME NEW op \in Ops, CancelTransition(op) PROVE TypeOK'
    BY <1>7, CancelType, EngineCommandType DEF CancelTransition, TypeOK
  <1>8. ASSUME NEW on \in BOOLEAN, SetDpms(on) PROVE TypeOK'
    BY <1>8, SetDpmsType
  <1>9. QED  BY <1>1, <1>2, <1>3, <1>4, <1>5, <1>6, <1>7, <1>8 DEF Commands

\* Nothing a session host or the greeter does breaks the type.
LEMMA ClientsType == TypeOK /\ Clients => TypeOK'
  <1> SUFFICES ASSUME TypeOK, Clients PROVE TypeOK'  OBVIOUS
  <1>1. ASSUME NEW s \in Sids, NEW ok \in BOOLEAN, HostConnects(s, ok) PROVE TypeOK'
    <2>1. /\ [reg[s] EXCEPT !.pend = TRUE] \in Recs
          /\ [reg[s] EXCEPT !.conn = TRUE, !.pend = FALSE] \in Recs
      BY RegFacts DEF Recs
    <2>2. reg' \in [Sids -> Recs]  BY <1>1, <2>1 DEF HostConnects, TypeOK
    <2>3. QED  BY <1>1, <2>2 DEF HostConnects, Clientside, TypeOK
  <1>2. ASSUME NEW s \in Sids, NEW fits \in BOOLEAN, HostCommits(s, fits) PROVE TypeOK'
    <2> DEFINE report == fits /\ (~reg[s].proven \/ reg[s].asked)
    <2>1. reg[s] \in Recs  BY RegFacts
    <2>2. reg[s].proven \in BOOLEAN /\ reg[s].asked \in BOOLEAN  BY <2>1 DEF Recs
    <2>3. report \in BOOLEAN  BY <2>2
    <2> DEFINE rec == [reg[s] EXCEPT !.valid = fits, !.proven = @ \/ fits, !.asked = @ /\ ~report]
    <2>4. reg' = [reg EXCEPT ![s] = rec]  BY <1>2 DEF HostCommits
    <2> HIDE DEF report
    <2>5. rec \in Recs  BY <2>1, <2>3 DEF Recs
    <2> HIDE DEF rec
    <2>6. reg' \in [Sids -> Recs]  BY <2>4, <2>5 DEF TypeOK
    <2>7. fr' \in Frames  BY <1>2 DEF HostCommits, TypeOK, Frames, WakesRenderer
    <2>8. QED  BY <1>2, <2>6, <2>7 DEF HostCommits, Clientside, TypeOK
  <1>3. ASSUME NEW s \in Sids, NEW wakes \in BOOLEAN, HostDropsSurface(s, wakes) PROVE TypeOK'
    <2>1. [reg[s] EXCEPT !.proven = FALSE, !.valid = FALSE, !.asked = FALSE] \in Recs
      BY RegFacts DEF Recs
    <2>2. reg' \in [Sids -> Recs]  BY <1>3, <2>1 DEF HostDropsSurface, TypeOK
    <2>3. fr' \in Frames  BY <1>3 DEF HostDropsSurface, TypeOK, Frames
    <2>4. QED  BY <1>3, <2>2, <2>3 DEF HostDropsSurface, Clientside, TypeOK
  <1>4. ASSUME NEW s \in Sids, HostDisconnects(s) PROVE TypeOK'
    <2>1. [NoRec EXCEPT !.gen = reg[s].gen, !.bound = TRUE] \in Recs
      BY RegFacts DEF NoRec, Recs
    <2>2. reg' \in [Sids -> Recs]  BY <1>4, <2>1 DEF HostDisconnects, TypeOK
    <2>3. fr' \in Frames  BY <1>4, RedrawType DEF HostDisconnects
    <2>4. QED  BY <1>4, <2>2, <2>3 DEF HostDisconnects, Clientside, TypeOK
  <1>5. ASSUME NEW g \in GGens, GreeterConnects(g) PROVE TypeOK'
    <2>1. gre' \in Greeters  BY <1>5 DEF GreeterConnects, TypeOK, Greeters
    <2>2. fr' \in Frames  BY <1>5, RedrawType DEF GreeterConnects, TypeOK
    <2>3. QED  BY <1>5, <2>1, <2>2 DEF GreeterConnects, Clientside, TypeOK
  <1>6. CASE GreeterDisconnects
    <2>1. gre' \in Greeters  BY <1>6 DEF GreeterDisconnects, TypeOK, Greeters
    <2>2. fr' \in Frames  BY <1>6, RedrawType DEF GreeterDisconnects
    <2>3. QED  BY <1>6, <2>1, <2>2 DEF GreeterDisconnects, Clientside, TypeOK
  <1>7. CASE GreeterUnmaps
    <2>1. gre' \in Greeters  BY <1>7 DEF GreeterUnmaps, TypeOK, Greeters
    <2>2. fr' \in Frames  BY <1>7, RedrawType DEF GreeterUnmaps
    <2>3. QED  BY <1>7, <2>1, <2>2 DEF GreeterUnmaps, Clientside, TypeOK
  <1>8. CASE ExpirePending
    <2>1. gre' \in Greeters  BY <1>8 DEF ExpirePending, TypeOK, Greeters
    <2>2. reg' \in [Sids -> Recs]  BY <1>8 DEF ExpirePending, TypeOK, Recs
    <2>3. QED  BY <1>8, <2>1, <2>2 DEF ExpirePending, Clientside, TypeOK
  <1>9. CASE GreeterMaps
    <2>1. gre' \in Greeters  BY <1>9 DEF GreeterMaps, TypeOK, Greeters
    <2>2. fr' \in Frames  BY <1>9 DEF GreeterMaps, TypeOK, Frames
    <2>3. QED  BY <1>9, <2>1, <2>2 DEF GreeterMaps, Clientside, TypeOK
  <1>10. CASE Wake
    BY <1>10, RedrawType DEF Wake, Clientside, TypeOK
  <1>11. QED  BY <1>1, <1>2, <1>3, <1>4, <1>5, <1>6, <1>7, <1>8, <1>9, <1>10 DEF Clients

\* A change of the outputs (set_outputs) keeps the type.
LEMMA OutputsChangeType ==
  ASSUME TypeOK, OutputsChange
  PROVE  outs' \in BOOLEAN /\ reg' \in [Sids -> Recs] /\ gre' \in Greeters
  <1>1. PICK any \in BOOLEAN, mapped \in BOOLEAN, lost \in SUBSET Sids, gained \in SUBSET Sids :
          NewOutputs(any, lost, gained, mapped)
    BY DEF OutputsChange
  <1>2. outs' \in BOOLEAN /\ gre' \in Greeters  BY <1>1 DEF NewOutputs, TypeOK, Greeters
  <1> DEFINE proof(s) == any /\ reg[s].conn /\ s \notin lost /\ (reg[s].proven \/ s \in gained)
  <1>3. reg' = [s \in Sids |-> [reg[s] EXCEPT !.proven = proof(s),
                                              !.valid = proof(s) /\ (@ \/ s \in gained)]]
    BY <1>1 DEF NewOutputs
  <1>4. \A s \in Sids : reg[s] \in Recs /\ proof(s) \in BOOLEAN  BY RegFacts DEF Recs
  <1> HIDE DEF proof
  <1>5. \A s \in Sids : [reg[s] EXCEPT !.proven = proof(s),
                                       !.valid = proof(s) /\ (@ \/ s \in gained)] \in Recs
    BY <1>4 DEF Recs
  <1>6. QED  BY <1>2, <1>3, <1>5

\* frame_shown keeps the type.
LEMMA FrameShownType ==
  ASSUME TypeOK, NEW e \in Engines, NEW f \in Frames, NEW x, NEW blank,
         NEW seen \in Keys \cup {Nil}, FrameShown(e, f, x, blank, seen)
  PROVE  fr' \in Frames /\ screen' \in SUBSET Keys /\ eng' \in Engines /\ acked' \in SUBSET Keys
  <1>1. FrameDone(e) \in Engines  BY FrameDoneType
  <1>2. ASSUME NEW d \in Engines
        PROVE  [d EXCEPT !.out = <<>>] \in Engines /\ d.prot \in SUBSET Keys
    BY EngineFields, DrainedType
  <1>3. e.flight \in SUBSET Keys  BY EngineFields
  <1>4. 0 \in 0..MaxFrameFailures  BY FailuresAssumption
  <1>5. CASE blank
    <2>1. fr' \in Frames  BY <1>4, <1>5 DEF FrameShown, Frames
    <2>2. screen' \in SUBSET Keys /\ eng' \in Engines  BY <1>5 DEF FrameShown
    <2>3. acked' \in SUBSET Keys  BY <1>2, <1>5 DEF FrameShown, TypeOK
    <2>4. QED  BY <2>1, <2>2, <2>3
  <1>6. CASE ~blank
    <2>1. fr' \in Frames
      BY <1>4, <1>6 DEF FrameShown, Frames, NeedsFrame, Running, HasQueuedProtect
    <2>2. screen' \in SUBSET Keys  BY <1>6 DEF FrameShown, Some, TypeOK
    <2>3. eng' \in Engines  BY <1>1, <1>2, <1>6 DEF FrameShown
    <2>4. acked' \in SUBSET Keys  BY <1>1, <1>2, <1>3, <1>6 DEF FrameShown, TypeOK
    <2>5. QED  BY <2>1, <2>2, <2>3, <2>4
  <1>7. QED  BY <1>5, <1>6

\* frame_failed of the frame pump keeps the type: the failure count stays within its limit.
LEMMA FrameLostType ==
  ASSUME TypeOK, NEW e \in Engines, NEW f \in Frames, NEW x, NEW blank, FrameLost(e, f, x, blank)
  PROVE  fr' \in Frames /\ eng' \in Engines /\ acked' \in SUBSET Keys
  <1> DEFINE fails == IF f.fails < MaxFrameFailures THEN f.fails + 1 ELSE f.fails
             back == IF blank THEN e ELSE FrameFailed(e)
             giveUp == ~blank /\ fails = MaxFrameFailures
             done == IF giveUp THEN AbortTransition(back) ELSE back
  <1>1. back \in Engines  BY FrameFailedType
  <1> HIDE DEF back
  <1>2. done \in Engines  BY <1>1, AbortTransitionType
  <1>3. f.fails \in 0..MaxFrameFailures  BY DEF Frames
  <1>4. fails \in 0..MaxFrameFailures  BY <1>3, FailuresAssumption
  <1>5. ASSUME NEW d \in Engines PROVE [d EXCEPT !.out = <<>>] \in Engines  BY DrainedType
  <1> HIDE DEF fails, giveUp, done
  <1>6. fr' = [f EXCEPT !.fails = fails, !.redraw = TRUE]  BY DEF FrameLost, fails
  <1>7. eng' = (IF giveUp THEN [done EXCEPT !.out = <<>>] ELSE done) /\ acked' = acked \cap done.prot
    BY DEF FrameLost, fails, back, giveUp, done
  <1>8. fr' \in Frames  BY <1>4, <1>6 DEF Frames
  <1>9. QED  BY <1>2, <1>5, <1>7, <1>8 DEF TypeOK

\* Whatever becomes of a submitted frame (settle), the type is kept.
LEMMA SettleFrameType ==
  ASSUME TypeOK, NEW e \in Engines, NEW f \in Frames, NEW x \in Routed, NEW blank \in BOOLEAN,
         NEW seen \in Keys \cup {Nil}, NEW outcome, SettleFrame(e, f, x, blank, seen, outcome)
  PROVE  /\ fr' \in Frames /\ screen' \in SUBSET Keys /\ eng' \in Engines /\ acked' \in SUBSET Keys
         /\ inp' \in Inputs
  <1>1. inp' \in Inputs  BY RoutedFields DEF SettleFrame
  <1>2. CASE outcome = "Shown"
    <2>1. FrameShown(e, f, x, blank, seen)  BY <1>2 DEF SettleFrame
    <2>2. QED  BY <1>1, <2>1, FrameShownType
  <1>3. CASE outcome = "Failed"
    <2>1. FrameLost(e, f, x, blank) /\ screen' = screen  BY <1>3 DEF SettleFrame
    <2>2. QED  BY <1>1, <2>1, FrameLostType DEF TypeOK
  <1>4. CASE outcome # "Shown" /\ outcome # "Failed"
    <2>1. /\ fr' = [f EXCEPT !.await = IF blank THEN "blank" ELSE "frame",
                             !.partial = (outcome = "Partial"), !.seen = seen]
          /\ eng' = e /\ acked' = acked \cap e.prot /\ screen' = screen
      BY <1>4 DEF SettleFrame
    <2>2. fr' \in Frames  BY <2>1 DEF Frames
    <2>3. QED  BY <1>1, <2>1, <2>2, EngineFields DEF TypeOK
  <1>5. QED  BY <1>2, <1>3, <1>4

\* render_frame keeps the type.
LEMMA RenderFrameType ==
  ASSUME TypeOK, NEW t \in Start..End, NEW outcome, RenderFrame(t, outcome)
  PROVE  TypeOK'
  <1> DEFINE x1 == ReconcileInput(Quiet(inp), eng, reg, outs)
             x2 == ApplyPendingOwner(x1, eng, reg, outs)
             p == Plan(eng, Probe(reg, gre, outs), t)
             x3 == ReconcileInput(x2, p.eng, reg, outs)
             planned == [fr EXCEPT !.redraw = FALSE, !.layer = p.layer, !.greeter = p.greeter]
  <1>1. x1 \in Routed  BY QuietType, ReconcileInputType DEF TypeOK
  <1> HIDE DEF x1
  <1>2. x2 \in Routed  BY <1>1, ApplyPendingOwnerType
  <1>3. p \in Plans  BY PlanType DEF TypeOK
  <1> HIDE DEF x2, p
  <1>4. x3 \in Routed  BY <1>2, ReconcileInputType
  <1>5. p.eng \in Engines /\ p.seen \in Keys \cup {Nil}  BY <1>3 DEF Plans
  <1>6. planned \in Frames  BY <1>3 DEF Plans, TypeOK, Frames
  <1>7. [fr EXCEPT !.redraw = FALSE] \in Frames  BY DEF TypeOK, Frames
  <1> HIDE DEF x3, planned
  <1>8. UNCHANGED <<reg, gre, outs, env>>  BY DEF RenderFrame
  <1>9. \/ SettleFrame(eng, [fr EXCEPT !.redraw = FALSE], x1, TRUE, Nil, outcome)
        \/ SettleFrame(p.eng, planned, x3, FALSE, p.seen, outcome)
    BY DEF RenderFrame, x1, x2, x3, p, planned
  <1>10. CASE SettleFrame(eng, [fr EXCEPT !.redraw = FALSE], x1, TRUE, Nil, outcome)
    BY <1>1, <1>7, <1>8, <1>10, SettleFrameType DEF TypeOK
  <1>11. CASE SettleFrame(p.eng, planned, x3, FALSE, p.seen, outcome)
    BY <1>4, <1>5, <1>6, <1>8, <1>11, SettleFrameType DEF TypeOK
  <1>12. QED  BY <1>9, <1>10, <1>11

\* The frame pump without its awaited frame is well typed.
LEMMA LandedType ==
  ASSUME TypeOK
  PROVE  Landed \in Frames /\ fr.seen \in Keys \cup {Nil}
  BY DEF TypeOK, Landed, Frames

\* Page flips, their timeout, output changes and VT switches keep the type.
LEMMA HardwareType == TypeOK /\ (Hardware \/ FlipsDone) => TypeOK'
  <1> SUFFICES ASSUME TypeOK, Hardware \/ FlipsDone PROVE TypeOK'  OBVIOUS
  <1>1. CASE SetOutputs
    BY <1>1, OutputsChangeType, RedrawType DEF SetOutputs, Clientside, TypeOK
  <1>2. CASE FlipTimeout
    <2>1. FrameLost(eng, Landed, Quiet(inp), Blank)  BY <1>2 DEF FlipTimeout
    <2>2. fr' \in Frames /\ eng' \in Engines /\ acked' \in SUBSET Keys
      BY <2>1, LandedType, FrameLostType DEF TypeOK
    <2>3. screen' \in SUBSET Keys  BY <1>2, LandedType DEF FlipTimeout, Some, TypeOK
    <2>4. QED  BY <1>2, <2>2, <2>3 DEF FlipTimeout, TypeOK
  <1>3. CASE FlipsDone
    <2>1. CASE fr.partial
      <3>1. FrameLost(eng, Landed, Quiet(inp), Blank)  BY <1>3, <2>1 DEF FlipsDone
      <3>2. fr' \in Frames /\ eng' \in Engines /\ acked' \in SUBSET Keys
        BY <3>1, LandedType, FrameLostType DEF TypeOK
      <3>3. screen' \in SUBSET Keys  BY <1>3, <2>1, LandedType DEF FlipsDone, Some, TypeOK
      <3>4. QED  BY <1>3, <3>2, <3>3 DEF FlipsDone, TypeOK
    <2>2. CASE ~fr.partial
      <3>1. FrameShown(eng, Landed, Quiet(inp), Blank, fr.seen)  BY <1>3, <2>2 DEF FlipsDone
      <3>2. QED  BY <1>3, <3>1, LandedType, FrameShownType DEF FlipsDone, TypeOK
    <2>3. QED  BY <2>1, <2>2
  <1>4. CASE PauseSession
    <2>1. fr' \in Frames  BY <1>4, LandedType DEF PauseSession, Frames
    <2>2. eng' \in Engines  BY <1>4, FrameFailedType DEF PauseSession, TypeOK
    <2>3. screen' \in SUBSET Keys  BY <1>4, LandedType DEF PauseSession, Some, TypeOK
    <2>4. QED  BY <1>4, <2>1, <2>2, <2>3 DEF PauseSession, TypeOK
  <1>5. CASE ActivateSession
    <2>1. fr' \in Frames  BY <1>5 DEF ActivateSession, TypeOK, Frames
    <2>2. outs' \in BOOLEAN /\ reg' \in [Sids -> Recs] /\ gre' \in Greeters
      BY <1>5, OutputsChangeType DEF ActivateSession, TypeOK
    <2>3. QED  BY <1>5, <2>1, <2>2 DEF ActivateSession, Clientside, TypeOK
  <1>6. QED  BY <1>1, <1>2, <1>3, <1>4, <1>5 DEF Hardware

\* A held-back frame keeps the type.
LEMMA RenderHeldType == TypeOK /\ RenderHeld => TypeOK'
  <1> SUFFICES ASSUME TypeOK, RenderHeld PROVE TypeOK'  OBVIOUS
  <1>1. ReconcileInput(Quiet(inp), eng, reg, outs) \in Routed
    BY QuietType, ReconcileInputType DEF TypeOK
  <1>2. inp' \in Inputs  BY <1>1, RoutedFields DEF RenderHeld
  <1>3. QED  BY <1>2 DEF RenderHeld, TypeOK

\* The compositor starts well typed.
LEMMA InitType == Init => TypeOK
  <1> SUFFICES ASSUME Init PROVE TypeOK  OBVIOUS
  <1>1. eng \in Engines  BY NewEngineType DEF Init
  <1>2. reg \in [Sids -> Recs]  BY DEF Init, NoRec, Recs
  <1>3. gre \in Greeters /\ inp \in Inputs  BY DEF Init, Greeters, Inputs, Owners
  <1>4. fr \in Frames  BY FailuresAssumption DEF Init, Frames
  <1>5. QED  BY <1>1, <1>2, <1>3, <1>4 DEF Init, TypeOK

\* Every step keeps the type.
LEMMA NextType == TypeOK /\ [Next]_vars => TypeOK'
  <1> SUFFICES ASSUME TypeOK, [Next]_vars PROVE TypeOK'  OBVIOUS
  <1>1. CASE Commands  BY <1>1, CommandsType
  <1>2. CASE Clients  BY <1>2, ClientsType
  <1>3. CASE Hardware \/ FlipsDone  BY <1>3, HardwareType
  <1>4. ASSUME NEW t \in NextProgress(eng.run), NEW outcome \in Outcomes, RenderFrame(t, outcome)
        PROVE  TypeOK'
    <2>1. t \in Start..End  BY EngineFields, NextProgressType DEF TypeOK
    <2>2. QED  BY <1>4, <2>1, RenderFrameType
  <1>5. CASE RenderHeld  BY <1>5, RenderHeldType
  <1>6. CASE UNCHANGED vars  BY <1>6 DEF vars, TypeOK
  <1>7. QED  BY <1>1, <1>2, <1>3, <1>4, <1>5, <1>6 DEF Next, FramePump

\* The variables of the compositor keep their types, for any sessions, generations,
\* operations and environment.
THEOREM TypeCorrect == Spec => []TypeOK
  BY InitType, NextType, PTL DEF Spec
==============================================================================
