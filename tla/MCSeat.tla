------------------------------- MODULE MCSeat --------------------------------
(***************************************************************************)
(* Seat for TLC.  One user and one session that logs in and is unlocked    *)
(* again and again; each environment adds one thing that crosses it.       *)
(***************************************************************************)
EXTENDS Seat

Environment(requests, clients, timers) ==
  [manager |-> {"Reveal"} \cup requests, compositor |-> clients, timers |-> timers]

MCEnvs ==
  { Environment({"Lock"}, {}, {"Protect", "Transition", "Close", "Frames"}),
    Environment({"Suspend"}, {}, {}),
    Environment({"PowerOff"}, {}, {}),
    Environment({"recovered"}, {}, {}),
    Environment({}, {"leave"}, {}),
    Environment({}, {"greeter"}, {}),
    [manager |-> {"greeter"}, compositor |-> {"greeter"}, timers |-> {"GreeterRespawn"}] }

\* The machine goes to sleep and resumes.
MCSleep == {Environment({"sleep"}, {}, {})}

\* What the last step did is in the channels already.
NoTrace == <<m, granted, menv, eng, reg, gre, inp, fr, outs, screen, acked, cenv, cmds, evs, slow>>
==============================================================================
