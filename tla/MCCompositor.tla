---------------------------- MODULE MCCompositor -----------------------------
(* Model-checking instances of Compositor.                                 *)
EXTENDS Compositor

\* The events of a step matter to action properties only.
NoEvt == <<eng, reg, gre, inp, fr, outs, screen, acked, env>>

\* For liveness: a manager that never asks for a change of the input owner.  Input is
\* routed after the scene and never holds a frame back.
QuietSpec == Init /\ [][Next /\ UNCHANGED inp]_vars
LiveSpec == QuietSpec /\ Fairness
==============================================================================
