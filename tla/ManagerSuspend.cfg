SPECIFICATION Spec
CONSTANTS
  Nil = Nil
  Sids = {s1, s2}
  Uids = {u1, u2}
  Ops = {0}
  GGens = {0}
  MaxFailures = 1
  Envs = {{"crash", "Reveal", "Suspend"}}
INVARIANTS SuspendWaitEnds
VIEW NoFx
SYMMETRY Interchangeable
