SPECIFICATION LiveSpec
CONSTANTS
  Nil = Nil
  Sids = {s1}
  Gens = {1}
  Ops = {1}
  GGens = {1}
  MaxFrameFailures = 1
  Envs = {{"UnlockSlideUp", "vt"}}
PROPERTIES ProtectIsAnswered TransitionEnds
