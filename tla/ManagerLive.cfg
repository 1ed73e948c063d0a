SPECIFICATION LiveSpec
CONSTANTS
  Nil = Nil
  Sids = {s1}
  Uids = {u1}
  Ops = {0, 1}
  GGens = {0}
  MaxFailures = 1
  Envs = {{"cancel", "prompts", "Reveal", "Lock", "Suspend", "PowerOff"}}
PROPERTIES OperationEnds
