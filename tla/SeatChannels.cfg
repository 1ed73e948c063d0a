SPECIFICATION Spec
CONSTANTS
  Nil = Nil
  Sids = {s1}
  Uids = {u1}
  Ops = {0, 1}
  GGens = {0, 1}
  MaxFailures = 1
  MaxFrameFailures = 2
  Backlog = 1
  Envs <- MCEnvs
VIEW NoTrace
INVARIANTS SidesAgree GreeterOrDesktop ConnectionsAreKnown InputIsMeant
PROPERTIES LocksDark
