SPECIFICATION Spec
CONSTANTS
  MaxConv = 3
  Job = {1, 2}
  Sid <- MCSid
  Gen = {1, 2}
  JobGen <- MCJobGen
  MaxHint = 2
  MaxConns = 2
  MaxDying = 2
  MaxTickets = 1
  MaxMissed = 1
  MaxOut = 1
  Room = 1
  FreeFails = 1
  MaxFails = 2
  MaxLives = 2
  Envs = {{"more", "abort"},
          {"more", "unlock"},
          {"abort", "late", "die", "unlock"},
          {"abort", "leave"},
          {"unlock", "norand"},
          {"abort", "slow", "bad"},
          {"open", "bad", "close"},
          {"open", "late", "die"},
          {"open", "leave"},
          {"open", "close", "slow"},
          {"open", "crash", "close"},
          {"open", "hint", "one"},
          {"greeter", "leave"},
          {"greeter", "slow"},
          {"greeter", "crash", "leave"}}
CHECK_DEADLOCK FALSE
INVARIANTS AnsweredOnce OnlyWhatPassedRuns ChildrenAreKnown GreetersAreFollowed NothingIsStuck
