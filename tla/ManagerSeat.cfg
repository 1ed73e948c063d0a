SPECIFICATION Spec
CONSTANTS
  Nil = Nil
  Sids = {s1, s2}
  Uids = {u1, u2}
  Ops = {0}
  GGens = {0}
  MaxFailures = 1
  Envs = {{"select", "cancel", "Reveal", "Lock", "SwitchUser", "Logout"},
          {"cancel", "Reveal", "Lock", "SwitchUser", "Logout", "Suspend", "PowerOff"},
          {"select", "cancel", "prompts", "Reveal", "Lock", "PowerOff"},
          {"root", "cancel", "Reveal", "Lock", "SwitchUser", "Logout", "PowerOff"},
          {"select", "cancel", "greeter", "helper", "Reveal", "Lock"},
          {"select", "crash", "cancel", "Reveal", "Lock", "SwitchUser", "Logout"},
          {"outputs", "cancel", "Reveal", "Lock"},
          {"sleep", "crash", "cancel", "Reveal", "Lock", "Suspend", "Logout", "PowerOff"},
          {"recovered", "crash", "select", "Reveal", "Lock"},
          {"late", "Reveal", "Lock", "PowerOff"},
          {"late", "Reveal", "Lock", "Logout"},
          {"input", "Reveal", "Lock", "Logout"}}
VIEW NoFx
SYMMETRY Interchangeable
INVARIANTS CheckInvariants NoOrphanLaunch WaitsAreTimed
PROPERTIES SuspendsLocked InputAtRest RevealedByOwner SleepsHidden
