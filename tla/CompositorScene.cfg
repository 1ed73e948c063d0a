SPECIFICATION Spec
CONSTANTS
  Nil = Nil
  Sids = {s1}
  Gens = {1}
  Ops = {1}
  GGens = {1}
  MaxFrameFailures = 2
  Envs = {{"UnlockSlideUp", "Lock", "LogoutFade", "PowerFade"},
          {"UnlockSlideUp", "lossy"},
          {"UnlockSlideUp", "evidence", "refuse", "leave"},
          {"UnlockSlideUp", "badbuffer"},
          {"UnlockSlideUp", "outputs"},
          {"UnlockSlideUp", "greeter"},
          {"UnlockSlideUp", "vt", "blank"}}
VIEW NoEvt
INVARIANTS HeldCoverHolds OwedFrameIsAskedFor AckedStaysHidden InputFollowsScene PresentableIsShown StalePixelsArePainted
PROPERTIES AckMeansGone
