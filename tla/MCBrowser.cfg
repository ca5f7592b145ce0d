CONSTANTS
  Tokens = {1, 2, 3}
  Requests = {r1, r2}
  Providers = {vk}
  Pages = {g1, g2}
  Served = {"register", "signin", "refresh", "delete"}
  MaxEpoch = 2
  NoArg = NoArg
  NoPage = NoPage
SPECIFICATION BrowserSpec
CHECK_DEADLOCK FALSE
SYMMETRY Symmetry
CONSTRAINT Quiet
INVARIANTS  OwnRotationNotRefused
