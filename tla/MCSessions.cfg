CONSTANTS
  Tokens = {1, 2, 3}
  Requests = {r1, r2}
  Providers = {vk, yandex}
  Served = {"register", "login", "refresh", "signin", "unlink", "profile", "reset", "change", "delete"}
  MaxEpoch = 3
  NoArg = NoArg
SPECIFICATION Spec
CHECK_DEADLOCK FALSE
SYMMETRY Symmetry
INVARIANTS OldSessionsClosed
PROPERTIES LinkWorksOnce LastWayKept DeletedStaysGone
