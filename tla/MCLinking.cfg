CONSTANTS
  Users = {u1, u2, u3}
  Names = {n1, n2}
  Accounts = {a1, a2}
  Requests = {r1, r2}
  Nobody = Nobody
  NoName = NoName
  NoAccount = NoAccount
SPECIFICATION Spec
CHECK_DEADLOCK FALSE
SYMMETRY Symmetry
PROPERTIES LinkKept NoSecondAccount DeadClaimsNothing
