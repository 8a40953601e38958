SPECIFICATION Spec
CONSTANTS
  Passwords = {p1, p2}
  FirstPassword = p1
  Tokens = {t1, t2}
  KeyNames = {k1}
  Requests = {r1, r2, r3}
  Kinds <- AllKinds
  MaxFailed = 2
  None = None
CHECK_DEADLOCK FALSE
SYMMETRY Symmetry
INVARIANTS AttemptsCounted
PROPERTIES LoginsAreCurrent ChangeRevokesLogins CredentialsEndForGood
