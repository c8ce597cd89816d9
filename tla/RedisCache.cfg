\* Two clients of one Redis.
CONSTANTS
  Clients = {c1, c2}
  Users = {u1, u2}
  Kinds = {contract, feature}
  Values = {a}
  None = None
  OwnTtls <- SomeOwnTtls
  DefaultTtls <- SomeDefaultTtls
SPECIFICATION Spec
SYMMETRY Perms
INVARIANTS
  TypeOK
  ForgottenIsGone
\* A closed client does nothing more.
CHECK_DEADLOCK FALSE
