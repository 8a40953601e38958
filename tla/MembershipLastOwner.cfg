SPECIFICATION Spec
CONSTANTS
  Users = {u1, u2, u3}
  Founder = u1
  Roles <- ThreeRoles
  Requests = {r1, r2}
  MaxUpdates = 2
  None = None
SYMMETRY Symmetry
INVARIANT OwnerRetained
