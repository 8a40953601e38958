SPECIFICATION Spec
CONSTANTS
  Users = {u1, u2, u3}
  Founder = u1
  Roles <- ThreeRoles
  Requests = {r1, r2, r3}
  MaxUpdates = 1
  None = None
SYMMETRY Symmetry
INVARIANTS OwnerRetained
PROPERTIES OwnersUnseatedByOwners GrantsByOwners
