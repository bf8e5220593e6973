SPECIFICATION Spec
CONSTANTS
  Users = {u1}
  Roles = {r1}
  Groups = {g1}
  Perms = {p1}
  StatusInputs = {"ACTIVE", "SUSPENDED"}
  Instances = {i1}
  Requests = {q1}
  Admins = {a1}
  Ttl = 2
  Latency = 1
  TokenTtl = 1
  Hook = FALSE
INVARIANT SuspendedUserNotServedFromCache
