SPECIFICATION Spec
CONSTANTS
  Users = {u1}
  Groups = {ga, ge}
  Calls = {c1, c2}
  Binding <- Bindings
  GivenRoles = {"reader", "admin"}
  Asked = {"active", none}
  ga = ga
  ge = ge
  None = none
SYMMETRY CallsAlike
INVARIANTS TypeOK RolesFollowGroups
PROPERTIES StaysDisabled
CHECK_DEADLOCK FALSE
