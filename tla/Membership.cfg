SPECIFICATION Spec
CONSTANTS
    Users = {u1, u2, u3}
    MaxDeleted = 1
    Shared = {s1}
    MemberIds = {1, 2, 3}
    Invites = {i1, i2}
    Requests = {r1, r2}
    Names = {"home"}
    TargetRoles = {"space_admin", "space_viewer"}
    OfferedRoles = {"space_admin"}
    Grants <- SpaceGrants
    Nil = Nil
SYMMETRY Symmetry
INVARIANTS
    TypeOK
    FounderGoverns
    OneRowPerUser
PROPERTIES
    InvitationsKeepTheirWord
CHECK_DEADLOCK FALSE
