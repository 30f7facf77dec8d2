\* Three requests of any kind, two users, one of whom has no e-mail address.
SPECIFICATION Spec
CONSTANTS
    Users = {u1, u2}
    Mailless = {u2}
    Invites = {i1}
    Old = {o1, o2}
    Requests = {r1, r2, r3}
    Kinds <- AllKinds
    Given = {"owner", "admin"}
    None = None
SYMMETRY RequestSymmetry
INVARIANTS TypeOK InviteOnce OwnerStays ActiveFits
PROPERTY HomeOnce
\* Every request may have been answered.
CHECK_DEADLOCK FALSE
