SPECIFICATION Spec
CHECK_DEADLOCK FALSE
CONSTANTS
    root = root
    boss = boss
    ana = ana
    north = north
    south = south
    r1 = r1
    r2 = r2
    Open = Open
    None = None
    Users = {root, boss, ana}
    Schools = {north, south, Open}
    Requests = {r1, r2}
    Inputs <- MCInputs
    InitialUser <- MCInitialUser
    MaxCalls = 5
INVARIANTS
    TypeOK
    MembersBelong
    RolesAgree
    MasterRemains
PROPERTIES
    EnrolledOnGround
