SPECIFICATION Spec
CONSTANTS
    alice = alice
    school = school
    m1 = m1
    m2 = m2
    v1 = v1
    v2 = v2
    v3 = v3
    r1 = r1
    r2 = r2
    Students = {alice}
    Institutions = {school}
    Modules = {m1, m2}
    Videos = {v1, v2, v3}
    ModuleOf <- MCModuleOf
    InitialLessons = {v1, v2}
    Requests = {r1}
    StudentOf <- MCStudentOf
    FileKeys = {1, 2, 3}
    MaxEdits = 1
    MaxAdmin = 0
    MaxFailures = 0
    MaxDisturbances = 1
INVARIANTS
    CertificateNeedsAllLessons
