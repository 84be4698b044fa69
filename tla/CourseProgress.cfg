SPECIFICATION Spec
CONSTANTS
    alice = alice
    school = school
    m1 = m1
    m2 = m2
    v1 = v1
    v2 = v2
    v3 = v3
    r1 = r1
    r2 = r2
    Students = {alice}
    Institutions = {school}
    Modules = {m1, m2}
    Videos = {v1, v2, v3}
    ModuleOf <- MCModuleOf
    InitialLessons = {v1, v2}
    Requests = {r1, r2}
    StudentOf <- MCStudentOf
    FileKeys = {1, 2, 3}
    MaxEdits = 2
    MaxAdmin = 2
    MaxFailures = 1
    MaxDisturbances = 2
INVARIANTS
    TypeOK
    CertificateHasFile
    CompletionMeansAllLessons
    LastLessonRecognised
PROPERTIES
    LedgerSpec
