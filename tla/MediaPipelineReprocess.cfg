SPECIFICATION AskingSpec
CHECK_DEADLOCK FALSE
CONSTANTS
    v1 = v1
    a0 = a0
    a1 = a1
    a2 = a2
    q1 = q1
    q2 = q2
    j1 = j1
    j2 = j2
    NoVideo = NoVideo
    NoAsset = NoAsset
    Videos = {v1}
    Assets = {a0, a1}
    LegacyOf <- MCLegacyOf
    HlsFiles = {"index", "segment"}
    Requests = {q1, q2}
    Jobs = {j1, j2}
    Attempts = 2
    MaxStalls = 1
    MaxFailures = 2
PROPERTIES
    ReprocessRecovers
