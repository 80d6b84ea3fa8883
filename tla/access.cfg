SPECIFICATION Spec
CONSTANTS
    Names = {ann, ben}
    First = ann
    Browsers = {c1, c2}
    IpOf <- MCIpOf
    loginRateLimitMax = 1
    MaxRequests = 2
    NoName = NoName
    NoSession = NoSession
CHECK_DEADLOCK FALSE
INVARIANTS
    TypeOK
    AnAdminRemains
    OldPasswordIsOut
    GuessesAreBounded
