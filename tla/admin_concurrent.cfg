SPECIFICATION Spec
CONSTANTS
    Sessions = {s1, s2}
    Names = {admin, bob}
    Passwords = {admin123, pw}
    HashLike = {}
    HashOf <- MCHashOf
    DefaultName = admin
    DefaultPassword = admin123
    None = None
    Requests <- AllRequests
    MayFail = TRUE
SYMMETRY Symmetric
INVARIANTS
    TypeOK
PROPERTIES
    OnlyAdminsChangeAccounts
    NoNewPlaintext
    NoAccountLost
