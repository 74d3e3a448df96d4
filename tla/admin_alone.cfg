SPECIFICATION LedgerSpec
CONSTANTS
    Sessions = {s1}
    Names = {admin, bob, eve}
    Passwords = {admin123, pw, prefixed}
    HashLike = {prefixed}
    HashOf <- MCHashOf
    DefaultName = admin
    DefaultPassword = admin123
    None = None
    Requests <- AllRequests
    MayFail = FALSE
INVARIANTS
    OwnAccountStays
    DeleteAnswersTruly
PROPERTIES
    CreateNeverOverwrites
    NeverDeletesItself
    UpgradeKeepsPassword
