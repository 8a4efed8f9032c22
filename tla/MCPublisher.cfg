SPECIFICATION FairAccountsSpec
CONSTANTS
    Account = {a, b}
    Round = {r1, r2}
    NoAccount = NoAccount
    MaxRotations = 2
    MaxMishaps = 1
INVARIANTS
    AccountsInv
    ResentOnlyIfUnseen
PROPERTIES
    SendsToPublisher
    EachHandled
