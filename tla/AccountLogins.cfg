\* Two requests in flight; a third failure within the window is refused.
SPECIFICATION Spec
CONSTANTS
    r1 = r1
    r2 = r2
    b1 = b1
    b2 = b2
    lower = lower
    upper = upper
    right = right
    wrong = wrong
    NoUser = NoUser
    Requests <- MCRequests
    Browsers <- MCBrowsers
    Emails <- MCEmails
    Spellings <- MCSpellings
    Normal <- MCNormal
    Passwords <- MCPasswords
    MaximumAttempts = 2
    Window = 2
    SessionTicks = 2
    MaxClock = 3
    MaxTokens = 2
SYMMETRY Symmetry
INVARIANTS
    TypeOK
    GuessesBounded
    LimiterIsExact
PROPERTY RefinesAccountService
CHECK_DEADLOCK FALSE
