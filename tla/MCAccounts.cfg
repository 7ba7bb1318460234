\* Four requests for an account that is signed in once, of any kind.
SPECIFICATION AccountSpec
CONSTANTS
    Requests = {r1, r2, r3, r4}
    Earlier = Earlier
    None = None
    MaxSessions = 1
    History = 1
    Operations = {"sign in", "rotate", "sign out", "sign out others", "sign out all",
                  "send", "enter code", "change password"}
    MayFail = TRUE
    MaxAttempts = 1
    MaxHourly = 2
SYMMETRY Interchangeable
INVARIANTS AccountTypeOK EndedSignInsStayDead LimitHolds ForksOverlap CodesWorkOnce
    ReplacedCodesDie GuessesRunOut OneCodePerCooldown OneChangePerPassword
PROPERTIES CodesDieWithThePassword
CHECK_DEADLOCK FALSE
