SPECIFICATION FairSpec
CONSTANTS
    Tasks = {t1, t2}
    Conns = {c1}
    NoConn = NoConn
    RequiresAuth = TRUE
    WaitModes = {TRUE, FALSE}
    Rejectable = {"hello", "saslStart", "saslContinue", "command"}
    MaxCalls = 4
    MaxCancels = 1
    MaxResets = 1
INVARIANTS BodyIsOwn CommandsAreAuthorised
PROPERTIES StaleNeverAnswers DeadNeverAnswers WaiterServed
CHECK_DEADLOCK FALSE
