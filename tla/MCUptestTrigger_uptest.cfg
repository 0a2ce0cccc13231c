SPECIFICATION Spec
CONSTANTS
    Runs = {r1, r2}
    Contexts = {"rds", "ec2"}
    Allowed = {TRUE, FALSE}
    MaxHead = 1
    NoCommit = NoCommit
INVARIANTS
    TypeOK
    SuccessWasTested
    SweptAtEnd
PROPERTIES
    VerdictGiven
