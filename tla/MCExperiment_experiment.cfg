SPECIFICATION Spec
CONSTANTS
    vn = vn
    lb = lb
    Templates = {vn, lb}
    KindOf <- KindOfEach
    Count <- OneOrTwo
    Clean = TRUE
    Intervals = {TRUE, FALSE}
    Foreign <- OneForeign
    Statuses = {"NoStatus", "NoConditions", "NoReady", "False", "Unknown", "True"}
    Stable = FALSE
    Faults = {TRUE, FALSE}
INVARIANTS
    FaultFreeReturns
PROPERTIES
    PanicHasReason
    EndsIfReady
