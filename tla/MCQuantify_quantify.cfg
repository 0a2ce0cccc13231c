SPECIFICATION QSpec
CONSTANTS
    vn = vn
    lb = lb
    Templates = {vn, lb}
    KindOf <- KindOfEach
    Count <- OneOrTwo
    Clean = TRUE
    Intervals = {TRUE, FALSE}
    Foreign <- OneForeign
    Statuses = {"NoStatus", "NoConditions", "NoReady", "False", "True"}
    Stable = TRUE
    Faults = {TRUE}
    Pods = {pod1, pod2}
    NoResults = NoResults
INVARIANTS
    QTypeOK
    ReceiveErrFindsNil
    ReportedIsComplete
    EveryMRMeasured
    DeletedWhenReturned
PROPERTIES
    Ends
