SPECIFICATION Spec
CONSTANTS
    ex = ex
    vpc = vpc
    APIs <- Discovered
    Names = {ex, vpc}
    FilterLists <- Lists
    Bad = Bad
INVARIANTS
    TypeOK
    NoneMissed
    OnlySelected
