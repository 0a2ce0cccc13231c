SPECIFICATION GSpec
CONSTANTS
    Roots <- AllRoots
    Edited <- SomeEdits
    Directories <- AllDirectories
    Depth <- DepthOf
    NoName = NoName
    Titles = {"t", "s"}
    Missing = Missing
    Broken = Broken
    FailsOf <- AllFailsOf
    ItemsOf <- AllItemsOf
    TreeOf <- AllTreeOf
INVARIANTS
    GTypeOK
    EachOnceInOrder
    NamedBySections
    UnfitFails
