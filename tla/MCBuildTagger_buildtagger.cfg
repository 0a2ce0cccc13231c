SPECIFICATION Spec
CONSTANTS
    Files = {f1, f2}
    Tags = {aws, all}
    Blank = Blank
    Code = {code}
    Initial <- UpToFourLines
    NoTag = NoTag
    NoFile = NoFile
INVARIANTS
    TypeOK
    AllTagged
PROPERTIES
    ImplementsTaggedSources
