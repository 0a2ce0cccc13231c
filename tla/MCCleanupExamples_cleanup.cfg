SPECIFICATION Spec
CONSTANTS
    Order <- TwoYamlAndOther
    Yaml = {"a.yaml", "b.yml"}
    Upjet = {"upjet.upbound.io/manual-intervention"}
    Uptest = {"uptest.upbound.io/timeout"}
    Other = {"meta.upbound.io/example-id"}
    Contents <- SomeContents
    Null = Null
    Bad = Bad
    NoFile = NoFile
    Truncated = Truncated
INVARIANTS
    TypeOK
    AllProcessed
    OutputsAreClean
