SPECIFICATION Spec
CONSTANTS
    aws = aws
    ec2 = ec2
    Groups = {aws, ec2}
    Provider = aws
    ProviderConfig = "providerconfigs"
    FamilyRef = "family"
    CheckAuth = TRUE
    Directories <- SomeDirectories
    Images <- ImagesOfEach
    MaxPushes = 1
    Folder = Folder
    Unreadable = Unreadable
    NoCRD = NoCRD
    BadLayer = BadLayer
    NoPackage = NoPackage
INVARIANTS
    TypeOK
    OnePackageConforms
    FailureHasReason
