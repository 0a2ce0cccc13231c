SPECIFICATION Spec
CONSTANTS
    p1 = p1
    p2 = p2
    i1 = i1
    guide = guide
    logo = logo
    Publishers = {p1, p2}
    Indexes = {i1}
    IndexOf <- OneIndex
    Paths = {guide, logo}
    Ext <- Exts2
    Contents = {"old", "new"}
    Checkouts <- Releases
    NoFile = NoFile
    NoBlob = NoBlob
    NoIndex = NoIndex
    NoDocs = NoDocs
INVARIANTS
    TypeOK
    IndexResolves
PROPERTIES
    BlobsImmutable
    ImplementsDocSite
