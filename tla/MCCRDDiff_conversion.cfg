SPECIFICATION Spec
CONSTANTS
    Schemas <- AllSchemas
    Height <- HeightOf
    DiffOf <- AllDiffOf
    FilterOf <- AllFilterOf
    WalkOf <- AllWalkOf
    ExtendsOf <- AllExtendsOf
    ToleratesOf <- AllToleratesOf
    FieldsBreakOf <- AllFieldsBreakOf
    Inputs <- Conversions
    Formats = {"text", "json"}
    KeepAll = {TRUE, FALSE}
    Upjet = {TRUE, FALSE}
INVARIANT
    ConversionReported
