--------------------------- MODULE CRDCompatibility ---------------------------
(***************************************************************************)
(* What exit code and report of crddiff are to say of the schemas of a     *)
(* CRD, whatever the diff of two schemas looks like: relations between     *)
(* schemas, stated without diffs.                                          *)
(***************************************************************************)
EXTENDS CRDDiff

CONSTANTS
    ExtendsOf,     \* whether a schema is another with optional additions only
    ToleratesOf,   \* whether it allows what the other allows
    FieldsBreakOf  \* whether a field of a schema breaks what the other allows

Extends(base, revision) == ExtendsOf[base, revision]

Tolerates(base, revision) == ToleratesOf[base, revision]

FieldsBreak(base, revision) == FieldsBreakOf[base, revision]

(* Their definitions, which are recursive.  revision is base with optional *)
(* properties added, at any depth, but for the enums.                      *)
OptionalAdditions(extends, base, revision) ==
    /\ base.type = revision.type
    /\ base.required = revision.required
    /\ DOMAIN base.props \subseteq DOMAIN revision.props
    /\ \A n \in DOMAIN base.props : extends[base.props[n], revision.props[n]]
    /\ base.items = Nil <=> revision.items = Nil
    /\ base.items # Nil => extends[base.items, revision.items]
    /\ base.extra = revision.extra /\ base.rules = revision.rules

(* The enums are the same. *)
ExtendsBody(extends, base, revision) ==
    base.enum = revision.enum /\ OptionalAdditions(extends, base, revision)

(* An enum may have new constants. *)
ToleratesBody(tolerates, base, revision) ==
    /\ base.enum = revision.enum \/ (base.enum # {} /\ base.enum \subseteq revision.enum)
    /\ OptionalAdditions(tolerates, base, revision)

BecameObject(base, revision) == base.type = "array" /\ revision.type = "object"

(* A field was removed, changed its type, or is new and newly required.    *)
FieldsBreakBody(breaks, base, revision) ==
    \/ base.type # revision.type /\ ~BecameObject(base, revision)
    \/ DOMAIN base.props \ DOMAIN revision.props # {}
    \/ /\ (DOMAIN revision.props \ DOMAIN base.props)
           \cap (revision.required \ base.required) # {}
       /\ ~BecameObject(base, revision)
    \/ \E n \in DOMAIN base.props \cap DOMAIN revision.props :
          breaks[base.props[n], revision.props[n]]
    \/ base.items # Nil /\ revision.items # Nil /\ breaks[base.items, revision.items]

ASSUME RelationsAssumption ==
    \A base, revision \in Schemas :
        /\ Extends(base, revision) = ExtendsBody(ExtendsOf, base, revision)
        /\ Tolerates(base, revision) = ToleratesBody(ToleratesOf, base, revision)
        /\ FieldsBreak(base, revision) = FieldsBreakBody(FieldsBreakOf, base, revision)

(* The schemas of the CRDs, as they are and with the rules of upjet.       *)
ASSUME InputSchemasAssumption ==
    \A in \in Inputs : \A c \in DOMAIN in : \A i \in DOMAIN in[c] :
        LET schema == in[c][i].schema
        IN  /\ schema \in Schemas \cup {Nil}
            /\ Injectable(schema) => inject(schema) \in Schemas

-----------------------------------------------------------------------------
(* Properties. *)

(***************************************************************************)
(* As text, the command succeeds if each new version or revision only adds *)
(* optional properties, at any depth, and fails if one does not allow what *)
(* the old one does: nothing that breaks is filtered out, whatever is      *)
(* required by a list or by a rule (361-448, main.go:94-131).  Of new enum *)
(* constants, and of two versions of one schema, it says nothing: there    *)
(* the code and its tests disagree (NoDiffOfTolerated).                    *)
(***************************************************************************)
TextVerdict ==
    Exits /\ format = "text" =>
        /\ (\A pair \in Pairs : Extends(pair[1], pair[2])
                                /\ (SelfMode => pair[1] # pair[2]))  =>  code = "0"
        /\ (\E pair \in Pairs : ~Tolerates(pair[1], pair[2]))  =>  code # "0"

(***************************************************************************)
(* As JSON or YAML, it fails if a field was removed, changed its type, or  *)
(* is new and required, by a list or by a rule of upjet, in whatever order *)
(* the map is filtered for the report and for the exit code, and succeeds  *)
(* if each schema allows what the old one does (161-190,                   *)
(* flatten.go:26-242, main.go:133-178).  Of an array that becomes an       *)
(* object it says nothing (ConversionReported), and of what breaks but is  *)
(* no change of a field, as a removed enum constant is, neither.           *)
(***************************************************************************)
StructuredVerdict ==
    Exits /\ format # "text" =>
        /\ (\E pair \in Pairs : FieldsBreak(pair[1], pair[2]))  =>  code = "1"
        /\ (\A pair \in Pairs : Tolerates(pair[1], pair[2]))  =>  code = "0"

-----------------------------------------------------------------------------
(* What comments and tests say and the code does not do. *)

(***************************************************************************)
(* "No diff should be reported if a new enum constant is added to a field" *)
(* (crd_test.go:164): as text, new constants of an enum, and optional      *)
(* properties, do not make the command fail.  The code keeps them, as it   *)
(* does every other change of a field (361-448); the test looks only at    *)
(* versions of which it wants a diff (355).                                *)
(***************************************************************************)
NoDiffOfTolerated ==
    Exits /\ format = "text" /\ ~SelfMode =>
        ((\A pair \in Pairs : Tolerates(pair[1], pair[2])) => code = "0")

(***************************************************************************)
(* "The type change itself will be captured by extractTypeChanges"         *)
(* (flatten.go:114-115): an array that becomes an object is reported as a  *)
(* change of its type.  extractTypeChanges skips it (156-158).             *)
(***************************************************************************)
ConversionReported ==
    Exits /\ format # "text" /\ ~SelfMode =>
        \A v \in VersionsOf(input.base) :
            LET old == At(input.base, v).props
                new == At(input.revision, v).props
            IN  \A n \in DOMAIN old \cap DOMAIN new :
                    BecameObject(old[n], new[n]) =>
                        <<v, <<<<n>>, "type_changed">>>> \in report
=============================================================================
