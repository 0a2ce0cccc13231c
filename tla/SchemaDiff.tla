------------------------------ MODULE SchemaDiff ------------------------------
(***************************************************************************)
(* The schema differences of pkg/crdschema: what oasdiff finds between two *)
(* schemas (external), filterNonBreaking of crd.go, and the flat list of   *)
(* changes of flatten.go.  A method that changes a diff in place is an     *)
(* operator that returns the changed diff.                                 *)
(*                                                                         *)
(* Three functions recurse into schemas and diffs.  Each is a constant,    *)
(* and its body an operator whose first argument is the function that it   *)
(* calls for the parts: the function is what is equal to the body with     *)
(* itself for that (RecursionAssumption).  For TLC it is a recursive       *)
(* function, and proofs use the equation.                                  *)
(***************************************************************************)
EXTENDS Naturals, FiniteSets, Sequences

CONSTANTS
    Schemas,     \* the schemas and, at any depth, the parts of them
    Height(_),   \* how deep a schema is
    DiffOf,      \* the diffs of two schemas, Nil if they are equal
    FilterOf,    \* the diffs without what does not break
    WalkOf       \* the changes of the diffs

Diff(old, new) == DiffOf[old, new]

ignoreOptionalNewProperties(sd) == FilterOf[sd]

walkSchemaDiff(sd) == WalkOf[sd]

(* A pointer that is nil: no schema and no diff has that field. *)
Nil == [nil |-> TRUE]

(* A schema: its type, enum, properties, required properties, the schema   *)
(* of its items, the schema of its additional properties, and the messages *)
(* of its x-kubernetes-validations, of which upjet writes one per field    *)
(* that is required: the name of the field stands for it.                  *)
Scalar(type, enum) ==
    [type |-> type, enum |-> enum, props |-> <<>>, required |-> {},
     items |-> Nil, extra |-> Nil, rules |-> {}]

Object(props, required) ==
    [Scalar("object", {}) EXCEPT !.props = props, !.required = required]

ArrayOf(items) == [Scalar("array", {}) EXCEPT !.items = items]

MapOf(extra) == [Scalar("object", {}) EXCEPT !.extra = extra]

(* Arrays have items, as the API server demands, and nothing else does.    *)
IsSchema(s) ==
    /\ s = [type |-> s.type, enum |-> s.enum, props |-> s.props, required |-> s.required,
            items |-> s.items, extra |-> s.extra, rules |-> s.rules]
    /\ s.props \in [DOMAIN s.props -> Schemas]
    /\ s.items \in Schemas \cup {Nil} /\ s.extra \in Schemas \cup {Nil}
    /\ s.type = "array" <=> s.items # Nil

PartsOf(s) == {s.props[n] : n \in DOMAIN s.props} \cup ({s.items, s.extra} \ {Nil})

ASSUME SchemasAssumption ==
    \A s \in Schemas :
        /\ IsSchema(s)
        /\ Height(s) \in Nat /\ \A t \in PartsOf(s) : Height(t) < Height(s)

-----------------------------------------------------------------------------
(* oasdiff *)

NoChange == [added |-> FALSE, deleted |-> FALSE, type |-> Nil, enum |-> Nil,
             required |-> Nil, props |-> Nil, items |-> Nil, extra |-> Nil,
             rules |-> Nil]

(* SchemaDiff.Empty: no field is set. *)
IsEmpty(sd) == sd = NoChange

(* SchemasDiff.Empty: nothing added, deleted or modified. *)
NoProperties(pd) == pd.added = {} /\ pd.deleted = {} /\ DOMAIN pd.modified = {}

SetDiff(old, new) ==
    IF old = new THEN Nil ELSE [added |-> new \ old, deleted |-> old \ new]

PropertiesDiff(D, old, new) ==
    LET both == [n \in DOMAIN old \cap DOMAIN new |-> D[old[n], new[n]]]
        pd == [added    |-> DOMAIN new \ DOMAIN old,
               deleted  |-> DOMAIN old \ DOMAIN new,
               modified |-> [n \in {n \in DOMAIN both : both[n] # Nil} |-> both[n]]]
    IN  IF NoProperties(pd) THEN Nil ELSE pd

(* The comparison of two schemas, before it is asked whether it is empty.  *)
Compared(D, old, new) ==
    [added |-> FALSE, deleted |-> FALSE,
     type |-> SetDiff({old.type}, {new.type}), enum |-> SetDiff(old.enum, new.enum),
     required |-> SetDiff(old.required, new.required),
     props |-> PropertiesDiff(D, old.props, new.props),
     items |-> D[old.items, new.items], extra |-> D[old.extra, new.extra],
     rules |-> SetDiff(old.rules, new.rules)]

DiffBody(D, old, new) ==
    CASE old = Nil /\ new = Nil -> Nil
      [] old = Nil /\ new # Nil -> [NoChange EXCEPT !.added = TRUE]
      [] old # Nil /\ new = Nil -> [NoChange EXCEPT !.deleted = TRUE]
      [] OTHER -> LET sd == Compared(D, old, new)
                  IN  IF IsEmpty(sd) THEN Nil ELSE sd

-----------------------------------------------------------------------------
(* filterNonBreaking: drop new properties that are not required. *)

empty(pd) == NoProperties(pd)

(* A new property is kept if the same object newly requires it. *)
keepOptionalNewFieldsDiff(sd) ==
    IF sd.required = Nil THEN {} ELSE sd.props.added \cap sd.required.added

ignorePropertiesDiff(ignore, sd) ==
    LET Modified(n) == ignore[sd.props.modified[n]]
        pd == [sd.props EXCEPT
                 !.added = keepOptionalNewFieldsDiff(sd),
                 !.modified =
                    [n \in {n \in DOMAIN sd.props.modified : ~IsEmpty(Modified(n))} |->
                        Modified(n)]]
    IN  IF sd.props = Nil \/ empty(pd) THEN Nil ELSE pd

(* Mutant: an item diff that became empty stays. *)
ItemsNotReset(ignore, sd) == ignore[sd]

(* An item diff that became empty is reset to nil. *)
Items(ignore, sd) ==
    LET items == ignore[sd]
    IN  IF items # Nil /\ IsEmpty(items) THEN Nil ELSE items

ignoreOptionalNewPropertiesBody(ignore, sd) ==
    IF sd = Nil \/ IsEmpty(sd) THEN sd
    ELSE [sd EXCEPT !.props = ignorePropertiesDiff(ignore, sd),
                    !.items = Items(ignore, sd.items)]

-----------------------------------------------------------------------------
(* FlattenDiff: the changes as pairs of a path and a kind.  The path of a  *)
(* change is that in the diff at hand; above it the name of the part is    *)
(* put in front.                                                           *)

Within(name, changes) == {<<<<name>> \o c[1], c[2]>> : c \in changes}

(* An array that became an object: its properties only seem to be added. *)
shouldSkipDueToArrayObjectConversion(sd) ==
    /\ sd.items # Nil /\ sd.type # Nil
    /\ sd.items.deleted
    /\ sd.type.deleted = {"array"} /\ sd.type.added = {"object"}

extractTypeChanges(sd) ==
    IF sd.type # Nil /\ ~shouldSkipDueToArrayObjectConversion(sd)
    THEN {<<<<>>, "type_changed">>} ELSE {}

Deleted(sd) == {<<<<n>>, "field_deleted">> : n \in sd.props.deleted}

extractPropertyChanges(walk, sd) ==
    IF sd.props = Nil THEN {}
    ELSE (IF shouldSkipDueToArrayObjectConversion(sd) THEN {}
          ELSE {<<<<n>>, "field_added">> : n \in sd.props.added})
         \cup Deleted(sd)
         \cup UNION {Within(n, walk[sd.props.modified[n]]) :
                           n \in DOMAIN sd.props.modified}

(* A change from or to array is a type change; its items are not walked. *)
extractItemsChanges(walk, sd) ==
    IF sd.items = Nil \/ (sd.type # Nil /\ "array" \in sd.type.added \cup sd.type.deleted)
    THEN {} ELSE Within("[*]", walk[sd.items])

walkSchemaDiffBody(walk, sd) ==
    CASE sd.added -> {<<<<>>, "field_added">>}
      [] sd.deleted -> {<<<<>>, "field_deleted">>}
      [] OTHER -> extractPropertyChanges(walk, sd)
                  \cup extractTypeChanges(sd)
                  \cup extractItemsChanges(walk, sd)

-----------------------------------------------------------------------------
(* The diffs of the schemas in S, and what the filter makes of them. *)
DiffsOf(S) == {Diff(old, new) : old \in S \cup {Nil}, new \in S \cup {Nil}}

FilteredDiffsOf(S) == {ignoreOptionalNewProperties(sd) : sd \in DiffsOf(S)}

ASSUME RecursionAssumption ==
    /\ \A old, new \in Schemas \cup {Nil} : Diff(old, new) = DiffBody(DiffOf, old, new)
    /\ \A sd \in DiffsOf(Schemas) \cup FilteredDiffsOf(Schemas) :
         /\ ignoreOptionalNewProperties(sd) = ignoreOptionalNewPropertiesBody(FilterOf, sd)
         /\ sd # Nil => walkSchemaDiff(sd) = walkSchemaDiffBody(WalkOf, sd)
=============================================================================
