------------------------------ MODULE MCCRDDiff ------------------------------
(* Values of the constants of CRDDiff for TLC.                             *)
EXTENDS CRDCompatibility, Functions

Name(major, stage, n) == [major |-> major, stage |-> stage, n |-> n]
v1 == Name(1, 0, 0)
v1alpha1 == Name(1, 1, 1)
v1beta1 == Name(1, 2, 1)
v1beta2 == Name(1, 2, 2)
v1beta10 == Name(1, 2, 10)

Doc(v, s) == [version |-> v, schema |-> s]

String == Scalar("string", {})
Integer == Scalar("integer", {})
Enum(S) == Scalar("string", S)

(* All objects with properties in N, of schemas in S. *)
Objects(N, S) ==
    UNION {{Object(props, required) : props \in [D -> S], required \in SUBSET D} :
              D \in SUBSET N}

Fields == Objects({"a", "b"}, {String, Integer})

Specs == {String} \cup Fields \cup {ArrayOf(s) : s \in Fields \cup {String, Integer}}
         \cup {MapOf(s) : s \in {String} \cup Objects({"a"}, {String})}

CRDs(S) == {<<Doc(v1beta1, Object([spec |-> s], {}))>> : s \in S}

Revisions(S) == [base : CRDs(S), revision : CRDs(S)]

(* A base and a revision of every two shapes of a specification. *)
TwoRevisions == Revisions(Specs)

(* CRDs of upjet: the rules of spec are about the fields of forProvider,   *)
(* or are not upjet's.                                                     *)
UpjetSpecs ==
    {String} \cup
    {[Object([forProvider |-> o], {}) EXCEPT !.rules = rules] :
        o \in Objects({"a", "b"}, {String}),
        rules \in SUBSET {"a", "b"} \cup {{"other"}}}

EnumRevisions == Revisions(Objects({"a"}, {Enum({"x"}), Enum({"x", "y"})}))

(* Arrays, and the objects they may have become. *)
Conversions == Revisions({ArrayOf(String), Object([a |-> String], {})})

(* A manifest without a schema, on either side. *)
NoSchemas == [base : CRDs({String}) \cup {<<Doc(v1beta1, Nil)>>},
              revision : CRDs({String}) \cup {<<Doc(v1beta1, Nil)>>}]

Orders(V) == UNION {{o \in [1..k -> V] : \A i, j \in 1..k : o[i] = o[j] => i = j} :
                       k \in 1..Cardinality(V)}

Versions(V) == {[i \in DOMAIN o |-> Doc(o[i], f[o[i]])] :
                   o \in Orders(V), f \in [V -> {String, Object(<<>>, {})}]}

(* Two versions of one CRD of upjet, in any order. *)
UpjetVersions ==
    [base : {<<Doc(v, Object([spec |-> s], {})), Doc(w, Object([spec |-> t], {}))>> :
                <<v, w>> \in {<<v1, v1beta1>>, <<v1beta1, v1>>},
                s \in UpjetSpecs \ {String}, t \in UpjetSpecs \ {String}}]

(* One CRD, its versions in any order; two CRDs with several versions. *)
ManyVersions ==
    [base : Versions({v1, v1alpha1, v1beta1, v1beta2})]
      \cup [base : Versions({v1beta1, v1beta2, v1beta10})]
      \cup [base : Versions({v1, v1beta1}), revision : Versions({v1, v1beta1})]

AllInputs == TwoRevisions \cup Revisions(UpjetSpecs) \cup EnumRevisions
             \cup NoSchemas \cup ManyVersions \cup UpjetVersions

(* The schemas in them, and their parts. *)
RECURSIVE HeightOf(_)
HeightOf(s) ==
    LET Heights == {HeightOf(t) : t \in PartsOf(s)}
    IN  IF Heights = {} THEN 0 ELSE 1 + CHOOSE h \in Heights : \A k \in Heights : k <= h

RECURSIVE WithParts(_)
WithParts(S) == IF S = {} THEN {} ELSE S \cup WithParts(UNION {PartsOf(s) : s \in S})

Given == UNION {UNION {{in[c][i].schema : i \in DOMAIN in[c]} : c \in DOMAIN in} :
                   in \in AllInputs} \ {Nil}

AllSchemas ==
    {s : s \in WithParts(Given \cup {inject(s) : s \in {s \in Given : Injectable(s)}})}

(* The recursive functions, of all schemas and of their diffs. *)
MaybeSchemas == {s : s \in AllSchemas \cup {Nil}}

AllDiffOf[old \in MaybeSchemas, new \in MaybeSchemas] == DiffBody(AllDiffOf, old, new)

AllDiffs == {sd : sd \in Range(AllDiffOf)}

FilteredOnce[sd \in AllDiffs] == ignoreOptionalNewPropertiesBody(FilteredOnce, sd)

LeftDiffs == {sd : sd \in AllDiffs \cup Range(FilteredOnce)}

AllFilterOf[sd \in LeftDiffs] == ignoreOptionalNewPropertiesBody(AllFilterOf, sd)

AllWalkOf[sd \in LeftDiffs \ {Nil}] == walkSchemaDiffBody(AllWalkOf, sd)

AllExtendsOf[base \in AllSchemas, revision \in AllSchemas] ==
    ExtendsBody(AllExtendsOf, base, revision)

AllToleratesOf[base \in AllSchemas, revision \in AllSchemas] ==
    ToleratesBody(AllToleratesOf, base, revision)

AllFieldsBreakOf[base \in AllSchemas, revision \in AllSchemas] ==
    FieldsBreakBody(AllFieldsBreakOf, base, revision)
=============================================================================
