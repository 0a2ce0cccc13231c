------------------------------- MODULE CRDDiff -------------------------------
(***************************************************************************)
(* The crddiff command (cmd/crddiff/main.go) over the differences computed *)
(* by pkg/crdschema/crd.go: load the CRDs, get the raw diff of the two or  *)
(* of the versions of one, filter it, report it, and derive the exit code. *)
(* The raw diff is a map that filterNonBreaking changes in place.          *)
(***************************************************************************)
EXTENDS CRDVersions, SchemaDiff

CONSTANTS
    Inputs,   \* [base, revision] in the mode "revision", [base] in "self"
    Formats,  \* --output: "text", "json" ("yaml" differs in the encoding)
    KeepAll,  \* the values of --keep-all-changes
    Upjet     \* the values of --enable-upjet-extensions

(* A CRD is the sequence of its versions, each a [version, schema], one or *)
(* more and of different names; the schema is Nil if the manifest has none.*)
IsCRD(crd) ==
    /\ crd \in Seq({crd[i] : i \in DOMAIN crd}) /\ crd # <<>>
    /\ \A i \in DOMAIN crd :
         DOMAIN crd[i] = {"version", "schema"} /\ crd[i].version \in Names
    /\ \A i, j \in DOMAIN crd : crd[i].version = crd[j].version => i = j

ASSUME InputsAssumption ==
    \A in \in Inputs :
        /\ DOMAIN in \in {{"base"}, {"base", "revision"}}
        /\ \A c \in DOMAIN in : IsCRD(in[c])

VARIABLES
    input,    \* the CRDs as in their files
    format, keepAll, upjet,
    pc,       \* "load", "diff", "report", "exit" or "done"
    crds,     \* the CRDs as loaded
    diffs,    \* the map of the diffs by version name
    report,   \* what was reported: changes, or version names (text)
    code      \* the exit code

flags == <<input, format, keepAll, upjet>>
vars == <<flags, pc, crds, diffs, report, code>>

Init ==
    /\ input \in Inputs /\ format \in Formats
    /\ keepAll \in KeepAll /\ upjet \in Upjet
    /\ pc = "load" /\ crds = input
    /\ diffs = <<>> /\ report = {} /\ code = "none"

SelfMode == "revision" \notin DOMAIN input

-----------------------------------------------------------------------------
(* loadCRD: with --enable-upjet-extensions, the rules of each version of a *)
(* CRD become required fields of its spec.forProvider.                     *)

HasForProvider(schema) ==
    "spec" \in DOMAIN schema.props /\ "forProvider" \in DOMAIN schema.props["spec"].props

(* Its rules are upjet's, and name fields that there are. *)
Injectable(schema) ==
    /\ schema # Nil /\ HasForProvider(schema)
    /\ LET spec == schema.props["spec"]
       IN  spec.rules \subseteq DOMAIN spec.props["forProvider"].props

(* Mutant: the fields are required of spec. *)
injectInSpec(schema) ==
    [schema EXCEPT !.props["spec"].required = @ \cup schema.props["spec"].rules]

inject(schema) ==
    [schema EXCEPT !.props["spec"].props["forProvider"].required =
         @ \cup schema.props["spec"].rules]

injectUpjetXKubernetesValidationRules(crd) ==
    [i \in DOMAIN crd |-> [crd[i] EXCEPT !.schema = inject(@)]]

(* All versions, in the order they are loaded. *)
Manifests(c) == c.base \o (IF SelfMode THEN <<>> ELSE c.revision)

Rejected(doc) == ~Injectable(doc.schema)

Load ==
    /\ pc = "load"
    /\ upjet => \A i \in DOMAIN Manifests(input) : ~Rejected(Manifests(input)[i])
    /\ crds' = IF upjet THEN [c \in DOMAIN input |->
                               injectUpjetXKubernetesValidationRules(input[c])]
               ELSE input
    /\ pc' = "diff"
    /\ UNCHANGED <<flags, diffs, report, code>>

(* "Failed to load CRDs", or the panic of a version without a schema: the  *)
(* first version that is wrong decides.                                    *)
LoadFails ==
    /\ pc = "load" /\ upjet
    /\ \E i \in DOMAIN Manifests(input) :
         LET doc == Manifests(input)[i]
         IN  /\ Rejected(doc)
             /\ \A j \in 1..(i - 1) : ~Rejected(Manifests(input)[j])
             /\ code' = IF doc.schema = Nil THEN "panic" ELSE "fatal"
    /\ pc' = "done"
    /\ UNCHANGED <<flags, crds, diffs, report>>

-----------------------------------------------------------------------------
(* GetRawDiff *)

(* Mutant: the diff is taken from the revision to the base. *)
schemaDiffReversed(base, revision) ==
    [info     |-> IF base.version = revision.version THEN Nil ELSE revision.version,
     endpoint |-> Diff(revision.schema, base.schema)]

(* diff.Get compares the documents of two versions: the version names,     *)
(* which the text of the diff is about, too, and the schemas.              *)
schemaDiff(base, revision) ==
    [info     |-> IF base.version = revision.version THEN Nil ELSE base.version,
     endpoint |-> Diff(base.schema, revision.schema)]

Unchanged(d) == d.info = Nil /\ d.endpoint = Nil

VersionsOf(docs) == {docs[i].version : i \in DOMAIN docs}

IndexOf(docs, v) == CHOOSE i \in DOMAIN docs : docs[i].version = v

(* Each version but the first is compared with the one before it. *)
SelfDiff(docs) ==
    LET sorted == sortVersions(docs)
    IN  [v \in VersionsOf(Tail(sorted)) |->
            schemaDiff(sorted[IndexOf(sorted, v) - 1], sorted[IndexOf(sorted, v)])]

(* The versions of base and revision correspond by their position. *)
Corresponding(base, revision) ==
    \A i \in DOMAIN base :
        i \in DOMAIN revision /\ base[i].version = revision[i].version

(* getOpenAPIv3Document: each version has a schema. *)
Documented == \A i \in DOMAIN Manifests(crds) : Manifests(crds)[i].schema # Nil

Comparable ==
    Documented /\ (~SelfMode => Corresponding(crds.base, crds.revision))

RevisionDiff(base, revision) ==
    [v \in VersionsOf(base) |->
        schemaDiff(base[IndexOf(base, v)], revision[IndexOf(base, v)])]

RawDiff == IF SelfMode THEN SelfDiff(crds.base)
           ELSE RevisionDiff(crds.base, crds.revision)

GetRawDiff ==
    /\ pc = "diff"
    /\ Comparable
    /\ diffs' = RawDiff
    /\ pc' = "report"
    /\ UNCHANGED <<flags, crds, report, code>>

(* kingpin.FatalIfError *)
NotComparable ==
    /\ pc = "diff"
    /\ ~Comparable
    /\ code' = "fatal"
    /\ pc' = "done"
    /\ UNCHANGED <<flags, crds, diffs, report>>

-----------------------------------------------------------------------------
(* filterNonBreaking: a diff of the endpoint that is left empty is deleted *)
(* from the map; a diff without one is not looked at.                      *)

Filtered(d) == [d EXCEPT !.endpoint = ignoreOptionalNewProperties(d.endpoint)]

Kept(d) == d.endpoint = Nil \/ ~IsEmpty(Filtered(d).endpoint)

filterNonBreaking(ds) ==
    [v \in {v \in DOMAIN ds : Kept(ds[v])} |-> Filtered(ds[v])]

(* FlattenDiff, for the changes of all versions of a ChangeReport. *)
Changes(ds) ==
    UNION {{<<v, c>> : c \in walkSchemaDiff(ds[v].endpoint)} :
              v \in {v \in DOMAIN ds : ds[v].endpoint # Nil}}

-----------------------------------------------------------------------------
(* The maps that are reported. *)

Differing(ds) == {v \in DOMAIN ds : ~Unchanged(ds[v])}

ForReport(ds) == IF keepAll THEN ds ELSE filterNonBreaking(ds)

-----------------------------------------------------------------------------
(* reportText: the versions that differ. *)

ReportText ==
    /\ pc = "report" /\ format = "text"
    /\ diffs' = ForReport(diffs)
    /\ report' = Differing(diffs')
    /\ pc' = "exit"
    /\ UNCHANGED <<flags, crds, code>>

(* GetDiffReport drops 12 lines of oasdiff's text, which may have fewer    *)
(* for a diff that has no endpoint: the slice panics.                      *)
PanicText ==
    /\ pc = "report" /\ format = "text"
    /\ diffs' = ForReport(diffs)
    /\ \E v \in Differing(diffs') : diffs'[v].endpoint = Nil
    /\ code' = "panic"
    /\ pc' = "done"
    /\ UNCHANGED <<flags, crds, report>>

(* With --keep-all-changes, the breaking changes are computed anew. *)
ExitText ==
    /\ pc = "exit" /\ format = "text"
    /\ LET breaking == IF keepAll THEN Differing(filterNonBreaking(RawDiff))
                       ELSE report
       IN  code' = IF report # {} /\ breaking # {} THEN "1" ELSE "0"
    /\ pc' = "done"
    /\ UNCHANGED <<flags, crds, diffs, report>>

-----------------------------------------------------------------------------
(* reportJSON and reportYAML: the changes. *)

ReportStructured ==
    /\ pc = "report" /\ format # "text"
    /\ diffs' = ForReport(diffs)
    /\ report' = Changes(diffs')
    /\ pc' = "exit"
    /\ UNCHANGED <<flags, crds, code>>

(* The same map is filtered, perhaps once more, for the exit code. *)
ExitStructured ==
    /\ pc = "exit" /\ format # "text"
    /\ diffs' = filterNonBreaking(diffs)
    /\ code' = IF Changes(diffs') # {} THEN "1" ELSE "0"
    /\ pc' = "done"
    /\ UNCHANGED <<flags, crds, report>>

Done == pc = "done" /\ UNCHANGED vars

Next ==
    \/ Load \/ LoadFails
    \/ GetRawDiff \/ NotComparable
    \/ ReportText \/ PanicText \/ ExitText
    \/ ReportStructured \/ ExitStructured
    \/ Done

Spec == Init /\ [][Next]_vars

-----------------------------------------------------------------------------
(* What the properties compare the code with: the order of the versions,   *)
(* and the pairs of schemas of the input.                                  *)

(* Numbers are ordered as the names of the versions are: by their first    *)
(* digit, and then with one digit before with two, so that 1, 10, 19, 2.   *)
NumberPlace(n) == IF n < 10 THEN 11 * n ELSE 11 * (n \div 10) + (n % 10) + 1

(* v is a version before w: v1alpha1, v1beta1, v1beta10, v1beta2, v1, v2.  *)
Before(v, w) ==
    \/ v.stage # 0 /\ w.stage = 0
    \/ /\ v.stage = 0 <=> w.stage = 0
       /\ \/ v.major < w.major
          \/ v.major = w.major /\ v.stage < w.stage
          \/ /\ v.major = w.major /\ v.stage = w.stage
             /\ NumberPlace(v.n) < NumberPlace(w.n)

Precedes(docs, v, w) ==
    Before(v, w) /\ ~\E u \in VersionsOf(docs) : Before(v, u) /\ Before(u, w)

At(docs, v) == docs[IndexOf(docs, v)].schema

(* With the flag, a rule of spec requires a field of forProvider. *)
Effective(schema) ==
    IF ~upjet THEN schema
    ELSE [schema EXCEPT !.props["spec"].props["forProvider"].required =
              @ \cup schema.props["spec"].rules]

(* The pairs of schemas that the command is to compare. *)
Pairs ==
    {<<Effective(p[1]), Effective(p[2])>> : p \in
        IF SelfMode
        THEN {<<At(input.base, vw[1]), At(input.base, vw[2])>> : vw \in
                {vw \in VersionsOf(input.base) \X VersionsOf(input.base) :
                    Precedes(input.base, vw[1], vw[2])}}
        ELSE {<<At(input.base, v), At(input.revision, v)>> : v \in VersionsOf(input.base)}}

(* The command got as far as a report. *)
Exits == pc = "done" /\ code # "fatal" /\ Documented

-----------------------------------------------------------------------------
(* Properties. *)

TypeOK ==
    /\ input \in Inputs /\ format \in Formats
    /\ keepAll \in KeepAll /\ upjet \in Upjet
    /\ pc \in {"load", "diff", "report", "exit", "done"}
    /\ code \in {"none", "fatal", "panic", "0", "1"}
    /\ DOMAIN crds = DOMAIN input
    /\ \A c \in DOMAIN crds : VersionsOf(crds[c]) = VersionsOf(input[c])
    /\ DOMAIN diffs \subseteq VersionsOf(input.base)
    /\ \A v \in DOMAIN diffs :
         diffs[v].info \in IF SelfMode THEN VersionsOf(input.base) \ {v} ELSE {Nil}
    /\ code = "none" <=> pc # "done"

(***************************************************************************)
(* Whatever the order in the CRD, each version but the least is compared   *)
(* with the one before it, and its own schema is the revision (277-315):   *)
(* before it in the order of semver.Sort, in which v1beta10 is compared    *)
(* with v1beta1, not with v1beta9.                                         *)
(***************************************************************************)
ConsecutiveCompared ==
    pc = "report" /\ SelfMode =>
        /\ \A v, w \in VersionsOf(input.base) : Precedes(input.base, v, w) =>
             /\ w \in DOMAIN diffs
             /\ diffs[w].info = v
             /\ diffs[w].endpoint = Diff(Effective(At(input.base, v)),
                                         Effective(At(input.base, w)))
        /\ \A w \in DOMAIN diffs : \E v \in VersionsOf(input.base) : Precedes(input.base, v, w)
=============================================================================
