# TLA+ models of official-providers-ci

This repository holds the tools that Upbound's official Crossplane providers
are built, tested, measured and documented with: a handful of Go commands
(`cmd/`, `internal/`, `pkg/`) and the GitHub workflows that run them.  This
directory models those with behaviour worth checking, checks small instances
with TLC, and proves the central results with TLAPS for every instance.

    tlc -config MCQuantify_quantify.cfg MCQuantify.tla     # a run
    tlapm QuantifyProofs.tla                               # the proofs of a module

Line numbers below are those of the source files; `managed.go`, `quantify.go` and
`upload.go` are `cmd/perf/internal/managed/managed.go`,
`cmd/perf/internal/quantify.go` and `internal/updoc/upload.go`, `crd.go` and
`flatten.go` are in `pkg/crdschema`, `generate.go` is in `internal/updoc`, and
`main.go` is that of the command at hand.

## Inventory

| Component | State it keeps | Operations | Interacts with | Hard behaviour | What makes it correct |
|---|---|---|---|---|---|
| perf experiment (`managed.go`) | where the sequence of phases is, temporary manifest files, results | apply, poll until ready, measure, delete | kubectl, the API server, and through them the provider and other users | everything it lists may change between two lists; a call fails in the middle; polling without bound; leftovers of earlier runs | what it applied is measured and deleted |
| perf quantify (`quantify.go`) | two buffered channels, the received results | start the experiment in a goroutine, select on results and timeout, report on each pod | the experiment by channels, Prometheus | goroutine against main, timeout against late answer, process end in the middle of the experiment | what it reports is a complete experiment; it ends |
| updoc upload (`upload.go`) | metadata of this run; objects in a shared bucket | walk, hash and upload every document, translate and write the index | other upload jobs and readers by the bucket; `index.json` of updoc generate | failure between any two writes, a write that fails when it is closed, jobs run again or side by side | what an index names is there, or its upload failed and was logged; documents never change |
| updoc generate (`generate.go`) | a tree of sections | read front matter, sort by weight, flatten, write `index.json` | updoc upload by the file | order and nesting | every document once, in order of weight |
| CRD differences (`pkg/crdschema`) | a map of diffs by version, changed in place | raw diff, filter, flatten | oasdiff, semver | recursion that changes what it walks; the same map filtered twice | exactly the non-breaking changes disappear; consecutive versions are compared |
| crddiff (`main.go`) | exit code | report as text, JSON or YAML | `pkg/crdschema` | the exit code is computed after the report from the same map | failure if something breaks, success if all that was allowed still is |
| ttr (`cmd/ttr`) | position in the list of APIs | discover, filter, list each API, print | API server | resources change between the lists; a list fails | nothing that is ready all the time is missed, nothing else is printed |
| lint-provider-family (`cmd/linter`) | cache of packages by group | check each CRD of a directory against its package | package registry | packages pushed while it runs; images with several base layers or none | one package of each service conforms for all its CRDs |
| buildtagger (`cmd/buildtagger`) | Go files | set, replace or delete the tag of each | its own output of earlier runs | repeated runs with other flags; a write that is cut off | a file is its source and at most one tag |
| cleanupexamples (`cmd/cleanupexamples`) | YAML files in an output directory | strip and copy each manifest | authors, outputs of earlier runs | failure half way, stale outputs | all processed, and clean |
| uptest workflow (`pr-comment-trigger.yml`) | commit statuses, resources in the cloud | list examples, set pending, test, set the verdict, clean up | GitHub, other runs, pushes | runs side by side; a push between the jobs; cancellation | a success is of these examples on this commit; the deletion of resources is tried; a test gets a verdict |
| other workflows | published packages, documents | publish, upload documents | all of the above | - | - |

`PROJECT.json` lists the same components with their status, and the hazards with
the line where each bites and the properties that would catch it.

## Modules

| Module | Models |
|---|---|
| `Experiment` | `RunExperiment` with its environment |
| `Quantify` | the command around it; EXTENDS `Experiment` and runs it as the goroutine |
| `DocSite` | abstract: the pages of a provider version, and the links to them, change all at once, when it is published; a page may arrive later or never |
| `UpdocUpload` | `ProcessIndex` in any number of jobs, and the bucket; implements `DocSite` |
| `Indexer` | `updoc generate`: a tree of documents and its `index.json`, over edits and runs |
| `SchemaDiff` | diffs of schemas, filter and flattening: functions that recurse, given by their equations |
| `CRDVersions` | the order of versions |
| `CRDDiff` | the crddiff command over `SchemaDiff` and `CRDVersions` |
| `CRDCompatibility` | relations between schemas, stated without diffs, and what exit code and report are to say in their terms |
| `TaggedSources` | abstract: a Go file is a source and at most one build tag |
| `BuildTagger` | the buildtagger command, run over and over; implements `TaggedSources` |
| `CleanupExamples` | the cleanupexamples command, between edits |
| `LintFamily` | the lint command against a registry that changes |
| `UptestTrigger` | runs of the uptest workflow on one pull request |
| `Ttr` | the ttr command against a cluster that changes |
| `MC...` | values of constants for TLC, one per specification |
| `...Proofs` | theorems and proofs about the module of that name; `QuantifyProofs` is also about `Experiment`, `UpdocProofs` about `UpdocUpload` and `Indexer`, and `CRDDiffProofs` about `SchemaDiff`, `CRDVersions` and `CRDCompatibility` |

Definitions keep the names of the Go functions where there is one, and
`PROJECT.json` maps each to its lines.  An operator under a comment that begins
with "Mutant" is not part of the model: it is a plausible bug in the definition
that follows, and a property is worth having if the bug violates it.

### Experiment and Quantify

`pc` is the call that `RunExperiment` is in, `todo` the templates that the loop
of the call has left; templates are a Go map, so each loop takes them in any
order.  An action is one kubectl call or one list of the API server, with all
that the code does up to the next.  An MR is its kind and the index in its name,
as for the API server: two templates of one kind deploy *the same* MRs.  Of an
MR the model keeps what its Ready condition looks like to `isReady` and
`calculateReadinessDuration`: absent, without status, without conditions, without
Ready, or False, Unknown, True.  Durations, averages and the text of manifests
are abstracted.

The provider changes conditions as it likes (unless `Stable`) but takes none back;
an earlier run may have left any MRs (`Init`); other users create and delete MRs
of theirs (`Foreign`), never those that the experiment owns by name.  With `faults` the client
may not be made, which ends the process (`NoClient`), and every read, list, `kubectl
apply` and `kubectl delete` may fail, kubectl after any part of its file.
`faults`, and `interval`, whether `--apply-interval` is set, are chosen from `Faults`
and `Intervals` at the start.  A template has at least one MR, and `kubectl delete` returns when the
finalizers are done, as kubectl does by default.

`Quantify` adds the two channels with their capacities, the `select`, the
timeout (which may fire at any time: no duration is modelled), and the report on
each pod.  When `Run` has returned or the goroutine has ended the process the goroutine
takes no more steps, but the cluster does.

### UpdocUpload and DocSite

Each publisher is a job: `Prepare` is the checkout of `provider-updoc.yml`, then there
is one action per document uploaded and one for the index.  No step of the workflow
generates `index.json`: it is a file of the checkout, and may list paths that are
gone or lack new ones (`Checkouts`).  A document object is named by content and
extension; SHA-256 is taken to have no collisions.  The deferred `Close` of `upload`
is what stores an object.  When it fails, as it mostly does when the deadline of 60
seconds passes, the error is logged and `upload` returns nil (171-175): `CloseFails`
may or may not have stored the object and adds it to `logged`, and the command goes on.
`Abort` is every early return and the end of the process.  The write of the index
itself may fail in the same way (`WriteIndex`).

The mapping to `DocSite` gives a reader the pages that an index names, the page
behind each entry of its table of contents, and the set of pages that are there.
The pages and links of a provider version are those of the directory of one
publisher, whole, or there are none; a page whose upload failed is not found until some
job stores the same content; a stale entry of `index.json` leads nowhere.

### Indexer

A tree is a record per entry, in the order of `ReadDir`; what front matter holds
is a name, possibly none that can be used, and a weight.  A name in the index is
the sequence of its parts, since `path.Join` leaves out empty ones; titles of which
`path.Clean` would drop more (`.`, `..`, slashes) are excluded by `Titles`.  A location is
the path of places in the tree.  The code carries prefix and list down the
recursion; here each directory has items with names and locations in it, and
`Below` puts the section's in front.  `Items` is the stable sort of `processDir`.

What recurses into directories is a function of directories: whether one fails,
its items, and its entries by their paths (`Tree`).  The three functions are
constants, `RecursionAssumption` gives each by its body, and `Depth` says that the
directories in a directory are less deep; TLC evaluates the assumption over every
directory in the trees of the run.  The properties are stated in terms of paths: the
documents of `Tree`, the order of the weights where two paths part, and the names
along a path.  `Edit` replaces the tree between runs, and a write that fails leaves
`Broken`, since the file is truncated first.  The properties are of a run that
succeeds: after one that fails `index.json` may be of another tree or broken, and only
the exit code tells.

### CRDDiff, SchemaDiff and CRDVersions

A schema has a type, an enum, properties, required properties, items,
additional properties and the rules of `x-kubernetes-validations`: one
representative of each way that the filter and the flattening treat a part of
oasdiff's diff (walked by both, or by neither).  A rule is the field that its
message names.  Arrays have items, as the API server demands of a CRD.  `Diff`
models oasdiff; it and the order of semver are external.

Three functions recurse: `Diff`, `ignoreOptionalNewProperties` and
`walkSchemaDiff`; so do the relations `Extends` (optional properties were added),
`Tolerates` (and constants to enums) and `FieldsBreak` of `CRDCompatibility`.  The provers cannot reason about RECURSIVE operators.  So each
is a constant function (`DiffOf`, ...), its body is an operator that takes the
function to call for the parts as its first argument, and an assumption equates
the two on all schemas (`RecursionAssumption`, `RelationsAssumption`).  TLC is
given the recursive functions that are defined by these bodies and evaluates the
assumptions; as a schema is higher than its parts (`SchemasAssumption`), the
equations determine the functions.  The paths that flattening returns are
relative to the diff at hand: a caller puts the name of the part in front.

`Load` is `loadCRD` for all manifests: with `--enable-upjet-extensions` the rules
of a version become required fields of its `spec.forProvider`, and a version
that does not fit is an error, or a panic if it has no schema (`LoadFails`).  A Go
method that changes a diff in place is an operator returning the changed diff,
and the map of diffs is the variable `diffs`, so that filtering it for the report
and again for the exit code are two steps on one state.  `GetDiffReport` cuts the
first twelve lines of oasdiff's text, which panics if it has fewer (`PanicText`).

The properties say for which pairs of schemas the exit code has to be 0 and for
which it has to be another.  They leave open what the repository contradicts itself
about: new constants of an enum and identical versions, as text, and arrays that
become objects, as JSON.  Of these, the runs `enums` and `conversion` show what the
code does.

### BuildTagger and TaggedSources

A file is a non-empty sequence of lines, each a tag, blank, or code, as
`strings.Split` yields it; writing no lines and reading them back gives one empty
line (`Saved`).  `Dropped`, `Added` and `Updated` are `getLineStartIndex` and
`updateFileWithBuildTag`.  `os.WriteFile` truncates before it writes: `Truncate` and
`Write` are two actions, and `Stop` may come between them, with any number of whole
lines written and perhaps a line cut off (`Partial`).  Which files match and
what tag each gets is chosen at `Start`, for every run anew.  The mapping to
`TaggedSources` splits a file into tag and source; a file that is being written
counts as what is written, so that only `Stop` in between maps to `Lose`, which keeps a beginning of the source.

### CleanupExamples

A file is a sequence of documents: manifests, empty documents, and those that
cannot be decoded.  `processYAML` and `filterAnnotations` are as in the code,
including that `GetAnnotations` returns nothing, and so all annotations go, if one
of them is not a string.  The walk visits files in the order of `filepath.Walk`;
directories are left out, as they are only created.

### LintFamily

An entry of the directory is a CRD (group and name), a folder, a file that
cannot be read, or an object that is no CRD.  An image is the set of layers that
`getPackageMetadata` may take: the labels are a Go map, and the last label that
holds "base" wins.  `Download` fills the cache (`metaMap`) with one of them.  What the
code checks of a CRD and its package is `Accepted`, in the order of the code, with
`AssertionFails` for the type assertion that every object before the CRD has to
pass.  The directory may fail to be read (`ReadFails`), and any download may fail,
for the registry's reasons or for those of the image (`DownloadFails`).  `Push` changes what the registry has for a tag; `pushed` is a history
variable for the properties.

### UptestTrigger

`stage` is the step that a run of the workflow is at, over its two jobs, each of which
checks out the pull request by itself (`listed`, `tested`); `job` is what
`failure()` and `always()` look at.  The context of a status, the hash of the list of
examples, is a constant of the run.  Any step may fail, a run may be cancelled,
where steps under `always()` still run, or lose its runner (`Lose`).

The job `uptest` has a condition on `needs.check-permissions`, which is not among its
`needs`, and GitHub fills `needs` for direct ones only: the condition is not met and
the job is skipped.  Whether it is met is chosen from `Allowed`: `SkipJob` ends a run
with its status pending, and `Checkout` needs a condition that is met, so that the
rest of the job is checked as it is written.  `cloud` says whether the tests left
resources behind and `passed` what has passed; both are only read by properties.

### Ttr

An API is one entry of discovery; objects are shared by the versions of a kind.
A filter has a group, version and kind, possibly empty, and the set of names that
its expression matches, which has the empty name iff the expression matches it.
`match` is first asked with an empty name, before the list, and then for each
object.  A list is a snapshot; `Change` may come between any two lists.  `steady`
and `ever` are history variables.  The seconds that are printed are left out.

## Runs

| Run | Checks | Bounds, and why they suffice |
|---|---|---|
| `experiment` | `PanicHasReason`, `FaultFreeReturns`, `EndsIfReady` | two kinds, three MRs and a foreign one, both values of `--apply-interval`, with faults and without, every condition, coming and going; two templates and a template of two are the least for "the last MR" and "the next file" to differ |
| `quantify` | `QTypeOK`, `ReceiveErrFindsNil`, `ReportedIsComplete`, `EveryMRMeasured`, `DeletedWhenReturned`, `Ends` | the same MRs, with faults, and two pods: every way for the goroutine to end or not to end, against the timeout; ready MRs stay ready and Ready is not Unknown, or `EveryMRMeasured` fails (see below); a channel never holds more than one value |
| `upload` | `TypeOK`, `IndexResolves`, `BlobsImmutable`, `ImplementsDocSite` | two jobs of one provider version, a listed (`.md`) and an unlisted (`.png`) document, two contents: shared, changed, removed and restored documents, a stale entry of `index.json`, failing uploads, and two indexes in a race |
| `indexer` | `GTypeOK`, `EachOnceInOrder`, `NamedBySections`, `UnfitFails` | every root of up to three entries of documents (light, heavy, untitled, not `.md`), of directories of up to two entries with a light, a heavy or no `_index.md`, of directories in directories and of unfit ones; three entries are the least for stability to show beside order, two levels for a prefix of sections |
| `crddiff` | `TypeOK`, `ConsecutiveCompared`, `TextVerdict`, `StructuredVerdict` | every pair of two dozen shapes (scalars, objects of up to two fields, arrays and maps of them) under `spec`, of upjet's shapes with every set of rules, of enums, and manifests without a schema; every order of up to four versions, with a two-digit one; two versions of upjet; two CRDs whose versions do or do not correspond.  The assumptions about the recursive functions and the relations are evaluated for all of these schemas and their parts |
| `enums` | `NoDiffOfTolerated`, which fails | fields with one or two constants |
| `conversion` | `ConversionReported`, which fails | arrays and objects with a field |
| `buildtagger` | `TypeOK`, `AllTagged`, `ImplementsTaggedSources` | two files of every content of up to four lines with at most one tag, two tags: the code looks at two lines, and the others must survive; a stop leaves any beginning of them; runs are unbounded, as contents repeat |
| `lint` | `TypeOK`, `OnePackageConforms`, `FailureHasReason` | directories of up to four entries with two CRDs of one service, thirty packages that deviate in one or two ways, images of two layers, one push, and failing reads: a push between the two CRDs is the least to tell one package from two |
| `uptest` | `TypeOK`, `SuccessWasTested`, `SweptAtEnd`, `VerdictGiven` | two runs of the same or of different examples, one push, a job that is skipped or not: two runs on one status, and two commits between the jobs |
| `cleanup` | `TypeOK`, `AllProcessed`, `OutputsAreClean` | two YAML files and another, seven contents from empty to four documents, with all annotations or none, unbounded edits and runs |
| `ttr` | `TypeOK`, `NoneMissed`, `OnlySelected` | one kind in two versions, a subresource and a namespaced kind, two names; the filters of the command's own examples, a version, and one that cannot be parsed |

Two runs end with a violation: the code does not do what a comment or a test of the
repository says.

* `enums`: "No diff should be reported if a new enum constant is added to a field"
  (crd_test.go:164), but crddiff exits with 1 as text, since only properties and
  items are filtered (crd.go:389-398).  The test passes because its loop is over the
  diffs that it wants (355).  The like holds of "No Diff should be reported if the
  version schemas are identical" (385): two versions differ by their names, and the
  filter keeps that diff (366), so that crddiff self fails or panics as text.
* `conversion`: the new properties of an array that becomes an object are skipped
  because "the type change itself will be captured by extractTypeChanges"
  (flatten.go:114-115), which skips it too (156-158); nothing is reported, and the
  exit code is 0.

Other places where the code is not what its text suggests, met while modelling.  A
property above is either stated for what the code does, or has an assumption or a
constant of its run that excludes the case.

* The select of quantify.go:105 has no case for the error of a failed experiment:
  the command waits for the whole timeout, says that the duration was exceeded
  (112), and succeeds.  `Ends` holds because of the timeout only.
* Without `--apply-interval`, the one temporary file is closed after the first
  template, and a second one cannot be written (managed.go:99); the example of
  quantify.go:59-60 passes two.  `FaultFreeReturns` says that this is the only
  failure.
* An MR that another user creates between the two lists has no status yet and
  panics the process (managed.go:230).
* Two templates of one kind share their MRs, so the second deletion fails and
  later files are left (managed.go:134).
* An MR whose Ready is Unknown, or that stops being ready between the two lists,
  is not measured (managed.go:205, 227-247); after the timeout nothing is deleted
  (quantify.go:111).
* The failure that loses a document is only logged, and the index names it
  (upload.go:172); so is that of the index, and the command succeeds.
* A field that becomes required, or an enum constant that is removed, is in no
  structured report (flatten.go:96-98), although crd_test.go:177 calls the latter
  breaking.  v1beta10 sorts before v1beta2 (crd.go:305), as semver.Sort specifies.
* A failed walk of cleanupexamples exits with 0 (main.go:167-171); the outputs of
  inputs that were removed stay; a manifest with an annotation that is not a
  string loses all of them (main.go:39).
* The linter's flag `--provider-version` takes its default from `PROVIDER_NAME`
  (main.go:73), and a package with any object in front of the CRD panics (128).
* Of a file that buildtagger is writing when it stops only a beginning is left, or
  nothing (main.go:125).
* ttr reports no managed resource in a namespace (main.go:93), although it promises
  "all managed resources" (38); its properties are about cluster-scoped APIs.  And `///example-.*`
  is not anchored, so it also matches names that have "example-" in them
  (main.go:43, filter.go:46).
* The job `uptest` is skipped, since its condition is about `needs.check-permissions`,
  which is not among its `needs` (pr-comment-trigger.yml:142-144), and the status stays
  pending; a failed cluster dump sets a failure over a success on the same commit
  (259); after a push between the jobs the pending status of the first commit
  stays, and a job that fails before its checkout has no commit to report on.

## Fairness

`Spec` of `Experiment` has weak fairness of `RunExperiment`: the goroutine is
scheduled, and every sleep ends.  Nothing is assumed of the provider, and
`EndsIfReady` has the readiness of the MRs as its hypothesis.  `QSpec` has weak
fairness of `Run` only, that is, the main goroutine is scheduled and
`time.After` fires: `Ends` needs nothing of the goroutine or the cluster.
`Spec` of `UptestTrigger` has weak fairness of `Step(r)`, the steps of a run on its
runner: GitHub ends every job, by a timeout if need be.  No fairness of triggers,
pushes, cancellation or loss is assumed; `VerdictGiven` is of the runs that started
their tests, and excuses those that were cancelled, lost their runner, or failed to
set the status.  The other modules have safety properties only: their commands may
be stopped anywhere.

Deadlock is checked in every run; a command that ended stutters explicitly, or is
run again.

## Proofs

All theorems are of the specifications as they stand, with constants of any
size under the named assumptions of their modules.

* `QuantifyProofs`, on `Experiment`.  `TypeCorrect`.  `CleanDeletes`: `DeletedWhenReturned` is not
  inductive, since nothing says that the files name what is in the cluster.
  `CInv` says, phase by phase, that they do: while applying, every MR of a
  finished template, and of a started one those applied, is in a file
  (`Applying`); after that all of `Owned` is (`Deployed`); while deleting, an MR of
  `Owned` that is present is in a file that is left (`Deleting`).  No environment
  step adds an MR of `Owned`.  `ResultsComplete`: if ready MRs stay ready and Ready
  is never Unknown, a checked template's MRs are present and True until they are
  measured (`Measuring`).  `PanicsAreExplained`: an MR of the experiment that was
  checked has a status from then on (`Seen`), so that the second list panics only
  over missing conditions or a new MR of someone else.  `FaultFree`: for
  templates of distinct kinds, no two files
  name the same MR and every file that is left names MRs that are there (`FInv`),
  so `kubectl delete` succeeds and only the closed file is left to fail.
* `QuantifyProofs`, on `Quantify`.  `StepOfExperiment`: each step of the command is a step of the
  experiment or leaves it alone, so the invariants above carry over.
  `QTypeCorrect`; `ErrorBranchIsDead` and `ReportsAreComplete` from `Channels`, the
  content of both channels by where goroutine and `Run` are.
* `UpdocProofs`, on `UpdocUpload`.  `TypeCorrect`; `DocumentsImmutable`, since a name
  determines the content (`Named`); `IndexesResolve` from `Uploaded`: what a job's
  metadata names is in the bucket, or its upload was logged as failed;
  `BucketImplementsDocSite` from both: writing an index maps to `Publish`, a checkout
  to `Prepare`, and the upload of a document that an index names already, but that had
  failed to arrive, to `Appear`.  No theorem assumes that uploads succeed or that
  `index.json` is fresh.
* `UpdocProofs`, on `Indexer` (whose behaviour has names of its own, `GSpec` and so
  on, so that one module can extend both).  `GTypeCorrect`, `ListsEachOnceInOrder`,
  `NamesAreOfSections` and `UnfitTreesFail` follow from `GInv`: after a success
  the index is `flatten` of the tree, and the tree does not fail.  The work is in
  what `flatten` is, for trees of any depth.  `ItemsSorted`: the rank of an entry in
  the stable order is a bijection, so each kept entry has one place.  `Lists`: a
  list has the documents below some entries, each once, in order and well named;
  appending the items of a heavier entry keeps it so (`ListsMore`), and the items of
  a directory, put below its place, are such a list if its own are
  (`ListsBelow`, with `BeforeThrough` for the order and `NameThrough` for the names).
  `FlattenLists` then holds by induction over the entries as sorted
  (`ListsByEntries`) and over the depth (`DirectoryInduction`).
  `FailsIfUnfit`, also by depth: failing is having an unfit entry at any path.
* `BuildTaggerProofs`.  `TypeCorrect` and `FilesImplementTaggedSources` rest on
  `UpdatedProperties`, which says for any content what an update makes of tag and
  source, and on the invariant that no source begins with a tag (`OneTag`), without
  which deleting a tag could uncover another.  `SuccessTagsAll` from `Visited`: all
  that the walk has left behind is right, for any set of files.
* `LintFamilyProofs`.  `FamilySound`: each CRD before the position of the loop was
  accepted with the cached package of its group, and a cached package was pushed
  (`LInv`); the cache is never overwritten.  `AcceptedConforms` shows that the
  checks, in the order and with the early ends of the code, imply `Conforms`.
  `TypeCorrect`; `FailuresJustified`: each way to fail has its cause in the directory
  or in a package that was pushed; it is about wrong packages and panics, since
  directory and registry may fail for reasons of their own.
* `CleanupExamplesProofs`.  `TypeCorrect`; `Processed`: the documents of a file that
  the walk has left behind are cleaned one by one, for files of any length, since
  `Without` keeps what it should in its order (induction over prefixes);
  `CleanOutputs`: an output is what `processYAML` makes of some content, whatever run
  wrote it, and of that `processYAML` changes nothing.
* `CRDDiffProofs`.  Of the operators: `SortVersionsSorts` (the loop over swaps keeps
  the documents and leaves them in the order of `semver.Sort`, which is `Before` on
  names; ranks in a finite total order); `DiffsAreExact` (no diff exactly if the
  schemas are equal), `FilterIsExact` (nothing is left of a diff exactly if the new
  schema `Extends` the old one), `FlatteningIsExact` (a filtered diff has a change
  exactly if `FieldsBreak`), `FilterIsIdempotent` (so that filtering for the report
  and again for the exit code is filtering once): each by induction on the height of
  the schemas, where the step is a lemma about the parts.  Induction is a fact
  about sets of numbers (`SetInduction`), so that no theorem with an operator
  parameter is needed.  Of the command, from an invariant that says what was loaded
  (`LoadedOfUpjet`), that the map is the raw diff filtered as often as the state says
  (`RawDiffKept`), and how it ended (`EndsRight`): `TypeCorrect`,
  `ComparesConsecutive`, and with the above and `RelationsConsistent` (`Extends`
  implies `Tolerates`, which excludes `FieldsBreak`) `TextIsRight` and
  `StructuredIsRight`, for schemas of any depth.
* `UptestTriggerProofs`.  `TypeCorrect`, with the order of the two checkouts;
  `SuccessesTested`: a run at the step that sets a success has passed on the commit
  it sets it on; `RunsSweep`: only a lost runner ends a run with resources that no
  step tried to delete.
* `TtrProofs`.  `TypeCorrect`; `ReportsAll`: what was ready since the discovery and
  is selected is reported for each API before the position of the loop, since the
  question with an empty name never turns away an API that a name would select;
  `ReportsOnlySelected`.

Only model-checked: the liveness properties (`EndsIfReady`, `Ends`,
`VerdictGiven`), which like everything about ENABLED are out of the prover's
reach.  That there are functions as `RelationsAssumption` and the two
`RecursionAssumption`s describe them, for schemas and for directories, is not
proved: it is recursion on a height, and TLC computes them for its runs.

## Not modelled

* `internal/common` of perf: averages and peaks are floating-point numbers, and the
  Prometheus client keeps no state.  That the average divides by zero when
  nothing was measured (common.go:102) is therefore not checked.
* `internal/version`: a constant.
* `publish-provider-family.yml` and `provider-publish-service-artifacts.yml`, which
  chain actions of third parties; how matrix jobs are split is shell arithmetic
  without state.
* Text: the wording of reports, JSON and YAML, paths of temporary files, and
  durations.

## Plan

Open: `Indexer` composed with `UpdocUpload`, for a repository whose `index.json` was
generated before it was committed.
