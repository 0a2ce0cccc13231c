----------------------------- MODULE LintFamily -----------------------------
(***************************************************************************)
(* The lint-provider-family command (cmd/linter/lint-provider-family): for *)
(* each generated CRD of a directory, get the package of its service from  *)
(* the registry, once, and check that it holds the CRD and belongs to the  *)
(* provider's family.  Packages may be pushed again while it runs.         *)
(***************************************************************************)
EXTENDS Naturals, Sequences

CONSTANTS
    Groups,          \* first segments of the API groups, like "ec2"
    Provider,        \* --provider-name, the group of the family's package
    ProviderConfig,  \* the name of the ProviderConfig CRD
    FamilyRef,       \* the reference to the family's package
    CheckAuth,       \* --check-auth-annotation
    Directories,     \* what may be in --crd-dir: sequences of entries
    Images,          \* what may be pushed for a tag: its base layers
    MaxPushes,       \* bound: pushes while the command runs
    Folder, Unreadable, NoCRD,  \* entries that are not CRDs
    BadLayer, NoPackage

ASSUME ProviderAssumption == Provider \in Groups /\ MaxPushes \in Nat

(* A package has objects, [crd, name, auth], and metadata, of which the    *)
(* code looks at [provider, label, dependsOn].  An image is the set of its *)
(* layers whose label contains "base": the command takes any one of them,  *)
(* as the labels are a map.  A layer that is not there, as without such a  *)
(* label, or in which no package can be found and parsed, is BadLayer.     *)
AllImages == UNION {Images[g] : g \in Groups}

Packages == (UNION AllImages) \ {BadLayer}

ASSUME ImagesAssumption ==
    /\ {} \notin AllImages
    /\ NoPackage \notin UNION AllImages

(* No two Providers and no two CRDs of one name are in one package. *)
ASSUME PackagesAssumption ==
    \A p \in Packages :
        /\ p.objects \in Seq({p.objects[k] : k \in DOMAIN p.objects})
        /\ p.meta \in Seq({p.meta[k] : k \in DOMAIN p.meta})
        /\ \A j, k \in DOMAIN p.objects :
             p.objects[j].crd /\ p.objects[k].crd /\ p.objects[j].name = p.objects[k].name
               => j = k
        /\ \A j, k \in DOMAIN p.meta : p.meta[j].provider /\ p.meta[k].provider => j = k

(* A directory is a sequence of entries, its CRDs of known groups. *)
ASSUME DirectoriesAssumption ==
    \A d \in Directories :
        /\ d \in Seq({d[i] : i \in DOMAIN d})
        /\ \A i \in DOMAIN d :
             d[i] \notin {Folder, Unreadable, NoCRD} => d[i].group \in Groups

VARIABLES
    dir,       \* the entries of --crd-dir, in the order of os.ReadDir
    next,      \* the loop is at this entry
    metaMap,   \* the package of each group, once it was downloaded
    status,    \* "run", or how the command ended
    registry,  \* the image of each group's package at --provider-version
    pushed,    \* all that the registry held since the command started
    pushes

command == <<dir, next, metaMap, status>>
vars == <<command, registry, pushed, pushes>>

Init ==
    /\ dir \in Directories
    /\ next = 1
    /\ metaMap = [g \in Groups |-> NoPackage]
    /\ status = "run"
    /\ registry \in [Groups -> AllImages]
    /\ \A g \in Groups : registry[g] \in Images[g]
    /\ pushed = registry
    /\ pushes = 0

-----------------------------------------------------------------------------
(* What is checked of one CRD and the package of its group. *)

IsConfig(crd) == crd.group = Provider

(* The type assertion is on every object before the CRD. *)
AssertionFails(crd, p) ==
    \E k \in DOMAIN p.objects :
        /\ ~p.objects[k].crd
        /\ \A j \in 1..(k - 1) : p.objects[j].name # crd.name

(* The first object of that name. *)
IsFirst(k, crd, p) ==
    /\ p.objects[k].crd /\ p.objects[k].name = crd.name
    /\ \A j \in 1..(k - 1) : p.objects[j].crd => p.objects[j].name # crd.name

Found(crd, p) == \E k \in DOMAIN p.objects : IsFirst(k, crd, p)

checkAuthAnnotation(crd, p) ==
    CheckAuth /\ crd.name = ProviderConfig =>
        \E k \in DOMAIN p.objects : IsFirst(k, crd, p) /\ p.objects[k].auth

(* Mutant: the family's package needs the label, too. *)
LabelAlways(crd, m) == m.label

(* The family label is on every package but that of the family. *)
LabelRight(crd, m) == IF IsConfig(crd) THEN ~m.label ELSE m.label

DependencyRight(crd, m) == IsConfig(crd) \/ m.dependsOn = <<FamilyRef>>

(* The loop ends at the first metadata that is a Provider's. *)
MetaRight(crd, p) ==
    \E k \in DOMAIN p.meta :
        /\ p.meta[k].provider
        /\ \A j \in 1..(k - 1) : ~p.meta[j].provider
        /\ LabelRight(crd, p.meta[k]) /\ DependencyRight(crd, p.meta[k])

Accepted(crd, p) == Found(crd, p) /\ checkAuthAnnotation(crd, p) /\ MetaRight(crd, p)

-----------------------------------------------------------------------------
(* lint *)

Entry == dir[next]

AtEntry == status = "run" /\ next \in DOMAIN dir

AtCRD == AtEntry /\ Entry \notin {Folder, Unreadable, NoCRD}

Advance == next' = next + 1 /\ UNCHANGED <<dir, status>>

End(how) == status' = how /\ UNCHANGED <<dir, next>>

(* os.ReadDir fails before the loop, or Info of an entry that was removed. *)
ReadFails ==
    /\ status = "run" /\ (next = 1 \/ AtEntry)
    /\ End("error")
    /\ UNCHANGED <<metaMap, registry, pushed, pushes>>

Skip ==
    /\ AtEntry /\ Entry = Folder
    /\ Advance
    /\ UNCHANGED <<metaMap, registry, pushed, pushes>>

(* loadCRD fails, or its type assertion does. *)
LoadFails ==
    /\ AtEntry /\ Entry \in {Unreadable, NoCRD}
    /\ End(IF Entry = Unreadable THEN "error" ELSE "panic")
    /\ UNCHANGED <<metaMap, registry, pushed, pushes>>

Uncached(g) == metaMap[g] = NoPackage

(* Mutant: that the layer was not found is not noticed. *)
AnyLayer(image) == image

Usable(image) == image \ {BadLayer}

(* getPackageMetadata *)
Download ==
    /\ AtCRD /\ Uncached(Entry.group)
    /\ \E layer \in Usable(registry[Entry.group]) :
         metaMap' = [metaMap EXCEPT ![Entry.group] = layer]
    /\ UNCHANGED <<dir, next, status, registry, pushed, pushes>>

(* The registry does not answer, whatever it holds, or the layer that was  *)
(* taken is a bad one.                                                     *)
DownloadFails ==
    /\ AtCRD /\ Uncached(Entry.group)
    /\ End("error")
    /\ UNCHANGED <<metaMap, registry, pushed, pushes>>

AtCheck == AtCRD /\ ~Uncached(Entry.group)

(* Mutant: the tag is resolved again for each CRD. *)
PackageAnew ==
    IF Usable(registry[Entry.group]) = {} THEN metaMap[Entry.group]
    ELSE CHOOSE p \in Usable(registry[Entry.group]) : TRUE

Package == metaMap[Entry.group]

Accept ==
    /\ AtCheck
    /\ ~AssertionFails(Entry, Package) /\ Accepted(Entry, Package)
    /\ Advance
    /\ UNCHANGED <<metaMap, registry, pushed, pushes>>

(* log.Fatalln, or the panic of the type assertion. *)
Reject ==
    /\ AtCheck
    /\ AssertionFails(Entry, Package) \/ ~Accepted(Entry, Package)
    /\ End(IF AssertionFails(Entry, Package) THEN "panic" ELSE "fatal")
    /\ UNCHANGED <<metaMap, registry, pushed, pushes>>

Return ==
    /\ status = "run" /\ next = Len(dir) + 1
    /\ End("ok")
    /\ UNCHANGED <<metaMap, registry, pushed, pushes>>

lint ==
    \/ ReadFails \/ Skip \/ LoadFails
    \/ Download \/ DownloadFails \/ Accept \/ Reject \/ Return

-----------------------------------------------------------------------------
(* The packages of a release are pushed, or pushed again. *)

Push(g) ==
    /\ status = "run" /\ pushes < MaxPushes
    /\ \E image \in Images[g] :
         /\ registry' = [registry EXCEPT ![g] = image]
         /\ pushed' = [pushed EXCEPT ![g] = @ \cup image]
    /\ pushes' = pushes + 1
    /\ UNCHANGED command

Done == status # "run" /\ UNCHANGED vars

Next == lint \/ (\E g \in Groups : Push(g)) \/ Done

Spec == Init /\ [][Next]_vars

-----------------------------------------------------------------------------
(* Properties. *)

CRDs == {dir[i] : i \in DOMAIN dir} \ {Folder, Unreadable, NoCRD}

TypeOK ==
    /\ dir \in Directories /\ next \in 1..(Len(dir) + 1)
    /\ status \in {"run", "ok", "error", "fatal", "panic"}
    /\ metaMap \in [Groups -> Packages \cup {NoPackage}]
    /\ \A g \in Groups : registry[g] \in Images[g] /\ registry[g] \subseteq pushed[g]
    /\ pushed \in [Groups -> SUBSET (Packages \cup {BadLayer})]
    /\ pushes \in 0..MaxPushes

(* The package has the CRD, and its Provider says whose family it is in.   *)
Conforms(crd, p) ==
    /\ \E o \in {p.objects[k] : k \in DOMAIN p.objects} :
         /\ o.crd /\ o.name = crd.name
         /\ CheckAuth /\ crd.name = ProviderConfig => o.auth
    /\ \E m \in {p.meta[k] : k \in DOMAIN p.meta} :
         /\ m.provider
         /\ IF crd.group = Provider THEN ~m.label
            ELSE m.label /\ m.dependsOn = <<FamilyRef>>

(***************************************************************************)
(* "Checks whether all CRDs generated for a provider family are packaged   *)
(* in the corresponding service-scoped provider" (68): when the command    *)
(* succeeds, each service has one package that the registry held during    *)
(* the run and that conforms for all CRDs of the service, even if another  *)
(* one was pushed between two of them (95-192).                            *)
(***************************************************************************)
OnePackageConforms ==
    status = "ok" =>
        \A g \in {crd.group : crd \in CRDs} :
            \E p \in pushed[g] \ {BadLayer} :
                \A crd \in CRDs : crd.group = g => Conforms(crd, p)

(***************************************************************************)
(* No false alarm: the command condemns a CRD, with log.Fatalln, only if a *)
(* package that the registry held during the run does not conform for it,  *)
(* and panics only over an object that is not a CRD (124-190, 216-315).    *)
(* An error says nothing of the packages: any read or request may fail.    *)
(***************************************************************************)
FailureHasReason ==
    /\ status = "fatal" =>
         \E crd \in CRDs : \E p \in pushed[crd.group] \ {BadLayer} : ~Conforms(crd, p)
    /\ status = "panic" =>
         \/ \E i \in DOMAIN dir : dir[i] = NoCRD
         \/ \E crd \in CRDs : \E p \in pushed[crd.group] \ {BadLayer} :
              \E k \in DOMAIN p.objects : ~p.objects[k].crd
=============================================================================
