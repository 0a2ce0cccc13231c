-------------------------- MODULE LintFamilyProofs --------------------------
(***************************************************************************)
(* Theorems about LintFamily, for any family, directory, packages and      *)
(* pushes: the command succeeds only if one package of each service, that  *)
(* the registry held during the run, conforms for all CRDs of the service. *)
(***************************************************************************)
EXTENDS LintFamily, TLAPS

(* The cached packages come from the registry, and the CRDs before next    *)
(* were accepted with the cached package of their group.                   *)
LInv ==
    /\ dir \in Directories
    /\ next \in 1..(Len(dir) + 1)
    /\ metaMap \in [Groups -> Packages \cup {NoPackage}]
    /\ registry \in [Groups -> AllImages] /\ pushed \in [Groups -> SUBSET UNION AllImages]
    /\ \A g \in Groups :
         /\ registry[g] \subseteq pushed[g]
         /\ metaMap[g] # NoPackage => metaMap[g] \in pushed[g] \ {BadLayer}
    /\ \A i \in 1..(next - 1) :
         dir[i] \notin {Folder, Unreadable, NoCRD} =>
             metaMap[dir[i].group] # NoPackage /\ Accepted(dir[i], metaMap[dir[i].group])
    /\ status = "ok" => next = Len(dir) + 1

(* What the code accepts conforms. *)
LEMMA AcceptedConforms ==
    ASSUME NEW crd, NEW p, Accepted(crd, p)
    PROVE  Conforms(crd, p)
<1>1. PICK k \in DOMAIN p.objects : IsFirst(k, crd, p)
  BY DEF Accepted, Found
<1>2. ASSUME CheckAuth, crd.name = ProviderConfig
      PROVE  \E o \in {p.objects[j] : j \in DOMAIN p.objects} :
                o.crd /\ o.name = crd.name /\ o.auth
  <2>1. PICK j \in DOMAIN p.objects : IsFirst(j, crd, p) /\ p.objects[j].auth
    BY <1>2 DEF Accepted, checkAuthAnnotation
  <2>2. QED  BY <2>1 DEF IsFirst
<1>3. \E o \in {p.objects[j] : j \in DOMAIN p.objects} :
         o.crd /\ o.name = crd.name /\ (CheckAuth /\ crd.name = ProviderConfig => o.auth)
  <2>1. CASE CheckAuth /\ crd.name = ProviderConfig  BY <2>1, <1>2
  <2>2. CASE ~(CheckAuth /\ crd.name = ProviderConfig)  BY <2>2, <1>1 DEF IsFirst
  <2>3. QED  BY <2>1, <2>2
<1>4. PICK m \in DOMAIN p.meta :
         p.meta[m].provider /\ LabelRight(crd, p.meta[m]) /\ DependencyRight(crd, p.meta[m])
  BY DEF Accepted, MetaRight
<1>5. QED  BY <1>3, <1>4 DEF Conforms, LabelRight, DependencyRight, IsConfig

LEMMA LInvInit == Init => LInv
<1> SUFFICES ASSUME Init PROVE LInv  OBVIOUS
<1>1. Len(dir) \in Nat  BY DirectoriesAssumption DEF Init
<1>2. QED  BY <1>1, ImagesAssumption DEF Init, LInv, AllImages

LEMMA LInvNext == LInv /\ [Next]_vars => LInv'
<1> SUFFICES ASSUME LInv, [Next]_vars PROVE LInv'  OBVIOUS
<1> USE DirectoriesAssumption DEF LInv
<1>0. Len(dir) \in Nat /\ DOMAIN dir = 1..Len(dir) /\ next \in Nat
  OBVIOUS
<1>1. CASE Skip
  <2>1. /\ next \in 1..Len(dir) /\ next' = next + 1 /\ dir[next] = Folder
        /\ UNCHANGED <<dir, status, metaMap, registry, pushed>>
        /\ status # "ok"
    BY <1>1, <1>0 DEF Skip, AtEntry, Entry, Advance
  <2>2. \A i \in 1..(next' - 1) : i = next \/ i \in 1..(next - 1)
    BY <2>1, <1>0
  <2>3. QED  BY <2>1, <2>2, <1>0
<1>2. CASE LoadFails
  BY <1>2, <1>0 DEF LoadFails, AtEntry, Entry, End
<1>3. CASE Download
  <2>1. /\ next \in 1..Len(dir) /\ dir[next].group \in Groups
        /\ status # "ok" /\ metaMap[dir[next].group] = NoPackage
        /\ UNCHANGED <<dir, next, status, registry, pushed>>
    BY <1>3, <1>0 DEF Download, AtCRD, AtEntry, Entry, Uncached
  <2>2. PICK layer \in registry[dir[next].group] \ {BadLayer} :
          metaMap' = [metaMap EXCEPT ![dir[next].group] = layer]
    BY <1>3 DEF Download, Usable, Entry
  <2>3. layer \in Packages /\ layer \in pushed[dir[next].group] \ {BadLayer}
    <3>1. registry[dir[next].group] \in AllImages
      BY <2>1
    <3>2. layer \in UNION AllImages
      BY <2>2, <3>1
    <3>3. layer \in Packages  BY <2>2, <3>2 DEF Packages
    <3>4. registry[dir[next].group] \subseteq pushed[dir[next].group]  BY <2>1
    <3>5. QED  BY <2>2, <3>3, <3>4
  <2>4. \A i \in 1..(next - 1) : dir[i] \notin {Folder, Unreadable, NoCRD} =>
          dir[i].group \in Groups /\ metaMap'[dir[i].group] = metaMap[dir[i].group]
    <3> SUFFICES ASSUME NEW i \in 1..(next - 1), dir[i] \notin {Folder, Unreadable, NoCRD}
                 PROVE  dir[i].group \in Groups
                          /\ metaMap'[dir[i].group] = metaMap[dir[i].group]
      OBVIOUS
    <3>0. i \in 1..Len(dir)
      BY <1>0, <2>1
    <3>1. i \in DOMAIN dir /\ dir[i].group \in Groups
      BY <3>0, <1>0
    <3>2. metaMap[dir[i].group] # NoPackage
      OBVIOUS
    <3>3. QED  BY <2>1, <2>2, <3>1, <3>2
  <2>5. QED  BY <2>1, <2>2, <2>3, <2>4, <1>0
<1>4. CASE ReadFails \/ DownloadFails
  BY <1>4, <1>0 DEF ReadFails, DownloadFails, AtCRD, AtEntry, End
<1>5. CASE Accept
  <2>1. /\ next \in 1..Len(dir) /\ next' = next + 1
        /\ metaMap[dir[next].group] # NoPackage
        /\ Accepted(dir[next], metaMap[dir[next].group])
        /\ UNCHANGED <<dir, status, metaMap, registry, pushed>>
        /\ status # "ok"
    BY <1>5, <1>0 DEF Accept, AtCheck, AtCRD, AtEntry, Entry, Package, Uncached, Advance
  <2>2. \A i \in 1..(next' - 1) : i = next \/ i \in 1..(next - 1)
    BY <2>1, <1>0
  <2>3. \A i \in 1..(next' - 1) : dir'[i] \notin {Folder, Unreadable, NoCRD} =>
          metaMap'[dir'[i].group] # NoPackage /\ Accepted(dir'[i], metaMap'[dir'[i].group])
    BY <2>1, <2>2
  <2>4. QED  BY <2>1, <2>3, <1>0
<1>6. CASE Reject
  <2>1. status' # "ok" /\ UNCHANGED <<dir, next, metaMap, registry, pushed>>
    BY <1>6 DEF Reject, End
  <2>2. QED  BY <2>1
<1>7. CASE Return
  BY <1>7 DEF Return, End
<1>8. ASSUME NEW g \in Groups, Push(g) PROVE LInv'
  <2>1. PICK image \in Images[g] :
          /\ registry' = [registry EXCEPT ![g] = image]
          /\ pushed' = [pushed EXCEPT ![g] = @ \cup image]
    BY <1>8 DEF Push
  <2>2. image \in AllImages /\ image \subseteq UNION AllImages  BY DEF AllImages
  <2>3. UNCHANGED <<dir, next, metaMap, status>>  BY <1>8 DEF Push, command
  <2>4. QED  BY <2>1, <2>2, <2>3
<1>9. CASE Done \/ UNCHANGED vars
  <2>1. UNCHANGED <<dir, next, metaMap, status, registry, pushed>>
    BY <1>9 DEF Done, vars, command
  <2>2. QED  BY <2>1
<1>10. QED
  BY <1>1, <1>2, <1>3, <1>4, <1>5, <1>6, <1>7, <1>8, <1>9 DEF Next, lint

(***************************************************************************)
(* When the command succeeds, all CRDs of a service conform to one package *)
(* that the registry held during the run, however often it was pushed      *)
(* (cmd/linter/lint-provider-family/main.go:95-192).                       *)
(***************************************************************************)
THEOREM FamilySound == Spec => []OnePackageConforms
<1>1. LInv => OnePackageConforms
  <2> SUFFICES ASSUME LInv, status = "ok", NEW crd0 \in CRDs
               PROVE  \E p \in pushed[crd0.group] \ {BadLayer} :
                         \A crd \in CRDs : crd.group = crd0.group => Conforms(crd, p)
    BY DEF OnePackageConforms
  <2>1. Len(dir) \in Nat /\ DOMAIN dir = 1..Len(dir)
    BY DirectoriesAssumption DEF LInv
  <2>2. \A crd \in CRDs :
          /\ crd.group \in Groups
          /\ metaMap[crd.group] # NoPackage
          /\ Accepted(crd, metaMap[crd.group])
    <3> SUFFICES ASSUME NEW i \in DOMAIN dir, dir[i] \notin {Folder, Unreadable, NoCRD}
                 PROVE  /\ dir[i].group \in Groups
                        /\ metaMap[dir[i].group] # NoPackage
                        /\ Accepted(dir[i], metaMap[dir[i].group])
      BY DEF CRDs
    <3>1. i \in 1..(next - 1)  BY <2>1 DEF LInv
    <3>2. QED  BY <3>1, DirectoriesAssumption DEF LInv
  <2>3. metaMap[crd0.group] \in pushed[crd0.group] \ {BadLayer}
    BY <2>2 DEF LInv
  <2>4. \A crd \in CRDs : crd.group = crd0.group => Conforms(crd, metaMap[crd0.group])
    BY <2>2, AcceptedConforms
  <2>5. QED  BY <2>3, <2>4
<1>2. QED  BY <1>1, LInvInit, LInvNext, PTL DEF Spec

-----------------------------------------------------------------------------
(* Types.                                                                  *)

LEMMA DirectoryIsSequence ==
  ASSUME NEW d \in Directories
  PROVE  Len(d) \in Nat /\ DOMAIN d = 1..Len(d)
BY DirectoriesAssumption

LEMMA TypeInit == Init => TypeOK
<1> SUFFICES ASSUME Init PROVE TypeOK  OBVIOUS
<1>1. dir \in Directories /\ next \in 1..(Len(dir) + 1)
  BY DirectoryIsSequence DEF Init
<1>2. \A g \in Groups : registry[g] \in SUBSET (Packages \cup {BadLayer})
  BY DEF Init, AllImages, Packages
<1>3. pushed \in [Groups -> SUBSET (Packages \cup {BadLayer})]
  BY <1>2 DEF Init
<1> QED  BY <1>1, <1>3, ProviderAssumption DEF Init, TypeOK

LEMMA TypeNext == LInv /\ TypeOK /\ [Next]_vars => TypeOK'
<1> SUFFICES ASSUME LInv, TypeOK, [Next]_vars PROVE TypeOK'  OBVIOUS
<1> USE DEF TypeOK
<1>0. Len(dir) \in Nat /\ DOMAIN dir = 1..Len(dir)
  BY DirectoryIsSequence
<1>1. CASE Skip \/ Accept
  BY <1>1, <1>0 DEF Skip, Accept, AtCheck, AtCRD, AtEntry, Advance
<1>2. CASE ReadFails \/ LoadFails \/ DownloadFails \/ Reject \/ Return
  <2>1. status' \in {"run", "ok", "error", "fatal", "panic"}
    BY <1>2 DEF ReadFails, LoadFails, DownloadFails, Reject, Return, End
  <2>2. UNCHANGED <<dir, next, metaMap, registry, pushed, pushes>>
    BY <1>2 DEF ReadFails, LoadFails, DownloadFails, Reject, Return, End
  <2> QED  BY <2>1, <2>2
<1>3. CASE Download
  <2>1. metaMap' \in [Groups -> Packages \cup {NoPackage}]
    <3>1. PICK layer \in Usable(registry[Entry.group]) :
            metaMap' = [metaMap EXCEPT ![Entry.group] = layer]
      BY <1>3 DEF Download
    <3>2. Entry.group \in Groups
      BY <1>3, <1>0, DirectoriesAssumption DEF Download, AtCRD, AtEntry, Entry
    <3>3. layer \in Packages
      BY <3>1, <3>2 DEF Usable, AllImages, Packages
    <3> QED  BY <3>1, <3>3
  <2> QED  BY <1>3, <2>1 DEF Download
<1>4. ASSUME NEW g \in Groups, Push(g) PROVE TypeOK'
  <2>1. PICK image \in Images[g] :
          /\ registry' = [registry EXCEPT ![g] = image]
          /\ pushed' = [pushed EXCEPT ![g] = @ \cup image]
    BY <1>4 DEF Push
  <2>2. image \in SUBSET (Packages \cup {BadLayer})
    BY DEF AllImages, Packages
  <2>3. \A h \in Groups : registry'[h] \in Images[h] /\ registry'[h] \subseteq pushed'[h]
    BY <2>1 DEF LInv
  <2>4. pushed' \in [Groups -> SUBSET (Packages \cup {BadLayer})]
    BY <2>1, <2>2
  <2>5. pushes' \in 0..MaxPushes /\ UNCHANGED <<dir, next, status, metaMap>>
    BY <1>4, ProviderAssumption DEF Push, command
  <2> QED  BY <2>3, <2>4, <2>5
<1>5. CASE Done \/ UNCHANGED vars
  BY <1>5 DEF Done, vars, command
<1> QED
  BY <1>1, <1>2, <1>3, <1>4, <1>5 DEF Next, lint

(***************************************************************************)
(* Type correctness: only packages that the registry held are cached, and  *)
(* no layer without a package is (main.go:116-120, 194-273).               *)
(***************************************************************************)
THEOREM TypeCorrect == Spec => []TypeOK
<1>1. Init => LInv /\ TypeOK
  BY LInvInit, TypeInit
<1>2. LInv /\ TypeOK /\ [Next]_vars => (LInv /\ TypeOK)'
  BY LInvNext, TypeNext
<1> QED  BY <1>1, <1>2, PTL DEF Spec

-----------------------------------------------------------------------------
(* The checks refuse nothing that conforms: with unique names, the first   *)
(* CRD of a name and the first Provider are the only ones.                 *)

LEMMA ConformingAccepted ==
  ASSUME NEW crd, NEW p \in Packages, Conforms(crd, p)
  PROVE  Accepted(crd, p)
<1>1. /\ Len(p.objects) \in Nat /\ DOMAIN p.objects = 1..Len(p.objects)
      /\ Len(p.meta) \in Nat /\ DOMAIN p.meta = 1..Len(p.meta)
  BY PackagesAssumption
<1>2. PICK k \in DOMAIN p.objects :
        /\ p.objects[k].crd /\ p.objects[k].name = crd.name
        /\ CheckAuth /\ crd.name = ProviderConfig => p.objects[k].auth
  BY DEF Conforms
<1>3. IsFirst(k, crd, p)
  <2> SUFFICES ASSUME NEW j \in 1..(k - 1), p.objects[j].crd,
                      p.objects[j].name = crd.name
               PROVE  FALSE
    BY <1>2 DEF IsFirst
  <2>1. j \in DOMAIN p.objects /\ j # k
    BY <1>1
  <2> QED  BY <2>1, <1>2, PackagesAssumption
<1>4. PICK m \in DOMAIN p.meta :
        /\ p.meta[m].provider
        /\ IF crd.group = Provider THEN ~p.meta[m].label
           ELSE p.meta[m].label /\ p.meta[m].dependsOn = <<FamilyRef>>
  BY DEF Conforms
<1>5. \A j \in 1..(m - 1) : ~p.meta[j].provider
  <2> SUFFICES ASSUME NEW j \in 1..(m - 1), p.meta[j].provider PROVE FALSE
    OBVIOUS
  <2>1. j \in DOMAIN p.meta /\ j # m
    BY <1>1
  <2> QED  BY <2>1, <1>4, PackagesAssumption
<1>6. MetaRight(crd, p)
  BY <1>4, <1>5 DEF MetaRight, LabelRight, DependencyRight, IsConfig
<1> QED
  BY <1>2, <1>3, <1>6 DEF Accepted, Found, checkAuthAnnotation

(* What a command that ended says of its end stays, as nothing is pushed.  *)
LEMMA ReasonStays ==
  ASSUME FailureHasReason, status' = status, dir' = dir,
         UNCHANGED pushed \/ status = "run"
  PROVE  FailureHasReason'
BY DEF FailureHasReason, CRDs

LEMMA ReasonNext == LInv /\ FailureHasReason /\ [Next]_vars => FailureHasReason'
<1> SUFFICES ASSUME LInv, FailureHasReason, [Next]_vars PROVE FailureHasReason'
  OBVIOUS
<1>0. /\ Len(dir) \in Nat /\ DOMAIN dir = 1..Len(dir)
      /\ AtCRD => Entry \in CRDs /\ Entry.group \in Groups
      /\ AtCheck => Package \in Packages /\ Package \in pushed[Entry.group] \ {BadLayer}
  BY DirectoryIsSequence, DirectoriesAssumption
  DEF LInv, AtCheck, AtCRD, AtEntry, Entry, CRDs, Package, Uncached
<1>1. CASE Skip \/ Accept \/ Download
  BY <1>1, ReasonStays DEF Skip, Accept, Download, Advance
<1>2. CASE LoadFails
  <2>1. Entry = dir[next] /\ next \in DOMAIN dir /\ dir' = dir
    BY <1>2 DEF LoadFails, AtEntry, Entry, End
  <2>2. \/ status' = "error" /\ dir[next] = Unreadable
        \/ status' = "panic" /\ dir[next] = NoCRD
    BY <1>2, <2>1 DEF LoadFails, End
  <2> QED  BY <2>1, <2>2 DEF FailureHasReason
<1>3. CASE ReadFails \/ DownloadFails
  BY <1>3 DEF ReadFails, DownloadFails, End, FailureHasReason
<1>4. CASE Reject
  <2>1. AtCRD /\ AtCheck /\ UNCHANGED <<dir, pushed>>
    BY <1>4 DEF Reject, AtCheck, End
  <2>2. CASE AssertionFails(Entry, Package)
    <3>1. status' = "panic"
      BY <1>4, <2>2 DEF Reject, End
    <3>2. \E k \in DOMAIN Package.objects : ~Package.objects[k].crd
      BY <2>2 DEF AssertionFails
    <3> QED  BY <2>1, <3>1, <3>2, <1>0 DEF FailureHasReason, CRDs
  <2>3. CASE ~AssertionFails(Entry, Package)
    <3>1. status' = "fatal" /\ ~Accepted(Entry, Package)
      BY <1>4, <2>3 DEF Reject, End
    <3>2. ~Conforms(Entry, Package)
      BY <3>1, <2>1, <1>0, ConformingAccepted
    <3> QED  BY <2>1, <3>1, <3>2, <1>0 DEF FailureHasReason, CRDs
  <2> QED  BY <2>2, <2>3
<1>5. CASE Return
  BY <1>5 DEF Return, End, FailureHasReason
<1>6. ASSUME NEW g \in Groups, Push(g) PROVE FailureHasReason'
  BY <1>6, ReasonStays DEF Push, command
<1>7. CASE Done \/ UNCHANGED vars
  BY <1>7, ReasonStays DEF Done, vars, command
<1> QED
  BY <1>1, <1>2, <1>3, <1>4, <1>5, <1>6, <1>7 DEF Next, lint

(***************************************************************************)
(* No complete family is condemned: a fatal end is one of a package that   *)
(* does not conform, a panic one of an object that is not a CRD, whatever  *)
(* is pushed and whichever request fails while the command runs            *)
(* (main.go:124-190, 216-315).                                             *)
(***************************************************************************)
THEOREM FailuresJustified == Spec => []FailureHasReason
<1>1. Init => LInv /\ FailureHasReason
  BY LInvInit DEF Init, FailureHasReason
<1>2. LInv /\ FailureHasReason /\ [Next]_vars => (LInv /\ FailureHasReason)'
  BY LInvNext, ReasonNext
<1> QED  BY <1>1, <1>2, PTL DEF Spec
=============================================================================
