----------------------------- MODULE UpdocProofs -----------------------------
(***************************************************************************)
(* Proofs about the two commands of updoc.  Upload: for any number of      *)
(* jobs, provider versions, documents and contents, the index objects      *)
(* resolve, documents are immutable, and the bucket implements DocSite.    *)
(* Generate: for any tree of documents, index.json lists all of it, in     *)
(* order and by name, or the command fails.                                *)
(***************************************************************************)
EXTENDS UpdocUpload, Indexer, FiniteSetTheorems, TLAPS

LEMMA CheckoutType ==
  ASSUME NEW d \in Checkouts
  PROVE  d.docs \in Trees /\ d.index \in SUBSET Paths
<1>1. d \in [docs : Trees, index : SUBSET Paths]
  BY CheckoutsAssumption
<1> QED  BY <1>1

(***************************************************************************)
(* TypeOK is an invariant: every job, directory and object of the bucket   *)
(* keeps its form through each step of ProcessIndex.                       *)
(***************************************************************************)
THEOREM TypeCorrect == Spec => []TypeOK
<1>1. Init => TypeOK
  BY DEF Init, TypeOK, Unlocated, Metas
<1>2. TypeOK /\ [Next]_vars => TypeOK'
  <2> SUFFICES ASSUME TypeOK, [Next]_vars PROVE TypeOK'
    OBVIOUS
  <2> USE IndexAssumption DEF TypeOK
  <2>1. ASSUME NEW p \in Publishers, Prepare(p) PROVE TypeOK'
    BY <2>1 DEF Prepare
  <2>2. ASSUME NEW p \in Publishers, Start(p) PROVE TypeOK'
    BY <2>2 DEF Start
  <2>3. ASSUME NEW p \in Publishers, NEW f \in Paths, HashAndUpload(p, f)
        PROVE TypeOK'
    <3>1. Blob(p, f) \in Blobs /\ dir[p].docs[f] \in Contents
      <4>1. dir[p].docs \in Trees
        BY CheckoutType
      <4> QED
        BY <2>3, <4>1 DEF HashAndUpload, Files, Blob, Blobs, Exts, Trees
    <3>2. blobs' \in [Blobs -> Contents \cup {NoFile}]
      BY <2>3, <3>1 DEF HashAndUpload, Stored, CloseFails
    <3>3. meta' \in [Publishers -> Metas]
      BY <2>3, <3>1 DEF HashAndUpload, Metas
    <3>4. logged' \subseteq Blobs
      BY <2>3, <3>1 DEF HashAndUpload, CloseFails
    <3> QED
      BY <2>3, <3>2, <3>3, <3>4 DEF HashAndUpload
  <2>4. ASSUME NEW p \in Publishers, End(p)
        PROVE /\ phase' \in [Publishers -> {"idle", "meta"}]
              /\ meta' \in [Publishers -> Metas]
    BY <2>4 DEF End, Metas, Unlocated
  <2>5. ASSUME NEW p \in Publishers, WriteIndex(p) PROVE TypeOK'
    <3>1. dir[p].index \in SUBSET Paths /\ meta[p] \in Metas
      BY CheckoutType
    <3>2. TableOfContents(p) \in Entries(dir[p].index)
      BY <3>1 DEF TableOfContents, Entries, Metas
    <3>3. TableOfContents(p) \in UNION {Entries(S) : S \in SUBSET Paths}
      BY <3>1, <3>2
    <3>4. [toc |-> TableOfContents(p), meta |-> meta[p]] \in BucketIndex
      BY <3>1, <3>3 DEF BucketIndex
    <3>5. site' \in [Indexes -> BucketIndex \cup {NoIndex}]
      BY <2>5, <3>4 DEF WriteIndex
    <3> QED
      BY <2>4, <2>5, <3>5 DEF WriteIndex
  <2>6. ASSUME NEW p \in Publishers, Abort(p) PROVE TypeOK'
    BY <2>4, <2>6 DEF Abort
  <2>7. CASE UNCHANGED vars
    BY <2>7 DEF vars
  <2> QED
    BY <2>1, <2>2, <2>3, <2>5, <2>6, <2>7 DEF Next, ProcessIndex
<1> QED
  BY <1>1, <1>2, PTL DEF Spec

-----------------------------------------------------------------------------
LEMMA BlobOfFile ==
  ASSUME TypeOK, NEW p \in Publishers, NEW f \in Files(p)
  PROVE  /\ f \in Paths
         /\ dir[p].docs[f] \in Contents /\ dir[p].docs[f] # NoFile
         /\ Blob(p, f) \in Blobs /\ Blob(p, f) # NoBlob
         /\ Blob(p, f)[1] = dir[p].docs[f]
<1>1. dir[p].docs \in Trees
  BY CheckoutType DEF TypeOK
<1> QED
  BY <1>1, AbsentAssumption DEF Files, Blob, Blobs, Exts, Trees

(* A document object holds what its name is the hash of. *)
HashNamed == \A b \in Blobs : blobs[b] \in {NoFile, b[1]}

LEMMA HashNamedStep ==
  ASSUME TypeOK, HashNamed, [Next]_vars
  PROVE  /\ HashNamed'
         /\ \A b \in Blobs : blobs[b] # NoFile => blobs'[b] = blobs[b]
         /\ logged \subseteq logged'
<1>1. ASSUME NEW p \in Publishers, NEW f \in Paths, HashAndUpload(p, f), Stored(p, f)
      PROVE  HashNamed' /\ \A b \in Blobs : blobs[b] # NoFile => blobs'[b] = blobs[b]
  <2>1. Blob(p, f) \in Blobs /\ Blob(p, f)[1] = dir[p].docs[f]
    BY <1>1, BlobOfFile DEF HashAndUpload
  <2>2. \A b \in Blobs : blobs'[b] = IF b = Blob(p, f) THEN b[1] ELSE blobs[b]
    BY <1>1, <2>1 DEF Stored, TypeOK
  <2> QED
    BY <2>2 DEF HashNamed
<1>2. ASSUME UNCHANGED blobs
      PROVE  HashNamed' /\ \A b \in Blobs : blobs[b] # NoFile => blobs'[b] = blobs[b]
  BY <1>2 DEF HashNamed
<1>3. HashNamed' /\ \A b \in Blobs : blobs[b] # NoFile => blobs'[b] = blobs[b]
  BY <1>1, <1>2 DEF Next, ProcessIndex, Prepare, Start, HashAndUpload, CloseFails,
     WriteIndex, Abort, vars
<1>4. logged \subseteq logged'
  BY DEF Next, ProcessIndex, Prepare, Start, HashAndUpload, CloseFails,
     WriteIndex, Abort, vars
<1> QED
  BY <1>3, <1>4

(***************************************************************************)
(* A stored document never changes: two jobs that write one object write   *)
(* the same content, because its name is the hash of the content.          *)
(***************************************************************************)
THEOREM DocumentsImmutable == Spec => BlobsImmutable
<1>1. Init => HashNamed
  BY DEF Init, HashNamed
<1>2. TypeOK /\ HashNamed /\ [Next]_vars =>
        HashNamed' /\ \A b \in Blobs : blobs[b] # NoFile => blobs'[b] = blobs[b]
  BY HashNamedStep
<1> QED
  BY <1>1, <1>2, TypeCorrect, PTL DEF Spec, BlobsImmutable

-----------------------------------------------------------------------------
Safe(b) == blobs[b] # NoFile \/ b \in logged

LEMMA SafeStep ==
  ASSUME TypeOK, HashNamed, [Next]_vars, NEW b \in Blobs, Safe(b)
  PROVE  Safe(b)'
BY HashNamedStep DEF Safe

(* Only a running job has metadata: of its files, by the hash of their     *)
(* content, each in the bucket or logged.                                  *)
UploadedAt(p, f) ==
    /\ phase[p] = "meta"
    /\ f \in Files(p)
    /\ meta[p][f] = Blob(p, f)
    /\ Safe(Blob(p, f))

Uploaded ==
    \A p \in Publishers : \A f \in Paths : meta[p][f] # NoBlob => UploadedAt(p, f)

LEMMA UploadedInit == Init => Uploaded /\ IndexResolves
BY DEF Init, Uploaded, Unlocated, IndexResolves, Published

(* A step that leaves a job, its directory and a location alone. *)
LEMMA UploadedFrame ==
  ASSUME TypeOK, HashNamed, Uploaded, [Next]_vars,
         NEW p \in Publishers, NEW f \in Paths,
         meta'[p][f] # NoBlob, meta'[p][f] = meta[p][f],
         dir'[p] = dir[p], phase'[p] = phase[p]
  PROVE  UploadedAt(p, f)'
<1>1. UploadedAt(p, f)
  BY DEF Uploaded
<1>2. Blob(p, f) \in Blobs /\ Safe(Blob(p, f))
  BY <1>1, BlobOfFile DEF UploadedAt
<1>3. Blob(p, f)' = Blob(p, f) /\ Files(p)' = Files(p)
  BY DEF Blob, Files
<1>4. Safe(Blob(p, f))'
  <2> DEFINE b == Blob(p, f)
  <2>1. b \in Blobs /\ Safe(b)
    BY <1>2
  <2>2. blobs'[b] # NoFile \/ b \in logged'
    BY <2>1, HashNamedStep DEF Safe
  <2> QED
    BY <1>3, <2>2 DEF Safe
<1> QED
  BY <1>1, <1>3, <1>4 DEF UploadedAt

LEMMA UploadedStep ==
  ASSUME TypeOK, HashNamed, Uploaded, [Next]_vars
  PROVE  Uploaded'
<1> SUFFICES ASSUME NEW q \in Publishers, NEW g \in Paths, meta'[q][g] # NoBlob
             PROVE  UploadedAt(q, g)'
  BY DEF Uploaded
<1> DEFINE Alone == /\ meta'[q][g] = meta[q][g]
                    /\ dir'[q] = dir[q] /\ phase'[q] = phase[q]
<1>1. ASSUME NEW p \in Publishers, Prepare(p) PROVE Alone
  <2>1. meta' = meta /\ phase' = phase
    BY <1>1 DEF Prepare
  <2>2. q # p
    BY <1>1, <2>1 DEF Prepare, Uploaded, UploadedAt
  <2> QED
    BY <1>1, <2>1, <2>2 DEF Prepare, TypeOK
<1>2. ASSUME NEW p \in Publishers, Start(p) PROVE Alone
  BY <1>2 DEF Start, TypeOK, Uploaded, UploadedAt
<1>3. ASSUME NEW p \in Publishers, WriteIndex(p) \/ Abort(p) PROVE Alone
  <2>1. End(p) /\ dir' = dir
    BY <1>3 DEF WriteIndex, Abort
  <2>2. q # p
    BY <2>1 DEF End, TypeOK, Unlocated
  <2> QED
    BY <2>1, <2>2 DEF End, TypeOK
<1>4. ASSUME NEW p \in Publishers, NEW f \in Paths, HashAndUpload(p, f),
             ~(p = q /\ f = g)
      PROVE  Alone
  BY <1>4 DEF HashAndUpload, TypeOK, Metas
<1>5. ASSUME HashAndUpload(q, g) PROVE UploadedAt(q, g)'
  <2>1. g \in Files(q) /\ phase[q] = "meta" /\ UNCHANGED <<phase, dir>>
    BY <1>5 DEF HashAndUpload
  <2>2. Blob(q, g) \in Blobs /\ dir[q].docs[g] # NoFile
    BY <2>1, BlobOfFile
  <2>3. meta'[q][g] = Blob(q, g)
    BY <1>5 DEF HashAndUpload, TypeOK, Metas
  <2>4. blobs'[Blob(q, g)] # NoFile \/ Blob(q, g) \in logged'
    BY <1>5, <2>2 DEF HashAndUpload, Stored, CloseFails, TypeOK
  <2>5. Blob(q, g)' = Blob(q, g) /\ Files(q)' = Files(q)
    BY <2>1 DEF Blob, Files
  <2> QED
    BY <2>1, <2>3, <2>4, <2>5 DEF UploadedAt, Safe
<1>6. CASE UNCHANGED vars
  BY <1>6, UploadedFrame DEF vars
<1>7. ASSUME Alone PROVE UploadedAt(q, g)'
  BY <1>7, UploadedFrame
<1>8. ASSUME NEW p \in Publishers, NEW f \in Paths, HashAndUpload(p, f)
      PROVE  HashAndUpload(q, g) \/ Alone
  <2>1. CASE p = q /\ f = g
    BY <1>8, <2>1
  <2> QED
    BY <1>4, <1>8, <2>1
<1> HIDE DEF Alone
<1>9. CASE \E p \in Publishers : Prepare(p) \/ ProcessIndex(p)
  BY <1>1, <1>2, <1>3, <1>5, <1>7, <1>8, <1>9 DEF ProcessIndex
<1> QED
  BY <1>6, <1>9 DEF Next

LEMMA ResolvesStep ==
  ASSUME TypeOK, HashNamed, Uploaded, IndexResolves, [Next]_vars
  PROVE  IndexResolves'
<1> SUFFICES ASSUME NEW i \in Indexes, site'[i] # NoIndex,
                    NEW f \in Paths, site'[i].meta[f] # NoBlob
             PROVE  \/ blobs'[site'[i].meta[f]] # NoFile
                    \/ site'[i].meta[f] \in logged'
  BY DEF IndexResolves, Published, Named
<1> DEFINE b == site'[i].meta[f]
<1>1. ASSUME site'[i] = site[i] PROVE b \in Blobs /\ Safe(b)
  BY <1>1 DEF IndexResolves, Published, Named, Safe, TypeOK, BucketIndex, Metas
<1>2. ASSUME site'[i] # site[i] PROVE b \in Blobs /\ Safe(b)
  <2>1. PICK p \in Publishers : WriteIndex(p) /\ site'[i].meta = meta[p]
    <3>1. ASSUME NEW p \in Publishers, WriteIndex(p)
          PROVE  site'[i].meta = meta[p]
      BY <1>2, <3>1 DEF WriteIndex, TypeOK
    <3> QED
      BY <1>2, <3>1 DEF Next, ProcessIndex, Prepare, Start, HashAndUpload,
         Abort, vars
  <2>2. UploadedAt(p, f) /\ b = meta[p][f]
    BY <2>1 DEF Uploaded
  <2> QED
    BY <2>2, BlobOfFile DEF UploadedAt
<1>3. b \in Blobs /\ Safe(b)
  BY <1>1, <1>2
<1>4. blobs'[b] # NoFile \/ b \in logged'
  <2> HIDE DEF b
  <2> QED
    BY <1>3, HashNamedStep DEF Safe
<1> QED
  BY <1>4

(***************************************************************************)
(* Each document that an index names is in the bucket or was logged as     *)
(* failed, whatever writes are lost when they are closed and however jobs  *)
(* interleave, fail and are repeated.                                      *)
(***************************************************************************)
THEOREM IndexesResolve == Spec => []IndexResolves
<1>1. Init => HashNamed
  BY DEF Init, HashNamed
<1>2. TypeOK /\ HashNamed /\ [Next]_vars => HashNamed'
  BY HashNamedStep
<1>3. TypeOK /\ HashNamed /\ Uploaded /\ [Next]_vars => Uploaded'
  BY UploadedStep
<1>4. TypeOK /\ HashNamed /\ Uploaded /\ IndexResolves /\ [Next]_vars => IndexResolves'
  BY ResolvesStep
<1> QED
  BY <1>1, <1>2, <1>3, <1>4, UploadedInit, TypeCorrect, PTL DEF Spec

-----------------------------------------------------------------------------
(* The refinement of DocSite. *)

AllPages == [i \in Indexes |-> Pages(i)]
AllLinks == [i \in Indexes |-> Links(i)]
AllFound == [i \in Indexes |-> Found(i)]

LEMMA InitRefines == Init => Site!Init
BY DEF Init, Site!Init, Pages, Links, Found, Published

(* While the index objects stay, pages can only appear. *)
LEMMA SiteFrame ==
  ASSUME TypeOK, HashNamed, [Next]_vars, site' = site
  PROVE  /\ AllPages' = AllPages /\ AllLinks' = AllLinks
         /\ AllFound' \in [Indexes -> SUBSET Paths]
         /\ \A i \in Indexes : Found(i) \subseteq Found(i)'
         /\ \A i \in Indexes : \A f \in Found(i)' \ Found(i) :
              Pages(i) # NoDocs /\ Pages(i)[f] # NoFile
<1>1. AllPages' = AllPages /\ AllLinks' = AllLinks
  BY DEF AllPages, AllLinks, Pages, Links, Published
<1>2. AllFound' \in [Indexes -> SUBSET Paths]
  BY DEF AllFound, Found
<1>3. ASSUME NEW i \in Indexes, NEW f \in Paths, Published(i), site[i].meta[f] # NoBlob
      PROVE  /\ site[i].meta[f] \in Blobs
             /\ ContentOf(site[i].meta[f]) = site[i].meta[f][1]
             /\ site[i].meta[f][1] \in Contents /\ site[i].meta[f][1] # NoFile
  <2>1. site[i].meta[f] \in Blobs
    BY <1>3 DEF TypeOK, Published, BucketIndex, Metas
  <2>2. site[i].meta[f][1] \in Contents
    BY <2>1 DEF Blobs
  <2> QED
    BY <1>3, <2>1, <2>2, AbsentAssumption DEF ContentOf
<1>4. ASSUME NEW i \in Indexes, NEW f \in Found(i) PROVE f \in Found(i)'
  <2>1. /\ f \in Paths /\ Published(i) /\ site[i].meta[f] # NoBlob
        /\ blobs[site[i].meta[f]] = ContentOf(site[i].meta[f])
    BY <1>4 DEF Found
  <2>2. blobs'[site[i].meta[f]] = blobs[site[i].meta[f]]
    BY <1>3, <2>1, HashNamedStep
  <2> QED
    BY <2>1, <2>2 DEF Found, Published, ContentOf
<1>5. ASSUME NEW i \in Indexes, NEW f \in Found(i)'
      PROVE  Pages(i) # NoDocs /\ Pages(i)[f] # NoFile
  <2>1. f \in Paths /\ Published(i) /\ site[i].meta[f] # NoBlob
    BY <1>5 DEF Found, Published
  <2>2. Pages(i) = [g \in Paths |-> ContentOf(site[i].meta[g])]
    BY <2>1 DEF Pages
  <2>3. \A g \in Paths : ContentOf(site[i].meta[g]) \in Contents \cup {NoFile}
    BY <1>3, <2>1 DEF ContentOf
  <2>4. Pages(i) \in Trees
    BY <2>2, <2>3 DEF Trees
  <2>5. Pages(i)[f] # NoFile
    BY <1>3, <2>1, <2>2
  <2> QED
    BY <2>4, <2>5, AbsentAssumption
<1> QED
  BY <1>1, <1>2, <1>4, <1>5

LEMMA AppearOrNot ==
  ASSUME TypeOK, HashNamed, [Next]_vars, site' = site, dir' = dir
  PROVE  Site!Appear
<1>1. \A i \in Indexes : AllFound[i] = Found(i) /\ AllFound'[i] = Found(i)'
  BY DEF AllFound
<1>2. \A i \in Indexes : AllPages[i] = Pages(i)
  BY DEF AllPages
<1> QED
  BY <1>1, <1>2, SiteFrame DEF Site!Appear, AllPages, AllLinks, AllFound

LEMMA WriteIndexPublishes ==
  ASSUME TypeOK, Uploaded, NEW p \in Publishers, WriteIndex(p), site' # site
  PROVE  Site!Publish(p)
<1> DEFINE i == IndexOf[p]
           d == dir[p]
           new == [toc |-> TableOfContents(p), meta |-> meta[p]]
<1>1. i \in Indexes /\ UNCHANGED <<dir, blobs>> /\ WalkDone(p)
  BY IndexAssumption DEF WriteIndex
<1>2. d.docs \in Trees /\ d.index \in SUBSET Paths /\ meta[p] \in Metas
  BY CheckoutType DEF TypeOK
<1>3. site' = [site EXCEPT ![i] = new]
  BY DEF WriteIndex
<1>4. site'[i] = new /\ \A j \in Indexes : j # i => site'[j] = site[j]
  BY <1>1, <1>3 DEF TypeOK
<1>5. new # NoIndex
  <2>1. TableOfContents(p) \in [d.index -> Blobs \cup {NoBlob}]
    BY <1>2 DEF TableOfContents, Metas
  <2>2. TableOfContents(p) \in UNION {[S -> Blobs \cup {NoBlob}] : S \in SUBSET Paths}
    BY <1>2, <2>1
  <2> QED
    BY <1>2, <2>2, AbsentAssumption
<1>6. \A f \in Paths : ContentOf(meta[p][f]) = d.docs[f]
  <2> SUFFICES ASSUME NEW f \in Paths PROVE ContentOf(meta[p][f]) = d.docs[f]
    OBVIOUS
  <2>1. CASE f \in Files(p)
    <3>1. meta[p][f] # NoBlob /\ meta[p][f] = Blob(p, f)
      BY <1>1, <2>1 DEF WalkDone, Uploaded, UploadedAt
    <3>2. Blob(p, f)[1] = d.docs[f]
      BY DEF Blob
    <3> QED
      BY <3>1, <3>2 DEF ContentOf
  <2>2. CASE f \notin Files(p)
    <3>1. meta[p][f] = NoBlob /\ d.docs[f] = NoFile
      BY <2>2 DEF Uploaded, UploadedAt, Files
    <3> QED
      BY <3>1 DEF ContentOf
  <2> QED
    BY <2>1, <2>2
<1>7. Pages(i)' = d.docs
  <2>1. Pages(i)' = [f \in Paths |-> ContentOf(meta[p][f])]
    BY <1>4, <1>5 DEF Pages, Published, ContentOf
  <2>2. d.docs = [f \in Paths |-> d.docs[f]]
    BY <1>2 DEF Trees
  <2> QED
    BY <1>6, <2>1, <2>2
<1>8. Links(i)' = [f \in d.index |-> d.docs[f]]
  <2>1. /\ DOMAIN new.toc = d.index
        /\ \A f \in d.index : new.toc[f] = meta[p][f]
    BY DEF TableOfContents
  <2>2. Links(i)' = [f \in DOMAIN new.toc |-> ContentOf(new.toc[f])]
    BY <1>4, <1>5 DEF Links, Published, ContentOf
  <2> QED
    BY <1>2, <1>6, <2>1, <2>2
<1>9. Found(i)' \in SUBSET Site!Pages(d)
  <2>1. ASSUME NEW f \in Found(i)' PROVE f \in Paths /\ d.docs[f] # NoFile
    <3>1. f \in Paths /\ new.meta[f] # NoBlob
      BY <1>4, <2>1 DEF Found
    <3>2. f \in Files(p)
      BY <3>1 DEF Uploaded, UploadedAt
    <3> QED
      BY <3>1, <3>2 DEF Files
  <2> QED
    BY <2>1 DEF Site!Pages
<1>10. ASSUME NEW j \in Indexes, j # i
       PROVE  Pages(j)' = Pages(j) /\ Links(j)' = Links(j) /\ Found(j)' = Found(j)
  BY <1>1, <1>4, <1>10 DEF Pages, Links, Found, Published, ContentOf
<1> HIDE DEF i, d, new
<1>11. AllPages' = [AllPages EXCEPT ![i] = d.docs]
  BY <1>1, <1>7, <1>10 DEF AllPages
<1>12. AllLinks' = [AllLinks EXCEPT ![i] = [f \in d.index |-> d.docs[f]]]
  BY <1>1, <1>8, <1>10 DEF AllLinks
<1>13. AllFound' = [AllFound EXCEPT ![i] = Found(i)']
  BY <1>1, <1>10 DEF AllFound
<1> QED
  BY <1>1, <1>9, <1>11, <1>12, <1>13
     DEF Site!Publish, AllPages, AllLinks, AllFound, i, d

LEMMA StepRefines ==
  ASSUME TypeOK, HashNamed, Uploaded, [Next]_vars
  PROVE  [Site!Next]_(Site!Vars)
<1>1. ASSUME NEW p \in Publishers, Prepare(p) PROVE Site!Prepare(p)
  <2>1. UNCHANGED <<blobs, site>> /\ \E d \in Checkouts : dir' = [dir EXCEPT ![p] = d]
    BY <1>1 DEF Prepare
  <2>2. AllPages' = AllPages /\ AllLinks' = AllLinks /\ AllFound' = AllFound
    BY <2>1 DEF AllPages, AllLinks, AllFound, Pages, Links, Found, Published, ContentOf
  <2> QED
    BY <2>1, <2>2 DEF Site!Prepare, AllPages, AllLinks, AllFound
<1>2. ASSUME NEW p \in Publishers, WriteIndex(p), site' # site PROVE Site!Publish(p)
  BY <1>2, WriteIndexPublishes
<1>3. ASSUME site' = site, dir' = dir PROVE Site!Appear
  BY <1>3, AppearOrNot
<1> QED
  BY <1>1, <1>2, <1>3 DEF Next, ProcessIndex, Start, HashAndUpload, WriteIndex,
     Abort, vars, Site!Next

(***************************************************************************)
(* The bucket implements DocSite, also when writes are lost and with a     *)
(* stale index.json: readers of an index see the documents of one job's    *)
(* directory, published as a whole by the step that writes the index, and  *)
(* a document that has been found does not vanish from it.                 *)
(***************************************************************************)
THEOREM BucketImplementsDocSite == Spec => ImplementsDocSite
<1>1. Init => HashNamed
  BY DEF Init, HashNamed
<1>2. TypeOK /\ HashNamed /\ [Next]_vars => HashNamed'
  BY HashNamedStep
<1>3. TypeOK /\ HashNamed /\ Uploaded /\ [Next]_vars => Uploaded'
  BY UploadedStep
<1>4. TypeOK /\ HashNamed /\ Uploaded /\ [Next]_vars => [Site!Next]_(Site!Vars)
  BY StepRefines
<1> QED
  BY <1>1, <1>2, <1>3, <1>4, InitRefines, UploadedInit, TypeCorrect,
     PTL DEF Spec, ImplementsDocSite, Site!Spec

-----------------------------------------------------------------------------
(* The generate command.  Induction, as a fact about sets of numbers, and  *)
(* on the depth of a directory.                                            *)

NatOrder == {p \in Nat \X Nat : p[1] < p[2]}

LEMMA NatOrderWellFounded == IsWellFoundedOn(NatOrder, Nat)
<1>1. IsWellFoundedOn(OpToRel(<, Nat), Nat)
  BY NatLessThanWellFounded
<1>2. OpToRel(<, Nat) = NatOrder
  BY DEF OpToRel, NatOrder
<1> QED  BY <1>1, <1>2

LEMMA SetInduction ==
  ASSUME NEW S \in SUBSET Nat, 0 \in S, \A n \in S : n + 1 \in S
  PROVE  S = Nat
<1> SUFFICES ASSUME Nat \ S # {} PROVE FALSE
  OBVIOUS
<1>1. PICK n \in Nat \ S : \A m \in Nat \ S : <<m, n>> \notin NatOrder
  BY NatOrderWellFounded, WFMin
<1>2. n # 0 /\ n - 1 \in Nat /\ n - 1 < n
  OBVIOUS
<1>3. <<n - 1, n>> \in NatOrder
  BY <1>2 DEF NatOrder
<1>4. n - 1 \in S
  BY <1>1, <1>2, <1>3
<1> QED  BY <1>4, <1>2

(* All directories are in S if each is that has its directories in it.     *)
LEMMA DirectoryInduction ==
  ASSUME NEW S \in SUBSET Directories,
         ASSUME NEW d \in Directories,
                \A i \in DOMAIN d.entries : d.entries[i].dir => d.entries[i] \in S
         PROVE  d \in S
  PROVE  Directories \subseteq S
<1> DEFINE N == {n \in Nat : \A d \in Directories : Depth(d) < n => d \in S}
<1>1. 0 \in N
  BY DirectoriesAssumption
<1>2. ASSUME NEW n \in N PROVE n + 1 \in N
  <2> SUFFICES ASSUME NEW d \in Directories, Depth(d) < n + 1 PROVE d \in S
    OBVIOUS
  <2>1. ASSUME NEW i \in DOMAIN d.entries, d.entries[i].dir PROVE d.entries[i] \in S
    <3>1. d.entries[i] \in Directories /\ Depth(d.entries[i]) < Depth(d)
      BY <2>1, DirectoriesAssumption DEF IsFile
    <3>2. Depth(d) \in Nat /\ Depth(d.entries[i]) \in Nat
      BY <3>1, DirectoriesAssumption
    <3> QED  BY <3>1, <3>2
  <2> QED  BY <2>1
<1>3. N = Nat
  <2> HIDE DEF N
  <2>1. N \in SUBSET Nat  BY DEF N
  <2> QED  BY <1>1, <1>2, <2>1, SetInduction
<1>4. ASSUME NEW d \in Directories PROVE d \in S
  <2>1. Depth(d) \in Nat /\ Depth(d) + 1 \in Nat /\ Depth(d) < Depth(d) + 1
    BY DirectoriesAssumption
  <2> QED  BY <1>3, <2>1
<1> QED  BY <1>4

LEMMA EntryShape ==
  ASSUME NEW d \in Directories
  PROVE  /\ Len(d.entries) \in Nat /\ DOMAIN d.entries = 1..Len(d.entries)
         /\ d.dir = TRUE /\ d.section.name \in DisplayNames
         /\ \A i \in DOMAIN d.entries :
              /\ i \in Nat /\ d.entries[i].dir \in BOOLEAN /\ d.entries[i].md \in BOOLEAN
              /\ weight(d.entries[i]) \in Int
              /\ d.entries[i].dir => d.entries[i] \in Directories
              /\ ~d.entries[i].dir => d.entries[i].name \in DisplayNames
<1>1. IsDirectory(d)
  BY DirectoriesAssumption
<1>2. ASSUME NEW i \in DOMAIN d.entries
      PROVE  /\ d.entries[i].dir \in BOOLEAN /\ d.entries[i].md \in BOOLEAN
             /\ weight(d.entries[i]) \in Int
             /\ d.entries[i].dir => d.entries[i] \in Directories
             /\ ~d.entries[i].dir => d.entries[i].name \in DisplayNames
  <2>1. CASE IsFile(d.entries[i])
    BY <2>1 DEF IsFile, weight
  <2>2. CASE d.entries[i] \in Directories
    <3>1. IsDirectory(d.entries[i])
      BY <2>2, DirectoriesAssumption
    <3> QED  BY <2>2, <3>1 DEF IsDirectory, weight
  <2> QED  BY <2>1, <2>2, DirectoriesAssumption
<1>3. \A i \in DOMAIN d.entries : i \in Nat
  BY <1>1 DEF IsDirectory
<1> QED  BY <1>1, <1>2, <1>3 DEF IsDirectory

-----------------------------------------------------------------------------
(* Items: the rank of an entry is its place in the order.                  *)

KeptIn(d) == {i \in DOMAIN d.entries : d.entries[i].dir \/ d.entries[i].md}

LEMMA LighterIsTotalOrder ==
  ASSUME NEW d \in Directories
  PROVE  /\ \A i \in KeptIn(d) : ~Lighter(d, i, i)
         /\ \A i, j \in KeptIn(d) : i = j \/ Lighter(d, i, j) \/ Lighter(d, j, i)
         /\ \A i, j, k \in KeptIn(d) : Lighter(d, i, j) /\ Lighter(d, j, k) => Lighter(d, i, k)
<1> DEFINE w(i) == weight(d.entries[i])
<1>1. \A i \in KeptIn(d) : i \in Nat /\ w(i) \in Int
  BY EntryShape DEF KeptIn
<1>2. \A i, j : Lighter(d, i, j) <=> w(i) < w(j) \/ (w(i) = w(j) /\ i < j)
  BY DEF Lighter
<1> HIDE DEF w
<1> QED  BY <1>1, <1>2

RankIn(d) == [i \in KeptIn(d) |-> Cardinality({j \in KeptIn(d) : Lighter(d, j, i)}) + 1]

LEMMA RankOrders ==
  ASSUME NEW d \in Directories
  PROVE  /\ Cardinality(KeptIn(d)) \in Nat
         /\ RankIn(d) \in [KeptIn(d) -> 1..Cardinality(KeptIn(d))]
         /\ \A i, j \in KeptIn(d) : Lighter(d, i, j) <=> RankIn(d)[i] < RankIn(d)[j]
         /\ \A k \in 1..Cardinality(KeptIn(d)) : \E i \in KeptIn(d) : RankIn(d)[i] = k
<1> DEFINE S == KeptIn(d)
           Less(i, j) == Lighter(d, i, j)
           Lower(i) == {j \in S : Less(j, i)}
           rank == RankIn(d)
<1>1. IsFiniteSet(S)
  <2>1. IsFiniteSet(DOMAIN d.entries)
    <3>1. /\ DOMAIN d.entries = 1..Len(d.entries) /\ Len(d.entries) \in Int /\ 1 \in Int
      BY EntryShape
    <3>2. IsFiniteSet(1..Len(d.entries))
      BY <3>1, FS_Interval
    <3> QED  BY <3>1, <3>2
  <2>2. S \subseteq DOMAIN d.entries
    BY DEF KeptIn
  <2> QED  BY <2>1, <2>2, FS_Subset
<1>2. /\ \A i \in S : ~Less(i, i)
      /\ \A i, j \in S : i = j \/ Less(i, j) \/ Less(j, i)
      /\ \A i, j, k \in S : Less(i, j) /\ Less(j, k) => Less(i, k)
  BY LighterIsTotalOrder
<1>3. \A i \in S : rank[i] = Cardinality(Lower(i)) + 1
  BY DEF RankIn
<1>4. rank = [i \in S |-> rank[i]]
  BY DEF RankIn
<1>5. Cardinality(S) \in Nat
  BY <1>1, FS_CardinalityType
<1> SUFFICES /\ rank \in [S -> 1..Cardinality(S)]
             /\ \A i, j \in S : Less(i, j) <=> rank[i] < rank[j]
             /\ \A k \in 1..Cardinality(S) : \E i \in S : rank[i] = k
  BY <1>5
<1> HIDE DEF S, Less, rank
<1>6. ASSUME NEW i \in S
      PROVE  /\ Lower(i) \in SUBSET S /\ i \notin Lower(i)
             /\ IsFiniteSet(Lower(i)) /\ Cardinality(Lower(i)) \in Nat
             /\ Cardinality(Lower(i)) < Cardinality(S)
  <2>1. Lower(i) \in SUBSET S /\ i \notin Lower(i)
    BY <1>2
  <2>2. IsFiniteSet(Lower(i))
    BY <1>1, <2>1, FS_Subset
  <2> HIDE DEF Lower
  <2>3. Cardinality(Lower(i)) <= Cardinality(S) /\ Cardinality(S) # Cardinality(Lower(i))
    BY <1>1, <2>1, FS_Subset
  <2> QED  BY <2>1, <2>2, <2>3, <1>5, FS_CardinalityType
<1>7. ASSUME NEW i \in S, NEW j \in S, Less(i, j)
      PROVE  Cardinality(Lower(i)) < Cardinality(Lower(j))
  <2>1. Lower(i) \subseteq Lower(j) /\ i \in Lower(j) /\ i \notin Lower(i)
    BY <1>2, <1>7
  <2> HIDE DEF Lower
  <2>2. /\ Cardinality(Lower(i)) <= Cardinality(Lower(j))
        /\ Cardinality(Lower(j)) # Cardinality(Lower(i))
    BY <2>1, <1>6, FS_Subset
  <2> QED  BY <2>2, <1>6
<1> HIDE DEF Lower
<1>8. \A i \in S : rank[i] \in 1..Cardinality(S) /\ rank[i] \in Nat
  BY <1>3, <1>5, <1>6
<1>9. rank \in [S -> 1..Cardinality(S)]
  BY <1>4, <1>8
<1>10. \A i, j \in S : Less(i, j) <=> rank[i] < rank[j]
  <2>1. \A i, j \in S : Less(i, j) => rank[i] < rank[j]
    BY <1>3, <1>6, <1>7
  <2> QED  BY <2>1, <1>2, <1>8
<1>11. rank \in Injection(S, 1..Cardinality(S))
  <2>1. \A i, j \in S : rank[i] = rank[j] => i = j
    BY <1>2, <1>8, <1>10
  <2> QED  BY <2>1, <1>9 DEF Injection, IsInjective
<1>12. rank \in Surjection(S, 1..Cardinality(S))
  <2>1. IsFiniteSet(1..Cardinality(S)) /\ Cardinality(1..Cardinality(S)) = Cardinality(S)
    BY <1>5, FS_Interval
  <2> QED  BY <2>1, <1>1, <1>11, FS_Injection
<1> QED  BY <1>9, <1>10, <1>12 DEF Surjection

(* Items(d) has each entry that is kept once, in the order of Lighter.     *)
LEMMA ItemsSorted ==
  ASSUME NEW d \in Directories
  PROVE  /\ Len(Items(d)) \in Nat /\ DOMAIN Items(d) = 1..Len(Items(d))
         /\ \A k \in 1..Len(Items(d)) : Items(d)[k] \in KeptIn(d)
         /\ \A i \in KeptIn(d) : \E k \in 1..Len(Items(d)) : Items(d)[k] = i
         /\ \A j, k \in 1..Len(Items(d)) : j < k => Lighter(d, Items(d)[j], Items(d)[k])
<1> DEFINE S == KeptIn(d)
           n == Cardinality(S)
           rank == RankIn(d)
           items == Items(d)
<1>1. /\ n \in Nat /\ rank \in [S -> 1..n]
      /\ \A i, j \in S : Lighter(d, i, j) <=> rank[i] < rank[j]
      /\ \A k \in 1..n : \E i \in S : rank[i] = k
  BY RankOrders
<1>2. items = [k \in 1..n |-> CHOOSE i \in S : Cardinality({j \in S : Lighter(d, j, i)}) + 1 = k]
  BY DEF Items, KeptIn
<1>3. \A i \in S : rank[i] = Cardinality({j \in S : Lighter(d, j, i)}) + 1
  BY DEF RankIn
<1>4. \A i, j \in S : i = j \/ Lighter(d, i, j) \/ Lighter(d, j, i)
  BY LighterIsTotalOrder
<1> HIDE DEF S, n, rank, items
<1>5. DOMAIN items = 1..n /\ Len(items) = n
  BY <1>1, <1>2
<1>6. ASSUME NEW k \in 1..n PROVE items[k] \in S /\ rank[items[k]] = k
  <2>1. \E i \in S : Cardinality({j \in S : Lighter(d, j, i)}) + 1 = k
    BY <1>1, <1>3
  <2>2. items[k] = CHOOSE i \in S : Cardinality({j \in S : Lighter(d, j, i)}) + 1 = k
    BY <1>2
  <2>3. items[k] \in S /\ Cardinality({j \in S : Lighter(d, j, items[k])}) + 1 = k
    BY <2>1, <2>2
  <2> QED  BY <2>3, <1>3
<1>7. ASSUME NEW i \in S PROVE \E k \in 1..n : items[k] = i
  <2>1. rank[i] \in 1..n /\ items[rank[i]] \in S /\ rank[items[rank[i]]] = rank[i]
    BY <1>1, <1>6
  <2>2. items[rank[i]] = i
    BY <2>1, <1>1, <1>4
  <2> QED  BY <2>1, <2>2
<1>8. \A j, k \in 1..n : j < k => Lighter(d, items[j], items[k])
  BY <1>1, <1>6
<1> QED  BY <1>1, <1>5, <1>6, <1>7, <1>8 DEF S, items

-----------------------------------------------------------------------------
(* flattenBody: the recursive function in it is one.                       *)

(* upTo is that function for d, up to n. *)
UpTo(upTo, d, n) ==
    /\ DOMAIN upTo = 0..n
    /\ upTo[0] = <<>>
    /\ \A k \in 1..n : upTo[k] = upTo[k - 1] \o ItemsAt(ItemsOf, d, Items(d)[k])

LEMMA UpToExists ==
  ASSUME NEW d, NEW n \in Nat
  PROVE  \E upTo : upTo = [k \in DOMAIN upTo |-> upTo[k]] /\ UpTo(upTo, d, n)
<1> DEFINE S == {m \in Nat : \E upTo : upTo = [k \in DOMAIN upTo |-> upTo[k]]
                                          /\ UpTo(upTo, d, m)}
           At(k) == ItemsAt(ItemsOf, d, Items(d)[k])
<1>1. 0 \in S
  <2>1. UpTo([k \in 0..0 |-> <<>>], d, 0)
    BY DEF UpTo
  <2> QED  BY <2>1
<1>2. ASSUME NEW m \in S PROVE m + 1 \in S
  <2>1. PICK upTo : UpTo(upTo, d, m)
    OBVIOUS
  <2> DEFINE more == [k \in 0..(m + 1) |->
                        IF k \in 0..m THEN upTo[k] ELSE upTo[m] \o At(m + 1)]
  <2> HIDE DEF At
  <2>2. more[0] = <<>> /\ DOMAIN more = 0..(m + 1)
    BY <2>1 DEF UpTo
  <2>3. ASSUME NEW k \in 1..(m + 1)
        PROVE  more[k] = more[k - 1] \o At(k)
    <3>1. CASE k \in 1..m
      <4>1. more[k] = upTo[k] /\ more[k - 1] = upTo[k - 1]
        BY <3>1
      <4> QED  BY <4>1, <3>1, <2>1 DEF UpTo, At
    <3>2. CASE k = m + 1
      BY <3>2
    <3>3. k \in 1..m \/ k = m + 1
      OBVIOUS
    <3> QED  BY <3>1, <3>2, <3>3
  <2>4. UpTo(more, d, m + 1)
    BY <2>2, <2>3 DEF UpTo, At
  <2>5. more = [k \in DOMAIN more |-> more[k]]
    OBVIOUS
  <2> HIDE DEF more
  <2> QED  BY <2>4, <2>5
<1>3. S = Nat
  <2> HIDE DEF S
  <2>1. S \in SUBSET Nat  BY DEF S
  <2> QED  BY <1>1, <1>2, <2>1, SetInduction
<1> QED  BY <1>3

LEMMA FlattenIsUpTo ==
  ASSUME NEW d \in Directories
  PROVE  \E upTo : UpTo(upTo, d, Len(Items(d))) /\ flatten(d) = upTo[Len(Items(d))]
<1> DEFINE n == Len(Items(d))
           Step(f, k) == IF k = 0 THEN <<>>
                         ELSE f[k - 1] \o ItemsAt(ItemsOf, d, Items(d)[k])
           upTo == CHOOSE f : f = [k \in 0..n |-> Step(f, k)]
<1>0. n \in Nat
  BY ItemsSorted
<1>1. PICK g : g = [k \in DOMAIN g |-> g[k]] /\ UpTo(g, d, n)
  BY <1>0, UpToExists
<1>2. g = [k \in 0..n |-> Step(g, k)]
  <2>1. DOMAIN g = 0..n
    BY <1>1 DEF UpTo
  <2>2. ASSUME NEW k \in 0..n PROVE g[k] = Step(g, k)
    <3>1. k = 0 \/ (k \in 1..n /\ k # 0)
      BY <1>0
    <3> QED  BY <3>1, <1>1, Zenon DEF UpTo
  <2> QED  BY <1>1, <2>1, <2>2
<1>3. upTo = [k \in 0..n |-> Step(upTo, k)]
  BY <1>2, Zenon
<1>4. flatten(d) = upTo[n]
  <2>1. flatten(d) = flattenBody(ItemsOf, d)
    BY RecursionAssumption
  <2> QED  BY <2>1 DEF flattenBody
<1>5. UpTo(upTo, d, n)
  <2> HIDE DEF upTo
  <2>1. \A k \in 0..n : upTo[k] = Step(upTo, k)
    BY <1>3, Zenon
  <2>2. ASSUME NEW k \in 1..n
        PROVE  upTo[k] = upTo[k - 1] \o ItemsAt(ItemsOf, d, Items(d)[k])
    <3>1. k \in 0..n /\ k # 0
      BY <1>0
    <3> QED  BY <2>1, <3>1, Zenon
  <2>3. 0 \in 0..n
    BY <1>0
  <2>4. upTo[0] = <<>>
    BY <2>1, <2>3, Zenon
  <2>5. DOMAIN upTo = 0..n
    BY <1>3, Zenon
  <2> QED  BY <2>2, <2>4, <2>5, Zenon DEF UpTo
<1> QED  BY <1>4, <1>5

-----------------------------------------------------------------------------
(* Paths: the entries of a directory by their paths.                       *)

LEMMA PrefixUnder ==
  ASSUME NEW i \in Nat, NEW q \in Seq(Nat)
  PROVE  /\ <<i>> \o q \in Seq(Nat) /\ Len(<<i>> \o q) = Len(q) + 1
         /\ (<<i>> \o q)[1] = i
         /\ \A n \in 1..Len(q) : (<<i>> \o q)[n + 1] = q[n]
         /\ Tail(<<i>> \o q) = q
         /\ Prefix(<<i>> \o q, 0) = <<>> /\ Prefix(<<i>> \o q, 1) = <<i>>
         /\ \A n \in 0..Len(q) : Prefix(<<i>> \o q, n + 1) = <<i>> \o Prefix(q, n)
         /\ \A n \in 0..Len(q) : Prefix(q, n) \in Seq(Nat) /\ Len(Prefix(q, n)) = n
<1> DEFINE r == <<i>> \o q
<1>1. r \in Seq(Nat) /\ Len(r) = Len(q) + 1 /\ r[1] = i
  OBVIOUS
<1>2. \A n \in 1..Len(q) : r[n + 1] = q[n]
  OBVIOUS
<1>3. Tail(r) = q
  OBVIOUS
<1>4. \A n \in 0..Len(q) : Prefix(q, n) \in Seq(Nat) /\ Len(Prefix(q, n)) = n
  BY DEF Prefix
<1>5. \A n \in 0..Len(q) : \A k \in 1..n : Prefix(q, n)[k] = q[k]
  BY DEF Prefix
<1>6. \A n \in 0..Len(r) : Prefix(r, n) \in Seq(Nat) /\ Len(Prefix(r, n)) = n
                             /\ \A k \in 1..n : Prefix(r, n)[k] = r[k]
  BY <1>1 DEF Prefix
<1>7. ASSUME NEW n \in 0..Len(q) PROVE Prefix(r, n + 1) = <<i>> \o Prefix(q, n)
  <2> DEFINE s == Prefix(r, n + 1)
             t == <<i>> \o Prefix(q, n)
  <2>1. s \in Seq(Nat) /\ Len(s) = n + 1 /\ \A k \in 1..(n + 1) : s[k] = r[k]
    <3>1. n + 1 \in 0..Len(r)
      BY <1>1
    <3> HIDE DEF r
    <3> QED  BY <3>1, <1>6
  <2>2. /\ t \in Seq(Nat) /\ Len(t) = n + 1
        /\ \A k \in 1..(n + 1) : t[k] = IF k = 1 THEN i ELSE q[k - 1]
    BY <1>4, <1>5
  <2>3. \A k \in 1..(n + 1) : r[k] = IF k = 1 THEN i ELSE q[k - 1]
    OBVIOUS
  <2> HIDE DEF r, s, t
  <2>4. \A k \in 1..(n + 1) : s[k] = t[k]
    BY <2>1, <2>2, <2>3
  <2>5. DOMAIN s = 1..(n + 1) /\ DOMAIN t = 1..(n + 1)
    BY <2>1, <2>2
  <2>6. s = [k \in 1..(n + 1) |-> s[k]] /\ t = [k \in 1..(n + 1) |-> t[k]]
    BY <2>1, <2>2, <2>5
  <2>7. s = t
    BY <2>4, <2>6
  <2> QED  BY <2>7 DEF s, t, r
<1>8. Prefix(r, 0) = <<>>
  BY <1>1 DEF Prefix
<1>9. Prefix(r, 1) = <<i>>
  <2>1. Prefix(q, 0) = <<>>
    BY DEF Prefix
  <2>2. Prefix(r, 0 + 1) = <<i>> \o Prefix(q, 0)
    <3>1. 0 \in 0..Len(q)
      OBVIOUS
    <3> HIDE DEF r
    <3> QED  BY <3>1, <1>7
  <2> QED  BY <2>1, <2>2
<1> QED  BY <1>1, <1>2, <1>3, <1>4, <1>7, <1>8, <1>9

LEMMA PrefixOfOne ==
  ASSUME NEW i \in Nat
  PROVE  Prefix(<<i>>, 1) = <<i>> /\ Prefix(<<i>>, 0) = <<>>
<1>1. <<i>> \o <<>> = <<i>> /\ <<>> \in Seq(Nat)
  OBVIOUS
<1>2. Prefix(<<i>> \o <<>>, 0) = <<>> /\ Prefix(<<i>> \o <<>>, 1) = <<i>>
  BY <1>1, PrefixUnder
<1> QED  BY <1>1, <1>2

LEMMA TreeIs ==
  ASSUME NEW d \in Directories
  PROVE  /\ \A i \in DOMAIN d.entries :
              /\ <<i>> \in DOMAIN Tree(d) /\ Tree(d)[<<i>>] = d.entries[i]
              /\ d.entries[i].dir =>
                   \A q \in DOMAIN Tree(d.entries[i]) :
                      /\ <<i>> \o q \in DOMAIN Tree(d)
                      /\ q \in Seq(Nat) /\ q # <<>> =>
                           Tree(d)[<<i>> \o q] = Tree(d.entries[i])[q]
         /\ \A p \in DOMAIN Tree(d) : \E i \in DOMAIN d.entries :
              \/ p = <<i>>
              \/ /\ d.entries[i].dir
                 /\ \E q \in DOMAIN Tree(d.entries[i]) : p = <<i>> \o q
<1> DEFINE Ent(i) == d.entries[i]
           I == DOMAIN d.entries
           Under(i) == IF Ent(i).dir THEN DOMAIN Tree(Ent(i)) ELSE {}
           paths == {<<i>> : i \in I} \cup UNION {{<<i>> \o q : q \in Under(i)} : i \in I}
           At(p) == IF Len(p) = 1 THEN Ent(p[1]) ELSE Tree(Ent(p[1]))[Tail(p)]
<1>1. Tree(d) = [p \in paths |-> At(p)]
  <2>1. Tree(d) = TreeBody(TreeOf, d)
    BY RecursionAssumption
  <2> QED  BY <2>1 DEF TreeBody, Tree
<1>2. DOMAIN Tree(d) = paths /\ \A p \in paths : Tree(d)[p] = At(p)
  <2> HIDE DEF paths, At
  <2> QED  BY <1>1
<1>3. \A i \in I : <<i>> \in paths
  OBVIOUS
<1>4. \A i \in I : Ent(i).dir => \A q \in DOMAIN Tree(Ent(i)) : <<i>> \o q \in paths
  OBVIOUS
<1>5. \A p \in paths : \E i \in I : p = <<i>> \/ \E q \in Under(i) : p = <<i>> \o q
  OBVIOUS
<1>6. \A i \in I : At(<<i>>) = Ent(i)
  OBVIOUS
<1>7. ASSUME NEW i \in I, NEW q \in Seq(Nat), q # <<>>
      PROVE  At(<<i>> \o q) = Tree(Ent(i))[q]
  <2>1. i \in Nat
    BY EntryShape
  <2>2. Len(q) \in Nat /\ Len(q) # 0
    BY <1>7
  <2>3. Len(<<i>> \o q) = Len(q) + 1 /\ (<<i>> \o q)[1] = i /\ Tail(<<i>> \o q) = q
    BY <2>1, PrefixUnder
  <2> DEFINE p == <<i>> \o q
  <2>4. Len(p) # 1 /\ p[1] = i /\ Tail(p) = q
    BY <2>2, <2>3
  <2> HIDE DEF p, Ent
  <2>5. At(p) = Tree(Ent(i))[q]
    BY <2>4
  <2> QED  BY <2>5 DEF p
<1>8. \A i \in I : \A q \in Under(i) : Ent(i).dir /\ q \in DOMAIN Tree(Ent(i))
  OBVIOUS
<1>9. ASSUME NEW i \in I
      PROVE  /\ <<i>> \in DOMAIN Tree(d) /\ Tree(d)[<<i>>] = Ent(i)
             /\ Ent(i).dir =>
                  \A q \in DOMAIN Tree(Ent(i)) :
                     /\ <<i>> \o q \in DOMAIN Tree(d)
                     /\ q \in Seq(Nat) /\ q # <<>> => Tree(d)[<<i>> \o q] = Tree(Ent(i))[q]
  <2> HIDE DEF paths, At, I, Ent, Under
  <2> QED  BY <1>2, <1>3, <1>4, <1>6, <1>7
<1>10. ASSUME NEW p \in DOMAIN Tree(d)
       PROVE  \E i \in I : \/ p = <<i>>
                           \/ Ent(i).dir /\ \E q \in DOMAIN Tree(Ent(i)) : p = <<i>> \o q
  <2> HIDE DEF paths, At, I, Ent, Under
  <2> QED  BY <1>2, <1>5, <1>8
<1> QED  BY <1>9, <1>10

(* q is a path in d, as is each part of it from the beginning. *)
IsPath(d, q) ==
    /\ q \in Seq(Nat) /\ q # <<>> /\ Len(q) \in Nat /\ Len(q) >= 1
    /\ Tree(d)[q].dir \in BOOLEAN /\ weight(Tree(d)[q]) \in Int
    /\ \A n \in 1..Len(q) : Prefix(q, n) \in DOMAIN Tree(d)

LEMMA PathsArePaths ==
  ASSUME NEW d \in Directories, NEW p \in DOMAIN Tree(d)
  PROVE  IsPath(d, p)
<1> DEFINE S == {e \in Directories : \A q \in DOMAIN Tree(e) : IsPath(e, q)}
<1>1. ASSUME NEW e \in Directories,
             \A i \in DOMAIN e.entries : e.entries[i].dir => e.entries[i] \in S
      PROVE  e \in S
  <2> SUFFICES ASSUME NEW q \in DOMAIN Tree(e) PROVE IsPath(e, q)
    OBVIOUS
  <2>1. PICK i \in DOMAIN e.entries :
           \/ q = <<i>>
           \/ /\ e.entries[i].dir
              /\ \E r \in DOMAIN Tree(e.entries[i]) : q = <<i>> \o r
    BY TreeIs
  <2>2. i \in Nat
    BY EntryShape
  <2>3. CASE q = <<i>>
    <3>1. q \in Seq(Nat) /\ q # <<>> /\ Len(q) = 1
      BY <2>2, <2>3
    <3>2. Tree(e)[q] = e.entries[i]
      BY <2>3, TreeIs
    <3>3. e.entries[i].dir \in BOOLEAN /\ weight(e.entries[i]) \in Int
      BY EntryShape
    <3>4. Tree(e)[q].dir \in BOOLEAN /\ weight(Tree(e)[q]) \in Int
      BY <3>2, <3>3, Zenon
    <3>5. \A n \in 1..1 : Prefix(q, n) = q
      <4>1. \A n \in 1..1 : n = 1
        OBVIOUS
      <4> QED  BY <4>1, <2>2, <2>3, PrefixOfOne
    <3> QED  BY <3>1, <3>4, <3>5 DEF IsPath
  <2>4. CASE q # <<i>>
    <3> DEFINE f == e.entries[i]
    <3>1. PICK r \in DOMAIN Tree(f) : q = <<i>> \o r /\ f.dir
      BY <2>1, <2>4
    <3>2. IsPath(f, r)
      BY <1>1, <3>1
    <3>3. r \in Seq(Nat) /\ r # <<>> /\ Len(r) \in Nat /\ Len(r) >= 1
      BY <3>2 DEF IsPath
    <3>4. q \in Seq(Nat) /\ Len(q) = Len(r) + 1 /\ q # <<>>
      BY <2>2, <3>1, <3>3, PrefixUnder
    <3>5. Tree(e)[q] = Tree(f)[r]
      BY <3>1, <3>3, TreeIs
    <3>6. ASSUME NEW n \in 1..Len(q) PROVE Prefix(q, n) \in DOMAIN Tree(e)
      <4>1. CASE n = 1
        <5>1. Prefix(q, 1) = <<i>>
          BY <2>2, <3>1, <3>3, PrefixUnder
        <5> QED  BY <4>1, <5>1, TreeIs
      <4>2. CASE n # 1
        <5>1. n - 1 \in 1..Len(r) /\ n - 1 \in 0..Len(r) /\ (n - 1) + 1 = n
          BY <4>2, <3>3, <3>4
        <5>2. Prefix(q, (n - 1) + 1) = <<i>> \o Prefix(r, n - 1)
          BY <2>2, <3>1, <3>3, <5>1, PrefixUnder
        <5>3. Prefix(r, n - 1) \in DOMAIN Tree(f)
          BY <3>2, <5>1 DEF IsPath
        <5>4. <<i>> \o Prefix(r, n - 1) \in DOMAIN Tree(e)
          BY <5>3, <3>1, TreeIs
        <5> QED  BY <5>1, <5>2, <5>4
      <4> QED  BY <4>1, <4>2
    <3>7. Tree(e)[q].dir \in BOOLEAN /\ weight(Tree(e)[q]) \in Int
      BY <3>2, <3>5 DEF IsPath
    <3>8. Len(q) \in Nat /\ Len(q) >= 1
      BY <3>3, <3>4
    <3> QED  BY <3>4, <3>6, <3>7, <3>8 DEF IsPath
  <2> QED  BY <2>3, <2>4
<1>2. Directories \subseteq S
  <2> HIDE DEF S
  <2>1. S \in SUBSET Directories  BY DEF S
  <2> QED  BY <1>1, <2>1, DirectoryInduction
<1> QED  BY <1>2

(* What is at a path through the i-th entry, a directory, is what is at    *)
(* the rest of the path in that.                                           *)
LEMMA Through ==
  ASSUME NEW d \in Directories, NEW i \in DOMAIN d.entries, d.entries[i].dir,
         NEW q \in DOMAIN Tree(d.entries[i])
  PROVE  /\ <<i>> \o q \in DOMAIN Tree(d) /\ Len(<<i>> \o q) = Len(q) + 1
         /\ (<<i>> \o q)[1] = i /\ \A n \in 1..Len(q) : (<<i>> \o q)[n + 1] = q[n]
         /\ Tree(d)[<<i>> \o q] = Tree(d.entries[i])[q]
         /\ Tree(d)[Prefix(<<i>> \o q, 1)] = d.entries[i]
         /\ \A n \in 1..Len(q) :
              /\ Tree(d)[Prefix(<<i>> \o q, n + 1)] = Tree(d.entries[i])[Prefix(q, n)]
              /\ Weight(d, Prefix(<<i>> \o q, n + 1)) = Weight(d.entries[i], Prefix(q, n))
              /\ NameAt(d, <<i>> \o q, n + 1) = NameAt(d.entries[i], q, n)
         /\ NameAt(d, <<i>> \o q, 1) = d.entries[i].section.name
<1> DEFINE e == d.entries[i]
<1>1. i \in Nat /\ e \in Directories
  BY EntryShape
<1>2. /\ q \in Seq(Nat) /\ q # <<>> /\ Len(q) \in Nat
      /\ \A n \in 1..Len(q) : Prefix(q, n) \in DOMAIN Tree(e)
  BY <1>1, PathsArePaths DEF IsPath
<1>3. /\ Len(<<i>> \o q) = Len(q) + 1 /\ (<<i>> \o q)[1] = i
      /\ \A n \in 1..Len(q) : (<<i>> \o q)[n + 1] = q[n]
      /\ Prefix(<<i>> \o q, 1) = <<i>>
      /\ \A n \in 1..Len(q) : /\ Prefix(<<i>> \o q, n + 1) = <<i>> \o Prefix(q, n)
                              /\ Prefix(q, n) \in Seq(Nat) /\ Prefix(q, n) # <<>>
  <2>1. \A n \in 1..Len(q) : n \in 0..Len(q) /\ n # 0
    BY <1>2
  <2>2. \A n \in 1..Len(q) : /\ Prefix(<<i>> \o q, n + 1) = <<i>> \o Prefix(q, n)
                             /\ Prefix(q, n) \in Seq(Nat) /\ Len(Prefix(q, n)) = n
    BY <1>1, <1>2, <2>1, PrefixUnder
  <2>3. \A n \in 1..Len(q) : Prefix(q, n) # <<>>
    BY <2>1, <2>2
  <2> QED  BY <1>1, <1>2, <2>2, <2>3, PrefixUnder
<1>4. ASSUME NEW n \in 1..Len(q)
      PROVE  Tree(d)[Prefix(<<i>> \o q, n + 1)] = Tree(e)[Prefix(q, n)]
  <2> DEFINE p == Prefix(q, n)
  <2>1. /\ Prefix(<<i>> \o q, n + 1) = <<i>> \o p
        /\ p \in Seq(Nat) /\ p # <<>> /\ p \in DOMAIN Tree(e)
    BY <1>2, <1>3
  <2> HIDE DEF p
  <2>2. Tree(d)[<<i>> \o p] = Tree(e)[p]
    BY <2>1, TreeIs
  <2> QED  BY <2>1, <2>2 DEF p
<1>5. Tree(d)[Prefix(<<i>> \o q, 1)] = e
  BY <1>3, TreeIs
<1>6. <<i>> \o q \in DOMAIN Tree(d) /\ Tree(d)[<<i>> \o q] = Tree(e)[q]
  BY <1>2, TreeIs
<1> QED  BY <1>3, <1>4, <1>5, <1>6 DEF Weight, NameAt

-----------------------------------------------------------------------------
(* The order of paths.                                                     *)

LEMMA BeforeThrough ==
  ASSUME NEW d \in Directories, NEW i \in DOMAIN d.entries, d.entries[i].dir,
         NEW q \in DOMAIN Tree(d.entries[i]), NEW r \in DOMAIN Tree(d.entries[i]),
         ComesBefore(d.entries[i], q, r)
  PROVE  ComesBefore(d, <<i>> \o q, <<i>> \o r)
<1> DEFINE e == d.entries[i]
<1>1. i \in Nat /\ e \in Directories
  BY EntryShape
<1>2. q \in Seq(Nat) /\ r \in Seq(Nat) /\ Len(q) \in Nat /\ Len(r) \in Nat
  BY <1>1, PathsArePaths DEF IsPath
<1>3. PICK n \in 1..Len(q) :
         /\ n <= Len(r) /\ Prefix(q, n - 1) = Prefix(r, n - 1)
         /\ \/ Weight(e, Prefix(q, n)) < Weight(e, Prefix(r, n))
            \/ /\ Weight(e, Prefix(q, n)) = Weight(e, Prefix(r, n))
               /\ q[n] < r[n]
  BY DEF ComesBefore
<1>4. n \in 1..Len(r) /\ n - 1 \in 0..Len(q) /\ n - 1 \in 0..Len(r) /\ (n - 1) + 1 = n
  BY <1>2, <1>3
<1>5. Prefix(<<i>> \o q, n) = Prefix(<<i>> \o r, n)
  <2>1. /\ Prefix(<<i>> \o q, (n - 1) + 1) = <<i>> \o Prefix(q, n - 1)
        /\ Prefix(<<i>> \o r, (n - 1) + 1) = <<i>> \o Prefix(r, n - 1)
    BY <1>1, <1>2, <1>4, PrefixUnder
  <2> QED  BY <2>1, <1>3, <1>4
<1>6. /\ Weight(d, Prefix(<<i>> \o q, n + 1)) = Weight(e, Prefix(q, n))
      /\ Weight(d, Prefix(<<i>> \o r, n + 1)) = Weight(e, Prefix(r, n))
      /\ (<<i>> \o q)[n + 1] = q[n] /\ (<<i>> \o r)[n + 1] = r[n]
  BY <1>4, Through
<1>7. n + 1 \in 1..Len(<<i>> \o q) /\ n + 1 <= Len(<<i>> \o r) /\ (n + 1) - 1 = n
  BY <1>1, <1>2, <1>4, PrefixUnder
<1>8. Prefix(<<i>> \o q, (n + 1) - 1) = Prefix(<<i>> \o r, (n + 1) - 1)
  BY <1>5, <1>7
<1> QED  BY <1>3, <1>6, <1>7, <1>8 DEF ComesBefore

(* The first entry of a path. *)
LEMMA FirstOf ==
  ASSUME NEW d \in Directories, NEW q \in DOMAIN Tree(d)
  PROVE  /\ q[1] \in DOMAIN d.entries /\ Prefix(q, 1) = <<q[1]>> /\ Prefix(q, 0) = <<>>
         /\ Weight(d, Prefix(q, 1)) = weight(d.entries[q[1]])
<1>1. PICK i \in DOMAIN d.entries :
         \/ q = <<i>>
         \/ /\ d.entries[i].dir
            /\ \E r \in DOMAIN Tree(d.entries[i]) : q = <<i>> \o r
  BY TreeIs
<1>2. i \in Nat
  BY EntryShape
<1>3. q[1] = i /\ Prefix(q, 1) = <<i>> /\ Prefix(q, 0) = <<>>
  <2>1. CASE q = <<i>>
    BY <1>2, <2>1, PrefixOfOne
  <2>2. CASE q # <<i>>
    <3>1. PICK r \in DOMAIN Tree(d.entries[i]) : d.entries[i].dir /\ q = <<i>> \o r
      BY <1>1, <2>2
    <3>2. r \in Seq(Nat)
      BY <3>1, EntryShape, PathsArePaths DEF IsPath
    <3> QED  BY <1>2, <3>1, <3>2, PrefixUnder
  <2> QED  BY <2>1, <2>2
<1>4. Tree(d)[<<i>>] = d.entries[i]
  BY TreeIs
<1> QED  BY <1>3, <1>4 DEF Weight, weight

LEMMA LighterFirst ==
  ASSUME NEW d \in Directories, NEW q \in DOMAIN Tree(d), NEW r \in DOMAIN Tree(d),
         Lighter(d, q[1], r[1])
  PROVE  ComesBefore(d, q, r)
<1>1. /\ Prefix(q, 1 - 1) = Prefix(r, 1 - 1)
      /\ Weight(d, Prefix(q, 1)) = weight(d.entries[q[1]])
      /\ Weight(d, Prefix(r, 1)) = weight(d.entries[r[1]])
  BY FirstOf
<1>2. 1 \in 1..Len(q) /\ 1 <= Len(r)
  BY PathsArePaths DEF IsPath
<1> QED  BY <1>1, <1>2 DEF ComesBefore, Lighter

LEMMA NotBeforeItself ==
  ASSUME NEW d \in Directories, NEW q \in DOMAIN Tree(d)
  PROVE  ~ComesBefore(d, q, q)
<1> SUFFICES ASSUME ComesBefore(d, q, q) PROVE FALSE
  OBVIOUS
<1>1. q \in Seq(Nat) /\ \A n \in 1..Len(q) : Prefix(q, n) \in DOMAIN Tree(d)
  BY PathsArePaths DEF IsPath
<1>2. PICK n \in 1..Len(q) : \/ Weight(d, Prefix(q, n)) < Weight(d, Prefix(q, n))
                             \/ q[n] < q[n]
  BY DEF ComesBefore
<1>3. Weight(d, Prefix(q, n)) \in Int
  BY <1>1, PathsArePaths DEF IsPath, Weight, weight
<1>4. q[n] \in Nat
  BY <1>1
<1> QED  BY <1>2, <1>3, <1>4

-----------------------------------------------------------------------------
(* Names: those of the rest of a path, under the name of a section.        *)

LEMMA NameThrough ==
  ASSUME NEW d \in Directories, NEW i \in DOMAIN d.entries, d.entries[i].dir,
         NEW q \in DOMAIN Tree(d.entries[i]), NEW names \in Seq(DisplayNames),
         IsNameOf(d.entries[i], q, names)
  PROVE  IsNameOf(d, <<i>> \o q, Join(d.entries[i].section.name, names))
<1> DEFINE e == d.entries[i]
           p == <<i>> \o q
           name == e.section.name
           more == Join(name, names)
           At(n) == NameAt(d, p, n)
           In(n) == NameAt(e, q, n)
<1>1. Len(q) \in Nat /\ Len(q) >= 1
  BY EntryShape, PathsArePaths DEF IsPath
<1>2. Len(p) = Len(q) + 1 /\ At(1) = name /\ \A n \in 1..Len(q) : At(n + 1) = In(n)
  BY Through
<1>3. Len(names) \in Nat /\ DOMAIN names = 1..Len(names)
  OBVIOUS
<1>4. PICK place \in [1..Len(names) -> 1..Len(q)] :
        /\ \A j, k \in 1..Len(names) : j < k => place[j] < place[k]
        /\ \A n \in 1..Len(q) : In(n) # "" <=> \E k \in 1..Len(names) : place[k] = n
        /\ \A k \in 1..Len(names) : names[k] = In(place[k])
  BY <1>3 DEF IsNameOf
<1>5. \A k \in 1..Len(names) : place[k] \in Nat /\ place[k] >= 1 /\ place[k] \in 1..Len(q)
  BY <1>1
<1> SUFFICES \E there \in [DOMAIN more -> 1..Len(p)] :
        /\ \A j, k \in DOMAIN more : j < k => there[j] < there[k]
        /\ \A n \in 1..Len(p) : At(n) # "" <=> \E k \in DOMAIN more : there[k] = n
        /\ \A k \in DOMAIN more : more[k] = At(there[k])
  BY DEF IsNameOf
<1>6. \A n \in 1..Len(p) : n = 1 \/ (n - 1 \in 1..Len(q) /\ At(n) = In(n - 1))
  <2> HIDE DEF At, In, p
  <2>1. ASSUME NEW n \in 1..Len(p), n # 1 PROVE n - 1 \in 1..Len(q) /\ At(n) = In(n - 1)
    <3>1. n - 1 \in 1..Len(q) /\ (n - 1) + 1 = n
      BY <1>1, <1>2, <2>1
    <3> QED  BY <3>1, <1>2
  <2> QED  BY <2>1
<1>7. CASE name = ""
  <2> DEFINE there == [k \in 1..Len(names) |-> place[k] + 1]
  <2>1. more = names
    BY <1>7 DEF Join
  <2> HIDE DEF At, In, p, more, name
  <2>2. there \in [1..Len(names) -> 1..Len(p)]
    BY <1>1, <1>2
  <2>3. \A k \in 1..Len(names) : there[k] = place[k] + 1
    OBVIOUS
  <2> HIDE DEF there
  <2>4. ASSUME NEW j \in 1..Len(names), NEW k \in 1..Len(names), j < k
        PROVE  there[j] < there[k]
    <3>1. place[j] < place[k] /\ place[j] \in Nat /\ place[k] \in Nat
      BY <2>4, <1>4, <1>5
    <3>2. there[j] = place[j] + 1 /\ there[k] = place[k] + 1
      BY <2>3
    <3> QED  BY <3>1, <3>2
  <2>5. ASSUME NEW n \in 1..Len(p)
        PROVE  At(n) # "" <=> \E k \in 1..Len(names) : there[k] = n
    <3>1. CASE n = 1
      <4>1. \A k \in 1..Len(names) : there[k] # 1
        BY <1>5, <2>3
      <4> QED  BY <4>1, <3>1, <1>2, <1>7
    <3>2. CASE n # 1
      <4>1. n - 1 \in 1..Len(q) /\ At(n) = In(n - 1)
        BY <3>2, <1>6
      <4>2. \A k \in 1..Len(names) : place[k] = n - 1 <=> there[k] = n
        <5>1. n \in Nat
          BY <1>1, <1>2
        <5> QED  BY <5>1, <1>5, <2>3
      <4> QED  BY <4>1, <4>2, <1>4
    <3> QED  BY <3>1, <3>2
  <2>6. \A k \in 1..Len(names) : names[k] = At(there[k])
    BY <2>3, <1>2, <1>4
  <2> QED  BY <1>3, <2>1, <2>2, <2>4, <2>5, <2>6
<1>8. CASE name # ""
  <2> DEFINE K == 1..(Len(names) + 1)
             there == [k \in K |-> IF k = 1 THEN 1 ELSE place[k - 1] + 1]
  <2>1. more = <<name>> \o names
    BY <1>8 DEF Join
  <2>2. DOMAIN more = K /\ more[1] = name /\ \A k \in 1..Len(names) : more[k + 1] = names[k]
    <3>1. name \in DisplayNames
      BY EntryShape
    <3> HIDE DEF name, more
    <3> QED  BY <2>1, <3>1
  <2> HIDE DEF At, In, p, more, name
  <2>3. \A k \in K : k = 1 \/ (k # 1 /\ k - 1 \in 1..Len(names) /\ (k - 1) + 1 = k)
    BY <1>3
  <2>4. there[1] = 1 /\ \A k \in K : k # 1 => /\ there[k] = place[k - 1] + 1
                                               /\ place[k - 1] \in 1..Len(q)
    BY <1>3, <2>3
  <2>5. there \in [K -> 1..Len(p)]
    BY <1>1, <1>2, <2>3
  <2> HIDE DEF there
  <2>6. ASSUME NEW j \in K, NEW k \in K, j < k PROVE there[j] < there[k]
    <3>1. k # 1 /\ k - 1 \in 1..Len(names) /\ there[k] = place[k - 1] + 1
            /\ place[k - 1] \in 1..Len(q)
      BY <2>3, <2>4, <2>6
    <3>2. CASE j = 1
      BY <3>1, <3>2, <1>1, <2>4
    <3>3. CASE j # 1
      <4>1. j - 1 \in 1..Len(names) /\ there[j] = place[j - 1] + 1 /\ place[j - 1] \in 1..Len(q)
        BY <3>3, <2>3, <2>4
      <4>2. j - 1 < k - 1
        BY <2>6
      <4>3. place[j - 1] < place[k - 1]
        BY <3>1, <4>1, <4>2, <1>4
      <4> QED  BY <3>1, <4>1, <4>3, <1>1
    <3> QED  BY <3>2, <3>3
  <2>7. ASSUME NEW n \in 1..Len(p)
        PROVE  At(n) # "" <=> \E k \in K : there[k] = n
    <3>1. CASE n = 1
      <4>1. 1 \in K
        BY <1>3
      <4> QED  BY <4>1, <3>1, <1>2, <1>8, <2>4
    <3>2. CASE n # 1
      <4>1. n - 1 \in 1..Len(q) /\ At(n) = In(n - 1)
        BY <3>2, <1>6
      <4>2. ASSUME NEW k \in 1..Len(names), place[k] = n - 1
            PROVE  \E m \in K : there[m] = n
        <5>1. k + 1 \in K /\ k + 1 # 1 /\ (k + 1) - 1 = k
          BY <1>3
        <5>2. there[k + 1] = n
          BY <5>1, <2>4, <4>2
        <5> QED  BY <5>1, <5>2
      <4>3. ASSUME NEW k \in K, there[k] = n
            PROVE  \E m \in 1..Len(names) : place[m] = n - 1
        <5>1. k # 1 /\ k - 1 \in 1..Len(names)
          BY <3>2, <4>3, <2>3, <2>4
        <5>2. n = place[k - 1] + 1
          BY <5>1, <4>3, <2>4
        <5>3. place[k - 1] = n - 1
          BY <5>1, <5>2, <1>5
        <5> QED  BY <5>1, <5>3
      <4> QED  BY <4>1, <4>2, <4>3, <1>4
    <3> QED  BY <3>1, <3>2
  <2>8. ASSUME NEW k \in K PROVE more[k] = At(there[k])
    <3>1. CASE k = 1
      BY <3>1, <1>2, <2>2, <2>4
    <3>2. CASE k # 1
      <4>1. k - 1 \in 1..Len(names) /\ there[k] = place[k - 1] + 1 /\ place[k - 1] \in 1..Len(q)
        BY <3>2, <2>3, <2>4
      <4>2. more[k] = names[k - 1]
        BY <4>1, <2>2, <2>3, <3>2
      <4> QED  BY <4>1, <4>2, <1>2, <1>4
    <3> QED  BY <3>1, <3>2
  <2> QED  BY <2>2, <2>5, <2>6, <2>7, <2>8
<1> QED  BY <1>7, <1>8

-----------------------------------------------------------------------------
(* Listings: l lists the documents of d that are below the entries in S,   *)
(* each at a place, in order, and by its name.                             *)

Item == [name : Seq(DisplayNames), location : Seq(Nat)]

Lists(d, l, S) ==
    /\ l \in Seq(Item)
    /\ \A k \in 1..Len(l) : l[k].location \in Documents(d) /\ l[k].location[1] \in S
    /\ \A q \in Documents(d) : q[1] \in S => \E k \in 1..Len(l) : l[k].location = q
    /\ \A j, k \in 1..Len(l) : j < k => ComesBefore(d, l[j].location, l[k].location)
    /\ \A k \in 1..Len(l) : IsNameOf(d, l[k].location, l[k].name)

LEMMA ConcatAt ==
  ASSUME NEW T, NEW s \in Seq(T), NEW t \in Seq(T)
  PROVE  /\ s \o t \in Seq(T) /\ Len(s \o t) = Len(s) + Len(t)
         /\ \A k \in 1..Len(s) : k \in 1..Len(s \o t) /\ (s \o t)[k] = s[k]
         /\ \A k \in 1..Len(t) :
              k + Len(s) \in 1..Len(s \o t) /\ (s \o t)[k + Len(s)] = t[k]
         /\ \A k \in 1..Len(s \o t) :
              \/ k \in 1..Len(s) /\ (s \o t)[k] = s[k]
              \/ /\ k - Len(s) \in 1..Len(t) /\ k > Len(s)
                 /\ (s \o t)[k] = t[k - Len(s)]
<1>1. s \o t \in Seq(T) /\ Len(s \o t) = Len(s) + Len(t)
  OBVIOUS
<1>2. Len(s) \in Nat /\ Len(t) \in Nat
  OBVIOUS
<1>3. \A k \in 1..Len(s) : (s \o t)[k] = s[k]
  OBVIOUS
<1>4. \A k \in 1..(Len(s) + Len(t)) : k \in 1..Len(s) \/ (s \o t)[k] = t[k - Len(s)]
  OBVIOUS
<1>5. \A k \in 1..Len(t) : (s \o t)[k + Len(s)] = t[k]
  <2>1. \A k \in 1..Len(t) : /\ k + Len(s) \in 1..(Len(s) + Len(t)) /\ k + Len(s) \notin 1..Len(s)
                             /\ (k + Len(s)) - Len(s) = k
    BY <1>2
  <2> QED  BY <2>1, <1>4
<1>6. \A k \in 1..(Len(s) + Len(t)) :
        k \in 1..Len(s) \/ (k - Len(s) \in 1..Len(t) /\ k > Len(s))
  BY <1>2
<1>7. /\ \A k \in 1..Len(s) : k \in 1..(Len(s) + Len(t))
      /\ \A k \in 1..Len(t) : k + Len(s) \in 1..(Len(s) + Len(t))
  BY <1>2
<1> QED  BY <1>1, <1>3, <1>4, <1>5, <1>6, <1>7, Zenon

LEMMA JoinIs ==
  ASSUME NEW T, NEW name \in T
  PROVE  /\ \A p \in Seq(T) : Join(name, p) \in Seq(T)
         /\ name = "" => Join(name, <<>>) = <<>>
         /\ name # "" => Join(name, <<>>) = <<name>>
<1>1. \A p \in Seq(T) : <<name>> \o p \in Seq(T)
  OBVIOUS
<1>2. <<name>> \o <<>> = <<name>>
  OBVIOUS
<1> QED  BY <1>1, <1>2, Zenon DEF Join

LEMMA ListsNothing ==
  ASSUME NEW d
  PROVE  Lists(d, <<>>, {})
<1>1. <<>> \in Seq(Item) /\ 1..Len(<<>>) = {}
  OBVIOUS
<1> QED  BY <1>1 DEF Lists

LEMMA ListsMore ==
  ASSUME NEW d \in Directories, NEW S, NEW i, NEW s, NEW t,
         Lists(d, s, S), Lists(d, t, {i}), \A j \in S : Lighter(d, j, i)
  PROVE  Lists(d, s \o t, S \cup {i})
<1> DEFINE l == s \o t
           n == Len(s)
<1>1. s \in Seq(Item) /\ t \in Seq(Item)
  BY DEF Lists
<1>2. /\ l \in Seq(Item)
      /\ \A k \in 1..n : k \in 1..Len(l) /\ l[k] = s[k]
      /\ \A k \in 1..Len(t) : k + n \in 1..Len(l) /\ l[k + n] = t[k]
      /\ \A k \in 1..Len(l) : \/ k \in 1..n /\ l[k] = s[k]
                              \/ /\ k - n \in 1..Len(t) /\ k > n
                                 /\ l[k] = t[k - n]
  <2> HIDE DEF Item
  <2>1. /\ s \o t \in Seq(Item)
        /\ \A k \in 1..Len(s) : k \in 1..Len(s \o t) /\ (s \o t)[k] = s[k]
        /\ \A k \in 1..Len(t) :
             k + Len(s) \in 1..Len(s \o t) /\ (s \o t)[k + Len(s)] = t[k]
        /\ \A k \in 1..Len(s \o t) :
             \/ k \in 1..Len(s) /\ (s \o t)[k] = s[k]
             \/ /\ k - Len(s) \in 1..Len(t) /\ k > Len(s)
                /\ (s \o t)[k] = t[k - Len(s)]
    BY <1>1, ConcatAt
  <2> QED  BY <2>1, Zenon
<1>3. n \in Nat /\ Len(t) \in Nat /\ Len(l) \in Nat
  BY <1>1
<1> HIDE DEF l, n
<1>4. n = Len(s)
  BY DEF n
<1>5. \A k \in 1..Len(s) : /\ s[k].location \in Documents(d) /\ s[k].location[1] \in S
                           /\ IsNameOf(d, s[k].location, s[k].name)
  BY DEF Lists
<1>6. \A k \in 1..Len(t) : /\ t[k].location \in Documents(d) /\ t[k].location[1] = i
                           /\ IsNameOf(d, t[k].location, t[k].name)
  BY DEF Lists
<1>7. ASSUME NEW k \in 1..Len(l)
      PROVE  /\ l[k].location \in Documents(d) /\ l[k].location[1] \in S \cup {i}
             /\ IsNameOf(d, l[k].location, l[k].name)
  <2>1. CASE k \in 1..n /\ l[k] = s[k]
    BY <2>1, <1>5, <1>4
  <2>2. CASE k - n \in 1..Len(t) /\ l[k] = t[k - n]
    BY <2>2, <1>6
  <2> QED  BY <2>1, <2>2, <1>2
<1>8. ASSUME NEW q \in Documents(d), q[1] \in S \cup {i}
      PROVE  \E k \in 1..Len(l) : l[k].location = q
  <2>1. CASE q[1] \in S
    <3>1. PICK k \in 1..Len(s) : s[k].location = q
      BY <2>1 DEF Lists
    <3> QED  BY <3>1, <1>2, <1>4
  <2>2. CASE q[1] = i
    <3>1. PICK k \in 1..Len(t) : t[k].location = q
      BY <2>2 DEF Lists
    <3> QED  BY <3>1, <1>2
  <2> QED  BY <1>8, <2>1, <2>2
<1>9. ASSUME NEW j \in 1..Len(l), NEW k \in 1..Len(l), j < k
      PROVE  ComesBefore(d, l[j].location, l[k].location)
  <2>1. CASE k \in 1..n /\ l[k] = s[k]
    <3>1. j \in 1..n
      BY <2>1, <1>9, <1>3
    <3>2. l[j] = s[j]
      BY <3>1, <1>2
    <3> QED  BY <2>1, <3>1, <3>2, <1>9, <1>4 DEF Lists
  <2>2. CASE k - n \in 1..Len(t) /\ l[k] = t[k - n]
    <3>1. CASE j \in 1..n /\ l[j] = s[j]
      <4>1. /\ l[j].location \in DOMAIN Tree(d) /\ l[k].location \in DOMAIN Tree(d)
            /\ l[j].location[1] \in S /\ l[k].location[1] = i
        BY <2>2, <3>1, <1>5, <1>6, <1>4 DEF Documents
      <4>2. Lighter(d, l[j].location[1], l[k].location[1])
        BY <4>1
      <4> QED  BY <4>1, <4>2, LighterFirst
    <3>2. CASE j - n \in 1..Len(t) /\ l[j] = t[j - n]
      <4>1. j - n < k - n
        BY <1>3, <1>9
      <4> QED  BY <2>2, <3>2, <4>1 DEF Lists
    <3> QED  BY <3>1, <3>2, <1>2
  <2> QED  BY <2>1, <2>2, <1>2
<1>10. Lists(d, l, S \cup {i})
  BY <1>2, <1>7, <1>8, <1>9 DEF Lists
<1> QED  BY <1>10 DEF l

-----------------------------------------------------------------------------
(* The items of an entry list what is below it.                            *)

(* The entry that a path begins with is a section or a document, if the    *)
(* path is that of a document.                                             *)
LEMMA KeptFirst ==
  ASSUME NEW d \in Directories, NEW q \in Documents(d)
  PROVE  /\ q[1] \in KeptIn(d)
         /\ ~d.entries[q[1]].dir => q = <<q[1]>>
         /\ d.entries[q[1]].dir => \E r \in Documents(d.entries[q[1]]) : q = <<q[1]>> \o r
<1>1. q \in DOMAIN Tree(d) /\ IsDocument(Tree(d)[q])
  BY DEF Documents
<1>2. PICK i \in DOMAIN d.entries :
         \/ q = <<i>>
         \/ /\ d.entries[i].dir
            /\ \E r \in DOMAIN Tree(d.entries[i]) : q = <<i>> \o r
  BY <1>1, TreeIs
<1>3. CASE q = <<i>>
  <2>1. q[1] = i /\ Tree(d)[q] = d.entries[i]
    BY <1>3, TreeIs
  <2> QED  BY <1>1, <1>3, <2>1 DEF IsDocument, KeptIn
<1>4. CASE q # <<i>>
  <2>1. PICK r \in DOMAIN Tree(d.entries[i]) : q = <<i>> \o r /\ d.entries[i].dir
    BY <1>2, <1>4
  <2>2. q[1] = i /\ Tree(d)[q] = Tree(d.entries[i])[r]
    BY <2>1, Through
  <2>3. r \in Documents(d.entries[i])
    BY <1>1, <2>2 DEF Documents
  <2> QED  BY <2>1, <2>2, <2>3 DEF KeptIn
<1> QED  BY <1>3, <1>4

LEMMA ListsFile ==
  ASSUME NEW d \in Directories, NEW i \in KeptIn(d), ~d.entries[i].dir
  PROVE  Lists(d, ItemsAt(ItemsOf, d, i), {i})
<1> DEFINE e == d.entries[i]
           item == [name |-> Join(e.name, <<>>), location |-> <<i>>]
           l == ItemsAt(ItemsOf, d, i)
<1>1. i \in DOMAIN d.entries /\ i \in Nat /\ e.name \in DisplayNames /\ e.md
  BY EntryShape DEF KeptIn
<1>2. Tree(d)[<<i>>] = e /\ <<i>> \in DOMAIN Tree(d) /\ <<i>>[1] = i
  BY <1>1, TreeIs
<1>3. <<i>> \in Documents(d)
  BY <1>1, <1>2 DEF Documents, IsDocument
<1>4. l = <<item>>
  BY DEF ItemsAt
<1>5. <<i>> \in Seq(Nat) /\ Len(<<i>>) = 1
  BY <1>1
<1>6. Join(e.name, <<>>) \in Seq(DisplayNames)
  <2>1. <<>> \in Seq(DisplayNames)
    OBVIOUS
  <2> HIDE DEF e
  <2> QED  BY <1>1, <2>1, JoinIs
<1>7. item \in Item
  BY <1>5, <1>6 DEF Item
<1>8. NameAt(d, <<i>>, 1) = e.name
  BY <1>1, <1>2, PrefixOfOne DEF NameAt
<1>9. IsNameOf(d, <<i>>, Join(e.name, <<>>))
  <2> DEFINE names == Join(e.name, <<>>)
             place == [k \in DOMAIN names |-> 1]
  <2>1. \/ e.name = "" /\ names = <<>>
        \/ e.name # "" /\ names = <<e.name>>
    BY <1>1, JoinIs
  <2> HIDE DEF names, e
  <2>2. \/ e.name = "" /\ DOMAIN names = {}
        \/ /\ e.name # "" /\ 1 \in DOMAIN names /\ names[1] = e.name
           /\ \A k \in DOMAIN names : k = 1
    <3>1. DOMAIN <<>> = {}
      OBVIOUS
    <3>2. 1 \in DOMAIN <<e.name>> /\ <<e.name>>[1] = e.name
      OBVIOUS
    <3>3. \A k \in DOMAIN <<e.name>> : k = 1
      OBVIOUS
    <3> QED  BY <2>1, <3>1, <3>2, <3>3, Zenon
  <2>3. place \in [DOMAIN names -> 1..Len(<<i>>)]
    BY <1>5
  <2>4. \A k \in DOMAIN names : place[k] = 1
    OBVIOUS
  <2> HIDE DEF place
  <2>5. \A j, k \in DOMAIN names : ~(j < k)
    <3>1. \A j \in DOMAIN names : j = 1
      BY <2>2
    <3> QED  BY <3>1
  <2>6. \A n \in 1..Len(<<i>>) : n = 1
    BY <1>5
  <2>7. \A n \in 1..Len(<<i>>) :
           NameAt(d, <<i>>, n) # "" <=> \E k \in DOMAIN names : place[k] = n
    BY <2>2, <2>4, <2>6, <1>8
  <2>8. \A k \in DOMAIN names : names[k] = NameAt(d, <<i>>, place[k])
    BY <2>2, <2>4, <1>8
  <2>9. IsNameOf(d, <<i>>, names)
    BY <2>3, <2>5, <2>7, <2>8 DEF IsNameOf
  <2> QED  BY <2>9 DEF names
<1>10. l \in Seq(Item) /\ \A k \in 1..Len(l) : k = 1 /\ l[k] = item
  <2> HIDE DEF item, l
  <2> QED  BY <1>4, <1>7
<1>11. Len(l) = 1 /\ 1 \in 1..Len(l)
  BY <1>4
<1>12. item.location = <<i>> /\ item.name = Join(e.name, <<>>)
  OBVIOUS
<1>13. ASSUME NEW q \in Documents(d), q[1] = i PROVE q = <<i>>
  BY <1>13, KeptFirst
<1> HIDE DEF item, l, e
<1>14. \A k \in 1..Len(l) : /\ l[k].location \in Documents(d) /\ l[k].location[1] = i
                            /\ IsNameOf(d, l[k].location, l[k].name)
  BY <1>2, <1>3, <1>9, <1>10, <1>12
<1>15. \A j, k \in 1..Len(l) : ~(j < k)
  BY <1>10
<1>16. \A q \in Documents(d) : q[1] = i => \E k \in 1..Len(l) : l[k].location = q
  BY <1>10, <1>11, <1>12, <1>13
<1>17. Lists(d, l, {i})
  BY <1>10, <1>14, <1>15, <1>16 DEF Lists
<1> QED  BY <1>17 DEF l

LEMMA ListsBelow ==
  ASSUME NEW d \in Directories, NEW i \in KeptIn(d), d.entries[i].dir,
         Lists(d.entries[i], flatten(d.entries[i]), KeptIn(d.entries[i]))
  PROVE  Lists(d, ItemsAt(ItemsOf, d, i), {i})
<1> DEFINE e == d.entries[i]
           items == flatten(e)
           name == e.section.name
           l == ItemsAt(ItemsOf, d, i)
<1>1. i \in DOMAIN d.entries /\ i \in Nat /\ e \in Directories /\ name \in DisplayNames
  BY EntryShape DEF KeptIn
<1>2. items \in Seq(Item) /\ Len(items) \in Nat /\ DOMAIN items = 1..Len(items)
  BY DEF Lists
<1>3. l = [k \in 1..Len(items) |-> [name |-> Join(name, items[k].name),
                                    location |-> <<i>> \o items[k].location]]
  <2>1. l = Below(i, name, items)
    BY DEF ItemsAt, flatten
  <2> QED  BY <2>1, <1>2 DEF Below
<1>4. \A k \in 1..Len(items) : /\ items[k].location \in Documents(e)
                               /\ IsNameOf(e, items[k].location, items[k].name)
                               /\ items[k].name \in Seq(DisplayNames)
                               /\ items[k].location \in Seq(Nat)
  <2>1. \A k \in 1..Len(items) : items[k] \in Item
    BY <1>2
  <2> QED  BY <2>1 DEF Lists, Item
<1>5. Len(l) = Len(items)
  BY <1>2, <1>3
<1>6. \A k \in 1..Len(items) : /\ l[k] = [name |-> Join(name, items[k].name),
                                          location |-> <<i>> \o items[k].location]
                               /\ l[k].name = Join(name, items[k].name)
                               /\ l[k].location = <<i>> \o items[k].location
  BY <1>3
<1>7. l = [k \in 1..Len(items) |-> l[k]]
  BY <1>3
<1>8. e.dir /\ Lists(e, items, KeptIn(e))
  OBVIOUS
<1> HIDE DEF l, items, name
<1>9. ASSUME NEW q \in Documents(e)
      PROVE  <<i>> \o q \in Documents(d) /\ (<<i>> \o q)[1] = i
  <2>1. q \in DOMAIN Tree(e) /\ IsDocument(Tree(e)[q])
    BY DEF Documents
  <2> QED  BY <2>1, <1>1, <1>8, Through DEF Documents
<1>10. \A k \in 1..Len(items) : l[k] \in Item
  <2> SUFFICES ASSUME NEW k \in 1..Len(items) PROVE l[k] \in Item
    OBVIOUS
  <2>1. Join(name, items[k].name) \in Seq(DisplayNames)
    BY <1>1, <1>4, JoinIs
  <2>2. <<i>> \o items[k].location \in Seq(Nat)
    BY <1>1, <1>4
  <2>3. l[k] = [name |-> Join(name, items[k].name), location |-> <<i>> \o items[k].location]
    BY <1>6
  <2> DEFINE a == Join(name, items[k].name)
             b == <<i>> \o items[k].location
  <2> HIDE DEF a, b
  <2>4. a \in Seq(DisplayNames) /\ b \in Seq(Nat)
    BY <2>1, <2>2 DEF a, b
  <2>5. [name |-> a, location |-> b] \in Item
    BY <2>4 DEF Item
  <2> QED  BY <2>3, <2>5 DEF a, b
<1>11. l \in Seq(Item)
  BY <1>2, <1>7, <1>10
<1>12. \A k \in 1..Len(l) : l[k].location \in Documents(d) /\ l[k].location[1] = i
  <2> SUFFICES ASSUME NEW k \in 1..Len(l)
               PROVE  l[k].location \in Documents(d) /\ l[k].location[1] = i
    OBVIOUS
  <2>1. l[k].location = <<i>> \o items[k].location /\ items[k].location \in Documents(e)
    BY <1>4, <1>5, <1>6
  <2> QED  BY <2>1, <1>9
<1>13. ASSUME NEW k \in 1..Len(l) PROVE IsNameOf(d, l[k].location, l[k].name)
  <2>1. items[k].location \in DOMAIN Tree(e)
    BY <1>4, <1>5 DEF Documents
  <2>2. IsNameOf(d, <<i>> \o items[k].location, Join(name, items[k].name))
    BY <1>1, <1>4, <1>5, <1>8, <2>1, NameThrough DEF name
  <2> QED  BY <2>2, <1>5, <1>6
<1>14. ASSUME NEW q \in Documents(d), q[1] = i
       PROVE  \E k \in 1..Len(l) : l[k].location = q
  <2>1. PICK r \in Documents(e) : q = <<i>> \o r
    BY <1>14, <1>8, KeptFirst
  <2>2. r[1] \in KeptIn(e)
    BY <1>1, KeptFirst
  <2>3. PICK k \in 1..Len(items) : items[k].location = r
    BY <2>2, <1>8 DEF Lists
  <2> QED  BY <2>1, <2>3, <1>5, <1>6
<1>15. ASSUME NEW j \in 1..Len(l), NEW k \in 1..Len(l), j < k
       PROVE  ComesBefore(d, l[j].location, l[k].location)
  <2>1. ComesBefore(e, items[j].location, items[k].location)
    BY <1>5, <1>15, <1>8 DEF Lists
  <2>2. items[j].location \in DOMAIN Tree(e) /\ items[k].location \in DOMAIN Tree(e)
    BY <1>4, <1>5 DEF Documents
  <2>3. ComesBefore(d, <<i>> \o items[j].location, <<i>> \o items[k].location)
    BY <1>1, <1>8, <2>1, <2>2, BeforeThrough
  <2> QED  BY <2>3, <1>5, <1>6
<1>16. Lists(d, l, {i})
  <2> HIDE DEF e
  <2> QED  BY <1>11, <1>12, <1>13, <1>14, <1>15 DEF Lists
<1> QED  BY <1>16 DEF l

-----------------------------------------------------------------------------
(* The items of a directory list all of it, by induction on the entries,   *)
(* then on the directories.                                                *)

(* The first n entries that are kept, as sorted. *)
FirstItems(d, n) == {Items(d)[k] : k \in 1..n}

LEMMA ListsByEntries ==
  ASSUME NEW d \in Directories,
         \A i \in KeptIn(d) : Lists(d, ItemsAt(ItemsOf, d, i), {i})
  PROVE  Lists(d, flatten(d), KeptIn(d))
<1> DEFINE m == Len(Items(d))
           It(k) == Items(d)[k]
           First(n) == FirstItems(d, n)
<1>1. /\ m \in Nat
      /\ \A k \in 1..m : It(k) \in KeptIn(d)
      /\ \A i \in KeptIn(d) : \E k \in 1..m : It(k) = i
      /\ \A j, k \in 1..m : j < k => Lighter(d, It(j), It(k))
  BY ItemsSorted
<1>2. PICK upTo : UpTo(upTo, d, m) /\ flatten(d) = upTo[m]
  BY FlattenIsUpTo
<1>3. /\ upTo[0] = <<>>
      /\ \A k \in 1..m : upTo[k] = upTo[k - 1] \o ItemsAt(ItemsOf, d, It(k))
  BY <1>2 DEF UpTo
<1>4. \A n : First(n) = {It(k) : k \in 1..n}
  BY DEF FirstItems
<1> HIDE DEF m, It, First
<1> DEFINE N == {n \in Nat : n <= m => Lists(d, upTo[n], First(n))}
<1>5. 0 \in N
  <2>1. First(0) = {}
    BY <1>4
  <2> QED  BY <2>1, <1>3, ListsNothing
<1>6. ASSUME NEW n \in N PROVE n + 1 \in N
  <2> SUFFICES ASSUME n + 1 <= m PROVE Lists(d, upTo[n + 1], First(n + 1))
    OBVIOUS
  <2>1. n \in Nat /\ n + 1 \in 1..m /\ (n + 1) - 1 = n /\ n <= m
    BY <1>1
  <2>2. Lists(d, upTo[n], First(n))
    BY <2>1
  <2>3. Lists(d, ItemsAt(ItemsOf, d, It(n + 1)), {It(n + 1)})
    BY <2>1, <1>1
  <2>4. ASSUME NEW j \in First(n) PROVE Lighter(d, j, It(n + 1))
    <3>1. PICK k \in 1..n : j = It(k)
      BY <1>4
    <3>2. k \in 1..m /\ k < n + 1
      <4>1. m \in Nat
        BY <1>1
      <4> HIDE DEF N
      <4> QED  BY <2>1, <4>1
    <3> QED  BY <3>1, <3>2, <2>1, <1>1
  <2>5. First(n + 1) = First(n) \cup {It(n + 1)}
    <3>1. 1..(n + 1) = (1..n) \cup {n + 1}
      BY <2>1
    <3> QED  BY <3>1, <1>4
  <2>6. upTo[n + 1] = upTo[n] \o ItemsAt(ItemsOf, d, It(n + 1))
    BY <2>1, <1>3
  <2> HIDE DEF N
  <2>7. Lists(d, upTo[n] \o ItemsAt(ItemsOf, d, It(n + 1)), First(n) \cup {It(n + 1)})
    BY <2>2, <2>3, <2>4, ListsMore
  <2> QED  BY <2>5, <2>6, <2>7
<1>7. N = Nat
  <2> HIDE DEF N
  <2>1. N \in SUBSET Nat  BY DEF N
  <2> QED  BY <1>5, <1>6, <2>1, SetInduction
<1>8. Lists(d, upTo[m], First(m))
  BY <1>1, <1>7
<1>9. First(m) = KeptIn(d)
  BY <1>1, <1>4
<1> QED  BY <1>2, <1>8, <1>9

LEMMA FlattenLists ==
  ASSUME NEW d \in Directories
  PROVE  Lists(d, flatten(d), KeptIn(d))
<1> DEFINE S == {e \in Directories : Lists(e, flatten(e), KeptIn(e))}
<1>1. ASSUME NEW e \in Directories,
             \A i \in DOMAIN e.entries : e.entries[i].dir => e.entries[i] \in S
      PROVE  e \in S
  <2>1. ASSUME NEW i \in KeptIn(e) PROVE Lists(e, ItemsAt(ItemsOf, e, i), {i})
    <3>1. i \in DOMAIN e.entries
      BY DEF KeptIn
    <3>2. CASE e.entries[i].dir
      <4>1. Lists(e.entries[i], flatten(e.entries[i]), KeptIn(e.entries[i]))
        BY <1>1, <3>1, <3>2
      <4> QED  BY <3>2, <4>1, ListsBelow
    <3>3. CASE ~e.entries[i].dir
      BY <3>3, ListsFile
    <3> QED  BY <3>2, <3>3
  <2>2. Lists(e, flatten(e), KeptIn(e))
    BY <2>1, ListsByEntries
  <2> QED  BY <2>2
<1>2. Directories \subseteq S
  <2> HIDE DEF S
  <2>1. S \in SUBSET Directories  BY DEF S
  <2> QED  BY <1>1, <2>1, DirectoryInduction
<1> QED  BY <1>2

(* Of all documents, each once, in order. *)
LEMMA FlattenIsExact ==
  ASSUME NEW d \in Directories
  PROVE  LET l == flatten(d)
         IN  /\ l \in Seq(Item)
             /\ {l[k].location : k \in DOMAIN l} = Documents(d)
             /\ Len(l) = Cardinality(Documents(d))
             /\ \A j, k \in DOMAIN l : j < k => ComesBefore(d, l[j].location, l[k].location)
             /\ \A k \in DOMAIN l : IsNameOf(d, l[k].location, l[k].name)
<1> DEFINE l == flatten(d)
           n == Len(l)
           at == [k \in 1..n |-> l[k].location]
<1>1. Lists(d, l, KeptIn(d))
  BY FlattenLists
<1>2. l \in Seq(Item) /\ n \in Nat /\ DOMAIN l = 1..n
  BY <1>1 DEF Lists
<1>3. \A q \in Documents(d) : \E k \in 1..n : l[k].location = q
  BY <1>1, KeptFirst DEF Lists
<1>4. \A k \in 1..n : l[k].location \in Documents(d) /\ IsNameOf(d, l[k].location, l[k].name)
  BY <1>1 DEF Lists
<1>5. \A j, k \in 1..n : j < k => ComesBefore(d, l[j].location, l[k].location)
  BY <1>1 DEF Lists
<1>6. \A j, k \in 1..n : l[j].location = l[k].location => j = k
  <2>1. \A j, k \in 1..n : j < k => l[j].location # l[k].location
    BY <1>4, <1>5, NotBeforeItself DEF Documents
  <2>2. \A j, k \in 1..n : j < k \/ k < j \/ j = k
    BY <1>2
  <2> QED  BY <2>1, <2>2
<1> HIDE DEF l, n
<1>7. at \in Bijection(1..n, Documents(d))
  <2>1. at \in [1..n -> Documents(d)] /\ \A k \in 1..n : at[k] = l[k].location
    BY <1>4
  <2> HIDE DEF at
  <2>2. at \in Injection(1..n, Documents(d))
    BY <2>1, <1>6 DEF Injection, IsInjective
  <2>3. at \in Surjection(1..n, Documents(d))
    BY <2>1, <1>3 DEF Surjection
  <2> QED  BY <2>2, <2>3 DEF Bijection
<1>8. Cardinality(Documents(d)) = n
  <2> HIDE DEF at
  <2>1. ExistsBijection(1..n, Documents(d))
    BY <1>7 DEF ExistsBijection
  <2> QED  BY <1>2, <2>1, FS_CountingElements
<1> QED  BY <1>2, <1>3, <1>4, <1>5, <1>8 DEF l, n

-----------------------------------------------------------------------------
(* When it fails, and what the names are when it does not.                 *)

LEMMA FailsIf ==
  ASSUME NEW d \in Directories
  PROVE  Fails(d) <=> \/ d.section.name = NoName
                      \/ \E i \in DOMAIN d.entries :
                           \/ EntryFails(d.entries[i])
                           \/ d.entries[i].dir /\ Fails(d.entries[i])
<1>1. Fails(d) = FailsBody(FailsOf, d)
  BY RecursionAssumption
<1> QED  BY <1>1 DEF FailsBody, Fails

(* A directory fails just if one entry of it, at some depth, is unfit.     *)
LEMMA FailsIfUnfit ==
  ASSUME NEW d \in Directories
  PROVE  Fails(d) <=> \/ d.section.name = NoName
                      \/ \E q \in DOMAIN Tree(d) : Unfit(Tree(d)[q])
<1> DEFINE Wrong(e) == \/ e.section.name = NoName
                       \/ \E q \in DOMAIN Tree(e) : Unfit(Tree(e)[q])
           S == {e \in Directories : Fails(e) <=> Wrong(e)}
<1>1. ASSUME NEW e \in Directories,
             \A i \in DOMAIN e.entries : e.entries[i].dir => e.entries[i] \in S
      PROVE  e \in S
  <2>1. ASSUME Fails(e) PROVE Wrong(e)
    <3> SUFFICES ASSUME e.section.name # NoName
                 PROVE  \E q \in DOMAIN Tree(e) : Unfit(Tree(e)[q])
      OBVIOUS
    <3>1. PICK i \in DOMAIN e.entries :
             \/ EntryFails(e.entries[i])
             \/ e.entries[i].dir /\ Fails(e.entries[i])
      BY <2>1, FailsIf
    <3> DEFINE f == e.entries[i]
    <3>2. <<i>> \in DOMAIN Tree(e) /\ Tree(e)[<<i>>] = f
      BY TreeIs
    <3>3. CASE Unfit(f)
      BY <3>2, <3>3
    <3>4. CASE ~Unfit(f)
      <4>1. f.dir /\ Fails(f) /\ f.section.name # NoName
        BY <3>1, <3>4, EntryShape DEF EntryFails, Unfit
      <4>2. f \in S
        BY <1>1, <4>1
      <4>3. PICK q \in DOMAIN Tree(f) : Unfit(Tree(f)[q])
        BY <4>1, <4>2
      <4>4. <<i>> \o q \in DOMAIN Tree(e) /\ Tree(e)[<<i>> \o q] = Tree(f)[q]
        BY <4>1, Through
      <4> QED  BY <4>3, <4>4
    <3> QED  BY <3>3, <3>4
  <2>2. ASSUME Wrong(e) PROVE Fails(e)
    <3>1. CASE e.section.name = NoName
      BY <3>1, FailsIf
    <3>2. CASE e.section.name # NoName
      <4>1. PICK q \in DOMAIN Tree(e) : Unfit(Tree(e)[q])
        BY <2>2, <3>2
      <4>2. PICK i \in DOMAIN e.entries :
               \/ q = <<i>>
               \/ /\ e.entries[i].dir
                  /\ \E r \in DOMAIN Tree(e.entries[i]) : q = <<i>> \o r
        BY TreeIs
      <4> DEFINE f == e.entries[i]
      <4>3. CASE q = <<i>>
        <5>1. Unfit(f)
          BY <4>1, <4>3, TreeIs
        <5>2. EntryFails(f) \/ (f.dir /\ f.section.name = NoName)
          BY <5>1, EntryShape DEF EntryFails, Unfit
        <5>3. f.dir /\ f.section.name = NoName => Fails(f)
          BY EntryShape, FailsIf
        <5> QED  BY <5>2, <5>3, FailsIf
      <4>4. CASE q # <<i>>
        <5>1. PICK r \in DOMAIN Tree(f) : q = <<i>> \o r /\ f.dir
          BY <4>2, <4>4
        <5>2. Unfit(Tree(f)[r])
          BY <4>1, <5>1, Through
        <5>3. f \in S
          BY <1>1, <5>1
        <5>4. Fails(f)
          BY <5>2, <5>3
        <5> QED  BY <5>1, <5>4, FailsIf
      <4> QED  BY <4>3, <4>4
    <3> QED  BY <3>1, <3>2
  <2> QED  BY <2>1, <2>2
<1>2. Directories \subseteq S
  <2> HIDE DEF S
  <2>1. S \in SUBSET Directories  BY DEF S
  <2> QED  BY <1>1, <2>1, DirectoryInduction
<1> QED  BY <1>2

(* A path goes through directories. *)
LEMMA ThroughDirectories ==
  ASSUME NEW d \in Directories, NEW p \in DOMAIN Tree(d), NEW n \in 1..Len(p), n # Len(p)
  PROVE  Tree(d)[Prefix(p, n)].dir
<1> DEFINE Good(e) == \A q \in DOMAIN Tree(e) : \A m \in 1..Len(q) :
                         m # Len(q) => Tree(e)[Prefix(q, m)].dir
           S == {e \in Directories : Good(e)}
<1>1. ASSUME NEW e \in Directories,
             \A i \in DOMAIN e.entries : e.entries[i].dir => e.entries[i] \in S
      PROVE  e \in S
  <2> SUFFICES ASSUME NEW q \in DOMAIN Tree(e), NEW m \in 1..Len(q), m # Len(q)
               PROVE  Tree(e)[Prefix(q, m)].dir
    OBVIOUS
  <2>1. PICK i \in DOMAIN e.entries :
           \/ q = <<i>>
           \/ /\ e.entries[i].dir
              /\ \E r \in DOMAIN Tree(e.entries[i]) : q = <<i>> \o r
    BY TreeIs
  <2>2. q # <<i>>
    <3>1. Len(<<i>>) = 1
      OBVIOUS
    <3>2. ASSUME q = <<i>> PROVE FALSE
      <4>1. Len(q) = 1
        BY <3>1, <3>2
      <4> QED  BY <4>1
    <3> QED  BY <3>2
  <2> DEFINE f == e.entries[i]
  <2>3. PICK r \in DOMAIN Tree(f) : q = <<i>> \o r /\ f.dir
    BY <2>1, <2>2
  <2>4. Len(q) = Len(r) + 1 /\ Len(r) \in Nat
    BY <2>3, Through, EntryShape, PathsArePaths DEF IsPath
  <2>5. CASE m = 1
    BY <2>3, <2>5, Through
  <2>6. CASE m # 1
    <3>1. m - 1 \in 1..Len(r) /\ m - 1 # Len(r) /\ (m - 1) + 1 = m
      BY <2>4, <2>6
    <3>2. Tree(e)[Prefix(q, (m - 1) + 1)] = Tree(f)[Prefix(r, m - 1)]
      <4>1. \A k \in 1..Len(r) : Tree(e)[Prefix(q, k + 1)] = Tree(f)[Prefix(r, k)]
        BY <2>3, Through
      <4> QED  BY <3>1, <4>1
    <3>3. f \in S
      BY <1>1, <2>3
    <3>4. Tree(f)[Prefix(r, m - 1)].dir
      BY <3>1, <3>3
    <3> QED  BY <3>1, <3>2, <3>4
  <2> QED  BY <2>5, <2>6
<1>2. Directories \subseteq S
  <2> HIDE DEF S
  <2>1. S \in SUBSET Directories  BY DEF S
  <2> QED  BY <1>1, <2>1, DirectoryInduction
<1> QED  BY <1>2

(* Every name in the index of a fit directory is one.                      *)
LEMMA NamesAreStrings ==
  ASSUME NEW d \in Directories, ~Fails(d), NEW q \in Documents(d),
         NEW names \in Seq(DisplayNames), IsNameOf(d, q, names)
  PROVE  names \in Seq(STRING)
<1>1. IsPath(d, q)
  BY PathsArePaths DEF Documents
<1>2. PICK place \in [DOMAIN names -> 1..Len(q)] :
         \A k \in DOMAIN names : names[k] = NameAt(d, q, place[k])
  BY DEF IsNameOf
<1>3. ASSUME NEW k \in DOMAIN names PROVE names[k] \in STRING
  <2>1. place[k] \in 1..Len(q) /\ names[k] \in DisplayNames
    OBVIOUS
  <2>0. names[k] = NoName \/ names[k] \in STRING
    <3>1. names[k] \in Titles \/ names[k] = "" \/ names[k] = NoName
      BY <2>1 DEF DisplayNames
    <3> QED  BY <3>1, NamesAssumption
  <2> DEFINE p == Prefix(q, place[k])
             e == Tree(d)[p]
  <2>2. p \in DOMAIN Tree(d)
    BY <1>1, <2>1 DEF IsPath
  <2>3. ~Unfit(e)
    BY <2>2, FailsIfUnfit
  <2>4. CASE e.dir
    BY <2>0, <2>1, <2>3, <2>4, <1>2 DEF Unfit, NameAt
  <2>5. CASE ~e.dir
    <3>1. place[k] = Len(q)
      BY <2>1, <2>5, ThroughDirectories DEF Documents
    <3>2. p = q
      BY <1>1, <3>1 DEF IsPath, Prefix
    <3>3. e.md
      BY <3>2 DEF Documents, IsDocument
    <3> QED  BY <2>0, <2>1, <2>3, <2>5, <3>3, <1>2 DEF Unfit, NameAt
  <2> QED  BY <2>4, <2>5
<1>4. Len(names) \in Nat /\ DOMAIN names = 1..Len(names)
  OBVIOUS
<1>5. names = [k \in 1..Len(names) |-> names[k]]
  OBVIOUS
<1> QED  BY <1>3, <1>4, <1>5

-----------------------------------------------------------------------------
(* The theorems. *)

LEMMA FitItems ==
  ASSUME NEW d \in Directories, ~Fails(d)
  PROVE  flatten(d) \in Seq([name : Seq(STRING), location : Seq(Nat)])
<1> DEFINE l == flatten(d)
<1>1. /\ l \in Seq(Item)
      /\ {l[k].location : k \in DOMAIN l} = Documents(d)
      /\ \A k \in DOMAIN l : IsNameOf(d, l[k].location, l[k].name)
  BY FlattenIsExact
<1>2. Len(l) \in Nat /\ DOMAIN l = 1..Len(l) /\ l = [k \in 1..Len(l) |-> l[k]]
  BY <1>1
<1>3. ASSUME NEW k \in 1..Len(l)
      PROVE  l[k] \in [name : Seq(STRING), location : Seq(Nat)]
  <2>1. l[k] \in Item /\ l[k].location \in Documents(d)
    BY <1>1, <1>2
  <2>2. /\ l[k] = [name |-> l[k].name, location |-> l[k].location]
        /\ l[k].name \in Seq(DisplayNames) /\ l[k].location \in Seq(Nat)
    BY <2>1 DEF Item
  <2>3. l[k].name \in Seq(STRING)
    BY <1>1, <1>2, <2>1, <2>2, NamesAreStrings
  <2> QED  BY <2>2, <2>3
<1> DEFINE T == [name : Seq(STRING), location : Seq(Nat)]
<1>4. \A k \in 1..Len(l) : l[k] \in T
  BY <1>3
<1> HIDE DEF l, T
<1>5. l \in Seq(T)
  BY <1>2, <1>4
<1> QED  BY <1>5 DEF l, T

(* The inductive invariant: after a success, index.json is that of a tree  *)
(* that fits.                                                              *)
GInv ==
    /\ root \in Roots \cup Edited
    /\ result \in {"none", "ok", "error"}
    /\ index \in {Missing, Broken} \cup Seq([name : Seq(STRING), location : Seq(Nat)])
    /\ result = "ok" => index = flatten(root) /\ ~Fails(root)

(***************************************************************************)
(* It is inductive: Run writes flatten of the tree only where nothing      *)
(* fails, and no other step is a success (generate.go:87-110).             *)
(***************************************************************************)
THEOREM GInvariant == GSpec => []GInv
<1>1. GInit => GInv
  BY DEF GInit, GInv
<1>2. ASSUME GInv, [GNext]_gvars PROVE GInv'
  <2>1. CASE Run
    <3>1. root \in Directories
      BY <1>2, DirectoriesAssumption DEF GInv
    <3>2. flatten(root) \in Seq([name : Seq(STRING), location : Seq(Nat)])
      BY <2>1, <3>1, FitItems DEF Run
    <3> QED  BY <1>2, <2>1, <3>2 DEF GInv, Run, flatten, Fails
  <2>2. CASE RunFails
    BY <1>2, <2>2 DEF GInv, RunFails
  <2>3. CASE WriteFails
    BY <1>2, <2>3 DEF GInv, WriteFails
  <2>4. CASE Edit
    BY <1>2, <2>4 DEF GInv, Edit
  <2>5. CASE UNCHANGED gvars
    BY <1>2, <2>5 DEF GInv, gvars, flatten, Fails
  <2> QED  BY <1>2, <2>1, <2>2, <2>3, <2>4, <2>5 DEF GNext
<1> QED  BY <1>1, <1>2, PTL DEF GSpec

(***************************************************************************)
(* After a success index.json is whole, and each of its items has a name   *)
(* made of strings: that of no file without a title gets into it, at any   *)
(* depth (generate.go:87-110, 186-200).                                    *)
(***************************************************************************)
THEOREM GTypeCorrect == GSpec => []GTypeOK
<1>1. ASSUME GInv PROVE GTypeOK
  <2>1. root \in Directories
    BY <1>1, DirectoriesAssumption DEF GInv
  <2>2. result = "ok" => index \in Seq([name : Seq(STRING), location : Seq(Nat)])
    BY <1>1, <2>1, FitItems DEF GInv
  <2> QED  BY <1>1, <2>2, NamesAssumption DEF GInv, GTypeOK
<1> QED  BY <1>1, GInvariant, PTL

(***************************************************************************)
(* For any tree of documents, however deep: index.json lists each document *)
(* once and nothing else, sorted by weight in every directory, and the     *)
(* documents of a directory together (generate.go:113-163).                *)
(***************************************************************************)
THEOREM ListsEachOnceInOrder == GSpec => []EachOnceInOrder
<1>1. ASSUME GInv, result = "ok"
      PROVE  /\ {index[k].location : k \in DOMAIN index} = Documents(root)
             /\ Len(index) = Cardinality(Documents(root))
             /\ \A k, l \in DOMAIN index :
                  k < l => ComesBefore(root, index[k].location, index[l].location)
  <2>1. root \in Directories /\ index = flatten(root)
    BY <1>1, DirectoriesAssumption DEF GInv
  <2> QED  BY <2>1, FlattenIsExact
<1>2. GInv => EachOnceInOrder
  BY <1>1 DEF EachOnceInOrder
<1> QED  BY <1>2, GInvariant, PTL

(***************************************************************************)
(* For any tree: a document's name is its title after the names of the     *)
(* sections around it, none of them lost, doubled or in another order, and *)
(* without the empty ones (generate.go:113-123).                           *)
(***************************************************************************)
THEOREM NamesAreOfSections == GSpec => []NamedBySections
<1>1. ASSUME GInv, result = "ok"
      PROVE  \A k \in DOMAIN index : IsNameOf(root, index[k].location, index[k].name)
  <2>1. root \in Directories /\ index = flatten(root)
    BY <1>1, DirectoriesAssumption DEF GInv
  <2> QED  BY <2>1, FlattenIsExact
<1>2. GInv => NamedBySections
  BY <1>1 DEF NamedBySections
<1> QED  BY <1>2, GInvariant, PTL

(***************************************************************************)
(* For any tree: the command succeeds only if no document or section in    *)
(* it, at any depth, is without a name (generate.go:131-157).              *)
(***************************************************************************)
THEOREM UnfitTreesFail == GSpec => []UnfitFails
<1>1. ASSUME GInv, result = "ok"
      PROVE  /\ root.section.name # NoName
             /\ \A q \in DOMAIN Tree(root) : ~Unfit(Tree(root)[q])
  <2>1. root \in Directories /\ ~Fails(root)
    BY <1>1, DirectoriesAssumption DEF GInv
  <2> QED  BY <2>1, FailsIfUnfit
<1>2. GInv => UnfitFails
  BY <1>1 DEF UnfitFails
<1> QED  BY <1>2, GInvariant, PTL
=============================================================================
