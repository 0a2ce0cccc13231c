----------------------------- MODULE UpdocUpload -----------------------------
(***************************************************************************)
(* The upload command of updoc (internal/updoc/upload.go) and the buckets  *)
(* it writes.  Every document is stored under the hash of its content, and *)
(* the index object of the provider version, which names the documents, is *)
(* written last.  Several upload jobs, of one provider version or of more, *)
(* share the bucket; each may fail anywhere and be run again.  Hashes are  *)
(* assumed not to collide.                                                 *)
(***************************************************************************)
CONSTANTS
    Publishers,  \* upload jobs
    Indexes,     \* index objects, upbound_<name>_<version>_index.json
    IndexOf,     \* the index object that each job writes
    Paths,       \* documents: files other than index.json and _index.md
    Ext,         \* the extension of each path
    Contents,    \* what is in a document
    Checkouts,   \* directories: their documents, and what index.json lists
    NoFile, NoBlob, NoIndex, NoDocs  \* a missing file, location, object

Exts == {Ext[f] : f \in Paths}
Blobs == Contents \X Exts
Trees == [Paths -> Contents \cup {NoFile}]
Metas == [Paths -> Blobs \cup {NoBlob}]

ASSUME IndexAssumption == IndexOf \in [Publishers -> Indexes]

(* index.json is a file of the repository like the documents: it may list  *)
(* paths that are gone, and lack new ones.                                 *)
ASSUME CheckoutsAssumption ==
    /\ Checkouts # {}
    /\ Checkouts \subseteq [docs : Trees, index : SUBSET Paths]

ASSUME AbsentAssumption ==
    /\ NoFile \notin Contents
    /\ NoBlob \notin Blobs
    /\ NoIndex \notin [toc : UNION {[S -> Blobs \cup {NoBlob}] : S \in SUBSET Paths},
                       meta : Metas]
    /\ NoDocs \notin Trees

VARIABLES
    phase,   \* of each job: in ProcessIndex, or not
    dir,     \* each job's directory
    meta,    \* the location of each document, NoBlob if it has none
    blobs,   \* document objects in the bucket, by name
    site,    \* index objects in the bucket
    logged   \* objects whose upload a job has logged as failed

vars == <<phase, dir, meta, blobs, site, logged>>

Entries(S) == [S -> Blobs \cup {NoBlob}]

BucketIndex == [toc : UNION {Entries(S) : S \in SUBSET Paths}, meta : Metas]

TypeOK ==
    /\ phase \in [Publishers -> {"idle", "meta"}]
    /\ dir \in [Publishers -> Checkouts]
    /\ meta \in [Publishers -> Metas]
    /\ blobs \in [Blobs -> Contents \cup {NoFile}]
    /\ site \in [Indexes -> BucketIndex \cup {NoIndex}]
    /\ logged \subseteq Blobs

Files(p) == {f \in Paths : dir[p].docs[f] # NoFile}

Unlocated == [f \in Paths |-> NoBlob]

Init ==
    /\ phase = [p \in Publishers |-> "idle"]
    /\ dir \in [Publishers -> Checkouts]
    /\ meta = [p \in Publishers |-> Unlocated]
    /\ blobs = [b \in Blobs |-> NoFile]
    /\ site = [i \in Indexes |-> NoIndex]
    /\ logged = {}

-----------------------------------------------------------------------------
(* The job around the command, which only checks out the repository: no    *)
(* index.json is generated there.                                          *)

Prepare(p) ==
    /\ phase[p] = "idle"
    /\ \E d \in Checkouts : dir' = [dir EXCEPT ![p] = d]
    /\ UNCHANGED <<phase, meta, blobs, site, logged>>

-----------------------------------------------------------------------------
(* ProcessIndex *)

Start(p) ==
    /\ phase[p] = "idle"
    /\ phase' = [phase EXCEPT ![p] = "meta"]
    /\ UNCHANGED <<dir, meta, blobs, site, logged>>

(* Mutant: the name is kept for a path, as if only the path were hashed. *)
BlobOfPath(p, f) == <<CHOOSE c \in Contents : TRUE, Ext[f]>>

(* The name of a document object: the hash of its content, and its ext. *)
Blob(p, f) == <<dir[p].docs[f], Ext[f]>>

Stored(p, f) == blobs' = [blobs EXCEPT ![Blob(p, f)] = dir[p].docs[f]]

(* Mutant: the error of the deferred Close is dropped. *)
CloseIgnored(p, f) == (Stored(p, f) \/ UNCHANGED blobs) /\ UNCHANGED logged

(* upload: the deferred Close is what stores the object.  Its error, also  *)
(* when the deadline has passed, is logged and upload returns nil.         *)
CloseFails(p, f) ==
    /\ Stored(p, f) \/ UNCHANGED blobs
    /\ logged' = logged \cup {Blob(p, f)}

(* One step of the walk in getMeta. *)
HashAndUpload(p, f) ==
    /\ phase[p] = "meta"
    /\ f \in Files(p) /\ meta[p][f] = NoBlob
    /\ (Stored(p, f) /\ UNCHANGED logged) \/ CloseFails(p, f)
    /\ meta' = [meta EXCEPT ![p][f] = Blob(p, f)]
    /\ UNCHANGED <<phase, dir, site>>

(* Mutant: the index is written while documents are still uploaded. *)
MayWriteEarly(p) == TRUE

(* The walk has uploaded every document. *)
WalkDone(p) == \A f \in Files(p) : meta[p][f] # NoBlob

(* Mutant: the locations stay what the generator wrote, paths. *)
Untranslated(p) == [f \in dir[p].index |-> f]

(* getIndex: a listed path without metadata gets an empty location. *)
TableOfContents(p) == [f \in dir[p].index |-> meta[p][f]]

(* The command returns; its metadata was local. *)
End(p) ==
    /\ phase' = [phase EXCEPT ![p] = "idle"]
    /\ meta' = [meta EXCEPT ![p] = Unlocated]

(* The index names the documents, and is the last object written, by the   *)
(* same upload: a failing Close is logged, and the command succeeds.       *)
WriteIndex(p) ==
    /\ phase[p] = "meta" /\ WalkDone(p)
    /\ End(p)
    /\ \/ site' = [site EXCEPT ![IndexOf[p]] =
                     [toc |-> TableOfContents(p), meta |-> meta[p]]]
       \/ UNCHANGED site
    /\ UNCHANGED <<dir, blobs, logged>>

(* Every early return (no client, a file that cannot be read, a copy that  *)
(* fails, no index.json or one that does not decode) and the end of the    *)
(* process.  The deadline of 60 seconds is an early return only in a copy; *)
(* in a Close it is CloseFails.                                            *)
Abort(p) ==
    /\ phase[p] = "meta"
    /\ End(p)
    /\ UNCHANGED <<dir, blobs, site, logged>>

ProcessIndex(p) ==
    \/ Start(p) \/ WriteIndex(p) \/ Abort(p)
    \/ \E f \in Paths : HashAndUpload(p, f)

Next == \E p \in Publishers : Prepare(p) \/ ProcessIndex(p)

Spec == Init /\ [][Next]_vars

-----------------------------------------------------------------------------
(* Properties. *)

Published(i) == site[i] # NoIndex

Named(i) == {site[i].meta[f] : f \in Paths} \ {NoBlob}

(***************************************************************************)
(* Every document that an index names is in the bucket, or the log of some *)
(* job says that its upload failed (171-175): documents are uploaded       *)
(* before the index, whichever jobs share the bucket, abort or are run     *)
(* again, and no document is lost in silence.                              *)
(***************************************************************************)
IndexResolves ==
    \A i \in Indexes : Published(i) =>
        \A b \in Named(i) : blobs[b] # NoFile \/ b \in logged

(***************************************************************************)
(* A stored document is never changed or removed, not even by another job: *)
(* who still reads an older index keeps finding its documents (148-167).   *)
(***************************************************************************)
BlobsImmutable ==
    [][\A b \in Blobs : blobs[b] # NoFile => blobs'[b] = blobs[b]]_vars

(***************************************************************************)
(* The two kinds of object together implement DocSite: a reader sees the   *)
(* documents of the directory of the job that wrote the index last, whole  *)
(* and unmixed but for those whose upload failed, and each entry of the    *)
(* table of contents leads to the document of its path in that directory,  *)
(* or nowhere if index.json is stale and there is none (113-115).          *)
(***************************************************************************)
ContentOf(b) == IF b = NoBlob THEN NoFile ELSE b[1]

Pages(i) ==
    IF ~Published(i) THEN NoDocs ELSE [f \in Paths |-> ContentOf(site[i].meta[f])]

Links(i) ==
    IF ~Published(i) THEN NoDocs
    ELSE [f \in DOMAIN site[i].toc |-> ContentOf(site[i].toc[f])]

Found(i) ==
    {f \in Paths : /\ Published(i) /\ site[i].meta[f] # NoBlob
                   /\ blobs[site[i].meta[f]] = ContentOf(site[i].meta[f])}

Site == INSTANCE DocSite WITH draft <- dir,
                              pages <- [i \in Indexes |-> Pages(i)],
                              links <- [i \in Indexes |-> Links(i)],
                              found <- [i \in Indexes |-> Found(i)]

ImplementsDocSite == Site!Spec
=============================================================================
