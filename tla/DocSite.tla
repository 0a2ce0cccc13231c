------------------------------- MODULE DocSite -------------------------------
(***************************************************************************)
(* What the readers of the documentation are promised: the pages of a      *)
(* provider version and the links to them change only when it is           *)
(* published, all at once, to what one directory holds.  A page may fail   *)
(* to arrive; it then appears later or never, and what has appeared stays. *)
(***************************************************************************)
CONSTANTS
    Publishers,  \* runs of the upload job
    Indexes,     \* provider versions, each with an index object
    IndexOf,     \* the provider version that each publisher uploads
    Paths,       \* of pages
    Checkouts,   \* what a directory holds: its documents, and its list of them
    NoFile,      \* no page at a path
    NoDocs       \* nothing was published for a provider version

VARIABLES
    draft,  \* each publisher's directory
    pages,  \* the published pages of each provider version
    links,  \* the page behind each entry of its table of contents
    found   \* the pages that readers find there

Vars == <<draft, pages, links, found>>

Pages(d) == {f \in Paths : d.docs[f] # NoFile}

Init ==
    /\ draft \in [Publishers -> Checkouts]
    /\ pages = [i \in Indexes |-> NoDocs]
    /\ links = [i \in Indexes |-> NoDocs]
    /\ found = [i \in Indexes |-> {}]

Prepare(p) ==
    /\ \E d \in Checkouts : draft' = [draft EXCEPT ![p] = d]
    /\ UNCHANGED <<pages, links, found>>

(* An entry whose page is not in the directory leads nowhere. *)
Publish(p) ==
    LET i == IndexOf[p]
        d == draft[p]
    IN  /\ pages' = [pages EXCEPT ![i] = d.docs]
        /\ links' = [links EXCEPT ![i] = [f \in d.index |-> d.docs[f]]]
        /\ \E S \in SUBSET Pages(d) : found' = [found EXCEPT ![i] = S]
        /\ UNCHANGED draft

(* Pages that had not arrived do, in any of the provider versions. *)
Appear ==
    /\ found' \in [Indexes -> SUBSET Paths]
    /\ \A i \in Indexes :
         /\ found[i] \subseteq found'[i]
         /\ \A f \in found'[i] \ found[i] : pages[i] # NoDocs /\ pages[i][f] # NoFile
    /\ UNCHANGED <<draft, pages, links>>

Next == Appear \/ \E p \in Publishers : Prepare(p) \/ Publish(p)

Spec == Init /\ [][Next]_Vars
=============================================================================
