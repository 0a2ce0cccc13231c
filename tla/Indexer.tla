------------------------------- MODULE Indexer -------------------------------
(***************************************************************************)
(* The generate command of updoc (internal/updoc/generate.go): it reads a  *)
(* tree of documents and writes their order and names to index.json, from  *)
(* which the upload command makes the table of contents (UpdocUpload).     *)
(* Authors edit the tree between runs.                                     *)
(***************************************************************************)
EXTENDS Integers, Sequences, FiniteSets

CONSTANTS
    Roots,        \* the directories that authors may begin with
    Edited,       \* the directories that they may turn them into
    Directories,  \* those and, at any depth, the directories in them
    Depth(_),     \* of a directory
    Titles,       \* names that path.Clean keeps as they are
    NoName,       \* no name in the front matter, or none that can be parsed
    Missing, Broken,  \* index.json is not there, or written in part
    FailsOf, ItemsOf, TreeOf  \* functions of directories, see below

(***************************************************************************)
(* A file is [dir |-> FALSE, md, name, weight]; md is whether its name has *)
(* the extension .md.  A directory is [dir |-> TRUE, md, section, entries] *)
(* with the entries, other than _index.md, in the order of ReadDir, and    *)
(* the front matter of its _index.md, [name, weight], or NoSection.        *)
(***************************************************************************)
NoSection == [name |-> "", weight |-> 0]

(* Names with a part, between slashes, that is empty, "." or ".." are left *)
(* out: path.Join would drop such a part, or one before it (117).          *)
DisplayNames == Titles \cup {"", NoName}

IsFile(e) ==
    /\ e.dir = FALSE /\ e.md \in BOOLEAN
    /\ e.name \in DisplayNames /\ e.weight \in Int

IsDirectory(d) ==
    /\ d.dir = TRUE /\ d.md \in BOOLEAN
    /\ d.section.name \in DisplayNames /\ d.section.weight \in Int
    /\ Len(d.entries) \in Nat /\ DOMAIN d.entries = 1..Len(d.entries)

ASSUME DirectoriesAssumption ==
    /\ Roots \cup Edited \subseteq Directories
    /\ \A d \in Directories :
         /\ IsDirectory(d) /\ Depth(d) \in Nat
         /\ \A i \in DOMAIN d.entries :
              LET e == d.entries[i]
              IN  IsFile(e) \/ (e \in Directories /\ Depth(e) < Depth(d))

ASSUME NamesAssumption ==
    /\ Titles \cup {""} \subseteq STRING /\ NoName \notin STRING
    /\ {Missing, Broken} \cap Seq([name : Seq(STRING), location : Seq(Nat)]) = {}

(***************************************************************************)
(* Three functions recurse into directories.  Each is a constant, and its  *)
(* body an operator whose first argument is the function that it calls for *)
(* the directories in a directory (RecursionAssumption).                   *)
(***************************************************************************)
Fails(d) == FailsOf[d]

flatten(d) == ItemsOf[d]

Tree(d) == TreeOf[d]

VARIABLES
    root,    \* the tree
    index,   \* the items of index.json
    result   \* of the last run, "none" once the tree was edited

gvars == <<root, index, result>>

GInit ==
    /\ root \in Roots
    /\ index = Missing
    /\ result = "none"

-----------------------------------------------------------------------------
(* processDir *)

IsDocument(e) == ~e.dir /\ e.md

(* w of a Title or a Section. *)
weight(e) == IF e.dir THEN e.section.weight ELSE e.weight

(* Mutant: a directory that looks like a document is not read as one. *)
EntryFailsIfFile(e) == e.md /\ (IF e.dir THEN FALSE ELSE e.name = NoName)

(* Mutant: a document needs no title. *)
EntryFailsIfDir(e) == e.md /\ e.dir

(* getMeta fails: without a name, or because the entry is a directory.     *)
EntryFails(e) == e.md /\ (~e.dir => e.name = NoName)

FailsBody(fails, d) ==
    \/ d.section.name = NoName
    \/ \E i \in DOMAIN d.entries :
         EntryFails(d.entries[i]) \/ (d.entries[i].dir /\ fails[d.entries[i]])

(* Mutant: equal weights are exchanged. *)
LighterOrEqual(d, i, j) ==
    \/ weight(d.entries[i]) < weight(d.entries[j])
    \/ weight(d.entries[i]) = weight(d.entries[j]) /\ i > j

(* sort.SliceStable *)
Lighter(d, i, j) ==
    \/ weight(d.entries[i]) < weight(d.entries[j])
    \/ weight(d.entries[i]) = weight(d.entries[j]) /\ i < j

(* The places of the sections and documents of a directory, sorted. *)
Items(d) ==
    LET Kept == {i \in DOMAIN d.entries : d.entries[i].dir \/ d.entries[i].md}
        Rank(i) == Cardinality({j \in Kept : Lighter(d, j, i)}) + 1
    IN  [k \in 1..Cardinality(Kept) |-> CHOOSE i \in Kept : Rank(i) = k]

-----------------------------------------------------------------------------
(* flatten *)

(* Mutant: a section without a name keeps its place in the path. *)
JoinEmpty(name, p) == <<name>> \o p

(* path.Join of names as in DisplayNames leaves out what is empty. *)
Join(name, p) == IF name = "" THEN p ELSE <<name>> \o p

(* The items of a directory under its i-th entry, which is named name.     *)
Below(i, name, items) ==
    [k \in DOMAIN items |-> [name |-> Join(name, items[k].name),
                             location |-> <<i>> \o items[k].location]]

(* The item or items of the i-th entry. *)
ItemsAt(flat, d, i) ==
    LET e == d.entries[i]
    IN  IF e.dir THEN Below(i, e.section.name, flat[e])
        ELSE <<[name |-> Join(e.name, <<>>), location |-> <<i>>]>>

(* The items of a directory: names and locations in it, as sequences of    *)
(* the names of sections and of the places of entries.                     *)
flattenBody(flat, d) ==
    LET items == Items(d)
        upTo[k \in 0..Len(items)] ==
            IF k = 0 THEN <<>> ELSE upTo[k - 1] \o ItemsAt(flat, d, items[k])
    IN  upTo[Len(items)]

-----------------------------------------------------------------------------
(* Run *)

Run ==
    /\ ~Fails(root)
    /\ index' = flatten(root)
    /\ result' = "ok"
    /\ UNCHANGED root

(* The tree does not fit, or a file of it or index.json cannot be opened. *)
RunFails ==
    /\ result' = "error"
    /\ UNCHANGED <<root, index>>

(* The file is truncated before it is written. *)
WriteFails ==
    /\ ~Fails(root)
    /\ index' = Broken
    /\ result' = "error"
    /\ UNCHANGED root

Edit ==
    /\ root' \in Edited
    /\ result' = "none"
    /\ UNCHANGED index

GNext == Run \/ RunFails \/ WriteFails \/ Edit

GSpec == GInit /\ [][GNext]_gvars

-----------------------------------------------------------------------------
(* The entries of a directory, and of the directories in it, by their      *)
(* paths, the places of entries.                                           *)

TreeBody(tree, d) ==
    LET Under(i) == IF d.entries[i].dir THEN DOMAIN tree[d.entries[i]] ELSE {}
        paths == {<<i>> : i \in DOMAIN d.entries}
                 \cup UNION {{<<i>> \o q : q \in Under(i)} : i \in DOMAIN d.entries}
    IN  [q \in paths |-> IF Len(q) = 1 THEN d.entries[q[1]]
                         ELSE tree[d.entries[q[1]]][Tail(q)]]

ASSUME RecursionAssumption ==
    \A d \in Directories : /\ Fails(d) = FailsBody(FailsOf, d)
                           /\ flatten(d) = flattenBody(ItemsOf, d)
                           /\ Tree(d) = TreeBody(TreeOf, d)

-----------------------------------------------------------------------------
(* Properties: what index.json is to be, in terms of the paths alone. *)

Prefix(q, n) == SubSeq(q, 1, n)

Documents(d) == {q \in DOMAIN Tree(d) : IsDocument(Tree(d)[q])}

(* What an author gives as the weight of a section or of a document. *)
Weight(d, q) ==
    LET e == Tree(d)[q] IN IF e.dir THEN e.section.weight ELSE e.weight

(* The order where two paths part: by weight, then as in the directory. *)
ComesBefore(d, q, r) ==
    \E n \in 1..Len(q) :
        /\ n <= Len(r) /\ Prefix(q, n - 1) = Prefix(r, n - 1)
        /\ LET v == Weight(d, Prefix(q, n))
               w == Weight(d, Prefix(r, n))
           IN  v < w \/ (v = w /\ q[n] < r[n])

(***************************************************************************)
(* index.json lists every document of the tree, each once, in the order of *)
(* the weights and otherwise of the directory; a directory is in one piece *)
(* at the place of its own weight (125-163).                               *)
(***************************************************************************)
EachOnceInOrder ==
    result = "ok" =>
        /\ {index[k].location : k \in DOMAIN index} = Documents(root)
        /\ Len(index) = Cardinality(Documents(root))
        /\ \A k, l \in DOMAIN index :
             k < l => ComesBefore(root, index[k].location, index[l].location)

(* The name at place n of a path. *)
NameAt(d, q, n) ==
    LET e == Tree(d)[Prefix(q, n)] IN IF e.dir THEN e.section.name ELSE e.name

(* names are those along q that are not empty, in their order. *)
IsNameOf(d, q, names) ==
    \E place \in [DOMAIN names -> 1..Len(q)] :
        /\ \A j, k \in DOMAIN names : j < k => place[j] < place[k]
        /\ \A n \in 1..Len(q) :
             NameAt(d, q, n) # "" <=> \E k \in DOMAIN names : place[k] = n
        /\ \A k \in DOMAIN names : names[k] = NameAt(d, q, place[k])

(***************************************************************************)
(* The name of a document is its title under the names of the sections it  *)
(* is in, but for directories that have no _index.md, and the root (113),  *)
(* if no name has a part that path.Join cleans away.                       *)
(***************************************************************************)
NamedBySections ==
    result = "ok" =>
        \A k \in DOMAIN index : IsNameOf(root, index[k].location, index[k].name)

(* What cannot be listed: a document or section that has no name, or a     *)
(* directory whose name is that of a document.                             *)
Unfit(e) == IF e.dir THEN e.md \/ e.section.name = NoName ELSE e.md /\ e.name = NoName

(***************************************************************************)
(* No document is left out silently: the command succeeds only if every    *)
(* document and section has a name.  Nothing is promised of index.json     *)
(* after a failure: a run that fails before it writes leaves the one that  *)
(* it found, of another tree perhaps, and one that fails to write a part   *)
(* of one (98-110); the exit code is all that tells.                       *)
(***************************************************************************)
UnfitFails ==
    result = "ok" =>
        /\ root.section.name # NoName
        /\ \A q \in DOMAIN Tree(root) : ~Unfit(Tree(root)[q])

GTypeOK ==
    /\ root \in Roots \cup Edited
    /\ result \in {"none", "ok", "error"}
    /\ index \in {Missing, Broken} \cup Seq([name : Seq(STRING), location : Seq(Nat)])
    /\ result = "ok" => index \notin {Missing, Broken}
=============================================================================
