------------------------------ MODULE MCIndexer ------------------------------
(* Values of the constants of Indexer for TLC. *)
EXTENDS Indexer, Functions

File(md, name, w) == [dir |-> FALSE, md |-> md, name |-> name, weight |-> w]
Dir(section, entries) == [dir |-> TRUE, md |-> FALSE, section |-> section, entries |-> entries]
Section(name, w) == [name |-> name, weight |-> w]

UpTo(n, S) == UNION {[1..k -> S] : k \in 0..n}

Light == File(TRUE, "t", 0)
Heavy == File(TRUE, "t", 1)
Image == File(FALSE, "", 0)
Untitled == File(TRUE, NoName, 0)

Sections == {NoSection, Section("s", -1), Section("s", 1)}

Dirs == {Dir(s, es) : s \in Sections, es \in UpTo(2, {Light, Heavy, Image})}

UnfitDirs ==
    {[Dir(NoSection, <<Light>>) EXCEPT !.md = TRUE], Dir(Section(NoName, 0), <<Light>>),
     Dir(Section("s", 0), <<Heavy, Untitled>>)}

(* Two levels below the root. *)
Nested == {Dir(s, <<Heavy, Dir(t, <<Heavy, Light>>), Light>>) : s \in Sections, t \in Sections}

SmallDirs == {Dir(s, <<Heavy, Light>>) : s \in Sections}

AllRoots ==
    {Dir(NoSection, es) :
        es \in UpTo(2, {Light, Heavy, Image, Untitled} \cup Dirs \cup UnfitDirs)
               \cup UpTo(3, {Light, Heavy} \cup SmallDirs \cup Nested)}
      \cup {Dir(s, <<Light>>) : s \in {Section("s", 0), Section(NoName, 0)}}

SomeEdits ==
    {Dir(NoSection, <<>>), Dir(NoSection, <<Untitled>>),
     Dir(Section("s", 1), <<Heavy, Image, Dir(Section("s", 0), <<Light>>), Light>>)}

(* The directories in them, and the recursive functions. *)
RECURSIVE WithParts(_)
WithParts(S) ==
    IF S = {} THEN {}
    ELSE S \cup WithParts({e \in UNION {Range(d.entries) : d \in S} : e.dir})

Found == {d : d \in WithParts(AllRoots \cup SomeEdits)}

RECURSIVE DepthOf(_)
DepthOf(d) ==
    LET Depths == {DepthOf(e) : e \in {e \in Range(d.entries) : e.dir}}
    IN  IF Depths = {} THEN 0 ELSE 1 + CHOOSE n \in Depths : \A m \in Depths : m <= n

AllFailsOf[d \in Found] == FailsBody(AllFailsOf, d)

AllItemsOf[d \in Found] == flattenBody(AllItemsOf, d)

AllTreeOf[d \in Found] == TreeBody(AllTreeOf, d)

AllDirectories == DOMAIN AllTreeOf
=============================================================================
