----------------------------- MODULE BuildTagger -----------------------------
(***************************************************************************)
(* The buildtagger command (cmd/buildtagger/main.go): walk a directory and *)
(* set the build tag in the first line of every Go file whose path matches *)
(* an expression, or remove it.  The command is run over and over on the   *)
(* same files, with other tags and flags, and may stop anywhere.           *)
(***************************************************************************)
EXTENDS Naturals, Sequences

CONSTANTS
    Files,    \* the files under --parent-dir
    Tags,     \* lines that begin with //go:build
    Blank,    \* lines of white space
    Code,     \* other lines
    Initial,  \* what a file may hold before the first run
    NoTag, NoFile

Lines == Tags \cup {Blank} \cup Code

(* os.ReadFile and strings.Split: at least one line, perhaps empty. *)
Contents == Seq(Lines) \ {<<>>}

(* The file is written and read back: no lines become one empty line. *)
Saved(lines) == IF lines = <<>> THEN <<Blank>> ELSE lines

TagExists(c) == c[1] \in Tags

EmptyLineFollows(c) == Len(c) > 1 /\ c[2] = Blank

(* A file without its tag and the empty line that sets it off. *)
Source(c) ==
    IF ~TagExists(c) THEN c
    ELSE Saved(SubSeq(c, IF EmptyLineFollows(c) THEN 3 ELSE 2, Len(c)))

(* What may be left of a line that is cut: of a tag, a shorter one or the  *)
(* beginning of a comment, of white space never anything else.             *)
CutLine(l) ==
    IF l \in Tags THEN Lines ELSE IF l = Blank THEN {Blank} ELSE Code \cup {Blank}

(* os.WriteFile may stop at any byte: a file of some of the first lines,   *)
(* the last of them perhaps cut, down to a file that is empty.             *)
Prefixes(c) ==
    {[i \in 1..n |-> IF i = n THEN l ELSE c[i]] : n \in 1..Len(c), l \in Lines}

Partial(c) == {p \in Prefixes(c) : p[Len(p)] \in CutLine(c[Len(p)])}

TagOf(c) == IF TagExists(c) THEN c[1] ELSE NoTag

ASSUME LinesAssumption ==
    /\ Blank \notin Tags /\ NoTag \notin Tags
    /\ Code \cap (Tags \cup {Blank}) = {}
    /\ NoFile \notin Files

(* A tag is in the first line, or the file has none. *)
ASSUME InitialAssumption ==
    \A c \in Initial : c \in Contents /\ ~TagExists(Source(c))

VARIABLES
    content,  \* the lines of each file
    status,   \* "idle", "walk", or how the last run ended
    delete,   \* --delete
    matched,  \* the files that match --regex
    tagFor,   \* --tag-format filled in for each file
    todo,     \* matched files that the walk has not visited
    current,  \* the file that is truncated and not yet written
    pending   \* the lines to write to it

flags == <<delete, matched, tagFor>>
vars == <<content, status, flags, todo, current, pending>>

Init ==
    /\ content \in [Files -> Initial]
    /\ status = "idle"
    /\ delete = FALSE /\ matched = {} /\ tagFor = [f \in Files |-> NoTag]
    /\ todo = {}
    /\ current = NoFile /\ pending = <<>>

-----------------------------------------------------------------------------
(* updateFileWithBuildTag *)

(* Mutant: the empty second line is taken for that of a tag. *)
DroppedIfBlank(c) ==
    (IF TagExists(c) THEN 1 ELSE 0) + (IF delete /\ EmptyLineFollows(c) THEN 1 ELSE 0)

(* Mutant: the line of the old tag is kept. *)
DroppedBelowTag(c) == IF delete /\ EmptyLineFollows(c) /\ TagExists(c) THEN 2 ELSE 0

(* getLineStartIndex, plus one: the lines to drop from the beginning. *)
Dropped(c) ==
    (IF TagExists(c) THEN 1 ELSE 0)
      + (IF delete /\ EmptyLineFollows(c) /\ TagExists(c) THEN 1 ELSE 0)

(* Mutant: an empty second line sets a new tag off, too. *)
AddedIfBlank(c, t) == IF EmptyLineFollows(c) THEN <<t>> ELSE <<t, Blank>>

(* An empty line is added unless there is one. *)
Added(c, t) ==
    IF EmptyLineFollows(c) /\ TagExists(c) THEN <<t>> ELSE <<t, Blank>>

Updated(c, t) ==
    Saved((IF delete THEN <<>> ELSE Added(c, t)) \o SubSeq(c, Dropped(c) + 1, Len(c)))

-----------------------------------------------------------------------------
(* addOrUpdateBuildTag *)

Walking == status = "walk"

(* Any flags: which files match, and the tag that each of them gets. *)
Start ==
    /\ ~Walking
    /\ status' = "walk"
    /\ delete' \in BOOLEAN
    /\ matched' \in SUBSET Files
    /\ tagFor' \in [Files -> Tags]
    /\ todo' = matched'
    /\ UNCHANGED <<content, current, pending>>

(* The file is read, and os.WriteFile truncates it ... *)
Truncate(f) ==
    /\ Walking /\ current = NoFile /\ f \in todo
    /\ current' = f
    /\ pending' = Updated(content[f], tagFor[f])
    /\ content' = [content EXCEPT ![f] = <<Blank>>]
    /\ UNCHANGED <<status, flags, todo>>

(* ... and writes it. *)
Write ==
    /\ Walking /\ current # NoFile
    /\ content' = [content EXCEPT ![current] = pending]
    /\ todo' = todo \ {current}
    /\ current' = NoFile /\ pending' = <<>>
    /\ UNCHANGED <<status, flags>>

(* "no Go source files ... matched the regular expression" *)
Finish ==
    /\ Walking /\ current = NoFile /\ todo = {}
    /\ status' = IF matched # {} THEN "ok" ELSE "failed"
    /\ UNCHANGED <<content, flags, todo, current, pending>>

(* A file cannot be read or written, or the process ends: with a part of   *)
(* the file written that it was writing.                                   *)
Stop ==
    /\ Walking
    /\ IF current = NoFile THEN UNCHANGED content
       ELSE \E c \in Partial(pending) : content' = [content EXCEPT ![current] = c]
    /\ status' = "failed"
    /\ todo' = {}
    /\ current' = NoFile /\ pending' = <<>>
    /\ UNCHANGED flags

Next == Start \/ (\E f \in Files : Truncate(f)) \/ Write \/ Finish \/ Stop

Spec == Init /\ [][Next]_vars

-----------------------------------------------------------------------------
(* Properties. *)

(* A file has at most one tag, in its first line. *)
TypeOK ==
    /\ content \in [Files -> Contents]
    /\ \A f \in Files : ~TagExists(Source(content[f]))
    /\ status \in {"idle", "walk", "ok", "failed"}
    /\ delete \in BOOLEAN
    /\ todo \subseteq matched /\ matched \subseteq Files
    /\ tagFor \in [Files -> Tags \cup {NoTag}]
    /\ Walking => tagFor \in [Files -> Tags]
    /\ current \in todo \cup {NoFile}
    /\ current # NoFile => Walking /\ pending \in Contents

(***************************************************************************)
(* When a run succeeds, every file that matched has the tag of this run,   *)
(* set off by an empty line as Go asks of a build constraint, or none with *)
(* --delete: whatever tag it had, and wherever earlier runs stopped        *)
(* (main.go:47-88, 107-145).                                               *)
(***************************************************************************)
AllTagged ==
    status = "ok" =>
        \A f \in matched :
            IF delete THEN ~TagExists(content[f])
            ELSE content[f][1] = tagFor[f] /\ EmptyLineFollows(content[f])

(***************************************************************************)
(* Over any sequence of runs the files implement TaggedSources: no run     *)
(* adds to, drops from or duplicates anything but the tag and its empty    *)
(* line, and adding and deleting a tag gives back the file, and a run that *)
(* stops harms one file at most, which keeps the first lines of its source *)
(* (107-145).  A truncated file counts as what is being written to it.     *)
(***************************************************************************)
Seen(f) == IF f = current THEN pending ELSE content[f]

Tagged == INSTANCE TaggedSources WITH
    Sources <- {Source(c) : c \in Initial},
    tag <- [f \in Files |-> TagOf(Seen(f))],
    source <- [f \in Files |-> Source(Seen(f))]

ImplementsTaggedSources == Tagged!Spec
=============================================================================
