--------------------------- MODULE CleanupExamples ---------------------------
(***************************************************************************)
(* The cleanupexamples command (cmd/cleanupexamples/main.go): walk the     *)
(* example manifests and write each YAML file, without what uptest needs   *)
(* in it, to the same place of an output directory.  Authors edit the      *)
(* manifests between runs, and outputs of earlier runs stay.               *)
(***************************************************************************)
EXTENDS Naturals, Sequences

CONSTANTS
    Order,     \* the files, in the order of the walk
    Yaml,      \* those with the extension .yaml or .yml
    Upjet, Uptest, Other,  \* annotations, by their prefix
    Contents,  \* what may be in a file: sequences of documents
    Null, Bad, \* an empty document, one that cannot be decoded
    NoFile, Truncated

Files == {Order[i] : i \in DOMAIN Order}

Annotations == Upjet \cup Uptest \cup Other

(* A manifest: its annotations, whether all of them have strings as their  *)
(* values, and whether ${Rand.RFC1123Subdomain} is anywhere in it.         *)
Manifests ==
    [annotations : SUBSET Annotations, strings : BOOLEAN, placeholder : BOOLEAN]

ASSUME ContentsAssumption ==
    /\ Contents \subseteq Seq(Manifests \cup {Null, Bad})
    /\ {Null, Bad} \cap Manifests = {}

ASSUME PrefixAssumption == Other \cap (Upjet \cup Uptest) = {}

ASSUME FilesAssumption ==
    /\ Order \in Seq(Files) /\ Yaml \subseteq Files
    /\ {NoFile, Truncated} \cap Seq(Manifests) = {}

VARIABLES
    input,   \* the content of each file of the input directory
    output,  \* and of the output directory
    todo,    \* what is left of the walk
    status   \* "idle", "walk", or how the last run ended; it exits with 0

vars == <<input, output, todo, status>>

Init ==
    /\ input \in [Files -> Contents \cup {NoFile}]
    /\ output = [f \in Files |-> NoFile]
    /\ todo = <<>>
    /\ status = "idle"

-----------------------------------------------------------------------------
(* processYAML *)

(* Mutant: the loop over the prefixes ends with the first. *)
filterFirstPrefix(u) ==
    [u EXCEPT !.annotations = IF u.strings THEN @ \ Upjet ELSE {},
              !.strings = TRUE]

(* GetAnnotations finds none if a value is not a string, and so all go.    *)
filterAnnotations(u) ==
    [u EXCEPT !.annotations = IF u.strings THEN @ \ (Upjet \cup Uptest) ELSE {},
              !.strings = TRUE]

(* The elements of s that are not in the set out, in their order. *)
Without(s, out) ==
    LET kept[i \in 0..Len(s)] ==
            IF i = 0 THEN <<>>
            ELSE IF s[i] \in out THEN kept[i - 1] ELSE Append(kept[i - 1], s[i])
    IN  kept[Len(s)]

(* Mutant: an empty document ends the file. *)
UpToNull(docs) ==
    SubSeq(docs, 1, CHOOSE n \in 0..Len(docs) :
                        /\ \A i \in 1..n : docs[i] # Null
                        /\ n < Len(docs) => docs[n + 1] = Null)

(* Empty documents are passed over. *)
Decoded(docs) == Without(docs, {Null})

processYAML(docs) ==
    [k \in DOMAIN Decoded(docs) |->
        [filterAnnotations(Decoded(docs)[k]) EXCEPT !.placeholder = FALSE]]

Decodes(docs) == \A i \in DOMAIN docs : docs[i] # Bad

-----------------------------------------------------------------------------
(* processDirectory *)

Walking == status = "walk"

Start ==
    /\ ~Walking
    /\ status' = "walk"
    /\ todo' = Without(Order, {f \in Files : input[f] = NoFile})
    /\ UNCHANGED <<input, output>>

At(f) == Walking /\ todo # <<>> /\ f = Head(todo)

(* Mutant: any file is processed. *)
AnyFile(f) == TRUE

(* filepath.Ext *)
IsYaml(f) == f \in Yaml

(* Other files are not copied. *)
PassOver(f) ==
    /\ At(f) /\ ~IsYaml(f)
    /\ todo' = Tail(todo)
    /\ UNCHANGED <<input, output, status>>

ProcessFile(f) ==
    /\ At(f) /\ IsYaml(f) /\ Decodes(input[f])
    /\ output' = [output EXCEPT ![f] = processYAML(input[f])]
    /\ todo' = Tail(todo)
    /\ UNCHANGED <<input, status>>

(* A file cannot be read, decoded or created: the walk ends. *)
ProcessFails(f) ==
    /\ At(f)
    /\ status' = "failed" /\ todo' = <<>>
    /\ UNCHANGED <<input, output>>

(* It cannot be written, or the process ends while it is. *)
WriteFails(f) ==
    /\ At(f) /\ IsYaml(f) /\ Decodes(input[f])
    /\ output' = [output EXCEPT ![f] = Truncated]
    /\ status' = "failed" /\ todo' = <<>>
    /\ UNCHANGED input

Finish ==
    /\ Walking /\ todo = <<>>
    /\ status' = "ok"
    /\ UNCHANGED <<input, output, todo>>

(* Authors change, add or remove a file. *)
Edit(f) ==
    /\ ~Walking
    /\ input' \in {[input EXCEPT ![f] = docs] : docs \in Contents \cup {NoFile}}
    /\ status' = "idle"
    /\ UNCHANGED <<output, todo>>

Next ==
    \/ Start \/ Finish
    \/ \E f \in Files :
         PassOver(f) \/ ProcessFile(f) \/ ProcessFails(f) \/ WriteFails(f) \/ Edit(f)

Spec == Init /\ [][Next]_vars

-----------------------------------------------------------------------------
(* Properties. *)

TypeOK ==
    /\ input \in [Files -> Contents \cup {NoFile}]
    /\ \A f \in Files :
         /\ output[f] \in Seq(Manifests) \cup {NoFile, Truncated}
         /\ f \notin Yaml => output[f] = NoFile
    /\ todo \in Seq(Files)
    /\ status \in {"idle", "walk", "ok", "failed"}

(* out is the k-th manifest of the file, and lacks what uptest needs only. *)
IsCleaned(docs, out) ==
    \E at \in [DOMAIN out -> DOMAIN docs] :
        /\ \A k, l \in DOMAIN out : k < l => at[k] < at[l]
        /\ \A i \in DOMAIN docs : docs[i] # Null <=> \E k \in DOMAIN out : at[k] = i
        /\ \A k \in DOMAIN out :
             /\ out[k].annotations \subseteq docs[at[k]].annotations
             /\ docs[at[k]].strings =>
                  docs[at[k]].annotations \cap Other = out[k].annotations

(***************************************************************************)
(* "All YAML files processed": when the walk came to its end, every YAML   *)
(* file has an output of this run, with all of its manifests in order, and *)
(* each of them keeps its other annotations if all are strings (65-174).   *)
(***************************************************************************)
AllProcessed ==
    status = "ok" =>
        \A f \in Yaml : input[f] # NoFile =>
            output[f] \notin {NoFile, Truncated} /\ IsCleaned(input[f], output[f])

(***************************************************************************)
(* Whenever a run stops, and whatever is left of earlier ones, no output   *)
(* has an annotation of upjet or uptest or a placeholder in it, and if the *)
(* command is run on its own output, it changes nothing (34-104).          *)
(***************************************************************************)
OutputsAreClean ==
    \A f \in Files : output[f] \notin {NoFile, Truncated} =>
        /\ processYAML(output[f]) = output[f]
        /\ \A k \in DOMAIN output[f] :
             /\ output[f][k].annotations \subseteq Other
             /\ ~output[f][k].placeholder
=============================================================================
