-------------------------- MODULE MCCleanupExamples --------------------------
(* Values of the constants of CleanupExamples for TLC. *)
EXTENDS CleanupExamples

TwoYamlAndOther == <<"a.yaml", "b.yml", "notes.md">>

Plain == [annotations |-> {}, strings |-> TRUE, placeholder |-> TRUE]
Full == [annotations |-> Annotations, strings |-> TRUE, placeholder |-> FALSE]
Mixed == [annotations |-> Annotations, strings |-> FALSE, placeholder |-> FALSE]

SomeContents ==
    {<<>>, <<Null>>, <<Full>>, <<Plain, Full>>, <<Mixed>>, <<Full, Bad>>,
     <<Null, Full, Null, Plain>>}
=============================================================================
