------------------------------ MODULE MCCorpus ------------------------------
(* Two Units, two files, and of what a lemma and a file may be the smallest *)
(* sets in which an edit changes a count.                                   *)
EXTENDS Corpus

CONSTANTS u1, u2, f1, f2, bad

MCUnitKeys == <<u1, u2>>
MCFileNames == <<f1, f2>>

Chunk(tokens) == [type |-> "chunk", tokens |-> tokens]
Frame(before, after) == [type |-> "frame", before |-> before, after |-> after]

MCLemmas == {Chunk(<<"a", "b">>), Frame(<<"a">>, <<"a">>)}
MCContents == {<<<<"a", "c", "b">>, <<"a", "c", "a", "b", "a">>>>, bad}
MCRejected == {bad}
=============================================================================
