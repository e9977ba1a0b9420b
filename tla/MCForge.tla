------------------------------ MODULE MCForge ------------------------------
(* Small instances of Forge for TLC. *)
EXTENDS Forge, TLC

Interchangeable == Permutations(Attempts) \union Permutations(NoteIds)
                     \union Permutations(Procs)

\* Where more than one unit is at work, these are interchangeable as well.
InterchangeableUnits == Interchangeable \union Permutations(Keys)
=============================================================================
