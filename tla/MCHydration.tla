---------------------------- MODULE MCHydration ----------------------------
(* A small instance of Hydration for TLC. *)
EXTENDS Hydration, TLC

CONSTANTS original, revised,         \* identities of the note
          plain, reworded, respoken, \* context banks
          hello, goodbye             \* names of recordings

\* Two banks are valid for the original identity, and one of them also when a
\* person has revised it.
MCValidFor == plain :> {original} @@ reworded :> {original, revised} @@ respoken :> {revised}

\* The reworded bank differs from the plain one in Ctx_2 to Ctx_5 only.
MCSpoken == plain :> hello @@ reworded :> hello @@ respoken :> goodbye
=============================================================================
