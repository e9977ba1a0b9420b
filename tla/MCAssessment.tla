---------------------------- MODULE MCAssessment ----------------------------
(* Two written attempts that present the same stimulus and a spoken one. *)
EXTENDS Assessment, TLC

CONSTANTS a1, a2, s1, x, y

MCAttempts == {a1, a2, s1}
MCSpeech == {s1}
MCStimulus == (a1 :> x) @@ (a2 :> x) @@ (s1 :> y)

Symmetric == Permutations({a1, a2})
=============================================================================
