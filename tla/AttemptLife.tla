---------------------------- MODULE AttemptLife ----------------------------
(***************************************************************************)
(* What the T12 subsystem promises about assessment attempts, without       *)
(* ledgers, permits or crashes: an attempt is reserved before its stimulus  *)
(* is shown, answered or given up only after that, one of the two, and      *)
(* judged once, on what was answered; a spoken attempt is first transcribed *)
(* into a SPEAK record that already fixes the outcome.                      *)
(***************************************************************************)
CONSTANTS Attempts, Speech, Outcomes

Undecided == "undecided"

VARIABLES
    stage,    \* stage[a]: how far the attempt has come
    spoken,   \* spoken[a]: the outcome of its SPEAK record
    judged    \* judged[a]: the outcome of its JUDGE record

vars == <<stage, spoken, judged>>

Stages == {"new", "reserved", "shown", "captured", "disposed"}

Init ==
    /\ stage = [a \in Attempts |-> "new"]
    /\ spoken = [a \in Attempts |-> Undecided]
    /\ judged = [a \in Attempts |-> Undecided]

Move(a, s, t) ==
    /\ stage[a] = s
    /\ stage' = [stage EXCEPT ![a] = t]
    /\ UNCHANGED <<spoken, judged>>

Reserve(a) == Move(a, "new", "reserved")
Show(a) == Move(a, "reserved", "shown")
Capture(a) == Move(a, "shown", "captured")
Dispose(a) == a \notin Speech /\ Move(a, "shown", "disposed")

Speak(a, o) ==
    /\ a \in Speech /\ stage[a] = "captured"
    /\ spoken[a] = Undecided /\ judged[a] = Undecided
    /\ spoken' = [spoken EXCEPT ![a] = o]
    /\ UNCHANGED <<stage, judged>>

Judge(a, o) ==
    /\ judged[a] = Undecided
    /\ \/ a \in Speech /\ spoken[a] = o
       \/ a \notin Speech /\ stage[a] = "captured"
       \/ stage[a] = "disposed" /\ o = "ABSTAIN"
    /\ judged' = [judged EXCEPT ![a] = o]
    /\ UNCHANGED <<stage, spoken>>

Next ==
    \E a \in Attempts :
        \/ Reserve(a) \/ Show(a) \/ Capture(a) \/ Dispose(a)
        \/ \E o \in Outcomes : Speak(a, o) \/ Judge(a, o)

Spec == Init /\ [][Next]_vars
=============================================================================
