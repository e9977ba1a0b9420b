---------------------------- MODULE ForgeCommit ----------------------------
(***************************************************************************)
(* What Forge promises about one vocabulary unit, without journals, locks   *)
(* or processes: at any time at most one attempt per unit_key is open, Anki *)
(* is asked to create a note only for an open attempt and only once, and an *)
(* open attempt is closed once, by an acceptance or by an abandonment.      *)
(***************************************************************************)
CONSTANTS Keys, Attempts, NoKey

VARIABLES
    status,  \* status[a]: how far attempt a has come
    keyOf,   \* keyOf[a]: the unit an opened attempt is for
    asked    \* the attempts for which Anki was asked to create a note

vars == <<status, keyOf, asked>>

Init ==
    /\ status = [a \in Attempts |-> "unused"]
    /\ keyOf = [a \in Attempts |-> NoKey]
    /\ asked = {}

Open(k) == {a \in Attempts : status[a] = "open" /\ keyOf[a] = k}

\* A refused unit uses its attempt up and leaves no other trace.
Refuse(a) ==
    /\ status[a] = "unused"
    /\ status' = [status EXCEPT ![a] = "refused"]
    /\ UNCHANGED <<keyOf, asked>>

Intend(a, k) ==
    /\ status[a] = "unused"
    /\ Open(k) = {}
    /\ status' = [status EXCEPT ![a] = "open"]
    /\ keyOf' = [keyOf EXCEPT ![a] = k]
    /\ UNCHANGED asked

Ask(a) ==
    /\ status[a] = "open"
    /\ a \notin asked
    /\ asked' = asked \union {a}
    /\ UNCHANGED <<status, keyOf>>

Close(a, s) ==
    /\ status[a] = "open"
    /\ status' = [status EXCEPT ![a] = s]
    /\ UNCHANGED <<keyOf, asked>>

Next ==
    \E a \in Attempts :
        \/ Refuse(a) \/ Ask(a)
        \/ \E k \in Keys : Intend(a, k)
        \/ \E s \in {"accepted", "abandoned"} : Close(a, s)

Spec == Init /\ [][Next]_vars
=============================================================================
