----------------------------- MODULE Lifecycle -----------------------------
(***************************************************************************)
(* What reconciliation promises about one vocabulary unit: the lifecycle    *)
(* state of a channel moves only along the edges of STATE_TRANSITIONS, one  *)
(* edge at a time, and a unit goes dormant as a whole: the first channel    *)
(* falls asleep when every channel is mastered, and until the last one has  *)
(* followed no channel moves in any other way.                              *)
(***************************************************************************)
CONSTANT Channels

States == {"NEW", "LEARNING", "STABLE", "MASTERED", "DORMANT", "RELAPSE"}

\* STATE_TRANSITIONS
Edges == {<<"NEW", "LEARNING">>, <<"LEARNING", "STABLE">>, <<"STABLE", "LEARNING">>,
          <<"STABLE", "MASTERED">>, <<"MASTERED", "RELAPSE">>, <<"MASTERED", "DORMANT">>,
          <<"DORMANT", "RELAPSE">>, <<"RELAPSE", "LEARNING">>}

VARIABLES
    life,   \* the committed state of each channel
    asleep  \* the channels that went dormant while others still have to

vars == <<life, asleep>>

Init ==
    /\ life \in [Channels -> States]
    /\ asleep = {}

Advance(c, s) ==
    /\ asleep = {}
    /\ <<life[c], s>> \in Edges /\ s # "DORMANT"
    /\ life' = [life EXCEPT ![c] = s]
    /\ UNCHANGED asleep

FallAsleep(c) ==
    /\ \A d \in Channels : life[d] = IF d \in asleep THEN "DORMANT" ELSE "MASTERED"
    /\ c \notin asleep
    /\ life' = [life EXCEPT ![c] = "DORMANT"]
    /\ asleep' = IF asleep \union {c} = Channels THEN {} ELSE asleep \union {c}

Next == \E c \in Channels : FallAsleep(c) \/ \E s \in States : Advance(c, s)

Spec == Init /\ [][Next]_vars
=============================================================================
