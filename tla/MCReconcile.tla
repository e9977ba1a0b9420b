---------------------------- MODULE MCReconcile ----------------------------
(* A unit with two active channels, from states that put every edge of the  *)
(* lifecycle within reach of the bounds.                                    *)
EXTENDS Reconcile

MCOrder == <<"R", "W">>

MCStarts ==
    {[R |-> r, W |-> w] : r, w \in {"MASTERED"}}
      \union {[R |-> "NEW", W |-> "STABLE"], [R |-> "LEARNING", W |-> "NEW"],
              [R |-> "DORMANT", W |-> "RELAPSE"]}
=============================================================================
