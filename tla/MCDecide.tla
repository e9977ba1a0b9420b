------------------------------ MODULE MCDecide ------------------------------
EXTENDS Decide, TLC

MCOrder == <<"R", "S">>

Start(r, s) == "R" :> r @@ "S" :> s
MCStarts ==
    {Start("NEW", Inactive), Start("LEARNING", Inactive), Start("STABLE", Inactive),
     Start("MASTERED", Inactive), Start("STABLE", "MASTERED"), Start("MASTERED", "MASTERED")}
=============================================================================
