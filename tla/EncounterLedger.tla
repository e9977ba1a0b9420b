-------------------------- MODULE EncounterLedger --------------------------
(***************************************************************************)
(* What the corpus scan promises about the encounters of one month, without *)
(* files that are read one by one, a log or failures.  A scan takes over    *)
(* the registry as it is when it begins.  From then on it records, at once  *)
(* and for good, the best count of one Unit's lemma after the other, all in *)
(* the snapshot its source was first counted in, and none as long as one of *)
(* its Units is recorded under another lemma.  It may end at any time.      *)
(***************************************************************************)
CONSTANTS Units, Sources, Lemmas, Absent, Snapshots,
    Best    \* Best[d][l]: the largest count of lemma l in snapshot d

VARIABLES
    registry,  \* registry[u]: the lemma of Unit u
    scans,     \* the running scan, if there is one
    stored     \* the encounters

vars == <<registry, scans, stored>>

Init ==
    /\ registry \in [Units -> Lemmas \union {Absent}]
    /\ scans = {}
    /\ stored = {}

Edit(u, l) ==
    /\ registry' = [registry EXCEPT ![u] = l]
    /\ UNCHANGED <<scans, stored>>

Begin(s) ==
    /\ scans = {}
    /\ scans' = {[source |-> s, units |-> registry]}
    /\ UNCHANGED <<registry, stored>>

\* What is stored of the scan's source leaves room for Unit u in snapshot d.
Consistent(r, u, d) ==
    \A e \in stored : e.source = r.source =>
        /\ e.unit # u /\ e.snapshot = d
        /\ r.units[e.unit] \in {e.lemma, Absent}

Store(u, d) ==
    /\ \E r \in scans :
          /\ r.units[u] # Absent /\ Consistent(r, u, d)
          /\ stored' = stored \union
                {[unit |-> u, source |-> r.source, lemma |-> r.units[u],
                  count |-> Best[d][r.units[u]], snapshot |-> d]}
    /\ scans' \in {scans, {}}
    /\ UNCHANGED registry

End ==
    /\ scans' = {}
    /\ UNCHANGED <<registry, stored>>

Next ==
    \/ \E u \in Units, l \in Lemmas \union {Absent} : Edit(u, l)
    \/ \E s \in Sources : Begin(s)
    \/ \E u \in Units, d \in Snapshots : Store(u, d)
    \/ End

Spec == Init /\ [][Next]_vars
=============================================================================
