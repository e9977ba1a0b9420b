-------------------------- MODULE ReconcileProofs --------------------------
(***************************************************************************)
(* Proofs about Reconcile for every unit: any number of channels, any       *)
(* states to start from, any number of inputs and failing calls, and with   *)
(* or without edits by hand and late updates.                               *)
(*                                                                          *)
(* Nothing of JournalStaysReadable, PendingIsUnambiguous, GroupsEndOneWay,  *)
(* WritesAreAnnounced or NoteFollowsJournal is inductive by itself: what a  *)
(* step may write depends on the steps still to take, and what recovery may *)
(* do depends on what an interrupted run left behind.  The invariant has    *)
(* three parts: the journal and what it leaves pending, the steps of the    *)
(* run against the journal, and the note against both.                      *)
(***************************************************************************)
EXTENDS Reconcile, FiniteSetTheorems, TLAPS

-----------------------------------------------------------------------------
(* The inductive invariant *)

Phases == {"PREPARE", "COMMIT", "ABORT"}
Calls == {"update", "verify", "suspend", "queues"}
Record == [phase : Phases, t : Transition]
StepType == [round : Nat, turn : Nat, do : Phases \union Calls, ts : SUBSET Transition]

\* Along an edge of the lifecycle; a member of a group is in its own group.
Shaped(t) ==
    /\ <<t.from, t.to>> \in Promise!Edges
    /\ Grouped(t) => /\ t.detail \in [DOMAIN Order -> Nat]
                     /\ t \in Group(t)

\* The transition leaves the state and episode its channel is in.
Fits(t) == t.ep = Episode(t.ch) /\ t.from = Life(t.ch)

\* So does every member of its group that is not committed yet.
GroupFits(t) ==
    \A m \in Group(t) :
        IF m \in Committed THEN Life(m.ch) = "DORMANT"
        ELSE Life(m.ch) = "MASTERED" /\ m.ep = Episode(m.ch)

Sound(t) ==
    /\ Shaped(t)
    /\ Fits(t)
    /\ Grouped(t) => GroupFits(t)

HasLast(S) == \E i \in S : \A j \in S : j <= i

\* What the journal says.
JournalInv ==
    /\ JournalReadable
    /\ Chained
    /\ PendingIsUnambiguous
    /\ ~MixedTerminals
    /\ \A t \in Prepared : Shaped(t)
    /\ \A t \in Committed : Grouped(t) => Group(t) \subseteq Prepared
    /\ \A t \in Pending : Sound(t)
    /\ \A c \in Channels : Commits(c) # {} => HasLast(Commits(c))

Before(s, r) == ~Precedes(r, s)

Planned(phase) == UNION {s.ts : s \in {r \in todo : r.do = phase}}

\* One step of a phase for a transition; aborting excludes everything else.
PlanShape ==
    /\ \A s \in todo : s.do \in Phases => \E t \in s.ts : s.ts = {t}
    /\ \A s, r \in todo : s.do \in Phases /\ s.do = r.do /\ s.ts = r.ts => s = r
    /\ Planned("ABORT") = {} \/ \A s \in todo : s.do = "ABORT"

\* What the run will append against what is pending.
PlanCovers ==
    /\ Planned("PREPARE") \intersect Prepared = {}
    /\ Planned("PREPARE") \subseteq Planned("COMMIT")
    /\ Planned("COMMIT") \subseteq Pending \union Planned("PREPARE")
    /\ Planned("ABORT") \subseteq Pending
    /\ Pending \subseteq Planned("COMMIT") \union Planned("ABORT")

\* What it will commit.
PlanFits ==
    /\ \A t \in Planned("COMMIT") : Sound(t)
    /\ \A t, u \in Planned("COMMIT") :
          /\ t.ch = u.ch => t = u
          /\ Grouped(t) => Grouped(u) /\ t.detail = u.detail
    /\ \A t \in Planned("COMMIT") :
          Grouped(t) => /\ Group(t) \subseteq Prepared \union Planned("PREPARE")
                        /\ Group(t) \intersect Aborted = {}
    /\ \A t \in Planned("ABORT") : Grouped(t) => Group(t) \intersect Committed = {}

\* In which order.
PlanOrder ==
    \A r, s \in todo : r.do = "PREPARE" /\ s.do = "COMMIT" =>
        \A p \in r.ts, t \in s.ts :
            IF Grouped(t) THEN Before(r, s)
            ELSE IF p = t THEN r.round = s.round /\ Before(r, s)
            ELSE r.round # s.round /\ (t \in Prepared => s.round < r.round)

RunInv ==
    /\ todo \subseteq StepType
    /\ pc # "apply" => todo = {}
    /\ pc = "observe" => \A t \in Pending :
          Grouped(t) => Group(t) \intersect (Committed \union Aborted) = {}
    /\ pc = "apply" => PlanShape /\ PlanCovers /\ PlanFits /\ PlanOrder

All(s) == \A c \in Channels : note[c] = s

\* A channel's note field follows the journal up to a pending transition; a
\* group is written as a whole, and not at all once a member is aborted.
NoteFits ==
    /\ late = {}
    /\ \A c \in Channels : note[c] # Life(c) =>
          \E t \in Pending : t.ch = c /\ t.from = Life(c) /\ t.to = note[c]
    /\ \A t \in Pending \union Planned("COMMIT") :
          Grouped(t) => All("MASTERED") \/ All("DORMANT")
    /\ \A t \in Pending : Grouped(t) /\ Group(t) \intersect Aborted # {} => All("MASTERED")

\* Updates write what was prepared and will be committed.
UpdatesFit ==
    \A s \in todo : s.do = "update" => \A t \in s.ts :
        /\ Grouped(t) => s.ts = Group(t)
        /\ \E r \in todo : r.do = "COMMIT" /\ r.ts = {t} /\ Before(s, r)
        /\ \A r \in todo : r.do = "PREPARE" /\ t \in r.ts => Before(r, s)

\* What the note shows when a transition ends.
EndsFit ==
    /\ \A s \in todo : s.do = "COMMIT" => \A t \in s.ts :
          \/ note[t.ch] = t.to
          \/ \E r \in todo : r.do = "update" /\ t \in r.ts
    /\ \A t \in Planned("ABORT") :
          /\ note[t.ch] = Life(t.ch)
          /\ Grouped(t) => All("MASTERED")

NoteInv ==
    /\ UpdatesFit
    /\ HumanEdits \/ LateUpdates \/ (NoteFits /\ EndsFit)

IInv ==
    /\ TypeOK
    /\ journal \in Seq(Record)
    /\ JournalInv
    /\ RunInv
    /\ NoteInv

-----------------------------------------------------------------------------
(* Channels, groups and steps *)

\* Places are the positions of CHANNELS order, one for each channel.
LEMMA Places ==
    /\ DOMAIN Order \subseteq Nat
    /\ \A c \in Channels : Place(c) \in DOMAIN Order /\ Order[Place(c)] = c
    /\ \A i \in DOMAIN Order : Order[i] \in Channels
  BY ReconcileAssumption DEF Place, Channels

\* A transition relabelled for another channel and episode.
LEMMA Relabelled ==
    ASSUME NEW t \in Transition, NEW c \in Channels, NEW e \in Nat
    PROVE  [t EXCEPT !.ch = c, !.ep = e]
             = [ch |-> c, from |-> t.from, to |-> t.to, ep |-> e, detail |-> t.detail]
  <1> DEFINE q == [t EXCEPT !.ch = c, !.ep = e]
             r == [ch |-> c, from |-> t.from, to |-> t.to, ep |-> e, detail |-> t.detail]
  <1>1. /\ q \in Transition
        /\ q.ch = c /\ q.from = t.from /\ q.to = t.to /\ q.ep = e /\ q.detail = t.detail
    BY DEF Transition
  <1>2. /\ r \in Transition
        /\ r.ch = c /\ r.from = t.from /\ r.to = t.to /\ r.ep = e /\ r.detail = t.detail
    BY DEF Transition
  <1> HIDE DEF q, r
  <1>3. q = r
    BY <1>1, <1>2 DEF Transition
  <1> QED  BY <1>3 DEF q, r

\* The members of a group differ in their channel alone, and there is one for
\* every channel.
LEMMA GroupMembers ==
    ASSUME NEW t \in Transition, Shaped(t), Grouped(t)
    PROVE  /\ \A m \in Group(t) : /\ m \in Transition /\ Shaped(m) /\ Grouped(m)
                                  /\ m.detail = t.detail /\ m.from = "MASTERED"
                                  /\ Group(m) = Group(t)
           /\ \A c \in Channels : \E m \in Group(t) : m.ch = c
           /\ \A m, n \in Group(t) : m.ch = n.ch => m = n
  <1>1. /\ t.from = "MASTERED" /\ t.to = "DORMANT"
        /\ t.detail \in [DOMAIN Order -> Nat]
        /\ t.detail \in Seq(Nat)
    BY DEF Shaped, Grouped, Promise!Edges, Transition
  <1> DEFINE M(i) == [t EXCEPT !.ch = Order[i], !.ep = t.detail[i]]
  <1>2. ASSUME NEW i \in DOMAIN Order
        PROVE  /\ M(i) \in Transition
               /\ M(i).ch = Order[i] /\ M(i).ep = t.detail[i] /\ M(i).from = "MASTERED"
               /\ M(i).to = "DORMANT" /\ M(i).detail = t.detail
    BY <1>1, Places DEF Transition, States
  <1>3. Group(t) = {M(i) : i \in DOMAIN Order}
    BY DEF Group
  <1>4. ASSUME NEW i \in DOMAIN Order
        PROVE  Group(M(i)) = Group(t) /\ M(i) \in Group(t)
    <2>1. ASSUME NEW j \in DOMAIN Order
          PROVE  [M(i) EXCEPT !.ch = Order[j], !.ep = M(i).detail[j]] = M(j)
      BY <1>2, <1>1 DEF Transition
    <2> QED  BY <2>1, <1>3 DEF Group
  <1>5. ASSUME NEW i \in DOMAIN Order
        PROVE  /\ M(i) \in Transition /\ Shaped(M(i)) /\ Grouped(M(i))
               /\ M(i).detail = t.detail /\ M(i).from = "MASTERED"
               /\ Group(M(i)) = Group(t)
    <2> HIDE DEF M
    <2> QED  BY <1>1, <1>2, <1>4 DEF Shaped, Grouped, Promise!Edges
  <1>6. \A c \in Channels : \E m \in Group(t) : m.ch = c
    <2> TAKE c \in Channels
    <2>1. M(Place(c)) \in Group(t) /\ M(Place(c)).ch = c
      BY <1>2, <1>3, Places
    <2> QED  BY <2>1
  <1>7. ASSUME NEW i \in DOMAIN Order, NEW j \in DOMAIN Order, M(i).ch = M(j).ch
        PROVE  M(i) = M(j)
    <2>1. Order[i] = Order[j]
      BY <1>2, <1>7
    <2>2. i = j
      BY <2>1, ReconcileAssumption
    <2> QED  BY <2>2
  <1> HIDE DEF M
  <1> QED  BY <1>3, <1>5, <1>6, <1>7

\* Two members of one group are in one group, whatever their channels.
LEMMA SameGroup ==
    ASSUME NEW t \in Transition, Shaped(t), Grouped(t),
           NEW u \in Transition, Shaped(u), Grouped(u), t.detail = u.detail
    PROVE  Group(t) = Group(u) /\ t \in Group(u) /\ u \in Group(t)
  <1>1. /\ t.from = "MASTERED" /\ t.to = "DORMANT"
        /\ u.from = "MASTERED" /\ u.to = "DORMANT"
    BY DEF Shaped, Grouped, Promise!Edges
  <1>2. ASSUME NEW i \in DOMAIN Order
        PROVE  [t EXCEPT !.ch = Order[i], !.ep = t.detail[i]]
                 = [u EXCEPT !.ch = Order[i], !.ep = u.detail[i]]
    BY <1>1 DEF Transition
  <1>3. Group(t) = Group(u)
    BY <1>2 DEF Group
  <1> QED  BY <1>3 DEF Shaped

-----------------------------------------------------------------------------
(* What an append does to the journal *)

\* Nothing that is read from the journal changes without it.
LEMMA SameJournal ==
    ASSUME UNCHANGED <<base, journal>>
    PROVE  /\ Prepared' = Prepared /\ Committed' = Committed /\ Aborted' = Aborted
           /\ Pending' = Pending
           /\ \A c : Commits(c)' = Commits(c) /\ Episode(c)' = Episode(c) /\ Life(c)' = Life(c)
           /\ JournalInv => JournalInv'
           /\ \A t : Sound(t) => Sound(t)'
  <1>1. \A phase : Records(phase)' = Records(phase) /\ PhaseOf(phase)' = PhaseOf(phase)
    BY DEF Records, PhaseOf
  <1>2. /\ Prepared' = Prepared /\ Committed' = Committed /\ Aborted' = Aborted
        /\ Pending' = Pending
    BY <1>1 DEF Prepared, Committed, Aborted, Pending
  <1>3. \A c : Commits(c)' = Commits(c)
    BY <1>1 DEF Commits
  <1>4. \A c : Episode(c)' = Episode(c) /\ LastCommit(c)' = LastCommit(c)
    BY <1>3 DEF Episode, LastCommit
  <1>5. \A c : Life(c)' = Life(c)
    BY <1>3, <1>4 DEF Life
  <1>6. \A t : Sound(t) => Sound(t)'
    BY <1>2, <1>4, <1>5 DEF Sound, Fits, GroupFits
  <1>7. JournalInv => JournalInv'
    <2> SUFFICES ASSUME JournalInv PROVE JournalInv'
      OBVIOUS
    <2>0. JournalReadable'
      BY DEF JournalInv, JournalReadable
    <2>1. Chained'
      <3>1. Chained
        BY DEF JournalInv
      <3> QED  BY <3>1, <1>1 DEF Chained, Commits
    <2>2. PendingIsUnambiguous' /\ ~MixedTerminals'
      BY <1>2 DEF JournalInv, PendingIsUnambiguous, MixedTerminals
    <2> QED  BY <1>2, <1>3, <1>6, <2>0, <2>1, <2>2 DEF JournalInv
  <1> QED  BY <1>2, <1>3, <1>4, <1>5, <1>6, <1>7

\* A record joins the records of its phase.
LEMMA AppendPhase ==
    ASSUME journal \in Seq(Record), NEW x \in Record, journal' = Append(journal, x)
    PROVE  /\ journal' \in Seq(Record)
           /\ Prepared' = IF x.phase = "PREPARE" THEN Prepared \union {x.t} ELSE Prepared
           /\ Committed' = IF x.phase = "COMMIT" THEN Committed \union {x.t} ELSE Committed
           /\ Aborted' = IF x.phase = "ABORT" THEN Aborted \union {x.t} ELSE Aborted
  <1> DEFINE n == Len(journal) + 1
  <1>1. /\ DOMAIN journal' = DOMAIN journal \union {n}
        /\ n \notin DOMAIN journal
        /\ \A i \in DOMAIN journal : journal'[i] = journal[i]
        /\ journal'[n] = x
        /\ journal' \in Seq(Record)
    OBVIOUS
  <1> HIDE DEF n
  <1>2. ASSUME NEW phase
        PROVE  PhaseOf(phase)' = IF x.phase = phase THEN PhaseOf(phase) \union {x.t}
                                 ELSE PhaseOf(phase)
    <2>1. Records(phase)' = IF x.phase = phase THEN Records(phase) \union {n}
                            ELSE Records(phase)
      BY <1>1 DEF Records
    <2>2. Records(phase) \subseteq DOMAIN journal
      BY DEF Records
    <2>3. PhaseOf(phase)' = {journal'[i].t : i \in Records(phase)'}
      BY DEF PhaseOf
    <2> QED  BY <2>1, <2>2, <2>3, <1>1 DEF PhaseOf
  <1> QED  BY <1>1, <1>2 DEF Prepared, Committed, Aborted

\* A COMMIT begins its channel's next episode, in the state it leads to.
LEMMA AppendCommit ==
    ASSUME journal \in Seq(Record), NEW x \in Record, journal' = Append(journal, x),
           base' = base, \A c \in Channels : Commits(c) # {} => HasLast(Commits(c)),
           NEW c \in Channels
    PROVE  LET n == Len(journal) + 1 IN
           /\ Commits(c) \subseteq 1 .. Len(journal)
           /\ Episode(c) \in Nat
           /\ HasLast(Commits(c)')
                \/ Commits(c)' = {}
           /\ IF x.phase = "COMMIT" /\ x.t.ch = c
              THEN /\ Commits(c)' = Commits(c) \union {n}
                   /\ Episode(c)' = Episode(c) + 1 /\ Life(c)' = x.t.to
              ELSE /\ Commits(c)' = Commits(c)
                   /\ Episode(c)' = Episode(c) /\ Life(c)' = Life(c)
  <1> DEFINE n == Len(journal) + 1
  <1>1. /\ DOMAIN journal' = DOMAIN journal \union {n}
        /\ DOMAIN journal = 1 .. Len(journal) /\ Len(journal) \in Nat
        /\ \A i \in DOMAIN journal : journal'[i] = journal[i]
        /\ journal'[n] = x
    OBVIOUS
  <1>n. n \in Nat /\ \A i \in DOMAIN journal : i \in Nat /\ i < n
    OBVIOUS
  <1> HIDE DEF n
  <1>2. Commits(c) \subseteq DOMAIN journal
    BY DEF Commits, Records
  <1>3. Commits(c)' = IF x.phase = "COMMIT" /\ x.t.ch = c THEN Commits(c) \union {n}
                      ELSE Commits(c)
    BY <1>1, <1>n DEF Commits, Records
  <1>4. IsFiniteSet(Commits(c))
    <2>1. IsFiniteSet(1 .. Len(journal))
      BY <1>1, FS_Interval
    <2> QED  BY <1>1, <1>2, <2>1, FS_Subset
  <1>5. Episode(c) \in Nat
    BY <1>4, FS_CardinalityType DEF Episode
  <1>6. n \notin Commits(c)
    BY <1>2, <1>n
  <1>7. CASE x.phase = "COMMIT" /\ x.t.ch = c
    <2>1. Commits(c)' = Commits(c) \union {n}
      BY <1>3, <1>7
    <2>2. Episode(c)' = Cardinality(Commits(c) \union {n})
      BY <2>1 DEF Episode
    <2>3. Episode(c)' = Episode(c) + 1
      BY <2>2, <1>4, <1>6, FS_AddElement DEF Episode
    <2>4. \A j \in Commits(c)' : j <= n
      BY <2>1, <1>2, <1>n
    <2>5. \A i \in Commits(c)' : (\A j \in Commits(c)' : j <= i) => i = n
      <3>1. n \in Commits(c)' /\ \A i \in Commits(c)' : i \in Nat
        BY <2>1, <1>2, <1>n
      <3> QED  BY <3>1, <2>4, <1>n
    <2>6. LastCommit(c)' = n
      BY <2>1, <2>4, <2>5 DEF LastCommit
    <2>7. Life(c)' = x.t.to
      BY <2>1, <2>6, <1>1 DEF Life
    <2>8. HasLast(Commits(c)')
      BY <2>1, <2>4 DEF HasLast
    <2> QED  BY <2>1, <2>3, <2>7, <2>8, <1>1, <1>2, <1>5, <1>7 DEF n
  <1>8. CASE ~(x.phase = "COMMIT" /\ x.t.ch = c)
    <2>1. Commits(c)' = Commits(c)
      BY <1>3, <1>8
    <2>2. Episode(c)' = Episode(c)
      BY <2>1 DEF Episode
    <2>3. LastCommit(c)' = LastCommit(c)
      BY <2>1 DEF LastCommit
    <2>4. Commits(c) # {} => LastCommit(c) \in Commits(c)
      BY DEF LastCommit, HasLast
    <2>5. Life(c)' = Life(c)
      BY <2>1, <2>3, <2>4, <1>1, <1>2 DEF Life
    <2>6. HasLast(Commits(c)') \/ Commits(c)' = {}
      BY <2>1
    <2> QED  BY <2>1, <2>2, <2>5, <2>6, <1>1, <1>2, <1>5, <1>8 DEF n
  <1> QED  BY <1>7, <1>8

\* Every record belongs to a transition that was prepared.
LEMMA EndedWasPrepared ==
    ASSUME journal \in Seq(Record), JournalReadable
    PROVE  /\ \A i \in DOMAIN journal : journal[i].t \in Prepared
           /\ Committed \subseteq Prepared /\ Aborted \subseteq Prepared
           /\ Prepared \subseteq Transition
  <1>1. ASSUME NEW i \in DOMAIN journal
        PROVE  journal[i].t \in Prepared /\ journal[i].t \in Transition
    <2>1. /\ journal[i] \in Record /\ DOMAIN journal = 1 .. Len(journal)
          /\ 1 .. i - 1 \subseteq DOMAIN journal
      OBVIOUS
    <2>2. CASE journal[i].phase = "PREPARE"
      BY <2>1, <2>2 DEF Prepared, PhaseOf, Records, Record
    <2>3. CASE journal[i].phase # "PREPARE"
      <3>1. PICK k \in 1 .. i - 1 : journal[k].t = journal[i].t /\ journal[k].phase = "PREPARE"
        BY <2>3 DEF JournalReadable
      <3>2. journal[k].t \in Prepared
        BY <3>1, <2>1 DEF Prepared, PhaseOf, Records
      <3> QED  BY <3>1, <3>2, <2>1 DEF Record
    <2> QED  BY <2>2, <2>3
  <1> QED  BY <1>1 DEF Prepared, Committed, Aborted, PhaseOf, Records

\* The journal stays readable when a new transition is prepared or a pending
\* one ends.
LEMMA StaysReadable ==
    ASSUME journal \in Seq(Record), JournalReadable,
           NEW x \in Record, journal' = Append(journal, x),
           IF x.phase = "PREPARE" THEN x.t \notin Prepared ELSE x.t \in Pending
    PROVE  JournalReadable'
  <1> DEFINE n == Len(journal) + 1
  <1>1. /\ DOMAIN journal' = DOMAIN journal \union {n}
        /\ DOMAIN journal = 1 .. n - 1 /\ n \in Nat
        /\ \A i \in DOMAIN journal : journal'[i] = journal[i]
        /\ journal'[n] = x
    OBVIOUS
  <1> HIDE DEF n
  <1>2. SUFFICES ASSUME NEW j \in DOMAIN journal'
                 PROVE  LET earlier == {i \in 1 .. j - 1 : journal'[i].t = journal'[j].t} IN
                        IF journal'[j].phase = "PREPARE" THEN earlier = {}
                        ELSE /\ \E i \in earlier : journal'[i].phase = "PREPARE"
                             /\ \A i \in earlier : journal'[i].phase = "PREPARE"
    BY DEF JournalReadable
  <1>3. \A i \in 1 .. j - 1 : journal'[i] = journal[i]
    BY <1>1
  <1>4. CASE j \in DOMAIN journal
    <2>1. journal'[j] = journal[j]
      BY <1>1, <1>4
    <2>2. {i \in 1 .. j - 1 : journal'[i].t = journal'[j].t}
            = {i \in 1 .. j - 1 : journal[i].t = journal[j].t}
      BY <2>1, <1>3
    <2> QED  BY <2>1, <2>2, <1>3, <1>4 DEF JournalReadable
  <1>5. CASE j = n
    <2>1. journal'[j] = x /\ 1 .. j - 1 = DOMAIN journal
      BY <1>1, <1>5
    <2>2. CASE x.phase = "PREPARE"
      <3>1. \A i \in DOMAIN journal : journal[i].t # x.t
        BY <2>2, EndedWasPrepared
      <3> QED  BY <3>1, <2>1, <2>2, <1>3
    <2>3. CASE x.phase # "PREPARE"
      <3>1. \A i \in DOMAIN journal : journal[i].t = x.t => journal[i].phase = "PREPARE"
        <4>1. x.t \notin Committed \union Aborted
          BY <2>3 DEF Pending
        <4>2. \A i \in DOMAIN journal : journal[i] \in Record /\ journal[i].phase \in Phases
          <5>1. \A i \in DOMAIN journal : journal[i] \in Record
            OBVIOUS
          <5> QED  BY <5>1 DEF Record
        <4> QED  BY <4>1, <4>2 DEF Committed, Aborted, PhaseOf, Records, Phases
      <3>2. \E i \in DOMAIN journal : journal[i].t = x.t /\ journal[i].phase = "PREPARE"
        BY <2>3 DEF Pending, Prepared, PhaseOf, Records
      <3> QED  BY <3>1, <3>2, <2>1, <2>3, <1>3
    <2> QED  BY <2>2, <2>3
  <1> QED  BY <1>1, <1>4, <1>5

\* The COMMITs keep chaining when each leaves its channel's state and episode.
LEMMA StaysChained ==
    ASSUME journal \in Seq(Record), JournalInv,
           NEW x \in Record, journal' = Append(journal, x), base' = base,
           x.phase = "COMMIT" => Fits(x.t)
    PROVE  Chained'
  <1> DEFINE n == Len(journal) + 1
  <1>1. /\ \A i \in DOMAIN journal : journal'[i] = journal[i] /\ i \in Nat /\ i < n
        /\ journal'[n] = x /\ n \in Nat
        /\ DOMAIN journal = 1 .. Len(journal)
    OBVIOUS
  <1>2. /\ Chained /\ \A c \in Channels : Commits(c) # {} => HasLast(Commits(c))
    BY DEF JournalInv
  <1>3. SUFFICES ASSUME NEW c \in Channels, NEW i \in Commits(c)'
                 PROVE  LET before == {j \in Commits(c)' : j < i} IN
                        /\ journal'[i].t.ep = Cardinality(before)
                        /\ IF before = {} THEN journal'[i].t.from = base'[c]
                           ELSE \E j \in before : /\ \A k \in before : k <= j
                                                  /\ journal'[i].t.from = journal'[j].t.to
    BY DEF Chained
  <1>4. /\ Commits(c) \subseteq DOMAIN journal
        /\ IF x.phase = "COMMIT" /\ x.t.ch = c THEN Commits(c)' = Commits(c) \union {n}
           ELSE Commits(c)' = Commits(c)
    BY <1>1, <1>2, AppendCommit
  <1> HIDE DEF n
  <1>5. CASE i \in Commits(c)
    <2>1. {j \in Commits(c)' : j < i} = {j \in Commits(c) : j < i}
      BY <1>1, <1>4, <1>5
    <2>2. \A j \in Commits(c) : journal'[j] = journal[j]
      BY <1>1, <1>4
    <2>3. LET before == {j \in Commits(c) : j < i} IN
          /\ journal[i].t.ep = Cardinality(before)
          /\ IF before = {} THEN journal[i].t.from = base[c]
             ELSE \E j \in before : /\ \A k \in before : k <= j
                                    /\ journal[i].t.from = journal[j].t.to
      BY <1>2, <1>5 DEF Chained
    <2> QED  BY <2>1, <2>2, <2>3, <1>5
  <1>6. CASE i \notin Commits(c)
    <2>1. i = n /\ x.phase = "COMMIT" /\ x.t.ch = c
      BY <1>4, <1>6
    <2>2. {j \in Commits(c)' : j < i} = Commits(c)
      BY <2>1, <1>1, <1>4
    <2>3. x.t.ep = Cardinality(Commits(c)) /\ x.t.from = Life(c)
      BY <2>1 DEF Fits, Episode
    <2>4. CASE Commits(c) = {}
      BY <2>1, <2>2, <2>3, <2>4, <1>1 DEF Life
    <2>5. CASE Commits(c) # {}
      <3>1. LastCommit(c) \in Commits(c) /\ \A k \in Commits(c) : k <= LastCommit(c)
        BY <2>5, <1>2 DEF LastCommit, HasLast
      <3>2. journal'[LastCommit(c)] = journal[LastCommit(c)]
        BY <3>1, <1>1, <1>4
      <3> QED  BY <2>1, <2>2, <2>3, <2>5, <3>1, <3>2, <1>1 DEF Life
    <2> QED  BY <2>4, <2>5
  <1> QED  BY <1>5, <1>6

\* A PREPARE or an ABORT leaves sound what was sound ...
LEMMA SoundLasts ==
    ASSUME journal \in Seq(Record), JournalInv,
           NEW x \in Record, journal' = Append(journal, x), base' = base, x.phase # "COMMIT",
           NEW u \in Transition, Sound(u)
    PROVE  Sound(u)'
  <1>1. \A c \in Channels : Episode(c)' = Episode(c) /\ Life(c)' = Life(c)
    BY AppendCommit DEF JournalInv
  <1>2. Committed' = Committed
    BY AppendPhase
  <1>3. u.ch \in Channels
    BY DEF Transition
  <1>4. Grouped(u) => \A m \in Group(u) : m.ch \in Channels
    BY GroupMembers DEF Transition, Sound
  <1> QED  BY <1>1, <1>2, <1>3, <1>4 DEF Sound, Fits, GroupFits

\* ... and a COMMIT what belongs to another channel and, if grouped, to its group.
LEMMA SoundLastsCommit ==
    ASSUME journal \in Seq(Record), JournalInv,
           NEW x \in Record, journal' = Append(journal, x), base' = base, x.phase = "COMMIT",
           NEW u \in Transition, Sound(u), u.ch # x.t.ch, Grouped(u) => x.t \in Group(u)
    PROVE  Sound(u)'
  <1>1. \A c \in Channels :
            IF c = x.t.ch THEN Life(c)' = x.t.to
            ELSE Episode(c)' = Episode(c) /\ Life(c)' = Life(c)
    BY AppendCommit DEF JournalInv
  <1>2. Committed' = Committed \union {x.t}
    BY AppendPhase
  <1>3. u.ch \in Channels
    BY DEF Transition
  <1>4. Shaped(u) /\ Fits(u)'
    BY <1>1, <1>3 DEF Sound, Fits
  <1>5. ASSUME Grouped(u), NEW m \in Group(u)
        PROVE  IF m \in Committed' THEN Life(m.ch)' = "DORMANT"
               ELSE Life(m.ch)' = "MASTERED" /\ m.ep = Episode(m.ch)'
    <2>1. m.ch \in Channels /\ (m.ch = x.t.ch => m = x.t)
      BY <1>5, <1>4, GroupMembers DEF Transition
    <2>2. x.t.to = "DORMANT" /\ x.t.ch \in Channels
      BY <1>5, <1>4, GroupMembers, ZenonT(60) DEF Transition, Grouped
    <2>3. CASE m.ch = x.t.ch
      BY <1>1, <1>2, <2>1, <2>2, <2>3
    <2>4. CASE m.ch # x.t.ch
      <3>1. /\ m \in Committed' <=> m \in Committed
            /\ Episode(m.ch)' = Episode(m.ch) /\ Life(m.ch)' = Life(m.ch)
        BY <1>1, <1>2, <2>1, <2>4
      <3> QED  BY <3>1, <1>5 DEF Sound, GroupFits
    <2> QED  BY <2>3, <2>4
  <1> QED  BY <1>4, <1>5 DEF Sound, GroupFits

\* The journal takes the PREPARE of a transition that fits when all that is
\* pending is its group.
LEMMA PrepareKeepsJournal ==
    ASSUME journal \in Seq(Record), JournalInv, base' = base,
           NEW t \in Transition, t \notin Prepared, Sound(t),
           \A u \in Pending : Grouped(u) /\ Grouped(t) /\ u.detail = t.detail,
           journal' = Append(journal, [phase |-> "PREPARE", t |-> t])
    PROVE  /\ journal' \in Seq(Record) /\ JournalInv'
           /\ Prepared' = Prepared \union {t} /\ Pending' = Pending \union {t}
           /\ Committed' = Committed /\ Aborted' = Aborted
           /\ \A u \in Transition : Sound(u) => Sound(u)'
           /\ \A c \in Channels : Life(c)' = Life(c)
  <1> DEFINE x == [phase |-> "PREPARE", t |-> t]
  <1>1. x \in Record /\ x.phase = "PREPARE" /\ x.t = t
    BY DEF Record, Phases
  <1> HIDE DEF x
  <1>2. journal' = Append(journal, x)
    BY DEF x
  <1>3. /\ journal' \in Seq(Record)
        /\ Prepared' = Prepared \union {t} /\ Committed' = Committed /\ Aborted' = Aborted
    BY <1>1, <1>2, AppendPhase
  <1>4. /\ JournalReadable /\ PendingIsUnambiguous /\ ~MixedTerminals
        /\ \A u \in Prepared : Shaped(u)
        /\ \A u \in Committed : Grouped(u) => Group(u) \subseteq Prepared
        /\ \A u \in Pending : Sound(u)
        /\ \A c \in Channels : Commits(c) # {} => HasLast(Commits(c))
    BY DEF JournalInv
  <1>5. Committed \subseteq Prepared /\ Aborted \subseteq Prepared /\ Prepared \subseteq Transition
    BY <1>4, EndedWasPrepared
  <1>6. Pending' = Pending \union {t}
    BY <1>3, <1>5 DEF Pending
  <1>7. \A u \in Transition : Sound(u) => Sound(u)'
    BY <1>1, <1>2, SoundLasts
  <1>8. \A u \in Prepared' : Shaped(u)
    BY <1>3, <1>4 DEF Sound
  <1>9. \A u \in Pending' : Sound(u)'
    BY <1>4, <1>5, <1>6, <1>7 DEF Pending
  <1>10. PendingIsUnambiguous'
    BY <1>4, <1>6 DEF PendingIsUnambiguous
  <1>11. ~MixedTerminals'
    BY <1>3, <1>4 DEF MixedTerminals
  <1>12. JournalReadable'
    BY <1>1, <1>2, <1>4, StaysReadable
  <1>13. Chained'
    BY <1>1, <1>2, StaysChained
  <1>14. \A c \in Channels : /\ Life(c)' = Life(c)
                             /\ (Commits(c) # {} => HasLast(Commits(c)))'
    BY <1>1, <1>2, <1>4, AppendCommit
  <1>15. \A u \in Committed' : Grouped(u) => Group(u) \subseteq Prepared'
    BY <1>3, <1>4
  <1> QED  BY <1>3, <1>6, <1>7, <1>8, <1>9, <1>10, <1>11, <1>12, <1>13, <1>14, <1>15
           DEF JournalInv

\* It takes the COMMIT of a pending transition when its whole group is
\* prepared and none of it aborted.
LEMMA CommitKeepsJournal ==
    ASSUME journal \in Seq(Record), JournalInv, base' = base, NEW t \in Pending,
           Grouped(t) => Group(t) \subseteq Prepared /\ Group(t) \intersect Aborted = {},
           journal' = Append(journal, [phase |-> "COMMIT", t |-> t])
    PROVE  /\ journal' \in Seq(Record) /\ JournalInv'
           /\ Prepared' = Prepared /\ Pending' = Pending \ {t}
           /\ Committed' = Committed \union {t} /\ Aborted' = Aborted
           /\ \A u \in Transition :
                 Sound(u) /\ u.ch # t.ch /\ (Grouped(u) => t \in Group(u)) => Sound(u)'
           /\ \A c \in Channels : Life(c)' = IF c = t.ch THEN t.to ELSE Life(c)
  <1> DEFINE x == [phase |-> "COMMIT", t |-> t]
  <1>4. /\ JournalReadable /\ PendingIsUnambiguous /\ ~MixedTerminals
        /\ \A u \in Prepared : Shaped(u)
        /\ \A u \in Committed : Grouped(u) => Group(u) \subseteq Prepared
        /\ \A u \in Pending : Sound(u)
        /\ \A c \in Channels : Commits(c) # {} => HasLast(Commits(c))
    BY DEF JournalInv
  <1>5. /\ Committed \subseteq Prepared /\ Aborted \subseteq Prepared
        /\ Prepared \subseteq Transition /\ t \in Transition
    BY <1>4, EndedWasPrepared DEF Pending
  <1>1. x \in Record /\ x.phase = "COMMIT" /\ x.t = t
    BY <1>5 DEF Record, Phases
  <1> HIDE DEF x
  <1>2. journal' = Append(journal, x)
    BY DEF x
  <1>3. /\ journal' \in Seq(Record)
        /\ Prepared' = Prepared /\ Committed' = Committed \union {t} /\ Aborted' = Aborted
    BY <1>1, <1>2, AppendPhase
  <1>6. Pending' = Pending \ {t}
    BY <1>3 DEF Pending
  <1>7. \A u \in Transition :
            Sound(u) /\ u.ch # t.ch /\ (Grouped(u) => t \in Group(u)) => Sound(u)'
    BY <1>1, <1>2, SoundLastsCommit
  <1>8. \A u \in Prepared' : Shaped(u)
    BY <1>3, <1>4
  <1>9. ASSUME NEW u \in Pending' PROVE Sound(u)'
    <2>1. u \in Pending /\ u # t /\ u \in Transition
      BY <1>5, <1>6 DEF Pending
    <2>2. Grouped(u) /\ Grouped(t) /\ u.detail = t.detail
      BY <2>1, <1>4 DEF PendingIsUnambiguous
    <2>3. Shaped(u) /\ Shaped(t)
      BY <2>1, <1>4 DEF Pending
    <2>4. t \in Group(u) /\ u \in Group(u) /\ t.ch # u.ch
      BY <2>1, <2>2, <2>3, <1>5, SameGroup, GroupMembers
    <2> QED  BY <2>1, <2>4, <1>4, <1>7
  <1>10. PendingIsUnambiguous'
    BY <1>4, <1>6 DEF PendingIsUnambiguous
  <1>11. ~MixedTerminals'
    BY <1>3, <1>4 DEF MixedTerminals
  <1>12. JournalReadable'
    BY <1>1, <1>2, <1>4, StaysReadable
  <1>13. Chained'
    <2>1. Fits(t)
      BY <1>4 DEF Sound
    <2> QED  BY <2>1, <1>1, <1>2, StaysChained
  <1>14. \A c \in Channels : /\ Life(c)' = IF c = t.ch THEN t.to ELSE Life(c)
                             /\ (Commits(c) # {} => HasLast(Commits(c)))'
    BY <1>1, <1>2, <1>4, AppendCommit
  <1>15. \A u \in Committed' : Grouped(u) => Group(u) \subseteq Prepared'
    BY <1>3, <1>4
  <1> QED  BY <1>3, <1>6, <1>7, <1>8, <1>9, <1>10, <1>11, <1>12, <1>13, <1>14, <1>15
           DEF JournalInv

\* And the ABORT of a pending transition when none of its group is committed.
LEMMA AbortKeepsJournal ==
    ASSUME journal \in Seq(Record), JournalInv, base' = base, NEW t \in Pending,
           Grouped(t) => Group(t) \intersect Committed = {},
           journal' = Append(journal, [phase |-> "ABORT", t |-> t])
    PROVE  /\ journal' \in Seq(Record) /\ JournalInv'
           /\ Prepared' = Prepared /\ Pending' = Pending \ {t}
           /\ Committed' = Committed /\ Aborted' = Aborted \union {t}
           /\ \A c \in Channels : Life(c)' = Life(c)
  <1> DEFINE x == [phase |-> "ABORT", t |-> t]
  <1>4. /\ JournalReadable /\ PendingIsUnambiguous /\ ~MixedTerminals
        /\ \A u \in Prepared : Shaped(u)
        /\ \A u \in Committed : Grouped(u) => Group(u) \subseteq Prepared
        /\ \A u \in Pending : Sound(u)
        /\ \A c \in Channels : Commits(c) # {} => HasLast(Commits(c))
    BY DEF JournalInv
  <1>5. /\ Committed \subseteq Prepared /\ Aborted \subseteq Prepared
        /\ Prepared \subseteq Transition /\ t \in Transition /\ Shaped(t)
    BY <1>4, EndedWasPrepared DEF Pending
  <1>1. x \in Record /\ x.phase = "ABORT" /\ x.t = t
    BY <1>5 DEF Record, Phases
  <1> HIDE DEF x
  <1>2. journal' = Append(journal, x)
    BY DEF x
  <1>3. /\ journal' \in Seq(Record)
        /\ Prepared' = Prepared /\ Committed' = Committed /\ Aborted' = Aborted \union {t}
    BY <1>1, <1>2, AppendPhase
  <1>6. Pending' = Pending \ {t}
    BY <1>3 DEF Pending
  <1>7. \A u \in Transition : Sound(u) => Sound(u)'
    BY <1>1, <1>2, SoundLasts
  <1>9. \A u \in Pending' : Sound(u)'
    BY <1>4, <1>5, <1>6, <1>7 DEF Pending
  <1>10. PendingIsUnambiguous'
    BY <1>4, <1>6 DEF PendingIsUnambiguous
  <1>11. ASSUME NEW u \in Committed', Grouped(u), Group(u) \intersect Aborted' # {}
         PROVE  FALSE
    <2>1. t \in Group(u)
      BY <1>3, <1>4, <1>11 DEF MixedTerminals
    <2>2. u \in Transition /\ Shaped(u) /\ u \in Group(u)
      BY <1>3, <1>4, <1>5, <1>11 DEF Shaped
    <2>3. Grouped(t) /\ Group(t) = Group(u)
      BY <2>1, <2>2, <1>11, GroupMembers
    <2> QED  BY <2>2, <2>3, <1>3
  <1>12. JournalReadable'
    BY <1>1, <1>2, <1>4, StaysReadable
  <1>13. Chained'
    BY <1>1, <1>2, StaysChained
  <1>14. \A c \in Channels : /\ Life(c)' = Life(c)
                             /\ (Commits(c) # {} => HasLast(Commits(c)))'
    BY <1>1, <1>2, <1>4, AppendCommit
  <1>15. \A u \in Committed' : Grouped(u) => Group(u) \subseteq Prepared'
    BY <1>3, <1>4
  <1>16. \A u \in Prepared' : Shaped(u)
    BY <1>3, <1>4
  <1>17. ~MixedTerminals'
    BY <1>11 DEF MixedTerminals
  <1> QED  BY <1>3, <1>6, <1>9, <1>10, <1>12, <1>13, <1>14, <1>15, <1>16, <1>17
           DEF JournalInv

-----------------------------------------------------------------------------
(* The work a run sets out to do *)

Quiet == ~HumanEdits /\ ~LateUpdates

\* One transition at a time, each prepared, written, verified and committed.
LEMMA StartUngrouped ==
    ASSUME NEW ts \in SUBSET Transition, UNCHANGED <<base, journal, note, late>>,
           \A t \in ts : ~Grouped(t) /\ Sound(t), \A t, u \in ts : t.ch = u.ch => t = u,
           ts \intersect Prepared = {}, Pending = {},
           pc' = "apply", todo' = Materialize(ts),
           Quiet => late = {} /\ \A c \in Channels : note[c] = Life(c)
    PROVE  RunInv' /\ NoteInv' /\ (ts # {} => todo' # {})
  <1> DEFINE P(t) == Step(Place(t.ch), 1, "PREPARE", {t})
             U(t) == Step(Place(t.ch), 2, "update", {t})
             V(t) == Step(Place(t.ch), 3, "verify", {t})
             C(t) == Step(Place(t.ch), 4, "COMMIT", {t})
  <1>1. todo' = UNION {{P(t), U(t), V(t), C(t)} : t \in ts}
    <2> DEFINE ph == <<"PREPARE", "update", "verify", "COMMIT">>
               F(t) == Together(Place(t.ch), ph, {t})
    <2>1. /\ DOMAIN ph = {1, 2, 3, 4}
          /\ ph[1] = "PREPARE" /\ ph[2] = "update" /\ ph[3] = "verify" /\ ph[4] = "COMMIT"
      OBVIOUS
    <2>2. todo' = UNION {F(t) : t \in ts}
      BY DEF Materialize, OneByOne
    <2> HIDE DEF ph
    <2>3. \A t \in ts : F(t) = {P(t), U(t), V(t), C(t)}
      BY <2>1 DEF Together
    <2> HIDE DEF F, P, U, V, C
    <2> QED  BY <2>2, <2>3
  <1>2. ASSUME NEW t \in ts
        PROVE  /\ P(t) \in todo' /\ U(t) \in todo' /\ V(t) \in todo' /\ C(t) \in todo'
               /\ Place(t.ch) \in Nat /\ t \in Transition
    <2>1. Place(t.ch) \in Nat
      BY Places DEF Transition
    <2> HIDE DEF P, U, V, C
    <2> QED  BY <1>1, <2>1
  <1>3. \A t \in ts :
            /\ P(t).round = Place(t.ch) /\ P(t).turn = 1 /\ P(t).do = "PREPARE" /\ P(t).ts = {t}
            /\ U(t).round = Place(t.ch) /\ U(t).turn = 2 /\ U(t).do = "update" /\ U(t).ts = {t}
            /\ V(t).round = Place(t.ch) /\ V(t).turn = 3 /\ V(t).do = "verify" /\ V(t).ts = {t}
            /\ C(t).round = Place(t.ch) /\ C(t).turn = 4 /\ C(t).do = "COMMIT" /\ C(t).ts = {t}
    BY DEF Step
  <1>4. \A t \in ts : /\ P(t) \in StepType /\ U(t) \in StepType
                      /\ V(t) \in StepType /\ C(t) \in StepType
    BY <1>2 DEF StepType, Phases, Calls, Step
  <1>5. ASSUME NEW s \in todo'
        PROVE  \E t \in ts :
                  /\ s.ts = {t} /\ s.round = Place(t.ch) /\ s \in StepType
                  /\ \/ s.do = "PREPARE" /\ s.turn = 1 /\ s = P(t)
                     \/ s.do = "update" /\ s.turn = 2
                     \/ s.do = "verify" /\ s.turn = 3
                     \/ s.do = "COMMIT" /\ s.turn = 4 /\ s = C(t)
    <2>1. PICK t \in ts : s \in {P(t), U(t), V(t), C(t)}
      BY <1>1
    <2> HIDE DEF P, U, V, C
    <2> QED  BY <2>1, <1>3, <1>4
  <1>6. \A t, u \in ts : Place(t.ch) = Place(u.ch) => t = u
    BY Places DEF Transition
  <1> HIDE DEF P, U, V, C
  <1>7. /\ Planned("PREPARE")' = ts /\ Planned("COMMIT")' = ts /\ Planned("ABORT")' = {}
    <2>1. \A phase, t : t \in Planned(phase)' <=> \E s \in todo' : s.do = phase /\ t \in s.ts
      BY DEF Planned
    <2>2. \A t \in ts : /\ P(t).do = "PREPARE" /\ t \in P(t).ts
                        /\ C(t).do = "COMMIT" /\ t \in C(t).ts
      BY <1>3
    <2>3. ts \subseteq Planned("PREPARE")' /\ ts \subseteq Planned("COMMIT")'
      BY <2>1, <2>2, <1>2
    <2>5. \A s \in todo' : s.ts \subseteq ts
      BY <1>5
    <2>6. Planned("PREPARE")' \subseteq ts /\ Planned("COMMIT")' \subseteq ts
      BY <2>1, <2>5
    <2>4. \A t : t \notin Planned("ABORT")'
      BY <2>1, <1>5
    <2> QED  BY <2>3, <2>4, <2>6
  <1>8. /\ Prepared' = Prepared /\ Committed' = Committed /\ Aborted' = Aborted
        /\ Pending' = {}
        /\ \A t \in ts : Sound(t)'
        /\ \A c : Life(c)' = Life(c)
    BY SameJournal
  <1>9. todo' \subseteq StepType
    BY <1>5
  <1>10. PlanShape'
    BY <1>5, <1>7 DEF PlanShape, Phases
  <1>11. PlanCovers'
    BY <1>7, <1>8 DEF PlanCovers
  <1>12. PlanFits'
    BY <1>7, <1>8 DEF PlanFits
  <1>13. PlanOrder'
    <2>1. SUFFICES ASSUME NEW r \in todo', NEW s \in todo', r.do = "PREPARE", s.do = "COMMIT",
                          NEW p \in r.ts, NEW t \in s.ts
                   PROVE  /\ ~Grouped(t)
                          /\ IF p = t THEN r.round = s.round /\ Before(r, s)
                             ELSE r.round # s.round /\ t \notin Prepared
      BY <1>8 DEF PlanOrder
    <2>2. /\ p \in ts /\ r.round = Place(p.ch) /\ r.turn = 1
          /\ t \in ts /\ s.round = Place(t.ch) /\ s.turn = 4
      BY <2>1, <1>5
    <2> QED  BY <2>2, <1>2, <1>6 DEF Before, Precedes
  <1>14. RunInv'
    BY <1>8, <1>9, <1>10, <1>11, <1>12, <1>13 DEF RunInv
  <1>u. UpdatesFit'
    BY <1>2, <1>3, <1>5, <1>6 DEF UpdatesFit, Before, Precedes
  <1>15. ASSUME Quiet PROVE NoteFits' /\ EndsFit'
    <2>1. NoteFits'
      <3>1. late' = {} /\ \A c \in Channels : note'[c] = Life(c)'
        BY <1>8, <1>15
      <3>2. \A t \in (Pending \union Planned("COMMIT"))' : ~Grouped(t)
        BY <1>7, <1>8
      <3> QED  BY <3>1, <3>2, <1>8 DEF NoteFits
    <2>3. EndsFit'
      <3>1. ASSUME NEW s \in todo', s.do = "COMMIT", NEW t \in s.ts
            PROVE  \E r \in todo' : r.do = "update" /\ t \in r.ts
        <4>1. t \in ts
          BY <3>1, <1>5
        <4>2. U(t) \in todo' /\ U(t).do = "update" /\ t \in U(t).ts
          BY <4>1, <1>2, <1>3
        <4> QED  BY <4>2
      <3> QED  BY <3>1, <1>7 DEF EndsFit
    <2> QED  BY <2>1, <2>3
  <1> QED  BY <1>u, <1>2, <1>14, <1>15 DEF NoteInv, Quiet

\* The rest of the one transition that is pending, written again unless the
\* note shows its target.
LEMMA ContinueUngrouped ==
    ASSUME NEW t \in Transition, UNCHANGED <<base, journal, note, late>>,
           ~Grouped(t), Sound(t), Pending = {t},
           pc' = "apply", todo' = Resume(t) \/ (todo' = Complete(t) /\ note[t.ch] = t.to),
           Quiet => NoteFits
    PROVE  RunInv' /\ NoteInv' /\ todo' # {}
  <1>1. \/ todo' = {Step(1, 1, "update", {t}), Step(1, 2, "verify", {t}),
                    Step(1, 3, "COMMIT", {t})}
        \/ /\ todo' = {Step(1, 1, "verify", {t}), Step(1, 2, "COMMIT", {t})}
           /\ note[t.ch] = t.to
    <2> DEFINE full == <<"update", "verify", "COMMIT">>
               rest == <<"verify", "COMMIT">>
    <2>1. /\ DOMAIN full = {1, 2, 3}
          /\ full[1] = "update" /\ full[2] = "verify" /\ full[3] = "COMMIT"
      OBVIOUS
    <2>2. /\ DOMAIN rest = {1, 2}
          /\ rest[1] = "verify" /\ rest[2] = "COMMIT"
      OBVIOUS
    <2>3. Resume(t) = Together(1, full, {t}) /\ Complete(t) = Together(1, rest, {t})
      BY DEF Resume, Complete
    <2> HIDE DEF full, rest
    <2>4. Together(1, full, {t}) = {Step(1, 1, "update", {t}), Step(1, 2, "verify", {t}),
                                    Step(1, 3, "COMMIT", {t})}
      BY <2>1 DEF Together
    <2>5. Together(1, rest, {t}) = {Step(1, 1, "verify", {t}), Step(1, 2, "COMMIT", {t})}
      BY <2>2 DEF Together
    <2> QED  BY <2>3, <2>4, <2>5
  <1>2. /\ \A s \in todo' : /\ s \in StepType /\ s.ts = {t} /\ s.round = 1
                            /\ \/ s.do = "update" /\ s.turn = 1
                               \/ s.do = "verify"
                               \/ s.do = "COMMIT" /\ s.turn > 1
        /\ \A r, s \in todo' : r.do = "COMMIT" /\ s.do = "COMMIT" => r = s
    BY <1>1 DEF Step, StepType, Phases, Calls
  <1>3. \E s \in todo' : s.do = "COMMIT" /\ s.ts = {t}
    <2>1. \A k : Step(1, k, "COMMIT", {t}).do = "COMMIT" /\ Step(1, k, "COMMIT", {t}).ts = {t}
      BY DEF Step
    <2> QED  BY <1>1, <2>1
  <1>4. note[t.ch] = t.to \/ \E s \in todo' : s.do = "update" /\ t \in s.ts
    <2>1. Step(1, 1, "update", {t}).do = "update" /\ t \in Step(1, 1, "update", {t}).ts
      BY DEF Step
    <2> QED  BY <1>1, <2>1
  <1>5. /\ Planned("PREPARE")' = {} /\ Planned("COMMIT")' = {t} /\ Planned("ABORT")' = {}
    <2>1. \A phase, u : u \in Planned(phase)' <=> \E s \in todo' : s.do = phase /\ u \in s.ts
      BY DEF Planned
    <2>2. \A u : u \notin Planned("PREPARE")' /\ u \notin Planned("ABORT")'
      BY <2>1, <1>2
    <2>3. \A u : u \in Planned("COMMIT")' <=> u = t
      BY <2>1, <1>2, <1>3
    <2> QED  BY <2>2, <2>3
  <1>6. /\ Prepared' = Prepared /\ Committed' = Committed /\ Aborted' = Aborted
        /\ Pending' = {t} /\ Sound(t)'
        /\ \A c : Life(c)' = Life(c)
    BY SameJournal
  <1>7. PlanShape'
    BY <1>2, <1>5 DEF PlanShape, Phases
  <1>8. PlanCovers'
    BY <1>5, <1>6 DEF PlanCovers
  <1>9. PlanFits'
    BY <1>5, <1>6 DEF PlanFits
  <1>10. PlanOrder'
    BY <1>2 DEF PlanOrder
  <1>11. RunInv'
    BY <1>2, <1>6, <1>7, <1>8, <1>9, <1>10 DEF RunInv
  <1>u. UpdatesFit'
    <2>1. ASSUME NEW s \in todo', s.do = "update", NEW u \in s.ts
          PROVE  /\ ~Grouped(u)
                 /\ \E r \in todo' : r.do = "COMMIT" /\ r.ts = {u} /\ Before(s, r)
                 /\ \A r \in todo' : r.do # "PREPARE"
      <3>1. u = t /\ s.round = 1 /\ s.turn = 1
        BY <2>1, <1>2
      <3>2. PICK r \in todo' : r.do = "COMMIT" /\ r.ts = {t}
        BY <1>3
      <3>3. Before(s, r)
        BY <3>1, <3>2, <1>2 DEF Before, Precedes, StepType
      <3> QED  BY <3>1, <3>2, <3>3, <1>2
    <2> QED  BY <2>1 DEF UpdatesFit
  <1>12. ASSUME Quiet PROVE NoteFits' /\ EndsFit'
    <2>1. NoteFits'
      <3>1. /\ late' = {}
            /\ \A c \in Channels : note'[c] # Life(c)' =>
                  \E u \in Pending' : u.ch = c /\ u.from = Life(c)' /\ u.to = note'[c]
        BY <1>6, <1>12 DEF NoteFits
      <3>2. \A u \in (Pending \union Planned("COMMIT"))' : ~Grouped(u)
        BY <1>5, <1>6
      <3> QED  BY <3>1, <3>2 DEF NoteFits
    <2>3. EndsFit'
      <3>1. \A s \in todo' : s.do = "COMMIT" => \A u \in s.ts :
               \/ note'[u.ch] = u.to
               \/ \E r \in todo' : r.do = "update" /\ u \in r.ts
        BY <1>2, <1>4
      <3> QED  BY <3>1, <1>5 DEF EndsFit
    <2> QED  BY <2>1, <2>3
  <1> QED  BY <1>u, <1>3, <1>11, <1>12 DEF NoteInv, Quiet

\* Aborting all that is pending: nothing of its group is committed, and the
\* note shows the committed states.
LEMMA StartAborting ==
    ASSUME UNCHANGED <<base, journal, note, late>>,
           journal \in Seq(Record), JournalInv, Pending # {},
           \A t \in Pending : Grouped(t) => Group(t) \intersect Committed = {},
           pc' = "apply", todo' = AbortAll(Pending),
           Quiet => /\ NoteFits
                    /\ \A t \in Pending : /\ note[t.ch] = Life(t.ch)
                                          /\ Grouped(t) => All("MASTERED")
    PROVE  RunInv' /\ NoteInv' /\ todo' # {}
  <1> DEFINE A(t) == Step(1, Place(t.ch), "ABORT", {t})
  <1>0. Pending \subseteq Transition
    BY EndedWasPrepared DEF JournalInv, Pending
  <1>1. todo' = {A(t) : t \in Pending}
    BY DEF AbortAll, InTurn
  <1>2. \A t \in Pending : A(t) \in StepType /\ A(t).do = "ABORT" /\ A(t).ts = {t}
    <2>1. \A t \in Pending : Place(t.ch) \in Nat
      BY <1>0, Places DEF Transition
    <2> QED  BY <1>0, <2>1 DEF StepType, Phases, Step
  <1> HIDE DEF A
  <1>3. ASSUME NEW s \in todo'
        PROVE  s \in StepType /\ s.do = "ABORT" /\ \E t \in Pending : s.ts = {t} /\ s = A(t)
    BY <1>1, <1>2
  <1>5. /\ Planned("PREPARE")' = {} /\ Planned("COMMIT")' = {} /\ Planned("ABORT")' = Pending
    <2>1. \A phase, u : u \in Planned(phase)' <=> \E s \in todo' : s.do = phase /\ u \in s.ts
      BY DEF Planned
    <2>2. \A u : u \notin Planned("PREPARE")' /\ u \notin Planned("COMMIT")'
      BY <2>1, <1>3
    <2>3. \A u : u \in Planned("ABORT")' => u \in Pending
      BY <2>1, <1>3
    <2>4. \A u \in Pending : u \in Planned("ABORT")'
      BY <2>1, <1>1, <1>2
    <2> QED  BY <2>2, <2>3, <2>4
  <1>6. /\ Prepared' = Prepared /\ Committed' = Committed /\ Aborted' = Aborted
        /\ Pending' = Pending
        /\ \A c : Life(c)' = Life(c)
    BY SameJournal
  <1>7. PlanShape'
    BY <1>3 DEF PlanShape
  <1>8. PlanCovers'
    BY <1>5, <1>6 DEF PlanCovers
  <1>9. PlanFits'
    BY <1>5, <1>6 DEF PlanFits
  <1>10. PlanOrder'
    BY <1>3 DEF PlanOrder
  <1>11. RunInv'
    BY <1>3, <1>7, <1>8, <1>9, <1>10 DEF RunInv
  <1>u. UpdatesFit'
    BY <1>3 DEF UpdatesFit
  <1>12. ASSUME Quiet PROVE NoteFits' /\ EndsFit'
    <2>1. NoteFits'
      BY <1>5, <1>6, <1>12 DEF NoteFits, All
    <2>3. EndsFit'
      BY <1>3, <1>5, <1>6, <1>12 DEF EndsFit, All
    <2> QED  BY <2>1, <2>3
  <1> QED  BY <1>u, <1>1, <1>11, <1>12 DEF NoteInv, Quiet

\* A dormancy group of which nothing has ended: what is not prepared yet is,
\* then the whole group is written, verified and suspended, then committed.
LEMMA StartGroup ==
    ASSUME NEW g \in Transition, Grouped(g), \A t \in Group(g) : Sound(t), Shaped(g),
           UNCHANGED <<base, journal, note, late>>,
           Group(g) \intersect (Committed \union Aborted) = {}, Pending \subseteq Group(g),
           pc' = "apply", todo' = MaterializeGroup(Group(g), Group(g) \ Prepared),
           Quiet => NoteFits /\ All("MASTERED")
    PROVE  RunInv' /\ NoteInv' /\ todo' # {}
  <1> DEFINE ts == Group(g)
             P(t) == Step(1, Place(t.ch), "PREPARE", {t})
             C(t) == Step(3, Place(t.ch), "COMMIT", {t})
             W == {Step(2, 1, "update", ts), Step(2, 2, "verify", ts),
                   Step(2, 3, "suspend", ts), Step(2, 4, "queues", ts)}
  <1>0. \A t \in ts : /\ t \in Transition /\ Shaped(t) /\ Grouped(t) /\ t.detail = g.detail
                      /\ Group(t) = ts /\ Place(t.ch) \in Nat
                      /\ \A u \in ts : t.ch = u.ch => t = u
    <2>1. \A t \in ts : /\ t \in Transition /\ Shaped(t) /\ Grouped(t) /\ t.detail = g.detail
                        /\ Group(t) = ts
      BY GroupMembers
    <2>2. \A t \in ts : \A u \in ts : t.ch = u.ch => t = u
      BY GroupMembers
    <2>3. \A t \in ts : Place(t.ch) \in Nat
      BY <2>1, Places DEF Transition
    <2> QED  BY <2>1, <2>2, <2>3
  <1>1. todo' = {P(t) : t \in ts \ Prepared} \union W \union {C(t) : t \in ts}
    <2> DEFINE ph == <<"update", "verify", "suspend", "queues">>
    <2>1. /\ DOMAIN ph = {1, 2, 3, 4}
          /\ ph[1] = "update" /\ ph[2] = "verify" /\ ph[3] = "suspend" /\ ph[4] = "queues"
      OBVIOUS
    <2>2. todo' = {P(t) : t \in ts \ Prepared} \union Together(2, ph, ts)
                    \union {C(t) : t \in ts}
      BY DEF MaterializeGroup, InTurn
    <2> HIDE DEF ph, P, C, ts
    <2>3. Together(2, ph, ts) = W
      BY <2>1 DEF Together
    <2> QED  BY <2>2, <2>3
  <1>2. /\ \A t \in ts : /\ P(t) \in StepType /\ P(t).do = "PREPARE" /\ P(t).ts = {t}
                         /\ P(t).round = 1
                         /\ C(t) \in StepType /\ C(t).do = "COMMIT" /\ C(t).ts = {t}
                         /\ C(t).round = 3
        /\ \A s \in W : /\ s \in StepType /\ s.do \in Calls /\ s.ts = ts /\ s.round = 2
    <2>1. ts \subseteq Transition
      BY <1>0
    <2> HIDE DEF ts
    <2> QED  BY <1>0, <2>1 DEF StepType, Phases, Calls, Step
  <1>3. \E s \in W : s.do = "update"
    <2>1. Step(2, 1, "update", ts).do = "update"
      BY DEF Step
    <2> QED  BY <2>1
  <1>t. ts # {}
    BY DEF Shaped
  <1>h. /\ \A t \in ts : Sound(t)
        /\ ts \intersect (Committed \union Aborted) = {} /\ Pending \subseteq ts
    OBVIOUS
  <1> HIDE DEF ts, P, C, W
  <1>4. ASSUME NEW s \in todo'
        PROVE  /\ s \in StepType
               /\ \/ \E t \in ts \ Prepared : s = P(t) /\ s.do = "PREPARE" /\ s.ts = {t}
                                              /\ s.round = 1
                  \/ s.do \in Calls /\ s.ts = ts /\ s.round = 2
                  \/ \E t \in ts : s = C(t) /\ s.do = "COMMIT" /\ s.ts = {t} /\ s.round = 3
    <2>1. CASE s \in W
      BY <2>1, <1>2
    <2>2. CASE \E t \in ts \ Prepared : s = P(t)
      BY <2>2, <1>2
    <2>3. CASE \E t \in ts : s = C(t)
      BY <2>3, <1>2
    <2> QED  BY <1>1, <2>1, <2>2, <2>3
  <1>p. \A s \in todo' : s.do = "PREPARE" =>
           s.round = 1 /\ \E t \in ts \ Prepared : s = P(t) /\ s.ts = {t}
    BY <1>4 DEF Calls
  <1>c. \A s \in todo' : s.do = "COMMIT" =>
           s.round = 3 /\ \E t \in ts : s = C(t) /\ s.ts = {t}
    BY <1>4 DEF Calls
  <1>s. /\ \A t \in ts \ Prepared : P(t) \in todo'
        /\ \A t \in ts : C(t) \in todo'
    BY <1>1
  <1>5. /\ Planned("PREPARE")' = ts \ Prepared /\ Planned("COMMIT")' = ts
        /\ Planned("ABORT")' = {}
    <2>1. \A phase, u : u \in Planned(phase)' <=> \E s \in todo' : s.do = phase /\ u \in s.ts
      BY DEF Planned
    <2>2. \A u : u \notin Planned("ABORT")'
      <3>1. \A s \in todo' : s.do # "ABORT"
        BY <1>4 DEF Calls
      <3> QED  BY <2>1, <3>1
    <2>3. ASSUME NEW u \in Planned("PREPARE")' PROVE u \in ts \ Prepared
      <3>1. PICK s \in todo' : s.do = "PREPARE" /\ u \in s.ts
        BY <2>1
      <3>2. PICK t \in ts \ Prepared : s.ts = {t}
        BY <3>1, <1>p
      <3> QED  BY <3>1, <3>2
    <2>4. ASSUME NEW u \in Planned("COMMIT")' PROVE u \in ts
      <3>1. PICK s \in todo' : s.do = "COMMIT" /\ u \in s.ts
        BY <2>1
      <3>2. PICK t \in ts : s.ts = {t}
        BY <3>1, <1>c
      <3> QED  BY <3>1, <3>2
    <2>5. \A u \in ts \ Prepared : u \in Planned("PREPARE")'
      <3>1. \A u \in ts \ Prepared : P(u).do = "PREPARE" /\ u \in P(u).ts
        BY <1>2
      <3> QED  BY <2>1, <3>1, <1>s
    <2>6. \A u \in ts : u \in Planned("COMMIT")'
      <3>1. \A u \in ts : C(u).do = "COMMIT" /\ u \in C(u).ts
        BY <1>2
      <3> QED  BY <2>1, <3>1, <1>s
    <2> QED  BY <2>2, <2>3, <2>4, <2>5, <2>6
  <1>6. /\ Prepared' = Prepared /\ Committed' = Committed /\ Aborted' = Aborted
        /\ Pending' = Pending
        /\ \A c : Life(c)' = Life(c)
        /\ \A t \in ts : Sound(t)'
    BY <1>h, SameJournal
  <1>7. PlanShape'
    <2>1. \A s \in todo' : s.do \in Phases => \E t \in s.ts : s.ts = {t}
      BY <1>4 DEF Phases, Calls
    <2>2. \A s, r \in todo' : s.do \in Phases /\ s.do = r.do /\ s.ts = r.ts => s = r
      <3>1. SUFFICES ASSUME NEW s \in todo', NEW r \in todo', s.do \in Phases, s.do = r.do,
                            s.ts = r.ts
                     PROVE  s = r
        OBVIOUS
      <3>2. CASE s.do = "PREPARE"
        <4>1. PICK t \in ts : s = P(t) /\ s.ts = {t}
          BY <3>2, <1>p
        <4>2. PICK u \in ts : r = P(u) /\ r.ts = {u}
          BY <3>1, <3>2, <1>p
        <4> QED  BY <3>1, <4>1, <4>2
      <3>3. CASE s.do = "COMMIT"
        <4>1. PICK t \in ts : s = C(t) /\ s.ts = {t}
          BY <3>3, <1>c
        <4>2. PICK u \in ts : r = C(u) /\ r.ts = {u}
          BY <3>1, <3>3, <1>c
        <4> QED  BY <3>1, <4>1, <4>2
      <3>4. s.do # "ABORT"
        BY <1>4 DEF Calls
      <3> QED  BY <3>1, <3>2, <3>3, <3>4 DEF Phases
    <2> QED  BY <2>1, <2>2, <1>5 DEF PlanShape
  <1>8. PlanCovers'
    BY <1>5, <1>6, <1>h DEF PlanCovers, Pending
  <1>9. PlanFits'
    BY <1>0, <1>5, <1>6, <1>h DEF PlanFits
  <1>10. PlanOrder'
    <2>1. SUFFICES ASSUME NEW r \in todo', NEW s \in todo', r.do = "PREPARE", s.do = "COMMIT",
                          NEW t \in s.ts
                   PROVE  Grouped(t) /\ Before(r, s)
      BY DEF PlanOrder
    <2>2. r.round = 1 /\ s.round = 3 /\ t \in ts
      BY <2>1, <1>p, <1>c
    <2> QED  BY <2>2, <1>0 DEF Before, Precedes
  <1>11. RunInv'
    BY <1>4, <1>7, <1>8, <1>9, <1>10 DEF RunInv
  <1>u. UpdatesFit'
    <2>1. ASSUME NEW s \in todo', s.do = "update", NEW u \in s.ts
          PROVE  /\ s.ts = Group(u)
                 /\ \E r \in todo' : r.do = "COMMIT" /\ r.ts = {u} /\ Before(s, r)
                 /\ \A r \in todo' : r.do = "PREPARE" => Before(r, s)
      <3>1. s.ts = ts /\ s.round = 2 /\ u \in ts
        BY <2>1, <1>4
      <3>2. C(u) \in todo' /\ C(u).do = "COMMIT" /\ C(u).ts = {u} /\ C(u).round = 3
        BY <3>1, <1>2, <1>s
      <3>3. \A r \in todo' : r.do = "PREPARE" => r.round = 1
        BY <1>p
      <3>4. \A r \in todo' : r.do = "PREPARE" => Before(r, s)
        BY <3>1, <3>3 DEF Before, Precedes
      <3>5. Before(s, C(u))
        BY <3>1, <3>2 DEF Before, Precedes
      <3>6. Group(u) = ts
        BY <3>1, <1>0
      <3> QED  BY <3>1, <3>2, <3>4, <3>5, <3>6
    <2> QED  BY <2>1 DEF UpdatesFit
  <1>12. ASSUME Quiet PROVE NoteFits' /\ EndsFit'
    <2>1. NoteFits'
      BY <1>5, <1>6, <1>12 DEF NoteFits, All
    <2>3. EndsFit'
      <3>1. PICK r \in todo' : r.do = "update" /\ r.ts = ts
        BY <1>1, <1>2, <1>3
      <3>2. \A s \in todo' : s.do = "COMMIT" => s.ts \subseteq ts
        BY <1>c
      <3> QED  BY <3>1, <3>2, <1>5 DEF EndsFit
    <2> QED  BY <2>1, <2>3
  <1> QED  BY <1>u, <1>1, <1>t, <1>11, <1>12 DEF NoteInv, Quiet

\* A dormancy group the note already shows: verified, suspended, committed.
LEMMA StartFinishing ==
    ASSUME NEW g \in Pending, Grouped(g), journal \in Seq(Record), JournalInv,
           UNCHANGED <<base, journal, note, late>>,
           Group(g) \subseteq Prepared, Group(g) \intersect Aborted = {},
           Pending \subseteq Group(g),
           pc' = "apply", todo' = FinishGroup(Group(g), Group(g) \intersect Pending),
           Quiet => NoteFits /\ All("DORMANT")
    PROVE  RunInv' /\ NoteInv' /\ todo' # {}
  <1> DEFINE ts == Group(g)
             C(t) == Step(2, Place(t.ch), "COMMIT", {t})
             W == {Step(1, 1, "verify", ts), Step(1, 2, "queues", {}),
                   Step(1, 3, "suspend", ts), Step(1, 4, "queues", ts)}
  <1>g. g \in Transition /\ Shaped(g) /\ \A t \in Pending : Sound(t)
    BY EndedWasPrepared DEF JournalInv, Pending, Sound
  <1>0. \A t \in ts : /\ t \in Transition /\ Shaped(t) /\ Grouped(t) /\ t.detail = g.detail
                      /\ Group(t) = ts /\ Place(t.ch) \in Nat
                      /\ \A u \in ts : t.ch = u.ch => t = u
    <2>1. \A t \in ts : /\ t \in Transition /\ Shaped(t) /\ Grouped(t) /\ t.detail = g.detail
                        /\ Group(t) = ts
      BY <1>g, GroupMembers
    <2>2. \A t \in ts : \A u \in ts : t.ch = u.ch => t = u
      BY <1>g, GroupMembers
    <2>3. \A t \in ts : Place(t.ch) \in Nat
      BY <2>1, Places DEF Transition
    <2> QED  BY <2>1, <2>2, <2>3
  <1>1. todo' = W \union {C(t) : t \in Pending}
    <2>1. Group(g) \intersect Pending = Pending
      OBVIOUS
    <2> QED  BY <2>1 DEF FinishGroup, InTurn
  <1>h. /\ ts \subseteq Prepared /\ ts \intersect Aborted = {} /\ Pending \subseteq ts
    OBVIOUS
  <1>2. /\ \A t \in Pending : /\ C(t) \in StepType /\ C(t).do = "COMMIT" /\ C(t).ts = {t}
        /\ \A s \in W : s \in StepType /\ s.do \in Calls /\ s.do # "update"
    <2>1. ts \subseteq Transition
      BY <1>0
    <2> HIDE DEF ts
    <2> QED  BY <1>0, <1>h, <2>1 DEF StepType, Phases, Calls, Step
  <1> HIDE DEF ts, C, W
  <1>4. ASSUME NEW s \in todo'
        PROVE  /\ s \in StepType /\ s.do # "update"
               /\ \/ s.do \in Calls
                  \/ \E t \in Pending : s = C(t) /\ s.do = "COMMIT" /\ s.ts = {t}
    <2>1. CASE s \in W
      BY <2>1, <1>2
    <2>2. CASE \E t \in Pending : s = C(t)
      BY <2>2, <1>2
    <2> QED  BY <1>1, <2>1, <2>2
  <1>c. \A s \in todo' : s.do \in Phases =>
           s.do = "COMMIT" /\ \E t \in Pending : s = C(t) /\ s.ts = {t}
    BY <1>4 DEF Calls, Phases
  <1>s. \A t \in Pending : C(t) \in todo'
    BY <1>1
  <1>5. /\ Planned("PREPARE")' = {} /\ Planned("COMMIT")' = Pending /\ Planned("ABORT")' = {}
    <2>1. \A phase, u : u \in Planned(phase)' <=> \E s \in todo' : s.do = phase /\ u \in s.ts
      BY DEF Planned
    <2>2. \A u : u \notin Planned("ABORT")' /\ u \notin Planned("PREPARE")'
      BY <2>1, <1>c DEF Phases
    <2>3. ASSUME NEW u \in Planned("COMMIT")' PROVE u \in Pending
      <3>1. PICK s \in todo' : s.do = "COMMIT" /\ u \in s.ts
        BY <2>1
      <3>2. PICK t \in Pending : s.ts = {t}
        BY <3>1, <1>c DEF Phases
      <3> QED  BY <3>1, <3>2
    <2>4. \A u \in Pending : u \in Planned("COMMIT")'
      <3>1. \A u \in Pending : C(u).do = "COMMIT" /\ u \in C(u).ts
        BY <1>2
      <3> QED  BY <2>1, <3>1, <1>s
    <2> QED  BY <2>2, <2>3, <2>4
  <1>6. /\ Prepared' = Prepared /\ Committed' = Committed /\ Aborted' = Aborted
        /\ Pending' = Pending
        /\ \A c : Life(c)' = Life(c)
        /\ \A t \in Pending : Sound(t)'
    BY <1>g, SameJournal
  <1>7. PlanShape'
    <2>1. \A s \in todo' : s.do \in Phases => \E t \in s.ts : s.ts = {t}
      BY <1>c
    <2>2. ASSUME NEW s \in todo', NEW r \in todo', s.do \in Phases, s.do = r.do, s.ts = r.ts
          PROVE  s = r
      <3>1. PICK t \in Pending : s = C(t) /\ s.ts = {t}
        BY <2>2, <1>c
      <3>2. PICK u \in Pending : r = C(u) /\ r.ts = {u}
        BY <2>2, <1>c
      <3> QED  BY <2>2, <3>1, <3>2
    <2> QED  BY <2>1, <2>2, <1>5 DEF PlanShape
  <1>8. PlanCovers'
    BY <1>5, <1>6 DEF PlanCovers
  <1>9. PlanFits'
    BY <1>0, <1>5, <1>6, <1>h DEF PlanFits
  <1>10. PlanOrder'
    BY <1>c DEF PlanOrder, Phases
  <1>11. RunInv'
    BY <1>4, <1>7, <1>8, <1>9, <1>10 DEF RunInv
  <1>u. UpdatesFit'
    BY <1>4 DEF UpdatesFit
  <1>12. ASSUME Quiet PROVE NoteFits' /\ EndsFit'
    <2>1. NoteFits'
      BY <1>5, <1>6, <1>12 DEF NoteFits, All
    <2>3. EndsFit'
      <3>1. \A t \in Pending : note'[t.ch] = t.to
        <4>1. \A t \in Pending : t.ch \in Channels /\ t.to = "DORMANT"
          BY <1>0, <1>h DEF Transition, Grouped
        <4> QED  BY <4>1, <1>12 DEF All
      <3>2. \A s \in todo' : s.do = "COMMIT" => s.ts \subseteq Pending
        BY <1>c DEF Phases
      <3> QED  BY <3>1, <3>2, <1>5 DEF EndsFit
    <2> QED  BY <2>1, <2>3
  <1>13. todo' # {}
    BY <1>1 DEF W
  <1> QED  BY <1>u, <1>11, <1>12, <1>13 DEF NoteInv, Quiet

\* Nothing left to do, or nothing to do before a fresh observation.
LEMMA NoWork ==
    ASSUME JournalInv, NoteInv, UNCHANGED <<base, journal, note, late>>,
           pc' # "apply", todo' = {},
           pc' = "observe" => \A t \in Pending :
               Grouped(t) => Group(t) \intersect (Committed \union Aborted) = {}
    PROVE  JournalInv' /\ RunInv' /\ NoteInv'
  <1>1. /\ Prepared' = Prepared /\ Committed' = Committed /\ Aborted' = Aborted
        /\ Pending' = Pending
        /\ \A c : Life(c)' = Life(c)
        /\ JournalInv'
    BY SameJournal
  <1>2. \A phase : Planned(phase)' = {}
    BY DEF Planned
  <1>3. RunInv'
    BY <1>1 DEF RunInv
  <1>4. NoteFits => NoteFits'
    BY <1>1, <1>2 DEF NoteFits, All
  <1>5. UpdatesFit' /\ EndsFit'
    BY <1>2 DEF UpdatesFit, EndsFit
  <1> QED  BY <1>1, <1>3, <1>4, <1>5 DEF NoteInv

\* What is pending is one ungrouped transition, or all of one group.
LEMMA PendingGroup ==
    ASSUME journal \in Seq(Record), JournalInv, NEW t \in Pending
    PROVE  /\ t \in Transition /\ Sound(t) /\ Shaped(t)
           /\ ~Grouped(t) => Pending = {t}
           /\ Grouped(t) => /\ Pending \subseteq Group(t)
                            /\ Group(t) \intersect Pending = Pending
                            /\ \A u \in Pending : Grouped(u) /\ Group(u) = Group(t)
  <1>1. /\ Pending \subseteq Transition
        /\ \A u \in Pending : Sound(u) /\ Shaped(u)
    BY EndedWasPrepared DEF JournalInv, Pending
  <1>2. \A u \in Pending : u = t \/ (Grouped(t) /\ Grouped(u) /\ t.detail = u.detail)
    BY DEF JournalInv, PendingIsUnambiguous
  <1>3. ASSUME Grouped(t), NEW u \in Pending
        PROVE  Grouped(u) /\ Group(u) = Group(t) /\ u \in Group(t)
    BY <1>1, <1>2, <1>3, SameGroup
  <1> QED  BY <1>1, <1>2, <1>3

\* Reading the journal: what a run plans for pending operations fits them.
LEMMA LoadStep ==
    ASSUME IInv, Load
    PROVE  JournalInv' /\ RunInv' /\ NoteInv' /\ (pc' = "apply" <=> todo' # {})
  <1>1. /\ journal \in Seq(Record) /\ JournalInv /\ NoteInv
        /\ UNCHANGED <<base, journal, note, late>>
    BY DEF IInv, Load, cards
  <1>2. JournalInv'
    BY <1>1, SameJournal
  <1>3. CASE Halt
    BY <1>1, <1>3, NoWork DEF Halt
  <1>4. CASE LookAgain /\ Pending = {}
    BY <1>1, <1>4, NoWork DEF LookAgain
  <1>5. ASSUME NEW t \in Pending, Pending = {t}, ~Grouped(t), RecoverUngrouped(t)
        PROVE  RunInv' /\ NoteInv' /\ (pc' = "apply" <=> todo' # {})
    <2>1. t \in Transition /\ Sound(t)
      BY <1>1, PendingGroup
    <2>2. CASE note[t.ch] = t.from
      <3>1. LookAgain
        BY <2>2, <1>5 DEF RecoverUngrouped
      <3> QED  BY <3>1, <1>1, <1>5, NoWork DEF LookAgain
    <2>3. CASE note[t.ch] # t.from /\ note[t.ch] = t.to
      <3>1. pc' = "apply" /\ todo' = Complete(t)
        BY <2>3, <1>5 DEF RecoverUngrouped, Work
      <3> QED  BY <3>1, <2>1, <2>3, <1>1, <1>5, ContinueUngrouped DEF NoteInv, Quiet
    <2>4. CASE note[t.ch] # t.from /\ note[t.ch] # t.to
      <3>1. pc' = "apply" /\ todo' = AbortAll(Pending)
        BY <2>4, <1>5 DEF RecoverUngrouped, Work
      <3>2. ~Quiet
        <4>1. Life(t.ch) = t.from /\ t.ch \in Channels
          BY <2>1 DEF Sound, Fits, Transition
        <4> QED  BY <4>1, <2>4, <1>1, <1>5 DEF NoteInv, NoteFits, Quiet
      <3> QED  BY <3>1, <3>2, <1>1, <1>5, StartAborting
    <2> QED  BY <2>2, <2>3, <2>4
  <1>6. ASSUME NEW t \in Pending, Grouped(t), RecoverGroup(Group(t))
        PROVE  RunInv' /\ NoteInv' /\ (pc' = "apply" <=> todo' # {})
    <2>1. /\ t \in Transition /\ Shaped(t)
          /\ Pending \subseteq Group(t)
          /\ Group(t) \intersect Pending = Pending
          /\ \A u \in Pending : Grouped(u) /\ Group(u) = Group(t)
      BY <1>1, <1>6, PendingGroup
    <2>2. CASE Group(t) \intersect Aborted # {}
      <3>1. pc' = "apply" /\ todo' = AbortAll(Pending)
        BY <2>1, <2>2, <1>6 DEF RecoverGroup, Work
      <3>2. Group(t) \intersect Committed = {}
        <4>1. \A u \in Group(t) : Grouped(u) /\ Group(u) = Group(t)
          BY <2>1, <1>6, GroupMembers
        <4> QED  BY <4>1, <2>2, <1>1 DEF JournalInv, MixedTerminals
      <3>3. ASSUME Quiet
            PROVE  /\ NoteFits
                   /\ \A u \in Pending : /\ note[u.ch] = Life(u.ch)
                                         /\ Grouped(u) => All("MASTERED")
        <4>1. NoteFits /\ All("MASTERED")
          BY <3>3, <2>1, <2>2, <1>1 DEF NoteInv, NoteFits, Quiet
        <4>2. ASSUME NEW u \in Pending PROVE note[u.ch] = Life(u.ch)
          <5>1. u \in Transition /\ Sound(u) /\ Shaped(u) /\ Grouped(u)
            BY <2>1, <1>1, PendingGroup
          <5>2. u.from = "MASTERED" /\ u.from = Life(u.ch) /\ u.ch \in Channels
            BY <5>1, GroupMembers DEF Sound, Fits, Shaped, Transition
          <5> QED  BY <5>2, <4>1 DEF All
        <4> QED  BY <4>1, <4>2
      <3> QED  BY <3>1, <3>2, <3>3, <2>1, <1>1, <1>6, StartAborting
    <2>3. CASE Group(t) \intersect Aborted = {} /\ (\A c \in Channels : note[c] = "MASTERED")
      <3>1. Halt \/ (LookAgain /\ Group(t) \intersect Committed = {})
        BY <2>3, <1>6 DEF RecoverGroup
      <3>2. LookAgain => \A u \in Pending : Group(u) \intersect (Committed \union Aborted) = {}
                          \/ ~(Group(t) \intersect Committed = {})
        BY <2>1, <2>3
      <3> QED  BY <3>1, <3>2, <1>1, NoWork DEF Halt, LookAgain
    <2>4. CASE /\ Group(t) \intersect Aborted = {} /\ ~(\A c \in Channels : note[c] = "MASTERED")
               /\ (\A c \in Channels : note[c] = "DORMANT")
      <3>1. CASE Group(t) \subseteq Prepared
        <4>1. pc' = "apply" /\ todo' = FinishGroup(Group(t), Group(t) \intersect Pending)
          BY <2>4, <3>1, <1>6 DEF RecoverGroup, Work
        <4>2. Quiet => NoteFits /\ All("DORMANT")
          BY <2>4, <1>1 DEF NoteInv, Quiet, All
        <4> QED  BY <4>1, <4>2, <3>1, <2>1, <2>4, <1>1, <1>6, StartFinishing
      <3>2. CASE ~(Group(t) \subseteq Prepared)
        <4>1. Halt
          BY <2>4, <3>2, <1>6 DEF RecoverGroup
        <4> QED  BY <4>1, <1>1, NoWork DEF Halt
      <3> QED  BY <3>1, <3>2
    <2>5. CASE /\ Group(t) \intersect Aborted = {} /\ ~(\A c \in Channels : note[c] = "MASTERED")
               /\ ~(\A c \in Channels : note[c] = "DORMANT")
      <3>1. Halt \/ (Group(t) \intersect Committed = {} /\ Work(AbortAll(Pending)))
        BY <2>1, <2>5, <1>6 DEF RecoverGroup
      <3>2. CASE Halt
        BY <3>2, <1>1, NoWork DEF Halt
      <3>3. CASE Group(t) \intersect Committed = {} /\ Work(AbortAll(Pending))
        <4>1. ~Quiet
          BY <2>5, <1>1, <1>6 DEF NoteInv, NoteFits, Quiet, All
        <4>2. pc' = "apply" /\ todo' = AbortAll(Pending)
          BY <3>3 DEF Work
        <4> QED  BY <4>1, <4>2, <3>3, <2>1, <1>1, <1>6, StartAborting
      <3> QED  BY <3>1, <3>2, <3>3
    <2> QED  BY <2>2, <2>3, <2>4, <2>5
  <1>7. CASE ~Halt /\ Pending # {}
    <2>1. PICK t \in Pending : \/ Pending = {t} /\ ~Grouped(t) /\ RecoverUngrouped(t)
                               \/ Grouped(t) /\ RecoverGroup(Group(t))
      <3> DEFINE t == CHOOSE u \in Pending : TRUE
      <3>1. t \in Pending
        BY <1>7
      <3> HIDE DEF t
      <3>2. \/ Pending = {t} /\ ~Grouped(t) /\ RecoverUngrouped(t)
            \/ (\A u \in Pending : Grouped(u) /\ u.detail = t.detail) /\ RecoverGroup(Group(t))
        BY <1>7 DEF Load, t
      <3> QED  BY <3>1, <3>2
    <2> QED  BY <2>1, <1>2, <1>5, <1>6
  <1>8. Halt \/ Pending # {} \/ LookAgain
    BY DEF Load
  <1> QED  BY <1>2, <1>3, <1>4, <1>7, <1>8 DEF Halt, LookAgain

\* What is decided fits: a step for some channels, each along an edge from its
\* channel's state, or the whole unit's dormancy group.
LEMMA DecisionSteps ==
    ASSUME TypeOK, journal \in Seq(Record), JournalInv
    PROVE  \/ /\ Decision \subseteq Transition
              /\ \A t \in Decision : ~Grouped(t) /\ Sound(t)
              /\ \A t, u \in Decision : t.ch = u.ch => t = u
           \/ /\ \A c \in Channels : Life(c) = "MASTERED"
              /\ \A t \in Decision :
                    /\ t \in Transition /\ Grouped(t) /\ Shaped(t)
                    /\ Decision = Group(t)
                    /\ \A m \in Group(t) : Fits(m)
  <1>1. ASSUME NEW c \in Channels PROVE Episode(c) \in Nat
    <2>1. \A d \in Channels : Commits(d) # {} => HasLast(Commits(d))
      BY DEF JournalInv
    <2>2. Commits(c) \subseteq 1 .. Len(journal)
      BY DEF Commits, Records
    <2>3. IsFiniteSet(1 .. Len(journal))
      BY FS_Interval
    <2> QED  BY <2>2, <2>3, FS_Subset, FS_CardinalityType DEF Episode
  <1>2. ASSUME NEW c \in Channels, NEW t \in Ungrouped(c)
        PROVE  t \in Transition /\ t.ch = c /\ ~Grouped(t) /\ Sound(t)
    <2>1. gate[c].version \in Nat /\ seen[c] \subseteq {"review", "lapse", "mastery", "failure"}
      BY DEF TypeOK
    <2>2. PICK s \in States, d \in Seq(Nat) :
              t = Plan(c, s, d) /\ <<Life(c), s>> \in Promise!Edges /\ s # "DORMANT"
      <3> DEFINE p == Life(c)
      <3>1. <<>> \in Seq(Nat) /\ <<gate[c].version>> \in Seq(Nat)
        BY <2>1
      <3>2. \/ p \in {"NEW", "RELAPSE"} /\ t = Plan(c, "LEARNING", <<>>)
            \/ p = "LEARNING" /\ t = Plan(c, "STABLE", <<gate[c].version>>)
            \/ p = "STABLE" /\ t = Plan(c, "LEARNING", <<>>)
            \/ p = "STABLE" /\ t = Plan(c, "MASTERED", <<>>)
            \/ p \in {"MASTERED", "DORMANT"} /\ t = Plan(c, "RELAPSE", <<>>)
        BY <1>2 DEF Ungrouped
      <3> HIDE DEF p
      <3>3. ASSUME p \in {"NEW", "RELAPSE"}, t = Plan(c, "LEARNING", <<>>)
            PROVE  \E s \in States, d \in Seq(Nat) :
                      t = Plan(c, s, d) /\ <<p, s>> \in Promise!Edges /\ s # "DORMANT"
        BY <3>1, <3>3 DEF States, Promise!Edges
      <3>4. ASSUME p = "LEARNING", t = Plan(c, "STABLE", <<gate[c].version>>)
            PROVE  \E s \in States, d \in Seq(Nat) :
                      t = Plan(c, s, d) /\ <<p, s>> \in Promise!Edges /\ s # "DORMANT"
        BY <3>1, <3>4 DEF States, Promise!Edges
      <3>5. ASSUME p = "STABLE", t = Plan(c, "LEARNING", <<>>) \/ t = Plan(c, "MASTERED", <<>>)
            PROVE  \E s \in States, d \in Seq(Nat) :
                      t = Plan(c, s, d) /\ <<p, s>> \in Promise!Edges /\ s # "DORMANT"
        BY <3>1, <3>5 DEF States, Promise!Edges
      <3>6. ASSUME p \in {"MASTERED", "DORMANT"}, t = Plan(c, "RELAPSE", <<>>)
            PROVE  \E s \in States, d \in Seq(Nat) :
                      t = Plan(c, s, d) /\ <<p, s>> \in Promise!Edges /\ s # "DORMANT"
        BY <3>1, <3>6 DEF States, Promise!Edges
      <3> QED  BY <3>2, <3>3, <3>4, <3>5, <3>6 DEF p
    <2>3. /\ t.ch = c /\ t.from = Life(c) /\ t.to = s /\ t.ep = Episode(c) /\ t.detail = d
          /\ t = [ch |-> c, from |-> Life(c), to |-> s, ep |-> Episode(c), detail |-> d]
      BY <2>2 DEF Plan
    <2>4. Life(c) \in States
      BY <2>2 DEF Promise!Edges, States
    <2>5. t \in Transition
      BY <1>1, <2>3, <2>4 DEF Transition
    <2> QED  BY <2>2, <2>3, <2>5 DEF Sound, Shaped, Fits, Grouped
  <1>3. CASE Decision = UNION {Ungrouped(c) : c \in Channels}
    <2>1. ASSUME NEW t \in Decision
          PROVE  \E c \in Channels : t \in Ungrouped(c)
      BY <1>3
    <2>2. ASSUME NEW c \in Channels, NEW t \in Ungrouped(c), NEW u \in Ungrouped(c)
          PROVE  t = u
      BY <2>2 DEF Ungrouped
    <2> QED  BY <1>2, <2>1, <2>2
  <1>4. CASE Decision = DormancyGroup /\ \A c \in Channels : Life(c) = "MASTERED"
    <2> DEFINE d == [i \in DOMAIN Order |-> Episode(Order[i])]
    <2>1. d \in [DOMAIN Order -> Nat] /\ d \in Seq(Nat)
      BY <1>1, Places, ReconcileAssumption
    <2>2. \A i \in DOMAIN Order : d[i] = Episode(Order[i])
      OBVIOUS
    <2>3. Decision = {Plan(c, "DORMANT", d) : c \in Channels}
      BY <1>4 DEF DormancyGroup
    <2> HIDE DEF d
    <2>4. ASSUME NEW c \in Channels
          PROVE  /\ Plan(c, "DORMANT", d)
                      = [ch |-> c, from |-> "MASTERED", to |-> "DORMANT", ep |-> Episode(c),
                         detail |-> d]
                 /\ Plan(c, "DORMANT", d) \in Transition
                 /\ Grouped(Plan(c, "DORMANT", d)) /\ Fits(Plan(c, "DORMANT", d))
      BY <1>1, <1>4, <2>1 DEF Plan, Transition, States, Grouped, Fits
    <2>5. ASSUME NEW t \in Transition, t.from = "MASTERED", t.to = "DORMANT", t.detail = d,
                 NEW i \in DOMAIN Order
          PROVE  [t EXCEPT !.ch = Order[i], !.ep = t.detail[i]] = Plan(Order[i], "DORMANT", d)
      <3>1. /\ Order[i] \in Channels /\ t.detail[i] = Episode(Order[i])
            /\ t.detail[i] \in Nat
        BY <1>1, <2>2, <2>5, Places
      <3>2. Plan(Order[i], "DORMANT", d)
              = [ch |-> Order[i], from |-> "MASTERED", to |-> "DORMANT",
                 ep |-> Episode(Order[i]), detail |-> d]
        BY <2>4, <3>1
      <3>4. [t EXCEPT !.ch = Order[i], !.ep = t.detail[i]]
              = [ch |-> Order[i], from |-> "MASTERED", to |-> "DORMANT",
                 ep |-> t.detail[i], detail |-> d]
        BY <2>5, <3>1, Relabelled
      <3> QED  BY <3>1, <3>2, <3>4
    <2>6. ASSUME NEW c \in Channels
          PROVE  Group(Plan(c, "DORMANT", d)) = Decision
      <3> DEFINE t == Plan(c, "DORMANT", d)
      <3>1. t \in Transition /\ t.from = "MASTERED" /\ t.to = "DORMANT" /\ t.detail = d
        BY <2>4
      <3> HIDE DEF t
      <3>2. Group(t) = {Plan(Order[i], "DORMANT", d) : i \in DOMAIN Order}
        <4>1. \A i \in DOMAIN Order : [t EXCEPT !.ch = Order[i], !.ep = t.detail[i]]
                                        = Plan(Order[i], "DORMANT", d)
          BY <2>5, <3>1
        <4> QED  BY <4>1 DEF Group
      <3> QED  BY <2>3, <3>2 DEF Channels, t
    <2>7. ASSUME NEW c \in Channels
          PROVE  Shaped(Plan(c, "DORMANT", d))
      <3>1. Plan(c, "DORMANT", d) \in Group(Plan(c, "DORMANT", d))
        BY <2>3, <2>6
      <3> QED  BY <2>1, <2>4, <3>1 DEF Shaped, Promise!Edges
    <2> QED  BY <1>4, <2>3, <2>4, <2>6, <2>7
  <1> QED  BY <1>3, <1>4 DEF Decision

\* Deciding: what a run plans from an observation fits journal and note.
LEMMA ObserveStep ==
    ASSUME IInv, Observe
    PROVE  JournalInv' /\ RunInv' /\ NoteInv' /\ (pc' = "apply" <=> todo' # {})
  <1>1. /\ journal \in Seq(Record) /\ JournalInv /\ NoteInv /\ TypeOK
        /\ UNCHANGED <<base, journal, note, late>>
        /\ \A t \in Pending :
              Grouped(t) => Group(t) \intersect (Committed \union Aborted) = {}
        /\ Quiet => NoteFits
    BY DEF IInv, Observe, cards, RunInv, NoteInv, Quiet
  <1>2. JournalInv'
    BY <1>1, SameJournal
  <1>3. CASE Halt
    BY <1>1, <1>3, NoWork DEF Halt
  <1>4. CASE ~Halt
    <2>1. /\ \A c \in Channels : note[c] = Life(c)
          /\ IF Pending = {} THEN Start(Decision)
             ELSE Reconsider(CHOOSE t \in Pending : TRUE, Decision)
      BY <1>4 DEF Observe
    <2>2. ASSUME Pending = {}
          PROVE  RunInv' /\ NoteInv' /\ (pc' = "apply" <=> todo' # {})
      <3>1. /\ Start(Decision)
            /\ Decision # {} /\ Decision \intersect Prepared = {}
        BY <1>4, <2>1, <2>2 DEF Start
      <3>2. CASE \A t \in Decision : Grouped(t)
        <4>1. PICK g \in Decision : TRUE
          BY <3>1
        <4>2. /\ g \in Transition /\ Grouped(g) /\ Shaped(g)
              /\ Decision = Group(g) /\ \A m \in Group(g) : Fits(m)
              /\ \A c \in Channels : Life(c) = "MASTERED"
          BY <3>2, <4>1, <1>1, DecisionSteps
        <4>3. \A t \in Group(g) : Sound(t)
          <5>1. \A t \in Group(g) : Shaped(t) /\ Fits(t) /\ Group(t) = Group(g)
            BY <4>2, GroupMembers
          <5>2. \A m \in Group(g) : m.ch \in Channels /\ m \notin Committed
            <6>1. Committed \subseteq Prepared
              BY <1>1, EndedWasPrepared DEF JournalInv
            <6> QED  BY <6>1, <3>1, <4>2, GroupMembers DEF Transition
          <5> QED  BY <5>1, <5>2, <4>2 DEF Sound, GroupFits, Fits
        <4>4. /\ Group(g) \intersect (Committed \union Aborted) = {}
              /\ Group(g) \ Prepared = Group(g)
          BY <3>1, <4>2, <1>1, EndedWasPrepared DEF JournalInv
        <4>5. pc' = "apply" /\ todo' = MaterializeGroup(Group(g), Group(g) \ Prepared)
          BY <3>1, <3>2, <4>2, <4>4 DEF Start, Work
        <4>6. Quiet => NoteFits /\ All("MASTERED")
          BY <1>1, <2>1, <4>2 DEF All
        <4>7. Pending \subseteq Group(g)
          BY <2>2
        <4> QED  BY <1>1, <4>2, <4>3, <4>4, <4>5, <4>6, <4>7, StartGroup
      <3>3. CASE ~(\A t \in Decision : Grouped(t))
        <4>1. /\ Decision \subseteq Transition
              /\ \A t \in Decision : ~Grouped(t) /\ Sound(t)
              /\ \A t, u \in Decision : t.ch = u.ch => t = u
          BY <3>3, <1>1, DecisionSteps
        <4>2. pc' = "apply" /\ todo' = Materialize(Decision)
          BY <3>1, <3>3 DEF Start, Work
        <4>3. Quiet => late = {}
          BY <1>1 DEF NoteFits
        <4>4. PICK ts \in SUBSET Transition : ts = Decision
          BY <4>1
        <4> QED  BY <1>1, <2>1, <2>2, <3>1, <4>1, <4>2, <4>3, <4>4, StartUngrouped
      <3> QED  BY <3>2, <3>3
    <2>3. ASSUME NEW t \in Pending, Reconsider(t, Decision)
          PROVE  RunInv' /\ NoteInv' /\ (pc' = "apply" <=> todo' # {})
      <3>1. /\ t \in Transition /\ Sound(t) /\ Shaped(t)
            /\ ~Grouped(t) => Pending = {t}
            /\ Grouped(t) => /\ Pending \subseteq Group(t)
                             /\ Group(t) \intersect Pending = Pending
                             /\ \A u \in Pending : Grouped(u) /\ Group(u) = Group(t)
        BY <1>1, PendingGroup
      <3>2. \A u \in Pending : u.ch \in Channels
        BY <1>1, EndedWasPrepared DEF JournalInv, Pending, Transition
      <3>3. ASSUME Grouped(t)
            PROVE  /\ \A m \in Group(t) : Sound(m)
                   /\ \A c \in Channels : Life(c) = "MASTERED"
        <4>1. \A m \in Group(t) : /\ Life(m.ch) = "MASTERED" /\ m.ep = Episode(m.ch)
                                  /\ m \notin Committed
          BY <3>1, <3>3, <1>1 DEF Sound, GroupFits
        <4>2. \A m \in Group(t) : Shaped(m) /\ m.from = "MASTERED" /\ Group(m) = Group(t)
          BY <3>1, <3>3, GroupMembers
        <4>3. \A c \in Channels : \E m \in Group(t) : m.ch = c
          BY <3>1, <3>3, GroupMembers
        <4> QED  BY <4>1, <4>2, <4>3 DEF Sound, Fits, GroupFits
      <3>4. CASE Grouped(t) /\ Decision = Group(t)
        <4>1. pc' = "apply" /\ todo' = MaterializeGroup(Group(t), Group(t) \ Prepared)
          BY <2>3, <3>4 DEF Reconsider, Work
        <4>2. Quiet => NoteFits /\ All("MASTERED")
          BY <1>1, <2>1, <3>3, <3>4 DEF All
        <4> QED  BY <1>1, <3>1, <3>3, <3>4, <4>1, <4>2, StartGroup
      <3>5. CASE Grouped(t) /\ Decision # Group(t)
        <4>1. pc' = "apply" /\ todo' = AbortAll(Pending)
          BY <2>3, <3>1, <3>5 DEF Reconsider, Work
        <4>2. Quiet => /\ NoteFits
                       /\ \A u \in Pending : /\ note[u.ch] = Life(u.ch)
                                             /\ Grouped(u) => All("MASTERED")
          BY <1>1, <2>1, <3>2, <3>3, <3>5 DEF All
        <4> QED  BY <1>1, <3>5, <4>1, <4>2, StartAborting
      <3>6. CASE ~Grouped(t) /\ t \in Decision
        <4>1. pc' = "apply" /\ todo' = Resume(t)
          BY <2>3, <3>6 DEF Reconsider, Work
        <4> QED  BY <1>1, <3>1, <3>6, <4>1, ContinueUngrouped
      <3>7. CASE ~Grouped(t) /\ t \notin Decision
        <4>1. pc' = "apply" /\ todo' = AbortAll(Pending)
          BY <2>3, <3>1, <3>7 DEF Reconsider, Work
        <4>2. Quiet => /\ NoteFits
                       /\ \A u \in Pending : /\ note[u.ch] = Life(u.ch)
                                             /\ Grouped(u) => All("MASTERED")
          BY <1>1, <2>1, <3>1, <3>2, <3>7
        <4> QED  BY <1>1, <4>1, <4>2, StartAborting
      <3> QED  BY <3>4, <3>5, <3>6, <3>7
    <2>4. CASE Pending # {}
      <3> DEFINE t == CHOOSE u \in Pending : TRUE
      <3>1. t \in Pending
        BY <2>4
      <3>2. Reconsider(t, Decision)
        BY <2>1, <2>4
      <3> HIDE DEF t
      <3> QED  BY <1>2, <2>3, <3>1, <3>2
    <2> QED  BY <1>2, <2>2, <2>4
  <1> QED  BY <1>3, <1>4

-----------------------------------------------------------------------------
(* The steps of a run *)

\* A step that is due is before no other.
LEMMA DueStep ==
    ASSUME IInv, NEW names, NEW s \in Due(names)
    PROVE  /\ s \in todo /\ s \in StepType /\ s.do \in names /\ pc = "apply"
           /\ \A r \in todo : Precedes(s, r) /\ ~Before(r, s) /\ r \in StepType
           /\ PlanShape /\ PlanCovers /\ PlanFits /\ PlanOrder
           /\ journal \in Seq(Record) /\ JournalInv
           /\ UpdatesFit /\ (Quiet => NoteFits /\ EndsFit)
           /\ \A phase, u : u \in Planned(phase) <=> \E r \in todo : r.do = phase /\ u \in r.ts
           /\ \A phase, u : u \in Planned(phase)' <=> \E r \in todo' : r.do = phase /\ u \in r.ts
  BY DEF IInv, RunInv, Due, Before, NoteInv, Quiet, Planned

\* A failed call leaves nothing to do.
LEMMA FailStep ==
    ASSUME Fail, JournalInv',
           Quiet => NoteFits'
    PROVE  RunInv' /\ NoteInv' /\ pc' # "apply" /\ todo' = {}
  <1>1. pc' = "idle" /\ todo' = {}
    BY DEF Fail, Halt
  <1>2. \A phase : Planned(phase)' = {}
    BY <1>1 DEF Planned
  <1>3. RunInv'
    BY <1>1 DEF RunInv
  <1>4. UpdatesFit' /\ EndsFit'
    BY <1>1, <1>2 DEF UpdatesFit, EndsFit
  <1> QED  BY <1>1, <1>3, <1>4 DEF NoteInv, Quiet

\* A PREPARE appended by a step that is due.
LEMMA PrepareStep ==
    ASSUME IInv, NEW s \in Due({"PREPARE"}), NEW t \in s.ts, Advance(s) \/ Fail,
           journal' = Append(journal, [phase |-> "PREPARE", t |-> t]),
           UNCHANGED <<base, note, late>>
    PROVE  /\ journal' \in Seq(Record) /\ JournalInv' /\ RunInv' /\ NoteInv'
           /\ Committed' = Committed
           /\ \A c \in Channels : Life(c)' = Life(c)
  <1>1. /\ s \in todo /\ s \in StepType /\ s.do = "PREPARE" /\ s.ts = {t} /\ pc = "apply"
        /\ \A r \in todo : Precedes(s, r) /\ ~Before(r, s) /\ r \in StepType
        /\ PlanShape /\ PlanCovers /\ PlanFits /\ PlanOrder
        /\ journal \in Seq(Record) /\ JournalInv
        /\ UpdatesFit /\ (Quiet => NoteFits /\ EndsFit)
    <2>1. s \in todo /\ s.do = "PREPARE" /\ PlanShape
      BY DueStep
    <2>2. s.ts = {t}
      BY <2>1 DEF PlanShape, Phases
    <2> QED  BY <2>2, DueStep
  <1>d. /\ \A phase, u : u \in Planned(phase) <=> \E r \in todo : r.do = phase /\ u \in r.ts
        /\ \A phase, u : u \in Planned(phase)' <=> \E r \in todo' : r.do = phase /\ u \in r.ts
    BY DEF Planned
  <1>2. /\ t \in Planned("PREPARE") /\ t \notin Prepared
        /\ t \in Planned("COMMIT") /\ Sound(t) /\ t \in Transition
    BY <1>1, <1>d DEF PlanCovers, PlanFits, StepType
  <1>3. Planned("ABORT") = {}
    BY <1>1 DEF PlanShape
  <1>4. ASSUME NEW u \in Pending
        PROVE  Grouped(u) /\ Grouped(t) /\ u.detail = t.detail
    <2>1. u \in Planned("COMMIT") /\ u \in Prepared /\ u # t
      BY <1>1, <1>2, <1>3 DEF PlanCovers, Pending
    <2>2. Grouped(u)
      <3>1. SUFFICES ASSUME ~Grouped(u) PROVE FALSE
        OBVIOUS
      <3>2. PICK r \in todo : r.do = "COMMIT" /\ u \in r.ts
        BY <2>1, <1>d
      <3>3. r.round < s.round
        BY <1>1, <2>1, <3>1, <3>2 DEF PlanOrder
      <3> QED  BY <3>2, <3>3, <1>1 DEF Precedes, StepType
    <2> QED  BY <1>1, <1>2, <2>1, <2>2 DEF PlanFits
  <1>5. /\ journal' \in Seq(Record) /\ JournalInv'
        /\ Prepared' = Prepared \union {t} /\ Pending' = Pending \union {t}
        /\ Committed' = Committed /\ Aborted' = Aborted
        /\ \A u \in Transition : Sound(u) => Sound(u)'
        /\ \A c \in Channels : Life(c)' = Life(c)
    BY <1>1, <1>2, <1>4, PrepareKeepsJournal
  <1>6. ASSUME Quiet, Planned("COMMIT")' \subseteq Planned("COMMIT") PROVE NoteFits'
    <2>1. NoteFits
      BY <1>1, <1>6
    <2>2. /\ late' = {}
          /\ \A c \in Channels : note'[c] # Life(c)' =>
                \E u \in Pending' : u.ch = c /\ u.from = Life(c)' /\ u.to = note'[c]
      BY <2>1, <1>5 DEF NoteFits
    <2>3. \A u \in (Pending \union Planned("COMMIT"))' : u \in Pending \union Planned("COMMIT")
      BY <1>2, <1>5, <1>6
    <2>4. Grouped(t) => Group(t) \intersect Aborted = {}
      BY <1>1, <1>2 DEF PlanFits
    <2>5. \A u \in Pending' : Grouped(u) /\ Group(u) \intersect Aborted' # {} => All("MASTERED")
      BY <2>1, <2>4, <1>5 DEF NoteFits
    <2> QED  BY <2>1, <2>2, <2>3, <2>5 DEF NoteFits, All
  <1>7. CASE Fail
    <2>1. Planned("COMMIT")' = {}
      BY <1>7, <1>d DEF Fail, Halt
    <2> QED  BY <2>1, <1>5, <1>6, <1>7, FailStep
  <1>8. CASE Advance(s)
    <2>1. /\ todo' = todo \ {s}
          /\ pc' \in {"idle", "apply"} /\ (pc' = "idle" => todo' = {})
      BY <1>8 DEF Advance
    <2>2. /\ Planned("PREPARE")' = Planned("PREPARE") \ {t}
          /\ Planned("COMMIT")' = Planned("COMMIT") /\ Planned("ABORT")' = {}
      <3>1. \A r \in todo : r.do = "PREPARE" /\ t \in r.ts => r = s
        <4>1. ASSUME NEW r \in todo, r.do = "PREPARE", t \in r.ts PROVE r = s
          <5>1. r.ts = {t}
            BY <4>1, <1>1 DEF PlanShape, Phases
          <5> QED  BY <4>1, <5>1, <1>1 DEF PlanShape, Phases
        <4> QED  BY <4>1
      <3>2. \A u : u \in Planned("PREPARE")' <=> u \in Planned("PREPARE") \ {t}
        BY <3>1, <2>1, <1>1, <1>d
      <3>3. \A u : u \in Planned("COMMIT")' <=> u \in Planned("COMMIT")
        BY <2>1, <1>1, <1>d
      <3>4. \A u : u \notin Planned("ABORT")'
        BY <2>1, <1>3, <1>d
      <3> QED  BY <3>2, <3>3, <3>4
    <2>3. PlanShape'
      BY <1>1, <2>1, <2>2 DEF PlanShape
    <2>4. PlanCovers'
      BY <1>1, <1>2, <1>3, <1>5, <2>2 DEF PlanCovers
    <2>5. PlanFits'
      <3>1. \A u \in Planned("COMMIT") : u \in Transition
        BY <1>1, <1>d DEF StepType
      <3>2. \A u \in Planned("COMMIT")' : Sound(u)'
        BY <3>1, <1>1, <1>5, <2>2 DEF PlanFits
      <3>3. \A u \in Planned("COMMIT") : Grouped(u) =>
               /\ Group(u) \subseteq Prepared \union Planned("PREPARE")
               /\ Group(u) \intersect Aborted = {}
        BY <1>1 DEF PlanFits
      <3>4. \A u \in Planned("COMMIT")' : Grouped(u) =>
               /\ Group(u) \subseteq Prepared' \union Planned("PREPARE")'
               /\ Group(u) \intersect Aborted' = {}
        BY <3>3, <1>5, <2>2
      <3>5. \A u, v \in Planned("COMMIT")' :
               /\ u.ch = v.ch => u = v
               /\ Grouped(u) => Grouped(v) /\ u.detail = v.detail
        BY <1>1, <2>2 DEF PlanFits
      <3> QED  BY <3>2, <3>4, <3>5, <2>2 DEF PlanFits
    <2>6. PlanOrder'
      <3>1. SUFFICES ASSUME NEW r \in todo', NEW q \in todo', r.do = "PREPARE", q.do = "COMMIT",
                            NEW p \in r.ts, NEW u \in q.ts
                     PROVE  IF Grouped(u) THEN Before(r, q)
                            ELSE IF p = u THEN r.round = q.round /\ Before(r, q)
                            ELSE r.round # q.round /\ (u \in Prepared' => q.round < r.round)
        BY DEF PlanOrder
      <3>2. /\ r \in todo /\ q \in todo /\ r # s
            /\ IF Grouped(u) THEN Before(r, q)
               ELSE IF p = u THEN r.round = q.round /\ Before(r, q)
               ELSE r.round # q.round /\ (u \in Prepared => q.round < r.round)
        BY <3>1, <2>1, <1>1 DEF PlanOrder
      <3>3. ASSUME ~Grouped(u), p # u, u = t PROVE q.round < r.round
        <4>1. s.round = q.round
          BY <3>1, <3>2, <3>3, <1>1 DEF PlanOrder
        <4>2. s.round <= r.round
          BY <3>2, <1>1 DEF Precedes, StepType
        <4> QED  BY <3>2, <3>3, <4>1, <4>2, <1>1 DEF StepType
      <3> QED  BY <3>2, <3>3, <1>5
    <2>7. RunInv'
      BY <2>1, <2>3, <2>4, <2>5, <2>6, <1>1 DEF RunInv, IInv
    <2>u. UpdatesFit'
      <3>1. SUFFICES ASSUME NEW r \in todo', r.do = "update", NEW u \in r.ts
                     PROVE  /\ Grouped(u) => r.ts = Group(u)
                            /\ \E q \in todo' : q.do = "COMMIT" /\ q.ts = {u} /\ Before(r, q)
                            /\ \A q \in todo' : q.do = "PREPARE" /\ u \in q.ts => Before(q, r)
        BY DEF UpdatesFit
      <3>2. r \in todo /\ UpdatesFit /\ s.do = "PREPARE"
        BY <2>1, <1>1
      <3>3. /\ Grouped(u) => r.ts = Group(u)
            /\ \A q \in todo : q.do = "PREPARE" /\ u \in q.ts => Before(q, r)
        BY <3>1, <3>2 DEF UpdatesFit
      <3>4. PICK q \in todo : q.do = "COMMIT" /\ q.ts = {u} /\ Before(r, q)
        BY <3>1, <3>2 DEF UpdatesFit
      <3>5. q \in todo'
        BY <2>1, <3>2, <3>4
      <3> QED  BY <2>1, <3>3, <3>4, <3>5
    <2>8. ASSUME Quiet PROVE NoteFits' /\ EndsFit'
      <3>1. NoteFits'
        BY <2>2, <2>8, <1>6
      <3>3. EndsFit'
        BY <2>1, <2>2, <2>8, <1>1 DEF EndsFit
      <3> QED  BY <3>1, <3>3
    <2> QED  BY <2>u, <2>7, <2>8, <1>5 DEF NoteInv, Quiet
  <1> QED  BY <1>7, <1>8

\* A COMMIT appended by a step that is due.
LEMMA CommitStep ==
    ASSUME IInv, NEW s \in Due({"COMMIT"}), NEW t \in s.ts, Advance(s) \/ Fail,
           journal' = Append(journal, [phase |-> "COMMIT", t |-> t]),
           UNCHANGED <<base, note, late>>
    PROVE  /\ journal' \in Seq(Record) /\ JournalInv' /\ RunInv' /\ NoteInv'
           /\ t \in Pending /\ Sound(t)
           /\ Committed' = Committed \union {t} /\ Prepared' = Prepared /\ Aborted' = Aborted
           /\ \A c \in Channels : Life(c)' = IF c = t.ch THEN t.to ELSE Life(c)
           /\ Grouped(t) => Group(t) \subseteq Prepared /\ Group(t) \intersect Aborted = {}
  <1>1. /\ s \in todo /\ s \in StepType /\ s.do = "COMMIT" /\ s.ts = {t} /\ pc = "apply"
        /\ \A r \in todo : Precedes(s, r) /\ ~Before(r, s) /\ r \in StepType
        /\ PlanShape /\ PlanCovers /\ PlanFits /\ PlanOrder
        /\ journal \in Seq(Record) /\ JournalInv
        /\ UpdatesFit /\ (Quiet => NoteFits /\ EndsFit)
    <2>1. s \in todo /\ s.do = "COMMIT" /\ PlanShape
      BY DueStep
    <2>2. s.ts = {t}
      BY <2>1 DEF PlanShape, Phases
    <2> QED  BY <2>2, DueStep
  <1>d. /\ \A phase, u : u \in Planned(phase) <=> \E r \in todo : r.do = phase /\ u \in r.ts
        /\ \A phase, u : u \in Planned(phase)' <=> \E r \in todo' : r.do = phase /\ u \in r.ts
    BY DEF Planned
  <1>2. /\ t \in Planned("COMMIT") /\ Sound(t) /\ t \in Transition
    BY <1>1, <1>d DEF PlanFits, StepType
  <1>3. Planned("ABORT") = {}
    BY <1>1 DEF PlanShape
  <1>4. ASSUME NEW p \in Planned("PREPARE") PROVE p # t /\ ~Grouped(t)
    <2>1. PICK r \in todo : r.do = "PREPARE" /\ p \in r.ts
      BY <1>d
    <2>2. ~Before(r, s)
      BY <1>1
    <2> QED  BY <2>1, <2>2, <1>1 DEF PlanOrder
  <1>5. t \in Pending
    BY <1>1, <1>2, <1>4 DEF PlanCovers
  <1>6. Grouped(t) => Group(t) \subseteq Prepared /\ Group(t) \intersect Aborted = {}
    BY <1>1, <1>2, <1>4 DEF PlanFits
  <1>7. /\ journal' \in Seq(Record) /\ JournalInv'
        /\ Prepared' = Prepared /\ Pending' = Pending \ {t}
        /\ Committed' = Committed \union {t} /\ Aborted' = Aborted
        /\ \A u \in Transition :
              Sound(u) /\ u.ch # t.ch /\ (Grouped(u) => t \in Group(u)) => Sound(u)'
        /\ \A c \in Channels : Life(c)' = IF c = t.ch THEN t.to ELSE Life(c)
    BY <1>1, <1>5, <1>6, CommitKeepsJournal
  <1>8. \A q \in todo : q.do = "COMMIT" /\ t \in q.ts => q = s
    <2>1. ASSUME NEW q \in todo, q.do = "COMMIT", t \in q.ts PROVE q = s
      <3>1. q.ts = {t}
        BY <2>1, <1>1 DEF PlanShape, Phases
      <3> QED  BY <2>1, <3>1, <1>1 DEF PlanShape, Phases
    <2> QED  BY <2>1
  <1>9. ASSUME Quiet PROVE note[t.ch] = t.to
    <2>1. SUFFICES ASSUME NEW r \in todo, r.do = "update", t \in r.ts PROVE FALSE
      BY <1>1, <1>9 DEF EndsFit
    <2>2. PICK q \in todo : q.do = "COMMIT" /\ q.ts = {t} /\ Before(r, q)
      BY <2>1, <1>1, <1>9 DEF UpdatesFit
    <2> QED  BY <2>2, <1>1, <1>8
  <1>10. ASSUME Quiet, Planned("COMMIT")' \subseteq Planned("COMMIT") PROVE NoteFits'
    <2>1. NoteFits
      BY <1>1, <1>10
    <2>2. ASSUME NEW c \in Channels, note'[c] # Life(c)'
          PROVE  \E u \in Pending' : u.ch = c /\ u.from = Life(c)' /\ u.to = note'[c]
      <3>1. c # t.ch
        BY <2>2, <1>7, <1>9, <1>10
      <3>2. Life(c)' = Life(c)
        BY <3>1, <1>7
      <3>3. PICK u \in Pending : u.ch = c /\ u.from = Life(c) /\ u.to = note[c]
        BY <2>1, <2>2, <3>2 DEF NoteFits
      <3> QED  BY <3>1, <3>2, <3>3, <1>7
    <2>3. \A u \in (Pending \union Planned("COMMIT"))' : u \in Pending \union Planned("COMMIT")
      BY <1>7, <1>10
    <2>4. \A u \in Pending' : Grouped(u) /\ Group(u) \intersect Aborted' # {} => All("MASTERED")
      BY <2>1, <1>7 DEF NoteFits
    <2>5. late' = {}
      BY <2>1 DEF NoteFits
    <2> QED  BY <2>1, <2>2, <2>3, <2>4, <2>5 DEF NoteFits, All
  <1>11. CASE Fail
    <2>1. Planned("COMMIT")' = {}
      BY <1>11, <1>d DEF Fail, Halt
    <2> QED  BY <2>1, <1>2, <1>5, <1>6, <1>7, <1>10, <1>11, FailStep
  <1>12. CASE Advance(s)
    <2>1. /\ todo' = todo \ {s}
          /\ pc' \in {"idle", "apply"} /\ (pc' = "idle" => todo' = {})
      BY <1>12 DEF Advance
    <2>2. /\ Planned("PREPARE")' = Planned("PREPARE")
          /\ Planned("COMMIT")' = Planned("COMMIT") \ {t} /\ Planned("ABORT")' = {}
      <3>1. \A u : u \in Planned("COMMIT")' <=> u \in Planned("COMMIT") \ {t}
        BY <1>8, <2>1, <1>1, <1>d
      <3>2. \A u : u \in Planned("PREPARE")' <=> u \in Planned("PREPARE")
        BY <2>1, <1>1, <1>d
      <3>3. \A u : u \notin Planned("ABORT")'
        BY <2>1, <1>3, <1>d
      <3> QED  BY <3>1, <3>2, <3>3
    <2>3. PlanShape'
      BY <1>1, <2>1, <2>2 DEF PlanShape
    <2>4. PlanCovers'
      BY <1>1, <1>3, <1>4, <1>7, <2>2 DEF PlanCovers
    <2>5. PlanFits'
      <3>1. \A u \in Planned("COMMIT") : u \in Transition
        BY <1>1, <1>d DEF StepType
      <3>2. ASSUME NEW u \in Planned("COMMIT")' PROVE Sound(u)'
        <4>1. u \in Planned("COMMIT") /\ u # t /\ Sound(u) /\ u \in Transition
          BY <3>1, <2>2, <1>1 DEF PlanFits
        <4>2. u.ch # t.ch /\ (Grouped(u) => Grouped(t) /\ u.detail = t.detail)
          BY <4>1, <1>1, <1>2 DEF PlanFits
        <4>3. Grouped(u) => t \in Group(u)
          BY <4>1, <4>2, <1>2, SameGroup DEF Sound
        <4> QED  BY <4>1, <4>2, <4>3, <1>7
      <3>4. \A u \in Planned("COMMIT")' : Grouped(u) =>
               /\ Group(u) \subseteq Prepared' \union Planned("PREPARE")'
               /\ Group(u) \intersect Aborted' = {}
        BY <1>1, <1>7, <2>2 DEF PlanFits
      <3>5. \A u, v \in Planned("COMMIT")' :
               /\ u.ch = v.ch => u = v
               /\ Grouped(u) => Grouped(v) /\ u.detail = v.detail
        BY <1>1, <2>2 DEF PlanFits
      <3> QED  BY <3>2, <3>4, <3>5, <2>2 DEF PlanFits
    <2>6. PlanOrder'
      BY <1>1, <1>7, <2>1 DEF PlanOrder
    <2>7. RunInv'
      BY <2>1, <2>3, <2>4, <2>5, <2>6, <1>1 DEF RunInv, IInv
    <2>u. UpdatesFit'
      <3>1. SUFFICES ASSUME NEW r \in todo', r.do = "update", NEW u \in r.ts
                     PROVE  /\ Grouped(u) => r.ts = Group(u)
                            /\ \E q \in todo' : q.do = "COMMIT" /\ q.ts = {u} /\ Before(r, q)
                            /\ \A q \in todo' : q.do = "PREPARE" /\ u \in q.ts => Before(q, r)
        BY DEF UpdatesFit
      <3>2. r \in todo
        BY <2>1, <3>1
      <3>3. PICK q \in todo : q.do = "COMMIT" /\ q.ts = {u} /\ Before(r, q)
        BY <3>1, <3>2, <1>1 DEF UpdatesFit
      <3>4. q # s
        BY <3>2, <3>3, <1>1
      <3> QED  BY <2>1, <3>1, <3>2, <3>3, <3>4, <1>1 DEF UpdatesFit
    <2>8. ASSUME Quiet PROVE NoteFits' /\ EndsFit'
      <3>1. NoteFits'
        BY <2>2, <2>8, <1>10
      <3>3. EndsFit'
        <4>1. \A r \in todo : r.do = "update" => r \in todo'
          BY <2>1, <1>1
        <4> QED  BY <4>1, <2>1, <2>2, <2>8, <1>1 DEF EndsFit
      <3> QED  BY <3>1, <3>3
    <2>9. NoteInv'
      BY <2>u, <2>8 DEF NoteInv, Quiet
    <2> QED  BY <2>7, <2>9, <1>2, <1>5, <1>6, <1>7
  <1> QED  BY <1>11, <1>12

\* An ABORT appended by a step that is due.
LEMMA AbortStep ==
    ASSUME IInv, NEW s \in Due({"ABORT"}), NEW t \in s.ts, Advance(s) \/ Fail,
           journal' = Append(journal, [phase |-> "ABORT", t |-> t]),
           UNCHANGED <<base, note, late>>
    PROVE  /\ journal' \in Seq(Record) /\ JournalInv' /\ RunInv' /\ NoteInv'
           /\ Committed' = Committed
           /\ \A c \in Channels : Life(c)' = Life(c)
  <1>1. /\ s \in todo /\ s \in StepType /\ s.do = "ABORT" /\ s.ts = {t} /\ pc = "apply"
        /\ \A r \in todo : r \in StepType
        /\ PlanShape /\ PlanCovers /\ PlanFits /\ PlanOrder
        /\ journal \in Seq(Record) /\ JournalInv
        /\ UpdatesFit /\ (Quiet => NoteFits /\ EndsFit)
    <2>1. s \in todo /\ s.do = "ABORT" /\ PlanShape
      BY DueStep
    <2>2. s.ts = {t}
      BY <2>1 DEF PlanShape, Phases
    <2> QED  BY <2>2, DueStep
  <1>d. /\ \A phase, u : u \in Planned(phase) <=> \E r \in todo : r.do = phase /\ u \in r.ts
        /\ \A phase, u : u \in Planned(phase)' <=> \E r \in todo' : r.do = phase /\ u \in r.ts
    BY DEF Planned
  <1>2. t \in Planned("ABORT")
    BY <1>1, <1>d
  <1>3. \A r \in todo : r.do = "ABORT"
    BY <1>1, <1>2 DEF PlanShape
  <1>4. Planned("COMMIT") = {} /\ Planned("PREPARE") = {}
    <2>1. \A u : u \notin Planned("COMMIT") /\ u \notin Planned("PREPARE")
      BY <1>3, <1>d
    <2> QED  BY <2>1
  <1>5. t \in Pending /\ (Grouped(t) => Group(t) \intersect Committed = {})
    BY <1>1, <1>2 DEF PlanCovers, PlanFits
  <1>6. /\ journal' \in Seq(Record) /\ JournalInv'
        /\ Prepared' = Prepared /\ Pending' = Pending \ {t}
        /\ Committed' = Committed /\ Aborted' = Aborted \union {t}
        /\ \A c \in Channels : Life(c)' = Life(c)
    BY <1>1, <1>5, AbortKeepsJournal
  <1>t. \A u \in Planned("ABORT") : u.ch \in Channels
    BY <1>1, <1>d DEF StepType, Transition
  <1>7. ASSUME Quiet, Planned("COMMIT")' = {} PROVE NoteFits'
    <2>1. NoteFits /\ EndsFit
      BY <1>1, <1>7
    <2>2. ASSUME NEW c \in Channels, note'[c] # Life(c)'
          PROVE  \E u \in Pending' : u.ch = c /\ u.from = Life(c)' /\ u.to = note'[c]
      <3>1. Life(c)' = Life(c)
        BY <1>6
      <3>2. c # t.ch
        BY <2>1, <2>2, <3>1, <1>2 DEF EndsFit
      <3>3. PICK u \in Pending : u.ch = c /\ u.from = Life(c) /\ u.to = note[c]
        BY <2>1, <2>2, <3>1 DEF NoteFits
      <3> QED  BY <3>1, <3>2, <3>3, <1>6
    <2>3. \A u \in Pending' : Grouped(u) => All("MASTERED")
      BY <2>1, <1>1, <1>4, <1>6 DEF EndsFit, PlanCovers
    <2>5. late' = {}
      BY <2>1 DEF NoteFits
    <2> QED  BY <2>2, <2>3, <2>5, <1>7 DEF NoteFits, All
  <1>8. CASE Fail
    <2>1. Planned("COMMIT")' = {}
      <3>1. \A u : u \notin Planned("COMMIT")'
        BY <1>8, <1>d DEF Fail, Halt
      <3> QED  BY <3>1
    <2> QED  BY <2>1, <1>6, <1>7, <1>8, FailStep
  <1>9. CASE Advance(s)
    <2>1. /\ todo' = todo \ {s}
          /\ pc' \in {"idle", "apply"} /\ (pc' = "idle" => todo' = {})
      BY <1>9 DEF Advance
    <2>2. /\ Planned("PREPARE")' = {} /\ Planned("COMMIT")' = {}
          /\ Planned("ABORT")' = Planned("ABORT") \ {t}
      <3>1. \A r \in todo : t \in r.ts => r = s
        <4>1. ASSUME NEW r \in todo, t \in r.ts PROVE r = s
          <5>1. r.do = "ABORT" /\ r.ts = {t}
            BY <1>1, <1>3, <4>1 DEF PlanShape, Phases
          <5> QED  BY <5>1, <1>1 DEF PlanShape, Phases
        <4> QED  BY <4>1
      <3>2. \A u : u \in Planned("ABORT")' <=> u \in Planned("ABORT") \ {t}
        BY <3>1, <2>1, <1>1, <1>d
      <3>3. \A u : u \notin Planned("COMMIT")' /\ u \notin Planned("PREPARE")'
        BY <2>1, <1>3, <1>d
      <3> QED  BY <3>2, <3>3
    <2>3. PlanShape'
      BY <1>1, <1>3, <2>1 DEF PlanShape
    <2>4. PlanCovers'
      BY <1>1, <1>4, <1>6, <2>2 DEF PlanCovers
    <2>5. PlanFits'
      BY <1>1, <1>6, <2>2 DEF PlanFits
    <2>6. PlanOrder'
      BY <1>3, <2>1 DEF PlanOrder
    <2>7. RunInv'
      BY <2>1, <2>3, <2>4, <2>5, <2>6, <1>1 DEF RunInv, IInv
    <2>u. UpdatesFit'
      BY <2>1, <1>3 DEF UpdatesFit
    <2>8. ASSUME Quiet PROVE NoteFits' /\ EndsFit'
      <3>1. NoteFits'
        BY <2>2, <2>8, <1>7
      <3>3. EndsFit'
        BY <2>1, <2>2, <2>8, <1>1, <1>3, <1>6, <1>t DEF EndsFit, All
      <3> QED  BY <3>1, <3>3
    <2>9. NoteInv'
      BY <2>u, <2>8 DEF NoteInv, Quiet
    <2> QED  BY <2>7, <2>9, <1>6
  <1> QED  BY <1>8, <1>9

\* Taking a step that is no append leaves what the run will append.
LEMMA CallDone ==
    ASSUME IInv, NEW s \in Due(Calls), Advance(s), UNCHANGED <<base, journal>>
    PROVE  /\ RunInv'
           /\ \A phase \in Phases : Planned(phase)' = Planned(phase)
  <1>1. /\ s \in todo /\ s.do \in Calls /\ pc = "apply"
        /\ PlanShape /\ PlanCovers /\ PlanFits /\ PlanOrder
        /\ todo \subseteq StepType
    BY DEF Due, IInv, RunInv
  <1>2. /\ todo' = todo \ {s}
        /\ pc' \in {"idle", "apply"} /\ (pc' = "idle" => todo' = {})
    BY DEF Advance
  <1>3. \A phase \in Phases : Planned(phase)' = Planned(phase)
    <2>1. /\ \A phase, u : u \in Planned(phase) <=> \E r \in todo : r.do = phase /\ u \in r.ts
          /\ \A phase, u : u \in Planned(phase)' <=> \E r \in todo' : r.do = phase /\ u \in r.ts
      BY DEF Planned
    <2>2. s.do \notin Phases
      BY <1>1 DEF Phases, Calls
    <2>3. ASSUME NEW phase \in Phases
          PROVE  \A u : u \in Planned(phase)' <=> u \in Planned(phase)
      BY <2>1, <2>2, <1>2
    <2> QED  BY <2>3
  <1>p. /\ Planned("PREPARE")' = Planned("PREPARE") /\ Planned("COMMIT")' = Planned("COMMIT")
        /\ Planned("ABORT")' = Planned("ABORT")
    BY <1>3 DEF Phases
  <1>4. /\ Prepared' = Prepared /\ Committed' = Committed /\ Aborted' = Aborted
        /\ Pending' = Pending
        /\ \A t : Sound(t) => Sound(t)'
    BY SameJournal
  <1>5. PlanShape'
    BY <1>1, <1>2, <1>p DEF PlanShape
  <1>6. PlanCovers'
    BY <1>1, <1>4, <1>p DEF PlanCovers
  <1>7. PlanFits'
    BY <1>1, <1>4, <1>p DEF PlanFits
  <1>8. PlanOrder'
    BY <1>1, <1>2, <1>4 DEF PlanOrder
  <1>9. RunInv'
    BY <1>1, <1>2, <1>5, <1>6, <1>7, <1>8 DEF RunInv
  <1> QED  BY <1>3, <1>9

\* A call that is neither an append nor an update.
LEMMA CallStep ==
    ASSUME IInv, NEW s \in Due(Calls \ {"update"}), Advance(s) \/ Fail \/ Halt,
           UNCHANGED <<base, journal, note, late>>
    PROVE  JournalInv' /\ RunInv' /\ NoteInv'
  <1>1. JournalInv /\ NoteInv
    BY DEF IInv
  <1>2. CASE Halt
    BY <1>1, <1>2, NoWork DEF Halt
  <1>3. CASE Advance(s)
    <2>1. s \in Due(Calls) /\ s.do # "update" /\ pc = "apply"
      BY DEF Due
    <2>2. /\ RunInv'
          /\ \A phase \in Phases : Planned(phase)' = Planned(phase)
      BY <1>3, <2>1, CallDone
    <2>3. Planned("COMMIT")' = Planned("COMMIT") /\ Planned("ABORT")' = Planned("ABORT")
      BY <2>2 DEF Phases
    <2>4. /\ Aborted' = Aborted /\ Pending' = Pending /\ JournalInv'
          /\ \A c : Life(c)' = Life(c)
      BY <1>1, SameJournal
    <2>5. /\ \A r \in todo' : r \in todo
          /\ \A r \in todo : r.do \in {"update", "COMMIT"} => r \in todo'
      <3>1. s.do \notin {"update", "COMMIT"}
        BY <2>1 DEF Due, Calls
      <3> QED  BY <3>1, <1>3 DEF Advance
    <2>6. UpdatesFit'
      <3>1. ASSUME NEW r \in todo', r.do = "update", NEW t \in r.ts
            PROVE  /\ Grouped(t) => r.ts = Group(t)
                   /\ \E q \in todo' : q.do = "COMMIT" /\ q.ts = {t} /\ Before(r, q)
                   /\ \A q \in todo' : q.do = "PREPARE" /\ t \in q.ts => Before(q, r)
        <4>1. UpdatesFit
          BY <1>1 DEF NoteInv
        <4>2. PICK q \in todo : q.do = "COMMIT" /\ q.ts = {t} /\ Before(r, q)
          BY <2>5, <3>1, <4>1 DEF UpdatesFit
        <4> QED  BY <2>5, <3>1, <4>1, <4>2 DEF UpdatesFit
      <3> QED  BY <3>1 DEF UpdatesFit
    <2>7. ASSUME NoteFits, EndsFit PROVE NoteFits' /\ EndsFit'
      <3>1. NoteFits'
        BY <2>3, <2>4, <2>7 DEF NoteFits, All
      <3>2. EndsFit'
        <4>1. \A r \in todo' : r.do = "COMMIT" => \A t \in r.ts :
                 \/ note'[t.ch] = t.to
                 \/ \E q \in todo' : q.do = "update" /\ t \in q.ts
          BY <2>5, <2>7 DEF EndsFit
        <4> QED  BY <4>1, <2>3, <2>4, <2>7 DEF EndsFit, All
      <3> QED  BY <3>1, <3>2
    <2> QED  BY <1>1, <2>2, <2>4, <2>6, <2>7 DEF NoteInv
  <1>4. CASE Fail
    BY <1>2, <1>4 DEF Fail
  <1> QED  BY <1>2, <1>3, <1>4

\* Written shows the target of each transition, when their channels differ.
LEMMA WrittenTargets ==
    ASSUME NEW ts \in SUBSET Transition, \A t, u \in ts : t.ch = u.ch => t = u
    PROVE  /\ \A t \in ts : Written(ts)[t.ch] = t.to
           /\ \A c \in Channels : (\A t \in ts : t.ch # c) => Written(ts)[c] = note[c]
  <1>1. ASSUME NEW t \in ts PROVE Written(ts)[t.ch] = t.to
    <2>1. t.ch \in Channels
      BY DEF Transition
    <2>2. (CHOOSE u \in ts : u.ch = t.ch) = t
      OBVIOUS
    <2> QED  BY <2>1, <2>2 DEF Written
  <1>2. ASSUME NEW c \in Channels, \A t \in ts : t.ch # c PROVE Written(ts)[c] = note[c]
    BY <1>2 DEF Written
  <1> QED  BY <1>1, <1>2

\* What an update writes is pending and leaves the committed state.
LEMMA UpdateTargets ==
    ASSUME IInv, NEW s \in Due({"update"})
    PROVE  /\ \A t \in s.ts : /\ t \in Planned("COMMIT") /\ t \in Pending
                             /\ t.from = Life(t.ch)
           /\ \A t, u \in s.ts : t.ch = u.ch => t = u
           /\ s.ts \in SUBSET Transition
           /\ \A c \in Channels : \/ \E t \in s.ts : t.ch = c /\ Written(s.ts)[c] = t.to
                                  \/ Written(s.ts)[c] = note[c]
  <1>1. /\ s \in todo /\ s \in StepType /\ s.do = "update"
        /\ PlanCovers /\ PlanFits /\ UpdatesFit
    BY DueStep
  <1>2. \A phase, u : u \in Planned(phase) <=> \E r \in todo : r.do = phase /\ u \in r.ts
    BY DEF Planned
  <1>3. ASSUME NEW t \in s.ts PROVE t \in Planned("COMMIT")
    <2>1. PICK r \in todo : r.do = "COMMIT" /\ r.ts = {t}
      BY <1>1 DEF UpdatesFit
    <2> QED  BY <2>1, <1>2
  <1>4. ASSUME NEW t \in s.ts PROVE t \in Pending
    <2>1. t \notin Planned("PREPARE")
      <3>1. ASSUME NEW r \in todo, r.do = "PREPARE", t \in r.ts PROVE FALSE
        BY <1>1, <3>1, DueStep DEF UpdatesFit
      <3> QED  BY <3>1, <1>2
    <2> QED  BY <1>1, <1>3, <2>1 DEF PlanCovers
  <1>5. \A t \in s.ts : t.from = Life(t.ch)
    BY <1>1, <1>3 DEF PlanFits, Sound, Fits
  <1>6. \A t, u \in s.ts : t.ch = u.ch => t = u
    BY <1>1, <1>3 DEF PlanFits
  <1>7. s.ts \in SUBSET Transition
    BY <1>1 DEF StepType
  <1> QED  BY <1>3, <1>4, <1>5, <1>6, <1>7, WrittenTargets

\* An update of the note, answered or not.
LEMMA UpdateStep ==
    ASSUME IInv, UpdateNoteStates
    PROVE  JournalInv' /\ RunInv' /\ NoteInv'
  <1>0. UNCHANGED <<base, journal>>
    BY DEF UpdateNoteStates
  <1>1. PICK s \in Due({"update"}) :
            \/ (Advance(s) \/ Fail) /\ note' = Written(s.ts) /\ UNCHANGED late
            \/ LateUpdates /\ Fail /\ late' = late \union {s.ts} /\ UNCHANGED note
    BY DEF UpdateNoteStates
  <1>2. /\ s \in todo /\ s \in StepType /\ s.do = "update" /\ pc = "apply"
        /\ \A r \in todo : ~Before(r, s) /\ r \in StepType
        /\ PlanShape /\ PlanCovers /\ PlanFits /\ PlanOrder
        /\ JournalInv /\ journal \in Seq(Record)
        /\ UpdatesFit /\ (Quiet => NoteFits /\ EndsFit)
    BY DueStep
  <1>d. \A phase, u : u \in Planned(phase) <=> \E r \in todo : r.do = phase /\ u \in r.ts
    BY DEF Planned
  <1>3. /\ Prepared' = Prepared /\ Aborted' = Aborted /\ Pending' = Pending /\ JournalInv'
        /\ \A c : Life(c)' = Life(c)
    BY <1>0, <1>2, SameJournal
  <1>4. s \in Due(Calls)
    BY DEF Due, Calls
  <1>5. ASSUME Advance(s) PROVE RunInv' /\ \A phase \in Phases : Planned(phase)' = Planned(phase)
    BY <1>0, <1>4, <1>5, CallDone
  <1>6. ASSUME Fail PROVE RunInv'
    BY <1>6 DEF Fail, Halt, RunInv
  <1>7. /\ \A t \in s.ts : /\ t \in Planned("COMMIT") /\ t \in Pending
                          /\ t.from = Life(t.ch)
        /\ \A t, u \in s.ts : t.ch = u.ch => t = u
        /\ s.ts \in SUBSET Transition
        /\ \A c \in Channels : \/ \E t \in s.ts : t.ch = c /\ Written(s.ts)[c] = t.to
                               \/ Written(s.ts)[c] = note[c]
    BY UpdateTargets
  <1>8. ASSUME Quiet, note' = Written(s.ts), late' = late,
               Planned("COMMIT")' \subseteq Planned("COMMIT")
        PROVE  NoteFits'
    <2>1. NoteFits
      BY <1>2, <1>8
    <2>2. ASSUME NEW c \in Channels, note'[c] # Life(c)'
          PROVE  \E u \in Pending' : u.ch = c /\ u.from = Life(c)' /\ u.to = note'[c]
      BY <2>1, <2>2, <1>3, <1>7, <1>8 DEF NoteFits
    <2>3. ASSUME NEW t \in (Pending \union Planned("COMMIT"))', Grouped(t)
          PROVE  \A c \in Channels : note'[c] = IF s.ts = {} THEN note[c] ELSE "DORMANT"
      <3>1. CASE s.ts = {}
        BY <3>1, <1>7, <1>8
      <3>2. CASE s.ts # {}
        <4>1. PICK u \in s.ts : TRUE
          BY <3>2
        <4>2. t \in Planned("COMMIT")
          <5>1. Planned("ABORT") = {}
            BY <1>2 DEF PlanShape
          <5> QED  BY <2>3, <5>1, <1>2, <1>3, <1>8 DEF PlanCovers
        <4>3. Grouped(u) /\ Shaped(u) /\ u \in Transition
          BY <2>3, <4>1, <4>2, <1>2, <1>7, <1>8 DEF PlanFits, Sound
        <4>4. s.ts = Group(u)
          BY <4>1, <4>3, <1>2, <1>8 DEF UpdatesFit
        <4>5. /\ \A c \in Channels : \E m \in s.ts : m.ch = c
              /\ \A m \in s.ts : m.to = "DORMANT"
          BY <4>3, <4>4, GroupMembers DEF Grouped
        <4> QED  BY <4>5, <3>2, <1>7, <1>8, WrittenTargets
      <3> QED  BY <3>1, <3>2
    <2>4. \A t \in (Pending \union Planned("COMMIT"))' :
             Grouped(t) => All("MASTERED")' \/ All("DORMANT")'
      <3>1. \A t \in (Pending \union Planned("COMMIT"))' : t \in Pending \union Planned("COMMIT")
        BY <1>3, <1>8
      <3>2. CASE s.ts = {}
        <4>1. \A t \in (Pending \union Planned("COMMIT"))' :
                 Grouped(t) => All("MASTERED") \/ All("DORMANT")
          BY <2>1, <3>1 DEF NoteFits
        <4> QED  BY <2>3, <3>2, <4>1 DEF All
      <3>3. CASE s.ts # {}
        BY <2>3, <3>3 DEF All
      <3> QED  BY <3>2, <3>3
    <2>5. ASSUME NEW t \in Pending', Grouped(t), Group(t) \intersect Aborted' # {}
          PROVE  FALSE
      <3>1. t \in Planned("COMMIT")
        <4>1. Planned("ABORT") = {}
          BY <1>2 DEF PlanShape
        <4> QED  BY <2>5, <4>1, <1>2, <1>3 DEF PlanCovers
      <3> QED  BY <2>5, <3>1, <1>2, <1>3 DEF PlanFits
    <2>6. late' = {}
      BY <2>1, <1>8 DEF NoteFits
    <2> QED  BY <2>2, <2>4, <2>5, <2>6 DEF NoteFits
  <1>9. CASE Advance(s) /\ note' = Written(s.ts) /\ UNCHANGED late
    <2>1. /\ RunInv'
          /\ Planned("COMMIT")' = Planned("COMMIT") /\ Planned("ABORT")' = Planned("ABORT")
      BY <1>5, <1>9 DEF Phases
    <2>2. /\ todo' = todo \ {s}
          /\ \A r \in todo : r.do = "COMMIT" => r \in todo'
      BY <1>2, <1>9 DEF Advance
    <2>u. UpdatesFit'
      <3>1. ASSUME NEW r \in todo', r.do = "update", NEW t \in r.ts
            PROVE  /\ Grouped(t) => r.ts = Group(t)
                   /\ \E q \in todo' : q.do = "COMMIT" /\ q.ts = {t} /\ Before(r, q)
                   /\ \A q \in todo' : q.do = "PREPARE" /\ t \in q.ts => Before(q, r)
        <4>1. r \in todo /\ UpdatesFit
          BY <2>2, <3>1, <1>2
        <4>2. PICK q \in todo : q.do = "COMMIT" /\ q.ts = {t} /\ Before(r, q)
          BY <3>1, <4>1 DEF UpdatesFit
        <4> QED  BY <2>2, <3>1, <4>1, <4>2 DEF UpdatesFit
      <3> QED  BY <3>1 DEF UpdatesFit
    <2>3. ASSUME Quiet PROVE NoteFits' /\ EndsFit'
      <3>1. NoteFits'
        BY <2>1, <2>3, <1>8, <1>9
      <3>3. EndsFit'
        <4>1. Planned("ABORT")' = {}
          BY <2>1, <1>2 DEF PlanShape
        <4>2. ASSUME NEW r \in todo', r.do = "COMMIT", NEW t \in r.ts
              PROVE  \/ note'[t.ch] = t.to
                     \/ \E q \in todo' : q.do = "update" /\ t \in q.ts
          <5>1. CASE t \in s.ts
            BY <5>1, <2>3, <1>7, <1>9, WrittenTargets
          <5>2. CASE t \notin s.ts
            <6>1. t \in Planned("COMMIT") /\ t.ch \in Channels /\ r \in todo
              BY <2>2, <4>2, <1>2, <1>d DEF StepType, Transition
            <6>2. \A u \in s.ts : u.ch # t.ch
              BY <5>2, <6>1, <2>3, <1>2, <1>7 DEF PlanFits
            <6>3. note'[t.ch] = note[t.ch]
              BY <6>1, <6>2, <2>3, <1>7, <1>9, WrittenTargets
            <6> QED  BY <5>2, <6>1, <6>3, <2>2, <2>3, <4>2, <1>2 DEF EndsFit
          <5> QED  BY <5>1, <5>2
        <4> QED  BY <4>1, <4>2 DEF EndsFit
      <3> QED  BY <3>1, <3>3
    <2> QED  BY <2>u, <2>1, <2>3, <1>3 DEF NoteInv, Quiet
  <1>10. CASE Fail /\ note' = Written(s.ts) /\ UNCHANGED late
    <2>1. Planned("COMMIT")' = {}
      BY <1>10 DEF Fail, Halt, Planned
    <2> QED  BY <2>1, <1>3, <1>8, <1>10, FailStep
  <1>11. CASE LateUpdates /\ Fail
    <2>1. UpdatesFit'
      BY <1>11 DEF Fail, Halt, UpdatesFit
    <2> QED  BY <2>1, <1>3, <1>6, <1>11 DEF NoteInv
  <1> QED  BY <1>1, <1>9, <1>10, <1>11

-----------------------------------------------------------------------------
(* The invariant, the refinement and the theorems *)

\* Every step of a run keeps the types, and the journal a sequence of records.
LEMMA RunTypes ==
    ASSUME TypeOK, journal \in Seq(Record), RunInv, Load \/ Observe \/ Interrupted
    PROVE  /\ journal' \in Seq(Record)
           /\ (pc' \in {"idle", "observe", "apply"} /\ (pc' = "apply") = (todo' # {})) => TypeOK'
  <1>1. faults' \in 0 .. MaxFaults /\ unsynced' \in BOOLEAN
    <2>1. CASE Load
      BY <2>1 DEF TypeOK, Load
    <2>2. CASE Observe
      BY <2>2 DEF TypeOK, Observe, evidence
    <2>3. CASE Interrupted
      <3>1. faults \in Nat /\ faults' = faults + 1 /\ faults < MaxFaults
        BY <2>3 DEF TypeOK, Interrupted, Fail
      <3>2. unsynced' = unsynced
        BY <2>3 DEF Interrupted, evidence
      <3> QED  BY <3>1, <3>2, ReconcileAssumption DEF TypeOK
    <2> QED  BY <2>1, <2>2, <2>3
  <1> QED  BY <1>1 DEF TypeOK, Load, Observe, Interrupted, Fail, evidence, cards

\* Appends and calls keep the types.
LEMMA StepTypes ==
    ASSUME TypeOK, journal \in Seq(Record), RunInv,
           \/ AppendStateEvent \/ UpdateNoteStates \/ VerifyNoteStates
           \/ SuspendCards \/ ReadCardQueues,
           journal' \in Seq(Record)
    PROVE  TypeOK'
  <1>1. ASSUME NEW s \in todo, pc = "apply", Advance(s) \/ Fail \/ (Halt /\ UNCHANGED faults)
        PROVE  /\ pc' \in {"idle", "observe", "apply"} /\ (pc' = "apply") = (todo' # {})
               /\ faults' \in 0 .. MaxFaults
    BY <1>1, ReconcileAssumption DEF TypeOK, Advance, Fail, Halt
  <1>2. ASSUME NEW ts \in SUBSET Transition PROVE Written(ts) \in [Channels -> States]
    <2>1. ASSUME NEW c \in Channels, NEW t \in ts, t.ch = c
          PROVE  (CHOOSE u \in ts : u.ch = c).to \in States
      BY <2>1 DEF Transition
    <2>2. note \in [Channels -> States]
      BY DEF TypeOK
    <2> QED  BY <2>1, <2>2 DEF Written
  <1>3. \A i \in DOMAIN journal' :
           /\ journal'[i].phase \in {"PREPARE", "COMMIT", "ABORT"}
           /\ journal'[i].t \in Transition
    <2>1. \A i \in DOMAIN journal' : journal'[i] \in Record
      OBVIOUS
    <2> QED  BY <2>1 DEF Record, Phases
  <1>4. \A names : \A s \in Due(names) : /\ s \in todo /\ pc = "apply"
                                         /\ s.ts \in SUBSET Transition
    BY DEF Due, RunInv, StepType
  <1>5. CASE AppendStateEvent
    <2>0. PICK s \in Due({"PREPARE", "COMMIT", "ABORT"}) : \E t \in s.ts :
              /\ Advance(s) \/ Fail
              /\ seen' = IF s.do = "COMMIT" THEN [seen EXCEPT ![t.ch] = {}] ELSE seen
              /\ elapsed' = (elapsed /\ s.do # "COMMIT")
      BY <1>5 DEF AppendStateEvent
    <2>1. PICK t \in s.ts :
              /\ Advance(s) \/ Fail
              /\ seen' = IF s.do = "COMMIT" THEN [seen EXCEPT ![t.ch] = {}] ELSE seen
              /\ elapsed' = (elapsed /\ s.do # "COMMIT")
      BY <2>0
    <2>2. UNCHANGED <<base, cards, gate, unsynced, inputs>>
      BY <1>5 DEF AppendStateEvent
    <2>3. seen' \in [Channels -> SUBSET {"review", "lapse", "mastery", "failure"}]
      BY <2>1 DEF TypeOK
    <2>4. elapsed' \in BOOLEAN
      BY <2>1 DEF TypeOK
    <2>5. /\ pc' \in {"idle", "observe", "apply"} /\ (pc' = "apply") = (todo' # {})
          /\ faults' \in 0 .. MaxFaults
      BY <2>1, <1>1, <1>4
    <2> QED  BY <2>2, <2>3, <2>4, <2>5, <1>3 DEF TypeOK, cards
  <1>6. CASE UpdateNoteStates
    <2>1. PICK s \in Due({"update"}) :
              \/ (Advance(s) \/ Fail) /\ note' = Written(s.ts) /\ UNCHANGED late
              \/ LateUpdates /\ Fail /\ late' = late \union {s.ts} /\ UNCHANGED note
      BY <1>6 DEF UpdateNoteStates
    <2>2. UNCHANGED <<base, journal, suspended, evidence, inputs>>
      BY <1>6 DEF UpdateNoteStates
    <2>3. s \in todo /\ pc = "apply" /\ s.ts \in SUBSET Transition
      BY <1>4
    <2>4. note' \in [Channels -> States] /\ \A ts \in late' : ts \subseteq Transition
      BY <2>1, <2>3, <1>2 DEF TypeOK
    <2>5. /\ pc' \in {"idle", "observe", "apply"} /\ (pc' = "apply") = (todo' # {})
          /\ faults' \in 0 .. MaxFaults
      BY <2>1, <2>3, <1>1
    <2> QED  BY <2>2, <2>4, <2>5, <1>3 DEF TypeOK, evidence
  <1>7. CASE VerifyNoteStates \/ ReadCardQueues
    <2>1. \E s \in todo : pc = "apply" /\ (Advance(s) \/ (Halt /\ UNCHANGED faults))
      BY <1>4, <1>7 DEF VerifyNoteStates, ReadCardQueues
    <2>2. UNCHANGED <<base, journal, cards, evidence, inputs>>
      BY <1>7 DEF VerifyNoteStates, ReadCardQueues
    <2> QED  BY <2>1, <2>2, <1>1 DEF TypeOK, evidence, cards
  <1>8. CASE SuspendCards
    <2>1. PICK s \in Due({"suspend"}) :
              /\ Advance(s) \/ Fail
              /\ suspended' = [c \in Channels |-> suspended[c] \/ \E t \in s.ts : t.ch = c]
      BY <1>8 DEF SuspendCards
    <2>2. UNCHANGED <<base, journal, note, late, evidence, inputs>>
      BY <1>8 DEF SuspendCards
    <2>3. suspended' \in [Channels -> BOOLEAN]
      BY <2>1 DEF TypeOK
    <2>4. /\ pc' \in {"idle", "observe", "apply"} /\ (pc' = "apply") = (todo' # {})
          /\ faults' \in 0 .. MaxFaults
      BY <2>1, <1>1, <1>4
    <2> QED  BY <2>2, <2>3, <2>4, <1>3 DEF TypeOK, evidence
  <1> QED  BY <1>5, <1>6, <1>7, <1>8

\* What happens around the runs leaves the journal and the run alone.
LEMMA EnvironmentStep ==
    ASSUME IInv, Environment
    PROVE  IInv' /\ UNCHANGED <<base, journal>>
  <1>1. /\ TypeOK /\ journal \in Seq(Record) /\ JournalInv /\ RunInv /\ NoteInv
    BY DEF IInv
  <1>2. ASSUME Input PROVE inputs' \in 0 .. MaxInputs
    BY <1>1, <1>2, ReconcileAssumption DEF Input, TypeOK
  <1>t. ASSUME UNCHANGED <<base, journal, pc, todo, faults>>, inputs' \in 0 .. MaxInputs,
               suspended' \in [Channels -> BOOLEAN],
               seen' \in [Channels -> SUBSET {"review", "lapse", "mastery", "failure"}],
               gate' \in [Channels -> [open : BOOLEAN, version : Nat]],
               elapsed' \in BOOLEAN, unsynced' \in BOOLEAN,
               note' \in [Channels -> States], late' \subseteq late,
               UNCHANGED <<note, late>> \/ ~Quiet
        PROVE  IInv' /\ UNCHANGED <<base, journal>>
    <2>1. TypeOK'
      BY <1>1, <1>t DEF TypeOK
    <2>2. /\ Prepared' = Prepared /\ Committed' = Committed /\ Aborted' = Aborted
          /\ Pending' = Pending /\ JournalInv'
          /\ \A c : Life(c)' = Life(c)
          /\ \A t : Sound(t) => Sound(t)'
      BY <1>1, <1>t, SameJournal
    <2>3. \A phase : Planned(phase)' = Planned(phase)
      BY <1>t DEF Planned
    <2>4. PlanShape => PlanShape'
      BY <1>t, <2>3 DEF PlanShape
    <2>5. PlanCovers => PlanCovers'
      BY <2>2, <2>3 DEF PlanCovers
    <2>6. PlanFits => PlanFits'
      BY <2>2, <2>3 DEF PlanFits
    <2>7. PlanOrder => PlanOrder'
      BY <1>t, <2>2 DEF PlanOrder
    <2>8. RunInv'
      BY <1>1, <1>t, <2>2, <2>4, <2>5, <2>6, <2>7 DEF RunInv
    <2>9. NoteInv'
      <3>u. UpdatesFit'
        BY <1>1, <1>t DEF NoteInv, UpdatesFit
      <3>1. ASSUME Quiet PROVE NoteFits' /\ EndsFit'
        <4>1. NoteFits /\ EndsFit /\ UNCHANGED <<note, late>>
          BY <1>1, <1>t, <3>1 DEF NoteInv, Quiet
        <4>2. NoteFits'
          BY <2>2, <2>3, <4>1 DEF NoteFits, All
        <4>4. EndsFit'
          BY <1>t, <2>2, <2>3, <4>1 DEF EndsFit, All
        <4> QED  BY <4>2, <4>4
      <3> QED  BY <3>u, <3>1 DEF NoteInv, Quiet
    <2> QED  BY <1>1, <1>t, <2>1, <2>2, <2>8, <2>9 DEF IInv
  <1>3. ASSUME NEW c \in Channels, NEW kind \in {"review", "lapse"}, Review(c, kind)
        PROVE  IInv' /\ UNCHANGED <<base, journal>>
    <2>1. /\ seen' \in [Channels -> SUBSET {"review", "lapse", "mastery", "failure"}]
          /\ unsynced' \in BOOLEAN
      BY <1>1, <1>3 DEF Review, TypeOK
    <2>2. gate' \in [Channels -> [open : BOOLEAN, version : Nat]]
      <3>1. gate \in [Channels -> [open : BOOLEAN, version : Nat]]
        BY <1>1 DEF TypeOK
      <3>2. gate' = [gate EXCEPT ![c].version = @ + 1, ![c].open = @ /\ kind # "lapse"]
        BY <1>3 DEF Review
      <3>3. PICK b \in BOOLEAN : b = (gate[c].open /\ kind # "lapse")
        OBVIOUS
      <3>4. gate' = [gate EXCEPT ![c].version = @ + 1, ![c].open = b]
        BY <3>2, <3>3, Zenon
      <3> DEFINE g == [gate EXCEPT ![c].version = @ + 1]
      <3>5. g \in [Channels -> [open : BOOLEAN, version : Nat]]
        BY <3>1
      <3>6. gate' = [g EXCEPT ![c].open = b]
        BY <3>4
      <3> HIDE DEF g
      <3> QED  BY <3>5, <3>6
    <2>3. UNCHANGED <<base, journal, note, suspended, late, elapsed, pc, todo, faults>>
      BY <1>3 DEF Review, cards, run
    <2> QED  BY <1>1, <1>2, <1>3, <1>t, <2>1, <2>2, <2>3 DEF Review, TypeOK
  <1>4. ASSUME NEW c \in Channels, NEW kind \in {"mastery", "failure"}, Assess(c, kind)
        PROVE  IInv' /\ UNCHANGED <<base, journal>>
    <2>1. seen' \in [Channels -> SUBSET {"review", "lapse", "mastery", "failure"}]
      BY <1>1, <1>4 DEF Assess, TypeOK
    <2>3. UNCHANGED <<base, journal, note, suspended, late, gate, elapsed, unsynced, pc, todo,
                      faults>>
      BY <1>4 DEF Assess, cards, run
    <2> QED  BY <1>1, <1>2, <1>4, <1>t, <2>1, <2>3 DEF Assess, TypeOK
  <1>5. ASSUME NEW c \in Channels, Mature(c)
        PROVE  IInv' /\ UNCHANGED <<base, journal>>
    <2>1. gate' \in [Channels -> [open : BOOLEAN, version : Nat]]
      BY <1>1, <1>5 DEF Mature, TypeOK
    <2>3. UNCHANGED <<base, journal, note, suspended, late, seen, elapsed, unsynced, pc, todo,
                      faults>>
      BY <1>5 DEF Mature, cards, run
    <2> QED  BY <1>1, <1>2, <1>5, <1>t, <2>1, <2>3 DEF Mature, TypeOK
  <1>6. ASSUME NEW c \in Channels, ToggleSuspension(c) \/ Reactivate(c)
        PROVE  IInv' /\ UNCHANGED <<base, journal>>
    <2>1. /\ suspended' \in [Channels -> BOOLEAN]
          /\ inputs' \in 0 .. MaxInputs
      BY <1>1, <1>2, <1>6 DEF ToggleSuspension, Reactivate, TypeOK
    <2>3. UNCHANGED <<base, journal, note, late, seen, gate, elapsed, unsynced, pc, todo,
                      faults>>
      BY <1>6 DEF ToggleSuspension, Reactivate, evidence, run
    <2> QED  BY <1>1, <1>t, <2>1, <2>3 DEF TypeOK
  <1>7. ASSUME NEW c \in Channels, NEW s \in States, EditState(c, s)
        PROVE  IInv' /\ UNCHANGED <<base, journal>>
    <2>1. ~Quiet /\ note' \in [Channels -> States]
      BY <1>1, <1>7 DEF EditState, TypeOK, Quiet
    <2>3. UNCHANGED <<base, journal, suspended, late, seen, gate, elapsed, unsynced, pc, todo,
                      faults>>
      BY <1>7 DEF EditState, evidence, run
    <2> QED  BY <1>1, <1>2, <1>7, <1>t, <2>1, <2>3 DEF EditState, TypeOK
  <1>8. ASSUME NEW ts \in late, LateUpdateLands(ts)
        PROVE  IInv' /\ UNCHANGED <<base, journal>>
    <2>1. ~Quiet
      BY <1>1, <1>8 DEF NoteInv, NoteFits, Quiet
    <2>2. Written(ts) \in [Channels -> States]
      <3>1. ASSUME NEW c \in Channels, NEW t \in ts, t.ch = c
            PROVE  (CHOOSE u \in ts : u.ch = c).to \in States
        BY <1>1, <3>1 DEF Transition, TypeOK
      <3>2. note \in [Channels -> States]
        BY <1>1 DEF TypeOK
      <3> QED  BY <3>1, <3>2 DEF Written
    <2>3. UNCHANGED <<base, journal, suspended, seen, gate, elapsed, unsynced, pc, todo,
                      inputs, faults>>
      BY <1>8 DEF LateUpdateLands, evidence, run
    <2> QED  BY <1>1, <1>8, <1>t, <2>1, <2>2, <2>3 DEF LateUpdateLands, TypeOK
  <1>9. ASSUME Elapse PROVE IInv' /\ UNCHANGED <<base, journal>>
    <2>3. UNCHANGED <<base, journal, note, suspended, late, seen, gate, unsynced, pc, todo,
                      inputs, faults>>
      BY <1>9 DEF Elapse, cards, run
    <2> QED  BY <1>1, <1>9, <1>t, <2>3 DEF Elapse, TypeOK
  <1> QED  BY <1>3, <1>4, <1>5, <1>6, <1>7, <1>8, <1>9 DEF Environment

\* The invariant holds of an empty journal and a note as it was written.
LEMMA InvInit ==
    ASSUME Init
    PROVE  IInv /\ Committed = {} /\ \A c \in Channels : Life(c) = base[c]
  <1>1. /\ journal = <<>> /\ todo = {} /\ pc = "idle" /\ late = {} /\ note = base
        /\ base \in [Channels -> States]
    BY ReconcileAssumption DEF Init
  <1>2. \A phase : Records(phase) = {}
    BY <1>1 DEF Records
  <1>3. Prepared = {} /\ Committed = {} /\ Aborted = {} /\ Pending = {}
    BY <1>2 DEF Prepared, Committed, Aborted, Pending, PhaseOf
  <1>4. \A c : Commits(c) = {}
    BY <1>2 DEF Commits
  <1>5. \A c \in Channels : Life(c) = base[c]
    BY <1>4 DEF Life
  <1>6. TypeOK
    <2>1. /\ suspended \in [Channels -> BOOLEAN]
          /\ seen \in [Channels -> SUBSET {"review", "lapse", "mastery", "failure"}]
          /\ gate \in [Channels -> [open : BOOLEAN, version : Nat]]
      BY DEF Init
    <2>2. inputs \in 0 .. MaxInputs /\ faults \in 0 .. MaxFaults
      BY ReconcileAssumption DEF Init
    <2>3. (pc = "apply") = (todo # {})
      BY <1>1
    <2>4. base \in Starts /\ elapsed \in BOOLEAN /\ unsynced \in BOOLEAN
      BY DEF Init
    <2>5. note \in [Channels -> States] /\ \A i \in DOMAIN journal : FALSE
      BY <1>1
    <2> QED  BY <1>1, <2>1, <2>2, <2>3, <2>4, <2>5 DEF TypeOK
  <1>7. JournalInv
    BY <1>1, <1>3, <1>4 DEF JournalInv, JournalReadable, Chained, PendingIsUnambiguous,
                            MixedTerminals
  <1>8. RunInv
    BY <1>1 DEF RunInv
  <1>9. NoteInv
    <2>1. \A phase : Planned(phase) = {}
      BY <1>1 DEF Planned
    <2> QED  BY <1>1, <1>3, <1>5, <2>1 DEF NoteInv, NoteFits, UpdatesFit, EndsFit
  <1> QED  BY <1>1, <1>3, <1>5, <1>6, <1>7, <1>8, <1>9 DEF IInv

\* An append is a PREPARE, a COMMIT or an ABORT that is due.
LEMMA AppendCases ==
    ASSUME AppendStateEvent
    PROVE  \E phase \in Phases : \E s \in Due({phase}) : \E t \in s.ts :
              /\ Advance(s) \/ Fail
              /\ journal' = Append(journal, [phase |-> phase, t |-> t])
              /\ UNCHANGED <<base, note, late>>
  <1>1. PICK s \in Due({"PREPARE", "COMMIT", "ABORT"}) : \E t \in s.ts :
            /\ Advance(s) \/ Fail
            /\ journal' = Append(journal, [phase |-> s.do, t |-> t])
    BY DEF AppendStateEvent
  <1>2. s.do \in Phases /\ s \in Due({s.do})
    BY DEF Due, Phases
  <1>3. UNCHANGED <<base, note, late>>
    BY DEF AppendStateEvent, cards
  <1> QED  BY <1>1, <1>2, <1>3

\* Every step preserves the invariant: one case per action of Next.
LEMMA InvNext ==
    ASSUME IInv, [Next]_vars
    PROVE  IInv'
  <1>1. TypeOK /\ journal \in Seq(Record) /\ JournalInv /\ RunInv /\ NoteInv
    BY DEF IInv
  <1>2. CASE Load
    <2>1. JournalInv' /\ RunInv' /\ NoteInv' /\ (pc' = "apply" <=> todo' # {})
      BY <1>2, LoadStep
    <2>2. pc' \in {"idle", "observe", "apply"}
      BY <1>2 DEF Load, Halt, LookAgain, Work, RecoverUngrouped, RecoverGroup
    <2> QED  BY <1>1, <1>2, <2>1, <2>2, RunTypes DEF IInv
  <1>3. CASE Observe
    <2>1. JournalInv' /\ RunInv' /\ NoteInv' /\ (pc' = "apply" <=> todo' # {})
      BY <1>3, ObserveStep
    <2>2. pc' \in {"idle", "observe", "apply"}
      BY <1>3 DEF Observe, Halt, LookAgain, Work, Start, Reconsider
    <2> QED  BY <1>1, <1>3, <2>1, <2>2, RunTypes DEF IInv
  <1>4. CASE Interrupted
    <2>1. pc' = "idle" /\ todo' = {} /\ UNCHANGED <<base, journal, note, late>>
      BY <1>4 DEF Interrupted, Fail, Halt, cards
    <2>2. JournalInv' /\ RunInv' /\ NoteInv'
      BY <1>1, <2>1, NoWork
    <2> QED  BY <1>1, <1>4, <2>1, <2>2, RunTypes DEF IInv
  <1>5. CASE AppendStateEvent
    <2>1. PICK phase \in Phases : \E s \in Due({phase}) : \E t \in s.ts :
              /\ Advance(s) \/ Fail
              /\ journal' = Append(journal, [phase |-> phase, t |-> t])
              /\ UNCHANGED <<base, note, late>>
      BY <1>5, AppendCases
    <2>2. PICK s \in Due({phase}) : \E t \in s.ts :
              /\ Advance(s) \/ Fail
              /\ journal' = Append(journal, [phase |-> phase, t |-> t])
              /\ UNCHANGED <<base, note, late>>
      BY <2>1
    <2>3. PICK t \in s.ts :
              /\ Advance(s) \/ Fail
              /\ journal' = Append(journal, [phase |-> phase, t |-> t])
              /\ UNCHANGED <<base, note, late>>
      BY <2>2
    <2>4. journal' \in Seq(Record) /\ JournalInv' /\ RunInv' /\ NoteInv'
      <3>1. CASE phase = "PREPARE"
        BY <2>3, <3>1, PrepareStep
      <3>2. CASE phase = "COMMIT"
        BY <2>3, <3>2, CommitStep
      <3>3. CASE phase = "ABORT"
        BY <2>3, <3>3, AbortStep
      <3> QED  BY <3>1, <3>2, <3>3 DEF Phases
    <2> QED  BY <1>1, <1>5, <2>4, StepTypes DEF IInv
  <1>6. CASE UpdateNoteStates
    <2>1. JournalInv' /\ RunInv' /\ NoteInv' /\ journal' = journal
      BY <1>6, UpdateStep DEF UpdateNoteStates
    <2> QED  BY <1>1, <1>6, <2>1, StepTypes DEF IInv
  <1>7. CASE VerifyNoteStates \/ SuspendCards \/ ReadCardQueues
    <2>1. PICK s \in Due(Calls \ {"update"}) : Advance(s) \/ Fail \/ Halt
      <3>1. \A name \in {"verify", "suspend", "queues"} :
               Due({name}) \subseteq Due(Calls \ {"update"})
        BY DEF Due, Calls
      <3> QED  BY <1>7, <3>1 DEF VerifyNoteStates, SuspendCards, ReadCardQueues
    <2>2. UNCHANGED <<base, journal, note, late>>
      BY <1>7 DEF VerifyNoteStates, SuspendCards, ReadCardQueues, cards
    <2>3. JournalInv' /\ RunInv' /\ NoteInv'
      BY <2>1, <2>2, CallStep
    <2> QED  BY <1>1, <1>7, <2>2, <2>3, StepTypes DEF IInv
  <1>8. CASE Environment
    BY <1>8, EnvironmentStep
  <1>9. CASE UNCHANGED vars
    <2>1. UNCHANGED <<base, journal, note, suspended, seen, gate, elapsed, unsynced, pc, todo,
                      late, inputs, faults>>
      BY <1>9 DEF vars
    <2>2. JournalInv'
      BY <1>1, <2>1, SameJournal
    <2>3. TypeOK'
      BY <1>1, <2>1 DEF TypeOK
    <2>4. /\ Prepared' = Prepared /\ Committed' = Committed /\ Aborted' = Aborted
          /\ Pending' = Pending
          /\ \A c : Life(c)' = Life(c)
          /\ \A t : Sound(t) => Sound(t)'
      BY <2>1, SameJournal
    <2>5. \A phase : Planned(phase)' = Planned(phase)
      BY <2>1 DEF Planned
    <2>6. /\ PlanShape => PlanShape'
          /\ PlanCovers => PlanCovers'
      BY <2>1, <2>4, <2>5 DEF PlanShape, PlanCovers
    <2>7. /\ PlanFits => PlanFits'
          /\ PlanOrder => PlanOrder'
      BY <2>1, <2>4, <2>5 DEF PlanFits, PlanOrder
    <2>8. RunInv'
      BY <1>1, <2>1, <2>4, <2>6, <2>7 DEF RunInv
    <2>9. NoteFits => NoteFits'
      BY <2>1, <2>4, <2>5 DEF NoteFits, All
    <2>10. UpdatesFit => UpdatesFit'
      BY <2>1 DEF UpdatesFit
    <2>11. EndsFit => EndsFit'
      BY <2>1, <2>4, <2>5 DEF EndsFit, All
    <2> QED  BY <1>1, <2>1, <2>2, <2>3, <2>8, <2>9, <2>10, <2>11 DEF IInv, NoteInv
  <1> QED  BY <1>2, <1>3, <1>4, <1>5, <1>6, <1>7, <1>8, <1>9 DEF Next, RunStep

\* So it holds in every reachable state.
LEMMA Invariance == Spec => []IInv
  <1>1. Init => IInv
    BY InvInit
  <1>2. IInv /\ [Next]_vars => IInv'
    BY InvNext
  <1> QED  BY <1>1, <1>2, PTL DEF Spec

\* Types, and that a run applies steps exactly while it has some.
THEOREM ReconcileTypeCorrect == Spec => []TypeOK
  <1>1. IInv => TypeOK
    BY DEF IInv
  <1> QED  BY <1>1, Invariance, PTL

\* Whatever is interrupted, edited by hand or delayed in Anki, for any number
\* of channels: the journal has one PREPARE and at most one end for every
\* transition, and the COMMITs of a channel chain by state and episode.  The
\* next run can always read what the last one wrote.
THEOREM JournalAlwaysReadable == Spec => []JournalStaysReadable
  <1>1. IInv => JournalStaysReadable
    BY DEF IInv, JournalInv, JournalStaysReadable
  <1> QED  BY <1>1, Invariance, PTL

\* A run leaves at most one ungrouped transition pending, or members of one
\* dormancy group: never the state recovery refuses as ambiguous.
THEOREM PendingNeverAmbiguous == Spec => []PendingIsUnambiguous
  <1>1. IInv => PendingIsUnambiguous
    BY DEF IInv, JournalInv
  <1> QED  BY <1>1, Invariance, PTL

\* No dormancy group ends with a COMMIT and an ABORT, although its members end
\* one by one and an interrupted run is continued on a fresh look at the note.
THEOREM GroupsAlwaysEndOneWay == Spec => []GroupsEndOneWay
  <1>1. IInv => GroupsEndOneWay
    BY DEF IInv, JournalInv, GroupsEndOneWay
  <1> QED  BY <1>1, Invariance, PTL

\* While nobody else writes state fields, the note departs from the journal
\* only to the target of a transition that is pending.
THEOREM NoteAlwaysFollowsJournal == Spec => []NoteFollowsJournal
  <1>1. IInv => NoteFollowsJournal
    BY DEF IInv, NoteInv, NoteFits, NoteFollowsJournal
  <1> QED  BY <1>1, Invariance, PTL

\* The journal is written ahead of the note: even beside edits by hand and
\* updates that land late, what a run sends Anki was announced by a PREPARE that
\* has no end yet (_materialize_transition, _recover_ungrouped,
\* _materialize_dormancy_group, _update_note_states).
THEOREM NoteIsWrittenAfterJournal == Spec => WritesAreAnnounced
  <1> DEFINE Announced ==
                 /\ \A c \in Channels : note'[c] # note[c] =>
                       \E t \in Pending : t.ch = c /\ t.from = Life(c) /\ t.to = note'[c]
                 /\ \A ts \in late' \ late : ts \subseteq Pending
  <1>1. ASSUME IInv, RunStep PROVE Announced
    <2>1. CASE UNCHANGED <<note, late>>
      BY <2>1
    <2>2. CASE UpdateNoteStates
      <3>1. PICK s \in Due({"update"}) :
                \/ note' = Written(s.ts) /\ UNCHANGED late
                \/ late' = late \union {s.ts} /\ UNCHANGED note
        BY <2>2 DEF UpdateNoteStates
      <3>2. /\ \A t \in s.ts : t \in Pending /\ t.from = Life(t.ch)
            /\ \A c \in Channels : \/ \E t \in s.ts : t.ch = c /\ Written(s.ts)[c] = t.to
                                   \/ Written(s.ts)[c] = note[c]
        BY <1>1, UpdateTargets
      <3> QED  BY <3>1, <3>2
    <2>3. Load \/ Observe \/ AppendStateEvent \/ VerifyNoteStates \/ SuspendCards
          \/ ReadCardQueues => UNCHANGED <<note, late>>
      BY DEF Load, Observe, AppendStateEvent, VerifyNoteStates, SuspendCards, ReadCardQueues, cards
    <2> QED  BY <1>1, <2>1, <2>2, <2>3 DEF RunStep
  <1>2. IInv /\ [Next]_vars => [RunStep => Announced]_vars
    BY <1>1
  <1> QED  BY <1>2, Invariance, PTL DEF Spec, WritesAreAnnounced

\* A run that gets through its last step has resolved all that was pending.
RunsEndResolved ==
    [][\A s \in todo : RunStep /\ todo = {s} /\ Advance(s) => Pending' = {}]_vars

\* Whatever a run found or began, and however often it was cut short before:
\* once a run comes to its end, every PREPARE in the journal has its COMMIT or
\* ABORT (reconcile_unit).
THEOREM RunsLeaveNothingPending == Spec => RunsEndResolved
  <1>1. ASSUME IInv, RunStep, NEW s \in todo, todo = {s}, Advance(s) PROVE Pending' = {}
    <2>1. /\ pc = "apply" /\ PlanShape /\ PlanCovers /\ journal \in Seq(Record) /\ JournalInv
      BY <1>1 DEF IInv, RunInv
    <2>2. \A phase : Planned(phase) = IF s.do = phase THEN s.ts ELSE {}
      BY <1>1 DEF Planned
    <2>3. CASE s.do \in {"COMMIT", "ABORT"}
      <3>1. CASE AppendStateEvent
        <4>1. PICK t \in s.ts : journal' = Append(journal, [phase |-> s.do, t |-> t])
          BY <1>1, <3>1 DEF AppendStateEvent, Due
        <4>2. s.ts = {t}
          BY <1>1, <2>1, <2>3, <4>1 DEF PlanShape, Phases
        <4>3. Pending \subseteq {t}
          BY <2>1, <2>2, <2>3, <4>2 DEF PlanCovers
        <4>4. t \in Transition
          BY <1>1, <4>2 DEF IInv, RunInv, StepType
        <4>5. Prepared' = Prepared /\ t \in Committed' \union Aborted'
              /\ Committed \subseteq Committed' /\ Aborted \subseteq Aborted'
          <5> DEFINE x == [phase |-> s.do, t |-> t]
          <5>1. x \in Record /\ x.phase = s.do /\ x.t = t
            BY <2>3, <4>4 DEF Record, Phases
          <5> QED  BY <2>1, <2>3, <4>1, <5>1, AppendPhase
        <4> QED  BY <4>3, <4>5 DEF Pending
      <3>2. CASE ~AppendStateEvent
        BY <1>1, <2>1, <2>3, <3>2
           DEF RunStep, Load, Observe, UpdateNoteStates, VerifyNoteStates, SuspendCards,
               ReadCardQueues, Due
      <3> QED  BY <3>1, <3>2
    <2>4. CASE s.do \notin {"COMMIT", "ABORT"}
      <3>1. Pending = {}
        BY <2>1, <2>2, <2>4 DEF PlanCovers
      <3>2. Planned("PREPARE") = {}
        BY <2>1, <2>2, <2>4 DEF PlanCovers
      <3>3. s.do # "PREPARE"
        BY <1>1, <2>1, <2>2, <3>2 DEF PlanShape, Phases
      <3>4. journal' = journal
        BY <1>1, <2>1, <2>4, <3>3
           DEF RunStep, Load, Observe, AppendStateEvent, UpdateNoteStates, VerifyNoteStates,
               SuspendCards, ReadCardQueues, Due
      <3>5. base' = base
        BY <1>1 DEF RunStep, Load, Observe, AppendStateEvent, UpdateNoteStates, VerifyNoteStates,
                    SuspendCards, ReadCardQueues
      <3> QED  BY <2>1, <3>1, <3>4, <3>5, SameJournal
    <2> QED  BY <2>3, <2>4
  <1>2. IInv /\ [Next]_vars =>
            [\A s \in todo : RunStep /\ todo = {s} /\ Advance(s) => Pending' = {}]_vars
    BY <1>1
  <1> QED  BY <1>2, Invariance, PTL DEF Spec, RunsEndResolved

\* The channels a COMMIT has put to sleep while others of their group wait.
Asleep == {t.ch : t \in {u \in Committed : Grouped(u) /\ ~(Group(u) \subseteq Committed)}}
Lives == [c \in Channels |-> Life(c)]

\* What is missing of a group with a committed member is pending.
LEMMA HalfGroup ==
    ASSUME journal \in Seq(Record), JournalInv,
           NEW u \in Committed, Grouped(u), NEW m \in Group(u), m \notin Committed
    PROVE  /\ m \in Pending /\ Grouped(m) /\ Group(m) = Group(u) /\ u \in Group(m)
           /\ \A t \in Pending : Grouped(t) /\ Group(t) = Group(u)
  <1>1. u \in Transition /\ Shaped(u)
    BY EndedWasPrepared DEF JournalInv
  <1>2. Grouped(m) /\ Group(m) = Group(u) /\ u \in Group(u)
    BY <1>1, GroupMembers DEF Shaped
  <1>3. m \in Pending
    BY DEF JournalInv, MixedTerminals, Pending
  <1>4. \A t \in Pending : Grouped(t) /\ Group(t) = Group(m)
    BY <1>2, <1>3, PendingGroup
  <1> QED  BY <1>2, <1>3, <1>4

\* The COMMIT of an ungrouped transition is a step of its channel alone.
LEMMA UngroupedCommit ==
    ASSUME journal \in Seq(Record), JournalInv, NEW t \in Pending, Sound(t), ~Grouped(t),
           t \in Transition, Committed' = Committed \union {t},
           \A c \in Channels : Life(c)' = IF c = t.ch THEN t.to ELSE Life(c)
    PROVE  Promise!Advance(t.ch, t.to) /\ t.ch \in Channels /\ t.to \in States
  <1>1. t.ch \in Channels /\ t.to \in States /\ t.to # "DORMANT"
    BY DEF Transition, Grouped
  <1>2. \A u \in Committed : Grouped(u) => Group(u) \subseteq Committed
    BY HalfGroup
  <1>3. Asleep = {} /\ Asleep' = {}
    BY <1>2 DEF Asleep
  <1>4. <<Lives[t.ch], t.to>> \in Promise!Edges
    BY <1>1 DEF Lives, Sound, Shaped, Fits
  <1>5. Lives' = [Lives EXCEPT ![t.ch] = t.to]
    BY <1>1 DEF Lives
  <1> QED  BY <1>1, <1>3, <1>4, <1>5 DEF Promise!Advance, Asleep, Lives

\* The COMMIT of a member puts its channel to sleep, and ends the group's
\* falling asleep when it is the last.
LEMMA GroupedCommit ==
    ASSUME journal \in Seq(Record), JournalInv, NEW t \in Pending, Sound(t), Grouped(t),
           t \in Transition, Committed' = Committed \union {t},
           \A c \in Channels : Life(c)' = IF c = t.ch THEN t.to ELSE Life(c)
    PROVE  Promise!FallAsleep(t.ch) /\ t.ch \in Channels
  <1>1. t.ch \in Channels /\ t.to = "DORMANT" /\ Shaped(t) /\ GroupFits(t) /\ t \notin Committed
    BY DEF Transition, Grouped, Sound, Pending
  <1>2. /\ t \in Group(t)
        /\ \A m \in Group(t) : Grouped(m) /\ Group(m) = Group(t) /\ m.ch \in Channels
        /\ \A c \in Channels : \E m \in Group(t) : m.ch = c
    BY <1>1, GroupMembers DEF Shaped, Transition
  <1>u. \A m, n \in Group(t) : m.ch = n.ch => m = n
    BY <1>1, GroupMembers
  <1>s. \A u \in Prepared : Grouped(u) => u \in Group(u)
    BY DEF JournalInv, Shaped
  <1>3. \A u \in Committed : Grouped(u) /\ ~(Group(u) \subseteq Committed) => u \in Group(t)
    BY <1>s, HalfGroup, EndedWasPrepared DEF JournalInv
  <1>4. Asleep = {m.ch : m \in Group(t) \intersect Committed}
    BY <1>1, <1>2, <1>3 DEF Asleep
  <1>5. \A c \in Channels : Lives[c] = IF c \in Asleep THEN "DORMANT" ELSE "MASTERED"
    BY <1>1, <1>2, <1>u, <1>4 DEF GroupFits, Lives
  <1>6. t.ch \notin Asleep
    BY <1>1, <1>2, <1>u, <1>4
  <1>7. Lives' = [Lives EXCEPT ![t.ch] = "DORMANT"]
    BY <1>1 DEF Lives
  <1>8. \A u \in Committed' : Grouped(u) /\ ~(Group(u) \subseteq Committed') => u \in Group(t)
    BY <1>2, <1>3
  <1>9. Asleep \union {t.ch} = Channels <=> Group(t) \subseteq Committed'
    BY <1>1, <1>2, <1>u, <1>4
  <1>10. CASE Group(t) \subseteq Committed'
    <2>1. Asleep' = {}
      BY <1>2, <1>8, <1>10 DEF Asleep
    <2> QED  BY <2>1, <1>1, <1>5, <1>6, <1>7, <1>9, <1>10 DEF Promise!FallAsleep, Asleep, Lives
  <1>11. CASE ~(Group(t) \subseteq Committed')
    <2>1. Asleep' = {m.ch : m \in Group(t) \intersect Committed'}
      BY <1>2, <1>8, <1>11 DEF Asleep
    <2>2. Asleep' = Asleep \union {t.ch}
      BY <2>1, <1>2, <1>4
    <2> QED  BY <2>2, <1>1, <1>5, <1>6, <1>7, <1>9, <1>11 DEF Promise!FallAsleep, Asleep, Lives
  <1> QED  BY <1>1, <1>10, <1>11

\* Every other step leaves the committed states and the sleeping channels.
LEMMA LifecycleStutters ==
    ASSUME Committed' = Committed, \A c \in Channels : Life(c)' = Life(c)
    PROVE  UNCHANGED Promise!vars
  <1>1. Lives' = Lives /\ Asleep' = Asleep
    BY DEF Lives, Asleep
  <1> QED  BY <1>1 DEF Promise!vars, Lives, Asleep

\* A step moves channels along the lifecycle as Lifecycle does, or not at all.
LEMMA LifecycleStep ==
    ASSUME IInv, [Next]_vars
    PROVE  [Promise!Next]_(Promise!vars)
  <1>1. journal \in Seq(Record) /\ JournalInv
    BY DEF IInv
  <1>2. CASE UNCHANGED <<base, journal>>
    <2>1. Committed' = Committed /\ \A c \in Channels : Life(c)' = Life(c)
      BY <1>2, SameJournal
    <2> QED  BY <2>1, LifecycleStutters
  <1>3. CASE AppendStateEvent
    <2>1. PICK phase \in Phases : \E s \in Due({phase}) : \E t \in s.ts :
              /\ Advance(s) \/ Fail
              /\ journal' = Append(journal, [phase |-> phase, t |-> t])
              /\ UNCHANGED <<base, note, late>>
      BY <1>3, AppendCases
    <2>2. PICK s \in Due({phase}) : \E t \in s.ts :
              /\ Advance(s) \/ Fail
              /\ journal' = Append(journal, [phase |-> phase, t |-> t])
              /\ UNCHANGED <<base, note, late>>
      BY <2>1
    <2>3. PICK t \in s.ts :
              /\ Advance(s) \/ Fail
              /\ journal' = Append(journal, [phase |-> phase, t |-> t])
              /\ UNCHANGED <<base, note, late>>
      BY <2>2
    <2>4. CASE phase = "COMMIT"
      <3>1. /\ t \in Pending /\ Sound(t) /\ Committed' = Committed \union {t}
            /\ \A c \in Channels : Life(c)' = IF c = t.ch THEN t.to ELSE Life(c)
        BY <2>3, <2>4, CommitStep
      <3>2. t \in Transition
        BY <1>1, <3>1, PendingGroup
      <3>3. CASE Grouped(t)
        BY <1>1, <3>1, <3>2, <3>3, GroupedCommit DEF Promise!Next
      <3>4. CASE ~Grouped(t)
        <4>1. Promise!Advance(t.ch, t.to) /\ t.ch \in Channels /\ t.to \in States
          BY <1>1, <3>1, <3>2, <3>4, UngroupedCommit
        <4> QED  BY <4>1 DEF Promise!Next, Promise!States, States
      <3> QED  BY <3>3, <3>4
    <2>5. CASE phase = "ABORT"
      <3>1. Committed' = Committed /\ \A c \in Channels : Life(c)' = Life(c)
        BY <2>3, <2>5, AbortStep
      <3> QED  BY <3>1, LifecycleStutters
    <2>6. CASE phase = "PREPARE"
      <3>1. Committed' = Committed /\ \A c \in Channels : Life(c)' = Life(c)
        BY <2>3, <2>6, PrepareStep
      <3> QED  BY <3>1, LifecycleStutters
    <2> QED  BY <2>4, <2>5, <2>6 DEF Phases
  <1>4. ~AppendStateEvent => UNCHANGED <<base, journal>>
    BY EnvironmentStep
       DEF Next, RunStep, Load, Observe, UpdateNoteStates, VerifyNoteStates, SuspendCards,
           ReadCardQueues, Interrupted, vars
  <1> QED  BY <1>2, <1>3, <1>4

\* The COMMITs of the journal, under every interruption, recovery, edit by hand
\* and late update, are steps of the lifecycle: one channel along one edge, and
\* dormancy for the unit as a whole, with nothing in between.
THEOREM LifecycleImplemented == Spec => ImplementsLifecycle
  <1>1. Init => Promise!Init
    <2>1. SUFFICES ASSUME Init PROVE Promise!Init
      OBVIOUS
    <2>2. Committed = {} /\ \A c \in Channels : Life(c) = base[c]
      BY <2>1, InvInit
    <2>3. base \in [Channels -> States]
      BY <2>1, ReconcileAssumption DEF Init
    <2>4. Lives \in [Channels -> States] /\ Asleep = {}
      BY <2>2, <2>3 DEF Lives, Asleep
    <2> QED  BY <2>4 DEF Promise!Init, Promise!States, States, Lives, Asleep
  <1>2. IInv /\ [Next]_vars => [Promise!Next]_(Promise!vars)
    BY LifecycleStep
  <1> QED  BY <1>1, <1>2, Invariance, PTL DEF Spec, ImplementsLifecycle, Promise!Spec
=============================================================================
