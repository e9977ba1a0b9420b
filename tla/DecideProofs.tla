---------------------------- MODULE DecideProofs ----------------------------
(***************************************************************************)
(* Theorems about Decide for any unit, any thresholds and any number of     *)
(* reviews, assessments, ticks and interruptions.                           *)
(*                                                                          *)
(* DecisionsAreEarned rests on what _mastery_evidence has selected when its *)
(* loop ends: a streak is earned after every pass of the loop.  That no     *)
(* evidence counts twice is inductive only with an invariant about time and *)
(* one about what runs carry from their decision to their COMMIT:           *)
(*                                                                          *)
(*   Chronicle -- histories are in order of time, and nothing is later than *)
(*                now                                                       *)
(*   PlanInv   -- what a run carries out was decided from what the          *)
(*                histories hold, and enters a state other than NEW         *)
(*   SpentInv  -- what moved a channel is not later than its last COMMIT    *)
(*                                                                          *)
(* and that a COMMIT still fits what was decided, with                      *)
(*                                                                          *)
(*   FitInv    -- what a run carries or left behind leaves the state and    *)
(*                episode its channel is in, one plan per channel, or is    *)
(*                the dormancy group of the whole Unit                      *)
(***************************************************************************)
EXTENDS Decide, Iteration

Chronicle ==
    /\ \A c \in Channels : entry[c] <= now
    /\ \A c \in Channels : \A i \in DOMAIN reviews[c] : reviews[c][i].at <= now
    /\ \A c \in Channels : \A i \in DOMAIN judged[c] : judged[c][i].at <= now
    /\ \A c \in Channels : \A i, j \in DOMAIN judged[c] :
          i <= j => judged[c][i].at <= judged[c][j].at

\* The records of a channel, and those not later than its last COMMIT.
Known(c) ==
    {<<"review", i>> : i \in DOMAIN reviews[c]}
      \union {<<"assessment", i>> : i \in DOMAIN judged[c]}
Old(c) ==
    {<<"review", i>> : i \in {j \in DOMAIN reviews[c] : reviews[c][j].at <= entry[c]}}
      \union {<<"assessment", i>> : i \in {j \in DOMAIN judged[c] : judged[c][j].at <= entry[c]}}

PlanInv ==
    /\ \A t \in pending \union todo : t.to # "NEW"
    /\ \A t \in pending \union todo : Decisive(t) \subseteq Known(t.ch)
    /\ pc \in {"update", "commit"} => pending \subseteq todo

SpentInv ==
    /\ \A c \in Channels : spent[c] \subseteq Old(c)
    /\ \A c \in Channels : life[c] = "NEW" => spent[c] = {}

IInv == TypeOK /\ Chronicle /\ PlanInv /\ SpentInv

-----------------------------------------------------------------------------
(* Least and greatest elements *)

LEMMA Constants ==
    /\ MinPasses \in Nat \ {0} /\ MaxNow \in Nat /\ MaxInputs \in Nat /\ MaxFaults \in Nat
    /\ MinInterval \in Nat /\ MinAge \in Nat /\ LapseWindow \in Nat /\ MinDelay \in Nat
    /\ DormantAfter \in Nat
  BY DecideAssumption

LEMMA MinIsLeast ==
    ASSUME NEW S \in SUBSET Nat, S # {}
    PROVE  Min(S) \in S /\ \A x \in S : Min(S) <= x
  BY Least DEF Min

\* A set of naturals with an upper bound has a greatest element.
LEMMA MaxIsGreatest ==
    ASSUME NEW S \in SUBSET Nat, S # {}, NEW N \in Nat, \A x \in S : x <= N
    PROVE  Max(S) \in S /\ \A x \in S : x <= Max(S)
  <1> DEFINE T == {N - x : x \in S}
  <1>1. T \in SUBSET Nat /\ T # {}
    <2>1. \A x \in S : N - x \in Nat
      OBVIOUS
    <2> QED  BY <2>1
  <1>2. PICK n \in T : \A m \in T : n <= m
    <2> HIDE DEF T
    <2> QED  BY <1>1, Least
  <1>3. PICK x \in S : n = N - x
    BY <1>2
  <1>4. \A y \in S : y <= x
    <2> TAKE y \in S
    <2>1. N - y \in T
      OBVIOUS
    <2>2. N - x <= N - y
      BY <1>2, <1>3, <2>1
    <2> QED  BY <2>2
  <1> QED  BY <1>4 DEF Max

-----------------------------------------------------------------------------
(* _mastery_evidence *)

Picks(c) == Seq(DOMAIN judged[c])

\* One pass of the loop of _mastery_evidence.
Selected(c, i, streak) ==
    LET a == judged[c][i]
    IN  IF Len(streak) = MinPasses \/ a.at <= entry[c] \/ a.verdict = "familiar"
        THEN streak
        ELSE IF a.verdict = "failed" THEN <<>>
        ELSE IF \E k \in DOMAIN streak :
                   \/ judged[c][streak[k]].verdict = a.verdict
                   \/ a.at - judged[c][streak[k]].at < MinDelay
        THEN streak
        ELSE Append(streak, i)

LEMMA SelectedType ==
    ASSUME NEW c, judged[c] \in Seq(Assessment), NEW i \in 1 .. Len(judged[c]),
           NEW p \in Picks(c)
    PROVE  Selected(c, i, p) \in Picks(c)
  <1>1. i \in DOMAIN judged[c]
    OBVIOUS
  <1> DEFINE a == judged[c][i]
  <1>2. CASE Len(p) = MinPasses \/ a.at <= entry[c] \/ a.verdict = "familiar"
    BY <1>2 DEF Selected
  <1>3. CASE ~(Len(p) = MinPasses \/ a.at <= entry[c] \/ a.verdict = "familiar")
    <2>1. Append(p, i) \in Seq(DOMAIN judged[c]) /\ <<>> \in Seq(DOMAIN judged[c])
      BY <1>1 DEF Picks
    <2> QED  BY <1>3, <2>1 DEF Selected, Picks
  <1> QED  BY <1>2, <1>3

LEMMA StreakIsScanned ==
    ASSUME NEW c, judged[c] \in Seq(Assessment)
    PROVE  \E f \in [0 .. Len(judged[c]) -> Picks(c)] :
              /\ f[0] = <<>> /\ \A i \in 1 .. Len(judged[c]) : f[i] = Selected(c, i, f[i - 1])
              /\ Streak(c) = f[Len(judged[c])]
  <1> DEFINE n == Len(judged[c])
             g == [p \in (1 .. n) \X Picks(c) |-> Selected(c, p[1], p[2])]
             Scan(f) == [i \in 0 .. n |-> IF i = 0 THEN <<>> ELSE Selected(c, i, f[i - 1])]
  <1>1. \A i \in 1 .. n, p \in Picks(c) : Selected(c, i, p) \in Picks(c)
    BY SelectedType
  <1>2. g \in [(1 .. n) \X Picks(c) -> Picks(c)] /\ <<>> \in Picks(c) /\ n \in Nat
    BY <1>1 DEF Picks
  <1>3. PICK f \in Iterates(n, Picks(c), <<>>, g) : TRUE
    <2> HIDE DEF g, n
    <2> QED  BY <1>2, Recursion
  <1>4. \A i \in 1 .. n : f[i] = Selected(c, i, f[i - 1])
    <2> TAKE i \in 1 .. n
    <2>1. i - 1 \in 0 .. n
      BY <1>2
    <2>2. <<i, f[i - 1]>> \in (1 .. n) \X Picks(c)
      BY <1>3, <2>1 DEF Iterates
    <2> QED  BY <1>3, <2>2 DEF Iterates
  <1>5. \A h : h = Scan(h) =>
           /\ DOMAIN h = 0 .. n /\ h[0] = <<>>
           /\ \A i \in 1 .. n : h[i] = Selected(c, i, h[i - 1])
    <2> HIDE DEF n
    <2> QED BY <1>2
  <1>6. f = Scan(f)
    <2> HIDE DEF n
    <2> QED BY <1>2, <1>3, <1>4 DEF Iterates
  <1>7. Streak(c) = (CHOOSE h : h = Scan(h))[n]
    BY DEF Streak, Selected
  <1> DEFINE h == CHOOSE h : h = Scan(h)
  <1>8. h = Scan(h)
    <2> HIDE DEF Scan
    <2> QED  BY <1>6
  <1>9. DOMAIN h = 0 .. n /\ h[0] = <<>> /\ \A i \in 1 .. n : h[i] = Selected(c, i, h[i - 1])
    <2> HIDE DEF h, Scan
    <2> QED  BY <1>5, <1>8
  <1> DEFINE Good == {i \in 0 .. n : h[i] \in Picks(c)}
  <1>10. Good = 0 .. n
    <2>1. 0 \in Good /\ Good \in SUBSET (0 .. n)
      <3> HIDE DEF h, n
      <3> QED  BY <1>2, <1>9
    <2>2. \A i \in 1 .. n : i - 1 \in Good => i \in Good
      <3> HIDE DEF h, n
      <3> QED  BY <1>1, <1>2, <1>9
    <2> HIDE DEF Good, n
    <2> QED  BY <1>2, <2>1, <2>2, Induction
  <1>11. h \in [0 .. n -> Picks(c)] /\ Streak(c) = h[n]
    <2>1. h = [i \in 0 .. n |-> h[i]]
      <3> HIDE DEF h
      <3> QED  BY <1>8
    <2> HIDE DEF h
    <2> QED  BY <1>10, <2>1, <1>7 DEF h
  <1> HIDE DEF h
  <1> QED  BY <1>9, <1>11

\* What the loop has selected when it is past i.
EarnedUpTo(c, i, s) ==
    /\ s \in Picks(c) /\ Len(s) <= MinPasses
    /\ \A k \in DOMAIN s : s[k] <= i
    /\ \A k \in DOMAIN s : judged[c][s[k]].verdict \in Stimuli /\ judged[c][s[k]].at > entry[c]
    /\ \A k, l \in DOMAIN s : k < l =>
          /\ judged[c][s[l]].at - judged[c][s[k]].at >= MinDelay
          /\ judged[c][s[k]].verdict # judged[c][s[l]].verdict
    /\ \A j \in DOMAIN judged[c] :
          s # <<>> /\ s[1] <= j /\ j <= (IF Len(s) = MinPasses THEN s[MinPasses] ELSE i)
            => judged[c][j].verdict # "failed"

\* One pass of the loop keeps it so.
LEMMA SelectedIsEarned ==
    ASSUME TypeOK, Chronicle, NEW c \in Channels, NEW i \in 1 .. Len(judged[c]),
           NEW s, EarnedUpTo(c, i - 1, s)
    PROVE  EarnedUpTo(c, i, Selected(c, i, s))
  <1> DEFINE n == Len(judged[c])
             a == judged[c][i]
             J == judged[c]
  <1>1. /\ J \in Seq(Assessment) /\ n \in Nat /\ DOMAIN J = 1 .. n /\ i \in 1 .. n
        /\ entry[c] \in Nat /\ MinPasses \in Nat \ {0} /\ MinDelay \in Nat /\ MaxNow \in Nat
        /\ a = J[i]
    BY Constants DEF TypeOK
  <1>2. \A j \in 1 .. n : /\ J[j] \in Assessment /\ J[j].at \in Nat
                          /\ J[j].verdict \in Stimuli \union {"failed", "familiar"}
    <2> TAKE j \in 1 .. n
    <2>1. J[j] \in Assessment
      <3> HIDE DEF J, n
      <3> QED  BY <1>1
    <2> HIDE DEF J, n
    <2> QED  BY <1>1, <2>1 DEF Assessment
  <1>3. \A j, k \in 1 .. n : j <= k => J[j].at <= J[k].at
    BY <1>1 DEF Chronicle
  <1>4. /\ s \in Seq(1 .. n) /\ Len(s) \in Nat /\ Len(s) <= MinPasses /\ DOMAIN s = 1 .. Len(s)
        /\ \A k \in DOMAIN s : s[k] \in 1 .. n /\ s[k] <= i - 1
        /\ \A k \in DOMAIN s : J[s[k]].verdict \in Stimuli /\ J[s[k]].at > entry[c]
    BY <1>1 DEF EarnedUpTo, Picks
  <1>5. /\ \A k, l \in DOMAIN s : k < l =>
              J[s[l]].at - J[s[k]].at >= MinDelay /\ J[s[k]].verdict # J[s[l]].verdict
        /\ \A j \in 1 .. n :
              s # <<>> /\ s[1] <= j /\ j <= (IF Len(s) = MinPasses THEN s[MinPasses] ELSE i - 1)
                => J[j].verdict # "failed"
    BY <1>1, SMTT(30) DEF EarnedUpTo
  <1> DEFINE Passed == Len(s) = MinPasses \/ a.at <= entry[c] \/ a.verdict = "familiar"
             Over == \E k \in DOMAIN s : J[s[k]].verdict = a.verdict \/ a.at - J[s[k]].at < MinDelay
  <1>6. CASE Passed \/ (a.verdict # "failed" /\ Over)
    <2>1. Selected(c, i, s) = s
      BY <1>6 DEF Selected
    <2>2. \A k \in DOMAIN s : s[k] <= i
      BY <1>1, <1>4, SMTT(30)
    <2>3. ASSUME NEW j \in 1 .. n, s # <<>>, s[1] <= j,
                 j <= (IF Len(s) = MinPasses THEN s[MinPasses] ELSE i)
          PROVE  J[j].verdict # "failed"
      <3>1. CASE Len(s) = MinPasses \/ j <= i - 1
        BY <1>1, <1>4, <1>5, <2>3, <3>1
      <3>2. CASE Len(s) # MinPasses /\ j = i
        <4>1. 1 \in DOMAIN s
          BY <1>4, <2>3
        <4>2. J[s[1]].at <= a.at /\ J[s[1]].at > entry[c]
          BY <1>1, <1>3, <1>4, <4>1, SMTT(30)
        <4>3. ~(a.at <= entry[c])
          <5> s[1] \in 1 .. n
            BY <1>4, <4>1
          <5> HIDE DEF J, n, a
          <5> QED  BY <1>1, <1>2, <4>2
        <4> QED  BY <1>6, <3>2, <4>3
      <3>3. j <= i - 1 \/ j = i \/ Len(s) = MinPasses
        <4> HIDE DEF J, n, a
        <4> i \in Nat /\ j \in Nat
          BY <1>1
        <4> QED  BY <2>3
      <3> QED  BY <3>1, <3>2, <3>3
    <2> HIDE DEF Passed, Over
    <2> QED  BY <1>1, <1>4, <1>5, <2>1, <2>2, <2>3 DEF EarnedUpTo, Picks
  <1>7. CASE ~Passed /\ a.verdict = "failed"
    <2>1. Selected(c, i, s) = <<>>
      BY <1>7 DEF Selected
    <2> HIDE DEF Passed, Over
    <2> QED  BY <1>1, <2>1 DEF EarnedUpTo, Picks
  <1>8. CASE ~Passed /\ a.verdict # "failed" /\ ~Over
    <2> DEFINE u == Append(s, i)
    <2>1. Selected(c, i, s) = u
      BY <1>8 DEF Selected
    <2>2. /\ u \in Seq(1 .. n) /\ Len(u) = Len(s) + 1 /\ DOMAIN u = 1 .. Len(s) + 1
          /\ u[Len(s) + 1] = i /\ \A k \in DOMAIN s : u[k] = s[k]
          /\ u # <<>>
      <3>1. i \in 1 .. n /\ s \in Seq(1 .. n) /\ DOMAIN s = 1 .. Len(s) /\ Len(s) \in Nat
        BY <1>1, <1>4
      <3> HIDE DEF J, n, a, Passed, Over
      <3>2. /\ u \in Seq(1 .. n) /\ Len(u) = Len(s) + 1
            /\ u[Len(s) + 1] = i /\ \A k \in 1 .. Len(s) : u[k] = s[k]
        BY <3>1
      <3>3. DOMAIN u = 1 .. Len(s) + 1
        BY <3>1
      <3>4. u # <<>>
        BY <3>1, <3>2
      <3> QED  BY <3>1, <3>2, <3>3, <3>4
    <2>3. Len(u) <= MinPasses
      <3>1. Len(s) # MinPasses
        BY <1>8
      <3>2. Len(s) \in Nat /\ Len(s) <= MinPasses /\ MinPasses \in Nat
        BY <1>1, <1>4
      <3>3. Len(u) = Len(s) + 1
        BY <2>2
      <3> HIDE DEF u, J, n
      <3> QED  BY <3>1, <3>2, <3>3
    <2>4. a.verdict \in Stimuli /\ a.at > entry[c]
      <3> HIDE DEF J, n, Over, a
      <3>1. ~(a.at <= entry[c]) /\ a.verdict # "familiar"
        BY <1>8
      <3> QED  BY <1>1, <1>2, <1>8, <3>1
    <2>5. \A k \in DOMAIN s : J[s[k]].verdict # a.verdict /\ a.at - J[s[k]].at >= MinDelay
      <3> TAKE k \in DOMAIN s
      <3>1. J[s[k]].verdict # a.verdict /\ ~(a.at - J[s[k]].at < MinDelay)
        BY <1>8
      <3>2. s[k] \in 1 .. n
        BY <1>4
      <3> HIDE DEF J, n, a
      <3> QED  BY <1>1, <1>2, <3>1, <3>2
    <2> HIDE DEF u, Passed, Over
    <2>6. \A k \in DOMAIN u : /\ u[k] <= i
                              /\ J[u[k]].verdict \in Stimuli /\ J[u[k]].at > entry[c]
      <3> TAKE k \in DOMAIN u
      <3>1. CASE k = Len(s) + 1
        <4> HIDE DEF J, n
        <4> QED  BY <1>1, <2>2, <2>4, <3>1
      <3>2. CASE k \in DOMAIN s
        <4> s[k] <= i
          <5> HIDE DEF J, n
          <5> QED  BY <1>1, <1>4, <3>2
        <4> HIDE DEF J, n
        <4> QED  BY <1>4, <2>2, <3>2
      <3>3. k = Len(s) + 1 \/ k \in DOMAIN s
        <4> HIDE DEF J, n
        <4> QED  BY <1>4, <2>2
      <3> QED  BY <3>1, <3>2, <3>3
    <2>7. \A k, l \in DOMAIN u : k < l =>
              J[u[l]].at - J[u[k]].at >= MinDelay /\ J[u[k]].verdict # J[u[l]].verdict
      <3> TAKE k, l \in DOMAIN u
      <3>1. CASE l = Len(s) + 1 /\ k \in DOMAIN s
        <4> HIDE DEF J, n, a
        <4> QED  BY <1>1, <2>2, <2>5, <3>1
      <3>2. CASE l \in DOMAIN s /\ k \in DOMAIN s
        <4> HIDE DEF J, n
        <4> QED  BY <1>5, <2>2, <3>2
      <3>3. k < l => (l = Len(s) + 1 /\ k \in DOMAIN s) \/ (l \in DOMAIN s /\ k \in DOMAIN s)
        <4> HIDE DEF J, n
        <4> QED  BY <1>4, <2>2
      <3> HIDE DEF J, n
      <3> QED  BY <3>1, <3>2, <3>3
    <2>8. ASSUME NEW j \in 1 .. n, u[1] <= j,
                 j <= (IF Len(u) = MinPasses THEN u[MinPasses] ELSE i)
          PROVE  J[j].verdict # "failed"
      <3>1. j <= i
        BY <1>1, <2>2, <2>8
      <3>2. CASE j = i
        BY <1>8, <3>2
      <3>3. CASE j <= i - 1
        <4>1. s # <<>>
          BY <1>1, <1>4, <2>2, <2>8, <3>3
        <4>2. u[1] = s[1]
          BY <1>4, <2>2, <4>1
        <4> QED  BY <1>5, <1>8, <2>8, <3>3, <4>1, <4>2 DEF Passed
      <3> QED  BY <1>1, <3>1, <3>2, <3>3
    <2> QED  BY <1>1, <2>1, <2>2, <2>3, <2>6, <2>7, <2>8 DEF EarnedUpTo, Picks
  <1> QED  BY <1>6, <1>7, <1>8

\* So MinPasses selected assessments qualify the channel.
LEMMA StreakQualifies ==
    ASSUME TypeOK, Chronicle, NEW c \in Channels
    PROVE  /\ Streak(c) \in Picks(c)
           /\ \A k \in DOMAIN Streak(c) : judged[c][Streak(c)[k]].at > entry[c]
           /\ Len(Streak(c)) = MinPasses => Qualifies(c)
  <1> DEFINE n == Len(judged[c])
  <1>1. /\ judged[c] \in Seq(Assessment) /\ n \in Nat /\ DOMAIN judged[c] = 1 .. n
        /\ MinPasses \in Nat \ {0} /\ entry[c] \in Nat
    BY DecideAssumption DEF TypeOK
  <1>2. PICK f \in [0 .. n -> Picks(c)] :
            /\ f[0] = <<>> /\ \A i \in 1 .. n : f[i] = Selected(c, i, f[i - 1])
            /\ Streak(c) = f[n]
    BY <1>1, StreakIsScanned
  <1> DEFINE Good == {i \in 0 .. n : EarnedUpTo(c, i, f[i])}
  <1>3. Good = 0 .. n
    <2>1. EarnedUpTo(c, 0, <<>>)
      BY <1>1 DEF EarnedUpTo, Picks
    <2>2. \A i \in 1 .. n : EarnedUpTo(c, i - 1, f[i - 1]) => EarnedUpTo(c, i, f[i])
      BY <1>2, SelectedIsEarned
    <2>3. 0 \in Good /\ Good \in SUBSET (0 .. n)
      <3> HIDE DEF n
      <3> QED  BY <1>1, <1>2, <2>1
    <2>4. \A i \in 1 .. n : i - 1 \in Good => i \in Good
      <3> HIDE DEF n
      <3> QED  BY <1>1, <2>2
    <2> HIDE DEF Good, n
    <2> QED  BY <1>1, <2>3, <2>4, Induction
  <1> DEFINE s == Streak(c)
  <1>4. EarnedUpTo(c, n, s)
    <2> HIDE DEF n
    <2> QED  BY <1>1, <1>2, <1>3
  <1> HIDE DEF s
  <1>5. s \in Seq(1 .. n) /\ \A k \in DOMAIN s : judged[c][s[k]].at > entry[c]
    BY <1>1, <1>4 DEF EarnedUpTo, Picks
  <1>6. ASSUME Len(s) = MinPasses
        PROVE  Qualifies(c)
    <2>1. s \in [1 .. MinPasses -> DOMAIN judged[c]] /\ DOMAIN s = 1 .. MinPasses /\ s # <<>>
      BY <1>1, <1>5, <1>6
    <2>2. \A k \in 1 .. MinPasses :
              judged[c][s[k]].verdict \in Stimuli /\ judged[c][s[k]].at > entry[c]
      BY <1>4, <2>1 DEF EarnedUpTo
    <2>3. \A k, l \in 1 .. MinPasses : k < l =>
              /\ judged[c][s[l]].at - judged[c][s[k]].at >= MinDelay
              /\ judged[c][s[k]].verdict # judged[c][s[l]].verdict
      BY <1>4, <2>1 DEF EarnedUpTo
    <2>4. \A i \in s[1] .. s[MinPasses] : judged[c][i].verdict # "failed"
      <3>1. s[1] \in 1 .. n /\ s[MinPasses] \in 1 .. n
        BY <1>1, <2>1
      <3>2. \A i \in s[1] .. s[MinPasses] : i \in DOMAIN judged[c] /\ s[1] <= i /\ i <= s[MinPasses]
        BY <1>1, <3>1
      <3> QED  BY <1>4, <1>6, <2>1, <3>2 DEF EarnedUpTo
    <2> QED  BY <2>1, <2>2, <2>3, <2>4 DEF Qualifies
  <1> QED  BY <1>1, <1>5, <1>6 DEF Picks, s

-----------------------------------------------------------------------------
(* decide_transitions *)

\* The positions that evidence refers to.
LEMMA Positions ==
    ASSUME TypeOK, NEW c \in Channels
    PROVE  /\ Lifecycle(c) \subseteq DOMAIN reviews[c] /\ Lapses(c) \subseteq Lifecycle(c)
           /\ DOMAIN reviews[c] = 1 .. Len(reviews[c]) /\ Len(reviews[c]) \in Nat
           /\ \A i \in DOMAIN reviews[c] : ReviewedAt(c, i) \in 0 .. MaxNow
           /\ DOMAIN judged[c] = 1 .. Len(judged[c]) /\ Len(judged[c]) \in Nat
           /\ \A i \in DOMAIN judged[c] : judged[c][i].at \in 0 .. MaxNow
           /\ Failures(c) \subseteq DOMAIN judged[c]
           /\ entry[c] \in 0 .. MaxNow
  <1>1. reviews[c] \in Seq(Review) /\ judged[c] \in Seq(Assessment) /\ entry[c] \in 0 .. MaxNow
    BY DEF TypeOK
  <1>2. \A i \in DOMAIN reviews[c] : reviews[c][i] \in Review
    BY <1>1
  <1>3. \A i \in DOMAIN judged[c] : judged[c][i] \in Assessment
    BY <1>1
  <1> QED  BY <1>1, <1>2, <1>3 DEF Lifecycle, Lapses, ReviewedAt, Failures, Review, Assessment

\* The gate's boundary is past the age and past every lapse's window.
LEMMA BoundaryIsLast ==
    ASSUME TypeOK, NEW c \in Channels, Lifecycle(c) # {}
    PROVE  /\ Boundary(c) \in Nat
           /\ \E i \in Lifecycle(c) : ReviewedAt(c, i) + MinAge <= Boundary(c)
           /\ \A i \in Lapses(c) : ReviewedAt(c, i) + LapseWindow <= Boundary(c)
  <1> DEFINE first == Min(Lifecycle(c))
             S == {ReviewedAt(c, Min(Lifecycle(c))) + MinAge}
                    \union {ReviewedAt(c, i) + LapseWindow : i \in Lapses(c)}
             N == MaxNow + MinAge + LapseWindow
  <1>1. first \in Lifecycle(c)
    <2>1. Lifecycle(c) \in SUBSET Nat
      BY Positions
    <2> QED  BY <2>1, MinIsLeast
  <1>2. /\ ReviewedAt(c, first) \in 0 .. MaxNow
        /\ \A i \in Lapses(c) : ReviewedAt(c, i) \in 0 .. MaxNow
    BY <1>1, Positions
  <1>3. S \in SUBSET Nat /\ S # {} /\ N \in Nat /\ \A x \in S : x <= N
    <2>1. ReviewedAt(c, first) + MinAge \in Nat /\ ReviewedAt(c, first) + MinAge <= N
      BY <1>2, Constants
    <2>2. \A i \in Lapses(c) : /\ ReviewedAt(c, i) + LapseWindow \in Nat
                               /\ ReviewedAt(c, i) + LapseWindow <= N
      BY <1>2, Constants
    <2>3. N \in Nat
      BY Constants
    <2> HIDE DEF N
    <2> QED  BY <2>1, <2>2, <2>3
  <1>4. Max(S) \in S /\ \A x \in S : x <= Max(S)
    <2> HIDE DEF S, N
    <2> QED  BY <1>3, MaxIsGreatest
  <1>5. Boundary(c) = Max(S)
    BY DEF Boundary
  <1>6. Max(S) \in Nat
    <2> HIDE DEF S, N
    <2> QED  BY <1>3, <1>4
  <1>7. /\ ReviewedAt(c, first) + MinAge <= Max(S)
        /\ \A i \in Lapses(c) : ReviewedAt(c, i) + LapseWindow <= Max(S)
    <2>1. \A x \in S : x <= Max(S)
      BY <1>4
    <2>2. /\ ReviewedAt(c, first) + MinAge \in S
          /\ \A i \in Lapses(c) : ReviewedAt(c, i) + LapseWindow \in S
      OBVIOUS
    <2> HIDE DEF S, first
    <2> QED  BY <2>1, <2>2
  <1> HIDE DEF S
  <1> QED  BY <1>1, <1>5, <1>6, <1>7

\* The cases of decide_transitions for one channel.
LEMMA PlanCases ==
    ASSUME NEW c, NEW t \in PlanOf(c)
    PROVE  \/ /\ life[c] = "NEW" /\ Lifecycle(c) # {}
              /\ t = Plan(c, "LEARNING", <<Min(Lifecycle(c))>>)
           \/ /\ life[c] = "LEARNING" /\ GateOpen(c)
              /\ t = Plan(c, "STABLE", StabilityEvidence(c))
           \/ /\ life[c] = "STABLE" /\ AfterEntry(c, Lapses(c)) # {}
              /\ t = Plan(c, "LEARNING", <<Min(AfterEntry(c, Lapses(c)))>>)
           \/ /\ life[c] = "STABLE" /\ AfterEntry(c, Lapses(c)) = {}
              /\ Len(Streak(c)) = MinPasses
              /\ t = Plan(c, "MASTERED", Streak(c))
           \/ /\ life[c] \in {"MASTERED", "DORMANT"} /\ Failures(c) # {}
              /\ t = Plan(c, "RELAPSE", <<Min(Failures(c))>>)
           \/ /\ life[c] = "RELAPSE" /\ AfterEntry(c, Lifecycle(c)) # {}
              /\ t = Plan(c, "LEARNING", <<Min(AfterEntry(c, Lifecycle(c)))>>)
  BY DEF PlanOf

\* A mastered channel without a failure has no plan, and only then.
LEMMA MasteredPlans ==
    ASSUME NEW c, life[c] = "MASTERED", PlanOf(c) = {}
    PROVE  Failures(c) = {}
  BY DEF PlanOf

\* The instant since which all channels are mastered.
LEMMA AllMasteredIsLast ==
    ASSUME TypeOK, Active # {}
    PROVE  AllMasteredAt \in Nat /\ \A c \in Active : entry[c] <= AllMasteredAt
  <1> DEFINE S == {entry[c] : c \in Active}
  <1>1. \A c \in Active : entry[c] \in 0 .. MaxNow
    BY DEF TypeOK, Active
  <1>2. S \in SUBSET Nat /\ S # {} /\ \A x \in S : x <= MaxNow
    BY <1>1, Constants
  <1>3. Max(S) \in S /\ \A x \in S : x <= Max(S)
    <2> HIDE DEF S
    <2> QED  BY <1>2, Constants, MaxIsGreatest
  <1>4. Max(S) \in Nat
    <2> HIDE DEF S
    <2> QED  BY <1>2, <1>3
  <1>5. \A c \in Active : entry[c] <= Max(S)
    <2>1. \A x \in S : x <= Max(S)
      BY <1>3
    <2>2. \A c \in Active : entry[c] \in S
      OBVIOUS
    <2> HIDE DEF S
    <2> QED  BY <2>1, <2>2
  <1> QED  BY <1>4, <1>5 DEF AllMasteredAt

\* A position of a channel's history, found as the least of a set.
LEMMA LeastPosition ==
    ASSUME TypeOK, NEW c \in Channels, NEW S, S # {},
           S \subseteq DOMAIN reviews[c] \/ S \subseteq DOMAIN judged[c]
    PROVE  Min(S) \in S /\ Min(S) \in Nat
  <1>1. S \in SUBSET Nat
    BY Positions
  <1> QED  BY <1>1, MinIsLeast

\* The evidence behind the stability gate.
LEMMA StabilityEvidenceType ==
    ASSUME TypeOK, NEW c \in Channels, GateOpen(c)
    PROVE  StabilityEvidence(c) \in Seq(Int)
  <1>1. Lifecycle(c) # {}
    BY DEF GateOpen
  <1>2. Min(Lifecycle(c)) \in Nat
    BY <1>1, LeastPosition, Positions
  <1>3. Lifecycle(c) \in SUBSET Nat /\ \A i \in Lifecycle(c) : i <= Len(reviews[c])
    BY Positions
  <1>4. Max(Lifecycle(c)) \in Nat
    BY <1>1, <1>3, MaxIsGreatest, Positions
  <1> DEFINE L == Lapses(c) \union {0}
  <1>5. L \in SUBSET Nat /\ L # {} /\ \A i \in L : i <= Len(reviews[c])
    BY <1>3, Positions
  <1>6. Max(L) \in Nat
    <2> HIDE DEF L
    <2> QED  BY <1>5, MaxIsGreatest, Positions
  <1>7. interval[c] \in Nat /\ Boundary(c) \in Nat
    BY <1>1, BoundaryIsLast DEF TypeOK
  <1> DEFINE a == Min(Lifecycle(c))
             b == Max(Lifecycle(c))
             d == Max(L)
             e == Boundary(c)
  <1>8. StabilityEvidence(c) = <<a, b, d, interval[c], e>>
    BY DEF StabilityEvidence
  <1>9. a \in Int /\ b \in Int /\ d \in Int /\ e \in Int /\ interval[c] \in Int
    BY <1>2, <1>4, <1>6, <1>7
  <1> HIDE DEF a, b, d, e
  <1> QED  BY <1>8, <1>9

\* The records of a channel that its last COMMIT has not used up.
Fresh(c) ==
    {<<"review", i>> : i \in {j \in DOMAIN reviews[c] : reviews[c][j].at > entry[c]}}
      \union {<<"assessment", i>> : i \in {j \in DOMAIN judged[c] : judged[c][j].at > entry[c]}}

\* A plan of one channel is a transition out of its state and episode, and what
\* it rests on is in the histories and, but for the first review ever, fresh.
LEMMA PlansOfChannels ==
    ASSUME TypeOK, Chronicle, NEW c \in Active, NEW t \in PlanOf(c)
    PROVE  /\ t \in Transition /\ t.ch = c /\ t.to \notin {"NEW", "DORMANT"}
           /\ Decisive(t) \subseteq Known(c)
           /\ life[c] # "NEW" => Decisive(t) \subseteq Fresh(c)
  <1>1. c \in Channels /\ life[c] \in States /\ episode[c] \in Nat
    BY DEF Active, TypeOK
  <1>2. ASSUME NEW s \in States, NEW e \in Seq(Int)
        PROVE  /\ Plan(c, s, e) \in Transition /\ Plan(c, s, e).ch = c /\ Plan(c, s, e).to = s
               /\ Plan(c, s, e).evidence = e
    BY <1>1 DEF Plan, Transition
  <1>3. ASSUME NEW S, S # {}, S \subseteq DOMAIN reviews[c], t = Plan(c, "LEARNING", <<Min(S)>>)
        PROVE  /\ t \in Transition /\ t.ch = c /\ t.to = "LEARNING"
               /\ Decisive(t) = {<<"review", Min(S)>>} /\ Min(S) \in S
    <2>1. Min(S) \in S /\ Min(S) \in Nat
      BY <1>1, <1>3, LeastPosition
    <2> DEFINE m == Min(S)
    <2>2. m \in S /\ m \in Nat /\ t = Plan(c, "LEARNING", <<m>>)
      BY <1>3, <2>1
    <2> HIDE DEF m
    <2>3. <<m>> \in Seq(Int) /\ DOMAIN <<m>> = {1} /\ "LEARNING" \in States
      BY <2>2 DEF States
    <2>4. t \in Transition /\ t.ch = c /\ t.to = "LEARNING" /\ t.evidence = <<m>>
      BY <1>2, <2>2, <2>3
    <2>5. Decisive(t) = {<<"review", m>>}
      BY <2>3, <2>4 DEF Decisive
    <2> QED  BY <2>2, <2>4, <2>5 DEF m
  <1>4. /\ Lifecycle(c) \subseteq DOMAIN reviews[c]
        /\ AfterEntry(c, Lifecycle(c)) \subseteq DOMAIN reviews[c]
        /\ AfterEntry(c, Lapses(c)) \subseteq DOMAIN reviews[c]
        /\ Failures(c) \subseteq DOMAIN judged[c]
    BY <1>1, Positions DEF AfterEntry
  <1>5. CASE life[c] = "NEW" /\ Lifecycle(c) # {}
             /\ t = Plan(c, "LEARNING", <<Min(Lifecycle(c))>>)
    BY <1>3, <1>4, <1>5 DEF Known
  <1>6. CASE life[c] = "LEARNING" /\ GateOpen(c) /\ t = Plan(c, "STABLE", StabilityEvidence(c))
    <2>1. t \in Transition /\ t.ch = c /\ t.to = "STABLE"
      BY <1>1, <1>2, <1>6, StabilityEvidenceType DEF States
    <2> QED  BY <2>1 DEF Decisive
  <1>7. CASE \E S \in {AfterEntry(c, Lapses(c)), AfterEntry(c, Lifecycle(c))} :
                S # {} /\ t = Plan(c, "LEARNING", <<Min(S)>>)
    <2>1. PICK S \in {AfterEntry(c, Lapses(c)), AfterEntry(c, Lifecycle(c))} :
                S # {} /\ t = Plan(c, "LEARNING", <<Min(S)>>)
      BY <1>7
    <2>2. \A i \in S : i \in DOMAIN reviews[c] /\ reviews[c][i].at > entry[c]
      BY <1>4 DEF AfterEntry, ReviewedAt
    <2> QED  BY <1>3, <2>1, <2>2 DEF Known, Fresh
  <1>8. CASE Len(Streak(c)) = MinPasses /\ t = Plan(c, "MASTERED", Streak(c))
    <2> DEFINE s == Streak(c)
    <2>1. s \in Seq(DOMAIN judged[c]) /\ \A k \in DOMAIN s : judged[c][s[k]].at > entry[c]
      BY <1>1, StreakQualifies DEF Picks
    <2> HIDE DEF s
    <2>2. s \in Seq(Int) /\ \A k \in DOMAIN s : s[k] \in DOMAIN judged[c]
      BY <1>1, <2>1, Positions
    <2>3. t \in Transition /\ t.ch = c /\ t.to = "MASTERED" /\ t.evidence = s
      BY <1>2, <1>8, <2>2 DEF States, s
    <2>4. Decisive(t) = {<<"assessment", s[k]>> : k \in DOMAIN s}
      BY <2>3 DEF Decisive
    <2> QED  BY <2>1, <2>2, <2>3, <2>4 DEF Known, Fresh
  <1>9. CASE Failures(c) # {} /\ t = Plan(c, "RELAPSE", <<Min(Failures(c))>>)
    <2> DEFINE m == Min(Failures(c))
    <2>1. m \in Failures(c) /\ m \in Nat
      BY <1>1, <1>4, <1>9, LeastPosition
    <2> HIDE DEF m
    <2>2. <<m>> \in Seq(Int) /\ DOMAIN <<m>> = {1} /\ "RELAPSE" \in States
      BY <2>1 DEF States
    <2>3. t \in Transition /\ t.ch = c /\ t.to = "RELAPSE" /\ t.evidence = <<m>>
      BY <1>2, <1>9, <2>2 DEF m
    <2>4. Decisive(t) = {<<"assessment", m>>}
      BY <2>2, <2>3 DEF Decisive
    <2>5. m \in DOMAIN judged[c] /\ judged[c][m].at > entry[c]
      BY <2>1 DEF Failures
    <2> QED  BY <2>3, <2>4, <2>5 DEF Known, Fresh
  <1> QED  BY PlanCases, <1>5, <1>6, <1>7, <1>8, <1>9

\* Members of a dormancy group rest on no record.
LEMMA PlansOfGroup ==
    ASSUME TypeOK, NEW t \in DormancyGroup
    PROVE  t \in Transition /\ t.ch \in Active /\ t.to = "DORMANT" /\ Decisive(t) = {}
  <1> DEFINE n == Len(Order)
             d == [i \in DOMAIN Order |-> episode[Order[i]]]
             e == <<AllMasteredAt, AllMasteredAt + DormantAfter>>
  <1>1. PICK c \in Active : t = Plan(c, "DORMANT", d \o e)
    BY DEF DormancyGroup
  <1>2. c \in Channels /\ life[c] \in States /\ episode \in [Channels -> Nat]
    BY DEF Active, TypeOK
  <1>3. d \in Seq(Int)
    <2>1. DOMAIN Order = 1 .. n /\ n \in Nat /\ \A i \in DOMAIN Order : Order[i] \in Channels
      BY DecideAssumption DEF Channels
    <2> HIDE DEF n
    <2>2. \A i \in 1 .. n : episode[Order[i]] \in Int
      BY <1>2, <2>1
    <2> QED  BY <2>1, <2>2
  <1>4. e \in Seq(Int)
    <2>1. AllMasteredAt \in Nat /\ DormantAfter \in Nat
      BY <1>1, AllMasteredIsLast, Constants
    <2> QED  BY <2>1
  <1>5. d \o e \in Seq(Int)
    <2> HIDE DEF d, e
    <2> QED  BY <1>3, <1>4
  <1> HIDE DEF d, e
  <1> QED  BY <1>1, <1>2, <1>5 DEF Plan, Transition, States, Decisive

\* What any decision consists of.
LEMMA PlansOfDecision ==
    ASSUME TypeOK, Chronicle, NEW t \in Decision
    PROVE  /\ t \in Transition /\ t.ch \in Active /\ t.to # "NEW"
           /\ Decisive(t) \subseteq Known(t.ch)
           /\ life[t.ch] # "NEW" => Decisive(t) \subseteq Fresh(t.ch)
  <1>1. CASE t \in DormancyGroup
    BY <1>1, PlansOfGroup
  <1>2. CASE \E c \in Active : t \in PlanOf(c)
    BY <1>2, PlansOfChannels
  <1> QED  BY <1>1, <1>2 DEF Decision

\* Evidence that is fresh was not spent.
LEMMA FreshIsUnspent ==
    ASSUME IInv
    PROVE  EvidenceCountsOnce
  <1> SUFFICES ASSUME NEW t \in Decision
               PROVE  Decisive(t) \intersect spent[t.ch] = {}
    BY DEF EvidenceCountsOnce
  <1>1. t.ch \in Channels
    BY PlansOfDecision DEF IInv, Active
  <1>2. CASE life[t.ch] = "NEW"
    BY <1>1, <1>2 DEF IInv, SpentInv
  <1>3. CASE life[t.ch] # "NEW"
    <2>1. Decisive(t) \subseteq Fresh(t.ch) /\ spent[t.ch] \subseteq Old(t.ch)
      BY <1>1, <1>3, PlansOfDecision DEF IInv, SpentInv
    <2>2. ASSUME NEW x \in Fresh(t.ch), x \in Old(t.ch)
          PROVE  FALSE
      <3>1. /\ \A i \in DOMAIN reviews[t.ch] : reviews[t.ch][i].at \in Nat
            /\ \A i \in DOMAIN judged[t.ch] : judged[t.ch][i].at \in Nat
            /\ entry[t.ch] \in Nat
        BY <1>1, Positions, Constants DEF IInv, ReviewedAt
      <3>2. CASE \E i \in DOMAIN reviews[t.ch] :
                     x = <<"review", i>> /\ reviews[t.ch][i].at > entry[t.ch]
        <4>1. PICK i \in DOMAIN reviews[t.ch] :
                     x = <<"review", i>> /\ reviews[t.ch][i].at > entry[t.ch]
          BY <3>2
        <4>2. \A j : x # <<"assessment", j>>
          BY <4>1
        <4>3. PICK j \in DOMAIN reviews[t.ch] :
                     x = <<"review", j>> /\ reviews[t.ch][j].at <= entry[t.ch]
          BY <2>2, <4>2 DEF Old
        <4>4. i = j
          BY <4>1, <4>3
        <4> QED  BY <3>1, <4>1, <4>3, <4>4
      <3>3. CASE \E i \in DOMAIN judged[t.ch] :
                     x = <<"assessment", i>> /\ judged[t.ch][i].at > entry[t.ch]
        <4>1. PICK i \in DOMAIN judged[t.ch] :
                     x = <<"assessment", i>> /\ judged[t.ch][i].at > entry[t.ch]
          BY <3>3
        <4>2. \A j : x # <<"review", j>>
          BY <4>1
        <4>3. PICK j \in DOMAIN judged[t.ch] :
                     x = <<"assessment", j>> /\ judged[t.ch][j].at <= entry[t.ch]
          BY <2>2, <4>2 DEF Old
        <4>4. i = j
          BY <4>1, <4>3
        <4> QED  BY <3>1, <4>1, <4>3, <4>4
      <3> QED  BY <2>2, <3>2, <3>3 DEF Fresh
    <2> QED  BY <2>1, <2>2
  <1> QED  BY <1>2, <1>3

\* Every plan is earned: the comparisons of decide_transitions imply the gates.
LEMMA PlansAreEarned ==
    ASSUME IInv
    PROVE  DecisionsAreEarned
  <1>0. TypeOK /\ Chronicle /\ now \in Nat
    BY Constants DEF IInv, TypeOK
  <1> SUFFICES ASSUME NEW t \in Decision
               PROVE  Earned(t)
    BY DEF DecisionsAreEarned
  <1>1. ASSUME NEW c \in Active, t \in PlanOf(c)
        PROVE  Earned(t)
    <2>1. c \in Channels
      BY DEF Active
    <2>2. /\ \A i \in Lifecycle(c) : i \in DOMAIN reviews[c] /\ ReviewedAt(c, i) \in Nat
          /\ \A i \in Lapses(c) : i \in Lifecycle(c) /\ ReviewedAt(c, i) \in Nat
      BY <1>0, <2>1, Positions, Constants
    <2>3. CASE life[c] = "NEW" /\ Lifecycle(c) # {}
               /\ t = Plan(c, "LEARNING", <<Min(Lifecycle(c))>>)
      <3>1. t.ch = c /\ t.to = "LEARNING" /\ t.from = "NEW"
        BY <2>3 DEF Plan
      <3> QED  BY <2>3, <3>1 DEF Earned
    <2>4. CASE life[c] = "LEARNING" /\ GateOpen(c) /\ t = Plan(c, "STABLE", StabilityEvidence(c))
      <3>1. t.ch = c /\ t.to = "STABLE"
        BY <2>4 DEF Plan
      <3>2. interval[c] >= MinInterval /\ c \notin suspended /\ now >= Boundary(c)
        BY <2>4 DEF GateOpen
      <3>3. \E i \in Lifecycle(c) : now - ReviewedAt(c, i) >= MinAge
        <4>1. PICK i \in Lifecycle(c) : ReviewedAt(c, i) + MinAge <= Boundary(c)
          BY <1>0, <2>1, <2>4, BoundaryIsLast DEF GateOpen
        <4>2. Boundary(c) \in Nat
          BY <1>0, <2>1, <2>4, BoundaryIsLast DEF GateOpen
        <4> QED  BY <1>0, <2>2, <3>2, <4>1, <4>2, Constants
      <3>4. \A i \in Lapses(c) : now - ReviewedAt(c, i) > LapseWindow
        <4> TAKE i \in Lapses(c)
        <4>1. ~(ReviewedAt(c, i) >= now - LapseWindow)
          BY <2>4 DEF GateOpen, RecentLapses
        <4>2. ReviewedAt(c, i) \in Nat /\ LapseWindow \in Nat
          BY <2>2, Constants
        <4> QED  BY <1>0, <4>1, <4>2
      <3> QED  BY <3>1, <3>2, <3>3, <3>4 DEF Earned
    <2>5. CASE life[c] = "STABLE" /\ AfterEntry(c, Lapses(c)) # {}
               /\ t = Plan(c, "LEARNING", <<Min(AfterEntry(c, Lapses(c)))>>)
      <3>1. t.ch = c /\ t.to = "LEARNING" /\ t.from = "STABLE"
        BY <2>5 DEF Plan
      <3> QED  BY <2>5, <3>1 DEF Earned, AfterEntry
    <2>6. CASE life[c] = "STABLE" /\ AfterEntry(c, Lapses(c)) = {}
               /\ Len(Streak(c)) = MinPasses /\ t = Plan(c, "MASTERED", Streak(c))
      <3>1. t.ch = c /\ t.to = "MASTERED"
        BY <2>6 DEF Plan
      <3>2. Qualifies(c)
        BY <1>0, <2>1, <2>6, StreakQualifies
      <3> QED  BY <2>6, <3>1, <3>2 DEF Earned, AfterEntry
    <2>7. CASE life[c] \in {"MASTERED", "DORMANT"} /\ Failures(c) # {}
               /\ t = Plan(c, "RELAPSE", <<Min(Failures(c))>>)
      <3>1. t.ch = c /\ t.to = "RELAPSE"
        BY <2>7 DEF Plan
      <3> QED  BY <2>7, <3>1 DEF Earned, Failures
    <2>8. CASE life[c] = "RELAPSE" /\ AfterEntry(c, Lifecycle(c)) # {}
               /\ t = Plan(c, "LEARNING", <<Min(AfterEntry(c, Lifecycle(c)))>>)
      <3>1. t.ch = c /\ t.to = "LEARNING" /\ t.from = "RELAPSE"
        BY <2>8 DEF Plan
      <3> QED  BY <2>8, <3>1 DEF Earned, AfterEntry
    <2> QED  BY <1>1, PlanCases, <2>3, <2>4, <2>5, <2>6, <2>7, <2>8
  <1>2. ASSUME t \in DormancyGroup, UNION {PlanOf(c) : c \in Active} = {}, Active # {},
               \A c \in Active : life[c] = "MASTERED", now >= AllMasteredAt + DormantAfter
        PROVE  Earned(t)
    <2>1. t.to = "DORMANT"
      BY <1>0, <1>2, PlansOfGroup
    <2>2. ASSUME NEW d \in Active
          PROVE  /\ life[d] = "MASTERED" /\ now - entry[d] >= DormantAfter
                 /\ ~\E i \in DOMAIN judged[d] :
                        judged[d][i].verdict = "failed" /\ judged[d][i].at > entry[d]
      <3>1. entry[d] <= AllMasteredAt /\ AllMasteredAt \in Nat /\ entry[d] \in Nat
        BY <1>0, <1>2, AllMasteredIsLast, Constants, SMTT(30) DEF Active, TypeOK
      <3>2. now - entry[d] >= DormantAfter
        BY <1>0, <1>2, <3>1, Constants
      <3>3. Failures(d) = {}
        BY <1>2, MasteredPlans
      <3> QED  BY <1>2, <3>2, <3>3 DEF Failures
    <2> QED  BY <2>1, <2>2 DEF Earned
  <1> QED  BY <1>1, <1>2 DEF Decision

-----------------------------------------------------------------------------
(* The invariant holds *)

LEMMA InitHolds == Init => IInv
  <1> SUFFICES ASSUME Init PROVE IInv
    OBVIOUS
  <1>1. /\ now = 0 /\ life \in Starts /\ entry = [c \in Channels |-> 0] /\ suspended = {}
        /\ pending = {} /\ applied = FALSE /\ aborted = {} /\ pc = "idle" /\ todo = {} /\ faults = 0
        /\ spent = [c \in Channels |-> {}] /\ judged = [c \in Channels |-> <<>>]
        /\ interval = [c \in Channels |-> 0] /\ inputs = Cardinality(Active)
        /\ episode = [c \in Channels |-> IF life[c] \in {"NEW", Inactive} THEN 0 ELSE 1]
    BY DEF Init
  <1>2. life \in [Channels -> States \union {Inactive}] /\ inputs \in 0 .. MaxInputs
    BY <1>1, DecideAssumption DEF Active
  <1> DEFINE r == [at |-> 0, kind |-> "review"]
  <1>3. \A c \in Channels : reviews[c] = <<>> \/ reviews[c] = <<r>>
    BY DEF Init
  <1>4. r \in Review /\ r.at = 0
    BY Constants DEF Review
  <1>5. reviews \in [Channels -> Seq(Review)]
    <2>1. <<>> \in Seq(Review) /\ <<r>> \in Seq(Review)
      BY <1>4
    <2>2. DOMAIN reviews = Channels /\ reviews = [c \in Channels |-> reviews[c]]
      BY DEF Init
    <2> HIDE DEF r
    <2> QED  BY <1>3, <2>1, <2>2
  <1>6. \A c \in Channels : \A i \in DOMAIN reviews[c] : reviews[c][i].at <= 0
    <2> SUFFICES ASSUME NEW c \in Channels, NEW i \in DOMAIN reviews[c]
                 PROVE  reviews[c][i].at <= 0
      OBVIOUS
    <2>1. reviews[c] = <<r>> /\ i = 1
      <3> HIDE DEF r
      <3> QED  BY <1>3
    <2> QED  BY <1>4, <2>1
  <1>7. TypeOK
    <2>1. /\ now \in 0 .. MaxNow /\ faults \in 0 .. MaxFaults
          /\ entry \in [Channels -> 0 .. MaxNow] /\ interval \in [Channels -> Nat]
          /\ episode \in [Channels -> Nat] /\ judged \in [Channels -> Seq(Assessment)]
      BY <1>1, Constants
    <2> QED  BY <1>1, <1>2, <1>5, <2>1 DEF TypeOK
  <1>8. Chronicle
    BY <1>1, <1>6 DEF Chronicle
  <1>9. PlanInv /\ SpentInv
    BY <1>1 DEF PlanInv, SpentInv
  <1> QED  BY <1>7, <1>8, <1>9 DEF IInv

\* Plans stay founded while histories only grow.
LEMMA PlansStayFounded ==
    ASSUME IInv, pending' \union todo' \subseteq pending \union todo \union Decision,
           \A c \in Channels : Known(c) \subseteq Known(c)'
    PROVE  /\ \A t \in pending' \union todo' : t.to # "NEW" /\ t \in Transition
           /\ \A t \in pending' \union todo' : Decisive(t)' \subseteq Known(t.ch)'
  <1> SUFFICES ASSUME NEW t \in pending' \union todo'
               PROVE  /\ t.to # "NEW" /\ t \in Transition
                      /\ Decisive(t)' \subseteq Known(t.ch)'
    OBVIOUS
  <1>1. t \in Transition /\ t.to # "NEW" /\ Decisive(t) \subseteq Known(t.ch)
    <2>1. CASE t \in pending \union todo
      BY <2>1 DEF IInv, TypeOK, PlanInv
    <2>2. CASE t \in Decision
      BY <2>2, PlansOfDecision DEF IInv
    <2> QED  BY <2>1, <2>2
  <1>2. t.ch \in Channels
    BY <1>1 DEF Transition
  <1>3. Decisive(t)' = Decisive(t)
    BY DEF Decisive
  <1> QED  BY <1>1, <1>2, <1>3

\* The steps of a run and of the clock leave histories alone.
LEMMA HistoriesStay ==
    ASSUME IInv, UNCHANGED <<reviews, judged>>
    PROVE  \A c \in Channels : Known(c)' = Known(c)
  BY DEF Known

\* A COMMIT turns what is known into what is old.
LEMMA CommitStep ==
    ASSUME IInv, Commit
    PROVE  IInv'
  <1>1. /\ TypeOK /\ Chronicle /\ PlanInv /\ SpentInv /\ pc = "commit"
        /\ UNCHANGED <<now, reviews, interval, suspended, judged, inputs, aborted, faults>>
        /\ pending' = {} /\ applied' = FALSE /\ Continue
    BY DEF IInv, Commit, CommitEntering, world, cards
  <1>2. /\ life' = [c \in Channels |-> IF c \in Members THEN Of(c).to ELSE life[c]]
        /\ entry' = [c \in Channels |-> IF c \in Members THEN now ELSE entry[c]]
        /\ episode' = [c \in Channels |-> IF c \in Members THEN episode[c] + 1 ELSE episode[c]]
        /\ spent' = [c \in Channels |-> IF c \in Members THEN spent[c] \union Decisive(Of(c))
                                        ELSE spent[c]]
    BY DEF Commit, CommitEntering
  <1>3. \A c \in Members : /\ Of(c) \in pending /\ Of(c).ch = c /\ Of(c).to \in States
                           /\ Of(c).to # "NEW" /\ Decisive(Of(c)) \subseteq Known(c)
    <2> TAKE c \in Members
    <2>1. Of(c) \in pending /\ Of(c).ch = c
      BY DEF Members, Of
    <2> QED  BY <1>1, <2>1 DEF TypeOK, Transition, PlanInv
  <1>4. TypeOK'
    <2>1. life' \in [Channels -> States \union {Inactive}]
      BY <1>1, <1>2, <1>3 DEF TypeOK
    <2>2. entry' \in [Channels -> 0 .. MaxNow] /\ episode' \in [Channels -> Nat]
      BY <1>1, <1>2 DEF TypeOK
    <2>3. todo' \subseteq todo /\ pc' \in {"idle", "prepare"} /\ (pc' = "idle" <=> todo' = {})
      BY <1>1 DEF Continue, Goto, PlanInv
    <2> QED  BY <1>1, <2>1, <2>2, <2>3 DEF TypeOK
  <1>5. Chronicle'
    BY <1>1, <1>2, Constants DEF Chronicle, TypeOK
  <1>6. PlanInv'
    <2>1. todo' \subseteq todo /\ pc' \in {"idle", "prepare"}
      BY <1>1 DEF Continue, Goto
    <2> QED  BY <1>1, <2>1, PlansStayFounded, HistoriesStay DEF PlanInv
  <1>7. SpentInv'
    <2> SUFFICES ASSUME NEW c \in Channels
                 PROVE  spent'[c] \subseteq Old(c)' /\ (life'[c] = "NEW" => spent'[c] = {})
      BY DEF SpentInv
    <2>1. CASE c \in Members
      <3>1. Known(c) \subseteq Old(c)'
        BY <1>1, <1>2, <2>1 DEF Known, Old, Chronicle
      <3>2. spent'[c] \subseteq Known(c)
        BY <1>1, <1>2, <1>3, <2>1 DEF SpentInv, Old, Known
      <3> QED  BY <1>2, <1>3, <2>1, <3>1, <3>2
    <2>2. CASE c \notin Members
      <3>1. spent'[c] = spent[c] /\ life'[c] = life[c] /\ entry'[c] = entry[c]
        BY <1>2, <2>2
      <3>2. Old(c)' = Old(c)
        BY <1>1, <3>1 DEF Old
      <3> QED  BY <1>1, <3>1, <3>2 DEF SpentInv
    <2> QED  BY <2>1, <2>2
  <1> QED  BY <1>4, <1>5, <1>6, <1>7 DEF IInv

\* Any other step of a run, and its interruption.
LEMMA RunStep ==
    ASSUME IInv, Observe \/ Prepare \/ Update \/ Recover \/ Interrupt
    PROVE  IInv'
  <1>1. /\ TypeOK /\ Chronicle /\ PlanInv /\ SpentInv
        /\ UNCHANGED <<now, life, entry, episode, spent, reviews, interval, judged, inputs>>
    BY DEF IInv, Observe, Prepare, Update, Recover, Interrupt, states, world, cards
  <1>2. /\ pending' \union todo' \subseteq pending \union todo \union Decision
        /\ pc' \in {"update", "commit"} => pending' \subseteq todo'
        /\ pc' \in {"idle", "prepare", "update", "commit"} /\ (pc' = "idle" <=> todo' = {})
        /\ aborted' \subseteq aborted \union pending /\ applied' \in BOOLEAN
        /\ suspended' \subseteq Channels /\ faults' \in 0 .. MaxFaults
    <2>1. CASE Observe
      BY <1>1, <2>1 DEF Observe, Goto, TypeOK, journal, world, cards
    <2>2. CASE Prepare
      <3>1. Batch(todo) \subseteq todo
        BY DEF Batch
      <3> QED  BY <1>1, <2>2, <3>1 DEF Prepare, Goto, TypeOK, world, cards
    <2>3. CASE Update
      <3>1. \A t \in pending : t.ch \in Channels
        BY <1>1 DEF TypeOK, Transition
      <3> QED  BY <1>1, <2>3, <3>1 DEF Update, Goto, TypeOK, PlanInv
    <2>4. CASE Recover
      BY <1>1, <2>4 DEF Recover, Goto, TypeOK, world, cards
    <2>5. CASE Interrupt
      BY <1>1, <2>5, Constants DEF Interrupt, Goto, TypeOK, journal, world, cards
    <2> QED  BY <2>1, <2>2, <2>3, <2>4, <2>5
  <1>3. TypeOK'
    <2>1. \A t \in pending' \union todo' : t \in Transition
      BY <1>1, <1>2, PlansStayFounded, HistoriesStay
    <2> QED  BY <1>1, <1>2, <2>1 DEF TypeOK
  <1>4. Chronicle' /\ SpentInv'
    BY <1>1 DEF Chronicle, SpentInv, Old
  <1>5. PlanInv'
    BY <1>1, <1>2, PlansStayFounded, HistoriesStay DEF PlanInv
  <1> QED  BY <1>3, <1>4, <1>5 DEF IInv

\* People append to a history, and what was known stays known.
LEMMA ReviewStep ==
    ASSUME IInv, NEW c \in Channels, NEW kind \in {"review", "lapse", "cram"},
           NEW ivl \in {0, MinInterval}, ReviewCard(c, kind, ivl)
    PROVE  IInv'
  <1> DEFINE r == [at |-> now, kind |-> kind]
  <1>1. /\ TypeOK /\ Chronicle /\ PlanInv /\ SpentInv /\ inputs' \in 0 .. MaxInputs
        /\ UNCHANGED <<now, life, entry, episode, spent, suspended, judged>>
        /\ UNCHANGED <<pending, applied, aborted, pc, todo, faults>>
    <2>1. inputs' \in 0 .. MaxInputs
      <3>1. inputs < MaxInputs /\ inputs' = inputs + 1
        BY DEF ReviewCard, Input
      <3>2. inputs \in 0 .. MaxInputs /\ MaxInputs \in Nat
        BY Constants DEF IInv, TypeOK
      <3> QED  BY <3>1, <3>2
    <2>2. UNCHANGED <<now, states, suspended, judged, journal, pc, todo, faults>>
      BY DEF ReviewCard
    <2> QED  BY <2>1, <2>2 DEF IInv, states, journal
  <1>2. /\ reviews' = [reviews EXCEPT ![c] = Append(reviews[c], r)]
        /\ r \in Review /\ r.at = now /\ now \in 0 .. MaxNow
    BY <1>1 DEF ReviewCard, Review, TypeOK
  <1>3. interval' \in [Channels -> Nat]
    <2> DEFINE v == CASE kind = "cram" -> interval[c] [] kind = "lapse" -> 0 [] OTHER -> ivl
    <2>1. interval' = [interval EXCEPT ![c] = v]
      BY DEF ReviewCard
    <2>2. interval \in [Channels -> Nat] /\ ivl \in Nat
      BY <1>1, Constants DEF TypeOK
    <2>3. v \in Nat
      BY <2>2
    <2> HIDE DEF v
    <2> QED  BY <2>1, <2>2, <2>3
  <1> HIDE DEF r
  <1>4. reviews' \in [Channels -> Seq(Review)]
    BY <1>1, <1>2 DEF TypeOK
  <1>5. \A d \in Channels : /\ DOMAIN reviews[d] \subseteq DOMAIN reviews'[d]
                            /\ \A i \in DOMAIN reviews[d] : reviews'[d][i] = reviews[d][i]
                            /\ \A i \in DOMAIN reviews'[d] \ DOMAIN reviews[d] : reviews'[d][i] = r
    <2> TAKE d \in Channels
    <2>1. reviews[d] \in Seq(Review)
      BY <1>1 DEF TypeOK
    <2>2. CASE d = c
      <3>1. reviews'[d] = Append(reviews[d], r)
        BY <1>1, <1>2, <2>2 DEF TypeOK
      <3> QED  BY <1>2, <2>1, <3>1
    <2>3. CASE d # c
      BY <1>1, <1>2, <2>3 DEF TypeOK
    <2> QED  BY <2>2, <2>3
  <1>6. TypeOK'
    BY <1>1, <1>3, <1>4 DEF TypeOK
  <1>7. Chronicle'
    <2>1. \A d \in Channels : \A i \in DOMAIN reviews'[d] : reviews'[d][i].at <= now'
      BY <1>1, <1>2, <1>5, Constants DEF Chronicle
    <2> QED  BY <1>1, <2>1 DEF Chronicle
  <1>8. \A d \in Channels : Known(d) \subseteq Known(d)' /\ Old(d) \subseteq Old(d)'
    BY <1>1, <1>5 DEF Known, Old
  <1>9. PlanInv' /\ SpentInv'
    BY <1>1, <1>8, PlansStayFounded DEF PlanInv, SpentInv
  <1> QED  BY <1>6, <1>7, <1>9 DEF IInv

LEMMA JudgeStep ==
    ASSUME IInv, NEW c \in Channels, NEW verdict \in Stimuli \union {"failed", "familiar"},
           Judge(c, verdict)
    PROVE  IInv'
  <1> DEFINE a == [at |-> now, verdict |-> verdict]
  <1>1. /\ TypeOK /\ Chronicle /\ PlanInv /\ SpentInv /\ inputs' \in 0 .. MaxInputs
        /\ UNCHANGED <<now, life, entry, episode, spent, suspended, reviews, interval>>
        /\ UNCHANGED <<pending, applied, aborted, pc, todo, faults>>
    BY Constants DEF IInv, Judge, states, cards, journal, Input, TypeOK
  <1>2. /\ judged' = [judged EXCEPT ![c] = Append(judged[c], a)]
        /\ a \in Assessment /\ a.at = now /\ now \in 0 .. MaxNow
    BY <1>1 DEF Judge, Assessment, TypeOK
  <1> HIDE DEF a
  <1>3. judged' \in [Channels -> Seq(Assessment)]
    BY <1>1, <1>2 DEF TypeOK
  <1>4. \A d \in Channels :
            /\ DOMAIN judged[d] \subseteq DOMAIN judged'[d]
            /\ \A i \in DOMAIN judged[d] : judged'[d][i] = judged[d][i]
            /\ \A i \in DOMAIN judged'[d] \ DOMAIN judged[d] :
                  judged'[d][i] = a /\ \A j \in DOMAIN judged'[d] : j <= i
    <2> TAKE d \in Channels
    <2>1. judged[d] \in Seq(Assessment)
      BY <1>1 DEF TypeOK
    <2>2. CASE d = c
      <3>1. judged'[d] = Append(judged[d], a)
        BY <1>1, <1>2, <2>2 DEF TypeOK
      <3> QED  BY <1>2, <2>1, <3>1
    <2>3. CASE d # c
      BY <1>1, <1>2, <2>3 DEF TypeOK
    <2> QED  BY <2>2, <2>3
  <1>5. TypeOK'
    BY <1>1, <1>3 DEF TypeOK
  <1>6. Chronicle'
    <2>1. \A d \in Channels : \A i \in DOMAIN judged'[d] : judged'[d][i].at <= now
      BY <1>1, <1>2, <1>4, Constants DEF Chronicle
    <2>2. ASSUME NEW d \in Channels, NEW i \in DOMAIN judged'[d], NEW j \in DOMAIN judged'[d],
                 i <= j
          PROVE  judged'[d][i].at <= judged'[d][j].at
      <3>1. CASE j \notin DOMAIN judged[d]
        BY <1>2, <1>4, <2>1, <3>1
      <3>2. CASE i \in DOMAIN judged[d] /\ j \in DOMAIN judged[d]
        BY <1>1, <1>4, <2>2, <3>2 DEF Chronicle
      <3>3. CASE i \notin DOMAIN judged[d] /\ j \in DOMAIN judged[d]
        <4>1. i \in Nat /\ j \in Nat
          BY <1>3
        <4>2. i = j
          BY <1>4, <2>2, <3>3, <4>1
        <4> QED  BY <3>3, <4>2
      <3> QED  BY <3>1, <3>2, <3>3
    <2> QED  BY <1>1, <2>1, <2>2 DEF Chronicle
  <1>7. \A d \in Channels : Known(d) \subseteq Known(d)' /\ Old(d) \subseteq Old(d)'
    BY <1>1, <1>4 DEF Known, Old
  <1>8. PlanInv' /\ SpentInv'
    BY <1>1, <1>7, PlansStayFounded DEF PlanInv, SpentInv
  <1> QED  BY <1>5, <1>6, <1>8 DEF IInv

\* The clock, and cards that are suspended by hand.
LEMMA QuietStep ==
    ASSUME IInv, Tick \/ \E c \in Channels : ToggleSuspension(c)
    PROVE  IInv'
  <1>1. /\ TypeOK /\ Chronicle /\ PlanInv /\ SpentInv
        /\ UNCHANGED <<life, entry, episode, spent, reviews, interval, judged>>
        /\ UNCHANGED <<pending, applied, aborted, pc, todo, faults>>
        /\ now' \in 0 .. MaxNow /\ now <= now' /\ inputs' \in 0 .. MaxInputs
        /\ suspended' \subseteq Channels
    BY Constants, SMTT(30) DEF IInv, Tick, ToggleSuspension, states, world, cards, journal, Input, TypeOK
  <1>2. TypeOK'
    BY <1>1 DEF TypeOK
  <1>3. Chronicle'
    <2>1. /\ \A c \in Channels : entry[c] \in Nat /\ entry[c] <= now /\ now \in Nat
          /\ \A c \in Channels : \A i \in DOMAIN reviews[c] : reviews[c][i].at \in Nat
          /\ \A c \in Channels : \A i \in DOMAIN judged[c] : judged[c][i].at \in Nat
      BY <1>1, Positions, Constants DEF Chronicle, TypeOK, ReviewedAt
    <2> QED  BY <1>1, <2>1, Constants DEF Chronicle
  <1>4. PlanInv' /\ SpentInv'
    BY <1>1, PlansStayFounded, HistoriesStay DEF PlanInv, SpentInv, Old
  <1> QED  BY <1>2, <1>3, <1>4 DEF IInv

LEMMA StepHolds == IInv /\ [Next]_vars => IInv'
  <1> SUFFICES ASSUME IInv, [Next]_vars PROVE IInv'
    OBVIOUS
  <1>1. CASE Commit
    BY <1>1, CommitStep
  <1>2. CASE Observe \/ Prepare \/ Update \/ Recover \/ Interrupt
    BY <1>2, RunStep
  <1>3. CASE Tick \/ \E c \in Channels : ToggleSuspension(c)
    BY <1>3, QuietStep
  <1>4. ASSUME NEW c \in Channels, NEW kind \in {"review", "lapse", "cram"},
               NEW ivl \in {0, MinInterval}, ReviewCard(c, kind, ivl)
        PROVE  IInv'
    BY <1>4, ReviewStep
  <1>5. ASSUME NEW c \in Channels, NEW verdict \in Stimuli \union {"failed", "familiar"},
               Judge(c, verdict)
        PROVE  IInv'
    BY <1>5, JudgeStep
  <1>6. CASE UNCHANGED vars
    BY <1>6 DEF vars, states, world, cards, journal, IInv, TypeOK, Chronicle, PlanInv, SpentInv,
                Known, Old, Decisive
  <1> QED  BY <1>1, <1>2, <1>3, <1>4, <1>5, <1>6 DEF Next, Run

LEMMA IInvHolds == Spec => []IInv
  BY InitHolds, StepHolds, PTL DEF Spec

-----------------------------------------------------------------------------
(* What a run carries fits the Unit until it is committed *)

\* The transition leaves the state and episode its channel is in, by an edge.
Fits(t) ==
    /\ t.ch \in Active
    /\ t.from = life[t.ch] /\ t.ep = episode[t.ch]
    /\ <<t.from, t.to>> \in Promise!Edges

\* Plans of one decision: one per channel, or the group of the whole Unit.
Coherent(ts) ==
    /\ \A t \in ts : Fits(t)
    /\ \A t, u \in ts : t.ch = u.ch => t = u
    /\ Grouped(ts) => \A c \in Active : \E t \in ts : t.ch = c /\ t.to = "DORMANT"

FitInv ==
    /\ Coherent(pending) /\ Coherent(todo)
    /\ pc \in {"update", "commit"} /\ Grouped(todo) => pending = todo

LEMMA PlanFits ==
    ASSUME NEW c \in Active, NEW t \in PlanOf(c)
    PROVE  Fits(t) /\ t.ch = c /\ t.to # "DORMANT" /\ PlanOf(c) = {t}
  <1>1. t.ch = c /\ t.from = life[c] /\ t.ep = episode[c]
    BY PlanCases DEF Plan
  <1>2. <<life[c], t.to>> \in Promise!Edges /\ t.to # "DORMANT"
    BY PlanCases DEF Plan, Promise!Edges
  <1>3. PlanOf(c) = {t}
    BY PlanCases DEF PlanOf
  <1> QED  BY <1>1, <1>2, <1>3 DEF Fits

LEMMA DecisionCoheres == Coherent(Decision)
  <1>1. ASSUME Decision = UNION {PlanOf(c) : c \in Active}
        PROVE  Coherent(Decision)
    <2>1. ASSUME NEW t \in Decision
          PROVE  Fits(t) /\ t.ch \in Active /\ PlanOf(t.ch) = {t} /\ t.to # "DORMANT"
      BY <1>1, PlanFits
    <2>2. \A t, u \in Decision : t.ch = u.ch => t = u
      BY <2>1
    <2> QED  BY <2>1, <2>2 DEF Coherent, Grouped
  <1>2. ASSUME Decision = DormancyGroup, \A c \in Active : life[c] = "MASTERED"
        PROVE  Coherent(Decision)
    <2> DEFINE e == [i \in DOMAIN Order |-> episode[Order[i]]]
                      \o <<AllMasteredAt, AllMasteredAt + DormantAfter>>
    <2>1. Decision = {Plan(c, "DORMANT", e) : c \in Active}
      BY <1>2 DEF DormancyGroup
    <2> HIDE DEF e
    <2>2. \A c : /\ Plan(c, "DORMANT", e).ch = c /\ Plan(c, "DORMANT", e).to = "DORMANT"
                 /\ Plan(c, "DORMANT", e).from = life[c]
                 /\ Plan(c, "DORMANT", e).ep = episode[c]
      BY DEF Plan
    <2>3. <<"MASTERED", "DORMANT">> \in Promise!Edges
      BY DEF Promise!Edges
    <2>4. \A t \in Decision : Fits(t) /\ t = Plan(t.ch, "DORMANT", e)
      BY <1>2, <2>1, <2>2, <2>3 DEF Fits
    <2>5. \A t, u \in Decision : t.ch = u.ch => t = u
      BY <2>4
    <2>6. \A c \in Active : \E t \in Decision : t.ch = c /\ t.to = "DORMANT"
      BY <2>1, <2>2
    <2> QED  BY <2>4, <2>5, <2>6 DEF Coherent
  <1> QED  BY <1>1, <1>2 DEF Decision

\* A part of what coheres coheres, unless it breaks a group up.
LEMMA PartCoheres ==
    ASSUME NEW ts, Coherent(ts), NEW us, us \subseteq ts, us = ts \/ ~Grouped(ts)
    PROVE  Coherent(us)
  BY DEF Coherent, Grouped

\* So nothing but a COMMIT makes a plan unfit.
LEMMA CoherenceStays ==
    ASSUME NEW ts, Coherent(ts), UNCHANGED <<life, episode>>
    PROVE  Coherent(ts)'
  BY DEF Coherent, Fits, Active, Grouped, Promise!Edges

\* The plans left over after a COMMIT are those of other channels.
LEMMA CommitFits ==
    ASSUME IInv, FitInv, Commit
    PROVE  FitInv'
  <1>1. /\ pc = "commit" /\ pending' = {} /\ Continue /\ pending \subseteq todo
        /\ Coherent(todo) /\ (Grouped(todo) => pending = todo)
        /\ life' = [c \in Channels |-> IF c \in Members THEN Of(c).to ELSE life[c]]
        /\ episode' = [c \in Channels |-> IF c \in Members THEN episode[c] + 1 ELSE episode[c]]
    BY DEF Commit, CommitEntering, IInv, PlanInv, FitInv
  <1>2. CASE todo = pending
    BY <1>1, <1>2 DEF Continue, Goto, FitInv, Coherent, Grouped
  <1>3. CASE todo # pending
    <2>1. todo' = todo \ pending /\ pc' = "prepare"
      BY <1>1, <1>3 DEF Continue, Goto
    <2>2. ASSUME NEW t \in todo'
          PROVE  Fits(t)'
      <3>1. t \in todo /\ Fits(t) /\ t.ch \notin Members /\ t.ch \in Channels
        BY <1>1, <2>1 DEF Coherent, Members, Fits, Active
      <3>2. life'[t.ch] = life[t.ch] /\ episode'[t.ch] = episode[t.ch]
        BY <1>1, <3>1
      <3> QED  BY <3>1, <3>2 DEF Fits, Active, Promise!Edges
    <2>3. ~Grouped(todo)
      BY <1>1, <1>3
    <2>4. Coherent(todo)'
      BY <1>1, <2>1, <2>2, <2>3 DEF Coherent, Grouped
    <2> QED  BY <1>1, <2>1, <2>4 DEF FitInv, Coherent, Grouped
  <1> QED  BY <1>2, <1>3

LEMMA RunFits ==
    ASSUME IInv, FitInv, Observe \/ Prepare \/ Update \/ Recover \/ Interrupt
    PROVE  FitInv'
  <1>1. /\ UNCHANGED <<life, episode>>
        /\ Coherent(pending) /\ Coherent(todo) /\ Coherent(Decision) /\ Coherent({})
    BY DecisionCoheres
       DEF FitInv, Observe, Prepare, Update, Recover, Interrupt, states, Coherent, Grouped
  <1>2. /\ Coherent(pending') /\ Coherent(todo')
        /\ pc' \in {"update", "commit"} /\ Grouped(todo') => pending' = todo'
    <2>1. CASE Observe
      BY <1>1, <2>1 DEF Observe, Goto, journal
    <2>2. CASE Prepare
      <3>1. pending' = Batch(todo) /\ todo' = todo
        BY <2>2 DEF Prepare, Goto
      <3>2. Batch(todo) \subseteq todo /\ (Grouped(todo) => Batch(todo) = todo)
        BY DEF Batch
      <3>3. Coherent(Batch(todo))
        BY <1>1, <3>2, PartCoheres
      <3> QED  BY <1>1, <3>1, <3>2, <3>3
    <2>3. CASE Update
      BY <1>1, <2>3 DEF Update, Goto, FitInv
    <2>4. CASE Recover
      BY <1>1, <2>4 DEF Recover, Goto, IInv, TypeOK
    <2>5. CASE Interrupt
      BY <1>1, <2>5 DEF Interrupt, Goto, journal
    <2> QED  BY <2>1, <2>2, <2>3, <2>4, <2>5
  <1>3. \A ts : Coherent(ts) => Coherent(ts)'
    BY <1>1, CoherenceStays
  <1> QED  BY <1>2, <1>3 DEF FitInv, Grouped

LEMMA FitHolds == Spec => []FitInv
  <1>1. Init => FitInv
    BY DEF Init, FitInv, Coherent, Grouped
  <1>2. IInv /\ FitInv /\ [Next]_vars => FitInv'
    <2> SUFFICES ASSUME IInv, FitInv, [Next]_vars PROVE FitInv'
      OBVIOUS
    <2>1. CASE Commit
      BY <2>1, CommitFits
    <2>2. CASE Observe \/ Prepare \/ Update \/ Recover \/ Interrupt
      BY <2>2, RunFits
    <2>3. CASE UNCHANGED <<life, episode, pending, pc, todo>>
      BY <2>3, CoherenceStays DEF FitInv, Grouped
    <2>4. Commit \/ Observe \/ Prepare \/ Update \/ Recover \/ Interrupt
            \/ UNCHANGED <<life, episode, pending, pc, todo>>
      BY DEF Next, Run, Tick, ToggleSuspension, ReviewCard, Judge, vars, states, journal
    <2> QED  BY <2>1, <2>2, <2>3, <2>4
  <1> QED  BY <1>1, <1>2, IInvHolds, PTL DEF Spec

-----------------------------------------------------------------------------
(* Theorems *)

\* Every variable keeps its type, decided plans are transitions between
\* lifecycle states, and a run has plans to carry out exactly while it runs
\* (reconcile_unit of vocab/reconcile.py).
THEOREM DecideTypeCorrect == Spec => []TypeOK
  <1>1. IInv => TypeOK
    BY DEF IInv
  <1> QED  BY <1>1, IInvHolds, PTL

\* Whatever decide_transitions plans, the gates of D34 and D35 allow at that
\* instant: for any thresholds, histories and interruptions, and at every
\* inclusive or exclusive boundary.
THEOREM EveryDecisionIsEarned == Spec => []DecisionsAreEarned
  BY IInvHolds, PlansAreEarned, PTL

\* A review or assessment that moved its channel never moves it again, however
\* late its transition was committed (the entry boundaries of observe_unit).
THEOREM EvidenceIsSpentOnce == Spec => []EvidenceCountsOnce
  BY IInvHolds, FreshIsUnspent, PTL

\* Recovery may come late, but never too late: what it commits still fits the
\* state and episode it was decided for, moves along an edge of the lifecycle,
\* and puts a Unit to sleep as a whole (reconcile_unit and its recovery).
THEOREM CommitsFit == Spec => CommitsFitTheirDecision
  <1>1. ASSUME IInv, FitInv, [Next]_vars, NEW c \in Channels, episode'[c] # episode[c]
        PROVE  /\ \E t \in pending : /\ t.ch = c /\ t.ep = episode[c]
                                     /\ t.from = life[c] /\ t.to = life'[c]
               /\ <<life[c], life'[c]>> \in Promise!Edges
               /\ life'[c] = "DORMANT" =>
                     \A d \in Active : life[d] = "MASTERED" /\ life'[d] = "DORMANT"
    <2>1. Commit
      BY <1>1 DEF Next, Run, Observe, Prepare, Update, Recover, Interrupt, Tick, ToggleSuspension,
                  ReviewCard, Judge, vars, states
    <2>2. /\ life' = [d \in Channels |-> IF d \in Members THEN Of(d).to ELSE life[d]]
          /\ episode' = [d \in Channels |-> IF d \in Members THEN episode[d] + 1 ELSE episode[d]]
          /\ Coherent(pending)
      BY <1>1, <2>1 DEF Commit, CommitEntering, FitInv
    <2>3. c \in Members
      BY <1>1, <2>2
    <2>4. \A d \in Members : Of(d) \in pending /\ Of(d).ch = d
      BY DEF Members, Of
    <2>5. Fits(Of(c)) /\ life'[c] = Of(c).to
      BY <2>2, <2>3, <2>4 DEF Coherent
    <2>6. ASSUME life'[c] = "DORMANT", NEW d \in Active
          PROVE  life[d] = "MASTERED" /\ life'[d] = "DORMANT"
      <3>1. Grouped(pending)
        BY <2>3, <2>4, <2>5, <2>6 DEF Grouped
      <3>2. PICK t \in pending : t.ch = d /\ t.to = "DORMANT"
        BY <2>2, <3>1 DEF Coherent
      <3>3. d \in Members /\ Of(d) = t /\ d \in Channels
        BY <2>2, <2>4, <3>2 DEF Members, Active, Coherent
      <3>4. life'[d] = "DORMANT" /\ Fits(t)
        BY <2>2, <3>2, <3>3 DEF Coherent
      <3>5. life[d] = "MASTERED"
        BY <3>2, <3>4 DEF Fits, Promise!Edges
      <3> QED  BY <3>4, <3>5
    <2> QED  BY <2>3, <2>4, <2>5, <2>6 DEF Fits
  <1>2. IInv /\ FitInv /\ [Next]_vars => [\A c \in Channels : episode'[c] # episode[c] =>
          /\ \E t \in pending : /\ t.ch = c /\ t.ep = episode[c]
                                /\ t.from = life[c] /\ t.to = life'[c]
          /\ <<life[c], life'[c]>> \in Promise!Edges
          /\ life'[c] = "DORMANT" =>
                \A d \in Active : life[d] = "MASTERED" /\ life'[d] = "DORMANT"]_vars
    BY <1>1
  <1> QED  BY <1>2, IInvHolds, FitHolds, PTL DEF Spec, CommitsFitTheirDecision

\* No instant is part of an identity and no comparison turns with time from
\* true to false: what is planned now is planned, as it is, at the next tick
\* (_plan_transition, _stability_gate_evidence).
THEOREM PlansLast == Spec => PlansOutliveTime
  <1>1. ASSUME TypeOK, [Next]_vars, now' # now
        PROVE  Decision \subseteq Decision'
    <2>1. /\ now' = now + 1 /\ now \in Nat
          /\ UNCHANGED <<life, entry, episode, reviews, interval, suspended, judged>>
      <3>1. CASE Tick
        BY <1>1, <3>1, Constants DEF Tick, states, world, cards, TypeOK
      <3>2. CASE UNCHANGED vars
        BY <1>1, <3>2 DEF vars
      <3>3. CASE Next /\ ~Tick
        BY <1>1, <3>3 DEF Next, Run, Observe, Prepare, Update, Commit, CommitEntering, Recover,
                          Interrupt, ToggleSuspension, ReviewCard, Judge
      <3> QED  BY <1>1, <3>1, <3>2, <3>3
    <2>2. Active' = Active /\ AllMasteredAt' = AllMasteredAt
      BY <2>1 DEF Active, AllMasteredAt
    <2>3. \A c : /\ Lifecycle(c)' = Lifecycle(c) /\ Lapses(c)' = Lapses(c)
                 /\ Failures(c)' = Failures(c) /\ Streak(c)' = Streak(c)
                 /\ \A i : ReviewedAt(c, i)' = ReviewedAt(c, i)
      BY <2>1 DEF Lifecycle, Lapses, Failures, Streak, ReviewedAt
    <2>4. \A c : Boundary(c)' = Boundary(c) /\ StabilityEvidence(c)' = StabilityEvidence(c)
      BY <2>1, <2>3 DEF Boundary, StabilityEvidence
    <2>5. \A c, s, e : Plan(c, s, e)' = Plan(c, s, e)
      BY <2>1 DEF Plan
    <2>6. \A c, S : AfterEntry(c, S)' = AfterEntry(c, S)
      BY <2>1, <2>3 DEF AfterEntry
    <2>7. ASSUME NEW c \in Active, life[c] = "LEARNING"
          PROVE  PlanOf(c) \subseteq PlanOf(c)'
      <3>1. c \in Channels
        BY DEF Active
      <3>2. ASSUME GateOpen(c) PROVE GateOpen(c)'
        <4>1. now' >= Boundary(c)'
          <5>1. Boundary(c) \in Nat /\ now >= Boundary(c)
            BY <1>1, <3>1, <3>2, BoundaryIsLast DEF GateOpen
          <5> QED  BY <2>1, <2>4, <5>1
        <4>2. RecentLapses(c)' = {}
          <5>1. \A i \in Lapses(c) :
                    ReviewedAt(c, i) >= now' - LapseWindow => ReviewedAt(c, i) >= now - LapseWindow
            <6>1. \A i \in Lapses(c) : ReviewedAt(c, i) \in Nat
              BY <1>1, <3>1, Positions, Constants
            <6> QED  BY <2>1, <6>1, Constants
          <5>2. RecentLapses(c) = {}
            BY <3>2 DEF GateOpen
          <5> QED  BY <2>3, <5>1, <5>2 DEF RecentLapses
        <4> QED  BY <2>1, <2>3, <3>2, <4>1, <4>2 DEF GateOpen
      <3> QED  BY <2>1, <2>4, <2>5, <2>7, <3>2 DEF PlanOf
    <2>8. ASSUME NEW c \in Active, life[c] # "LEARNING"
          PROVE  PlanOf(c)' = PlanOf(c)
      <3> DEFINE reviewed == AfterEntry(c, Lifecycle(c))
                 lapsed == AfterEntry(c, Lapses(c))
      <3>1. reviewed' = reviewed /\ lapsed' = lapsed /\ life'[c] = life[c]
        BY <2>1, <2>3, <2>6
      <3> HIDE DEF reviewed, lapsed
      <3> QED  BY <2>3, <2>5, <2>8, <3>1 DEF PlanOf, reviewed, lapsed
    <2>9. CASE Decision = DormancyGroup /\ UNION {PlanOf(c) : c \in Active} = {} /\ Active # {}
                 /\ (\A c \in Active : life[c] = "MASTERED") /\ now >= AllMasteredAt + DormantAfter
      <3>1. UNION {PlanOf(c)' : c \in Active} = {}
        BY <2>8, <2>9
      <3>2. now' >= AllMasteredAt + DormantAfter
        <4>1. AllMasteredAt \in Nat
          BY <1>1, <2>9, AllMasteredIsLast
        <4> QED  BY <2>1, <2>9, <4>1, Constants
      <3>3. DormancyGroup' = DormancyGroup
        BY <2>1, <2>2, <2>5 DEF DormancyGroup
      <3> QED  BY <2>1, <2>2, <2>9, <3>1, <3>2, <3>3 DEF Decision
    <2>10. CASE Decision = UNION {PlanOf(c) : c \in Active}
      <3>1. ASSUME NEW c \in Active PROVE PlanOf(c) \subseteq PlanOf(c)'
        BY <2>7, <2>8
      <3>2. CASE Decision # {}
        <4>1. UNION {PlanOf(c)' : c \in Active} # {}
          BY <2>10, <3>1, <3>2
        <4> QED  BY <2>2, <2>10, <3>1, <4>1 DEF Decision
      <3> QED  BY <3>2
    <2> QED  BY <2>9, <2>10 DEF Decision
  <1> QED  BY <1>1, IInvHolds, PTL DEF Spec, PlansOutliveTime, IInv
=============================================================================
