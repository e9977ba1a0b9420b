---------------------------- MODULE CorpusProofs ----------------------------
(***************************************************************************)
(* Theorems about Corpus for any Units, files, texts, sources and faults.   *)
(*                                                                          *)
(* The first half is about counts.  A match ends where it first can, and no *)
(* match that starts later ends before it; so of the occurrences that share *)
(* no token, at most one is lost to each match the counter takes, and the   *)
(* counter takes as many as there can be.  Each loop of the code has an     *)
(* invariant, which holds after every turn by Induction (see Iteration).    *)
(*                                                                          *)
(* The second half is about scans.  The inductive invariant says of the log *)
(* that it has nothing but plans, that ids are unique and sources keep      *)
(* their snapshot, and of a scan that emits, that what its preflight found  *)
(* still holds: the log has nothing that contradicts a plan, and lacks the  *)
(* plans that are still missing and no others.  Corpus implements           *)
(* EncounterLedger by that invariant and the exactness of counts.           *)
(***************************************************************************)
EXTENDS Corpus, Iteration, FiniteSetTheorems

(* _chunk_match_end *)

Matches(target) == [found : 1 .. Len(target), inserted : Nat, next : Nat]

FirstMatch(start) == [found |-> 1, inserted |-> 0, next |-> start + 1]

\* A turn of the loop keeps what it works with in range.
LEMMA FollowType ==
    ASSUME NEW text, NEW target \in Seq(Tokens) \ {<<>>}, NEW m \in Matches(target)
    PROVE  Follow(text, target, m) \in Matches(target)
  <1>1. Len(target) \in Nat
    OBVIOUS
  <1>2. m.found \in 1 .. Len(target) /\ m.inserted \in Nat /\ m.next \in Nat
    BY DEF Matches
  <1>3. m.found # Len(target) => m.found + 1 \in 1 .. Len(target)
    <2> HIDE DEF Matches
    <2> QED  BY <1>1, <1>2
  <1>4. /\ m.next + 1 \in Nat /\ m.inserted + 1 \in Nat
    BY <1>2
  <1>5. /\ m.found + 1 \in 1 .. Len(target) =>
              [m EXCEPT !.found = @ + 1, !.next = @ + 1] \in Matches(target)
        /\ [m EXCEPT !.inserted = @ + 1, !.next = @ + 1] \in Matches(target)
    BY <1>4 DEF Matches
  <1> QED  BY <1>3, <1>5 DEF Follow

\* The loop exists, and the match it ends with is what is returned.
LEMMA ChunkEndIsLoop ==
    ASSUME NEW text \in Seq(Tokens), NEW target \in Seq(Tokens) \ {<<>>},
           NEW start \in 1 .. Len(text)
    PROVE  \E f \in [0 .. Len(text) - start -> Matches(target)] :
              /\ f[0] = FirstMatch(start)
              /\ \A i \in 1 .. Len(text) - start : f[i] = Follow(text, target, f[i - 1])
              /\ LET last == f[Len(text) - start]
                 IN  ChunkEnd(text, target, start) =
                        IF text[start] = target[1] /\ last.found = Len(target)
                        THEN last.next - 1 ELSE NoMatch
  <1> DEFINE n == Len(text) - start
             M == Matches(target)
             e == FirstMatch(start)
             g == [p \in (1 .. n) \X M |-> Follow(text, target, p[2])]
             Loop(f) == [i \in 0 .. n |-> IF i = 0 THEN e ELSE Follow(text, target, f[i - 1])]
  <1>1. \A m \in M : Follow(text, target, m) \in M
    BY FollowType
  <1>2. /\ n \in Nat /\ e \in M
    <2>1. Len(target) \in Nat \ {0} /\ start \in Nat
      OBVIOUS
    <2>2. n \in Nat
      OBVIOUS
    <2> QED  BY <2>1, <2>2 DEF Matches, FirstMatch
  <1> HIDE DEF n, M, e
  <1>3. g \in [(1 .. n) \X M -> M]
    BY <1>1
  <1>4. PICK f \in Iterates(n, M, e, g) : TRUE
    <2> HIDE DEF g
    <2> QED  BY <1>2, <1>3, Recursion
  <1>5. f \in [0 .. n -> M] /\ f[0] = e
    BY <1>4 DEF Iterates
  <1>6. \A i \in 1 .. n : f[i] = Follow(text, target, f[i - 1])
    <2> TAKE i \in 1 .. n
    <2>1. i - 1 \in 0 .. n
      BY <1>2
    <2>2. <<i, f[i - 1]>> \in (1 .. n) \X M
      BY <1>5, <2>1
    <2> QED  BY <1>4, <2>2 DEF Iterates
  <1>7. f = Loop(f)
    BY <1>2, <1>5, <1>6
  <1> DEFINE h == CHOOSE h : h = Loop(h)
  <1>8. h = Loop(h)
    <2> HIDE DEF Loop
    <2> QED  BY <1>7
  <1>9. DOMAIN h = 0 .. n /\ h[0] = e /\ \A i \in 1 .. n : h[i] = Follow(text, target, h[i - 1])
    <2>1. \A k : k = Loop(k) =>
             /\ DOMAIN k = 0 .. n /\ k[0] = e
             /\ \A i \in 1 .. n : k[i] = Follow(text, target, k[i - 1])
      BY <1>2
    <2> HIDE DEF h, Loop
    <2> QED  BY <1>8, <2>1
  <1>10. LET last == h[n]
         IN  ChunkEnd(text, target, start) =
                IF text[start] = target[1] /\ last.found = Len(target)
                THEN last.next - 1 ELSE NoMatch
    BY DEF ChunkEnd, FirstMatch, n, e
  <1> HIDE DEF h, Loop
  <1>11. h \in [0 .. n -> M]
    <2> DEFINE Good == {i \in 0 .. n : h[i] \in M}
    <2>1. Good \in SUBSET (0 .. n) /\ 0 \in Good
      BY <1>2, <1>9
    <2>2. \A i \in 1 .. n : i - 1 \in Good => i \in Good
      BY <1>1, <1>2, <1>9
    <2>3. Good = 0 .. n
      <3> HIDE DEF Good
      <3> QED  BY <1>2, <2>1, <2>2, Induction
    <2>4. h = [i \in 0 .. n |-> h[i]]
      BY <1>8, <1>9 DEF Loop
    <2> QED  BY <2>3, <2>4
  <1> QED  BY <1>9, <1>10, <1>11 DEF n, M, e

\* The tokens of target in this order between two positions, no matter how
\* many others are passed over.
Embeddings(text, target, from, to) ==
    {q \in [1 .. Len(target) -> from .. to] :
        /\ \A k \in 1 .. Len(target) : text[q[k]] = target[k]
        /\ \A k, l \in 1 .. Len(target) : k < l => q[k] < q[l]}

\* Positions that grow are at least as far apart as their tokens.
LEMMA Gaps ==
    ASSUME NEW text, NEW target \in Seq(Tokens), NEW from \in Int, NEW to \in Int,
           NEW q \in Embeddings(text, target, from, to),
           NEW k \in 1 .. Len(target), NEW l \in 1 .. Len(target), k <= l
    PROVE  q[l] - q[k] >= l - k
  <1> DEFINE n == Len(target)
             Good == {d \in 0 .. n - k : q[k + d] - q[k] >= d}
  <1>1. /\ n \in Nat /\ k \in 1 .. n /\ l \in 1 .. n /\ n - k \in Nat
        /\ \A j \in 1 .. n : q[j] \in Int
        /\ \A i, j \in 1 .. n : i < j => q[i] < q[j]
    BY DEF Embeddings
  <1> HIDE DEF n
  <1>2. Good \in SUBSET (0 .. n - k) /\ 0 \in Good
    BY <1>1
  <1>3. ASSUME NEW d \in 1 .. n - k, d - 1 \in Good
        PROVE  d \in Good
    <2>1. /\ k + (d - 1) \in 1 .. n /\ k + d \in 1 .. n /\ k + (d - 1) < k + d
          /\ q[k + (d - 1)] - q[k] >= d - 1 /\ d \in 0 .. n - k
      BY <1>1, <1>3
    <2>2. q[k + (d - 1)] < q[k + d]
      BY <1>1, <2>1
    <2>3. q[k + (d - 1)] \in Int /\ q[k + d] \in Int /\ q[k] \in Int
      BY <1>1, <2>1
    <2>4. q[k + d] - q[k] >= d
      BY <2>1, <2>2, <2>3
    <2> QED  BY <2>1, <2>4
  <1>4. Good = 0 .. n - k
    <2> HIDE DEF Good
    <2> QED  BY <1>1, <1>2, <1>3, Induction
  <1>5. l - k \in Good
    <2> HIDE DEF Good
    <2>1. l - k \in 0 .. n - k
      BY <1>1
    <2> QED  BY <1>4, <2>1
  <1>6. k + (l - k) = l
    BY <1>1
  <1> QED  BY <1>5, <1>6

\* What was found of the target: its positions, the last of them just read
\* when the target is complete.
Trace(text, target, start, m, at) ==
    /\ at[1] = start
    /\ \A k \in 1 .. m.found : at[k] \in start .. m.next - 1 /\ text[at[k]] = target[k]
    /\ \A k, l \in 1 .. m.found : k < l => at[k] < at[l]
    /\ m.found = Len(target) => at[m.found] = m.next - 1

\* No embedding is ahead of the loop: the tokens it has not found come later.
Leads(text, target, start, m) ==
    \A q \in Embeddings(text, target, start, Len(text)) :
        /\ \A k \in 1 .. Len(target) : k > m.found => q[k] >= m.next
        /\ m.found = Len(target) => q[Len(target)] >= m.next - 1

\* The loop of _chunk_match_end after i turns
Followed(text, target, start, i, m) ==
    /\ m \in Matches(target)
    /\ m.next = start + m.found + m.inserted
    /\ m.next <= start + 1 + i
    /\ m.found = Len(target) => m.inserted <= MaxInserted
    /\ m.found = Len(target) \/ m.inserted > MaxInserted \/ m.next = start + 1 + i
    /\ \E at \in [1 .. m.found -> Nat] : Trace(text, target, start, m, at)
    /\ Leads(text, target, start, m)

\* The loop starts in its invariant,
LEMMA FirstIsFollowed ==
    ASSUME NEW text \in Seq(Tokens), NEW target \in Seq(Tokens) \ {<<>>},
           NEW start \in 1 .. Len(text), text[start] = target[1]
    PROVE  Followed(text, target, start, 0, FirstMatch(start))
  <1> DEFINE m == FirstMatch(start)
             n == Len(target)
             at == [k \in 1 .. 1 |-> start]
  <1>1. /\ m.found = 1 /\ m.inserted = 0 /\ m.next = start + 1
        /\ n \in Nat \ {0} /\ start \in Nat /\ MaxInserted \in Nat /\ Len(text) \in Nat
    BY OccurrencesAssumption DEF FirstMatch
  <1>2. m \in Matches(target)
    BY <1>1 DEF Matches, FirstMatch
  <1> HIDE DEF m
  <1>3. at \in [1 .. m.found -> Nat] /\ Trace(text, target, start, m, at)
    BY <1>1 DEF Trace
  <1>4. Leads(text, target, start, m)
    <2> SUFFICES ASSUME NEW q \in Embeddings(text, target, start, Len(text))
                 PROVE  /\ \A k \in 1 .. n : k > 1 => q[k] >= start + 1
                        /\ n = 1 => q[n] >= start
      BY <1>1 DEF Leads
    <2>1. /\ \A k \in 1 .. n : q[k] \in start .. Len(text)
          /\ \A k, l \in 1 .. n : k < l => q[k] < q[l]
      BY DEF Embeddings
    <2> HIDE DEF n
    <2>2. 1 \in 1 .. n /\ n \in 1 .. n
      BY <1>1
    <2> QED  BY <1>1, <2>1, <2>2
  <1> HIDE DEF at
  <1>5. /\ m.next = start + m.found + m.inserted /\ m.next <= start + 1 + 0
        /\ m.next = start + 1 + 0 /\ m.inserted <= MaxInserted
    BY <1>1
  <1> QED  BY <1>2, <1>3, <1>4, <1>5 DEF Followed, m

\* and every turn keeps it.
LEMMA FollowIsFollowed ==
    ASSUME NEW text \in Seq(Tokens), NEW target \in Seq(Tokens) \ {<<>>},
           NEW start \in 1 .. Len(text), NEW i \in 1 .. Len(text) - start,
           NEW m, Followed(text, target, start, i - 1, m)
    PROVE  Followed(text, target, start, i, Follow(text, target, m))
  <1> DEFINE n == Len(target)
             N == Len(text)
  <1>1. /\ n \in Nat \ {0} /\ N \in Nat /\ start \in Nat /\ MaxInserted \in Nat
        /\ start \in 1 .. N /\ i \in 1 .. N - start
    BY OccurrencesAssumption
  <1>2. /\ m \in Matches(target) /\ m.next = start + m.found + m.inserted
        /\ m.next <= start + i
        /\ m.found = n => m.inserted <= MaxInserted
        /\ m.found = n \/ m.inserted > MaxInserted \/ m.next = start + i
        /\ Leads(text, target, start, m)
    <2> HIDE DEF n, N
    <2> QED  BY <1>1 DEF Followed, n
  <1>3. PICK at \in [1 .. m.found -> Nat] : Trace(text, target, start, m, at)
    BY DEF Followed
  <1>4. /\ m.found \in 1 .. n /\ m.inserted \in Nat /\ m.next \in Nat
        /\ DOMAIN m = {"found", "inserted", "next"}
    BY <1>2 DEF Matches
  <1>5. Follow(text, target, m) \in Matches(target)
    BY <1>2, FollowType
  <1>6. CASE m.found = n \/ m.inserted > MaxInserted
    <2>1. Follow(text, target, m) = m
      BY <1>6 DEF Follow
    <2>2. m.next <= start + 1 + i
      BY <1>1, <1>2, <1>4
    <2> HIDE DEF N
    <2> QED  BY <1>2, <1>3, <1>6, <2>1, <2>2 DEF Followed
  <1>7. CASE m.found # n /\ ~(m.inserted > MaxInserted) /\ text[m.next] = target[m.found + 1]
    <2> DEFINE w == Follow(text, target, m)
               at2 == [k \in 1 .. m.found + 1 |-> IF k = m.found + 1 THEN m.next ELSE at[k]]
    <2>1. w = [m EXCEPT !.found = @ + 1, !.next = @ + 1]
      BY <1>7 DEF Follow
    <2>2. w.found = m.found + 1 /\ w.next = m.next + 1 /\ w.inserted = m.inserted
      BY <1>4, <2>1
    <2>3. w \in Matches(target)
      BY <1>5
    <2> HIDE DEF w, n, N
    <2>4. at2 \in [1 .. w.found -> Nat]
      BY <1>4, <2>2
    <2>5. Trace(text, target, start, w, at2)
      <3>1. /\ at[1] = start
            /\ \A k \in 1 .. m.found : at[k] \in start .. m.next - 1 /\ text[at[k]] = target[k]
            /\ \A k, l \in 1 .. m.found : k < l => at[k] < at[l]
        BY <1>3 DEF Trace
      <3>2. /\ at2[m.found + 1] = m.next /\ \A k \in 1 .. m.found : at2[k] = at[k]
            /\ \A k \in 1 .. w.found : k \in 1 .. m.found \/ k = m.found + 1
            /\ 1 \in 1 .. m.found /\ start <= m.next
        <4>1. m.found \in Nat /\ m.found >= 1 /\ w.found = m.found + 1
          BY <1>1, <1>4, <2>2
        <4>2. at2[m.found + 1] = m.next /\ \A k \in 1 .. m.found : at2[k] = at[k]
          BY <4>1
        <4> HIDE DEF at2
        <4>3. \A k \in 1 .. w.found : k \in 1 .. m.found \/ k = m.found + 1
          BY <4>1
        <4>4. start <= m.next
          BY <1>1, <1>2, <1>4
        <4> QED  BY <4>1, <4>2, <4>3, <4>4
      <3> HIDE DEF at2
      <3>3. \A k \in 1 .. w.found : at2[k] \in start .. w.next - 1 /\ text[at2[k]] = target[k]
        <4> TAKE k \in 1 .. w.found
        <4>1. CASE k \in 1 .. m.found
          BY <1>1, <1>4, <2>2, <3>1, <3>2, <4>1, SMTT(30)
        <4>2. CASE k = m.found + 1
          BY <1>1, <1>4, <1>7, <2>2, <3>2, <4>2
        <4> QED  BY <3>2, <4>1, <4>2
      <3>4. \A k, l \in 1 .. w.found : k < l => at2[k] < at2[l]
        <4> TAKE k, l \in 1 .. w.found
        <4>1. CASE k \in 1 .. m.found /\ l \in 1 .. m.found
          BY <3>1, <3>2, <4>1
        <4>2. CASE k \in 1 .. m.found /\ l = m.found + 1
          BY <1>1, <1>4, <3>1, <3>2, <4>2
        <4>3. CASE k = m.found + 1
          BY <1>4, <2>2, <4>3
        <4> QED  BY <3>2, <4>1, <4>2, <4>3
      <3> QED  BY <1>4, <2>2, <3>1, <3>2, <3>3, <3>4 DEF Trace
    <2>6. Leads(text, target, start, w)
      <3> SUFFICES ASSUME NEW q \in Embeddings(text, target, start, N)
                   PROVE  /\ \A k \in 1 .. n : k > w.found => q[k] >= w.next
                          /\ w.found = n => q[n] >= w.next - 1
        BY DEF Leads, n, N
      <3>1. /\ \A k \in 1 .. n : q[k] \in start .. N
            /\ \A k, l \in 1 .. n : k < l => q[k] < q[l]
        BY DEF Embeddings, n
      <3>2. m.found + 1 \in 1 .. n /\ q[m.found + 1] >= m.next
        <4>1. m.found + 1 \in 1 .. n /\ m.found + 1 > m.found
          BY <1>1, <1>4, <1>7
        <4> QED  BY <1>2, <4>1 DEF Leads, n, N
      <3>3. \A k \in 1 .. n : k > w.found => q[k] >= w.next
        <4> SUFFICES ASSUME NEW k \in 1 .. n, k > w.found PROVE q[k] >= w.next
          OBVIOUS
        <4>1. q[m.found + 1] < q[k]
          BY <1>4, <2>2, <3>1, <3>2
        <4>2. q[m.found + 1] \in Nat /\ q[k] \in Nat
          BY <1>1, <3>1, <3>2, SMTT(30)
        <4> QED  BY <1>4, <2>2, <3>2, <4>1, <4>2
      <3> QED  BY <1>1, <1>4, <2>2, <3>2, <3>3
    <2>7. /\ w.next = start + w.found + w.inserted /\ w.next <= start + 1 + i
          /\ w.found = n => w.inserted <= MaxInserted
          /\ w.found = n \/ w.inserted > MaxInserted \/ w.next = start + 1 + i
      BY <1>1, <1>2, <1>4, <1>7, <2>2, SMTT(30)
    <2> HIDE DEF at2
    <2> QED  BY <2>3, <2>4, <2>5, <2>6, <2>7 DEF Followed, n, w
  <1>8. CASE m.found # n /\ ~(m.inserted > MaxInserted) /\ text[m.next] # target[m.found + 1]
    <2> DEFINE w == Follow(text, target, m)
    <2>1. w = [m EXCEPT !.inserted = @ + 1, !.next = @ + 1]
      BY <1>8 DEF Follow
    <2>2. w.found = m.found /\ w.next = m.next + 1 /\ w.inserted = m.inserted + 1
      BY <1>4, <2>1
    <2>3. w \in Matches(target)
      BY <1>5
    <2> HIDE DEF w, n, N
    <2>4. at \in [1 .. w.found -> Nat] /\ Trace(text, target, start, w, at)
      <3>1. /\ at[1] = start
            /\ \A k \in 1 .. m.found : at[k] \in start .. m.next - 1 /\ text[at[k]] = target[k]
            /\ \A k, l \in 1 .. m.found : k < l => at[k] < at[l]
        BY <1>3 DEF Trace
      <3>2. \A k \in 1 .. m.found : at[k] \in start .. w.next - 1
        BY <1>1, <1>4, <2>2, <3>1
      <3>3. w.found # Len(target)
        BY <1>8, <2>2 DEF n
      <3> QED  BY <2>2, <3>1, <3>2, <3>3 DEF Trace
    <2>5. Leads(text, target, start, w)
      <3> SUFFICES ASSUME NEW q \in Embeddings(text, target, start, N)
                   PROVE  \A k \in 1 .. n : k > w.found => q[k] >= w.next
        BY <1>8, <2>2 DEF Leads, n, N
      <3>1. /\ \A k \in 1 .. n : q[k] \in start .. N /\ text[q[k]] = target[k]
            /\ \A k, l \in 1 .. n : k < l => q[k] < q[l]
        BY DEF Embeddings, n
      <3>2. m.found + 1 \in 1 .. n /\ q[m.found + 1] >= m.next
        <4>1. m.found + 1 \in 1 .. n /\ m.found + 1 > m.found
          BY <1>1, <1>4, <1>8
        <4> QED  BY <1>2, <4>1 DEF Leads, n, N
      <3>3. q[m.found + 1] \in Nat /\ q[m.found + 1] # m.next
        BY <1>1, <1>8, <3>1, <3>2, SMTT(30)
      <3>4. \A k \in 1 .. n : k > w.found => q[k] >= w.next
        <4> SUFFICES ASSUME NEW k \in 1 .. n, k > w.found PROVE q[k] >= w.next
          OBVIOUS
        <4>1. k = m.found + 1 \/ k > m.found + 1
          BY <1>4, <2>2
        <4>2. q[m.found + 1] <= q[k]
          BY <1>4, <3>1, <3>2, <3>3, <4>1
        <4>3. q[k] \in Nat
          BY <1>1, <3>1
        <4> QED  BY <1>4, <2>2, <3>2, <3>3, <4>2, <4>3, SMTT(30)
      <3> QED  BY <3>4
    <2>6. /\ w.next = start + w.found + w.inserted /\ w.next <= start + 1 + i
          /\ w.found = n => w.inserted <= MaxInserted
          /\ w.found = n \/ w.inserted > MaxInserted \/ w.next = start + 1 + i
      <3>1. w.found # n
        BY <1>8, <2>2
      <3>2. m.next = start + i
        BY <1>2, <1>8
      <3>3. w.next = start + 1 + i /\ w.next = start + w.found + w.inserted
        <4> HIDE <1>8
        <4> QED  BY <1>1, <1>2, <1>4, <2>2, <3>2
      <3> QED  BY <1>1, <3>1, <3>3
    <2> QED  BY <2>3, <2>4, <2>5, <2>6 DEF Followed, n, w
  <1> QED  BY <1>6, <1>7, <1>8

\* Spans are embeddings.
LEMMA SpanIsEmbedded ==
    ASSUME NEW text \in Seq(Tokens), NEW target \in Seq(Tokens) \ {<<>>},
           NEW start \in 1 .. Len(text), NEW j \in start .. Len(text), NEW e \in 1 .. Len(text),
           Spans(text, target, j, e)
    PROVE  /\ j <= e /\ e - j + 1 - Len(target) \in 0 .. MaxInserted
           /\ \E q \in Embeddings(text, target, start, Len(text)) :
                 q[1] = j /\ q[Len(target)] = e /\ text[j] = target[1]
  <1> DEFINE n == Len(target)
             N == Len(text)
  <1>1. PICK q \in [1 .. n -> j .. e] :
            /\ q[1] = j /\ q[n] = e
            /\ \A k \in 1 .. n : text[q[k]] = target[k]
            /\ \A k, l \in 1 .. n : k < l => q[k] < q[l]
    BY DEF Spans
  <1>2. n \in Nat \ {0} /\ N \in Nat /\ start \in 1 .. N /\ j \in start .. N /\ e \in 1 .. N
    OBVIOUS
  <1>3. e - j + 1 - n \in 0 .. MaxInserted
    BY DEF Spans
  <1>4. q \in Embeddings(text, target, start, N)
    <2>1. q \in [1 .. n -> start .. N]
      <3> HIDE DEF n, N
      <3> QED  BY <1>1, <1>2
    <2> QED  BY <1>1, <2>1 DEF Embeddings
  <1> HIDE DEF n, N
  <1>5. 1 \in 1 .. n
    BY <1>2
  <1>6. j <= e
    BY <1>1, <1>2, <1>5
  <1> QED  BY <1>1, <1>3, <1>4, <1>5, <1>6 DEF n, N

\* _chunk_match_end finds a match if there is one, and no match that starts
\* there or later ends before it.
LEMMA ChunkMatches ==
    ASSUME NEW text \in Seq(Tokens), NEW target \in Seq(Tokens) \ {<<>>},
           NEW start \in 1 .. Len(text), NEW E, E = ChunkEnd(text, target, start)
    PROVE  /\ E # NoMatch => E \in start .. Len(text) /\ Spans(text, target, start, E)
           /\ \A j \in start .. Len(text), e \in 1 .. Len(text) :
                 Spans(text, target, j, e) => j <= e /\ E <= e /\ (j = start => E # NoMatch)
  <1> DEFINE L == Len(target)
             N == Len(text)
             n == N - start
  <1>1. PICK f \in [0 .. n -> Matches(target)] :
            /\ f[0] = FirstMatch(start)
            /\ \A i \in 1 .. n : f[i] = Follow(text, target, f[i - 1])
            /\ E = (IF text[start] = target[1] /\ f[n].found = L THEN f[n].next - 1 ELSE NoMatch)
    <2> HIDE DEF n
    <2> QED  BY ChunkEndIsLoop DEF n
  <1>2. /\ L \in Nat \ {0} /\ N \in Nat /\ start \in 1 .. N /\ n \in Nat
        /\ MaxInserted \in Nat /\ NoMatch = 0
    BY OccurrencesAssumption DEF NoMatch
  <1>3. CASE text[start] # target[1]
    <2>1. E = 0
      BY <1>1, <1>2, <1>3
    <2> HIDE DEF L, N, n
    <2> QED  BY <1>2, <1>3, <2>1, SpanIsEmbedded DEF L, N
  <1>4. CASE text[start] = target[1]
    <2> DEFINE m == f[n]
    <2>1. Followed(text, target, start, n, m)
      <3> DEFINE Good == {i \in 0 .. n : Followed(text, target, start, i, f[i])}
      <3>1. 0 \in Good /\ Good \in SUBSET (0 .. n)
        <4>1. Followed(text, target, start, 0, f[0])
          BY <1>1, <1>4, FirstIsFollowed
        <4> HIDE DEF n
        <4> QED  BY <1>2, <4>1
      <3>2. \A i \in 1 .. n : i - 1 \in Good => i \in Good
        <4>1. \A i \in 1 .. n : Followed(text, target, start, i - 1, f[i - 1])
                                  => Followed(text, target, start, i, f[i])
          BY <1>1, FollowIsFollowed
        <4> HIDE DEF n
        <4> QED  BY <1>2, <4>1
      <3> HIDE DEF Good, n
      <3>3. Good = 0 .. n
        BY <1>2, <3>1, <3>2, Induction
      <3> QED  BY <1>2, <3>3 DEF Good
    <2>2. /\ m.found \in 1 .. L /\ m.inserted \in Nat /\ m.next \in Nat
          /\ m.next = start + m.found + m.inserted /\ m.next <= start + 1 + n
          /\ m.found = L => m.inserted <= MaxInserted
          /\ m.found = L \/ m.inserted > MaxInserted \/ m.next = start + 1 + n
          /\ Leads(text, target, start, m)
      BY <2>1 DEF Followed, Matches
    <2>3. PICK at \in [1 .. m.found -> Nat] : Trace(text, target, start, m, at)
      BY <2>1 DEF Followed
    <2>4. E = (IF m.found = L THEN m.next - 1 ELSE NoMatch) /\ start + n = N
      BY <1>1, <1>2, <1>4
    <2> HIDE DEF m, n, L, N
    <2>5. CASE m.found = L
      <3>1. E = m.next - 1 /\ E \in start .. N /\ E - start + 1 - L \in 0 .. MaxInserted /\ E # NoMatch
        <4>1. E = m.next - 1
          BY <2>4, <2>5
        <4>2. m.next = start + L + m.inserted /\ m.next <= N + 1 /\ m.inserted \in 0 .. MaxInserted
          BY <1>2, <2>2, <2>4, <2>5
        <4>3. L >= 1 /\ L \in Nat /\ start \in Nat /\ start >= 1 /\ N \in Nat
          BY <1>2
        <4> HIDE <2>5
        <4>4. E = start + L + m.inserted - 1 /\ m.inserted \in Nat
          BY <2>2, <4>1, <4>2, <4>3
        <4>5. E >= start /\ E <= N /\ E \in Int /\ E - start + 1 - L = m.inserted
          BY <4>1, <4>2, <4>3, <4>4, SMTT(30)
        <4>6. E \in start .. N /\ E # NoMatch
          BY <1>2, <4>3, <4>5
        <4>7. E - start + 1 - L \in 0 .. MaxInserted
          BY <4>2, <4>5
        <4> QED  BY <4>1, <4>6, <4>7
      <3>2. /\ at[1] = start /\ at[L] = E
            /\ \A k \in 1 .. L : at[k] \in start .. E /\ text[at[k]] = target[k]
            /\ \A k, l \in 1 .. L : k < l => at[k] < at[l]
        BY <2>3, <2>5, <3>1 DEF Trace, L
      <3>3. at \in [1 .. L -> start .. E]
        BY <2>5, <3>2
      <3>4. Spans(text, target, start, E)
        BY <3>1, <3>2, <3>3 DEF Spans, L
      <3>5. ASSUME NEW j \in start .. N, NEW e \in 1 .. N, Spans(text, target, j, e)
            PROVE  j <= e /\ E <= e
        <4>1. j <= e /\ \E q \in Embeddings(text, target, start, N) : q[L] = e
          BY <3>5, SpanIsEmbedded DEF N, L
        <4> QED  BY <2>2, <2>5, <3>1, <4>1 DEF Leads, N, L
      <3> QED  BY <3>1, <3>4, <3>5 DEF N
    <2>6. CASE m.found # L
      <3>1. E = 0 /\ m.found + 1 \in 1 .. L /\ L \in 1 .. L
        BY <1>2, <2>2, <2>4, <2>6
      <3>2. ASSUME NEW e \in 1 .. N, Spans(text, target, start, e)
            PROVE  FALSE
        <4>1. start \in start .. N
          BY <1>2
        <4>2. e - start + 1 - L <= MaxInserted
              /\ \E q \in Embeddings(text, target, start, N) : q[L] = e
          BY <1>2, <3>2, <4>1, SpanIsEmbedded DEF N, L
        <4>3. PICK q \in Embeddings(text, target, start, N) : q[L] = e
          BY <4>2
        <4>4. q[m.found + 1] >= m.next
          <5>1. m.found + 1 > m.found
            BY <2>2
          <5> QED  BY <2>2, <3>1, <5>1 DEF Leads, N, L
        <4>5. q[L] - q[m.found + 1] >= L - (m.found + 1)
          <5>1. start \in Int /\ N \in Int /\ m.found + 1 <= L
            BY <1>2, <3>1
          <5> QED  BY <3>1, <5>1, Gaps DEF L
        <4>6. q[m.found + 1] \in start .. N
          BY <3>1 DEF Embeddings, L
        <4>7. CASE m.inserted > MaxInserted
          <5>1. e >= m.next + (L - (m.found + 1)) /\ q[m.found + 1] \in Int /\ e \in Int
            <6>1. q[m.found + 1] \in Int /\ e \in Int /\ L \in Int /\ m.found \in Int /\ m.next \in Int
              BY <1>2, <2>2, <4>6
            <6>2. e - q[m.found + 1] >= L - (m.found + 1)
              BY <4>3, <4>5
            <6> QED  BY <4>4, <6>1, <6>2
          <5>2. m.next = start + m.found + m.inserted
            BY <2>2
          <5>3. /\ m.found \in Nat /\ m.inserted \in Nat /\ start \in Nat /\ L \in Nat
                /\ MaxInserted \in Nat
            BY <1>2, <2>2
          <5>4. e >= start + m.inserted + L - 1
            <6> HIDE <2>6
            <6> QED  BY <5>1, <5>2, <5>3, SMTT(30)
          <5> QED  BY <4>2, <4>7, <5>1, <5>3, <5>4
        <4>8. CASE m.next = N + 1
          BY <1>2, <4>4, <4>6, <4>8
        <4>9. m.inserted > MaxInserted \/ m.next = N + 1
          <5>1. m.inserted > MaxInserted \/ m.next = start + 1 + n
            BY <2>2, <2>6
          <5>2. start + 1 + n = N + 1
            BY <1>2, <2>4
          <5> QED  BY <5>1, <5>2
        <4> QED  BY <4>7, <4>8, <4>9
      <3>3. ASSUME NEW j \in start .. N, NEW e \in 1 .. N, Spans(text, target, j, e)
            PROVE  j <= e /\ E <= e /\ j # start
        <4>1. j <= e
          BY <3>3, SpanIsEmbedded DEF N
        <4> QED  BY <3>1, <3>2, <3>3, <4>1
      <3> QED  BY <1>2, <3>1, <3>3 DEF N
    <2> QED  BY <2>5, <2>6
  <1> QED  BY <1>3, <1>4

-----------------------------------------------------------------------------
(* _frame_match_end and unit_match_spans *)

\* The same for _frame_match_end: a slot that ends earlier would have been
\* tried before.
LEMMA FrameMatches ==
    ASSUME NEW text \in Seq(Tokens), NEW unit, unit.type = "frame", IsUnit(unit),
           NEW start \in 1 .. Len(text), NEW E,
           E = FrameEnd(text, unit.before, unit.after, start)
    PROVE  /\ E # NoMatch => E \in start .. Len(text) /\ Occurrence(text, unit, start, E)
           /\ \A j \in start .. Len(text), e \in 1 .. Len(text) :
                 Occurrence(text, unit, j, e) => j <= e /\ E <= e /\ (j = start => E # NoMatch)
  <1> DEFINE N == Len(text)
             b == Len(unit.before)
             a == Len(unit.after)
             slots == {n \in 1 .. MaxSlot : Occurs(unit.after, text, start + b + n)}
  <1>1. /\ b \in Nat \ {0} /\ a \in Nat \ {0} /\ N \in Nat /\ start \in 1 .. N
        /\ MaxSlot \in Nat /\ NoMatch = 0
    <2>1. unit.before \in Seq(Tokens) \ {<<>>} /\ unit.after \in Seq(Tokens) \ {<<>>}
      BY DEF IsUnit
    <2> QED  BY <2>1, OccurrencesAssumption DEF NoMatch
  <1>2. \A j, e : Occurrence(text, unit, j, e) <=>
            \E n \in 1 .. MaxSlot :
                /\ e = j + b + n + a - 1
                /\ Occurs(unit.before, text, j) /\ Occurs(unit.after, text, e - a + 1)
    BY DEF Occurrence
  <1>3. E = (IF Occurs(unit.before, text, start) /\ slots # {}
             THEN start + b + a - 1 + (CHOOSE n \in slots : \A m \in slots : n <= m)
             ELSE NoMatch)
    BY DEF FrameEnd
  <1>4. slots \subseteq 1 .. MaxSlot
    OBVIOUS
  <1>5. \A p \in Nat : Occurs(unit.after, text, p) => p + a - 1 <= N
    BY DEF Occurs
  <1>6. \A n \in 1 .. MaxSlot : n \in slots <=> Occurs(unit.after, text, start + b + n)
    OBVIOUS
  <1> HIDE DEF slots, N, a, b
  <1>7. CASE Occurs(unit.before, text, start) /\ slots # {}
    <2> DEFINE n == CHOOSE n \in slots : \A m \in slots : n <= m
    <2>1. n \in slots /\ \A m \in slots : n <= m
      <3>1. slots \in SUBSET Nat
        BY <1>1, <1>4
      <3> QED  BY <1>7, <3>1, Least
    <2> HIDE DEF n
    <2>2. /\ n \in 1 .. MaxSlot /\ E = start + b + a - 1 + n
          /\ Occurs(unit.after, text, start + b + n)
      BY <1>3, <1>4, <1>6, <1>7, <2>1 DEF n
    <2>3. E \in start .. N /\ E # NoMatch /\ E = start + b + n + a - 1 /\ E - a + 1 = start + b + n
      <3>1. start + b + n \in Nat
        BY <1>1, <2>2
      <3>2. start + b + n + a - 1 <= N
        BY <1>5, <2>2, <3>1
      <3> QED  BY <1>1, <2>2, <3>2
    <2>4. Occurrence(text, unit, start, E)
      BY <1>2, <1>7, <2>2, <2>3
    <2>5. ASSUME NEW j \in start .. N, NEW e \in 1 .. N, Occurrence(text, unit, j, e)
          PROVE  j <= e /\ E <= e
      <3>1. PICK m \in 1 .. MaxSlot : /\ e = j + b + m + a - 1
                                      /\ Occurs(unit.after, text, e - a + 1)
        BY <1>2, <2>5
      <3>2. j <= e
        BY <1>1, <3>1
      <3>3. ASSUME e < E PROVE FALSE
        <4> DEFINE k == j - start + m
        <4>1. k \in 1 .. MaxSlot /\ k < n /\ e - a + 1 = start + b + k
          BY <1>1, <2>2, <2>3, <3>1, <3>3
        <4> HIDE DEF k
        <4>2. k \in slots
          BY <1>6, <3>1, <4>1
        <4> QED  BY <1>1, <1>4, <2>1, <2>2, <4>1, <4>2
      <3> QED  BY <1>1, <2>3, <3>2, <3>3
    <2> QED  BY <2>3, <2>4, <2>5 DEF N
  <1>8. CASE ~(Occurs(unit.before, text, start) /\ slots # {})
    <2>1. E = 0
      BY <1>1, <1>3, <1>8
    <2>2. ASSUME NEW j \in start .. N, NEW e \in 1 .. N, Occurrence(text, unit, j, e)
          PROVE  j <= e /\ E <= e /\ j # start
      <3>1. PICK m \in 1 .. MaxSlot :
                /\ e = j + b + m + a - 1 /\ Occurs(unit.before, text, j)
                /\ Occurs(unit.after, text, e - a + 1)
        BY <1>2, <2>2
      <3>2. j <= e /\ E <= e
        <4>1. /\ j \in Nat /\ m \in Nat /\ e \in Nat /\ a >= 1 /\ b >= 1
              /\ a \in Nat /\ b \in Nat
          BY <1>1
        <4> QED  BY <2>1, <3>1, <4>1
      <3>3. ASSUME j = start PROVE FALSE
        <4>1. e - a + 1 = start + b + m
          BY <1>1, <3>1, <3>3
        <4>2. m \in slots
          BY <1>6, <3>1, <4>1
        <4> QED  BY <1>8, <3>1, <3>3, <4>2
      <3> QED  BY <3>2, <3>3
    <2> QED  BY <1>1, <2>1, <2>2 DEF N
  <1> QED  BY <1>7, <1>8

\* unit_match_spans: where a match ends, if there is one.
LEMMA MatchesAreFirst ==
    ASSUME NEW text \in Seq(Tokens), NEW unit, IsUnit(unit),
           NEW start \in 1 .. Len(text), NEW E, E = MatchEnd(text, unit, start)
    PROVE  /\ E # NoMatch => E \in start .. Len(text) /\ Occurrence(text, unit, start, E)
           /\ \A j \in start .. Len(text), e \in 1 .. Len(text) :
                 Occurrence(text, unit, j, e) => j <= e /\ E <= e /\ (j = start => E # NoMatch)
  <1>1. CASE unit.type = "frame"
    <2>1. E = FrameEnd(text, unit.before, unit.after, start)
      BY <1>1 DEF MatchEnd
    <2> QED  BY <1>1, <2>1, FrameMatches
  <1>2. CASE unit.type # "frame"
    <2>1. E = ChunkEnd(text, unit.tokens, start) /\ unit.tokens \in Seq(Tokens) \ {<<>>}
      BY <1>2 DEF MatchEnd, IsUnit
    <2>2. \A j, e : Occurrence(text, unit, j, e) <=> Spans(text, unit.tokens, j, e)
      BY <1>2 DEF Occurrence
    <2> QED  BY <2>1, <2>2, ChunkMatches
  <1> QED  BY <1>1, <1>2

-----------------------------------------------------------------------------
(* count_unit_occurrences *)

Counts == [count : Nat, end : Nat]
NoneYet == [count |-> 0, end |-> 0]

\* A turn of the counter keeps natural numbers.
LEMMA ConsumeType ==
    ASSUME NEW text \in Seq(Tokens), NEW unit, IsUnit(unit),
           NEW i \in 1 .. Len(text), NEW c \in Counts
    PROVE  Consume(text, unit, i, c) \in Counts
  <1> DEFINE E == MatchEnd(text, unit, i)
  <1>1. E # NoMatch => E \in i .. Len(text)
    BY MatchesAreFirst
  <1> HIDE DEF E
  <1>2. E # NoMatch => E \in Nat
    BY <1>1
  <1>3. c.count + 1 \in Nat
    BY DEF Counts
  <1>4. Consume(text, unit, i, c) =
           IF E = NoMatch \/ i <= c.end THEN c ELSE [count |-> c.count + 1, end |-> E]
    BY DEF Consume, E
  <1> QED  BY <1>2, <1>3, <1>4 DEF Counts

\* The loop exists, and its last count is what is returned.
LEMMA CountIsLoop ==
    ASSUME NEW text \in Seq(Tokens), NEW unit, IsUnit(unit)
    PROVE  \E f \in [0 .. Len(text) -> Counts] :
              /\ f[0] = NoneYet
              /\ \A i \in 1 .. Len(text) : f[i] = Consume(text, unit, i, f[i - 1])
              /\ CountIn(text, unit) = f[Len(text)].count
  <1> DEFINE n == Len(text)
             g == [p \in (1 .. n) \X Counts |-> Consume(text, unit, p[1], p[2])]
             Loop(f) == [i \in 0 .. n |-> IF i = 0 THEN NoneYet ELSE Consume(text, unit, i, f[i - 1])]
  <1>1. \A i \in 1 .. n, c \in Counts : Consume(text, unit, i, c) \in Counts
    BY ConsumeType
  <1>2. n \in Nat /\ NoneYet \in Counts
    BY DEF NoneYet, Counts
  <1> HIDE DEF n
  <1>3. g \in [(1 .. n) \X Counts -> Counts]
    BY <1>1
  <1>4. PICK f \in Iterates(n, Counts, NoneYet, g) : TRUE
    <2> HIDE DEF g
    <2> QED  BY <1>2, <1>3, Recursion
  <1>5. f \in [0 .. n -> Counts] /\ f[0] = NoneYet
    BY <1>4 DEF Iterates
  <1>6. \A i \in 1 .. n : f[i] = Consume(text, unit, i, f[i - 1])
    <2> TAKE i \in 1 .. n
    <2>1. i - 1 \in 0 .. n
      BY <1>2
    <2>2. <<i, f[i - 1]>> \in (1 .. n) \X Counts
      BY <1>5, <2>1
    <2> QED  BY <1>4, <2>2 DEF Iterates
  <1>7. f = Loop(f)
    BY <1>2, <1>5, <1>6
  <1> DEFINE h == CHOOSE h : h = Loop(h)
  <1>8. h = Loop(h)
    <2> HIDE DEF Loop
    <2> QED  BY <1>7
  <1>9. DOMAIN h = 0 .. n /\ h[0] = NoneYet /\ \A i \in 1 .. n : h[i] = Consume(text, unit, i, h[i - 1])
    <2>1. \A k : k = Loop(k) =>
             /\ DOMAIN k = 0 .. n /\ k[0] = NoneYet
             /\ \A i \in 1 .. n : k[i] = Consume(text, unit, i, k[i - 1])
      BY <1>2
    <2> HIDE DEF h, Loop
    <2> QED  BY <1>8, <2>1
  <1>10. CountIn(text, unit) = h[n].count
    BY DEF CountIn, NoneYet, n
  <1> HIDE DEF h, Loop
  <1>11. h \in [0 .. n -> Counts]
    <2> DEFINE Good == {i \in 0 .. n : h[i] \in Counts}
    <2>1. Good \in SUBSET (0 .. n) /\ 0 \in Good
      BY <1>2, <1>9
    <2>2. \A i \in 1 .. n : i - 1 \in Good => i \in Good
      BY <1>1, <1>2, <1>9
    <2>3. Good = 0 .. n
      <3> HIDE DEF Good
      <3> QED  BY <1>2, <2>1, <2>2, Induction
    <2>4. h = [i \in 0 .. n |-> h[i]]
      BY <1>8, <1>9 DEF Loop
    <2> QED  BY <2>3, <2>4
  <1> QED  BY <1>9, <1>10, <1>11 DEF n

\* The occurrences of T that a counter that stands at i can still count.
Ahead(T, i, c) == {t \in T : t[1] > i /\ t[1] > c.end}

\* What is counted is disjoint, and any other choice counts no more, even
\* together with what it has ahead.
Counted(text, unit, i, c) ==
    /\ c \in Counts
    /\ \E S \in SUBSET AllOccurrences(text, unit) :
          Disjoint(S) /\ Cardinality(S) = c.count /\ \A s \in S : s[2] <= c.end
    /\ \A T \in SUBSET AllOccurrences(text, unit) :
          Disjoint(T) => Cardinality(T) <= c.count + Cardinality(Ahead(T, i, c))

\* There are finitely many occurrences to choose from, inside of the text.
LEMMA OccurrencesAreFinite ==
    ASSUME NEW text \in Seq(Tokens), NEW unit
    PROVE  /\ \A T \in SUBSET AllOccurrences(text, unit) : IsFiniteSet(T) /\ Cardinality(T) \in Nat
           /\ \A s \in AllOccurrences(text, unit) :
                 /\ s[1] \in 1 .. Len(text) /\ s[2] \in 1 .. Len(text)
                 /\ s = <<s[1], s[2]>> /\ Occurrence(text, unit, s[1], s[2])
  <1>1. Len(text) \in Nat
    OBVIOUS
  <1>2. IsFiniteSet((1 .. Len(text)) \X (1 .. Len(text)))
    <2> DEFINE I == 1 .. Len(text)
    <2>1. IsFiniteSet(I)
      BY <1>1, FS_Interval
    <2> HIDE DEF I
    <2>2. IsFiniteSet(I \X I)
      BY <2>1, FS_Product
    <2> QED  BY <2>2 DEF I
  <1>3. AllOccurrences(text, unit) \subseteq (1 .. Len(text)) \X (1 .. Len(text))
    BY DEF AllOccurrences
  <1>4. \A T \in SUBSET AllOccurrences(text, unit) : IsFiniteSet(T) /\ Cardinality(T) \in Nat
    BY <1>2, <1>3, FS_Subset, FS_CardinalityType
  <1> QED  BY <1>4 DEF AllOccurrences

\* At most one of disjoint occurrences begins at i or later and before the
\* match that is found at i is over.
LEMMA OneIsLost ==
    ASSUME NEW text \in Seq(Tokens), NEW unit, IsUnit(unit), NEW i \in 1 .. Len(text),
           MatchEnd(text, unit, i) # NoMatch,
           NEW T \in SUBSET AllOccurrences(text, unit), Disjoint(T)
    PROVE  \A s, t \in T : s[1] \in i .. MatchEnd(text, unit, i)
                            /\ t[1] \in i .. MatchEnd(text, unit, i) => s = t
  <1> DEFINE E == MatchEnd(text, unit, i)
             N == Len(text)
  <1>1. /\ E \in i .. N /\ N \in Nat /\ i \in 1 .. N
        /\ \A j \in i .. N, e \in 1 .. N : Occurrence(text, unit, j, e) => E <= e
    BY MatchesAreFirst
  <1>2. \A s \in T : s[1] \in 1 .. N /\ s[2] \in 1 .. N /\ Occurrence(text, unit, s[1], s[2])
    BY OccurrencesAreFinite
  <1> HIDE DEF E, N
  <1>3. ASSUME NEW s \in T, s[1] \in i .. E PROVE E <= s[2]
    <2>1. s[1] \in i .. N
      BY <1>1, <1>2, <1>3
    <2> QED  BY <1>1, <1>2, <2>1
  <1> SUFFICES ASSUME NEW s \in T, NEW t \in T, s[1] \in i .. E, t[1] \in i .. E, s # t
               PROVE  FALSE
    BY DEF E
  <1>4. s[2] < t[1] \/ t[2] < s[1]
    BY DEF Disjoint
  <1>5. E <= s[2] /\ E <= t[2] /\ s[1] <= E /\ t[1] <= E
    BY <1>1, <1>3
  <1> QED  BY <1>1, <1>2, <1>4, <1>5

\* Every turn of the counter keeps its invariant.
LEMMA ConsumeIsCounted ==
    ASSUME NEW text \in Seq(Tokens), NEW unit, IsUnit(unit), NEW i \in 1 .. Len(text),
           NEW c, Counted(text, unit, i - 1, c)
    PROVE  Counted(text, unit, i, Consume(text, unit, i, c))
  <1> DEFINE E == MatchEnd(text, unit, i)
             N == Len(text)
             All == AllOccurrences(text, unit)
             d == Consume(text, unit, i, c)
  <1>1. /\ N \in Nat /\ i \in 1 .. N /\ c \in Counts /\ d \in Counts
        /\ c.count \in Nat /\ c.end \in Nat
    BY ConsumeType DEF Counted, Counts
  <1>2. /\ E # NoMatch => E \in i .. N /\ Occurrence(text, unit, i, E)
        /\ \A j \in i .. N, e \in 1 .. N :
              Occurrence(text, unit, j, e) => j <= e /\ E <= e /\ (j = i => E # NoMatch)
    BY MatchesAreFirst
  <1>3. /\ \A T \in SUBSET All : IsFiniteSet(T) /\ Cardinality(T) \in Nat
        /\ \A s \in All : /\ s[1] \in 1 .. N /\ s[2] \in 1 .. N
                          /\ Occurrence(text, unit, s[1], s[2])
    BY OccurrencesAreFinite
  <1>4. d = IF E = NoMatch \/ i <= c.end THEN c ELSE [count |-> c.count + 1, end |-> E]
    BY DEF Consume
  <1>5. PICK S \in SUBSET All :
            Disjoint(S) /\ Cardinality(S) = c.count /\ \A s \in S : s[2] <= c.end
    BY DEF Counted
  <1>6. \A T \in SUBSET All : Disjoint(T) => Cardinality(T) <= c.count + Cardinality(Ahead(T, i - 1, c))
    BY DEF Counted
  <1>7. \A T \in SUBSET All : \A j, e :
            Ahead(T, j, e) \in SUBSET All /\ Ahead(T, j, e) \in SUBSET T
    BY DEF Ahead
  <1>8. \A j, e : <<j, e>> \in All <=>
            j \in 1 .. N /\ e \in 1 .. N /\ Occurrence(text, unit, j, e)
    BY DEF AllOccurrences
  <1> HIDE DEF E, N, All, d
  <1>9. CASE E = NoMatch \/ i <= c.end
    <2>1. d = c
      BY <1>4, <1>9
    <2>2. ASSUME NEW T \in SUBSET All
          PROVE  Ahead(T, i - 1, c) = Ahead(T, i, c)
      <3>1. \A t \in T : t[1] \in 1 .. N /\ t[2] \in 1 .. N
                          /\ (t[1] = i => E # NoMatch)
        <4> TAKE t \in T
        <4>1. t[1] \in 1 .. N /\ t[2] \in 1 .. N /\ Occurrence(text, unit, t[1], t[2])
          BY <1>3
        <4>2. t[1] = i => t[1] \in i .. N
          BY <1>1
        <4> QED  BY <1>2, <4>1, <4>2
      <3>2. \A t \in T : t[1] > i - 1 /\ t[1] > c.end => t[1] > i
        BY <1>1, <1>9, <3>1
      <3>3. \A t \in T : t[1] > i => t[1] > i - 1
        BY <1>1, <3>1
      <3> QED  BY <3>2, <3>3 DEF Ahead
    <2> QED  BY <1>1, <1>5, <1>6, <2>1, <2>2 DEF Counted, All, d
  <1>10. CASE E # NoMatch /\ ~(i <= c.end)
    <2>1. d.count = c.count + 1 /\ d.end = E /\ E \in i .. N /\ c.end < i
      BY <1>1, <1>2, <1>4, <1>10
    <2>2. <<i, E>> \in All
      BY <1>1, <1>2, <1>8, <1>10, <2>1
    <2> DEFINE P == S \union {<<i, E>>}
    <2>3. P \in SUBSET All /\ Disjoint(P) /\ \A s \in P : s[2] <= d.end
      <3>1. \A s \in S : s[1] \in 1 .. N /\ s[2] \in 1 .. N /\ s[2] < i /\ s[2] <= E
        BY <1>1, <1>3, <1>5, <2>1
      <3>2. \A s, t \in P : s # t => s[2] < t[1] \/ t[2] < s[1]
        BY <1>5, <3>1 DEF Disjoint
      <3>3. \A s \in P : s[2] <= E
        BY <1>1, <2>1, <3>1
      <3> QED  BY <2>1, <2>2, <3>2, <3>3 DEF Disjoint
    <2>4. Cardinality(P) = d.count
      <3>1. <<i, E>> \notin S
        <4>1. <<i, E>>[2] = E /\ (E <= c.end => FALSE)
          BY <1>1, <2>1
        <4> QED  BY <1>5, <4>1
      <3>2. IsFiniteSet(S)
        BY <1>3
      <3> QED  BY <1>5, <2>1, <3>1, <3>2, FS_AddElement
    <2>5. ASSUME NEW T \in SUBSET All, Disjoint(T)
          PROVE  Cardinality(T) <= d.count + Cardinality(Ahead(T, i, d))
      <3> DEFINE A == Ahead(T, i - 1, c)
                 B == Ahead(T, i, d)
                 lost == A \ B
      <3>1. Cardinality(T) <= c.count + Cardinality(A)
        BY <1>6, <2>5
      <3>2. \A t \in T : t[1] \in 1 .. N
        BY <1>3
      <3>3. \A s, t \in lost : s = t
        <4>1. \A t \in lost : t \in T /\ t[1] \in i .. E
          BY <1>1, <2>1, <3>2 DEF Ahead
        <4> HIDE DEF lost
        <4> QED  BY <1>10, <2>5, <4>1, OneIsLost DEF E, All, N
      <3>4. IsFiniteSet(B) /\ Cardinality(B) \in Nat /\ Cardinality(A) \in Nat
            /\ Cardinality(T) \in Nat
        BY <1>3, <1>7
      <3>5. \E x : A \subseteq B \union {x}
        <4>1. CASE lost = {}
          BY <4>1
        <4>2. CASE lost # {}
          <5>1. PICK x \in lost : TRUE
            BY <4>2
          <5>2. \A t \in A : t \in B \/ t = x
            BY <3>3, <5>1
          <5> QED  BY <5>2
        <4> QED  BY <4>1, <4>2
      <3> HIDE DEF A, B, lost
      <3>6. PICK x : A \subseteq B \union {x}
        BY <3>5
      <3>7. /\ IsFiniteSet(B \union {x})
            /\ Cardinality(B \union {x}) \in {Cardinality(B), Cardinality(B) + 1}
        BY <3>4, FS_AddElement
      <3>8. Cardinality(A) <= Cardinality(B \union {x})
        BY <3>6, <3>7, FS_Subset
      <3>9. Cardinality(T) <= d.count + Cardinality(B)
        BY <1>1, <2>1, <3>1, <3>4, <3>7, <3>8
      <3> QED  BY <3>9 DEF B
    <2> HIDE DEF P
    <2> QED  BY <1>1, <2>3, <2>4, <2>5 DEF Counted, All, d
  <1> QED  BY <1>9, <1>10

\* count_unit_occurrences, which takes each first match it meets, counts as
\* many as any other choice could, in every text and for every Unit.
THEOREM CountIsMaximal ==
    ASSUME NEW text \in Seq(Tokens), NEW unit, IsUnit(unit)
    PROVE  CountIn(text, unit) = MostDisjoint(text, unit) /\ CountIn(text, unit) \in Nat
  <1> DEFINE n == Len(text)
             All == AllOccurrences(text, unit)
             sizes == {Cardinality(S) : S \in {T \in SUBSET All : Disjoint(T)}}
  <1>1. PICK f \in [0 .. n -> Counts] :
            /\ f[0] = NoneYet
            /\ \A i \in 1 .. n : f[i] = Consume(text, unit, i, f[i - 1])
            /\ CountIn(text, unit) = f[n].count
    BY CountIsLoop
  <1>2. n \in Nat
    OBVIOUS
  <1>3. Counted(text, unit, 0, NoneYet)
    <2>1. NoneYet \in Counts /\ NoneYet.count = 0 /\ NoneYet.end = 0
      BY DEF NoneYet, Counts
    <2>2. Disjoint({}) /\ {} \in SUBSET All /\ Cardinality({}) = 0
      BY FS_EmptySet DEF Disjoint
    <2>3. ASSUME NEW T \in SUBSET All
          PROVE  Cardinality(T) <= NoneYet.count + Cardinality(Ahead(T, 0, NoneYet))
      <3>1. \A t \in T : t[1] > 0
        <4>1. \A t \in T : t[1] \in 1 .. n
          BY OccurrencesAreFinite
        <4> HIDE DEF n
        <4> QED  BY <1>2, <4>1
      <3>2. Ahead(T, 0, NoneYet) = T
        BY <2>1, <3>1 DEF Ahead
      <3>3. Cardinality(T) \in Nat
        BY OccurrencesAreFinite
      <3> QED  BY <2>1, <3>2, <3>3
    <2> QED  BY <2>1, <2>2, <2>3 DEF Counted
  <1>4. \A i \in 1 .. n : Counted(text, unit, i - 1, f[i - 1]) => Counted(text, unit, i, f[i])
    BY <1>1, ConsumeIsCounted
  <1>5. Counted(text, unit, n, f[n])
    <2> DEFINE Good == {i \in 0 .. n : Counted(text, unit, i, f[i])}
    <2> HIDE DEF n
    <2>1. Good \in SUBSET (0 .. n) /\ 0 \in Good
      BY <1>1, <1>2, <1>3
    <2>2. \A i \in 1 .. n : i - 1 \in Good => i \in Good
      BY <1>2, <1>4
    <2>3. Good = 0 .. n
      <3> HIDE DEF Good
      <3> QED  BY <1>2, <2>1, <2>2, Induction
    <2> QED  BY <1>2, <2>3
  <1> DEFINE count == f[n].count
  <1>6. count \in Nat /\ count \in sizes
    BY <1>5 DEF Counted, Counts
  <1>7. ASSUME NEW T \in SUBSET All, Disjoint(T)
        PROVE  Cardinality(T) \in Nat /\ Cardinality(T) <= count
    <2>1. Ahead(T, n, f[n]) = {}
      <3>1. \A t \in T : t[1] \in 1 .. n
        BY OccurrencesAreFinite
      <3> HIDE DEF n
      <3> QED  BY <1>2, <3>1 DEF Ahead
    <2>2. Cardinality(T) <= count + Cardinality(Ahead(T, n, f[n]))
      BY <1>5, <1>7 DEF Counted
    <2>3. Cardinality(T) \in Nat
      BY OccurrencesAreFinite
    <2> HIDE DEF n, count
    <2> QED  BY <1>6, <2>1, <2>2, <2>3, FS_EmptySet
  <1>8. \A k \in sizes : k \in Nat /\ k <= count
    <2> HIDE DEF count
    <2> QED  BY <1>7
  <1>9. MostDisjoint(text, unit) = CHOOSE k \in sizes : \A m \in sizes : m <= k
    BY DEF MostDisjoint
  <1> HIDE DEF sizes, count
  <1>10. \A k \in sizes : (\A m \in sizes : m <= k) => k = count
    BY <1>6, <1>8
  <1>11. MostDisjoint(text, unit) = count
    BY <1>6, <1>8, <1>9, <1>10
  <1> QED  BY <1>1, <1>6, <1>11 DEF count

-----------------------------------------------------------------------------
(* count_scan *)

\* What counts add up to is a natural number.
LEMMA TotalIsNatural ==
    ASSUME NEW counts \in Seq(Nat)
    PROVE  Total(counts) \in Nat
  <1> DEFINE n == Len(counts)
             g == [p \in (1 .. n) \X Nat |-> p[2] + counts[p[1]]]
             Sums(f) == [i \in 0 .. n |-> IF i = 0 THEN 0 ELSE f[i - 1] + counts[i]]
  <1>1. n \in Nat /\ 0 \in Nat /\ \A i \in 1 .. n : counts[i] \in Nat
    OBVIOUS
  <1> HIDE DEF n
  <1>2. g \in [(1 .. n) \X Nat -> Nat]
    BY <1>1
  <1>3. PICK f \in Iterates(n, Nat, 0, g) : TRUE
    <2> HIDE DEF g
    <2> QED  BY <1>1, <1>2, Recursion
  <1>4. f \in [0 .. n -> Nat] /\ f[0] = 0
    BY <1>3 DEF Iterates
  <1>5. \A i \in 1 .. n : f[i] = f[i - 1] + counts[i]
    <2> TAKE i \in 1 .. n
    <2>1. i - 1 \in 0 .. n
      BY <1>1
    <2>2. <<i, f[i - 1]>> \in (1 .. n) \X Nat
      BY <1>4, <2>1
    <2> QED  BY <1>3, <2>2 DEF Iterates
  <1>6. f = Sums(f)
    BY <1>1, <1>4, <1>5
  <1> DEFINE h == CHOOSE h : h = Sums(h)
  <1>7. h = Sums(h)
    <2> HIDE DEF Sums
    <2> QED  BY <1>6
  <1>8. h[0] = 0 /\ \A i \in 1 .. n : h[i] = h[i - 1] + counts[i]
    <2>1. \A k : k = Sums(k) => k[0] = 0 /\ \A i \in 1 .. n : k[i] = k[i - 1] + counts[i]
      BY <1>1
    <2> HIDE DEF h, Sums
    <2> QED  BY <1>7, <2>1
  <1>9. Total(counts) = h[n]
    BY DEF Total, n
  <1> HIDE DEF h, Sums
  <1> DEFINE Good == {i \in 0 .. n : h[i] \in Nat}
  <1>10. Good \in SUBSET (0 .. n) /\ 0 \in Good
    BY <1>1, <1>8
  <1>11. \A i \in 1 .. n : i - 1 \in Good => i \in Good
    BY <1>1, <1>8
  <1>12. Good = 0 .. n
    <2> HIDE DEF Good
    <2> QED  BY <1>1, <1>10, <1>11, Induction
  <1> QED  BY <1>1, <1>9, <1>12

\* So a file's count is the most its blocks could have.
LEMMA FilesAreCounted ==
    /\ CountInFile = MostInFile
    /\ \A c \in Readable, l \in Lemmas : CountInFile[c][l] \in Nat
  <1>1. \A c \in Contents \ Rejected, l \in Lemmas : c \in Seq(Seq(Tokens)) /\ IsUnit(l)
    BY CorpusAssumption
  <1>2. \A c \in Contents \ Rejected, l \in Lemmas : \A i \in 1 .. Len(c) :
            /\ CountIn(c[i], l) = MostDisjoint(c[i], l)
            /\ CountIn(c[i], l) \in Nat
    <2> TAKE c \in Contents \ Rejected, l \in Lemmas
    <2> TAKE i \in 1 .. Len(c)
    <2>1. c[i] \in Seq(Tokens)
      BY <1>1
    <2> QED  BY <1>1, <2>1, CountIsMaximal
  <1>3. \A c \in Contents \ Rejected, l \in Lemmas :
            [i \in 1 .. Len(c) |-> CountIn(c[i], l)] = [i \in 1 .. Len(c) |-> MostDisjoint(c[i], l)]
    BY <1>2
  <1>4. \A c \in Contents \ Rejected, l \in Lemmas :
            Total([i \in 1 .. Len(c) |-> CountIn(c[i], l)]) \in Nat
    <2> TAKE c \in Contents \ Rejected, l \in Lemmas
    <2>1. Len(c) \in Nat
      BY <1>1
    <2>2. [i \in 1 .. Len(c) |-> CountIn(c[i], l)] \in Seq(Nat)
      BY <1>2, <2>1
    <2> QED  BY <2>2, TotalIsNatural
  <1> DEFINE counted(c, l) == IF c = Absent THEN 0
                              ELSE Total([i \in 1 .. Len(c) |-> CountIn(c[i], l)])
             most(c, l) == IF c = Absent THEN 0
                           ELSE Total([i \in 1 .. Len(c) |-> MostDisjoint(c[i], l)])
  <1>5. \A c \in Readable, l \in Lemmas : counted(c, l) = most(c, l) /\ counted(c, l) \in Nat
    BY <1>3, <1>4 DEF Readable
  <1>6. /\ CountInFile = [c \in Readable |-> [l \in Lemmas |-> counted(c, l)]]
        /\ MostInFile = [c \in Readable |-> [l \in Lemmas |-> most(c, l)]]
    BY DEF CountInFile, MostInFile
  <1> HIDE DEF counted, most
  <1>7. CountInFile = MostInFile
    BY <1>5, <1>6
  <1> QED  BY <1>5, <1>6, <1>7

-----------------------------------------------------------------------------
(* Scans *)

Snapshot(r) == [source |-> r.source, units |-> r.units, snapshot |-> r.snapshot]

Scans == [source : Sources, units : Registries, snapshot : [Files -> Readable]]
Planned == UNION {Plans(r) : r \in Scans}
Runs == [source : Sources \union {NoSource}, units : Registries, todo : SUBSET Files,
         snapshot : Directories, missing : SUBSET Encounter]

TypeInv ==
    /\ registry \in Registries /\ files \in Directories
    /\ log \in Seq(Planned)
    /\ pc \in {"idle", "read", "emit"}
    /\ run \in Runs
    /\ pc # "idle" => Snapshot(run) \in Scans

Bounds == torn \in BOOLEAN /\ edits \in 0 .. MaxEdits /\ faults \in 0 .. MaxFaults

\* What the preflight found still holds.
EmitInv ==
    pc = "emit" =>
        /\ HistoryFits(run)
        /\ \A p \in Plans(run) : ~Conflict(run, p)
        /\ Plans(run) \subseteq Elements(log) \union run.missing
        /\ run.missing \subseteq Plans(run) \ Elements(log)

IInv == TypeInv /\ HistoryStaysAccepted /\ EmitInv

\* What a scan works on is a record of these fields.
LEMMA RunFields ==
    /\ NoRun \in Runs
    /\ \A r \in Runs :
          /\ r.source \in Sources \union {NoSource} /\ r.units \in Registries
          /\ r.todo \subseteq Files /\ r.snapshot \in Directories
          /\ r.missing \subseteq Encounter
          /\ DOMAIN r = {"source", "units", "todo", "snapshot", "missing"}
          /\ r = [source |-> r.source, units |-> r.units, todo |-> r.todo,
                  snapshot |-> r.snapshot, missing |-> r.missing]
  <1>1. [u \in Units |-> Absent] \in Registries /\ [f \in Files |-> Absent] \in Directories
    BY SMTT(30) DEF Registries, Directories
  <1> QED  BY <1>1 DEF NoRun, Runs

\* A plan is an encounter, and its count the most there could be.
LEMMA PlansAreEncounters ==
    ASSUME NEW r \in Scans, NEW e \in Plans(r)
    PROVE  /\ e \in Encounter /\ e.snapshot \in [Files -> Readable]
           /\ e.count = MostInMonth[e.snapshot][e.lemma]
  <1>1. PICK u \in Listed(r) : e = Plan(r, u)
    BY DEF Plans
  <1>2. /\ r.source \in Sources /\ r.units \in Registries /\ r.snapshot \in [Files -> Readable]
    BY DEF Scans
  <1>3. /\ e.unit = u /\ e.source = r.source /\ e.lemma = r.units[u] /\ e.snapshot = r.snapshot
        /\ e.count = Count(r.snapshot, r.units[u])
        /\ e = [unit |-> e.unit, source |-> e.source, lemma |-> e.lemma, count |-> e.count,
                snapshot |-> e.snapshot]
    BY <1>1 DEF Plan
  <1>4. u \in Units /\ r.units[u] \in Lemmas
    BY <1>1, <1>2 DEF Listed, Registries
  <1>5. FileNames \in Seq(Files) /\ Len(FileNames) \in Nat
    BY CorpusAssumption
  <1> DEFINE each == [i \in 1 .. Len(FileNames) |->
                        CountInFile[r.snapshot[FileNames[i]]][r.units[u]]]
  <1>6. each \in Seq(Nat)
    <2>1. \A i \in 1 .. Len(FileNames) : r.snapshot[FileNames[i]] \in Readable
      BY <1>2, <1>5
    <2>2. \A i \in 1 .. Len(FileNames) :
              CountInFile[r.snapshot[FileNames[i]]][r.units[u]] \in Nat
      BY <1>4, <2>1, FilesAreCounted
    <2> QED  BY <1>5, <2>2
  <1>7. e.count = Total(each)
    BY <1>3 DEF Count
  <1>8. e.count \in Nat
    <2> HIDE DEF each
    <2> QED  BY <1>6, <1>7, TotalIsNatural
  <1>9. r.snapshot \in Directories
    BY <1>2 DEF Directories, Readable
  <1>10. e \in Encounter
    BY <1>2, <1>3, <1>4, <1>8, <1>9 DEF Encounter
  <1>11. each = [i \in 1 .. Len(FileNames) |->
                   MostInFile[e.snapshot[FileNames[i]]][e.lemma]]
    BY <1>3, FilesAreCounted
  <1>12. MostInMonth[e.snapshot][e.lemma] = Total([i \in 1 .. Len(FileNames) |->
                   MostInFile[e.snapshot[FileNames[i]]][e.lemma]])
    BY <1>2, <1>3, <1>4 DEF MostInMonth
  <1> QED  BY <1>2, <1>3, <1>7, <1>10, <1>11, <1>12

\* A plan depends on nothing of a scan but these fields.
LEMMA PlanOfSnapshot ==
    ASSUME NEW r, NEW q, r.source = q.source, r.units = q.units, r.snapshot = q.snapshot
    PROVE  Plans(r) = Plans(q) /\ \A u : Plan(r, u) = Plan(q, u)
  BY DEF Plans, Plan, Listed

\* The plans of a scan, one for each id, are among those that may be stored.
LEMMA PlansArePlanned ==
    ASSUME NEW r, Snapshot(r) \in Scans
    PROVE  /\ Plans(r) \subseteq Planned /\ Plans(r) \subseteq Encounter
           /\ \A p, q \in Plans(r) : SameId(p, q) => p = q
           /\ \A p \in Plans(r) : p.source = r.source /\ p.snapshot = r.snapshot
  <1> DEFINE q == Snapshot(r)
  <1>1. q.source = r.source /\ q.units = r.units /\ q.snapshot = r.snapshot
    BY DEF Snapshot
  <1>2. Plans(r) = Plans(q)
    BY <1>1, PlanOfSnapshot
  <1>3. q \in Scans
    OBVIOUS
  <1> HIDE DEF q
  <1>4. Plans(q) \subseteq Planned /\ Plans(q) \subseteq Encounter
    BY <1>3, PlansAreEncounters DEF Planned
  <1>5. \A u : Plan(r, u).unit = u /\ Plan(r, u).source = r.source
               /\ Plan(r, u).snapshot = r.snapshot
    BY DEF Plan
  <1>6. \A p \in Plans(r) : \E u : p = Plan(r, u)
    BY DEF Plans
  <1> QED  BY <1>2, <1>4, <1>5, <1>6 DEF SameId

\* What Append does to a sequence.
LEMMA Appended ==
    ASSUME NEW S, NEW s \in Seq(S), NEW e \in S
    PROVE  /\ Append(s, e) \in Seq(S)
           /\ Elements(Append(s, e)) = Elements(s) \union {e}
           /\ DOMAIN Append(s, e) = DOMAIN s \union {Len(s) + 1}
           /\ \A i \in DOMAIN s : Append(s, e)[i] = s[i]
           /\ Append(s, e)[Len(s) + 1] = e
  <1>1. /\ Append(s, e) \in Seq(S) /\ DOMAIN s = 1 .. Len(s) /\ Len(s) \in Nat
        /\ DOMAIN Append(s, e) = 1 .. Len(s) + 1
        /\ \A i \in 1 .. Len(s) : Append(s, e)[i] = s[i]
        /\ Append(s, e)[Len(s) + 1] = e
    OBVIOUS
  <1>2. DOMAIN Append(s, e) = DOMAIN s \union {Len(s) + 1}
    BY <1>1
  <1> QED  BY <1>1, <1>2 DEF Elements

\* A missing plan of the running scan continues the history.
LEMMA MissingContinues ==
    ASSUME IInv, pc = "emit", NEW p \in run.missing, log' = Append(log, p)
    PROVE  /\ log' \in Seq(Planned)
           /\ HistoryStaysAccepted'
           /\ Elements(log)' = Elements(log) \union {p}
           /\ \A g \in Plans(run), e \in Elements(log)' : SameId(e, g) => e = g
           /\ \A e \in Elements(log)' : e.source = run.source => e.snapshot = run.snapshot
           /\ UniqueIds'
  <1>1. p \in Plans(run) /\ p \notin Elements(log) /\ p \in Planned
    BY PlansArePlanned DEF IInv, TypeInv, EmitInv
  <1>2. /\ log' \in Seq(Planned)
        /\ Elements(log)' = Elements(log) \union {p}
        /\ DOMAIN log' = DOMAIN log \union {Len(log) + 1}
        /\ \A i \in DOMAIN log : log'[i] = log[i]
        /\ log'[Len(log) + 1] = p
    <2>1. log \in Seq(Planned)
      BY DEF IInv, TypeInv
    <2> QED  BY <1>1, <2>1, Appended DEF Elements
  <1>3. /\ UniqueIds
        /\ \A g \in Plans(run), e \in Elements(log) : SameId(e, g) => e = g
        /\ \A e \in Elements(log) : e.source = run.source => e.snapshot = run.snapshot
    BY DEF IInv, EmitInv, HistoryFits, Conflict
  <1>4. /\ \A g \in Plans(run) : SameId(p, g) => p = g
        /\ p.source = run.source /\ p.snapshot = run.snapshot
    BY <1>1, PlansArePlanned DEF IInv, TypeInv
  <1>5. \A i \in DOMAIN log : ~SameId(log[i], p) /\ ~SameId(p, log[i])
    BY <1>1, <1>3 DEF Elements, SameId
  <1>6. UniqueIds'
    BY <1>2, <1>3, <1>5 DEF UniqueIds, SameId
  <1>7. \A e, g \in Elements(log)' : e.source = g.source => e.snapshot = g.snapshot
    BY <1>2, <1>3, <1>4 DEF IInv, HistoryStaysAccepted
  <1> QED
    BY <1>2, <1>3, <1>4, <1>6, <1>7 DEF HistoryStaysAccepted, Elements

\* A scan that stops leaves the log as it is.
LEMMA Stopped ==
    ASSUME IInv, UNCHANGED log, pc' = "idle", run' = NoRun,
           registry' \in Registries, files' \in Directories
    PROVE  IInv'
  BY RunFields DEF IInv, TypeInv, EmitInv, HistoryStaysAccepted, UniqueIds, Elements

\* A scan begins with nothing read and nothing missing.
LEMMA BeginStep ==
    ASSUME IInv, NEW s \in Sources, Begin(s)
    PROVE  IInv'
  <1> DEFINE todo == {f \in Files : files[f] # Absent}
             r == [NoRun EXCEPT !.source = s, !.units = registry, !.todo = todo]
  <1>1. /\ UNCHANGED <<registry, files, log>> /\ pc' = "read" /\ run' = r
    BY DEF Begin, Goto, environment, durable
  <1>2. todo \subseteq Files
    OBVIOUS
  <1> HIDE DEF todo
  <1>3. r.source = s /\ r.units = registry /\ r.snapshot = [f \in Files |-> Absent]
    <2>1. NoRun.snapshot = [f \in Files |-> Absent] /\ NoRun.missing = {}
      BY DEF NoRun
    <2>2. r.source = s /\ r.units = registry /\ r.snapshot = NoRun.snapshot
      BY RunFields
    <2> HIDE DEF r
    <2> QED  BY <2>1, <2>2
  <1>4. /\ [f \in Files |-> Absent] \in Directories
        /\ [f \in Files |-> Absent] \in [Files -> Readable]
    BY DEF Directories, Readable
  <1>5. r \in Runs
    <2>1. NoRun \in Runs /\ s \in Sources \union {NoSource} /\ registry \in Registries
      BY RunFields DEF IInv, TypeInv
    <2> QED  BY <1>2, <2>1 DEF Runs
  <1> HIDE DEF r
  <1>6. Snapshot(r) \in Scans
    BY <1>3, <1>4 DEF Snapshot, Scans, IInv, TypeInv
  <1> QED
    BY <1>1, <1>5, <1>6
       DEF IInv, TypeInv, EmitInv, HistoryStaysAccepted, UniqueIds, Elements, Snapshot

\* A file that was read can be counted.
LEMMA ReadStep ==
    ASSUME IInv, ReadFile
    PROVE  IInv'
  <1>1. PICK f \in FirstFile(run.todo) :
            IF files[f] \in Rejected \union {Absent} THEN Stop
            ELSE Goto("read", [run EXCEPT !.todo = @ \ {f}, !.snapshot[f] = files[f]])
    BY DEF ReadFile
  <1> DEFINE r == [run EXCEPT !.todo = @ \ {f}, !.snapshot[f] = files[f]]
  <1>2. /\ UNCHANGED <<registry, files, log>> /\ pc = "read"
        /\ \/ pc' = "idle" /\ run' = NoRun
           \/ pc' = "read" /\ run' = r /\ files[f] \notin Rejected \union {Absent}
    BY <1>1 DEF ReadFile, Goto, Stop, environment, durable
  <1>3. CASE pc' = "idle" /\ run' = NoRun
    BY <1>2, <1>3, Stopped DEF IInv, TypeInv
  <1>4. CASE pc' = "read" /\ run' = r /\ files[f] \notin Rejected \union {Absent}
    <2>1. /\ run.source \in Sources /\ run.units \in Registries
          /\ run.snapshot \in [Files -> Readable]
      BY <1>2 DEF IInv, TypeInv, Snapshot, Scans
    <2>2. f \in Files /\ run \in Runs /\ run.todo \subseteq Files /\ run.missing \subseteq Encounter
      BY RunFields DEF FirstFile, IInv, TypeInv
    <2> DEFINE d == [run.snapshot EXCEPT ![f] = files[f]]
    <2>3. files[f] \in Readable
      BY <1>4, <2>2 DEF IInv, TypeInv, Directories, Readable
    <2>4. d \in [Files -> Readable]
      BY <2>1, <2>3
    <2>5. d \in Directories
      BY <2>4 DEF Readable, Directories
    <2> HIDE DEF d
    <2>6. r = [run EXCEPT !.todo = run.todo \ {f}, !.snapshot = d]
      BY <2>2, RunFields DEF d
    <2>7. r.source = run.source /\ r.units = run.units /\ r.snapshot = d
      BY <2>2, <2>6, RunFields
    <2>8. r \in Runs
      <3>1. run.todo \ {f} \subseteq Files
        BY <2>2
      <3> HIDE DEF r
      <3> QED  BY <2>2, <2>5, <2>6, <3>1 DEF Runs
    <2> HIDE DEF r
    <2>9. Snapshot(r) \in Scans
      BY <2>1, <2>4, <2>7 DEF Snapshot, Scans
    <2> QED
      BY <1>2, <1>4, <2>8, <2>9 DEF IInv, TypeInv, EmitInv, HistoryStaysAccepted, UniqueIds,
         Elements
  <1> QED  BY <1>2, <1>3, <1>4

\* The preflight establishes what emission relies on.
LEMMA StartStep ==
    ASSUME IInv, StartEmission
    PROVE  IInv'
  <1> DEFINE r == [run EXCEPT !.missing = Missing(run)]
  <1>1. /\ UNCHANGED <<registry, files, log>> /\ pc = "read"
        /\ \/ pc' = "idle" /\ run' = NoRun
           \/ pc' = "emit" /\ run' = r /\ Preflight(run)
    BY DEF StartEmission, Goto, Stop, environment, durable
  <1>2. CASE pc' = "idle" /\ run' = NoRun
    BY <1>1, <1>2, Stopped DEF IInv, TypeInv
  <1>3. CASE pc' = "emit" /\ run' = r /\ Preflight(run)
    <2>1. Snapshot(run) \in Scans
      BY <1>1 DEF IInv, TypeInv
    <2>2. run \in Runs
      BY DEF IInv, TypeInv
    <2>3. /\ r.source = run.source /\ r.units = run.units /\ r.snapshot = run.snapshot
          /\ r.missing = Missing(run)
          /\ r = [source |-> run.source, units |-> run.units, todo |-> run.todo,
                  snapshot |-> run.snapshot, missing |-> Missing(run)]
      BY <2>2, RunFields
    <2> HIDE DEF r
    <2>4. Plans(r) = Plans(run)
      BY <2>3, PlanOfSnapshot
    <2>5. Snapshot(r) = Snapshot(run)
      BY <2>3 DEF Snapshot
    <2>6. TypeInv'
      <3>1. Missing(run) \subseteq Encounter
        BY <2>1, PlansArePlanned DEF Missing
      <3>2. r \in Runs
        BY <2>2, <2>3, <3>1, RunFields DEF Runs
      <3> QED  BY <1>1, <1>3, <2>1, <2>5, <3>2 DEF IInv, TypeInv, Snapshot
    <2>7. HistoryStaysAccepted' /\ Elements(log)' = Elements(log)
      BY <1>1 DEF IInv, HistoryStaysAccepted, UniqueIds, Elements
    <2>8. EmitInv'
      BY <1>1, <1>3, <2>3, <2>4 DEF EmitInv, Preflight, HistoryFits, Conflict, Missing,
         UniqueIds, Elements, Plans, Listed, Plan
    <2> QED  BY <2>6, <2>7, <2>8 DEF IInv
  <1> QED  BY <1>1, <1>2, <1>3

\* An append, whole or failed, keeps what emission relies on.
LEMMA AppendStep ==
    ASSUME IInv, AppendEncounter
    PROVE  IInv'
  <1>1. pc = "emit" /\ UNCHANGED <<registry, files>>
    BY DEF AppendEncounter, environment
  <1>2. PICK p \in run.missing :
            \/ /\ log' = Append(log, p)
               /\ pc' = "emit" /\ run' = [run EXCEPT !.missing = @ \ {p}]
            \/ log' \in {log, Append(log, p)} /\ pc' = "idle" /\ run' = NoRun
    BY DEF AppendEncounter, First, Goto, Stop
  <1>3. CASE log' = Append(log, p) /\ pc' = "idle" /\ run' = NoRun
    <2>1. log' \in Seq(Planned) /\ HistoryStaysAccepted'
      BY <1>1, <1>3, MissingContinues
    <2> QED  BY <1>1, <1>3, <2>1, RunFields DEF IInv, TypeInv, EmitInv
  <1>4. CASE log' = log /\ pc' = "idle" /\ run' = NoRun
    BY <1>1, <1>4, Stopped DEF IInv, TypeInv
  <1>5. CASE /\ log' = Append(log, p)
             /\ pc' = "emit" /\ run' = [run EXCEPT !.missing = @ \ {p}]
    <2> DEFINE r == [run EXCEPT !.missing = @ \ {p}]
    <2>0. run \in Runs
      BY DEF IInv, TypeInv
    <2>1. /\ r.source = run.source /\ r.units = run.units /\ r.snapshot = run.snapshot
          /\ r.missing = run.missing \ {p}
          /\ r = [source |-> run.source, units |-> run.units, todo |-> run.todo,
                  snapshot |-> run.snapshot, missing |-> run.missing \ {p}]
      BY <2>0, RunFields
    <2>2. run' = r
      BY <1>5
    <2> HIDE DEF r
    <2>10. r \in Runs
      <3>1. run.missing \ {p} \subseteq Encounter
        BY <2>0, RunFields
      <3> QED  BY <2>0, <2>1, <3>1, RunFields DEF Runs
    <2>3. Plans(r) = Plans(run) /\ Plans(run)' = Plans(r)
      BY <2>1, <2>2, PlanOfSnapshot DEF Plans, Listed, Plan
    <2>4. /\ log' \in Seq(Planned)
          /\ HistoryStaysAccepted' /\ UniqueIds'
          /\ Elements(log)' = Elements(log) \union {p}
          /\ \A g \in Plans(run), e \in Elements(log)' : SameId(e, g) => e = g
          /\ \A e \in Elements(log)' : e.source = run.source => e.snapshot = run.snapshot
      BY <1>1, <1>5, MissingContinues
    <2>5. TypeInv'
      BY <1>1, <1>5, <2>10, <2>1, <2>2, <2>4 DEF IInv, TypeInv, Snapshot
    <2>6. HistoryFits(run)' /\ \A g \in Plans(run)' : ~Conflict(run, g)'
      BY <2>1, <2>2, <2>3, <2>4 DEF HistoryFits, Conflict
    <2>7. /\ Plans(run)' \subseteq Elements(log)' \union run.missing'
          /\ run.missing' \subseteq Plans(run)' \ Elements(log)'
      BY <1>1, <2>1, <2>2, <2>3, <2>4 DEF IInv, EmitInv
    <2> QED  BY <2>4, <2>5, <2>6, <2>7 DEF IInv, EmitInv
  <1> QED  BY <1>2, <1>3, <1>4, <1>5

\* Edits of Units and files touch neither the log nor the scan.
LEMMA EditStep ==
    ASSUME IInv,
           \/ \E u \in Units, l \in Lemmas \union {Absent} : EditUnit(u, l)
           \/ \E f \in Files, c \in Contents \union {Absent} : EditFile(f, c)
    PROVE  IInv'
  <1>1. registry' \in Registries /\ files' \in Directories
    BY DEF EditUnit, EditFile, IInv, TypeInv, Registries, Directories
  <1>2. UNCHANGED <<log, pc, run>>
    BY DEF EditUnit, EditFile, durable
  <1> QED
    BY <1>1, <1>2 DEF IInv, TypeInv, EmitInv, HistoryStaysAccepted, UniqueIds, Elements,
       HistoryFits, Conflict, Snapshot, Plans, Listed, Plan

\* The invariant holds first, is kept, and so holds always.
LEMMA InitIInv == Init => IInv
  <1> SUFFICES ASSUME Init PROVE IInv
    OBVIOUS
  <1>1. files \in Directories
    BY DEF Init, Directories, Readable
  <1>2. log \in Seq(Planned) /\ Elements(log) = {} /\ DOMAIN log = {}
    BY DEF Init, Elements
  <1> QED
    BY <1>1, <1>2, RunFields
       DEF Init, IInv, TypeInv, EmitInv, HistoryStaysAccepted, UniqueIds

LEMMA NextIInv == IInv /\ [Next]_vars => IInv'
  <1>1. ASSUME IInv, Report \/ Crash PROVE IInv'
    <2>1. UNCHANGED <<registry, files, log>> /\ pc' = "idle" /\ run' = NoRun
      BY <1>1 DEF Report, Crash, Stop, Goto, environment, durable
    <2> QED  BY <1>1, <2>1, Stopped DEF IInv, TypeInv
  <1>2. ASSUME IInv, UNCHANGED vars PROVE IInv'
    <2>1. UNCHANGED <<registry, files, log, pc, run>>
      BY <1>2 DEF vars, environment, durable
    <2> QED
      BY <1>2, <2>1 DEF IInv, TypeInv, EmitInv, HistoryStaysAccepted, UniqueIds, Elements,
         HistoryFits, Conflict, Snapshot, Plans, Listed, Plan
  <1> QED
    BY <1>1, <1>2, BeginStep, ReadStep, StartStep, AppendStep, EditStep DEF Next, Scan

LEMMA IInvHolds == Spec => []IInv
  BY InitIInv, NextIInv, PTL DEF Spec

\* The counters of edits and faults stay within their bounds.
LEMMA BoundsHold == Spec => []Bounds
  <1>1. Init => Bounds
    <2>1. Init => torn = FALSE /\ edits = 0 /\ faults = 0
      BY DEF Init
    <2>2. MaxEdits \in Nat /\ MaxFaults \in Nat
      BY CorpusAssumption
    <2>3. 0 \in 0 .. MaxEdits /\ 0 \in 0 .. MaxFaults
      BY <2>2
    <2> QED  BY <2>1, <2>3 DEF Bounds
  <1>2. Bounds /\ [Next]_vars => Bounds'
    <2> SUFFICES ASSUME Bounds, [Next]_vars PROVE Bounds'
      OBVIOUS
    <2>1. edits' = edits \/ (edits < MaxEdits /\ edits' = edits + 1)
      BY DEF Next, Scan, Begin, ReadFile, StartEmission, AppendEncounter, Report, Crash,
         EditUnit, EditFile, vars
    <2>2. faults' = faults \/ (faults < MaxFaults /\ faults' = faults + 1)
      BY DEF Next, Scan, Begin, ReadFile, StartEmission, AppendEncounter, Report, Crash,
         EditUnit, EditFile, vars, Fault
    <2>3. torn' = torn \/ torn' \in BOOLEAN
      BY DEF Next, Scan, Begin, ReadFile, StartEmission, AppendEncounter, Report, Crash,
         EditUnit, EditFile, vars, durable
    <2> QED  BY <2>1, <2>2, <2>3, CorpusAssumption DEF Bounds
  <1> QED  BY <1>1, <1>2, PTL DEF Spec

\* Encounters are stored with a lemma and a count, and a scan has nothing but
\* files to read and encounters to store (build_encounter_plans).
THEOREM CorpusTypeCorrect == Spec => []TypeOK
  <1>1. IInv /\ Bounds => TypeOK
    <2> SUFFICES ASSUME IInv, Bounds PROVE TypeOK
      OBVIOUS
    <2>1. log \in Seq(Planned) /\ Planned \subseteq Encounter
      BY PlansAreEncounters DEF IInv, TypeInv, Planned
    <2>2. log \in Seq(Encounter)
      BY <2>1
    <2> QED  BY <2>2 DEF IInv, TypeInv, Bounds, TypeOK, Runs
  <1> QED  BY <1>1, IInvHolds, BoundsHold, PTL

\* Every count that is stored is the most that the blocks of its files have of
\* its lemma, whatever the texts are (count_unit_occurrences, D19).
THEOREM CountsAreExact == Spec => []CountsAreMaximal
  <1>1. IInv => CountsAreMaximal
    <2> SUFFICES ASSUME IInv, NEW e \in Elements(log)
                 PROVE  e.count = MostInMonth[e.snapshot][e.lemma]
      BY DEF CountsAreMaximal
    <2>1. e \in Planned
      BY DEF Elements, IInv, TypeInv
    <2> QED  BY <2>1, PlansAreEncounters DEF Planned
  <1> QED  BY <1>1, IInvHolds, PTL

\* Whatever was edited, interrupted and repeated, the next scan finds no id
\* twice and one snapshot per source (_validated_t10_history).
THEOREM HistoryAccepted == Spec => []HistoryStaysAccepted
  <1>1. IInv => HistoryStaysAccepted
    BY DEF IInv
  <1> QED  BY <1>1, IInvHolds, PTL

\* An emission that ends has every plan in the log, appended or there before
\* (emit_scan).
THEOREM ReportsTrue == Spec => []ReportsAreTrue
  <1>1. IInv => ReportsAreTrue
    BY DEF IInv, EmitInv, ReportsAreTrue
  <1> QED  BY <1>1, IInvHolds, PTL

\* No record is added to a log that contradicts some plan (_preflight_emission).
THEOREM ConflictsStop == Spec => ConflictsAppendNothing
  <1>1. IInv /\ [Next]_vars =>
          [log' # log => \A p \in Plans(run), e \in Elements(log') : SameId(e, p) => e = p]_vars
    <2> SUFFICES ASSUME IInv, Next, log' # log
                 PROVE  \A p \in Plans(run), e \in Elements(log') : SameId(e, p) => e = p
      BY DEF vars, durable
    <2>1. AppendEncounter
      BY DEF Next, Scan, Begin, ReadFile, StartEmission, Report, Crash, EditUnit, EditFile,
             durable
    <2>2. pc = "emit" /\ \E p \in run.missing : log' = Append(log, p)
      BY <2>1 DEF AppendEncounter, First
    <2> QED  BY <2>2, MissingContinues DEF Elements
  <1> QED  BY <1>1, IInvHolds, PTL DEF Spec, ConflictsAppendNothing

-----------------------------------------------------------------------------
(* Corpus implements EncounterLedger *)

\* The running scan as the ledger knows it.
Latched == IF pc = "idle" THEN {} ELSE {[source |-> run.source, units |-> run.units]}

\* A missing plan of the running scan is one the ledger may store.
LEMMA AppendStores ==
    ASSUME IInv, pc = "emit", NEW p \in run.missing, log' = Append(log, p),
           Latched' \in {Latched, {}}, UNCHANGED registry
    PROVE  \E u \in Units, d \in [Files -> Readable] : Ledger!Store(u, d)
  <1> DEFINE r == [source |-> run.source, units |-> run.units]
             u == p.unit
             d == run.snapshot
  <1>1. /\ Snapshot(run) \in Scans /\ p \in Plans(run) /\ p \notin Elements(log)
        /\ \A e \in Elements(log) : e.source = run.source => e.snapshot = d
        /\ \A q \in Plans(run), e \in Elements(log) : SameId(e, q) => e = q
    BY DEF IInv, TypeInv, EmitInv, HistoryFits, Conflict
  <1>2. /\ p = Plan(run, u) /\ u \in Units /\ run.units[u] # Absent
        /\ p.source = run.source /\ p.lemma = run.units[u] /\ p.snapshot = d
    BY <1>1 DEF Plans, Listed, Plan
  <1>3. d \in [Files -> Readable] /\ p.count = MostInMonth[d][run.units[u]]
    <2>1. Plans(run) = Plans(Snapshot(run))
      BY PlanOfSnapshot DEF Snapshot
    <2> QED  BY <1>1, <1>2, <2>1, PlansAreEncounters
  <1>4. r \in Latched
    BY DEF Latched
  <1>5. Ledger!Consistent(r, u, d)
    <2> SUFFICES ASSUME NEW e \in Elements(log), e.source = run.source
                 PROVE  e.unit # u /\ e.snapshot = d /\ run.units[e.unit] \in {e.lemma, Absent}
      BY DEF Ledger!Consistent
    <2>1. e.unit # u
      BY <1>1, <1>2 DEF SameId
    <2>2. e.unit \in Units
      <3>1. log \in Seq(Planned)
        BY DEF IInv, TypeInv
      <3>2. e \in Planned
        BY <3>1 DEF Elements
      <3> QED  BY <3>2, PlansAreEncounters DEF Planned, Encounter
    <2>3. ASSUME run.units[e.unit] # Absent
          PROVE  run.units[e.unit] = e.lemma
      <3> DEFINE q == Plan(run, e.unit)
      <3>1. q \in Plans(run)
        BY <2>2, <2>3 DEF Plans, Listed
      <3>2. q.unit = e.unit /\ q.source = run.source /\ q.lemma = run.units[e.unit]
        BY DEF Plan
      <3> HIDE DEF q
      <3>3. e = q
        BY <1>1, <3>1, <3>2 DEF SameId
      <3> QED  BY <3>2, <3>3
    <2> QED  BY <1>1, <2>1, <2>3
  <1>6. Elements(log)' = Elements(log) \union
            {[unit |-> u, source |-> r.source, lemma |-> r.units[u],
              count |-> MostInMonth[d][r.units[u]], snapshot |-> d]}
    <2>1. Elements(log)' = Elements(log) \union {p}
      BY MissingContinues
    <2>2. p = [unit |-> u, source |-> run.source, lemma |-> run.units[u],
               count |-> p.count, snapshot |-> d]
      BY <1>2 DEF Plan
    <2> QED  BY <1>3, <2>1, <2>2
  <1> HIDE DEF r, u, d
  <1>7. Ledger!Store(u, d)
    <2>1. r.units[u] # Absent
      BY <1>2 DEF r
    <2> QED  BY <1>4, <1>5, <1>6, <2>1 DEF Ledger!Store, Latched
  <1> QED  BY <1>2, <1>3, <1>7

LEMMA StepKeepsLedger == IInv /\ [Next]_vars => [Ledger!Next]_Ledger!vars
  <1> SUFFICES ASSUME IInv, [Next]_vars
               PROVE  [Ledger!Next]_Ledger!vars
    OBVIOUS
  <1>1. ASSUME UNCHANGED <<registry, log>>, Latched' = {}
        PROVE  Ledger!End
    BY <1>1 DEF Ledger!End, Latched, Elements
  <1>2. ASSUME UNCHANGED <<registry, log>>, Latched' = Latched
        PROVE  UNCHANGED Ledger!vars
    BY <1>2 DEF Ledger!vars, Latched, Elements
  <1>3. CASE \E s \in Sources : Begin(s)
    <2>1. PICK s \in Sources : Begin(s)
      BY <1>3
    <2> DEFINE todo == {f \in Files : files[f] # Absent}
               r == [NoRun EXCEPT !.source = s, !.units = registry, !.todo = todo]
    <2>2. r.source = s /\ r.units = registry
      BY RunFields
    <2>3. pc = "idle" /\ pc' = "read" /\ run' = r /\ UNCHANGED <<registry, log>>
      BY <2>1 DEF Begin, Goto, environment, durable
    <2> HIDE DEF r
    <2>4. Latched = {} /\ Latched' = {[source |-> s, units |-> registry]}
      BY <2>2, <2>3 DEF Latched
    <2>5. Ledger!Begin(s)
      BY <2>3, <2>4 DEF Ledger!Begin, Latched, Elements
    <2> QED  BY <2>5 DEF Ledger!Next
  <1>4. CASE ReadFile
    <2>1. PICK f \in FirstFile(run.todo) :
              IF files[f] \in Rejected \union {Absent} THEN Stop
              ELSE Goto("read", [run EXCEPT !.todo = @ \ {f}, !.snapshot[f] = files[f]])
      BY <1>4 DEF ReadFile
    <2> DEFINE d == [run.snapshot EXCEPT ![f] = files[f]]
               r == [run EXCEPT !.todo = run.todo \ {f}, !.snapshot = d]
    <2>2. run \in Runs
      BY DEF IInv, TypeInv
    <2>3. r.source = run.source /\ r.units = run.units
      BY <2>2, RunFields
    <2>4. [run EXCEPT !.todo = @ \ {f}, !.snapshot[f] = files[f]] = r
      BY <2>2, RunFields
    <2> HIDE DEF r
    <2>5. /\ UNCHANGED <<registry, log>> /\ pc = "read"
          /\ pc' = "idle" \/ (pc' = "read" /\ run' = r)
      BY <1>4, <2>1, <2>4 DEF ReadFile, Goto, Stop, environment, durable
    <2>6. Latched' = {} \/ Latched' = Latched
      BY <2>3, <2>5 DEF Latched
    <2> QED  BY <1>1, <1>2, <2>5, <2>6 DEF Ledger!Next
  <1>5. CASE StartEmission
    <2> DEFINE r == [run EXCEPT !.missing = Missing(run)]
    <2>1. run \in Runs
      BY DEF IInv, TypeInv
    <2>2. r.source = run.source /\ r.units = run.units
      BY <2>1, RunFields
    <2>3. /\ UNCHANGED <<registry, log>> /\ pc = "read"
          /\ pc' = "idle" \/ (pc' = "emit" /\ run' = r)
      BY <1>5 DEF StartEmission, Goto, Stop, environment, durable
    <2> HIDE DEF r
    <2>4. Latched' = {} \/ Latched' = Latched
      BY <2>2, <2>3 DEF Latched
    <2> QED  BY <1>1, <1>2, <2>3, <2>4 DEF Ledger!Next
  <1>6. CASE AppendEncounter
    <2>1. PICK p \in run.missing :
              \/ /\ log' = Append(log, p)
                 /\ \/ pc' = "emit" /\ run' = [run EXCEPT !.missing = run.missing \ {p}]
                    \/ pc' = "idle"
              \/ log' = log /\ pc' = "idle"
      BY <1>6 DEF AppendEncounter, First, Goto, Stop
    <2> DEFINE r == [run EXCEPT !.missing = run.missing \ {p}]
    <2>2. pc = "emit" /\ UNCHANGED registry /\ run \in Runs
      BY <1>6 DEF AppendEncounter, environment, IInv, TypeInv
    <2>3. r.source = run.source /\ r.units = run.units
      BY <2>2, RunFields
    <2> HIDE DEF r
    <2>4. \/ log' = Append(log, p) /\ (pc' = "idle" \/ (pc' = "emit" /\ run' = r))
          \/ log' = log /\ pc' = "idle"
      BY <2>1 DEF r
    <2>5. CASE log' = log /\ pc' = "idle"
      BY <1>1, <2>2, <2>5 DEF Latched, Ledger!Next
    <2>6. CASE log' = Append(log, p) /\ (pc' = "idle" \/ (pc' = "emit" /\ run' = r))
      <3>1. Latched' \in {Latched, {}}
        BY <2>2, <2>3, <2>6 DEF Latched
      <3> QED  BY <2>2, <2>6, <3>1, AppendStores DEF Ledger!Next
    <2> QED  BY <2>4, <2>5, <2>6
  <1>7. CASE Report \/ Crash
    <2>1. pc' = "idle" /\ UNCHANGED <<registry, log>>
      BY <1>7 DEF Report, Crash, Stop, Goto, environment, durable
    <2> QED  BY <1>1, <2>1 DEF Latched, Ledger!Next
  <1>8. CASE \E u \in Units, l \in Lemmas \union {Absent} : EditUnit(u, l)
    <2>1. PICK u \in Units, l \in Lemmas \union {Absent} : EditUnit(u, l)
      BY <1>8
    <2>2. Ledger!Edit(u, l)
      BY <2>1 DEF EditUnit, Ledger!Edit, durable, Elements
    <2> QED  BY <2>2 DEF Ledger!Next
  <1>9. CASE \/ \E f \in Files, c \in Contents \union {Absent} : EditFile(f, c)
             \/ UNCHANGED vars
    <2>1. UNCHANGED <<registry, log, pc, run>>
      BY <1>9 DEF EditFile, vars, environment, durable
    <2> QED  BY <1>2, <2>1 DEF Latched
  <1> QED  BY <1>3, <1>4, <1>5, <1>6, <1>7, <1>8, <1>9 DEF Next, Scan

\* Files read one by one, encounters appended one by one, scans cut short and
\* repeated: seen from outside, each scan takes the registry over once and adds
\* only best counts that contradict nothing (read_registry to emit_scan).
THEOREM LedgerImplemented == Spec => ImplementsLedger
  <1>1. Init => Ledger!Init
    <2> SUFFICES ASSUME Init PROVE Ledger!Init
      OBVIOUS
    <2>1. registry \in [Units -> Lemmas \union {Absent}] /\ pc = "idle"
      BY DEF Init, Registries
    <2>2. Elements(log) = {}
      BY DEF Init, Elements
    <2> QED  BY <2>1, <2>2 DEF Ledger!Init
  <1> QED  BY <1>1, StepKeepsLedger, IInvHolds, PTL DEF Spec, ImplementsLedger, Ledger!Spec
=============================================================================
