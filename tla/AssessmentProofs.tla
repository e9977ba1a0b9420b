-------------------------- MODULE AssessmentProofs --------------------------
(***************************************************************************)
(* Theorems about Assessment for any attempts, stimuli, responses, grades   *)
(* and faults.  The inductive invariant:                                    *)
(*                                                                          *)
(*   ControlInv -- what a running call found out still holds when it writes *)
(*   HistoryInv -- HistoriesStayAccepted, GradedSpeechWasTranscribed, and   *)
(*                 a verdict says novel only of a novel attempt             *)
(*                                                                          *)
(* and every step of the system adds at most one record to one file, for    *)
(* which the checks of the readers have been made: DurableStep.  Two more   *)
(* facts rest on it: SaidInv, what a SPEAK record says is what a later call *)
(* plans again, so that a verdict cut in half can be completed; and         *)
(* ShownInv, an attempt whose permit was consumed has been shown, so that   *)
(* Assessment implements AttemptLife.                                       *)
(***************************************************************************)
EXTENDS Assessment, SequenceTheorems, TLAPS

Elements(s) == {s[i] : i \in DOMAIN s}

ControlInv ==
    /\ pc # "idle" => op.att \in Attempts
    /\ pc = "issue" => op.att \in Reserved
    /\ pc = "receipt" =>
          Unanswered(op.att) /\ op.ref \in artifacts /\ permits[op.att] = "consumed"
    /\ pc \in {"receipt", "companion"} => torn \intersect CoreFiles = {}
    /\ \A a \in Attempts : permits[a] # "none" => a \in Reserved
    /\ shown \subseteq Reserved
    /\ \A a \in Attempts : Novel(a) => a \in fresh

\* A grade on S rests on an approved transcript of the answer it refers to.
Backed(e) ==
    e.att \in Speech /\ e.outcome \in Grades =>
        [att |-> e.att, ref |-> e.ref, status |-> "SUCCESS"] \in Elements(transcriptions)

HonestlyNovel(e) == e.novel => Novel(e.att)

HistoryInv ==
    /\ HistoriesStayAccepted
    /\ \A e \in Elements(events) : Backed(e) /\ HonestlyNovel(e)

IInv == TypeOK /\ ControlInv /\ HistoryInv

\* The companion of a spoken JUDGE is there.
Accompanied(e) ==
    e.type = "JUDGE" /\ e.att \in Speech =>
        \E s \in Recorded("SPEAK", e.att) : s.outcome = e.outcome /\ s.ref = e.ref

\* What a step may do to files and artifacts.
DurableStep ==
    \/ \E a \in Attempts \ Reserved :
          /\ exposure' = Append(exposure, a)
          /\ UNCHANGED <<captures, dispositions, transcriptions, artifacts, events>>
    \/ \E a \in Attempts, r \in artifacts :
          /\ Unanswered(a)
          /\ captures' = Append(captures, [att |-> a, ref |-> r])
          /\ UNCHANGED <<exposure, dispositions, transcriptions, artifacts, events>>
    \/ \E a \in Attempts \ Speech, code \in Codes :
          /\ Unanswered(a)
          /\ dispositions' = Append(dispositions, [att |-> a, code |-> code])
          /\ UNCHANGED <<exposure, captures, transcriptions, artifacts, events>>
    \/ \E c \in Elements(captures), status \in {"SUCCESS", "FAILED"} :
          /\ c.att \in Speech /\ ~Transcribed(c.att)
          /\ transcriptions' =
                Append(transcriptions, [att |-> c.att, ref |-> c.ref, status |-> status])
          /\ UNCHANGED <<exposure, captures, dispositions, artifacts, events>>
    \/ \E e \in Event :
          /\ Recorded(e.type, e.att) = {} /\ Corresponds(e) /\ Accompanied(e)
          /\ Backed(e) /\ HonestlyNovel(e)
          /\ events' = Append(events, e)
          /\ UNCHANGED <<exposure, captures, dispositions, transcriptions, artifacts>>
    \/ /\ artifacts \subseteq artifacts'
       /\ UNCHANGED <<exposure, captures, dispositions, transcriptions, events>>

-----------------------------------------------------------------------------
LEMMA AppendedElements ==
    ASSUME NEW S, NEW s \in Seq(S), NEW e \in S
    PROVE  /\ Append(s, e) \in Seq(S)
           /\ Elements(Append(s, e)) = Elements(s) \union {e}
           /\ DOMAIN Append(s, e) = DOMAIN s \union {Len(s) + 1}
           /\ Len(s) + 1 \notin DOMAIN s
           /\ \A i \in DOMAIN s : Append(s, e)[i] = s[i]
           /\ Append(s, e)[Len(s) + 1] = e
           /\ Elements(s) \subseteq S
  <1>1. /\ Append(s, e) \in Seq(S) /\ DOMAIN s = 1 .. Len(s) /\ Len(s) \in Nat
        /\ DOMAIN Append(s, e) = 1 .. Len(s) + 1
        /\ \A i \in 1 .. Len(s) : Append(s, e)[i] = s[i]
        /\ Append(s, e)[Len(s) + 1] = e
    OBVIOUS
  <1>2. DOMAIN Append(s, e) = DOMAIN s \union {Len(s) + 1} /\ Len(s) + 1 \notin DOMAIN s
    BY <1>1
  <1>3. \A i \in DOMAIN s : s[i] \in S
    BY <1>1
  <1> QED  BY <1>1, <1>2, <1>3 DEF Elements

\* The sets of attempts in terms of the ledgers' elements.
LEMMA InElements ==
    /\ Reserved = Elements(exposure)
    /\ Captured = {c.att : c \in Elements(captures)}
    /\ Disposed = {d.att : d \in Elements(dispositions)}
    /\ \A a, status : TranscribedAs(a, status) <=>
          \E t \in Elements(transcriptions) : t.att = a /\ t.status = status
    /\ \A type, a : Recorded(type, a) = {e \in Elements(events) : e.type = type /\ e.att = a}
    /\ Captured' = {c.att : c \in Elements(captures)'}
    /\ Disposed' = {d.att : d \in Elements(dispositions)'}
    /\ \A type, a : Recorded(type, a)' = {e \in Elements(events)' : e.type = type /\ e.att = a}
  BY DEF Elements, Reserved, Captured, Disposed, TranscribedAs, Recorded

\* One record more of an attempt that has none is still one per attempt.
LEMMA AppendedOnce ==
    ASSUME NEW S, NEW s \in Seq(S), NEW e \in S, OnePerAttempt(s),
           \A d \in Elements(s) : d.att # e.att
    PROVE  OnePerAttempt(Append(s, e))
  <1>1. \A i \in DOMAIN s : s[i] \in Elements(s)
    BY DEF Elements
  <1> QED  BY <1>1, AppendedElements DEF OnePerAttempt

LEMMA OneRecord ==
    ASSUME NEW s, OnePerAttempt(s), NEW c \in Elements(s), NEW d \in Elements(s), c.att = d.att
    PROVE  c = d
  BY DEF OnePerAttempt, Elements

\* Reserving another attempt does not make a reserved one novel or known.
LEMMA NoveltyIsStable ==
    ASSUME exposure \in Seq(Attempts), NEW b \in Attempts \ Reserved,
           exposure' = Append(exposure, b), NEW a \in Reserved
    PROVE  Novel(a)' <=> Novel(a)
  <1>1. /\ DOMAIN exposure' = DOMAIN exposure \union {Len(exposure) + 1}
        /\ \A i \in DOMAIN exposure : exposure'[i] = exposure[i]
        /\ exposure'[Len(exposure) + 1] = b
    BY AppendedElements
  <1>2. a # b
    OBVIOUS
  <1>3. \A i \in DOMAIN exposure : 1 .. i - 1 \subseteq DOMAIN exposure
    OBVIOUS
  <1>4. \A i \in DOMAIN exposure : \A j \in 1 .. i - 1 : exposure'[j] = exposure[j]
    BY <1>1, <1>3
  <1> DEFINE Before(i) == \A j \in 1 .. i - 1 : Stimulus[exposure[j]] # Stimulus[a]
             After(i) == \A j \in 1 .. i - 1 : Stimulus[exposure'[j]] # Stimulus[a]
  <1>5. \A i \in DOMAIN exposure : After(i) <=> Before(i)
    BY <1>4
  <1>6. Novel(a) <=> \E i \in DOMAIN exposure : exposure[i] = a /\ Before(i)
    BY DEF Novel
  <1>7. Novel(a)' <=> \E i \in DOMAIN exposure' : exposure'[i] = a /\ After(i)
    BY DEF Novel
  <1> HIDE DEF Before, After
  <1> QED  BY <1>1, <1>2, <1>5, <1>6, <1>7

\* An attempt whose stimulus somebody reserved before is not novel.
LEMMA KnownIsNotNovel ==
    ASSUME exposure \in Seq(Attempts), NEW a \in Attempts \ Reserved,
           exposure' = Append(exposure, a), Novel(a)'
    PROVE  \A b \in Reserved : Stimulus[b] # Stimulus[a]
  <1>1. /\ DOMAIN exposure' = DOMAIN exposure \union {Len(exposure) + 1}
        /\ \A i \in DOMAIN exposure : exposure'[i] = exposure[i]
        /\ DOMAIN exposure = 1 .. Len(exposure) /\ Len(exposure) \in Nat
    BY AppendedElements
  <1>2. PICK i \in DOMAIN exposure' :
            exposure'[i] = a /\ \A j \in 1 .. i - 1 : Stimulus[exposure'[j]] # Stimulus[a]
    BY DEF Novel
  <1>3. i = Len(exposure) + 1
    BY <1>1, <1>2 DEF Reserved
  <1>4. \A j \in DOMAIN exposure : Stimulus[exposure[j]] # Stimulus[a]
    BY <1>1, <1>2, <1>3
  <1> QED  BY <1>4 DEF Reserved

-----------------------------------------------------------------------------
(* One record more keeps the histories accepted *)

\* A record stays backed while the ledgers grow without touching its attempt.
LEMMA StillCorresponds ==
    ASSUME NEW e, Corresponds(e),
           Reserved \subseteq Reserved',
           Elements(captures) \subseteq Elements(captures)',
           Elements(dispositions) \subseteq Elements(dispositions)',
           e.att \in Captured => (e.att \in Disposed' <=> e.att \in Disposed),
           e.att \in Disposed => (e.att \in Captured' <=> e.att \in Captured),
           e.att \in Reserved => (Novel(e.att)' <=> Novel(e.att))
    PROVE  Corresponds(e)'
  <1>1. e.att \in Reserved /\ e.att \in Reserved'
    BY DEF Corresponds
  <1>2. /\ e.type = "SPEAK" => e.att \in Speech
        /\ e.type = "JUDGE" /\ e.outcome \in Grades => e.novel = Novel(e.att)'
    <2>1. Novel(e.att)' = Novel(e.att)
      BY <1>1 DEF Novel
    <2>2. /\ e.type = "SPEAK" => e.att \in Speech
          /\ e.type = "JUDGE" /\ e.outcome \in Grades => e.novel = Novel(e.att)
      BY DEF Corresponds
    <2> QED  BY <2>1, <2>2
  <1>3. CASE e.ref # NoResponse
    <2>1. [att |-> e.att, ref |-> e.ref] \in Elements(captures) /\ e.att \notin Disposed
      BY <1>3 DEF Corresponds, Elements
    <2>2. e.att \in Captured
      BY <2>1, InElements
    <2>3. [att |-> e.att, ref |-> e.ref] \in {captures'[i] : i \in DOMAIN captures'}
          /\ e.att \notin Disposed'
      BY <2>1, <2>2 DEF Elements
    <2> QED  BY <1>1, <1>2, <1>3, <2>3 DEF Corresponds
  <1>4. CASE e.ref = NoResponse
    <2>1. /\ e.att \notin Speech /\ e.outcome = "ABSTAIN" /\ e.att \notin Captured
          /\ [att |-> e.att, code |-> e.code] \in Elements(dispositions)
      BY <1>4 DEF Corresponds, Elements
    <2>2. e.att \in Disposed
      BY <2>1, InElements
    <2>3. [att |-> e.att, code |-> e.code] \in {dispositions'[i] : i \in DOMAIN dispositions'}
          /\ e.att \notin Captured'
      BY <2>1, <2>2 DEF Elements
    <2> QED  BY <1>1, <1>2, <1>4, <2>1, <2>3 DEF Corresponds
  <1> QED  BY <1>3, <1>4

\* So the event log stays accepted while only the ledgers grow.
LEMMA LedgersGrow ==
    ASSUME HistoryInv, UNCHANGED events,
           Reserved \subseteq Reserved',
           Elements(captures) \subseteq Elements(captures)',
           Elements(dispositions) \subseteq Elements(dispositions)',
           Elements(transcriptions) \subseteq Elements(transcriptions)',
           \A a \in Captured : a \in Disposed' <=> a \in Disposed,
           \A a \in Disposed : a \in Captured' <=> a \in Captured,
           \A a \in Reserved : Novel(a)' <=> Novel(a),
           Consistent', TranscriptionsBound'
    PROVE  HistoryInv'
  <1>1. ASSUME NEW e \in Elements(events)
        PROVE  Corresponds(e)' /\ Backed(e)' /\ HonestlyNovel(e)' /\ e.att \in Reserved
    <2>1. Corresponds(e) /\ Backed(e) /\ HonestlyNovel(e)
      BY DEF HistoryInv, HistoriesStayAccepted, EventsAccepted, Elements
    <2>2. e.att \in Reserved
      BY <2>1 DEF Corresponds
    <2>3. Corresponds(e)'
      BY <2>1, StillCorresponds
    <2> QED  BY <2>1, <2>2, <2>3 DEF Backed, HonestlyNovel
  <1>2. EventsAccepted'
    BY <1>1 DEF HistoryInv, HistoriesStayAccepted, EventsAccepted, Recorded, Elements
  <1> QED  BY <1>1, <1>2 DEF HistoryInv, HistoriesStayAccepted, Elements

LEMMA ReservationKept ==
    ASSUME TypeOK, HistoryInv, NEW a \in Attempts \ Reserved, exposure' = Append(exposure, a),
           UNCHANGED <<captures, dispositions, transcriptions, artifacts, events>>
    PROVE  HistoryInv'
  <1>1. Reserved' = Reserved \union {a}
    BY AppendedElements DEF TypeOK, Elements, Reserved
  <1>2. /\ Captured' = Captured /\ Disposed' = Disposed
        /\ Elements(captures)' = Elements(captures)
        /\ Elements(dispositions)' = Elements(dispositions)
        /\ Elements(transcriptions)' = Elements(transcriptions)
    BY DEF Captured, Disposed, Elements
  <1>3. Consistent /\ TranscriptionsBound
    BY DEF HistoryInv, HistoriesStayAccepted
  <1>4. \A i, j \in DOMAIN exposure' : exposure'[i] = exposure'[j] => i = j
    BY <1>3, AppendedElements DEF TypeOK, Consistent, Reserved
  <1>5. Consistent'
    BY <1>1, <1>2, <1>3, <1>4 DEF Consistent, CapturesBound
  <1>6. TranscriptionsBound'
    BY <1>3 DEF TranscriptionsBound
  <1>7. \A b \in Reserved : Novel(b)' <=> Novel(b)
    BY NoveltyIsStable DEF TypeOK
  <1> QED  BY <1>1, <1>2, <1>5, <1>6, <1>7, LedgersGrow

LEMMA CaptureKept ==
    ASSUME TypeOK, HistoryInv, NEW a \in Attempts, NEW r \in artifacts, Unanswered(a),
           captures' = Append(captures, [att |-> a, ref |-> r]),
           UNCHANGED <<exposure, dispositions, transcriptions, artifacts, events>>
    PROVE  HistoryInv'
  <1> DEFINE c == [att |-> a, ref |-> r]
  <1>1. captures \in Seq(Receipt) /\ c \in Receipt
    BY DEF TypeOK, Receipt
  <1>2. Elements(captures)' = Elements(captures) \union {c}
    BY <1>1, AppendedElements DEF Elements
  <1>3. Captured' = Captured \union {a}
    BY <1>2, InElements
  <1>4. /\ Reserved' = Reserved /\ Disposed' = Disposed
        /\ Elements(dispositions)' = Elements(dispositions)
        /\ Elements(transcriptions)' = Elements(transcriptions)
    BY DEF Reserved, Disposed, Elements
  <1>5. Consistent /\ TranscriptionsBound
    BY DEF HistoryInv, HistoriesStayAccepted
  <1>6. OnePerAttempt(captures')
    <2>1. \A d \in Elements(captures) : d.att # c.att
      BY InElements DEF Unanswered
    <2> QED  BY <1>1, <1>5, <2>1, AppendedOnce DEF Consistent, CapturesBound
  <1>7. \A i \in DOMAIN captures' : captures'[i].ref \in artifacts
    BY <1>1, <1>5, AppendedElements DEF Consistent, CapturesBound
  <1>8. Consistent'
    <2>1. a \in Reserved /\ a \notin Disposed
      BY DEF Unanswered
    <2> QED
      BY <1>3, <1>4, <1>5, <1>6, <1>7, <2>1 DEF Consistent, CapturesBound
  <1>9. TranscriptionsBound'
    BY <1>2, <1>5 DEF TranscriptionsBound, Elements
  <1>10. a \notin Disposed /\ \A b \in Reserved : Novel(b)' <=> Novel(b)
    BY DEF Unanswered, Novel
  <1> QED  BY <1>2, <1>3, <1>4, <1>8, <1>9, <1>10, LedgersGrow

LEMMA DispositionKept ==
    ASSUME TypeOK, HistoryInv, NEW a \in Attempts \ Speech, NEW code \in Codes, Unanswered(a),
           dispositions' = Append(dispositions, [att |-> a, code |-> code]),
           UNCHANGED <<exposure, captures, transcriptions, artifacts, events>>
    PROVE  HistoryInv'
  <1> DEFINE d == [att |-> a, code |-> code]
  <1>1. dispositions \in Seq(Disposition) /\ d \in Disposition
    BY DEF TypeOK, Disposition
  <1>2. Elements(dispositions)' = Elements(dispositions) \union {d}
    BY <1>1, AppendedElements DEF Elements
  <1>3. Disposed' = Disposed \union {a}
    BY <1>2, InElements
  <1>4. /\ Reserved' = Reserved /\ Captured' = Captured
        /\ Elements(captures)' = Elements(captures)
        /\ Elements(transcriptions)' = Elements(transcriptions)
    BY DEF Reserved, Captured, Elements
  <1>5. Consistent /\ TranscriptionsBound
    BY DEF HistoryInv, HistoriesStayAccepted
  <1>6. OnePerAttempt(dispositions')
    <2>1. \A c \in Elements(dispositions) : c.att # d.att
      BY InElements DEF Unanswered
    <2> QED  BY <1>1, <1>5, <2>1, AppendedOnce DEF Consistent
  <1>7. Consistent'
    <2>1. a \in Reserved \ (Speech \union Captured)
      BY DEF Unanswered
    <2> QED  BY <1>3, <1>4, <1>5, <1>6, <2>1 DEF Consistent, CapturesBound
  <1>8. TranscriptionsBound'
    BY <1>5 DEF TranscriptionsBound
  <1>9. a \notin Captured /\ \A b \in Reserved : Novel(b)' <=> Novel(b)
    BY DEF Unanswered, Novel
  <1> QED  BY <1>2, <1>3, <1>4, <1>7, <1>8, <1>9, LedgersGrow

LEMMA TranscriptionKept ==
    ASSUME TypeOK, HistoryInv, NEW c \in Elements(captures), NEW status \in {"SUCCESS", "FAILED"},
           c.att \in Speech, ~Transcribed(c.att),
           transcriptions' =
               Append(transcriptions, [att |-> c.att, ref |-> c.ref, status |-> status]),
           UNCHANGED <<exposure, captures, dispositions, artifacts, events>>
    PROVE  HistoryInv'
  <1> DEFINE t == [att |-> c.att, ref |-> c.ref, status |-> status]
  <1>1. transcriptions \in Seq(Transcription) /\ t \in Transcription
    <2>1. c \in Receipt
      BY DEF TypeOK, Elements
    <2> QED  BY <2>1 DEF TypeOK, Transcription, Receipt
  <1>2. Elements(transcriptions)' = Elements(transcriptions) \union {t}
    BY <1>1, AppendedElements DEF Elements
  <1>3. /\ Reserved' = Reserved /\ Captured' = Captured /\ Disposed' = Disposed
        /\ Elements(captures)' = Elements(captures)
        /\ Elements(dispositions)' = Elements(dispositions)
    BY DEF Reserved, Captured, Disposed, Elements
  <1>4. Consistent /\ TranscriptionsBound
    BY DEF HistoryInv, HistoriesStayAccepted
  <1>5. Consistent'
    BY <1>3, <1>4 DEF Consistent, CapturesBound
  <1>6. OnePerAttempt(transcriptions')
    <2>1. \A d \in Elements(transcriptions) : d.att # t.att
      <3> SUFFICES ASSUME NEW d \in Elements(transcriptions), d.att = c.att PROVE FALSE
        OBVIOUS
      <3>1. d \in Transcription
        BY <1>1, AppendedElements
      <3>2. d.status \in {"SUCCESS", "FAILED"}
        BY <3>1 DEF Transcription
      <3> QED  BY <3>2, InElements DEF Transcribed
    <2> QED  BY <1>1, <1>4, <2>1, AppendedOnce DEF TranscriptionsBound
  <1>7. [att |-> t.att, ref |-> t.ref] \in Elements(captures)
    <2>1. c \in Receipt
      BY AppendedElements DEF TypeOK, Elements
    <2>2. c = [att |-> c.att, ref |-> c.ref]
      BY <2>1 DEF Receipt
    <2> QED  BY <2>2
  <1>8. TranscriptionsBound'
    <2>1. \A d \in Elements(transcriptions)' :
              d.att \in Speech /\ [att |-> d.att, ref |-> d.ref] \in Elements(captures)'
      BY <1>2, <1>3, <1>4, <1>7 DEF TranscriptionsBound, Elements
    <2> QED  BY <1>6, <2>1 DEF TranscriptionsBound, Elements
  <1>9. \A b \in Reserved : Novel(b)' <=> Novel(b)
    BY DEF Novel
  <1> QED  BY <1>2, <1>3, <1>5, <1>8, <1>9, LedgersGrow

LEMMA EventKept ==
    ASSUME TypeOK, HistoryInv, NEW e \in Event,
           Recorded(e.type, e.att) = {}, Corresponds(e), Accompanied(e), Backed(e), HonestlyNovel(e),
           events' = Append(events, e),
           UNCHANGED <<exposure, captures, dispositions, transcriptions, artifacts>>
    PROVE  HistoryInv'
  <1>1. events \in Seq(Event)
    BY DEF TypeOK
  <1>2. /\ Elements(events)' = Elements(events) \union {e}
        /\ DOMAIN events' = DOMAIN events \union {Len(events) + 1}
        /\ \A i \in DOMAIN events : events'[i] = events[i]
        /\ events'[Len(events) + 1] = e
    BY <1>1, AppendedElements DEF Elements
  <1>3. /\ Reserved' = Reserved /\ Captured' = Captured /\ Disposed' = Disposed
        /\ Elements(captures)' = Elements(captures)
        /\ Elements(dispositions)' = Elements(dispositions)
        /\ Elements(transcriptions)' = Elements(transcriptions)
    BY DEF Reserved, Captured, Disposed, Elements
  <1>4. Consistent' /\ TranscriptionsBound'
    <2>1. Consistent /\ TranscriptionsBound
      BY DEF HistoryInv, HistoriesStayAccepted
    <2> QED  BY <1>3, <2>1 DEF Consistent, CapturesBound, TranscriptionsBound
  <1>5. ASSUME NEW f \in Elements(events)'
        PROVE  Corresponds(f)' /\ Backed(f)' /\ HonestlyNovel(f)'
    <2>1. Corresponds(f) /\ Backed(f) /\ HonestlyNovel(f)
      BY <1>2 DEF HistoryInv, HistoriesStayAccepted, EventsAccepted, Elements
    <2>2. Novel(f.att)' <=> Novel(f.att)
      BY DEF Novel
    <2>3. Corresponds(f)'
      BY <1>3, <2>1, <2>2, StillCorresponds
    <2> QED  BY <1>3, <2>1, <2>2, <2>3 DEF Backed, HonestlyNovel
  <1>6. EventsAccepted'
    <2>1. \A i, j \in DOMAIN events' :
              events'[i].type = events'[j].type /\ events'[i].att = events'[j].att => i = j
      <3>1. \A i \in DOMAIN events : events[i].type # e.type \/ events[i].att # e.att
        BY DEF Recorded
      <3>2. \A i, j \in DOMAIN events :
                events[i].type = events[j].type /\ events[i].att = events[j].att => i = j
        BY DEF HistoryInv, HistoriesStayAccepted, EventsAccepted
      <3> QED  BY <1>2, <3>1, <3>2
    <2>2. \A i \in DOMAIN events' : Corresponds(events[i])'
      BY <1>5 DEF Elements
    <2>3. \A type, a : /\ Recorded(type, a) \subseteq Recorded(type, a)'
                       /\ Recorded(type, a)' \subseteq Recorded(type, a) \union {e}
      BY <1>2, InElements
    <2>4. ASSUME NEW a \in Speech, NEW f \in Recorded("JUDGE", a)'
          PROVE  \E s \in Recorded("SPEAK", a)' : s.outcome = f.outcome /\ s.ref = f.ref
      <3>1. CASE f \in Recorded("JUDGE", a)
        BY <2>3, <3>1 DEF HistoryInv, HistoriesStayAccepted, EventsAccepted
      <3>2. CASE f = e
        <4>1. e.type = "JUDGE" /\ e.att = a
          BY <2>4, <3>2, InElements
        <4> QED  BY <2>3, <3>2, <4>1 DEF Accompanied
      <3> QED  BY <2>3, <2>4, <3>1, <3>2
    <2> QED  BY <2>1, <2>2, <2>4 DEF EventsAccepted
  <1> QED  BY <1>4, <1>5, <1>6 DEF HistoryInv, HistoriesStayAccepted

LEMMA ArtifactKept ==
    ASSUME TypeOK, HistoryInv, artifacts \subseteq artifacts',
           UNCHANGED <<exposure, captures, dispositions, transcriptions, events>>
    PROVE  HistoryInv'
  <1>1. /\ Reserved' = Reserved /\ Captured' = Captured /\ Disposed' = Disposed
        /\ Elements(captures)' = Elements(captures)
        /\ Elements(dispositions)' = Elements(dispositions)
        /\ Elements(transcriptions)' = Elements(transcriptions)
    BY DEF Reserved, Captured, Disposed, Elements
  <1>2. Consistent /\ TranscriptionsBound
    BY DEF HistoryInv, HistoriesStayAccepted
  <1>3. Consistent' /\ TranscriptionsBound'
    BY <1>1, <1>2 DEF Consistent, CapturesBound, TranscriptionsBound
  <1>4. \A b \in Reserved : Novel(b)' <=> Novel(b)
    BY DEF Novel
  <1> QED  BY <1>1, <1>3, <1>4, LedgersGrow

LEMMA DurableStepKept ==
    ASSUME TypeOK, HistoryInv, DurableStep
    PROVE  HistoryInv'
  BY ReservationKept, CaptureKept, DispositionKept, TranscriptionKept, EventKept, ArtifactKept
     DEF DurableStep

-----------------------------------------------------------------------------
(* Calls *)

LEMMA IdleOp == NoOp \in Op
  BY DEF NoOp, Op, Outcomes

LEMMA FaultTypes ==
    ASSUME TypeOK, Fault
    PROVE  faults' \in 0 .. MaxFaults
  BY AssessmentAssumption DEF TypeOK, Fault

\* Away from its own next write a call is idle or about to check again.
LEMMA ControlKept ==
    ASSUME ControlInv, UNCHANGED <<exposure, shown, fresh>>,
           \A a \in Attempts : permits'[a] \in {permits[a], "none"},
           pc' # "idle" => op'.att \in Attempts,
           pc' # "issue",
           pc' = "receipt" =>
               Unanswered(op.att)' /\ op'.ref \in artifacts' /\ permits'[op'.att] = "consumed",
           pc' \in {"receipt", "companion"} => torn' \intersect CoreFiles = {}
    PROVE  ControlInv'
  <1>1. Reserved' = Reserved
    BY DEF Reserved
  <1>2. \A a \in Attempts : Novel(a)' <=> Novel(a)
    BY DEF Novel
  <1> QED  BY <1>1, <1>2 DEF ControlInv

LEMMA ReserveStep ==
    ASSUME IInv, NEW a \in Attempts, Reserve(a)
    PROVE  TypeOK' /\ ControlInv' /\ DurableStep
  <1>1. /\ pc = "idle" /\ a \notin Reserved
        /\ fresh' = IF Seen(a) THEN fresh \ {a} ELSE fresh \union {a}
        /\ UNCHANGED <<captures, dispositions, transcriptions, artifacts, events, permits,
                       loaded, shown>>
    BY DEF Reserve, ReserveFor, memory
  <1>2. [NoOp EXCEPT !.att = a] \in Op /\ [NoOp EXCEPT !.att = a].att = a
    BY DEF NoOp, Op, Outcomes
  <1>3. \/ /\ exposure' = Append(exposure, a)
           /\ \/ Goto("issue", [NoOp EXCEPT !.att = a]) /\ UNCHANGED <<torn, faults>>
              \/ Done /\ Fault /\ UNCHANGED torn
        \/ exposure' = exposure /\ Done /\ Fault /\ torn' \in {torn, torn \union {"exposure"}}
    BY DEF Reserve, ReserveFor, Write
  <1>4. TypeOK'
    <2>1. exposure' \in Seq(Attempts)
      <3>1. exposure \in Seq(Attempts) /\ Append(exposure, a) \in Seq(Attempts)
        BY DEF IInv, TypeOK
      <3> QED  BY <1>3, <3>1
    <2>2. torn' \subseteq Files /\ faults' \in 0 .. MaxFaults
      BY <1>3, FaultTypes DEF IInv, TypeOK, Files, CoreFiles
    <2>3. pc' \in {"idle", "issue"} /\ op' \in Op
      BY <1>2, <1>3, IdleOp DEF Goto, Done
    <2>4. fresh' \subseteq Attempts
      BY <1>1 DEF IInv, TypeOK
    <2> QED  BY <1>1, <2>1, <2>2, <2>3, <2>4 DEF IInv, TypeOK
  <1>5. CASE exposure' = exposure
    <2>1. DurableStep
      BY <1>1, <1>5 DEF DurableStep
    <2>2. pc' = "idle"
      <3>1. Append(exposure, a) # exposure
        BY DEF IInv, TypeOK
      <3> QED  BY <1>3, <1>5, <3>1 DEF Done, Goto
    <2>3. Reserved' = Reserved /\ \A b \in Attempts : Novel(b)' <=> Novel(b)
      BY <1>5 DEF Reserved, Novel
    <2>4. \A b \in Attempts : Novel(b) => b \in Reserved
      BY DEF Novel, Reserved
    <2>5. ControlInv'
      BY <1>1, <2>2, <2>3, <2>4 DEF IInv, ControlInv
    <2> QED  BY <1>4, <2>1, <2>5
  <1>6. CASE exposure' = Append(exposure, a)
    <2>1. DurableStep
      BY <1>1, <1>6 DEF DurableStep
    <2>2. Reserved' = Reserved \union {a}
      BY <1>6, AppendedElements DEF IInv, TypeOK, Reserved, Elements
    <2>3. pc' # "idle" => pc' = "issue" /\ op'.att = a
      BY <1>2, <1>3 DEF Goto, Done
    <2>4. ASSUME NEW b \in Attempts, Novel(b)' PROVE b \in fresh'
      <3>1. b \in Reserved'
        BY <2>4 DEF Novel, Reserved
      <3>2. CASE b # a
        <4>1. Novel(b)
          BY <1>1, <1>6, <2>2, <2>4, <3>1, <3>2, NoveltyIsStable DEF IInv, TypeOK
        <4> QED  BY <1>1, <3>2, <4>1 DEF IInv, ControlInv
      <3>3. CASE b = a
        <4>1. \A c \in Reserved : Stimulus[c] # Stimulus[a]
          BY <1>1, <1>6, <2>4, <3>3, KnownIsNotNovel DEF IInv, TypeOK
        <4>2. ~Seen(a)
          BY <4>1 DEF IInv, ControlInv, Seen
        <4> QED  BY <1>1, <3>3, <4>2
      <3> QED  BY <3>2, <3>3
    <2>5. ControlInv'
      BY <1>1, <2>2, <2>3, <2>4 DEF IInv, ControlInv
    <2> QED  BY <1>4, <2>1, <2>5
  <1> QED  BY <1>3, <1>5, <1>6

LEMMA IssueStep ==
    ASSUME IInv, Issue
    PROVE  TypeOK' /\ ControlInv' /\ DurableStep
  <1>1. /\ op.att \in Reserved /\ op.att \in Attempts
        /\ permits' = [permits EXCEPT ![op.att] = "issued"]
        /\ pc' = "idle" /\ op' = NoOp
        /\ UNCHANGED <<exposure, captures, dispositions, transcriptions, artifacts, events,
                       torn, loaded, shown, fresh, faults>>
    BY DEF Issue, IInv, ControlInv, Done, Goto, ledgers, core, history
  <1>2. TypeOK'
    BY <1>1, IdleOp DEF IInv, TypeOK
  <1>3. Reserved' = Reserved /\ \A b \in Attempts : Novel(b)' <=> Novel(b)
    BY <1>1 DEF Reserved, Novel
  <1>4. ControlInv'
    BY <1>1, <1>3 DEF IInv, TypeOK, ControlInv
  <1> QED  BY <1>1, <1>2, <1>4 DEF DurableStep

LEMMA ShowStep ==
    ASSUME IInv, NEW a \in Attempts, Show(a)
    PROVE  TypeOK' /\ ControlInv' /\ DurableStep
  <1>1. /\ pc = "idle" /\ permits[a] = "issued" /\ a \in Reserved
        /\ permits' = [permits EXCEPT ![a] = "consumed"] /\ shown' = shown \union {a}
        /\ UNCHANGED <<exposure, captures, dispositions, transcriptions, artifacts, events,
                       torn, loaded, pc, op, fresh, faults>>
    BY DEF Show, IInv, ControlInv, ledgers, core
  <1>2. TypeOK'
    BY <1>1 DEF IInv, TypeOK
  <1>3. Reserved' = Reserved /\ \A b \in Attempts : Novel(b)' <=> Novel(b)
    BY <1>1 DEF Reserved, Novel
  <1>4. ControlInv'
    BY <1>1, <1>3 DEF IInv, TypeOK, ControlInv
  <1> QED  BY <1>1, <1>2, <1>4 DEF DurableStep

LEMMA PutResponseStep ==
    ASSUME IInv, NEW a \in Attempts, NEW r \in Responses, NEW text \in BOOLEAN,
           PutResponse(a, r, text)
    PROVE  TypeOK' /\ ControlInv' /\ DurableStep
  <1> DEFINE o == [NoOp EXCEPT !.att = a, !.ref = r, !.text = text]
  <1>1. /\ o \in Op /\ o.att = a /\ o.ref = r
    BY DEF NoOp, Op, Outcomes
  <1>2. /\ Unanswered(a) /\ permits[a] = "consumed" /\ torn \intersect CoreFiles = {}
        /\ artifacts' = artifacts \union {r} /\ pc' = "receipt" /\ op' = o
        /\ UNCHANGED <<exposure, captures, dispositions, transcriptions, events, torn, permits,
                       loaded, shown, fresh, faults>>
    BY DEF PutResponse, HistoriesValid, Authorised, Goto, ledgers, core, memory, history
  <1>3. TypeOK'
    BY <1>1, <1>2 DEF IInv, TypeOK
  <1>4. Unanswered(op.att)'
    BY <1>1, <1>2 DEF Unanswered, Reserved, Captured, Disposed
  <1>5. ControlInv'
    BY <1>1, <1>2, <1>4, ControlKept DEF IInv
  <1> QED  BY <1>2, <1>3, <1>5 DEF DurableStep

LEMMA AppendReceiptStep ==
    ASSUME IInv, AppendReceipt
    PROVE  TypeOK' /\ ControlInv' /\ DurableStep
  <1> DEFINE c == [att |-> op.att, ref |-> op.ref]
  <1>1. /\ op.att \in Attempts /\ Unanswered(op.att) /\ op.ref \in artifacts /\ op \in Op
        /\ UNCHANGED <<exposure, dispositions, transcriptions, artifacts, events, permits,
                       loaded, shown, fresh>>
    BY DEF AppendReceipt, IInv, ControlInv, TypeOK, memory, history
  <1>2. /\ captures' \in {captures, Append(captures, c)}
        /\ pc' \in {"idle", "recheck"} /\ op' \in {NoOp, op}
        /\ torn' \in {torn, torn \union {"captures"}}
        /\ faults' = faults \/ Fault
        /\ pc' = "recheck" => op' = op
    BY DEF AppendReceipt, Write, Done, Goto
  <1>3. TypeOK'
    <2>1. captures \in Seq(Receipt) /\ c \in Receipt
      BY <1>1 DEF IInv, TypeOK, Receipt
    <2>2. captures' \in Seq(Receipt)
      BY <1>2, <2>1
    <2>3. torn' \subseteq Files /\ faults' \in 0 .. MaxFaults
      BY <1>2, FaultTypes DEF IInv, TypeOK, Files, CoreFiles
    <2> QED  BY <1>1, <1>2, <2>2, <2>3, IdleOp DEF IInv, TypeOK
  <1>4. ControlInv'
    BY <1>1, <1>2, ControlKept DEF IInv
  <1>5. DurableStep
    BY <1>1, <1>2 DEF DurableStep
  <1> QED  BY <1>3, <1>4, <1>5

LEMMA RecheckStep ==
    ASSUME IInv, Recheck
    PROVE  TypeOK' /\ ControlInv' /\ DurableStep
  <1>1. /\ pc' \in {"infra", "idle"} /\ op' \in {op, NoOp} /\ (pc' = "infra" => op' = op)
        /\ op.att \in Attempts /\ op \in Op
        /\ UNCHANGED <<exposure, captures, dispositions, transcriptions, artifacts, events, torn,
                       permits, loaded, shown, fresh, faults>>
    BY DEF Recheck, IInv, ControlInv, TypeOK, Goto, Done, ledgers, core, memory, history
  <1>2. TypeOK'
    BY <1>1, IdleOp DEF IInv, TypeOK
  <1>3. ControlInv'
    BY <1>1, ControlKept DEF IInv
  <1> QED  BY <1>1, <1>2, <1>3 DEF DurableStep

\* Either way of recording that there is no answer.
LEMMA DisposeStep ==
    ASSUME IInv, NEW a \in Attempts, NEW code \in Codes, Dispose(a, code)
    PROVE  TypeOK' /\ ControlInv' /\ DurableStep
  <1> DEFINE d == [att |-> a, code |-> code]
  <1>1. /\ a \in Attempts \ Speech /\ Unanswered(a)
        /\ UNCHANGED <<exposure, captures, transcriptions, artifacts, events, permits, loaded,
                       shown, fresh>>
    BY DEF Dispose, memory, history
  <1>2. /\ dispositions' \in {dispositions, Append(dispositions, d)}
        /\ pc' = "idle" /\ op' = NoOp
        /\ torn' \in {torn, torn \union {"dispositions"}}
        /\ faults' = faults \/ Fault
    BY DEF Dispose, Write, Done, Goto
  <1>3. TypeOK'
    <2>1. dispositions \in Seq(Disposition) /\ d \in Disposition
      BY DEF IInv, TypeOK, Disposition
    <2>2. dispositions' \in Seq(Disposition)
      BY <1>2, <2>1
    <2>3. torn' \subseteq Files /\ faults' \in 0 .. MaxFaults
      BY <1>2, FaultTypes DEF IInv, TypeOK, Files, CoreFiles
    <2> QED  BY <1>1, <1>2, <2>2, <2>3, IdleOp DEF IInv, TypeOK
  <1>4. ControlInv'
    BY <1>1, <1>2, ControlKept DEF IInv
  <1>5. DurableStep
    BY <1>1, <1>2 DEF DurableStep
  <1> QED  BY <1>3, <1>4, <1>5

LEMMA TranscribeStep ==
    ASSUME IInv, NEW a \in Attempts, NEW status \in {"SUCCESS", "FAILED"}, Transcribe(a, status)
    PROVE  TypeOK' /\ ControlInv' /\ DurableStep
  <1>1. PICK i \in DOMAIN captures :
            /\ captures[i].att = a
            /\ Write("transcriptions",
                     transcriptions' = Append(transcriptions,
                         [att |-> a, ref |-> captures[i].ref, status |-> status]),
                     UNCHANGED transcriptions, Done, Done)
            /\ UNCHANGED <<core, artifacts, events, memory, history>>
    BY DEF Transcribe, AppendTranscription
  <1> DEFINE t == [att |-> a, ref |-> captures[i].ref, status |-> status]
  <1>2. /\ UNCHANGED <<exposure, captures, dispositions, artifacts, events, permits, loaded,
                       shown, fresh>>
        /\ transcriptions' \in {transcriptions, Append(transcriptions, t)}
        /\ pc' = "idle" /\ op' = NoOp
        /\ torn' \in {torn, torn \union {"transcriptions"}}
        /\ faults' = faults \/ Fault
    BY <1>1 DEF Write, Done, Goto, core, memory, history
  <1>3. a \in Speech /\ ~Transcribed(a)
    BY DEF Transcribe, Transcribable
  <1>4. captures[i] \in Receipt /\ captures[i] \in Elements(captures)
    BY DEF IInv, TypeOK, Elements
  <1>5. TypeOK'
    <2>1. transcriptions \in Seq(Transcription) /\ t \in Transcription
      BY <1>4 DEF IInv, TypeOK, Transcription, Receipt
    <2>2. transcriptions' \in Seq(Transcription)
      BY <1>2, <2>1
    <2>3. torn' \subseteq Files /\ faults' \in 0 .. MaxFaults
      BY <1>2, FaultTypes DEF IInv, TypeOK, Files, CoreFiles
    <2> QED  BY <1>2, <2>2, <2>3, IdleOp DEF IInv, TypeOK
  <1>6. ControlInv'
    BY <1>2, ControlKept DEF IInv
  <1>7. DurableStep
    BY <1>1, <1>2, <1>3, <1>4 DEF DurableStep
  <1> QED  BY <1>5, <1>6, <1>7

LEMMA LoadTranscriptionStep ==
    ASSUME IInv, NEW a \in Attempts, LoadTranscription(a)
    PROVE  TypeOK' /\ ControlInv' /\ DurableStep
  <1>1. /\ a \in Speech /\ loaded' = loaded \union {a} /\ pc = "idle" /\ pc' = pc
        /\ UNCHANGED <<exposure, captures, dispositions, transcriptions, artifacts, events, torn,
                       permits, op, shown, fresh, faults>>
    BY DEF LoadTranscription, Loadable, ledgers, core, history
  <1>2. TypeOK'
    BY <1>1 DEF IInv, TypeOK
  <1>3. ControlInv'
    BY <1>1, ControlKept DEF IInv
  <1> QED  BY <1>1, <1>2, <1>3 DEF DurableStep

\* A call that ends early, with its process or without.
LEMMA RaiseStep ==
    ASSUME IInv, Raise \/ Crash
    PROVE  TypeOK' /\ ControlInv' /\ DurableStep
  <1>1. /\ pc' = "idle" /\ op' = NoOp /\ Fault
        /\ UNCHANGED <<exposure, captures, dispositions, transcriptions, artifacts, events, torn,
                       shown, fresh>>
        /\ permits' = permits \/ permits' = [a \in Attempts |-> "none"]
        /\ loaded' \subseteq loaded
    BY DEF Raise, Crash, Done, Goto, ledgers, core, memory, history
  <1>2. TypeOK'
    BY <1>1, IdleOp, FaultTypes DEF IInv, TypeOK
  <1>3. ControlInv'
    BY <1>1, ControlKept DEF IInv
  <1> QED  BY <1>1, <1>2, <1>3 DEF DurableStep

-----------------------------------------------------------------------------
(* Emission *)

\* What emission writes about an attempt.
Planned(e, type, a, o) ==
    /\ e \in Event
    /\ e.type = type /\ e.att = a /\ e.outcome = o /\ e.ref = RefOf(a) /\ e.code = CodeOf(a)
    /\ type = "JUDGE" /\ o \in Grades => e.novel = Novel(a)
    /\ type = "SPEAK" \/ o \notin Grades => e.novel = FALSE

LEMMA PlannedEvents ==
    ASSUME IInv, NEW a \in Attempts, NEW o \in Outcomes
    PROVE  Planned(Judgement(a, o), "JUDGE", a, o) /\ Planned(Transcript(a, o), "SPEAK", a, o)
  <1>1. RefOf(a) \in Responses \union {NoResponse}
    <2>1. CASE a \in Captured
      <3>1. \E r \in Elements(captures) : r.att = a
        BY <2>1, InElements
      <3>2. Elements(captures) \subseteq Receipt
        BY DEF IInv, TypeOK, Elements
      <3> QED  BY <2>1, <3>1, <3>2 DEF RefOf, Elements, Receipt
    <2>2. CASE a \notin Captured
      BY <2>2 DEF RefOf
    <2> QED  BY <2>1, <2>2
  <1>2. CodeOf(a) \in Codes \union {NoCode}
    <2>1. CASE a \in Disposed
      <3>1. \E d \in Elements(dispositions) : d.att = a
        BY <2>1, InElements
      <3>2. Elements(dispositions) \subseteq Disposition
        BY DEF IInv, TypeOK, Elements
      <3> QED  BY <2>1, <3>1, <3>2 DEF CodeOf, Elements, Disposition
    <2>2. CASE a \notin Disposed
      BY <2>2 DEF CodeOf
    <2> QED  BY <2>1, <2>2
  <1> DEFINE n == o \in Grades /\ Novel(a)
  <1>3. n \in BOOLEAN
    OBVIOUS
  <1>4. (o \in Grades => n = Novel(a)) /\ (o \notin Grades => n = FALSE)
    BY DEF Novel
  <1>5. Judgement(a, o) = [type |-> "JUDGE", att |-> a, outcome |-> o, ref |-> RefOf(a),
                           code |-> CodeOf(a), novel |-> n]
    BY DEF Judgement
  <1> HIDE DEF n
  <1>6. Planned(Judgement(a, o), "JUDGE", a, o)
    BY <1>1, <1>2, <1>3, <1>4, <1>5 DEF Planned, Event
  <1>7. Planned(Transcript(a, o), "SPEAK", a, o)
    <2>1. ASSUME NEW e, e = Judgement(a, o), NEW f, f = [e EXCEPT !.type = "SPEAK", !.novel = FALSE]
          PROVE  Planned(f, "SPEAK", a, o)
      <3>1. e \in Event /\ e.att = a /\ e.outcome = o /\ e.ref = RefOf(a) /\ e.code = CodeOf(a)
        BY <1>6, <2>1 DEF Planned
      <3>2. f \in Event /\ f.type = "SPEAK" /\ f.att = a /\ f.outcome = o
        BY <2>1, <3>1 DEF Event
      <3>3. f.ref = RefOf(a) /\ f.code = CodeOf(a)
        BY <2>1, <3>1 DEF Event
      <3>4. f.novel = FALSE
        BY <2>1, <3>1 DEF Event
      <3> QED  BY <3>2, <3>3, <3>4 DEF Planned
    <2> QED  BY <2>1, Zenon DEF Transcript
  <1> QED  BY <1>6, <1>7

LEMMA PlannedIsHonest ==
    ASSUME NEW e, NEW type, NEW a, NEW o, Planned(e, type, a, o), type \in {"JUDGE", "SPEAK"}
    PROVE  HonestlyNovel(e)
  <1>1. CASE type = "JUDGE" /\ o \in Grades
    BY <1>1 DEF Planned, HonestlyNovel
  <1>2. CASE type = "SPEAK" \/ o \notin Grades
    BY <1>2 DEF Planned, HonestlyNovel
  <1> QED  BY <1>1, <1>2

LEMMA EventWritten ==
    ASSUME IInv, NEW e \in Event, events' \in {events, Append(events, e)},
           UNCHANGED <<exposure, captures, dispositions, transcriptions, artifacts, permits,
                       loaded, shown, fresh>>,
           torn' \in {torn, torn \union {"events"}}, faults' = faults \/ Fault,
           pc' \in {"idle", "companion"}, op' \in Op,
           pc' = "companion" => op'.att \in Attempts /\ torn' \intersect CoreFiles = {},
           Recorded(e.type, e.att) = {}, Corresponds(e), Accompanied(e), Backed(e),
           HonestlyNovel(e)
    PROVE  TypeOK' /\ ControlInv' /\ DurableStep
  <1>1. TypeOK'
    <2>1. events' \in Seq(Event)
      <3>1. events \in Seq(Event) /\ Append(events, e) \in Seq(Event)
        BY DEF IInv, TypeOK
      <3> QED  BY <3>1
    <2>2. torn' \subseteq Files /\ faults' \in 0 .. MaxFaults
      BY FaultTypes DEF IInv, TypeOK, Files, CoreFiles
    <2> QED  BY <2>1, <2>2 DEF IInv, TypeOK
  <1>2. ControlInv'
    BY ControlKept DEF IInv
  <1>3. DurableStep
    BY DEF DurableStep
  <1> QED  BY <1>1, <1>2, <1>3

\* Until the SPEAK record is in the file the call has found nothing torn.
LEMMA EmitJudgeStep ==
    ASSUME IInv, NEW a \in Attempts, NEW o \in Outcomes, EmitJudge(a, o)
    PROVE  TypeOK' /\ ControlInv' /\ DurableStep
  <1> DEFINE e == Judgement(a, o)
  <1>1. /\ events' \in {events, Append(events, e)}
        /\ UNCHANGED <<exposure, captures, dispositions, transcriptions, artifacts, permits,
                       loaded, shown, fresh>>
        /\ torn' \in {torn, torn \union {"events"}} /\ (faults' = faults \/ Fault)
        /\ pc' = "idle" /\ op' = NoOp
    BY DEF EmitJudge, WriteEvent, Write, Done, Goto, ledgers, core, memory, history
  <1>2. Recorded(e.type, e.att) = {} /\ Corresponds(e)
    BY DEF EmitJudge, Judgeable, Classify
  <1>3. Planned(e, "JUDGE", a, o) /\ a \notin Speech
    BY PlannedEvents DEF EmitJudge, Judgeable
  <1> HIDE DEF e
  <1>4. e \in Event /\ Accompanied(e) /\ Backed(e) /\ HonestlyNovel(e)
    BY <1>3, PlannedIsHonest DEF Planned, Accompanied, Backed
  <1> QED  BY <1>1, <1>2, <1>4, IdleOp, EventWritten

\* The transcription that was loaded is the one of the answer that is judged.
LEMMA PlannedIsBacked ==
    ASSUME IInv, NEW a \in Speech, NEW o \in Outcomes, Plannable(a, o), NEW e,
           e.att = a, e.outcome = o, e.ref = RefOf(a)
    PROVE  Backed(e)
  <1> SUFFICES ASSUME o \in Grades
               PROVE  [att |-> a, ref |-> RefOf(a), status |-> "SUCCESS"]
                         \in Elements(transcriptions)
    BY DEF Backed
  <1>1. TranscribedAs(a, "SUCCESS")
    BY AssessmentAssumption DEF Plannable
  <1>2. PICK t \in Elements(transcriptions) : t.att = a /\ t.status = "SUCCESS"
    BY <1>1, InElements
  <1>3. t \in Transcription
    BY DEF IInv, TypeOK, Elements
  <1>4. t = [att |-> a, ref |-> t.ref, status |-> "SUCCESS"]
    BY <1>2, <1>3 DEF Transcription
  <1>5. [att |-> a, ref |-> t.ref] \in Elements(captures)
    BY <1>2 DEF IInv, HistoryInv, HistoriesStayAccepted, TranscriptionsBound, Elements
  <1>6. a \in Captured
    BY <1>5, InElements
  <1>7. PICK c \in Elements(captures) : c.att = a /\ RefOf(a) = c.ref
    BY <1>5, <1>6 DEF RefOf, Elements
  <1>8. c = [att |-> a, ref |-> t.ref]
    BY <1>5, <1>7, OneRecord DEF IInv, HistoryInv, HistoriesStayAccepted, Consistent, CapturesBound
  <1> QED  BY <1>4, <1>7, <1>8

LEMMA Classified ==
    ASSUME NEW e
    PROVE  /\ Classify(e) = "missing" <=> Recorded(e.type, e.att) = {}
           /\ Classify(e) = "exact" <=> e \in Recorded(e.type, e.att)
           /\ Classify(e) # "conflicting" =>
                 Recorded(e.type, e.att) = {} \/ e \in Recorded(e.type, e.att)
           /\ Classify(e) \in {"missing", "exact", "conflicting"}
  <1> DEFINE R == Recorded(e.type, e.att)
  <1>1. Classify(e) = CASE R = {} -> "missing" [] e \in R -> "exact" [] OTHER -> "conflicting"
    BY DEF Classify
  <1> HIDE DEF R
  <1>2. /\ R = {} => Classify(e) = "missing"
        /\ R # {} /\ e \in R => Classify(e) = "exact"
        /\ R # {} /\ e \notin R => Classify(e) = "conflicting"
    BY <1>1
  <1> QED  BY <1>2 DEF R

LEMMA EmitSpeechStep ==
    ASSUME IInv, NEW a \in Attempts, NEW o \in Outcomes, EmitSpeech(a, o)
    PROVE  TypeOK' /\ ControlInv' /\ DurableStep
  <1> DEFINE j == Judgement(a, o)
             t == Transcript(a, o)
             p == [NoOp EXCEPT !.att = a, !.outcome = o]
  <1>1. a \in Speech /\ Plannable(a, o) /\ torn \intersect CoreFiles = {}
    BY DEF EmitSpeech, Speakable, IInv, TypeOK, HistoriesValid
  <1>2. /\ Corresponds(t) /\ Corresponds(j) /\ Recorded(j.type, j.att) = {}
        /\ \/ /\ Recorded(t.type, t.att) = {}
              /\ WriteEvent(t, Goto("companion", p), Done)
           \/ /\ t \in Recorded(t.type, t.att)
              /\ WriteEvent(j, Done, Done)
    BY Classified DEF EmitSpeech, Speakable
  <1>3. p \in Op /\ p.att = a
    BY DEF NoOp, Op
  <1>4. Planned(j, "JUDGE", a, o) /\ Planned(t, "SPEAK", a, o)
    BY PlannedEvents
  <1> HIDE DEF j, t, p
  <1>5. /\ j \in Event /\ t \in Event /\ Backed(j) /\ Backed(t)
        /\ HonestlyNovel(j) /\ HonestlyNovel(t) /\ Accompanied(t)
    BY <1>1, <1>4, PlannedIsBacked, PlannedIsHonest DEF Planned, Accompanied
  <1>6. ASSUME Recorded(t.type, t.att) = {}, WriteEvent(t, Goto("companion", p), Done)
        PROVE  TypeOK' /\ ControlInv' /\ DurableStep
    <2>1. /\ events' \in {events, Append(events, t)}
          /\ UNCHANGED <<exposure, captures, dispositions, transcriptions, artifacts, permits,
                         loaded, shown, fresh>>
          /\ torn' \in {torn, torn \union {"events"}} /\ (faults' = faults \/ Fault)
          /\ \/ pc' = "companion" /\ op' = p /\ torn' = torn
             \/ pc' = "idle" /\ op' = NoOp
      BY <1>6 DEF WriteEvent, Write, Done, Goto, ledgers, core, memory, history
    <2> QED  BY <1>1, <1>2, <1>3, <1>5, <1>6, <2>1, IdleOp, EventWritten
  <1>7. ASSUME t \in Recorded(t.type, t.att), WriteEvent(j, Done, Done)
        PROVE  TypeOK' /\ ControlInv' /\ DurableStep
    <2>1. /\ events' \in {events, Append(events, j)}
          /\ UNCHANGED <<exposure, captures, dispositions, transcriptions, artifacts, permits,
                         loaded, shown, fresh>>
          /\ torn' \in {torn, torn \union {"events"}} /\ (faults' = faults \/ Fault)
          /\ pc' = "idle" /\ op' = NoOp
      BY <1>7 DEF WriteEvent, Write, Done, Goto, ledgers, core, memory, history
    <2>2. Accompanied(j)
      BY <1>4, <1>7 DEF Planned, Accompanied
    <2> QED  BY <1>1, <1>2, <1>5, <2>1, <2>2, IdleOp, EventWritten
  <1> QED  BY <1>2, <1>6, <1>7

\* A JUDGE with the content of an accepted SPEAK is accepted.
LEMMA CompanionCorresponds ==
    ASSUME NEW a, NEW o, NEW j, NEW t, Planned(j, "JUDGE", a, o), Planned(t, "SPEAK", a, o),
           Corresponds(t)
    PROVE  Corresponds(j)
  <1>1. /\ j.att = t.att /\ j.ref = t.ref /\ j.code = t.code /\ j.outcome = t.outcome
        /\ j.type = "JUDGE" /\ (j.outcome \in Grades => j.novel = Novel(j.att))
    BY DEF Planned
  <1> QED  BY <1>1 DEF Corresponds

\* The JUDGE that follows a SPEAK says the same.
LEMMA AppendCompanionStep ==
    ASSUME IInv, AppendCompanion
    PROVE  TypeOK' /\ ControlInv' /\ DurableStep
  <1> DEFINE a == op.att
             o == op.outcome
             j == Judgement(a, o)
             t == Transcript(a, o)
  <1>1. a \in Attempts /\ o \in Outcomes /\ Recorded("JUDGE", a) = {} /\ Classify(t) = "exact"
    BY DEF AppendCompanion, IInv, ControlInv, TypeOK, Op
  <1>2. Planned(j, "JUDGE", a, o) /\ Planned(t, "SPEAK", a, o)
    BY <1>1, PlannedEvents
  <1>3. t \in Recorded(t.type, t.att)
    BY <1>1 DEF Classify
  <1>7. /\ events' \in {events, Append(events, j)}
        /\ UNCHANGED <<exposure, captures, dispositions, transcriptions, artifacts, permits,
                       loaded, shown, fresh>>
        /\ torn' \in {torn, torn \union {"events"}} /\ (faults' = faults \/ Fault)
        /\ pc' = "idle" /\ op' = NoOp
    BY DEF AppendCompanion, WriteEvent, Write, Done, Goto, ledgers, core, memory, history
  <1> HIDE DEF a, o, j, t
  <1>4. Corresponds(t) /\ Backed(t)
    BY <1>3 DEF IInv, HistoryInv, HistoriesStayAccepted, EventsAccepted, Recorded, Elements
  <1>5. Corresponds(j)
    BY <1>2, <1>4, CompanionCorresponds
  <1>6. /\ j \in Event /\ Recorded(j.type, j.att) = {} /\ Accompanied(j) /\ Backed(j)
        /\ HonestlyNovel(j)
    BY <1>1, <1>2, <1>3, <1>4, PlannedIsHonest DEF Planned, Accompanied, Backed
  <1> QED  BY <1>5, <1>6, <1>7, IdleOp, EventWritten

-----------------------------------------------------------------------------
(* The invariant *)

LEMMA InitIInv == Init => IInv
  <1> SUFFICES ASSUME Init PROVE IInv
    OBVIOUS
  <1>1. TypeOK
    BY IdleOp, AssessmentAssumption DEF Init, TypeOK
  <1>2. /\ Reserved = {} /\ Captured = {} /\ Disposed = {}
        /\ Elements(events) = {} /\ DOMAIN events = {}
        /\ DOMAIN captures = {} /\ DOMAIN dispositions = {} /\ DOMAIN transcriptions = {}
        /\ DOMAIN exposure = {} /\ \A type, a : Recorded(type, a) = {}
    BY DEF Init, Reserved, Captured, Disposed, Elements, Recorded
  <1>3. ControlInv
    BY <1>2 DEF Init, ControlInv, Novel
  <1>4. HistoryInv
    BY <1>2 DEF HistoryInv, HistoriesStayAccepted, Consistent, CapturesBound,
                TranscriptionsBound, EventsAccepted, OnePerAttempt
  <1> QED  BY <1>1, <1>3, <1>4 DEF IInv

\* Every action writes one file at most, what the checks allow.
LEMMA NextStep ==
    ASSUME IInv, Next
    PROVE  TypeOK' /\ ControlInv' /\ DurableStep
  <1>1. ASSUME NEW a \in Attempts, Decline(a)
        PROVE  TypeOK' /\ ControlInv' /\ DurableStep
    BY <1>1, DisposeStep DEF Decline, Codes
  <1>2. ASSUME RecordFailure
        PROVE  TypeOK' /\ ControlInv' /\ DurableStep
    <2>1. op.att \in Attempts /\ "infrastructure_failure" \in Codes
      BY <1>2 DEF RecordFailure, IInv, ControlInv, Codes
    <2> QED  BY <1>2, <2>1, DisposeStep DEF RecordFailure
  <1> QED
    BY <1>1, <1>2, ReserveStep, IssueStep, ShowStep, PutResponseStep, AppendReceiptStep,
       RecheckStep, TranscribeStep, LoadTranscriptionStep, EmitJudgeStep, EmitSpeechStep,
       AppendCompanionStep, RaiseStep
       DEF Next

LEMMA NextIInv == IInv /\ [Next]_vars => IInv'
  <1>1. ASSUME IInv, Next PROVE IInv'
    BY <1>1, NextStep, DurableStepKept DEF IInv
  <1>2. ASSUME IInv, UNCHANGED vars PROVE IInv'
    <2>1. TypeOK'
      BY <1>2 DEF vars, ledgers, core, memory, history, IInv, TypeOK
    <2>2. /\ UNCHANGED <<exposure, shown, fresh, captures, dispositions, artifacts, permits,
                         torn, pc, op>>
      BY <1>2 DEF vars, ledgers, core, memory, history
    <2>3. ControlInv'
      BY <1>2, <2>2 DEF IInv, ControlInv, Unanswered, Reserved, Captured, Disposed, Novel
    <2>4. DurableStep
      BY <1>2 DEF vars, ledgers, core, memory, history, DurableStep
    <2> QED  BY <1>2, <2>1, <2>3, <2>4, DurableStepKept DEF IInv
  <1> QED  BY <1>1, <1>2

LEMMA IInvHolds == Spec => []IInv
  BY InitIInv, NextIInv, PTL DEF Spec

\* Calls, ledgers and memory always have the documented shape.
THEOREM AssessmentTypes == Spec => []TypeOK
  <1>1. IInv => TypeOK
    BY DEF IInv
  <1> QED  BY <1>1, IInvHolds, PTL

\* For any number of attempts, failing calls and dying processes the ledgers
\* and the event log pass the checks of validate_t12_histories,
\* validate_transcription_bindings and _validated_history.
THEOREM HistoriesAccepted == Spec => []HistoriesStayAccepted
  <1>1. IInv => HistoriesStayAccepted
    BY DEF IInv, HistoryInv
  <1> QED  BY <1>1, IInvHolds, PTL

\* A PASS or FAIL on the spoken channel always has its approved transcript
\* (plan_speech_assessment, emit_planned_speech_assessment).
THEOREM GradesAreTranscribed == Spec => []GradedSpeechWasTranscribed
  <1>1. IInv => GradedSpeechWasTranscribed
    <2> SUFFICES ASSUME IInv, NEW i \in DOMAIN events,
                        events[i].att \in Speech, events[i].outcome \in Grades
                 PROVE  \E j \in DOMAIN transcriptions :
                            transcriptions[j] = [att |-> events[i].att, ref |-> events[i].ref,
                                                 status |-> "SUCCESS"]
      BY DEF GradedSpeechWasTranscribed
    <2>1. Backed(events[i])
      BY DEF IInv, HistoryInv, Elements
    <2> QED  BY <2>1 DEF Backed, Elements
  <1> QED  BY <1>1, IInvHolds, PTL

\* No verdict claims a novelty the learner did not have, whatever was
\* abandoned, lost or retried (novelty_for_reserved_attempt_history).
THEOREM NoveltyIsTrue == Spec => []NoFalseNovelty
  <1>1. IInv => NoFalseNovelty
    <2> SUFFICES ASSUME IInv, NEW i \in DOMAIN events, events[i].novel
                 PROVE  events[i].att \in fresh
      BY DEF NoFalseNovelty
    <2>1. HonestlyNovel(events[i])
      BY DEF IInv, HistoryInv, Elements
    <2>2. events[i] \in Event
      BY DEF IInv, TypeOK
    <2>3. events[i].att \in Attempts
      BY <2>2 DEF Event
    <2> QED  BY <2>1, <2>3 DEF HonestlyNovel, IInv, ControlInv
  <1> QED  BY <1>1, IInvHolds, PTL

\* No two attempts on one stimulus are both judged novel: the earlier
\* reservation in the file takes it from the later one, whatever became of
\* either (novelty_for_reserved_attempt_history).
THEOREM NoveltyIsUnique == Spec => []OneNovelAttempt
  <1>1. ASSUME IInv, NEW a, NEW b, Novel(a), Novel(b), Stimulus[a] = Stimulus[b]
        PROVE  a = b
    <2>1. PICK i \in DOMAIN exposure :
              exposure[i] = a /\ \A k \in 1 .. i - 1 : Stimulus[exposure[k]] # Stimulus[a]
      BY <1>1 DEF Novel
    <2>2. PICK j \in DOMAIN exposure :
              exposure[j] = b /\ \A k \in 1 .. j - 1 : Stimulus[exposure[k]] # Stimulus[b]
      BY <1>1 DEF Novel
    <2>3. i \in Nat \ {0} /\ j \in Nat \ {0}
      BY <1>1 DEF IInv, TypeOK
    <2>4. i \notin 1 .. j - 1 /\ j \notin 1 .. i - 1
      BY <1>1, <2>1, <2>2
    <2> QED  BY <2>1, <2>2, <2>3, <2>4
  <1>2. IInv => OneNovelAttempt
    <2> SUFFICES ASSUME IInv, NEW e \in Elements(events), NEW f \in Elements(events),
                        e.novel, f.novel, Stimulus[e.att] = Stimulus[f.att]
                 PROVE  e.att = f.att
      BY DEF OneNovelAttempt, Elements
    <2>1. HonestlyNovel(e) /\ HonestlyNovel(f)
      BY DEF IInv, HistoryInv
    <2> QED  BY <1>1, <2>1 DEF HonestlyNovel
  <1> QED  BY <1>2, IInvHolds, PTL

-----------------------------------------------------------------------------
(* No evidence gets stuck *)

\* A SPEAK record says what a later call would plan again.
Said(e) == e.type = "SPEAK" => ~e.novel /\ e.code = NoCode /\ Transcribed(e.att)
SaidInv == \A e \in Elements(events) : Said(e)

\* An answer has one reference, and nobody gave it up.
LEMMA TheCapture ==
    ASSUME IInv, NEW a \in Captured
    PROVE  /\ [att |-> a, ref |-> RefOf(a)] \in Elements(captures)
           /\ RefOf(a) # NoResponse
           /\ \A r : [att |-> a, ref |-> r] \in Elements(captures) => r = RefOf(a)
           /\ CodeOf(a) = NoCode
           /\ a \in Reserved \ Disposed
  <1>1. PICK c \in Elements(captures) : c.att = a /\ RefOf(a) = c.ref
    BY InElements DEF RefOf, Elements
  <1>2. c \in Receipt
    BY DEF IInv, TypeOK, Elements
  <1>3. c = [att |-> a, ref |-> RefOf(a)] /\ RefOf(a) # NoResponse
    BY <1>1, <1>2, AssessmentAssumption DEF Receipt
  <1>4. OnePerAttempt(captures) /\ a \in Reserved \ Disposed
    BY DEF IInv, HistoryInv, HistoriesStayAccepted, Consistent, CapturesBound
  <1>5. \A r : [att |-> a, ref |-> r] \in Elements(captures) => r = RefOf(a)
    BY <1>1, <1>3, <1>4, OneRecord
  <1> QED  BY <1>3, <1>4, <1>5 DEF CodeOf

LEMMA TheDisposition ==
    ASSUME IInv, NEW a \in Disposed
    PROVE  /\ [att |-> a, code |-> CodeOf(a)] \in Elements(dispositions)
           /\ RefOf(a) = NoResponse
           /\ a \in Reserved \ (Speech \union Captured)
  <1>1. PICK d \in Elements(dispositions) : d.att = a /\ CodeOf(a) = d.code
    BY InElements DEF CodeOf, Elements
  <1>2. d \in Disposition
    BY DEF IInv, TypeOK, Elements
  <1>3. d = [att |-> a, code |-> CodeOf(a)]
    BY <1>1, <1>2 DEF Disposition
  <1>4. a \in Reserved \ (Speech \union Captured)
    BY DEF IInv, HistoryInv, HistoriesStayAccepted, Consistent
  <1> QED  BY <1>3, <1>4 DEF RefOf

LEMMA TranscribedIsCaptured ==
    ASSUME IInv, NEW a, Transcribed(a)
    PROVE  a \in Captured
  <1>1. PICK t \in Elements(transcriptions) : t.att = a
    BY InElements DEF Transcribed
  <1>2. [att |-> a, ref |-> t.ref] \in Elements(captures)
    BY <1>1 DEF IInv, HistoryInv, HistoriesStayAccepted, TranscriptionsBound, Elements
  <1> QED  BY <1>2, InElements

LEMMA TranscriptsStay ==
    ASSUME TypeOK, DurableStep, NEW a, Transcribed(a)
    PROVE  Transcribed(a)'
  <1>1. PICK i \in DOMAIN transcriptions :
            transcriptions[i].att = a /\ transcriptions[i].status \in {"SUCCESS", "FAILED"}
    BY DEF Transcribed, TranscribedAs
  <1>2. CASE transcriptions' = transcriptions
    BY <1>1, <1>2 DEF Transcribed, TranscribedAs
  <1>3. ASSUME NEW c \in Elements(captures), NEW status \in {"SUCCESS", "FAILED"},
               c.att \in Speech, transcriptions' =
                   Append(transcriptions, [att |-> c.att, ref |-> c.ref, status |-> status])
        PROVE  Transcribed(a)'
    <2> DEFINE t == [att |-> c.att, ref |-> c.ref, status |-> status]
    <2>1. transcriptions \in Seq(Transcription) /\ c \in Receipt
      BY DEF TypeOK, Elements
    <2>2. t \in Transcription
      BY <2>1 DEF Transcription, Receipt
    <2>3. i \in DOMAIN transcriptions' /\ transcriptions'[i] = transcriptions[i]
      BY <1>3, <2>1, <2>2, AppendedElements
    <2> QED  BY <1>1, <2>3 DEF Transcribed, TranscribedAs
  <1> QED  BY <1>2, <1>3 DEF DurableStep

\* What emit_planned_speech_assessment adds is a SPEAK of transcribed speech.
LEMMA NewRecordsAreSaid ==
    ASSUME IInv, Next, NEW e \in Elements(events)' \ Elements(events)
    PROVE  Said(e)
  <1> DEFINE Added(f) == events' \in {events, Append(events, f)}
  <1>1. ASSUME NEW f \in Event, Added(f) PROVE e = f
    <2>1. events' = Append(events, f)
      BY <1>1 DEF Elements
    <2>2. Elements(Append(events, f)) = Elements(events) \union {f}
      BY AppendedElements DEF IInv, TypeOK
    <2> QED  BY <2>1, <2>2 DEF Elements
  <1>2. ASSUME NEW a \in Attempts, NEW o \in Outcomes, Added(Judgement(a, o))
        PROVE  Said(e)
    <2>1. Planned(Judgement(a, o), "JUDGE", a, o)
      BY PlannedEvents
    <2> QED  BY <1>1, <1>2, <2>1 DEF Planned, Said
  <1>3. ASSUME NEW a \in Attempts, NEW o \in Outcomes, EmitSpeech(a, o) PROVE Said(e)
    <2>1. Transcribed(a)
      BY <1>3 DEF EmitSpeech, Speakable, Plannable, Transcribed
    <2>2. CodeOf(a) = NoCode
      BY <2>1, TranscribedIsCaptured, TheCapture
    <2>3. Planned(Transcript(a, o), "SPEAK", a, o)
      BY PlannedEvents
    <2>4. Said(Transcript(a, o))
      BY <2>1, <2>2, <2>3 DEF Planned, Said
    <2>5. Added(Transcript(a, o)) \/ Added(Judgement(a, o))
      BY <1>3 DEF EmitSpeech, WriteEvent, Write
    <2> QED  BY <1>1, <1>2, <2>3, <2>4, <2>5 DEF Planned
  <1>4. ASSUME NEW a \in Attempts, NEW o \in Outcomes, EmitJudge(a, o) PROVE Said(e)
    BY <1>2, <1>4 DEF EmitJudge, WriteEvent, Write
  <1>5. CASE AppendCompanion
    <2>1. op.att \in Attempts /\ op.outcome \in Outcomes
      BY <1>5 DEF AppendCompanion, IInv, ControlInv, TypeOK, Op
    <2> QED  BY <1>2, <1>5, <2>1 DEF AppendCompanion, WriteEvent, Write
  <1>6. ASSUME events' = events PROVE FALSE
    BY <1>6 DEF Elements
  <1>7. ASSUME NEW a \in Attempts,
               \/ Reserve(a) \/ Show(a) \/ Decline(a) \/ LoadTranscription(a)
               \/ \E status \in {"SUCCESS", "FAILED"} : Transcribe(a, status)
               \/ \E r \in Responses, text \in BOOLEAN : PutResponse(a, r, text)
        PROVE  events' = events
    BY <1>7 DEF Reserve, ReserveFor, Show, Decline, Dispose, LoadTranscription, Transcribe,
       AppendTranscription, PutResponse
  <1>8. ASSUME Issue \/ AppendReceipt \/ Recheck \/ RecordFailure \/ Raise \/ Crash
        PROVE  events' = events
    BY <1>8 DEF Issue, AppendReceipt, Recheck, RecordFailure, Dispose, Raise, Crash
  <1> QED  BY <1>3, <1>4, <1>5, <1>6, <1>7, <1>8 DEF Next

LEMMA SaidAlways == Spec => []SaidInv
  <1>1. Init => SaidInv
    BY DEF Init, SaidInv, Elements
  <1>2. ASSUME IInv, SaidInv, [Next]_vars PROVE SaidInv'
    <2>1. CASE UNCHANGED vars
      BY <1>2, <2>1 DEF vars, ledgers, SaidInv, Said, Elements, Transcribed, TranscribedAs
    <2>2. CASE Next
      <3> SUFFICES ASSUME NEW e \in Elements(events)' PROVE Said(e)'
        BY DEF SaidInv
      <3>1. Said(e)
        BY <1>2, <2>2, NewRecordsAreSaid DEF SaidInv
      <3>2. DurableStep /\ TypeOK
        BY <1>2, <2>2, NextStep DEF IInv
      <3> QED  BY <3>1, <3>2, TranscriptsStay DEF Said
    <2> QED  BY <1>2, <2>1, <2>2
  <1> QED  BY <1>1, <1>2, IInvHolds, PTL DEF Spec

\* The record planned for an answer or a disposition is one the ledgers back.
LEMMA PlannedCorresponds ==
    ASSUME IInv, NEW a \in Attempts, NEW o \in Outcomes, NEW e, NEW type \in {"SPEAK", "JUDGE"},
           Planned(e, type, a, o), type = "SPEAK" => a \in Speech,
           a \in Captured \/ (a \in Disposed /\ o = "ABSTAIN")
    PROVE  Corresponds(e)
  <1>1. /\ e.att = a /\ e.type = type /\ e.outcome = o /\ e.ref = RefOf(a) /\ e.code = CodeOf(a)
        /\ e.type = "JUDGE" /\ e.outcome \in Grades => e.novel = Novel(a)
    BY DEF Planned
  <1>2. CASE a \in Captured
    <2>1. /\ [att |-> a, ref |-> RefOf(a)] \in Elements(captures) /\ RefOf(a) # NoResponse
          /\ a \in Reserved \ Disposed
      BY <1>2, TheCapture
    <2> QED  BY <1>1, <2>1 DEF Corresponds, Elements
  <1>3. CASE a \in Disposed /\ o = "ABSTAIN"
    <2>1. /\ [att |-> a, code |-> CodeOf(a)] \in Elements(dispositions)
          /\ RefOf(a) = NoResponse /\ a \in Reserved \ (Speech \union Captured)
      BY <1>3, TheDisposition
    <2> QED  BY <1>1, <1>3, <2>1 DEF Corresponds, Elements
  <1> QED  BY <1>2, <1>3

\* A later call plans the very SPEAK an earlier one left behind.
LEMMA SpeakIsRepeated ==
    ASSUME IInv, SaidInv, NEW a \in Attempts, NEW s \in Recorded("SPEAK", a)
    PROVE  /\ s = Transcript(a, s.outcome) /\ s.outcome \in Outcomes
           /\ Plannable(a, s.outcome)
  <1>1. /\ s \in Elements(events) /\ s.type = "SPEAK" /\ s.att = a
        /\ s \in Event /\ Corresponds(s) /\ Said(s) /\ Backed(s)
    BY DEF Recorded, IInv, TypeOK, HistoryInv, HistoriesStayAccepted, EventsAccepted, SaidInv,
       Elements
  <1>2. s.outcome \in Outcomes /\ s.novel = FALSE /\ s.code = NoCode /\ Transcribed(a)
    BY <1>1 DEF Event, Said
  <1>3. a \in Speech /\ [att |-> a, ref |-> s.ref] \in Elements(captures)
    BY <1>1 DEF Corresponds, Elements
  <1>4. s.ref = RefOf(a) /\ CodeOf(a) = NoCode
    <2>1. a \in Captured
      BY <1>3, InElements
    <2> QED  BY <1>3, <2>1, TheCapture
  <1>5. ASSUME NEW t, Planned(t, "SPEAK", a, s.outcome) PROVE s = t
    <2>1. /\ t \in Event /\ t.type = s.type /\ t.att = s.att /\ t.outcome = s.outcome
          /\ t.ref = s.ref /\ t.code = s.code /\ t.novel = s.novel
      BY <1>1, <1>2, <1>4, <1>5 DEF Planned
    <2> QED  BY <1>1, <2>1 DEF Event
  <1>6. s = Transcript(a, s.outcome)
    BY <1>2, <1>5, PlannedEvents
  <1>7. Plannable(a, s.outcome)
    <2>1. CASE s.outcome = "ABSTAIN"
      BY <1>2, <2>1 DEF Plannable
    <2>2. CASE s.outcome \in Grades
      <3>1. [att |-> a, ref |-> s.ref, status |-> "SUCCESS"] \in Elements(transcriptions)
        BY <1>1, <1>3, <2>2 DEF Backed
      <3> QED  BY <3>1, InElements DEF Plannable
    <2> QED  BY <1>2, <2>1, <2>2 DEF Outcomes
  <1> QED  BY <1>2, <1>6, <1>7

LEMMA SpeakableNow ==
    ASSUME IInv, SaidInv, torn = {}, NEW a \in Speech \intersect Captured, Transcribed(a),
           a \in loaded, Recorded("JUDGE", a) = {}
    PROVE  \E o \in Outcomes : Speakable(a, o)
  <1>1. /\ a \in Attempts /\ HistoriesValid /\ EventsReadable
    BY AssessmentAssumption
       DEF IInv, HistoryInv, HistoriesStayAccepted, HistoriesValid, EventsReadable
  <1>2. ASSUME NEW o \in Outcomes, Plannable(a, o),
               Recorded("SPEAK", a) = {} \/ Transcript(a, o) \in Recorded("SPEAK", a)
        PROVE  Speakable(a, o)
    <2> DEFINE j == Judgement(a, o)
               t == Transcript(a, o)
    <2>1. Planned(j, "JUDGE", a, o) /\ Planned(t, "SPEAK", a, o)
      BY <1>1, PlannedEvents
    <2> HIDE DEF j, t
    <2>2. Corresponds(j) /\ Corresponds(t)
      BY <1>1, <2>1, PlannedCorresponds
    <2>3. j.type = "JUDGE" /\ j.att = a /\ t.type = "SPEAK" /\ t.att = a
      BY <2>1 DEF Planned
    <2>4. Classify(j) = "missing"
      BY <2>3, Classified
    <2>5. Classify(t) # "conflicting"
      BY <1>2, <2>3, Classified DEF t
    <2> QED  BY <1>1, <1>2, <2>2, <2>4, <2>5 DEF Speakable, j, t
  <1>3. CASE Recorded("SPEAK", a) = {}
    <2>1. "ABSTAIN" \in Outcomes /\ Plannable(a, "ABSTAIN")
      BY DEF Outcomes, Plannable
    <2> QED  BY <1>2, <1>3, <2>1
  <1>4. CASE Recorded("SPEAK", a) # {}
    <2>1. PICK s \in Recorded("SPEAK", a) : TRUE
      BY <1>4
    <2> QED  BY <1>1, <1>2, <2>1, SpeakIsRepeated
  <1> QED  BY <1>3, <1>4

\* Whatever was retried or cut short, unless a file is torn every answer and
\* every disposition can still be judged, a spoken answer after it has been
\* transcribed and its transcription loaded; the SPEAK a crash left without its
\* JUDGE is no obstacle (emit_planned_judge, emit_planned_speech_assessment).
THEOREM EvidenceIsNeverStuck == Spec => []EvidenceCanBeJudged
  <1>1. ASSUME IInv, SaidInv, torn = {}, NEW a \in Captured \union Disposed,
               Recorded("JUDGE", a) = {}
        PROVE  \/ /\ a \notin Speech
                  /\ \A o \in Outcomes :
                        a \in Captured \/ o = "ABSTAIN" => Judgeable(a, o)
               \/ Transcribable(a) \/ Loadable(a) \/ \E o \in Outcomes : Speakable(a, o)
    <2>1. /\ HistoriesValid /\ EventsReadable /\ TranscriptionsValid
      BY <1>1 DEF IInv, HistoryInv, HistoriesStayAccepted, HistoriesValid, EventsReadable,
                  TranscriptionsValid, Consistent
    <2>2. a \in Attempts
      <3>1. a \in Reserved
        BY <1>1, TheCapture, TheDisposition
      <3> QED  BY <1>1, <3>1 DEF Reserved, IInv, TypeOK
    <2>3. ASSUME a \notin Speech, NEW o \in Outcomes, a \in Captured \/ o = "ABSTAIN"
          PROVE  Judgeable(a, o)
      <3> DEFINE j == Judgement(a, o)
      <3>1. Planned(j, "JUDGE", a, o)
        BY <1>1, <2>2, PlannedEvents
      <3> HIDE DEF j
      <3>2. Corresponds(j)
        BY <1>1, <2>2, <2>3, <3>1, PlannedCorresponds
      <3>3. Classify(j) = "missing"
        BY <1>1, <3>1, Classified DEF Planned
      <3> QED  BY <2>1, <2>3, <3>2, <3>3 DEF Judgeable, j
    <2>4. ASSUME a \in Speech
          PROVE  Transcribable(a) \/ Loadable(a) \/ \E o \in Outcomes : Speakable(a, o)
      <3>1. a \in Captured
        BY <1>1, <2>4, TheDisposition
      <3> QED  BY <1>1, <2>1, <2>4, <3>1, SpeakableNow DEF Transcribable, Loadable
    <2> QED  BY <2>3, <2>4
  <1>2. IInv /\ SaidInv => EvidenceCanBeJudged
    BY <1>1 DEF EvidenceCanBeJudged
  <1> QED  BY <1>2, IInvHolds, SaidAlways, PTL
-----------------------------------------------------------------------------
(* What no step does *)

LEMMA WritersFailClosed ==
    ASSUME IInv, Next
    PROVE  /\ torn \intersect CoreFiles # {} => UNCHANGED <<core, events>>
           /\ "events" \in torn => UNCHANGED events
           /\ torn \intersect {"exposure", "captures", "transcriptions"} # {} =>
                 UNCHANGED transcriptions /\ loaded' \subseteq loaded
  <1>1. ASSUME NEW a \in Attempts, Reserve(a)
        PROVE  /\ torn \intersect CoreFiles = {}
               /\ UNCHANGED <<events, transcriptions, loaded>>
    BY <1>1 DEF Reserve, ReserveFor, HistoriesValid, memory
  <1>2. ASSUME NEW a \in Attempts, NEW code, Dispose(a, code)
        PROVE  /\ torn \intersect CoreFiles = {}
               /\ UNCHANGED <<events, transcriptions, loaded>>
    BY <1>2 DEF Dispose, HistoriesValid, memory
  <1>3. ASSUME AppendReceipt
        PROVE  /\ torn \intersect CoreFiles = {}
               /\ UNCHANGED <<events, transcriptions, loaded>>
    BY <1>3 DEF AppendReceipt, IInv, ControlInv, memory
  <1>4. ASSUME NEW a \in Attempts, NEW o \in Outcomes, EmitJudge(a, o) \/ EmitSpeech(a, o)
        PROVE  /\ torn \intersect CoreFiles = {} /\ "events" \notin torn
               /\ UNCHANGED <<core, transcriptions, loaded>>
    BY <1>4 DEF EmitJudge, Judgeable, EmitSpeech, Speakable, WriteEvent, HistoriesValid,
                EventsReadable, memory, ledgers
  <1>5. ASSUME AppendCompanion
        PROVE  /\ torn \intersect CoreFiles = {} /\ "events" \notin torn
               /\ UNCHANGED <<core, transcriptions, loaded>>
    BY <1>5 DEF AppendCompanion, IInv, ControlInv, WriteEvent, EventsReadable, memory, ledgers
  <1>6. ASSUME NEW a \in Attempts,
               LoadTranscription(a) \/ \E status \in {"SUCCESS", "FAILED"} : Transcribe(a, status)
        PROVE  /\ torn \intersect {"exposure", "captures", "transcriptions"} = {}
               /\ UNCHANGED <<core, events>>
    BY <1>6 DEF LoadTranscription, Loadable, Transcribe, Transcribable, AppendTranscription,
                TranscriptionsValid, ledgers
  <1>7. ASSUME NEW a \in Attempts,
               Show(a) \/ \E r \in Responses, text \in BOOLEAN : PutResponse(a, r, text)
        PROVE  UNCHANGED <<core, events, transcriptions, loaded>>
    BY <1>7 DEF Show, PutResponse, ledgers, memory
  <1>8. ASSUME Issue \/ Recheck \/ Raise \/ Crash
        PROVE  UNCHANGED <<core, events, transcriptions>> /\ loaded' \subseteq loaded
    BY <1>8 DEF Issue, Recheck, Raise, Crash, ledgers, memory
  <1>9. /\ \A a : Decline(a) => Dispose(a, "declined")
        /\ RecordFailure => Dispose(op.att, "infrastructure_failure") /\ op.att \in Attempts
    BY DEF Decline, RecordFailure, IInv, ControlInv
  <1> QED  BY <1>1, <1>2, <1>3, <1>4, <1>5, <1>6, <1>7, <1>8, <1>9 DEF Next

\* After an incomplete record nothing is written or loaded that could rest on
\* it, by no call, whenever it started (t12_jsonl.py, exposure.py,
\* response_capture.py, transcription_ledger.py, assessment_producer.py).
THEOREM TornFilesStopWriters == Spec => FailsClosed
  <1>1. IInv /\ [Next]_vars =>
          [/\ torn \intersect CoreFiles # {} => UNCHANGED <<core, events>>
           /\ "events" \in torn => UNCHANGED events
           /\ torn \intersect {"exposure", "captures", "transcriptions"} # {} =>
                 UNCHANGED transcriptions /\ loaded' \subseteq loaded]_vars
    BY WritersFailClosed
  <1> QED  BY <1>1, IInvHolds, PTL DEF Spec, FailsClosed

LEMMA StaysAbandoned ==
    ASSUME IInv, Next, NEW a \in Attempts, Abandoned(a)
    PROVE  Abandoned(a)'
  <1>1. /\ a \in Reserved /\ a \notin Captured /\ a \notin Disposed
        /\ permits[a] = "none" /\ ~(pc = "issue" /\ op.att = a)
    BY DEF Abandoned, Unanswered
  <1>2. \A b \in Attempts : permits[b] # "none" => b # a
    BY <1>1
  <1> DEFINE Frozen == UNCHANGED <<exposure, captures, dispositions>>
  <1>3. ASSUME Frozen, permits'[a] = "none", pc' # "issue" \/ (pc' = pc /\ op' = op)
        PROVE  Abandoned(a)'
    BY <1>1, <1>3 DEF Abandoned, Unanswered, Reserved, Captured, Disposed
  <1>4. ASSUME NEW b \in Attempts, Reserve(b)
        PROVE  Abandoned(a)'
    <2>1. /\ b # a /\ UNCHANGED <<captures, dispositions, permits>>
          /\ exposure' \in {exposure, Append(exposure, b)}
          /\ \/ pc' = "idle"
             \/ op' = [NoOp EXCEPT !.att = b]
      BY <1>1, <1>4 DEF Reserve, ReserveFor, Write, Goto, Done, memory
    <2>2. op' = [NoOp EXCEPT !.att = b] => op'.att = b
      BY DEF NoOp
    <2>3. a \in Reserved'
      <3>1. exposure \in Seq(Attempts)
        BY DEF IInv, TypeOK
      <3>2. Elements(exposure) \subseteq Elements(exposure)'
        BY <2>1, <3>1, AppendedElements DEF Elements
      <3> QED  BY <1>1, <3>2 DEF Reserved, Elements
    <2> QED
      BY <1>1, <2>1, <2>2, <2>3 DEF Abandoned, Unanswered, Captured, Disposed
  <1>5. ASSUME NEW b \in Attempts, NEW code \in Codes, Dispose(b, code)
        PROVE  Abandoned(a)'
    <2> DEFINE d == [att |-> b, code |-> code]
    <2>1. /\ b # a /\ UNCHANGED <<exposure, captures, permits>> /\ pc' = "idle"
          /\ dispositions' \in {dispositions, Append(dispositions, d)}
      BY <1>1, <1>5 DEF Dispose, Authorised, Write, Goto, Done, memory
    <2>2. dispositions \in Seq(Disposition) /\ d \in Disposition
      BY DEF IInv, TypeOK, Disposition
    <2>3. Elements(dispositions)' \subseteq Elements(dispositions) \union {d}
      BY <2>1, <2>2, AppendedElements DEF Elements
    <2>4. a \notin Disposed'
      BY <1>1, <2>1, <2>3, InElements
    <2> QED  BY <1>1, <2>1, <2>4 DEF Abandoned, Unanswered, Reserved, Captured
  <1>6. ASSUME AppendReceipt
        PROVE  Abandoned(a)'
    <2> DEFINE c == [att |-> op.att, ref |-> op.ref]
    <2>1. /\ op.att # a /\ op \in Op /\ op.att \in Attempts /\ op.ref \in Responses
          /\ UNCHANGED <<exposure, dispositions, permits>> /\ pc' # "issue"
          /\ captures' \in {captures, Append(captures, c)}
      BY <1>1, <1>6 DEF AppendReceipt, Write, Goto, Done, memory, IInv, ControlInv, TypeOK
    <2>2. captures \in Seq(Receipt) /\ c \in Receipt
      BY <2>1 DEF IInv, TypeOK, Receipt
    <2>3. Elements(captures)' \subseteq Elements(captures) \union {c}
      BY <2>1, <2>2, AppendedElements DEF Elements
    <2>4. a \notin Captured'
      BY <1>1, <2>1, <2>3, InElements
    <2> QED  BY <1>1, <2>1, <2>4 DEF Abandoned, Unanswered, Reserved, Disposed
  <1>7. ASSUME NEW b \in Attempts, Show(b) PROVE Frozen /\ permits'[a] = "none" /\ pc' = "idle"
    BY <1>1, <1>7 DEF Show, ledgers, core, IInv, TypeOK
  <1>8. ASSUME Issue PROVE Frozen /\ permits'[a] = "none" /\ pc' = "idle"
    BY <1>1, <1>8 DEF Issue, Done, Goto, ledgers, core, IInv, TypeOK
  <1>9. ASSUME Crash \/ Raise \/ Recheck PROVE Frozen /\ permits'[a] = "none" /\ pc' # "issue"
    BY <1>1, <1>9 DEF Crash, Raise, Recheck, Done, Goto, ledgers, core, memory
  <1>10. ASSUME NEW b \in Attempts, LoadTranscription(b)
         PROVE  Frozen /\ permits'[a] = "none" /\ pc' # "issue"
    BY <1>1, <1>10 DEF LoadTranscription, ledgers, core
  <1>11. ASSUME NEW b \in Attempts, NEW status \in {"SUCCESS", "FAILED"}, Transcribe(b, status)
         PROVE  Frozen /\ permits'[a] = "none" /\ pc' # "issue"
    BY <1>1, <1>11 DEF Transcribe, AppendTranscription, Write, Done, Goto, core, memory
  <1>12. ASSUME NEW b \in Attempts, NEW r \in Responses, NEW text \in BOOLEAN,
                PutResponse(b, r, text)
         PROVE  Frozen /\ permits'[a] = "none" /\ pc' # "issue"
    BY <1>1, <1>12 DEF PutResponse, Goto, ledgers, core, memory
  <1>13. ASSUME NEW b \in Attempts, NEW o \in Outcomes, EmitJudge(b, o)
         PROVE  Frozen /\ permits'[a] = "none" /\ pc' # "issue"
    BY <1>1, <1>13 DEF EmitJudge, WriteEvent, Write, Done, Goto, ledgers, core, memory
  <1>14. ASSUME NEW b \in Attempts, NEW o \in Outcomes, EmitSpeech(b, o)
         PROVE  Frozen /\ permits'[a] = "none" /\ pc' # "issue"
    BY <1>1, <1>14 DEF EmitSpeech, WriteEvent, Write, Done, Goto, ledgers, core, memory
  <1>15. ASSUME AppendCompanion PROVE Frozen /\ permits'[a] = "none" /\ pc' # "issue"
    BY <1>1, <1>15 DEF AppendCompanion, WriteEvent, Write, Done, Goto, ledgers, core, memory
  <1>16. ASSUME RecordFailure \/ \E b \in Attempts : Decline(b)
         PROVE  Abandoned(a)'
    BY <1>5, <1>16 DEF RecordFailure, Decline, IInv, ControlInv, Codes
  <1> HIDE DEF Frozen
  <1> QED
    BY <1>3, <1>4, <1>6, <1>7, <1>8, <1>9, <1>10, <1>11, <1>12, <1>13, <1>14, <1>15, <1>16
       DEF Next

\* A reservation whose permit is gone is never shown, answered or disposed of
\* again (exposure.py, response_capture.py).
THEOREM AbandonedIsFinal == Spec => AbandonedStaysAbandoned
  <1>1. IInv /\ [Next]_vars => [\A a \in Attempts : Abandoned(a) => Abandoned(a)']_vars
    BY StaysAbandoned
  <1> QED  BY <1>1, IInvHolds, PTL DEF Spec, AbandonedStaysAbandoned

-----------------------------------------------------------------------------
(* Every attempt has the life AttemptLife gives it *)

\* A consumed permit has shown its stimulus.
ShownInv == \A a \in Attempts : permits[a] = "consumed" => a \in shown

LEMMA ShownStep ==
    ASSUME TypeOK, ShownInv, [Next]_vars
    PROVE  ShownInv'
  <1>1. ASSUME permits' = permits, shown' = shown PROVE ShownInv'
    BY <1>1 DEF ShownInv
  <1>2. ASSUME NEW a \in Attempts, Show(a) PROVE ShownInv'
    BY <1>2 DEF Show, ShownInv, TypeOK
  <1>3. CASE Issue
    <2>1. shown' = shown /\ permits' = [permits EXCEPT ![op.att] = "issued"]
      BY <1>3 DEF Issue, history
    <2> QED  BY <2>1 DEF ShownInv, TypeOK
  <1>4. CASE Crash
    <2>1. \A a \in Attempts : permits'[a] = "none"
      BY <1>4 DEF Crash
    <2> QED  BY <2>1 DEF ShownInv
  <1>5. ASSUME NEW a \in Attempts,
               \/ Reserve(a) \/ Decline(a) \/ LoadTranscription(a)
               \/ \E status \in {"SUCCESS", "FAILED"} : Transcribe(a, status)
               \/ \E r \in Responses, text \in BOOLEAN : PutResponse(a, r, text)
               \/ \E o \in Outcomes : EmitJudge(a, o) \/ EmitSpeech(a, o)
        PROVE  permits' = permits /\ shown' = shown
    BY <1>5 DEF Reserve, ReserveFor, Decline, Dispose, LoadTranscription, Transcribe,
       AppendTranscription, PutResponse, EmitJudge, EmitSpeech, WriteEvent, memory, history
  <1>6. ASSUME AppendReceipt \/ Recheck \/ RecordFailure \/ AppendCompanion \/ Raise \/ UNCHANGED vars
        PROVE  permits' = permits /\ shown' = shown
    BY <1>6 DEF AppendReceipt, Recheck, RecordFailure, Dispose, AppendCompanion, WriteEvent, Raise,
       vars, memory, history
  <1> QED  BY <1>1, <1>2, <1>3, <1>4, <1>5, <1>6 DEF Next

LEMMA ShownAlways == Spec => []ShownInv
  <1>1. Init => ShownInv
    BY DEF Init, ShownInv
  <1>2. IInv => TypeOK
    BY DEF IInv
  <1> QED  BY <1>1, <1>2, IInvHolds, ShownStep, PTL DEF Spec

\* An attempt is answered or given up only after its stimulus was shown.
LEMMA AnsweredAfterShown ==
    ASSUME IInv, ShownInv, Next
    PROVE  /\ UNCHANGED captures \/ \E a \in shown, r \in artifacts :
                                        captures' = Append(captures, [att |-> a, ref |-> r])
           /\ UNCHANGED dispositions \/ \E a \in shown, code \in Codes :
                                        dispositions' = Append(dispositions, [att |-> a, code |-> code])
           /\ shown' = shown \/ \E a \in Attempts : Show(a)
  <1>1. CASE AppendReceipt
    <2>1. op.att \in shown /\ op.ref \in artifacts
      BY <1>1 DEF AppendReceipt, IInv, ControlInv, ShownInv
    <2> QED  BY <1>1, <2>1 DEF AppendReceipt, Write, history
  <1>2. ASSUME NEW a \in Attempts, NEW code \in Codes, Dispose(a, code)
        PROVE  /\ UNCHANGED captures /\ shown' = shown
               /\ UNCHANGED dispositions \/
                    (a \in shown /\ dispositions' = Append(dispositions, [att |-> a, code |-> code]))
    BY <1>2 DEF Dispose, Authorised, ShownInv, Write, history
  <1>3. ASSUME RecordFailure \/ \E a \in Attempts : Decline(a)
        PROVE  \E a \in Attempts, code \in Codes : Dispose(a, code)
    BY <1>3 DEF RecordFailure, Decline, IInv, ControlInv, Codes
  <1>4. ASSUME NEW a \in Attempts,
               \/ Reserve(a) \/ LoadTranscription(a)
               \/ \E status \in {"SUCCESS", "FAILED"} : Transcribe(a, status)
               \/ \E r \in Responses, text \in BOOLEAN : PutResponse(a, r, text)
               \/ \E o \in Outcomes : EmitJudge(a, o) \/ EmitSpeech(a, o)
        PROVE  UNCHANGED <<captures, dispositions, shown>>
    BY <1>4 DEF Reserve, ReserveFor, LoadTranscription, Transcribe, AppendTranscription, PutResponse,
       EmitJudge, EmitSpeech, WriteEvent, ledgers, core, history
  <1>5. ASSUME Issue \/ Recheck \/ AppendCompanion \/ Raise \/ Crash
        PROVE  UNCHANGED <<captures, dispositions, shown>>
    BY <1>5 DEF Issue, Recheck, AppendCompanion, WriteEvent, Raise, Crash, ledgers, core, history
  <1>6. ASSUME NEW a \in Attempts, Show(a)
        PROVE  UNCHANGED <<captures, dispositions>>
    BY <1>6 DEF Show, ledgers, core
  <1> QED  BY <1>1, <1>2, <1>3, <1>4, <1>5, <1>6 DEF Next

\* The state AttemptLife sees.
SeenStage == [a \in Attempts |-> Stage(a)]
SeenOutcomes(type) == [a \in Attempts |-> OutcomeOf(type, a)]

OutcomeIn(S) == IF S = {} THEN "undecided" ELSE (CHOOSE e \in S : TRUE).outcome

LEMMA OutcomeOfRecords ==
    \A type, a : /\ OutcomeOf(type, a) = OutcomeIn(Recorded(type, a))
                 /\ OutcomeOf(type, a)' = OutcomeIn(Recorded(type, a)')
  BY DEF OutcomeOf, OutcomeIn

LEMMA OutcomesStay ==
    ASSUME UNCHANGED events
    PROVE  UNCHANGED <<SeenOutcomes("SPEAK"), SeenOutcomes("JUDGE")>>
  BY DEF SeenOutcomes, OutcomeOf, Recorded

\* While only one attempt moves, the others keep their stage.
LEMMA StageStays ==
    ASSUME NEW a,
           a \in Captured' <=> a \in Captured,
           a \in Disposed' <=> a \in Disposed,
           a \in Reserved' <=> a \in Reserved,
           a \in shown' <=> a \in shown
    PROVE  Stage(a)' = Stage(a)
  BY DEF Stage

LEMMA StagesDisjoint ==
    ASSUME IInv, NEW a
    PROVE  /\ a \in Captured => Stage(a) = "captured"
           /\ a \in Disposed => Stage(a) = "disposed" /\ a \notin Speech
           /\ Unanswered(a) /\ a \in shown => Stage(a) = "shown"
           /\ Unanswered(a) /\ a \notin shown => Stage(a) = "reserved"
           /\ a \notin Reserved => Stage(a) = "new"
  <1>1. /\ Captured \subseteq Reserved /\ Disposed \subseteq Reserved \ (Speech \union Captured)
        /\ shown \subseteq Reserved
    BY DEF IInv, HistoryInv, HistoriesStayAccepted, Consistent, CapturesBound, ControlInv
  <1> QED  BY <1>1 DEF Stage, Unanswered

LEMMA LifeInit == Init => Life!Init
  <1> SUFFICES ASSUME Init PROVE Life!Init
    OBVIOUS
  <1>1. /\ Reserved = {} /\ Captured = {} /\ Disposed = {} /\ shown = {}
        /\ \A type, a : Recorded(type, a) = {}
    BY DEF Init, Reserved, Captured, Disposed, Recorded
  <1>2. \A a : Stage(a) = "new" /\ \A type : OutcomeOf(type, a) = "undecided"
    BY <1>1 DEF Stage, OutcomeOf
  <1> QED  BY <1>2 DEF Life!Init, Life!Undecided

SeenSame == UNCHANGED <<SeenStage, SeenOutcomes("SPEAK"), SeenOutcomes("JUDGE")>>

\* One attempt moves from a stage to the next one.
LEMMA MoveStep ==
    ASSUME NEW a \in Attempts, NEW s, NEW t, Stage(a) = s, Stage(a)' = t,
           \A b \in Attempts \ {a} : Stage(b)' = Stage(b), UNCHANGED events
    PROVE  Life!Move(a, s, t)
  <1>1. SeenStage' = [SeenStage EXCEPT ![a] = t]
    BY DEF SeenStage
  <1> QED  BY <1>1, OutcomesStay DEF Life!Move, SeenStage, SeenOutcomes

LEMMA ShowIsShow ==
    ASSUME IInv, NEW a \in Attempts, Show(a)
    PROVE  Life!Show(a) \/ SeenSame
  <1>1. /\ shown' = shown \union {a} /\ a \in Reserved
        /\ UNCHANGED <<exposure, captures, dispositions, events>>
    BY DEF Show, IInv, ControlInv, ledgers, core
  <1>2. Reserved' = Reserved /\ Captured' = Captured /\ Disposed' = Disposed
    BY <1>1 DEF Reserved, Captured, Disposed
  <1>3. \A b \in Attempts \ {a} : Stage(b)' = Stage(b)
    BY <1>1, <1>2 DEF Stage
  <1>4. CASE Unanswered(a) /\ a \notin shown
    <2>1. Stage(a) = "reserved"
      BY <1>4, StagesDisjoint
    <2>2. Stage(a)' = "shown"
      BY <1>1, <1>2, <1>4 DEF Stage, Unanswered
    <2> QED  BY <1>1, <1>3, <2>1, <2>2, MoveStep DEF Life!Show
  <1>5. CASE ~(Unanswered(a) /\ a \notin shown)
    <2>1. a \in shown \/ a \in Captured \/ a \in Disposed
      BY <1>1, <1>5 DEF Unanswered
    <2>2. Captured \intersect Disposed = {}
      BY DEF IInv, HistoryInv, HistoriesStayAccepted, Consistent
    <2>3. Stage(a)' = Stage(a)
      BY <1>1, <1>2, <2>1, <2>2 DEF Stage
    <2>4. SeenStage' = SeenStage
      BY <1>3, <2>3 DEF SeenStage
    <2> QED  BY <1>1, <2>4, OutcomesStay DEF SeenSame
  <1> QED  BY <1>4, <1>5

LEMMA ReserveIsReserve ==
    ASSUME IInv, NEW a \in Attempts \ Reserved, exposure' = Append(exposure, a),
           UNCHANGED <<captures, dispositions, events, shown>>
    PROVE  Life!Reserve(a)
  <1>1. Reserved' = Reserved \union {a}
    BY AppendedElements DEF IInv, TypeOK, Elements, Reserved
  <1>2. Captured' = Captured /\ Disposed' = Disposed
    BY DEF Captured, Disposed
  <1>3. a \notin Captured /\ a \notin Disposed /\ a \notin shown
    BY DEF IInv, HistoryInv, HistoriesStayAccepted, Consistent, CapturesBound, ControlInv
  <1>4. Stage(a) = "new"
    BY StagesDisjoint
  <1>5. Stage(a)' = "reserved"
    BY <1>1, <1>2, <1>3 DEF Stage
  <1>6. \A b \in Attempts \ {a} : Stage(b)' = Stage(b)
    BY <1>1, <1>2 DEF Stage
  <1> QED  BY <1>4, <1>5, <1>6, MoveStep DEF Life!Reserve

LEMMA CaptureIsCapture ==
    ASSUME IInv, NEW a \in Attempts, NEW r \in artifacts, Unanswered(a), a \in shown,
           captures' = Append(captures, [att |-> a, ref |-> r]),
           UNCHANGED <<exposure, dispositions, events, shown>>
    PROVE  Life!Capture(a)
  <1> DEFINE c == [att |-> a, ref |-> r]
  <1>1. captures \in Seq(Receipt) /\ c \in Receipt
    BY DEF IInv, TypeOK, Receipt
  <1>2. Captured' = Captured \union {a}
    <2>1. Elements(captures)' = Elements(captures) \union {c}
      BY <1>1, AppendedElements DEF Elements
    <2> QED  BY <2>1, InElements
  <1>3. Reserved' = Reserved /\ Disposed' = Disposed
    BY DEF Reserved, Disposed
  <1>4. Stage(a) = "shown"
    BY StagesDisjoint
  <1>5. Stage(a)' = "captured"
    BY <1>2, <1>3 DEF Stage, Unanswered
  <1>6. \A b \in Attempts \ {a} : Stage(b)' = Stage(b)
    BY <1>2, <1>3 DEF Stage
  <1> QED  BY <1>4, <1>5, <1>6, MoveStep DEF Life!Capture

LEMMA DisposeIsDispose ==
    ASSUME IInv, NEW a \in Attempts \ Speech, NEW code \in Codes, Unanswered(a), a \in shown,
           dispositions' = Append(dispositions, [att |-> a, code |-> code]),
           UNCHANGED <<exposure, captures, events, shown>>
    PROVE  Life!Dispose(a)
  <1> DEFINE d == [att |-> a, code |-> code]
  <1>1. dispositions \in Seq(Disposition) /\ d \in Disposition
    BY DEF IInv, TypeOK, Disposition
  <1>2. Disposed' = Disposed \union {a}
    <2>1. Elements(dispositions)' = Elements(dispositions) \union {d}
      BY <1>1, AppendedElements DEF Elements
    <2> QED  BY <2>1, InElements
  <1>3. Reserved' = Reserved /\ Captured' = Captured
    BY DEF Reserved, Captured
  <1>4. Stage(a) = "shown"
    BY StagesDisjoint
  <1>5. Stage(a)' = "disposed"
    BY <1>2, <1>3 DEF Stage, Unanswered
  <1>6. \A b \in Attempts \ {a} : Stage(b)' = Stage(b)
    BY <1>2, <1>3 DEF Stage
  <1> QED  BY <1>4, <1>5, <1>6, MoveStep DEF Life!Dispose

\* Every record of a slot has the outcome AttemptLife sees there.
LEMMA OneOutcome ==
    ASSUME IInv, NEW type, NEW a, NEW e \in Recorded(type, a)
    PROVE  OutcomeOf(type, a) = e.outcome
  <1>1. \A d \in Recorded(type, a) : d = e
    BY DEF IInv, HistoryInv, HistoriesStayAccepted, EventsAccepted, Recorded
  <1> QED  BY <1>1 DEF OutcomeOf

\* A new record speaks or judges.
LEMMA EventIsVerdict ==
    ASSUME IInv, NEW e \in Event, Recorded(e.type, e.att) = {}, Corresponds(e), Accompanied(e),
           events' = Append(events, e), UNCHANGED <<exposure, captures, dispositions, shown>>
    PROVE  Life!Speak(e.att, e.outcome) \/ Life!Judge(e.att, e.outcome)
  <1> DEFINE a == e.att
             o == e.outcome
  <1>e. e.type \in {"SPEAK", "JUDGE"} /\ a \in Attempts
    BY DEF Event
  <1>1. Elements(events)' = Elements(events) \union {e}
    BY AppendedElements DEF IInv, TypeOK, Elements
  <1>2. Recorded(e.type, a)' = {e}
    BY <1>1, InElements
  <1>3. \A type, b : type # e.type \/ b # a => Recorded(type, b)' = Recorded(type, b)
    BY <1>1, InElements
  <1>4. /\ OutcomeOf(e.type, a) = "undecided"
        /\ OutcomeOf(e.type, a)' = o
    BY <1>2 DEF OutcomeOf
  <1>5. \A type, b : type # e.type \/ b # a => OutcomeOf(type, b)' = OutcomeOf(type, b)
    <2> SUFFICES ASSUME NEW type, NEW b, type # e.type \/ b # a
                 PROVE  OutcomeOf(type, b)' = OutcomeOf(type, b)
      OBVIOUS
    <2>1. Recorded(type, b)' = Recorded(type, b)
      BY <1>3
    <2> QED  BY <2>1, OutcomeOfRecords
  <1>6. SeenStage' = SeenStage
    BY DEF SeenStage, Stage, Reserved, Captured, Disposed
  <1>7. SeenOutcomes(e.type)' = [SeenOutcomes(e.type) EXCEPT ![a] = o]
    BY <1>4, <1>5 DEF SeenOutcomes
  <1>8. \A type : type # e.type => SeenOutcomes(type)' = SeenOutcomes(type)
    BY <1>5 DEF SeenOutcomes
  <1>9. CASE e.type = "SPEAK"
    <2>1. a \in Speech /\ e.ref # NoResponse /\ [att |-> a, ref |-> e.ref] \in Elements(captures)
      BY <1>9 DEF Corresponds, Elements
    <2>2. Stage(a) = "captured"
      BY <2>1, InElements, StagesDisjoint
    <2>3. Recorded("JUDGE", a) = {}
      BY <1>9, <2>1 DEF IInv, HistoryInv, HistoriesStayAccepted, EventsAccepted
    <2>4. OutcomeOf("JUDGE", a) = "undecided"
      BY <2>3 DEF OutcomeOf
    <2>5. SeenOutcomes("SPEAK")' = [SeenOutcomes("SPEAK") EXCEPT ![a] = o]
          /\ SeenOutcomes("JUDGE")' = SeenOutcomes("JUDGE")
      BY <1>7, <1>8, <1>9
    <2>6. OutcomeOf("SPEAK", a) = "undecided"
      BY <1>4, <1>9
    <2> QED
      BY <1>e, <1>6, <2>1, <2>2, <2>4, <2>5, <2>6
         DEF Life!Speak, Life!Undecided, SeenStage, SeenOutcomes
  <1>10. CASE e.type = "JUDGE"
    <2>1. OutcomeOf("JUDGE", a) = "undecided"
      BY <1>4, <1>10
    <2>2. SeenOutcomes("JUDGE")' = [SeenOutcomes("JUDGE") EXCEPT ![a] = o]
          /\ SeenOutcomes("SPEAK")' = SeenOutcomes("SPEAK")
      BY <1>7, <1>8, <1>10
    <2>3. \/ a \in Speech /\ OutcomeOf("SPEAK", a) = o
          \/ a \notin Speech /\ Stage(a) = "captured"
          \/ Stage(a) = "disposed" /\ o = "ABSTAIN"
      <3>1. CASE a \in Speech
        <4>1. PICK s \in Recorded("SPEAK", a) : s.outcome = o
          BY <1>10, <3>1 DEF Accompanied
        <4> QED  BY <3>1, <4>1, OneOutcome
      <3>2. CASE a \notin Speech /\ e.ref # NoResponse
        <4>1. [att |-> a, ref |-> e.ref] \in Elements(captures)
          BY <3>2 DEF Corresponds, Elements
        <4> QED  BY <3>2, <4>1, InElements, StagesDisjoint
      <3>3. CASE a \notin Speech /\ e.ref = NoResponse
        <4>1. [att |-> a, code |-> e.code] \in Elements(dispositions) /\ o = "ABSTAIN"
          BY <3>3 DEF Corresponds, Elements
        <4> QED  BY <4>1, InElements, StagesDisjoint
      <3> QED  BY <3>1, <3>2, <3>3
    <2> QED
      BY <1>e, <1>6, <2>1, <2>2, <2>3
         DEF Life!Judge, Life!Undecided, SeenStage, SeenOutcomes
  <1> QED  BY <1>e, <1>9, <1>10

LEMMA LifeStep ==
    ASSUME IInv, ShownInv, [Next]_vars
    PROVE  [Life!Next]_(Life!vars)
  <1>v. SeenSame => UNCHANGED Life!vars
    BY DEF Life!vars, SeenSame, SeenStage, SeenOutcomes
  <1>s. ASSUME UNCHANGED <<exposure, captures, dispositions, events, shown>>
        PROVE  [Life!Next]_(Life!vars)
    <2>1. SeenStage' = SeenStage
      BY <1>s DEF SeenStage, Stage, Reserved, Captured, Disposed
    <2> QED  BY <1>s, <1>v, <2>1, OutcomesStay DEF SeenSame
  <1>1. ASSUME NEW a \in Attempts, Show(a) PROVE [Life!Next]_(Life!vars)
    BY <1>1, <1>v, ShowIsShow DEF Life!Next
  <1>2. CASE UNCHANGED vars
    BY <1>2, <1>s DEF vars, ledgers, core, history
  <1>3. CASE Next /\ shown' = shown
    <2>1. DurableStep
      BY <1>3, NextStep
    <2>2. ASSUME NEW a \in Attempts \ Reserved, exposure' = Append(exposure, a),
                 UNCHANGED <<captures, dispositions, events>>
          PROVE  [Life!Next]_(Life!vars)
      BY <1>3, <2>2, ReserveIsReserve DEF Life!Next
    <2>3. ASSUME NEW a \in Attempts, NEW r \in artifacts, Unanswered(a),
                 captures' = Append(captures, [att |-> a, ref |-> r]),
                 UNCHANGED <<exposure, dispositions, events>>
          PROVE  [Life!Next]_(Life!vars)
      <3>1. a \in shown
        <4>1. captures \in Seq(Receipt) /\ artifacts \subseteq Responses /\ shown \subseteq Attempts
          BY DEF IInv, TypeOK
        <4>2. [att |-> a, ref |-> r] \in Receipt
          BY <4>1 DEF Receipt
        <4>3. captures' # captures /\ captures'[Len(captures) + 1] = [att |-> a, ref |-> r]
          BY <2>3, <4>1, <4>2
        <4>4. PICK b \in shown, q \in artifacts : captures' = Append(captures, [att |-> b, ref |-> q])
          BY <1>3, <4>3, AnsweredAfterShown
        <4>5. [att |-> b, ref |-> q] \in Receipt
          BY <4>1 DEF Receipt
        <4>6. captures'[Len(captures) + 1] = [att |-> b, ref |-> q]
          BY <4>1, <4>4, <4>5
        <4> QED  BY <4>3, <4>6
      <3> QED  BY <1>3, <2>3, <3>1, CaptureIsCapture DEF Life!Next
    <2>4. ASSUME NEW a \in Attempts \ Speech, NEW code \in Codes, Unanswered(a),
                 dispositions' = Append(dispositions, [att |-> a, code |-> code]),
                 UNCHANGED <<exposure, captures, events>>
          PROVE  [Life!Next]_(Life!vars)
      <3>1. a \in shown
        <4>1. dispositions \in Seq(Disposition) /\ shown \subseteq Attempts
          BY DEF IInv, TypeOK
        <4>2. [att |-> a, code |-> code] \in Disposition
          BY DEF Disposition
        <4>3. /\ dispositions' # dispositions
              /\ dispositions'[Len(dispositions) + 1] = [att |-> a, code |-> code]
          BY <2>4, <4>1, <4>2
        <4>4. PICK b \in shown, x \in Codes :
                  dispositions' = Append(dispositions, [att |-> b, code |-> x])
          BY <1>3, <4>3, AnsweredAfterShown
        <4>5. [att |-> b, code |-> x] \in Disposition
          BY <4>1 DEF Disposition
        <4>6. dispositions'[Len(dispositions) + 1] = [att |-> b, code |-> x]
          BY <4>1, <4>4, <4>5
        <4> QED  BY <4>3, <4>6
      <3> QED  BY <1>3, <2>4, <3>1, DisposeIsDispose DEF Life!Next
    <2>5. ASSUME NEW e \in Event, Recorded(e.type, e.att) = {}, Corresponds(e), Accompanied(e),
                 events' = Append(events, e), UNCHANGED <<exposure, captures, dispositions>>
          PROVE  [Life!Next]_(Life!vars)
      <3>1. e.att \in Attempts /\ e.outcome \in Outcomes
        BY DEF Event
      <3> QED  BY <1>3, <2>5, <3>1, EventIsVerdict DEF Life!Next
    <2> QED  BY <1>3, <1>s, <2>1, <2>2, <2>3, <2>4, <2>5 DEF DurableStep
  <1> QED  BY <1>1, <1>2, <1>3, AnsweredAfterShown

\* For any number of attempts, failing calls and dying processes, what the
\* ledgers, permits and records say of an attempt is the life AttemptLife gives
\* it: reserved, shown, answered or given up, then judged once and, when it was
\* spoken, as its SPEAK record fixed (exposure.py, response_capture.py,
\* assessment_producer.py).
THEOREM AttemptsLiveOnce == Spec => ImplementsAttemptLife
  BY LifeInit, LifeStep, IInvHolds, ShownAlways, PTL
     DEF Spec, ImplementsAttemptLife, Life!Spec
=============================================================================
