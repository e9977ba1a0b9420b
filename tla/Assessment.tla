----------------------------- MODULE Assessment -----------------------------
(***************************************************************************)
(* The T12 assessment subsystem: vocab/exposure.py reserves an attempt and  *)
(* issues its display permit, vocab/response_capture.py captures the        *)
(* answer or disposes of the attempt, vocab/transcription_ledger.py stores  *)
(* what became of a spoken answer, vocab/assessment_producer.py emits the   *)
(* JUDGE record, for speech after a SPEAK record.  Four append-only         *)
(* ledgers, the artifact store and the event log are durable; permits and   *)
(* loaded evidence live in memory.  One process writes (D55, D57, D68),     *)
(* every append and every artifact is a step of its own, may fail with or   *)
(* without its effect, and the process may die between any two.             *)
(*                                                                          *)
(* Data is abstracted: Stimulus[a] stands for unit, channel and presented   *)
(* stimulus of an attempt, a response for its bytes and for their digest,   *)
(* an outcome for a whole verdict (OMITTED behaves as ABSTAIN), "declined"  *)
(* for the four codes a learner causes (refusal, explicit_skip,             *)
(* no_response, invalid_artifact), "FAILED" also for an UNCERTAIN           *)
(* transcription.  The evidence an attempt is judged on is final once it    *)
(* can be loaded, so planning is part of the emission; only the             *)
(* transcription, which the emission does not read again, is loaded apart.  *)
(***************************************************************************)
EXTENDS Naturals, Sequences

CONSTANTS
    Attempts,
    Speech,       \* the attempts on channel S
    Stimulus,     \* Stimulus[a]: what attempt a presents
    Responses,
    Grades,       \* verdicts other than ABSTAIN
    NoAttempt, NoResponse,
    MaxFaults     \* bound: calls that fail and processes that die

Outcomes == Grades \union {"ABSTAIN"}
Codes == {"declined", "infrastructure_failure"}
NoCode == "none"

ASSUME AssessmentAssumption ==
    /\ Speech \subseteq Attempts
    /\ Attempts \subseteq DOMAIN Stimulus
    /\ Grades \subseteq {"PASS", "FAIL"}
    /\ NoAttempt \notin Attempts /\ NoResponse \notin Responses
    /\ MaxFaults \in Nat

VARIABLES
    exposure,     \* the exposure ledger: reserved attempts in file order
    captures,     \* the capture ledger: receipts
    dispositions, \* the disposition ledger: receipts
    transcriptions, \* the transcription ledger: receipts
    artifacts,    \* responses in the artifact store
    events,       \* the T12 records of the event log
    torn,         \* the files whose last record is incomplete
    permits,      \* display permits in memory
    loaded,       \* spoken attempts whose transcription evidence is in memory
    pc, op,       \* where the running call stands, and what it works on
    shown,        \* history: attempts whose stimulus was displayed
    fresh,        \* history: attempts reserved before anyone saw their stimulus
    faults

core == <<exposure, captures, dispositions>>
ledgers == <<core, transcriptions>>
history == <<shown, fresh>>
memory == <<permits, loaded>>
vars == <<ledgers, artifacts, events, torn, memory, pc, op, history, faults>>

CoreFiles == {"exposure", "captures", "dispositions"}
Files == CoreFiles \union {"transcriptions", "events"}
Receipt == [att : Attempts, ref : Responses]
Disposition == [att : Attempts, code : Codes]
Transcription == [att : Attempts, ref : Responses, status : {"SUCCESS", "FAILED"}]
Event == [type : {"SPEAK", "JUDGE"}, att : Attempts, outcome : Outcomes,
          ref : Responses \union {NoResponse}, code : Codes \union {NoCode},
          novel : BOOLEAN]

NoOp == [att |-> NoAttempt, ref |-> NoResponse, text |-> FALSE, outcome |-> "ABSTAIN"]
Op == [att : Attempts \union {NoAttempt}, ref : Responses \union {NoResponse},
       text : BOOLEAN, outcome : Outcomes]

TypeOK ==
    /\ exposure \in Seq(Attempts)
    /\ captures \in Seq(Receipt) /\ dispositions \in Seq(Disposition)
    /\ transcriptions \in Seq(Transcription)
    /\ artifacts \subseteq Responses
    /\ events \in Seq(Event)
    /\ torn \subseteq Files
    /\ permits \in [Attempts -> {"none", "issued", "consumed"}]
    /\ loaded \subseteq Speech
    /\ pc \in {"idle", "issue", "receipt", "recheck", "infra", "companion"}
    /\ op \in Op
    /\ shown \subseteq Attempts /\ fresh \subseteq Attempts
    /\ faults \in 0 .. MaxFaults

-----------------------------------------------------------------------------
(* What readers accept *)

Reserved == {exposure[i] : i \in DOMAIN exposure}
Captured == {captures[i].att : i \in DOMAIN captures}
Disposed == {dispositions[i].att : i \in DOMAIN dispositions}

\* No slot is taken twice.
OnePerAttempt(records) ==
    \A i, j \in DOMAIN records : records[i].att = records[j].att => i = j

\* validate_capture_bindings
CapturesBound ==
    /\ OnePerAttempt(captures)
    /\ Captured \subseteq Reserved
    /\ \A i \in DOMAIN captures : captures[i].ref \in artifacts

\* validate_t12_histories, but for torn tails: exclusive slots, each receipt
\* bound to a reservation, captures to a stored response, dispositions to text
\* channels, and no attempt both captured and disposed of.
Consistent ==
    /\ \A i, j \in DOMAIN exposure : exposure[i] = exposure[j] => i = j
    /\ CapturesBound
    /\ OnePerAttempt(dispositions)
    /\ Disposed \subseteq Reserved \ (Speech \union Captured)

\* Bug: an incomplete last record is skipped, as the generic event reader does.
HistoriesReadTolerantly == Consistent

HistoriesValid == torn \intersect CoreFiles = {} /\ Consistent

\* validate_transcription_bindings: one receipt per slot, each of a captured
\* answer on channel S and of its very audio.
TranscriptionsBound ==
    /\ OnePerAttempt(transcriptions)
    /\ \A i \in DOMAIN transcriptions :
          /\ transcriptions[i].att \in Speech
          /\ [att |-> transcriptions[i].att, ref |-> transcriptions[i].ref] \in
                {captures[j] : j \in DOMAIN captures}

\* validate_transcription_ledger reads the ledgers it depends on, and no other.
TranscriptionsValid ==
    /\ torn \intersect {"exposure", "captures", "transcriptions"} = {}
    /\ CapturesBound /\ TranscriptionsBound

TranscribedAs(a, status) ==
    \E i \in DOMAIN transcriptions :
        transcriptions[i].att = a /\ transcriptions[i].status = status
Transcribed(a) == \E status \in {"SUCCESS", "FAILED"} : TranscribedAs(a, status)

\* Bug: a failed transcription does not keep the assessor from a grade.
PlannableWhenTranscribed(a, o) == Transcribed(a)

\* plan_speech_assessment: without an approved transcript it can only abstain.
Plannable(a, o) == TranscribedAs(a, "SUCCESS") \/ (Transcribed(a) /\ o = "ABSTAIN")

\* Bug: the reservation just before is overlooked.
NovelButForTheLast(a) ==
    \E i \in DOMAIN exposure :
        /\ exposure[i] = a
        /\ \A j \in 1 .. i - 2 : Stimulus[exposure[j]] # Stimulus[a]

\* Bug: an exposure counts only once it was answered.
NovelUnlessCaptured(a) ==
    \A b \in Captured \ {a} : Stimulus[b] # Stimulus[a]

\* novelty_for_reserved_attempt_history: no earlier reservation presents the
\* same stimulus.
Novel(a) ==
    \E i \in DOMAIN exposure :
        /\ exposure[i] = a
        /\ \A j \in 1 .. i - 1 : Stimulus[exposure[j]] # Stimulus[a]

\* _validate_durable_correspondence
Corresponds(e) ==
    /\ e.att \in Reserved
    /\ IF e.ref # NoResponse
       THEN [att |-> e.att, ref |-> e.ref] \in {captures[i] : i \in DOMAIN captures}
              /\ e.att \notin Disposed
       ELSE /\ e.att \notin Speech /\ e.outcome = "ABSTAIN" /\ e.att \notin Captured
            /\ [att |-> e.att, code |-> e.code] \in
                  {dispositions[i] : i \in DOMAIN dispositions}
    /\ e.type = "SPEAK" => e.att \in Speech
    /\ e.type = "JUDGE" /\ e.outcome \in Grades => e.novel = Novel(e.att)

Recorded(type, a) == {e \in {events[i] : i \in DOMAIN events} : e.type = type /\ e.att = a}

\* _validated_history: one record per slot, each backed by the ledgers, and a
\* speech JUDGE agrees with its SPEAK.
EventsAccepted ==
    /\ \A i, j \in DOMAIN events :
          events[i].type = events[j].type /\ events[i].att = events[j].att => i = j
    /\ \A i \in DOMAIN events : Corresponds(events[i])
    /\ \A a \in Speech : \A e \in Recorded("JUDGE", a) :
          \E s \in Recorded("SPEAK", a) : s.outcome = e.outcome /\ s.ref = e.ref

\* _strict_read_event_history, then _validated_history
EventsReadable == "events" \notin torn /\ EventsAccepted

\* Bug: any record in the slot counts as the planned one.
ClassifyBySlot(e) == IF Recorded(e.type, e.att) = {} THEN "missing" ELSE "exact"

\* _classify_slot
Classify(e) ==
    CASE Recorded(e.type, e.att) = {} -> "missing"
      [] e \in Recorded(e.type, e.att) -> "exact"
      [] OTHER -> "conflicting"

-----------------------------------------------------------------------------
(* Steps *)

Init ==
    /\ exposure = <<>> /\ captures = <<>> /\ dispositions = <<>>
    /\ transcriptions = <<>> /\ loaded = {}
    /\ artifacts = {} /\ events = <<>> /\ torn = {}
    /\ permits = [a \in Attempts |-> "none"]
    /\ pc = "idle" /\ op = NoOp
    /\ shown = {} /\ fresh = {}
    /\ faults = 0

Goto(l, o) == pc' = l /\ op' = o
Done == Goto("idle", NoOp)
Fault == faults < MaxFaults /\ faults' = faults + 1

\* append_strict_canonical_record and EventLog.log: the append returns; or it
\* raises and all, nothing or a part of the record is in the file.  A death in
\* the middle of an append leaves what a raising append leaves.
Write(file, added, unchanged, returns, raises) ==
    \/ added /\ returns /\ UNCHANGED <<torn, faults>>
    \/ /\ Fault /\ raises
       /\ \/ added /\ UNCHANGED torn
          \/ unchanged /\ torn' \in {torn, torn \union {file}}

Seen(a) == \E b \in shown : Stimulus[b] = Stimulus[a]

\* reserve_exposure up to the append
ReserveFor(a) ==
    /\ fresh' = IF Seen(a) THEN fresh \ {a} ELSE fresh \union {a}
    /\ Write("exposure", exposure' = Append(exposure, a), UNCHANGED exposure,
             Goto("issue", [NoOp EXCEPT !.att = a]), Done)
    /\ UNCHANGED <<captures, dispositions, transcriptions, artifacts, events, memory, shown>>

\* Bug: an attempt without outcome gets a new permit for its old reservation.
ReserveReissuing(a) ==
    /\ pc = "idle" /\ HistoriesValid
    /\ a \notin Captured \union Disposed
    /\ \/ a \notin Reserved /\ ReserveFor(a)
       \/ /\ a \in Reserved /\ permits[a] = "none"
          /\ Goto("issue", [NoOp EXCEPT !.att = a])
          /\ UNCHANGED <<ledgers, artifacts, events, torn, memory, history, faults>>

Reserve(a) ==
    /\ pc = "idle" /\ HistoriesValid
    /\ a \notin Reserved
    /\ ReserveFor(a)

\* The rest of reserve_exposure: validate again, then issue the permit.
Issue ==
    /\ pc = "issue" /\ HistoriesValid
    /\ permits' = [permits EXCEPT ![op.att] = "issued"]
    /\ Done
    /\ UNCHANGED <<ledgers, artifacts, events, torn, loaded, history, faults>>

\* DisplayPermit.consume, and the caller shows the stimulus.
Show(a) ==
    /\ pc = "idle" /\ permits[a] = "issued"
    /\ permits' = [permits EXCEPT ![a] = "consumed"]
    /\ shown' = shown \union {a}
    /\ UNCHANGED <<ledgers, artifacts, events, torn, loaded, pc, op, fresh, faults>>

\* Bug: a permit authorises before the stimulus was shown.
AnyPermit(a) == permits[a] # "none"

\* _validated_attempt_id_for_capture, _validated_attempt_id_for_disposition
Authorised(a) == permits[a] = "consumed"

\* Reserved, and neither captured nor disposed of.
Unanswered(a) == a \in Reserved \ (Captured \union Disposed)

\* capture_response up to the artifact; text: called by close_text_submission.
PutResponse(a, r, text) ==
    /\ pc = "idle" /\ HistoriesValid
    /\ Authorised(a) /\ Unanswered(a)
    /\ artifacts' = artifacts \union {r}
    /\ Goto("receipt", [NoOp EXCEPT !.att = a, !.ref = r, !.text = text])
    /\ UNCHANGED <<ledgers, events, torn, memory, history, faults>>

AppendReceipt ==
    /\ pc = "receipt"
    /\ Write("captures",
             captures' = Append(captures, [att |-> op.att, ref |-> op.ref]),
             UNCHANGED captures, Done, Goto("recheck", op))
    /\ UNCHANGED <<exposure, dispositions, transcriptions, artifacts, events, memory, history>>

\* _raise_if_bounded_capture_receipt_commit_failure: only close_text_submission
\* catches the signal.
Recheck ==
    /\ pc = "recheck"
    /\ IF HistoriesValid /\ op.att \notin Speech /\ Unanswered(op.att) /\ op.text
       THEN Goto("infra", op) ELSE Done
    /\ UNCHANGED <<ledgers, artifacts, events, torn, memory, history, faults>>

\* _append_disposition
Dispose(a, code) ==
    /\ HistoriesValid
    /\ Authorised(a) /\ a \notin Speech /\ Unanswered(a)
    /\ Write("dispositions",
             dispositions' = Append(dispositions, [att |-> a, code |-> code]),
             UNCHANGED dispositions, Done, Done)
    /\ UNCHANGED <<exposure, captures, transcriptions, artifacts, events, memory, history>>

\* record_refusal, record_explicit_skip, and close_text_submission without text
Decline(a) == pc = "idle" /\ Dispose(a, "declined")

\* _record_capture_subsystem_infrastructure_failure
RecordFailure == pc = "infra" /\ Dispose(op.att, "infrastructure_failure")

AppendTranscription(a, status) ==
    \E i \in DOMAIN captures :
        /\ captures[i].att = a
        /\ Write("transcriptions",
                 transcriptions' = Append(transcriptions,
                     [att |-> a, ref |-> captures[i].ref, status |-> status]),
                 UNCHANGED transcriptions, Done, Done)
        /\ UNCHANGED <<core, artifacts, events, memory, history>>

\* append_transcription_record
Transcribable(a) ==
    /\ TranscriptionsValid
    /\ a \in Speech \intersect Captured /\ ~Transcribed(a)

Transcribe(a, status) ==
    /\ pc = "idle" /\ Transcribable(a)
    /\ AppendTranscription(a, status)

\* load_transcription_evidence; the evidence carries its receipt from then on.
Loadable(a) ==
    /\ TranscriptionsValid
    /\ a \in Speech \ loaded /\ Transcribed(a)

LoadTranscription(a) ==
    /\ pc = "idle" /\ Loadable(a)
    /\ loaded' = loaded \union {a}
    /\ UNCHANGED <<ledgers, artifacts, events, torn, permits, pc, op, history, faults>>

-----------------------------------------------------------------------------
(* Emission.  The payloads are those of plan_text_judge, plan_policy_judge   *)
(* and plan_speech_assessment for any verdict an assessor may reach.         *)

RefOf(a) ==
    IF a \in Captured THEN (CHOOSE r \in {captures[i] : i \in DOMAIN captures} : r.att = a).ref
    ELSE NoResponse
CodeOf(a) ==
    IF a \in Disposed
    THEN (CHOOSE d \in {dispositions[i] : i \in DOMAIN dispositions} : d.att = a).code
    ELSE NoCode

Judgement(a, o) ==
    [type |-> "JUDGE", att |-> a, outcome |-> o, ref |-> RefOf(a), code |-> CodeOf(a),
     novel |-> o \in Grades /\ Novel(a)]
Transcript(a, o) == [Judgement(a, o) EXCEPT !.type = "SPEAK", !.novel = FALSE]

WriteEvent(e, returns, raises) ==
    /\ Write("events", events' = Append(events, e), UNCHANGED events, returns, raises)
    /\ UNCHANGED <<ledgers, artifacts, memory, history>>

\* emit_planned_judge; an exact rerun returns and changes nothing.
Judgeable(a, o) ==
    /\ a \notin Speech
    /\ HistoriesValid /\ Corresponds(Judgement(a, o))
    /\ EventsReadable
    /\ Classify(Judgement(a, o)) = "missing"

EmitJudge(a, o) ==
    /\ pc = "idle" /\ Judgeable(a, o)
    /\ WriteEvent(Judgement(a, o), Done, Done)

\* Bug: a stored SPEAK is taken for a finished assessment.
SpeakableOnce(a, o) ==
    /\ a \in loaded /\ Plannable(a, o)
    /\ HistoriesValid
    /\ Corresponds(Transcript(a, o)) /\ Corresponds(Judgement(a, o))
    /\ EventsReadable
    /\ Classify(Judgement(a, o)) = "missing"
    /\ Classify(Transcript(a, o)) = "missing"

\* The checks of emit_planned_speech_assessment; its SPEAK may be there already.
Speakable(a, o) ==
    /\ a \in loaded /\ Plannable(a, o)
    /\ HistoriesValid
    /\ Corresponds(Transcript(a, o)) /\ Corresponds(Judgement(a, o))
    /\ EventsReadable
    /\ Classify(Judgement(a, o)) = "missing"
    /\ Classify(Transcript(a, o)) # "conflicting"

\* emit_planned_speech_assessment up to its first append
EmitSpeech(a, o) ==
    /\ pc = "idle" /\ Speakable(a, o)
    /\ IF Classify(Transcript(a, o)) = "missing"
       THEN WriteEvent(Transcript(a, o),
                Goto("companion", [NoOp EXCEPT !.att = a, !.outcome = o]), Done)
       ELSE WriteEvent(Judgement(a, o), Done, Done)

\* _confirm_speak_append, then the JUDGE
AppendCompanion ==
    /\ pc = "companion" /\ EventsReadable
    /\ Classify(Transcript(op.att, op.outcome)) = "exact"
    /\ Recorded("JUDGE", op.att) = {}
    /\ WriteEvent(Judgement(op.att, op.outcome), Done, Done)

\* A read or a check of the running call fails and raises.
Raise ==
    /\ pc # "idle" /\ Fault /\ Done
    /\ UNCHANGED <<ledgers, artifacts, events, torn, memory, history>>

Crash ==
    /\ Fault /\ Done
    /\ permits' = [a \in Attempts |-> "none"] /\ loaded' = {}
    /\ UNCHANGED <<ledgers, artifacts, events, torn, history>>

Next ==
    \/ \E a \in Attempts :
          \/ Reserve(a) \/ Show(a) \/ Decline(a) \/ LoadTranscription(a)
          \/ \E status \in {"SUCCESS", "FAILED"} : Transcribe(a, status)
          \/ \E r \in Responses, text \in BOOLEAN : PutResponse(a, r, text)
          \/ \E o \in Outcomes : EmitJudge(a, o) \/ EmitSpeech(a, o)
    \/ Issue \/ AppendReceipt \/ Recheck \/ RecordFailure \/ AppendCompanion
    \/ Raise \/ Crash

Spec == Init /\ [][Next]_vars

-----------------------------------------------------------------------------
(* Properties *)

\* However calls fail and processes die, what the writers leave behind passes
\* every check of the readers but the one for a complete last record: no slot
\* twice, no receipt without its reservation or its bytes, no attempt both
\* captured and disposed of, no transcription of other audio, no event the
\* ledgers do not back, no speech JUDGE that disagrees with its SPEAK.
HistoriesStayAccepted == Consistent /\ TranscriptionsBound /\ EventsAccepted

\* Nobody grades speech that nobody could transcribe: whatever was loaded
\* when, and whichever half of the pair a crash left behind, a PASS or FAIL
\* on S has an approved transcript of that answer in the ledger (D65, D66).
GradedSpeechWasTranscribed ==
    \A i \in DOMAIN events :
        events[i].att \in Speech /\ events[i].outcome \in Grades =>
            \E j \in DOMAIN transcriptions :
                transcriptions[j] =
                    [att |-> events[i].att, ref |-> events[i].ref, status |-> "SUCCESS"]

\* A verdict says novel only if nobody had seen the stimulus when the attempt
\* was reserved: exposures count even when they were abandoned or never
\* answered (D55).
NoFalseNovelty ==
    \A i \in DOMAIN events : events[i].novel => events[i].att \in fresh

\* Of the attempts that present one stimulus at most one is ever judged novel,
\* in whatever order their permits were issued, used or lost (D55: novelty goes
\* by the physical order of the reservations).
OneNovelAttempt ==
    \A e, f \in {events[i] : i \in DOMAIN events} :
        e.novel /\ f.novel /\ Stimulus[e.att] = Stimulus[f.att] => e.att = f.att

\* A crash never leaves answered work unjudgeable: as long as no file is torn,
\* a written answer can be judged in any way and a disposition by ABSTAIN until
\* it is, and for a spoken one some verdict is accepted, also between a SPEAK
\* and its JUDGE, once it is transcribed and its transcription is loaded, and
\* that can be done.  (The checks are what a call may fail on; an append behind
\* them may always return.)
EvidenceCanBeJudged ==
    pc = "idle" /\ torn = {} =>
        \A a \in Captured \union Disposed :
            \/ Recorded("JUDGE", a) # {}
            \/ /\ a \notin Speech
               /\ \A o \in Outcomes : a \in Captured \/ o = "ABSTAIN" => Judgeable(a, o)
            \/ Transcribable(a) \/ Loadable(a) \/ \E o \in Outcomes : Speakable(a, o)

\* Once a record is incomplete nothing is written that could depend on it: a
\* torn exposure, capture or disposition ledger stops all three and the event
\* log, a torn event log stops itself, and transcriptions are neither written
\* nor loaded when they, the exposures or the captures are torn (D62, D65,
\* D68: history is never repaired, writers fail closed).
FailsClosed ==
    [][/\ torn \intersect CoreFiles # {} => UNCHANGED <<core, events>>
       /\ "events" \in torn => UNCHANGED events
       /\ torn \intersect {"exposure", "captures", "transcriptions"} # {} =>
             UNCHANGED transcriptions /\ loaded' \subseteq loaded]_vars

Abandoned(a) ==
    /\ Unanswered(a) /\ permits[a] = "none"
    /\ ~(pc = "issue" /\ op.att = a)

\* A reservation whose permit died with its process stays abandoned: no later
\* process obtains a permit for it, captures it or disposes of it (D55, D60).
AbandonedStaysAbandoned ==
    [][\A a \in Attempts : Abandoned(a) => Abandoned(a)']_vars

OutcomeOf(type, a) ==
    IF Recorded(type, a) = {} THEN "undecided"
    ELSE (CHOOSE e \in Recorded(type, a) : TRUE).outcome

Stage(a) ==
    CASE a \in Captured -> "captured"
      [] a \in Disposed -> "disposed"
      [] a \in shown \ (Captured \union Disposed) -> "shown"
      [] a \in Reserved \ (shown \union Captured \union Disposed) -> "reserved"
      [] OTHER -> "new"

Life == INSTANCE AttemptLife WITH
    stage <- [a \in Attempts |-> Stage(a)],
    spoken <- [a \in Attempts |-> OutcomeOf("SPEAK", a)],
    judged <- [a \in Attempts |-> OutcomeOf("JUDGE", a)]

\* The ledgers, permits and records together give every attempt the life of
\* AttemptLife: reserved, shown, answered or disposed of, then judged once.
ImplementsAttemptLife == Life!Spec
=============================================================================
