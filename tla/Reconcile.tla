----------------------------- MODULE Reconcile -----------------------------
(***************************************************************************)
(* vocab/reconcile.py: reconcile_unit of one vocabulary unit.  Lifecycle    *)
(* states live in the unit's Anki note; the event log carries a PREPARE /   *)
(* COMMIT / ABORT journal of their transitions.  Every run first resolves   *)
(* what an earlier run left behind, otherwise it observes the unit, decides *)
(* one step per channel and materializes it.  Every append and every Anki   *)
(* call is a step of its own, may fail with or without having had its       *)
(* effect, and a process that dies leaves what such a failure leaves.       *)
(*                                                                          *)
(* Data is abstracted.  A transition is identified by what its SHA-256      *)
(* digests: the edge, the state episode it leaves (counted by the COMMITs   *)
(* of its channel) and, where one episode can yield several, its evidence.  *)
(* Evidence is what it can decide: which qualifying kinds were seen since   *)
(* the episode began, and a stability gate with a version that every review *)
(* moves.  The journal records before a behaviour starts are summed up in   *)
(* `base`.                                                                  *)
(***************************************************************************)
EXTENDS Naturals, Sequences, FiniteSets

CONSTANTS
    Order,        \* CHANNELS restricted to the unit's active channels
    Starts,       \* committed states a behaviour may start from
    HumanEdits,   \* TRUE: a person may change a state field by hand
    LateUpdates,  \* TRUE: an update may reach Anki after its caller gave up
    MaxInputs,    \* bound: reviews, assessments, edits and suspensions
    MaxFaults     \* bound: calls that fail

Channels == {Order[i] : i \in DOMAIN Order}

States == {"NEW", "LEARNING", "STABLE", "MASTERED", "DORMANT", "RELAPSE"}

ASSUME ReconcileAssumption ==
    /\ Order \in Seq(Channels) /\ Order # <<>>
    /\ \A i, j \in DOMAIN Order : Order[i] = Order[j] => i = j
    /\ Starts \subseteq [Channels -> States]
    /\ HumanEdits \in BOOLEAN /\ LateUpdates \in BOOLEAN
    /\ MaxInputs \in Nat /\ MaxFaults \in Nat

VARIABLES
    base,      \* committed state of each channel when the behaviour starts
    journal,   \* the STATE records of the unit since then, in file order
    note,      \* the state_* fields of the Anki note
    suspended, \* which channels' cards sit in the suspended queue
    seen,      \* evidence after each channel's state entry
    gate,      \* each channel's stability gate: open or not, and its version
    elapsed,   \* the dormancy boundary lies behind
    unsynced,  \* a review was recorded after the `now` of the current run
    pc,        \* "idle", "observe" (recovery is over or needs a fresh decision) or "apply"
    todo,      \* the steps the run still has to take
    late,      \* updates Anki may still apply
    inputs, faults

vars == <<base, journal, note, suspended, seen, gate, elapsed, unsynced, pc, todo, late,
          inputs, faults>>
evidence == <<seen, gate, elapsed, unsynced>>
cards == <<note, suspended, late>>
run == <<pc, todo>>

-----------------------------------------------------------------------------
(* Transitions and the journal *)

Transition == [ch : Channels, from : States, to : States, ep : Nat, detail : Seq(Nat)]

\* Only MASTERED to DORMANT transitions carry a transition_group_id; members
\* of a group share their evidence, so that stands for it.
Grouped(t) == t.to = "DORMANT"

Records(phase) == {i \in DOMAIN journal : journal[i].phase = phase}
PhaseOf(phase) == {journal[i].t : i \in Records(phase)}

Prepared == PhaseOf("PREPARE")
Committed == PhaseOf("COMMIT")
Aborted == PhaseOf("ABORT")
Pending == Prepared \ (Committed \union Aborted)

\* _journal_transactions accepts the journal: one PREPARE per transition, and
\* at most one terminal, after it.
JournalReadable ==
    \A j \in DOMAIN journal :
        LET earlier == {i \in 1 .. j - 1 : journal[i].t = journal[j].t} IN
        IF journal[j].phase = "PREPARE" THEN earlier = {}
        ELSE /\ \E i \in earlier : journal[i].phase = "PREPARE"
             /\ \A i \in earlier : journal[i].phase = "PREPARE"

\* _state_episode_provenance: the COMMITs of a channel, the state they lead
\* to and the number of the episode it is in.
Commits(c) == {i \in Records("COMMIT") : journal[i].t.ch = c}
Episode(c) == Cardinality(Commits(c))
LastCommit(c) == CHOOSE i \in Commits(c) : \A j \in Commits(c) : j <= i
Life(c) == IF Commits(c) = {} THEN base[c] ELSE journal[LastCommit(c)].t.to

\* The members of the group a dormancy transition belongs to, rebuilt from the
\* episode of every channel its evidence records.
Group(t) ==
    {[t EXCEPT !.ch = Order[i], !.ep = t.detail[i]] : i \in DOMAIN Order}

\* COMMITs chain: each leaves the state and the episode its predecessor made.
Chained ==
    \A c \in Channels : \A i \in Commits(c) :
        LET before == {j \in Commits(c) : j < i} IN
        /\ journal[i].t.ep = Cardinality(before)
        /\ IF before = {} THEN journal[i].t.from = base[c]
           ELSE \E j \in before : /\ \A k \in before : k <= j
                                  /\ journal[i].t.from = journal[j].t.to

-----------------------------------------------------------------------------
(* decide_transitions *)

Plan(c, s, detail) ==
    [ch |-> c, from |-> Life(c), to |-> s, ep |-> Episode(c), detail |-> detail]

Ungrouped(c) ==
    LET s == Life(c) IN
    CASE s \in {"NEW", "RELAPSE"} /\ "review" \in seen[c] -> {Plan(c, "LEARNING", <<>>)}
      [] s = "LEARNING" /\ gate[c].open /\ ~suspended[c] ->
            {Plan(c, "STABLE", <<gate[c].version>>)}
      [] s = "STABLE" /\ "lapse" \in seen[c] -> {Plan(c, "LEARNING", <<>>)}
      [] s = "STABLE" /\ "lapse" \notin seen[c] /\ "mastery" \in seen[c] ->
            {Plan(c, "MASTERED", <<>>)}
      [] s \in {"MASTERED", "DORMANT"} /\ "failure" \in seen[c] -> {Plan(c, "RELAPSE", <<>>)}
      [] OTHER -> {}

\* Mutant: a card that is suspended already is left out of the group.
DormancyGroupOfActiveCards ==
    {Plan(c, "DORMANT", [i \in DOMAIN Order |-> Episode(Order[i])]) :
        c \in {d \in Channels : ~suspended[d]}}

\* One group for the whole unit, identified by every channel's episode.
DormancyGroup ==
    {Plan(c, "DORMANT", [i \in DOMAIN Order |-> Episode(Order[i])]) : c \in Channels}

Decision ==
    LET steps == UNION {Ungrouped(c) : c \in Channels} IN
    IF steps = {} /\ elapsed /\ \A c \in Channels : Life(c) = "MASTERED"
    THEN DormancyGroup
    ELSE steps

-----------------------------------------------------------------------------
(* The steps of materialization and recovery.  A step has a round and, in    *)
(* that round, a turn; where transitions take turns it is in CHANNELS order. *)

Place(c) == CHOOSE i \in DOMAIN Order : Order[i] = c

Step(round, turn, do, ts) == [round |-> round, turn |-> turn, do |-> do, ts |-> ts]

\* Every phase in turn, for one set of transitions.
Together(round, phases, ts) == {Step(round, k, phases[k], ts) : k \in DOMAIN phases}

\* One phase, for each transition in its turn.
InTurn(round, phase, ts) == {Step(round, Place(t.ch), phase, {t}) : t \in ts}

\* A round for each transition.
OneByOne(phases, ts) == UNION {Together(Place(t.ch), phases, {t}) : t \in ts}

\* Mutants: every PREPARE comes first; the note is written before its PREPARE.
MaterializePreparesFirst(ts) ==
    InTurn(0, "PREPARE", ts) \union OneByOne(<<"update", "verify", "COMMIT">>, ts)
MaterializeUpdateFirst(ts) == OneByOne(<<"update", "PREPARE", "verify", "COMMIT">>, ts)

Materialize(ts) == OneByOne(<<"PREPARE", "update", "verify", "COMMIT">>, ts)

\* Mutant: recovery prepares the transition a second time.
ResumeFromScratch(t) == Materialize({t})

Resume(t) == Together(1, <<"update", "verify", "COMMIT">>, {t})

\* The rest of a transition whose target the note already shows.
Complete(t) == Together(1, <<"verify", "COMMIT">>, {t})

MaterializeGroup(ts, unprepared) ==
    InTurn(1, "PREPARE", unprepared)
      \union Together(2, <<"update", "verify", "suspend", "queues">>, ts)
      \union InTurn(3, "COMMIT", ts)

\* The code asks Anki only for the members not suspended yet; asking for all is
\* the same unless a person unsuspends one in between, for which the code fails
\* at the last look at the queues and is run again.
FinishGroup(ts, unfinished) ==
    {Step(1, 1, "verify", ts), Step(1, 2, "queues", {}), Step(1, 3, "suspend", ts),
     Step(1, 4, "queues", ts)}
      \union InTurn(2, "COMMIT", unfinished)

AbortAll(ts) == InTurn(1, "ABORT", ts)

-----------------------------------------------------------------------------
(* reconcile_unit *)

Halt == pc' = "idle" /\ todo' = {}
LookAgain == pc' = "observe" /\ todo' = {}
Work(steps) == pc' = "apply" /\ todo' = steps

\* Mutant: the note already shows the target state, so nothing is left to do.
RecoverUngroupedUnfinished(t) ==
    IF note[t.ch] = t.from THEN LookAgain
    ELSE IF note[t.ch] = t.to THEN Halt
    ELSE Work(AbortAll({t}))

\* _recover_ungrouped
RecoverUngrouped(t) ==
    IF note[t.ch] = t.from THEN LookAgain
    ELSE IF note[t.ch] = t.to THEN Work(Complete(t))
    ELSE Work(AbortAll({t}))

\* Mutant: a mixed note aborts the rest of a group that has a committed member.
RecoverGroupAbortsCommitted(g) ==
    IF g \intersect Aborted # {} THEN Work(AbortAll(g \intersect Pending))
    ELSE IF \A c \in Channels : note[c] = "MASTERED"
    THEN IF g \intersect Committed # {} THEN Halt ELSE LookAgain
    ELSE IF \A c \in Channels : note[c] = "DORMANT"
    THEN IF g \subseteq Prepared THEN Work(FinishGroup(g, g \intersect Pending)) ELSE Halt
    ELSE Work(AbortAll(g \intersect Pending))

\* _recover_pending_operation for one pending group, _recover_dormancy_group
RecoverGroup(g) ==
    IF g \intersect Aborted # {} THEN Work(AbortAll(g \intersect Pending))
    ELSE IF \A c \in Channels : note[c] = "MASTERED"
    THEN IF g \intersect Committed # {} THEN Halt ELSE LookAgain
    ELSE IF \A c \in Channels : note[c] = "DORMANT"
    THEN IF g \subseteq Prepared THEN Work(FinishGroup(g, g \intersect Pending)) ELSE Halt
    ELSE IF g \intersect Committed # {} THEN Halt
    ELSE Work(AbortAll(g \intersect Pending))

\* _reject_mixed_terminal_dormancy_groups
MixedTerminals ==
    \E t \in Committed : Grouped(t) /\ Group(t) \intersect Aborted # {}

\* A run fixes its `now`, reads the note and the journal, and looks for what an
\* earlier run left pending.  A run that only raises changes nothing.
Load ==
    /\ pc = "idle"
    /\ unsynced' = FALSE
    /\ IF ~JournalReadable \/ MixedTerminals THEN Halt
       ELSE IF Pending = {} THEN LookAgain
       ELSE LET t == CHOOSE u \in Pending : TRUE IN
            IF Pending = {t} /\ ~Grouped(t) THEN RecoverUngrouped(t)
            ELSE IF \A u \in Pending : Grouped(u) /\ u.detail = t.detail
            THEN RecoverGroup(Group(t))
            ELSE Halt
    /\ UNCHANGED <<base, journal, cards, seen, gate, elapsed, inputs, faults>>

\* _materialize_decision: nothing to do, an identity the journal knows, or work.
Start(plans) ==
    IF plans = {} \/ plans \intersect Prepared # {} THEN Halt
    ELSE IF \A t \in plans : Grouped(t) THEN Work(MaterializeGroup(plans, plans))
    ELSE Work(Materialize(plans))

\* A pending transition with its fresh decision.
Reconsider(t, plans) ==
    IF Grouped(t)
    THEN IF plans = Group(t)
         THEN Work(MaterializeGroup(plans, plans \ Prepared))
         ELSE Work(AbortAll(Group(t) \intersect Pending))
    ELSE Work(IF t \in plans THEN Resume(t) ELSE AbortAll({t}))

\* observe_unit and decide_transitions, on the note and evidence of this
\* instant; a review later than `now`, a broken COMMIT chain or a note that
\* contradicts the journal makes them raise.
Observe ==
    /\ pc = "observe"
    /\ IF unsynced \/ ~Chained \/ \E c \in Channels : note[c] # Life(c) THEN Halt
       ELSE IF Pending = {} THEN Start(Decision)
       ELSE Reconsider(CHOOSE t \in Pending : TRUE, Decision)
    /\ UNCHANGED <<base, journal, cards, evidence, inputs, faults>>

-----------------------------------------------------------------------------
(* The steps of a run.  A failed call ends the run, as the death of the     *)
(* process would.                                                           *)

\* The step of one of these names whose turn it is.
Precedes(s, r) == s.round < r.round \/ (s.round = r.round /\ s.turn <= r.turn)
Due(names) ==
    {s \in todo : pc = "apply" /\ s.do \in names /\ \A r \in todo : Precedes(s, r)}

Advance(s) ==
    /\ todo' = todo \ {s}
    /\ pc' = IF todo = {s} THEN "idle" ELSE "apply"
    /\ UNCHANGED faults

Fail ==
    /\ faults < MaxFaults
    /\ faults' = faults + 1
    /\ Halt

\* Anything but a write fails, or a write fails before it took effect.
Interrupted ==
    /\ pc # "idle"
    /\ Fail
    /\ UNCHANGED <<base, journal, cards, evidence, inputs>>

\* _append_state_event.  A COMMIT enters a state: evidence of the channel's
\* reviews and assessments counts from there, and the dormancy boundary moves.
AppendStateEvent ==
    /\ \E s \in Due({"PREPARE", "COMMIT", "ABORT"}) : \E t \in s.ts :
          /\ Advance(s) \/ Fail
          /\ journal' = Append(journal, [phase |-> s.do, t |-> t])
          /\ seen' = IF s.do = "COMMIT" THEN [seen EXCEPT ![t.ch] = {}] ELSE seen
          /\ elapsed' = (elapsed /\ s.do # "COMMIT")
    /\ UNCHANGED <<base, cards, gate, unsynced, inputs>>

Written(ts) ==
    [c \in Channels |-> IF \E t \in ts : t.ch = c THEN (CHOOSE t \in ts : t.ch = c).to
                        ELSE note[c]]

\* _update_note_states
UpdateNoteStates ==
    /\ \E s \in Due({"update"}) :
          \/ (Advance(s) \/ Fail) /\ note' = Written(s.ts) /\ UNCHANGED late
          \/ LateUpdates /\ Fail /\ late' = late \union {s.ts} /\ UNCHANGED note
    /\ UNCHANGED <<base, journal, suspended, evidence, inputs>>

\* _verify_note_states
VerifyNoteStates ==
    /\ \E s \in Due({"verify"}) :
          IF \A t \in s.ts : note[t.ch] = t.to THEN Advance(s) ELSE Halt /\ UNCHANGED faults
    /\ UNCHANGED <<base, journal, cards, evidence, inputs>>

\* _suspend_cards: an answer other than True raises like a call that failed.
SuspendCards ==
    /\ \E s \in Due({"suspend"}) :
          /\ Advance(s) \/ Fail
          /\ suspended' = [c \in Channels |-> suspended[c] \/ \E t \in s.ts : t.ch = c]
    /\ UNCHANGED <<base, journal, note, late, evidence, inputs>>

\* _read_card_queues
ReadCardQueues ==
    /\ \E s \in Due({"queues"}) :
          IF \A t \in s.ts : suspended[t.ch] THEN Advance(s) ELSE Halt /\ UNCHANGED faults
    /\ UNCHANGED <<base, journal, cards, evidence, inputs>>

-----------------------------------------------------------------------------
(* What happens around the runs.  Assessments and reactivation write through *)
(* the program and so exclude a run; Anki and its user do not.               *)

Input == inputs < MaxInputs /\ inputs' = inputs + 1

\* A lifecycle review of an active card; "lapse": it was answered Again.
Review(c, kind) ==
    /\ Input
    /\ ~suspended[c]
    /\ seen' = [seen EXCEPT ![c] = @ \union {"review", kind}]
    /\ gate' = [gate EXCEPT ![c].version = @ + 1, ![c].open = @ /\ kind # "lapse"]
    /\ unsynced' = (pc # "idle")
    /\ UNCHANGED <<base, journal, cards, elapsed, run, faults>>

\* Interval, age and lapse window of a reviewed card now pass the gate.
Mature(c) ==
    /\ Input
    /\ pc = "idle"
    /\ ~gate[c].open /\ (gate[c].version > 0 \/ base[c] # "NEW")
    /\ gate' = [gate EXCEPT ![c].open = TRUE]
    /\ UNCHANGED <<base, journal, cards, seen, elapsed, unsynced, run, faults>>

\* Novel assessments complete a streak of passes, or one fails.
Assess(c, kind) ==
    /\ Input
    /\ pc = "idle"
    /\ kind \notin seen[c]
    /\ seen' = [seen EXCEPT ![c] = @ \union {kind}]
    /\ UNCHANGED <<base, journal, cards, gate, elapsed, unsynced, run, faults>>

Elapse ==
    /\ pc = "idle"
    /\ ~elapsed /\ \A c \in Channels : Life(c) = "MASTERED"
    /\ elapsed' = TRUE
    /\ UNCHANGED <<base, journal, cards, seen, gate, unsynced, run, inputs, faults>>

\* The user suspends or unsuspends a card in Anki.
ToggleSuspension(c) ==
    /\ Input
    /\ suspended' = [suspended EXCEPT ![c] = ~@]
    /\ UNCHANGED <<base, journal, note, late, evidence, run, faults>>

\* reactivate_relapse_channel
Reactivate(c) ==
    /\ pc = "idle"
    /\ JournalReadable /\ Chained /\ \A d \in Channels : note[d] = Life(d)
    /\ Life(c) = "RELAPSE" /\ suspended[c]
    /\ suspended' = [suspended EXCEPT ![c] = FALSE]
    /\ UNCHANGED <<base, journal, note, late, evidence, run, inputs, faults>>

\* The user changes a state field in Anki.
EditState(c, s) ==
    /\ HumanEdits
    /\ Input
    /\ note[c] # s
    /\ note' = [note EXCEPT ![c] = s]
    /\ UNCHANGED <<base, journal, suspended, late, evidence, run, faults>>

LateUpdateLands(ts) ==
    /\ note' = Written(ts)
    /\ late' = late \ {ts}
    /\ UNCHANGED <<base, journal, suspended, evidence, run, inputs, faults>>

-----------------------------------------------------------------------------

Init ==
    /\ base \in Starts
    /\ note = base
    /\ suspended = [c \in Channels |-> base[c] = "DORMANT"]
    /\ seen = [c \in Channels |-> {}]
    /\ gate = [c \in Channels |-> [open |-> FALSE, version |-> 0]]
    /\ elapsed = FALSE /\ unsynced = FALSE
    /\ pc = "idle" /\ todo = {} /\ journal = <<>>
    /\ late = {}
    /\ inputs = 0 /\ faults = 0

RunStep ==
    \/ Load \/ Observe
    \/ AppendStateEvent \/ UpdateNoteStates \/ VerifyNoteStates
    \/ SuspendCards \/ ReadCardQueues

Environment ==
    \/ \E c \in Channels :
          \/ \E kind \in {"review", "lapse"} : Review(c, kind)
          \/ \E kind \in {"mastery", "failure"} : Assess(c, kind)
          \/ Mature(c) \/ ToggleSuspension(c) \/ Reactivate(c)
          \/ \E s \in States : EditState(c, s)
    \/ \E ts \in late : LateUpdateLands(ts)
    \/ Elapse

Next == RunStep \/ Interrupted \/ Environment

\* The command keeps being run, and a run that is not interrupted goes on.
Spec == Init /\ [][Next]_vars /\ WF_vars(RunStep)

-----------------------------------------------------------------------------
(* Properties *)

\* Types; and a run applies steps exactly while it has some.
TypeOK ==
    /\ base \in Starts /\ note \in [Channels -> States]
    /\ \A i \in DOMAIN journal :
          /\ journal[i].phase \in {"PREPARE", "COMMIT", "ABORT"}
          /\ journal[i].t \in Transition
    /\ suspended \in [Channels -> BOOLEAN]
    /\ seen \in [Channels -> SUBSET {"review", "lapse", "mastery", "failure"}]
    /\ gate \in [Channels -> [open : BOOLEAN, version : Nat]]
    /\ elapsed \in BOOLEAN /\ unsynced \in BOOLEAN
    /\ pc \in {"idle", "observe", "apply"} /\ (pc = "apply") = (todo # {})
    /\ \A ts \in late : ts \subseteq Transition
    /\ inputs \in 0 .. MaxInputs /\ faults \in 0 .. MaxFaults

\* Whatever is interrupted, edited or delayed, the next run can read the
\* journal: _journal_transactions accepts it, and every channel's COMMITs form
\* the chain _state_episode_provenance follows.
JournalStaysReadable == JournalReadable /\ Chained

\* Recovery never meets a state it calls ambiguous: at most one ungrouped
\* transition is pending, or only members of one dormancy group are.
PendingIsUnambiguous ==
    \A t, u \in Pending : t = u \/ (Grouped(t) /\ Grouped(u) /\ t.detail = u.detail)

\* No dormancy group ends with a COMMIT and an ABORT, the state that
\* _reject_mixed_terminal_dormancy_groups leaves to manual intervention.
GroupsEndOneWay == ~MixedTerminals

\* While nobody else writes state fields, the note departs from the journal
\* only as a pending PREPARE announced: what a crash leaves is always either
\* the source or the target of the transition under way.
NoteFollowsJournal ==
    HumanEdits \/ LateUpdates \/
    \A c \in Channels : note[c] # Life(c) =>
        \E t \in Pending : t.ch = c /\ t.from = Life(c) /\ t.to = note[c]

\* Write-ahead: whatever was edited by hand, delayed or left behind, a run
\* sends Anki no state but the target of a transition that is pending in the
\* journal and leaves the state the channel is committed to.
WritesAreAnnounced ==
    [][RunStep =>
          /\ \A c \in Channels : note'[c] # note[c] =>
                \E t \in Pending : t.ch = c /\ t.from = Life(c) /\ t.to = note'[c]
          /\ \A ts \in late' \ late : ts \subseteq Pending]_vars

\* The COMMITs of the journal move the unit as the lifecycle allows.
Promise == INSTANCE Lifecycle WITH
    life <- [c \in Channels |-> Life(c)],
    asleep <- {t.ch : t \in {u \in Committed : Grouped(u) /\ ~(Group(u) \subseteq Committed)}}
ImplementsLifecycle == Promise!Spec

\* A transition left pending is committed or aborted by later runs.
PendingIsResolved == (Pending # {}) ~> (Pending = {})
=============================================================================
