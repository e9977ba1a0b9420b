------------------------------- MODULE Decide -------------------------------
(***************************************************************************)
(* When a Unit's channel changes its lifecycle state: observe_unit and      *)
(* decide_transitions of vocab/reconcile.py, over time.  People review      *)
(* cards, suspend them and are assessed; a reconcile run observes all that  *)
(* at one instant, decides, and takes a while to carry out what it decided. *)
(* It may be interrupted; the next run then recovers, at another instant.   *)
(* Evidence counts from the instant of the COMMIT that entered the state.   *)
(*                                                                          *)
(* The module Reconcile has the single calls of a run and what is durable   *)
(* between them; here a run only prepares, updates and commits, and what    *)
(* Reconcile sums up as "seen" and "gate" is computed from the revlog, the  *)
(* assessments and the clock.  Data is abstracted: instants are ticks, a    *)
(* revlog id and an assessment id are positions in a channel's history, a   *)
(* transition id is the transition.  The clock never runs backwards.        *)
(***************************************************************************)
EXTENDS Integers, Sequences, FiniteSets, FiniteSetsExt

CONSTANTS
    Order,          \* CHANNELS
    Starts,         \* where a behaviour starts: lives, and the age of reviews
    MinInterval,    \* STABLE_MIN_INTERVAL_DAYS
    MinAge,         \* STABLE_MIN_AGE_DAYS
    LapseWindow,    \* STABLE_ZERO_LAPSE_WINDOW_DAYS
    MinPasses,      \* MASTERED_MIN_SESSION_PASSES
    MinDelay,       \* MASTERED_MIN_DELAY_BETWEEN_PASSES_DAYS
    DormantAfter,   \* MASTERED_TO_DORMANT_DAYS
    Stimuli,
    MaxNow,         \* bound: ticks
    MaxInputs,      \* bound: active channels, reviews, assessments and suspensions
    MaxFaults       \* bound: interrupted runs

Channels == {Order[i] : i \in DOMAIN Order}
States == {"NEW", "LEARNING", "STABLE", "MASTERED", "DORMANT", "RELAPSE"}
Inactive == "inactive"

ASSUME DecideAssumption ==
    /\ Order \in Seq(Channels)
    /\ \A i, j \in DOMAIN Order : Order[i] = Order[j] => i = j
    /\ Starts \subseteq [Channels -> States \union {Inactive}]
    /\ {MinInterval, MinAge, LapseWindow, MinDelay, DormantAfter} \subseteq Nat
    /\ MinPasses \in Nat \ {0}
    /\ {MaxNow, MaxInputs, MaxFaults} \subseteq Nat
    /\ \A s \in Starts :
          Cardinality({c \in Channels : s[c] # Inactive}) \in 0 .. MaxInputs

VARIABLES
    now,
    life,      \* life[c]: committed state of channel c
    entry,     \* entry[c]: instant of the COMMIT that entered it
    episode,   \* episode[c]: how many COMMITs the channel had
    reviews,   \* reviews[c]: its card's revlog
    interval,  \* interval[c]: its card's interval
    suspended, \* channels whose card is suspended
    judged,    \* judged[c]: its lifecycle assessments
    pending,   \* transitions with a PREPARE and no terminal record
    applied,   \* the note shows where the pending transitions lead
    aborted,   \* transitions that ended in an ABORT
    pc, todo,  \* the running reconcile, and what it decided and did not commit
    spent,     \* history: spent[c], what earlier transitions of c rested on
    inputs,    \* active channels, and what happened to them
    faults

cards == <<reviews, interval, suspended>>
world == <<cards, judged, inputs>>
states == <<life, entry, episode, spent>>
journal == <<pending, applied, aborted>>
vars == <<now, states, world, journal, pc, todo, faults>>

Review == [at : 0 .. MaxNow, kind : {"review", "lapse", "cram"}]
\* An assessment is novel and passed, with some stimulus; or novel and failed;
\* or of a stimulus the person had met before, or undecided, which counts for
\* nothing.
Assessment == [at : 0 .. MaxNow, verdict : Stimuli \union {"failed", "familiar"}]
Transition == [ch : Channels, from : States, to : States, ep : Nat, evidence : Seq(Int)]

TypeOK ==
    /\ now \in 0 .. MaxNow
    /\ life \in [Channels -> States \union {Inactive}]
    /\ entry \in [Channels -> 0 .. MaxNow] /\ episode \in [Channels -> Nat]
    /\ reviews \in [Channels -> Seq(Review)] /\ interval \in [Channels -> Nat]
    /\ suspended \subseteq Channels
    /\ judged \in [Channels -> Seq(Assessment)]
    /\ pending \subseteq Transition /\ aborted \subseteq Transition /\ applied \in BOOLEAN
    /\ pc \in {"idle", "prepare", "update", "commit"}
    /\ todo \subseteq Transition /\ (pc = "idle" <=> todo = {})
    /\ inputs \in 0 .. MaxInputs /\ faults \in 0 .. MaxFaults

-----------------------------------------------------------------------------
(* observe_unit *)

Active == {c \in Channels : life[c] # Inactive}

\* _load_revlog: cramming is no lifecycle evidence, and only a review answered
\* Again is a lapse.
Lifecycle(c) == {i \in DOMAIN reviews[c] : reviews[c][i].kind # "cram"}
Lapses(c) == {i \in DOMAIN reviews[c] : reviews[c][i].kind = "lapse"}
ReviewedAt(c, i) == reviews[c][i].at

\* _first_revlog_id_after
AfterEntry(c, ids) == {i \in ids : ReviewedAt(c, i) > entry[c]}

-----------------------------------------------------------------------------
(* decide_transitions *)

\* Bug: a lapse on the first instant of the window is forgotten.
RecentLapsesExclusive(c) == {i \in Lapses(c) : ReviewedAt(c, i) > now - LapseWindow}

\* lapses_last_30_days
RecentLapses(c) == {i \in Lapses(c) : ReviewedAt(c, i) >= now - LapseWindow}

\* When the age and the lapse window are over.
Boundary(c) ==
    Max({ReviewedAt(c, Min(Lifecycle(c))) + MinAge}
        \union {ReviewedAt(c, i) + LapseWindow : i \in Lapses(c)})

\* Bug: the instant of the decision is part of the transition's identity.
StabilityEvidenceNow(c) ==
    <<Min(Lifecycle(c)), Max(Lifecycle(c)), Max(Lapses(c) \union {0}), interval[c], now>>

StabilityEvidence(c) ==
    <<Min(Lifecycle(c)), Max(Lifecycle(c)), Max(Lapses(c) \union {0}), interval[c],
      Boundary(c)>>

\* _stability_gate_evidence
GateOpen(c) ==
    /\ interval[c] >= MinInterval
    /\ RecentLapses(c) = {}
    /\ c \notin suspended
    /\ Lifecycle(c) # {}
    /\ now >= Boundary(c)

\* _mastery_evidence: passes in order of time; a failure clears what was
\* selected, a known stimulus or a pass too early after the last is passed over.
Streak(c) ==
    LET scan[i \in 0 .. Len(judged[c])] ==
            IF i = 0 THEN <<>>
            ELSE LET streak == scan[i - 1]
                     a == judged[c][i]
                 IN  IF Len(streak) = MinPasses \/ a.at <= entry[c] \/ a.verdict = "familiar"
                     THEN streak
                     ELSE IF a.verdict = "failed" THEN <<>>
                     ELSE IF \E k \in DOMAIN streak :
                                \/ judged[c][streak[k]].verdict = a.verdict
                                \/ a.at - judged[c][streak[k]].at < MinDelay
                     THEN streak
                     ELSE Append(streak, i)
    IN  scan[Len(judged[c])]

\* Bug: only the latest assessment can be a failure.
FailuresNow(c) ==
    {i \in DOMAIN judged[c] : /\ judged[c][i].at > entry[c]
                               /\ judged[c][i].verdict = "failed" /\ i = Len(judged[c])}

\* _earliest_post_entry_failure picks the first of these.
Failures(c) ==
    {i \in DOMAIN judged[c] : judged[c][i].at > entry[c] /\ judged[c][i].verdict = "failed"}

\* _plan_transition
Plan(c, s, evidence) ==
    [ch |-> c, from |-> life[c], to |-> s, ep |-> episode[c], evidence |-> evidence]

PlanOf(c) ==
    LET reviewed == AfterEntry(c, Lifecycle(c))
        lapsed == AfterEntry(c, Lapses(c))
    IN  CASE life[c] = "NEW" /\ Lifecycle(c) # {} ->
               {Plan(c, "LEARNING", <<Min(Lifecycle(c))>>)}
          [] life[c] = "LEARNING" /\ GateOpen(c) -> {Plan(c, "STABLE", StabilityEvidence(c))}
          [] life[c] = "STABLE" /\ lapsed # {} -> {Plan(c, "LEARNING", <<Min(lapsed)>>)}
          [] life[c] = "STABLE" /\ lapsed = {} /\ Len(Streak(c)) = MinPasses ->
               {Plan(c, "MASTERED", Streak(c))}
          [] life[c] \in {"MASTERED", "DORMANT"} /\ Failures(c) # {} ->
               {Plan(c, "RELAPSE", <<Min(Failures(c))>>)}
          [] life[c] = "RELAPSE" /\ reviewed # {} -> {Plan(c, "LEARNING", <<Min(reviewed)>>)}
          [] OTHER -> {}

\* all_active_channels_mastered_at
AllMasteredAt == Max({entry[c] : c \in Active})

\* _dormancy_transitions: members share their evidence.
DormancyGroup ==
    {Plan(c, "DORMANT", [i \in DOMAIN Order |-> episode[Order[i]]]
                          \o <<AllMasteredAt, AllMasteredAt + DormantAfter>>) : c \in Active}

Decision ==
    LET plans == UNION {PlanOf(c) : c \in Active}
    IN  IF /\ plans = {}
           /\ Active # {} /\ \A c \in Active : life[c] = "MASTERED"
           /\ now >= AllMasteredAt + DormantAfter
        THEN DormancyGroup
        ELSE plans

-----------------------------------------------------------------------------
(* reconcile_unit *)

Grouped(ts) == \E t \in ts : t.to = "DORMANT"

Place(c) == CHOOSE i \in DOMAIN Order : Order[i] = c

\* Bug: a dormancy group is carried out one channel at a time.
BatchUngrouped(ts) == {t \in ts : \A u \in ts : Place(t.ch) <= Place(u.ch)}

\* What is carried out next: a group as a whole, else the first in CHANNELS order.
Batch(ts) ==
    IF Grouped(ts) THEN ts ELSE {t \in ts : \A u \in ts : Place(t.ch) <= Place(u.ch)}

Goto(l, plans) == pc' = l /\ todo' = plans

\* A run decides; an identity that was aborted before makes it raise.
Observe ==
    /\ pc = "idle" /\ pending = {}
    /\ Decision # {} /\ Decision \intersect aborted = {}
    /\ Goto("prepare", Decision)
    /\ UNCHANGED <<now, states, world, journal, faults>>

Prepare ==
    /\ pc = "prepare"
    /\ pending' = Batch(todo) /\ applied' = FALSE
    /\ Goto("update", todo)
    /\ UNCHANGED <<now, states, world, aborted, faults>>

\* The state fields, and for a dormancy group the cards.
Update ==
    /\ pc = "update"
    /\ applied' = TRUE
    /\ suspended' = IF Grouped(pending) THEN suspended \union {t.ch : t \in pending}
                    ELSE suspended
    /\ Goto("commit", todo)
    /\ UNCHANGED <<now, states, reviews, interval, judged, inputs, pending, aborted, faults>>

\* What a transition rests on and no later one of its channel may rest on.
Decisive(t) ==
    LET kind == IF t.to = "LEARNING" THEN "review" ELSE "assessment"
    IN  IF t.to \in {"STABLE", "DORMANT"} THEN {}
        ELSE {<<kind, t.evidence[i]>> : i \in DOMAIN t.evidence}

Members == {t.ch : t \in pending}
Of(c) == CHOOSE t \in pending : t.ch = c

Continue == IF todo = pending THEN Goto("idle", {}) ELSE Goto("prepare", todo \ pending)

CommitEntering(entered) ==
    /\ pc = "commit"
    /\ life' = [c \in Channels |-> IF c \in Members THEN Of(c).to ELSE life[c]]
    /\ entry' = [c \in Channels |-> IF c \in Members THEN entered[c] ELSE entry[c]]
    /\ episode' = [c \in Channels |-> IF c \in Members THEN episode[c] + 1 ELSE episode[c]]
    /\ spent' = [c \in Channels |-> IF c \in Members THEN spent[c] \union Decisive(Of(c))
                                    ELSE spent[c]]
    /\ pending' = {} /\ applied' = FALSE
    /\ Continue
    /\ UNCHANGED <<now, world, aborted, faults>>

\* Bug: a channel keeps the instant of its first COMMIT.
CommitKeepingEntry ==
    CommitEntering([c \in Channels |-> IF episode[c] = 0 THEN now ELSE entry[c]])

\* The COMMIT is stamped when it is appended, however late that is.
Commit == CommitEntering([c \in Channels |-> now])

Interrupt ==
    /\ pc # "idle"
    /\ faults < MaxFaults /\ faults' = faults + 1
    /\ Goto("idle", {})
    /\ UNCHANGED <<now, states, world, journal>>

\* The next run: a note that was updated is committed; otherwise the pending
\* transitions must be decided afresh, or they are aborted.
Recover ==
    /\ pc = "idle" /\ pending # {}
    /\ IF applied
       THEN Goto("commit", pending) /\ UNCHANGED <<pending, aborted>>
       ELSE IF IF Grouped(pending) THEN Decision = pending ELSE pending \subseteq Decision
       THEN Goto("update", pending) /\ UNCHANGED <<pending, aborted>>
       ELSE /\ pending' = {} /\ aborted' = aborted \union pending
            /\ UNCHANGED <<pc, todo>>
    /\ UNCHANGED <<now, states, world, applied, faults>>

-----------------------------------------------------------------------------
(* The world *)

Input == inputs < MaxInputs /\ inputs' = inputs + 1

\* Anki shows no suspended card; a lapse is an answer to a card that was learnt.
ReviewCard(c, kind, ivl) ==
    /\ c \in Active \ suspended /\ Input
    /\ kind = "lapse" => Lifecycle(c) # {}
    /\ reviews' = [reviews EXCEPT ![c] = Append(@, [at |-> now, kind |-> kind])]
    /\ interval' = [interval EXCEPT ![c] =
                      CASE kind = "cram" -> @ [] kind = "lapse" -> 0 [] OTHER -> ivl]
    /\ UNCHANGED <<now, states, suspended, judged, journal, pc, todo, faults>>

Judge(c, verdict) ==
    /\ c \in Active /\ Input
    /\ judged' = [judged EXCEPT ![c] = Append(@, [at |-> now, verdict |-> verdict])]
    /\ UNCHANGED <<now, states, cards, journal, pc, todo, faults>>

ToggleSuspension(c) ==
    /\ c \in Active /\ Input
    /\ suspended' = IF c \in suspended THEN suspended \ {c} ELSE suspended \union {c}
    /\ UNCHANGED <<now, states, reviews, interval, judged, journal, pc, todo, faults>>

Tick ==
    /\ now < MaxNow /\ now' = now + 1
    /\ UNCHANGED <<states, world, journal, pc, todo, faults>>

-----------------------------------------------------------------------------
\* A channel past NEW was first reviewed, and committed last, at instant 0.
Init ==
    /\ now = 0
    /\ life \in Starts
    /\ entry = [c \in Channels |-> 0]
    /\ episode = [c \in Channels |-> IF life[c] \in {"NEW", Inactive} THEN 0 ELSE 1]
    /\ reviews = [c \in Channels |-> IF life[c] \in {"NEW", Inactive} THEN <<>>
                                     ELSE <<[at |-> 0, kind |-> "review"]>>]
    /\ interval = [c \in Channels |-> 0]
    /\ suspended = {}
    /\ judged = [c \in Channels |-> <<>>]
    /\ pending = {} /\ applied = FALSE /\ aborted = {}
    /\ pc = "idle" /\ todo = {}
    /\ spent = [c \in Channels |-> {}]
    /\ inputs = Cardinality(Active) /\ faults = 0

Run == Observe \/ Prepare \/ Update \/ Commit \/ Recover

Next ==
    \/ Run \/ Interrupt \/ Tick
    \/ \E c \in Channels :
          \/ ToggleSuspension(c)
          \/ \E kind \in {"review", "lapse", "cram"}, ivl \in {0, MinInterval} :
                ReviewCard(c, kind, ivl)
          \/ \E verdict \in Stimuli \union {"failed", "familiar"} : Judge(c, verdict)

\* The operator reconciles again and again.
Spec == Init /\ [][Next]_vars /\ WF_vars(Run)

-----------------------------------------------------------------------------
(* Properties *)

\* MinPasses passes of one channel after its state entry, novel, in order, of
\* different stimuli, far enough apart, and no novel failure between them.
Qualifies(c) ==
    \E p \in [1 .. MinPasses -> DOMAIN judged[c]] :
        /\ \A k \in 1 .. MinPasses :
              judged[c][p[k]].verdict \in Stimuli /\ judged[c][p[k]].at > entry[c]
        /\ \A k, l \in 1 .. MinPasses : k < l =>
              /\ judged[c][p[l]].at - judged[c][p[k]].at >= MinDelay
              /\ judged[c][p[k]].verdict # judged[c][p[l]].verdict
        /\ \A i \in p[1] .. p[MinPasses] : judged[c][i].verdict # "failed"

Earned(t) ==
    LET c == t.ch
        lapsesSince(instant) == {i \in Lapses(c) : ReviewedAt(c, i) > instant}
        failed(d) == \E i \in DOMAIN judged[d] :
                        judged[d][i].verdict = "failed" /\ judged[d][i].at > entry[d]
    IN  CASE t.to = "STABLE" ->
               /\ interval[c] >= MinInterval /\ c \notin suspended
               /\ \E i \in Lifecycle(c) : now - ReviewedAt(c, i) >= MinAge
               /\ \A i \in Lapses(c) : now - ReviewedAt(c, i) > LapseWindow
          [] t.to = "MASTERED" -> lapsesSince(entry[c]) = {} /\ Qualifies(c)
          [] t.to = "DORMANT" ->
               \A d \in Active : /\ life[d] = "MASTERED" /\ now - entry[d] >= DormantAfter
                                 /\ ~failed(d)
          [] t.to = "RELAPSE" -> failed(c)
          [] t.from = "STABLE" /\ t.to = "LEARNING" -> lapsesSince(entry[c]) # {}
          [] OTHER -> \E i \in Lifecycle(c) : life[c] = "RELAPSE" => ReviewedAt(c, i) > entry[c]

\* Whatever was reviewed, assessed and suspended when, each transition the
\* code decides is one the gates of D34 and D35 allow, at every boundary.
DecisionsAreEarned == \A t \in Decision : Earned(t)

\* A review or an assessment moves its channel once: what one transition
\* rested on decides no later one, in whatever episode, however late recovery
\* committed it.  (Reviews behind a stability gate stay what they are.)
EvidenceCountsOnce == \A t \in Decision : Decisive(t) \intersect spent[t.ch] = {}

\* The clock takes no decision back and renames none: a transition that was
\* prepared is decided again, with the same identity, however long recovery
\* takes to look (D41: no current-time identity value).
PlansOutliveTime == [][now' # now => Decision \subseteq Decision']_vars

Promise == INSTANCE Lifecycle WITH asleep <- {}

\* A COMMIT closes the episode its transition was decided in: however often the
\* run was interrupted and however late recovery came to it, it moves the
\* channel out of the state the decision saw, along STATE_TRANSITIONS, and no
\* channel goes dormant unless all of its Unit were mastered and go with it.
CommitsFitTheirDecision ==
    [][\A c \in Channels : episode'[c] # episode[c] =>
          /\ \E t \in pending : /\ t.ch = c /\ t.ep = episode[c]
                                /\ t.from = life[c] /\ t.to = life'[c]
          /\ <<life[c], life'[c]>> \in Promise!Edges
          /\ life'[c] = "DORMANT" =>
                \A d \in Active : life[d] = "MASTERED" /\ life'[d] = "DORMANT"]_vars

\* A failed novel assessment that an idle Unit has on record leads its channel
\* to RELAPSE, whatever else the channels do and however runs are interrupted,
\* unless a plan that was aborted once keeps every run from starting.
FailureLeadsToRelapse ==
    \A c \in Channels :
        pc = "idle" /\ pending = {} /\ life[c] \in {"MASTERED", "DORMANT"} /\ Failures(c) # {}
            ~> life[c] = "RELAPSE" \/ Decision \intersect aborted # {}
=============================================================================
