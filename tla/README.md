# A TLA+ development of the vocabulary system

The program is a command-line system around one Anki collection. A *unit* of
vocabulary is an Anki note with up to four *channels* (R, L, W, S: one card
each). The program generates units, follows how they are learned, assesses
them, and writes everything it decides to append-only journals beside Anki.
Anki and the journals share no transaction, calls to Anki may time out and take
effect later, appends may fail or tear, processes die, and people edit notes in
Anki at any time. What is hard here is what happens between two such calls,
and that is what these modules are about.

Source paths below are relative to the repository; `vocab/` is the program.

## 1. The system

| Component | State it keeps | Operations | Talks to |
| --- | --- | --- | --- |
| Forge (`vocab/forge/pipeline.py`, `recovery.py`) | FORGE records of the event log: COMMIT_INTENT, acceptance, COMMIT_UNCERTAIN, INTENT_ABANDONED, rejections | `forge`, `repair_evidence`, `abandon_intent` | event log, Anki `findNotes` / `addNotes`, a confirming person, a generator |
| Reconciliation (`vocab/reconcile.py`, `runtime/reconcile_runner.py`) | STATE records (PREPARE, COMMIT, ABORT) of the event log; `state_*` fields and card queues in Anki | `reconcile_unit` (recover, observe, decide, materialize), `reactivate_relapse_channel` | event log, Anki notes, cards, revlog |
| Deployment (`runtime/bootstrap.py`, `identity.py`, `lock.py`, `layout.py`, `operation.py`, `preflight.py`) | the data root: eight durable entries, the last of them the identity; `runtime.lock` | `bootstrap`, `write_operation` around every writing command, preflight | file system, Anki (preflight only) |
| Event log (`vocab/events.py`) | `events.jsonl` | `log`, `read`, strict reads | used by all of the above and the producers |
| Anki client (`vocab/anki.py`) | none | one request and one reply per call, a timeout | AnkiConnect |
| T12 ledgers (`exposure.py`, `response_capture.py`, `capture_ledger.py`, `disposition_ledger.py`, `t12_jsonl.py`, `artifact_store.py`) | exposure, capture and disposition ledgers; artifacts by digest | reserve an exposure, capture a response, record a disposition, resume | file system, display permits in memory |
| Assessment production (`assessment_producer.py`, `_planning`, `_evidence`, `_identity`) | JUDGE and SPEAK records of the event log | emit a planned judge or speech assessment once | event log, T12 ledgers |
| Transcription, speech planning (`transcription_ledger.py`, `transcription_evidence.py`, `speech_planning.py`) | transcription ledger; loaded evidence in memory | append one transcription per slot, load it, plan from it | T12 ledgers, artifacts |
| Semantic evaluation, human review | none of their own | validate requests, responses, reviews | artifacts |
| Corpus encounters (`corpus.py`, `runtime/corpus_runner.py`) | ENCOUNTER records of the event log | scan, plan, emit | Anki (registry), files |
| Context batches (`context_batch.py`, `context.py`, `t8_cli.py`) | context fields in Anki | export, import | Anki, a confirming person |
| Audio hydration (`hydrate.py`, `tts.py`, `t8_cli.py`) | media files, audio fields in Anki | `hydrate_audio` | Anki, a synthesizer |
| Leech rescue (`leech.py`) | none | a projection of tags and lapses | Anki |
| Contracts, models, validators | none | the lifecycle states and edges; validation of fields | - |
| Command line (`cli.py`, `runtime/*`) | none | configuration, commands, exit codes | all |

How they interact. Every writing command runs in `write_operation`: read the
identity, take the lock, run the write preflight (every durable entry present,
the journal strictly readable), do the work, release the lock. Forge,
Reconciliation, assessment production and corpus emission append to the one
event log and read back only their own records. Reconciliation reads the
assessments (JUDGE) that production appended, and reviews from Anki's revlog.
Forge creates the notes that all the others work on. People act in Anki
without any lock, and act on the data root when no command runs.

What makes each component correct:

* *Forge*: Anki is asked for a note only after a durable intent; each attempt
  asks at most once and ends at most once; the history of a unit stays readable
  for recovery whatever fails; reports tell the truth.
* *Reconciliation*: the journal stays readable and its COMMITs form one chain
  of lifecycle edges; note and journal depart only as a pending PREPARE
  announced; what is pending is unambiguous and gets resolved; a unit goes
  dormant as a whole. Every decided transition is one the gates allow at that
  instant, no evidence moves a channel twice, and time alone changes no plan.
* *Deployment*: a root with an identity is complete and the work of a single
  bootstrap; commands work alone and only on such a root; nothing that fails or
  races takes a committed deployment away.
* *T12 ledgers*: an exposure is captured or disposed of once, and a crash
  between two appends leaves something that can be resumed or closed.
* *Assessment production*: one result per slot, also after an interruption; a
  grade on speech rests on a successful transcription of that very answer.
* *Corpus*: a scan that stopped half-way is completed, not counted twice; the
  counts of one source come from one snapshot; a scan with a conflict writes
  nothing; a count is the most occurrences that share no token.
* *Context import, hydration*: a write suits the note although the note may
  have changed while a person or a model took its time; an audio field refers
  to a recording that exists; a recording is never replaced.

`PROJECT.json` lists the hazards at their lines with the properties that cover
them.

## 2. The modules

| Module | Role |
| --- | --- |
| `Forge` | the commit protocol of Forge with journal, lock and Anki |
| `ForgeCommit` | its abstract specification: attempts that are opened, asked for and closed |
| `ForgeProofs` | theorems about `Forge` and its refinement of `ForgeCommit` |
| `Reconcile` | reconciliation of one unit |
| `Lifecycle` | its abstract specification: channels that move along lifecycle edges |
| `ReconcileProofs` | theorems about `Reconcile` and its refinement of `Lifecycle` |
| `Decide` | when a channel changes its state: evidence, thresholds and the clock |
| `DecideProofs` | theorems about `Decide` |
| `Deployment` | data root, bootstrap, identity, lock, write commands |
| `DeploymentProofs` | theorems about `Deployment` |
| `Assessment` | T12: exposures, permits, captures, dispositions, transcriptions, JUDGE and SPEAK records |
| `AttemptLife` | its abstract specification: attempts that are reserved, shown, answered, judged once |
| `AssessmentProofs` | theorems about `Assessment` and its refinement of `AttemptLife` |
| `Occurrences` | the D19 matcher and counter as operators, and what they promise |
| `Corpus` | scanning a month and emitting its encounters; extends `Occurrences` |
| `EncounterLedger` | its abstract specification: encounters that a scan adds for the registry it began with |
| `CorpusProofs` | theorems about `Occurrences` and `Corpus`, and its refinement of `EncounterLedger` |
| `Hydration` | contexts and recording of one note, by concurrent commands |
| `HydrationProofs` | theorems about `Hydration` |
| `Iteration` | lemmas: least numbers, functions defined by recursion, induction over the turns of a loop |
| `MCForge`, `MCReconcile`, `MCDecide`, `MCDeployment`, `MCAssessment`, `MCCorpus`, `MCHydration` | instances for TLC |

Conventions. Each external call of a handler is one action, because a process
may die, and others may act, between two calls; what a handler computes between
two calls belongs to the action of the call before it. A handler's position is
in `pc`; what it carries from call to call is in `op`, `todo` or `stage`. A
definition that starts with "Bug:" or "Mutant:" is a plausible mistake in the
definition that follows it or that it is named after. No specification uses it: replacing the definition
by it makes TLC find a violation of the property `PROJECT.json` pairs it with.

### 2.1 Forge

`log` is the sequence of FORGE records, reduced to kind, unit key, attempt and
note; `tail` says whether the file ends in a partial record. `notes` remembers
every note Anki ever had with its author, so that "created by this attempt" can
be said after deletion. `req` is the one `addNotes` request an attempt sends,
which lives its own life in Anki: `ReceiveAdd` may give up on it at any time
(timeout, broken connection, malformed reply) while `AnkiCreates` still serves
it later. `lock` is the owner recorded in `runtime.lock`.

| Code | Actions |
| --- | --- |
| `_command_forge_import`, `write_operation` | `BeginForge` .. `Return` |
| `forge`: generation and validation; `inspect_pending_intent`; the pending report; duplicate search; confirmation | `Validate`, `Inspect`, `ReportPending`, `FindDuplicates`, `Confirm` |
| `_AttemptAllocator.get` | `Allocatable` |
| `_emit_rejection`; intent; `add_notes`; uncertainty record; acceptance | `Reject`, `LogIntent`, `SendAdd` / `ReceiveAdd`, `LogUncertain`, `LogAcceptance` |
| `repair_evidence` | `BeginRepair`, `ReadHistory`, `RepairRead`, `RepairFind`, `RepairLog` |
| `abandon_intent` | `BeginAbandon`, `ReadHistory`, `AbandonRead`, `AbandonFind`, `AbandonLog` |
| `EventLog.log` | `LogReturns`, `LogRaises`: nothing, everything or a part was written |
| death of a process | `Crash`, also in the middle of an append (`DiesAppending`) |
| the operator | `ClearStaleLock`, `TrimTornTail` |
| people in Anki | `HumanAdds`, `HumanDeletes` |

`repair_evidence` and `abandon_intent` take no lock themselves and no command
calls them; `RecoveryTakesLock` says whether whoever calls them holds the
deployment lock. Both values are checked.

`ForgeCommit` knows attempts only. `Forge` implements it under the mapping
`AttemptStatus` (a terminal record outranks the intent), `AttemptKey` and the
set of attempts whose request was sent.

### 2.2 Reconcile

One unit. `journal` holds the STATE records since the behaviour began (`base`
sums up the earlier ones), `note` the state fields, `suspended` the queues. A
transition is what its SHA-256 identity covers: edge, episode it leaves, and the
evidence where one episode can yield several (a stability gate's evidence
changes with every review; a dormancy group's with every channel's episode).
Evidence itself is reduced to what decides: which kinds were seen since the
state was entered (`seen`), the stability gate and its version (`gate`), and
whether the dormancy boundary has passed (`elapsed`).

A run is `Load` (fix `now`, read note and journal, choose the recovery branch),
`Observe` (`observe_unit` and `decide_transitions`) and then the steps in
`todo`. That is a set: each step has its round and its turn in the round, and
`Advance` takes the first. The code's nested loops over channels and phases are
so three ways of giving turns: all transitions of a round together, a phase at a
time (`Together`); one phase, a turn for each channel (`InTurn`); a round of its
own for each channel (`OneByOne`). From these `Materialize`, `MaterializeGroup`,
`Resume`, `Complete`, `FinishGroup` and `AbortAll` lay out what the code does:

| Code | Definition |
| --- | --- |
| `_journal_transactions`, `_state_episode_provenance` | `JournalReadable`, `Chained`, `Episode`, `Life` |
| `decide_transitions`, `_dormancy_transitions` | `Ungrouped`, `DormancyGroup`, `Decision` |
| `_recover_pending_operation`, `_reject_mixed_terminal_dormancy_groups` | `Load`, `MixedTerminals` |
| `_recover_ungrouped` | `RecoverUngrouped`, `Reconsider`, `Resume` |
| `_recover_dormancy_group` | `RecoverGroup`, `Reconsider`, `FinishGroup` |
| `_materialize_decision`, `_reject_reused_transition_ids` | `Start` |
| `_append_state_event`, `_update_note_states`, `_verify_note_states`, `_suspend_cards`, `_read_card_queues` | `AppendStateEvent`, `UpdateNoteStates`, `VerifyNoteStates`, `SuspendCards`, `ReadCardQueues` |
| `reactivate_relapse_channel` | `Reactivate` |

A write step may succeed, fail after its effect (`Fail`), or fail before it
(`Interrupted`); the death of the process leaves exactly what such a failure
leaves, since a run keeps nothing but the journal and Anki. The reads that open
a run are one step: nothing the run itself does lies between them, and what
another writer changes between them the run cannot tell from a change before
or after. Reviews, hand edits and suspensions may happen at any moment of a run;
assessments and reactivation write through the program, under the lock, and so
only between runs.

`Lifecycle` is the abstract specification: single channels advance along
`STATE_TRANSITIONS`, and once one channel fell asleep the others follow before
anything else moves. `Reconcile` implements it through `Life`, the state its
COMMITs lead to.

### 2.3 Deployment

`maker[e]` is the bootstrap that created entry `e` of `DURABLE_LAYOUT_ENTRY_NAMES`
and `synced` the entries whose directory entry is durable. A bootstrap goes
through phase 0, root, lock, second residue check, the seven entries in order,
validation (which does not look at the session directory), publication of the
identity (temporary file, `os.link`, unlink, fsync of the directory, readback),
release, and the last check for missing entries. A write command goes through
`ReadIdentity`, `AcquireForOperation`, `Preflight`, `Work`. `Raise` ends a
command at any step, `Crash` leaves its lock, `PowerLoss` stops everything and
may drop directory entries that were not fsynced. The operator removes a lock or
an incomplete root only when nothing runs, as the error messages ask.

### 2.4 Assessment

`exposure`, `captures`, `dispositions` and `events` are the files in order,
`transcriptions` the fourth ledger, `artifacts` the store, `torn` the files
whose last record is incomplete, `permits` the `DisplayPermit` objects of the
living process and `loaded` the transcription evidence it holds. `shown` and `fresh`
are history for the novelty property. There is one process: D55, D57 and D68
exclude concurrent writers and these modules take no lock. A call is idle at
`pc = "idle"` or between two of its writes:

| Code | Definition |
| --- | --- |
| `validate_t12_histories` with its three readers | `HistoriesValid`, `Consistent` |
| `reserve_exposure` | `Reserve` (append), `Issue` (second validation, permit) |
| `DisplayPermit.consume` and the caller's display | `Show` |
| `capture_response` | `PutResponse`, `AppendReceipt` |
| `_raise_if_bounded_capture_receipt_commit_failure` | `Recheck` |
| `_append_disposition` for a learner's reason, for a failed capture | `Decline`, `RecordFailure` |
| `append_transcription_record` | `TranscriptionsValid`, `Transcribe` |
| `load_transcription_evidence` | `LoadTranscription` |
| `plan_speech_assessment` | `Plannable` |
| `_strict_read_event_history`, `_validated_history`, `_validate_durable_correspondence`, `_classify_slot` | `EventsReadable`, `EventsAccepted`, `Corresponds`, `Classify` |
| `emit_planned_judge` | `EmitJudge` |
| `emit_planned_speech_assessment`, `_confirm_speak_append` | `EmitSpeech`, `AppendCompanion` |
| `append_strict_canonical_record`, `EventLog.log` | `Write`: returns, or raises after all, nothing or a part was written |
| a read or check that raises; the death of the process | `Raise`, `Crash` |

Planning (`plan_text_judge`, `plan_policy_judge`, `plan_speech_assessment`) is
pure and its evidence is final once it can be loaded: receipts are never
rewritten and reservations only follow an existing one. So `EmitJudge` and
`EmitSpeech` take the verdict as a parameter, and emission with another verdict
is a second plan for the same attempt. Speech is planned from evidence that was
loaded earlier and is not read again: `Plannable` lets only a successful
transcription lead to a grade, and any loaded one to ABSTAIN. The transcription
ledger is read with the ledgers it depends on only, so a torn disposition ledger
does not stop a transcription. What such a call may fail on before it writes has
a name of its own, so that properties can speak of it: `Transcribable`,
`Loadable`, `Judgeable` and `Speakable` are the guards of `Transcribe`,
`LoadTranscription`, `EmitJudge` and `EmitSpeech`. An emission that finds its records in
place returns without a change and is no action.

`AttemptLife` forgets files and permits: an attempt is new, reserved, shown,
captured or disposed of, and has at most one SPEAK and one JUDGE verdict.

### 2.5 Occurrences and Corpus

`Occurrences` translates `unit_match_spans` (chunks with at most `MaxInserted`
foreign tokens in a row of targets, frames with a slot of 1 to `MaxSlot`) and
`count_unit_occurrences`, both loops as recursive functions of which each value
is one turn of the loop (`Follow`, `Consume`). Beside them stands what they
promise: `AllOccurrences`, the spans where the unit can be read, and
`MostDisjoint`, the size of a largest set of them that share no token.

`Corpus` is one month. `registry` and `files` change at any moment, since
neither Anki nor the directory is locked against people.

| Code | Definition |
| --- | --- |
| `run_corpus_scan`, strict reading, `read_registry_snapshot`, listing the month | `Begin` |
| `read_corpus_snapshot`, one file | `ReadFile` |
| `count_scan`, `build_encounter_plans` | `Count`, `Plan`, `Plans` |
| `_validated_t10_history`, `_preflight_emission` | `HistoryFits`, `Conflict`, `Preflight`, `Missing`, `StartEmission` |
| `emit_scan`, one append; the report | `AppendEncounter`, `Report` |
| people | `EditUnit`, `EditFile` |

A scan reads the files still in `todo` in the order of their names
(`FirstFile`) and appends what is `missing` in the order of unit keys (`First`).
The snapshot digest names every file and its bytes, so it is the directory
itself; the encounter id is the digest of unit and source, so it is that pair.
Scans exclude each other: the command holds the deployment lock.

`EncounterLedger` knows no files, log or failures: a registry, the scan that took
it over, and the set of stored encounters, to which a scan adds the best count of
one Unit, in the snapshot its source was first counted in, unless something
stored under that source contradicts its registry. `Corpus` implements it with
`MostInMonth`, the count by definition, as `Best`: so the counter, the preflight
and the record that is finally written are checked against one another.

### 2.6 Decide

What `Reconcile` sums up as `seen`, `gate` and `elapsed` is computed here from
the revlog, the assessments, the queues and the clock: `RecentLapses`,
`Boundary`, `GateOpen`, `Streak`, `Failures`, `AllMasteredAt` are the
comparisons of `reconcile.py` with their inclusive and exclusive ends. A run
(`Observe`, `Prepare`, `Update`, `Commit`, `Recover`) has fewer steps than in
`Reconcile`, but time passes between them: `entry`, from which evidence counts,
is the instant of the COMMIT, which recovery may write long after the decision.
`PlanOf` gives the plan with its evidence, which stands for the transition's
identity; an identity that was aborted makes a run raise (`Observe` is then not
enabled). `todo` holds the decided transitions; `Batch` takes the dormancy group
as a whole and other channels one after the other, as the code does. `MCDecide` gives the thresholds small values that keep their order of
magnitude apart: one tick for the lapse window and the delay, two for the age.

### 2.7 Hydration

One note and its recordings, worked on by concurrent commands that take no lock.
`job[p].seen` is the note as a run first saw it; `Look` compares it with the note
again, `Write` writes one field, at once, later (`Arrive`) or never.

| Code | Definition |
| --- | --- |
| `export_context_batch` | `Export` |
| `import_context_response` for one unit: first look, preview, second look, write, readback | `StartImport`, `Confirm`, `Look`, `Write`, `Readback` |
| `hydrate_audio`: first look, `retrieve_media_file`, `synthesize` and `store_media_file`, readback of the media, second look, write, readback | `StartHydration`, `Find`, `Store`, `Hear`, `Look`, `Write`, `Readback` |
| a call that raises, with or without its effect; an interrupted command | `Raise` within `Store` and `Write`, `Die` |
| people | `EditNote`, `SpoilMedia` |

The name of a recording depends on unit key and first context only (`Spoken`), so
two runs that speak the same text mean the same file, and Anki keeps the first;
a person who changes `Ctx_2` to `Ctx_5` changes the bank and not the name.

## 3. What is checked

All runs use TLC on every reachable state of the instance.

| Run | Instance | Shows |
| --- | --- | --- |
| `forge_commit` | 1 key, 2 attempts, 2 notes, 2 processes | with recovery under the lock: intent before request, readable history, true reports, no request after a terminal |
| `forge_two_units` | 2 keys, 2 attempts, 1 note, 1 process | when units share attempts and journal: refinement of `ForgeCommit`, and no attempt serves two units or is used again after a refusal |
| `forge_recovery_unlocked` | 2 keys, 1 attempt, 2 notes, 2 processes, no lock (255,923 states) | an acceptance names a real note of its own unit even when recovery takes no lock |
| `forge_exit_code` | 1 process | violated: see findings |
| `reconcile` | 2 channels, 4 starts, 3 inputs, 2 faults | note follows journal, refinement of `Lifecycle`, and pending work is resolved |
| `reconcile_tampered` | 2 inputs, 2 faults | readable journal and unambiguous pending work survive hand edits of state fields and updates that land late; no dormancy group ends both ways; a run sends Anki no state the journal has not announced |
| `deployment` | 2 bootstraps, 2 commands, 1 power loss | commands find a complete deployment and are alone; nothing is adopted; the commit marker comes last |
| `bootstrap_boundary` | the same | violated: see findings |
| `assessment` | 2 written attempts on one stimulus, 1 spoken, 1 response, 1 grade beside ABSTAIN, 2 faults (396,717 states) | what the writers leave passes every check of the readers; no false novelty, and one novel attempt per stimulus; graded speech was transcribed; evidence can always be judged; nothing follows a torn record; abandoned reservations stay abandoned; refinement of `AttemptLife` |
| `corpus` | 2 units, 2 files, 2 sources, 2 edits, 1 fault (473,390 states) | one encounter per unit and source, one snapshot per source, nothing lost, nothing written in a conflict, a retry completes the month; refinement of `EncounterLedger`; stored counts are those of `MostDisjoint`, with a text in which occurrences overlap |
| `decide` | 2 channels, 6 starts, 4 inputs counting active channels, 3 ticks, 1 fault (610,007 states) | decided transitions are earned, evidence counts once, plans outlive time, a late COMMIT fits what was decided, failures lead to relapse |
| `hydration` | 2 runs, 2 identities, 3 banks, 2 names of recordings, 1 edit, 2 faults (428,352 states) | audio has its media, writes fit the note, recordings are immutable, hydration completes |

The type invariants `TypeOK` are theorems (section 4), for all constants; the
runs do not repeat them.

Why the bounds suffice to meet the cases. *Forge*: two attempts let a second
forge meet a pending, closed or ambiguous first one; two notes let a person and
an attempt both hold the key; two processes overlap every pair of operations,
and crashes and hand edits are unbounded. Whatever relates an attempt or a note
to the unit it is for is checked with two keys: with one, no record could name
the wrong unit. Without the lock two keys and two processes leave room for one
attempt, which serves either unit, while the other unit's note is a person's;
theorem `AcceptancesNameNotes` has any number of both. *Reconcile*: two channels make a
group with a first and a last member and leave a channel outside an ungrouped
step; the starts put every edge within reach; two faults interrupt a run and
then its recovery; inputs invalidate a prepared decision and produce another.
*Deployment*: two bootstraps race or follow each other on what the first left;
power is lost once and the rest may still fail at will. Each
process is one command and the system ends with the last: `CHECK_DEADLOCK FALSE`.
*Assessment*: two attempts that share a stimulus can be reserved, shown and
abandoned in every order; two faults make an append fail and then the recording
of that failure, or interrupt a SPEAK and its resumption; two verdicts make a
second plan agree or conflict with the first. It ends when every attempt is
judged or a file is torn, which only people can mend: `CHECK_DEADLOCK FALSE`.

*Corpus*: two edits change a unit and a file during a scan, or between a scan and
its retry; one fault stops an emission after its first append, before it or in
the middle of it; two sources share one log. *Decide*: four inputs give an
active channel up to three reviews, assessments or suspensions, enough for a
streak of two with a failure between, or evidence on both sides of a late
COMMIT; three ticks pass every threshold inclusively and exclusively.
*Hydration*: two runs race as two imports, two hydrations or one of each, a
person edits once, and two calls fail, so that a retry may fail as well; two
banks share their first context and a third has another. In all
three the clock, the edits or the inputs end: `CHECK_DEADLOCK FALSE`.

Symmetry is used for interchangeable model values in the Forge, Deployment and
Assessment instances; the runs with it check safety only (action properties included).

Fairness. In `Reconcile` `WF_vars(RunStep)` and in `Decide` `WF_vars(Run)`: the
command keeps being run, and a run that nothing interrupts goes on to its next
call. The code's scheduling is a person or a scheduler starting
`vocab reconcile`, and a run is a sequential program whose calls have timeouts.
`Corpus` has `WF_vars(Scan)` for the same reason and `SF_vars(Begin(s))` for
each source: the operator does not scan one source forever and neglect another
(weak fairness would not do, since a running scan disables the start of the
next). `Hydration` has `WF_vars(Step(p))`, which includes a person who answers
the preview, and `SF_vars(StartHydration(p))`: `hydrate-audio` is run again
until nothing is left. Nothing is assumed about reviews, people or failures
except that the instance bounds their number.

`PendingIsResolved` says that work left pending is finished or aborted. It is
stated without hand edits and late updates: a group with a committed member
whose note was edited is left to manual intervention by design.
`FailureLeadsToRelapse` allows for one way out the code really has: a plan that
was aborted once and is decided again makes every later run raise, also for the
other channels of the unit. `RetriesComplete` demands that unit and files finally
agree with what is stored and that the log is not torn, because the code never
rewrites an encounter or repairs a log. `HydrationCompletes` excepts a name that
a blank file occupies, which hydration refuses to touch.

### Findings

* **Exit code 4.** `docs/RUNBOOK.md:149` says of `forge-import` that exit 4
  means the Forge core refused the unit. `cli.py:184` returns 4 for every status
  but CREATED. Run `forge_exit_code` shows an attempt reported COMMIT_UNCERTAIN
  or EVIDENCE_GAP whose note Anki has created. Whoever trusts the exit code
  alone treats a created note as refused.
* **The boundary of publication.** `DECISIONS.md:8453` (D70, section 10) says
  the identity is absent at every interruption boundary from I-1 to I-12. The
  code makes it present with `os.link` (`identity.py:211`), I-11, before the
  directory fsync and the readback. Run `bootstrap_boundary` shows a bootstrap
  interrupted there with its identity in place: the root counts as a deployment
  although the command reported a failure. By `NothingIsAdopted` and
  `CommitMarkerIsLast` it is a complete one.

## 4. What is proved

Every theorem holds for every value of the constants that satisfies the
module's assumption (null values are no members of their sets, bounds are
naturals). The bounds on faults and edits are constants like any other: what is
proved holds for any number of them. The inductive invariants were first checked
by TLC on the instances above (of `CorpusProofs` all but the type of the log,
which ranges over more scans than TLC can build).

### Forge (`ForgeProofs`)

| Theorem | Property | Assumption |
| --- | --- | --- |
| `TypeCorrect` | `TypeOK` | |
| `RequestsAreIntended` | `RequestHasIntent` | |
| `LockIsKept` | `LockDiscipline` | `RecoveryTakesLock` |
| `HistoriesStayReadable` | `HistoryStaysReadable` | `RecoveryTakesLock` |
| `AttemptsBelongToOneUnit` | `AttemptsAreNotReused` | |
| `AcceptancesNameNotes` | `AcceptanceNamesANote` | |
| `ReportsTrue` | `ReportsAreTrue` | |
| `ResolvedAttemptsAreQuiet` | `ResolvedAttemptsAskNothing` | `RecoveryTakesLock` |
| `PromiseKept` | `ImplementsPromise`: `Forge` implements `ForgeCommit` | `RecoveryTakesLock` |

1. `TypeInv`: `TypeOK` and what `op` and `req` hold at each `pc`. Without it a
   record could be appended with a null key.
2. `IntentInv`: besides the property, the attempt a process works on after its
   intent has that intent in the journal. The journal only grows, so an intent
   stays (`AppendKeepsIntents`).
3. `LockInv`: the property is inductive as it stands.
4. `HistoryInv`: every attempt has at most one intent and one terminal, a key
   has at most one pending attempt, and `ReadingStillHolds`: what a process
   found in the journal before it appends is still so. The last part is where
   the lock is needed: only its owner appends (`OnlyTheOwnerAppends`). Without
   it two recoveries may both find an attempt open and close it twice, which is
   why the theorem assumes `RecoveryTakesLock`.
5. `NoteInv`: the chain from request to acceptance. A request that Anki answered
   names a note of its attempt and key; a process that waits for an answer waits
   for one under its own key (two intents of an attempt are for one unit,
   `OneKey`, so even a second process with that attempt asks for the same); a
   process about to accept knows such a note. Notes keep their key and author
   (`NotesLast`), also when a person deletes them.
6. `ReportInv`: each report rests on a record appended in the step that made it
   (`ReportsStep`), and records and notes last. That a REJECTED attempt never
   asked Anki follows from the other theorems: a request has an intent, and an
   attempt with a rejection has no other record. Neither 5 nor 6 needs the lock.
7. The refinement. Every step appends at most one record or sends one request,
   and `HistoryInv` says the attempt it is about is in the state from which
   `ForgeCommit` allows that. A request is sent by the process that owns the lock,
   whose attempt has an intent and no terminal yet; that is also why a resolved
   attempt asks for nothing. The proof had a condition on the model: a history
   with two terminals of one attempt, which nothing excludes without the lock,
   had no definite `AttemptStatus`, so the mapping now ranks them.

### Deployment (`DeploymentProofs`)

`DeploymentTypes`; `OperationsAreAdmitted` (`OperationsFindADeployment`);
`NothingAdopted` (`NothingIsAdopted`); `IdentityCommits` (`CommitMarkerIsLast`);
`CommittedStays`: no command takes a published identity away. For any number of
bootstraps and commands. The invariant is `TypeOK`, `LockInv` (who is past the
lock owns it), `BuildInv` (what is in the root while a process is at a phase: what the phases
before it made, and nothing of anybody else until the identity is published) and
`MarkerInv` (the identity is there only with all the rest, and durable only with
all the rest durable). `BuildInv` is needed because validation does not look at
the session directory, nor publication at any of what it vouches for.

### Assessment (`AssessmentProofs`)

`AssessmentTypes` (`TypeOK`); `HistoriesAccepted` (`HistoriesStayAccepted`);
`GradesAreTranscribed` (`GradedSpeechWasTranscribed`); `NoveltyIsTrue`
(`NoFalseNovelty`); `NoveltyIsUnique` (`OneNovelAttempt`); `EvidenceIsNeverStuck`
(`EvidenceCanBeJudged`); `TornFilesStopWriters` (`FailsClosed`); `AbandonedIsFinal`
(`AbandonedStaysAbandoned`). `ControlInv` says that what a call found when it
validated still holds when it writes one or two steps later, that nothing is
shown without a reservation, and that an attempt without an earlier one for its
stimulus was reserved unseen; `HistoryInv` that ledgers and events accept each
other, and that every graded speech has its transcription and every claim of
novelty is true. The writes are then few:
`DurableStep` lists what any step may append, and each property follows from
that list instead of from all actions.

`NoveltyIsUnique` needs no history of displays: of two reservations of one
stimulus the ledger has one first, so at most one of the two attempts has no
earlier one, whatever happened between. `EvidenceIsNeverStuck` says in which
states the guards of judging can be met. It needs `SaidInv`: a SPEAK record has
a transcribed attempt and says what a later call would plan again, so that an
interrupted speech assessment is completed and not refused. It is stated with the guards, not ENABLED,
which the prover cannot expand.

`AttemptsLiveOnce` (`ImplementsAttemptLife`): `Assessment` implements
`AttemptLife`. Each record of `DurableStep` is one step of its attempt, and the
checks before it say the attempt is where that step starts. It needs `ShownInv`
besides: an attempt whose permit was consumed has been shown, so an answer never
comes before its question.

### Reconciliation (`ReconcileProofs`)

| Theorem | Property |
| --- | --- |
| `ReconcileTypeCorrect` | `TypeOK` |
| `JournalAlwaysReadable` | `JournalStaysReadable` |
| `PendingNeverAmbiguous` | `PendingIsUnambiguous` |
| `GroupsAlwaysEndOneWay` | `GroupsEndOneWay` |
| `NoteAlwaysFollowsJournal` | `NoteFollowsJournal` |
| `NoteIsWrittenAfterJournal` | `WritesAreAnnounced` |
| `RunsLeaveNothingPending` | `RunsEndResolved`: a run that gets through its last step leaves nothing pending |
| `LifecycleImplemented` | `ImplementsLifecycle`: `Reconcile` implements `Lifecycle` |

For units of any number of channels, any number of inputs and failures, and, but
for `NoteAlwaysFollowsJournal`, which says so itself, also while people edit
state fields and updates land late. None of the properties is inductive: what a
step may append depends on the steps still to take, and what recovery may do on
what an interrupted run left. The invariant has three parts.

* `JournalInv`, the journal and what it leaves pending: each pending transition
  is sound (along an edge, from the state and episode its channel is in, and a
  dormancy group from `MASTERED` in all channels that are not committed yet);
  a group of which a member is committed was prepared as a whole.
* `RunInv`, the steps of the run against the journal. `PlanShape`: each phase of
  each transition has one step, and a run that aborts does nothing else.
  `PlanCovers`: what will be committed is pending or will be prepared first, and
  everything pending will be committed or aborted. `PlanFits`: what will be
  committed is sound now and no two of them are for one channel. `PlanOrder`: a
  group is prepared before any of it is committed, and a transition outside a
  group is committed before the next one is prepared. The last is why a
  death between any two steps leaves a pending set that recovery can tell apart.
* `NoteInv`, the note against both. Whoever else writes the note, `UpdatesFit`:
  an update comes after the PREPAREs and before the COMMITs of what it writes,
  so that it is announced. If nobody else does, also `NoteFits` and `EndsFit`: a field
  differs from the journal only by a pending transition, a group is written as a
  whole and not once a member was aborted, and a COMMIT comes after the update it
  vouches for.

`RunInv` also holds of a run that was interrupted, trivially, since it keeps no
steps; what recovery then needs is in `JournalInv`.

### Decisions (`DecideProofs`)

`DecideTypeCorrect` (`TypeOK`); `EveryDecisionIsEarned` (`DecisionsAreEarned`);
`EvidenceIsSpentOnce` (`EvidenceCountsOnce`); `CommitsFit`
(`CommitsFitTheirDecision`); `PlansLast` (`PlansOutliveTime`).
For any thresholds, any clock and any number of reviews and assessments.

`EveryDecisionIsEarned` rests on the loop of `_mastery_evidence`: after every
assessment, what is selected so far is earned (`EarnedUpTo`: no failure since,
distinct stimuli, the demanded distance). `Streak` is a recursive function, and
`Induction` carries that from one turn to the next. `EvidenceIsSpentOnce` needs
`Chronicle` (histories are in order of time and not later than now), `PlanInv`
(what a run carries to its COMMIT was decided from records that exist) and
`SpentInv` (what moved a channel is not later than its last COMMIT, from which
on evidence counts): recovery may write a COMMIT long after the decision, and
`entry` is the instant of that COMMIT. `CommitsFit` needs `FitInv`: what a run
carries, and what an interrupted run left pending, still leaves the state and
episode its channels are in, with one plan per channel or the dormancy group of
the whole unit. A COMMIT changes both for its channels, and the plans left over
are those of others (`CommitFits`); a group leaves none over. `PlansLast` says each comparison with the
clock stays true once it is, and that the identity holds nothing but what was
compared.

### Corpus (`CorpusProofs`)

| Theorem | Property |
| --- | --- |
| `CountIsMaximal` | `CountIn` = `MostDisjoint`, for every text and unit |
| `CountsAreExact` | `CountsAreMaximal` |
| `CorpusTypeCorrect` | `TypeOK` |
| `HistoryAccepted` | `HistoryStaysAccepted` |
| `ReportsTrue` | `ReportsAreTrue` |
| `ConflictsStop` | `ConflictsAppendNothing` |
| `LedgerImplemented` | `ImplementsLedger`: `Corpus` implements `EncounterLedger` |

`CountIsMaximal` is about the algorithm alone: any text, any word, chunk or
frame, any limits. The loop of `_chunk_match_end` has as its invariant (`Followed`)
that what it found can be read in the text, and that no other reading from that
start is ahead of it. So a match ends where it first can, and no match
that starts later ends before it (`MatchesAreFirst`). Then comes the exchange
argument (`Counted`, the invariant of the counting loop): of any occurrences that
share no token, at most one is lost to each match the counter takes
(`OneIsLost`), so it takes as many as there can be.

`EmitInv` says that while a scan emits, the log still fits its plans, what is
missing is not in the log under any payload, and what is no longer missing is
there. It is needed because the log is checked once, before the first of many
appends. The refinement rests on it and on `CountsAreExact`: reading a file, the
preflight and the report are stutters or end the scan, and an append is one
`Store` (`AppendStores`), as its plan is still absent, its source keeps its
snapshot and no plan of the scan contradicts the log.

### Induction over data (`Iteration`)

The prover cannot instantiate a theorem about an arbitrary predicate, so what a
recursive function computes is proved with sets: the turns after which the
loop's invariant fails would be a set of naturals, and that has a least element
(`Least`, from well-foundedness). `Recursion` says a function defined by
recursion over an interval exists, and `Induction` that an invariant, given as
the set of turns after which it holds, holds after every turn. `Streak`, `Total`,
`ChunkEnd` and `CountIn` are reasoned about in this way.

### Hydration (`HydrationProofs`)

`HydrationTypes`; `AudioIsThere` (`AudioHasMedia`); `RecordingsStay`
(`RecordingsAreImmutable`); `WritesFit` (`WritesFitTheNote`). For any number of
concurrent runs and late calls. `JobInv` says what a run writes is what it set
out with, `LookInv` that the note is as it was at the second look unless the run
is in `moved`, `MediaInv` that a run past `Find` or `Hear` has a recording
under its name unless a person removed it.

### Only model-checked

Liveness under fairness is beyond the prover: `PendingIsResolved`,
`RetriesComplete`, `FailureLeadsToRelapse` and `HydrationCompletes`. Every other
property that a passing run checks is stated by a theorem. The refinements are of the abstract
specifications without fairness; that what is pending is resolved stays with
`PendingIsResolved`.

## 5. What is not modelled

* Content: generated output, payload fields that no decision reads, canonical
  JSON, templates, wording. Where the code validates content, the model has the
  accepting and the rejecting outcome.
* Bytes of the event log and the ledgers: `tail`, `torn` stand for all partial
  records. Records that disappear with power because their fsync had failed.
* Clearing a lock while its owner still runs, which the runbook forbids.
* The moment of display relative to other displays: novelty counts reservations
  (D55), so of two permits for one stimulus the first reserved is novel even if
  it is shown last. `NoFalseNovelty` says what does hold.
* Creation of the empty T12 ledgers.
* Recovery of a dormancy group whose note is `DORMANT` already asks Anki only for
  the cards not suspended yet; `FinishGroup` asks for all members. The two differ
  when a person unsuspends a card between these calls: the run of the code fails at
  the last look at the queues, and the next one gets there.
* Notes of the registry that the corpus scan refuses (invalid fields, a unit key
  twice): such a scan raises before it reads a file, as if it had not started.
  `RetriesComplete` is about a registry that can be read.
* Lifecycle fields of the note in `Hydration`: the second look compares them too
  (`hydrate.py:30`), so a transition between the two looks ends a run as `STALE`,
  earlier than in the model.
* Two imports without a lock between the last look of one and its write:
  `Hydration` has the race, and `WritesFitTheNote` excepts exactly the runs whose
  note changed there (`moved`), since nothing in the code prevents it.
* Media that Anki stores under another name because the name was taken: nothing
  refers to it, and it is left out.
* A clock that runs backwards. Failures that were judged between an applied
  DORMANT plan and its late COMMIT lie before the entry and never count;
  `FailureLeadsToRelapse` speaks of failures after it.
* Whether another choice of passes would have completed a streak: `Streak` is
  greedy, as the code is, and `DecisionsAreEarned` says it is sound.
* The components marked `not_modelled` in `PROJECT.json`: semantic evaluation,
  human review and leech rescue validate or project data and keep no state.

## 6. Plan

*Done:* Forge, reconciliation, deployment; `Assessment` with the transcription
ledger; `Decide`; `Corpus`; `Hydration` with context imports; theorems on all of
them, the four refinements among them.

Left, in order of what could go wrong most expensively:

1. `EventLog`: appending and reading bytes in lines: what a strict reader
   accepts after any sequence of appends, failures and tears; abstract
   specification: a sequence of records; the other modules use it.
2. The artifact store's temporary files and the creation of the ledgers.
3. Canonical artifacts of semantic evaluation and human review.
