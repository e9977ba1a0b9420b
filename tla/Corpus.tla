------------------------------- MODULE Corpus -------------------------------
(***************************************************************************)
(* T10, the corpus scan: vocab/corpus.py with runtime/corpus_runner.py.     *)
(* A scan of one month reads the registry of Units from Anki, then the      *)
(* files of the month directory one by one, counts, checks the event log,   *)
(* and appends the missing ENCOUNTER records one by one.  Nothing keeps     *)
(* people from editing Units and files meanwhile; an append may raise with  *)
(* all, nothing or a part of its record written, and the process may die at *)
(* any point.  The deployment lock lets one command run at a time, and each *)
(* acquires the log by a strict read.                                       *)
(*                                                                          *)
(* Data is abstracted: one month; a source is the label under which the     *)
(* month is counted; a lemma stands for lemma and unit_type; the snapshot   *)
(* digest, which names every file and its bytes, is the files themselves;   *)
(* the encounter id is the pair of unit and source it is the digest of.     *)
(***************************************************************************)
EXTENDS Occurrences

CONSTANTS
    UnitKeys,    \* the unit keys in ascending order
    FileNames,   \* the file names in ascending order
    Sources,
    Lemmas,      \* what occurrences are counted of
    Contents,    \* what a file may hold: sequences of blocks of tokens
    Rejected,    \* contents no scan accepts: not UTF-8, or with a URL
    Absent, NoSource,
    MaxEdits,    \* bound: edits of Units and files
    MaxFaults    \* bound: appends that raise and processes that die

Units == {UnitKeys[i] : i \in DOMAIN UnitKeys}
Files == {FileNames[i] : i \in DOMAIN FileNames}

ASSUME CorpusAssumption ==
    /\ UnitKeys \in Seq(Units) /\ FileNames \in Seq(Files)
    /\ \A i, j \in DOMAIN UnitKeys : UnitKeys[i] = UnitKeys[j] => i = j
    /\ \A i, j \in DOMAIN FileNames : FileNames[i] = FileNames[j] => i = j
    /\ \A l \in Lemmas : IsUnit(l)
    /\ Contents \ Rejected \subseteq Seq(Seq(Tokens))
    /\ Absent \notin Lemmas /\ Absent \notin Contents
    /\ NoSource \notin Sources
    /\ MaxEdits \in Nat /\ MaxFaults \in Nat

VARIABLES
    registry,  \* registry[u]: the lemma of the note of Unit u
    files,     \* files[f]: what file f of the month holds
    log,       \* the ENCOUNTER records of T10
    torn,      \* the last record of the log is incomplete
    pc, run,   \* where the running scan stands, and what it works on
    edits, faults

environment == <<registry, files>>
durable == <<log, torn>>
vars == <<environment, durable, pc, run, edits, faults>>

Readable == (Contents \ Rejected) \union {Absent}
Registries == [Units -> Lemmas \union {Absent}]
Directories == [Files -> Contents \union {Absent}]
Encounter == [unit : Units, source : Sources, lemma : Lemmas, count : Nat,
              snapshot : Directories]
NoRun == [source |-> NoSource, units |-> [u \in Units |-> Absent], todo |-> {},
          snapshot |-> [f \in Files |-> Absent], missing |-> {}]

TypeOK ==
    /\ registry \in Registries /\ files \in Directories
    /\ log \in Seq(Encounter) /\ torn \in BOOLEAN
    /\ pc \in {"idle", "read", "emit"}
    /\ run \in [source : Sources \union {NoSource}, units : Registries, todo : SUBSET Files,
                snapshot : Directories, missing : SUBSET Encounter]
    /\ edits \in 0 .. MaxEdits /\ faults \in 0 .. MaxFaults

-----------------------------------------------------------------------------
(* COUNT and EMIT PREFLIGHT *)

Elements(seq) == {seq[i] : i \in DOMAIN seq}

Total(counts) ==
    LET sum[i \in 0 .. Len(counts)] == IF i = 0 THEN 0 ELSE sum[i - 1] + counts[i]
    IN  sum[Len(counts)]

\* count_scan adds up the blocks of all files.
CountInFile ==
    [c \in Readable |-> [l \in Lemmas |->
        IF c = Absent THEN 0 ELSE Total([i \in 1 .. Len(c) |-> CountIn(c[i], l)])]]

Count(snapshot, lemma) ==
    Total([i \in 1 .. Len(FileNames) |-> CountInFile[snapshot[FileNames[i]]][lemma]])

\* Bug: the lemma is looked up again when the plan is built.
PlanRereading(r, u) == [unit |-> u, source |-> r.source, lemma |-> registry[u],
               count |-> Count(r.snapshot, r.units[u]), snapshot |-> r.snapshot]

\* build_encounter_plans
Plan(r, u) == [unit |-> u, source |-> r.source, lemma |-> r.units[u],
               count |-> Count(r.snapshot, r.units[u]), snapshot |-> r.snapshot]
Listed(r) == {u \in Units : r.units[u] # Absent}
Plans(r) == {Plan(r, u) : u \in Listed(r)}

SameId(e, g) == e.unit = g.unit /\ e.source = g.source

UniqueIds == \A i, j \in DOMAIN log : SameId(log[i], log[j]) => i = j

\* Bug: the encounters of one source may come from different snapshots.
HistoryFitsAnySnapshot(r) == UniqueIds

\* _validated_t10_history: ids are unique, and a source that was started keeps
\* its snapshot.
HistoryFits(r) ==
    /\ UniqueIds
    /\ \A e \in Elements(log) : e.source = r.source => e.snapshot = r.snapshot

Conflict(r, p) == \E e \in Elements(log) : SameId(e, p) /\ e # p

\* Bug: a durable encounter that differs from its plan counts as missing.
PreflightEach(r) == HistoryFits(r)

\* _preflight_emission: all plans agree with history, or nothing is appended.
Preflight(r) ==
    /\ HistoryFits(r)
    /\ \A p \in Plans(r) : ~Conflict(r, p)

\* Bug: a source that has encounters was scanned.
MissingUnlessStarted(r) ==
    IF \E e \in Elements(log) : e.source = r.source THEN {} ELSE Plans(r)

Missing(r) == Plans(r) \ Elements(log)

Position(x, keys) == CHOOSE i \in DOMAIN keys : keys[i] = x

\* Files are read in the order of their names, and plans emitted in that of
\* their keys.
FirstFile(names) ==
    {f \in names : \A g \in names : Position(f, FileNames) <= Position(g, FileNames)}

First(plans) ==
    {p \in plans : \A q \in plans : Position(p.unit, UnitKeys) <= Position(q.unit, UnitKeys)}

-----------------------------------------------------------------------------
(* Steps of a scan *)

Goto(l, r) == pc' = l /\ run' = r
Stop == Goto("idle", NoRun)
Fault == faults < MaxFaults /\ faults' = faults + 1

\* open_runtime_event_log reads strictly; the registry is read, and the directory
\* is listed.  A registry with an invalid note raises here: no scan starts.
Begin(s) ==
    /\ pc = "idle" /\ ~torn
    /\ Goto("read", [NoRun EXCEPT
          !.source = s, !.units = registry,
          !.todo = {f \in Files : files[f] # Absent}])
    /\ UNCHANGED <<environment, durable, edits, faults>>

\* read_corpus_snapshot, one file; a file that is gone by now, or not
\* acceptable, raises.
ReadFile ==
    /\ pc = "read"
    /\ \E f \in FirstFile(run.todo) :
          IF files[f] \in Rejected \union {Absent} THEN Stop
          ELSE Goto("read", [run EXCEPT !.todo = @ \ {f}, !.snapshot[f] = files[f]])
    /\ UNCHANGED <<environment, durable, edits, faults>>

\* count_scan, then emit_scan up to its first append
StartEmission ==
    /\ pc = "read" /\ run.todo = {}
    /\ IF Preflight(run) THEN Goto("emit", [run EXCEPT !.missing = Missing(run)])
       ELSE Stop
    /\ UNCHANGED <<environment, durable, edits, faults>>

\* Bug: the scan goes on with the next encounter when an append raised.
AppendSwallowing ==
    /\ pc = "emit"
    /\ \E p \in First(run.missing) :
          /\ \/ log' = Append(log, p) /\ UNCHANGED faults
             \/ Fault /\ UNCHANGED log
          /\ Goto("emit", [run EXCEPT !.missing = @ \ {p}])
    /\ UNCHANGED <<environment, torn, edits>>

\* EventLog.log appends the next missing encounter, or raises after writing
\* all, nothing or a part of it.
AppendEncounter ==
    /\ pc = "emit"
    /\ \E p \in First(run.missing) :
          \/ /\ log' = Append(log, p)
             /\ \/ /\ Goto("emit", [run EXCEPT !.missing = @ \ {p}])
                   /\ UNCHANGED faults
                \/ Fault /\ Stop
             /\ UNCHANGED torn
          \/ /\ Fault /\ Stop
             /\ torn' \in BOOLEAN
             /\ UNCHANGED log
    /\ UNCHANGED <<environment, edits>>

\* emit_scan returns its report: every plan was appended or existed.
Report ==
    /\ pc = "emit" /\ run.missing = {}
    /\ Stop
    /\ UNCHANGED <<environment, durable, edits, faults>>

Crash ==
    /\ pc # "idle" /\ Fault /\ Stop
    /\ UNCHANGED <<environment, durable, edits>>

\* A person, or the forge, adds, changes or removes a note.
EditUnit(u, l) ==
    /\ edits < MaxEdits /\ edits' = edits + 1
    /\ registry' = [registry EXCEPT ![u] = l]
    /\ UNCHANGED <<files, durable, pc, run, faults>>

EditFile(f, c) ==
    /\ edits < MaxEdits /\ edits' = edits + 1
    /\ files' = [files EXCEPT ![f] = c]
    /\ UNCHANGED <<registry, durable, pc, run, faults>>

Init ==
    /\ registry \in Registries
    /\ files \in [Files -> Readable]
    /\ log = <<>> /\ torn = FALSE
    /\ pc = "idle" /\ run = NoRun
    /\ edits = 0 /\ faults = 0

Scan == ReadFile \/ StartEmission \/ AppendEncounter \/ Report

Next ==
    \/ \E s \in Sources : Begin(s)
    \/ Scan \/ Crash
    \/ \E u \in Units, l \in Lemmas \union {Absent} : EditUnit(u, l)
    \/ \E f \in Files, c \in Contents \union {Absent} : EditFile(f, c)

\* A running scan runs on, and the operator scans every source again and again.
Fairness == WF_vars(Scan) /\ \A s \in Sources : SF_vars(Begin(s))

Spec == Init /\ [][Next]_vars /\ Fairness

-----------------------------------------------------------------------------
(* Properties *)

\* Scans that were interrupted, repeated and raced with edits leave a history
\* the next scan accepts: no id twice, and one snapshot per source, so that
\* the counts of a source can be compared with one another (D48).
HistoryStaysAccepted ==
    /\ UniqueIds
    /\ \A e, g \in Elements(log) :
          e.source = g.source => e.snapshot = g.snapshot

\* What CountInFile says, by the most occurrences that share no token.
MostInFile ==
    [c \in Readable |-> [l \in Lemmas |->
        IF c = Absent THEN 0 ELSE Total([i \in 1 .. Len(c) |-> MostDisjoint(c[i], l)])]]

MostInMonth ==
    [d \in [Files -> Readable] |-> [l \in Lemmas |->
        Total([i \in 1 .. Len(FileNames) |-> MostInFile[d[FileNames[i]]][l]])]]

\* The matcher and the leftmost counter miss nothing: a stored count is the
\* largest number of occurrences in each block that share no token, though a
\* match ends where it first can, and a later one might fit in better (D19).
CountsAreMaximal ==
    \A e \in Elements(log) : e.count = MostInMonth[e.snapshot][e.lemma]

\* A scan loses no encounter on the way: whatever it does not have to append
\* any more is in the log with exactly the planned payload, so a report that
\* lists every plan as appended or existing is true.
ReportsAreTrue ==
    pc = "emit" => Plans(run) \subseteq Elements(log) \union run.missing

\* A scan that meets a conflict appends nothing at all: whenever a record is
\* added, no plan of the running scan contradicts what is stored (D48 rule 3).
ConflictsAppendNothing ==
    [][log' # log => \A p \in Plans(run), e \in Elements(log') :
          SameId(e, p) => e = p]_vars

\* The log, read as a set of encounters, is a ledger that scans only add to:
\* for Units as they were when the scan began, however they are edited while
\* it reads and appends, and never beside a record it contradicts.
Ledger == INSTANCE EncounterLedger WITH
    Snapshots <- [Files -> Readable],
    Best <- MostInMonth,
    scans <- IF pc = "idle" THEN {} ELSE {[source |-> run.source, units |-> run.units]},
    stored <- Elements(log)

ImplementsLedger == Ledger!Spec

\* The stored history of a source agrees with its Units and files as they are.
Agrees(s) ==
    /\ ~torn
    /\ \A f \in Files : files[f] \notin Rejected
    /\ \A e \in Elements(log) : e.source = s =>
          e.snapshot = files /\ registry[e.unit] \in {e.lemma, Absent}

Complete(s) ==
    \A u \in Units : registry[u] # Absent =>
        \E e \in Elements(log) :
            /\ e.unit = u /\ e.source = s
            /\ e.lemma = registry[u] /\ e.snapshot = files

\* However far a failed scan came, rerunning it completes the month, unless a
\* torn log, or an edit, contradicts what is stored for good (D49: "A later
\* run ... skips exact durable matches, and appends only missing events").
RetriesComplete ==
    \A s \in Sources : <>[]Agrees(s) => <>[]Complete(s)
=============================================================================
