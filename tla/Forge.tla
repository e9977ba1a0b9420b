------------------------------- MODULE Forge -------------------------------
(***************************************************************************)
(* The Forge commit protocol: vocab/forge/pipeline.py (forge), the two      *)
(* recovery calls of vocab/forge/recovery.py (repair_evidence and           *)
(* abandon_intent), the FORGE records they append to the event log          *)
(* (vocab/events.py), the deployment lock a command runs under              *)
(* (vocab/runtime/operation.py, cli.py) and the Anki collection they write  *)
(* to.  EventLog and Anki share no transaction: every external call is a    *)
(* step of its own, an addNotes request outlives the caller that timed out, *)
(* and an append can fail after its record reached the file.                *)
(*                                                                          *)
(* Data is abstracted: a vocabulary unit is its unit_key, an attempt is its *)
(* forge_attempt_id, and the structured output an attempt would commit is   *)
(* identified with the attempt.                                             *)
(***************************************************************************)
EXTENDS Naturals, Sequences

CONSTANTS
    Keys,               \* unit_key values
    Attempts,           \* values attempt_id_factory may return
    NoteIds,            \* Anki note ids: the bound on notes ever created
    Procs,              \* operating-system processes running an operation
    NoKey, NoAttempt, NoNote, NoProc,
    Human,              \* the author of a note no attempt created
    RecoveryTakesLock   \* TRUE: recovery callers hold the deployment lock

ASSUME ForgeAssumption ==
    /\ NoKey \notin Keys
    /\ NoAttempt \notin Attempts
    /\ NoNote \notin NoteIds
    /\ NoProc \notin Procs
    /\ Human \notin Attempts
    /\ RecoveryTakesLock \in BOOLEAN

VARIABLES
    log,     \* the FORGE records of the journal, in file order
    tail,    \* "clean", or "torn" after an append stopped part-way
    notes,   \* the note each id ever named: its key, its author, present or not
    req,     \* the one addNotes request of each attempt, as Anki sees it
    lock,    \* the process whose record is in runtime.lock
    pc,      \* where each process stands
    op,      \* what it works on: key, attempt, note, outcome of a rejection
    result   \* what its last operation reported

vars == <<log, tail, notes, req, lock, pc, op, result>>
worldVars == <<log, tail, notes, req>>

-----------------------------------------------------------------------------
Kinds == {"INTENT", "ACCEPTED", "UNCERTAIN", "ABANDONED", "REJECTED"}

Event == [kind : Kinds, key : Keys, att : Attempts, note : NoteIds \union {NoNote}]

Unborn == [key |-> NoKey, by |-> NoAttempt, live |-> FALSE]
Note == [key : Keys, by : Attempts \union {Human}, live : BOOLEAN] \union {Unborn}

RequestStatus == {"none", "sent", "created", "refused", "lost"}
NoRequest == [st |-> "none", key |-> NoKey, note |-> NoNote]
Request == [st : RequestStatus, key : Keys \union {NoKey},
            note : NoteIds \union {NoNote}]

ForgePCs == {"f_validate", "f_inspect", "f_pending", "f_dedup", "f_confirm",
             "f_reject", "f_intent", "f_add", "f_wait", "f_uncertain", "f_accept"}
RecoveryPCs == {"r_read", "r_find", "r_log", "a_read", "a_find", "a_log"}
PCs == ForgePCs \union RecoveryPCs \union {"idle", "crashed"}

NoOp == [key |-> NoKey, att |-> NoAttempt, note |-> NoNote]
Op == [key : Keys \union {NoKey}, att : Attempts \union {NoAttempt},
       note : NoteIds \union {NoNote}]

Statuses == {"CREATED", "REJECTED", "ABORTED", "COMMIT_UNCERTAIN", "EVIDENCE_GAP",
             "REPAIRED", "ABANDONED", "NO_NOTE", "ALREADY_RESOLVED", "AMBIGUOUS"}
NoResult == [status |-> "NONE", att |-> NoAttempt, note |-> NoNote]
Result == [status : Statuses \union {"NONE"}, att : Attempts \union {NoAttempt},
           note : NoteIds \union {NoNote}]

TypeOK ==
    /\ log \in Seq(Event)
    /\ tail \in {"clean", "torn"}
    /\ notes \in [NoteIds -> Note]
    /\ req \in [Attempts -> Request]
    /\ lock \in Procs \union {NoProc}
    /\ pc \in [Procs -> PCs]
    /\ op \in [Procs -> Op]
    /\ result \in [Procs -> Result]

-----------------------------------------------------------------------------
(* Reading the journal: recovery.py *)

\* _attempt_parts: where the records of one kind of one attempt are.
Records(h, a, kind) == {i \in DOMAIN h : h[i].att = a /\ h[i].kind = kind}

AtMostOne(S) == \A i, j \in S : i = j
ExactlyOne(S) == S # {} /\ AtMostOne(S)

\* Bug: an abandonment is not counted as a terminal.
ResolvedByAcceptanceOnly(h, a) == Records(h, a, "ACCEPTED") # {}

Resolved(h, a) ==
    Records(h, a, "ACCEPTED") # {} \/ Records(h, a, "ABANDONED") # {}

\* Two terminals of the same kind, or one of each: not a history to act on.
Conflicted(h, a) ==
    \/ ~AtMostOne(Records(h, a, "ACCEPTED"))
    \/ ~AtMostOne(Records(h, a, "ABANDONED"))
    \/ Records(h, a, "ACCEPTED") # {} /\ Records(h, a, "ABANDONED") # {}

IntendedFor(h, a, k) == \E i \in Records(h, a, "INTENT") : h[i].key = k

\* inspect_pending_intent
Malformed(h, a) == ~ExactlyOne(Records(h, a, "INTENT")) \/ Conflicted(h, a)

PendingAttempts(h, k) ==
    {a \in Attempts : IntendedFor(h, a, k) /\ ~Malformed(h, a) /\ ~Resolved(h, a)}

HistoryAmbiguous(h, k) ==
    \/ \E a \in Attempts : IntendedFor(h, a, k) /\ Malformed(h, a)
    \/ ~AtMostOne(PendingAttempts(h, k))

\* Bug: the query names the note type and forgets the unit_key.
FoundOfAnyUnit(k) == {n \in NoteIds : notes[n].live}

\* _find_note_ids: what find_notes returns for the unit-key query.
Found(k) == {n \in NoteIds : notes[n].live /\ notes[n].key = k}

-----------------------------------------------------------------------------
(* Appending one record: EventLog.log *)

Rec(kind, p, n) ==
    [kind |-> kind, key |-> op[p].key, att |-> op[p].att, note |-> n]

\* The record that introduces a new attempt.
FirstRec(kind, p, a) == [kind |-> kind, key |-> op[p].key, att |-> a, note |-> NoNote]

\* The record is durable and log() returned.
LogReturns(e) ==
    /\ tail = "clean"
    /\ log' = Append(log, e)
    /\ UNCHANGED tail

\* log() raised: nothing was written, the whole record was (fsync failed
\* after the write), or a part of it was and no later append is accepted.
LogRaises(e) ==
    \/ UNCHANGED <<log, tail>>
    \/ LogReturns(e)
    \/ /\ tail = "clean"
       /\ tail' = "torn"
       /\ UNCHANGED log

Goto(p, l) == pc' = [pc EXCEPT ![p] = l]

\* The operation returns and the command around it releases the lock.
Return(p, status, a, n) ==
    /\ pc' = [pc EXCEPT ![p] = "idle"]
    /\ op' = [op EXCEPT ![p] = NoOp]
    /\ result' = [result EXCEPT ![p] = [status |-> status, att |-> a, note |-> n]]
    /\ lock' = IF lock = p THEN NoProc ELSE lock

-----------------------------------------------------------------------------
(* forge *)

\* forge-import: take the lock, pass the write preflight (which reads the
\* journal strictly) and parse, build and validate the generated unit.
BeginForge(p, k) ==
    /\ pc[p] = "idle"
    /\ lock = NoProc
    /\ tail = "clean"
    /\ lock' = p
    /\ op' = [op EXCEPT ![p] = [NoOp EXCEPT !.key = k]]
    /\ result' = [result EXCEPT ![p] = NoResult]
    /\ Goto(p, "f_validate")
    /\ UNCHANGED worldVars

\* Generation, schema or identity failures abort; violations and a missing
\* justification reject; otherwise the journal is consulted.
Validate(p) ==
    /\ pc[p] = "f_validate"
    /\ \/ /\ Return(p, "ABORTED", NoAttempt, NoNote)
          /\ UNCHANGED worldVars
       \/ /\ \E l \in {"f_reject", "f_inspect"} : Goto(p, l)
          /\ UNCHANGED <<worldVars, lock, op, result>>

\* Bug: a pending intent does not stop a new attempt.
InspectIgnoresPending(p) ==
    /\ pc[p] = "f_inspect"
    /\ Goto(p, "f_dedup")
    /\ UNCHANGED <<worldVars, lock, op, result>>

Inspect(p) ==
    LET k == op[p].key IN
    /\ pc[p] = "f_inspect"
    /\ \/ Return(p, "ABORTED", NoAttempt, NoNote)              \* the journal read failed
       \/ /\ HistoryAmbiguous(log, k)
          /\ Return(p, "COMMIT_UNCERTAIN", NoAttempt, NoNote)
       \/ /\ ~HistoryAmbiguous(log, k)
          /\ \E a \in PendingAttempts(log, k) :
                op' = [op EXCEPT ![p].att = a]
          /\ Goto(p, "f_pending")
          /\ UNCHANGED <<lock, result>>
       \/ /\ ~HistoryAmbiguous(log, k)
          /\ PendingAttempts(log, k) = {}
          /\ Goto(p, "f_dedup")
          /\ UNCHANGED <<lock, op, result>>
    /\ UNCHANGED worldVars

\* One pending intent: report what Anki holds for the key, write nothing.
ReportPending(p) ==
    LET k == op[p].key
        a == op[p].att IN
    /\ pc[p] = "f_pending"
    /\ \/ Return(p, "ABORTED", a, NoNote)                      \* find_notes failed
       \/ /\ ~ExactlyOne(Found(k))
          /\ Return(p, "COMMIT_UNCERTAIN", a, NoNote)
       \/ /\ ExactlyOne(Found(k))
          /\ \E n \in Found(k) : Return(p, "EVIDENCE_GAP", a, n)
    /\ UNCHANGED worldVars

FindDuplicates(p) ==
    /\ pc[p] = "f_dedup"
    /\ \/ Return(p, "ABORTED", NoAttempt, NoNote)              \* find_notes failed
       \/ /\ Goto(p, IF Found(op[p].key) # {} THEN "f_reject" ELSE "f_confirm")
          /\ UNCHANGED <<lock, op, result>>
    /\ UNCHANGED worldVars

Confirm(p) ==
    /\ pc[p] = "f_confirm"
    /\ \/ Return(p, "ABORTED", NoAttempt, NoNote)
       \/ /\ \E l \in {"f_reject", "f_intent"} : Goto(p, l)
          /\ UNCHANGED <<lock, op, result>>
    /\ UNCHANGED worldVars

\* Bug: the id is not looked up in the durable history.
AllocatableUnchecked(a) == a \in Attempts

\* _AttemptAllocator.get: an id no FORGE record carries, or none at all.
Allocatable(a) == \A i \in DOMAIN log : log[i].att # a

\* _emit_rejection: allocate the attempt and log why the unit was refused.
Reject(p) ==
    /\ pc[p] = "f_reject"
    /\ \/ /\ Return(p, "ABORTED", NoAttempt, NoNote)           \* no usable id
          /\ UNCHANGED worldVars
       \/ \E a \in Attempts :
            LET e == FirstRec("REJECTED", p, a) IN
            /\ Allocatable(a)
            /\ \/ LogReturns(e) /\ Return(p, "REJECTED", a, NoNote)
               \/ LogRaises(e) /\ Return(p, "ABORTED", a, NoNote)
            /\ UNCHANGED <<notes, req>>

\* Bug: Anki is asked even when the intent could not be logged.
LogIntentBestEffort(p) ==
    /\ pc[p] = "f_intent"
    /\ \E a \in Attempts :
         LET e == FirstRec("INTENT", p, a) IN
         /\ Allocatable(a)
         /\ LogReturns(e) \/ LogRaises(e)
         /\ op' = [op EXCEPT ![p].att = a]
    /\ Goto(p, "f_add")
    /\ UNCHANGED <<notes, req, lock, result>>

\* Allocate the attempt and make COMMIT_INTENT durable before any Anki write.
LogIntent(p) ==
    /\ pc[p] = "f_intent"
    /\ \/ /\ Return(p, "ABORTED", NoAttempt, NoNote)
          /\ UNCHANGED worldVars
       \/ \E a \in Attempts :
            LET e == FirstRec("INTENT", p, a) IN
            /\ Allocatable(a)
            /\ \/ /\ LogReturns(e)
                  /\ op' = [op EXCEPT ![p].att = a]
                  /\ Goto(p, "f_add")
                  /\ UNCHANGED <<lock, result>>
               \/ LogRaises(e) /\ Return(p, "ABORTED", a, NoNote)
            /\ UNCHANGED <<notes, req>>

\* The single add_notes call leaves the process.
SendAdd(p) ==
    /\ pc[p] = "f_add"
    /\ req' = [req EXCEPT ![op[p].att] =
                  [st |-> "sent", key |-> op[p].key, note |-> NoNote]]
    /\ Goto(p, "f_wait")
    /\ UNCHANGED <<log, tail, notes, lock, op, result>>

\* Only a reply with one note id confirms the creation.  A timeout, a
\* transport error or a refusal says nothing about what Anki did or will do.
ReceiveAdd(p) ==
    LET r == req[op[p].att] IN
    /\ pc[p] = "f_wait"
    /\ \/ /\ r.st = "created"
          /\ op' = [op EXCEPT ![p].note = r.note]
          /\ Goto(p, "f_accept")
       \/ /\ Goto(p, "f_uncertain")
          /\ UNCHANGED op
    /\ UNCHANGED <<worldVars, lock, result>>

\* The uncertainty record is best effort: its failure is not reported.
LogUncertain(p) ==
    LET e == Rec("UNCERTAIN", p, NoNote) IN
    /\ pc[p] = "f_uncertain"
    /\ LogReturns(e) \/ LogRaises(e)
    /\ Return(p, "COMMIT_UNCERTAIN", op[p].att, NoNote)
    /\ UNCHANGED <<notes, req>>

\* Bug: a failed acceptance append is reported as a creation.
LogAcceptanceBestEffort(p) ==
    LET e == Rec("ACCEPTED", p, op[p].note) IN
    /\ pc[p] = "f_accept"
    /\ LogReturns(e) \/ LogRaises(e)
    /\ Return(p, "CREATED", op[p].att, op[p].note)
    /\ UNCHANGED <<notes, req>>

LogAcceptance(p) ==
    LET e == Rec("ACCEPTED", p, op[p].note)
        a == op[p].att
        n == op[p].note IN
    /\ pc[p] = "f_accept"
    /\ \/ LogReturns(e) /\ Return(p, "CREATED", a, n)
       \/ LogRaises(e) /\ Return(p, "EVIDENCE_GAP", a, n)
    /\ UNCHANGED <<notes, req>>

ForgeStep(p) ==
    \/ Validate(p) \/ Inspect(p) \/ ReportPending(p) \/ FindDuplicates(p)
    \/ Confirm(p) \/ Reject(p) \/ LogIntent(p) \/ SendAdd(p) \/ ReceiveAdd(p)
    \/ LogUncertain(p) \/ LogAcceptance(p)

-----------------------------------------------------------------------------
(* repair_evidence and abandon_intent *)

\* Bug: recovery starts while another operation is at work.
BeginRecoveryWithoutLock(p, a, l) ==
    /\ pc[p] = "idle"
    /\ op' = [op EXCEPT ![p] = [NoOp EXCEPT !.att = a]]
    /\ Goto(p, l)
    /\ UNCHANGED <<worldVars, lock, result>>

BeginRecovery(p, a, l) ==
    /\ pc[p] = "idle"
    /\ IF RecoveryTakesLock
       THEN lock = NoProc /\ tail = "clean" /\ lock' = p
       ELSE UNCHANGED lock
    /\ op' = [op EXCEPT ![p] = [NoOp EXCEPT !.att = a]]
    /\ result' = [result EXCEPT ![p] = NoResult]
    /\ Goto(p, l)
    /\ UNCHANGED worldVars

BeginRepair(p, a) == BeginRecovery(p, a, "r_read")
BeginAbandon(p, a) == BeginRecovery(p, a, "a_read")

\* _history_for_attempt and the early returns both calls share.
ReadHistory(p, here, next) ==
    LET a == op[p].att
        intents == Records(log, a, "INTENT") IN
    /\ pc[p] = here
    /\ \/ Return(p, "AMBIGUOUS", a, NoNote)                    \* the journal read failed
       \/ /\ ~ExactlyOne(intents) \/ Conflicted(log, a)
          /\ Return(p, "AMBIGUOUS", a, NoNote)
       \/ /\ ExactlyOne(intents) /\ ~Conflicted(log, a) /\ Resolved(log, a)
          /\ Return(p, "ALREADY_RESOLVED", a, NoNote)
       \/ /\ ~Conflicted(log, a) /\ ~Resolved(log, a)
          /\ ExactlyOne(intents)
          /\ \E i \in intents : op' = [op EXCEPT ![p].key = log[i].key]
          /\ Goto(p, next)
          /\ UNCHANGED <<lock, result>>
    /\ UNCHANGED worldVars

RepairRead(p) == ReadHistory(p, "r_read", "r_find")
AbandonRead(p) == ReadHistory(p, "a_read", "a_find")

RepairFind(p) ==
    LET found == Found(op[p].key)
        a == op[p].att IN
    /\ pc[p] = "r_find"
    /\ \/ Return(p, "AMBIGUOUS", a, NoNote)                    \* find_notes failed
       \/ found = {} /\ Return(p, "NO_NOTE", a, NoNote)
       \/ ~AtMostOne(found) /\ Return(p, "AMBIGUOUS", a, NoNote)
       \/ /\ ExactlyOne(found)
          /\ \E n \in found : op' = [op EXCEPT ![p].note = n]
          /\ Goto(p, "r_log")
          /\ UNCHANGED <<lock, result>>
    /\ UNCHANGED worldVars

RepairLog(p) ==
    LET e == Rec("ACCEPTED", p, op[p].note)
        a == op[p].att
        n == op[p].note IN
    /\ pc[p] = "r_log"
    /\ \/ LogReturns(e) /\ Return(p, "REPAIRED", a, n)
       \/ LogRaises(e) /\ Return(p, "AMBIGUOUS", a, n)
    /\ UNCHANGED <<notes, req>>

AbandonFind(p) ==
    /\ pc[p] = "a_find"
    /\ \/ Return(p, "AMBIGUOUS", op[p].att, NoNote)  \* a note exists, or the read failed
       \/ /\ Found(op[p].key) = {}
          /\ Goto(p, "a_log")
          /\ UNCHANGED <<lock, op, result>>
    /\ UNCHANGED worldVars

AbandonLog(p) ==
    LET e == Rec("ABANDONED", p, NoNote)
        a == op[p].att IN
    /\ pc[p] = "a_log"
    /\ \/ LogReturns(e) /\ Return(p, "ABANDONED", a, NoNote)
       \/ LogRaises(e) /\ Return(p, "AMBIGUOUS", a, NoNote)
    /\ UNCHANGED <<notes, req>>

RecoveryStep(p) ==
    \/ RepairRead(p) \/ RepairFind(p) \/ RepairLog(p)
    \/ AbandonRead(p) \/ AbandonFind(p) \/ AbandonLog(p)

-----------------------------------------------------------------------------
(* Crashes, and the human who clears what they leave *)

\* It dies inside log(), as far into the append as LogRaises goes.
DiesAppending(p) ==
    \/ pc[p] = "f_uncertain" /\ LogRaises(Rec("UNCERTAIN", p, NoNote))
    \/ pc[p] \in {"f_accept", "r_log"} /\ LogRaises(Rec("ACCEPTED", p, op[p].note))
    \/ pc[p] = "a_log" /\ LogRaises(Rec("ABANDONED", p, NoNote))
    \/ \E a \in Attempts :
          /\ Allocatable(a)
          /\ \/ pc[p] = "f_reject" /\ LogRaises(FirstRec("REJECTED", p, a))
             \/ pc[p] = "f_intent" /\ LogRaises(FirstRec("INTENT", p, a))

\* The process dies.  The lock record it owns stays: nothing breaks a lock.
Crash(p) ==
    /\ pc[p] \notin {"idle", "crashed"}
    /\ UNCHANGED <<log, tail>> \/ DiesAppending(p)
    /\ Goto(p, "crashed")
    /\ op' = [op EXCEPT ![p] = NoOp]
    /\ UNCHANGED <<notes, req, lock, result>>

\* "Confirm no other process is running, then delete runtime.lock yourself."
ClearStaleLock(p) ==
    /\ pc[p] = "crashed"
    /\ Goto(p, "idle")
    /\ lock' = IF lock = p THEN NoProc ELSE lock
    /\ UNCHANGED <<worldVars, op, result>>

\* No code repairs a torn tail; the operator drops the partial record by hand
\* while nothing runs.
TrimTornTail ==
    /\ tail = "torn"
    /\ lock = NoProc
    /\ tail' = "clean"
    /\ UNCHANGED <<log, notes, req, lock, pc, op, result>>

-----------------------------------------------------------------------------
(* Anki: add_notes asks for allowDuplicate = FALSE, and a note created there *)
(* is found by its key until a person deletes it.                            *)

Fresh(n) == notes[n] = Unborn

AnkiCreates(a, n) ==
    /\ req[a].st = "sent"
    /\ Found(req[a].key) = {}
    /\ Fresh(n)
    /\ notes' = [notes EXCEPT ![n] = [key |-> req[a].key, by |-> a, live |-> TRUE]]
    /\ req' = [req EXCEPT ![a].st = "created", ![a].note = n]
    /\ UNCHANGED <<log, tail, lock, pc, op, result>>

AnkiRefuses(a) ==
    /\ req[a].st = "sent"
    /\ Found(req[a].key) # {}
    /\ req' = [req EXCEPT ![a].st = "refused"]
    /\ UNCHANGED <<log, tail, notes, lock, pc, op, result>>

\* The request never reaches Anki.
RequestLost(a) ==
    /\ req[a].st = "sent"
    /\ req' = [req EXCEPT ![a].st = "lost"]
    /\ UNCHANGED <<log, tail, notes, lock, pc, op, result>>

HumanAdds(k, n) ==
    /\ Fresh(n)
    /\ notes' = [notes EXCEPT ![n] = [key |-> k, by |-> Human, live |-> TRUE]]
    /\ UNCHANGED <<log, tail, req, lock, pc, op, result>>

HumanDeletes(n) ==
    /\ notes[n].live
    /\ notes' = [notes EXCEPT ![n].live = FALSE]
    /\ UNCHANGED <<log, tail, req, lock, pc, op, result>>

AnkiStep ==
    \/ \E a \in Attempts :
          \/ \E n \in NoteIds : AnkiCreates(a, n)
          \/ AnkiRefuses(a)
          \/ RequestLost(a)
    \/ \E n \in NoteIds : HumanDeletes(n) \/ \E k \in Keys : HumanAdds(k, n)

-----------------------------------------------------------------------------
Init ==
    /\ log = <<>>
    /\ tail = "clean"
    /\ notes = [n \in NoteIds |-> Unborn]
    /\ req = [a \in Attempts |-> NoRequest]
    /\ lock = NoProc
    /\ pc = [p \in Procs |-> "idle"]
    /\ op = [p \in Procs |-> NoOp]
    /\ result = [p \in Procs |-> NoResult]

Begin(p) ==
    \/ \E k \in Keys : BeginForge(p, k)
    \/ \E a \in Attempts : BeginRepair(p, a) \/ BeginAbandon(p, a)

Next ==
    \/ \E p \in Procs :
          Begin(p) \/ ForgeStep(p) \/ RecoveryStep(p) \/ Crash(p) \/ ClearStaleLock(p)
    \/ AnkiStep
    \/ TrimTornTail

Spec == Init /\ [][Next]_vars

-----------------------------------------------------------------------------
(* Properties *)

\* Anki is never asked for a note that no durable COMMIT_INTENT announces: a
\* crash or a lost reply can always be traced to an attempt (forge logs the
\* intent, and gives up when that append fails, before add_notes).
RequestHasIntent ==
    \A a \in Attempts :
        req[a].st # "none" => IntendedFor(log, a, req[a].key)

\* Whatever crashes, failed appends, late replies and manual edits happen, the
\* history of a unit_key never becomes one inspect_pending_intent refuses to
\* read: one intent per attempt, one terminal per intent, one open intent per
\* key.  A key whose history is ambiguous could never be forged again.
HistoryStaysReadable == \A k \in Keys : ~HistoryAmbiguous(log, k)

\* An attempt id allocated against the durable history is used for one unit
\* only, and an attempt that was refused is never also committed.
AttemptsAreNotReused ==
    \A i, j \in DOMAIN log :
        log[i].att = log[j].att =>
            /\ log[i].key = log[j].key
            /\ log[i].kind = "REJECTED" => i = j

\* What the operations report is what is on disk and in Anki.  CREATED: intent
\* and acceptance are durable and name the note this very attempt created.
\* REJECTED: Anki was never asked for a note.  REPAIRED and ABANDONED: their
\* terminal is durable.
ReportsAreTrue ==
    \A p \in Procs :
        LET r == result[p]
            AcceptedWith(n) == \E i \in Records(log, r.att, "ACCEPTED") : log[i].note = n
        IN
        /\ r.status = "CREATED" =>
              /\ Records(log, r.att, "INTENT") # {}
              /\ AcceptedWith(r.note)
              /\ notes[r.note].by = r.att
        /\ r.status = "REPAIRED" => AcceptedWith(r.note)
        /\ r.status = "REJECTED" => req[r.att].st = "none"
        /\ r.status = "ABANDONED" => Records(log, r.att, "ABANDONED") # {}

\* An acceptance names a note that really was created in Anki for that key,
\* whoever created it; only a repair may adopt a note of another author.
AcceptanceNamesANote ==
    \A i \in DOMAIN log :
        log[i].kind = "ACCEPTED" =>
            /\ log[i].note \in NoteIds
            /\ notes[log[i].note].key = log[i].key

\* Every operation that works on the journal owns the deployment lock, and a
\* lock is held only by a process at work or by one that crashed.
LockDiscipline ==
    \A p \in Procs :
        /\ pc[p] \notin {"idle", "crashed"} => lock = p
        /\ lock = p => pc[p] # "idle"

\* Once an attempt is accepted or abandoned no request for it leaves any more:
\* a note that turns up later was asked for before the intent was abandoned.
ResolvedAttemptsAskNothing ==
    [][\A a \in Attempts :
          Resolved(log, a) /\ req[a].st = "none" => req'[a].st = "none"]_vars

\* docs/RUNBOOK.md: "Exit 0 means the Unit was created; exit 4 means the Forge
\* core refused it".  Every status but CREATED exits 4, so the claim is that an
\* attempt reported with such a status created no note.
ExitFourMeansRefused ==
    \A p \in Procs, n \in NoteIds :
        result[p].status \in {"REJECTED", "ABORTED", "COMMIT_UNCERTAIN", "EVIDENCE_GAP"}
            => notes[n].by \in {Human, NoAttempt} \/ notes[n].by # result[p].att

\* Forge implements the promise of ForgeCommit.
AttemptStatus(a) ==
    IF Records(log, a, "ACCEPTED") # {} THEN "accepted"
    ELSE IF Records(log, a, "ABANDONED") # {} THEN "abandoned"
    ELSE IF Records(log, a, "INTENT") # {} THEN "open"
    ELSE IF Records(log, a, "REJECTED") # {} THEN "refused"
    ELSE "unused"

AttemptKey(a) ==
    IF Records(log, a, "INTENT") = {} THEN NoKey
    ELSE CHOOSE k \in Keys : IntendedFor(log, a, k)

Promise == INSTANCE ForgeCommit WITH
    status <- [a \in Attempts |-> AttemptStatus(a)],
    keyOf <- [a \in Attempts |-> AttemptKey(a)],
    asked <- {a \in Attempts : req[a].st # "none"}

\* Every behaviour of the journal, the lock and Anki is one ForgeCommit allows.
ImplementsPromise == Promise!Spec
=============================================================================
