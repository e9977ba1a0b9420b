---------------------------- MODULE ForgeProofs ----------------------------
(***************************************************************************)
(* Theorems about Forge for every set of keys, attempts, notes and          *)
(* processes.  Each safety property is strengthened to an inductive         *)
(* invariant; the later ones rest on the earlier ones:                      *)
(*                                                                          *)
(*   TypeInv      -- TypeOK, and what op and req hold at each pc            *)
(*   IntentInv    -- RequestHasIntent, and an attempt at work is intended   *)
(*   LockInv      -- LockDiscipline (recovery holds the lock)               *)
(*   HistoryInv   -- HistoryStaysReadable (recovery holds the lock)         *)
(*   NoteInv      -- a note that a request, a process or an acceptance      *)
(*                   names exists for its key, and is of whom it has to be  *)
(*   ReportInv    -- what a report claims is in the journal                 *)
(*                                                                          *)
(* With these every step is a step of ForgeCommit, or none (PromiseKept).   *)
(***************************************************************************)
EXTENDS Forge, TLAPS

Committing == {"f_add", "f_wait", "f_uncertain", "f_accept"}
Resolving == {"r_find", "r_log", "a_find", "a_log"}

\* Past each point of an operation, op holds what the code has looked up.
OpKnown ==
    \A p \in Procs :
        /\ pc[p] \in ForgePCs \union Resolving => op[p].key \in Keys
        /\ pc[p] \in Committing \union RecoveryPCs \union {"f_pending"}
              => op[p].att \in Attempts
        /\ pc[p] \in {"f_accept", "r_log"} => op[p].note \in NoteIds

ReqKnown ==
    \A a \in Attempts :
        /\ req[a].st # "none" => req[a].key \in Keys
        /\ req[a].st = "created" => req[a].note \in NoteIds

TypeInv == TypeOK /\ OpKnown /\ ReqKnown

\* The attempt a process commits or resolves has a durable intent for its key.
AtWorkIntended ==
    \A p \in Procs :
        pc[p] \in Committing \union Resolving => IntendedFor(log, op[p].att, op[p].key)

IntentInv == RequestHasIntent /\ AtWorkIntended

LockInv == LockDiscipline

WellFormed(h) ==
    \A a \in Attempts : AtMostOne(Records(h, a, "INTENT")) /\ ~Conflicted(h, a)

OneOpenIntent == \A k \in Keys : AtMostOne(PendingAttempts(log, k))

\* What forge and recovery found when they read the journal is still so when
\* they append to it, because only the owner of the lock appends.
ReadingStillHolds ==
    \A p \in Procs :
        /\ pc[p] \in {"f_dedup", "f_confirm", "f_intent"}
              => PendingAttempts(log, op[p].key) = {}
        /\ pc[p] \in Committing \union Resolving => ~Resolved(log, op[p].att)

HistoryInv == WellFormed(log) /\ OneOpenIntent /\ ReadingStillHolds

-----------------------------------------------------------------------------
(* Appending to the journal *)

LEMMA AppendedRecords ==
    ASSUME NEW h \in Seq(Event), NEW e \in Event, NEW a, NEW kind
    PROVE  /\ e.att = a /\ e.kind = kind
                 => Records(Append(h, e), a, kind) = Records(h, a, kind) \union {Len(h) + 1}
           /\ ~(e.att = a /\ e.kind = kind)
                 => Records(Append(h, e), a, kind) = Records(h, a, kind)
           /\ Records(h, a, kind) \subseteq 1 .. Len(h)
           /\ \A i \in Records(h, a, kind) : Append(h, e)[i] = h[i]
  BY DEF Records

LEMMA AppendKeepsIntents ==
    ASSUME NEW h \in Seq(Event), NEW e \in Event, NEW a, NEW k, IntendedFor(h, a, k)
    PROVE  IntendedFor(Append(h, e), a, k)
  <1>1. PICK i \in Records(h, a, "INTENT") : h[i].key = k
    BY DEF IntendedFor
  <1>2. i \in Records(Append(h, e), a, "INTENT") /\ Append(h, e)[i] = h[i]
    BY AppendedRecords, <1>1
  <1> QED  BY <1>1, <1>2 DEF IntendedFor

\* What an append may do to the journal, whether log() returned or raised.
LEMMA AppendOutcome ==
    ASSUME NEW e \in Event, log \in Seq(Event), tail \in {"clean", "torn"},
           LogReturns(e) \/ LogRaises(e)
    PROVE  /\ log' = log \/ log' = Append(log, e)
           /\ log' \in Seq(Event)
           /\ tail' \in {"clean", "torn"}
  BY DEF LogReturns, LogRaises

\* The process Return belongs to goes idle; the others do not notice.
LEMMA ReturnEffect ==
    ASSUME TypeOK, NEW p \in Procs, NEW s \in Statuses,
           NEW a \in Attempts \union {NoAttempt}, NEW n \in NoteIds \union {NoNote},
           Return(p, s, a, n)
    PROVE  /\ lock' \in Procs \union {NoProc}
           /\ pc' \in [Procs -> PCs] /\ op' \in [Procs -> Op] /\ result' \in [Procs -> Result]
           /\ pc'[p] = "idle"
           /\ \A q \in Procs \ {p} : pc'[q] = pc[q] /\ op'[q] = op[q]
  BY DEF Return, TypeOK, PCs, Op, NoOp, Result

-----------------------------------------------------------------------------
(* Types *)

LEMMA TypeInit == Init => TypeInv
  <1> SUFFICES ASSUME Init PROVE TypeInv
    OBVIOUS
  <1>1. TypeOK
    BY DEF Init, TypeOK, Note, Unborn, Request, NoRequest, RequestStatus, PCs, Op, NoOp,
           Result, NoResult
  <1>2. OpKnown
    BY DEF Init, OpKnown, ForgePCs, RecoveryPCs, Resolving, Committing
  <1>3. ReqKnown
    BY DEF Init, ReqKnown, NoRequest
  <1> QED  BY <1>1, <1>2, <1>3 DEF TypeInv

\* An operation that returns leaves a state whose process knows nothing.
LEMMA TypeReturn ==
    ASSUME TypeInv, NEW p \in Procs, NEW s \in Statuses,
           NEW a \in Attempts \union {NoAttempt}, NEW n \in NoteIds \union {NoNote},
           Return(p, s, a, n),
           log' \in Seq(Event), tail' \in {"clean", "torn"}, UNCHANGED <<notes, req>>
    PROVE  TypeInv'
  <1>1. TypeOK'
    BY ReturnEffect DEF TypeInv, TypeOK
  <1>2. OpKnown'
    BY ReturnEffect DEF TypeInv, OpKnown, ForgePCs, RecoveryPCs, Resolving, Committing
  <1>3. ReqKnown'
    BY DEF TypeInv, ReqKnown
  <1> QED  BY <1>1, <1>2, <1>3 DEF TypeInv

LEMMA TypeStart ==
    ASSUME TypeInv, NEW p \in Procs, Begin(p)
    PROVE  TypeInv'
  <1> USE DEF TypeInv, TypeOK, OpKnown, ReqKnown, Op, NoOp, Result, NoResult, PCs,
              ForgePCs, RecoveryPCs, Resolving, Committing, worldVars, Goto
  <1>1. ASSUME NEW k \in Keys, BeginForge(p, k) PROVE TypeInv'
    BY <1>1 DEF BeginForge
  <1>2. ASSUME NEW a \in Attempts, BeginRepair(p, a) PROVE TypeInv'
    BY <1>2 DEF BeginRepair, BeginRecovery
  <1>3. ASSUME NEW a \in Attempts, BeginAbandon(p, a) PROVE TypeInv'
    BY <1>3 DEF BeginAbandon, BeginRecovery
  <1> QED  BY <1>1, <1>2, <1>3 DEF Begin

LEMMA TypeForge ==
    ASSUME TypeInv, NEW p \in Procs, ForgeStep(p)
    PROVE  TypeInv'
  <1> USE DEF TypeInv, worldVars
  <1>t. log \in Seq(Event) /\ tail \in {"clean", "torn"}
    BY DEF TypeOK
  <1>1. CASE Validate(p)
    <2>1. CASE Return(p, "ABORTED", NoAttempt, NoNote) /\ UNCHANGED worldVars
      BY <2>1, <1>t, TypeReturn DEF Statuses
    <2>2. ASSUME NEW l \in {"f_reject", "f_inspect"}, Goto(p, l),
                 UNCHANGED <<worldVars, lock, op, result>>, pc[p] = "f_validate"
          PROVE  TypeInv'
      BY <2>2 DEF Goto, TypeOK, OpKnown, ReqKnown, PCs, ForgePCs, RecoveryPCs, Resolving, Committing
    <2> QED  BY <1>1, <2>1, <2>2 DEF Validate
  <1>2. CASE Inspect(p)
    <2>1. ASSUME NEW s \in {"ABORTED", "COMMIT_UNCERTAIN"},
                 Return(p, s, NoAttempt, NoNote), UNCHANGED worldVars
          PROVE  TypeInv'
      BY <2>1, <1>t, TypeReturn DEF Statuses
    <2>2. ASSUME NEW a \in Attempts, op' = [op EXCEPT ![p].att = a], Goto(p, "f_pending"),
                 UNCHANGED <<worldVars, lock, result>>, pc[p] = "f_inspect"
          PROVE  TypeInv'
      BY <2>2 DEF Goto, TypeOK, OpKnown, ReqKnown, PCs, ForgePCs, RecoveryPCs, Resolving, Committing, Op
    <2>3. CASE Goto(p, "f_dedup") /\ UNCHANGED <<worldVars, lock, op, result>> /\ pc[p] = "f_inspect"
      BY <2>3 DEF Goto, TypeOK, OpKnown, ReqKnown, PCs, ForgePCs, RecoveryPCs, Resolving, Committing
    <2> QED  BY <1>2, <2>1, <2>2, <2>3 DEF Inspect, PendingAttempts
  <1>3. CASE ReportPending(p)
    <2>1. op[p].att \in Attempts /\ Found(op[p].key) \subseteq NoteIds
      BY <1>3 DEF ReportPending, OpKnown, Found
    <2>2. PICK s \in Statuses, a \in Attempts, n \in NoteIds \union {NoNote} : Return(p, s, a, n)
      BY <1>3, <2>1 DEF ReportPending, Statuses
    <2> QED  BY <1>3, <1>t, <2>2, TypeReturn DEF ReportPending
  <1>4. CASE FindDuplicates(p)
    <2>1. CASE Return(p, "ABORTED", NoAttempt, NoNote) /\ UNCHANGED worldVars
      BY <2>1, <1>t, TypeReturn DEF Statuses
    <2>2. ASSUME NEW l \in {"f_reject", "f_confirm"}, Goto(p, l),
                 UNCHANGED <<worldVars, lock, op, result>>, pc[p] = "f_dedup"
          PROVE  TypeInv'
      BY <2>2 DEF Goto, TypeOK, OpKnown, ReqKnown, PCs, ForgePCs, RecoveryPCs, Resolving, Committing
    <2> QED  BY <1>4, <2>1, <2>2 DEF FindDuplicates
  <1>5. CASE Confirm(p)
    <2>1. CASE Return(p, "ABORTED", NoAttempt, NoNote) /\ UNCHANGED worldVars
      BY <2>1, <1>t, TypeReturn DEF Statuses
    <2>2. ASSUME NEW l \in {"f_reject", "f_intent"}, Goto(p, l),
                 UNCHANGED <<worldVars, lock, op, result>>, pc[p] = "f_confirm"
          PROVE  TypeInv'
      BY <2>2 DEF Goto, TypeOK, OpKnown, ReqKnown, PCs, ForgePCs, RecoveryPCs, Resolving, Committing
    <2> QED  BY <1>5, <2>1, <2>2 DEF Confirm
  <1>6. CASE Reject(p)
    <2>1. CASE Return(p, "ABORTED", NoAttempt, NoNote) /\ UNCHANGED worldVars
      BY <2>1, <1>t, TypeReturn DEF Statuses
    <2>2. ASSUME NEW a \in Attempts, NEW s \in {"REJECTED", "ABORTED"},
                 NEW e, e = FirstRec("REJECTED", p, a),
                 LogReturns(e) \/ LogRaises(e), Return(p, s, a, NoNote), UNCHANGED <<notes, req>>
          PROVE  TypeInv'
      <3>1. e \in Event
        BY <1>6, <2>2 DEF Reject, OpKnown, ForgePCs, FirstRec, Event, Kinds
      <3> QED  BY <3>1, <2>2, <1>t, AppendOutcome, TypeReturn DEF Statuses
    <2> QED  BY <1>6, <2>1, <2>2 DEF Reject
  <1>7. CASE LogIntent(p)
    <2>1. CASE Return(p, "ABORTED", NoAttempt, NoNote) /\ UNCHANGED worldVars
      BY <2>1, <1>t, TypeReturn DEF Statuses
    <2>2. ASSUME NEW a \in Attempts,
                 NEW e, e = FirstRec("INTENT", p, a),
                 UNCHANGED <<notes, req>>,
                 \/ LogReturns(e) /\ op' = [op EXCEPT ![p].att = a] /\ Goto(p, "f_add")
                       /\ UNCHANGED <<lock, result>>
                 \/ LogRaises(e) /\ Return(p, "ABORTED", a, NoNote)
          PROVE  TypeInv'
      <3>1. e \in Event
        BY <1>7, <2>2 DEF LogIntent, OpKnown, ForgePCs, FirstRec, Event, Kinds
      <3>2. CASE Return(p, "ABORTED", a, NoNote)
        BY <3>1, <3>2, <2>2, <1>t, AppendOutcome, TypeReturn DEF Statuses
      <3>3. CASE op' = [op EXCEPT ![p].att = a] /\ Goto(p, "f_add") /\ UNCHANGED <<lock, result>>
        <4>1. log' \in Seq(Event) /\ tail' \in {"clean", "torn"}
          BY <3>1, <2>2, <1>t, AppendOutcome
        <4> QED  BY <3>3, <4>1, <2>2, <1>7 DEF LogIntent, Goto, TypeOK, OpKnown, ReqKnown, PCs,
                     ForgePCs, RecoveryPCs, Resolving, Committing, Op
      <3> QED  BY <2>2, <3>2, <3>3
    <2> QED  BY <1>7, <2>1, <2>2 DEF LogIntent
  <1>8. CASE SendAdd(p)
    BY <1>8 DEF SendAdd, Goto, TypeOK, OpKnown, ReqKnown, PCs, ForgePCs, RecoveryPCs, Resolving,
                Committing, Request, RequestStatus
  <1>9. CASE ReceiveAdd(p)
    BY <1>9, SMTT(30) DEF ReceiveAdd, Goto, TypeOK, OpKnown, ReqKnown, PCs, ForgePCs,
                RecoveryPCs, Resolving, Committing, Op
  <1>10. CASE LogUncertain(p)
    <2>1. op[p].att \in Attempts /\ Rec("UNCERTAIN", p, NoNote) \in Event
      BY <1>10 DEF LogUncertain, OpKnown, ForgePCs, Committing, Rec, Event, Kinds
    <2> QED  BY <1>10, <2>1, <1>t, AppendOutcome, TypeReturn DEF LogUncertain, Statuses
  <1>11. CASE LogAcceptance(p)
    <2>1. op[p].att \in Attempts /\ op[p].note \in NoteIds /\ Rec("ACCEPTED", p, op[p].note) \in Event
      BY <1>11 DEF LogAcceptance, OpKnown, ForgePCs, Committing, Rec, Event, Kinds
    <2> QED  BY <1>11, <2>1, <1>t, AppendOutcome, TypeReturn DEF LogAcceptance, Statuses
  <1> QED
    BY <1>1, <1>2, <1>3, <1>4, <1>5, <1>6, <1>7, <1>8, <1>9, <1>10, <1>11 DEF ForgeStep

LEMMA TypeRecovery ==
    ASSUME TypeInv, NEW p \in Procs, RecoveryStep(p)
    PROVE  TypeInv'
  <1> USE DEF TypeInv, worldVars
  <1>t. log \in Seq(Event) /\ tail \in {"clean", "torn"}
    BY DEF TypeOK
  <1>h. pc[p] \in RecoveryPCs /\ op[p].att \in Attempts /\ Found(op[p].key) \subseteq NoteIds
    BY DEF RecoveryStep, RepairRead, AbandonRead, ReadHistory, RepairFind, RepairLog, AbandonFind,
           AbandonLog, RecoveryPCs, OpKnown, Found
  <1>1. ASSUME NEW here \in {"r_read", "a_read"}, NEW next \in {"r_find", "a_find"},
               ReadHistory(p, here, next)
        PROVE  TypeInv'
    <2>1. CASE \E s \in Statuses : Return(p, s, op[p].att, NoNote) /\ UNCHANGED worldVars
      BY <2>1, <1>t, <1>h, TypeReturn
    <2>2. ASSUME NEW i \in Records(log, op[p].att, "INTENT"),
                 op' = [op EXCEPT ![p].key = log[i].key], Goto(p, next),
                 UNCHANGED <<worldVars, lock, result>>
          PROVE  TypeInv'
      <3>1. log[i].key \in Keys
        <4>1. log[i] \in Event
          BY <1>t DEF Records
        <4> QED  BY <4>1 DEF Event
      <3> QED  BY <3>1, <2>2, <1>h DEF Goto, TypeOK, OpKnown, ReqKnown, PCs, ForgePCs, RecoveryPCs,
                   Resolving, Committing, Op
    <2> QED  BY <1>1, <2>1, <2>2 DEF ReadHistory, Statuses
  <1>2. CASE RepairFind(p)
    <2>1. CASE \E s \in Statuses : Return(p, s, op[p].att, NoNote) /\ UNCHANGED worldVars
      BY <2>1, <1>t, <1>h, TypeReturn
    <2>2. ASSUME NEW n \in NoteIds, op' = [op EXCEPT ![p].note = n], Goto(p, "r_log"),
                 UNCHANGED <<worldVars, lock, result>>, pc[p] = "r_find"
          PROVE  TypeInv'
      BY <2>2, <1>h DEF Goto, TypeOK, OpKnown, ReqKnown, PCs, ForgePCs, RecoveryPCs, Resolving,
                 Committing, Op
    <2> QED  BY <1>2, <1>h, <2>1, <2>2 DEF RepairFind, Statuses
  <1>3. CASE RepairLog(p)
    <2>1. op[p].note \in NoteIds /\ Rec("ACCEPTED", p, op[p].note) \in Event
      BY <1>3, <1>h DEF RepairLog, OpKnown, Resolving, Rec, Event, Kinds
    <2> QED  BY <1>3, <1>h, <2>1, <1>t, AppendOutcome, TypeReturn DEF RepairLog, Statuses
  <1>4. CASE AbandonFind(p)
    <2>1. CASE Return(p, "AMBIGUOUS", op[p].att, NoNote) /\ UNCHANGED worldVars
      BY <2>1, <1>t, <1>h, TypeReturn DEF Statuses
    <2>2. CASE Goto(p, "a_log") /\ UNCHANGED <<worldVars, lock, op, result>> /\ pc[p] = "a_find"
      BY <2>2 DEF Goto, TypeOK, OpKnown, ReqKnown, PCs, ForgePCs, RecoveryPCs, Resolving, Committing
    <2> QED  BY <1>4, <2>1, <2>2 DEF AbandonFind
  <1>5. CASE AbandonLog(p)
    <2>1. Rec("ABANDONED", p, NoNote) \in Event
      BY <1>5, <1>h DEF AbandonLog, OpKnown, Resolving, Rec, Event, Kinds
    <2> QED  BY <1>5, <1>h, <2>1, <1>t, AppendOutcome, TypeReturn DEF AbandonLog, Statuses
  <1> QED
    BY <1>1, <1>2, <1>3, <1>4, <1>5 DEF RecoveryStep, RepairRead, AbandonRead

LEMMA TypeCrash ==
    ASSUME TypeInv, NEW p \in Procs, Crash(p)
    PROVE  TypeInv'
  <1> USE DEF TypeInv
  <1>t. log \in Seq(Event) /\ tail \in {"clean", "torn"}
    BY DEF TypeOK
  <1>1. ASSUME DiesAppending(p)
        PROVE  \E e \in Event : LogRaises(e)
    <2> USE DEF OpKnown, ForgePCs, RecoveryPCs, Resolving, Committing, Event, Kinds
    <2>1. pc[p] = "f_uncertain" => Rec("UNCERTAIN", p, NoNote) \in Event
      BY DEF Rec
    <2>2. pc[p] \in {"f_accept", "r_log"} => Rec("ACCEPTED", p, op[p].note) \in Event
      BY DEF Rec
    <2>3. pc[p] = "a_log" => Rec("ABANDONED", p, NoNote) \in Event
      BY DEF Rec
    <2>4. \A a \in Attempts : pc[p] \in {"f_reject", "f_intent"}
             => FirstRec("REJECTED", p, a) \in Event /\ FirstRec("INTENT", p, a) \in Event
      BY DEF FirstRec
    <2> HIDE DEF Event
    <2> QED  BY <1>1, <2>1, <2>2, <2>3, <2>4 DEF DiesAppending
  <1>2. log' \in Seq(Event) /\ tail' \in {"clean", "torn"}
    BY <1>1, <1>t, AppendOutcome DEF Crash
  <1> QED  BY <1>2 DEF Crash, Goto, TypeOK, OpKnown, ReqKnown, PCs, ForgePCs, RecoveryPCs,
               Resolving, Committing, Op, NoOp

LEMMA TypeAnki ==
    ASSUME TypeInv, AnkiStep
    PROVE  TypeInv'
  <1> USE DEF TypeInv, TypeOK
  <1>1. ASSUME NEW a \in Attempts, NEW n \in NoteIds, AnkiCreates(a, n) PROVE TypeInv'
    <2>1. req[a].key \in Keys
      BY <1>1 DEF AnkiCreates, ReqKnown
    <2> QED
      BY <1>1, <2>1 DEF AnkiCreates, OpKnown, ReqKnown, Request, RequestStatus, Note, Unborn
  <1>2. ASSUME NEW a \in Attempts, AnkiRefuses(a) \/ RequestLost(a) PROVE TypeInv'
    <2>1. PICK s \in {"refused", "lost"} : req' = [req EXCEPT ![a].st = s]
      BY <1>2 DEF AnkiRefuses, RequestLost
    <2>2. req[a].st = "sent" /\ UNCHANGED <<log, tail, notes, lock, pc, op, result>>
      BY <1>2 DEF AnkiRefuses, RequestLost
    <2>3. req' \in [Attempts -> Request]
      BY <2>1 DEF Request, RequestStatus
    <2>4. ReqKnown'
      BY <2>1, <2>2 DEF ReqKnown, Request
    <2> QED  BY <2>2, <2>3, <2>4 DEF OpKnown
  <1>3. ASSUME NEW n \in NoteIds, HumanDeletes(n) PROVE TypeInv'
    <2>1. notes[n] \in [key : Keys, by : Attempts \union {Human}, live : BOOLEAN]
      BY <1>3 DEF HumanDeletes, Note, Unborn
    <2>2. notes' \in [NoteIds -> Note]
      BY <1>3, <2>1 DEF HumanDeletes, Note
    <2> QED  BY <1>3, <2>2 DEF HumanDeletes, OpKnown, ReqKnown
  <1>4. ASSUME NEW n \in NoteIds, NEW k \in Keys, HumanAdds(k, n) PROVE TypeInv'
    BY <1>4 DEF HumanAdds, OpKnown, ReqKnown, Note
  <1> QED  BY <1>1, <1>2, <1>3, <1>4 DEF AnkiStep

LEMMA TypeStep ==
    ASSUME TypeInv, [Next]_vars
    PROVE  TypeInv'
  <1>1. ASSUME NEW p \in Procs, ClearStaleLock(p) PROVE TypeInv'
    BY <1>1 DEF ClearStaleLock, Goto, worldVars, TypeInv, TypeOK, OpKnown, ReqKnown, PCs, ForgePCs,
                RecoveryPCs, Resolving, Committing
  <1>2. CASE TrimTornTail
    BY <1>2 DEF TrimTornTail, TypeInv, TypeOK, OpKnown, ReqKnown
  <1>3. CASE UNCHANGED vars
    BY <1>3 DEF vars, TypeInv, TypeOK, OpKnown, ReqKnown
  <1> QED
    BY <1>1, <1>2, <1>3, TypeStart, TypeForge, TypeRecovery, TypeCrash, TypeAnki DEF Next

LEMMA TypeAlways == Spec => []TypeInv
  BY TypeInit, TypeStep, PTL DEF Spec

\* Every variable keeps its type: in particular a record written by a recovery
\* call always carries the key, the attempt and the note it was started with.
THEOREM TypeCorrect == Spec => []TypeOK
  BY TypeAlways, PTL DEF TypeInv

-----------------------------------------------------------------------------
(* What a step may append, and how a process may move.  The journal's        *)
(* invariants rest on these two facts alone, not on the list of actions.     *)

\* Process p may append e: from where it stands, with what it works on.
Appends(p, e) ==
    \/ e.kind = "REJECTED" /\ pc[p] = "f_reject" /\ Allocatable(e.att) /\ e.key = op[p].key
    \/ e.kind = "INTENT" /\ pc[p] = "f_intent" /\ Allocatable(e.att) /\ e.key = op[p].key
    \/ /\ \/ e.kind = "UNCERTAIN" /\ pc[p] = "f_uncertain"
          \/ e.kind = "ACCEPTED" /\ pc[p] \in {"f_accept", "r_log"} /\ e.note = op[p].note
          \/ e.kind = "ABANDONED" /\ pc[p] = "a_log"
       /\ e.att = op[p].att
       /\ e.key = op[p].key

SameWork(p) == op'[p].att = op[p].att /\ op'[p].key = op[p].key

\* How p may come to stand at a pc whose reading of the journal must hold.
EntersCommitting(p) ==
    \/ pc[p] \in Committing /\ SameWork(p) /\ log' = log
    \/ /\ pc[p] = "f_intent" /\ op'[p].key = op[p].key /\ Allocatable(op'[p].att)
       /\ log' = Append(log, FirstRec("INTENT", p, op'[p].att))

EntersResolving(p) ==
    /\ log' = log
    /\ \/ pc[p] \in Resolving /\ SameWork(p)
       \/ /\ pc[p] \in {"r_read", "a_read"}
          /\ IntendedFor(log, op'[p].att, op'[p].key)
          /\ ~Resolved(log, op'[p].att)

EntersDedup(p) ==
    /\ log' = log /\ SameWork(p)
    /\ \/ pc[p] \in {"f_dedup", "f_confirm", "f_intent"}
       \/ pc[p] = "f_inspect" /\ PendingAttempts(log, op[p].key) = {}

Moves(p) ==
    /\ pc'[p] \in Committing => EntersCommitting(p)
    /\ pc'[p] \in Resolving => EntersResolving(p)
    /\ pc'[p] \in {"f_dedup", "f_confirm", "f_intent"} => EntersDedup(p)

Stays(p) == pc'[p] = pc[p] /\ op'[p] = op[p]

LEMMA RecordedBy ==
    ASSUME TypeInv, NEW p \in Procs
    PROVE  /\ pc[p] = "f_uncertain" => /\ Rec("UNCERTAIN", p, NoNote) \in Event
                                       /\ Appends(p, Rec("UNCERTAIN", p, NoNote))
           /\ pc[p] \in {"f_accept", "r_log"} =>
                /\ Rec("ACCEPTED", p, op[p].note) \in Event
                /\ Appends(p, Rec("ACCEPTED", p, op[p].note))
           /\ pc[p] = "a_log" => /\ Rec("ABANDONED", p, NoNote) \in Event
                                 /\ Appends(p, Rec("ABANDONED", p, NoNote))
           /\ \A a \in Attempts :
                /\ pc[p] = "f_reject" /\ Allocatable(a) => /\ FirstRec("REJECTED", p, a) \in Event
                                                           /\ Appends(p, FirstRec("REJECTED", p, a))
                /\ pc[p] = "f_intent" /\ Allocatable(a) => /\ FirstRec("INTENT", p, a) \in Event
                                                           /\ Appends(p, FirstRec("INTENT", p, a))
  BY DEF TypeInv, OpKnown, ForgePCs, RecoveryPCs, Resolving, Committing, Event, Kinds, Rec,
         FirstRec, Appends

ProcessStep(p) ==
    Begin(p) \/ ForgeStep(p) \/ RecoveryStep(p) \/ Crash(p) \/ ClearStaleLock(p)

LEMMA OthersStay ==
    ASSUME TypeInv, NEW p \in Procs, ProcessStep(p)
    PROVE  \A q \in Procs \ {p} : Stays(q)
  BY DEF ProcessStep, Begin, ForgeStep, RecoveryStep, TypeInv, TypeOK, Stays, Return, Goto,
         worldVars, BeginForge, BeginRepair, BeginAbandon, BeginRecovery, Validate, Inspect,
         ReportPending, FindDuplicates, Confirm, Reject, LogIntent, SendAdd, ReceiveAdd,
         LogUncertain, LogAcceptance, RepairRead, AbandonRead, ReadHistory, RepairFind, RepairLog,
         AbandonFind, AbandonLog, Crash, ClearStaleLock

\* A process leaves the journal alone or appends a record of its own.
LEMMA JournalStep ==
    ASSUME TypeInv, NEW p \in Procs, ProcessStep(p)
    PROVE  log' = log \/ \E e \in Event : Appends(p, e) /\ log' = Append(log, e)
  <1> DEFINE Grows == \E e \in Event : Appends(p, e) /\ log' = Append(log, e)
  <1>1. ASSUME NEW e \in Event, Appends(p, e), LogReturns(e) \/ LogRaises(e)
        PROVE  log' = log \/ Grows
    BY <1>1, AppendOutcome DEF TypeInv, TypeOK
  <1>2. CASE DiesAppending(p)
    BY <1>1, <1>2, RecordedBy DEF DiesAppending
  <1>3. CASE Reject(p) \/ LogIntent(p)
    BY <1>1, <1>3, RecordedBy DEF Reject, LogIntent, worldVars
  <1>4. CASE LogUncertain(p) \/ LogAcceptance(p) \/ RepairLog(p) \/ AbandonLog(p)
    BY <1>1, <1>4, RecordedBy DEF LogUncertain, LogAcceptance, RepairLog, AbandonLog
  <1> QED
    BY <1>2, <1>3, <1>4
       DEF ProcessStep, ForgeStep, RecoveryStep, worldVars, Validate, Inspect, ReportPending,
           FindDuplicates, Confirm, SendAdd, ReceiveAdd, RepairRead, AbandonRead, ReadHistory,
           RepairFind, AbandonFind, Begin, ClearStaleLock, BeginForge, BeginRepair, BeginAbandon,
           BeginRecovery, Crash

\* A process moves as the control flow of forge and recovery says.
LEMMA ControlStep ==
    ASSUME TypeInv, NEW p \in Procs, ProcessStep(p)
    PROVE  Moves(p)
  <1> USE DEF Committing, Resolving
  <1>t. op \in [Procs -> Op] /\ pc \in [Procs -> PCs]
    BY DEF TypeInv, TypeOK
  <1>1. ASSUME pc'[p] \notin Committing \union Resolving \union {"f_dedup", "f_confirm", "f_intent"}
        PROVE Moves(p)
    BY <1>1 DEF Moves
  <1>2. CASE Begin(p) \/ Crash(p) \/ ClearStaleLock(p)
    BY <1>1, <1>2, <1>t DEF Begin, Crash, ClearStaleLock, BeginForge, BeginRepair, BeginAbandon,
       BeginRecovery, Goto
  <1>3. ASSUME NEW s, NEW a, NEW n, Return(p, s, a, n) PROVE Moves(p)
    BY <1>1, <1>3, <1>t DEF Return
  <1>4. CASE Validate(p) \/ ReportPending(p) \/ Reject(p) \/ LogUncertain(p) \/ LogAcceptance(p)
             \/ RepairLog(p) \/ AbandonLog(p)
    BY <1>1, <1>3, <1>4, <1>t DEF Validate, ReportPending, Reject, LogUncertain, LogAcceptance,
       RepairLog, AbandonLog, Goto
  <1>5. CASE Inspect(p)
    BY <1>1, <1>3, <1>5, <1>t DEF Inspect, Goto, Moves, EntersDedup, SameWork, worldVars
  <1>6. CASE FindDuplicates(p) \/ Confirm(p)
    BY <1>1, <1>3, <1>6, <1>t DEF FindDuplicates, Confirm, Goto, Moves, EntersDedup, SameWork, worldVars
  <1>7. CASE LogIntent(p)
    <2>1. ASSUME NEW a \in Attempts, Allocatable(a), LogReturns(FirstRec("INTENT", p, a)),
                 op' = [op EXCEPT ![p].att = a], Goto(p, "f_add")
          PROVE  Moves(p)
      <3>1. op'[p].att = a /\ op'[p].key = op[p].key /\ pc'[p] = "f_add"
        BY <2>1, <1>t DEF Goto, Op
      <3> QED  BY <3>1, <2>1, <1>7 DEF LogIntent, Moves, EntersCommitting, LogReturns
    <2> QED  BY <1>3, <1>7, <2>1 DEF LogIntent
  <1>8. CASE SendAdd(p) \/ ReceiveAdd(p)
    BY <1>8, <1>t DEF SendAdd, ReceiveAdd, Goto, Moves, EntersCommitting, SameWork, worldVars, Op
  <1>9. CASE RepairRead(p) \/ AbandonRead(p)
    <2>1. ASSUME NEW l \in {"r_find", "a_find"}, NEW i \in Records(log, op[p].att, "INTENT"),
                 op' = [op EXCEPT ![p].key = log[i].key], Goto(p, l), UNCHANGED worldVars,
                 ~Resolved(log, op[p].att), pc[p] \in {"r_read", "a_read"}
          PROVE  Moves(p)
      <3>1. op'[p].att = op[p].att /\ op'[p].key = log[i].key /\ pc'[p] = l
        BY <2>1, <1>t DEF Goto, Op
      <3> QED  BY <3>1, <2>1 DEF Moves, EntersResolving, IntendedFor, worldVars
    <2> QED  BY <1>3, <1>9, <2>1 DEF RepairRead, AbandonRead, ReadHistory
  <1>10. CASE RepairFind(p) \/ AbandonFind(p)
    BY <1>3, <1>10, <1>t DEF RepairFind, AbandonFind, Goto, Moves, EntersResolving, SameWork,
       worldVars, Op
  <1> QED
    BY <1>2, <1>4, <1>5, <1>6, <1>7, <1>8, <1>9, <1>10 DEF ProcessStep, ForgeStep, RecoveryStep

\* Anki, the operator at the torn tail, and a stutter touch neither the journal
\* nor a process.
LEMMA WorldStep ==
    ASSUME [Next]_vars, ~ \E p \in Procs : ProcessStep(p)
    PROVE  log' = log /\ pc' = pc /\ op' = op
  BY DEF Next, ProcessStep, AnkiStep, TrimTornTail, vars, AnkiCreates, AnkiRefuses, RequestLost,
         HumanAdds, HumanDeletes

-----------------------------------------------------------------------------
(* No request without a durable intent *)

LEMMA IntentsLast ==
    ASSUME TypeInv, [Next]_vars, NEW a, NEW k, IntendedFor(log, a, k)
    PROVE  IntendedFor(log', a, k)
  <1>1. log' = log \/ \E e \in Event : log' = Append(log, e)
    BY JournalStep, WorldStep
  <1> QED  BY <1>1, AppendKeepsIntents DEF TypeInv, TypeOK

\* A request stays as it was sent; a new one is sent from f_add.
LEMMA RequestStep ==
    ASSUME TypeInv, [Next]_vars, NEW a \in Attempts, req'[a].st # "none"
    PROVE  \/ req[a].st # "none" /\ req'[a].key = req[a].key
           \/ \E p \in Procs : pc[p] = "f_add" /\ op[p].att = a /\ req'[a].key = op[p].key
  <1>t. req \in [Attempts -> Request]
    BY DEF TypeInv, TypeOK
  <1>1. ASSUME NEW p \in Procs, SendAdd(p)
        PROVE  \/ req[a].st # "none" /\ req'[a].key = req[a].key
               \/ pc[p] = "f_add" /\ op[p].att = a /\ req'[a].key = op[p].key
    BY <1>1, <1>t DEF SendAdd, Request
  <1>2. ASSUME NEW b \in Attempts, NEW n \in NoteIds,
               AnkiCreates(b, n) \/ AnkiRefuses(b) \/ RequestLost(b)
        PROVE  req[a].st # "none" /\ req'[a].key = req[a].key
    BY <1>2, <1>t DEF AnkiCreates, AnkiRefuses, RequestLost, Request
  <1>3. CASE req' = req
    BY <1>3
  <1>4. ASSUME NEW p \in Procs, ProcessStep(p) PROVE req' = req \/ SendAdd(p)
    BY <1>4 DEF ProcessStep, Begin, BeginForge, BeginRepair, BeginAbandon, BeginRecovery, ForgeStep,
       Validate, Inspect, ReportPending, FindDuplicates, Confirm, Reject, LogIntent, ReceiveAdd,
       LogUncertain, LogAcceptance, RecoveryStep, RepairRead, AbandonRead, ReadHistory, RepairFind,
       RepairLog, AbandonFind, AbandonLog, Crash, ClearStaleLock, worldVars
  <1>5. CASE AnkiStep
    <2>1. ASSUME NEW b \in Attempts, AnkiRefuses(b) \/ RequestLost(b)
          PROVE  req[a].st # "none" /\ req'[a].key = req[a].key
      BY <2>1, <1>t DEF AnkiRefuses, RequestLost, Request
    <2> QED  BY <1>2, <1>3, <1>5, <2>1 DEF AnkiStep, HumanAdds, HumanDeletes
  <1>6. CASE TrimTornTail \/ UNCHANGED vars
    BY <1>3, <1>6 DEF TrimTornTail, vars
  <1> QED
    BY <1>1, <1>3, <1>4, <1>5, <1>6 DEF Next, ProcessStep

LEMMA IntentInit == Init => IntentInv
  BY DEF Init, IntentInv, RequestHasIntent, AtWorkIntended, NoRequest, Committing, Resolving

LEMMA IntentStep ==
    ASSUME TypeInv, IntentInv, [Next]_vars
    PROVE  IntentInv'
  <1>1. RequestHasIntent'
    <2> SUFFICES ASSUME NEW a \in Attempts, req'[a].st # "none"
                 PROVE  IntendedFor(log', a, req'[a].key)
      BY DEF RequestHasIntent
    <2>1. IntendedFor(log, a, req'[a].key)
      BY RequestStep DEF IntentInv, RequestHasIntent, AtWorkIntended, Committing
    <2> QED  BY <2>1, IntentsLast
  <1>2. AtWorkIntended'
    <2> SUFFICES ASSUME NEW q \in Procs, pc'[q] \in Committing \union Resolving
                 PROVE  IntendedFor(log', op'[q].att, op'[q].key)
      BY DEF AtWorkIntended
    <2>1. CASE Stays(q)
      BY <2>1, IntentsLast DEF Stays, IntentInv, AtWorkIntended
    <2>2. CASE ProcessStep(q)
      <3>1. CASE IntendedFor(log, op'[q].att, op'[q].key)
        BY <3>1, IntentsLast
      <3>2. CASE pc[q] = "f_intent" /\ EntersCommitting(q)
        <4> DEFINE e == FirstRec("INTENT", q, op'[q].att)
        <4>1. op'[q].att \in Attempts
          BY TypeStep DEF TypeInv, OpKnown, Committing, Resolving, RecoveryPCs
        <4>2. e \in Event /\ log' = Append(log, e) /\ log \in Seq(Event)
          BY <3>2, <4>1, RecordedBy DEF EntersCommitting, Committing, TypeInv, TypeOK
        <4>3. e.kind = "INTENT" /\ e.att = op'[q].att /\ e.key = op'[q].key
          BY <3>2 DEF FirstRec, EntersCommitting, Committing
        <4>4. Len(log) + 1 \in Records(log', op'[q].att, "INTENT")
          BY <4>2, <4>3, AppendedRecords
        <4>5. log'[Len(log) + 1] = e
          BY <4>2
        <4> QED  BY <4>3, <4>4, <4>5 DEF IntendedFor
      <3>3. EntersCommitting(q) \/ EntersResolving(q)
        BY <2>2, ControlStep DEF Moves
      <3> QED
        BY <3>1, <3>2, <3>3 DEF EntersCommitting, EntersResolving, SameWork, IntentInv, AtWorkIntended
    <2> QED  BY <2>1, <2>2, OthersStay, WorldStep DEF Stays
  <1> QED  BY <1>1, <1>2 DEF IntentInv

LEMMA IntentAlways == Spec => []IntentInv
  BY TypeAlways, IntentInit, IntentStep, PTL DEF Spec

\* Anki is asked for a note only when the journal durably holds an intent of
\* that attempt for that unit (forge logs the intent, and gives up when the
\* append fails, before add_notes).  Recovery need not hold the lock.
THEOREM RequestsAreIntended == Spec => []RequestHasIntent
  BY IntentAlways, PTL DEF IntentInv

-----------------------------------------------------------------------------
(* The deployment lock, when recovery is run under it *)

Working(p) == pc[p] \notin {"idle", "crashed"}

\* A process takes the lock, drops it as it goes idle, or keeps what it has.
LEMMA LockStep ==
    ASSUME RecoveryTakesLock, TypeInv, NEW p \in Procs, ProcessStep(p)
    PROVE  \/ lock = NoProc /\ lock' = p /\ pc'[p] # "idle"
           \/ lock' = (IF lock = p THEN NoProc ELSE lock) /\ pc'[p] = "idle"
           \/ Working(p) /\ lock' = lock /\ pc'[p] # "idle"
  <1>t. pc \in [Procs -> PCs]
    BY DEF TypeInv, TypeOK
  <1> USE DEF Working
  <1>1. CASE Begin(p)
    BY <1>1, <1>t DEF Begin, BeginForge, BeginRepair, BeginAbandon, BeginRecovery, Goto
  <1>2. CASE ForgeStep(p)
    BY <1>2, <1>t DEF ForgeStep, Validate, Inspect, ReportPending, FindDuplicates, Confirm, Reject,
       LogIntent, SendAdd, ReceiveAdd, LogUncertain, LogAcceptance, Return, Goto
  <1>3. CASE RecoveryStep(p)
    BY <1>3, <1>t DEF RecoveryStep, RepairRead, AbandonRead, ReadHistory, RepairFind, RepairLog,
       AbandonFind, AbandonLog, Return, Goto
  <1>4. CASE Crash(p) \/ ClearStaleLock(p)
    BY <1>4, <1>t DEF Crash, ClearStaleLock, Goto
  <1> QED  BY <1>1, <1>2, <1>3, <1>4 DEF ProcessStep

LEMMA LockUntouched ==
    ASSUME [Next]_vars, ~ \E p \in Procs : ProcessStep(p)
    PROVE  lock' = lock
  BY DEF Next, ProcessStep, AnkiStep, TrimTornTail, vars, AnkiCreates, AnkiRefuses, RequestLost,
         HumanAdds, HumanDeletes

LEMMA LockPreserved ==
    ASSUME RecoveryTakesLock, TypeInv, LockInv, [Next]_vars
    PROVE  LockInv'
  <1>1. CASE \E p \in Procs : ProcessStep(p)
    BY <1>1, LockStep, OthersStay, ForgeAssumption DEF LockInv, LockDiscipline, Stays, Working
  <1>2. CASE ~ \E p \in Procs : ProcessStep(p)
    BY <1>2, WorldStep, LockUntouched DEF LockInv, LockDiscipline
  <1> QED  BY <1>1, <1>2

LEMMA LockAlways ==
    ASSUME RecoveryTakesLock
    PROVE  Spec => []LockInv
  <1>1. Init => LockInv
    BY ForgeAssumption DEF Init, LockInv, LockDiscipline
  <1>2. TypeInv /\ LockInv /\ [Next]_vars => LockInv'
    BY LockPreserved
  <1> QED  BY <1>1, <1>2, TypeAlways, PTL DEF Spec

\* When every caller takes the deployment lock, whoever is between two steps of
\* an operation owns it, and only a crash leaves it behind.
THEOREM LockIsKept ==
    ASSUME RecoveryTakesLock
    PROVE  Spec => []LockDiscipline
  BY LockAlways, PTL DEF LockInv

-----------------------------------------------------------------------------
(* The history of a unit stays readable *)

\* Appending what forge and recovery append keeps every attempt's history
\* well-formed and opens no intent but a new one.
LEMMA AppendHistory ==
    ASSUME NEW h \in Seq(Event), NEW e \in Event, WellFormed(h),
           e.kind = "INTENT" => \A i \in DOMAIN h : h[i].att # e.att,
           e.kind \in {"ACCEPTED", "ABANDONED"} => ~Resolved(h, e.att)
    PROVE  /\ WellFormed(Append(h, e))
           /\ \A k : \A a \in PendingAttempts(Append(h, e), k) :
                 a \in PendingAttempts(h, k) \/ (e.kind = "INTENT" /\ a = e.att /\ k = e.key)
  <1> DEFINE g == Append(h, e)
  <1>1. \A a, kind : ~(e.att = a /\ e.kind = kind) => Records(g, a, kind) = Records(h, a, kind)
    BY AppendedRecords
  <1>2. ASSUME NEW a, NEW kind, Records(h, a, kind) = {} PROVE AtMostOne(Records(g, a, kind))
    <2>1. Records(g, a, kind) \subseteq {Len(h) + 1}
      BY <1>1, <1>2, AppendedRecords
    <2> QED  BY <2>1 DEF AtMostOne
  <1>3. WellFormed(g)
    <2> SUFFICES ASSUME NEW a \in Attempts
                 PROVE  AtMostOne(Records(g, a, "INTENT")) /\ ~Conflicted(g, a)
      BY DEF WellFormed
    <2>1. AtMostOne(Records(g, a, "INTENT"))
      <3>1. CASE e.att = a /\ e.kind = "INTENT"
        <4>1. Records(h, a, "INTENT") = {}
          BY <3>1 DEF Records
        <4> QED  BY <4>1, <1>2
      <3> QED  BY <3>1, <1>1 DEF WellFormed
    <2>2. ~Conflicted(g, a)
      <3>1. CASE e.att = a /\ e.kind = "ACCEPTED"
        BY <3>1, <1>1, <1>2 DEF Conflicted, Resolved, WellFormed
      <3>2. CASE e.att = a /\ e.kind = "ABANDONED"
        BY <3>2, <1>1, <1>2 DEF Conflicted, Resolved, WellFormed
      <3> QED  BY <3>1, <3>2, <1>1 DEF Conflicted, WellFormed
    <2> QED  BY <2>1, <2>2
  <1>4. ASSUME NEW k, NEW a \in PendingAttempts(g, k),
               ~(e.kind = "INTENT" /\ a = e.att /\ k = e.key)
        PROVE  a \in PendingAttempts(h, k)
    <2>1. a \in Attempts /\ IntendedFor(g, a, k) /\ ~Resolved(g, a)
      BY <1>4 DEF PendingAttempts
    <2>2. IntendedFor(h, a, k)
      <3>1. PICK i \in Records(g, a, "INTENT") : g[i].key = k
        BY <2>1 DEF IntendedFor
      <3>2. i \in Records(h, a, "INTENT")
        <4>1. i # Len(h) + 1
          BY <3>1, <1>4 DEF Records
        <4> QED  BY <3>1, <4>1, AppendedRecords
      <3>3. h[i].key = k
        BY <3>1, <3>2, AppendedRecords
      <3> QED  BY <3>2, <3>3 DEF IntendedFor
    <2>3. ~Resolved(h, a)
      BY <2>1, <1>1, AppendedRecords DEF Resolved
    <2>4. ~Malformed(h, a)
      BY <2>1, <2>2 DEF Malformed, ExactlyOne, WellFormed, IntendedFor
    <2> QED  BY <2>1, <2>2, <2>3, <2>4 DEF PendingAttempts
  <1> QED  BY <1>3, <1>4

LEMMA HistoryInit == Init => HistoryInv
  <1> SUFFICES ASSUME Init PROVE HistoryInv
    OBVIOUS
  <1>1. \A a, kind : Records(log, a, kind) = {}
    BY DEF Init, Records
  <1>2. WellFormed(log) /\ \A k : PendingAttempts(log, k) = {}
    BY <1>1 DEF WellFormed, AtMostOne, Conflicted, PendingAttempts, IntendedFor
  <1> QED
    BY <1>2 DEF Init, HistoryInv, OneOpenIntent, AtMostOne, ReadingStillHolds, Committing, Resolving

\* While p appends, no other process relies on what it read before.
LEMMA OnlyTheOwnerAppends ==
    ASSUME TypeInv, LockInv, NEW p \in Procs, NEW e, Appends(p, e), ProcessStep(p),
           NEW q \in Procs \ {p}
    PROVE  pc'[q] \in {"idle", "crashed"}
  <1>1. lock = p /\ pc'[q] = pc[q]
    BY OthersStay DEF LockInv, LockDiscipline, Appends, Stays
  <1> QED  BY <1>1 DEF LockInv, LockDiscipline

LEMMA HistoryStep ==
    ASSUME TypeInv, LockInv, HistoryInv, [Next]_vars
    PROVE  HistoryInv'
  <1> USE DEF HistoryInv
  <1>l. log \in Seq(Event)
    BY DEF TypeInv, TypeOK
  <1>1. CASE ~ \E p \in Procs : ProcessStep(p)
    BY <1>1, WorldStep DEF OneOpenIntent, ReadingStillHolds
  <1>2. ASSUME NEW p \in Procs, ProcessStep(p), log' = log PROVE HistoryInv'
    <2>1. WellFormed(log') /\ OneOpenIntent'
      BY <1>2 DEF OneOpenIntent
    <2>2. ReadingStillHolds'
      <3> SUFFICES ASSUME NEW q \in Procs
                   PROVE /\ pc'[q] \in {"f_dedup", "f_confirm", "f_intent"}
                              => PendingAttempts(log, op'[q].key) = {}
                         /\ pc'[q] \in Committing \union Resolving => ~Resolved(log, op'[q].att)
        BY <1>2 DEF ReadingStillHolds
      <3>1. CASE q # p
        BY <3>1, <1>2, OthersStay DEF Stays, ReadingStillHolds
      <3>2. CASE q = p
        <4>1. Moves(p)
          BY <1>2, ControlStep
        <4>2. ~ \E e \in Event : log = Append(log, e)
          BY <1>l
        <4>3. pc'[p] \in {"f_dedup", "f_confirm", "f_intent"}
                 => PendingAttempts(log, op'[p].key) = {}
          BY <4>1 DEF Moves, EntersDedup, SameWork, ReadingStillHolds
        <4>4. pc'[p] \in Resolving => ~Resolved(log, op'[p].att)
          BY <4>1 DEF Moves, EntersResolving, SameWork, ReadingStillHolds
        <4>5. pc'[p] \in Committing => ~Resolved(log, op'[p].att)
          <5>1. CASE pc[p] \in Committing
            BY <4>1, <5>1 DEF Moves, EntersCommitting, SameWork, ReadingStillHolds, Committing
          <5>2. CASE pc'[p] \in Committing /\ pc[p] \notin Committing
            <6>1. op'[p].att \in Attempts
              BY <5>2, TypeStep DEF TypeInv, OpKnown
            <6> QED
              BY <4>1, <4>2, <5>2, <6>1, <1>2, RecordedBy DEF Moves, EntersCommitting
          <5> QED  BY <5>1, <5>2
        <4> QED  BY <3>2, <4>3, <4>4, <4>5
      <3> QED  BY <3>1, <3>2
    <2> QED  BY <2>1, <2>2
  <1>3. ASSUME NEW p \in Procs, ProcessStep(p), NEW e \in Event, Appends(p, e),
               log' = Append(log, e)
        PROVE  HistoryInv'
    <2>1. /\ e.kind = "INTENT" => \A i \in DOMAIN log : log[i].att # e.att
          /\ e.kind \in {"ACCEPTED", "ABANDONED"} => ~Resolved(log, e.att)
      BY <1>3 DEF Appends, Allocatable, ReadingStillHolds, Committing, Resolving
    <2>2. /\ WellFormed(log')
          /\ \A k : \A a \in PendingAttempts(log', k) :
               a \in PendingAttempts(log, k) \/ (e.kind = "INTENT" /\ a = e.att /\ k = e.key)
      BY <1>3, <1>l, <2>1, AppendHistory
    <2>3. OneOpenIntent'
      <3> SUFFICES ASSUME NEW k \in Keys PROVE AtMostOne(PendingAttempts(log', k))
        BY DEF OneOpenIntent
      <3>1. CASE e.kind = "INTENT" /\ k = e.key
        <4>1. PendingAttempts(log, k) = {}
          BY <1>3, <3>1 DEF Appends, ReadingStillHolds
        <4> QED  BY <4>1, <2>2 DEF AtMostOne
      <3> QED  BY <3>1, <2>2 DEF AtMostOne, OneOpenIntent
    <2>4. ReadingStillHolds'
      <3> SUFFICES ASSUME NEW q \in Procs
                   PROVE /\ pc'[q] \in {"f_dedup", "f_confirm", "f_intent"}
                              => PendingAttempts(log', op'[q].key) = {}
                         /\ pc'[q] \in Committing \union Resolving => ~Resolved(log', op'[q].att)
        BY DEF ReadingStillHolds
      <3>1. CASE q # p
        BY <3>1, <1>3, OnlyTheOwnerAppends DEF Committing, Resolving
      <3>2. CASE q = p
        <4>1. Moves(p) /\ log' # log
          BY <1>3, <1>l, ControlStep
        <4>2. CASE pc'[p] \in Committing
          <5>1. Allocatable(op'[p].att) /\ op'[p].att \in Attempts
                /\ log' = Append(log, FirstRec("INTENT", p, op'[p].att)) /\ pc[p] = "f_intent"
            BY <4>1, <4>2, TypeStep DEF Moves, EntersCommitting, TypeInv, OpKnown
          <5>2. FirstRec("INTENT", p, op'[p].att) \in Event
            BY <5>1, RecordedBy
          <5>3. ~Resolved(log, op'[p].att)
            BY <5>1 DEF Allocatable, Resolved, Records
          <5>4. FirstRec("INTENT", p, op'[p].att).kind = "INTENT"
            BY DEF FirstRec
          <5>5. \A kind \in {"ACCEPTED", "ABANDONED"} :
                   Records(log', op'[p].att, kind) = Records(log, op'[p].att, kind)
            BY <5>1, <5>2, <5>4, <1>l, AppendedRecords
          <5> QED  BY <3>2, <5>3, <5>4, <5>5, <4>2 DEF Resolved, Committing
        <4> QED
          BY <3>2, <4>1, <4>2 DEF Moves, EntersDedup, EntersResolving, Committing, Resolving
      <3> QED  BY <3>1, <3>2
    <2> QED  BY <2>2, <2>3, <2>4
  <1> QED  BY <1>1, <1>2, <1>3, JournalStep

LEMMA HistoryAlways ==
    ASSUME RecoveryTakesLock
    PROVE  Spec => []HistoryInv
  <1>1. TypeInv /\ LockInv /\ HistoryInv /\ [Next]_vars => HistoryInv'
    BY HistoryStep
  <1> QED  BY <1>1, HistoryInit, TypeAlways, LockAlways, PTL DEF Spec

\* When every caller takes the deployment lock, no crash, failed append, late
\* Anki reply or manual edit makes the history of a unit one that
\* inspect_pending_intent refuses to read: a unit can always be forged or
\* recovered again.
THEOREM HistoriesStayReadable ==
    ASSUME RecoveryTakesLock
    PROVE  Spec => []HistoryStaysReadable
  <1>1. HistoryInv => HistoryStaysReadable
    BY DEF HistoryInv, HistoryStaysReadable, HistoryAmbiguous, WellFormed, OneOpenIntent,
           Malformed, ExactlyOne, IntendedFor
  <1> QED  BY <1>1, HistoryAlways, PTL

-----------------------------------------------------------------------------
(* An attempt id belongs to one unit *)

LEMMA ReuseStep ==
    ASSUME TypeInv, IntentInv, AttemptsAreNotReused, [Next]_vars
    PROVE  AttemptsAreNotReused'
  <1>l. log \in Seq(Event)
    BY DEF TypeInv, TypeOK
  <1>1. CASE log' = log
    BY <1>1 DEF AttemptsAreNotReused
  <1>2. ASSUME NEW p \in Procs, NEW e \in Event, Appends(p, e), log' = Append(log, e)
        PROVE  AttemptsAreNotReused'
    <2>1. ASSUME NEW i \in DOMAIN log, log[i].att = e.att
          PROVE  log[i].key = e.key /\ log[i].kind # "REJECTED" /\ e.kind # "REJECTED"
      <3>1. ~Allocatable(e.att)
        BY <2>1 DEF Allocatable
      <3>2. e.kind # "REJECTED" /\ IntendedFor(log, e.att, e.key)
        BY <1>2, <3>1 DEF Appends, IntentInv, AtWorkIntended, Committing, Resolving
      <3>3. PICK j \in DOMAIN log : log[j].att = e.att /\ log[j].kind = "INTENT" /\ log[j].key = e.key
        BY <3>2 DEF IntendedFor, Records
      <3> QED  BY <2>1, <3>2, <3>3 DEF AttemptsAreNotReused
    <2>2. /\ DOMAIN log' = DOMAIN log \union {Len(log) + 1}
          /\ log'[Len(log) + 1] = e
          /\ \A i \in DOMAIN log : log'[i] = log[i]
      BY <1>2, <1>l
    <2> SUFFICES ASSUME NEW i \in DOMAIN log', NEW j \in DOMAIN log', log'[i].att = log'[j].att
                 PROVE  log'[i].key = log'[j].key /\ (log'[i].kind = "REJECTED" => i = j)
      BY DEF AttemptsAreNotReused
    <2>3. CASE i \in DOMAIN log /\ j \in DOMAIN log
      BY <2>2, <2>3 DEF AttemptsAreNotReused
    <2>4. CASE i = Len(log) + 1 \/ j = Len(log) + 1
      BY <2>1, <2>2, <2>4
    <2> QED  BY <2>2, <2>3, <2>4
  <1> QED  BY <1>1, <1>2, JournalStep, WorldStep

\* An attempt id stands for one unit in every record that carries it, and the
\* attempt of a rejection is never used for anything else: ids are allocated
\* against the durable history, even when recovery runs without the lock.
THEOREM AttemptsBelongToOneUnit == Spec => []AttemptsAreNotReused
  <1>1. Init => AttemptsAreNotReused
    BY DEF Init, AttemptsAreNotReused
  <1>2. TypeInv /\ IntentInv /\ AttemptsAreNotReused /\ [Next]_vars => AttemptsAreNotReused'
    BY ReuseStep
  <1> QED  BY <1>1, <1>2, TypeAlways, IntentAlways, PTL DEF Spec

-----------------------------------------------------------------------------
(* Notes and reports *)


\* Note n is for unit k and was created by the request of attempt a.
CreatedHere(a, n, k) == notes[n].key = k /\ notes[n].by = a

NoteInv ==
    /\ \A a \in Attempts :
          req[a].st = "created" => CreatedHere(a, req[a].note, req[a].key)
    /\ \A p \in Procs :
          /\ pc[p] = "f_wait" => req[op[p].att].st # "none" /\ req[op[p].att].key = op[p].key
          /\ pc[p] = "f_accept" => CreatedHere(op[p].att, op[p].note, op[p].key)
          /\ pc[p] = "r_log" => notes[op[p].note].key = op[p].key
    /\ AcceptanceNamesANote

AcceptedWith(r) == \E i \in Records(log, r.att, "ACCEPTED") : log[i].note = r.note

Supported(r) ==
    /\ r.status \in {"CREATED", "REPAIRED", "REJECTED", "ABANDONED"} => r.att \in Attempts
    /\ r.status = "CREATED" =>
          /\ r.note \in NoteIds
          /\ Records(log, r.att, "INTENT") # {}
          /\ AcceptedWith(r)
          /\ notes[r.note].by = r.att
    /\ r.status = "REPAIRED" => AcceptedWith(r)
    /\ r.status = "REJECTED" => Records(log, r.att, "REJECTED") # {}
    /\ r.status = "ABANDONED" => Records(log, r.att, "ABANDONED") # {}

ReportInv == \A p \in Procs : Supported(result[p])

-----------------------------------------------------------------------------
\* A note keeps its key and its author.
LEMMA NotesLast ==
    ASSUME TypeInv, [Next]_vars, NEW n \in NoteIds, NEW k \in Keys, notes[n].key = k
    PROVE  notes'[n].key = k /\ notes'[n].by = notes[n].by
  <1>t. notes \in [NoteIds -> Note] /\ notes[n] # Unborn
    BY ForgeAssumption DEF TypeInv, TypeOK, Unborn
  <1>1. ASSUME NEW m \in NoteIds, HumanDeletes(m) PROVE notes'[n].key = k /\ notes'[n].by = notes[n].by
    <2>1. notes[m] \in [key : Keys, by : Attempts \union {Human}, live : BOOLEAN]
      BY <1>1, <1>t DEF HumanDeletes, Note, Unborn
    <2> QED  BY <1>1, <1>t, <2>1 DEF HumanDeletes
  <1>2. ASSUME NEW m \in NoteIds, NEW j \in Keys, HumanAdds(j, m)
        PROVE  notes'[n] = notes[n]
    BY <1>2, <1>t DEF HumanAdds, Fresh
  <1>3. ASSUME NEW m \in NoteIds, NEW a \in Attempts, AnkiCreates(a, m)
        PROVE  notes'[n] = notes[n]
    BY <1>3, <1>t DEF AnkiCreates, Fresh
  <1>4. CASE notes' = notes
    BY <1>4
  <1>5. ASSUME NEW p \in Procs, ProcessStep(p) PROVE notes' = notes
    BY <1>5 DEF ProcessStep, Begin, BeginForge, BeginRepair, BeginAbandon, BeginRecovery, ForgeStep,
       Validate, Inspect, ReportPending, FindDuplicates, Confirm, Reject, LogIntent, SendAdd,
       ReceiveAdd, LogUncertain, LogAcceptance, RecoveryStep, RepairRead, AbandonRead, ReadHistory,
       RepairFind, RepairLog, AbandonFind, AbandonLog, Crash, ClearStaleLock, worldVars
  <1>6. ASSUME NEW a \in Attempts, AnkiRefuses(a) \/ RequestLost(a) PROVE notes' = notes
    BY <1>6 DEF AnkiRefuses, RequestLost
  <1>7. CASE TrimTornTail \/ UNCHANGED vars
    BY <1>4, <1>7 DEF TrimTornTail, vars
  <1> QED
    BY <1>1, <1>2, <1>3, <1>4, <1>5, <1>6, <1>7 DEF Next, ProcessStep, AnkiStep

\* Records stay.
LEMMA RecordsLast ==
    ASSUME TypeInv, [Next]_vars, NEW a, NEW kind, NEW i \in Records(log, a, kind)
    PROVE  i \in Records(log', a, kind) /\ log'[i] = log[i]
  <1>1. log' = log \/ \E e \in Event : log' = Append(log, e)
    BY JournalStep, WorldStep
  <1>2. ASSUME NEW e \in Event, log' = Append(log, e)
        PROVE  i \in Records(log', a, kind) /\ log'[i] = log[i]
    <2>1. log \in Seq(Event)
      BY DEF TypeInv, TypeOK
    <2> QED  BY <1>2, <2>1, AppendedRecords
  <1> QED  BY <1>1, <1>2

\* All intents of an attempt are for one unit.
LEMMA OneKey ==
    ASSUME AttemptsAreNotReused, NEW a, NEW k, NEW l, IntendedFor(log, a, k), IntendedFor(log, a, l)
    PROVE  k = l
  BY DEF AttemptsAreNotReused, IntendedFor, Records

\* How p comes to wait, or to know a note.
EntersNote(p) ==
    /\ pc'[p] = "f_wait" =>
          \/ pc[p] = "f_wait" /\ SameWork(p) /\ req' = req
          \/ /\ pc[p] = "f_add" /\ SameWork(p)
             /\ req' = [req EXCEPT ![op[p].att] =
                          [st |-> "sent", key |-> op[p].key, note |-> NoNote]]
    /\ pc'[p] = "f_accept" =>
          /\ pc[p] = "f_wait" /\ SameWork(p) /\ req[op[p].att].st = "created"
          /\ op'[p].note = req[op[p].att].note
    /\ pc'[p] = "r_log" =>
          /\ pc[p] = "r_find" /\ SameWork(p) /\ notes[op'[p].note].key = op[p].key

LEMMA NoteControl ==
    ASSUME TypeInv, NEW p \in Procs, ProcessStep(p)
    PROVE  EntersNote(p)
  <1>t. op \in [Procs -> Op] /\ pc \in [Procs -> PCs]
    BY DEF TypeInv, TypeOK
  <1>1. ASSUME pc'[p] \notin {"f_wait", "f_accept", "r_log"} PROVE EntersNote(p)
    BY <1>1 DEF EntersNote
  <1>2. CASE Begin(p) \/ Crash(p) \/ ClearStaleLock(p)
    BY <1>1, <1>2, <1>t DEF Begin, Crash, ClearStaleLock, BeginForge, BeginRepair, BeginAbandon,
       BeginRecovery, Goto
  <1>3. ASSUME NEW s, NEW a, NEW n, Return(p, s, a, n) PROVE EntersNote(p)
    BY <1>1, <1>3, <1>t DEF Return
  <1>4. CASE Validate(p) \/ ReportPending(p) \/ Reject(p) \/ LogUncertain(p) \/ LogAcceptance(p)
             \/ RepairLog(p) \/ AbandonLog(p)
    BY <1>1, <1>3, <1>4, <1>t DEF Validate, ReportPending, Reject, LogUncertain, LogAcceptance,
       RepairLog, AbandonLog, Goto
  <1>5. CASE Inspect(p) \/ FindDuplicates(p) \/ Confirm(p) \/ LogIntent(p)
    BY <1>1, <1>3, <1>5, <1>t DEF Inspect, FindDuplicates, Confirm, LogIntent, Goto
  <1>6. CASE RepairRead(p) \/ AbandonRead(p) \/ AbandonFind(p)
    BY <1>1, <1>3, <1>6, <1>t DEF RepairRead, AbandonRead, ReadHistory, AbandonFind, Goto
  <1>7. CASE SendAdd(p)
    BY <1>7, <1>t DEF SendAdd, Goto, EntersNote, SameWork
  <1>8. CASE ReceiveAdd(p)
    BY <1>8, <1>t DEF ReceiveAdd, Goto, EntersNote, SameWork, worldVars, Op
  <1>9. CASE RepairFind(p)
    <2>1. ASSUME NEW n \in Found(op[p].key), op' = [op EXCEPT ![p].note = n], pc[p] = "r_find",
                 Goto(p, "r_log")
          PROVE  EntersNote(p)
      <3>1. /\ op'[p].note = n /\ op'[p].att = op[p].att /\ op'[p].key = op[p].key
            /\ pc'[p] = "r_log" /\ notes[n].key = op[p].key
        BY <2>1, <1>t DEF Goto, Op, Found
      <3> QED  BY <3>1, <2>1 DEF EntersNote, SameWork
    <2> QED  BY <1>3, <1>9, <2>1 DEF RepairFind
  <1> QED
    BY <1>2, <1>4, <1>5, <1>6, <1>7, <1>8, <1>9 DEF ProcessStep, ForgeStep, RecoveryStep

-----------------------------------------------------------------------------
(* What a step does to a request, and who makes a step *)

\* A request is sent from f_add, and answered or lost once.
SentFor(a) ==
    \E p \in Procs :
        /\ pc[p] = "f_add" /\ op[p].att = a
        /\ req'[a].st = "sent" /\ req'[a].key = op[p].key

AnsweredNo(a) ==
    req[a].st = "sent" /\ req'[a].st \in {"refused", "lost"} /\ req'[a].key = req[a].key

AnsweredYes(a) ==
    /\ req[a].st = "sent" /\ req'[a].st = "created" /\ req'[a].key = req[a].key
    /\ notes'[req'[a].note].key = req[a].key
    /\ notes'[req'[a].note].by = a

RequestChanges(a) == req'[a] = req[a] \/ SentFor(a) \/ AnsweredNo(a) \/ AnsweredYes(a)

LEMMA RequestChange ==
    ASSUME TypeInv, [Next]_vars, NEW a \in Attempts
    PROVE  RequestChanges(a)
  <1>t. req \in [Attempts -> Request] /\ notes \in [NoteIds -> Note]
    BY DEF TypeInv, TypeOK
  <1> DEFINE Changed == RequestChanges(a)
  <1>1. ASSUME NEW p \in Procs, SendAdd(p) PROVE Changed
    <2>1. CASE op[p].att = a
      <3>1. req'[a].st = "sent" /\ req'[a].key = op[p].key /\ pc[p] = "f_add"
        BY <1>1, <1>t, <2>1 DEF SendAdd
      <3> QED  BY <2>1, <3>1 DEF RequestChanges, SentFor
    <2>2. CASE op[p].att # a
      BY <1>1, <1>t, <2>2 DEF SendAdd, RequestChanges
    <2> QED  BY <2>1, <2>2
  <1>2. ASSUME NEW b \in Attempts, NEW n \in NoteIds, AnkiCreates(b, n) PROVE Changed
    <2>1. CASE b # a
      BY <1>2, <1>t, <2>1 DEF AnkiCreates, RequestChanges
    <2>2. CASE b = a
      <3>1. req'[a].st = "created" /\ req'[a].note = n /\ req'[a].key = req[a].key /\ req[a].st = "sent"
        BY <1>2, <1>t, <2>2 DEF AnkiCreates, Request
      <3>2. notes'[n] = [key |-> req[a].key, by |-> a, live |-> TRUE]
        BY <1>2, <1>t, <2>2 DEF AnkiCreates
      <3>3. notes'[req'[a].note].key = req[a].key /\ notes'[req'[a].note].by = a
        BY <3>1, <3>2
      <3> QED  BY <3>1, <3>3 DEF RequestChanges, AnsweredYes
    <2> QED  BY <2>1, <2>2
  <1>3. ASSUME NEW b \in Attempts, AnkiRefuses(b) \/ RequestLost(b) PROVE Changed
    <2>1. PICK s \in {"refused", "lost"} : req' = [req EXCEPT ![b].st = s]
      BY <1>3 DEF AnkiRefuses, RequestLost
    <2>2. req[b].st = "sent"
      BY <1>3 DEF AnkiRefuses, RequestLost
    <2>3. CASE b # a
      BY <1>t, <2>1, <2>3 DEF RequestChanges
    <2>4. CASE b = a
      <3>1. req'[a].st = s /\ req'[a].key = req[a].key
        BY <1>t, <2>1, <2>4 DEF Request
      <3> QED  BY <2>2, <2>4, <3>1 DEF RequestChanges, AnsweredNo
    <2> QED  BY <2>3, <2>4
  <1>4. CASE req' = req
    BY <1>4 DEF RequestChanges
  <1>5. ASSUME NEW p \in Procs, ProcessStep(p) PROVE req' = req \/ SendAdd(p)
    BY <1>5 DEF ProcessStep, Begin, BeginForge, BeginRepair, BeginAbandon, BeginRecovery, ForgeStep,
       Validate, Inspect, ReportPending, FindDuplicates, Confirm, Reject, LogIntent, ReceiveAdd,
       LogUncertain, LogAcceptance, RecoveryStep, RepairRead, AbandonRead, ReadHistory, RepairFind,
       RepairLog, AbandonFind, AbandonLog, Crash, ClearStaleLock, worldVars
  <1>6. CASE AnkiStep
    BY <1>2, <1>3, <1>4, <1>6 DEF AnkiStep, HumanAdds, HumanDeletes
  <1>7. CASE TrimTornTail \/ UNCHANGED vars
    BY <1>4, <1>7 DEF TrimTornTail, vars
  <1> QED
    BY <1>1, <1>4, <1>5, <1>6, <1>7 DEF Next, ProcessStep

LEMMA StaysOrSteps ==
    ASSUME TypeInv, [Next]_vars, NEW q \in Procs
    PROVE  Stays(q) \/ ProcessStep(q)
  <1>1. CASE \E p \in Procs : ProcessStep(p)
    BY <1>1, OthersStay
  <1>2. CASE ~ \E p \in Procs : ProcessStep(p)
    BY <1>2, WorldStep DEF Stays
  <1> QED  BY <1>1, <1>2

LEMMA ProcessesLeaveNotes ==
    ASSUME NEW p \in Procs, ProcessStep(p)
    PROVE  notes' = notes
  BY DEF ProcessStep, Begin, BeginForge, BeginRepair, BeginAbandon, BeginRecovery, ForgeStep,
     Validate, Inspect, ReportPending, FindDuplicates, Confirm, Reject, LogIntent, SendAdd,
     ReceiveAdd, LogUncertain, LogAcceptance, RecoveryStep, RepairRead, AbandonRead, ReadHistory,
     RepairFind, RepairLog, AbandonFind, AbandonLog, Crash, ClearStaleLock, worldVars

-----------------------------------------------------------------------------
(* Notes that requests, processes and acceptances name *)

LEMMA NoteInit == Init => NoteInv
  BY DEF Init, NoteInv, NoRequest, AcceptanceNamesANote

LEMMA CreatedStep ==
    ASSUME TypeInv, NoteInv, [Next]_vars, NEW a \in Attempts, req'[a].st = "created"
    PROVE  notes'[req'[a].note].key = req'[a].key /\ notes'[req'[a].note].by = a
  <1>1. CASE req'[a] = req[a]
    <2>1. CreatedHere(a, req[a].note, req[a].key) /\ req[a].note \in NoteIds /\ req[a].key \in Keys
      BY <1>1 DEF NoteInv, TypeInv, ReqKnown
    <2> QED  BY <1>1, <2>1, NotesLast DEF CreatedHere
  <1> QED  BY <1>1, RequestChange DEF RequestChanges, SentFor, AnsweredNo, AnsweredYes

LEMMA WaitStep ==
    ASSUME TypeInv, IntentInv, AttemptsAreNotReused, NoteInv, [Next]_vars,
           NEW q \in Procs, pc'[q] = "f_wait"
    PROVE  req'[op'[q].att].st # "none" /\ req'[op'[q].att].key = op'[q].key
  <1>1. CASE Stays(q)
    <2> DEFINE a == op[q].att
    <2>1. /\ a \in Attempts /\ pc[q] = "f_wait" /\ op'[q] = op[q]
          /\ req[a].st # "none" /\ req[a].key = op[q].key
      BY <1>1 DEF Stays, NoteInv, TypeInv, OpKnown, Committing
    <2>2. IntendedFor(log, a, op[q].key)
      BY <2>1 DEF IntentInv, AtWorkIntended, Committing
    <2>3. ASSUME NEW p \in Procs, pc[p] = "f_add", op[p].att = a PROVE op[p].key = op[q].key
      <3>1. IntendedFor(log, a, op[p].key)
        BY <2>3 DEF IntentInv, AtWorkIntended, Committing
      <3> QED  BY <3>1, <2>2, OneKey
    <2> QED  BY <2>1, <2>3, RequestChange DEF RequestChanges, SentFor, AnsweredNo, AnsweredYes
  <1>2. CASE ProcessStep(q)
    <2>1. EntersNote(q) /\ op[q].att \in Attempts
      BY <1>2, NoteControl DEF EntersNote, TypeInv, OpKnown, Committing
    <2>2. req \in [Attempts -> Request]
      BY DEF TypeInv, TypeOK
    <2> QED  BY <2>1, <2>2 DEF EntersNote, SameWork, NoteInv
  <1> QED  BY <1>1, <1>2, StaysOrSteps

LEMMA AcceptStep ==
    ASSUME TypeInv, NoteInv, [Next]_vars, NEW q \in Procs
    PROVE  /\ pc'[q] = "f_accept" => /\ notes'[op'[q].note].key = op'[q].key
                                    /\ notes'[op'[q].note].by = op'[q].att
           /\ pc'[q] = "r_log" => notes'[op'[q].note].key = op'[q].key
  <1>1. CASE Stays(q)
    <2>1. pc[q] \in {"f_accept", "r_log"} => op[q].note \in NoteIds /\ op[q].key \in Keys
      BY DEF TypeInv, OpKnown, ForgePCs, Resolving
    <2> QED  BY <1>1, <2>1, NotesLast DEF Stays, NoteInv, CreatedHere
  <1>2. CASE ProcessStep(q)
    <2>1. EntersNote(q) /\ notes' = notes
      BY <1>2, NoteControl, ProcessesLeaveNotes
    <2>2. pc[q] = "f_wait" => op[q].att \in Attempts
      BY DEF TypeInv, OpKnown, Committing
    <2> QED  BY <2>1, <2>2 DEF EntersNote, SameWork, NoteInv, CreatedHere
  <1> QED  BY <1>1, <1>2, StaysOrSteps

LEMMA AcceptanceStep ==
    ASSUME TypeInv, NoteInv, [Next]_vars
    PROVE  AcceptanceNamesANote'
  <1>l. log \in Seq(Event)
    BY DEF TypeInv, TypeOK
  <1>1. ASSUME NEW i \in DOMAIN log, log[i].kind = "ACCEPTED"
        PROVE  log[i].note \in NoteIds /\ notes'[log[i].note].key = log[i].key
    <2>1. log[i].note \in NoteIds /\ notes[log[i].note].key = log[i].key /\ log[i] \in Event
      BY <1>1, <1>l DEF NoteInv, AcceptanceNamesANote
    <2>2. log[i].key \in Keys
      BY <2>1 DEF Event
    <2> QED  BY <2>1, <2>2, NotesLast
  <1>2. CASE log' = log
    BY <1>1, <1>2 DEF AcceptanceNamesANote
  <1>3. ASSUME NEW p \in Procs, NEW e \in Event, Appends(p, e), log' = Append(log, e)
        PROVE  AcceptanceNamesANote'
    <2>1. ASSUME e.kind = "ACCEPTED" PROVE e.note \in NoteIds /\ notes'[e.note].key = e.key
      <3>1. /\ pc[p] \in {"f_accept", "r_log"}
            /\ e.note = op[p].note /\ e.key = op[p].key
        BY <1>3, <2>1 DEF Appends
      <3>2. op[p].note \in NoteIds /\ op[p].key \in Keys /\ notes[op[p].note].key = op[p].key
        BY <3>1 DEF TypeInv, OpKnown, ForgePCs, Resolving, NoteInv, CreatedHere
      <3> QED  BY <3>1, <3>2, NotesLast
    <2>2. /\ DOMAIN log' = DOMAIN log \union {Len(log) + 1}
          /\ log'[Len(log) + 1] = e
          /\ \A i \in DOMAIN log : log'[i] = log[i]
      BY <1>3, <1>l
    <2> QED  BY <1>1, <2>1, <2>2 DEF AcceptanceNamesANote
  <1> QED  BY <1>2, <1>3, JournalStep, WorldStep

LEMMA NoteStep ==
    ASSUME TypeInv, IntentInv, AttemptsAreNotReused, NoteInv, [Next]_vars
    PROVE  NoteInv'
  <1>1. \A a \in Attempts :
           req'[a].st = "created" => CreatedHere(a, req[a].note, req[a].key)'
    BY CreatedStep DEF CreatedHere
  <1>2. \A q \in Procs :
           pc'[q] = "f_wait" => req'[op'[q].att].st # "none" /\ req'[op'[q].att].key = op'[q].key
    BY WaitStep
  <1>3. \A q \in Procs :
           /\ pc'[q] = "f_accept" => CreatedHere(op[q].att, op[q].note, op[q].key)'
           /\ pc'[q] = "r_log" => notes'[op'[q].note].key = op'[q].key
    BY AcceptStep DEF CreatedHere
  <1> QED  BY <1>1, <1>2, <1>3, AcceptanceStep DEF NoteInv

LEMMA NoteAlways == Spec => []NoteInv
  BY TypeAlways, IntentAlways, AttemptsBelongToOneUnit, NoteInit, NoteStep, PTL DEF Spec

\* An acceptance names a note that was created in Anki for that very unit, by
\* the attempt or found by a repair: also when recovery runs without the lock,
\* a late reply is taken, or people add and delete notes meanwhile.
THEOREM AcceptancesNameNotes == Spec => []AcceptanceNamesANote
  BY NoteAlways, PTL DEF NoteInv

-----------------------------------------------------------------------------
(* What an operation reports *)

Told(p, s, a, n) == result'[p] = [status |-> s, att |-> a, note |-> n]

\* The reports that claim something rest on a record appended in that step.
Reports(p) ==
    \/ result'[p] = result[p]
    \/ result'[p].status \notin {"CREATED", "REPAIRED", "REJECTED", "ABANDONED"}
    \/ \E a \in Attempts :
          /\ Told(p, "REJECTED", a, NoNote) /\ pc[p] = "f_reject" /\ Allocatable(a)
          /\ log' = Append(log, FirstRec("REJECTED", p, a))
    \/ /\ \/ pc[p] = "f_accept" /\ Told(p, "CREATED", op[p].att, op[p].note)
          \/ pc[p] = "r_log" /\ Told(p, "REPAIRED", op[p].att, op[p].note)
       /\ log' = Append(log, Rec("ACCEPTED", p, op[p].note))
    \/ /\ pc[p] = "a_log" /\ Told(p, "ABANDONED", op[p].att, NoNote)
       /\ log' = Append(log, Rec("ABANDONED", p, NoNote))

LEMMA ReportsStep ==
    ASSUME TypeInv, NEW p \in Procs, ProcessStep(p)
    PROVE  /\ Reports(p)
           /\ \A q \in Procs \ {p} : result'[q] = result[q]
  <1>t. result \in [Procs -> Result]
    BY DEF TypeInv, TypeOK
  <1> DEFINE Goal == Reports(p) /\ \A q \in Procs \ {p} : result'[q] = result[q]
  <1>1. ASSUME NEW s, NEW a, NEW n, Return(p, s, a, n)
        PROVE  Told(p, s, a, n) /\ \A q \in Procs \ {p} : result'[q] = result[q]
    BY <1>1, <1>t DEF Return, Told
  <1>2. ASSUME NEW s \in {"ABORTED", "COMMIT_UNCERTAIN", "EVIDENCE_GAP", "AMBIGUOUS", "NO_NOTE",
                          "ALREADY_RESOLVED"}, NEW a, NEW n, Return(p, s, a, n)
        PROVE  Goal
    <2>1. Told(p, s, a, n) /\ \A q \in Procs \ {p} : result'[q] = result[q]
      BY <1>1, <1>2
    <2>2. result'[p].status = s
      BY <2>1 DEF Told
    <2>3. result'[p].status \notin {"CREATED", "REPAIRED", "REJECTED", "ABANDONED"}
      BY <2>2
    <2> QED  BY <2>1, <2>3 DEF Reports
  <1>3. CASE result' = result
    BY <1>3 DEF Reports
  <1>4. CASE Begin(p)
    BY <1>3, <1>4, <1>t DEF Begin, BeginForge, BeginRepair, BeginAbandon, BeginRecovery, Reports,
       NoResult
  <1>5. CASE Validate(p) \/ Inspect(p) \/ ReportPending(p) \/ FindDuplicates(p) \/ Confirm(p)
    BY <1>2, <1>3, <1>5 DEF Validate, Inspect, ReportPending, FindDuplicates, Confirm
  <1>6. CASE Reject(p)
    <2>1. ASSUME NEW a \in Attempts, Allocatable(a), LogReturns(FirstRec("REJECTED", p, a)),
                 Return(p, "REJECTED", a, NoNote)
          PROVE  Goal
      BY <2>1, <1>1, <1>6 DEF Reject, Reports, LogReturns
    <2> QED  BY <1>2, <1>6, <2>1 DEF Reject
  <1>7. CASE LogIntent(p) \/ SendAdd(p) \/ ReceiveAdd(p)
    BY <1>2, <1>3, <1>7 DEF LogIntent, SendAdd, ReceiveAdd
  <1>8. CASE LogUncertain(p)
    BY <1>2, <1>8 DEF LogUncertain
  <1>9. CASE LogAcceptance(p)
    <2>1. CASE Return(p, "EVIDENCE_GAP", op[p].att, op[p].note)
      BY <1>2, <2>1
    <2>2. CASE LogReturns(Rec("ACCEPTED", p, op[p].note)) /\ Return(p, "CREATED", op[p].att, op[p].note)
      BY <1>1, <1>9, <2>2 DEF LogAcceptance, Reports, LogReturns
    <2> QED  BY <1>9, <2>1, <2>2 DEF LogAcceptance
  <1>10. CASE RepairRead(p) \/ AbandonRead(p) \/ RepairFind(p) \/ AbandonFind(p)
    BY <1>2, <1>3, <1>10 DEF RepairRead, AbandonRead, ReadHistory, RepairFind, AbandonFind
  <1>11. CASE RepairLog(p)
    <2>1. CASE Return(p, "AMBIGUOUS", op[p].att, op[p].note)
      BY <1>2, <2>1
    <2>2. CASE LogReturns(Rec("ACCEPTED", p, op[p].note)) /\ Return(p, "REPAIRED", op[p].att, op[p].note)
      BY <1>1, <1>11, <2>2 DEF RepairLog, Reports, LogReturns
    <2> QED  BY <1>11, <2>1, <2>2 DEF RepairLog
  <1>12. CASE AbandonLog(p)
    <2>1. CASE Return(p, "AMBIGUOUS", op[p].att, NoNote)
      BY <1>2, <2>1
    <2>2. CASE LogReturns(Rec("ABANDONED", p, NoNote)) /\ Return(p, "ABANDONED", op[p].att, NoNote)
      BY <1>1, <1>12, <2>2 DEF AbandonLog, Reports, LogReturns
    <2> QED  BY <1>12, <2>1, <2>2 DEF AbandonLog
  <1>13. CASE Crash(p) \/ ClearStaleLock(p)
    BY <1>3, <1>13 DEF Crash, ClearStaleLock
  <1> QED
    BY <1>4, <1>5, <1>6, <1>7, <1>8, <1>9, <1>10, <1>11, <1>12, <1>13
       DEF ProcessStep, ForgeStep, RecoveryStep

\* The world leaves the reports alone.
LEMMA WorldReports ==
    ASSUME [Next]_vars, ~ \E p \in Procs : ProcessStep(p)
    PROVE  result' = result
  BY DEF Next, ProcessStep, AnkiStep, TrimTornTail, vars, AnkiCreates, AnkiRefuses, RequestLost,
         HumanAdds, HumanDeletes

\* What a report claimed stays true.
LEMMA SupportLasts ==
    ASSUME TypeInv, [Next]_vars, NEW r, Supported(r)
    PROVE  Supported(r)'
  <1>1. \A kind : Records(log, r.att, kind) \subseteq Records(log', r.att, kind)
    BY RecordsLast
  <1>2. AcceptedWith(r) => AcceptedWith(r)'
    BY RecordsLast DEF AcceptedWith
  <1>3. ASSUME r.status = "CREATED" PROVE notes'[r.note].by = r.att
    <2>1. r.att \in Attempts /\ r.note \in NoteIds /\ notes[r.note].by = r.att
      BY <1>3 DEF Supported
    <2>2. notes[r.note].key \in Keys
      <3>1. notes[r.note] \in Note
        BY <2>1 DEF TypeInv, TypeOK
      <3>2. notes[r.note] # Unborn
        BY <2>1, ForgeAssumption DEF Unborn
      <3> QED  BY <3>1, <3>2 DEF Note
    <2> QED  BY <2>1, <2>2, NotesLast
  <1> QED  BY <1>1, <1>2, <1>3 DEF Supported

LEMMA NewReport ==
    ASSUME TypeInv, IntentInv, NoteInv, NEW p \in Procs, ProcessStep(p), [Next]_vars,
           ReportInv
    PROVE  Supported(result[p])'
  <1>l. log \in Seq(Event)
    BY DEF TypeInv, TypeOK
  <1>r. Reports(p)
    BY ReportsStep
  <1>1. CASE result'[p] = result[p]
    <2>1. PICK r : r = result[p]
      OBVIOUS
    <2>2. Supported(r)'
      BY <2>1, SupportLasts DEF ReportInv
    <2> QED  BY <1>1, <2>1, <2>2 DEF Supported, AcceptedWith
  <1>2. CASE result'[p].status \notin {"CREATED", "REPAIRED", "REJECTED", "ABANDONED"}
    BY <1>2 DEF Supported
  <1>3. ASSUME NEW a \in Attempts, Told(p, "REJECTED", a, NoNote), pc[p] = "f_reject", Allocatable(a),
               log' = Append(log, FirstRec("REJECTED", p, a))
        PROVE  Supported(result[p])'
    <2>1. FirstRec("REJECTED", p, a) \in Event
      BY <1>3, RecordedBy
    <2>2. FirstRec("REJECTED", p, a).att = a /\ FirstRec("REJECTED", p, a).kind = "REJECTED"
      BY DEF FirstRec
    <2>3. Len(log) + 1 \in Records(log', a, "REJECTED")
      BY <1>3, <1>l, <2>1, <2>2, AppendedRecords
    <2>4. result'[p].status = "REJECTED" /\ result'[p].att = a
      BY <1>3 DEF Told
    <2> QED  BY <2>3, <2>4 DEF Supported
  <1>4. ASSUME NEW s \in {"CREATED", "REPAIRED"}, Told(p, s, op[p].att, op[p].note),
               pc[p] = (IF s = "CREATED" THEN "f_accept" ELSE "r_log"),
               log' = Append(log, Rec("ACCEPTED", p, op[p].note))
        PROVE  Supported(result[p])'
    <2> DEFINE e == Rec("ACCEPTED", p, op[p].note)
               a == op[p].att
               n == op[p].note
    <2>1. e \in Event /\ a \in Attempts /\ n \in NoteIds
      BY <1>4, RecordedBy DEF TypeInv, OpKnown, Committing, RecoveryPCs
    <2>2. e.att = a /\ e.kind = "ACCEPTED" /\ e.note = n
      BY DEF Rec
    <2>3. Len(log) + 1 \in Records(log', a, "ACCEPTED") /\ log'[Len(log) + 1].note = n
      <3> HIDE DEF e, a, n
      <3>1. log' = Append(log, e)
        BY <1>4 DEF e
      <3>2. Records(log', a, "ACCEPTED") = Records(log, a, "ACCEPTED") \union {Len(log) + 1}
        BY <3>1, <1>l, <2>1, <2>2, AppendedRecords
      <3>3. log'[Len(log) + 1] = e
        BY <3>1, <1>l
      <3> QED  BY <3>2, <3>3, <2>2
    <2>4. result'[p].status = s /\ result'[p].att = a /\ result'[p].note = n
      BY <1>4 DEF Told
    <2>5. AcceptedWith(result[p])'
      BY <2>3, <2>4 DEF AcceptedWith
    <2>6. CASE s = "REPAIRED"
      BY <2>1, <2>4, <2>5, <2>6 DEF Supported
    <2>7. CASE s = "CREATED"
      <3>1. IntendedFor(log, a, op[p].key) /\ notes[n].by = a
        BY <1>4, <2>7 DEF IntentInv, AtWorkIntended, Committing, NoteInv, CreatedHere
      <3>2. IntendedFor(log', a, op[p].key)
        BY <3>1, IntentsLast
      <3>3. Records(log', a, "INTENT") # {}
        BY <3>2 DEF IntendedFor
      <3>4. notes'[n].by = a
        BY <3>1, ProcessesLeaveNotes
      <3> QED  BY <2>1, <2>4, <2>5, <2>7, <3>3, <3>4 DEF Supported
    <2> QED  BY <2>6, <2>7
  <1>5. ASSUME pc[p] = "a_log", Told(p, "ABANDONED", op[p].att, NoNote),
               log' = Append(log, Rec("ABANDONED", p, NoNote))
        PROVE  Supported(result[p])'
    <2>1. Rec("ABANDONED", p, NoNote) \in Event /\ op[p].att \in Attempts
      BY <1>5, RecordedBy DEF TypeInv, OpKnown, RecoveryPCs
    <2>2. Rec("ABANDONED", p, NoNote).att = op[p].att /\ Rec("ABANDONED", p, NoNote).kind = "ABANDONED"
      BY DEF Rec
    <2>3. Len(log) + 1 \in Records(log', op[p].att, "ABANDONED")
      <3>1. Records(log', op[p].att, "ABANDONED")
               = Records(log, op[p].att, "ABANDONED") \union {Len(log) + 1}
        BY <1>5, <1>l, <2>1, <2>2, AppendedRecords
      <3> QED  BY <3>1
    <2>4. result'[p].status = "ABANDONED" /\ result'[p].att = op[p].att
      BY <1>5 DEF Told
    <2> QED  BY <2>1, <2>3, <2>4 DEF Supported
  <1> QED  BY <1>r, <1>1, <1>2, <1>3, <1>4, <1>5 DEF Reports

LEMMA ReportStep ==
    ASSUME TypeInv, IntentInv, NoteInv, ReportInv, [Next]_vars
    PROVE  ReportInv'
  <1> SUFFICES ASSUME NEW q \in Procs PROVE Supported(result[q])'
    BY DEF ReportInv
  <1>1. CASE result'[q] = result[q]
    <2>1. PICK r : r = result[q]
      OBVIOUS
    <2>2. Supported(r)'
      BY <2>1, SupportLasts DEF ReportInv
    <2> QED  BY <1>1, <2>1, <2>2 DEF Supported, AcceptedWith
  <1>2. CASE ProcessStep(q)
    BY <1>2, NewReport
  <1> QED  BY <1>1, <1>2, ReportsStep, WorldReports

LEMMA ReportAlways == Spec => []ReportInv
  <1>1. Init => ReportInv
    BY DEF Init, ReportInv, Supported, NoResult
  <1> QED
    BY <1>1, TypeAlways, IntentAlways, NoteAlways, ReportStep, PTL DEF Spec

\* A rejection was never asked of Anki: its attempt has no intent.
LEMMA RejectedNotAsked ==
    ASSUME ReportInv, RequestHasIntent, AttemptsAreNotReused, NEW p \in Procs,
           result[p].status = "REJECTED"
    PROVE  req[result[p].att].st = "none"
  <1>1. PICK i \in Records(log, result[p].att, "REJECTED") : TRUE
    BY DEF ReportInv, Supported
  <1>2. ASSUME req[result[p].att].st # "none" PROVE FALSE
    <2>1. PICK j \in Records(log, result[p].att, "INTENT") : TRUE
      BY <1>2 DEF ReportInv, Supported, RequestHasIntent, IntendedFor
    <2> QED  BY <1>1, <2>1 DEF Records, AttemptsAreNotReused
  <1> QED  BY <1>2

\* What forge, repair_evidence and abandon_intent report is on disk and in Anki,
\* and stays so: CREATED names the note this attempt created and accepted,
\* REJECTED means that Anki was never asked, REPAIRED and ABANDONED that their
\* terminal is durable.  No lock is needed for it.
THEOREM ReportsTrue == Spec => []ReportsAreTrue
  <1>1. ReportInv /\ RequestHasIntent /\ AttemptsAreNotReused => ReportsAreTrue
    BY RejectedNotAsked DEF ReportInv, Supported, AcceptedWith, ReportsAreTrue
  <1> QED
    BY <1>1, ReportAlways, RequestsAreIntended, AttemptsBelongToOneUnit, PTL

-----------------------------------------------------------------------------
(* Forge keeps the promise of ForgeCommit, when recovery runs under the lock *)

\* A note is asked for by SendAdd only.
LEMMA OnlySendAddAsks ==
    ASSUME TypeInv, [Next]_vars, ~ \E p \in Procs : SendAdd(p), NEW a \in Attempts
    PROVE  (req'[a].st # "none") = (req[a].st # "none")
  <1>t. req \in [Attempts -> Request]
    BY DEF TypeInv, TypeOK
  <1>1. CASE req' = req
    BY <1>1
  <1>2. ASSUME NEW p \in Procs, ProcessStep(p) PROVE req' = req
    BY <1>2 DEF ProcessStep, Begin, BeginForge, BeginRepair, BeginAbandon, BeginRecovery, ForgeStep,
       Validate, Inspect, ReportPending, FindDuplicates, Confirm, Reject, LogIntent, ReceiveAdd,
       LogUncertain, LogAcceptance, RecoveryStep, RepairRead, AbandonRead, ReadHistory, RepairFind,
       RepairLog, AbandonFind, AbandonLog, Crash, ClearStaleLock, worldVars
  <1>3. ASSUME NEW b \in Attempts, NEW n \in NoteIds,
               AnkiCreates(b, n)
        PROVE  (req'[a].st # "none") = (req[a].st # "none")
    BY <1>3, <1>t DEF AnkiCreates, Request
  <1>4. ASSUME NEW b \in Attempts, AnkiRefuses(b) \/ RequestLost(b)
        PROVE  (req'[a].st # "none") = (req[a].st # "none")
    BY <1>4, <1>t DEF AnkiRefuses, RequestLost, Request
  <1>5. CASE AnkiStep
    BY <1>1, <1>3, <1>4, <1>5 DEF AnkiStep, HumanAdds, HumanDeletes
  <1>6. CASE TrimTornTail \/ UNCHANGED vars
    BY <1>1, <1>6 DEF TrimTornTail, vars
  <1> QED
    BY <1>1, <1>2, <1>5, <1>6 DEF Next, ProcessStep

\* Once an attempt has a terminal, forge and recovery are past asking: SendAdd
\* leaves a process whose attempt the journal still shows open.
THEOREM ResolvedAttemptsAreQuiet ==
    ASSUME RecoveryTakesLock
    PROVE  Spec => ResolvedAttemptsAskNothing
  <1>1. ASSUME TypeInv, HistoryInv, [Next]_vars, NEW a \in Attempts,
               Resolved(log, a), req[a].st = "none"
        PROVE  req'[a].st = "none"
    <2>1. ASSUME NEW p \in Procs, SendAdd(p) PROVE req'[a] = req[a]
      <3>1. pc[p] = "f_add" /\ req' = [req EXCEPT ![op[p].att] =
                  [st |-> "sent", key |-> op[p].key, note |-> NoNote]]
        BY <2>1 DEF SendAdd
      <3>2. ~Resolved(log, op[p].att)
        BY <1>1, <3>1 DEF HistoryInv, ReadingStillHolds, Committing
      <3>3. op[p].att # a
        BY <1>1, <3>2
      <3> QED  BY <1>1, <3>1, <3>3 DEF TypeInv, TypeOK
    <2> QED  BY <1>1, <2>1, OnlySendAddAsks
  <1>2. TypeInv /\ HistoryInv /\ [Next]_vars
           => [\A a \in Attempts :
                  Resolved(log, a) /\ req[a].st = "none" => req'[a].st = "none"]_vars
    BY <1>1
  <1> QED
    BY <1>2, TypeAlways, HistoryAlways, PTL DEF Spec, ResolvedAttemptsAskNothing

-----------------------------------------------------------------------------
\* The unit of an attempt whose intents agree.
LEMMA ChosenKey ==
    ASSUME NEW h, NEW a, NEW k \in Keys, IntendedFor(h, a, k),
           \A l \in Keys : IntendedFor(h, a, l) => l = k
    PROVE  (CHOOSE l \in Keys : IntendedFor(h, a, l)) = k
  OBVIOUS

\* While its intents stay what they are, an attempt keeps its unit.
LEMMA KeyLasts ==
    ASSUME TypeInv, AttemptsAreNotReused, AttemptsAreNotReused', [Next]_vars, NEW a \in Attempts,
           Records(log', a, "INTENT") = Records(log, a, "INTENT")
    PROVE  AttemptKey(a)' = AttemptKey(a)
  <1>1. CASE Records(log, a, "INTENT") = {}
    BY <1>1 DEF AttemptKey
  <1>2. CASE Records(log, a, "INTENT") # {}
    <2>1. PICK i \in Records(log, a, "INTENT") : TRUE
      BY <1>2
    <2>l. log \in Seq(Event) /\ i \in DOMAIN log
      BY <2>1 DEF TypeInv, TypeOK, Records
    <2>k. log[i] \in Event
      BY <2>l
    <2>2. log[i].key \in Keys /\ IntendedFor(log, a, log[i].key)
      BY <2>1, <2>k DEF Event, IntendedFor
    <2>3. IntendedFor(log', a, log[i].key)
      BY <2>2, IntentsLast
    <2>4. \A l \in Keys : IntendedFor(log, a, l) => l = log[i].key
      BY <2>2 DEF AttemptsAreNotReused, IntendedFor, Records
    <2>5. \A l \in Keys : IntendedFor(log', a, l) => l = log[i].key
      BY <2>3 DEF AttemptsAreNotReused, IntendedFor, Records
    <2>6. (CHOOSE l \in Keys : IntendedFor(log, a, l)) = log[i].key
      BY <2>2, <2>4, ChosenKey
    <2>7. (CHOOSE l \in Keys : IntendedFor(log', a, l)) = log[i].key
      BY <2>2, <2>3, <2>5, ChosenKey
    <2> QED  BY <1>2, <2>6, <2>7 DEF AttemptKey
  <1> QED  BY <1>1, <1>2

\* An attempt that ForgeCommit sees open for k is one inspect_pending_intent
\* finds pending for k.
LEMMA OpenIsPending ==
    ASSUME TypeInv, HistoryInv, NEW a \in Attempts, AttemptStatus(a) = "open"
    PROVE  AttemptKey(a) \in Keys /\ a \in PendingAttempts(log, AttemptKey(a))
  <1>1. Records(log, a, "INTENT") # {} /\ ~Resolved(log, a)
    BY DEF AttemptStatus, Resolved
  <1>2. PICK i \in Records(log, a, "INTENT") : TRUE
    BY <1>1
  <1>l. log \in Seq(Event)
    BY DEF TypeInv, TypeOK
  <1>e. i \in DOMAIN log
    BY <1>2 DEF Records
  <1>k. log[i] \in Event
    BY <1>l, <1>e
  <1>3. log[i].key \in Keys /\ IntendedFor(log, a, log[i].key)
    BY <1>2, <1>k DEF Event, IntendedFor
  <1>4. AttemptKey(a) \in Keys /\ IntendedFor(log, a, AttemptKey(a))
    BY <1>1, <1>3 DEF AttemptKey
  <1>5. ~Malformed(log, a)
    BY <1>1 DEF HistoryInv, WellFormed, Malformed, ExactlyOne
  <1> QED  BY <1>1, <1>4, <1>5 DEF PendingAttempts

LEMMA PromiseInit == Init => Promise!Init
  <1> SUFFICES ASSUME Init PROVE Promise!Init
    OBVIOUS
  <1>1. \A a, kind : Records(log, a, kind) = {}
    BY DEF Init, Records
  <1>2. \A a \in Attempts : AttemptStatus(a) = "unused" /\ AttemptKey(a) = NoKey
    BY <1>1 DEF AttemptStatus, AttemptKey
  <1>3. \A a \in Attempts : req[a].st = "none"
    BY DEF Init, NoRequest
  <1> QED  BY <1>2, <1>3 DEF Promise!Init

\* The state ForgeCommit sees.
SeenStatus == [a \in Attempts |-> AttemptStatus(a)]
SeenKeys == [a \in Attempts |-> AttemptKey(a)]
SeenAsked == {a \in Attempts : req[a].st # "none"}

\* Sending an addNotes request asks once for an open attempt.
LEMMA AskStep ==
    ASSUME TypeInv, IntentInv, HistoryInv, NEW p \in Procs, SendAdd(p)
    PROVE  \/ \E a \in Attempts : Promise!Ask(a)
           \/ UNCHANGED <<SeenStatus, SeenKeys, SeenAsked>>
  <1> DEFINE a == op[p].att
  <1>1. a \in Attempts /\ IntendedFor(log, a, op[p].key) /\ ~Resolved(log, a)
    BY DEF SendAdd, TypeInv, OpKnown, IntentInv, AtWorkIntended, HistoryInv, ReadingStillHolds,
           Committing
  <1>2. AttemptStatus(a) = "open"
    BY <1>1 DEF AttemptStatus, Resolved, IntendedFor
  <1>3. log' = log /\ req' = [req EXCEPT ![a] = [st |-> "sent", key |-> op[p].key, note |-> NoNote]]
    BY DEF SendAdd
  <1>4. SeenAsked' = SeenAsked \union {a}
    BY <1>1, <1>3 DEF SeenAsked, TypeInv, TypeOK
  <1>5. SeenStatus' = SeenStatus /\ SeenKeys' = SeenKeys
    BY <1>3 DEF SeenStatus, SeenKeys, AttemptStatus, AttemptKey
  <1>6. CASE a \in SeenAsked
    BY <1>4, <1>5, <1>6
  <1>7. CASE a \notin SeenAsked
    BY <1>1, <1>2, <1>4, <1>5, <1>7 DEF Promise!Ask, SeenAsked, SeenStatus, SeenKeys
  <1> QED  BY <1>6, <1>7

\* What one more record of attempt e.att does to what ForgeCommit sees: nothing
\* for the others, and nothing at all when it is an uncertainty.
LEMMA StatusLasts ==
    ASSUME TypeInv, AttemptsAreNotReused, AttemptsAreNotReused', [Next]_vars,
           NEW e \in Event, log' = Append(log, e),
           NEW a \in Attempts, a # e.att \/ e.kind = "UNCERTAIN"
    PROVE  AttemptStatus(a)' = AttemptStatus(a) /\ AttemptKey(a)' = AttemptKey(a)
  <1>1. \A kind \in {"INTENT", "ACCEPTED", "ABANDONED", "REJECTED"} :
           Records(log', a, kind) = Records(log, a, kind)
    BY AppendedRecords DEF TypeInv, TypeOK
  <1> QED  BY <1>1, KeyLasts DEF AttemptStatus

\* Appending a record refuses, opens or closes its attempt.
LEMMA RecordStep ==
    ASSUME TypeInv, IntentInv, HistoryInv, AttemptsAreNotReused, AttemptsAreNotReused', [Next]_vars,
           NEW p \in Procs, NEW e \in Event, Appends(p, e), log' = Append(log, e),
           SeenAsked' = SeenAsked
    PROVE  Promise!Next \/ UNCHANGED <<SeenStatus, SeenKeys, SeenAsked>>
  <1> DEFINE a == e.att
  <1>l. log \in Seq(Event)
    BY DEF TypeInv, TypeOK
  <1>a. a \in Attempts /\ e.key \in Keys
    BY DEF Event
  <1>o. \A b \in Attempts \ {a} : AttemptStatus(b)' = AttemptStatus(b) /\ AttemptKey(b)' = AttemptKey(b)
    BY StatusLasts
  <1>r. /\ Records(log', a, e.kind) = Records(log, a, e.kind) \union {Len(log) + 1}
        /\ \A kind : kind # e.kind => Records(log', a, kind) = Records(log, a, kind)
    <2>1. Records(log', a, e.kind) = Records(log, a, e.kind) \union {Len(log) + 1}
      BY <1>l, AppendedRecords
    <2>2. ASSUME NEW kind, kind # e.kind PROVE Records(log', a, kind) = Records(log, a, kind)
      BY <1>l, <2>2, AppendedRecords
    <2> QED  BY <2>1, <2>2
  <1>n. ASSUME e.kind \in {"INTENT", "REJECTED"}
        PROVE  AttemptStatus(a) = "unused" /\ \A kind : Records(log, a, kind) = {}
    <2>1. \A kind : Records(log, a, kind) = {}
      BY <1>n DEF Appends, Allocatable, Records
    <2> QED  BY <2>1 DEF AttemptStatus
  <1>1. CASE e.kind = "UNCERTAIN"
    <2>1. \A b \in Attempts : AttemptStatus(b)' = AttemptStatus(b) /\ AttemptKey(b)' = AttemptKey(b)
      BY <1>1, StatusLasts
    <2> QED  BY <2>1 DEF SeenStatus, SeenKeys
  <1>2. CASE e.kind = "REJECTED"
    <2>1. AttemptStatus(a)' = "refused"
      BY <1>2, <1>n, <1>r DEF AttemptStatus
    <2>2. AttemptKey(a)' = AttemptKey(a)
      BY <1>2, <1>a, <1>r, KeyLasts
    <2>3. SeenStatus' = [SeenStatus EXCEPT ![a] = "refused"] /\ SeenKeys' = SeenKeys
      BY <1>o, <2>1, <2>2 DEF SeenStatus, SeenKeys
    <2> QED
      BY <1>2, <1>a, <1>n, <2>3 DEF Promise!Next, Promise!Refuse, SeenStatus, SeenKeys, SeenAsked
  <1>3. CASE e.kind = "INTENT"
    <2>1. AttemptStatus(a)' = "open"
      BY <1>3, <1>n, <1>r DEF AttemptStatus
    <2>2. AttemptKey(a)' = e.key
      <3>1. Records(log', a, "INTENT") = {Len(log) + 1} /\ log'[Len(log) + 1] = e
        BY <1>3, <1>n, <1>r, <1>l
      <3>2. IntendedFor(log', a, e.key) /\ \A l \in Keys : IntendedFor(log', a, l) => l = e.key
        BY <3>1 DEF IntendedFor
      <3>3. (CHOOSE l \in Keys : IntendedFor(log', a, l)) = e.key
        BY <1>a, <3>2, ChosenKey
      <3> QED  BY <3>1, <3>3 DEF AttemptKey
    <2>3. \A b \in Attempts : ~(AttemptStatus(b) = "open" /\ AttemptKey(b) = e.key)
      <3>1. PendingAttempts(log, e.key) = {}
        BY <1>3 DEF Appends, HistoryInv, ReadingStillHolds
      <3> QED  BY <3>1, OpenIsPending
    <2>4. /\ SeenStatus' = [SeenStatus EXCEPT ![a] = "open"]
          /\ SeenKeys' = [SeenKeys EXCEPT ![a] = e.key]
      BY <1>o, <2>1, <2>2 DEF SeenStatus, SeenKeys
    <2>5. Promise!Intend(a, e.key)
      BY <1>3, <1>a, <1>n, <2>3, <2>4 DEF Promise!Intend, Promise!Open, SeenStatus, SeenKeys, SeenAsked
    <2> QED  BY <1>a, <2>5 DEF Promise!Next
  <1>4. CASE e.kind \in {"ACCEPTED", "ABANDONED"}
    <2> DEFINE s == IF e.kind = "ACCEPTED" THEN "accepted" ELSE "abandoned"
    <2>1. IntendedFor(log, a, e.key) /\ ~Resolved(log, a)
      BY <1>4 DEF Appends, IntentInv, AtWorkIntended, HistoryInv, ReadingStillHolds, Committing, Resolving
    <2>2. AttemptStatus(a) = "open"
      BY <2>1 DEF AttemptStatus, Resolved, IntendedFor
    <2>3. AttemptStatus(a)' = s
      BY <1>4, <2>1, <1>r DEF AttemptStatus, Resolved
    <2>4. AttemptKey(a)' = AttemptKey(a)
      BY <1>4, <1>a, <1>r, KeyLasts
    <2>5. SeenStatus' = [SeenStatus EXCEPT ![a] = s] /\ SeenKeys' = SeenKeys
      BY <1>o, <2>3, <2>4 DEF SeenStatus, SeenKeys
    <2>6. Promise!Close(a, s)
      BY <1>a, <2>2, <2>5 DEF Promise!Close, SeenStatus, SeenKeys, SeenAsked
    <2> QED  BY <1>a, <2>6 DEF Promise!Next
  <1> QED  BY <1>1, <1>2, <1>3, <1>4 DEF Event, Kinds

LEMMA PromiseStep ==
    ASSUME TypeInv, IntentInv, HistoryInv, AttemptsAreNotReused, AttemptsAreNotReused', [Next]_vars
    PROVE  [Promise!Next]_(Promise!vars)
  <1>v. UNCHANGED <<SeenStatus, SeenKeys, SeenAsked>> => UNCHANGED Promise!vars
    BY DEF Promise!vars, SeenStatus, SeenKeys, SeenAsked
  <1>1. ASSUME NEW p \in Procs, SendAdd(p) PROVE [Promise!Next]_(Promise!vars)
    BY <1>1, <1>v, AskStep DEF Promise!Next
  <1>2. ASSUME ~ \E p \in Procs : SendAdd(p) PROVE SeenAsked' = SeenAsked
    BY <1>2, OnlySendAddAsks DEF SeenAsked
  <1>3. CASE ~ (\E p \in Procs : SendAdd(p)) /\ log' = log
    <2>1. SeenStatus' = SeenStatus /\ SeenKeys' = SeenKeys
      BY <1>3 DEF SeenStatus, SeenKeys, AttemptStatus, AttemptKey
    <2> QED  BY <1>2, <1>3, <1>v, <2>1
  <1>4. ASSUME ~ \E p \in Procs : SendAdd(p), NEW p \in Procs, NEW e \in Event, Appends(p, e),
               log' = Append(log, e)
        PROVE  [Promise!Next]_(Promise!vars)
    BY <1>2, <1>4, <1>v, RecordStep
  <1> QED  BY <1>1, <1>3, <1>4, JournalStep, WorldStep

\* When every caller takes the deployment lock, the journal, the requests and
\* the processes that forge and recover do only what ForgeCommit promises: one
\* open attempt per unit, asked for once and while it is open, closed once.
THEOREM PromiseKept ==
    ASSUME RecoveryTakesLock
    PROVE  Spec => ImplementsPromise
  <1>1. TypeInv /\ IntentInv /\ HistoryInv /\ AttemptsAreNotReused /\ AttemptsAreNotReused'
        /\ [Next]_vars => [Promise!Next]_(Promise!vars)
    BY PromiseStep
  <1> QED
    BY <1>1, PromiseInit, TypeAlways, IntentAlways, HistoryAlways, AttemptsBelongToOneUnit, PTL
       DEF Spec, ImplementsPromise, Promise!Spec
=============================================================================
