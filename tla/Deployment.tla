----------------------------- MODULE Deployment -----------------------------
(***************************************************************************)
(* How a deployment comes to exist and who may work on it:                  *)
(* vocab/runtime/bootstrap.py creates the data root entry by entry,         *)
(* identity.py publishes runtime-identity.json last, lock.py guards the     *)
(* root, and operation.py with preflight.py admits write commands.  Every   *)
(* change of the file system is a step; processes run side by side, fail,   *)
(* are killed, or all die when the machine loses power.                     *)
(*                                                                          *)
(* Data is abstracted: a file is the command that created it, and what      *)
(* operations write into it later is left to the modules of the operations. *)
(***************************************************************************)
EXTENDS Naturals, Sequences

CONSTANTS
    Bootstraps,    \* runs of `vocab bootstrap`
    Operations,    \* runs of commands that write
    Nobody,
    MaxPowerLoss   \* bound: power failures

Procs == Bootstraps \union Operations

\* DURABLE_LAYOUT_ENTRY_NAMES
Entries == {"artifacts", "sessions", "events", "exposure", "capture", "disposition",
            "transcription", "identity"}
Ledgers == {"exposure", "capture", "disposition"}

ASSUME DeploymentAssumption ==
    /\ Bootstraps \intersect Operations = {}
    /\ Nobody \notin Procs
    /\ MaxPowerLoss \in Nat

VARIABLES
    root,    \* the data root exists
    maker,   \* maker[e]: the bootstrap that created entry e, if it is there
    synced,  \* entries whose directory entry is durable
    temp,    \* the bootstrap that wrote a temporary identity file, if one is there
    lock,    \* the process whose record runtime.lock holds
    pc,
    stage,   \* which entry a bootstrap creates next
    result,  \* what a command reported
    losses

vars == <<root, maker, synced, temp, lock, pc, stage, result, losses>>
disk == <<root, maker, synced, temp>>

Present == {e \in Entries : maker[e] # Nobody}

\* create_deployment makes every entry but the identity, in this order.
\* Bug: the session directory is forgotten.
CreationWithoutSessions ==
    <<"artifacts", "events", "exposure", "capture", "disposition", "transcription">>

Creation ==
    <<"artifacts", "sessions", "events", "exposure", "capture", "disposition",
      "transcription">>

\* Bug: any root without an identity passes for empty.
EmptyMeansUncommitted == maker["identity"] = Nobody

\* _require_absent_or_empty: runtime.lock alone does not count.
Empty == Present = {} /\ temp = Nobody

BootstrapPCs == {"enter", "mkdir", "b_lock", "residue", "create", "validate", "publish",
                 "link", "unlink", "dirsync", "readback", "check"}
OperationPCs == {"o_lock", "preflight", "work"}
Running(p) == pc[p] \in BootstrapPCs \union OperationPCs

\* Bound of `stage`; and the files live in the root.
TypeOK ==
    /\ root \in BOOLEAN
    /\ maker \in [Entries -> Bootstraps \union {Nobody}]
    /\ synced \subseteq Present
    /\ temp \in Bootstraps \union {Nobody}
    /\ lock \in Procs \union {Nobody}
    /\ pc \in [Procs -> BootstrapPCs \union OperationPCs \union {"new", "done", "dead"}]
    /\ stage \in [Bootstraps -> DOMAIN Creation]
    /\ result \in [Procs -> {"none", "ok", "refused"}]
    /\ losses \in 0 .. MaxPowerLoss
    /\ ~root => Empty /\ lock = Nobody

-----------------------------------------------------------------------------
Goto(p, l) == pc' = [pc EXCEPT ![p] = l]

\* The command ends; `finally` releases the lock it acquired.
End(p, r) ==
    /\ Goto(p, "done")
    /\ result' = [result EXCEPT ![p] = r]
    /\ lock' = IF lock = p THEN Nobody ELSE lock

Go(p, l) == Goto(p, l) /\ UNCHANGED <<lock, result>>

\* DeploymentLock.acquire: O_EXCL; the lock is never broken.
Acquire(p, next) ==
    /\ \/ root /\ lock = Nobody /\ lock' = p /\ Goto(p, next) /\ UNCHANGED result
       \/ (~root \/ lock # Nobody) /\ End(p, "refused")
    /\ UNCHANGED <<disk, stage, losses>>

-----------------------------------------------------------------------------
(* bootstrap *)

\* evaluate_preconditions: nothing is created; a preflight or registry failure
\* or a missing confirmation refuses.
Phase0(p) ==
    /\ pc[p] = "new"
    /\ \/ End(p, "refused")
       \/ Empty /\ Go(p, "enter")
    /\ UNCHANGED <<disk, stage, losses>>

EnterRoot(p) ==
    /\ pc[p] = "enter"
    /\ \/ root /\ Empty /\ Go(p, "b_lock")
       \/ root /\ ~Empty /\ End(p, "refused")
       \/ ~root /\ Go(p, "mkdir")
    /\ UNCHANGED <<disk, stage, losses>>

\* mkdir(exist_ok=False)
MakeRoot(p) ==
    /\ pc[p] = "mkdir"
    /\ \/ ~root /\ root' = TRUE /\ Go(p, "b_lock")
       \/ root /\ UNCHANGED root /\ End(p, "refused")
    /\ UNCHANGED <<maker, synced, temp, stage, losses>>

AcquireForBootstrap(p) == pc[p] = "b_lock" /\ Acquire(p, "residue")

CheckResidue(p) ==
    /\ pc[p] = "residue"
    /\ IF Empty THEN Go(p, "create") ELSE End(p, "refused")
    /\ UNCHANGED <<disk, stage, losses>>

\* Directories and journals are created exclusively; initialize_t12_ledgers
\* keeps an empty ledger that is there already.
CreateEntry(p) ==
    LET e == Creation[stage[p]] IN
    /\ pc[p] = "create"
    /\ \/ /\ maker[e] # Nobody /\ e \notin Ledgers
          /\ End(p, "refused")
          /\ UNCHANGED <<maker, stage>>
       \/ /\ maker[e] = Nobody \/ e \in Ledgers
          /\ maker' = [maker EXCEPT ![e] = IF @ = Nobody THEN p ELSE @]
          /\ IF stage[p] = Len(Creation)
             THEN Go(p, "validate") /\ UNCHANGED stage
             ELSE Go(p, "create") /\ stage' = [stage EXCEPT ![p] = @ + 1]
    /\ UNCHANGED <<root, synced, temp, losses>>

\* _validate_created_state reads everything back but the session directory.
ValidateCreated(p) ==
    /\ pc[p] = "validate"
    /\ IF Present \union {"sessions", "identity"} = Entries
       THEN Go(p, "publish")
       ELSE End(p, "refused")
    /\ UNCHANGED <<disk, stage, losses>>

\* publish_identity: the temporary file, complete and fsynced ...
WriteIdentity(p) ==
    /\ pc[p] = "publish"
    /\ \/ maker["identity"] = Nobody /\ temp' = p /\ Go(p, "link")
       \/ maker["identity"] # Nobody /\ UNCHANGED temp /\ End(p, "refused")
    /\ UNCHANGED <<root, maker, synced, stage, losses>>

\* ... os.link, which never overwrites ...
LinkIdentity(p) ==
    /\ pc[p] = "link"
    /\ \/ /\ maker["identity"] = Nobody
          /\ maker' = [maker EXCEPT !["identity"] = p]
          /\ UNCHANGED temp
          /\ Go(p, "unlink")
       \/ /\ maker["identity"] # Nobody
          /\ temp' = Nobody
          /\ UNCHANGED maker
          /\ End(p, "refused")
    /\ UNCHANGED <<root, synced, stage, losses>>

UnlinkTemp(p) ==
    /\ pc[p] = "unlink"
    /\ temp' = Nobody
    /\ Go(p, "dirsync")
    /\ UNCHANGED <<root, maker, synced, stage, losses>>

\* ... and fsync of the directory, where the platform offers it.
SyncDirectory(p) ==
    /\ pc[p] = "dirsync"
    /\ synced' \in {synced, Present}
    /\ Go(p, "readback")
    /\ UNCHANGED <<root, maker, temp, stage, losses>>

\* The readback closes the locked part.
ReadBack(p) ==
    /\ pc[p] = "readback"
    /\ Goto(p, "check")
    /\ lock' = IF lock = p THEN Nobody ELSE lock
    /\ UNCHANGED <<disk, stage, result, losses>>

CheckMissing(p) ==
    /\ pc[p] = "check"
    /\ End(p, IF Present = Entries THEN "ok" ELSE "refused")
    /\ UNCHANGED <<disk, stage, losses>>

Bootstrap(p) ==
    \/ Phase0(p) \/ EnterRoot(p) \/ MakeRoot(p) \/ AcquireForBootstrap(p)
    \/ CheckResidue(p) \/ CreateEntry(p) \/ ValidateCreated(p)
    \/ WriteIdentity(p) \/ LinkIdentity(p) \/ UnlinkTemp(p) \/ SyncDirectory(p)
    \/ ReadBack(p) \/ CheckMissing(p)

-----------------------------------------------------------------------------
(* write_operation *)

\* read_identity, before the lock: which deployment this is.
ReadIdentity(p) ==
    /\ pc[p] = "new"
    /\ IF maker["identity"] # Nobody THEN Go(p, "o_lock") ELSE End(p, "refused")
    /\ UNCHANGED <<disk, stage, losses>>

AcquireForOperation(p) == pc[p] = "o_lock" /\ Acquire(p, "preflight")

\* Bug: only the identity is read again under the lock.
PreflightOfIdentity(p) ==
    /\ pc[p] = "preflight"
    /\ IF maker["identity"] # Nobody THEN Go(p, "work") ELSE End(p, "refused")
    /\ UNCHANGED <<disk, stage, losses>>

\* run_runtime_write_preflight: every durable entry must be there.
Preflight(p) ==
    /\ pc[p] = "preflight"
    /\ IF Present = Entries THEN Go(p, "work") ELSE End(p, "refused")
    /\ UNCHANGED <<disk, stage, losses>>

Work(p) ==
    /\ pc[p] = "work"
    /\ End(p, "ok")
    /\ UNCHANGED <<disk, stage, losses>>

Operate(p) == ReadIdentity(p) \/ AcquireForOperation(p) \/ Preflight(p) \/ Work(p)

-----------------------------------------------------------------------------
(* Failure, and the operator *)

\* A call raises; publish_identity unlinks its temporary file on the way out,
\* unless it is that unlink that fails.
Raise(p) ==
    /\ Running(p)
    /\ End(p, "refused")
    /\ temp' = IF pc[p] = "link" THEN Nobody ELSE temp
    /\ UNCHANGED <<root, maker, synced, stage, losses>>

Crash(p) ==
    /\ Running(p)
    /\ Goto(p, "dead")
    /\ UNCHANGED <<disk, lock, stage, result, losses>>

\* Directory entries that were not fsynced may be gone.
PowerLoss ==
    /\ losses < MaxPowerLoss
    /\ losses' = losses + 1
    /\ pc' = [p \in Procs |-> IF Running(p) THEN "dead" ELSE pc[p]]
    /\ \E lost \in SUBSET (Present \ synced) :
          maker' = [e \in Entries |-> IF e \in lost THEN Nobody ELSE maker[e]]
    /\ temp' \in {temp, Nobody}
    /\ lock' \in {lock, Nobody}
    /\ UNCHANGED <<root, synced, stage, result>>

NoneRuns == \A p \in Procs : ~Running(p)

\* "Confirm no other process is running, then delete runtime.lock yourself."
ClearLock ==
    /\ NoneRuns
    /\ lock # Nobody
    /\ lock' = Nobody
    /\ UNCHANGED <<disk, pc, stage, result, losses>>

\* "Inspect it and remove it by hand, then bootstrap again."
RemoveIncompleteRoot ==
    /\ NoneRuns
    /\ root /\ maker["identity"] = Nobody
    /\ root' = FALSE
    /\ maker' = [e \in Entries |-> Nobody]
    /\ synced' = {}
    /\ temp' = Nobody /\ lock' = Nobody
    /\ UNCHANGED <<pc, stage, result, losses>>

-----------------------------------------------------------------------------
Init ==
    /\ root = FALSE
    /\ maker = [e \in Entries |-> Nobody]
    /\ synced = {}
    /\ temp = Nobody /\ lock = Nobody
    /\ pc = [p \in Procs |-> "new"]
    /\ stage = [p \in Bootstraps |-> 1]
    /\ result = [p \in Procs |-> "none"]
    /\ losses = 0

Next ==
    \/ \E p \in Bootstraps : Bootstrap(p)
    \/ \E p \in Operations : Operate(p)
    \/ \E p \in Procs : Raise(p) \/ Crash(p)
    \/ PowerLoss \/ ClearLock \/ RemoveIncompleteRoot

Spec == Init /\ [][Next]_vars

-----------------------------------------------------------------------------
(* Properties *)

\* A write command works only while every durable entry is in place and no
\* other command, bootstrap or operation, is under way inside the lock.
OperationsFindADeployment ==
    \A p \in Operations : pc[p] = "work" =>
        /\ Present = Entries
        /\ lock = p
        /\ \A q \in Procs : pc[q] \in {"work", "preflight", "residue", "create", "validate",
                                       "publish", "link", "unlink", "dirsync", "readback"}
                               => q = p

\* B-3, nothing is adopted: all entries of a root with an identity were made
\* by the bootstrap that published it, whatever earlier ones left behind.
NothingIsAdopted ==
    "identity" \in Present => \A e \in Present : maker[e] = maker["identity"]

\* The identity is the commit marker.  Unless the power failed it never stands
\* without the seven other entries, and a durable identity never does.
CommitMarkerIsLast ==
    /\ losses = 0 /\ "identity" \in Present => Present = Entries
    /\ "identity" \in synced => Present = Entries

\* A committed deployment stays committed: no command that fails or races with
\* others takes its identity away.  Only lost power may.
CommittedStaysCommitted ==
    [][losses' = losses => maker["identity"] \in {Nobody, maker'["identity"]}]_vars

\* DECISIONS.md D70 section 10: "At every boundary from I-1 through I-12 the
\* identity is absent and the data root is INCOMPLETE".  I-11 follows os.link,
\* I-12 the fsync of the directory, I-13 the readback.
IncompleteUntilReadback ==
    \A p \in Bootstraps :
        pc[p] \in {"residue", "create", "validate", "publish", "link", "unlink",
                   "dirsync", "readback"}
            => maker["identity"] # p
=============================================================================
