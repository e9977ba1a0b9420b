-------------------------- MODULE DeploymentProofs --------------------------
(***************************************************************************)
(* Theorems about Deployment for any number of bootstraps, operations and   *)
(* power failures.  All of them follow from one inductive invariant:        *)
(*                                                                          *)
(*   LockInv    -- who is past the acquisition holds the lock               *)
(*   BuildInv   -- what a bootstrap inside the lock has built so far, and   *)
(*                 that nothing else is in the root                         *)
(*   MarkerInv  -- NothingIsAdopted and CommitMarkerIsLast, with everything *)
(*                 durable once the identity is                             *)
(***************************************************************************)
EXTENDS Deployment, TLAPS

PCs == BootstrapPCs \union OperationPCs \union {"new", "done", "dead"}

Locked == {"residue", "create", "validate", "publish", "link", "unlink", "dirsync",
           "readback", "preflight", "work"}

LockInv == \A p \in Procs : pc[p] \in Locked => lock = p

\* What is so in the root while process p is at l.
Built(p, l) ==
    /\ l \in {"create", "validate", "publish", "link"} =>
          maker["identity"] = Nobody /\ \A e \in Present : maker[e] = p
    /\ l = "create" /\ stage[p] > 2 => "sessions" \in Present
    /\ l = "validate" => "sessions" \in Present
    /\ l \in {"publish", "link"} => Entries \ {"identity"} \subseteq Present
    /\ l \in {"unlink", "dirsync", "work"} => Present = Entries
    /\ l \in {"new", "enter", "mkdir", "b_lock", "residue"} /\ p \in Bootstraps => stage[p] = 1
    /\ l \in BootstrapPCs => p \in Bootstraps
    /\ l \in OperationPCs => p \in Operations

BuildInv == \A p \in Procs : Built(p, pc[p])

MarkerInv ==
    /\ NothingIsAdopted
    /\ CommitMarkerIsLast
    /\ "identity" \in synced => synced = Entries

IInv == TypeOK /\ LockInv /\ BuildInv /\ MarkerInv

-----------------------------------------------------------------------------
\* The seven entries a bootstrap creates, and where the sessions are.
LEMMA CreationOrder ==
    /\ DOMAIN Creation = 1 .. 7 /\ Len(Creation) = 7
    /\ \A i \in 1 .. 7 : Creation[i] \in Entries \ {"identity"}
    /\ Creation[2] = "sessions"
  BY DEF Creation, Entries

\* Nobody is no process.
LEMMA NobodyIsNoProcess ==
    /\ Nobody \notin Procs /\ Bootstraps \subseteq Procs /\ Operations \subseteq Procs
    /\ Bootstraps \intersect Operations = {}
  BY DeploymentAssumption DEF Procs

\* A step of one process that leaves root and entries alone keeps the
\* invariant if it takes the process where its own parts of it hold.
LEMMA QuietStep ==
    ASSUME IInv, UNCHANGED <<root, maker, synced, stage, losses>>,
           NEW p \in Procs, NEW l \in PCs, Goto(p, l),
           TypeOK', Built(p, l),
           lock' = lock \/ (lock \in {p, Nobody} /\ lock' \in {p, Nobody}),
           l \in Locked => lock' = p
    PROVE  IInv'
  <1>1. pc' = [pc EXCEPT ![p] = l] /\ pc \in [Procs -> PCs]
    BY DEF Goto, IInv, TypeOK, PCs
  <1>2. LockInv'
    BY <1>1, NobodyIsNoProcess DEF LockInv, IInv
  <1>3. BuildInv'
    <2> SUFFICES ASSUME NEW q \in Procs PROVE Built(q, pc[q])'
      BY DEF BuildInv
    <2>1. Built(q, pc'[q])
      BY <1>1 DEF IInv, BuildInv
    <2> QED  BY <2>1 DEF Built, Present
  <1>4. MarkerInv'
    BY DEF IInv, MarkerInv, NothingIsAdopted, CommitMarkerIsLast, Present
  <1> QED  BY <1>2, <1>3, <1>4 DEF IInv

\* A command that ends releases its own lock and has nothing left to keep.
LEMMA EndStep ==
    ASSUME IInv, UNCHANGED <<root, maker, synced, stage, losses>>,
           NEW p \in Procs, NEW r \in {"ok", "refused"}, End(p, r),
           temp' \in {temp, Nobody}
    PROVE  IInv'
  <1>1. Goto(p, "done") /\ "done" \in PCs /\ Built(p, "done") /\ "done" \notin Locked
    BY DEF End, PCs, Built, Locked, BootstrapPCs, OperationPCs
  <1>2. lock' = lock \/ (lock \in {p, Nobody} /\ lock' \in {p, Nobody})
    BY DEF End
  <1>3. TypeOK'
    BY DEF IInv, TypeOK, End, Goto, Present, Empty
  <1> QED  BY <1>1, <1>2, <1>3, QuietStep

\* A command that goes on from one point of its run to another.
LEMMA GoStep ==
    ASSUME IInv, UNCHANGED <<root, maker, synced, stage, losses>>, UNCHANGED <<lock, result>>,
           temp' \in {temp, Nobody},
           NEW p \in Procs, NEW l \in PCs, Goto(p, l), Built(p, l),
           l \in Locked => lock = p
    PROVE  IInv'
  <1>1. TypeOK'
    BY DEF IInv, TypeOK, Goto, PCs, Present, Empty
  <1>2. lock' = lock
    OBVIOUS
  <1> QED  BY <1>1, <1>2, QuietStep

-----------------------------------------------------------------------------
LEMMA InitIInv == Init => IInv
  <1> SUFFICES ASSUME Init PROVE IInv
    OBVIOUS
  <1>1. Present = {}
    BY DEF Init, Present
  <1>2. TypeOK
    <2>1. stage \in [Bootstraps -> DOMAIN Creation]
      BY CreationOrder DEF Init
    <2>2. losses \in 0 .. MaxPowerLoss
      BY DeploymentAssumption DEF Init
    <2> QED  BY <1>1, <2>1, <2>2 DEF Init, TypeOK, Empty
  <1>3. LockInv
    BY DEF Init, LockInv, Locked
  <1>4. BuildInv
    BY DEF Init, BuildInv, Built, BootstrapPCs, OperationPCs
  <1>5. MarkerInv
    BY <1>1 DEF Init, MarkerInv, NothingIsAdopted, CommitMarkerIsLast
  <1> QED  BY <1>2, <1>3, <1>4, <1>5 DEF IInv

-----------------------------------------------------------------------------
(* bootstrap *)

\* DeploymentLock.acquire, for either kind of command.
LEMMA AcquireStep ==
    ASSUME IInv, NEW p \in Procs, NEW l \in {"residue", "preflight"}, Acquire(p, l),
           Built(p, l)
    PROVE  IInv'
  <1>1. CASE root /\ lock = Nobody /\ lock' = p /\ Goto(p, l) /\ UNCHANGED result
    <2>1. TypeOK'
      BY <1>1 DEF IInv, TypeOK, Acquire, disk, Goto, BootstrapPCs, OperationPCs, Present, Empty
    <2>2. l \in PCs
      BY DEF PCs, BootstrapPCs, OperationPCs
    <2> QED  BY <1>1, <2>1, <2>2, QuietStep DEF Acquire, disk
  <1>2. CASE End(p, "refused")
    BY <1>2, EndStep DEF Acquire, disk
  <1> QED  BY <1>1, <1>2 DEF Acquire

\* What is known of a process at the point where a step takes it up.
LEMMA AtPC ==
    ASSUME IInv, NEW p \in Procs
    PROVE  /\ Built(p, pc[p])
           /\ pc[p] \in Locked => lock = p
           /\ pc[p] \in Locked => root
  BY NobodyIsNoProcess DEF IInv, BuildInv, LockInv, TypeOK

LEMMA Phase0Step ==
    ASSUME IInv, NEW p \in Bootstraps, Phase0(p)
    PROVE  IInv'
  <1>1. p \in Procs /\ Built(p, "enter") /\ "enter" \in PCs /\ "enter" \notin Locked
    BY NobodyIsNoProcess, AtPC DEF Phase0, Built, PCs, Locked, BootstrapPCs, OperationPCs
  <1> QED  BY <1>1, EndStep, GoStep DEF Phase0, Go, disk

LEMMA EnterRootStep ==
    ASSUME IInv, NEW p \in Bootstraps, EnterRoot(p)
    PROVE  IInv'
  <1>1. ASSUME NEW l \in {"b_lock", "mkdir"}
        PROVE  p \in Procs /\ Built(p, l) /\ l \in PCs /\ l \notin Locked
    BY NobodyIsNoProcess, AtPC DEF EnterRoot, Built, PCs, Locked, BootstrapPCs, OperationPCs
  <1> QED  BY <1>1, EndStep, GoStep DEF EnterRoot, Go, disk

\* The root is new and empty, and the lock is free because there was no root.
LEMMA MakeRootStep ==
    ASSUME IInv, NEW p \in Bootstraps, MakeRoot(p)
    PROVE  IInv'
  <1>1. p \in Procs /\ Built(p, "b_lock") /\ "b_lock" \in PCs /\ "b_lock" \notin Locked
    BY NobodyIsNoProcess, AtPC DEF MakeRoot, Built, PCs, Locked, BootstrapPCs, OperationPCs
  <1>2. CASE ~root /\ root' = TRUE /\ Go(p, "b_lock")
    <2>1. TypeOK'
      BY <1>2 DEF IInv, TypeOK, MakeRoot, Go, Goto, BootstrapPCs, OperationPCs, Present, Empty
    <2>2. pc' = [pc EXCEPT ![p] = "b_lock"] /\ pc \in [Procs -> PCs]
      BY <1>2 DEF Go, Goto, IInv, TypeOK, PCs
    <2>3. LockInv'
      BY <1>1, <1>2, <2>2 DEF IInv, LockInv, Go
    <2>4. BuildInv'
      <3> SUFFICES ASSUME NEW q \in Procs PROVE Built(q, pc[q])'
        BY DEF BuildInv
      <3>1. Built(q, pc'[q])
        BY <1>1, <2>2 DEF IInv, BuildInv
      <3> QED  BY <3>1 DEF Built, Present, MakeRoot
    <2>5. MarkerInv'
      BY DEF IInv, MarkerInv, NothingIsAdopted, CommitMarkerIsLast, Present, MakeRoot
    <2> QED  BY <2>1, <2>3, <2>4, <2>5 DEF IInv
  <1>3. CASE root /\ UNCHANGED root /\ End(p, "refused")
    BY <1>1, <1>3, EndStep DEF MakeRoot
  <1> QED  BY <1>2, <1>3 DEF MakeRoot

LEMMA CheckResidueStep ==
    ASSUME IInv, NEW p \in Bootstraps, CheckResidue(p)
    PROVE  IInv'
  <1>1. p \in Procs /\ lock = p /\ stage[p] = 1
    BY NobodyIsNoProcess, AtPC DEF CheckResidue, Built, Locked
  <1>2. CASE Empty /\ Go(p, "create")
    <2>1. maker["identity"] = Nobody /\ Present = {}
      BY <1>2 DEF Empty, Present, Entries
    <2>2. Built(p, "create") /\ "create" \in PCs
      BY <1>1, <2>1 DEF Built, PCs, BootstrapPCs, OperationPCs
    <2> QED  BY <1>1, <1>2, <2>2, GoStep DEF CheckResidue, Go, disk
  <1>3. CASE End(p, "refused")
    BY <1>1, <1>3, EndStep DEF CheckResidue, disk
  <1> QED  BY <1>2, <1>3 DEF CheckResidue

\* Only the process with the lock is inside, so a step of it that adds to the
\* root concerns its own part of BuildInv alone.
LEMMA OthersOutside ==
    ASSUME IInv, NEW p \in Procs, pc[p] \in Locked,
           NEW l \in PCs, Goto(p, l), l \in Locked, lock' = lock, stage' \in [Bootstraps -> Nat],
           \A q \in Bootstraps \ {p} : stage'[q] = stage[q],
           Built(p, l)'
    PROVE  LockInv' /\ BuildInv'
  <1>1. pc' = [pc EXCEPT ![p] = l] /\ pc \in [Procs -> PCs] /\ lock = p
    BY AtPC DEF Goto, IInv, TypeOK, PCs
  <1>2. LockInv'
    BY <1>1 DEF IInv, LockInv
  <1>3. ASSUME NEW q \in Procs PROVE Built(q, pc[q])'
    <2>1. CASE q = p
      BY <1>1, <2>1
    <2>2. CASE q # p
      <3>1. pc'[q] = pc[q] /\ pc[q] \notin Locked /\ Built(q, pc[q])
        BY <1>1, <2>2 DEF IInv, LockInv, BuildInv
      <3> QED  BY <2>2, <3>1 DEF Built, Locked
    <2> QED  BY <2>1, <2>2
  <1> QED  BY <1>2, <1>3 DEF BuildInv

LEMMA CreateEntryStep ==
    ASSUME IInv, NEW p \in Bootstraps, CreateEntry(p)
    PROVE  IInv'
  <1> DEFINE e == Creation[stage[p]]
  <1>1. /\ p \in Procs /\ lock = p /\ root /\ pc[p] = "create" /\ "create" \in Locked
        /\ stage[p] \in 1 .. 7 /\ e \in Entries \ {"identity"}
        /\ maker["identity"] = Nobody /\ (\A f \in Present : maker[f] = p)
        /\ (stage[p] > 2 => "sessions" \in Present)
    <2>1. p \in Procs /\ pc[p] = "create" /\ "create" \in Locked
      BY NobodyIsNoProcess DEF CreateEntry, Locked
    <2>2. stage[p] \in 1 .. 7
      BY CreationOrder DEF IInv, TypeOK
    <2> QED  BY <2>1, <2>2, AtPC, CreationOrder DEF Built
  <1>2. CASE maker[e] # Nobody /\ e \notin Ledgers /\ End(p, "refused") /\ UNCHANGED <<maker, stage>>
    BY <1>1, <1>2, EndStep DEF CreateEntry
  <1>3. CASE /\ maker[e] = Nobody \/ e \in Ledgers
             /\ maker' = [maker EXCEPT ![e] = IF @ = Nobody THEN p ELSE @]
             /\ IF stage[p] = Len(Creation)
                THEN Go(p, "validate") /\ UNCHANGED stage
                ELSE Go(p, "create") /\ stage' = [stage EXCEPT ![p] = @ + 1]
    <2>1. /\ maker \in [Entries -> Bootstraps \union {Nobody}]
          /\ maker' \in [Entries -> Bootstraps \union {Nobody}]
          /\ \A f \in Entries : maker'[f] = IF f = e THEN p ELSE maker[f]
      <3>1. maker[e] = Nobody \/ maker[e] = p
        BY <1>1 DEF Present
      <3> QED  BY <1>1, <1>3, <3>1 DEF IInv, TypeOK
    <2>2. Present' = Present \union {e}
      BY <1>1, <2>1, NobodyIsNoProcess DEF Present
    <2>3. maker'["identity"] = Nobody /\ (\A f \in Present' : maker'[f] = p)
      <3>1. \A f \in Present : f \in Entries
        BY DEF Present
      <3> QED  BY <1>1, <2>1, <2>2, <3>1 DEF Entries
    <2>4. stage[p] = 2 => e = "sessions"
      BY CreationOrder
    <2>5. /\ stage' \in [Bootstraps -> 1 .. 7]
          /\ \A q \in Bootstraps \ {p} : stage'[q] = stage[q]
          /\ stage[p] # 7 => stage'[p] = stage[p] + 1
          /\ stage[p] = 7 => stage'[p] = stage[p]
      BY <1>1, <1>3, CreationOrder DEF IInv, TypeOK
    <2>6. PICK l \in {"create", "validate"} :
              /\ Go(p, l) /\ l \in PCs /\ l \in Locked
              /\ stage[p] = 7 <=> l = "validate"
      BY <1>1, <1>3, CreationOrder DEF PCs, BootstrapPCs, Locked
    <2>7. Built(p, l)'
      BY <1>1, <2>2, <2>3, <2>4, <2>5, <2>6 DEF Built, BootstrapPCs, OperationPCs
    <2>8. LockInv' /\ BuildInv'
      <3>1. lock' = lock /\ Goto(p, l) /\ stage' \in [Bootstraps -> Nat]
        BY <2>5, <2>6 DEF Go
      <3> QED  BY <1>1, <2>5, <2>6, <2>7, <3>1, OthersOutside
    <2>9. TypeOK'
      <3>1. stage' \in [Bootstraps -> DOMAIN Creation]
        BY <2>5, CreationOrder
      <3>2. UNCHANGED <<root, synced, temp, losses, lock, result>> /\ synced' \subseteq Present'
        BY <2>2, <2>6 DEF CreateEntry, Go, IInv, TypeOK
      <3>3. pc' \in [Procs -> BootstrapPCs \union OperationPCs \union {"new", "done", "dead"}]
        BY <1>1, <2>6 DEF Go, Goto, IInv, TypeOK, PCs
      <3> QED  BY <1>1, <2>1, <3>1, <3>2, <3>3 DEF IInv, TypeOK
    <2>10. MarkerInv'
      <3>1. "identity" \notin Present' /\ "identity" \notin synced'
        BY <1>1, <2>3 DEF Present, IInv, TypeOK, CreateEntry
      <3> QED  BY <3>1 DEF MarkerInv, NothingIsAdopted, CommitMarkerIsLast
    <2> QED  BY <2>8, <2>9, <2>10 DEF IInv
  <1> QED  BY <1>2, <1>3 DEF CreateEntry

LEMMA ValidateCreatedStep ==
    ASSUME IInv, NEW p \in Bootstraps, ValidateCreated(p)
    PROVE  IInv'
  <1>1. p \in Procs /\ lock = p /\ Built(p, "validate") /\ "publish" \in PCs
    BY NobodyIsNoProcess, AtPC DEF ValidateCreated, Locked, PCs, BootstrapPCs
  <1>2. CASE Present \union {"sessions", "identity"} = Entries /\ Go(p, "publish")
    <2>1. Built(p, "publish")
      BY <1>1, <1>2 DEF Built, BootstrapPCs, OperationPCs
    <2> QED  BY <1>1, <1>2, <2>1, GoStep DEF ValidateCreated, Go, disk
  <1>3. CASE End(p, "refused")
    BY <1>1, <1>3, EndStep DEF ValidateCreated, disk
  <1> QED  BY <1>2, <1>3 DEF ValidateCreated

LEMMA WriteIdentityStep ==
    ASSUME IInv, NEW p \in Bootstraps, WriteIdentity(p)
    PROVE  IInv'
  <1>1. p \in Procs /\ lock = p /\ root /\ Built(p, "publish") /\ "link" \in PCs
    BY NobodyIsNoProcess, AtPC DEF WriteIdentity, Locked, PCs, BootstrapPCs
  <1>2. CASE maker["identity"] = Nobody /\ temp' = p /\ Go(p, "link")
    <2>1. TypeOK'
      BY <1>1, <1>2 DEF IInv, TypeOK, WriteIdentity, Go, Goto, PCs, Present
    <2>2. Built(p, "link")
      BY <1>1 DEF Built, BootstrapPCs, OperationPCs
    <2> QED  BY <1>1, <1>2, <2>1, <2>2, QuietStep DEF WriteIdentity, Go
  <1>3. CASE UNCHANGED temp /\ End(p, "refused")
    BY <1>1, <1>3, EndStep DEF WriteIdentity
  <1> QED  BY <1>2, <1>3 DEF WriteIdentity

\* The commit: every other entry is there and is p's own.
LEMMA LinkIdentityStep ==
    ASSUME IInv, NEW p \in Bootstraps, LinkIdentity(p)
    PROVE  IInv'
  <1>1. /\ p \in Procs /\ lock = p /\ root /\ pc[p] = "link" /\ Built(p, "link")
        /\ "unlink" \in PCs /\ "unlink" \in Locked /\ "link" \in Locked
    BY NobodyIsNoProcess, AtPC DEF LinkIdentity, Locked, PCs, BootstrapPCs
  <1>2. CASE maker' = [maker EXCEPT !["identity"] = p] /\ UNCHANGED temp /\ Go(p, "unlink")
    <2>1. /\ maker' \in [Entries -> Bootstraps \union {Nobody}]
          /\ maker'["identity"] = p
          /\ \A e \in Entries : maker'[e] = IF e = "identity" THEN p ELSE maker[e]
      BY <1>2 DEF IInv, TypeOK, Entries
    <2>2. Present' = Entries /\ \A e \in Entries : maker'[e] = p
      BY <1>1, <2>1, NobodyIsNoProcess DEF Built, Present
    <2>3. "identity" \notin synced
      BY <1>1 DEF Built, IInv, TypeOK, Present
    <2>4. TypeOK'
      <3>1. synced' \subseteq Present'
        BY <2>2 DEF LinkIdentity, IInv, TypeOK, Present
      <3> QED  BY <1>1, <1>2, <2>1, <3>1 DEF IInv, TypeOK, LinkIdentity, Go, Goto, PCs
    <2>5. LockInv' /\ BuildInv'
      <3>1. Built(p, "unlink")'
        BY <1>1, <2>2 DEF Built, BootstrapPCs, OperationPCs
      <3>2. /\ lock' = lock /\ Goto(p, "unlink") /\ stage' \in [Bootstraps -> Nat]
            /\ \A q \in Bootstraps \ {p} : stage'[q] = stage[q]
        BY <1>2, CreationOrder DEF LinkIdentity, Go, IInv, TypeOK
      <3> QED  BY <1>1, <3>1, <3>2, OthersOutside
    <2>6. MarkerInv'
      BY <2>2, <2>3 DEF MarkerInv, NothingIsAdopted, CommitMarkerIsLast, LinkIdentity, Entries
    <2> QED  BY <2>4, <2>5, <2>6 DEF IInv
  <1>3. CASE temp' = Nobody /\ UNCHANGED maker /\ End(p, "refused")
    BY <1>1, <1>3, EndStep DEF LinkIdentity
  <1> QED  BY <1>2, <1>3 DEF LinkIdentity

LEMMA UnlinkTempStep ==
    ASSUME IInv, NEW p \in Bootstraps, UnlinkTemp(p)
    PROVE  IInv'
  <1>1. p \in Procs /\ lock = p /\ Built(p, "dirsync") /\ "dirsync" \in PCs
    BY NobodyIsNoProcess, AtPC DEF UnlinkTemp, Built, Locked, PCs, BootstrapPCs, OperationPCs
  <1> QED  BY <1>1, GoStep DEF UnlinkTemp, Go

LEMMA SyncDirectoryStep ==
    ASSUME IInv, NEW p \in Bootstraps, SyncDirectory(p)
    PROVE  IInv'
  <1>1. /\ p \in Procs /\ lock = p /\ pc[p] = "dirsync" /\ Present = Entries
        /\ "readback" \in PCs /\ "readback" \in Locked /\ "dirsync" \in Locked
    BY NobodyIsNoProcess, AtPC DEF SyncDirectory, Built, Locked, PCs, BootstrapPCs
  <1>2. Present' = Present /\ synced' \in {synced, Entries}
    BY <1>1 DEF SyncDirectory, Present
  <1>3. TypeOK'
    BY <1>1, <1>2 DEF IInv, TypeOK, SyncDirectory, Go, Goto, PCs, Empty
  <1>4. LockInv' /\ BuildInv'
    <2>1. Built(p, "readback")'
      BY <1>1 DEF Built, BootstrapPCs, OperationPCs
    <2>2. /\ lock' = lock /\ Goto(p, "readback") /\ stage' \in [Bootstraps -> Nat]
          /\ \A q \in Bootstraps \ {p} : stage'[q] = stage[q]
      BY CreationOrder DEF SyncDirectory, Go, IInv, TypeOK
    <2> QED  BY <1>1, <2>1, <2>2, OthersOutside
  <1>5. MarkerInv'
    BY <1>1, <1>2 DEF IInv, MarkerInv, NothingIsAdopted, CommitMarkerIsLast, SyncDirectory
  <1> QED  BY <1>3, <1>4, <1>5 DEF IInv

\* The lock is released; what is left is to report.
LEMMA ReadBackStep ==
    ASSUME IInv, NEW p \in Bootstraps, ReadBack(p)
    PROVE  IInv'
  <1>1. /\ p \in Procs /\ Built(p, "check") /\ "check" \in PCs /\ "check" \notin Locked
        /\ lock' = lock \/ (lock \in {p, Nobody} /\ lock' \in {p, Nobody})
    BY NobodyIsNoProcess, AtPC DEF ReadBack, Built, Locked, PCs, BootstrapPCs, OperationPCs
  <1>2. TypeOK'
    BY <1>1 DEF IInv, TypeOK, ReadBack, Goto, PCs, disk, Present, Empty
  <1> QED  BY <1>1, <1>2, QuietStep DEF ReadBack, disk

LEMMA CheckMissingStep ==
    ASSUME IInv, NEW p \in Bootstraps, CheckMissing(p)
    PROVE  IInv'
  BY NobodyIsNoProcess, EndStep DEF CheckMissing, disk

-----------------------------------------------------------------------------
(* write_operation *)

LEMMA ReadIdentityStep ==
    ASSUME IInv, NEW p \in Operations, ReadIdentity(p)
    PROVE  IInv'
  <1>1. p \in Procs /\ Built(p, "o_lock") /\ "o_lock" \in PCs /\ "o_lock" \notin Locked
    BY NobodyIsNoProcess DEF Built, PCs, Locked, BootstrapPCs, OperationPCs
  <1> QED  BY <1>1, EndStep, GoStep DEF ReadIdentity, Go, disk

LEMMA PreflightStep ==
    ASSUME IInv, NEW p \in Operations, Preflight(p)
    PROVE  IInv'
  <1>1. p \in Procs /\ lock = p /\ "work" \in PCs
    BY NobodyIsNoProcess, AtPC DEF Preflight, Locked, PCs, OperationPCs
  <1>2. Present = Entries => Built(p, "work")
    BY DEF Built, BootstrapPCs, OperationPCs
  <1> QED  BY <1>1, <1>2, EndStep, GoStep DEF Preflight, Go, disk

LEMMA WorkStep ==
    ASSUME IInv, NEW p \in Operations, Work(p)
    PROVE  IInv'
  BY NobodyIsNoProcess, EndStep DEF Work, disk

-----------------------------------------------------------------------------
(* Failure, and the operator *)

LEMMA RaiseStep ==
    ASSUME IInv, NEW p \in Procs, Raise(p)
    PROVE  IInv'
  BY EndStep DEF Raise

LEMMA CrashStep ==
    ASSUME IInv, NEW p \in Procs, Crash(p)
    PROVE  IInv'
  <1>1. Built(p, "dead") /\ "dead" \in PCs /\ "dead" \notin Locked
    BY DEF Built, PCs, Locked, BootstrapPCs, OperationPCs
  <1> QED  BY <1>1, GoStep DEF Crash, disk

\* When no process runs, only MarkerInv says anything.
LEMMA NoneRunsStep ==
    ASSUME TypeOK', MarkerInv', UNCHANGED stage,
           \A p \in Procs : pc'[p] \in {"new", "done", "dead"},
           \A p \in Bootstraps : pc'[p] = "new" => stage[p] = 1
    PROVE  IInv'
  <1>1. LockInv'
    BY DEF LockInv, Locked
  <1>2. BuildInv'
    BY DEF BuildInv, Built, BootstrapPCs, OperationPCs
  <1> QED  BY <1>1, <1>2 DEF IInv

LEMMA PowerLossStep ==
    ASSUME IInv, PowerLoss
    PROVE  IInv'
  <1>1. PICK lost \in SUBSET (Present \ synced) :
            maker' = [e \in Entries |-> IF e \in lost THEN Nobody ELSE maker[e]]
    BY DEF PowerLoss
  <1>2. Present' = Present \ lost /\ \A e \in Present' : maker'[e] = maker[e]
    BY <1>1 DEF Present
  <1>3. /\ pc' \in [Procs -> {"new", "done", "dead"}]
        /\ \A p \in Bootstraps : pc'[p] = "new" => stage[p] = 1
    <2>1. ASSUME NEW p \in Procs
          PROVE  /\ pc'[p] \in {"new", "done", "dead"}
                 /\ pc'[p] = "new" => pc[p] = "new"
      BY DEF PowerLoss, Running, IInv, TypeOK
    <2>2. ASSUME NEW p \in Bootstraps, pc[p] = "new" PROVE stage[p] = 1
      BY <2>2, AtPC, NobodyIsNoProcess DEF Built
    <2>3. DOMAIN pc' = Procs /\ pc' = [p \in Procs |-> pc'[p]]
      BY DEF PowerLoss
    <2> QED  BY <2>1, <2>2, <2>3, NobodyIsNoProcess
  <1>4. TypeOK'
    <2>1. maker' \in [Entries -> Bootstraps \union {Nobody}]
      BY <1>1 DEF IInv, TypeOK
    <2>2. synced' \subseteq Present'
      BY <1>1, <1>2 DEF PowerLoss, IInv, TypeOK
    <2>3. losses' \in 0 .. MaxPowerLoss
      BY DeploymentAssumption DEF PowerLoss, IInv, TypeOK
    <2>4. /\ temp' \in Bootstraps \union {Nobody} /\ lock' \in Procs \union {Nobody}
          /\ UNCHANGED <<root, stage, result>>
      BY DEF PowerLoss, IInv, TypeOK
    <2>5. ~root' => Empty' /\ lock' = Nobody
      BY <1>2 DEF PowerLoss, IInv, TypeOK, Empty
    <2> QED  BY <1>3, <2>1, <2>2, <2>3, <2>4, <2>5 DEF IInv, TypeOK
  <1>5. MarkerInv'
    <2>1. NothingIsAdopted'
      BY <1>2 DEF IInv, MarkerInv, NothingIsAdopted
    <2>2. losses' # 0 /\ synced' = synced
      BY DeploymentAssumption DEF PowerLoss, IInv, TypeOK
    <2>3. "identity" \in synced' => Present' = Entries
      BY <1>1, <1>2, <2>2 DEF IInv, MarkerInv, CommitMarkerIsLast
    <2> QED  BY <2>1, <2>2, <2>3 DEF IInv, MarkerInv, CommitMarkerIsLast
  <1>6. UNCHANGED stage
    BY DEF PowerLoss
  <1> QED  BY <1>3, <1>4, <1>5, <1>6, NoneRunsStep

\* What the operator sees when nothing runs.
LEMMA NothingRuns ==
    ASSUME IInv, NoneRuns
    PROVE  /\ \A p \in Procs : pc[p] \in {"new", "done", "dead"}
           /\ \A p \in Bootstraps : pc[p] = "new" => stage[p] = 1
  <1>1. \A p \in Procs : pc[p] \in {"new", "done", "dead"}
    BY DEF NoneRuns, Running, IInv, TypeOK
  <1>2. ASSUME NEW p \in Bootstraps, pc[p] = "new" PROVE stage[p] = 1
    BY <1>2, AtPC, NobodyIsNoProcess DEF Built
  <1> QED  BY <1>1, <1>2

LEMMA ClearLockStep ==
    ASSUME IInv, ClearLock
    PROVE  IInv'
  <1>1. TypeOK'
    BY DEF ClearLock, disk, IInv, TypeOK, Present, Empty
  <1>2. MarkerInv'
    BY DEF ClearLock, disk, IInv, MarkerInv, NothingIsAdopted, CommitMarkerIsLast, Present
  <1> QED  BY <1>1, <1>2, NothingRuns, NoneRunsStep DEF ClearLock

LEMMA RemoveIncompleteRootStep ==
    ASSUME IInv, RemoveIncompleteRoot
    PROVE  IInv'
  <1>1. Present' = {}
    BY DEF RemoveIncompleteRoot, Present
  <1>2. TypeOK'
    BY <1>1 DEF RemoveIncompleteRoot, IInv, TypeOK, Empty
  <1>3. MarkerInv'
    BY <1>1 DEF RemoveIncompleteRoot, MarkerInv, NothingIsAdopted, CommitMarkerIsLast
  <1> QED  BY <1>2, <1>3, NothingRuns, NoneRunsStep DEF RemoveIncompleteRoot

-----------------------------------------------------------------------------
LEMMA NextIInv == IInv /\ [Next]_vars => IInv'
  <1> SUFFICES ASSUME IInv, [Next]_vars PROVE IInv'
    OBVIOUS
  <1>1. ASSUME NEW p \in Bootstraps, Bootstrap(p) PROVE IInv'
    <2>1. CASE Phase0(p)  BY <2>1, Phase0Step
    <2>2. CASE EnterRoot(p)  BY <2>2, EnterRootStep
    <2>3. CASE MakeRoot(p)  BY <2>3, MakeRootStep
    <2>4. CASE AcquireForBootstrap(p)
      <3>1. p \in Procs /\ Built(p, "residue")
        BY <2>4, AtPC, NobodyIsNoProcess
           DEF AcquireForBootstrap, Built, BootstrapPCs, OperationPCs
      <3> QED  BY <2>4, <3>1, AcquireStep DEF AcquireForBootstrap
    <2>5. CASE CheckResidue(p)  BY <2>5, CheckResidueStep
    <2>6. CASE CreateEntry(p)  BY <2>6, CreateEntryStep
    <2>7. CASE ValidateCreated(p)  BY <2>7, ValidateCreatedStep
    <2>8. CASE WriteIdentity(p)  BY <2>8, WriteIdentityStep
    <2>9. CASE LinkIdentity(p)  BY <2>9, LinkIdentityStep
    <2>10. CASE UnlinkTemp(p)  BY <2>10, UnlinkTempStep
    <2>11. CASE SyncDirectory(p)  BY <2>11, SyncDirectoryStep
    <2>12. CASE ReadBack(p)  BY <2>12, ReadBackStep
    <2>13. CASE CheckMissing(p)  BY <2>13, CheckMissingStep
    <2> QED
      BY <1>1, <2>1, <2>2, <2>3, <2>4, <2>5, <2>6, <2>7, <2>8, <2>9, <2>10, <2>11, <2>12,
         <2>13 DEF Bootstrap
  <1>2. ASSUME NEW p \in Operations, Operate(p) PROVE IInv'
    <2>1. CASE AcquireForOperation(p)
      <3>1. p \in Procs /\ Built(p, "preflight")
        BY NobodyIsNoProcess DEF Built, BootstrapPCs, OperationPCs
      <3> QED  BY <2>1, <3>1, AcquireStep DEF AcquireForOperation
    <2> QED  BY <1>2, <2>1, ReadIdentityStep, PreflightStep, WorkStep DEF Operate
  <1>3. ASSUME NEW p \in Procs, Raise(p) \/ Crash(p) PROVE IInv'
    BY <1>3, RaiseStep, CrashStep
  <1>4. CASE UNCHANGED vars
    BY <1>4 DEF vars, IInv, TypeOK, LockInv, BuildInv, Built, MarkerInv, NothingIsAdopted,
                CommitMarkerIsLast, Present, Empty
  <1> QED
    BY <1>1, <1>2, <1>3, <1>4, PowerLossStep, ClearLockStep, RemoveIncompleteRootStep DEF Next

LEMMA IInvHolds == Spec => []IInv
  BY InitIInv, NextIInv, PTL DEF Spec

\* Every value has its type; in particular nothing lies in a root that is not
\* there.
THEOREM DeploymentTypes == Spec => []TypeOK
  <1>1. IInv => TypeOK
    BY DEF IInv
  <1> QED  BY <1>1, IInvHolds, PTL

\* A write command works in a complete deployment and alone inside the lock
\* (operation.py, bootstrap.py).
THEOREM OperationsAreAdmitted == Spec => []OperationsFindADeployment
  <1>1. IInv => OperationsFindADeployment
    <2> SUFFICES ASSUME IInv, NEW p \in Operations, pc[p] = "work"
                 PROVE  /\ Present = Entries /\ lock = p
                        /\ \A q \in Procs :
                              pc[q] \in {"work", "preflight", "residue", "create", "validate",
                                         "publish", "link", "unlink", "dirsync", "readback"}
                                 => q = p
      BY DEF OperationsFindADeployment
    <2>1. p \in Procs /\ lock = p /\ Present = Entries
      BY NobodyIsNoProcess, AtPC DEF Built, Locked
    <2> QED  BY <2>1 DEF IInv, LockInv, Locked
  <1> QED  BY <1>1, IInvHolds, PTL

\* B-3: all of a committed root was made by the bootstrap that committed it.
THEOREM NothingAdopted == Spec => []NothingIsAdopted
  <1>1. IInv => NothingIsAdopted
    BY DEF IInv, MarkerInv
  <1> QED  BY <1>1, IInvHolds, PTL

\* The identity is published last and, once durable, nothing is missing.
THEOREM IdentityCommits == Spec => []CommitMarkerIsLast
  <1>1. IInv => CommitMarkerIsLast
    BY DEF IInv, MarkerInv
  <1> QED  BY <1>1, IInvHolds, PTL

\* No command takes a published identity away or replaces it: publish_identity
\* links and never overwrites, and only an uncommitted root is removed.
THEOREM CommittedStays == Spec => CommittedStaysCommitted
  <1>1. IInv /\ [Next]_vars
          => (losses' = losses => maker["identity"] \in {Nobody, maker'["identity"]})
    <2> SUFFICES ASSUME IInv, [Next]_vars, losses' = losses, maker["identity"] # Nobody
                 PROVE  maker'["identity"] = maker["identity"]
      OBVIOUS
    <2>1. ASSUME NEW p \in Bootstraps, CreateEntry(p)
          PROVE  maker'["identity"] = maker["identity"]
      BY <2>1, CreationOrder DEF CreateEntry, IInv, TypeOK, Entries
    <2>2. ASSUME NEW p \in Bootstraps, LinkIdentity(p)
          PROVE  maker'["identity"] = maker["identity"]
      BY <2>2 DEF LinkIdentity
    <2>3. ASSUME NEW p \in Bootstraps, Bootstrap(p), ~CreateEntry(p), ~LinkIdentity(p)
          PROVE  maker' = maker
      BY <2>3 DEF Bootstrap, Phase0, EnterRoot, MakeRoot, AcquireForBootstrap, Acquire,
                  CheckResidue, ValidateCreated, WriteIdentity, UnlinkTemp, SyncDirectory,
                  ReadBack, CheckMissing, disk
    <2>4. ASSUME NEW p \in Operations, Operate(p)
          PROVE  maker' = maker
      BY <2>4 DEF Operate, ReadIdentity, AcquireForOperation, Acquire, Preflight, Work, disk
    <2>5. ASSUME NEW p \in Procs, Raise(p) \/ Crash(p)
          PROVE  maker' = maker
      BY <2>5 DEF Raise, Crash, disk
    <2>6. CASE PowerLoss
      BY <2>6 DEF PowerLoss, IInv, TypeOK
    <2>7. CASE ClearLock \/ RemoveIncompleteRoot \/ UNCHANGED vars
      BY <2>7 DEF ClearLock, RemoveIncompleteRoot, vars, disk
    <2> QED  BY <2>1, <2>2, <2>3, <2>4, <2>5, <2>6, <2>7 DEF Next
  <1> QED  BY <1>1, IInvHolds, PTL DEF Spec, CommittedStaysCommitted
=============================================================================
