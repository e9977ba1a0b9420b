-------------------------- MODULE HydrationProofs --------------------------
(***************************************************************************)
(* Theorems about Hydration for any number of concurrent runs, identities,  *)
(* banks, edits and failing calls.  The inductive invariant:                *)
(*                                                                          *)
(*   JobInv   -- what a run carries was true of the note it first saw       *)
(*   LookInv  -- until the note changes, a run's last look is still true    *)
(*   MediaInv -- AudioHasMedia, also for the reference a run will write     *)
(***************************************************************************)
EXTENDS Hydration, TLAPS

PCs == {"idle", "confirm", "find", "store", "hear", "look", "write", "late", "readback"}

Speaking == {"find", "store", "hear"}

Sound(j) ==
    /\ j.field = "contexts" => Fits(j.bank, j.seen.id)
    /\ j.field = "audio" => j.seen.bank = j.bank /\ j.seen.listening /\ j.seen.audio = "none"

JobInv ==
    \A p \in Runs :
        /\ Sound(job[p])
        /\ pc[p] \in Speaking => job[p].field = "audio"
        /\ pc[p] = "confirm" => job[p].field = "contexts"

LookInv == \A p \in Writing : p \notin moved => Current(p)

Recorded(n) == n \in removed \/ media[n] \in Runs

Refers(p) == job[p].field = "audio" /\ pc[p] \in {"hear", "look", "write", "late"}

MediaInv ==
    /\ AudioHasMedia
    /\ \A p \in Runs : Refers(p) => Recorded(Name(p))

IInv == TypeOK /\ JobInv /\ LookInv /\ MediaInv

-----------------------------------------------------------------------------
\* NoJob is none of the jobs runs carry.
LEMMA JobKinds ==
    ASSUME NEW j \in Jobs
    PROVE  /\ j # NoJob => /\ j.field \in {"contexts", "audio"}
                           /\ j.bank \in Banks /\ j.seen \in Notes
           /\ j = NoJob => j.field = "none"
  BY DEF Jobs, NoJob

\* The constants that stand for no bank, no identity and no run are none.
LEMMA NoValues ==
    /\ "none" \notin Names /\ "malformed" \notin Names /\ "empty" \notin Banks
    /\ "absent" \notin Runs /\ "blank" \notin Runs
  BY HydrationAssumption

\* A context bank has the name of one recording.
LEMMA SpokenName == \A b \in Banks : Spoken[b] \in Names
  BY HydrationAssumption

LEMMA NoJobIsSound == Sound(NoJob) /\ NoJob \in Jobs
  BY DEF Sound, NoJob, Jobs

LEMMA InitIInv == Init => IInv
  <1> SUFFICES ASSUME Init PROVE IInv
    OBVIOUS
  <1>1. TypeOK
    <2>1. note \in Notes
      BY HydrationAssumption DEF Init, Notes
    <2>2. edits \in 0 .. MaxEdits /\ faults \in 0 .. MaxFaults
      BY HydrationAssumption DEF Init
    <2> QED  BY <2>1, <2>2, NoJobIsSound DEF Init, TypeOK
  <1>2. JobInv
    BY NoJobIsSound DEF Init, JobInv, Speaking
  <1>3. LookInv
    BY DEF Init, LookInv, Writing
  <1>4. MediaInv
    BY NoValues DEF Init, MediaInv, AudioHasMedia, Refers
  <1> QED  BY <1>1, <1>2, <1>3, <1>4 DEF IInv

-----------------------------------------------------------------------------
\* What a change of the note by hand or by a run keeps.
LEMMA ChangeTypes ==
    ASSUME TypeOK, NEW n \in Notes, Change(n)
    PROVE  note' \in Notes /\ moved' \subseteq Runs /\ moved \subseteq moved'
  BY DEF Change, TypeOK, Writing

\* A step of run p that leaves the note alone, but may store a recording
\* where there is none and takes p to l with job j.
LEMMA RunStep ==
    ASSUME IInv, NEW p \in Runs, NEW l \in PCs, NEW j \in Jobs, Take(p, l, j),
           UNCHANGED <<note, exported, removed, edits>>,
           faults' \in 0 .. MaxFaults,
           media' \in {media, Stored(p)},
           moved' = moved \/ (moved' = moved \ {p} /\ pc[p] = "look"),
           l # "idle" => j # NoJob,
           Sound(j),
           l \in Speaking => j.field = "audio",
           l = "confirm" => j.field = "contexts",
           l \in {"write", "late"} => j = job[p] /\ (p \notin moved' => Current(p)),
           j.field = "audio" /\ l \in {"hear", "look", "write", "late"}
              => Spoken[j.bank] \in removed \/ media'[Spoken[j.bank]] \in Runs
    PROVE  IInv'
  <1>1. /\ pc' = [pc EXCEPT ![p] = l] /\ job' = [job EXCEPT ![p] = j]
        /\ pc \in [Runs -> PCs] /\ job \in [Runs -> Jobs]
    BY DEF Take, Goto, IInv, TypeOK, PCs
  <1>2. /\ media' \in [Names -> Runs \union {"absent", "blank"}]
        /\ \A n \in Names : media[n] \in Runs => media'[n] = media[n]
    BY NoValues DEF IInv, TypeOK, Stored
  <1>3. TypeOK'
    BY <1>1, <1>2 DEF IInv, TypeOK, PCs
  <1>4. JobInv'
    BY <1>1 DEF IInv, JobInv
  <1>5. LookInv'
    <2> SUFFICES ASSUME NEW q \in Writing', q \notin moved' PROVE Current(q)'
      BY DEF LookInv
    <2>1. q \in Runs /\ pc'[q] \in {"write", "late"}
      BY DEF Writing
    <2>2. Current(q)
      BY <1>1, <2>1 DEF IInv, LookInv, Writing
    <2>3. job'[q] = job[q]
      BY <1>1, <2>1
    <2> QED  BY <2>2, <2>3 DEF Current
  <1>6. MediaInv'
    <2>1. AudioHasMedia'
      BY <1>2 DEF IInv, MediaInv, AudioHasMedia
    <2>2. ASSUME NEW q \in Runs, Refers(q)' PROVE Recorded(Name(q))'
      <3>1. CASE q = p
        BY <1>1, <2>2, <3>1 DEF Refers, Recorded, Name
      <3>2. CASE q # p
        <4>1. job'[q] = job[q] /\ pc'[q] = pc[q] /\ Refers(q)
          BY <1>1, <2>2, <3>2 DEF Refers
        <4>2. Recorded(Name(q)) /\ Name(q) \in Names
          BY <1>1, <4>1, JobKinds, SpokenName DEF IInv, MediaInv, Refers, TypeOK, Name
        <4>3. Name(q)' = Name(q)
          BY <4>1 DEF Name
        <4> QED  BY <1>2, <4>2, <4>3 DEF Recorded
      <3> QED  BY <3>1, <3>2
    <2> QED  BY <2>1, <2>2 DEF MediaInv
  <1> QED  BY <1>3, <1>4, <1>5, <1>6 DEF IInv

\* The run is over, or another call of it raised.
LEMMA EndStep ==
    ASSUME IInv, NEW p \in Runs, End(p),
           UNCHANGED <<note, exported, removed, edits>>,
           faults' \in 0 .. MaxFaults,
           media' \in {media, Stored(p)},
           moved' = moved \/ (moved' = moved \ {p} /\ pc[p] = "look")
    PROVE  IInv'
  <1>1. "idle" \in PCs /\ "idle" \notin Speaking
    BY DEF PCs, Speaking
  <1>2. NoJob.field = "none"
    BY DEF NoJob
  <1> QED  BY <1>1, <1>2, NoJobIsSound, RunStep DEF End

\* The run goes on with the job it has.
LEMMA GoOn ==
    ASSUME IInv, NEW p \in Runs, NEW l \in PCs, Goto(p, l), UNCHANGED job
    PROVE  Take(p, l, job[p]) /\ job[p] \in Jobs /\ Sound(job[p])
  BY DEF Take, IInv, TypeOK, JobInv

LEMMA RaiseTypes ==
    ASSUME IInv, Raise
    PROVE  faults' \in 0 .. MaxFaults
  BY HydrationAssumption DEF IInv, TypeOK, Raise

-----------------------------------------------------------------------------
(* Contexts and recordings *)

LEMMA StartImportStep ==
    ASSUME IInv, NEW p \in Runs, NEW id \in Ids, NEW bank \in Banks, StartImport(p, id, bank)
    PROVE  IInv'
  <1> DEFINE j == [field |-> "contexts", bank |-> bank, seen |-> note]
  <1>1. j \in Jobs /\ j # NoJob /\ Sound(j)
    BY DEF IInv, TypeOK, Jobs, NoJob, Sound, StartImport
  <1>2. "confirm" \in PCs /\ "confirm" \notin Speaking
    BY DEF PCs, Speaking
  <1>3. /\ Take(p, "confirm", j) /\ UNCHANGED <<note, exported, removed, edits>>
        /\ media' = media /\ moved' = moved /\ faults' \in 0 .. MaxFaults
    BY DEF StartImport, SameOutside, IInv, TypeOK
  <1> QED  BY <1>1, <1>2, <1>3, RunStep

LEMMA StartHydrationStep ==
    ASSUME IInv, NEW p \in Runs, StartHydration(p)
    PROVE  IInv'
  <1> DEFINE j == [field |-> "audio", bank |-> note.bank, seen |-> note]
  <1>1. j \in Jobs /\ j # NoJob /\ Sound(j)
    BY DEF IInv, TypeOK, Jobs, NoJob, Sound, StartHydration, Fits
  <1>2. "find" \in PCs
    BY DEF PCs
  <1>3. /\ Take(p, "find", j) /\ UNCHANGED <<note, exported, removed, edits>>
        /\ media' = media /\ moved' = moved /\ faults' \in 0 .. MaxFaults
    BY DEF StartHydration, SameOutside, IInv, TypeOK
  <1> QED  BY <1>1, <1>2, <1>3, RunStep

\* What is known of a run that is under way.
LEMMA UnderWay ==
    ASSUME IInv, NEW p \in Runs, pc[p] # "idle"
    PROVE  /\ job[p] \in Jobs /\ job[p] # NoJob /\ Sound(job[p])
           /\ job[p].field \in {"contexts", "audio"} /\ job[p].bank \in Banks
           /\ Name(p) \in Names
           /\ pc[p] \in Speaking => job[p].field = "audio"
           /\ pc[p] = "confirm" => job[p].field = "contexts"
           /\ Refers(p) => Recorded(Name(p))
           /\ faults \in 0 .. MaxFaults
  BY JobKinds, SpokenName DEF IInv, TypeOK, JobInv, MediaInv, Name

LEMMA ConfirmStep ==
    ASSUME IInv, NEW p \in Runs, Confirm(p)
    PROVE  IInv'
  <1>1. /\ UNCHANGED <<note, exported, removed, edits>>
        /\ media' = media /\ moved' = moved /\ faults' \in 0 .. MaxFaults
    BY DEF Confirm, SameOutside, IInv, TypeOK
  <1>2. CASE Goto(p, "look") /\ UNCHANGED job
    <2>1. "look" \in PCs /\ "look" \notin Speaking
      BY DEF PCs, Speaking
    <2>2. pc[p] = "confirm" /\ job[p].field = "contexts"
      BY UnderWay DEF Confirm
    <2> QED  BY <1>1, <1>2, <2>1, <2>2, UnderWay, GoOn, RunStep
  <1>3. CASE End(p)
    BY <1>1, <1>3, EndStep
  <1> QED  BY <1>2, <1>3 DEF Confirm

LEMMA FindStep ==
    ASSUME IInv, NEW p \in Runs, Find(p)
    PROVE  IInv'
  <1>1. /\ UNCHANGED <<note, exported, removed, edits>>
        /\ media' = media /\ moved' = moved /\ faults' \in 0 .. MaxFaults
    BY DEF Find, SameOutside, IInv, TypeOK
  <1>2. /\ job[p] \in Jobs /\ job[p] # NoJob /\ Sound(job[p])
        /\ job[p].field = "audio" /\ Name(p) \in Names
    BY UnderWay DEF Find, Speaking
  <1>3. {"store", "look"} \subseteq PCs /\ "look" \notin Speaking
    BY DEF PCs, Speaking
  <1>4. CASE media[Name(p)] = "absent" /\ Goto(p, "store") /\ UNCHANGED job
    BY <1>1, <1>2, <1>3, <1>4, GoOn, RunStep
  <1>5. CASE End(p)
    BY <1>1, <1>5, EndStep
  <1>6. CASE media[Name(p)] \notin {"absent", "blank"} /\ Goto(p, "look") /\ UNCHANGED job
    <2>1. media'[Name(p)] \in Runs
      BY <1>1, <1>2, <1>6 DEF IInv, TypeOK
    <2> QED  BY <1>1, <1>2, <1>3, <1>6, <2>1, GoOn, RunStep DEF Name
  <1> QED  BY <1>4, <1>5, <1>6 DEF Find

\* Of a call that raised nobody knows whether the recording is stored.
LEMMA StoreStep ==
    ASSUME IInv, NEW p \in Runs, Store(p)
    PROVE  IInv'
  <1>1. UNCHANGED <<note, exported, removed, edits>> /\ moved' = moved
    BY DEF Store, SameOutside
  <1>2. /\ job[p] \in Jobs /\ job[p] # NoJob /\ Sound(job[p])
        /\ job[p].field = "audio" /\ Name(p) \in Names
    BY UnderWay DEF Store, Speaking
  <1>3. "hear" \in PCs
    BY DEF PCs
  <1>4. faults' = faults => faults' \in 0 .. MaxFaults
    BY DEF IInv, TypeOK
  <1>5. CASE /\ media' = Stored(p) /\ UNCHANGED faults
             /\ media[Name(p)] = "absent" /\ Goto(p, "hear") /\ UNCHANGED job
    <2>1. media'[Name(p)] = p
      BY <1>2, <1>5 DEF Stored, IInv, TypeOK
    <2> QED  BY <1>1, <1>2, <1>3, <1>4, <1>5, <2>1, GoOn, RunStep DEF Name
  <1>6. CASE media' = Stored(p) /\ UNCHANGED faults /\ End(p)
    BY <1>1, <1>4, <1>6, EndStep
  <1>7. CASE Raise /\ media' \in {media, Stored(p)} /\ End(p)
    BY <1>1, <1>7, RaiseTypes, EndStep
  <1> QED  BY <1>5, <1>6, <1>7 DEF Store

LEMMA HearStep ==
    ASSUME IInv, NEW p \in Runs, Hear(p)
    PROVE  IInv'
  <1>1. /\ UNCHANGED <<note, exported, removed, edits>>
        /\ media' = media /\ moved' = moved /\ faults' \in 0 .. MaxFaults
    BY DEF Hear, SameOutside, IInv, TypeOK
  <1>2. CASE media[Name(p)] = p /\ Goto(p, "look") /\ UNCHANGED job
    <2>1. "look" \in PCs /\ "look" \notin Speaking /\ pc[p] # "idle"
      BY DEF PCs, Speaking, Hear
    <2>2. media'[Name(p)] \in Runs
      BY <1>1, <1>2
    <2> QED  BY <1>1, <1>2, <2>1, <2>2, UnderWay, GoOn, RunStep DEF Name
  <1>3. CASE End(p)
    BY <1>1, <1>3, EndStep
  <1> QED  BY <1>2, <1>3 DEF Hear

-----------------------------------------------------------------------------
(* Look, write, read back *)

LEMMA LookStep ==
    ASSUME IInv, NEW p \in Runs, Look(p)
    PROVE  IInv'
  <1>1. /\ UNCHANGED <<note, exported, removed, edits>> /\ media' = media
        /\ moved' = moved \ {p} /\ pc[p] = "look" /\ faults' \in 0 .. MaxFaults
    BY DEF Look, SameOutside, IInv, TypeOK
  <1>2. CASE Current(p) /\ Goto(p, "write") /\ UNCHANGED job
    <2>1. "write" \in PCs /\ "write" \notin Speaking
      BY DEF PCs, Speaking
    <2>2. job[p].field = "audio" => Recorded(Name(p))
      BY <1>1, UnderWay DEF Refers
    <2> QED  BY <1>1, <1>2, <2>1, <2>2, UnderWay, GoOn, RunStep DEF Recorded, Name
  <1>3. CASE End(p)
    BY <1>1, <1>3, EndStep
  <1> QED  BY <1>2, <1>3 DEF Look

\* update_note_fields writes a valid note, with a recording that is there.
LEMMA WrittenNote ==
    ASSUME IInv, NEW p \in Runs, pc[p] \in {"write", "late"}
    PROVE  /\ Written(p) \in Notes
           /\ Written(p).audio \in Names => Written(p).audio = note.audio \/ Recorded(Written(p).audio)
  <1>1. /\ job[p].field \in {"contexts", "audio"} /\ job[p].bank \in Banks
        /\ Name(p) \in Names
        /\ job[p].field = "audio" => Recorded(Name(p))
    BY UnderWay DEF Refers
  <1>2. note \in Notes
    BY DEF IInv, TypeOK
  <1> QED  BY <1>1, <1>2 DEF Written, Notes

\* A step that changes the note and takes no run to a point from which it
\* writes: who has looked and not written yet is marked by it.
LEMMA NoteStep ==
    ASSUME IInv, NEW n \in Notes, Change(n),
           n.audio \in Names => n.audio = note.audio \/ Recorded(n.audio),
           UNCHANGED <<media, exported, removed>>,
           edits' \in 0 .. MaxEdits, faults' \in 0 .. MaxFaults,
           pc' \in [Runs -> PCs], job' \in [Runs -> Jobs],
           \A q \in Runs : \/ pc'[q] = pc[q] /\ job'[q] = job[q]
                           \/ pc'[q] = "idle" /\ job'[q] = NoJob
                           \/ pc[q] = "write" /\ pc'[q] = "readback" /\ job'[q] = job[q]
    PROVE  IInv'
  <1>1. note' \in Notes /\ moved' \subseteq Runs /\ moved \subseteq moved'
    BY ChangeTypes DEF IInv
  <1>2. TypeOK'
    BY <1>1 DEF IInv, TypeOK, PCs
  <1>3. JobInv'
    <2> SUFFICES ASSUME NEW q \in Runs
                 PROVE  /\ Sound(job'[q]) /\ (pc'[q] \in Speaking => job'[q].field = "audio")
                        /\ (pc'[q] = "confirm" => job'[q].field = "contexts")
      BY DEF JobInv
    <2> QED  BY NoJobIsSound DEF IInv, JobInv, Speaking
  <1>4. LookInv'
    <2> SUFFICES ASSUME NEW q \in Writing', q \notin moved' PROVE Current(q)'
      BY DEF LookInv
    <2>1. q \in Writing /\ job'[q] = job[q]
      BY DEF Writing
    <2>2. note' = note /\ q \notin moved
      BY <1>1, <2>1 DEF Change
    <2> QED  BY <2>1, <2>2 DEF IInv, LookInv, Current
  <1>5. MediaInv'
    <2>1. AudioHasMedia'
      BY DEF Change, IInv, MediaInv, AudioHasMedia, Recorded
    <2>2. ASSUME NEW q \in Runs, Refers(q)' PROVE Recorded(Name(q))'
      <3>1. job'[q].field = "audio" /\ pc'[q] \in {"hear", "look", "write", "late"}
        BY <2>2 DEF Refers
      <3>2. NoJob.field = "none"
        BY DEF NoJob
      <3>3. job'[q] = job[q] /\ Refers(q)
        BY <3>1, <3>2 DEF Refers
      <3> QED  BY <3>3 DEF IInv, MediaInv, Recorded, Name
    <2> QED  BY <2>1, <2>2 DEF MediaInv
  <1> QED  BY <1>2, <1>3, <1>4, <1>5 DEF IInv

\* A run that writes the note and goes on from there.
LEMMA WrittenStep ==
    ASSUME IInv, NEW p \in Runs, pc[p] \in {"write", "late"},
           NEW l \in {"readback", "idle"}, Change(Written(p)), Goto(p, l),
           l = "readback" => pc[p] = "write" /\ UNCHANGED job,
           l = "idle" => job' = [job EXCEPT ![p] = NoJob],
           UNCHANGED <<media, exported, removed, edits>>, faults' \in 0 .. MaxFaults
    PROVE  IInv'
  <1>1. Written(p) \in Notes
        /\ (Written(p).audio \in Names
               => Written(p).audio = note.audio \/ Recorded(Written(p).audio))
    BY WrittenNote
  <1>2. /\ pc' = [pc EXCEPT ![p] = l] /\ pc \in [Runs -> PCs] /\ pc' \in [Runs -> PCs]
        /\ job \in [Runs -> Jobs] /\ job' \in [Runs -> Jobs]
    BY NoJobIsSound DEF Goto, IInv, TypeOK, PCs
  <1>3. \A q \in Runs : \/ pc'[q] = pc[q] /\ job'[q] = job[q]
                        \/ pc'[q] = "idle" /\ job'[q] = NoJob
                        \/ pc[q] = "write" /\ pc'[q] = "readback" /\ job'[q] = job[q]
    BY <1>2
  <1>4. edits' \in 0 .. MaxEdits
    BY DEF IInv, TypeOK
  <1> QED  BY <1>1, <1>2, <1>3, <1>4, NoteStep

LEMMA WriteStep ==
    ASSUME IInv, NEW p \in Runs, Write(p)
    PROVE  IInv'
  <1>1. pc[p] = "write" /\ UNCHANGED <<media, exported, removed, edits>>
    BY DEF Write, SameOutside
  <1>2. CASE Change(Written(p)) /\ Goto(p, "readback") /\ UNCHANGED <<job, faults>>
    BY <1>1, <1>2, WrittenStep DEF IInv, TypeOK
  <1>3. CASE Raise /\ Change(Written(p)) /\ End(p)
    BY <1>1, <1>3, RaiseTypes, WrittenStep DEF End, Take
  <1>4. CASE Raise /\ Goto(p, "late") /\ UNCHANGED <<note, moved, job>>
    <2>1. "late" \in PCs /\ "late" \notin Speaking
      BY DEF PCs, Speaking
    <2>2. p \notin moved => Current(p)
      BY <1>1 DEF IInv, LookInv, Writing
    <2>3. job[p].field = "audio"
             => Spoken[job[p].bank] \in removed \/ media[Spoken[job[p].bank]] \in Runs
      BY <1>1, UnderWay DEF Refers, Recorded, Name
    <2> QED  BY <1>1, <1>4, <2>1, <2>2, <2>3, RaiseTypes, UnderWay, GoOn, RunStep
  <1> QED  BY <1>2, <1>3, <1>4 DEF Write

LEMMA ArriveStep ==
    ASSUME IInv, NEW p \in Runs, Arrive(p)
    PROVE  IInv'
  <1>1. /\ pc[p] = "late" /\ End(p) /\ UNCHANGED <<media, exported, removed, edits>>
        /\ faults' \in 0 .. MaxFaults
    BY DEF Arrive, SameOutside, IInv, TypeOK
  <1>2. CASE Change(Written(p))
    BY <1>1, <1>2, WrittenStep DEF End, Take
  <1>3. CASE UNCHANGED <<note, moved>>
    BY <1>1, <1>3, EndStep
  <1> QED  BY <1>2, <1>3 DEF Arrive

LEMMA ReadbackStep ==
    ASSUME IInv, NEW p \in Runs, Readback(p)
    PROVE  IInv'
  BY EndStep DEF Readback, SameOutside, IInv, TypeOK

LEMMA DieStep ==
    ASSUME IInv, NEW p \in Runs, Die(p)
    PROVE  IInv'
  BY RaiseTypes, EndStep DEF Die, SameOutside

-----------------------------------------------------------------------------
(* People *)

LEMMA EditNoteStep ==
    ASSUME IInv, NEW n \in Notes, EditNote(n)
    PROVE  IInv'
  <1>1. n.audio \in Names => n.audio = note.audio
    BY NoValues DEF EditNote
  <1>2. edits' \in 0 .. MaxEdits
    BY HydrationAssumption DEF EditNote, Edit, IInv, TypeOK
  <1>3. /\ Change(n) /\ UNCHANGED <<media, exported, removed>> /\ faults' \in 0 .. MaxFaults
        /\ pc' = pc /\ job' = job /\ pc' \in [Runs -> PCs] /\ job' \in [Runs -> Jobs]
    BY DEF EditNote, local, IInv, TypeOK, PCs
  <1> QED  BY <1>1, <1>2, <1>3, NoteStep

LEMMA SpoilMediaStep ==
    ASSUME IInv, NEW r \in Names, NEW m \in {"absent", "blank"}, SpoilMedia(r, m)
    PROVE  IInv'
  <1>1. /\ UNCHANGED <<note, exported, pc, job, moved, faults>>
        /\ removed' = removed \union {r}
        /\ media' = [media EXCEPT ![r] = m]
    BY DEF SpoilMedia, local
  <1>2. edits' \in 0 .. MaxEdits
    BY HydrationAssumption DEF SpoilMedia, Edit, IInv, TypeOK
  <1>3. TypeOK'
    BY <1>1, <1>2 DEF IInv, TypeOK
  <1>4. \A n \in Names : Recorded(n) => Recorded(n)'
    BY <1>1 DEF Recorded, IInv, TypeOK
  <1>5. AudioHasMedia'
    BY <1>1 DEF IInv, TypeOK, MediaInv, AudioHasMedia
  <1>6. ASSUME NEW q \in Runs, Refers(q)' PROVE Recorded(Name(q))'
    <2>1. Refers(q) /\ pc[q] # "idle"
      BY <1>1, <1>6 DEF Refers
    <2>2. Name(q)' = Name(q)
      BY <1>1 DEF Name
    <2> QED  BY <1>4, <2>1, <2>2, UnderWay
  <1>7. JobInv' /\ LookInv'
    BY <1>1 DEF IInv, JobInv, LookInv, Writing, Current
  <1> QED  BY <1>3, <1>5, <1>6, <1>7 DEF IInv, MediaInv

LEMMA ExportStep ==
    ASSUME IInv, Export
    PROVE  IInv'
  <1>1. UNCHANGED <<note, media, pc, job, moved, removed, edits, faults>>
    BY DEF Export, local
  <1>2. TypeOK'
    BY <1>1 DEF Export, IInv, TypeOK
  <1>3. JobInv' /\ LookInv' /\ MediaInv'
    BY <1>1 DEF IInv, JobInv, LookInv, Writing, Current, MediaInv, AudioHasMedia, Refers,
           Recorded, Name
  <1> QED  BY <1>2, <1>3 DEF IInv

-----------------------------------------------------------------------------
LEMMA NextIInv == IInv /\ [Next]_vars => IInv'
  <1> SUFFICES ASSUME IInv, [Next]_vars PROVE IInv'
    OBVIOUS
  <1>1. ASSUME NEW p \in Runs, Step(p) PROVE IInv'
    BY <1>1, ConfirmStep, FindStep, StoreStep, HearStep, LookStep, WriteStep, ArriveStep,
       ReadbackStep DEF Step
  <1>2. ASSUME NEW p \in Runs,
               StartHydration(p) \/ Die(p)
                  \/ (\E id \in Ids, bank \in Banks : StartImport(p, id, bank))
        PROVE  IInv'
    BY <1>2, StartHydrationStep, DieStep, StartImportStep
  <1>3. CASE UNCHANGED vars
    <2>1. UNCHANGED <<note, media, exported, pc, job, moved, removed, edits, faults>>
      BY <1>3 DEF vars, local
    <2> QED
      BY <2>1 DEF IInv, TypeOK, JobInv, LookInv, Writing, Current, MediaInv, AudioHasMedia,
                  Refers, Recorded, Name
  <1>4. ASSUME NEW n \in Notes, EditNote(n) PROVE IInv'
    BY <1>4, EditNoteStep
  <1>5. ASSUME NEW r \in Names, NEW m \in {"absent", "blank"}, SpoilMedia(r, m) PROVE IInv'
    BY <1>5, SpoilMediaStep
  <1> QED  BY <1>1, <1>2, <1>3, <1>4, <1>5, ExportStep DEF Next

LEMMA IInvHolds == Spec => []IInv
  BY InitIInv, NextIInv, PTL DEF Spec

\* Every value has its type, whatever people do to the note meanwhile.
THEOREM HydrationTypes == Spec => []TypeOK
  <1>1. IInv => TypeOK
    BY DEF IInv
  <1> QED  BY <1>1, IInvHolds, PTL

\* A reference to a recording that hydrate_audio wrote is never dangling, for
\* any number of concurrent runs, failures and late calls (hydrate.py).
THEOREM AudioIsThere == Spec => []AudioHasMedia
  <1>1. IInv => AudioHasMedia
    BY DEF IInv, MediaInv
  <1> QED  BY <1>1, IInvHolds, PTL

\* Anki keeps the first recording of a name (D32).
THEOREM RecordingsStay == Spec => RecordingsAreImmutable
  <1>1. IInv /\ [Next]_vars
          => \A n \in Names : edits' = edits /\ media[n] \in Runs => media'[n] = media[n]
    <2> SUFFICES ASSUME IInv, [Next]_vars, NEW r \in Names, edits' = edits, media[r] \in Runs
                 PROVE  media'[r] = media[r]
      OBVIOUS
    <2>1. ASSUME NEW p \in Runs, Store(p) PROVE media'[r] = media[r]
      BY <2>1, NoValues DEF Store, Stored, IInv, TypeOK
    <2>2. ASSUME NEW p \in Runs, Step(p), ~Store(p) PROVE media' = media
      BY <2>2 DEF Step, Confirm, Find, Hear, Look, Write, Arrive, Readback
    <2>3. ASSUME NEW p \in Runs,
                 StartHydration(p) \/ Die(p)
                    \/ (\E id \in Ids, bank \in Banks : StartImport(p, id, bank))
          PROVE  media' = media
      BY <2>3 DEF StartHydration, Die, StartImport
    <2>4. CASE Export \/ (\E n \in Notes : EditNote(n)) \/ UNCHANGED vars
      BY <2>4 DEF Export, EditNote, vars
    <2>5. ASSUME NEW c \in Names, NEW m \in {"absent", "blank"}, SpoilMedia(c, m) PROVE FALSE
      BY <2>5, HydrationAssumption DEF SpoilMedia, Edit, IInv, TypeOK
    <2> QED  BY <2>1, <2>2, <2>3, <2>4, <2>5 DEF Next
  <1> QED  BY <1>1, IInvHolds, PTL DEF Spec, RecordingsAreImmutable

\* While one run writes, no other step changes the note.
LEMMA OnlyItsOwnWrite ==
    ASSUME IInv, [Next]_vars, NEW p \in Runs, Writes(p)
    PROVE  note' = Written(p)
  <1>1. pc[p] \in {"write", "late"} /\ pc'[p] # pc[p] /\ note' # note /\ pc \in [Runs -> PCs]
    BY DEF Writes, IInv, TypeOK, PCs
  <1>2. ASSUME NEW q \in Runs, Write(q) \/ Arrive(q) PROVE note' = Written(p)
    <2>1. q = p
      BY <1>1, <1>2 DEF Write, Arrive, Goto, End, Take
    <2> QED  BY <1>1, <1>2, <2>1 DEF Write, Arrive, Change
  <1>3. ASSUME NEW q \in Runs,
               Confirm(q) \/ Find(q) \/ Store(q) \/ Hear(q) \/ Look(q) \/ Readback(q)
                  \/ StartHydration(q) \/ Die(q)
                  \/ (\E id \in Ids, bank \in Banks : StartImport(q, id, bank))
        PROVE  FALSE
    BY <1>1, <1>3 DEF Confirm, Find, Store, Hear, Look, Readback, StartHydration, Die, StartImport
  <1>4. CASE Export \/ (\E n \in Notes : EditNote(n)) \/ UNCHANGED vars
             \/ (\E n \in Names, m \in {"absent", "blank"} : SpoilMedia(n, m))
    BY <1>1, <1>4 DEF Export, EditNote, SpoilMedia, vars, local
  <1> QED  BY <1>2, <1>3, <1>4 DEF Next, Step

\* What a run writes suits the note it writes to unless the note changed after
\* the run's second look (context_batch.py, hydrate.py).
THEOREM WritesFit == Spec => WritesFitTheNote
  <1>1. IInv /\ [Next]_vars
          => \A p \in Runs : Writes(p) /\ p \notin moved =>
                IF job[p].field = "contexts"
                THEN note.bank = "empty" /\ Fits(note'.bank, note.id)
                ELSE /\ note.audio = "none" /\ note.listening
                     /\ note.bank \in Banks /\ note'.audio = Spoken[note.bank]
    <2> SUFFICES ASSUME IInv, [Next]_vars, NEW p \in Runs, Writes(p), p \notin moved
                 PROVE  IF job[p].field = "contexts"
                        THEN note.bank = "empty" /\ Fits(note'.bank, note.id)
                        ELSE /\ note.audio = "none" /\ note.listening
                             /\ note.bank \in Banks /\ note'.audio = Spoken[note.bank]
      OBVIOUS
    <2>1. pc[p] \in {"write", "late"} /\ Current(p) /\ note \in Notes
      BY DEF Writes, IInv, TypeOK, LookInv, Writing
    <2>2. note' = Written(p)
      BY OnlyItsOwnWrite
    <2>3. Sound(job[p]) /\ job[p].field \in {"contexts", "audio"} /\ job[p].bank \in Banks
      BY <2>1, UnderWay
    <2>4. CASE job[p].field = "contexts"
      BY <2>1, <2>2, <2>3, <2>4 DEF Current, Written, Sound, Notes
    <2>5. CASE job[p].field = "audio"
      BY <2>1, <2>2, <2>3, <2>5 DEF Current, Written, Sound, Name, Notes
    <2> QED  BY <2>3, <2>4, <2>5
  <1> QED  BY <1>1, IInvHolds, PTL DEF Spec, WritesFitTheNote
=============================================================================
