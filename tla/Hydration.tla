----------------------------- MODULE Hydration -----------------------------
(***************************************************************************)
(* One Unit's note gets its contexts and its recording (T8): vocab/         *)
(* context_batch.py and vocab/hydrate.py, as vocab/t8_cli.py starts them.   *)
(* Neither command takes the deployment lock; both look at the note, work   *)
(* for a long time (a person reads a preview, a model speaks), look again   *)
(* and then write.  Meanwhile people edit the note and its media and other  *)
(* runs do the same.  A call to Anki may raise; if it was to write, it may  *)
(* have been carried out all the same, and an update may be so later.       *)
(*                                                                          *)
(* Data: an identity is what request_id_for_unit hashes; a bank is five     *)
(* contexts, of which only the first is spoken; banks with the same first   *)
(* context have the same recording, under a file name determined by it.     *)
(* What a run answers (CREATED, STALE, ALREADY_READY and so on, or an       *)
(* exception) is left out: it ends the run and changes nothing.             *)
(***************************************************************************)
EXTENDS Naturals

CONSTANTS
    Runs,       \* concurrent commands
    Ids,        \* identities that pass validate_forge_unit
    Forged,     \* the one Forge gave the note
    Banks,      \* complete context banks
    Names,      \* names of recordings, one for each first context
    Spoken,     \* Spoken[b]: the name of the recording of the first context of b
    ValidFor,   \* ValidFor[b]: the identities for which validate_context_bank accepts b
    MaxEdits,   \* bound: what people do to note and media
    MaxFaults   \* bound: Anki calls that raise

ASSUME HydrationAssumption ==
    /\ Forged \in Ids /\ ValidFor \in [Banks -> SUBSET Ids]
    /\ Spoken \in [Banks -> Names]
    /\ MaxEdits \in Nat /\ MaxFaults \in Nat
    /\ {"invalid"} \intersect Ids = {} /\ {"empty", "partial"} \intersect Banks = {}
    /\ {"none", "malformed"} \intersect Names = {}
    /\ {"absent", "blank"} \intersect Runs = {}

VARIABLES
    note,      \* the note's identity, bank, Target_L and audio_1
    media,     \* media[n]: the run whose speech is stored under that name
    exported,  \* identities in exported context requests
    pc,        \* pc[p]: the call run p makes next
    job,       \* job[p]: what it writes, and the note as it first saw it
    moved,     \* history: runs whose note changed after their last look
    removed,   \* history: recordings a person took away
    edits, faults

local == <<pc, job>>
vars == <<note, media, exported, pc, job, moved, removed, edits, faults>>

Notes == [id : Ids \union {"invalid"}, bank : Banks \union {"empty", "partial"},
          listening : BOOLEAN, audio : Names \union {"none", "malformed"}]

NoJob == [field |-> "none", bank |-> "empty", seen |-> "nothing"]

Jobs == [field : {"contexts", "audio"}, bank : Banks, seen : Notes] \union {NoJob}

TypeOK ==
    /\ note \in Notes
    /\ media \in [Names -> Runs \union {"absent", "blank"}]
    /\ exported \subseteq Ids
    /\ pc \in [Runs -> {"idle", "confirm", "find", "store", "hear", "look", "write",
                        "late", "readback"}]
    /\ job \in [Runs -> Jobs]
    /\ \A p \in Runs : pc[p] # "idle" => job[p] # NoJob
    /\ moved \subseteq Runs /\ removed \subseteq Names
    /\ edits \in 0 .. MaxEdits /\ faults \in 0 .. MaxFaults

-----------------------------------------------------------------------------
Fits(bank, id) == bank \in Banks /\ id \in ValidFor[bank]

Goto(p, l) == pc' = [pc EXCEPT ![p] = l]

Take(p, l, j) == Goto(p, l) /\ job' = [job EXCEPT ![p] = j]

End(p) == Take(p, "idle", NoJob)

\* Runs that have looked at the note for the last time and not written yet.
Writing == {q \in Runs : pc[q] \in {"write", "late"}}

Change(n) ==
    /\ note' = n
    /\ moved' = IF n = note THEN moved ELSE moved \union Writing

SameOutside == UNCHANGED <<exported, removed, edits>>

\* A call raises, and the run with it.
Raise == faults < MaxFaults /\ faults' = faults + 1

-----------------------------------------------------------------------------
(* Contexts: export_context_batch, import_context_response *)

Export ==
    /\ note.id \in Ids /\ note.bank = "empty"
    /\ exported' = exported \union {note.id}
    /\ UNCHANGED <<note, media, local, moved, removed, edits, faults>>

\* A response to an exported request.  The note must still have the identity
\* the request asked for and no context, and the bank must be valid for it;
\* otherwise the run ends here.
StartImport(p, id, bank) ==
    /\ pc[p] = "idle"
    /\ id \in exported /\ note.id = id
    /\ note.bank = "empty" /\ Fits(bank, id)
    /\ Take(p, "confirm", [field |-> "contexts", bank |-> bank, seen |-> note])
    /\ UNCHANGED <<note, media, moved, faults>> /\ SameOutside

\* A person accepts the preview or declines it.
Confirm(p) ==
    /\ pc[p] = "confirm"
    /\ \/ Goto(p, "look") /\ UNCHANGED job
       \/ End(p)
    /\ UNCHANGED <<note, media, moved, faults>> /\ SameOutside

-----------------------------------------------------------------------------
(* Recordings: hydrate_audio *)

\* A note without a valid bank, without Target_L or with an audio_1 is none
\* of hydration's business.
StartHydration(p) ==
    /\ pc[p] = "idle"
    /\ Fits(note.bank, note.id) /\ note.listening /\ note.audio = "none"
    /\ Take(p, "find", [field |-> "audio", bank |-> note.bank, seen |-> note])
    /\ UNCHANGED <<note, media, moved, faults>> /\ SameOutside

\* deterministic_audio_filename: of unit key and first context, nothing else.
Name(p) == Spoken[job[p].bank]

\* Bug: a recording that is there already is an error.
FindUnused(p) ==
    /\ pc[p] = "find"
    /\ IF media[Name(p)] = "absent" THEN Goto(p, "store") /\ UNCHANGED job ELSE End(p)
    /\ UNCHANGED <<note, media, moved, faults>> /\ SameOutside

\* retrieve_media_file: a recording of this text is used again.
Find(p) ==
    /\ pc[p] = "find"
    /\ CASE media[Name(p)] = "absent" -> Goto(p, "store") /\ UNCHANGED job
         [] media[Name(p)] = "blank" -> End(p)
         [] OTHER -> Goto(p, "look") /\ UNCHANGED job
    /\ UNCHANGED <<note, media, moved, faults>> /\ SameOutside

\* Bug: storeMediaFile with deleteExisting.
StoredReplacing(p) == [media EXCEPT ![Name(p)] = p]

\* storeMediaFile without deleteExisting: a name in use stays as it is and
\* Anki picks another, which nothing refers to.
Stored(p) == [media EXCEPT ![Name(p)] = IF @ = "absent" THEN p ELSE @]

\* Bug: the failure of a call to store the recording is swallowed.
StoreSwallowing(p) ==
    /\ pc[p] = "store"
    /\ \/ media' = Stored(p) /\ UNCHANGED faults
       \/ Raise /\ media' \in {media, Stored(p)}
    /\ Goto(p, "look") /\ UNCHANGED job
    /\ UNCHANGED <<note, moved>> /\ SameOutside

\* synthesize and store_media_file: speech is never the same twice.
Store(p) ==
    /\ pc[p] = "store"
    /\ \/ /\ media' = Stored(p) /\ UNCHANGED faults
          /\ IF media[Name(p)] = "absent" THEN Goto(p, "hear") /\ UNCHANGED job ELSE End(p)
       \/ Raise /\ media' \in {media, Stored(p)} /\ End(p)
    /\ UNCHANGED <<note, moved>> /\ SameOutside

\* The stored recording is read back.
Hear(p) ==
    /\ pc[p] = "hear"
    /\ IF media[Name(p)] = p THEN Goto(p, "look") /\ UNCHANGED job ELSE End(p)
    /\ UNCHANGED <<note, media, moved, faults>> /\ SameOutside

-----------------------------------------------------------------------------
(* Both: look again, write one subset of the fields, read it back *)

\* Bug: what the run saw first is still true.
CurrentAssumed(p) == job[p] # NoJob

Current(p) ==
    IF job[p].field = "contexts" THEN note.id = job[p].seen.id /\ note.bank = "empty"
    ELSE note = job[p].seen

Look(p) ==
    /\ pc[p] = "look"
    /\ IF Current(p) THEN Goto(p, "write") /\ UNCHANGED job ELSE End(p)
    /\ moved' = moved \ {p}
    /\ UNCHANGED <<note, media, faults>> /\ SameOutside

\* update_note_fields
Written(p) ==
    IF job[p].field = "contexts" THEN [note EXCEPT !.bank = job[p].bank]
    ELSE [note EXCEPT !.audio = Name(p)]

\* A call that raises is carried out at once, later, or never.
Write(p) ==
    /\ pc[p] = "write"
    /\ \/ Change(Written(p)) /\ Goto(p, "readback") /\ UNCHANGED <<job, faults>>
       \/ Raise /\ Change(Written(p)) /\ End(p)
       \/ Raise /\ Goto(p, "late") /\ UNCHANGED <<note, moved, job>>
    /\ UNCHANGED media /\ SameOutside

Arrive(p) ==
    /\ pc[p] = "late"
    /\ Change(Written(p)) \/ UNCHANGED <<note, moved>>
    /\ End(p)
    /\ UNCHANGED <<media, faults>> /\ SameOutside

\* CREATED if the note shows what was written, an exception otherwise.
Readback(p) ==
    /\ pc[p] = "readback"
    /\ End(p)
    /\ UNCHANGED <<note, media, moved, faults>> /\ SameOutside

\* A call that only reads raises, or the command is interrupted.
Die(p) ==
    /\ pc[p] \notin {"idle", "late"}
    /\ Raise /\ End(p)
    /\ UNCHANGED <<note, media, moved>> /\ SameOutside

-----------------------------------------------------------------------------
(* People *)

Edit == edits < MaxEdits /\ edits' = edits + 1

\* A person edits the source, the contexts, Target_L or audio_1 by hand.
EditNote(n) ==
    /\ Edit /\ n # note
    /\ n.audio \in {note.audio, "none", "malformed"}
    /\ Change(n)
    /\ UNCHANGED <<media, exported, local, removed, faults>>

SpoilMedia(n, m) ==
    /\ Edit /\ media[n] # m
    /\ media' = [media EXCEPT ![n] = m]
    /\ removed' = removed \union {n}
    /\ UNCHANGED <<note, exported, local, moved, faults>>

-----------------------------------------------------------------------------
Init ==
    /\ note = [id |-> Forged, bank |-> "empty", listening |-> TRUE, audio |-> "none"]
    /\ media = [n \in Names |-> "absent"]
    /\ exported = {}
    /\ pc = [p \in Runs |-> "idle"]
    /\ job = [p \in Runs |-> NoJob]
    /\ moved = {} /\ removed = {}
    /\ edits = 0 /\ faults = 0

Step(p) ==
    \/ Confirm(p) \/ Find(p) \/ Store(p) \/ Hear(p)
    \/ Look(p) \/ Write(p) \/ Arrive(p) \/ Readback(p)

Next ==
    \/ Export
    \/ \E p \in Runs :
          \/ Step(p) \/ StartHydration(p) \/ Die(p)
          \/ \E id \in Ids, bank \in Banks : StartImport(p, id, bank)
    \/ \E n \in Notes : EditNote(n)
    \/ \E n \in Names, m \in {"absent", "blank"} : SpoilMedia(n, m)

\* A command that was started goes on, its person answers, and people run
\* hydrate-audio again until nothing is left to do.
Spec ==
    /\ Init /\ [][Next]_vars
    /\ \A p \in Runs : WF_vars(Step(p)) /\ SF_vars(StartHydration(p))

-----------------------------------------------------------------------------
(* Properties *)

Writes(p) == pc[p] \in {"write", "late"} /\ pc'[p] # pc[p] /\ note' # note

\* Whatever happens while a person reads the preview or the model speaks:
\* unless the note changed between a run's second look and its write, contexts
\* go to a note that has none and for which they are valid, and audio_1 to a
\* listening Unit that has none and whose first context the recording speaks.
WritesFitTheNote ==
    [][\A p \in Runs : Writes(p) /\ p \notin moved =>
          IF job[p].field = "contexts"
          THEN note.bank = "empty" /\ Fits(note'.bank, note.id)
          ELSE /\ note.audio = "none" /\ note.listening
               /\ note.bank \in Banks /\ note'.audio = Spoken[note.bank]]_vars

\* An audio_1 that hydration wrote can be played, in whatever order runs race,
\* fail and are repeated, until a person takes the recording away.
AudioHasMedia == note.audio \in Names \ removed => media[note.audio] \in Runs

\* D32: a recording is immutable.  Of two runs that speak the same text one
\* recording stays, and notes that refer to it keep it.
RecordingsAreImmutable ==
    [][\A n \in Names : edits' = edits /\ media[n] \in Runs => media'[n] = media[n]]_vars

Wanting == Fits(note.bank, note.id) /\ note.listening /\ note.audio = "none"

\* A Unit that is ready for its recording gets it, also after runs that stored
\* it and failed to write the note, unless a blank file has its name.
HydrationCompletes == Wanting ~> (~Wanting \/ media[Spoken[note.bank]] = "blank")
=============================================================================
