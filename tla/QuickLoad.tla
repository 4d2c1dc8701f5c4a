----------------------------- MODULE QuickLoad -----------------------------
(***************************************************************************)
(* The quick save and the quick load of a session.  The snapshot holds the *)
(* state of the machine and the identities of its media, not the media.  A *)
(* quick load of a snapshot whose media differ exchanges the images of the *)
(* removable drives one by one, restores the state, and on a failure puts  *)
(* back the media and then the state.                                      *)
(*                                                                         *)
(* Restoring the machine is one step here that succeeds or leaves the      *)
(* machine as it is: MachineRestore models what happens inside.  A medium  *)
(* is its configured image; the contents of a floppy are the number of the *)
(* guest's last write in them.                                             *)
(***************************************************************************)
EXTENDS Naturals, Sequences, FiniteSets

CONSTANTS
    Entries,      \* the configured images of each drive, in their order
    None,         \* no medium
    HasIdeDisk,   \* does an IDE hard disk install the expansion ROM? the answers to check
    WriteFaults,  \* writes to image files may fail
    MaxRun,       \* bound: how long the machine runs
    MaxWrites     \* bound: the guest's writes per image

\* The order of the drives in the manifest, and in the rollback.
Order == <<"fdd1", "fdd2", "cdrom">>
Drives == {"fdd1", "fdd2", "cdrom"}
Floppies == {"fdd1", "fdd2"}
ImagesOf(d) == {Entries[d][k] : k \in 1 .. Len(Entries[d])}
Images == UNION {ImagesOf(d) : d \in Drives}

\* A path is configured for one drive, and no path is the missing medium.
ASSUME EntriesAssumption ==
    /\ \A d \in Drives : Entries[d] \in Seq(ImagesOf(d)) /\ None \notin ImagesOf(d)
    /\ \A d, e \in Drives : d # e => ImagesOf(d) \cap ImagesOf(e) = {}
    /\ HasIdeDisk \subseteq BOOLEAN /\ WriteFaults \in BOOLEAN
    /\ MaxRun \in Nat /\ MaxWrites \in Nat

VARIABLES
    media,         \* the image mounted in each drive of the machine
    index,         \* fdd1_index, fdd2_index, cdrom_index, as the image they name
    memory,        \* the contents of the mounted floppies
    file,          \* the contents of the image files
    written,       \* history: the guest's last write to each image
    state,         \* the machine's electronics
    rom,           \* the IDE expansion ROM is installed
    ide_disk,      \* there is an IDE hard disk, in this behaviour
    hdd,           \* the identity of the hard disk: its first sectors
    snapshot,      \* runtime_snapshot
    flush_errors,  \* earlier_flush_errors is not empty
    load,          \* the quick load that runs
    outcome        \* how the last quick load ended, and what it began with

drives == <<media, index, memory, file, state, rom, flush_errors>>
vars == <<drives, written, ide_disk, hdd, snapshot, load, outcome>>

NoLoad == [pc |-> "none", todo |-> <<>>, slots |-> {}, previous |-> None, back |-> None,
           errors |-> {}, faulted |-> FALSE, before |-> None]
NoOutcome == [result |-> "none"]

\* What capture_state keeps.
Captured == [state |-> state, rom |-> rom, media |-> media, hdd |-> hdd]

\* The manifests agree (MediaManifest::compare_current).
Fits(s) == s.media = media /\ s.hdd = hdd

\* Mutant: the media are not compared.
RestorableUnchecked(s) == s.rom = rom

\* restore_state accepts s: same media, same expansion ROM.
Restorable(s) == Fits(s) /\ s.rom = rom

----------------------------------------------------------------------------
(* Media *)

Unsaved == {d \in Floppies : media[d] # None /\ memory[d] # file[media[d]]}

\* The files after the floppies of S were written back.
Flushed(S) ==
    [i \in Images |-> IF \E d \in S : media[d] = i
                        THEN memory[CHOOSE d \in S : media[d] = i] ELSE file[i]]

\* Which of the unsaved floppies a flush writes back.
Writable == IF WriteFaults THEN SUBSET Unsaved ELSE {Unsaved}

\* Mutant: the result of the flush is dropped.
FlushBeforeSwapSilently(d, S) == UNCHANGED flush_errors

\* flush_floppies_before_swap keeps a failed write.
FlushBeforeSwap(d, S) ==
    flush_errors' = (flush_errors \/ (d \in Floppies /\ S # Unsaved))

(* Dropping the mounted floppy of d flushes it once more (MountedFloppy's   *)
(* eject), which may or may not work now.                                   *)
FlushedAtEject(d, S) ==
    IF d \notin Unsaved \ S THEN {Flushed(S)} ELSE {Flushed(S), Flushed(S \cup {d})}

\* The electronics see image i in drive d, and the ATAPI drive reports a change.
Exchanged(d, i) ==
    [state EXCEPT !.media[d] = i, !.changed = @ \/ d = "cdrom"]

Eject(d) ==
    \E S \in Writable :
        /\ FlushBeforeSwap(d, S)
        /\ file' \in FlushedAtEject(d, S)
        /\ media' = [media EXCEPT ![d] = None]
        /\ index' = [index EXCEPT ![d] = None]
        /\ memory' = [memory EXCEPT ![d] = 0]
        /\ state' = Exchanged(d, None)
        /\ UNCHANGED rom

(* The file is read before the old image leaves the drive.  A CD-ROM        *)
(* installs the expansion ROM with the first insertion.                     *)
Select(d, i) ==
    \E S \in Writable :
        /\ FlushBeforeSwap(d, S)
        /\ file' \in FlushedAtEject(d, S)
        /\ media' = [media EXCEPT ![d] = i]
        /\ index' = [index EXCEPT ![d] = i]
        /\ memory' = [memory EXCEPT ![d] = Flushed(S)[i]]
        /\ state' = Exchanged(d, i)
        /\ rom' = (rom \/ d = "cdrom")

\* The image cannot be read or parsed: the floppies were flushed, no more.
SelectFails(d) ==
    \E S \in Writable :
        /\ FlushBeforeSwap(d, S)
        /\ file' = Flushed(S)
        /\ UNCHANGED <<media, index, memory, state, rom>>

\* Puts i, an image or None, into d.
Put(d, i) == IF i = None THEN Eject(d) ELSE Select(d, i)

----------------------------------------------------------------------------
(* The first image of every drive is inserted; a session does not begin     *)
(* when one fails.                                                          *)
First(d) == IF Entries[d] = <<>> THEN None ELSE Head(Entries[d])

Init ==
    /\ media = [d \in Drives |-> First(d)]
    /\ index = media
    /\ memory = [d \in Drives |-> 0]
    /\ file = [i \in Images |-> 0]
    /\ written = [i \in Images |-> 0]
    /\ state = [run |-> 0, changed |-> FALSE, media |-> media]
    /\ ide_disk \in HasIdeDisk
    /\ rom = (ide_disk \/ media["cdrom"] # None)
    /\ hdd = 0
    /\ snapshot = None
    /\ flush_errors = FALSE
    /\ load = NoLoad
    /\ outcome = NoOutcome

Idle == load.pc = "none" /\ outcome' = NoOutcome /\ UNCHANGED load

\* The guest runs.
Run ==
    /\ Idle
    /\ state.run < MaxRun
    /\ state' = [state EXCEPT !.run = @ + 1, !.changed = FALSE]
    /\ UNCHANGED <<media, index, memory, file, rom, flush_errors, written, hdd, snapshot>>

\* The guest writes to a floppy; the file follows unless the write fails.
WriteFloppy(d) ==
    /\ Idle
    /\ media[d] # None
    /\ written[media[d]] < MaxWrites
    /\ written' = [written EXCEPT ![media[d]] = @ + 1]
    /\ memory' = [memory EXCEPT ![d] = written'[media[d]]]
    /\ file' \in {[file EXCEPT ![media[d]] = memory'[d]]}
                   \cup (IF WriteFaults THEN {file} ELSE {})
    /\ UNCHANGED <<media, index, state, rom, flush_errors, hdd, snapshot>>

\* The guest rewrites the boot sectors of the hard disk.
Repartition ==
    /\ Idle
    /\ hdd' = 1 - hdd
    /\ UNCHANGED <<drives, written, snapshot>>

\* The media dialog.
UserExchanges(d) ==
    /\ Idle
    /\ \/ SelectFails(d)
       \/ \E i \in ImagesOf(d) \cup {None} : Put(d, i)
    /\ UNCHANGED <<written, hdd, snapshot>>

(* A hard reset flushes, creates the machine again and inserts the first    *)
(* image of every drive; an image that cannot be read leaves its drive      *)
(* empty, a machine that cannot be created leaves the old one running.      *)
(* The snapshot stays.                                                      *)
HardReset ==
    /\ Idle
    /\ \E S \in Writable :
          /\ flush_errors' = (flush_errors \/ S # Unsaved)
          /\ file' = Flushed(S)
          /\ \/ UNCHANGED <<media, index, memory, state, rom>>
             \/ \E failed \in SUBSET Drives :
                   LET inserted == [d \in Drives |-> IF d \in failed THEN None ELSE First(d)]
                   IN /\ media' = inserted
                      /\ index' = inserted
                      /\ memory' = [d \in Drives |-> IF inserted[d] = None THEN 0
                                                     ELSE Flushed(S)[inserted[d]]]
                      /\ state' = [run |-> 0, changed |-> FALSE, media |-> inserted]
                      /\ rom' = (ide_disk \/ inserted["cdrom"] # None)
    /\ UNCHANGED <<written, hdd, snapshot>>

QuickSave ==
    /\ Idle
    /\ snapshot' = Captured
    /\ UNCHANGED <<drives, written, hdd>>

----------------------------------------------------------------------------
(* Quick load *)

Ended(result, errors, faulted, before) ==
    /\ load' = NoLoad
    /\ outcome' = [result |-> result, errors |-> errors, faulted |-> faulted,
                   before |-> before]

Before == [media |-> media, memory |-> memory, unsaved |-> Unsaved, state |-> state,
           hdd |-> hdd, rom |-> rom]

\* The media agree: the state is restored, or the restore is refused or fails.
LoadState ==
    /\ Fits(snapshot)
    /\ \/ /\ Restorable(snapshot)
          /\ state' = snapshot.state
          /\ Ended("ok", {}, FALSE, Before)
       \/ /\ ~Restorable(snapshot)
          /\ UNCHANGED state
          /\ Ended("failed", {}, FALSE, Before)
       \/ /\ UNCHANGED state
          /\ Ended("failed", {}, TRUE, Before)
    /\ UNCHANGED <<media, index, memory, file, rom, flush_errors>>

ActionFor(d) == IF snapshot.media[d] # media[d] THEN <<d>> ELSE <<>>

\* Mutant: the CD-ROM is not exchanged.
PlannedFloppies == ActionFor("fdd1") \o ActionFor("fdd2")

\* plan_removable_media_actions: the drives to exchange, in the order of Order.
Planned == ActionFor("fdd1") \o ActionFor("fdd2") \o ActionFor("cdrom")

(* The media differ: the rollback state is captured and the exchange        *)
(* planned.  A hard disk cannot be exchanged, and a capture may fail.       *)
BeginExchange ==
    /\ ~Fits(snapshot)
    /\ \/ Ended("failed", {}, TRUE, Before)
       \/ /\ snapshot.hdd # hdd
          /\ Ended("failed", {}, FALSE, Before)
       \/ /\ snapshot.hdd = hdd
          /\ load' = [pc |-> "apply", todo |-> Planned,
                      slots |-> {Planned[k] : k \in 1 .. Len(Planned)},
                      previous |-> index, back |-> Captured,
                      errors |-> {}, faulted |-> FALSE, before |-> Before]
          /\ outcome' = NoOutcome
    /\ UNCHANGED drives

QuickLoad ==
    /\ load.pc = "none"
    /\ snapshot # None
    /\ LoadState \/ BeginExchange
    /\ UNCHANGED <<written, hdd, snapshot>>

\* The failure of a step of the exchange: everything is put back.
RollBack(faulted) ==
    load' = [load EXCEPT !.pc = "undo", !.todo = Order, !.faulted = faulted]

\* apply_removable_media_action, for the next planned action.
ApplyMedia ==
    /\ load.pc = "apply"
    /\ load.todo # <<>>
    /\ LET d == Head(load.todo)
       IN \/ /\ Put(d, snapshot.media[d])
             /\ load' = [load EXCEPT !.todo = Tail(@)]
          \/ /\ snapshot.media[d] # None
             /\ SelectFails(d)
             /\ RollBack(TRUE)
    /\ UNCHANGED <<written, hdd, snapshot, outcome>>

ApplyState ==
    /\ load.pc = "apply"
    /\ load.todo = <<>>
    /\ \/ /\ Restorable(snapshot)
          /\ state' = snapshot.state
          /\ Ended("ok", {}, FALSE, load.before)
       \/ /\ ~Restorable(snapshot)
          /\ RollBack(FALSE)
          /\ UNCHANGED <<state, outcome>>
       \/ /\ RollBack(TRUE)
          /\ UNCHANGED <<state, outcome>>
    /\ UNCHANGED <<media, index, memory, file, rom, flush_errors, written, hdd, snapshot>>

\* restore_removable_media_selection looks at drive d.
ToPutBack(d) == index[d] # load.previous[d] \/ d \in load.slots

(* restore_removable_media_selection: drive by drive; the first failure     *)
(* ends it.                                                                 *)
UndoMedia ==
    /\ load.pc = "undo"
    /\ load.todo # <<>>
    /\ LET d == Head(load.todo)
       IN \/ /\ ~ToPutBack(d)
             /\ load' = [load EXCEPT !.todo = Tail(@)]
             /\ UNCHANGED drives
          \/ /\ ToPutBack(d)
             /\ Put(d, load.previous[d])
             /\ load' = [load EXCEPT !.todo = Tail(@)]
          \/ /\ ToPutBack(d)
             /\ load.previous[d] # None
             /\ SelectFails(d)
             /\ load' = [load EXCEPT !.todo = <<>>, !.errors = @ \cup {"media"}]
    /\ UNCHANGED <<written, hdd, snapshot, outcome>>

\* Mutant: the state is left as the failed exchange left it.
UndoStateNever ==
    /\ load.pc = "undo"
    /\ load.todo = <<>>
    /\ UNCHANGED drives
    /\ Ended("failed", load.errors, load.faulted, load.before)
    /\ UNCHANGED <<written, hdd, snapshot>>

\* The previous state, tried whatever became of the media.
UndoState ==
    /\ load.pc = "undo"
    /\ load.todo = <<>>
    /\ \/ /\ Restorable(load.back)
          /\ state' = load.back.state
          /\ Ended("failed", load.errors, load.faulted, load.before)
       \/ /\ UNCHANGED state
          /\ Ended("failed", load.errors \cup {"state"}, load.faulted, load.before)
    /\ UNCHANGED <<media, index, memory, file, rom, flush_errors, written, hdd, snapshot>>

----------------------------------------------------------------------------
Guest == Run \/ Repartition \/ \E d \in Floppies : WriteFloppy(d)
User  == HardReset \/ QuickSave \/ QuickLoad \/ \E d \in Drives : UserExchanges(d)
Load  == ApplyMedia \/ ApplyState \/ UndoMedia \/ UndoState

Next == (Guest \/ User \/ Load) /\ UNCHANGED ide_disk

Spec == Init /\ [][Next]_vars

----------------------------------------------------------------------------
Media == [Drives -> Images \cup {None}]
States == [run : 0 .. MaxRun, changed : BOOLEAN, media : Media]

\* Every variable has its type; a drive holds only images configured for it.
TypeOK ==
    /\ media \in Media /\ index \in Media
    /\ \A d \in Drives : media[d] \in ImagesOf(d) \cup {None}
    /\ memory \in [Drives -> 0 .. MaxWrites]
    /\ file \in [Images -> 0 .. MaxWrites]
    /\ written \in [Images -> 0 .. MaxWrites]
    /\ state \in States
    /\ rom \in BOOLEAN /\ ide_disk \in BOOLEAN
    /\ hdd \in 0 .. 1
    /\ flush_errors \in BOOLEAN
    /\ load.pc \in {"none", "apply", "undo"}

(* The electronics never run with media other than the ones they were told  *)
(* of: a state is only restored with its own media in the drives.           *)
StateFitsMedia == state.media = media

Undone == outcome.result = "failed" /\ outcome.errors = {}

(* A quick load that succeeds leaves the snapshot's media and state; one    *)
(* that fails and reports no failure of its rollback leaves the media,      *)
(* their contents and the state as they were, with the session's indices.   *)
(* The contents of a floppy that had to leave its drive are excepted if     *)
(* they could not be written before.                                        *)
AllOrNothing ==
    /\ outcome.result = "ok" => media = snapshot.media /\ state = snapshot.state /\ index = media
    /\ Undone =>
          /\ media = outcome.before.media /\ index = media
          /\ state = outcome.before.state
          /\ \A d \in Drives :
                \/ memory[d] = outcome.before.memory[d]
                \/ d \in outcome.before.unsaved /\ snapshot.media[d] # outcome.before.media[d]

(* "Applies media and machine state together, restoring both on failure":   *)
(* the contents of the floppies too.                                        *)
ContentsRestored == Undone => memory = outcome.before.memory

(* A quick load fails only when a step of it fails: an image that cannot be *)
(* read, a worker that does not answer; or when the hard disk was           *)
(* repartitioned since, or the expansion ROM installed or removed.          *)
FailsOnlyByFault ==
    outcome.result = "failed" =>
        \/ outcome.faulted
        \/ snapshot.hdd # outcome.before.hdd
        \/ snapshot.rom # outcome.before.rom

(* A snapshot can be restored wherever its media are: the expansion ROM is  *)
(* no reason to refuse it.                                                  *)
NeverRefused ==
    outcome.result = "failed" => outcome.faulted \/ snapshot.hdd # outcome.before.hdd

(* What the guest wrote to a floppy last is in its file or in the drive, or *)
(* a failed flush is kept for the end of the session.                       *)
LossIsReported ==
    \A i \in Images :
        \/ written[i] = file[i]
        \/ \E d \in Floppies : media[d] = i /\ memory[d] = written[i]
        \/ flush_errors
============================================================================
