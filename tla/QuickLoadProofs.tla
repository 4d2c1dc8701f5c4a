-------------------------- MODULE QuickLoadProofs --------------------------
(***************************************************************************)
(* A state only meets its own media, a quick load does all or nothing and  *)
(* fails only for a reason, and what a guest wrote is lost only with a     *)
(* kept error, for all configured images and bounds.                       *)
(*                                                                         *)
(* The properties speak of a load that has ended.  LoadInv says what holds *)
(* between its steps: what was captured when it began agrees with what the *)
(* outcome will be compared with, a drive outside of the plan is as it     *)
(* was, a floppy that was saved is still in its file, and every planned    *)
(* drive is exchanged or still to be exchanged.                            *)
(***************************************************************************)
EXTENDS QuickLoad, TLAPS

Numbers   == 0 .. MaxWrites
Mounted   == {m \in Media : \A d \in Drives : m[d] \in ImagesOf(d) \cup {None}}
Snapshots == [state : States, rom : BOOLEAN, media : Mounted, hdd : 0 .. 1]
Befores   == [media : Mounted, memory : [Drives -> Numbers], unsaved : SUBSET Drives,
              state : States, hdd : 0 .. 1, rom : BOOLEAN]
Outcomes  == [result : {"ok", "failed"}, errors : SUBSET {"media", "state"}, faulted : BOOLEAN,
              before : Befores]
Loads     == [pc : {"apply", "undo"}, todo : Seq(Drives), slots : SUBSET Drives,
              previous : Mounted, back : Snapshots, errors : SUBSET {"media"},
              faulted : BOOLEAN, before : Befores]

Types ==
    /\ media \in Mounted /\ index = media
    /\ memory \in [Drives -> Numbers]
    /\ file \in [Images -> Numbers] /\ written \in [Images -> Numbers]
    /\ state \in States
    /\ rom \in BOOLEAN /\ ide_disk \in BOOLEAN /\ flush_errors \in BOOLEAN
    /\ hdd \in 0 .. 1

\* The electronics know the media, a CD-ROM brought its ROM, nobody writes
\* to a CD-ROM, and an empty drive has no contents.
MachineInv ==
    /\ StateFitsMedia
    /\ media["cdrom"] # None => rom
    /\ \A d \in Drives : media[d] = None => memory[d] = 0
    /\ memory["cdrom"] = 0 /\ \A i \in ImagesOf("cdrom") : file[i] = 0

\* Without a kept error a mounted floppy is the latest, and so is the file of another one.
LossInv ==
    ~flush_errors =>
        /\ \A d \in Floppies : media[d] # None => memory[d] = written[media[d]]
        /\ \A i \in Images : written[i] = file[i] \/ \E d \in Floppies : media[d] = i

SnapshotInv ==
    snapshot # None =>
        /\ snapshot \in Snapshots
        /\ snapshot.state.media = snapshot.media
        /\ snapshot.media["cdrom"] # None => snapshot.rom

\* What the load began with, as its rollback and its outcome know it.
BeganInv ==
    /\ load.previous = load.before.media
    /\ load.back = [state |-> load.before.state, rom |-> load.before.rom,
                    media |-> load.before.media, hdd |-> load.before.hdd]
    /\ load.before.state.media = load.before.media
    /\ load.before.hdd = hdd /\ snapshot.hdd = hdd
    /\ \A d \in Drives : load.before.media[d] = None => load.before.memory[d] = 0
    /\ load.slots = {d \in Drives : snapshot.media[d] # load.before.media[d]}

\* A drive outside of the plan is untouched; the contents of a planned one
\* that was saved are in its file, and in the drive if its image is.
ContentsInv ==
    \A d \in Drives :
        /\ d \notin load.slots =>
              media[d] = load.before.media[d] /\ memory[d] = load.before.memory[d]
        /\ d \in load.slots /\ d \notin load.before.unsaved =>
              /\ load.before.media[d] # None
                    => file[load.before.media[d]] = load.before.memory[d]
              /\ media[d] = load.before.media[d] => memory[d] = load.before.memory[d]

\* What is to be done still, or why it is given up.
PlanInv ==
    /\ load.pc = "apply" =>
          /\ \A k \in 1 .. Len(load.todo) : load.todo[k] \in load.slots
          /\ \A d \in Drives :
                media[d] = snapshot.media[d] \/ \E k \in 1 .. Len(load.todo) : load.todo[k] = d
          /\ rom \in {load.before.rom, snapshot.rom}
    /\ load.pc = "undo" => load.faulted \/ snapshot.rom # load.before.rom

LoadInv ==
    \/ load = NoLoad
    \/ load \in Loads /\ outcome = NoOutcome /\ snapshot # None
       /\ BeganInv /\ ContentsInv /\ PlanInv

OutcomeInv ==
    /\ outcome = NoOutcome \/ outcome \in Outcomes
    /\ AllOrNothing /\ FailsOnlyByFault

SessionInv == Types /\ MachineInv /\ LossInv /\ SnapshotInv /\ LoadInv /\ OutcomeInv

----------------------------------------------------------------------------
(* What EntriesAssumption says of images, and the first image of a drive.   *)
LEMMA ImageFacts ==
    /\ \A d \in Drives : ImagesOf(d) \subseteq Images
    /\ None \notin Images
    /\ \A d, e \in Drives : \A i \in ImagesOf(d) : i \in ImagesOf(e) => d = e
    /\ \A d \in Drives : First(d) \in ImagesOf(d) \cup {None}
    /\ WriteFaults \in BOOLEAN /\ MaxRun \in Nat /\ MaxWrites \in Nat
<1>1. \A d \in Drives : ImagesOf(d) \subseteq Images
  BY DEF Images
<1>2. None \notin Images
  BY EntriesAssumption DEF Images
<1>3. \A d, e \in Drives : \A i \in ImagesOf(d) : i \in ImagesOf(e) => d = e
  BY EntriesAssumption
<1>4. ASSUME NEW d \in Drives PROVE First(d) \in ImagesOf(d) \cup {None}
  <2>1. Entries[d] \in Seq(ImagesOf(d))
    BY EntriesAssumption
  <2> QED BY <2>1 DEF First
<1> QED BY <1>1, <1>2, <1>3, <1>4, EntriesAssumption

(* Types without the sets of images in their definition.                    *)
LEMMA MountedFacts ==
    ASSUME NEW m \in Mounted, NEW d \in Drives
    PROVE  /\ m \in [Drives -> Images \cup {None}]
           /\ m[d] \in ImagesOf(d) \cup {None}
           /\ \A i \in ImagesOf(d) \cup {None} : [m EXCEPT ![d] = i] \in Mounted
<1> USE ImageFacts
<1>1. m \in [Drives -> Images \cup {None}] /\ \A e \in Drives : m[e] \in ImagesOf(e) \cup {None}
  BY DEF Mounted, Media
<1>2. ASSUME NEW i \in ImagesOf(d) \cup {None} PROVE [m EXCEPT ![d] = i] \in Mounted
  <2>1. i \in Images \cup {None}
    OBVIOUS
  <2> QED BY <1>1, <2>1 DEF Mounted, Media
<1> QED BY <1>1, <1>2

(* A floppy written back puts its contents into its own file, and no other  *)
(* file changes.                                                            *)
LEMMA FlushFacts ==
    ASSUME Types, NEW S \in SUBSET Unsaved
    PROVE  /\ Flushed(S) \in [Images -> Numbers]
           /\ \A e \in Floppies : media[e] # None =>
                 Flushed(S)[media[e]] = IF e \in S THEN memory[e] ELSE file[media[e]]
           /\ \A j \in Images : (\A e \in Floppies : media[e] # j) => Flushed(S)[j] = file[j]
<1> USE DEF Types
<1>0. S \subseteq Floppies /\ Floppies \subseteq Drives /\ \A e \in S : media[e] # None
  BY DEF Unsaved, Floppies, Drives
<1>1. \A e \in Drives : media[e] \in ImagesOf(e) \cup {None} /\ memory[e] \in Numbers
  BY MountedFacts
<1>2. \A e \in Drives : media[e] # None => media[e] \in Images
  BY <1>1, ImageFacts
<1>3. ASSUME NEW e \in S, NEW f \in S, media[e] = media[f] PROVE e = f
  BY <1>0, <1>1, <1>3, ImageFacts
<1>4. ASSUME NEW i \in Images
      PROVE  /\ Flushed(S)[i] \in Numbers
             /\ \A e \in S : media[e] = i => Flushed(S)[i] = memory[e]
             /\ (\A e \in S : media[e] # i) => Flushed(S)[i] = file[i]
  <2>1. CASE \E e \in S : media[e] = i
    <3>1. PICK e \in S : media[e] = i
      BY <2>1
    <3>2. (CHOOSE d \in S : media[d] = i) = e
      BY <1>3, <3>1
    <3>3. Flushed(S)[i] = memory[e]
      BY <2>1, <3>2 DEF Flushed
    <3> QED BY <1>0, <1>1, <1>3, <3>1, <3>3
  <2>2. CASE ~ \E e \in S : media[e] = i
    BY <2>2 DEF Flushed
  <2> QED BY <2>1, <2>2
<1>5. Flushed(S) \in [Images -> Numbers]
  <2>1. Flushed(S) = [i \in Images |-> Flushed(S)[i]]
    BY DEF Flushed
  <2> QED BY <1>4, <2>1
<1>6. ASSUME NEW e \in Floppies, media[e] # None
      PROVE  Flushed(S)[media[e]] = IF e \in S THEN memory[e] ELSE file[media[e]]
  <2>1. media[e] \in Images
    BY <1>0, <1>2, <1>6
  <2>2. CASE e \in S
    BY <1>4, <2>1, <2>2
  <2>3. CASE e \notin S
    <3>1. \A f \in S : media[f] # media[e]
      BY <1>0, <1>1, <1>6, <2>3, ImageFacts
    <3> QED BY <1>4, <2>1, <2>3, <3>1
  <2> QED BY <2>2, <2>3
<1>7. ASSUME NEW j \in Images, \A e \in Floppies : media[e] # j PROVE Flushed(S)[j] = file[j]
  BY <1>0, <1>4, <1>7
<1> QED BY <1>5, <1>6, <1>7

LEMMA WritableFacts ==
    ASSUME NEW S \in Writable, NEW d \in Drives
    PROVE  /\ S \in SUBSET Unsaved
           /\ \A f \in FlushedAtEject(d, S) :
                 \E T \in SUBSET Unsaved : S \subseteq T /\ f = Flushed(T)
<1>1. S \in SUBSET Unsaved
  BY DEF Writable
<1>2. ASSUME NEW f \in FlushedAtEject(d, S)
      PROVE  \E T \in SUBSET Unsaved : S \subseteq T /\ f = Flushed(T)
  <2>1. f = Flushed(S) \/ (d \in Unsaved /\ f = Flushed(S \cup {d}))
    BY <1>2 DEF FlushedAtEject
  <2>2. d \in Unsaved => S \cup {d} \in SUBSET Unsaved
    BY <1>1
  <2> QED BY <1>1, <2>1, <2>2
<1> QED BY <1>1, <1>2

(* What a flush means for the losses and for a drive that was saved.        *)
LEMMA FlushKeeps ==
    ASSUME Types, MachineInv, LossInv, NEW T \in SUBSET Unsaved
    PROVE  /\ \A i \in ImagesOf("cdrom") : Flushed(T)[i] = 0
           /\ ~flush_errors => \A j \in Images :
                 Flushed(T)[j] = written[j] \/ \E e \in Floppies : media[e] = j
           /\ ~flush_errors /\ T = Unsaved => \A j \in Images : Flushed(T)[j] = written[j]
           /\ \A e \in Drives : \A j \in ImagesOf(e) :
                 (media[e] = j => memory[e] = file[j]) => Flushed(T)[j] = file[j]
<1>0. Floppies \subseteq Drives /\ "cdrom" \in Drives /\ "cdrom" \notin Floppies
  BY DEF Floppies, Drives
<1>1. \A e \in Drives : media[e] \in ImagesOf(e) \cup {None}
  BY MountedFacts DEF Types
<1>2. \A e \in Drives, j \in Images : j \in ImagesOf(e) => \A f \in Drives : media[f] = j => f = e
  BY <1>1, ImageFacts
<1>3. \A i \in ImagesOf("cdrom") : Flushed(T)[i] = 0
  BY <1>0, <1>2, FlushFacts, ImageFacts DEF MachineInv
<1>4. ~flush_errors => \A j \in Images :
         Flushed(T)[j] = written[j] \/ \E e \in Floppies : media[e] = j
  BY FlushFacts DEF LossInv
<1>5. ASSUME ~flush_errors, T = Unsaved, NEW j \in Images PROVE Flushed(T)[j] = written[j]
  <2>1. CASE \E e \in Floppies : media[e] = j
    <3>1. PICK e \in Floppies : media[e] = j
      BY <2>1
    <3>2. media[e] # None /\ memory[e] = written[j]
      BY <1>5, <3>1, ImageFacts DEF LossInv
    <3>3. e \notin T => memory[e] = file[j]
      BY <1>5, <3>1, <3>2 DEF Unsaved
    <3> QED BY <3>1, <3>2, <3>3, FlushFacts
  <2> QED BY <1>4, <1>5, <2>1
<1>6. ASSUME NEW e \in Drives, NEW j \in ImagesOf(e), media[e] = j => memory[e] = file[j]
      PROVE  Flushed(T)[j] = file[j]
  <2>1. j \in Images /\ j # None /\ \A f \in Floppies : media[f] = j => f = e
    BY <1>0, <1>2, ImageFacts
  <2> QED BY <1>0, <1>6, <2>1, FlushFacts
<1> QED BY <1>3, <1>4, <1>5, <1>6

----------------------------------------------------------------------------
(* What all exchanges of a medium do: insert or eject i in drive d.         *)
LEMMA PutFacts ==
    ASSUME Types, MachineInv, LossInv, written' = written, ide_disk' = ide_disk, hdd' = hdd,
           NEW d \in Drives, NEW i \in ImagesOf(d) \cup {None}, Put(d, i)
    PROVE  /\ Types' /\ MachineInv' /\ LossInv'
           /\ media' = [media EXCEPT ![d] = i]
           /\ \A e \in Drives \ {d} : memory'[e] = memory[e]
           /\ rom' = (rom \/ (d = "cdrom" /\ i # None))
           /\ i # None /\ (media[d] = i => memory[d] = file[i]) => memory'[d] = file[i]
           /\ \A e \in Drives : \A j \in ImagesOf(e) :
                 (media[e] = j => memory[e] = file[j]) => file'[j] = file[j]
<1> USE ImageFacts
<1>0. Floppies \subseteq Drives /\ "cdrom" \in Drives /\ "cdrom" \notin Floppies
  BY DEF Floppies, Drives
<1>1. PICK S \in Writable :
         /\ FlushBeforeSwap(d, S)
         /\ file' \in FlushedAtEject(d, S)
         /\ media' = [media EXCEPT ![d] = i] /\ index' = [index EXCEPT ![d] = i]
         /\ memory' = [memory EXCEPT ![d] = IF i = None THEN 0 ELSE Flushed(S)[i]]
         /\ state' = Exchanged(d, i)
         /\ rom' = IF i = None THEN rom ELSE (rom \/ d = "cdrom")
  BY DEF Put, Eject, Select
<1>2. PICK T \in SUBSET Unsaved : S \subseteq T /\ file' = Flushed(T)
  BY <1>1, WritableFacts
<1>3. S \in SUBSET Unsaved
  BY WritableFacts
<1>4. /\ i # None => i \in Images /\ Flushed(S)[i] \in Numbers
      /\ Flushed(T) \in [Images -> Numbers]
      /\ 0 \in Numbers
  BY <1>3, FlushFacts DEF Numbers
<1>5. Types'
  <2>1. media' \in Mounted
    BY <1>1, MountedFacts DEF Types
  <2>2. state' \in States
    BY <1>1, MountedFacts DEF Types, States, Exchanged, Media
  <2>3. flush_errors' \in BOOLEAN
    BY <1>1 DEF FlushBeforeSwap, Types
  <2>4. memory' \in [Drives -> Numbers]
    BY <1>1, <1>4 DEF Types
  <2> QED BY <1>1, <1>2, <1>4, <2>1, <2>2, <2>3, <2>4 DEF Types
<1>6. MachineInv'
  <2>0. media \in [Drives -> Images \cup {None}]
    BY MountedFacts DEF Types
  <2>1. StateFitsMedia'
    BY <1>1 DEF MachineInv, StateFitsMedia, Exchanged, Types, States
  <2>2. media'["cdrom"] # None => rom'
    BY <1>0, <1>1, <2>0 DEF MachineInv, Types
  <2>3. \A e \in Drives : media'[e] = None => memory'[e] = 0
    BY <1>1, <2>0 DEF MachineInv, Types
  <2>4. \A j \in ImagesOf("cdrom") : Flushed(T)[j] = 0 /\ Flushed(S)[j] = 0
    BY <1>3, FlushKeeps
  <2>5. memory'["cdrom"] = 0
    BY <1>0, <1>1, <2>4 DEF MachineInv, Types
  <2> QED BY <1>2, <2>1, <2>2, <2>3, <2>4, <2>5 DEF MachineInv
<1>7. LossInv'
  <2> SUFFICES ASSUME ~flush_errors'
               PROVE  /\ \A e \in Floppies : media'[e] # None => memory'[e] = written[media'[e]]
                      /\ \A j \in Images : written[j] = file'[j] \/ \E e \in Floppies : media'[e] = j
    BY DEF LossInv
  <2>1. ~flush_errors /\ (d \in Floppies => S = Unsaved /\ T = Unsaved)
    BY <1>1, <1>2 DEF FlushBeforeSwap, Types
  <2>2. CASE d \in Floppies
    <3>1. \A j \in Images : Flushed(T)[j] = written[j] /\ Flushed(S)[j] = written[j]
      BY <2>1, <2>2, FlushKeeps
    <3> QED BY <1>0, <1>1, <1>2, <1>4, <2>1, <3>1, MountedFacts DEF LossInv, Types
  <2>3. CASE d \notin Floppies
    <3>1. \A e \in Floppies : media'[e] = media[e] /\ memory'[e] = memory[e]
      BY <1>0, <1>1, <2>3, MountedFacts DEF Types
    <3>2. \A j \in Images : Flushed(T)[j] = written[j] \/ \E e \in Floppies : media[e] = j
      BY <2>1, FlushKeeps
    <3> QED BY <1>2, <2>1, <3>1, <3>2 DEF LossInv
  <2> QED BY <2>2, <2>3
<1>8. \A e \in Drives : \A j \in ImagesOf(e) :
         (media[e] = j => memory[e] = file[j]) => file'[j] = file[j]
  BY <1>2, FlushKeeps
<1>9. i # None /\ (media[d] = i => memory[d] = file[i]) => memory'[d] = file[i]
  BY <1>1, <1>3, FlushKeeps DEF Types
<1>10. \A e \in Drives \ {d} : memory'[e] = memory[e]
  BY <1>1 DEF Types
<1>11. rom' = (rom \/ (d = "cdrom" /\ i # None))
  BY <1>1 DEF Types
<1> QED BY <1>1, <1>5, <1>6, <1>7, <1>8, <1>9, <1>10, <1>11

(* An image that cannot be read: the floppies are flushed and stay.         *)
LEMMA SelectFailsFacts ==
    ASSUME Types, MachineInv, LossInv, written' = written, ide_disk' = ide_disk, hdd' = hdd,
           NEW d \in Drives, SelectFails(d)
    PROVE  /\ Types' /\ MachineInv' /\ LossInv'
           /\ UNCHANGED <<media, memory, state, rom>>
           /\ \A e \in Drives : \A j \in ImagesOf(e) :
                 (media[e] = j => memory[e] = file[j]) => file'[j] = file[j]
<1>1. PICK S \in Writable : FlushBeforeSwap(d, S) /\ file' = Flushed(S)
                            /\ UNCHANGED <<media, index, memory, state, rom>>
  BY DEF SelectFails
<1>2. S \in SUBSET Unsaved
  BY WritableFacts
<1>3. Types'
  BY <1>1, <1>2, FlushFacts DEF Types, FlushBeforeSwap
<1>4. MachineInv'
  BY <1>1, <1>2, FlushKeeps DEF MachineInv, StateFitsMedia
<1>5. LossInv'
  BY <1>1, <1>2, FlushKeeps DEF LossInv, FlushBeforeSwap, Types
<1> QED BY <1>1, <1>2, <1>3, <1>4, <1>5, FlushKeeps

----------------------------------------------------------------------------
(* Between two loads nothing is compared.                                   *)
LEMMA NothingToCompare ==
    /\ outcome = NoOutcome => OutcomeInv
    /\ outcome' = NoOutcome => OutcomeInv'
  BY DEF OutcomeInv, NoOutcome, AllOrNothing, Undone, FailsOnlyByFault

LEMMA IdleKeeps ==
    ASSUME SessionInv, Idle, snapshot' = snapshot, Types', MachineInv', LossInv'
    PROVE  SessionInv'
<1>1. load' = NoLoad /\ outcome' = NoOutcome
  BY DEF SessionInv, LoadInv, Idle, Loads, NoLoad
<1>2. SnapshotInv'
  BY DEF SessionInv, SnapshotInv
<1> QED BY <1>1, <1>2, NothingToCompare DEF SessionInv, LoadInv

LEMMA SessionInit == Init => SessionInv
<1> SUFFICES ASSUME Init PROVE SessionInv
  OBVIOUS
<1> USE ImageFacts
<1>0. media \in [Drives -> Images \cup {None}]
      /\ \A d \in Drives : media[d] \in ImagesOf(d) \cup {None}
  BY DEF Init
<1>1. media \in Mounted
  BY <1>0 DEF Mounted, Media
<1>2. Types
  <2>1. rom \in BOOLEAN /\ ide_disk \in BOOLEAN /\ flush_errors \in BOOLEAN
    BY EntriesAssumption DEF Init
  <2>2. state \in States
    BY <1>0 DEF States, Media, Init
  <2>3. 0 \in Numbers
    BY DEF Numbers
  <2>4. /\ index = media /\ memory \in [Drives -> Numbers] /\ hdd \in 0 .. 1
        /\ file \in [Images -> Numbers] /\ written \in [Images -> Numbers]
    BY <2>3 DEF Init
  <2> QED BY <1>1, <2>1, <2>2, <2>4 DEF Types
<1>3. MachineInv
  BY DEF MachineInv, StateFitsMedia, Drives, Init
<1>4. LossInv
  BY <1>0 DEF LossInv, Floppies, Drives, Init
<1>5. SnapshotInv /\ LoadInv /\ OutcomeInv
  BY NothingToCompare DEF SnapshotInv, LoadInv, Init
<1> QED BY <1>2, <1>3, <1>4, <1>5 DEF SessionInv

LEMMA RunStep == SessionInv /\ Run /\ UNCHANGED ide_disk => SessionInv'
<1> SUFFICES ASSUME SessionInv, Run, UNCHANGED ide_disk PROVE SessionInv'
  OBVIOUS
<1>1. Types /\ MachineInv /\ LossInv
  BY DEF SessionInv
<1>2. state' \in States /\ state'.media = state.media
  <2>1. state.run \in 0 .. MaxRun /\ state.run < MaxRun /\ state \in States
    BY <1>1 DEF Run, Types, States
  <2>2. state.run + 1 \in 0 .. MaxRun
    BY <2>1, ImageFacts
  <2>3. state' = [state EXCEPT !.run = state.run + 1, !.changed = FALSE]
    BY DEF Run
  <2> QED BY <2>1, <2>2, <2>3 DEF States
<1>3. Types' /\ MachineInv' /\ LossInv'
  BY <1>1, <1>2 DEF Run, Types, MachineInv, StateFitsMedia, LossInv
<1> QED BY <1>3, IdleKeeps DEF Run

LEMMA RepartitionStep == SessionInv /\ Repartition /\ UNCHANGED ide_disk => SessionInv'
<1> SUFFICES ASSUME SessionInv, Repartition, UNCHANGED ide_disk PROVE SessionInv'
  OBVIOUS
<1>1. Types' /\ MachineInv' /\ LossInv'
  BY DEF SessionInv, Repartition, drives, Types, MachineInv, StateFitsMedia, LossInv
<1> QED BY <1>1, IdleKeeps DEF Repartition

LEMMA WriteFloppyStep ==
    ASSUME SessionInv, NEW d \in Floppies, WriteFloppy(d), UNCHANGED ide_disk
    PROVE  SessionInv'
<1>0. Types /\ MachineInv /\ LossInv /\ d \in Drives /\ d # "cdrom" /\ "cdrom" \in Drives
      /\ Floppies \subseteq Drives
  BY DEF SessionInv, Floppies, Drives
<1> DEFINE i == media[d]
<1>1. /\ i \in ImagesOf(d) /\ i \in Images /\ i # None
      /\ media \in [Drives -> Images \cup {None}]
      /\ \A e \in Drives : media[e] = i => e = d
  BY <1>0, MountedFacts, ImageFacts DEF WriteFloppy, Types
<1>2. written[i] + 1 \in Numbers
  BY <1>0, <1>1, ImageFacts DEF WriteFloppy, Types, Numbers
<1>3. /\ written' = [written EXCEPT ![i] = written[i] + 1]
      /\ memory' = [memory EXCEPT ![d] = written[i] + 1]
      /\ file' = [file EXCEPT ![i] = written[i] + 1] \/ file' = file
      /\ UNCHANGED <<media, index, state, rom, flush_errors, hdd, snapshot>>
  BY <1>0, <1>1 DEF WriteFloppy, Types
<1>4. Types'
  BY <1>0, <1>1, <1>2, <1>3 DEF Types
<1>5. i \notin ImagesOf("cdrom")
  BY <1>0, <1>1, ImageFacts
<1>6. MachineInv'
  BY <1>0, <1>1, <1>3, <1>5, ImageFacts DEF MachineInv, StateFitsMedia, Types
<1>7. LossInv'
  BY <1>0, <1>1, <1>2, <1>3 DEF LossInv, Types
<1> QED BY <1>3, <1>4, <1>6, <1>7, IdleKeeps DEF WriteFloppy

LEMMA UserExchangesStep ==
    ASSUME SessionInv, NEW d \in Drives, UserExchanges(d), UNCHANGED ide_disk
    PROVE  SessionInv'
<1>0. Types /\ MachineInv /\ LossInv
  BY DEF SessionInv
<1>1. Types' /\ MachineInv' /\ LossInv'
  BY <1>0, PutFacts, SelectFailsFacts DEF UserExchanges
<1> QED BY <1>1, IdleKeeps DEF UserExchanges

LEMMA HardResetStep == SessionInv /\ HardReset /\ UNCHANGED ide_disk => SessionInv'
<1> SUFFICES ASSUME SessionInv, HardReset, UNCHANGED ide_disk PROVE SessionInv'
  OBVIOUS
<1> USE ImageFacts
<1>0. Types /\ MachineInv /\ LossInv /\ Floppies \subseteq Drives /\ "cdrom" \in Drives
  BY DEF SessionInv, Floppies, Drives
<1>1. PICK S \in Writable :
         /\ flush_errors' = (flush_errors \/ S # Unsaved)
         /\ file' = Flushed(S)
         /\ \/ UNCHANGED <<media, index, memory, state, rom>>
            \/ \E failed \in SUBSET Drives :
                  LET inserted == [d \in Drives |-> IF d \in failed THEN None ELSE First(d)]
                  IN /\ media' = inserted
                     /\ index' = inserted
                     /\ memory' = [d \in Drives |-> IF inserted[d] = None THEN 0
                                                    ELSE Flushed(S)[inserted[d]]]
                     /\ state' = [run |-> 0, changed |-> FALSE, media |-> inserted]
                     /\ rom' = (ide_disk \/ inserted["cdrom"] # None)
  BY DEF HardReset
<1>2. S \in SUBSET Unsaved /\ Flushed(S) \in [Images -> Numbers]
      /\ \A j \in ImagesOf("cdrom") : Flushed(S)[j] = 0
  BY <1>0, WritableFacts, FlushFacts, FlushKeeps
<1>3. UNCHANGED <<written, hdd, snapshot>> /\ Idle
  BY DEF HardReset
<1>4. ~flush_errors' => /\ ~flush_errors
                        /\ \A j \in Images : file'[j] = written[j]
  BY <1>0, <1>1, <1>2, FlushKeeps DEF Types
<1>5. CASE UNCHANGED <<media, index, memory, state, rom>>
  <2>1. Types' /\ MachineInv'
    BY <1>0, <1>1, <1>2, <1>3, <1>5 DEF Types, MachineInv, StateFitsMedia
  <2>2. LossInv'
    BY <1>0, <1>3, <1>4, <1>5 DEF LossInv
  <2> QED BY <1>3, <2>1, <2>2, IdleKeeps
<1>6. CASE \E failed \in SUBSET Drives :
             LET inserted == [d \in Drives |-> IF d \in failed THEN None ELSE First(d)]
             IN /\ media' = inserted
                /\ index' = inserted
                /\ memory' = [d \in Drives |-> IF inserted[d] = None THEN 0
                                               ELSE Flushed(S)[inserted[d]]]
                /\ state' = [run |-> 0, changed |-> FALSE, media |-> inserted]
                /\ rom' = (ide_disk \/ inserted["cdrom"] # None)
  <2>1. /\ \A d \in Drives : media'[d] \in ImagesOf(d) \cup {None}
        /\ media' \in [Drives -> Images \cup {None}] /\ index' = media'
        /\ memory' = [d \in Drives |-> IF media'[d] = None THEN 0 ELSE file'[media'[d]]]
        /\ state' = [run |-> 0, changed |-> FALSE, media |-> media']
        /\ rom' = (ide_disk \/ media'["cdrom"] # None)
    BY <1>1, <1>6
  <2>2. media' \in Mounted
    BY <2>1 DEF Mounted, Media
  <2>3. memory' \in [Drives -> Numbers] /\ state' \in States /\ rom' \in BOOLEAN
    BY <1>0, <1>1, <1>2, <2>1 DEF Numbers, States, Media, Types
  <2>4. Types'
    BY <1>0, <1>1, <1>2, <1>3, <2>1, <2>2, <2>3 DEF Types
  <2>5. MachineInv'
    BY <1>0, <1>1, <1>2, <2>1 DEF MachineInv, StateFitsMedia
  <2>6. LossInv'
    BY <1>0, <1>3, <1>4, <2>1 DEF LossInv
  <2> QED BY <1>3, <2>4, <2>5, <2>6, IdleKeeps
<1> QED BY <1>1, <1>5, <1>6

LEMMA QuickSaveStep == SessionInv /\ QuickSave /\ UNCHANGED ide_disk => SessionInv'
<1> SUFFICES ASSUME SessionInv, QuickSave, UNCHANGED ide_disk PROVE SessionInv'
  OBVIOUS
<1>1. load' = NoLoad /\ outcome' = NoOutcome
  BY DEF SessionInv, LoadInv, QuickSave, Idle, Loads, NoLoad
<1>2. Types' /\ MachineInv' /\ LossInv'
  BY DEF SessionInv, QuickSave, drives, Types, MachineInv, StateFitsMedia, LossInv
<1>3. SnapshotInv'
  BY DEF SessionInv, QuickSave, Captured, SnapshotInv, Snapshots, Types, MachineInv, StateFitsMedia
<1> QED BY <1>1, <1>2, <1>3, NothingToCompare DEF SessionInv, LoadInv

----------------------------------------------------------------------------
(* A load whose media agree restores the state or leaves it.                *)
LEMMA LoadStateStep ==
    ASSUME SessionInv, snapshot # None, LoadState, UNCHANGED <<written, hdd, snapshot, ide_disk>>
    PROVE  SessionInv'
<1>0. Types /\ MachineInv /\ LossInv /\ SnapshotInv
  BY DEF SessionInv
<1>1. UNCHANGED <<media, index, memory, file, rom, flush_errors>> /\ load' = NoLoad
      /\ snapshot.media = media
  BY DEF LoadState, Ended, Fits
<1>2. state' = state \/ state' = snapshot.state
  BY DEF LoadState
<1>3. Types' /\ MachineInv' /\ LossInv' /\ SnapshotInv'
  <2>1. state' \in States /\ state'.media = media
    BY <1>0, <1>1, <1>2 DEF Types, MachineInv, StateFitsMedia, SnapshotInv, Snapshots
  <2> QED BY <1>0, <1>1, <2>1 DEF Types, MachineInv, StateFitsMedia, LossInv, SnapshotInv
<1>4. Before \in Befores
  BY <1>0 DEF Before, Befores, Types, Unsaved, Floppies, Drives
<1>5. OutcomeInv'
  <2>1. CASE Restorable(snapshot) /\ state' = snapshot.state /\ Ended("ok", {}, FALSE, Before)
    BY <1>0, <1>1, <1>4, <2>1
       DEF Ended, OutcomeInv, Outcomes, AllOrNothing, Undone, FailsOnlyByFault, Types
  <2>2. CASE ~Restorable(snapshot) /\ UNCHANGED state /\ Ended("failed", {}, FALSE, Before)
    <3>1. snapshot.rom # rom
      BY <2>2 DEF LoadState, Restorable
    <3> QED BY <1>0, <1>1, <1>4, <2>2, <3>1
            DEF Ended, OutcomeInv, Outcomes, AllOrNothing, Undone, FailsOnlyByFault, Types, Before
  <2>3. CASE UNCHANGED state /\ Ended("failed", {}, TRUE, Before)
    BY <1>0, <1>1, <1>4, <2>3
       DEF Ended, OutcomeInv, Outcomes, AllOrNothing, Undone, FailsOnlyByFault, Types, Before
  <2> QED BY <2>1, <2>2, <2>3 DEF LoadState
<1> QED BY <1>1, <1>3, <1>5 DEF SessionInv, LoadInv

Elements(list) == {list[k] : k \in 1 .. Len(list)}

LEMMA ElementsOfConcat ==
    ASSUME NEW D, NEW s \in Seq(D), NEW t \in Seq(D)
    PROVE  s \o t \in Seq(D) /\ Elements(s \o t) = Elements(s) \cup Elements(t)
<1>1. /\ s \o t \in Seq(D) /\ Len(s \o t) = Len(s) + Len(t)
      /\ Len(s) \in Nat /\ Len(t) \in Nat
      /\ \A k \in 1 .. Len(s) : (s \o t)[k] = s[k]
      /\ \A k \in 1 .. Len(t) : (s \o t)[Len(s) + k] = t[k]
  OBVIOUS
<1>2. \A k \in 1 .. Len(s \o t) : k \in 1 .. Len(s) \/ \E n \in 1 .. Len(t) : k = Len(s) + n
  <2> SUFFICES ASSUME NEW k \in 1 .. Len(s \o t), k \notin 1 .. Len(s)
               PROVE  \E n \in 1 .. Len(t) : k = Len(s) + n
    OBVIOUS
  <2> WITNESS k - Len(s) \in 1 .. Len(t)
  <2> QED BY <1>1
<1>3. \A k \in 1 .. Len(s) : k \in 1 .. Len(s \o t)
  BY <1>1
<1>4. \A k \in 1 .. Len(t) : Len(s) + k \in 1 .. Len(s \o t)
  BY <1>1
<1>5. \A x \in Elements(s \o t) : x \in Elements(s) \cup Elements(t)
  BY <1>1, <1>2 DEF Elements
<1>6. \A x \in Elements(s) \cup Elements(t) : x \in Elements(s \o t)
  BY <1>1, <1>3, <1>4 DEF Elements
<1> QED BY <1>1, <1>5, <1>6

(* The plan holds just the drives whose media differ.                       *)
LEMMA PlanFacts ==
    /\ Planned \in Seq(Drives)
    /\ Elements(Planned) = {d \in Drives : snapshot.media[d] # media[d]}
<1>1. \A d \in Drives : /\ ActionFor(d) \in Seq(Drives)
                        /\ Elements(ActionFor(d)) = IF snapshot.media[d] # media[d] THEN {d} ELSE {}
  <2> TAKE d \in Drives
  <2>1. <<d>> \in Seq(Drives) /\ Elements(<<d>>) = {d} /\ <<>> \in Seq(Drives) /\ Elements(<<>>) = {}
    BY DEF Elements
  <2> QED BY <2>1 DEF ActionFor
<1>2. "fdd1" \in Drives /\ "fdd2" \in Drives /\ "cdrom" \in Drives
  BY DEF Drives
<1>3. /\ Planned \in Seq(Drives)
      /\ Elements(Planned) = (Elements(ActionFor("fdd1")) \cup Elements(ActionFor("fdd2")))
                             \cup Elements(ActionFor("cdrom"))
  <2> DEFINE a == ActionFor("fdd1")
             b == ActionFor("fdd2")
             c == ActionFor("cdrom")
  <2>1. a \in Seq(Drives) /\ b \in Seq(Drives) /\ c \in Seq(Drives) /\ Planned = a \o b \o c
    BY <1>1, <1>2 DEF Planned
  <2> HIDE DEF a, b, c
  <2>2. a \o b \in Seq(Drives) /\ Elements(a \o b) = Elements(a) \cup Elements(b)
    BY <2>1, ElementsOfConcat
  <2> DEFINE ab == a \o b
  <2>3. ab \in Seq(Drives) /\ Elements(ab) = Elements(a) \cup Elements(b) /\ Planned = ab \o c
    BY <2>1, <2>2
  <2> HIDE DEF ab
  <2>4. ab \o c \in Seq(Drives) /\ Elements(ab \o c) = Elements(ab) \cup Elements(c)
    BY <2>1, <2>3, ElementsOfConcat
  <2> QED BY <2>3, <2>4 DEF a, b, c
<1> QED BY <1>1, <1>2, <1>3 DEF Drives

(* A load whose media differ is refused, or captures what it may have to    *)
(* put back and plans the exchange.                                         *)
LEMMA BeginExchangeStep ==
    ASSUME SessionInv, snapshot # None, load.pc = "none", BeginExchange,
           UNCHANGED <<written, hdd, snapshot, ide_disk>>
    PROVE  SessionInv'
<1>0. Types /\ MachineInv /\ LossInv /\ SnapshotInv
  BY DEF SessionInv
<1>1. UNCHANGED <<media, index, memory, file, state, rom, flush_errors>>
  BY DEF BeginExchange, drives
<1>2. Types' /\ MachineInv' /\ LossInv' /\ SnapshotInv'
  BY <1>0, <1>1 DEF Types, MachineInv, StateFitsMedia, LossInv, SnapshotInv
<1>3. Before \in Befores
  BY <1>0 DEF Before, Befores, Types, Unsaved, Floppies, Drives
<1>4. CASE Ended("failed", {}, TRUE, Before) \/ (snapshot.hdd # hdd /\ Ended("failed", {}, FALSE, Before))
  <2>1. PICK fault \in BOOLEAN :
           /\ fault \/ snapshot.hdd # hdd
           /\ outcome' = [result |-> "failed", errors |-> {}, faulted |-> fault, before |-> Before]
    BY <1>4 DEF Ended
  <2>2. outcome' \in Outcomes
    BY <1>3, <2>1 DEF Outcomes
  <2>3. AllOrNothing'
    BY <1>0, <1>1, <2>1 DEF AllOrNothing, Undone, Types, Before
  <2>4. FailsOnlyByFault'
    BY <2>1 DEF FailsOnlyByFault, Before
  <2> QED BY <1>2, <1>4, <2>2, <2>3, <2>4 DEF SessionInv, LoadInv, OutcomeInv, Ended
<1>5. CASE /\ snapshot.hdd = hdd
           /\ load' = [pc |-> "apply", todo |-> Planned,
                       slots |-> {Planned[k] : k \in 1 .. Len(Planned)},
                       previous |-> index, back |-> Captured,
                       errors |-> {}, faulted |-> FALSE, before |-> Before]
           /\ outcome' = NoOutcome
  <2>1. load'.slots = {d \in Drives : snapshot.media[d] # media[d]} /\ load'.todo \in Seq(Drives)
        /\ load'.slots = {load'.todo[k] : k \in 1 .. Len(load'.todo)}
    BY <1>5, PlanFacts DEF Elements
  <2>2. Captured \in Snapshots
    BY <1>0 DEF Captured, Snapshots, Types
  <2>3. load' \in Loads
    BY <1>0, <1>3, <1>5, <2>1, <2>2 DEF Loads, Types
  <2>4. BeganInv'
    BY <1>0, <1>1, <1>5, <2>1
       DEF BeganInv, Captured, Before, Types, MachineInv, StateFitsMedia
  <2>5. ContentsInv'
    <3>1. load'.before = [media |-> media, memory |-> memory, unsaved |-> Unsaved, state |-> state,
                          hdd |-> hdd, rom |-> rom]
      BY <1>5 DEF Before
    <3>2. \A d \in Drives : d \notin Unsaved /\ media[d] # None => memory[d] = file[media[d]]
      <4>1. \A d \in Drives : d \in Floppies \/ d = "cdrom"
        BY DEF Floppies, Drives
      <4>2. media["cdrom"] # None => media["cdrom"] \in ImagesOf("cdrom")
        BY <1>0, MountedFacts DEF Types, Drives
      <4> QED BY <1>0, <4>1, <4>2 DEF Unsaved, MachineInv
    <3> QED BY <1>1, <3>1, <3>2 DEF ContentsInv
  <2>6. PlanInv'
    BY <1>1, <1>5, <2>1 DEF PlanInv, Before
  <2> QED BY <1>2, <1>5, <2>3, <2>4, <2>5, <2>6, NothingToCompare DEF SessionInv, LoadInv
<1> QED BY <1>4, <1>5 DEF BeginExchange

LEMMA QuickLoadStep == SessionInv /\ QuickLoad /\ UNCHANGED ide_disk => SessionInv'
  BY LoadStateStep, BeginExchangeStep DEF QuickLoad

----------------------------------------------------------------------------
(* An exchange of a planned drive, in either direction, keeps what the load *)
(* has to compare with.                                                     *)
LEMMA ExchangeKeepsContents ==
    ASSUME Types, MachineInv, LossInv, load \in Loads, BeganInv, ContentsInv,
           UNCHANGED <<written, hdd, snapshot, ide_disk>>,
           NEW d \in load.slots, NEW i \in ImagesOf(d) \cup {None}, Put(d, i),
           load'.slots = load.slots, load'.before = load.before
    PROVE  ContentsInv'
<1>0. d \in Drives /\ load.slots \subseteq Drives /\ load.before \in Befores
  BY DEF Loads
<1>1. /\ media' = [media EXCEPT ![d] = i] /\ media \in [Drives -> Images \cup {None}]
      /\ \A e \in Drives \ {d} : memory'[e] = memory[e] /\ media'[e] = media[e]
      /\ media'[d] = i /\ (i = None => memory'[d] = 0)
      /\ i # None /\ (media[d] = i => memory[d] = file[i]) => memory'[d] = file[i]
      /\ \A e \in Drives : \A j \in ImagesOf(e) :
            (media[e] = j => memory[e] = file[j]) => file'[j] = file[j]
  BY <1>0, PutFacts, MountedFacts DEF Types, MachineInv
<1>2. ASSUME NEW e \in Drives, e \notin load.slots
      PROVE  media'[e] = load.before.media[e] /\ memory'[e] = load.before.memory[e]
  BY <1>1, <1>2 DEF ContentsInv
<1>3. ASSUME NEW e \in load.slots, e \notin load.before.unsaved
      PROVE  /\ load.before.media[e] # None
                    => file'[load.before.media[e]] = load.before.memory[e]
             /\ media'[e] = load.before.media[e] => memory'[e] = load.before.memory[e]
  <2> DEFINE m == load.before.media[e]
  <2>1. m \in ImagesOf(e) \cup {None}
    BY <1>0, MountedFacts DEF Befores
  <2>2. /\ m # None => file[m] = load.before.memory[e]
        /\ media[e] = m => memory[e] = load.before.memory[e]
    BY <1>0, <1>3 DEF ContentsInv
  <2>3. m # None => file'[m] = file[m]
    BY <1>0, <1>1, <2>1, <2>2
  <2>4. m = None => load.before.memory[e] = 0
    BY <1>0 DEF BeganInv
  <2>5. media'[e] = m => memory'[e] = load.before.memory[e]
    <3>1. CASE e = d
      BY <1>1, <2>2, <2>4, <3>1
    <3>2. CASE e # d
      BY <1>0, <1>1, <2>2, <3>2
    <3> QED BY <3>1, <3>2
  <2> QED BY <2>2, <2>3, <2>5
<1> QED BY <1>2, <1>3 DEF ContentsInv

LEMMA FailureKeepsContents ==
    ASSUME Types, MachineInv, LossInv, load \in Loads, BeganInv, ContentsInv,
           UNCHANGED <<written, hdd, snapshot, ide_disk>>,
           NEW d \in Drives, SelectFails(d),
           load'.slots = load.slots, load'.before = load.before
    PROVE  ContentsInv'
<1>0. load.slots \subseteq Drives /\ load.before \in Befores
  BY DEF Loads
<1>1. /\ UNCHANGED <<media, memory>>
      /\ \A e \in Drives : \A j \in ImagesOf(e) :
            (media[e] = j => memory[e] = file[j]) => file'[j] = file[j]
  BY SelectFailsFacts
<1>2. ASSUME NEW e \in load.slots, e \notin load.before.unsaved, load.before.media[e] # None
      PROVE  file'[load.before.media[e]] = load.before.memory[e]
  <2>1. load.before.media[e] \in ImagesOf(e)
    BY <1>0, <1>2, MountedFacts DEF Befores
  <2> QED BY <1>0, <1>1, <1>2, <2>1 DEF ContentsInv
<1> QED BY <1>1, <1>2 DEF ContentsInv

(* While a load runs; what is left to show is its own state.                *)
LEMMA LoadKeeps ==
    ASSUME SessionInv, Types', MachineInv', LossInv', UNCHANGED <<snapshot, outcome>>,
           load.pc # "none", load' \in Loads, BeganInv', ContentsInv', PlanInv'
    PROVE  SessionInv'
<1>1. outcome' = NoOutcome /\ snapshot' # None
  BY DEF SessionInv, LoadInv, NoLoad
<1>2. SnapshotInv'
  BY DEF SessionInv, SnapshotInv
<1> QED BY <1>1, <1>2, NothingToCompare DEF SessionInv, LoadInv

(* The updates of the record of a load.                                     *)
LEMMA RecordUpdates ==
    ASSUME load \in Loads, NEW todo \in Seq(Drives), NEW fault \in BOOLEAN
    PROVE  /\ [load EXCEPT !.todo = todo] \in Loads /\ [load EXCEPT !.todo = todo].todo = todo
           /\ Order \in Seq(Drives)
           /\ [load EXCEPT !.pc = "undo", !.todo = todo, !.faulted = fault] \in Loads
           /\ [load EXCEPT !.todo = todo, !.errors = @ \cup {"media"}] \in Loads
           /\ load.todo \in Seq(Drives) /\ (load.todo # <<>> => Tail(load.todo) \in Seq(Drives))
<1>1. Order \in Seq(Drives)
  BY DEF Order, Drives
<1>2. load.todo \in Seq(Drives) /\ (load.todo # <<>> => Tail(load.todo) \in Seq(Drives))
  BY DEF Loads
<1>3. [load EXCEPT !.todo = todo] \in Loads /\ [load EXCEPT !.todo = todo].todo = todo
  BY DEF Loads
<1>4. [load EXCEPT !.pc = "undo", !.todo = todo, !.faulted = fault] \in Loads
  BY DEF Loads
<1>5. load.errors \cup {"media"} \in SUBSET {"media"}
  BY DEF Loads
<1>6. [load EXCEPT !.todo = todo, !.errors = @ \cup {"media"}] \in Loads
  BY <1>5 DEF Loads
<1> QED BY <1>1, <1>2, <1>3, <1>4, <1>6

LEMMA ApplyMediaStep == SessionInv /\ ApplyMedia /\ UNCHANGED ide_disk => SessionInv'
<1> SUFFICES ASSUME SessionInv, ApplyMedia, UNCHANGED ide_disk PROVE SessionInv'
  OBVIOUS
<1> DEFINE d == Head(load.todo)
<1>0. /\ Types /\ MachineInv /\ LossInv /\ SnapshotInv /\ load \in Loads
      /\ BeganInv /\ ContentsInv /\ PlanInv /\ snapshot # None
      /\ load.pc = "apply" /\ load.todo # <<>>
      /\ UNCHANGED <<written, hdd, snapshot, outcome, ide_disk>>
  BY DEF SessionInv, LoadInv, ApplyMedia, NoLoad
<1>1. load.todo \in Seq(Drives) /\ d = load.todo[1] /\ d \in load.slots /\ d \in Drives
  BY <1>0 DEF Loads, PlanInv
<1>2. snapshot.media[d] \in ImagesOf(d) \cup {None}
  BY <1>0, <1>1, MountedFacts DEF SnapshotInv, Snapshots
<1>3. CASE Put(d, snapshot.media[d]) /\ load' = [load EXCEPT !.todo = Tail(@)]
  <2>1. load' \in Loads /\ load'.todo = Tail(load.todo)
    BY <1>0, <1>1, <1>3, RecordUpdates
  <2>2. load'.slots = load.slots /\ load'.before = load.before /\ load'.pc = "apply"
        /\ load'.previous = load.previous /\ load'.back = load.back
    BY <1>0, <1>3 DEF Loads
  <2>3. Types' /\ MachineInv' /\ LossInv' /\ media' = [media EXCEPT ![d] = snapshot.media[d]]
        /\ rom' = (rom \/ (d = "cdrom" /\ snapshot.media[d] # None))
    BY <1>0, <1>1, <1>2, <1>3, PutFacts
  <2>4. ContentsInv'
    BY <1>0, <1>1, <1>2, <1>3, <2>2, ExchangeKeepsContents
  <2>5. BeganInv'
    BY <1>0, <2>2 DEF BeganInv
  <2>6. PlanInv'
    <3>1. \A k \in 1 .. Len(load'.todo) : load'.todo[k] \in load'.slots
      BY <1>0, <1>1, <2>1, <2>2 DEF PlanInv
    <3>2. ASSUME NEW e \in Drives
          PROVE  media'[e] = snapshot.media[e] \/ \E k \in 1 .. Len(load'.todo) : load'.todo[k] = e
      <4>1. CASE e = d \/ media[e] = snapshot.media[e]
        BY <1>0, <1>1, <2>3, <4>1, MountedFacts DEF Types
      <4>2. CASE e # d /\ media[e] # snapshot.media[e]
        <5>1. PICK k \in 1 .. Len(load.todo) : load.todo[k] = e
          BY <1>0, <4>2 DEF PlanInv
        <5>2. k # 1 /\ k - 1 \in 1 .. Len(Tail(load.todo)) /\ Tail(load.todo)[k - 1] = e
          BY <1>1, <4>2, <5>1
        <5> QED BY <2>1, <5>2
      <4> QED BY <4>1, <4>2
    <3>3. rom' \in {load.before.rom, snapshot.rom}
      <4>1. rom \in BOOLEAN /\ rom \in {load.before.rom, snapshot.rom}
        BY <1>0 DEF PlanInv, Types
      <4>2. d = "cdrom" /\ snapshot.media[d] # None => snapshot.rom = TRUE
        BY <1>0 DEF SnapshotInv, Snapshots
      <4> QED BY <2>3, <4>1, <4>2
    <3> QED BY <1>0, <2>2, <3>1, <3>2, <3>3 DEF PlanInv
  <2> QED BY <1>0, <2>1, <2>3, <2>4, <2>5, <2>6, LoadKeeps
<1>4. CASE SelectFails(d) /\ RollBack(TRUE)
  <2>1. load' \in Loads /\ load'.slots = load.slots /\ load'.before = load.before
        /\ load'.pc = "undo" /\ load'.faulted = TRUE
        /\ load'.previous = load.previous /\ load'.back = load.back
    BY <1>0, <1>4, RecordUpdates DEF RollBack, Loads
  <2>2. Types' /\ MachineInv' /\ LossInv'
    BY <1>0, <1>1, <1>4, SelectFailsFacts
  <2>3. ContentsInv'
    BY <1>0, <1>1, <1>4, <2>1, FailureKeepsContents
  <2>4. BeganInv' /\ PlanInv'
    BY <1>0, <2>1 DEF BeganInv, PlanInv
  <2> QED BY <1>0, <2>1, <2>2, <2>3, <2>4, LoadKeeps
<1> QED BY <1>3, <1>4 DEF ApplyMedia

LEMMA ApplyStateStep == SessionInv /\ ApplyState /\ UNCHANGED ide_disk => SessionInv'
<1> SUFFICES ASSUME SessionInv, ApplyState, UNCHANGED ide_disk PROVE SessionInv'
  OBVIOUS
<1>0. /\ Types /\ MachineInv /\ LossInv /\ SnapshotInv /\ load \in Loads
      /\ BeganInv /\ ContentsInv /\ PlanInv /\ snapshot # None
      /\ load.pc = "apply" /\ load.todo = <<>>
      /\ UNCHANGED <<media, index, memory, file, rom, flush_errors, written, hdd, snapshot, ide_disk>>
  BY DEF SessionInv, LoadInv, ApplyState, NoLoad
<1>1. media = snapshot.media
  <2>1. media \in [Drives -> Images \cup {None}] /\ snapshot.media \in [Drives -> Images \cup {None}]
    BY <1>0, MountedFacts DEF Types, SnapshotInv, Snapshots, Drives
  <2>2. \A d \in Drives : media[d] = snapshot.media[d]
    BY <1>0 DEF PlanInv
  <2> QED BY <2>1, <2>2
<1>2. CASE /\ Restorable(snapshot) /\ state' = snapshot.state
           /\ Ended("ok", {}, FALSE, load.before)
  <2>1. Types' /\ MachineInv' /\ LossInv' /\ SnapshotInv'
    BY <1>0, <1>1, <1>2
       DEF Types, MachineInv, StateFitsMedia, LossInv, SnapshotInv, Snapshots
  <2>2. outcome' \in Outcomes /\ outcome'.result = "ok"
    BY <1>0, <1>2 DEF Ended, Outcomes, Loads
  <2>3. OutcomeInv'
    BY <1>0, <1>1, <1>2, <2>2 DEF OutcomeInv, AllOrNothing, Undone, FailsOnlyByFault, Types
  <2> QED BY <1>2, <2>1, <2>3 DEF SessionInv, LoadInv, Ended
<1>3. ASSUME NEW fault \in BOOLEAN, fault \/ ~Restorable(snapshot),
             RollBack(fault), UNCHANGED <<state, outcome>>
      PROVE  SessionInv'
  <2>1. fault \/ snapshot.rom # load.before.rom
    BY <1>0, <1>1, <1>3 DEF Restorable, Fits, BeganInv, PlanInv
  <2>2. load' \in Loads /\ load'.slots = load.slots /\ load'.before = load.before
        /\ load'.pc = "undo" /\ load'.faulted = fault
        /\ load'.previous = load.previous /\ load'.back = load.back
    BY <1>0, <1>3, RecordUpdates DEF RollBack, Loads
  <2>3. Types' /\ MachineInv' /\ LossInv'
    BY <1>0, <1>3 DEF Types, MachineInv, StateFitsMedia, LossInv
  <2>4. BeganInv' /\ ContentsInv' /\ PlanInv'
    BY <1>0, <2>1, <2>2 DEF BeganInv, ContentsInv, PlanInv
  <2> QED BY <1>0, <1>3, <2>2, <2>3, <2>4, LoadKeeps
<1> QED BY <1>2, <1>3 DEF ApplyState

LEMMA UndoMediaStep == SessionInv /\ UndoMedia /\ UNCHANGED ide_disk => SessionInv'
<1> SUFFICES ASSUME SessionInv, UndoMedia, UNCHANGED ide_disk PROVE SessionInv'
  OBVIOUS
<1> DEFINE d == Head(load.todo)
<1>0. /\ Types /\ MachineInv /\ LossInv /\ SnapshotInv /\ load \in Loads
      /\ BeganInv /\ ContentsInv /\ PlanInv /\ snapshot # None
      /\ load.pc = "undo" /\ load.todo # <<>>
      /\ UNCHANGED <<written, hdd, snapshot, outcome, ide_disk>>
  BY DEF SessionInv, LoadInv, UndoMedia, NoLoad
<1>1. load.todo \in Seq(Drives) /\ Tail(load.todo) \in Seq(Drives) /\ d \in Drives
      /\ <<>> \in Seq(Drives)
  <2>1. load.todo \in Seq(Drives)
    BY <1>0 DEF Loads
  <2> QED BY <1>0, <2>1
<1>2. load.previous[d] \in ImagesOf(d) \cup {None}
  BY <1>0, <1>1, MountedFacts DEF Loads
<1>3. ToPutBack(d) => d \in load.slots
  <2>1. index[d] = media[d] /\ load.previous[d] = load.before.media[d]
    BY <1>0 DEF Types, BeganInv
  <2>2. d \notin load.slots => media[d] = load.before.media[d]
    BY <1>0, <1>1 DEF ContentsInv
  <2> QED BY <2>1, <2>2 DEF ToPutBack
<1>4. ASSUME \/ load' = [load EXCEPT !.todo = Tail(load.todo)]
             \/ load' = [load EXCEPT !.todo = <<>>, !.errors = @ \cup {"media"}]
      PROVE  /\ load' \in Loads /\ BeganInv' /\ PlanInv'
             /\ load'.slots = load.slots /\ load'.before = load.before
  <2>1. load' \in Loads
    BY <1>0, <1>1, <1>4, RecordUpdates
  <2>2. load'.slots = load.slots /\ load'.before = load.before
        /\ load'.pc = "undo" /\ load'.faulted = load.faulted
        /\ load'.previous = load.previous /\ load'.back = load.back
    BY <1>0, <1>4 DEF Loads
  <2> QED BY <1>0, <2>1, <2>2 DEF BeganInv, PlanInv
<1>5. CASE load' = [load EXCEPT !.todo = Tail(@)] /\ UNCHANGED drives
  <2>1. Types' /\ MachineInv' /\ LossInv'
    BY <1>0, <1>5 DEF drives, Types, MachineInv, StateFitsMedia, LossInv
  <2>2. ContentsInv'
    BY <1>0, <1>4, <1>5 DEF drives, ContentsInv
  <2> QED BY <1>0, <1>4, <1>5, <2>1, <2>2, LoadKeeps
<1>6. CASE ToPutBack(d) /\ Put(d, load.previous[d]) /\ load' = [load EXCEPT !.todo = Tail(@)]
  <2>1. Types' /\ MachineInv' /\ LossInv'
    BY <1>0, <1>1, <1>2, <1>6, PutFacts
  <2>2. ContentsInv'
    BY <1>0, <1>2, <1>3, <1>4, <1>6, ExchangeKeepsContents
  <2> QED BY <1>0, <1>4, <1>6, <2>1, <2>2, LoadKeeps
<1>7. CASE SelectFails(d) /\ load' = [load EXCEPT !.todo = <<>>, !.errors = @ \cup {"media"}]
  <2>1. Types' /\ MachineInv' /\ LossInv'
    BY <1>0, <1>1, <1>7, SelectFailsFacts
  <2>2. ContentsInv'
    BY <1>0, <1>1, <1>4, <1>7, FailureKeepsContents
  <2> QED BY <1>0, <1>4, <1>7, <2>1, <2>2, LoadKeeps
<1> QED BY <1>5, <1>6, <1>7 DEF UndoMedia

LEMMA UndoStateStep == SessionInv /\ UndoState /\ UNCHANGED ide_disk => SessionInv'
<1> SUFFICES ASSUME SessionInv, UndoState, UNCHANGED ide_disk PROVE SessionInv'
  OBVIOUS
<1>0. /\ Types /\ MachineInv /\ LossInv /\ SnapshotInv /\ load \in Loads
      /\ BeganInv /\ ContentsInv /\ PlanInv /\ load.pc = "undo"
      /\ UNCHANGED <<media, index, memory, file, rom, flush_errors, written, hdd, snapshot, ide_disk>>
  BY DEF SessionInv, LoadInv, UndoState, NoLoad
<1>1. /\ load.errors \in SUBSET {"media"} /\ load.faulted \in BOOLEAN /\ load.before \in Befores
      /\ load.back = [state |-> load.before.state, rom |-> load.before.rom,
                      media |-> load.before.media, hdd |-> load.before.hdd]
      /\ load.before.state.media = load.before.media /\ load.before.state \in States
  BY <1>0 DEF Loads, BeganInv, Befores
<1>2. load.faulted \/ snapshot.rom # load.before.rom
  BY <1>0 DEF PlanInv
<1>3. CASE /\ Restorable(load.back) /\ state' = load.back.state
           /\ Ended("failed", load.errors, load.faulted, load.before)
  <2>1. media = load.before.media /\ state' = load.before.state
    BY <1>1, <1>3 DEF Restorable, Fits
  <2>2. Types' /\ MachineInv' /\ LossInv' /\ SnapshotInv'
    BY <1>0, <1>1, <2>1 DEF Types, MachineInv, StateFitsMedia, LossInv, SnapshotInv
  <2>3. outcome' \in Outcomes /\ outcome'.result = "failed" /\ outcome'.before = load.before
        /\ outcome'.faulted = load.faulted
    BY <1>1, <1>3 DEF Ended, Outcomes
  <2>4. \A d \in Drives :
           \/ memory[d] = load.before.memory[d]
           \/ d \in load.before.unsaved /\ snapshot.media[d] # load.before.media[d]
    BY <1>0, <2>1 DEF ContentsInv, BeganInv
  <2>5. AllOrNothing'
    BY <1>0, <2>1, <2>3, <2>4 DEF AllOrNothing, Types
  <2>6. FailsOnlyByFault'
    BY <1>0, <1>2, <2>3 DEF FailsOnlyByFault
  <2> QED BY <1>3, <2>2, <2>3, <2>5, <2>6 DEF SessionInv, LoadInv, OutcomeInv, Ended
<1>4. CASE /\ UNCHANGED state
           /\ Ended("failed", load.errors \cup {"state"}, load.faulted, load.before)
  <2>1. Types' /\ MachineInv' /\ LossInv' /\ SnapshotInv'
    BY <1>0, <1>4 DEF Types, MachineInv, StateFitsMedia, LossInv, SnapshotInv
  <2>2. outcome' \in Outcomes /\ outcome'.result = "failed" /\ outcome'.before = load.before
        /\ outcome'.faulted = load.faulted /\ outcome'.errors # {}
    BY <1>1, <1>4 DEF Ended, Outcomes
  <2>3. AllOrNothing' /\ FailsOnlyByFault'
    BY <1>0, <1>2, <2>2 DEF AllOrNothing, Undone, FailsOnlyByFault
  <2> QED BY <1>4, <2>1, <2>2, <2>3 DEF SessionInv, LoadInv, OutcomeInv, Ended
<1> QED BY <1>3, <1>4 DEF UndoState

LEMMA SessionStep == SessionInv /\ [Next]_vars => SessionInv'
<1> SUFFICES ASSUME SessionInv, [Next]_vars PROVE SessionInv'
  OBVIOUS
<1>1. CASE UNCHANGED vars
  BY <1>1 DEF vars, drives, SessionInv, Types, MachineInv, StateFitsMedia, LossInv, SnapshotInv,
              LoadInv, BeganInv, ContentsInv, PlanInv, OutcomeInv, AllOrNothing, Undone,
              FailsOnlyByFault
<1>2. CASE Guest /\ UNCHANGED ide_disk
  BY <1>2, RunStep, RepartitionStep, WriteFloppyStep DEF Guest
<1>3. CASE User /\ UNCHANGED ide_disk
  BY <1>3, HardResetStep, QuickSaveStep, QuickLoadStep, UserExchangesStep DEF User
<1>4. CASE Load /\ UNCHANGED ide_disk
  BY <1>4, ApplyMediaStep, ApplyStateStep, UndoMediaStep, UndoStateStep DEF Load
<1> QED BY <1>1, <1>2, <1>3, <1>4 DEF Next

----------------------------------------------------------------------------
(* restore_state and the media dialogs never leave the machine running with *)
(* media its state does not know of, also in the middle of a load.          *)
THEOREM StateAlwaysFitsMedia == Spec => []StateFitsMedia
<1>1. SessionInv => StateFitsMedia
  BY DEF SessionInv, MachineInv
<1> QED BY <1>1, SessionInit, SessionStep, PTL DEF Spec

(* apply_media_and_state_transactionally: a quick load that succeeds did    *)
(* all of it; one that fails without an error of its rollback did nothing,  *)
(* but for contents that could not be written before.                       *)
THEOREM LoadsAllOrNothing == Spec => []AllOrNothing
<1>1. SessionInv => AllOrNothing
  BY DEF SessionInv, OutcomeInv
<1> QED BY <1>1, SessionInit, SessionStep, PTL DEF Spec

(* A quick load never plans an exchange that leaves the media other than    *)
(* the snapshot's, so only a fault, another hard disk or the expansion ROM  *)
(* makes it fail.                                                           *)
THEOREM LoadsFailForAReason == Spec => []FailsOnlyByFault
<1>1. SessionInv => FailsOnlyByFault
  BY DEF SessionInv, OutcomeInv
<1> QED BY <1>1, SessionInit, SessionStep, PTL DEF Spec

(* flush_floppies_before_swap, the media dialogs, hard resets and loads     *)
(* lose no write of the guest without earlier_flush_errors telling.         *)
THEOREM NoSilentLoss == Spec => []LossIsReported
<1>1. SessionInv => LossIsReported
  <2> SUFFICES ASSUME SessionInv, NEW i \in Images, ~flush_errors
               PROVE  written[i] = file[i] \/ \E d \in Floppies : media[d] = i /\ memory[d] = written[i]
    BY DEF LossIsReported
  <2> QED BY ImageFacts DEF SessionInv, LossInv
<1> QED BY <1>1, SessionInit, SessionStep, PTL DEF Spec
=============================================================================
