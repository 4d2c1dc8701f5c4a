--------------------------- MODULE MachineRestore ---------------------------
(***************************************************************************)
(* Saving and restoring a PC-98 with an MT-32 and an SC-55                 *)
(* (crates/machine_98/src/machine.rs and bus.rs,                           *)
(* crates/save_state/src/lib.rs).                                          *)
(*                                                                         *)
(* A restore first captures the live machine as its rollback, then applies *)
(* the candidate: the CPU, the checks, a prepare in both sound actors, the *)
(* devices that validate their state one after the other, the plain        *)
(* fields, a commit in both actors.  If that fails anywhere, the rollback  *)
(* is applied in the same way.                                             *)
(*                                                                         *)
(* The state of every part is named by the instant it belongs to, so a     *)
(* torn machine is one whose parts name different snapshots.  All of this  *)
(* runs on the machine thread; what may go wrong is a part that refuses    *)
(* the candidate, a sound actor that dies or answers late, and a host file *)
(* that a running COPY of the guest can no longer open.                    *)
(***************************************************************************)
EXTENDS ActorCalls, Naturals

CONSTANTS
    DeviceCount, \* the devices whose restore_state may fail
    MaxInstant,  \* bound: instants that the machine runs through
    MaxLate,     \* bound: answers that come late
    Panics,      \* may a worker thread panic?
    HostFaults   \* may the host source of a running COPY be gone?

ASSUME BoundAssumption ==
    /\ DeviceCount \in Nat /\ MaxInstant \in Nat /\ MaxLate \in Nat
    /\ Instant = 0 .. MaxInstant
    /\ None \notin Instant

ASSUME FaultAssumption == Panics \in BOOLEAN /\ HostFaults \in BOOLEAN

Modules == {"mt32", "sc55"}
Devices == 1 .. DeviceCount

(* Pc98RuntimeState: the CPU, the devices, the plain fields of the bus and *)
(* the captured actors.                                                    *)
Root == [cpu : Instant, device : [Devices -> Instant], fields : Instant,
         actor : [Modules -> [worker : Instant, audio : Instant]]]

RootAt(i) == [cpu |-> i, device |-> [d \in Devices |-> i], fields |-> i,
              actor |-> [m \in Modules |-> [worker |-> i, audio |-> i]]]

VARIABLES
    now,      \* the last instant
    cpu, device, fields,
    actor,    \* the handles of the two sound actors
    lates,    \* how many answers came late
    gone,     \* the host source of a running COPY was gone, a history
    slot,     \* runtime_snapshot: the blob of the last save, or None
    pc,       \* what the machine thread does
    next,     \* the module it is at
    dev,      \* the device it is at
    phase,    \* "save", "rollback", "apply" or "undo"
    root,     \* the root being captured or applied
    rollback, \* the root captured for the rollback
    outcome,  \* how the last restore ended
    before    \* the machine when the last restore began

plain   == <<cpu, device, fields>>
control == <<pc, next, dev, phase, root, rollback, outcome, before, gone>>
vars    == <<now, plain, actor, lates, slot, control>>

Init ==
    /\ now = 0 /\ cpu = 0 /\ device = [d \in Devices |-> 0] /\ fields = 0
    /\ actor = [m \in Modules |-> StartedActor(0)] /\ lates = 0
    /\ slot = None /\ pc = "run" /\ next = "mt32" /\ dev = 1 /\ phase = "save"
    /\ root = RootAt(0) /\ rollback = RootAt(0) /\ outcome = "none" /\ before = RootAt(0)
    /\ gone = FALSE

(* The machine as it is, with a chunk on its way counted as arrived. *)
Live == [cpu |-> cpu, device |-> device, fields |-> fields,
         actor |-> [m \in Modules |->
                      [worker |-> actor[m].worker,
                       audio  |-> IF actor[m].pending THEN actor[m].worker
                                                      ELSE actor[m].audio]]]

(* One call of an actor, with the outcome o. *)
MayBeLate == lates < MaxLate
Called(m, o) ==
    /\ actor' = [actor EXCEPT ![m] = o.actor]
    /\ lates' = lates + (IF o.late THEN 1 ELSE 0)

-----------------------------------------------------------------------------
(* The machine runs.                                                       *)

Emulate ==
    /\ pc = "run" /\ now < MaxInstant
    /\ now' = now + 1
    /\ cpu' = now + 1 /\ device' = [d \in Devices |-> now + 1] /\ fields' = now + 1
    /\ UNCHANGED <<actor, lates, slot, control>>

(* generate_audio_samples hands the MIDI data to each module. *)
GenerateAudio(m) ==
    /\ pc = "run" /\ now < MaxInstant
    /\ now' = now + 1
    /\ \E o \in Exchange(actor[m], MayBeLate, now + 1) : Called(m, o)
    /\ UNCHANGED <<plain, slot, control>>

WorkerPanics(m) ==
    /\ Panics /\ actor[m].alive
    /\ \E a \in Died(actor[m]) : actor' = [actor EXCEPT ![m] = a]
    /\ UNCHANGED <<now, plain, lates, slot, control>>

-----------------------------------------------------------------------------
(* Capturing: capture_machine_blob, and the capture of restore_machine_blob. *)

BeginCapture(purpose) ==
    /\ pc' = "capture" /\ next' = "mt32" /\ phase' = purpose
    /\ root' = [Live EXCEPT !.actor = [m \in Modules |-> [worker |-> now, audio |-> now]]]

Save ==
    /\ pc = "run"
    /\ BeginCapture("save")
    /\ UNCHANGED <<now, plain, actor, lates, slot, dev, rollback, outcome, before, gone>>

(* verify_compatible and decode_runtime_state reject a blob, and the       *)
(* floppies fail to be captured, before anything else happens.             *)
Restore ==
    /\ pc = "run" /\ slot # None
    /\ before' = Live
    /\ \/ /\ outcome' = "rejected"
          /\ UNCHANGED <<pc, next, phase, root>>
       \/ /\ outcome' = "none"
          /\ BeginCapture("rollback")
    /\ UNCHANGED <<now, plain, actor, lates, slot, dev, rollback, gone>>

(* The bus captures its actors one after the other.  The first error ends  *)
(* the capture, and with it the restore, before anything changed.          *)
Captured(r) ==
    \/ /\ phase = "save"
       /\ slot' = r /\ pc' = "run" /\ outcome' = "none"
       /\ UNCHANGED <<next, phase, root, rollback>>
    \/ /\ phase = "rollback"
       /\ rollback' = r /\ root' = slot /\ phase' = "apply" /\ pc' = "cpu"
       /\ UNCHANGED <<next, slot, outcome>>

CaptureNext(r) ==
    IF next = "sc55" THEN Captured(r)
    ELSE /\ root' = r /\ next' = "sc55"
         /\ UNCHANGED <<slot, pc, phase, rollback, outcome>>

CaptureFails ==
    /\ pc' = "run"
    /\ outcome' = IF phase = "rollback" THEN "rejected" ELSE "none"
    /\ UNCHANGED <<slot, next, phase, root, rollback>>

(* The controllers of the disks come after the actors, and their capture   *)
(* may fail too (a media manifest).                                        *)
CaptureModule ==
    /\ pc = "capture"
    /\ \E o \in CaptureState(actor[next], MayBeLate) :
         /\ Called(next, o)
         /\ \/ o.ok /\ CaptureNext([root EXCEPT !.actor[next] = o.value])
            \/ (~o.ok \/ next = "sc55") /\ CaptureFails
    /\ UNCHANGED <<now, plain, dev, before, gone>>

-----------------------------------------------------------------------------
(* Applying a root: the apply closure of restore_machine_blob and          *)
(* restore_runtime_state of the bus.                                       *)

(* Mutant of restore_transactionally: the error is returned at once. *)
NoRollback ==
    /\ outcome' = "failed" /\ pc' = "run"
    /\ UNCHANGED <<next, dev, phase, root>>

(* restore_transactionally: the candidate failed, so the rollback is       *)
(* applied; if that fails too, the machine stays as it is.                 *)
ApplyFails ==
    /\ UNCHANGED <<next, dev>>
    /\ \/ /\ phase = "apply"
          /\ phase' = "undo" /\ root' = rollback /\ pc' = "cpu"
          /\ UNCHANGED outcome
       \/ /\ phase = "undo"
          /\ outcome' = "partial" /\ pc' = "run"
          /\ UNCHANGED <<phase, root>>

Applied ==
    /\ outcome' = IF phase = "apply" THEN "restored" ELSE "failed"
    /\ pc' = "run"
    /\ UNCHANGED <<next, dev, phase, root>>

Goto(l, m) == pc' = l /\ next' = m /\ UNCHANGED <<dev, phase, root, outcome>>

(* Only a candidate can fail validation: the rollback was just captured. *)
MayBeInvalid == phase = "apply"

RestoreCpu ==
    /\ pc = "cpu"
    /\ \/ cpu' = root.cpu /\ Goto("check", next)
       \/ MayBeInvalid /\ ApplyFails /\ UNCHANGED cpu
    /\ UNCHANGED <<now, device, fields, actor, lates, slot, rollback, before, gone>>

(* The configuration and DOS checks, and dos.prepare_restore, which opens  *)
(* and hashes the host source of a running COPY again.                     *)
CheckConfiguration ==
    /\ pc = "check"
    /\ \/ Goto("prepare", "mt32") /\ UNCHANGED gone
       \/ MayBeInvalid /\ ApplyFails /\ UNCHANGED gone
       \/ HostFaults /\ ApplyFails /\ gone' = TRUE
    /\ UNCHANGED <<now, plain, actor, lates, slot, rollback, before>>

PrepareModule ==
    /\ pc = "prepare"
    /\ \E o \in PrepareRestore(actor[next], MayBeLate, root.actor[next], MayBeInvalid) :
         /\ Called(next, o)
         /\ IF next = "mt32"
            THEN IF o.ok THEN Goto("prepare", "sc55") ELSE ApplyFails
            ELSE IF o.ok
                 THEN /\ pc' = "device" /\ dev' = 1
                      /\ UNCHANGED <<next, phase, root, outcome>>
                 ELSE Goto("abort_first", "mt32")
    /\ UNCHANGED <<now, plain, slot, rollback, before, gone>>

(* The SC-55 refused: the MT-32 forgets its prepared restore. *)
AbortFirst ==
    /\ pc = "abort_first"
    /\ \E o \in AbortRestore(actor["mt32"], MayBeLate) : Called("mt32", o)
    /\ ApplyFails
    /\ UNCHANGED <<now, plain, slot, rollback, before, gone>>

RestoreDevice ==
    /\ pc = "device"
    /\ IF dev \in Devices
       THEN \/ /\ device' = [device EXCEPT ![dev] = root.device[dev]]
               /\ dev' = dev + 1
               /\ UNCHANGED <<pc, next, phase, root, outcome, fields>>
            \/ /\ MayBeInvalid
               /\ Goto("abort", "mt32")
               /\ UNCHANGED <<device, fields>>
       ELSE /\ fields' = root.fields
            /\ Goto("commit", "mt32")
            /\ UNCHANGED device
    /\ UNCHANGED <<now, cpu, actor, lates, slot, rollback, before, gone>>

(* Mutant of restore_runtime_state: a refused device aborts the MT-32 only. *)
AbortMt32Only ==
    /\ pc = "abort"
    /\ \E o \in AbortRestore(actor[next], MayBeLate) : Called(next, o)
    /\ ApplyFails
    /\ UNCHANGED <<now, plain, slot, rollback, before, gone>>

(* A device refused: both actors forget their prepared restore. *)
AbortModule ==
    /\ pc = "abort"
    /\ \E o \in AbortRestore(actor[next], MayBeLate) : Called(next, o)
    /\ IF next = "mt32" THEN Goto("abort", "sc55") ELSE ApplyFails
    /\ UNCHANGED <<now, plain, slot, rollback, before, gone>>

CommitModule ==
    /\ pc = "commit"
    /\ \E o \in CommitRestore(actor[next], MayBeLate) :
         /\ Called(next, o)
         /\ IF next = "mt32"
            THEN IF o.ok THEN Goto("commit", "sc55") ELSE Goto("abort_second", "sc55")
            ELSE IF o.ok THEN Applied ELSE ApplyFails
    /\ UNCHANGED <<now, plain, slot, rollback, before, gone>>

(* The MT-32 failed to commit: the SC-55 forgets its prepared restore. *)
AbortSecond ==
    /\ pc = "abort_second"
    /\ \E o \in AbortRestore(actor["sc55"], MayBeLate) : Called("sc55", o)
    /\ ApplyFails
    /\ UNCHANGED <<now, plain, slot, rollback, before, gone>>

Apply == \/ RestoreCpu \/ CheckConfiguration \/ PrepareModule \/ AbortFirst
         \/ RestoreDevice \/ AbortModule \/ CommitModule \/ AbortSecond

Next == \/ Emulate \/ Save \/ Restore \/ CaptureModule \/ Apply
        \/ \E m \in Modules : GenerateAudio(m) \/ WorkerPanics(m)

Spec == Init /\ [][Next]_vars

-----------------------------------------------------------------------------
(* Properties.                                                             *)

(* No answer came late and every worker lives: what the actors themselves   *)
(* promise only then (RenderActor) cannot be asked of the machine either.  *)
ActorsAnswer == lates = 0 /\ \A m \in Modules : actor[m].alive

(* Type invariant: the parts name instants, the control its labels. *)
TypeOK ==
    /\ now \in Instant /\ lates \in 0 .. MaxLate
    /\ cpu \in Instant /\ device \in [Devices -> Instant] /\ fields \in Instant
    /\ DOMAIN actor = Modules
    /\ \A m \in Modules : /\ actor[m].worker \in Instant /\ actor[m].alive \in BOOLEAN
                          /\ {actor[m].audio, actor[m].frontend, actor[m].prepared}
                               \subseteq Instant \cup {None}
    /\ slot \in Root \cup {None} /\ root \in Root /\ rollback \in Root
    /\ pc \in {"run", "capture", "cpu", "check", "prepare", "abort_first", "device",
              "abort", "commit", "abort_second"}
    /\ next \in Modules /\ dev \in 1 .. DeviceCount + 1
    /\ phase \in {"save", "rollback", "apply", "undo"}
    /\ outcome \in {"none", "rejected", "restored", "failed", "partial"}
    /\ gone \in BOOLEAN

(* When the restore has ended (restore_runtime_state, restore_blob), no    *)
(* actor is left with a prepared restore, which would make it refuse every *)
(* later capture and restore.  On every error path, whatever is late.      *)
NoOrphanedRestore == pc = "run" => \A m \in Modules : actor[m].frontend = None

(* A restore that reports success installed the whole snapshot, one that   *)
(* reports failure without a failed rollback left the whole machine as it  *)
(* was, and one that was rejected changed nothing (restore_transactionally *)
(* over the sequence of restores and commits), wherever a worker dies.     *)
RestoreAllOrNothing ==
    [][pc # "run" /\ pc' = "run" /\ lates' = 0 =>
         /\ outcome' = "restored" => Live' = slot
         /\ outcome' = "failed"   => Live' = before
         /\ outcome' = "rejected" => UNCHANGED plain]_vars

(* The rollback itself (restore_transactionally) fails only when a sound   *)
(* actor is gone or late, or the host source of a running COPY is gone: no *)
(* refusal by a device, by the CPU or by an actor can leave the machine    *)
(* half restored.                                                          *)
RollbackSucceeds == outcome = "partial" => ~ActorsAnswer \/ gone

(* Machine roots retain a rollback snapshot so that a child restore        *)
(* failure does not leave a partially restored machine (save_state).       *)
NeverPartial == outcome # "partial"

Atomic == INSTANCE AtomicMachine WITH
            Root0    <- RootAt(0),
            clock    <- now,
            machine  <- IF pc \in {"run", "capture"} THEN Live ELSE before,
            snapshot <- slot

(* With actors that live and answer in time and a host source that stays,  *)
(* a machine with its sound actors saves and restores like one object      *)
(* (capture_machine_blob, restore_machine_blob), whatever the candidate's  *)
(* parts refuse: up to the first such fault every step is one of           *)
(* AtomicMachine or changes nothing of it.                                 *)
SavesAndRestoresAtomically ==
    Atomic!Init /\ [][ActorsAnswer' /\ ~gone' => [Atomic!Next]_Atomic!vars]_vars
=============================================================================
