-------------------------- MODULE FloppyController --------------------------
(***************************************************************************)
(* The two uPD765A floppy controllers of the PC-98 (the 1 MB and the       *)
(* 640 KB interface, crates/device/src/upd765a_fdc.rs) and their bus       *)
(* (crates/machine_98/src/bus/fdc.rs and handle_fdc_action in io_write.rs).*)
(*                                                                         *)
(* Both controllers watch the same drives and share one execution event,   *)
(* one interrupt event and the field that tells whose these are.  PORT EXC *)
(* and the density of the disk in drive 0 select the one that the I/O      *)
(* ports reach.  The user exchanges disks between any two instructions.    *)
(*                                                                         *)
(* What a command transfers and with which status it ends is left out;     *)
(* that it ends, and who is told, is not.  The ready line of a drive is    *)
(* that it holds a disk: each is set in the step that changes the disk.    *)
(* An event that is scheduled comes at some later time.                    *)
(***************************************************************************)
EXTENDS Integers

CONSTANTS
    Drives,        \* the drives, numbers from 0
    Equipped,      \* drive_equipped
    DiskTypes,     \* media types of the user's disks; "2HD" is high density
    PulledUps,     \* values of fdc_ready_pulled_up: TRUE on the PC-9801F only
    Commands,      \* the kinds of command the program gives
    Awaited,       \* those whose interrupt it waits for
    PortExcs,      \* what it writes to PORT EXC
    Forced,        \* the interfaces where it may write FRY, forced ready
    Careful,       \* after a reset, does it wait before it turns to the other
                   \* interface, and does it take FRY away only by a reset?
    None

ASSUME DriveAssumption == Drives \subseteq Nat /\ 0 \in Drives /\ Equipped \subseteq Drives
ASSUME ProgramAssumption ==
    /\ Commands \subseteq {"specify", "status", "seek", "data", "scan"}
    /\ Awaited \subseteq Commands \cap {"seek", "data", "scan"}
    /\ PortExcs \subseteq BOOLEAN /\ Forced \subseteq {0, 1}
    /\ Careful \in BOOLEAN /\ PulledUps \subseteq BOOLEAN
    /\ None \notin DiskTypes

Interfaces == {0, 1}  \* 1 MB and 640 KB
TheResult == -1       \* the result phase of a command, in waiting

VARIABLES
    ready_pulled_up,  \* does the machine report no changes of a ready line?
    chips,            \* the state of each controller
    disk,             \* the type of the disk in each drive, or None
    port_exc,         \* bit 0 of port 0xBE
    active_interface,
    scheduled,        \* the scheduled ones of FdcExecution and FdcInterrupt
    irq,              \* the interfaces with a request at the PIC
    waiting           \* what the program waits for: nothing, TheResult or a seek's drive

busVars == <<port_exc, active_interface, scheduled, irq>>
drives == <<disk, ready_pulled_up>>
fdcVars == <<chips, drives, busVars, waiting>>

(* Upd765aFdcState.  active tells whether active_command is a data command *)
(* (it keeps its value when the command ends), invalid that the result is  *)
(* the one byte of an invalid command; pending is interrupt_pending and    *)
(* reported the drives last reported ready.                                *)
Ready == {d \in Drives : disk[d] # None}
NoStatus == [d \in Drives |-> "none"]

NewChip == [phase |-> "idle", active |-> FALSE, invalid |-> FALSE,
            st0 |-> NoStatus, reported |-> Ready, pending |-> FALSE, fry |-> FALSE]

(* initialize_boot_state: the status of a seek is left in every drive, and *)
(* the control register of the 640 KB interface forces ready.              *)
BootChip(i) ==
    [NewChip EXCEPT !.st0 = [d \in Drives |-> "seek"], !.fry = (i = 1)]

(* Disks mounted before the machine runs are latched without a report. *)
FdcInit ==
    /\ ready_pulled_up \in PulledUps
    /\ disk \in [Drives -> DiskTypes \cup {None}]
    /\ chips = [i \in Interfaces |-> BootChip(i)]
    /\ port_exc = TRUE /\ active_interface = 0
    /\ scheduled = {} /\ irq = {} /\ waiting = {}

-----------------------------------------------------------------------------
(* The controller.                                                         *)

Told(c) == {d \in Drives : c.st0[d] # "none"}

(* poll_ready_lines, given the drives that are ready: an idle controller   *)
(* reports each change of a drive that has no status.                      *)
Poll(c, ready) ==
    LET changed == {d \in Equipped \ Told(c) : (d \in ready) # (d \in c.reported)} IN
    IF c.phase # "idle" \/ c.fry \/ changed = {} THEN c
    ELSE [c EXCEPT
            !.st0 = [d \in Drives |-> IF d \notin changed THEN @[d]
                                      ELSE IF d \in ready THEN "ready" ELSE "notready"],
            !.reported = (@ \ changed) \cup (ready \cap changed),
            !.pending = TRUE]

(* latch_ready_line *)
Latch(c, d, ready) ==
    [c EXCEPT !.reported = IF d \in ready THEN @ \cup {d} ELSE @ \ {d}]

(* The end of the result phase in read_data_reporting, before its poll. *)
Drained(c) == [c EXCEPT !.phase = "idle", !.invalid = FALSE, !.pending = Told(c) # {}]

(* SENSE INTERRUPT STATUS takes the status of the lowest drive. *)
Sense(c) ==
    LET d == CHOOSE n \in Told(c) : \A k \in Told(c) : n <= k IN
    IF Told(c) = {} THEN [c EXCEPT !.phase = "result", !.invalid = TRUE, !.pending = FALSE]
    ELSE [c EXCEPT !.phase = "result", !.st0[d] = "none", !.pending = Told(c) # {d}]

(* complete_success and complete_error *)
Complete(c) == [c EXCEPT !.phase = "result", !.pending = TRUE]

\* Mutant: active_command outlives the reset.
ResetKeepsCommand(c) ==
    [c EXCEPT !.phase = "idle", !.invalid = FALSE,
              !.st0 = NoStatus, !.reported = Ready, !.pending = FALSE]

(* reset *)
Reset(c) ==
    [c EXCEPT !.phase = "idle", !.active = FALSE, !.invalid = FALSE,
              !.st0 = NoStatus, !.reported = Ready, !.pending = FALSE]

-----------------------------------------------------------------------------
(* The bus.                                                                *)

(* port_interface: a disk in drive 0 that is not 2HD selects 640 KB. *)
PortInterface == IF port_exc /\ disk[0] \in {None, "2HD"} THEN 0 ELSE 1

Schedule(event, i) == scheduled' = scheduled \cup {event} /\ active_interface' = i

(* raise_fdc_ready_change_interrupt, after cs is what the controllers are *)
RaiseReadyChange(cs, i) ==
    \/ /\ "interrupt" \notin scheduled
       /\ chips' = cs
       /\ Schedule("interrupt", i)
       /\ UNCHANGED irq
    \/ /\ "interrupt" \in scheduled
       /\ active_interface # i
       /\ chips' = [cs EXCEPT ![i].pending = FALSE]
       /\ irq' = irq \cup {i}
       /\ UNCHANGED <<scheduled, active_interface>>
    \/ /\ "interrupt" \in scheduled
       /\ active_interface = i
       /\ chips' = cs
       /\ UNCHANGED <<scheduled, active_interface, irq>>

\* Mutant: the way into the idle phase forgets to poll.
IdleWithoutPoll(i, c) ==
    /\ chips' = [chips EXCEPT ![i] = c]
    /\ UNCHANGED <<scheduled, active_interface, irq>>

(* The ready polling of controller i, whose state becomes c before it. *)
PollAndRaise(i, c) ==
    LET cs == [chips EXCEPT ![i] = Poll(c, Ready)] IN
    IF cs[i] # c THEN RaiseReadyChange(cs, i)
    ELSE chips' = cs /\ UNCHANGED <<scheduled, active_interface, irq>>

(* insert_floppy and eject_floppy: set the lines after the change.  The    *)
(* interface that the ports reached before the change reports it.          *)
ChangeDisk(d, type) ==
    LET i       == PortInterface
        ready   == IF type = None THEN Ready \ {d} ELSE Ready \cup {d}
        polled  == Poll(chips[i], ready)
        latched == [chips EXCEPT ![1 - i] = Latch(@, d, ready)]
    IN /\ disk' = [disk EXCEPT ![d] = type]
       /\ \/ /\ ready_pulled_up
             /\ chips' = [latched EXCEPT ![i] = Latch(@, d, ready)]
             /\ UNCHANGED busVars
          \/ /\ ~ready_pulled_up /\ polled = chips[i]
             /\ chips' = latched
             /\ UNCHANGED busVars
          \/ /\ ~ready_pulled_up /\ polled # chips[i]
             /\ RaiseReadyChange([latched EXCEPT ![i] = polled], i)
             /\ UNCHANGED port_exc
       /\ UNCHANGED <<ready_pulled_up, waiting>>

(* The user may insert a disk over another one. *)
Insert(d, type) == ChangeDisk(d, type)
Eject(d) == disk[d] # None /\ ChangeDisk(d, None)

(* handle_fdc_execution: the command of the active interface, if any.      *)
FdcExecution ==
    LET i == active_interface IN
    /\ "execution" \in scheduled
    /\ \/ /\ chips[i].active
          /\ chips' = [chips EXCEPT ![i] = Complete(@)]
          /\ scheduled' = (scheduled \ {"execution"}) \cup {"interrupt"}
       \/ /\ ~chips[i].active
          /\ scheduled' = scheduled \ {"execution"}
          /\ UNCHANGED chips
    /\ UNCHANGED <<drives, port_exc, active_interface, irq, waiting>>

(* handle_fdc_interrupt *)
FdcInterrupt ==
    LET i == active_interface IN
    /\ "interrupt" \in scheduled
    /\ scheduled' = scheduled \ {"interrupt"}
    /\ irq' = IF chips[i].pending THEN irq \cup {i} ELSE irq
    /\ chips' = [chips EXCEPT ![i].pending = FALSE]
    /\ UNCHANGED <<drives, port_exc, active_interface, waiting>>

-----------------------------------------------------------------------------
(* The program.  It gives a command to an idle controller, completes it,   *)
(* and does nothing else while it waits for the interrupt.                 *)

Wait(command, what) == waiting' = IF command \in Awaited THEN {what} ELSE {}

(* The first byte; SENSE INTERRUPT STATUS has no other one.  Which of the  *)
(* others it was is seen when its last parameter is written.               *)
WriteCommand ==
    LET i == PortInterface
        c == [chips[i] EXCEPT !.pending = FALSE] IN
    /\ waiting = {} /\ chips[i].phase = "idle"
    /\ \E next \in {Sense(c), [c EXCEPT !.phase = "command"]} :
          chips' = [chips EXCEPT ![i] = next]
    /\ UNCHANGED <<drives, busVars, waiting>>

LastParameter(command, i) ==
    command \in Commands /\ i = PortInterface /\ chips[i].phase = "command"

Specify(i) ==
    /\ LastParameter("specify", i)
    /\ PollAndRaise(i, [chips[i] EXCEPT !.phase = "idle"])
    /\ UNCHANGED <<drives, port_exc, waiting>>

(* SENSE DRIVE STATUS *)
SenseDrive(i) ==
    /\ LastParameter("status", i)
    /\ chips' = [chips EXCEPT ![i].phase = "result"]
    /\ UNCHANGED <<drives, busVars, waiting>>

\* Mutant: the interrupt event is left to the interface that had it last.
SeekOfOther(i, d) ==
    LET c == [chips[i] EXCEPT !.phase = "idle",
                              !.st0[d] = "seek", !.pending = TRUE] IN
    /\ LastParameter("seek", i)
    /\ chips' = [chips EXCEPT ![i] = Poll(c, Ready)]
    /\ scheduled' = scheduled \cup {"interrupt"}
    /\ Wait("seek", d)
    /\ UNCHANGED <<drives, port_exc, active_interface, irq>>

(* SEEK and RECALIBRATE end at once; the interrupt comes later. *)
Seek(i, d) ==
    LET c == [chips[i] EXCEPT !.phase = "idle",
                              !.st0[d] = "seek", !.pending = TRUE] IN
    /\ LastParameter("seek", i)
    /\ chips' = [chips EXCEPT ![i] = Poll(c, Ready)]
    /\ Schedule("interrupt", i)
    /\ Wait("seek", d)
    /\ UNCHANGED <<drives, port_exc, irq>>

(* READ, WRITE, READ ID, FORMAT TRACK *)
Data(i) ==
    /\ LastParameter("data", i)
    /\ chips' = [chips EXCEPT ![i].phase = "execution", ![i].active = TRUE]
    /\ Schedule("execution", i)
    /\ Wait("data", TheResult)
    /\ UNCHANGED <<drives, port_exc, irq>>

(* SCAN fails at once on this controller, and schedules nothing. *)
Scan(i) ==
    /\ LastParameter("scan", i)
    /\ chips' = [chips EXCEPT ![i] = Complete(@)]
    /\ Wait("scan", TheResult)
    /\ UNCHANGED <<drives, busVars>>

(* read_fdc_data, up to the last byte of the result *)
ReadResult(i) ==
    /\ i = PortInterface /\ chips[i].phase = "result" /\ waiting = {}
    /\ PollAndRaise(i, Drained(chips[i]))
    /\ UNCHANGED <<drives, port_exc, waiting>>

(* write_control.  A program that resets sets RST and takes it away again, *)
(* and gives up its command.                                               *)
ResetChip(i, fry) ==
    /\ i = PortInterface
    /\ chips' = [chips EXCEPT ![i] = [Reset(@) EXCEPT !.fry = fry]]
    /\ waiting' = {}
    /\ UNCHANGED <<drives, busVars>>

ForceReady(i, fry) ==
    /\ i = PortInterface
    /\ Careful /\ chips[i].fry => fry
    /\ chips' = [chips EXCEPT ![i].fry = fry]
    /\ UNCHANGED <<drives, busVars, waiting>>

WriteControl(i) == \E fry \in {FALSE, (i \in Forced)} : ResetChip(i, fry) \/ ForceReady(i, fry)

(* set_fdc_media, between two commands *)
SelectInterface ==
    /\ waiting = {} /\ chips[PortInterface].phase = "idle"
    /\ Careful => "execution" \notin scheduled
    /\ port_exc' \in PortExcs
    /\ UNCHANGED <<chips, drives, active_interface, scheduled, irq, waiting>>

(* hle_int12h and hle_int13h, the BIOS's handlers, read the result and     *)
(* sense the interrupt status until it is invalid.  What the poll after    *)
(* that last byte reports is left to a later interrupt.                    *)
SensedUntilInvalid(c) ==
    IF Told(c) = {} THEN Poll(Drained(c), Ready)
    ELSE [c EXCEPT !.st0 = NoStatus, !.pending = FALSE,
                   !.reported = IF c.fry THEN @ ELSE (@ \ Equipped) \cup (Ready \cap Equipped)]

Handled(c) ==
    CASE c.phase = "idle"   -> SensedUntilInvalid(c)
      [] c.phase = "result" -> LET d == Poll(Drained(c), Ready) IN
                               IF c.invalid THEN d ELSE SensedUntilInvalid(d)
      [] OTHER -> c

(* They tell the program of a drive's status and of a result. *)
Heard(c) ==
    CASE c.phase = "idle"   -> Told(c)
      [] c.phase = "result" -> {TheResult} \cup
                               (IF c.invalid THEN {} ELSE Told(Poll(Drained(c), Ready)))
      [] OTHER -> {}

BiosInterrupt(i) ==
    /\ i \in irq
    /\ irq' = irq \ {i}
    /\ chips' = [chips EXCEPT ![i] = Handled(@)]
    /\ waiting' = waiting \ Heard(chips[i])
    /\ UNCHANGED <<drives, port_exc, active_interface, scheduled>>

User == \E d \in Drives : Eject(d) \/ \E type \in DiskTypes : Insert(d, type)
Events == FdcExecution \/ FdcInterrupt
Parameters(i) == Specify(i) \/ SenseDrive(i) \/ (\E d \in Drives : Seek(i, d)) \/ Data(i) \/ Scan(i)
Program ==
    \/ WriteCommand \/ SelectInterface
    \/ \E i \in Interfaces : Parameters(i) \/ ReadResult(i) \/ WriteControl(i)
Bios == \E i \in Interfaces : BiosInterrupt(i)

FdcNext == User \/ Events \/ Program \/ Bios

(* Events come when they are due, the CPU takes its interrupts, and the    *)
(* program finishes what it began.                                         *)
Fairness ==
    /\ WF_fdcVars(FdcExecution) /\ WF_fdcVars(FdcInterrupt)
    /\ \A i \in Interfaces : WF_fdcVars(BiosInterrupt(i)) /\ WF_fdcVars(Parameters(i) \/ ReadResult(i))

FdcSpec == FdcInit /\ [][FdcNext]_fdcVars /\ Fairness

-----------------------------------------------------------------------------
(* Properties.                                                             *)

Statuses == {"none", "ready", "notready", "seek"}

(* Every variable has its type. *)
FdcTypeOK ==
    /\ ready_pulled_up \in PulledUps
    /\ disk \in [Drives -> DiskTypes \cup {None}]
    /\ chips \in [Interfaces ->
          [phase : {"idle", "command", "execution", "result"},
           active : BOOLEAN, invalid : BOOLEAN, st0 : [Drives -> Statuses],
           reported : SUBSET Drives, pending : BOOLEAN, fry : BOOLEAN]]
    /\ port_exc \in BOOLEAN /\ active_interface \in Interfaces
    /\ scheduled \subseteq {"execution", "interrupt"} /\ irq \subseteq Interfaces
    /\ waiting \subseteq Drives \cup {TheResult}

(* active_interface: "Interface currently executing a command."  The two   *)
(* controllers share one execution event (set_active_interface), so it     *)
(* must find the command it was scheduled for, and never one that a        *)
(* controller has ended: that would read or write the disk once more.      *)
ExecutionServed ==
    \A i \in Interfaces :
        chips[i].phase = "execution"
        <=> active_interface = i /\ "execution" \in scheduled /\ chips[i].active

(* poll_ready_lines: no way into the idle phase forgets to poll.  An idle  *)
(* controller has reported every change of a drive whose last status was   *)
(* taken, also one made while it was busy.                                 *)
NoChangeForgotten ==
    \A i \in Interfaces, d \in Equipped :
        chips[i].phase = "idle" /\ ~chips[i].fry /\ chips[i].st0[d] = "none"
        => (d \in chips[i].reported <=> d \in Ready)

(* The program is never left waiting for the interrupt of its command:     *)
(* exchanges of disks, resets and the other interface, which share the     *)
(* events, do not swallow it.                                              *)
ProgramServed == waiting # {} ~> waiting = {}

(* interrupt_pending: "Interrupt pending - set when a command completes    *)
(* and needs to notify the CPU."  A status for which it is set is taken in the *)
(* end; at boot it is not set.                                             *)
StatusTaken ==
    \A i \in Interfaces, d \in Drives :
        chips[i].pending /\ chips[i].st0[d] # "none" ~> chips[i].st0[d] = "none"

(* signal_ready_line_change: "System software uses this to detect a disk   *)
(* swap."  A disk comes into a drive that was reported not ready.          *)
SwapVisible ==
    [][\A d \in Equipped :
         disk'[d] \notin {None, disk[d]} /\ ~chips[PortInterface].fry
         => d \notin chips[PortInterface].reported]_fdcVars
=============================================================================
