# Verification of Neetan

Neetan emulates Japanese personal computers (PC-98, PC-88, FM Towns, X68000, PC/AT and others). This
directory holds TLA+ models of the parts of it whose correctness depends on the order of events: the sound
threads, saving and restoring a machine, the path of an interrupt, the bus's events, the floppy
controllers, quick loads across changes of media, disk images and configuration files in a failing file system, and the automation runner. TLC checks the models on small
instances, TLAPS proves theorems about them for every value of the constants.

## The system

| Part | State it keeps | Operations | Talks to |
|---|---|---|---|
| Session (`user_interface/src/session*`) | the running machine, the quick-save blob, selected media | main loop, input, quick save and load, media changes | machine, by calls |
| Machine and bus (`machine_*`) | CPU, memory, devices, current cycle | `run_for`, port and memory access, `capture_state`, `restore_state` | CPU and devices by calls; scheduler |
| CPU cores (`cpu`, `cpu_68k`) | registers, `pending_irq`, `halted`, interrupt shadow | `run_for`, `execute_one`, `check_interrupts` | the `Bus` trait |
| Scheduler (`common/src/scheduler.rs`) | a deadline per event kind | `schedule`, `cancel`, `pop_due` | bus (`set_current_cycle`) |
| i8259A pair (`device/src/i8259a_pic.rs`) | IRR, ISR, IMR, priority, ICW position, cached answer | lines, acknowledge, ICW and OCW writes | devices, CPU |
| Floppy controllers (`device/src/upd765a_fdc.rs`, `machine_98/src/bus/fdc.rs`) | phase, status and ready level per drive, the shared events and active interface | port access, disk exchanges, events | bus, scheduler, BIOS handlers |
| Other devices (`device`) | chip registers, FIFOs, disk images | port access, events, DMA | bus, scheduler, interrupt controller |
| Sound modules (`munt_oxide`, `nuked_sc55_oxide`) | a synthesizer on a thread of its own, two bounded channels, lent buffers | `exchange`, `capture_state`, `prepare_restore`, `commit_restore`, `abort_restore`, `reset`, drop | machine thread by messages |
| Save states (`save_state`) | versioned blob with resource and media manifests | `capture_machine_state`, `restore_machine_state`, `restore_transactionally` | all of the machine |
| Automation (`automation`, `r7rs`) | script workers, watchdog, report | `orchestrate`, `run_script`, cancellation | workers by messages and flags |
| Configuration (`user_interface/src/config`) | TOML files in layers | load, edit, atomic replacement | file system |
| DOS and BIOS (`dos`, `machine_*/src/bus/bios`) | guest-visible DOS structures | INT handlers | guest memory, host files |
| Rendering, GUI, host (`software_renderer`, `gui`, `sdl3*`, `i18n`, `rom_loader`) | frames, widgets | drawing, input | session |

An emulated machine runs on one thread, deterministically. What makes the program hard is, in this order:

1. *Threads.* The two synthesizers render while the machine goes on; every answer may come after the caller
   has given up, and a worker may die.
2. *Transactions.* A restore replaces dozens of parts, each of which may refuse, and must be all or nothing;
   a quick load also exchanges media.
3. *Polling and caches.* The interrupt output is cached in the controller and copied into the CPU, and both
   copies are used after the original may have changed.
4. *Order of simultaneous events* and of nested handlers.
5. *Files.* Disk images, configuration and script artefacts are written while things may fail.

Correctness, per part: a sound actor loses no buffer, never blocks the machine and captures one instant;
a restore installs all of a snapshot or nothing; the interrupt controllers deliver exactly the unmasked
request of highest priority and the CPU serves it once; events fire in the order of their deadlines; a
script is reported once and its worker always ends; a configuration file is the old one or the new one.

`PROJECT.json` lists every component with its status and every hazard at its line.

## Modules

| Module | Models | Kind |
|---|---|---|
| `RenderActor` | `munt_oxide/src/thread.rs`, both threads, step by step | component |
| `RenderService` | what the actor promises: an atomic synthesizer with staged restore | abstract specification |
| `ActorCalls` | the calls of an actor as seen by the machine, outcome by outcome | operators |
| `MachineRestore` | saving and restoring a PC-98 with both actors | composition, uses `ActorCalls` |
| `AtomicMachine` | what saving and restoring promises | abstract specification |
| `I8259aPic` | the two cascaded interrupt controllers | component |
| `InterruptPath` | controllers, CPU run loop, guest handlers | composition, extends `I8259aPic` |
| `QuickLoad` | a session's quick save and load over machine state and removable media | component; `MachineRestore` models what its restore step does |
| `EventLoop` | the PC-98 bus's deadlines, cached deadline, event loop and five kinds of event | component |
| `FloppyController` | the PC-98's two uPD765A, their bus and the BIOS's interrupt handlers | component |
| `Automation` | orchestrator, executors and watchdogs of `neetan-auto` | component |
| `DiskBackend` | the buffered writer on an image's host file, with its faults; the state both mounted images have | operators, state |
| `MountedHdd` | a hard disk image from mount to eject or kill | component, extends `DiskBackend` |
| `MountedFloppy` | a floppy image whose sectors move in its file | component, extends `DiskBackend` |
| `ConfigFile` | editors and other programs on one configuration file | component |
| `DurableCell` | what an atomic replacement of a file promises | abstract specification |
| `*Proofs` | the theorems about the module they extend: `InterruptPathProofs` about `I8259aPic` too, `BusProofs` about `EventLoop` and `FloppyController`, `MountedImageProofs` about `MountedHdd` and `MountedFloppy`, of which no two share a variable but those of `DiskBackend` | proofs |
| `MC*` | operators that a small instance needs beyond its `.cfg`; the other modules are instantiated by their `.cfg` alone | model checking |

A mutant of a definition stands directly before it, marked as such: a plausible mistake that the named
property catches. Mutants are not part of any specification.

### RenderActor

The machine thread runs one call at a time; `pc` is where it is (`drain`: in `complete_render`; `send`;
`await`: in `receive`; `join`: in `Drop`). The worker receives a command, does it (`Work`) and sends the
answer (`Reply`, blocking while the response channel is full). The channels are sequences with the
capacities of the code. `Late` allows a `receive` to time out although the answer will still come, `Panics`
lets the worker die anywhere, its unsent answer lost and its channels disconnected. A synthesizer state is
an element of `Synth`; an audio chunk is named by the state it was rendered in, so a snapshot that pairs a
state with another state's chunk can be told. The MIDI buffer is empty or lent. ROM loading is one step
that succeeds or fails. Frame counts, volume and resampling are left out.

### ActorCalls and MachineRestore

For a machine the two actors are objects whose calls have a set of outcomes: `Ok`, an error, or a timeout,
with the answers not collected kept in order. `RenderActor` says what such an actor does inside. The
restore is one step per operation of the code: the capture of the rollback, actor by actor; CPU;
configuration and DOS checks; prepare; the devices that validate, one after the other; the plain fields;
commit; and the three abort paths. Each part of the machine is named by the instant it belongs to. A
candidate may be refused by any part that validates; a rollback just captured may not, but the actors and
the DOS shell's host file may still fail it (`HostFaults`).

### I8259aPic and InterruptPath

A register is a set of levels, and the number of levels and the cascade level are parameters (8 and IR7 on
the PC-98, IR2 on the other machines). `I8259aPic` has one action per operation of the chip.
`InterruptPath` adds the CPU's run loop: poll before an instruction (differently when halted), acknowledge,
execute, events, poll again. The guest's instructions are reduced to STI, CLI, HLT, mask writes, the end of
a handler and any other. Handlers end as `canonical_slave_eoi_pattern` in `device/tests/i8259a_pic.rs`
writes it, with interrupts disabled; that code is the guest's, so it is marked external.

### QuickLoad

A medium is its configured image, the contents of a floppy the number of the guest's last write to it; a
machine state is how long it ran and which media its electronics were told of. Restoring the machine is one
step that succeeds or fails, and an exchange of a medium is one step that flushes, reads the new file and
swaps: the session's thread does nothing else meanwhile. `load` is the quick load that runs: the drives
still to exchange, then the drives still to put back (in the manifest's order, the first failure ends it),
then the state. `outcome` remembers how the last load ended and what it began with. Hard resets, media
dialogs and the guest's writes come between save and load. The cassette is left out, the PC-98 has none.

### EventLoop

`fire_cycles` holds a deadline per slot, `next_event_cycle` the cached minimum the CPU compares with.
`PopDue` removes all due slots at once, as the code does; the handlers then run one per step in the order of
deadline and slot, and a guest's port write can change the deadlines between two advances of the cycle.
The five slots kept are those of periodic or guest-started devices that schedule themselves again from
their handlers or from port writes: the display's two, the end of a drawing, the mouse timer, the MPU-401's
clock. The other slots (PIT, disks, sound) use the same calls and are left out; the floppy's two are in
`FloppyController`, without their times.

### FloppyController

`chips` holds both controllers: the phase, whether `active_command` is a data command (it outlives the end of
the command, as in the code), the status of each drive, the ready level last reported, `interrupt_pending` and
forced ready. They start in the state of `initialize_boot_state`, the status of a seek in each drive and forced ready
at the 640 KB interface, with any disks mounted. A restart of the guest sets this state again over what the controllers
were doing; that is not modelled. `scheduled` is which of `FdcExecution` and `FdcInterrupt` are due some time, `active_interface` whose
they are, `irq` the requests at the interrupt controllers. The user's `Insert` and `Eject` are the whole bus
calls: the interface that PORT EXC reached before the change reports it, the other one latches it. The last
parameter of a command, the last byte of a result and a seek are where an idle controller polls the ready
lines. `BiosInterrupt` is `hle_int12h` or `hle_int13h` in one step, because high-level handlers run between two
instructions. The guest program is external: it gives any command, to the interface that the ports reach, and
when the command is one of `Awaited` it does nothing but wait (`waiting`) or reset. A `Careful` program neither
turns to the other interface while a command it has reset is still scheduled nor takes forced ready away
other than with a reset. A model without these two rules fails, see below. SCAN is not
`Awaited`: it fails at once on this controller, and the code schedules no interrupt for it.

### Automation

One step per statement of the orchestrator that another thread can see: polling the list by index, a burst
of at most `MAX_MESSAGES_PER_POLL` messages, `is_finished`, `swap_remove`, join, finish, and the drops of an
early return. A worker is `setup`, `eval`, then stops and joins its watchdog and sends `Finished`. The
watchdog sleeps, beats and trips. `jobs`, the command line's number, is chosen once; the queue is the list
of `discover_scripts`, every script once in the order of the paths (`InOrder`). Of the messages only
cases, heartbeats and `Finished` are kept.

### DiskBackend, MountedHdd, MountedFloppy

A call of the backend is the set of its outcomes (the backend it leaves, and Ok or not), so that the mounted
images can make it inside theirs. A write that fails may have been done in part. The buffer holds one
write, because `write_at` seeks before it writes. `DiskBackend` also has what a mount of either kind keeps (mode, image, dirty, backend) and the two history variables
`synced` and `since`. A hard disk is a sector per offset; a floppy has a shape
(the track table) that decides where its sectors are, kept as `source_offset` in the image and renewed by
the reparse after a replacement. `since` remembers what every sector held since the last flush that returned
Ok. Two history variables mark what is known to go wrong (see below): `unmarked`, the sectors a failed format
filled, and `moved`, a file that was replaced but could not be opened again. The properties hold for
everything else, including what follows such an accident once it is mended. The reparse of bytes just
emitted is taken to succeed. CD-ROM images are read-only and not modelled.

### ConfigFile

Every call to the file system is a step: the two stamps around the read, the stamp check, the reservation by
`create_new`, creation, writing, `sync_all` and renaming of the temporary file, the flush of the folder, and
what is removed on failure. `entries` is what the path may name after a loss of power, `synced` the files
whose bytes are on the disk. Another program writes the file in place in two parts; power is lost only in
behaviours without one, since nothing is promised about its unflushed bytes. The links of a path, the names
tried for a new game and the text of the documents are left out.

## Runs

| Run | Instance | Shows |
|---|---|---|
| `actor_in_time` | 4 synthesizer states, 2 MIDI batches, no faults | the actor implements `RenderService`; captures are of one instant; a call that returns Ok has been answered |
| `actor_faults` | 1 state, late answers and panics | types, buffers, the two in-flight errors unreachable, no deadlock between sends, every call returns, drop returns |
| `restore` | 2 instants after the first, 2 devices, a late answer, panics, a host file that vanishes | while actors answer and the file stays, saving and restoring implements `AtomicMachine` and the rollback succeeds; always, no path leaves an actor with a prepared restore |
| `pic` | 2 levels, every command, initialisation at any time | the cached answer is always fresh, the ICW index in bounds |
| `interrupt_path` | 3 levels, 2 lines per chip, 3 nested handlers | in-service levels match handlers, no spurious interrupt while running, no lost wake-up |
| `automation` | 2 scripts, 1 and 2 jobs, one test case, panics, deadline, fuel, report faults | at most `jobs` live scripts, every thread joined, no `Finished` missed, a true report, the run ends |
| `hdd` | 3 sectors, 3 values, tracks of 2 that may run past the end, all faults, 4 ways to mount, migration | the file is never older than the last good flush; Ok is written; dirty forgets nothing |
| `floppy` | 2 sectors with a retry copy, 3 shapes of which the format holds 2, all faults | the same, and no write goes to a place where its sector is not |
| `config` | 2 editors, 3 files, 3 texts, existing or missing file, faults, another writer or power loss | a stamp belongs to the bytes read; one creator; saves implement `DurableCell` |
| `events` | cycles to 18, steps of up to 4, two periods of each device | nothing but the MPU's clock is overdue, no drawing and no clock is lost, blanking and display alternate |
| `fdc` | 1 drive, both interfaces, 2HD disks, all commands, resets, forced ready, machines with and without ready reports | the shared events find their command, no change of a ready line is forgotten, a waiting program is served |
| `load` | fdd1 with 2 images, CD-ROM, with and without IDE disk, write faults | a load is all or nothing, fails only for a reason, no loss of floppy contents is forgotten |

*Bounds.* The channels have their real capacity of two. Four synthesizer states tell apart the chunk in the
handle, the one in flight, the one captured and the one staged; control never looks at them, so
`actor_faults` needs one only. The instants of `restore` give a machine one before the save, one at it and
one after; two devices give one that is restored and one that refuses. Two levels give `pic` a line and the cascade, and rotation makes either
the higher; the three levels of `interrupt_path` give requests above and below the cascade, with two lines on each chip, where three
nested handlers are two on one chip and one on the other. Two scripts on one and two jobs give
a list that is shortened while it is polled, a queue that waits and one that does not. Three sectors with
tracks of two give a whole track and one that runs past the end; three values tell the fill, the old and
the new. Three files are two temporaries and a reservation or an existing file. Events of period 2 to 4
with steps of up to 4 cycles make up to all slots due at once. A floppy drive with two images and a CD-ROM
give a plan of two exchanges whose second may fail. For `fdc` one
drive is enough to pit the two interfaces against each other, since they share it; two drives add
that the lower one is sensed first. A disk that is not 2HD moves the ports to the other interface
by itself, which the code does not survive (below), so `fdc` has none.

*Deadlock* is checked except where a system may stop: in `actor_faults` a dropped handle may wait forever
for a worker blocked on a full response channel, the case that `DropReturns` excludes by its premise; `config`
and `events` reach the bound of their files or cycles.

*Fairness.* `RenderActor` assumes that each thread that can take a step eventually does (the operating
system schedules both), and nothing about calls or timeouts: a caller is not obliged to call. `InterruptPath`
assumes that the session keeps calling `run_for` and that instructions complete. Devices are never obliged
to act. `Automation` (`FairSpec`) assumes that the orchestrator, and each worker outside of its script, and each watchdog
take their steps; a script owes nothing, it may loop for ever, so that `RunEnds` rests on the interrupts.
`FloppyController` assumes that a scheduled event comes, that the CPU takes its
interrupts, and that the program writes the parameters it owes and reads the results it is given; the user owes nothing.
The other models state no liveness and no fairness.

### What disagrees with the documentation

Each is reproduced by a `.cfg` that is not among the runs and checks the property in
its strong form; the passing run of the module checks the form that holds.

1. `MachineRestore_partial.cfg` (`NeverPartial`): `save_state/src/lib.rs:34` says that a rollback snapshot keeps a failed
   child restore from leaving a partially restored machine. One late answer is enough to fail both candidate and rollback.
2. `MCRenderActor_answer.cfg` (`OkMeansAnswered`), `MCRenderActor_snapshot.cfg` (`SnapshotCoherent`):
   `UnexpectedResponse` is documented as "a response for another command" (`munt_oxide/src/thread.rs:500`), but
   a response is recognised by its kind only. After one `WorkerTimeout` a retried call returns Ok with the
   earlier call's answer, and `capture_state` may pair a state with another instant's chunk, although
   `save_state` calls a save state "one exact emulation instant".
3. `MCI8259aPic_masked.cfg` (`PendingIsUnmasked`): `has_pending_irq` promises an unmasked request. With the
   cascade in service, masked, and a lower-priority master request pending, a slave's request is reported.
   This needs a cascade that is not the lowest priority: IR2, or rotated priorities.
4. `MountedHdd_format.cfg` (`DirtyTellsAll`): `disk.rs:754` documents `is_dirty` as "Returns whether the
   image has unwritten changes." `format_track` (`disk.rs:791`) of a track that runs past the end fails
   after filling the sectors that exist, neither writes them through nor sets the flag, and no flush writes them.
5. `MountedHdd_kill.cfg` (`WriteThroughIsSynchronous`): `disk_backend.rs:3` speaks of "synchronous
   write-through"; the last accepted sector stays in the `BufWriter` until the next seek, flush or drop.
6. `MountedFloppy_stale.cfg` (`OffsetsStayValid`): `replace_atomic` reports the failure of reopening
   (`disk_backend.rs:91`) after the rename has replaced the file. `format_track` then does not reparse, and once a
   writer is open again write-through goes to the offsets of the old file, where `floppy.rs:644` says the
   offsets stay valid.
7. `MCConfigFile_replace.cfg` (`NeverReplaces`): `editor/save.rs:192` says "The write never replaces a file."
   An editor that opened the empty reservation may save into it before its creator's rename replaces it.
8. `MCConfigFile_stale.cfg` (`ChangesStay`): `editor/file.rs:143` says a changed file stays as it is; the
   stamp is compared before the temporary file is written, so a save that ends in between is overwritten.
9. `EventLoop_mpu.cfg` (`MpuOnTime`): `sync_mpu_irq_and_timer` (`bus.rs:2534`) schedules the MPU-401's clock
   without refreshing the cached deadline, which `bus.rs:1219` documents as the cycle "at which the next
   scheduled event fires, if any"; the PC/AT's bus refreshes it (`machine_at/src/bus/sound.rs:280`).
10. `EventLoop_text.cfg` (`DrawingEnds`): a drawing command of the text GDC (`bus/io_write.rs:1151`) sets the
    flag "GDC drawing operation in progress" (`upd7220_gdc.rs:20`) and schedules no end; it stays set until a reset.
11. `MCQuickLoad_rollback.cfg` (`ContentsRestored`): `removable_media.rs:199` says "Applies media and machine
    state together, restoring both on failure." The rollback (`snapshot.rs:74`) inserts the floppy of every planned
    drive again from its file, also one that never left its drive, so that contents a failed flush left in
    memory are gone after a load that reports no failure of its rollback.
12. `MCQuickLoad_rom.cfg` (`NeverRefused`): the IDE expansion ROM is installed with the first CD-ROM
    (`ide.rs:216`) and compared by a restore (`ide.rs:113`). A snapshot is refused after a hard reset that could not
    read the CD-ROM, with the media as they were; `doc/controls.md:31` promises that the restore switches the media back.
13. `MCAutomation_fuel.cfg` (`TimeoutMeansDeadline`): `protocol.rs:105` documents `Timeout` as "The cooperative
    deadline tripped."; running out of instruction fuel (`executor.rs:32`) is reported as `Timeout` too.
14. `FloppyController_swap.cfg` (`SwapVisible`): a drive's ready change is how "System software uses this to detect a disk
    swap" (`upd765a_fdc.rs:569`). A disk inserted over another one, which the media dialog does
    (`session/media.rs:31`), leaves the line as it was, and nothing is reported.
15. `FloppyController_lost.cfg` (`StatusTaken`): `interrupt_pending` is documented as "set when a command completes and
    needs to notify the CPU". A command byte written before the interrupt event comes clears it, and the
    status stays untold until something else interrupts.
16. `FloppyController_density.cfg` (`ExecutionServed`): `active_interface` is the "Interface currently executing a
    command." When a 2DD disk is put into drive 0 while a command runs, the ports and the ready report move to the
    other interface, and the shared execution event finds no command: the first one hangs until a reset. With
    `Careful = FALSE`, the same follows a reset in the 512 cycles before the execution event, and a
    drive's change during forced ready is not reported when forced ready goes (`NoChangeForgotten`).

Two smaller observations: `I8259aPic::restore_state` accepts `write_icw = 4`, a position that no
sequence of writes reaches (the theorem `IcwStaysInBounds`) and at which `write_port2` would index out of
bounds; and a CPU woken from HLT by an older `pending_irq` may acknowledge a spurious interrupt if the
device withdrew its line between two calls of `run_for`, which the controller answers as the real chip does.

## Theorems

All hold for every number of levels, every channel capacity, every set of states, every period and cycle bound.

* `RenderActorProofs!TypeCorrect`. `TypeOK` is inductive together with two facts (`TypeInv`): a worker that
  replies holds a response, and a restore under way was given a state.
* `RenderActorProofs!BuffersAreAccounted`, `CaptureAlwaysFindsBuffers`. The invariant `BufferInv` adds
  `CallInv`, what a call relies on while it runs: calls that collect a chunk never meet a prepared restore, no
  barrier is under way with a chunk outstanding, and a prepared restore excludes a lent pair. Without it a
  commit could install buffers while a pair is lent. The lemmas on `NoneOf` and `OneOf` say how sending and
  receiving change the number of messages of a type.
* `RenderActorProofs!SendsDoNotDeadlock`, for a response capacity of at least two. `CountInv` bounds what is
  unanswered at each label: a call adds at most one and takes one away, unless it gave up on an empty
  channel, when only the commands and the answer in the worker's hands are left.
* `RenderActorProofs!SnapshotsAreCoherent`, `OkIsAnswered`, `ImplementsTheService`, for answers that come in time
  (`Late = FALSE`; with late ones they are false, disagreement 2), panics included. `ServeInv` says what each thread may take for granted
  of the other: at most one request is on its way, in the channel, in the worker's hands or answered, it is the one of
  the call that waits, and the handle's chunk and staged restore agree with the worker's state. For the refinement
  of `RenderService` every step of the two threads is a step of the service or a stutter; the worker's
  `Work` is where a call takes effect.
* `MachineRestoreProofs!NoRestoreIsOrphaned`, `RollbackFailsOnlyByFault`, `RestoresAllOrNothing`,
  `SavesAndRestoresAsOne`, for any number of devices. `RestoreInv` has three parts: what holds always (which actor
  holds a prepared restore at each label, what is being applied); what holds while no answer came late (each actor's
  queue has just what the machine expects, the rollback is the machine as it was); and what holds
  while, besides, no worker died and no host file went (the rollback cannot be refused). The lemmas on
  `ActorCalls` say what each call leaves after Ok, after an error and after a timeout. `SavesAndRestoresAsOne` is the
  refinement of `AtomicMachine` up to the first fault; with a fault it is false (disagreement 1).
* `InterruptPathProofs!PicTypeCorrect`, `IcwStaysInBounds` from `PicInv`, their conjunction: the type of `write_icw`
  alone does not survive an initialisation without ICW4.
* `InterruptPathProofs!CacheIsFresh`. Every action invalidates the cache except asking, a line that does
  not change, and an EOI with nothing in service; for these `PendingFromRegisters` shows that priority
  resolution depends only on registers they leave alone.
* `InterruptPathProofs!NoSpuriousWhileRunning` from `PathInv`: register types, a fresh cache and the property
  itself; between the poll and the acknowledge nothing else acts, and the poll's answer is fresh.
* `InterruptPathProofs!ServiceAlwaysMatches`. A non-specific EOI ends the least level in service, whoever
  sends it. `ServiceInv` therefore adds that every handler outranks those it interrupted (`Nested`), the slave's
  levels counting as the cascade on the master, and that priorities are not rotated (`FixedPriority`: the guest
  of this model writes masks and EOIs only).
* `BusProofs!NothingStaysBehind`, `ClocksKeepRunning`, `BlankingAlternates`, for all periods, drawing times
  and step lengths. The properties speak of the moments between two `process_events`; `LoopInv` says what holds
  inside one as well: what was removed is due and what is scheduled is not (`DueInv`, `CacheInv`), the event of
  a running device is in exactly one of the two places (`ClockInv`, `DrawInv`), and the end of a blanking comes before
  each pending blanking (`DisplayInv`). The last part needs `BlankAssumption`: every blanking is shorter than every display.
  `PeriodsAssumption` leaves out a blanking of no lines. `recompute_timing` enforces neither, so `BlankingAlternates` says
  nothing of a guest that programs such a picture. `ClocksKeepRunning` assumes that
  only the slave GDC draws, because the text GDC's drawings schedule no end (disagreement 10 above), and
  `CacheInv` leaves out the MPU's clock (disagreement 9).
* `BusProofs!FdcTypeCorrect`, `NoChangeIsForgotten`, `ExecutionIsServed`, for any number of drives, any equipment and
  commands. `FdcInv` is the type invariant, for a `Careful` program `NoChangeForgotten`, and, when besides
  all disks are 2HD, `ExecutionServed` with the fact it rests on: a scheduled execution belongs to the interface that
  the ports reach. The hypotheses are those under which the run checks the properties, and each is needed
  (disagreement 16); `NoChangeIsForgotten` does without the second. For it every step that makes a controller idle
  either polls the ready lines or leaves a status, so the proof goes step by step through `Poll`, `Sense` and `Reset`.
* `QuickLoadProofs!StateAlwaysFitsMedia`, `LoadsAllOrNothing`, `LoadsFailForAReason`, `NoSilentLoss`, for all
  configured images and any lengths of run. The properties speak of a load that has ended; `SessionInv` adds what
  holds between its steps (`LoadInv`): what was captured when it began is what the outcome will be compared
  with, a drive outside of the plan is as it was, a planned one is exchanged or still to be exchanged.
* `MountedImageProofs!HddFileIsRecent`, `HddFlushIsHonest`, `HddCleanIsWritten`, for any number of sectors and
  values. `DiskInv` adds that the buffer and the image hold recent values too, since each of them
  may reach the file later, and that there is no buffer without a writer. The lemmas on `DiskBackend` say what a call may
  leave in the file, whatever fails in it; the floppy's proofs rest on the same lemmas.
* `MountedImageProofs!FloppyFileStaysRecent`, `FloppyFlushStaysHonest`, for any number of sectors, shapes and values, with
  and without retry copies. A format moves sectors, so `FloppyInv` also says where they are: an offset that the image
  keeps is that of the file's shape as long as the file was not replaced unseen (`FloppyRecent`), an image whose file was
  replaced unseen is dirty, so that no flush of it returns Ok before the image is emitted again (`MovedIsDirty`),
  the buffer never holds the track table, and a clean image is in the file together with its buffer (`FloppyClean`).
* `ConfigFileProofs!StampsTellContent`, `OneCreatorAtATime`, `ReplacementIsAtomic`, for any number of editors.
  `FileInv` says what an editor may take for granted whatever the others do: a file has the text of a stamp or was
  written more often than the stamp says, the path names a file while one is being created, a temporary
  file has one user and a name the path never had, and what the path names after a loss of power is synced. The
  refinement of `DurableCell` follows step by step.
* `AutomationProofs!ThreadsAreBounded`, `FinishedArrives`, `ReportIsTruthful`, for all scripts and any number of
  jobs, with panics, fuel and write faults. The core of `AutoInv` is `Orderly`: `Finished` is the last message of
  a script because the watchdog, the only other sender, is joined first, so that the orchestrator knows
  a termination only when the channel is empty for good. `Counted` follows the failed cases through the
  channel, and `Books` says that a script that is neither queued, active nor being joined is closed and counted.
  For the totals `TotalInv` is inductive relative to `AutoInv`: the cases sent are those that arrived and those in the channel
  (`Conserved`), the list of threads has no script twice, although `swap_remove` moves them (`Lists`), and the
  totals are the numbers of entries of the scripts already settled (`Totals`). Totals are stated as the size of a set of
  entries (script, number), so that a script adds its own part and nothing needs an induction over the scripts.

Assumptions are the named `ASSUME`s of the modules; TLC evaluates each of them.

Only model-checked are the liveness properties (`CallsReturn`, `DropReturns`, `WakesFromHalt`, `RunEnds`,
`ProgramServed`), which are beyond this prover. Every invariant and every other action property or refinement
that a run checks is a theorem.

## Plan

The components below are the next to be modelled; nothing that the runs check is left to be proved except liveness.

1. More slots of `EventLoop` with their devices: the PIT's counters, the disks' completions, the i8237's
   transfers for the uPD765A.
2. SASI and SCSI phases, the keyboard's FIFO, the Z80 CTC's daisy chain.

## Not modelled

Instruction semantics of the CPUs, floating point, sound synthesis, resampling and drawing are computation
without protocol, covered in the repository by recorded test suites. The GUI, translations, SDL bindings, ROM
loading and text extraction are glue. The Scheme compiler and virtual machine, the DOS and BIOS calls and the image
formats are too large for their value here. The other machines' buses wire the same parts; the actors
exist on the PC-98 with all of them and elsewhere in part. `PROJECT.json` has the reasons one by one.
