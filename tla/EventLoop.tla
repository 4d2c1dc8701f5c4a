----------------------------- MODULE EventLoop -----------------------------
(***************************************************************************)
(* The event scheduler of the PC-98 bus: one deadline per kind of event,   *)
(* a cached copy of the earliest one, and the loop that removes the due    *)
(* events and runs their handlers in order of deadline and slot.  The CPU  *)
(* advances the bus's cycle after every instruction and looks at the       *)
(* cached cycle only; a halted CPU is run to the earliest deadline.        *)
(*                                                                         *)
(* Of the kinds of event the module keeps the ones that own a periodic or  *)
(* a guest-started device: the display chain (GdcVsync, GdcDisplayStart),  *)
(* the end of a drawing, the mouse timer and the MPU-401's clock.  An      *)
(* unscheduled slot and an empty cache are both the cycle Never, which is  *)
(* u64::MAX in the code.                                                   *)
(***************************************************************************)
EXTENDS Integers, FiniteSets

CONSTANTS
    Displays,       \* display periods the guest programs
    Blanks,         \* vertical blanking periods the guest programs
    MousePeriods,   \* periods of the mouse timer
    DrawTimes,      \* how long drawings take; 0 is a drawing of no dots
    MpuPeriod,      \* one clock of the MPU-401
    MpuUsed,        \* whether the guest programs the MPU-401
    Drawers,        \* the GDCs the guest draws with
    LongestStep,    \* the most cycles of one instruction
    MaxCycle,       \* bound: the last cycle explored
    Never           \* u64::MAX

ASSUME PeriodsAssumption ==
    /\ Displays \subseteq Nat \ {0}
    /\ Blanks \subseteq Nat \ {0}
    /\ MousePeriods \subseteq Nat \ {0}
    /\ DrawTimes \subseteq Nat
    /\ MpuPeriod \in Nat \ {0}
    /\ LongestStep \in Nat \ {0}
    /\ MpuUsed \in BOOLEAN
    /\ Drawers \subseteq {"master", "slave"}

\* A scan line count that blanks for longer than it displays is not a picture.
\* recompute_timing accepts one, as it does a blanking of no lines.
ASSUME BlankAssumption == \A d \in Displays, b \in Blanks : b < d

\* Every deadline the exploration reaches is before u64::MAX.
ASSUME NeverAssumption ==
    /\ MaxCycle \in Nat
    /\ Never \in Nat
    /\ \A p \in Displays \cup Blanks \cup MousePeriods \cup DrawTimes \cup {MpuPeriod} :
          MaxCycle + p < Never

VARIABLES
    cycle,                  \* bus.current_cycle
    fire_cycles,            \* the scheduler's deadlines
    next_event_cycle,       \* bus.next_event_cycle, the cached minimum
    processing,             \* the bus is inside process_events
    due,                    \* the deadlines process_events removed and has not handled
    vsync,                  \* STATUS_VSYNC of both GDCs
    drawing,                \* STATUS_DRAWING of each GDC
    display_period,         \* gdc_master.state.display_period
    vsync_blanking_period,  \* gdc_master.state.vsync_blanking_period
    mouse_on,               \* INT# of the mouse PPI is 0
    mouse_period,           \* mouse_timer_period_cycles()
    mpu_on                  \* mpu401.timer_active()

gdc == <<vsync, drawing, display_period, vsync_blanking_period>>
mouse == <<mouse_on, mouse_period>>
vars == <<cycle, fire_cycles, next_event_cycle, processing, due, gdc, mouse, mpu_on>>

\* Slots, in the frozen priority order of Event98.
GdcVsync == 1
GdcDisplayStart == 2
GdcDrawingComplete == 3
MouseTimer == 4
MpuTimer == 5
Slots == 1 .. 5

Idle == [s \in Slots |-> Never]
IsScheduled(s) == fire_cycles[s] # Never

\* The earliest deadline of f, Never when there is none.
NextEventCycle(f) ==
    CHOOSE c \in {f[s] : s \in Slots} : \A s \in Slots : c <= f[s]

\* Mutant: a port write leaves the cache to the next process_events.
RescheduleLazily(f) ==
    /\ fire_cycles' = f
    /\ next_event_cycle' = IF processing THEN NextEventCycle(f) ELSE next_event_cycle

(* What a handler of the bus leaves behind: the new deadlines, and the cache *)
(* recomputed from them.                                                     *)
Reschedule(f) ==
    /\ fire_cycles' = f
    /\ next_event_cycle' = NextEventCycle(f)

----------------------------------------------------------------------------
(* Initially: new() schedules the first vsync, initialize_post_boot_state   *)
(* starts the mouse timer on the models that enable it at reset.            *)
Init ==
    /\ cycle = 0
    /\ display_period \in Displays
    /\ vsync_blanking_period \in Blanks
    /\ mouse_on \in BOOLEAN
    /\ mouse_period \in MousePeriods
    /\ fire_cycles = [Idle EXCEPT ![GdcVsync] = display_period,
                                  ![MouseTimer] = IF mouse_on THEN mouse_period ELSE Never]
    /\ next_event_cycle = NextEventCycle(fire_cycles)
    /\ processing = FALSE
    /\ due = Idle
    /\ vsync = FALSE
    /\ drawing = [g \in Drawers |-> FALSE]
    /\ mpu_on = FALSE

----------------------------------------------------------------------------
(* Time *)

\* Removes the slots due at c; the handlers then run one after the other.
PopDue(c) ==
    /\ due' = [s \in Slots |-> IF fire_cycles[s] <= c THEN fire_cycles[s] ELSE Never]
    /\ fire_cycles' = [s \in Slots |-> IF fire_cycles[s] <= c THEN Never ELSE fire_cycles[s]]
    /\ processing' = TRUE

SetCurrentCycle(c) ==
    /\ ~processing
    /\ c <= MaxCycle
    /\ cycle' = c
    /\ \/ /\ c >= next_event_cycle
          /\ PopDue(c)
       \/ /\ c < next_event_cycle
          /\ UNCHANGED <<fire_cycles, processing, due>>
    /\ UNCHANGED <<next_event_cycle, gdc, mouse, mpu_on>>

\* One instruction.
Execute == \E n \in 1 .. LongestStep : SetCurrentCycle(cycle + n)

\* A halted CPU consumes its slice, which ends at the earliest deadline.
Clamp(c, low, high) == IF c < low THEN low ELSE IF c > high THEN high ELSE c

HaltedSlice ==
    \E target_cycle \in cycle + 1 .. MaxCycle :
        SetCurrentCycle(Clamp(NextEventCycle(fire_cycles), cycle + 1, target_cycle))

----------------------------------------------------------------------------
(* Handlers: process_events takes the removed events by deadline and slot. *)

\* Mutant: the removed events are handled in the order of their slots.
ComesBySlot(s, t) == due[t] = Never \/ s <= t

Comes(s, t) == due[s] < due[t] \/ (due[s] = due[t] /\ s <= t)

Handling(s) ==
    /\ processing
    /\ due[s] # Never
    /\ \A t \in Slots : due[t] # Never => Comes(s, t)
    /\ due' = [due EXCEPT ![s] = Never]
    /\ UNCHANGED <<cycle, next_event_cycle, processing>>

HandleGdcVsync ==
    /\ Handling(GdcVsync)
    /\ vsync' = TRUE
    /\ fire_cycles' = [fire_cycles EXCEPT ![GdcDisplayStart] = cycle + vsync_blanking_period]
    /\ UNCHANGED <<drawing, display_period, vsync_blanking_period, mouse, mpu_on>>

HandleGdcDisplayStart ==
    /\ Handling(GdcDisplayStart)
    /\ vsync' = FALSE
    /\ fire_cycles' = [fire_cycles EXCEPT ![GdcVsync] = cycle + display_period]
    /\ UNCHANGED <<drawing, display_period, vsync_blanking_period, mouse, mpu_on>>

HandleGdcDrawingComplete ==
    /\ Handling(GdcDrawingComplete)
    /\ drawing' = [g \in Drawers |-> IF g = "slave" THEN FALSE ELSE drawing[g]]
    /\ UNCHANGED <<fire_cycles, vsync, display_period, vsync_blanking_period, mouse, mpu_on>>

\* Mutant: the mouse timer is one shot.
HandleMouseTimerOnce ==
    /\ Handling(MouseTimer)
    /\ UNCHANGED <<fire_cycles, gdc, mouse, mpu_on>>

HandleMouseTimer ==
    /\ Handling(MouseTimer)
    /\ fire_cycles' = IF mouse_on
                        THEN [fire_cycles EXCEPT ![MouseTimer] = cycle + mouse_period]
                        ELSE fire_cycles
    /\ UNCHANGED <<gdc, mouse, mpu_on>>

(* tick() may end a playback, after which the clock does not run.           *)
HandleMpuTimer ==
    /\ Handling(MpuTimer)
    /\ mpu_on' \in {mpu_on, FALSE}
    /\ fire_cycles' = IF mpu_on'
                        THEN [fire_cycles EXCEPT ![MpuTimer] = cycle + MpuPeriod]
                        ELSE fire_cycles
    /\ UNCHANGED <<gdc, mouse>>

EndProcess ==
    /\ processing
    /\ due = Idle
    /\ processing' = FALSE
    /\ Reschedule(fire_cycles)
    /\ UNCHANGED <<cycle, due, gdc, mouse, mpu_on>>

----------------------------------------------------------------------------
(* What the guest's port writes do, between two advances of the cycle. *)

Port == ~processing /\ UNCHANGED <<cycle, processing, due>>

\* A SYNC, RESET or VSYNC command of the master GDC, or a change of dot clock.
TimingChanged(display, blank) ==
    /\ Port
    /\ display_period' = display
    /\ vsync_blanking_period' = blank
    /\ Reschedule([fire_cycles EXCEPT ![GdcVsync] = cycle + display])
    /\ UNCHANGED <<vsync, drawing, mouse, mpu_on>>

\* A drawing command.  Only the slave's drawings take time.
Draw(g, time) ==
    /\ Port
    /\ drawing' = [drawing EXCEPT ![g] = time > 0]
    /\ IF g = "slave" /\ time > 0
         THEN Reschedule([fire_cycles EXCEPT ![GdcDrawingComplete] = cycle + time])
         ELSE UNCHANGED <<fire_cycles, next_event_cycle>>
    /\ UNCHANGED <<vsync, display_period, vsync_blanking_period, mouse, mpu_on>>

\* The RESET command ends a drawing and leaves its completion scheduled.
ResetGdc(g) ==
    /\ Port
    /\ drawing' = [drawing EXCEPT ![g] = FALSE]
    /\ UNCHANGED <<fire_cycles, next_event_cycle, vsync, display_period,
                   vsync_blanking_period, mouse, mpu_on>>

\* update_mouse_timer after a write of the mouse PPI's port C or control word.
WriteMouse(on) ==
    /\ Port
    /\ mouse_on' = on
    /\ Reschedule([fire_cycles EXCEPT ![MouseTimer] =
                     IF ~on THEN Never
                     ELSE IF IsScheduled(MouseTimer) THEN @ ELSE cycle + mouse_period])
    /\ UNCHANGED <<gdc, mouse_period, mpu_on>>

\* The mouse timer setting, port BFDBh.
WriteMouseSetting(period) ==
    /\ Port
    /\ mouse_period' = period
    /\ IF mouse_on
         THEN Reschedule([fire_cycles EXCEPT ![MouseTimer] = cycle + period])
         ELSE UNCHANGED <<fire_cycles, next_event_cycle>>
    /\ UNCHANGED <<gdc, mouse_on, mpu_on>>

(* sync_mpu_irq_and_timer after a port access that leaves the MPU's clock   *)
(* running or stopped.  It does not recompute the cached cycle.             *)
SyncMpu(on) ==
    /\ MpuUsed
    /\ Port
    /\ mpu_on' = on
    /\ fire_cycles' = [fire_cycles EXCEPT ![MpuTimer] =
                         IF ~on THEN Never
                         ELSE IF IsScheduled(MpuTimer) THEN @ ELSE cycle + MpuPeriod]
    /\ UNCHANGED <<next_event_cycle, gdc, mouse>>

----------------------------------------------------------------------------
Advance == Execute \/ HaltedSlice

Handle ==
    \/ HandleGdcVsync
    \/ HandleGdcDisplayStart
    \/ HandleGdcDrawingComplete
    \/ HandleMouseTimer
    \/ HandleMpuTimer

Guest ==
    \/ \E display \in Displays, blank \in Blanks : TimingChanged(display, blank)
    \/ \E g \in Drawers : ResetGdc(g) \/ \E time \in DrawTimes : Draw(g, time)
    \/ \E on \in BOOLEAN : WriteMouse(on) \/ SyncMpu(on)
    \/ \E period \in MousePeriods : WriteMouseSetting(period)

Next == Advance \/ Handle \/ EndProcess \/ Guest

Spec == Init /\ [][Next]_vars

----------------------------------------------------------------------------
Cycles == 0 .. Never

\* Every variable has its type.
TypeOK ==
    /\ cycle \in 0 .. MaxCycle
    /\ fire_cycles \in [Slots -> Cycles]
    /\ next_event_cycle \in Cycles
    /\ processing \in BOOLEAN
    /\ due \in [Slots -> Cycles]
    /\ vsync \in BOOLEAN
    /\ drawing \in [Drawers -> BOOLEAN]
    /\ display_period \in Displays
    /\ vsync_blanking_period \in Blanks
    /\ mouse_on \in BOOLEAN
    /\ mouse_period \in MousePeriods
    /\ mpu_on \in BOOLEAN

Overdue(s) == IsScheduled(s) /\ fire_cycles[s] <= cycle

(* Once set_current_cycle has returned, no event is overdue: the cached     *)
(* cycle it compares with is never later than a deadline.  sync_mpu_irq_    *)
(* and_timer sets a deadline without refreshing the cache, so the MPU's     *)
(* clock is excepted; that it delays no other event is part of the claim.   *)
NothingOverdue == ~processing => \A s \in Slots \ {MpuTimer} : ~Overdue(s)

(* next_event_cycle: "Returns the CPU cycle at which the next scheduled     *)
(* event fires, if any", the MPU's clock like the others.                   *)
MpuOnTime == ~processing => ~Overdue(MpuTimer)

(* A GDC that reports a drawing in progress has its completion scheduled.   *)
DrawingEnds ==
    \A g \in Drawers :
        drawing[g] => IsScheduled(GdcDrawingComplete) \/ due[GdcDrawingComplete] # Never

(* No device loses its clock, whatever is handled late, rescheduled or      *)
(* cancelled while a list of removed events is worked through: outside      *)
(* process_events the end of a blanking that has begun is scheduled, and    *)
(* otherwise the next blanking is; the mouse timer and the MPU's clock are  *)
(* scheduled exactly while their device runs them, and a drawing in         *)
(* progress has its completion scheduled.                                   *)
TimersRun ==
    ~processing => /\ IsScheduled(IF vsync THEN GdcDisplayStart ELSE GdcVsync)
                   /\ mouse_on <=> IsScheduled(MouseTimer)
                   /\ mpu_on <=> IsScheduled(MpuTimer)
                   /\ DrawingEnds

(* A blanking that has begun ends before the next one begins, whichever of  *)
(* the timings the guest programs in between and however many events one    *)
(* step makes due.  It rests on BlankAssumption.                            *)
VsyncAlternates == [][HandleGdcVsync => ~vsync]_vars
============================================================================
