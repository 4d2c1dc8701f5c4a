----------------------------- MODULE BusProofs -----------------------------
(***************************************************************************)
(* The bus of the PC-98: EventLoop, then FloppyController.                 *)
(*                                                                         *)
(* No event but the MPU's clock stays behind its cycle, no device loses    *)
(* its clock, and blanking and display alternate, for all periods, step    *)
(* lengths and bounds.                                                     *)
(*                                                                         *)
(* The three properties speak of the moments between two process_events.   *)
(* LoopInv says what holds while a list of removed events is worked        *)
(* through: what was removed is due, what is scheduled is not, a device's  *)
(* event is in one of the two places, and the end of a blanking comes      *)
(* before the next blanking, in whichever place each of them is.           *)
(*                                                                         *)
(* An idle floppy controller has forgotten no change of a ready line, and  *)
(* the execution event the two of them share finds its command, for any    *)
(* drives and commands.  FdcInv adds, for disks of one density, that a     *)
(* scheduled execution belongs to the interface that the ports reach: a    *)
(* report of a ready change, which takes over active_interface, comes from *)
(* that same interface.                                                    *)
(***************************************************************************)
EXTENDS EventLoop, FloppyController, TLAPS

Pending(s) == IsScheduled(s) \/ due[s] # Never

\* What was removed is due, and nothing is removed outside of process_events.
DueInv ==
    \A s \in Slots : due[s] # Never => processing /\ due[s] <= cycle

\* What is scheduled is not due; outside of process_events the MPU's clock may be.
CacheInv ==
    /\ processing => \A s \in Slots : cycle < fire_cycles[s]
    /\ ~processing => \A s \in Slots \ {MpuTimer} :
                         cycle < fire_cycles[s] /\ next_event_cycle <= fire_cycles[s]

\* A device that runs has its event in exactly one of the two places.
ClockInv ==
    /\ mouse_on <=> Pending(MouseTimer)
    /\ mpu_on <=> Pending(MpuTimer)
    /\ \A s \in {MouseTimer, MpuTimer} : due[s] = Never \/ fire_cycles[s] = Never

DrawInv == "slave" \in Drawers /\ drawing["slave"] => Pending(GdcDrawingComplete)

BlankingEnd ==
    IF due[GdcDisplayStart] # Never THEN due[GdcDisplayStart] ELSE fire_cycles[GdcDisplayStart]

\* During a blanking its end is pending once, and comes before each pending
\* blanking; a blanking that display_start has scheduled while another one
\* is still to be handled leaves it the time for its own blanking.
DisplayInv ==
    /\ vsync <=> Pending(GdcDisplayStart)
    /\ due[GdcDisplayStart] = Never \/ fire_cycles[GdcDisplayStart] = Never
    /\ ~vsync => Pending(GdcVsync)
    /\ vsync => /\ \E blank \in Blanks : BlankingEnd <= cycle + blank
                /\ due[GdcVsync] # Never => BlankingEnd < due[GdcVsync]
                /\ IsScheduled(GdcVsync) => BlankingEnd < fire_cycles[GdcVsync]
    /\ due[GdcVsync] # Never /\ IsScheduled(GdcVsync)
          => \A blank \in Blanks : cycle + blank < fire_cycles[GdcVsync]

LoopInv == TypeOK /\ DueInv /\ CacheInv /\ ClockInv /\ DrawInv /\ DisplayInv

----------------------------------------------------------------------------
(* A deadline set now is in the future, and not Never. *)
LEMMA Deadlines ==
    ASSUME NEW c \in 0 .. MaxCycle
    PROVE  /\ c < Never
           /\ \A p \in Displays \cup Blanks \cup MousePeriods \cup {MpuPeriod} :
                 c + p \in Cycles /\ c < c + p /\ c + p # Never
           /\ \A p \in DrawTimes : p > 0 => c + p \in Cycles /\ c < c + p /\ c + p # Never
<1>1. Never \in Nat /\ MaxCycle \in Nat /\ MpuPeriod \in Nat \ {0}
  BY NeverAssumption, PeriodsAssumption
<1>2. MaxCycle + MpuPeriod < Never
  BY NeverAssumption
<1>3. \A p \in Displays \cup Blanks \cup MousePeriods \cup {MpuPeriod} :
        p \in Nat \ {0} /\ MaxCycle + p < Never
  BY NeverAssumption, PeriodsAssumption
<1>4. \A p \in DrawTimes : p \in Nat /\ MaxCycle + p < Never
  BY NeverAssumption, PeriodsAssumption
<1> QED BY <1>1, <1>2, <1>3, <1>4 DEF Cycles

(* The cached cycle is a lower bound of the deadlines it is computed from. *)
LEMMA NextIsEarliest ==
    ASSUME NEW f \in [Slots -> Cycles]
    PROVE  /\ NextEventCycle(f) \in Cycles
           /\ \A s \in Slots : NextEventCycle(f) <= f[s]
<1> DEFINE Earlier(i, n) == i \in 1 .. n /\ \A s \in 1 .. n : f[i] <= f[s]
<1>0. \A s \in 1 .. 5 : f[s] \in Int
  BY NeverAssumption DEF Slots, Cycles
<1>1. Earlier(1, 1)
  BY <1>0
<1>2. \E i : Earlier(i, 2)
  <2>1. CASE f[1] <= f[2]
    BY <1>0, <2>1
  <2>2. CASE f[2] <= f[1]
    BY <1>0, <2>2
  <2> QED BY <1>0, <2>1, <2>2
<1>3. \E i : Earlier(i, 3)
  <2>1. PICK i : Earlier(i, 2)
    BY <1>2
  <2>2. CASE f[i] <= f[3]
    BY <1>0, <2>1, <2>2
  <2>3. CASE f[3] <= f[i]
    BY <1>0, <2>1, <2>3
  <2> QED BY <1>0, <2>1, <2>2, <2>3
<1>4. \E i : Earlier(i, 4)
  <2>1. PICK i : Earlier(i, 3)
    BY <1>3
  <2>2. CASE f[i] <= f[4]
    BY <1>0, <2>1, <2>2
  <2>3. CASE f[4] <= f[i]
    BY <1>0, <2>1, <2>3
  <2> QED BY <1>0, <2>1, <2>2, <2>3
<1>5. \E i : Earlier(i, 5)
  <2>1. PICK i : Earlier(i, 4)
    BY <1>4
  <2>2. CASE f[i] <= f[5]
    BY <1>0, <2>1, <2>2
  <2>3. CASE f[5] <= f[i]
    BY <1>0, <2>1, <2>3
  <2> QED BY <1>0, <2>1, <2>2, <2>3
<1>6. \E c \in {f[s] : s \in Slots} : \A s \in Slots : c <= f[s]
  BY <1>5 DEF Slots
<1>7. /\ NextEventCycle(f) \in {f[s] : s \in Slots}
      /\ \A s \in Slots : NextEventCycle(f) <= f[s]
  BY <1>6 DEF NextEventCycle
<1> QED BY <1>7

----------------------------------------------------------------------------
LEMMA LoopInit == Init => LoopInv
<1> SUFFICES ASSUME Init PROVE LoopInv
  OBVIOUS
<1> USE DEF Init, Idle, Slots, GdcVsync, GdcDisplayStart, GdcDrawingComplete, MouseTimer, MpuTimer
<1>0. /\ 0 \in 0 .. MaxCycle /\ 0 < Never /\ Never \in Cycles /\ Never \in Nat
  BY NeverAssumption, Deadlines DEF Cycles
<1>1. /\ display_period \in Cycles /\ 0 < display_period /\ display_period # Never
      /\ mouse_period \in Cycles /\ 0 < mouse_period /\ mouse_period # Never
  BY <1>0, Deadlines, PeriodsAssumption DEF Cycles
<1>2. fire_cycles \in [Slots -> Cycles]
  BY <1>0, <1>1
<1>3. /\ NextEventCycle(fire_cycles) \in Cycles
      /\ \A s \in Slots : NextEventCycle(fire_cycles) <= fire_cycles[s]
  BY <1>2, NextIsEarliest
<1>4. TypeOK
  BY <1>0, <1>1, <1>2, <1>3 DEF TypeOK
<1>5. DueInv
  BY DEF DueInv
<1>6. CacheInv
  BY <1>0, <1>1, <1>3 DEF CacheInv
<1>7. ClockInv
  BY <1>0, <1>1 DEF ClockInv, Pending, IsScheduled
<1>8. DrawInv
  BY DEF DrawInv
<1>9. DisplayInv
  BY <1>0, <1>1 DEF DisplayInv, Pending, IsScheduled
<1> QED BY <1>4, <1>5, <1>6, <1>7, <1>8, <1>9 DEF LoopInv

(* The cycle advances; what is due is removed. *)
LEMMA CycleAdvances ==
    ASSUME LoopInv, NEW c \in Int, cycle < c, SetCurrentCycle(c)
    PROVE  LoopInv'
<1> USE DEF Slots, GdcVsync, GdcDisplayStart, GdcDrawingComplete, MouseTimer, MpuTimer
<1>0. /\ cycle \in 0 .. MaxCycle /\ c \in 0 .. MaxCycle /\ c < Never
      /\ Never \in Nat /\ Cycles \subseteq Int /\ Never \in Cycles
      /\ \A s \in Slots : fire_cycles[s] \in Int /\ due[s] \in Int
      /\ \A blank \in Blanks : blank \in Int
  BY Deadlines, NeverAssumption, PeriodsAssumption DEF LoopInv, TypeOK, Cycles, SetCurrentCycle
<1>1. /\ ~processing /\ cycle' = c /\ UNCHANGED <<next_event_cycle, gdc, mouse, mpu_on>>
      /\ \A s \in Slots : due[s] = Never
  BY DEF SetCurrentCycle, LoopInv, DueInv
<1>2. CASE c >= next_event_cycle /\ PopDue(c)
  <2>1. /\ processing'
        /\ \A s \in Slots :
              \/ fire_cycles[s] <= c /\ due'[s] = fire_cycles[s] /\ fire_cycles'[s] = Never
              \/ c < fire_cycles[s] /\ due'[s] = Never /\ fire_cycles'[s] = fire_cycles[s]
    BY <1>0, <1>2 DEF PopDue
  <2>2. TypeOK'
    BY <1>0, <1>1, <1>2 DEF TypeOK, PopDue, gdc, mouse, LoopInv
  <2>3. DueInv' /\ CacheInv'
    BY <1>0, <1>1, <2>1 DEF DueInv, CacheInv
  <2>4. \A s \in Slots : /\ Pending(s)' <=> Pending(s)
                         /\ due'[s] = Never \/ fire_cycles'[s] = Never
    BY <1>0, <1>1, <2>1 DEF Pending, IsScheduled
  <2>5. ClockInv' /\ DrawInv'
    BY <1>1, <2>4 DEF ClockInv, DrawInv, LoopInv, gdc, mouse
  <2>6. BlankingEnd' = BlankingEnd
    BY <1>1, <2>1 DEF BlankingEnd
  <2>7. DisplayInv'
    BY <1>0, <1>1, <2>1, <2>4, <2>6 DEF DisplayInv, LoopInv, gdc, IsScheduled, BlankingEnd
  <2> QED BY <2>2, <2>3, <2>5, <2>7 DEF LoopInv
<1>3. CASE c < next_event_cycle /\ UNCHANGED <<fire_cycles, processing, due>>
  <2>1. TypeOK'
    BY <1>0, <1>1, <1>3 DEF TypeOK, gdc, mouse, LoopInv
  <2>2. DueInv' /\ CacheInv'
    BY <1>0, <1>1, <1>3 DEF DueInv, CacheInv, LoopInv, TypeOK
  <2>3. ClockInv' /\ DrawInv'
    BY <1>1, <1>3 DEF ClockInv, DrawInv, LoopInv, gdc, mouse, Pending, IsScheduled
  <2>4. DisplayInv'
    BY <1>0, <1>1, <1>3 DEF DisplayInv, LoopInv, gdc, Pending, IsScheduled, BlankingEnd
  <2> QED BY <2>1, <2>2, <2>3, <2>4 DEF LoopInv
<1> QED BY <1>2, <1>3 DEF SetCurrentCycle

LEMMA AdvanceStep == LoopInv /\ Advance => LoopInv'
<1> SUFFICES ASSUME LoopInv, Advance PROVE LoopInv'
  OBVIOUS
<1>0. cycle \in Int /\ LongestStep \in Int /\ MaxCycle \in Int
  BY NeverAssumption, PeriodsAssumption DEF LoopInv, TypeOK
<1>1. CASE Execute
  BY <1>0, <1>1, CycleAdvances DEF Execute
<1>2. CASE HaltedSlice
  <2>1. PICK target_cycle \in cycle + 1 .. MaxCycle :
          SetCurrentCycle(Clamp(NextEventCycle(fire_cycles), cycle + 1, target_cycle))
    BY <1>2 DEF HaltedSlice
  <2>2. NextEventCycle(fire_cycles) \in Int
    BY NextIsEarliest, NeverAssumption DEF LoopInv, TypeOK, Cycles
  <2>3. /\ Clamp(NextEventCycle(fire_cycles), cycle + 1, target_cycle) \in Int
        /\ cycle < Clamp(NextEventCycle(fire_cycles), cycle + 1, target_cycle)
    BY <1>0, <2>1, <2>2 DEF Clamp
  <2> QED BY <2>1, <2>3, CycleAdvances
<1> QED BY <1>1, <1>2 DEF Advance

----------------------------------------------------------------------------
(* What the types and the bounds give every step. *)
LEMMA LoopTypes ==
    ASSUME LoopInv
    PROVE  /\ cycle \in 0 .. MaxCycle /\ cycle < Never
           /\ Never \in Cycles /\ Cycles \subseteq Int
           /\ fire_cycles \in [Slots -> Cycles] /\ due \in [Slots -> Cycles]
           /\ \A s \in Slots : fire_cycles[s] \in Int /\ due[s] \in Int
           /\ \A p \in Displays \cup Blanks \cup MousePeriods \cup {MpuPeriod} :
                 p \in Int /\ cycle + p \in Cycles /\ cycle < cycle + p /\ cycle + p # Never
           /\ \A p \in DrawTimes :
                 p > 0 => cycle + p \in Cycles /\ cycle < cycle + p /\ cycle + p # Never
<1>1. Never \in Cycles /\ Cycles \subseteq Int
  BY NeverAssumption DEF Cycles
<1>2. cycle \in 0 .. MaxCycle /\ fire_cycles \in [Slots -> Cycles] /\ due \in [Slots -> Cycles]
  BY DEF LoopInv, TypeOK
<1>3. \A p \in Displays \cup Blanks \cup MousePeriods \cup {MpuPeriod} : p \in Int
  BY PeriodsAssumption
<1> QED BY <1>1, <1>2, <1>3, Deadlines

(* HandleGdcVsync comes only when no blanking is under way: were its end    *)
(* still scheduled it would lie in the future, and were it removed as well  *)
(* it would come first.                                                     *)
LEMMA VsyncStartsBlanking ==
    ASSUME LoopInv, Handling(GdcVsync)
    PROVE  ~vsync
<1> USE DEF Slots, GdcVsync, GdcDisplayStart
<1> SUFFICES ASSUME vsync PROVE FALSE
  OBVIOUS
<1>1. processing /\ due[GdcVsync] # Never /\ due[GdcVsync] <= cycle
  BY DEF Handling, LoopInv, DueInv
<1>2. BlankingEnd < due[GdcVsync]
  BY <1>1 DEF LoopInv, DisplayInv
<1>3. CASE due[GdcDisplayStart] # Never
  BY <1>2, <1>3, LoopTypes DEF BlankingEnd, Handling, Comes
<1>4. CASE due[GdcDisplayStart] = Never
  BY <1>1, <1>2, <1>4, LoopTypes DEF BlankingEnd, LoopInv, CacheInv
<1> QED BY <1>3, <1>4

LEMMA HandleStep == LoopInv /\ Handle => LoopInv'
<1> SUFFICES ASSUME LoopInv, Handle PROVE LoopInv'
  OBVIOUS
<1> USE LoopTypes DEF Slots, GdcVsync, GdcDisplayStart, GdcDrawingComplete, MouseTimer, MpuTimer
<1>1. CASE HandleGdcVsync
  <2>1. TypeOK'
    BY <1>1 DEF HandleGdcVsync, Handling, LoopInv, TypeOK, mouse
  <2>2. DueInv' /\ CacheInv'
    BY <1>1 DEF HandleGdcVsync, Handling, LoopInv, TypeOK, DueInv, CacheInv
  <2>3. ClockInv' /\ DrawInv'
    BY <1>1 DEF HandleGdcVsync, Handling, LoopInv, ClockInv, DrawInv, Pending, IsScheduled, mouse
  <2>4. /\ ~vsync /\ due[GdcDisplayStart] = Never
        /\ vsync_blanking_period \in Blanks /\ due[GdcVsync] # Never
    BY <1>1, VsyncStartsBlanking
       DEF HandleGdcVsync, Handling, LoopInv, TypeOK, DisplayInv, Pending
  <2>5. /\ due'[GdcDisplayStart] = Never /\ due'[GdcVsync] = Never
        /\ fire_cycles'[GdcDisplayStart] = cycle + vsync_blanking_period
        /\ fire_cycles'[GdcVsync] = fire_cycles[GdcVsync] /\ vsync' /\ cycle' = cycle
    BY <1>1, <2>4 DEF HandleGdcVsync, Handling, LoopInv, TypeOK
  <2>6. DisplayInv'
    BY <2>4, <2>5 DEF LoopInv, DisplayInv, Pending, IsScheduled, BlankingEnd
  <2> QED BY <2>1, <2>2, <2>3, <2>6 DEF LoopInv
<1>2. CASE HandleGdcDisplayStart
  <2>1. TypeOK'
    BY <1>2 DEF HandleGdcDisplayStart, Handling, LoopInv, TypeOK, mouse
  <2>2. DueInv' /\ CacheInv'
    BY <1>2 DEF HandleGdcDisplayStart, Handling, LoopInv, TypeOK, DueInv, CacheInv
  <2>3. ClockInv' /\ DrawInv'
    BY <1>2 DEF HandleGdcDisplayStart, Handling, LoopInv, ClockInv, DrawInv, Pending, IsScheduled, mouse
  <2>4. display_period \in Displays /\ \A blank \in Blanks : blank < display_period
    BY BlankAssumption DEF LoopInv, TypeOK
  <2>5. /\ due'[GdcDisplayStart] = Never /\ fire_cycles'[GdcDisplayStart] = Never
        /\ fire_cycles'[GdcVsync] = cycle + display_period /\ ~vsync' /\ cycle' = cycle
    BY <1>2 DEF HandleGdcDisplayStart, Handling, LoopInv, TypeOK, DisplayInv
  <2>6. DisplayInv'
    BY <2>4, <2>5 DEF DisplayInv, Pending, IsScheduled, BlankingEnd
  <2> QED BY <2>1, <2>2, <2>3, <2>6 DEF LoopInv
<1>3. CASE HandleGdcDrawingComplete
  <2>1. TypeOK'
    BY <1>3 DEF HandleGdcDrawingComplete, Handling, LoopInv, TypeOK, mouse
  <2>2. DueInv' /\ CacheInv'
    BY <1>3 DEF HandleGdcDrawingComplete, Handling, LoopInv, TypeOK, DueInv, CacheInv
  <2>3. ClockInv' /\ DrawInv'
    BY <1>3 DEF HandleGdcDrawingComplete, Handling, LoopInv, ClockInv, DrawInv, Pending, IsScheduled, mouse
  <2>4. DisplayInv'
    BY <1>3 DEF HandleGdcDrawingComplete, Handling, LoopInv, TypeOK, DisplayInv, Pending, IsScheduled, BlankingEnd
  <2> QED BY <2>1, <2>2, <2>3, <2>4 DEF LoopInv
<1>4. CASE HandleMouseTimer
  <2>0. mouse_on /\ mouse_period \in MousePeriods
    BY <1>4 DEF HandleMouseTimer, Handling, LoopInv, TypeOK, ClockInv, Pending
  <2>1. TypeOK'
    BY <1>4 DEF HandleMouseTimer, Handling, LoopInv, TypeOK, gdc, mouse
  <2>2. DueInv' /\ CacheInv'
    BY <1>4, <2>0 DEF HandleMouseTimer, Handling, LoopInv, TypeOK, DueInv, CacheInv
  <2>3. ClockInv' /\ DrawInv'
    BY <1>4, <2>0 DEF HandleMouseTimer, Handling, LoopInv, TypeOK, ClockInv, DrawInv, Pending, IsScheduled, gdc, mouse
  <2>4. DisplayInv'
    BY <1>4, <2>0 DEF HandleMouseTimer, Handling, LoopInv, TypeOK, DisplayInv, Pending, IsScheduled, BlankingEnd, gdc
  <2> QED BY <2>1, <2>2, <2>3, <2>4 DEF LoopInv
<1>5. CASE HandleMpuTimer
  <2>0. mpu_on /\ fire_cycles[MpuTimer] = Never
    BY <1>5 DEF HandleMpuTimer, Handling, LoopInv, ClockInv, Pending
  <2>1. TypeOK'
    BY <1>5 DEF HandleMpuTimer, Handling, LoopInv, TypeOK, gdc, mouse
  <2>2. DueInv' /\ CacheInv'
    BY <1>5 DEF HandleMpuTimer, Handling, LoopInv, TypeOK, DueInv, CacheInv
  <2>3. ClockInv' /\ DrawInv'
    BY <1>5, <2>0 DEF HandleMpuTimer, Handling, LoopInv, TypeOK, ClockInv, DrawInv, Pending, IsScheduled, gdc, mouse
  <2>4. DisplayInv'
    BY <1>5 DEF HandleMpuTimer, Handling, LoopInv, TypeOK, DisplayInv, Pending, IsScheduled, BlankingEnd, gdc
  <2> QED BY <2>1, <2>2, <2>3, <2>4 DEF LoopInv
<1> QED BY <1>1, <1>2, <1>3, <1>4, <1>5 DEF Handle

(* A step that only sets deadlines in the future, and the cache from them, *)
(* keeps what the cache is used for.                                        *)
LEMMA RescheduleKeepsCache ==
    ASSUME LoopInv, NEW f \in [Slots -> Cycles], Reschedule(f), cycle' = cycle, ~processing',
           \A s \in Slots \ {MpuTimer} : cycle < f[s]
    PROVE  CacheInv' /\ next_event_cycle' \in Cycles
<1>1. next_event_cycle' \in Cycles /\ \A s \in Slots : next_event_cycle' <= fire_cycles'[s]
  BY NextIsEarliest DEF Reschedule
<1> QED BY <1>1 DEF CacheInv, Reschedule

LEMMA EndStep == LoopInv /\ EndProcess => LoopInv'
<1> SUFFICES ASSUME LoopInv, EndProcess PROVE LoopInv'
  OBVIOUS
<1> USE LoopTypes
<1>1. /\ processing /\ ~processing' /\ processing' \in BOOLEAN /\ Reschedule(fire_cycles)
      /\ UNCHANGED <<cycle, due, gdc, mouse, mpu_on>>
      /\ \A s \in Slots : due[s] = Never
  BY DEF EndProcess, Idle
<1>2. CacheInv' /\ next_event_cycle' \in Cycles
  BY <1>1, RescheduleKeepsCache DEF LoopInv, CacheInv
<1>3. TypeOK'
  BY <1>1, <1>2 DEF LoopInv, TypeOK, Reschedule, gdc, mouse
<1>4. DueInv' /\ ClockInv' /\ DrawInv'
  BY <1>1 DEF LoopInv, DueInv, ClockInv, DrawInv, Pending, IsScheduled, Reschedule, gdc, mouse
<1>5. DisplayInv'
  BY <1>1 DEF LoopInv, DisplayInv, Pending, IsScheduled, BlankingEnd, Reschedule, gdc
<1> QED BY <1>2, <1>3, <1>4, <1>5 DEF LoopInv

LEMMA GuestStep == LoopInv /\ Guest => LoopInv'
<1> SUFFICES ASSUME LoopInv, Guest PROVE LoopInv'
  OBVIOUS
<1> USE LoopTypes DEF Slots, GdcVsync, GdcDisplayStart, GdcDrawingComplete, MouseTimer, MpuTimer
<1>0. ASSUME Port
      PROVE  /\ ~processing /\ ~processing' /\ cycle' = cycle /\ due' = due
             /\ DueInv' /\ \A s \in Slots : due[s] = Never
             /\ \A s \in Slots \ {MpuTimer} :
                   cycle < fire_cycles[s] /\ next_event_cycle <= fire_cycles[s]
  BY <1>0 DEF Port, LoopInv, DueInv, CacheInv
<1>1. ASSUME NEW display \in Displays, NEW blank \in Blanks, TimingChanged(display, blank)
      PROVE  LoopInv'
  <2> DEFINE f == [fire_cycles EXCEPT ![GdcVsync] = cycle + display]
  <2>0. Port /\ Reschedule(f)
    BY <1>1 DEF TimingChanged
  <2>1. CacheInv' /\ next_event_cycle' \in Cycles
    BY <1>0, <2>0, RescheduleKeepsCache
  <2>2. TypeOK'
    BY <1>0, <1>1, <2>0, <2>1 DEF LoopInv, TypeOK, Reschedule, TimingChanged, Port, mouse
  <2>3. ClockInv' /\ DrawInv'
    BY <1>0, <1>1, <2>0
       DEF LoopInv, ClockInv, DrawInv, Pending, IsScheduled, Reschedule, TimingChanged, mouse
  <2>4. \A b \in Blanks : b < display
    BY BlankAssumption
  <2>5. /\ fire_cycles'[GdcVsync] = cycle + display /\ vsync' = vsync
        /\ fire_cycles'[GdcDisplayStart] = fire_cycles[GdcDisplayStart]
    BY <1>1, <2>0 DEF Reschedule, TimingChanged
  <2>6. DisplayInv'
    BY <1>0, <2>0, <2>4, <2>5 DEF LoopInv, DisplayInv, Pending, IsScheduled, BlankingEnd
  <2> QED BY <1>0, <2>0, <2>1, <2>2, <2>3, <2>6 DEF LoopInv
<1>2. ASSUME NEW g \in Drawers, ResetGdc(g)
      PROVE  LoopInv'
  <2>0. Port
    BY <1>2 DEF ResetGdc
  <2>1. TypeOK' /\ CacheInv'
    BY <1>0, <1>2, <2>0 DEF LoopInv, TypeOK, CacheInv, ResetGdc, Port, mouse
  <2>2. ClockInv' /\ DrawInv'
    BY <1>0, <1>2, <2>0
       DEF LoopInv, TypeOK, ClockInv, DrawInv, Pending, IsScheduled, ResetGdc, mouse
  <2>3. DisplayInv'
    BY <1>0, <1>2, <2>0 DEF LoopInv, DisplayInv, Pending, IsScheduled, BlankingEnd, ResetGdc
  <2> QED BY <1>0, <2>0, <2>1, <2>2, <2>3 DEF LoopInv
<1>3. ASSUME NEW g \in Drawers, NEW time \in DrawTimes, Draw(g, time)
      PROVE  LoopInv'
  <2>0. Port /\ UNCHANGED <<vsync, display_period, vsync_blanking_period, mouse, mpu_on>>
        /\ drawing' = [drawing EXCEPT ![g] = time > 0]
    BY <1>3 DEF Draw
  <2>1. CASE g = "slave" /\ time > 0
    <3> DEFINE f == [fire_cycles EXCEPT ![GdcDrawingComplete] = cycle + time]
    <3>0. Reschedule(f) /\ f \in [Slots -> Cycles]
      BY <1>3, <2>1 DEF Draw
    <3>1. CacheInv' /\ next_event_cycle' \in Cycles
      BY <1>0, <2>0, <2>1, <3>0, RescheduleKeepsCache
    <3>2. TypeOK'
      BY <1>0, <2>0, <2>1, <3>0, <3>1 DEF LoopInv, TypeOK, Reschedule, mouse, Port
    <3>3. ClockInv' /\ DrawInv'
      BY <1>0, <2>0, <2>1, <3>0
         DEF LoopInv, ClockInv, DrawInv, Pending, IsScheduled, Reschedule, mouse
    <3>4. DisplayInv'
      BY <1>0, <2>0, <3>0
         DEF LoopInv, DisplayInv, Pending, IsScheduled, BlankingEnd, Reschedule
    <3> QED BY <1>0, <2>0, <3>1, <3>2, <3>3, <3>4 DEF LoopInv
  <2>2. CASE ~(g = "slave" /\ time > 0)
    <3>0. UNCHANGED <<fire_cycles, next_event_cycle>>
      BY <1>3, <2>2 DEF Draw
    <3>1. TypeOK' /\ CacheInv'
      BY <1>0, <2>0, <3>0, PeriodsAssumption DEF LoopInv, TypeOK, CacheInv, mouse, Port
    <3>2. ClockInv' /\ DrawInv'
      BY <1>0, <2>0, <2>2, <3>0
         DEF LoopInv, TypeOK, ClockInv, DrawInv, Pending, IsScheduled, mouse
    <3>3. DisplayInv'
      BY <1>0, <2>0, <3>0 DEF LoopInv, DisplayInv, Pending, IsScheduled, BlankingEnd
    <3> QED BY <1>0, <2>0, <3>1, <3>2, <3>3 DEF LoopInv
  <2> QED BY <2>1, <2>2
<1>4. ASSUME NEW on \in BOOLEAN, WriteMouse(on)
      PROVE  LoopInv'
  <2> DEFINE f == [fire_cycles EXCEPT ![MouseTimer] =
                     IF ~on THEN Never
                     ELSE IF IsScheduled(MouseTimer) THEN @ ELSE cycle + mouse_period]
  <2>0. Port /\ Reschedule(f) /\ mouse_period \in MousePeriods
        /\ mouse_on' = on /\ UNCHANGED <<gdc, mouse_period, mpu_on>>
    BY <1>4 DEF WriteMouse, LoopInv, TypeOK
  <2>1. f \in [Slots -> Cycles] /\ \A s \in Slots \ {MpuTimer} : cycle < f[s]
    BY <1>0, <2>0
  <2>2. CacheInv' /\ next_event_cycle' \in Cycles
    BY <1>0, <2>0, <2>1, RescheduleKeepsCache
  <2>3. TypeOK'
    BY <1>0, <2>0, <2>1, <2>2 DEF LoopInv, TypeOK, Reschedule, gdc, Port
  <2>4. ClockInv' /\ DrawInv'
    BY <1>0, <2>0 DEF LoopInv, ClockInv, DrawInv, Pending, IsScheduled, Reschedule, gdc
  <2>5. DisplayInv'
    BY <1>0, <2>0 DEF LoopInv, DisplayInv, Pending, IsScheduled, BlankingEnd, Reschedule, gdc
  <2> QED BY <1>0, <2>0, <2>2, <2>3, <2>4, <2>5 DEF LoopInv
<1>5. ASSUME NEW period \in MousePeriods, WriteMouseSetting(period)
      PROVE  LoopInv'
  <2> DEFINE f == [fire_cycles EXCEPT ![MouseTimer] = cycle + period]
  <2>0. Port /\ UNCHANGED <<gdc, mouse_on, mpu_on>> /\ mouse_period' = period
    BY <1>5 DEF WriteMouseSetting
  <2>1. CASE mouse_on
    <3>0. Reschedule(f)
      BY <1>5, <2>1 DEF WriteMouseSetting
    <3>1. f \in [Slots -> Cycles] /\ \A s \in Slots \ {MpuTimer} : cycle < f[s]
      BY <1>0, <2>0
    <3>2. CacheInv' /\ next_event_cycle' \in Cycles
      BY <1>0, <2>0, <3>0, <3>1, RescheduleKeepsCache
    <3>3. TypeOK'
      BY <1>0, <2>0, <3>0, <3>1, <3>2 DEF LoopInv, TypeOK, Reschedule, gdc, Port
    <3>4. ClockInv' /\ DrawInv'
      BY <1>0, <2>0, <2>1, <3>0 DEF LoopInv, ClockInv, DrawInv, Pending, IsScheduled, Reschedule, gdc
    <3>5. DisplayInv'
      BY <1>0, <2>0, <3>0 DEF LoopInv, DisplayInv, Pending, IsScheduled, BlankingEnd, Reschedule, gdc
    <3> QED BY <1>0, <2>0, <3>2, <3>3, <3>4, <3>5 DEF LoopInv
  <2>2. CASE ~mouse_on
    <3>0. UNCHANGED <<fire_cycles, next_event_cycle>>
      BY <1>5, <2>2 DEF WriteMouseSetting
    <3>1. TypeOK' /\ CacheInv'
      BY <1>0, <2>0, <3>0 DEF LoopInv, TypeOK, CacheInv, gdc, Port
    <3>2. ClockInv' /\ DrawInv' /\ DisplayInv'
      BY <1>0, <2>0, <3>0
         DEF LoopInv, ClockInv, DrawInv, DisplayInv, Pending, IsScheduled, BlankingEnd, gdc
    <3> QED BY <1>0, <2>0, <3>1, <3>2 DEF LoopInv
  <2> QED BY <2>1, <2>2
<1>6. ASSUME NEW on \in BOOLEAN, SyncMpu(on)
      PROVE  LoopInv'
  <2>0. Port /\ UNCHANGED <<next_event_cycle, gdc, mouse>> /\ mpu_on' = on
        /\ fire_cycles' = [fire_cycles EXCEPT ![MpuTimer] =
                             IF ~on THEN Never
                             ELSE IF IsScheduled(MpuTimer) THEN @ ELSE cycle + MpuPeriod]
    BY <1>6 DEF SyncMpu
  <2>1. TypeOK' /\ CacheInv'
    BY <1>0, <2>0 DEF LoopInv, TypeOK, CacheInv, gdc, mouse, Port
  <2>2. ClockInv' /\ DrawInv'
    BY <1>0, <2>0 DEF LoopInv, ClockInv, DrawInv, Pending, IsScheduled, gdc, mouse
  <2>3. DisplayInv'
    BY <1>0, <2>0 DEF LoopInv, DisplayInv, Pending, IsScheduled, BlankingEnd, gdc
  <2> QED BY <1>0, <2>0, <2>1, <2>2, <2>3 DEF LoopInv
<1> QED BY <1>1, <1>2, <1>3, <1>4, <1>5, <1>6 DEF Guest

LEMMA LoopStep == LoopInv /\ [Next]_vars => LoopInv'
<1> SUFFICES ASSUME LoopInv, [Next]_vars PROVE LoopInv'
  OBVIOUS
<1>1. CASE UNCHANGED vars
  BY <1>1 DEF vars, gdc, mouse, LoopInv, TypeOK, DueInv, CacheInv, ClockInv, DrawInv, DisplayInv,
              Pending, IsScheduled, BlankingEnd
<1> QED BY <1>1, AdvanceStep, HandleStep, EndStep, GuestStep DEF Next

----------------------------------------------------------------------------
(* set_current_cycle leaves nothing behind its cycle but the MPU's clock,  *)
(* although it compares with a cached deadline that a write of the MPU's   *)
(* ports does not refresh.                                                 *)
THEOREM NothingStaysBehind == Spec => []NothingOverdue
<1>1. LoopInv => NothingOverdue
  <2> SUFFICES ASSUME LoopInv, ~processing, NEW s \in Slots \ {MpuTimer}, Overdue(s) PROVE FALSE
    BY DEF NothingOverdue
  <2>1. cycle < fire_cycles[s] /\ fire_cycles[s] <= cycle
    BY DEF LoopInv, CacheInv, Overdue
  <2> QED BY <2>1, LoopTypes
<1> QED BY <1>1, LoopInit, LoopStep, PTL DEF Spec

(* process_events and the port writes between its calls lose no device's   *)
(* event, if the guest draws with the GDC whose drawings are timed.        *)
THEOREM ClocksKeepRunning ==
    ASSUME Drawers \subseteq {"slave"}
    PROVE  Spec => []TimersRun
<1>1. LoopInv => TimersRun
  <2> SUFFICES ASSUME LoopInv, ~processing PROVE TimersRun
    BY DEF TimersRun
  <2>1. \A s \in Slots : Pending(s) <=> IsScheduled(s)
    BY DEF LoopInv, DueInv, Pending
  <2>2. /\ IsScheduled(IF vsync THEN GdcDisplayStart ELSE GdcVsync)
        /\ mouse_on <=> IsScheduled(MouseTimer)
        /\ mpu_on <=> IsScheduled(MpuTimer)
    BY <2>1 DEF LoopInv, ClockInv, DisplayInv, Slots, GdcVsync, GdcDisplayStart, MouseTimer, MpuTimer
  <2>3. DrawingEnds
    BY DEF LoopInv, DrawInv, DrawingEnds, Pending
  <2> QED BY <2>2, <2>3 DEF TimersRun
<1> QED BY <1>1, LoopInit, LoopStep, PTL DEF Spec

(* HandleGdcVsync never comes during a blanking, whatever TimingChanged    *)
(* did to the display and however late both events are handled.            *)
THEOREM BlankingAlternates == Spec => VsyncAlternates
<1>1. LoopInv /\ [Next]_vars => [HandleGdcVsync => ~vsync]_vars
  BY VsyncStartsBlanking DEF HandleGdcVsync
<1> QED BY <1>1, LoopInit, LoopStep, PTL DEF Spec, VsyncAlternates

-----------------------------------------------------------------------------
(* FloppyController.                                                       *)

Phases == {"idle", "command", "execution", "result"}
Chip == [phase : Phases, active : BOOLEAN, invalid : BOOLEAN, st0 : [Drives -> Statuses],
         reported : SUBSET Drives, pending : BOOLEAN, fry : BOOLEAN]

\* What NoChangeForgotten says of one controller, when these drives are ready.
Reports(c, ready) ==
    c.phase = "idle" /\ ~c.fry
    => \A d \in Equipped : c.st0[d] = "none" => (d \in c.reported <=> d \in ready)

\* The programs and disks under which the shared event is kept apart.
OneDensity == Careful /\ DiskTypes \subseteq {"2HD"}

\* The scheduled execution is one of the interface that the ports reach.
ExecutionInv ==
    /\ ExecutionServed
    /\ "execution" \in scheduled => active_interface = PortInterface

FdcInv ==
    /\ FdcTypeOK
    /\ Careful => NoChangeForgotten
    /\ OneDensity => ExecutionInv

-----------------------------------------------------------------------------
(* The state of a controller. *)
LEMMA ChipFields ==
    ASSUME NEW c \in Chip
    PROVE  /\ c.phase \in Phases /\ c.active \in BOOLEAN /\ c.invalid \in BOOLEAN
           /\ c.st0 \in [Drives -> Statuses] /\ c.reported \in SUBSET Drives
           /\ c.pending \in BOOLEAN /\ c.fry \in BOOLEAN
  BY DEF Chip

\* Only the request of an interrupt differs.
ButPending(c, e) ==
    /\ e \in Chip
    /\ e.phase = c.phase /\ e.active = c.active /\ e.invalid = c.invalid
    /\ e.st0 = c.st0 /\ e.reported = c.reported /\ e.fry = c.fry

LEMMA WithPending ==
    ASSUME NEW c \in Chip, NEW p \in BOOLEAN
    PROVE  ButPending(c, [c EXCEPT !.pending = p])
  BY DEF Chip, ButPending

LEMMA PendingReports ==
    ASSUME NEW c \in Chip, NEW e, ButPending(c, e), NEW ready
    PROVE  Reports(c, ready) <=> Reports(e, ready)
  BY DEF ButPending, Reports

\* What the ready polling leaves alone, and that it forgets no change.
LEMMA PollFacts ==
    ASSUME NEW c \in Chip, NEW ready \in SUBSET Drives
    PROVE  /\ Poll(c, ready) \in Chip
           /\ Poll(c, ready).phase = c.phase /\ Poll(c, ready).active = c.active
           /\ Poll(c, ready).fry = c.fry
           /\ Reports(Poll(c, ready), ready)
<1> DEFINE changed == {d \in Equipped \ Told(c) : (d \in ready) # (d \in c.reported)}
           told == [d \in Drives |-> IF d \notin changed THEN c.st0[d]
                                     ELSE IF d \in ready THEN "ready" ELSE "notready"]
           latched == (c.reported \ changed) \cup (ready \cap changed)
<1>1. CASE c.phase # "idle" \/ c.fry \/ changed = {}
  <2>1. Poll(c, ready) = c
    BY <1>1 DEF Poll
  <2>2. ASSUME c.phase = "idle", ~c.fry, NEW d \in Equipped, c.st0[d] = "none"
        PROVE  d \in c.reported <=> d \in ready
    <3>1. d \notin Told(c)
      BY <2>2 DEF Told
    <3>2. changed = {}
      BY <1>1, <2>2
    <3> QED BY <2>2, <3>1, <3>2
  <2>3. Reports(c, ready)
    BY <2>2 DEF Reports
  <2> QED BY <2>1, <2>3
<1>2. CASE ~(c.phase # "idle" \/ c.fry \/ changed = {})
  <2>1. Poll(c, ready) = [c EXCEPT !.st0 = told, !.reported = latched, !.pending = TRUE]
    BY <1>2 DEF Poll
  <2>2. told \in [Drives -> Statuses]
    BY ChipFields DEF Statuses
  <2>3. latched \in SUBSET Drives
    BY ChipFields
  <2>4. ASSUME NEW d \in Equipped, told[d] = "none"
        PROVE  d \in latched <=> d \in ready
    <3>1. d \in Drives
      BY DriveAssumption
    <3>2. d \notin changed /\ c.st0[d] = "none"
      BY <2>4, <3>1
    <3>3. d \notin Told(c)
      BY <3>2 DEF Told
    <3>4. (d \in ready) = (d \in c.reported)
      BY <3>2, <3>3
    <3> QED BY <3>2, <3>4
  <2> HIDE DEF told, latched
  <2>5. /\ Poll(c, ready) \in Chip /\ Poll(c, ready).st0 = told
        /\ Poll(c, ready).reported = latched /\ Poll(c, ready).phase = c.phase
        /\ Poll(c, ready).active = c.active /\ Poll(c, ready).fry = c.fry
    BY <2>1, <2>2, <2>3 DEF Chip
  <2> QED BY <2>4, <2>5 DEF Reports
<1> QED BY <1>1, <1>2

LEMMA LatchFacts ==
    ASSUME NEW c \in Chip, NEW d \in Drives, NEW ready \in SUBSET Drives
    PROVE  /\ Latch(c, d, ready) \in Chip
           /\ Latch(c, d, ready).phase = c.phase /\ Latch(c, d, ready).active = c.active
           /\ Latch(c, d, ready).st0 = c.st0 /\ Latch(c, d, ready).fry = c.fry
           /\ \A k : k \in Latch(c, d, ready).reported <=> k \in (IF k = d THEN ready ELSE c.reported)
<1> DEFINE latched == IF d \in ready THEN c.reported \cup {d} ELSE c.reported \ {d}
<1>1. latched \in SUBSET Drives /\ \A k : k \in latched <=> k \in (IF k = d THEN ready ELSE c.reported)
  BY ChipFields
<1>2. Latch(c, d, ready) = [c EXCEPT !.reported = latched]
  BY DEF Latch
<1> HIDE DEF latched
<1> QED BY <1>1, <1>2 DEF Chip

LEMMA DrainedChip ==
    ASSUME NEW c \in Chip
    PROVE  /\ Drained(c) \in Chip /\ Drained(c).phase = "idle"
           /\ Drained(c).active = c.active /\ Drained(c).fry = c.fry
           /\ Drained(c).st0 = c.st0 /\ Drained(c).reported = c.reported
<1>1. (Told(c) # {}) \in BOOLEAN
  OBVIOUS
<1> QED BY <1>1 DEF Drained, Chip, Phases

LEMMA SenseFacts ==
    ASSUME NEW c \in Chip
    PROVE  Sense(c) \in Chip /\ Sense(c).phase = "result" /\ Sense(c).active = c.active
<1> DEFINE d == CHOOSE n \in Told(c) : \A k \in Told(c) : n <= k
           told == [c.st0 EXCEPT ![d] = "none"]
<1>1. CASE Told(c) = {}
  BY <1>1 DEF Sense, Chip, Phases
<1>2. CASE Told(c) # {}
  <2>1. Sense(c) = [c EXCEPT !.phase = "result", !.st0 = told, !.pending = (Told(c) # {d})]
    BY <1>2 DEF Sense
  <2>2. told \in [Drives -> Statuses]
    BY ChipFields DEF Statuses
  <2>3. (Told(c) # {d}) \in BOOLEAN
    OBVIOUS
  <2> HIDE DEF told, d
  <2> QED BY <2>1, <2>2, <2>3 DEF Chip, Phases
<1> QED BY <1>1, <1>2

LEMMA ReadyFacts == Ready \in SUBSET Drives /\ \A d \in Drives : d \in Ready <=> disk[d] # None
  BY DEF Ready

LEMMA ResetFacts ==
    ASSUME NEW c \in Chip, NEW fry \in BOOLEAN
    PROVE  /\ [Reset(c) EXCEPT !.fry = fry] \in Chip
           /\ [Reset(c) EXCEPT !.fry = fry].phase = "idle"
           /\ [Reset(c) EXCEPT !.fry = fry].active = FALSE
           /\ Reports([Reset(c) EXCEPT !.fry = fry], Ready)
<1>1. NoStatus \in [Drives -> Statuses]
  BY DEF NoStatus, Statuses
<1>2. [Reset(c) EXCEPT !.fry = fry] =
         [c EXCEPT !.phase = "idle", !.active = FALSE, !.invalid = FALSE, !.st0 = NoStatus,
                   !.reported = Ready, !.pending = FALSE, !.fry = fry]
  BY DEF Reset, Chip
<1>3. /\ [Reset(c) EXCEPT !.fry = fry] \in Chip
      /\ [Reset(c) EXCEPT !.fry = fry].phase = "idle"
      /\ [Reset(c) EXCEPT !.fry = fry].active = FALSE
      /\ [Reset(c) EXCEPT !.fry = fry].reported = Ready
  BY <1>1, <1>2, ReadyFacts DEF Chip, Phases
<1> QED BY <1>3 DEF Reports

LEMMA SensedFacts ==
    ASSUME NEW c \in Chip, c.phase = "idle"
    PROVE  /\ SensedUntilInvalid(c) \in Chip /\ SensedUntilInvalid(c).phase = "idle"
           /\ SensedUntilInvalid(c).active = c.active
           /\ Reports(SensedUntilInvalid(c), Ready)
<1>1. CASE Told(c) = {}
  BY <1>1, DrainedChip, PollFacts, ReadyFacts DEF SensedUntilInvalid
<1>2. CASE Told(c) # {}
  <2> DEFINE heard == IF c.fry THEN c.reported ELSE (c.reported \ Equipped) \cup (Ready \cap Equipped)
  <2>1. SensedUntilInvalid(c) = [c EXCEPT !.st0 = NoStatus, !.pending = FALSE, !.reported = heard]
    BY <1>2 DEF SensedUntilInvalid
  <2>2. heard \in SUBSET Drives /\ (~c.fry => \A d \in Equipped : d \in heard <=> d \in Ready)
    BY ReadyFacts, ChipFields
  <2>3. NoStatus \in [Drives -> Statuses]
    BY DEF NoStatus, Statuses
  <2> HIDE DEF heard
  <2>4. /\ SensedUntilInvalid(c) \in Chip /\ SensedUntilInvalid(c).phase = c.phase
        /\ SensedUntilInvalid(c).active = c.active /\ SensedUntilInvalid(c).fry = c.fry
        /\ SensedUntilInvalid(c).reported = heard
    BY <2>1, <2>2, <2>3 DEF Chip
  <2> QED BY <2>2, <2>4 DEF Reports
<1> QED BY <1>1, <1>2

LEMMA HandledFacts ==
    ASSUME NEW c \in Chip, NEW guard \in BOOLEAN, guard => Reports(c, Ready)
    PROVE  /\ Handled(c) \in Chip /\ Handled(c).active = c.active
           /\ Handled(c).phase = "execution" <=> c.phase = "execution"
           /\ guard => Reports(Handled(c), Ready)
<1>1. CASE c.phase = "idle"
  BY <1>1, SensedFacts DEF Handled
<1>2. CASE c.phase = "result"
  <2> DEFINE d == Poll(Drained(c), Ready)
  <2>1. d \in Chip /\ d.phase = "idle" /\ d.active = c.active /\ Reports(d, Ready)
    BY DrainedChip, PollFacts, ReadyFacts
  <2>2. Handled(c) = IF c.invalid THEN d ELSE SensedUntilInvalid(d)
    BY <1>2 DEF Handled
  <2> HIDE DEF d
  <2> QED BY <1>2, <2>1, <2>2, SensedFacts
<1>3. CASE c.phase \notin {"idle", "result"}
  BY <1>3 DEF Handled
<1> QED BY <1>1, <1>2, <1>3

-----------------------------------------------------------------------------
(* The bus. *)
LEMMA PortFacts ==
    /\ PortInterface \in Interfaces
    /\ FdcTypeOK /\ OneDensity => PortInterface = IF port_exc THEN 0 ELSE 1
<1>1. PortInterface \in Interfaces
  BY DEF PortInterface, Interfaces
<1>2. ASSUME FdcTypeOK, OneDensity
      PROVE  disk[0] \in {None, "2HD"}
  BY <1>2, DriveAssumption DEF FdcTypeOK, OneDensity
<1> QED BY <1>1, <1>2 DEF PortInterface

LEMMA ChipTypes == FdcTypeOK => chips \in [Interfaces -> Chip]
  BY DEF FdcTypeOK, Chip, Phases

\* The types of everything but the controllers.
RestTypes ==
    /\ ready_pulled_up \in PulledUps
    /\ disk \in [Drives -> DiskTypes \cup {None}]
    /\ port_exc \in BOOLEAN /\ active_interface \in Interfaces
    /\ scheduled \subseteq {"execution", "interrupt"} /\ irq \subseteq Interfaces
    /\ waiting \subseteq Drives \cup {TheResult}

\* A controller neither begins nor ends the command of its execution phase,
\* unless it is reset.
Quiet(c, e) ==
    \/ (e.phase = "execution" <=> c.phase = "execution") /\ e.active = c.active
    \/ e.phase # "execution" /\ e.active = FALSE

\* A step that leaves the execution event alone, and turns to no other
\* interface than the one the ports reach, keeps ExecutionInv.
LEMMA QuietStep ==
    ASSUME FdcInv, RestTypes', chips' \in [Interfaces -> Chip],
           \A i \in Interfaces : Quiet(chips[i], chips'[i]),
           "execution" \in scheduled' <=> "execution" \in scheduled,
           active_interface' \in {active_interface, PortInterface},
           port_exc' = port_exc
    PROVE  OneDensity => ExecutionInv'
<1> SUFFICES ASSUME OneDensity PROVE ExecutionInv'
  OBVIOUS
<1>1. PortInterface' = PortInterface
  <2>1. disk'[0] \in {None, "2HD"}
    BY DriveAssumption DEF RestTypes, OneDensity
  <2>2. PortInterface' = IF port_exc' THEN 0 ELSE 1
    BY <2>1 DEF PortInterface
  <2> QED BY <2>2, PortFacts DEF FdcInv
<1>2. chips \in [Interfaces -> Chip] /\ ExecutionInv
  BY ChipTypes DEF FdcInv
<1>3. "execution" \in scheduled' => active_interface' = active_interface
  BY <1>2 DEF ExecutionInv
<1>4. ASSUME NEW i \in Interfaces
      PROVE  chips'[i].phase = "execution"
             <=> active_interface' = i /\ "execution" \in scheduled' /\ chips'[i].active
  <2>1. Quiet(chips[i], chips'[i])
    OBVIOUS
  <2>2. chips[i].active \in BOOLEAN /\ chips'[i].active \in BOOLEAN
    BY <1>2, ChipFields
  <2>3. chips[i].phase = "execution"
        <=> active_interface = i /\ "execution" \in scheduled /\ chips[i].active
    BY <1>2 DEF ExecutionInv, ExecutionServed
  <2> QED BY <1>3, <2>1, <2>2, <2>3 DEF Quiet
<1> QED BY <1>1, <1>2, <1>3, <1>4 DEF ExecutionInv, ExecutionServed

LEMMA EachReports ==
    ASSUME FdcInv, Careful
    PROVE  \A i \in Interfaces : Reports(chips[i], Ready)
  BY DEF FdcInv, Reports, NoChangeForgotten

\* What the report of a ready change does beyond the controllers' new state.
LEMMA RaiseFacts ==
    ASSUME FdcInv, NEW i \in Interfaces, NEW cs \in [Interfaces -> Chip], RaiseReadyChange(cs, i)
    PROVE  /\ chips' \in [Interfaces -> Chip]
           /\ \A j \in Interfaces : ButPending(cs[j], chips'[j])
           /\ active_interface' \in {active_interface, i}
           /\ scheduled' \subseteq {"execution", "interrupt"} /\ irq' \subseteq Interfaces
           /\ "execution" \in scheduled' <=> "execution" \in scheduled
<1>0. scheduled \subseteq {"execution", "interrupt"} /\ irq \subseteq Interfaces
  BY DEF FdcInv, FdcTypeOK
<1>1. \A j \in Interfaces : ButPending(cs[j], cs[j])
  BY DEF ButPending
<1>2. CASE chips' = cs
  BY <1>0, <1>1, <1>2 DEF RaiseReadyChange, Schedule
<1>3. CASE chips' # cs
  <2>1. /\ chips' = [cs EXCEPT ![i].pending = FALSE]
        /\ irq' = irq \cup {i} /\ scheduled' = scheduled /\ active_interface' = active_interface
    BY <1>3 DEF RaiseReadyChange
  <2> DEFINE e == [cs[i] EXCEPT !.pending = FALSE]
  <2>2. ButPending(cs[i], e)
    BY WithPending
  <2>3. chips' = [cs EXCEPT ![i] = e]
    BY <2>1
  <2> HIDE DEF e
  <2>4. e \in Chip
    BY <2>2 DEF ButPending
  <2> QED BY <1>0, <1>1, <2>1, <2>2, <2>3, <2>4
<1> QED BY <1>2, <1>3

\* The ways into the idle phase: one controller becomes c and polls.
LEMMA PollStep ==
    ASSUME FdcInv, NEW i \in Interfaces, i = PortInterface, NEW c \in Chip,
           Quiet(chips[i], c), c.phase = "idle",
           PollAndRaise(i, c), disk' = disk, ready_pulled_up' = ready_pulled_up,
           port_exc' = port_exc, waiting' \subseteq Drives \cup {TheResult}
    PROVE  FdcInv'
<1> DEFINE p == Poll(c, Ready)
           cs == [chips EXCEPT ![i] = p]
<1>1. chips \in [Interfaces -> Chip]
  BY ChipTypes DEF FdcInv
<1>2. p \in Chip /\ p.phase = c.phase /\ p.active = c.active /\ Reports(p, Ready)
  BY PollFacts, ReadyFacts
<1>3. /\ IF cs[i] # c THEN RaiseReadyChange(cs, i)
         ELSE chips' = cs /\ UNCHANGED <<scheduled, active_interface, irq>>
  BY DEF PollAndRaise
<1> HIDE DEF p
<1>4. cs \in [Interfaces -> Chip] /\ cs[i] = p /\ \A j \in Interfaces \ {i} : cs[j] = chips[j]
  BY <1>1, <1>2
<1> HIDE DEF cs
<1>5. scheduled \subseteq {"execution", "interrupt"} /\ irq \subseteq Interfaces /\ active_interface \in Interfaces
  BY DEF FdcInv, FdcTypeOK
<1>6. /\ chips' \in [Interfaces -> Chip]
      /\ \A j \in Interfaces : ButPending(cs[j], chips'[j])
      /\ active_interface' \in {active_interface, i}
      /\ scheduled' \subseteq {"execution", "interrupt"} /\ irq' \subseteq Interfaces
      /\ "execution" \in scheduled' <=> "execution" \in scheduled
  <2>1. CASE cs[i] # c
    BY <1>3, <1>4, <2>1, RaiseFacts
  <2>2. CASE cs[i] = c
    <3>1. chips' = cs /\ UNCHANGED <<scheduled, active_interface, irq>>
      BY <1>3, <2>2
    <3>2. \A j \in Interfaces : ButPending(cs[j], cs[j])
      BY <1>4 DEF ButPending
    <3> QED BY <1>4, <1>5, <3>1, <3>2
  <2> QED BY <2>1, <2>2
<1>7. RestTypes'
  BY <1>5, <1>6 DEF FdcInv, FdcTypeOK, RestTypes
<1>8. FdcTypeOK'
  BY <1>6, <1>7 DEF FdcTypeOK, RestTypes, Chip, Phases
<1>9. Ready' = Ready
  BY DEF Ready
<1>10. Careful => NoChangeForgotten'
  <2> SUFFICES ASSUME Careful PROVE NoChangeForgotten'
    OBVIOUS
  <2>1. \A j \in Interfaces : Reports(cs[j], Ready)
    BY <1>2, <1>4, EachReports
  <2>2. \A j \in Interfaces : Reports(chips'[j], Ready')
    BY <1>4, <1>6, <1>9, <2>1, PendingReports
  <2> QED BY <2>2 DEF Reports, NoChangeForgotten
<1>11. ASSUME NEW j \in Interfaces PROVE Quiet(chips[j], chips'[j])
  <2>1. CASE j = i
    BY <1>2, <1>4, <1>6, <2>1 DEF Quiet, ButPending
  <2>2. CASE j # i
    BY <1>4, <1>6, <2>2 DEF Quiet, ButPending
  <2> QED BY <2>1, <2>2
<1>12. OneDensity => ExecutionInv'
  BY <1>6, <1>7, <1>11, QuietStep
<1> QED BY <1>8, <1>10, <1>12 DEF FdcInv

\* One controller becomes c, with no more said of the events than QuietStep allows.
LEMMA OneChip ==
    ASSUME FdcInv, RestTypes', NEW i \in Interfaces, NEW c \in Chip,
           chips' = [chips EXCEPT ![i] = c], Quiet(chips[i], c),
           Careful => Reports(c, Ready), disk' = disk, port_exc' = port_exc,
           "execution" \in scheduled' <=> "execution" \in scheduled,
           active_interface' \in {active_interface, PortInterface}
    PROVE  FdcInv'
<1>1. chips \in [Interfaces -> Chip]
  BY ChipTypes DEF FdcInv
<1>2. /\ chips' \in [Interfaces -> Chip] /\ chips'[i] = c
      /\ \A j \in Interfaces \ {i} : chips'[j] = chips[j]
  BY <1>1
<1>3. FdcTypeOK'
  BY <1>2 DEF FdcTypeOK, RestTypes, Chip, Phases
<1>4. Careful => NoChangeForgotten'
  <2> SUFFICES ASSUME Careful PROVE NoChangeForgotten'
    OBVIOUS
  <2>1. Ready' = Ready
    BY DEF Ready
  <2>2. \A j \in Interfaces : Reports(chips'[j], Ready')
    BY <1>2, <2>1, EachReports
  <2> QED BY <2>2 DEF Reports, NoChangeForgotten
<1>5. \A j \in Interfaces : Quiet(chips[j], chips'[j])
  <2>1. \A j \in Interfaces \ {i} : Quiet(chips[j], chips'[j])
    BY <1>2 DEF Quiet
  <2> QED BY <1>2, <2>1
<1>6. OneDensity => ExecutionInv'
  BY <1>2, <1>5, QuietStep
<1> QED BY <1>3, <1>4, <1>6 DEF FdcInv

-----------------------------------------------------------------------------
(* One lemma for each action. *)
LEMMA InitFdc == FdcInit => FdcInv
<1> SUFFICES ASSUME FdcInit PROVE FdcInv
  OBVIOUS
<1>1. NoStatus \in [Drives -> Statuses]
  BY DEF NoStatus, Statuses
<1>2. \A i \in Interfaces : /\ BootChip(i) \in Chip /\ BootChip(i).reported = Ready
                             /\ BootChip(i).phase = "idle"
  <2>1. NewChip \in Chip /\ NewChip.reported = Ready /\ NewChip.phase = "idle"
    BY <1>1, ReadyFacts DEF NewChip, Chip, Phases
  <2>2. [d \in Drives |-> "seek"] \in [Drives -> Statuses]
    BY DEF Statuses
  <2> QED BY <2>1, <2>2 DEF BootChip, Chip
<1>3. chips \in [Interfaces -> Chip] /\ \A i \in Interfaces : chips[i] = BootChip(i)
  BY <1>2 DEF FdcInit
<1>4. FdcTypeOK
  BY <1>3 DEF FdcInit, FdcTypeOK, Interfaces, Chip, Phases
<1>5. NoChangeForgotten
  BY <1>2, <1>3 DEF NoChangeForgotten
<1>6. ExecutionInv
  BY <1>2, <1>3 DEF FdcInit, ExecutionInv, ExecutionServed
<1> QED BY <1>4, <1>5, <1>6 DEF FdcInv

\* The drives that are ready when d holds this.
ReadyWith(d, type) == IF type = None THEN Ready \ {d} ELSE Ready \cup {d}

LEMMA ChangeDiskFdc ==
    ASSUME FdcInv, NEW d \in Drives, NEW type \in DiskTypes \cup {None}, ChangeDisk(d, type)
    PROVE  FdcInv'
<1> DEFINE i == PortInterface
           ready == ReadyWith(d, type)
           polled == Poll(chips[i], ready)
           other == Latch(chips[1 - i], d, ready)
           latched == [chips EXCEPT ![1 - i] = other]
           mine == Latch(chips[i], d, ready)
<1>1. /\ chips \in [Interfaces -> Chip] /\ RestTypes
      /\ i \in Interfaces /\ (1 - i) \in Interfaces /\ 1 - i # i
      /\ \A j \in Interfaces : j = i \/ j = 1 - i
  BY ChipTypes, PortFacts DEF FdcInv, FdcTypeOK, RestTypes, Interfaces
<1>2. /\ disk' = [disk EXCEPT ![d] = type]
      /\ ready_pulled_up' = ready_pulled_up /\ waiting' = waiting
      /\ \/ ready_pulled_up /\ chips' = [latched EXCEPT ![i] = Latch(latched[i], d, ready)] /\ UNCHANGED busVars
         \/ ~ready_pulled_up /\ polled = chips[i] /\ chips' = latched /\ UNCHANGED busVars
         \/ /\ ~ready_pulled_up /\ polled # chips[i]
            /\ RaiseReadyChange([latched EXCEPT ![i] = polled], i)
            /\ UNCHANGED port_exc
  BY DEF ChangeDisk, ReadyWith
<1>3. ready \in SUBSET Drives /\ Ready' = ready
  <2>1. disk \in [Drives -> DiskTypes \cup {None}]
    BY <1>1 DEF RestTypes
  <2>2. \A k \in Drives : disk'[k] = IF k = d THEN type ELSE disk[k]
    BY <1>2, <2>1
  <2>3. \A k \in Drives : disk'[k] # None <=> k \in ready
    BY <2>2, ReadyFacts DEF ReadyWith
  <2> QED BY <2>3, ReadyFacts DEF Ready, ReadyWith
<1>4. \A k \in Drives \ {d} : k \in ready <=> k \in Ready
  BY ReadyFacts DEF ReadyWith
<1>5. ASSUME NEW j \in Interfaces
      PROVE  /\ Latch(chips[j], d, ready) \in Chip /\ Quiet(chips[j], Latch(chips[j], d, ready))
             /\ Careful => Reports(Latch(chips[j], d, ready), ready)
  <2> DEFINE c == chips[j]
             e == Latch(c, d, ready)
  <2>1. /\ e \in Chip /\ e.phase = c.phase /\ e.active = c.active /\ e.st0 = c.st0 /\ e.fry = c.fry
        /\ \A k : k \in e.reported <=> k \in (IF k = d THEN ready ELSE c.reported)
    BY <1>1, <1>3, LatchFacts
  <2>2. Careful => Reports(c, Ready)
    BY EachReports
  <2> HIDE DEF c, e
  <2>3. Careful => Reports(e, ready)
    BY <1>4, <2>1, <2>2, DriveAssumption DEF Reports
  <2>4. Quiet(c, e)
    BY <2>1 DEF Quiet
  <2> QED BY <2>1, <2>3, <2>4 DEF c, e
<1>6. /\ polled \in Chip /\ polled.phase = chips[i].phase /\ polled.active = chips[i].active
      /\ Reports(polled, ready) /\ Quiet(chips[i], polled)
  <2>1. /\ polled \in Chip /\ polled.phase = chips[i].phase /\ polled.active = chips[i].active
        /\ Reports(polled, ready)
    BY <1>1, <1>3, PollFacts
  <2> QED BY <2>1 DEF Quiet
<1>7. other \in Chip /\ mine \in Chip
  BY <1>1, <1>5
<1>8. /\ latched \in [Interfaces -> Chip] /\ latched[i] = chips[i] /\ latched[1 - i] = other
  BY <1>1, <1>7
<1>9. /\ Quiet(chips[1 - i], other) /\ Quiet(chips[i], mine)
      /\ Careful => Reports(other, ready) /\ Reports(mine, ready)
  BY <1>1, <1>5
<1> HIDE DEF polled, other, latched, mine, ready
\* In each case controller i becomes c, the other one latches, but for pending.
<1>10. PICK c \in {mine, polled} :
          /\ \A j \in Interfaces : ButPending([latched EXCEPT ![i] = c][j], chips'[j])
          /\ chips' \in [Interfaces -> Chip] /\ port_exc' = port_exc
          /\ active_interface' \in {active_interface, i}
          /\ scheduled' \subseteq {"execution", "interrupt"} /\ irq' \subseteq Interfaces
          /\ "execution" \in scheduled' <=> "execution" \in scheduled
  <2>0. ASSUME NEW c \in Chip PROVE
          /\ [latched EXCEPT ![i] = c] \in [Interfaces -> Chip]
          /\ \A j \in Interfaces : ButPending([latched EXCEPT ![i] = c][j], [latched EXCEPT ![i] = c][j])
    <3>1. [latched EXCEPT ![i] = c] \in [Interfaces -> Chip]
      BY <1>1, <1>8
    <3> QED BY <3>1 DEF ButPending
  <2>1. CASE ready_pulled_up /\ chips' = [latched EXCEPT ![i] = Latch(latched[i], d, ready)] /\ UNCHANGED busVars
    <3>1. chips' = [latched EXCEPT ![i] = mine]
      BY <2>1, <1>8 DEF mine
    <3> QED BY <1>1, <1>7, <2>0, <2>1, <3>1 DEF busVars, RestTypes
  <2>2. CASE polled = chips[i] /\ chips' = latched /\ UNCHANGED busVars
    <3>1. chips' = [latched EXCEPT ![i] = polled]
      BY <2>2, <1>8
    <3> QED BY <1>1, <1>6, <2>0, <2>2, <3>1 DEF busVars, RestTypes
  <2>3. CASE RaiseReadyChange([latched EXCEPT ![i] = polled], i) /\ UNCHANGED port_exc
    BY <1>1, <1>6, <2>0, <2>3, RaiseFacts
  <2> QED BY <1>2, <2>1, <2>2, <2>3
<1>11. c \in Chip /\ Quiet(chips[i], c) /\ (Careful => Reports(c, ready))
  BY <1>6, <1>7, <1>9
<1>12. ButPending(c, chips'[i]) /\ ButPending(other, chips'[1 - i])
  BY <1>1, <1>8, <1>10, <1>11
<1>13. RestTypes'
  BY <1>1, <1>2, <1>10 DEF RestTypes
<1>14. FdcTypeOK'
  BY <1>10, <1>13 DEF FdcTypeOK, RestTypes, Chip, Phases
<1>15. Careful => NoChangeForgotten'
  <2> SUFFICES ASSUME Careful PROVE NoChangeForgotten'
    OBVIOUS
  <2>1. Reports(chips'[i], ready) /\ Reports(chips'[1 - i], ready)
    BY <1>7, <1>9, <1>11, <1>12, PendingReports
  <2>2. \A j \in Interfaces : Reports(chips'[j], Ready')
    BY <1>1, <1>3, <2>1
  <2> QED BY <2>2 DEF Reports, NoChangeForgotten
<1>16. \A j \in Interfaces : Quiet(chips[j], chips'[j])
  <2>1. Quiet(chips[i], chips'[i]) /\ Quiet(chips[1 - i], chips'[1 - i])
    BY <1>9, <1>11, <1>12 DEF Quiet, ButPending
  <2> QED BY <1>1, <2>1
<1>17. OneDensity => ExecutionInv'
  BY <1>10, <1>13, <1>16, QuietStep
<1> QED BY <1>14, <1>15, <1>17 DEF FdcInv

LEMMA UserFdc == FdcInv /\ User => FdcInv'
  BY ChangeDiskFdc DEF User, Insert, Eject

LEMMA FdcExecutionFdc == FdcInv /\ FdcExecution => FdcInv'
<1> SUFFICES ASSUME FdcInv, FdcExecution PROVE FdcInv'
  OBVIOUS
<1> DEFINE i == active_interface
<1>1. chips \in [Interfaces -> Chip] /\ RestTypes /\ i \in Interfaces
  BY ChipTypes DEF FdcInv, FdcTypeOK, RestTypes
<1>2. /\ disk' = disk /\ ready_pulled_up' = ready_pulled_up /\ port_exc' = port_exc
      /\ active_interface' = active_interface /\ irq' = irq /\ waiting' = waiting
      /\ scheduled' \subseteq {"execution", "interrupt"} /\ "execution" \notin scheduled'
  BY <1>1 DEF FdcExecution, drives, RestTypes
<1>3. RestTypes'
  BY <1>1, <1>2 DEF RestTypes
<1>4. Ready' = Ready
  BY <1>2 DEF Ready
<1> DEFINE c == [chips[i] EXCEPT !.phase = "result", !.pending = TRUE]
<1>5. c \in Chip /\ c.phase = "result"
  BY <1>1 DEF Chip, Phases
<1>6. \/ chips[i].active /\ chips' = [chips EXCEPT ![i] = c]
      \/ ~chips[i].active /\ chips' = chips
  BY DEF FdcExecution, Complete
<1> HIDE DEF c
<1>7. /\ chips' \in [Interfaces -> Chip]
      /\ \A j \in Interfaces : chips'[j] = chips[j] \/ chips'[j] = c
  BY <1>1, <1>5, <1>6
<1>8. FdcTypeOK'
  BY <1>3, <1>7 DEF FdcTypeOK, RestTypes, Chip, Phases
<1>9. Careful => NoChangeForgotten'
  <2> SUFFICES ASSUME Careful PROVE NoChangeForgotten'
    OBVIOUS
  <2>1. Reports(c, Ready)
    BY <1>5 DEF Reports
  <2>2. \A j \in Interfaces : Reports(chips'[j], Ready')
    BY <1>4, <1>7, <2>1, EachReports
  <2> QED BY <2>2 DEF Reports, NoChangeForgotten
<1>10. OneDensity => ExecutionInv'
  <2> SUFFICES ASSUME OneDensity PROVE ExecutionInv'
    OBVIOUS
  <2>1. \A j \in Interfaces : chips'[j].phase # "execution"
    <3>1. \A j \in Interfaces : chips[j].phase = "execution" => j = i /\ chips[i].active
      BY DEF FdcInv, ExecutionInv, ExecutionServed
    <3> QED BY <1>1, <1>5, <1>6, <3>1
  <2> QED BY <1>2, <2>1 DEF ExecutionInv, ExecutionServed
<1> QED BY <1>8, <1>9, <1>10 DEF FdcInv

LEMMA FdcInterruptFdc == FdcInv /\ FdcInterrupt => FdcInv'
<1> SUFFICES ASSUME FdcInv, FdcInterrupt PROVE FdcInv'
  OBVIOUS
<1> DEFINE i == active_interface
           c == [chips[i] EXCEPT !.pending = FALSE]
<1>1. chips \in [Interfaces -> Chip] /\ RestTypes /\ i \in Interfaces
  BY ChipTypes DEF FdcInv, FdcTypeOK, RestTypes
<1>2. ButPending(chips[i], c)
  BY <1>1, WithPending
<1>3. Careful => Reports(c, Ready)
  BY <1>1, <1>2, EachReports, PendingReports
<1>4. c \in Chip /\ Quiet(chips[i], c)
  BY <1>2 DEF ButPending, Quiet
<1>5. /\ disk' = disk /\ ready_pulled_up' = ready_pulled_up /\ port_exc' = port_exc
      /\ active_interface' = active_interface /\ waiting' = waiting
      /\ scheduled' = scheduled \ {"interrupt"} /\ irq' \subseteq irq \cup {i}
      /\ chips' = [chips EXCEPT ![i] = c]
  BY DEF FdcInterrupt, drives
<1> HIDE DEF c
<1>6. RestTypes'
  BY <1>1, <1>5 DEF RestTypes
<1> QED BY <1>1, <1>3, <1>4, <1>5, <1>6, OneChip

LEMMA WriteCommandFdc == FdcInv /\ WriteCommand => FdcInv'
<1> SUFFICES ASSUME FdcInv, WriteCommand PROVE FdcInv'
  OBVIOUS
<1> DEFINE i == PortInterface
           c == [chips[i] EXCEPT !.pending = FALSE]
           begun == [c EXCEPT !.phase = "command"]
<1>1. chips \in [Interfaces -> Chip] /\ RestTypes /\ i \in Interfaces
  BY ChipTypes, PortFacts DEF FdcInv, FdcTypeOK, RestTypes
<1>2. PICK e \in {Sense(c), begun} : chips' = [chips EXCEPT ![i] = e]
  BY DEF WriteCommand
<1>3. /\ chips[i].phase = "idle" /\ disk' = disk /\ ready_pulled_up' = ready_pulled_up
      /\ UNCHANGED <<busVars, waiting>>
  BY DEF WriteCommand, drives
<1>4. c \in Chip /\ c.active = chips[i].active
  BY <1>1, WithPending DEF ButPending
<1> HIDE DEF c
<1>5. begun \in Chip /\ begun.phase = "command" /\ begun.active = c.active
  BY <1>4 DEF Chip, Phases
<1> HIDE DEF begun
<1>6. e \in Chip /\ e.phase \in {"result", "command"} /\ e.active = c.active
  BY <1>2, <1>4, <1>5, SenseFacts
<1>7. Reports(e, Ready) /\ Quiet(chips[i], e)
  BY <1>3, <1>4, <1>6 DEF Reports, Quiet
<1>8. RestTypes' /\ port_exc' = port_exc /\ scheduled' = scheduled /\ active_interface' = active_interface
  BY <1>1, <1>3 DEF RestTypes, busVars
<1> QED BY <1>1, <1>2, <1>3, <1>6, <1>7, <1>8, OneChip

LEMMA SpecifyFdc == ASSUME FdcInv, NEW i \in Interfaces, Specify(i) PROVE FdcInv'
<1> DEFINE c == [chips[i] EXCEPT !.phase = "idle"]
<1>1. chips \in [Interfaces -> Chip] /\ RestTypes
  BY ChipTypes DEF FdcInv, FdcTypeOK, RestTypes
<1>2. /\ i = PortInterface /\ chips[i].phase = "command" /\ PollAndRaise(i, c)
      /\ disk' = disk /\ ready_pulled_up' = ready_pulled_up /\ port_exc' = port_exc /\ waiting' = waiting
  BY DEF Specify, LastParameter, drives
<1>3. c \in Chip /\ c.phase = "idle" /\ c.active = chips[i].active
  BY <1>1 DEF Chip, Phases
<1> HIDE DEF c
<1>4. Quiet(chips[i], c)
  BY <1>2, <1>3 DEF Quiet
<1>5. waiting' \subseteq Drives \cup {TheResult}
  BY <1>1, <1>2 DEF RestTypes
<1> QED BY <1>2, <1>3, <1>4, <1>5, PollStep

LEMMA ReadResultFdc == ASSUME FdcInv, NEW i \in Interfaces, ReadResult(i) PROVE FdcInv'
<1>1. chips \in [Interfaces -> Chip] /\ RestTypes
  BY ChipTypes DEF FdcInv, FdcTypeOK, RestTypes
<1>2. /\ i = PortInterface /\ chips[i].phase = "result" /\ PollAndRaise(i, Drained(chips[i]))
      /\ disk' = disk /\ ready_pulled_up' = ready_pulled_up /\ port_exc' = port_exc /\ waiting' = waiting
  BY DEF ReadResult, drives
<1>3. /\ Drained(chips[i]) \in Chip /\ Drained(chips[i]).phase = "idle"
      /\ Drained(chips[i]).active = chips[i].active
  BY <1>1, DrainedChip
<1>4. Quiet(chips[i], Drained(chips[i]))
  BY <1>2, <1>3 DEF Quiet
<1>5. waiting' \subseteq Drives \cup {TheResult}
  BY <1>1, <1>2 DEF RestTypes
<1> QED BY <1>2, <1>3, <1>4, <1>5, PollStep

LEMMA SenseDriveFdc == ASSUME FdcInv, NEW i \in Interfaces, SenseDrive(i) PROVE FdcInv'
<1> DEFINE c == [chips[i] EXCEPT !.phase = "result"]
<1>1. chips \in [Interfaces -> Chip] /\ RestTypes
  BY ChipTypes DEF FdcInv, FdcTypeOK, RestTypes
<1>2. /\ chips[i].phase = "command" /\ chips' = [chips EXCEPT ![i] = c]
      /\ disk' = disk /\ ready_pulled_up' = ready_pulled_up /\ UNCHANGED <<busVars, waiting>>
  BY DEF SenseDrive, LastParameter, drives
<1>3. c \in Chip /\ c.phase = "result" /\ c.active = chips[i].active
  BY <1>1 DEF Chip, Phases
<1> HIDE DEF c
<1>4. Quiet(chips[i], c) /\ Reports(c, Ready)
  BY <1>2, <1>3 DEF Quiet, Reports
<1>5. RestTypes' /\ port_exc' = port_exc /\ scheduled' = scheduled /\ active_interface' = active_interface
  BY <1>1, <1>2 DEF RestTypes, busVars
<1> QED BY <1>2, <1>3, <1>4, <1>5, OneChip

LEMMA ScanFdc == ASSUME FdcInv, NEW i \in Interfaces, Scan(i) PROVE FdcInv'
<1> DEFINE c == [chips[i] EXCEPT !.phase = "result", !.pending = TRUE]
<1>1. chips \in [Interfaces -> Chip] /\ RestTypes
  BY ChipTypes DEF FdcInv, FdcTypeOK, RestTypes
<1>2. /\ chips[i].phase = "command" /\ chips' = [chips EXCEPT ![i] = c]
      /\ disk' = disk /\ ready_pulled_up' = ready_pulled_up /\ UNCHANGED busVars
      /\ waiting' \subseteq {TheResult}
  BY DEF Scan, LastParameter, drives, Complete, Wait
<1>3. c \in Chip /\ c.phase = "result" /\ c.active = chips[i].active
  BY <1>1 DEF Chip, Phases
<1> HIDE DEF c
<1>4. Quiet(chips[i], c) /\ Reports(c, Ready)
  BY <1>2, <1>3 DEF Quiet, Reports
<1>5. RestTypes' /\ port_exc' = port_exc /\ scheduled' = scheduled /\ active_interface' = active_interface
  BY <1>1, <1>2 DEF RestTypes, busVars
<1> QED BY <1>2, <1>3, <1>4, <1>5, OneChip

LEMMA SeekFdc == ASSUME FdcInv, NEW i \in Interfaces, NEW d \in Drives, Seek(i, d) PROVE FdcInv'
<1> DEFINE told == [chips[i].st0 EXCEPT ![d] = "seek"]
           c == [chips[i] EXCEPT !.phase = "idle", !.st0 = told, !.pending = TRUE]
<1>1. chips \in [Interfaces -> Chip] /\ RestTypes
  BY ChipTypes DEF FdcInv, FdcTypeOK, RestTypes
<1>2. /\ i = PortInterface /\ chips[i].phase = "command"
      /\ chips' = [chips EXCEPT ![i] = Poll(c, Ready)]
      /\ scheduled' = scheduled \cup {"interrupt"} /\ active_interface' = i
      /\ disk' = disk /\ ready_pulled_up' = ready_pulled_up /\ port_exc' = port_exc /\ irq' = irq
      /\ waiting' \subseteq {d}
  BY DEF Seek, LastParameter, drives, Schedule, Wait
<1>3. told \in [Drives -> Statuses]
  BY <1>1, ChipFields DEF Statuses
<1> HIDE DEF told
<1>4. c \in Chip /\ c.phase = "idle" /\ c.active = chips[i].active
  BY <1>1, <1>3 DEF Chip, Phases
<1> HIDE DEF c
<1> DEFINE p == Poll(c, Ready)
<1>5. p \in Chip /\ p.phase = "idle" /\ p.active = chips[i].active /\ Reports(p, Ready)
  BY <1>4, PollFacts, ReadyFacts
<1>6. chips' = [chips EXCEPT ![i] = p]
  BY <1>2
<1> HIDE DEF p
<1>7. Quiet(chips[i], p)
  BY <1>2, <1>5 DEF Quiet
<1>8. RestTypes'
  BY <1>1, <1>2 DEF RestTypes
<1> QED BY <1>2, <1>5, <1>6, <1>7, <1>8, OneChip

LEMMA DataFdc == ASSUME FdcInv, NEW i \in Interfaces, Data(i) PROVE FdcInv'
<1> DEFINE c == [chips[i] EXCEPT !.phase = "execution", !.active = TRUE]
<1>1. chips \in [Interfaces -> Chip] /\ RestTypes
  BY ChipTypes DEF FdcInv, FdcTypeOK, RestTypes
<1>2. /\ i = PortInterface /\ chips[i].phase = "command" /\ chips' = [chips EXCEPT ![i] = c]
      /\ scheduled' = scheduled \cup {"execution"} /\ active_interface' = i
      /\ disk' = disk /\ ready_pulled_up' = ready_pulled_up /\ port_exc' = port_exc /\ irq' = irq
      /\ waiting' \subseteq {TheResult}
  BY <1>1 DEF Data, LastParameter, drives, Schedule, Wait
<1>3. c \in Chip /\ c.phase = "execution" /\ c.active = TRUE
  BY <1>1 DEF Chip, Phases
<1> HIDE DEF c
<1>4. RestTypes'
  BY <1>1, <1>2 DEF RestTypes
<1>5. /\ chips' \in [Interfaces -> Chip] /\ chips'[i] = c
      /\ \A j \in Interfaces \ {i} : chips'[j] = chips[j]
  BY <1>1, <1>2, <1>3
<1>6. FdcTypeOK'
  BY <1>4, <1>5 DEF FdcTypeOK, RestTypes, Chip, Phases
<1>7. Careful => NoChangeForgotten'
  <2> SUFFICES ASSUME Careful PROVE NoChangeForgotten'
    OBVIOUS
  <2>1. Reports(c, Ready)
    BY <1>3 DEF Reports
  <2>2. Ready' = Ready
    BY <1>2 DEF Ready
  <2>3. \A j \in Interfaces : Reports(chips'[j], Ready')
    BY <1>5, <2>1, <2>2, EachReports
  <2> QED BY <2>3 DEF Reports, NoChangeForgotten
<1>8. OneDensity => ExecutionInv'
  <2> SUFFICES ASSUME OneDensity PROVE ExecutionInv'
    OBVIOUS
  <2>1. PortInterface' = i
    BY <1>2 DEF PortInterface
  <2>2. \A j \in Interfaces \ {i} : chips[j].phase # "execution"
    BY <1>2 DEF FdcInv, ExecutionInv, ExecutionServed
  <2> QED BY <1>2, <1>3, <1>5, <2>1, <2>2 DEF ExecutionInv, ExecutionServed
<1> QED BY <1>6, <1>7, <1>8 DEF FdcInv

LEMMA WriteControlFdc == ASSUME FdcInv, NEW i \in Interfaces, WriteControl(i) PROVE FdcInv'
<1>1. chips \in [Interfaces -> Chip] /\ RestTypes
  BY ChipTypes DEF FdcInv, FdcTypeOK, RestTypes
<1>2. PICK fry \in BOOLEAN : ResetChip(i, fry) \/ ForceReady(i, fry)
  <2>1. PICK f \in {FALSE, (i \in Forced)} : ResetChip(i, f) \/ ForceReady(i, f)
    BY DEF WriteControl
  <2> DEFINE forced == (i \in Forced)
  <2>2. forced = TRUE \/ forced = FALSE
    OBVIOUS
  <2>3. {FALSE, forced} \subseteq BOOLEAN
    BY <2>2, Zenon
  <2>4. f \in BOOLEAN
    BY <2>3, Zenon
  <2> QED BY <2>1, <2>4, Zenon
<1>3. CASE ResetChip(i, fry)
  <2> DEFINE c == [Reset(chips[i]) EXCEPT !.fry = fry]
  <2>1. c \in Chip /\ c.phase = "idle" /\ c.active = FALSE /\ Reports(c, Ready)
    BY <1>1, ResetFacts
  <2>2. /\ chips' = [chips EXCEPT ![i] = c] /\ waiting' = {}
        /\ disk' = disk /\ ready_pulled_up' = ready_pulled_up /\ UNCHANGED busVars
    BY <1>3 DEF ResetChip, drives
  <2> HIDE DEF c
  <2>3. Quiet(chips[i], c)
    BY <2>1 DEF Quiet
  <2>4. RestTypes' /\ port_exc' = port_exc /\ scheduled' = scheduled /\ active_interface' = active_interface
    BY <1>1, <2>2 DEF RestTypes, busVars
  <2> QED BY <2>1, <2>2, <2>3, <2>4, OneChip
<1>4. CASE ForceReady(i, fry)
  <2> DEFINE c == [chips[i] EXCEPT !.fry = fry]
  <2>1. /\ c \in Chip /\ c.phase = chips[i].phase /\ c.active = chips[i].active
        /\ c.st0 = chips[i].st0 /\ c.reported = chips[i].reported /\ c.fry = fry
    BY <1>1 DEF Chip
  <2>2. /\ chips' = [chips EXCEPT ![i] = c] /\ (Careful /\ chips[i].fry => fry)
        /\ disk' = disk /\ ready_pulled_up' = ready_pulled_up /\ UNCHANGED <<busVars, waiting>>
    BY <1>4 DEF ForceReady, drives
  <2> HIDE DEF c
  <2>3. Quiet(chips[i], c)
    BY <2>1 DEF Quiet
  <2>4. Careful => Reports(c, Ready)
    <3>1. chips[i].fry \in BOOLEAN
      BY <1>1, ChipFields
    <3> QED BY <2>1, <2>2, <3>1, EachReports DEF Reports
  <2>5. RestTypes' /\ port_exc' = port_exc /\ scheduled' = scheduled /\ active_interface' = active_interface
    BY <1>1, <2>2 DEF RestTypes, busVars
  <2> QED BY <2>1, <2>2, <2>3, <2>4, <2>5, OneChip
<1> QED BY <1>2, <1>3, <1>4

LEMMA SelectInterfaceFdc == FdcInv /\ SelectInterface => FdcInv'
<1> SUFFICES ASSUME FdcInv, SelectInterface PROVE FdcInv'
  OBVIOUS
<1>1. /\ port_exc' \in BOOLEAN /\ chips' = chips /\ disk' = disk /\ ready_pulled_up' = ready_pulled_up
      /\ active_interface' = active_interface /\ scheduled' = scheduled /\ irq' = irq
      /\ waiting' = waiting /\ (Careful => "execution" \notin scheduled)
  BY ProgramAssumption DEF SelectInterface, drives
<1>2. FdcTypeOK'
  BY <1>1 DEF FdcInv, FdcTypeOK
<1>3. Careful => NoChangeForgotten'
  BY <1>1 DEF FdcInv, NoChangeForgotten, Ready
<1>4. OneDensity => ExecutionInv'
  BY <1>1 DEF FdcInv, OneDensity, ExecutionInv, ExecutionServed
<1> QED BY <1>2, <1>3, <1>4 DEF FdcInv

LEMMA BiosInterruptFdc == ASSUME FdcInv, NEW i \in Interfaces, BiosInterrupt(i) PROVE FdcInv'
<1> DEFINE c == Handled(chips[i])
<1>1. chips \in [Interfaces -> Chip] /\ RestTypes
  BY ChipTypes DEF FdcInv, FdcTypeOK, RestTypes
<1>2. /\ chips' = [chips EXCEPT ![i] = c] /\ irq' \subseteq irq /\ waiting' \subseteq waiting
      /\ disk' = disk /\ ready_pulled_up' = ready_pulled_up /\ port_exc' = port_exc
      /\ active_interface' = active_interface /\ scheduled' = scheduled
  BY DEF BiosInterrupt, drives
<1>3. /\ c \in Chip /\ c.active = chips[i].active
      /\ c.phase = "execution" <=> chips[i].phase = "execution"
      /\ Careful => Reports(c, Ready)
  BY <1>1, EachReports, HandledFacts, ProgramAssumption
<1> HIDE DEF c
<1>4. Quiet(chips[i], c)
  BY <1>3 DEF Quiet
<1>5. RestTypes'
  BY <1>1, <1>2 DEF RestTypes
<1> QED BY <1>2, <1>3, <1>4, <1>5, OneChip

-----------------------------------------------------------------------------
LEMMA FdcInvariance == FdcSpec => []FdcInv
<1>1. FdcInit => FdcInv
  BY InitFdc
<1>2. FdcInv /\ [FdcNext]_fdcVars => FdcInv'
  <2> SUFFICES ASSUME FdcInv, [FdcNext]_fdcVars PROVE FdcInv'
    OBVIOUS
  <2>1. CASE UNCHANGED fdcVars
    BY <2>1 DEF fdcVars, busVars, drives, FdcInv, FdcTypeOK, NoChangeForgotten, Ready,
                ExecutionInv, ExecutionServed, PortInterface
  <2>2. CASE User \/ Events
    BY <2>2, UserFdc, FdcExecutionFdc, FdcInterruptFdc DEF Events
  <2>3. CASE Program
    BY <2>3, WriteCommandFdc, SelectInterfaceFdc, SpecifyFdc, SenseDriveFdc, SeekFdc, DataFdc,
       ScanFdc, ReadResultFdc, WriteControlFdc DEF Program, Parameters
  <2>4. CASE Bios
    BY <2>4, BiosInterruptFdc DEF Bios
  <2> QED BY <2>1, <2>2, <2>3, <2>4 DEF FdcNext
<1> QED BY <1>1, <1>2, PTL DEF FdcSpec

(* Every variable of the two controllers and their bus keeps its type,     *)
(* whatever the program, the user and the BIOS do.                         *)
THEOREM FdcTypeCorrect == FdcSpec => []FdcTypeOK
<1>1. FdcInv => FdcTypeOK
  BY DEF FdcInv
<1> QED BY <1>1, FdcInvariance, PTL

(* With any drives and disks: each way of an idle uPD765A into and out of  *)
(* its commands polls the ready lines, so that it has reported each change *)
(* of a drive whose last status was taken, if the program takes FRY away   *)
(* only by a reset.                                                        *)
THEOREM NoChangeIsForgotten ==
    ASSUME Careful
    PROVE  FdcSpec => []NoChangeForgotten
<1>1. FdcInv => NoChangeForgotten
  BY DEF FdcInv
<1> QED BY <1>1, FdcInvariance, PTL

(* With any drives, while all disks are of high density (a disk of another *)
(* density in drive 0 moves the ports to the other interface) and the      *)
(* program waits after a reset before it turns to the other interface, the *)
(* execution event that the two uPD765A share finds the command it was     *)
(* scheduled for, and never one that was ended.                            *)
THEOREM ExecutionIsServed ==
    ASSUME Careful, DiskTypes \subseteq {"2HD"}
    PROVE  FdcSpec => []ExecutionServed
<1>1. OneDensity
  BY DEF OneDensity
<1>2. FdcInv => ExecutionServed
  BY <1>1 DEF FdcInv, ExecutionInv
<1> QED BY <1>2, FdcInvariance, PTL
=============================================================================
