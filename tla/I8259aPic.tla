----------------------------- MODULE I8259aPic -----------------------------
(***************************************************************************)
(* The two cascaded i8259A interrupt controllers of the PC-98, PC/AT, FM   *)
(* Towns and PC-88VA machines (crates/device/src/i8259a_pic.rs).           *)
(*                                                                         *)
(* A register of the chip is the set of its levels whose bit is set.  The  *)
(* chip has eight levels; the number is a parameter.  Which level of the   *)
(* master the slave is connected to differs between the machines, too.     *)
(* ICW2 and ICW4 only select the vector numbers and a bus mode, which      *)
(* nothing here depends on.                                                *)
(***************************************************************************)
EXTENDS Integers

CONSTANTS
    Levels,       \* levels of one chip (8)
    Cascade,      \* the level of the master where the slave is connected
    MasterLines, SlaveLines, \* the levels that devices are connected to
    MasterImr, SlaveImr,     \* the levels that are masked at first
    Masks,        \* the values the guest writes to an IMR
    Ocw2s,        \* the OCW2 commands the guest writes
    Reinits,      \* does the guest initialise the chips again?
    SpecialMasks, \* does the guest use the special mask mode?
    None

Level == 0 .. Levels - 1
Lines(c) == IF c = 0 THEN MasterLines ELSE SlaveLines

ASSUME LevelAssumption == Levels \in Nat \ {0} /\ Cascade \in Level
ASSUME InputAssumption ==
    /\ MasterLines \subseteq Level /\ SlaveLines \subseteq Level
    /\ MasterImr \subseteq Level /\ SlaveImr \subseteq Level
    /\ Masks \subseteq SUBSET Level
    /\ Ocw2s \subseteq [r : BOOLEAN, sl : BOOLEAN, eoi : BOOLEAN, level : Level]
    /\ Reinits \in BOOLEAN /\ SpecialMasks \in BOOLEAN
ASSUME NoneAssumption == None \notin [chip : {0, 1}, level : Level]

(* I8259aPicChipState, with what the code reads of the ICWs and of OCW3.   *)
(* ICW3 is a set of levels in the master and a number in the slave.        *)
ChipIndex == {0, 1}
Icw3(c) == IF c = 0 THEN SUBSET Level ELSE Level
Chip(c) == [ic4 : BOOLEAN, icw3 : Icw3(c), imr : SUBSET Level, isr : SUBSET Level,
            irr : SUBSET Level, ris : BOOLEAN, smm : BOOLEAN, pry : Level, write_icw : 0 .. 3]

VARIABLES
    chips,    \* master (0) and slave (1)
    irq_cache \* the result of the last has_pending_irq: "none", "yes" or "no"

picVars == <<chips, irq_cache>>

(* new *)
NewChips ==
    [c \in ChipIndex |->
       [ic4 |-> TRUE, icw3 |-> IF c = 0 THEN {Cascade} ELSE Cascade,
        imr |-> IF c = 0 THEN MasterImr ELSE SlaveImr, isr |-> {}, irr |-> {},
        ris |-> FALSE, smm |-> FALSE, pry |-> 0, write_icw |-> 0]]

PicInit == chips = NewChips /\ irq_cache = "none"

-----------------------------------------------------------------------------
(* Priority resolution.                                                    *)

(* How far a level is from the one with the highest priority. *)
Turn(n, pry) == IF n >= pry THEN n - pry ELSE n - pry + Levels

(* The loops over the levels: the first level of a set, counted from pry. *)
First(set, pry) == CHOOSE n \in set : \A k \in set : Turn(n, pry) <= Turn(k, pry)

(* The levels in service that block others. *)
Blocking(chip) == IF chip.smm THEN chip.isr \ chip.imr ELSE chip.isr

(* The requests of the slave, and those of the master with the cascade. *)
SlaveRequests(cs) == cs[1].irr \ cs[1].imr
MasterRequests(cs) ==
    (cs[0].irr \cup (IF SlaveRequests(cs) # {} THEN {cs[1].icw3} ELSE {})) \ cs[0].imr

(* Mutant of find_pending_irq: what the slave has in service does not count. *)
FindIgnoringSlaveIsr(cs) ==
    LET num  == First(MasterRequests(cs) \cup Blocking(cs[0]), cs[0].pry)
        snum == First(SlaveRequests(cs), cs[1].pry)
    IN IF MasterRequests(cs) = {} THEN None
       ELSE IF num \in cs[0].icw3
            THEN IF SlaveRequests(cs) = {} \/ snum \in cs[1].isr THEN None
                 ELSE [chip |-> 1, level |-> snum]
            ELSE IF num \in cs[0].isr THEN None ELSE [chip |-> 0, level |-> num]

(* find_pending_irq *)
FindPending(cs) ==
    LET num  == First(MasterRequests(cs) \cup Blocking(cs[0]), cs[0].pry)
        snum == First(SlaveRequests(cs) \cup Blocking(cs[1]), cs[1].pry)
    IN IF MasterRequests(cs) = {} THEN None
       ELSE IF num \in cs[0].icw3
            THEN IF SlaveRequests(cs) = {} \/ snum \in cs[1].isr THEN None
                 ELSE [chip |-> 1, level |-> snum]
            ELSE IF num \in cs[0].isr THEN None ELSE [chip |-> 0, level |-> num]

-----------------------------------------------------------------------------
(* The lines of the devices.                                               *)

Invalidate == irq_cache' = "none"

(* Mutant of set_irq: the cache is kept. *)
SetIrqKeepsCache(c, n) ==
    /\ chips' = [chips EXCEPT ![c].irr = @ \cup {n}]
    /\ UNCHANGED irq_cache

(* set_irq and clear_irq leave the cache alone when nothing changed. *)
SetIrq(c, n) ==
    /\ chips' = [chips EXCEPT ![c].irr = @ \cup {n}]
    /\ IF n \in chips[c].irr THEN UNCHANGED irq_cache ELSE Invalidate

ClearIrq(c, n) ==
    /\ chips' = [chips EXCEPT ![c].irr = @ \ {n}]
    /\ IF n \in chips[c].irr THEN Invalidate ELSE UNCHANGED irq_cache

-----------------------------------------------------------------------------
(* The interrupt output and acknowledge cycle.                             *)

(* has_pending_irq: what it returns, and its effect on the cache. *)
Answer == IF irq_cache # "none" THEN irq_cache
          ELSE IF FindPending(chips) # None THEN "yes" ELSE "no"

HasPendingIrq == irq_cache' = Answer /\ UNCHANGED chips

(* acknowledge_with_line: nothing pending is a spurious interrupt. *)
InService(chip, n) == [chip EXCEPT !.isr = @ \cup {n}, !.irr = @ \ {n}]

Acknowledge ==
    LET p == FindPending(chips) IN
    /\ Invalidate
    /\ \/ p = None /\ UNCHANGED chips
       \/ /\ p # None /\ p.chip = 0
          /\ chips' = [chips EXCEPT ![0] = InService(@, p.level)]
       \/ /\ p # None /\ p.chip = 1
          /\ chips' = [chips EXCEPT ![0] = InService(@, chips[1].icw3),
                                    ![1] = InService(@, p.level)]

-----------------------------------------------------------------------------
(* write_port0.                                                            *)

(* OCW2 names a level, or means the first one in service; without one in   *)
(* service it ends there, before the cache is invalidated.                 *)
Ocw2(c, cmd) ==
    LET level == IF cmd.sl THEN cmd.level ELSE First(chips[c].isr, chips[c].pry) IN
    IF ~cmd.sl /\ chips[c].isr = {}
    THEN chips' = [chips EXCEPT ![c].write_icw = 0] /\ UNCHANGED irq_cache
    ELSE /\ chips' = [chips EXCEPT
                        ![c].write_icw = 0,
                        ![c].pry = IF cmd.r THEN (level + 1) % Levels ELSE @,
                        ![c].isr = IF cmd.eoi THEN @ \ {level} ELSE @]
         /\ Invalidate

(* OCW3 changes RIS only with RR, and SMM only with ESMM. *)
Ocw3(c, rr, ris, esmm, smm) ==
    /\ chips' = [chips EXCEPT ![c].write_icw = 0,
                              ![c].ris = IF rr THEN ris ELSE @,
                              ![c].smm = IF esmm THEN smm ELSE @]
    /\ Invalidate

Icw1(c, ic4) ==
    /\ chips' = [chips EXCEPT ![c] = [ic4 |-> ic4, icw3 |-> @.icw3, imr |-> {}, isr |-> {},
                                      irr |-> {}, ris |-> FALSE, smm |-> FALSE, pry |-> 0,
                                      write_icw |-> 1]]
    /\ Invalidate

-----------------------------------------------------------------------------
(* write_port2: the mask, or the next initialisation word.                 *)

Ocw1(c, mask) ==
    /\ chips[c].write_icw = 0
    /\ chips' = [chips EXCEPT ![c].imr = mask]
    /\ Invalidate

(* Mutant: the sequence ends only where the index is equal to its length. *)
IcwWithoutEnd(c, word) ==
    /\ chips[c].write_icw > 0
    /\ chips' = [chips EXCEPT
                   ![c].icw3 = IF chips[c].write_icw = 2 THEN word ELSE @,
                   ![c].write_icw = IF @ + 1 = 4 /\ chips[c].ic4 THEN 0 ELSE @ + 1]
    /\ Invalidate

Icw(c, word) ==
    /\ chips[c].write_icw > 0
    /\ chips' = [chips EXCEPT
                   ![c].icw3 = IF chips[c].write_icw = 2 THEN word ELSE @,
                   ![c].write_icw = IF @ + 1 >= 3 + (IF chips[c].ic4 THEN 1 ELSE 0)
                                    THEN 0 ELSE @ + 1]
    /\ Invalidate

(* restore_state of a snapshot from when the chips were new *)
RestoreState == chips' = NewChips /\ Invalidate

-----------------------------------------------------------------------------
(* The chips with any devices, processor and program.                      *)

Devices == \E c \in ChipIndex : \E n \in Lines(c) : SetIrq(c, n) \/ ClearIrq(c, n)

Program ==
    \E c \in ChipIndex :
      \/ \E cmd \in Ocw2s : Ocw2(c, cmd)
      \/ SpecialMasks /\ \E esmm, smm \in BOOLEAN : Ocw3(c, FALSE, FALSE, esmm, smm)
      \/ \E mask \in Masks : Ocw1(c, mask)
      \/ Reinits /\ \E ic4 \in BOOLEAN : Icw1(c, ic4)
      \/ Reinits /\ \E word \in Icw3(c) : Icw(c, word)

PicNext == Devices \/ HasPendingIrq \/ Acknowledge \/ Program \/ RestoreState

PicSpec == PicInit /\ [][PicNext]_picVars

-----------------------------------------------------------------------------
(* Properties.                                                             *)

(* Type invariant; the initialisation index stays within the four ICWs. *)
PicTypeOK ==
    /\ DOMAIN chips = ChipIndex
    /\ \A c \in ChipIndex : chips[c] \in Chip(c)
    /\ irq_cache \in {"none", "yes", "no"}

(* A cached answer of has_pending_irq is the one that find_pending_irq     *)
(* would give now, however the chips were changed since.                   *)
CacheFresh == irq_cache # "none" => (irq_cache = "yes" <=> FindPending(chips) # None)

(* Where a program initialises a chip, the index into icw stays below the  *)
(* length that ICW1 announced (write_port2 writes icw[write_icw]).         *)
IcwInBounds == \A c \in ChipIndex : chips[c].write_icw <= IF chips[c].ic4 THEN 3 ELSE 2

(* has_pending_irq: "Returns true if a pending unmasked IRQ exists that is *)
(* not blocked by a higher-priority in-service interrupt."                 *)
PendingIsUnmasked ==
    LET p == FindPending(chips) IN
    p # None => /\ p.level \notin chips[p.chip].imr
                /\ p.chip = 1 => chips[1].icw3 \notin chips[0].imr
=============================================================================
