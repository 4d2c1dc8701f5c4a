------------------------ MODULE InterruptPathProofs ------------------------
(***************************************************************************)
(* The interrupt controllers and the path from them to the handlers.       *)
(*                                                                         *)
(* The controllers alone, with any program: the registers keep their types *)
(* and the initialisation index its bounds (PicInv, inductive together     *)
(* since the index is bounded by what ICW1 announced), and the cached      *)
(* answer of has_pending_irq is never stale.                               *)
(*                                                                         *)
(* With the processor: it acts on pending_irq, a copy of that answer.      *)
(* PathInv follows the value back to where it is used without being asked  *)
(* for again, so a running processor acknowledges only what is pending.    *)
(*                                                                         *)
(* With the handlers: a non-specific EOI ends the least level in service,  *)
(* so ServiceInv says not only that the chips have in service what the     *)
(* running handlers serve, but also that every handler outranks those that *)
(* it interrupted, with the slave counting as the cascade of the master.   *)
(*                                                                         *)
(* All for every number of levels, every cascade level and every nesting.  *)
(***************************************************************************)
EXTENDS InterruptPath, WellFoundedInduction, SequenceTheorems, TLAPS

-----------------------------------------------------------------------------
(* Priority resolution.                                                    *)

(* A set of naturals that is not empty has a least element. *)
LEMMA LeastNatural ==
    ASSUME NEW T, T \subseteq Nat, T # {}
    PROVE  \E x \in T : \A y \in T : x <= y
<1>1. PICK x \in T : \A y \in T : ~(<<y, x>> \in OpToRel(<, Nat))
  BY NatLessThanWellFounded, WFMin
<1>2. \A y \in T : <<y, x>> \in OpToRel(<, Nat) <=> y < x
  BY DEF OpToRel
<1>3. \A y \in T : x <= y
  <2> SUFFICES ASSUME NEW y \in T PROVE x <= y
    OBVIOUS
  <2>1. x \in Nat /\ y \in Nat /\ ~(y < x)
    BY <1>1, <1>2
  <2> QED BY <2>1
<1> QED BY <1>3

(* The scan of find_pending_irq and of the non-specific EOI ends at a      *)
(* level of the set, and none of the set comes before it.                  *)
LEMMA FirstIsFirst ==
    ASSUME NEW set, set \subseteq Level, set # {}, NEW pry \in Level
    PROVE  /\ First(set, pry) \in set
           /\ \A k \in set : Turn(First(set, pry), pry) <= Turn(k, pry)
<1> DEFINE T == {Turn(n, pry) : n \in set}
<1>0. ASSUME NEW n \in Level PROVE Turn(n, pry) \in Nat
  <2>1. n \in Int /\ pry \in Int /\ Levels \in Int /\ 0 <= n /\ pry < Levels
    BY LevelAssumption DEF Level
  <2> QED BY <2>1 DEF Turn
<1>1. T \subseteq Nat /\ T # {}
  BY <1>0
<1>2. PICK x \in T : \A y \in T : x <= y
  BY <1>1, LeastNatural
<1>3. \E n \in set : \A k \in set : Turn(n, pry) <= Turn(k, pry)
  BY <1>2
<1> QED BY <1>3 DEF First

(* What find_pending_irq finds is a request that its own chip lets through. *)
LEMMA FindsRequest ==
    ASSUME NEW cs, \A c \in ChipIndex : cs[c] \in Chip(c), FindPending(cs) # None
    PROVE  /\ FindPending(cs) \in [chip : ChipIndex, level : Level]
           /\ FindPending(cs).chip = 0 => FindPending(cs).level \in MasterRequests(cs)
           /\ FindPending(cs).chip = 1 => FindPending(cs).level \in SlaveRequests(cs)
<1> DEFINE ms == MasterRequests(cs) \cup Blocking(cs[0])
           ss == SlaveRequests(cs) \cup Blocking(cs[1])
<1>0. cs[0] \in Chip(0) /\ cs[1] \in Chip(1)
  BY DEF ChipIndex
<1>1. /\ ms \subseteq Level /\ ss \subseteq Level
      /\ cs[0].pry \in Level /\ cs[1].pry \in Level
  BY <1>0 DEF Chip, Icw3, MasterRequests, SlaveRequests, Blocking
<1>2. MasterRequests(cs) # {}
  BY DEF FindPending
<1>3. First(ms, cs[0].pry) \in ms
  BY <1>1, <1>2, FirstIsFirst
<1>4. CASE First(ms, cs[0].pry) \in cs[0].icw3
  <2>1. SlaveRequests(cs) # {} /\ First(ss, cs[1].pry) \notin cs[1].isr
    BY <1>2, <1>4 DEF FindPending
  <2>2. First(ss, cs[1].pry) \in ss
    BY <1>1, <2>1, FirstIsFirst
  <2>3. FindPending(cs) = [chip |-> 1, level |-> First(ss, cs[1].pry)]
    BY <1>2, <1>4, <2>1 DEF FindPending
  <2>4. Blocking(cs[1]) \subseteq cs[1].isr
    BY DEF Blocking
  <2> QED BY <1>1, <2>1, <2>2, <2>3, <2>4 DEF ChipIndex
<1>5. CASE First(ms, cs[0].pry) \notin cs[0].icw3
  <2>1. First(ms, cs[0].pry) \notin cs[0].isr
    BY <1>2, <1>5 DEF FindPending
  <2>2. FindPending(cs) = [chip |-> 0, level |-> First(ms, cs[0].pry)]
    BY <1>2, <1>5, <2>1 DEF FindPending
  <2>3. Blocking(cs[0]) \subseteq cs[0].isr
    BY DEF Blocking
  <2> QED BY <1>1, <1>3, <2>1, <2>2, <2>3 DEF ChipIndex
<1> QED BY <1>4, <1>5

(* find_pending_irq looks only at these registers. *)
LEMMA PendingFromRegisters ==
    ASSUME NEW cs, NEW ds,
           \A i \in ChipIndex : /\ ds[i].icw3 = cs[i].icw3 /\ ds[i].imr = cs[i].imr
                                /\ ds[i].isr = cs[i].isr /\ ds[i].irr = cs[i].irr
                                /\ ds[i].smm = cs[i].smm /\ ds[i].pry = cs[i].pry
    PROVE  FindPending(ds) = FindPending(cs)
<1>2. SlaveRequests(ds) = SlaveRequests(cs)
  BY DEF SlaveRequests, ChipIndex
<1>3. MasterRequests(ds) = MasterRequests(cs)
  BY <1>2 DEF MasterRequests, ChipIndex
<1>4. Blocking(ds[0]) = Blocking(cs[0]) /\ Blocking(ds[1]) = Blocking(cs[1])
  BY DEF Blocking, ChipIndex
<1> QED BY <1>2, <1>3, <1>4 DEF FindPending, ChipIndex

-----------------------------------------------------------------------------
(* The registers.                                                          *)

PicInv == PicTypeOK /\ IcwInBounds

(* The chips of a new controller have their types. *)
LEMMA NewChipsType ==
    /\ DOMAIN NewChips = ChipIndex
    /\ \A c \in ChipIndex : NewChips[c] \in Chip(c) /\ NewChips[c].write_icw = 0
<1>1. /\ MasterImr \in SUBSET Level /\ SlaveImr \in SUBSET Level
      /\ {Cascade} \in SUBSET Level /\ Cascade \in Level /\ 0 \in Level
  BY LevelAssumption, InputAssumption DEF Level
<1>2. DOMAIN NewChips = ChipIndex
  BY DEF NewChips
<1>3. NewChips[0] \in Chip(0) /\ NewChips[0].write_icw = 0
  BY <1>1 DEF NewChips, ChipIndex, Chip, Icw3
<1>4. NewChips[1] \in Chip(1) /\ NewChips[1].write_icw = 0
  BY <1>1 DEF NewChips, ChipIndex, Chip, Icw3
<1> QED BY <1>2, <1>3, <1>4 DEF ChipIndex

(* A new controller satisfies the invariant. *)
LEMMA PicInvInit == PicInit => PicInv
BY NewChipsType DEF PicInit, PicInv, PicTypeOK, IcwInBounds

(* A chip that changed keeps the invariant if its new record does. *)
LEMMA OneChipChanged ==
    ASSUME PicInv, NEW c \in ChipIndex, NEW new \in Chip(c),
           new.write_icw <= IF new.ic4 THEN 3 ELSE 2,
           chips' = [chips EXCEPT ![c] = new], irq_cache' \in {"none", "yes", "no"}
    PROVE  PicInv'
BY DEF PicInv, PicTypeOK, IcwInBounds

(* The words that end or interrupt an initialisation. *)
LEMMA IndexReset ==
    ASSUME PicInv, NEW c \in ChipIndex, NEW new \in Chip(c), new.write_icw = 0,
           chips' = [chips EXCEPT ![c] = new], irq_cache' \in {"none", "yes", "no"}
    PROVE  PicInv'
<1>1. 0 <= IF new.ic4 THEN 3 ELSE 2
  OBVIOUS
<1> QED BY <1>1, OneChipChanged

(* set_irq and clear_irq. *)
LEMMA LineKeepsInv ==
    ASSUME PicInv, NEW c \in ChipIndex, NEW n \in Level, SetIrq(c, n) \/ ClearIrq(c, n)
    PROVE  PicInv'
<1>1. CASE SetIrq(c, n)
  <2> DEFINE new == [chips[c] EXCEPT !.irr = @ \cup {n}]
  <2>1. new \in Chip(c) /\ new.write_icw = chips[c].write_icw /\ new.ic4 = chips[c].ic4
    BY DEF PicInv, PicTypeOK, Chip
  <2>2. chips' = [chips EXCEPT ![c] = new] /\ irq_cache' \in {"none", "yes", "no"}
    BY <1>1 DEF SetIrq, Invalidate, PicInv, PicTypeOK
  <2> HIDE DEF new
  <2> QED BY <2>1, <2>2, OneChipChanged DEF PicInv, IcwInBounds
<1>2. CASE ClearIrq(c, n)
  <2> DEFINE new == [chips[c] EXCEPT !.irr = @ \ {n}]
  <2>1. new \in Chip(c) /\ new.write_icw = chips[c].write_icw /\ new.ic4 = chips[c].ic4
    BY DEF PicInv, PicTypeOK, Chip
  <2>2. chips' = [chips EXCEPT ![c] = new] /\ irq_cache' \in {"none", "yes", "no"}
    BY <1>2 DEF ClearIrq, Invalidate, PicInv, PicTypeOK
  <2> HIDE DEF new
  <2> QED BY <2>1, <2>2, OneChipChanged DEF PicInv, IcwInBounds
<1> QED BY <1>1, <1>2

(* The record of a chip after an acknowledge. *)
LEMMA InServiceTyped ==
    ASSUME NEW c \in ChipIndex, NEW chip \in Chip(c), NEW n \in Level
    PROVE  /\ InService(chip, n) \in Chip(c)
           /\ InService(chip, n).write_icw = chip.write_icw
           /\ InService(chip, n).ic4 = chip.ic4
BY DEF Chip, InService

(* acknowledge_with_line, for a line of either chip. *)
LEMMA AcknowledgeKeepsInv ==
    ASSUME PicInv, Acknowledge
    PROVE  PicInv'
<1> DEFINE p == FindPending(chips)
<1>0. /\ DOMAIN chips = ChipIndex /\ chips[0] \in Chip(0) /\ chips[1] \in Chip(1)
      /\ irq_cache' \in {"none", "yes", "no"}
  BY DEF PicInv, PicTypeOK, ChipIndex, Acknowledge, Invalidate
<1>1. CASE p = None
  BY <1>1, <1>0 DEF Acknowledge, PicInv, PicTypeOK, IcwInBounds
<1>2. CASE p # None /\ p.chip = 0
  <2>1. p.level \in Level
    BY <1>2, FindsRequest DEF PicInv, PicTypeOK
  <2>2. chips' = [chips EXCEPT ![0] = InService(chips[0], p.level)]
    BY <1>0, <1>2 DEF Acknowledge, ChipIndex
  <2> HIDE DEF p
  <2> QED BY <1>0, <2>1, <2>2, InServiceTyped, OneChipChanged DEF PicInv, IcwInBounds, ChipIndex
<1>3. CASE p # None /\ p.chip = 1
  <2>1. p.level \in Level /\ chips[1].icw3 \in Level
    BY <1>0, <1>3, FindsRequest DEF PicInv, PicTypeOK, Chip, Icw3
  <2>2. chips' = [chips EXCEPT ![0] = InService(chips[0], chips[1].icw3),
                               ![1] = InService(chips[1], p.level)]
    BY <1>0, <1>3 DEF Acknowledge, ChipIndex
  <2> HIDE DEF p
  <2>3. /\ DOMAIN chips' = ChipIndex
        /\ chips'[0] = InService(chips[0], chips[1].icw3)
        /\ chips'[1] = InService(chips[1], p.level)
    BY <1>0, <2>2 DEF ChipIndex
  <2>4. \A c \in ChipIndex : /\ chips'[c] \in Chip(c)
                            /\ chips'[c].write_icw = chips[c].write_icw
                            /\ chips'[c].ic4 = chips[c].ic4
    BY <1>0, <2>1, <2>3, InServiceTyped DEF ChipIndex
  <2> QED BY <1>0, <2>3, <2>4 DEF PicInv, PicTypeOK, IcwInBounds
<1>4. p # None => p.chip \in {0, 1}
  BY FindsRequest DEF PicInv, PicTypeOK, ChipIndex
<1> QED BY <1>1, <1>2, <1>3, <1>4

(* write_port0, OCW2: the EOI and rotation commands. *)
LEMMA Ocw2KeepsInv ==
    ASSUME PicInv, NEW c \in ChipIndex, NEW cmd \in Ocw2s, Ocw2(c, cmd)
    PROVE  PicInv'
<1> DEFINE level == IF cmd.sl THEN cmd.level ELSE First(chips[c].isr, chips[c].pry)
           set   == [chips[c] EXCEPT !.write_icw = 0]
           new   == [chips[c] EXCEPT !.write_icw = 0,
                                     !.pry = IF cmd.r THEN (level + 1) % Levels ELSE @,
                                     !.isr = IF cmd.eoi THEN @ \ {level} ELSE @]
<1>0. chips[c] \in Chip(c) /\ DOMAIN chips = ChipIndex /\ irq_cache \in {"none", "yes", "no"}
  BY DEF PicInv, PicTypeOK
<1>1. CASE ~cmd.sl /\ chips[c].isr = {}
  <2>1. chips' = [chips EXCEPT ![c] = set] /\ irq_cache' = irq_cache
    BY <1>0, <1>1 DEF Ocw2
  <2>2. set \in Chip(c) /\ set.write_icw = 0
    BY <1>0 DEF Chip
  <2> HIDE DEF set
  <2> QED BY <1>0, <2>1, <2>2, IndexReset
<1>2. CASE cmd.sl \/ chips[c].isr # {}
  <2>1. level \in Level
    <3>1. chips[c].isr \subseteq Level /\ chips[c].pry \in Level /\ cmd.level \in Level
      BY <1>0, InputAssumption DEF Chip
    <3> QED BY <1>2, <3>1, FirstIsFirst
  <2>2. (level + 1) % Levels \in Level
    <3> HIDE DEF level
    <3> QED BY <2>1, LevelAssumption DEF Level
  <2>3. chips' = [chips EXCEPT ![c] = new] /\ irq_cache' = "none"
    BY <1>0, <1>2 DEF Ocw2, Invalidate
  <2>4. new \in Chip(c) /\ new.write_icw = 0
    <3>1. /\ (IF cmd.r THEN (level + 1) % Levels ELSE chips[c].pry) \in Level
          /\ (IF cmd.eoi THEN chips[c].isr \ {level} ELSE chips[c].isr) \in SUBSET Level
      BY <1>0, <2>2 DEF Chip
    <3>2. PICK pry \in Level, isr \in SUBSET Level :
             new = [chips[c] EXCEPT !.write_icw = 0, !.pry = pry, !.isr = isr]
      BY <3>1
    <3> HIDE DEF new
    <3>3. PICK chip \in Chip(c) : chip = chips[c]
      BY <1>0
    <3>4. [chip EXCEPT !.write_icw = 0] \in Chip(c)
      BY DEF Chip
    <3>5. [chip EXCEPT !.write_icw = 0, !.pry = pry] \in Chip(c)
      BY <3>4 DEF Chip
    <3>6. [chip EXCEPT !.write_icw = 0, !.pry = pry, !.isr = isr] \in Chip(c)
      BY <3>5 DEF Chip
    <3>7. [chip EXCEPT !.write_icw = 0, !.pry = pry, !.isr = isr].write_icw = 0
      BY DEF Chip
    <3> QED BY <3>2, <3>3, <3>6, <3>7
  <2> HIDE DEF new
  <2> QED BY <2>3, <2>4, IndexReset
<1> QED BY <1>1, <1>2

(* write_port0, OCW3. *)
LEMMA Ocw3KeepsInv ==
    ASSUME PicInv, NEW c \in ChipIndex, NEW rr \in BOOLEAN, NEW ris \in BOOLEAN,
           NEW esmm \in BOOLEAN, NEW smm \in BOOLEAN, Ocw3(c, rr, ris, esmm, smm)
    PROVE  PicInv'
<1>1. PICK chip \in Chip(c) : chip = chips[c]
  BY DEF PicInv, PicTypeOK
<1>2. PICK r \in BOOLEAN, m \in BOOLEAN :
         r = (IF rr THEN ris ELSE chip.ris) /\ m = (IF esmm THEN smm ELSE chip.smm)
  BY DEF Chip
<1> DEFINE new == [chip EXCEPT !.write_icw = 0, !.ris = r, !.smm = m]
<1>3. new \in Chip(c) /\ new.write_icw = 0
  <2>1. [chip EXCEPT !.write_icw = 0] \in Chip(c)
    BY DEF Chip
  <2>2. [chip EXCEPT !.write_icw = 0, !.ris = r] \in Chip(c)
    BY <2>1 DEF Chip
  <2>3. new \in Chip(c)
    BY <2>2 DEF Chip
  <2>4. new.write_icw = 0
    BY DEF Chip
  <2> QED BY <2>3, <2>4
<1>4. chips' = [chips EXCEPT ![c] = new] /\ irq_cache' = "none"
  BY <1>1, <1>2 DEF Ocw3, Invalidate, PicInv, PicTypeOK
<1> HIDE DEF new
<1> QED BY <1>3, <1>4, IndexReset

(* write_port0, ICW1: the index starts at one. *)
LEMMA Icw1KeepsInv ==
    ASSUME PicInv, NEW c \in ChipIndex, NEW ic4 \in BOOLEAN, Icw1(c, ic4)
    PROVE  PicInv'
<1>1. PICK chip \in Chip(c) : chip = chips[c]
  BY DEF PicInv, PicTypeOK
<1> DEFINE new == [ic4 |-> ic4, icw3 |-> chip.icw3, imr |-> {}, isr |-> {}, irr |-> {},
                   ris |-> FALSE, smm |-> FALSE, pry |-> 0, write_icw |-> 1]
<1>3. chip.icw3 \in Icw3(c) /\ 0 \in Level
  BY LevelAssumption DEF Chip, Level
<1>4. chips' = [chips EXCEPT ![c] = new] /\ irq_cache' = "none"
  BY <1>1 DEF Icw1, Invalidate, PicInv, PicTypeOK
<1>5. new \in Chip(c) /\ new.write_icw = 1 /\ new.ic4 = ic4
  BY <1>3 DEF Chip
<1> HIDE DEF new
<1>6. new.write_icw <= IF new.ic4 THEN 3 ELSE 2
  BY <1>5
<1> QED BY <1>4, <1>5, <1>6, OneChipChanged

(* write_port2 outside of an initialisation. *)
LEMMA Ocw1KeepsInv ==
    ASSUME PicInv, NEW c \in ChipIndex, NEW mask \in Masks, Ocw1(c, mask)
    PROVE  PicInv'
<1>1. PICK chip \in Chip(c) : chip = chips[c]
  BY DEF PicInv, PicTypeOK
<1> DEFINE new == [chip EXCEPT !.imr = mask]
<1>2. new \in Chip(c) /\ new.write_icw = 0
  BY <1>1, InputAssumption DEF Ocw1, Chip
<1>3. chips' = [chips EXCEPT ![c] = new] /\ irq_cache' = "none"
  BY <1>1 DEF Ocw1, Invalidate, PicInv, PicTypeOK
<1> HIDE DEF new
<1> QED BY <1>2, <1>3, IndexReset

(* Each word of an initialisation moves the index by one, and the last one *)
(* that ICW1 announced moves it back.                                      *)
LEMMA IcwKeepsInv ==
    ASSUME PicInv, NEW c \in ChipIndex, NEW word \in Icw3(c), Icw(c, word)
    PROVE  PicInv'
<1>1. PICK chip \in Chip(c) : chip = chips[c]
  BY DEF PicInv, PicTypeOK
<1>2. PICK three \in Icw3(c) : three = IF chip.write_icw = 2 THEN word ELSE chip.icw3
  BY DEF Chip
<1>3. chip.write_icw \in 0 .. 3 /\ chip.ic4 \in BOOLEAN
  BY DEF Chip
<1>4. chip.write_icw <= IF chip.ic4 THEN 3 ELSE 2
  BY <1>1 DEF PicInv, IcwInBounds
<1>5. PICK index \in 0 .. 3 :
        /\ index = IF chip.write_icw + 1 >= 3 + (IF chip.ic4 THEN 1 ELSE 0)
                   THEN 0 ELSE chip.write_icw + 1
        /\ index <= IF chip.ic4 THEN 3 ELSE 2
  BY <1>3, <1>4
<1> DEFINE new == [chip EXCEPT !.icw3 = three, !.write_icw = index]
<1>6. new \in Chip(c) /\ new.write_icw = index /\ new.ic4 = chip.ic4
  <2>1. [chip EXCEPT !.icw3 = three] \in Chip(c)
    BY DEF Chip
  <2>2. new \in Chip(c)
    BY <2>1 DEF Chip
  <2> QED BY <2>2 DEF Chip
<1>7. chips' = [chips EXCEPT ![c] = new] /\ irq_cache' = "none"
  BY <1>1, <1>2, <1>5 DEF Icw, Invalidate, PicInv, PicTypeOK
<1> HIDE DEF new
<1> QED BY <1>5, <1>6, <1>7, OneChipChanged

(* Every operation keeps the registers typed and the index in bounds. *)
LEMMA PicInvStep ==
    ASSUME PicInv, [PicNext]_picVars
    PROVE  PicInv'
<1>1. CASE Devices
  <2>1. MasterLines \subseteq Level /\ SlaveLines \subseteq Level
    BY InputAssumption
  <2> QED BY <1>1, <2>1, LineKeepsInv DEF Devices, Lines
<1>2. CASE HasPendingIrq
  BY <1>2 DEF HasPendingIrq, Answer, PicInv, PicTypeOK, IcwInBounds
<1>3. CASE Acknowledge
  BY <1>3, AcknowledgeKeepsInv
<1>4. CASE Program
  BY <1>4, Ocw2KeepsInv, Ocw3KeepsInv, Ocw1KeepsInv, Icw1KeepsInv, IcwKeepsInv DEF Program
<1>5. CASE RestoreState
  BY <1>5, NewChipsType DEF RestoreState, Invalidate, PicInv, PicTypeOK, IcwInBounds
<1>6. CASE UNCHANGED picVars
  BY <1>6 DEF picVars, PicInv, PicTypeOK, IcwInBounds
<1> QED BY <1>1, <1>2, <1>3, <1>4, <1>5, <1>6 DEF PicNext

(* The registers of both chips keep their types, whatever the devices, the *)
(* processor and the program do (i8259a_pic.rs).                           *)
THEOREM PicTypeCorrect == PicSpec => []PicTypeOK
<1>1. PicInv => PicTypeOK
  BY DEF PicInv
<1> QED BY PicInvInit, PicInvStep, <1>1, PTL DEF PicSpec

(* write_port2 never writes past the words that ICW1 announced. *)
THEOREM IcwStaysInBounds == PicSpec => []IcwInBounds
<1>1. PicInv => IcwInBounds
  BY DEF PicInv
<1> QED BY PicInvInit, PicInvStep, <1>1, PTL DEF PicSpec

-----------------------------------------------------------------------------
(* The cache of has_pending_irq.                                           *)

(* Asking caches the answer that find_pending_irq gives. *)
LEMMA AskingIsFresh ==
    ASSUME CacheFresh, HasPendingIrq
    PROVE  CacheFresh' /\ (Answer = "yes" <=> FindPending(chips) # None)
<1>1. Answer = "yes" <=> FindPending(chips) # None
  BY DEF CacheFresh, Answer
<1> QED BY <1>1 DEF CacheFresh, HasPendingIrq

(* set_irq and clear_irq may keep the answer because nothing changed. *)
LEMMA LineKeepsFresh ==
    ASSUME PicInv, CacheFresh, NEW c \in ChipIndex, NEW n, SetIrq(c, n) \/ ClearIrq(c, n)
    PROVE  CacheFresh'
<1>0. chips[c] \in Chip(c) /\ DOMAIN chips = ChipIndex
  BY DEF PicInv, PicTypeOK
<1>1. CASE irq_cache' = "none"
  BY <1>1 DEF CacheFresh
<1>2. CASE irq_cache' # "none"
  <2>1. chips' = [chips EXCEPT ![c].irr = chips[c].irr]
    <3>1. n \in chips[c].irr => chips[c].irr \cup {n} = chips[c].irr
      OBVIOUS
    <3>2. n \notin chips[c].irr => chips[c].irr \ {n} = chips[c].irr
      OBVIOUS
    <3> QED BY <1>2, <3>1, <3>2 DEF SetIrq, ClearIrq, Invalidate
  <2>2. FindPending(chips') = FindPending(chips)
    <3>1. \A i \in ChipIndex :
             /\ chips'[i].icw3 = chips[i].icw3 /\ chips'[i].imr = chips[i].imr
             /\ chips'[i].isr = chips[i].isr /\ chips'[i].irr = chips[i].irr
             /\ chips'[i].smm = chips[i].smm /\ chips'[i].pry = chips[i].pry
      BY <1>0, <2>1 DEF Chip
    <3> QED BY <3>1, PendingFromRegisters
  <2>3. irq_cache' = irq_cache
    BY <1>2 DEF SetIrq, ClearIrq, Invalidate
  <2> QED BY <2>2, <2>3 DEF CacheFresh
<1> QED BY <1>1, <1>2

(* An OCW2 without effect may keep it because only the index changed. *)
LEMMA Ocw2KeepsFresh ==
    ASSUME PicInv, CacheFresh, NEW c \in ChipIndex, NEW cmd, Ocw2(c, cmd)
    PROVE  CacheFresh'
<1>1. CASE irq_cache' = "none"
  BY <1>1 DEF CacheFresh
<1>2. CASE chips' = [chips EXCEPT ![c].write_icw = 0] /\ irq_cache' = irq_cache
  <2>1. FindPending([chips EXCEPT ![c].write_icw = 0]) = FindPending(chips)
    <3> DEFINE ds == [chips EXCEPT ![c].write_icw = 0]
    <3>1. \A i \in ChipIndex : /\ ds[i].icw3 = chips[i].icw3 /\ ds[i].imr = chips[i].imr
                               /\ ds[i].isr = chips[i].isr /\ ds[i].irr = chips[i].irr
                               /\ ds[i].smm = chips[i].smm /\ ds[i].pry = chips[i].pry
      BY DEF Chip, PicInv, PicTypeOK
    <3> HIDE DEF ds
    <3>2. FindPending(ds) = FindPending(chips)
      BY <3>1, PendingFromRegisters
    <3> QED BY <3>2 DEF ds
  <2> QED BY <1>2, <2>1 DEF CacheFresh
<1> QED BY <1>1, <1>2 DEF Ocw2, Invalidate

(* Every other operation invalidates the cache. *)
LEMMA CacheStep ==
    ASSUME PicInv, CacheFresh, [PicNext]_picVars
    PROVE  CacheFresh'
<1>1. CASE Devices
  BY <1>1, LineKeepsFresh DEF Devices
<1>2. CASE HasPendingIrq
  BY <1>2, AskingIsFresh
<1>3. CASE irq_cache' = "none"
  BY <1>3 DEF CacheFresh
<1>4. CASE \E c \in ChipIndex, cmd \in Ocw2s : Ocw2(c, cmd)
  BY <1>4, Ocw2KeepsFresh
<1>5. CASE UNCHANGED picVars
  BY <1>5 DEF picVars, CacheFresh
<1> QED BY <1>1, <1>2, <1>3, <1>4, <1>5
        DEF PicNext, Program, Acknowledge, Ocw3, Ocw1, Icw1, Icw, RestoreState, Invalidate

(* has_pending_irq never answers from a stale cache: with CacheFresh the   *)
(* processor sees the interrupt output that the registers imply.           *)
THEOREM CacheIsFresh == PicSpec => []CacheFresh
<1>1. PicInit => CacheFresh
  BY DEF PicInit, CacheFresh
<1> QED BY PicInvInit, PicInvStep, CacheStep, <1>1, PTL DEF PicSpec

-----------------------------------------------------------------------------
(* The processor. *)

PathInv == PicInv /\ CacheFresh /\ SpuriousOnlyFromHalt

(* The machine after power-on. *)
LEMMA PathInit == Init => PathInv
<1> SUFFICES ASSUME Init PROVE PathInv
  OBVIOUS
<1>1. PicInv
  BY PicInvInit DEF Init
<1>2. CacheFresh
  BY DEF Init, PicInit, CacheFresh
<1>3. SpuriousOnlyFromHalt
  BY DEF Init, SpuriousOnlyFromHalt
<1> QED BY <1>1, <1>2, <1>3 DEF PathInv

(* A non-specific EOI changes the ISR of one chip only. *)
LEMMA EoiKeepsRegisters ==
    ASSUME NEW cs, DOMAIN cs = ChipIndex, NEW c \in ChipIndex,
           \A i \in ChipIndex : cs[i] \in Chip(i)
    PROVE  /\ DOMAIN Eoi(cs, c) = ChipIndex
           /\ \A i \in ChipIndex : /\ Eoi(cs, c)[i] \in Chip(i)
                                   /\ Eoi(cs, c)[i].write_icw = cs[i].write_icw
                                   /\ Eoi(cs, c)[i].ic4 = cs[i].ic4
<1>1. PICK isr \in SUBSET Level : Eoi(cs, c) = [cs EXCEPT ![c].isr = isr]
  <2>1. cs[c].isr \in SUBSET Level
    BY DEF Chip
  <2>2. CASE cs[c].isr = {}
    BY <2>1, <2>2 DEF Eoi
  <2>3. CASE cs[c].isr # {}
    <3>1. cs[c].isr \ {First(cs[c].isr, cs[c].pry)} \in SUBSET Level
      BY <2>1
    <3> QED BY <2>3, <3>1 DEF Eoi
  <2> QED BY <2>2, <2>3
<1>2. PICK new : new = [cs[c] EXCEPT !.isr = isr]
  OBVIOUS
<1>3. new \in Chip(c) /\ new.write_icw = cs[c].write_icw /\ new.ic4 = cs[c].ic4
  BY <1>2 DEF Chip
<1>4. Eoi(cs, c) = [cs EXCEPT ![c] = new]
  BY <1>1, <1>2
<1> QED BY <1>3, <1>4

(* The end of a handler keeps the registers well typed. *)
LEMMA EndOfInterruptKeepsPic ==
    ASSUME PicInv, EndOfInterrupt
    PROVE  PicInv'
<1> DEFINE p    == Head(handlers)
           read == [Eoi(chips, 1) EXCEPT ![1].ris = TRUE]
<1>0. /\ DOMAIN chips = ChipIndex /\ \A i \in ChipIndex : chips[i] \in Chip(i)
      /\ 0 \in ChipIndex /\ 1 \in ChipIndex
  BY DEF PicInv, PicTypeOK, ChipIndex
<1>1. CASE p = None
  BY <1>1 DEF EndOfInterrupt, picVars, PicInv, PicTypeOK, IcwInBounds
<1>2. CASE p # None
  <2> DEFINE Kept(cs) == /\ DOMAIN cs = ChipIndex
                         /\ \A i \in ChipIndex : /\ cs[i] \in Chip(i)
                                                 /\ cs[i].write_icw = chips[i].write_icw
                                                 /\ cs[i].ic4 = chips[i].ic4
  <2>1. Kept(Eoi(chips, 0)) /\ Kept(Eoi(chips, 1))
    BY <1>0, EoiKeepsRegisters
  <2>2. Kept(read)
    <3>1. PICK ack : ack = Eoi(chips, 1)
      OBVIOUS
    <3>2. Kept(ack) /\ ack[1] \in Chip(1)
      BY <1>0, <2>1, <3>1
    <3>3. PICK new : new = [ack[1] EXCEPT !.ris = TRUE]
      OBVIOUS
    <3>4. new \in Chip(1) /\ new.write_icw = ack[1].write_icw /\ new.ic4 = ack[1].ic4
      BY <3>2, <3>3 DEF Chip
    <3>5. read = [ack EXCEPT ![1] = new]
      BY <3>1, <3>3
    <3> QED BY <3>2, <3>4, <3>5
  <2>3. Kept(Eoi(read, 0))
    <3>1. PICK cs : cs = read
      OBVIOUS
    <3>2. Kept(cs)
      BY <2>2, <3>1
    <3>3. Kept(Eoi(cs, 0))
      BY <1>0, <3>2, EoiKeepsRegisters
    <3> QED BY <3>1, <3>3
  <2>4. chips' \in {Eoi(chips, 0), Eoi(read, 0), read} /\ irq_cache' = "none"
    BY <1>2 DEF EndOfInterrupt, Invalidate
  <2>5. Kept(chips')
    BY <2>1, <2>2, <2>3, <2>4
  <2> QED BY <2>4, <2>5 DEF PicInv, PicTypeOK, IcwInBounds
<1> QED BY <1>1, <1>2

(* Every step of the processor, of the program and of the devices. *)
LEMMA PathStep ==
    ASSUME PathInv, [Next]_vars
    PROVE  PathInv'
<1>1. CASE UNCHANGED picVars /\ pc' # "execute"
  BY <1>1 DEF PathInv, PicInv, PicTypeOK, IcwInBounds, CacheFresh, SpuriousOnlyFromHalt, picVars
<1>2. ASSUME HasPendingIrq PROVE PicInv' /\ CacheFresh'
  BY <1>2, PicInvStep, AskingIsFresh DEF PathInv, PicNext
<1>3. CASE PollRunning
  <2>1. PicInv' /\ CacheFresh' /\ chips' = chips
    BY <1>2, <1>3 DEF PollRunning, HasPendingIrq
  <2>2. pending_irq' => FindPending(chips) # None
    BY <1>3, AskingIsFresh DEF PathInv, PollRunning
  <2> QED BY <2>1, <2>2 DEF PathInv, SpuriousOnlyFromHalt
<1>4. CASE PollHalted
  <2>1. PicInv' /\ CacheFresh'
    BY <1>2, <1>4 DEF PollHalted, PathInv, picVars, PicInv, PicTypeOK, IcwInBounds, CacheFresh
  <2>2. pc' = "execute" => woken'
    BY <1>4 DEF PollHalted
  <2> QED BY <2>1, <2>2 DEF PathInv, SpuriousOnlyFromHalt
<1>5. CASE CheckInterrupts
  <2>1. PicInv' /\ CacheFresh'
    <3>1. CASE Acknowledge
      BY <3>1, PicInvStep, CacheStep DEF PathInv, PicNext
    <3>2. CASE UNCHANGED picVars
      BY <3>2 DEF PathInv, picVars, PicInv, PicTypeOK, IcwInBounds, CacheFresh
    <3> QED BY <1>5, <3>1, <3>2 DEF CheckInterrupts
  <2> QED BY <1>5, <2>1 DEF PathInv, SpuriousOnlyFromHalt, CheckInterrupts
<1>6. CASE PollAfter
  BY <1>2, <1>6 DEF PollAfter, PathInv, SpuriousOnlyFromHalt
<1>7. CASE DeviceEvent
  <2>1. PicInv' /\ CacheFresh'
    BY <1>7, PicInvStep, CacheStep DEF DeviceEvent, PathInv, PicNext
  <2> QED BY <1>7, <2>1 DEF DeviceEvent, cpuVars, PathInv, SpuriousOnlyFromHalt
<1>8. CASE SetMask
  <2>1. PicInv' /\ CacheFresh'
    BY <1>8, Ocw1KeepsInv DEF SetMask, Ocw1, Invalidate, PathInv, CacheFresh
  <2> QED BY <1>8, <2>1 DEF SetMask, Executed, PathInv, SpuriousOnlyFromHalt
<1>9. CASE EndOfInterrupt
  <2>1. CacheFresh'
    BY <1>9 DEF EndOfInterrupt, Invalidate, picVars, PathInv, CacheFresh
  <2> QED BY <1>9, <2>1, EndOfInterruptKeepsPic DEF EndOfInterrupt, Executed, PathInv, SpuriousOnlyFromHalt
<1>10. CASE RunFor \/ Other \/ Sti \/ Cli \/ Hlt
  BY <1>1, <1>10 DEF RunFor, Other, Sti, Cli, Hlt, Executed
<1>11. CASE UNCHANGED vars
  BY <1>11 DEF vars, picVars, cpuVars, PathInv, PicInv, PicTypeOK, IcwInBounds, CacheFresh,
     SpuriousOnlyFromHalt
<1> QED BY <1>3, <1>4, <1>5, <1>6, <1>7, <1>8, <1>9, <1>10, <1>11 DEF Next, Cpu, Guest

(* check_interrupts of a running processor never acknowledges a spurious   *)
(* interrupt, whatever devices and guest do between poll and acknowledge.  *)
THEOREM NoSpuriousWhileRunning == Spec => []SpuriousOnlyFromHalt
<1>1. PathInv => SpuriousOnlyFromHalt
  BY DEF PathInv
<1> QED BY PathInit, PathStep, <1>1, PTL DEF Spec

-----------------------------------------------------------------------------
(* Nested handlers.                                                        *)

(* The interrupts that have handlers: the cascade of the master has none.  *)
Handler == {h \in [chip : ChipIndex, level : Level] : h.chip = 0 => h.level # Cascade}

(* May h interrupt k?  The slave counts as the cascade of the master. *)
Outranks(h, k) ==
    IF h.chip = k.chip THEN h.level < k.level
    ELSE IF h.chip = 0 THEN h.level < Cascade ELSE Cascade < k.level

(* The program neither rotates priorities nor uses the special mask mode. *)
FixedPriority ==
    /\ \A c \in ChipIndex : ~chips[c].smm /\ chips[c].pry = 0
    /\ chips[0].icw3 = {Cascade} /\ chips[1].icw3 = Cascade

(* Every handler outranks those that it interrupted. *)
Nested ==
    /\ handlers \in Seq(Handler \cup {None})
    /\ \A i, j \in 1 .. Len(handlers) :
         i < j /\ handlers[i] # None /\ handlers[j] # None => Outranks(handlers[i], handlers[j])

ServiceInv == PicTypeOK /\ FixedPriority /\ Nested /\ ServiceMatchesHandlers

(* The handlers after an interrupt. *)
LEMMA OneMoreHandler ==
    ASSUME NEW S, NEW s \in Seq(S), NEW p \in S
    PROVE  /\ <<p>> \o s \in Seq(S) /\ Len(<<p>> \o s) = Len(s) + 1
           /\ (<<p>> \o s)[1] = p
           /\ \A i \in 1 .. Len(s) : (<<p>> \o s)[i + 1] = s[i]
<1>1. <<p>> \in Seq(S) /\ Len(<<p>>) = 1 /\ <<p>>[1] = p
  OBVIOUS
<1>2. Len(s) \in Nat
  OBVIOUS
<1>3. /\ <<p>> \o s \in Seq(S) /\ Len(<<p>> \o s) = Len(<<p>>) + Len(s)
      /\ \A i \in 1 .. Len(<<p>>) + Len(s) :
            (<<p>> \o s)[i] = IF i <= Len(<<p>>) THEN <<p>>[i] ELSE s[i - Len(<<p>>)]
  BY <1>1, ConcatProperties
<1> QED BY <1>1, <1>2, <1>3

(* The handlers after the innermost has returned. *)
LEMMA OneHandlerLess ==
    ASSUME NEW S, NEW s \in Seq(S), s # <<>>
    PROVE  /\ Tail(s) \in Seq(S) /\ Len(s) = Len(Tail(s)) + 1
           /\ Head(s) = s[1] /\ s[1] \in S
           /\ \A i \in 1 .. Len(Tail(s)) : Tail(s)[i] = s[i + 1]
BY HeadTailProperties

(* With fixed priorities the first level of a set is the least one. *)
LEMMA FirstIsLeast ==
    ASSUME NEW set, set \subseteq Level, set # {}
    PROVE  First(set, 0) \in set /\ \A k \in set : First(set, 0) <= k
<1>1. 0 \in Level
  BY LevelAssumption DEF Level
<1>2. \A n \in Level : n \in Nat /\ Turn(n, 0) = n
  BY DEF Level, Turn
<1>3. First(set, 0) \in set /\ \A k \in set : Turn(First(set, 0), 0) <= Turn(k, 0)
  BY <1>1, FirstIsFirst
<1> QED BY <1>2, <1>3

(* find_pending_irq lets through only what outranks all that is in service. *)
LEMMA PendingOutranks ==
    ASSUME PicTypeOK, FixedPriority, NEW p, p = FindPending(chips), p # None
    PROVE  /\ p \in Handler
           /\ p.chip = 0 => \A k \in chips[0].isr : p.level < k
           /\ p.chip = 1 => /\ \A k \in chips[0].isr : Cascade <= k
                            /\ \A k \in chips[1].isr : p.level < k
<1> DEFINE ms == MasterRequests(chips) \cup Blocking(chips[0])
           ss == SlaveRequests(chips) \cup Blocking(chips[1])
<1>0. /\ chips[0] \in Chip(0) /\ chips[1] \in Chip(1)
      /\ chips[0].pry = 0 /\ chips[1].pry = 0 /\ chips[0].icw3 = {Cascade}
      /\ Blocking(chips[0]) = chips[0].isr /\ Blocking(chips[1]) = chips[1].isr
  BY DEF PicTypeOK, FixedPriority, ChipIndex, Blocking
<1>1. /\ ms \subseteq Level /\ ss \subseteq Level
      /\ chips[0].isr \subseteq ms /\ chips[1].isr \subseteq ss
  BY <1>0 DEF Chip, Icw3, MasterRequests, SlaveRequests
<1>2. MasterRequests(chips) # {}
  BY DEF FindPending
<1>3. First(ms, 0) \in ms /\ \A k \in ms : First(ms, 0) <= k
  BY <1>1, <1>2, FirstIsLeast
<1>4. \A n \in Level : n \in Int
  BY DEF Level
<1>5. CASE First(ms, 0) = Cascade
  <2>1. /\ SlaveRequests(chips) # {} /\ First(ss, 0) \notin chips[1].isr
        /\ p = [chip |-> 1, level |-> First(ss, 0)]
    BY <1>0, <1>2, <1>5 DEF FindPending
  <2>2. First(ss, 0) \in ss /\ \A k \in ss : First(ss, 0) <= k
    BY <1>1, <2>1, FirstIsLeast
  <2>3. p \in Handler /\ p.chip = 1 /\ p.level = First(ss, 0)
    BY <1>1, <2>1, <2>2 DEF Handler, ChipIndex
  <2>4. \A k \in chips[0].isr : Cascade <= k
    BY <1>1, <1>3, <1>5
  <2>5. \A k \in chips[1].isr : First(ss, 0) < k
    <3>1. \A k \in chips[1].isr : First(ss, 0) <= k /\ First(ss, 0) # k
      BY <1>1, <2>1, <2>2
    <3>2. First(ss, 0) \in Int /\ \A k \in chips[1].isr : k \in Int
      BY <1>1, <1>4, <2>2
    <3> QED BY <3>1, <3>2
  <2> QED BY <2>3, <2>4, <2>5
<1>6. CASE First(ms, 0) # Cascade
  <2>1. First(ms, 0) \notin chips[0].isr /\ p = [chip |-> 0, level |-> First(ms, 0)]
    BY <1>0, <1>2, <1>6 DEF FindPending
  <2>2. p \in Handler /\ p.chip = 0 /\ p.level = First(ms, 0)
    BY <1>1, <1>3, <1>6, <2>1 DEF Handler, ChipIndex
  <2>3. \A k \in chips[0].isr : First(ms, 0) < k
    <3>1. \A k \in chips[0].isr : First(ms, 0) <= k /\ First(ms, 0) # k
      BY <1>1, <1>3, <2>1
    <3>2. First(ms, 0) \in Int /\ \A k \in chips[0].isr : k \in Int
      BY <1>1, <1>3, <1>4
    <3> QED BY <3>1, <3>2
  <2> QED BY <2>2, <2>3
<1> QED BY <1>5, <1>6

(* Handled, for any handlers. *)
Served(hs, c) == {n \in Level : \E i \in 1 .. Len(hs) : hs[i] = [chip |-> c, level |-> n]}
Matches(cs, hs) ==
    /\ cs[1].isr = Served(hs, 1)
    /\ cs[0].isr = Served(hs, 0) \cup (IF Served(hs, 1) # {} THEN {Cascade} ELSE {})

(* What is served are levels. *)
LEMMA ServedLevels == \A hs : \A c \in ChipIndex : Served(hs, c) \subseteq Level
BY DEF Served

(* ServiceMatchesHandlers, in terms of Served. *)
LEMMA MatchesNow == Nested => (ServiceMatchesHandlers <=> Matches(chips, handlers))
<1> SUFFICES ASSUME Nested PROVE ServiceMatchesHandlers <=> Matches(chips, handlers)
  OBVIOUS
<1>1. DOMAIN handlers = 1 .. Len(handlers)
  BY DEF Nested
<1>2. Handled(0) = Served(handlers, 0) /\ Handled(1) = Served(handlers, 1)
  BY <1>1 DEF Handled, Served
<1> QED BY <1>2 DEF ServiceMatchesHandlers, Matches

(* The same after a step. *)
LEMMA MatchesNext == Nested' => (ServiceMatchesHandlers' <=> Matches(chips', handlers'))
<1> SUFFICES ASSUME Nested' PROVE ServiceMatchesHandlers' <=> Matches(chips', handlers')
  OBVIOUS
<1>1. DOMAIN handlers' = 1 .. Len(handlers')
  BY DEF Nested
<1>2. Handled(0)' = Served(handlers', 0) /\ Handled(1)' = Served(handlers', 1)
  BY <1>1 DEF Handled, Served
<1> QED BY <1>2 DEF ServiceMatchesHandlers, Matches

(* Steps that touch neither handlers nor the registers of the service. *)
LEMMA ServiceFrame ==
    ASSUME ServiceInv, PicTypeOK', handlers' = handlers,
           \A c \in ChipIndex : /\ chips'[c].isr = chips[c].isr /\ chips'[c].smm = chips[c].smm
                                /\ chips'[c].pry = chips[c].pry /\ chips'[c].icw3 = chips[c].icw3
    PROVE  ServiceInv'
<1>1. FixedPriority'
  BY DEF ServiceInv, FixedPriority, ChipIndex
<1>2. Nested'
  BY DEF ServiceInv, Nested
<1>3. ServiceMatchesHandlers'
  BY DEF ServiceInv, ServiceMatchesHandlers, Handled, ChipIndex
<1> QED BY <1>1, <1>2, <1>3 DEF ServiceInv

(* The machine after power-on handles nothing. *)
LEMMA ServiceInit == Init => ServiceInv
<1> SUFFICES ASSUME Init PROVE ServiceInv
  OBVIOUS
<1>1. PicTypeOK
  BY PicInvInit DEF Init, PicInv
<1>2. FixedPriority /\ chips[0].isr = {} /\ chips[1].isr = {}
  BY DEF Init, PicInit, NewChips, FixedPriority, ChipIndex
<1>3. handlers = <<>> /\ handlers \in Seq(Handler \cup {None})
  BY DEF Init
<1>4. Nested
  BY <1>3 DEF Nested
<1>5. Handled(0) = {} /\ Handled(1) = {}
  BY <1>3 DEF Handled
<1> QED BY <1>1, <1>2, <1>4, <1>5 DEF ServiceInv, ServiceMatchesHandlers

(* An interrupt that outranks the running handlers adds one that handles it. *)
LEMMA HandlerEntered ==
    ASSUME Nested, NEW p \in Handler \cup {None}, handlers' = <<p>> \o handlers,
           p # None => \A i \in 1 .. Len(handlers) :
                          handlers[i] # None => Outranks(p, handlers[i])
    PROVE  /\ Nested'
           /\ \A c \in ChipIndex : \A n \in Level :
                 n \in Served(handlers', c) <=> n \in Served(handlers, c) \/ p = [chip |-> c, level |-> n]
<1> DEFINE S == Handler \cup {None}
<1>0. handlers \in Seq(S) /\ Len(handlers) \in Nat
  BY DEF Nested
<1>1. /\ handlers' \in Seq(S) /\ Len(handlers') = Len(handlers) + 1
      /\ handlers'[1] = p
      /\ \A i \in 1 .. Len(handlers) : handlers'[i + 1] = handlers[i]
  <2> HIDE DEF S
  <2>1. p \in S
    BY DEF S
  <2> QED BY <1>0, <2>1, OneMoreHandler
<1>2. \A i \in 2 .. Len(handlers') : i - 1 \in 1 .. Len(handlers) /\ handlers'[i] = handlers[i - 1]
  <2> SUFFICES ASSUME NEW i \in 2 .. Len(handlers')
               PROVE  i - 1 \in 1 .. Len(handlers) /\ handlers'[i] = handlers[i - 1]
    OBVIOUS
  <2>1. i - 1 \in 1 .. Len(handlers) /\ (i - 1) + 1 = i
    BY <1>0, <1>1
  <2> QED BY <1>1, <2>1
<1>3. ASSUME NEW i \in 1 .. Len(handlers'), NEW j \in 1 .. Len(handlers'), i < j,
             handlers'[i] # None, handlers'[j] # None
      PROVE  Outranks(handlers'[i], handlers'[j])
  <2>1. j \in 2 .. Len(handlers') /\ (i = 1 \/ i \in 2 .. Len(handlers'))
    BY <1>0, <1>1, <1>3
  <2>2. CASE i = 1
    BY <1>1, <1>2, <1>3, <2>1, <2>2
  <2>3. CASE i \in 2 .. Len(handlers')
    <3>1. i - 1 < j - 1
      BY <1>0, <1>1, <1>3
    <3> QED BY <1>2, <1>3, <2>1, <2>3, <3>1 DEF Nested
  <2> QED BY <2>1, <2>2, <2>3
<1>4. Nested'
  BY <1>1, <1>3 DEF Nested
<1>5. ASSUME NEW c \in ChipIndex
      PROVE  \A n \in Level :
                n \in Served(handlers', c) <=> n \in Served(handlers, c) \/ p = [chip |-> c, level |-> n]
  <2>1. DOMAIN handlers = 1 .. Len(handlers) /\ DOMAIN handlers' = 1 .. Len(handlers')
    BY <1>0, <1>1
  <2>2. ASSUME NEW n \in Level
        PROVE  (\E i \in DOMAIN handlers' : handlers'[i] = [chip |-> c, level |-> n])
                 <=> \/ p = [chip |-> c, level |-> n]
                     \/ \E i \in DOMAIN handlers : handlers[i] = [chip |-> c, level |-> n]
    <3>1. ASSUME NEW i \in DOMAIN handlers', handlers'[i] = [chip |-> c, level |-> n]
          PROVE  \/ p = [chip |-> c, level |-> n]
                 \/ \E k \in DOMAIN handlers : handlers[k] = [chip |-> c, level |-> n]
      <4>1. i = 1 \/ i \in 2 .. Len(handlers')
        BY <1>0, <1>1, <2>1
      <4> QED BY <1>1, <1>2, <2>1, <3>1, <4>1
    <3>2. ASSUME p = [chip |-> c, level |-> n]
          PROVE  \E i \in DOMAIN handlers' : handlers'[i] = [chip |-> c, level |-> n]
      <4>1. 1 \in DOMAIN handlers'
        BY <1>0, <1>1, <2>1
      <4> QED BY <1>1, <3>2, <4>1
    <3>3. ASSUME NEW k \in DOMAIN handlers, handlers[k] = [chip |-> c, level |-> n]
          PROVE  \E i \in DOMAIN handlers' : handlers'[i] = [chip |-> c, level |-> n]
      <4>1. k + 1 \in DOMAIN handlers'
        BY <1>0, <1>1, <2>1
      <4> QED BY <1>1, <2>1, <3>3, <4>1
    <3> QED BY <3>1, <3>2, <3>3
  <2> QED BY <2>1, <2>2 DEF Served
<1> QED BY <1>4, <1>5

(* The innermost handler outranks all that is handled once it returned. *)
LEMMA HandlerReturned ==
    ASSUME Nested, handlers # <<>>, handlers' = Tail(handlers)
    PROVE  /\ Nested' /\ Head(handlers) \in Handler \cup {None}
           /\ \A c \in ChipIndex : \A n \in Level :
                 /\ n \in Served(handlers, c) <=> n \in Served(handlers', c) \/ Head(handlers) = [chip |-> c, level |-> n]
                 /\ n \in Served(handlers', c) /\ Head(handlers) # None =>
                       Outranks(Head(handlers), [chip |-> c, level |-> n])
<1> DEFINE S == Handler \cup {None}
<1>0. handlers \in Seq(S) /\ Len(handlers) \in Nat
  BY DEF Nested
<1>1. /\ handlers' \in Seq(S) /\ Len(handlers) = Len(handlers') + 1
      /\ Head(handlers) = handlers[1] /\ handlers[1] \in S
      /\ \A i \in 1 .. Len(handlers') : handlers'[i] = handlers[i + 1]
  <2> HIDE DEF S
  <2> QED BY <1>0, OneHandlerLess
<1>2. Len(handlers') \in Nat
  BY <1>1
<1>3. /\ \A i \in 1 .. Len(handlers') : i + 1 \in 1 .. Len(handlers)
      /\ \A i \in 1 .. Len(handlers) : i = 1 \/ (i - 1 \in 1 .. Len(handlers') /\ (i - 1) + 1 = i)
      /\ 1 \in 1 .. Len(handlers)
  BY <1>1, <1>2
<1>4. Nested'
  <2>1. ASSUME NEW i \in 1 .. Len(handlers'), NEW j \in 1 .. Len(handlers'), i < j,
               handlers'[i] # None, handlers'[j] # None
        PROVE  Outranks(handlers'[i], handlers'[j])
    <3>1. i + 1 < j + 1
      BY <1>2, <2>1
    <3> QED BY <1>1, <1>3, <2>1, <3>1 DEF Nested
  <2> QED BY <1>1, <2>1 DEF Nested
<1>5. DOMAIN handlers = 1 .. Len(handlers) /\ DOMAIN handlers' = 1 .. Len(handlers')
  BY <1>0, <1>1
<1>6. ASSUME NEW c \in ChipIndex, NEW n \in Level
      PROVE  /\ n \in Served(handlers, c) <=> n \in Served(handlers', c) \/ Head(handlers) = [chip |-> c, level |-> n]
             /\ n \in Served(handlers', c) /\ Head(handlers) # None =>
                   Outranks(Head(handlers), [chip |-> c, level |-> n])
  <2>1. ASSUME NEW i \in 1 .. Len(handlers'), handlers'[i] = [chip |-> c, level |-> n]
        PROVE  /\ \E k \in 1 .. Len(handlers) : handlers[k] = [chip |-> c, level |-> n]
               /\ Head(handlers) # None => Outranks(Head(handlers), [chip |-> c, level |-> n])
    <3>1. i + 1 \in 1 .. Len(handlers) /\ handlers[i + 1] = [chip |-> c, level |-> n] /\ 1 < i + 1
      BY <1>1, <1>2, <1>3, <2>1
    <3>2. [chip |-> c, level |-> n] # None
      BY NoneAssumption DEF ChipIndex
    <3> QED BY <1>1, <1>3, <3>1, <3>2 DEF Nested
  <2>2. ASSUME NEW k \in 1 .. Len(handlers), handlers[k] = [chip |-> c, level |-> n]
        PROVE  \/ Head(handlers) = [chip |-> c, level |-> n]
               \/ \E i \in 1 .. Len(handlers') : handlers'[i] = [chip |-> c, level |-> n]
    BY <1>1, <1>3, <2>2
  <2>3. n \in Served(handlers, c) <=> \E k \in 1 .. Len(handlers) : handlers[k] = [chip |-> c, level |-> n]
    BY DEF Served
  <2>4. n \in Served(handlers', c) <=> \E k \in 1 .. Len(handlers') : handlers'[k] = [chip |-> c, level |-> n]
    BY DEF Served
  <2>5. Head(handlers) = [chip |-> c, level |-> n] =>
           \E k \in 1 .. Len(handlers) : handlers[k] = [chip |-> c, level |-> n]
    BY <1>1, <1>3
  <2> QED BY <2>1, <2>2, <2>3, <2>4, <2>5
<1> QED BY <1>1, <1>4, <1>6

(* check_interrupts: what is acknowledged is in service and handled. *)
LEMMA AcknowledgeMatches ==
    ASSUME ServiceInv, PicTypeOK', CheckInterrupts
    PROVE  ServiceInv'
<1>1. CASE ~(if_flag /\ pending_irq /\ ~no_interrupt)
  <2>1. chips' = chips /\ handlers' = handlers
    BY <1>1 DEF CheckInterrupts, picVars
  <2> QED BY <2>1, ServiceFrame
<1>2. CASE if_flag /\ pending_irq /\ ~no_interrupt
  <2>0. PICK p : p = FindPending(chips)
    OBVIOUS
  <2>1. /\ Acknowledge /\ handlers' = <<p>> \o handlers
        /\ chips[0] \in Chip(0) /\ chips[1] \in Chip(1) /\ DOMAIN chips = ChipIndex
        /\ 0 \in ChipIndex /\ 1 \in ChipIndex /\ Nested /\ FixedPriority
        /\ chips[1].icw3 = Cascade
    BY <1>2, <2>0 DEF CheckInterrupts, ServiceInv, PicTypeOK, ChipIndex, FixedPriority
  <2>2. CASE p = None
    <3>1. chips' = chips
      BY <2>0, <2>1, <2>2 DEF Acknowledge
    <3>2. /\ Nested'
          /\ \A c \in ChipIndex : \A n \in Level :
                n \in Served(handlers', c) <=> n \in Served(handlers, c) \/ p = [chip |-> c, level |-> n]
      BY <2>1, <2>2, HandlerEntered
    <3>3. \A c \in ChipIndex : Served(handlers', c) = Served(handlers, c)
      <4>1. \A c \in ChipIndex : \A n \in Level : p # [chip |-> c, level |-> n]
        BY <2>2, NoneAssumption DEF ChipIndex
      <4> QED BY <3>2, <4>1, ServedLevels
    <3>4. FixedPriority'
      BY <2>1, <3>1 DEF FixedPriority
    <3>5. ServiceMatchesHandlers'
      BY <2>1, <3>1, <3>2, <3>3, MatchesNow, MatchesNext DEF ServiceInv, Matches
    <3> QED BY <3>2, <3>4, <3>5 DEF ServiceInv
  <2>3. CASE p # None
    <3>1. /\ p \in Handler
          /\ p.chip = 0 => \A k \in chips[0].isr : p.level < k
          /\ p.chip = 1 => /\ \A k \in chips[0].isr : Cascade <= k
                           /\ \A k \in chips[1].isr : p.level < k
      BY <2>0, <2>1, <2>3, PendingOutranks DEF ServiceInv
    <3>2. ASSUME NEW i \in 1 .. Len(handlers), handlers[i] # None
          PROVE  Outranks(p, handlers[i])
      <4>1. PICK h \in Handler : h = handlers[i]
        BY <2>1, <3>2 DEF Nested
      <4>2. h.chip \in ChipIndex /\ h.level \in Level /\ h = [chip |-> h.chip, level |-> h.level]
        BY DEF Handler
      <4>3. h.level \in Served(handlers, h.chip)
        BY <2>1, <4>1, <4>2 DEF Served
      <4>4. /\ h.chip = 0 => h.level \in chips[0].isr
            /\ h.chip = 1 => h.level \in chips[1].isr /\ Cascade \in chips[0].isr
        BY <4>3, MatchesNow DEF ServiceInv, Matches
      <4>5. h.chip = 0 => h.level # Cascade
        BY DEF Handler
      <4>6. Cascade \in Int /\ h.level \in Int /\ p.level \in Int /\ p.chip \in ChipIndex
        BY <3>1, <4>2, LevelAssumption DEF Handler, Level
      <4>7. Outranks(p, h)
        BY <3>1, <4>2, <4>4, <4>5, <4>6 DEF Outranks, ChipIndex
      <4> QED BY <4>1, <4>7
    <3>3. /\ Nested'
          /\ \A c \in ChipIndex : \A n \in Level :
                n \in Served(handlers', c) <=> n \in Served(handlers, c) \/ p = [chip |-> c, level |-> n]
      BY <2>1, <3>1, <3>2, HandlerEntered
    <3>4. /\ p.chip \in ChipIndex /\ p.level \in Level
          /\ p = [chip |-> p.chip, level |-> p.level]
      BY <3>1 DEF Handler
    <3>5. CASE p.chip = 0
      <4>1. chips' = [chips EXCEPT ![0] = InService(chips[0], p.level)]
        BY <2>0, <2>1, <2>3, <3>5 DEF Acknowledge
      <4>2. PICK new : new = InService(chips[0], p.level)
        OBVIOUS
      <4>3. /\ new.isr = chips[0].isr \cup {p.level} /\ new.smm = chips[0].smm
            /\ new.pry = chips[0].pry /\ new.icw3 = chips[0].icw3
        BY <2>1, <4>2 DEF InService, Chip
      <4>4. chips'[0] = new /\ chips'[1] = chips[1]
        BY <2>1, <4>1, <4>2
      <4>5. FixedPriority'
        BY <2>1, <4>3, <4>4 DEF FixedPriority, ChipIndex
      <4>6. Served(handlers', 0) = Served(handlers, 0) \cup {p.level} /\ Served(handlers', 1) = Served(handlers, 1)
        <5>1. \A c \in ChipIndex : \A n \in Level :
                p = [chip |-> c, level |-> n] <=> c = p.chip /\ n = p.level
          BY <3>4
        <5>2. \A n \in Level : n \in Served(handlers', 0) <=> n \in Served(handlers, 0) \/ n = p.level
          BY <2>1, <3>3, <3>5, <5>1
        <5>3. \A n \in Level : n \in Served(handlers', 1) <=> n \in Served(handlers, 1)
          BY <2>1, <3>3, <3>5, <5>1
        <5>4. /\ Served(handlers', 0) \subseteq Level /\ Served(handlers, 0) \subseteq Level
              /\ Served(handlers', 1) \subseteq Level /\ Served(handlers, 1) \subseteq Level
          BY <2>1, ServedLevels
        <5> QED BY <3>4, <5>2, <5>3, <5>4
      <4>7. ServiceMatchesHandlers'
        BY <3>3, <4>3, <4>4, <4>6, MatchesNow, MatchesNext DEF ServiceInv, Matches
      <4> QED BY <3>3, <4>5, <4>7 DEF ServiceInv
    <3>6. CASE p.chip = 1
      <4>1. chips' = [chips EXCEPT ![0] = InService(chips[0], Cascade),
                                   ![1] = InService(chips[1], p.level)]
        BY <2>0, <2>1, <2>3, <3>6 DEF Acknowledge
      <4>2. PICK master, slave : master = InService(chips[0], Cascade) /\ slave = InService(chips[1], p.level)
        OBVIOUS
      <4>3. /\ master.isr = chips[0].isr \cup {Cascade} /\ master.smm = chips[0].smm
            /\ master.pry = chips[0].pry /\ master.icw3 = chips[0].icw3
            /\ slave.isr = chips[1].isr \cup {p.level} /\ slave.smm = chips[1].smm
            /\ slave.pry = chips[1].pry /\ slave.icw3 = chips[1].icw3
        BY <2>1, <4>2 DEF InService, Chip
      <4>4. chips'[0] = master /\ chips'[1] = slave
        BY <2>1, <4>1, <4>2
      <4>5. FixedPriority'
        BY <2>1, <4>3, <4>4 DEF FixedPriority, ChipIndex
      <4>6. Served(handlers', 0) = Served(handlers, 0) /\ Served(handlers', 1) = Served(handlers, 1) \cup {p.level}
        <5>1. \A c \in ChipIndex : \A n \in Level :
                p = [chip |-> c, level |-> n] <=> c = p.chip /\ n = p.level
          BY <3>4
        <5>2. \A n \in Level : n \in Served(handlers', 1) <=> n \in Served(handlers, 1) \/ n = p.level
          BY <2>1, <3>3, <3>6, <5>1
        <5>3. \A n \in Level : n \in Served(handlers', 0) <=> n \in Served(handlers, 0)
          BY <2>1, <3>3, <3>6, <5>1
        <5>4. /\ Served(handlers', 0) \subseteq Level /\ Served(handlers, 0) \subseteq Level
              /\ Served(handlers', 1) \subseteq Level /\ Served(handlers, 1) \subseteq Level
          BY <2>1, ServedLevels
        <5> QED BY <3>4, <5>2, <5>3, <5>4
      <4>7. ServiceMatchesHandlers'
        BY <3>3, <4>3, <4>4, <4>6, MatchesNow, MatchesNext DEF ServiceInv, Matches
      <4> QED BY <3>3, <4>5, <4>7 DEF ServiceInv
    <3> QED BY <3>4, <3>5, <3>6 DEF ChipIndex
  <2> QED BY <2>2, <2>3
<1> QED BY <1>1, <1>2

(* The chips ds are cs after the service of level n in chip c has ended. *)
Ended(cs, ds, c, n) ==
    \A i \in ChipIndex : /\ ds[i].isr = IF i = c THEN cs[c].isr \ {n} ELSE cs[i].isr
                         /\ ds[i].smm = cs[i].smm /\ ds[i].pry = cs[i].pry
                         /\ ds[i].icw3 = cs[i].icw3

(* A non-specific EOI ends the least level in service. *)
LEMMA EoiEndsLeast ==
    ASSUME NEW cs, DOMAIN cs = ChipIndex, NEW c \in ChipIndex,
           \A i \in ChipIndex : cs[i] \in Chip(i), cs[c].pry = 0,
           NEW n \in cs[c].isr, \A k \in cs[c].isr : n <= k
    PROVE  Ended(cs, Eoi(cs, c), c, n)
<1>1. cs[c] \in Chip(c) /\ cs[c].isr \subseteq Level /\ cs[c].isr # {}
  BY DEF Chip
<1>2. First(cs[c].isr, 0) \in cs[c].isr /\ \A k \in cs[c].isr : First(cs[c].isr, 0) <= k
  BY <1>1, FirstIsLeast
<1>3. First(cs[c].isr, 0) = n
  <2>1. First(cs[c].isr, 0) \in Int /\ n \in Int
    BY <1>1, <1>2 DEF Level
  <2>2. First(cs[c].isr, 0) <= n /\ n <= First(cs[c].isr, 0)
    BY <1>2
  <2> QED BY <2>1, <2>2
<1>4. PICK new : new = [cs[c] EXCEPT !.isr = cs[c].isr \ {n}]
  OBVIOUS
<1>5. /\ new.isr = cs[c].isr \ {n} /\ new.smm = cs[c].smm
      /\ new.pry = cs[c].pry /\ new.icw3 = cs[c].icw3
  BY <1>1, <1>4 DEF Chip
<1>6. Eoi(cs, c) = [cs EXCEPT ![c] = new]
  BY <1>1, <1>3, <1>4 DEF Eoi
<1> QED BY <1>5, <1>6 DEF Ended

(* The end of a handler ends the service of its interrupt, and no other. *)
LEMMA EndMatches ==
    ASSUME ServiceInv, PicTypeOK', EndOfInterrupt
    PROVE  ServiceInv'
<1>0. PICK p : p = Head(handlers)
  OBVIOUS
<1>1. /\ handlers # <<>> /\ handlers' = Tail(handlers)
      /\ chips[0] \in Chip(0) /\ chips[1] \in Chip(1) /\ DOMAIN chips = ChipIndex
      /\ \A c \in ChipIndex : chips[c] \in Chip(c)
      /\ chips[0].pry = 0 /\ chips[1].pry = 0
      /\ 0 \in ChipIndex /\ 1 \in ChipIndex /\ Nested /\ FixedPriority
  BY DEF EndOfInterrupt, ServiceInv, PicTypeOK, ChipIndex, FixedPriority
<1>2. Nested' /\ p \in Handler \cup {None}
  BY <1>0, <1>1, HandlerReturned
<1>3. /\ \A n \in Level : n \in Served(handlers, 0) <=>
                            n \in Served(handlers', 0) \/ p = [chip |-> 0, level |-> n]
      /\ \A n \in Level : n \in Served(handlers, 1) <=>
                            n \in Served(handlers', 1) \/ p = [chip |-> 1, level |-> n]
  BY <1>0, <1>1, HandlerReturned
<1>4. \A c \in ChipIndex : \A n \in Level :
         n \in Served(handlers', c) /\ p # None => Outranks(p, [chip |-> c, level |-> n])
  BY <1>0, <1>1, HandlerReturned
<1>5. /\ Served(handlers', 0) \subseteq Level /\ Served(handlers, 0) \subseteq Level
      /\ Served(handlers', 1) \subseteq Level /\ Served(handlers, 1) \subseteq Level
  BY <1>1, ServedLevels
<1>6. /\ chips[1].isr = Served(handlers, 1)
      /\ chips[0].isr = Served(handlers, 0) \cup (IF Served(handlers, 1) # {} THEN {Cascade} ELSE {})
  BY <1>1, MatchesNow DEF ServiceInv, Matches
<1>7. \A n \in Level : n \in Int
  BY DEF Level
<1>8. /\ DOMAIN chips = ChipIndex /\ \A c \in ChipIndex : chips[c] \in Chip(c)
      /\ chips[0].pry = 0 /\ chips[1].pry = 0 /\ 0 \in ChipIndex /\ 1 \in ChipIndex
  BY <1>1
<1>9. CASE p = None
  <2>1. \A c \in ChipIndex : \A n \in Level : p # [chip |-> c, level |-> n]
    BY <1>9, NoneAssumption DEF ChipIndex
  <2>2. Served(handlers', 0) = Served(handlers, 0) /\ Served(handlers', 1) = Served(handlers, 1)
    BY <1>1, <1>5, <1>3, <2>1
  <2>3. chips' = chips
    BY <1>0, <1>9 DEF EndOfInterrupt, picVars
  <2>4. ServiceMatchesHandlers' /\ FixedPriority'
    BY <1>1, <1>2, <1>6, <2>2, <2>3, MatchesNext DEF Matches, FixedPriority
  <2> QED BY <1>2, <2>4 DEF ServiceInv
<1>10. CASE p # None
  <2>1. /\ p \in Handler /\ p.chip \in ChipIndex /\ p.level \in Level /\ p.level \in Int
        /\ p = [chip |-> p.chip, level |-> p.level] /\ (p.chip = 0 => p.level # Cascade)
        /\ Cascade \in Level /\ Cascade \in Int
    BY <1>2, <1>10, LevelAssumption DEF Handler, Level
  <2>2. \A c \in ChipIndex : \A n \in Level :
           p = [chip |-> c, level |-> n] <=> c = p.chip /\ n = p.level
    BY <2>1
  <2>3. CASE p.chip = 0
    <3>1. /\ \A n \in Level : n \in Served(handlers, 0) <=> n \in Served(handlers', 0) \/ n = p.level
          /\ \A n \in Level : n \in Served(handlers, 1) <=> n \in Served(handlers', 1)
      BY <1>1, <1>3, <2>2, <2>3
    <3>2. /\ \A n \in Served(handlers', 0) : p.level < n
          /\ \A n \in Served(handlers', 1) : p.level < Cascade
      BY <1>1, <1>5, <1>10, <1>4, <2>3 DEF Outranks
    <3>3. Served(handlers', 1) = Served(handlers, 1)
      BY <1>5, <3>1
    <3>4. p.level \in chips[0].isr /\ \A k \in chips[0].isr : p.level <= k
      <4>1. p.level \in chips[0].isr
        BY <1>6, <2>1, <3>1
      <4>2. \A k \in Served(handlers, 0) : p.level <= k
        BY <1>5, <1>7, <2>1, <3>1, <3>2
      <4>3. Served(handlers, 1) # {} => p.level <= Cascade
        BY <2>1, <3>2, <3>3
      <4> QED BY <1>6, <4>1, <4>2, <4>3
    <3>5. chips' = Eoi(chips, 0)
      BY <1>0, <1>10, <2>3 DEF EndOfInterrupt
    <3>6. \A i \in ChipIndex :
             /\ chips'[i].isr = IF i = 0 THEN chips[0].isr \ {p.level} ELSE chips[i].isr
             /\ chips'[i].smm = chips[i].smm /\ chips'[i].pry = chips[i].pry
             /\ chips'[i].icw3 = chips[i].icw3
      <4>1. Ended(chips, Eoi(chips, 0), 0, p.level)
        BY <1>8, <3>4, EoiEndsLeast
      <4> QED BY <3>5, <4>1 DEF Ended
    <3>7. FixedPriority'
      BY <1>1, <3>6 DEF FixedPriority
    <3>8. p.level \notin Served(handlers', 0) /\ p.level # Cascade
      BY <1>7, <2>1, <2>3, <3>2
    <3>9. Served(handlers', 0) = Served(handlers, 0) \ {p.level}
      BY <1>5, <3>1, <3>8
    <3>10. /\ chips'[1].isr = Served(handlers', 1)
           /\ chips'[0].isr = Served(handlers', 0) \cup (IF Served(handlers', 1) # {} THEN {Cascade} ELSE {})
      <4>1. chips'[0].isr = chips[0].isr \ {p.level} /\ chips'[1].isr = chips[1].isr
        BY <1>1, <3>6
      <4> QED BY <1>6, <3>3, <3>8, <3>9, <4>1
    <3>11. ServiceMatchesHandlers'
      BY <1>2, <3>10, MatchesNext DEF Matches
    <3> QED BY <1>2, <3>7, <3>11 DEF ServiceInv
  <2>4. CASE p.chip = 1
    <3>1. /\ \A n \in Level : n \in Served(handlers, 1) <=> n \in Served(handlers', 1) \/ n = p.level
          /\ \A n \in Level : n \in Served(handlers, 0) <=> n \in Served(handlers', 0)
      BY <1>1, <1>3, <2>2, <2>4
    <3>2. /\ \A n \in Served(handlers', 1) : p.level < n
          /\ \A n \in Served(handlers', 0) : Cascade < n
      BY <1>1, <1>5, <1>10, <1>4, <2>4 DEF Outranks
    <3>3. Served(handlers', 0) = Served(handlers, 0) /\ Served(handlers, 1) # {}
      BY <1>5, <2>1, <3>1
    <3>4. p.level \in chips[1].isr /\ \A k \in chips[1].isr : p.level <= k
      <4>1. p.level \in chips[1].isr
        BY <1>6, <2>1, <3>1
      <4>2. \A k \in Served(handlers, 1) : p.level <= k
        BY <1>5, <1>7, <2>1, <3>1, <3>2
      <4> QED BY <1>6, <4>1, <4>2
    <3>5. p.level \notin Served(handlers', 1) /\ Cascade \notin Served(handlers', 0)
      BY <1>7, <2>1, <3>2
    <3>6. Served(handlers', 1) = Served(handlers, 1) \ {p.level}
      BY <1>5, <3>1, <3>5
    <3>7. PICK ack : ack = Eoi(chips, 1)
      OBVIOUS
    <3>8. /\ DOMAIN ack = ChipIndex /\ \A i \in ChipIndex : ack[i] \in Chip(i)
          /\ \A i \in ChipIndex :
               /\ ack[i].isr = IF i = 1 THEN chips[1].isr \ {p.level} ELSE chips[i].isr
               /\ ack[i].smm = chips[i].smm /\ ack[i].pry = chips[i].pry /\ ack[i].icw3 = chips[i].icw3
      <4>1. Ended(chips, Eoi(chips, 1), 1, p.level)
        BY <1>8, <3>4, EoiEndsLeast
      <4>2. DOMAIN Eoi(chips, 1) = ChipIndex /\ \A i \in ChipIndex : Eoi(chips, 1)[i] \in Chip(i)
        BY <1>1, EoiKeepsRegisters
      <4> QED BY <3>7, <4>1, <4>2 DEF Ended
    <3>9. PICK new : new = [ack[1] EXCEPT !.ris = TRUE]
      OBVIOUS
    <3>10. /\ new \in Chip(1) /\ new.isr = ack[1].isr /\ new.smm = ack[1].smm
           /\ new.pry = ack[1].pry /\ new.icw3 = ack[1].icw3
      <4>1. ack[1] \in Chip(1)
        BY <1>1, <3>8
      <4> QED BY <3>9, <4>1 DEF Chip
    <3>11. PICK read : read = [ack EXCEPT ![1] = new]
      OBVIOUS
    <3>12. /\ DOMAIN read = ChipIndex /\ \A i \in ChipIndex : read[i] \in Chip(i)
           /\ read[1].isr = Served(handlers', 1) /\ read[0].isr = chips[0].isr
           /\ \A i \in ChipIndex : /\ read[i].smm = chips[i].smm /\ read[i].pry = chips[i].pry
                                   /\ read[i].icw3 = chips[i].icw3
      <4>1. /\ DOMAIN read = ChipIndex /\ read[1] = new /\ read[0] = ack[0]
            /\ \A i \in ChipIndex : i = 0 \/ i = 1
        BY <1>1, <3>8, <3>11 DEF ChipIndex
      <4>2. ack[1].isr = Served(handlers', 1) /\ ack[0].isr = chips[0].isr
        <5>1. ack[0].isr = chips[0].isr /\ ack[1].isr = chips[1].isr \ {p.level}
          BY <1>8, <3>8
        <5> QED BY <1>6, <3>6, <5>1
      <4>3. \A i \in ChipIndex : read[i] \in Chip(i)
        BY <1>1, <3>8, <3>10, <4>1
      <4>4. \A i \in ChipIndex : /\ read[i].smm = chips[i].smm /\ read[i].pry = chips[i].pry
                                 /\ read[i].icw3 = chips[i].icw3
        BY <1>1, <3>8, <3>10, <4>1
      <4> QED BY <3>10, <4>1, <4>2, <4>3, <4>4
    <3>13. chips' = IF read[1].isr = {} THEN Eoi(read, 0) ELSE read
      BY <1>0, <1>10, <2>4, <3>7, <3>9, <3>11 DEF EndOfInterrupt
    <3>14. chips[0].isr = Served(handlers', 0) \cup {Cascade}
      BY <1>6, <3>3
    <3>15. CASE read[1].isr = {}
      <4>1. Cascade \in read[0].isr /\ \A k \in read[0].isr : Cascade <= k
        BY <1>5, <1>7, <2>1, <3>2, <3>12, <3>14
      <4>2. \A i \in ChipIndex :
               /\ chips'[i].isr = IF i = 0 THEN read[0].isr \ {Cascade} ELSE read[i].isr
               /\ chips'[i].smm = read[i].smm /\ chips'[i].pry = read[i].pry
               /\ chips'[i].icw3 = read[i].icw3
        <5>1. read[0].pry = 0
          BY <1>1, <3>12
        <5>2. Ended(read, Eoi(read, 0), 0, Cascade)
          BY <1>8, <3>12, <4>1, <5>1, EoiEndsLeast
        <5> QED BY <3>13, <3>15, <5>2 DEF Ended
      <4>3. FixedPriority'
        BY <1>1, <3>12, <4>2 DEF FixedPriority
      <4>4. chips'[1].isr = Served(handlers', 1) /\ chips'[0].isr = Served(handlers', 0)
        <5>1. chips'[0].isr = read[0].isr \ {Cascade} /\ chips'[1].isr = read[1].isr
          BY <1>1, <4>2
        <5> QED BY <3>5, <3>12, <3>14, <5>1
      <4>5. Served(handlers', 1) = {}
        BY <3>12, <3>15
      <4>6. ServiceMatchesHandlers'
        BY <1>2, <4>4, <4>5, MatchesNext DEF Matches
      <4> QED BY <1>2, <4>3, <4>6 DEF ServiceInv
    <3>16. CASE read[1].isr # {}
      <4>1. chips' = read
        BY <3>13, <3>16
      <4>2. FixedPriority'
        BY <1>1, <3>12, <4>1 DEF FixedPriority
      <4>3. ServiceMatchesHandlers'
        BY <1>2, <3>12, <3>14, <3>16, <4>1, MatchesNext DEF Matches
      <4> QED BY <1>2, <4>2, <4>3 DEF ServiceInv
    <3> QED BY <3>15, <3>16
  <2> QED BY <2>1, <2>3, <2>4 DEF ChipIndex
<1> QED BY <1>9, <1>10

(* The lines of the devices and the mask are no part of the service. *)
LEMMA RequestsMatch ==
    ASSUME ServiceInv, PicTypeOK', Devices \/ \E c \in ChipIndex, mask \in Masks : Ocw1(c, mask),
           handlers' = handlers
    PROVE  ServiceInv'
<1>1. PICK c \in ChipIndex, set \in SUBSET Level :
         \/ chips' = [chips EXCEPT ![c].irr = set]
         \/ chips' = [chips EXCEPT ![c].imr = set]
  <2>1. ASSUME NEW c \in ChipIndex, NEW n \in Lines(c), SetIrq(c, n) \/ ClearIrq(c, n)
        PROVE  \E set \in SUBSET Level : chips' = [chips EXCEPT ![c].irr = set]
    <3>1. chips[c].irr \subseteq Level /\ n \in Level
      BY <2>1, InputAssumption DEF ServiceInv, PicTypeOK, Chip, Lines
    <3>2. chips[c].irr \cup {n} \in SUBSET Level /\ chips[c].irr \ {n} \in SUBSET Level
      BY <3>1
    <3> QED BY <2>1, <3>2 DEF SetIrq, ClearIrq
  <2>2. ASSUME NEW c \in ChipIndex, NEW mask \in Masks, Ocw1(c, mask)
        PROVE  mask \in SUBSET Level /\ chips' = [chips EXCEPT ![c].imr = mask]
    BY <2>2, InputAssumption DEF Ocw1
  <2> QED BY <2>1, <2>2 DEF Devices
<1>2. chips[c] \in Chip(c) /\ DOMAIN chips = ChipIndex
  BY DEF ServiceInv, PicTypeOK
<1>3. PICK new : /\ chips' = [chips EXCEPT ![c] = new]
                 /\ new = [chips[c] EXCEPT !.irr = set] \/ new = [chips[c] EXCEPT !.imr = set]
  BY <1>1
<1>4. /\ new.isr = chips[c].isr /\ new.smm = chips[c].smm
      /\ new.pry = chips[c].pry /\ new.icw3 = chips[c].icw3
  BY <1>2, <1>3 DEF Chip
<1>5. \A i \in ChipIndex : /\ chips'[i].isr = chips[i].isr /\ chips'[i].smm = chips[i].smm
                           /\ chips'[i].pry = chips[i].pry /\ chips'[i].icw3 = chips[i].icw3
  BY <1>2, <1>3, <1>4
<1> QED BY <1>5, ServiceFrame

(* Every step keeps the nesting. *)
LEMMA ServiceStep ==
    ASSUME PathInv, ServiceInv, [Next]_vars
    PROVE  ServiceInv'
<1>0. PicTypeOK'
  BY PathStep DEF PathInv, PicInv
<1>1. CASE CheckInterrupts
  BY <1>0, <1>1, AcknowledgeMatches
<1>2. CASE EndOfInterrupt
  BY <1>0, <1>2, EndMatches
<1>3. CASE DeviceEvent \/ SetMask
  <2>1. handlers' = handlers /\ (Devices \/ \E c \in ChipIndex, mask \in Masks : Ocw1(c, mask))
    BY <1>3 DEF DeviceEvent, SetMask, cpuVars
  <2> QED BY <1>0, <2>1, RequestsMatch
<1>4. CASE chips' = chips /\ handlers' = handlers
  BY <1>0, <1>4, ServiceFrame
<1>5. CASE RunFor \/ PollRunning \/ PollHalted \/ PollAfter \/ Other \/ Sti \/ Cli \/ Hlt \/ UNCHANGED vars
  <2>1. chips' = chips /\ handlers' = handlers
    BY <1>5 DEF RunFor, PollRunning, PollHalted, PollAfter, Other, Sti, Cli, Hlt, HasPendingIrq,
       picVars, cpuVars, vars
  <2> QED BY <1>4, <2>1
<1> QED BY <1>1, <1>2, <1>3, <1>5 DEF Next, Cpu, Guest

(* However handlers nest, the chips have in service exactly the interrupts *)
(* whose handlers run (find_pending_irq, acknowledge, the non-specific EOI *)
(* of write_port0), so that an EOI always ends the innermost of them.      *)
THEOREM ServiceAlwaysMatches == Spec => []ServiceMatchesHandlers
<1>1. ServiceInv => ServiceMatchesHandlers
  BY DEF ServiceInv
<1> QED BY PathInit, PathStep, ServiceInit, ServiceStep, <1>1, PTL DEF Spec
=============================================================================
