--------------------------- MODULE InterruptPath ---------------------------
(***************************************************************************)
(* From a device's interrupt line to a handler and back: the interrupt     *)
(* controllers, the processor's run loop (impl_cpu_run_for! in             *)
(* crates/cpu/src/lib.rs, execute_one and check_interrupts of the i386)    *)
(* and a guest program that ends its handlers the way the machines'        *)
(* documentation prescribes.                                               *)
(*                                                                         *)
(* All run on one thread.  The processor polls the controllers between     *)
(* instructions into pending_irq and acknowledges later, from that copy;   *)
(* in between, devices and the program change the controllers.  No machine *)
(* with these controllers raises an NMI, and the MOV SS shadow             *)
(* (inhibit_all) is the same as that of STI for maskable interrupts.       *)
(***************************************************************************)
EXTENDS I8259aPic, Sequences

CONSTANT MaxNesting \* bound: handlers that the program's stack has room for

ASSUME NestingAssumption == MaxNesting \in Nat

VARIABLES
    pending_irq,  \* PENDING_IRQ, the processor's copy of has_irq
    if_flag, halted, no_interrupt,
    pc,           \* where run_for is, "idle" outside of it
    handlers,     \* the interrupts whose handlers run, the innermost first
    woken         \* has the processor just left HLT?

cpuVars == <<pending_irq, if_flag, halted, no_interrupt, pc, handlers, woken>>
vars == <<picVars, cpuVars>>

Init ==
    /\ PicInit
    /\ pending_irq = FALSE /\ if_flag = FALSE /\ halted = FALSE /\ no_interrupt = FALSE
    /\ pc = "idle" /\ handlers = <<>> /\ woken = FALSE

-----------------------------------------------------------------------------
(* run_for                                                                 *)

RunFor ==
    /\ pc = "idle"
    /\ pc' = "poll"
    /\ UNCHANGED <<picVars, pending_irq, if_flag, halted, no_interrupt, handlers, woken>>

(* Mutant: pending_irq is set by a poll and never cleared. *)
PollSticky ==
    /\ pc = "poll" /\ ~halted
    /\ HasPendingIrq
    /\ pending_irq' = (pending_irq \/ Answer = "yes")
    /\ pc' = "execute" /\ woken' = FALSE
    /\ UNCHANGED <<if_flag, halted, no_interrupt, handlers>>

(* Before an instruction.  A halted processor adds to pending_irq but      *)
(* never takes from it while interrupts are enabled, and returns from      *)
(* run_for if there is nothing to wake it.                                 *)
PollRunning ==
    /\ pc = "poll" /\ ~halted
    /\ HasPendingIrq
    /\ pending_irq' = (Answer = "yes")
    /\ pc' = "execute" /\ woken' = FALSE
    /\ UNCHANGED <<if_flag, halted, no_interrupt, handlers>>

PollHalted ==
    /\ pc = "poll" /\ halted
    /\ IF if_flag
       THEN HasPendingIrq /\ pending_irq' = (pending_irq \/ Answer = "yes")
       ELSE pending_irq' = FALSE /\ UNCHANGED picVars
    /\ halted' = ~pending_irq' /\ woken' = pending_irq'
    /\ pc' = IF pending_irq' THEN "execute" ELSE "idle"
    /\ UNCHANGED <<if_flag, no_interrupt, handlers>>

(* check_interrupts; a spurious interrupt has the handler None. *)
CheckInterrupts ==
    /\ pc = "execute"
    /\ IF if_flag /\ pending_irq /\ ~no_interrupt
       THEN /\ Acknowledge
            /\ handlers' = <<FindPending(chips)>> \o handlers
            /\ pending_irq' = FALSE /\ if_flag' = FALSE
       ELSE UNCHANGED <<picVars, handlers, pending_irq, if_flag>>
    /\ no_interrupt' = FALSE
    /\ pc' = "instruction"
    /\ UNCHANGED <<halted, woken>>

(* After an instruction and the events that set_current_cycle triggers;    *)
(* then comes the next instruction, or the budget is used up.              *)
PollAfter ==
    /\ pc = "events"
    /\ HasPendingIrq
    /\ pending_irq' = (Answer = "yes")
    /\ pc' \in {"poll", "idle"}
    /\ UNCHANGED <<if_flag, halted, no_interrupt, handlers, woken>>

-----------------------------------------------------------------------------
(* The devices change their lines in the events of set_current_cycle, or   *)
(* when the host calls them between two run_for.                           *)
DeviceEvent ==
    /\ pc \in {"events", "idle"}
    /\ Devices
    /\ UNCHANGED cpuVars

-----------------------------------------------------------------------------
(* The instructions of the guest program that matter here.                 *)

Executed == pc = "instruction" /\ pc' = "events" /\ UNCHANGED <<pending_irq, woken>>

Other == Executed /\ UNCHANGED <<picVars, if_flag, halted, no_interrupt, handlers>>

Sti == /\ Executed
       /\ Len(handlers) < MaxNesting
       /\ if_flag' = TRUE /\ no_interrupt' = TRUE
       /\ UNCHANGED <<picVars, halted, handlers>>

Cli == /\ Executed
       /\ if_flag' = FALSE
       /\ UNCHANGED <<picVars, halted, no_interrupt, handlers>>

Hlt == /\ Executed
       /\ halted' = TRUE
       /\ UNCHANGED <<picVars, if_flag, no_interrupt, handlers>>

SetMask == /\ Executed
           /\ \E c \in ChipIndex, mask \in Masks : Ocw1(c, mask)
           /\ UNCHANGED <<if_flag, halted, no_interrupt, handlers>>

(* The chips after a non-specific EOI to chip c. *)
Eoi(cs, c) ==
    [cs EXCEPT ![c].isr = IF @ = {} THEN @ ELSE @ \ {First(cs[c].isr, cs[c].pry)}]

(* The end of a handler, with interrupts disabled: an EOI to the chip that *)
(* the interrupt came from, for the slave also a look at its ISR and, when *)
(* that is empty, an EOI to the master; and IRET.  A handler of a spurious *)
(* interrupt only returns.                                                 *)
EndOfInterrupt ==
    /\ Executed
    /\ handlers # <<>> /\ ~if_flag
    /\ LET p    == Head(handlers)
           ack  == Eoi(chips, 1)
           read == [ack EXCEPT ![1].ris = TRUE]
       IN IF p = None THEN UNCHANGED picVars
          ELSE /\ chips' = IF p.chip = 0 THEN Eoi(chips, 0)
                           ELSE IF read[1].isr = {} THEN Eoi(read, 0) ELSE read
               /\ Invalidate
    /\ handlers' = Tail(handlers)
    /\ if_flag' = TRUE
    /\ UNCHANGED <<halted, no_interrupt>>

Cpu == RunFor \/ PollRunning \/ PollHalted \/ CheckInterrupts \/ PollAfter
Guest == Other \/ Sti \/ Cli \/ Hlt \/ SetMask \/ EndOfInterrupt

Next == Cpu \/ Guest \/ DeviceEvent

(* The main loop keeps calling run_for, and run_for keeps going. *)
Spec == Init /\ [][Next]_vars /\ WF_vars(Cpu) /\ WF_vars(Guest)

-----------------------------------------------------------------------------
(* Properties.                                                             *)

(* Type invariant; the handlers are those of distinct interrupts. *)
TypeOK ==
    /\ PicTypeOK
    /\ {pending_irq, if_flag, halted, no_interrupt, woken} \subseteq BOOLEAN
    /\ pc \in {"idle", "poll", "execute", "instruction", "events"}
    /\ \A i \in DOMAIN handlers : handlers[i] \in [chip : ChipIndex, level : Level] \cup {None}

(* What the chips have in service is what the running handlers serve: a    *)
(* non-specific EOI (write_port0) always ends the innermost handler, and   *)
(* find_pending_irq lets through only what may interrupt all of them.      *)
Handled(c) == {n \in Level : \E i \in DOMAIN handlers : handlers[i] = [chip |-> c, level |-> n]}

ServiceMatchesHandlers ==
    /\ chips[1].isr = Handled(1)
    /\ chips[0].isr = Handled(0) \cup (IF Handled(1) # {} THEN {Cascade} ELSE {})

(* A processor that runs never acknowledges an interrupt that is gone      *)
(* (check_interrupts): a spurious interrupt is possible only when it wakes *)
(* from HLT, where an older pending_irq counts.                            *)
SpuriousOnlyFromHalt ==
    pc = "execute" /\ if_flag /\ pending_irq /\ ~no_interrupt /\ ~woken
       => FindPending(chips) # None

(* No wake-up is lost: a halted processor with interrupts enabled leaves   *)
(* HLT when an interrupt is pending, unless its device withdraws it.       *)
WakesFromHalt ==
    (halted /\ if_flag /\ FindPending(chips) # None)
       ~> (~halted \/ FindPending(chips) = None)
=============================================================================
