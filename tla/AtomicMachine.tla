---------------------------- MODULE AtomicMachine ----------------------------
(***************************************************************************)
(* What saving and restoring promises the user of a machine: a snapshot is *)
(* the whole machine at one instant, and a restore brings the whole        *)
(* machine back to it or leaves the machine as it was.                     *)
(***************************************************************************)
EXTENDS Naturals

CONSTANTS Root, Root0, None

VARIABLES
    clock,    \* ticks whenever the machine runs, and only then
    machine,  \* the complete state of the machine
    snapshot  \* the saved state, or None

vars == <<clock, machine, snapshot>>

Init == clock = 0 /\ machine = Root0 /\ snapshot = None

Run == clock' = clock + 1 /\ machine' \in Root /\ UNCHANGED snapshot

Save == snapshot' = machine /\ UNCHANGED <<clock, machine>>

Restore == snapshot # None /\ machine' = snapshot /\ UNCHANGED <<clock, snapshot>>

Next == Run \/ Save \/ Restore

Spec == Init /\ [][Next]_vars
=============================================================================
