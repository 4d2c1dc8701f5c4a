---------------------------- MODULE RenderService ----------------------------
(***************************************************************************)
(* What the render actor promises the machine: a synthesizer that behaves  *)
(* like a plain object.  Rendering a chunk, capturing, restoring and       *)
(* resetting take effect one at a time and completely, although a chunk is *)
(* rendered by another thread while the machine goes on                    *)
(* (crates/save_state/src/lib.rs: "Their barriers capture only after an    *)
(* in-flight render completes.").                                          *)
(***************************************************************************)
CONSTANTS Synth, Synth0, Midi, Advance(_, _), None

VARIABLES
    state,    \* the synthesizer as the machine sees it
    snapshot, \* the last captured state
    staged    \* the state that a prepared restore will install, or None

vars == <<state, snapshot, staged>>

Init == state = Synth0 /\ snapshot = None /\ staged = None

(* No sound is rendered, captured or reset while a restore is prepared. *)
Render == /\ staged = None
          /\ \E m \in Midi : state' = Advance(state, m)
          /\ UNCHANGED <<snapshot, staged>>

Capture == /\ staged = None
           /\ snapshot' = state
           /\ UNCHANGED <<state, staged>>

Reset == /\ staged = None
         /\ state' = Synth0
         /\ UNCHANGED <<snapshot, staged>>

Prepare == /\ staged = None /\ snapshot # None
           /\ staged' = snapshot
           /\ UNCHANGED <<state, snapshot>>

Commit == /\ staged # None
          /\ state' = staged /\ staged' = None
          /\ UNCHANGED snapshot

Abort == /\ staged # None
         /\ staged' = None
         /\ UNCHANGED <<state, snapshot>>

Next == Render \/ Capture \/ Reset \/ Prepare \/ Commit \/ Abort

Spec == Init /\ [][Next]_vars
=============================================================================
