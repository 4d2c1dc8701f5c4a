---------------------------- MODULE MCRenderActor ----------------------------
(* RenderActor on a small instance: the synthesizer counts the chunks it   *)
(* has rendered modulo SynthStates, so a chunk is told from its successors *)
(* and from the empty chunk 0 until the count wraps.                       *)
EXTENDS RenderActor

CONSTANT SynthStates
MCSynth == 0 .. SynthStates - 1
MCAdvance(s, m) == (s + m) % SynthStates
=============================================================================
