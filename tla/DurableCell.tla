---------------------------- MODULE DurableCell ----------------------------
(***************************************************************************)
(* What an atomic replacement of a file promises: a cell that always has   *)
(* one whole value, is replaced in one step, and after a loss of power     *)
(* has a value it had since it was last made durable.                      *)
(***************************************************************************)
CONSTANT Contents

VARIABLES value, candidates

Init == value \in Contents /\ candidates = {value}

Replace ==
    /\ value' \in Contents
    /\ candidates' = candidates \union {value'}

MakeDurable == candidates' = {value} /\ UNCHANGED value

LosePower ==
    /\ value' \in candidates
    /\ candidates' = {value'}

Next == Replace \/ MakeDurable \/ LosePower

Spec == Init /\ [][Next]_<<value, candidates>>
=============================================================================
