---------------------------- MODULE MCI8259aPic ----------------------------
(* I8259aPic with three levels. *)
EXTENDS I8259aPic

MCMasterLines == Level \ {Cascade}
MCSlaveLines  == 0 .. Levels - 2
MCMasks       == {{}, {Cascade}, {0}}
MCOcw2s       == {[r |-> FALSE, sl |-> FALSE, eoi |-> TRUE, level |-> 0],
                  [r |-> TRUE, sl |-> FALSE, eoi |-> TRUE, level |-> 0],
                  [r |-> FALSE, sl |-> TRUE, eoi |-> TRUE, level |-> 1]}
MCPlainEoi    == {[r |-> FALSE, sl |-> FALSE, eoi |-> TRUE, level |-> 0]}
=============================================================================
