--------------------------- MODULE MCQuickLoad ---------------------------
(* Instances of QuickLoad for TLC. *)
EXTENDS QuickLoad

CONSTANTS a, b, c, x

MCEntries == [d \in Drives |-> CASE d = "fdd1" -> <<a, b>>
                                 [] d = "fdd2" -> <<c>>
                                 [] d = "cdrom" -> <<x>>]
MCOneDrive == [d \in Drives |-> CASE d = "fdd1" -> <<a, b>>
                                  [] d = "fdd2" -> <<>>
                                  [] d = "cdrom" -> <<x>>]
==========================================================================
