--------------------------- MODULE MCAutomation ---------------------------
(* Automation with the scripts numbered as discover_scripts does. *)
EXTENDS Automation

CONSTANTS MCCount, MCMaxCases
MCScripts == 0 .. MCCount - 1
MCCases   == [s \in MCScripts |-> IF s = 1 THEN 0 ELSE MCMaxCases]
===========================================================================
