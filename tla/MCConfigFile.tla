--------------------------- MODULE MCConfigFile ---------------------------
(* ConfigFile with interchangeable editors. *)
EXTENDS ConfigFile, TLC

MCSymmetry == Permutations(Editors)
===========================================================================
