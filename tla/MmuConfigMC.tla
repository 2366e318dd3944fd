---------------------------- MODULE MmuConfigMC ----------------------------
(***************************************************************************)
(* Instances of MmuConfig for TLC: words of three bits, hence uint64_t of  *)
(* six, with zero, the largest word and both sides of the bounds between.  *)
(***************************************************************************)
EXTENDS MmuConfig

\* -1 is sysconf's error.
SomePageCounts == {-1, 0, 1, 2, 3, 6, 9}
SomePageSizes == {-1, 1, 4, 8}
=============================================================================
