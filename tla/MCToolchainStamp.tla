--------------------------- MODULE MCToolchainStamp ---------------------------
(***************************************************************************)
(* ToolchainStamp for TLC.  Callers, inodes and times are interchangeable. *)
(***************************************************************************)
EXTENDS ToolchainStamp, TLC

Symmetry == Permutations(Caller) \cup Permutations(Inode) \cup Permutations(Time)

=============================================================================
