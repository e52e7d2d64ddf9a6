--------------------------- MODULE MCDescriptors ---------------------------
(* Small instances of Descriptors for TLC. *)
EXTENDS Descriptors, TLC

FileSymmetry == Permutations(Conn) \cup Permutations(Listeners) \cup Permutations(Others)
=============================================================================
