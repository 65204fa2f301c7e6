--------------------------- MODULE MCCommitClock ---------------------------
(* A small instance of CommitClock; hashes are interchangeable.            *)
EXTENDS CommitClock, TLC

TipSymmetry == Permutations(Hash)
=============================================================================
