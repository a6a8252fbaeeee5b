-------------------------- MODULE MCTransferManager --------------------------
(* TLC instances of TransferManager.                                        *)
EXTENDS TransferManager, TLC

\* Transfers are interchangeable: safety runs may identify permuted states.
Symmetry == Permutations(Transfers)
=============================================================================
