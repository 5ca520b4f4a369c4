-------------------------- MODULE MCAssetTransfer --------------------------
(* Symmetries for AssetTransfer.                                           *)
EXTENDS AssetTransfer, TLC

CallerSymmetry == Permutations(Callers) \cup Permutations(Names) \cup Permutations(Contents)
=============================================================================
