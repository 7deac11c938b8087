----------------------------- MODULE MCFileQueue -----------------------------
(* Model checking of FileQueue.  Entries of clients[] are only compared with  *)
(* each other, so permuting them is a symmetry; runs that check liveness do   *)
(* not use it.                                                                *)
EXTENDS FileQueue, TLC

EntrySymmetry == Permutations(Slots)
=============================================================================
