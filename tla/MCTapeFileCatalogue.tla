------------------------ MODULE MCTapeFileCatalogue ------------------------
(* Model checking of TapeFileCatalogue: tapes, clients and copy numbers are *)
(* interchangeable.                                                         *)
EXTENDS TapeFileCatalogue, TLC

Symmetry == Permutations(Tapes) \union Permutations(Clients) \union Permutations(CopyNbs)
=============================================================================
