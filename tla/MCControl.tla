----------------------------- MODULE MCControl ------------------------------
(* The control of the engine with two symbols: positions of one that has a     *)
(* rule next to one that has none.  Nothing else needs a bound.                *)
EXTENDS EngineControl, TLC

Symmetry == Permutations(Symbols)
=============================================================================
