----------------------------- MODULE MCTransports -----------------------------
(* Transports for TLC.                                                     *)
EXTENDS Transports, TLC

\* Sessions, threads and mids are only compared for equality.
Symmetry == Permutations(Sessions) \union Permutations(Threads) \union Permutations(Mids)
===============================================================================
