---------------------------- MODULE MCGeneration ----------------------------
(* TLC instances of Generation: two run slots and bounded counters.        *)
EXTENDS Generation, TLC

\* Run slots are interchangeable in every safety property.
Slots == Permutations(Workers)

=============================================================================
