------------------------------ MODULE MCStorage ------------------------------
(***************************************************************************)
(* The storage of one node for TLC.                                        *)
(***************************************************************************)
EXTENDS StorageProperties

\* Nothing is promised about damaged files: what follows is not explored.
Undamaged == ~spoiled

=============================================================================
