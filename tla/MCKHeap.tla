------------------------------ MODULE MCKHeap -------------------------------
(* Instances of KHeap for TLC.                                              *)
EXTENDS KHeap
=============================================================================
