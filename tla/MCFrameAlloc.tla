---------------------------- MODULE MCFrameAlloc ----------------------------
(* Instances of FrameAlloc for TLC: frames of neighbouring bytes.           *)
EXTENDS FrameAlloc

UsableFree == {1, 2, 3, 5}
UsableBoot == {4}
=============================================================================
