----------------------------- MODULE MCObjPool ------------------------------
(* Instances of ObjPool for TLC.                                            *)
EXTENDS ObjPool
=============================================================================
