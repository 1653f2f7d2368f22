------------------------------- MODULE MCTuner --------------------------------
(***************************************************************************)
(* Instances of Tuner.                                                      *)
(***************************************************************************)
EXTENDS Tuner

MCStoreKeys == Keys \X Lists
=============================================================================
