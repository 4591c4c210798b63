------------------------------- MODULE MCBtree --------------------------------
(* Constants for checking Btree with TLC. *)
EXTENDS Btree

ThreeKeys == 1..3
==============================================================================
