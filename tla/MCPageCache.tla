------------------------------ MODULE MCPageCache ------------------------------
(* Constants for checking PageCache with TLC. *)
EXTENDS PageCache

ThreePages == 1..3
==============================================================================
