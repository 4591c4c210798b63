------------------------------ MODULE MCViewQuery ------------------------------
(* Constants for checking ViewQuery with TLC. *)
EXTENDS ViewQuery

CONSTANTS d1, d2

(* The document that may be committed first can have the greater key, and  *)
(* its key may change when it is committed again.                          *)
MCMutations ==
    {[documentId |-> d1, key |-> 2], [documentId |-> d1, key |-> 1],
     [documentId |-> d2, key |-> 1]}
==============================================================================
