------------------------------- MODULE MCEngine ------------------------------
(* Constants for checking Engine with TLC. *)
EXTENDS Engine

(* An existence constraint, which a stale storage may refuse, and a version *)
(* constraint, which conflicts with a modification of the document.  Both   *)
(* are about the document that is inserted first; a transaction may modify  *)
(* that one or the other.                                                   *)
Constraints ==
    {[storageIndex |-> 1, documentId |-> 1, mustExist |-> TRUE,
      matchSequenceId |-> FALSE, sequenceId |-> 0],
     [storageIndex |-> 1, documentId |-> 1, mustExist |-> FALSE,
      matchSequenceId |-> TRUE, sequenceId |-> 0]}
==============================================================================
