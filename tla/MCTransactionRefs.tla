-------------------------- MODULE MCTransactionRefs ---------------------------
(* TransactionRefs with the logs of TransactionRefs.cfg. *)
EXTENDS TransactionRefs

Logged(type, trid) == [type |-> type, trid |-> trid]

(* A transaction that is not finished, one that was committed at once, and *)
(* one that was committed later.                                           *)
MCLogs ==
    { <<Logged("Submit", 1), Logged("SubmitCommit", 2)>>,
      <<Logged("Submit", 1), Logged("Submit", 2), Logged("Commit", 1)>> }
===============================================================================
