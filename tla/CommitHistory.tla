---------------------------- MODULE CommitHistory ----------------------------
(***************************************************************************)
(* What the engine promises its clients, with no queue, no log and no      *)
(* crash in sight.  A transaction is prepared (submit), later decided      *)
(* (commit), or prepared and decided at once (submitCommit).  Every        *)
(* decision gets a sequence id above all earlier ones, and a commit is     *)
(* acknowledged only after it was decided.  Nothing is ever taken back:    *)
(* a crash and a restart of the process are stuttering steps here.         *)
(***************************************************************************)
EXTENDS Naturals

VARIABLES prepared,   \* [transaction_id, mutations]: submitted, not committed
          committed,  \* [transaction_id, sequence_id, mutations]
          acked       \* [transaction_id, sequence_id]: a client was told

vars == <<prepared, committed, acked>>

Init == prepared = {} /\ committed = {} /\ acked = {}

(* An id stands for one prepared or committed transaction, ever. *)
Unused(id) == \A t \in prepared \cup committed : t.transaction_id # id

(* Sequence ids follow the order of the decisions. *)
Latest(seq) == \A c \in committed : c.sequence_id < seq

Prepare(t) ==
    /\ Unused(t.transaction_id)
    /\ prepared' = prepared \cup {t}
    /\ UNCHANGED <<committed, acked>>

Decide(t, c) ==
    /\ c.transaction_id = t.transaction_id
    /\ c.mutations = t.mutations
    /\ Latest(c.sequence_id)
    /\ prepared' = prepared \ {t}
    /\ committed' = committed \cup {c}
    /\ UNCHANGED acked

PrepareAndDecide(c) ==
    /\ Unused(c.transaction_id)
    /\ Latest(c.sequence_id)
    /\ committed' = committed \cup {c}
    /\ UNCHANGED <<prepared, acked>>

Acknowledge(c) ==
    /\ acked' = acked \cup {[transaction_id |-> c.transaction_id,
                             sequence_id    |-> c.sequence_id]}
    /\ UNCHANGED <<prepared, committed>>

(* The transaction a step adds is found in the next state, so no set of    *)
(* all conceivable transactions is enumerated.                             *)
Next ==
    \/ \E t \in prepared' : Prepare(t)
    \/ \E t \in prepared, c \in committed' : Decide(t, c)
    \/ \E c \in committed' : PrepareAndDecide(c)
    \/ \E c \in committed : Acknowledge(c)

Spec == Init /\ [][Next]_vars
==============================================================================
