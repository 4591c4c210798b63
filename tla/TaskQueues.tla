------------------------------ MODULE TaskQueues ------------------------------
(***************************************************************************)
(* What the drivers, the page cache and the engine expect of the task      *)
(* queues: a task that is submitted to a thread is run by that thread,     *)
(* once, after those submitted before it, unless the thread stops.  Events *)
(* and the sleep of a thread are out of sight.                             *)
(***************************************************************************)
EXTENDS Naturals, Sequences

CONSTANTS Threads, Tasks

VARIABLES pending,  \* for each thread, the tasks it has not begun
          begun,    \* for each thread, the tasks it has begun, in order
          stopped   \* threads that run nothing any more

vars == <<pending, begun, stopped>>

Init ==
    /\ pending = [t \in Threads |-> <<>>]
    /\ begun = [t \in Threads |-> <<>>]
    /\ stopped = {}

(* A task is submitted to one thread, and to that one once. *)
Fresh(k) ==
    \A t \in Threads :
        /\ \A n \in 1..Len(pending[t]) : pending[t][n] # k
        /\ \A n \in 1..Len(begun[t]) : begun[t][n] # k

Submit(t, k) ==
    /\ Fresh(k)
    /\ pending' = [pending EXCEPT ![t] = Append(@, k)]
    /\ UNCHANGED <<begun, stopped>>

Begin(t) ==
    /\ t \notin stopped
    /\ pending[t] # <<>>
    /\ begun' = [begun EXCEPT ![t] = Append(@, Head(pending[t]))]
    /\ pending' = [pending EXCEPT ![t] = Tail(@)]
    /\ UNCHANGED stopped

Stop(t) ==
    /\ stopped' = stopped \cup {t}
    /\ UNCHANGED <<pending, begun>>

Next ==
    \E t \in Threads :
        Begin(t) \/ Stop(t) \/ \E k \in Tasks : Submit(t, k)

Spec == Init /\ [][Next]_vars /\ \A t \in Threads : WF_vars(Begin(t))
==============================================================================
