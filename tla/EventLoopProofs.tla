--------------------------- MODULE EventLoopProofs ----------------------------
(***************************************************************************)
(* What holds of EventLoop for every number of workers and tasks: types,   *)
(* that no wakeup is lost, and that descriptors are used as epoll wants.   *)
(***************************************************************************)
EXTENDS EventLoop, TLAPS, SequenceTheorems

------------------------------------------------------------------------------
(* The invariant that makes the safety properties inductive *)

(* Where a thread is tells whether its descriptor is in the epoll set and  *)
(* who signals to workers; together with the properties that is inductive. *)
Runs(t) == pc[t] \in {"callback", "signal"}

ThreadsConsistent ==
    /\ \A t \in Threads :
        /\ registered[t] <=> ~ (Draining(t) \/ pc[t] = "wait")
        /\ "tasks" \in batch[t] =>
                pc[t] = "dispatch" \/ (Runs(t) /\ current[t] = Socket)
        /\ pc[t] \in {"shutdown", "wake"} => t = Main
    /\ pc[Main] = "wake" => stopping \in Workers

LoopInv == TypeOK /\ ThreadsConsistent /\ EventFdUsed /\ NoLostWakeup
------------------------------------------------------------------------------
USE DEF fds, flags, history

(* A thread that is told apart from the main thread is a worker.           *)
LEMMA ThreadsAndWorkers ==
    /\ Main \in Threads
    /\ Workers \subseteq Threads
    /\ Main \notin Workers
    /\ Threads \ {Main} = Workers
BY WorkersAssumption DEF Main, Threads, Workers

(* Tasks have numbers of their own.                                        *)
LEMMA TasksAreSomething == Nothing \notin Tasks /\ Socket \notin Tasks /\ Nothing # Socket
BY TasksAssumption DEF Nothing, Socket, Tasks

(* The types hold in the beginning.                                        *)
LEMMA TypeInit == Init => TypeOK
BY ThreadsAndWorkers, WorkersAssumption, TasksAssumption, EmptySeq
   DEF Init, TypeOK, Points, Main, Nothing, Event

(* Submissions keep them, ...                                              *)
LEMMA TypeSubmit ==
    ASSUME TypeOK, NEW t \in Threads, NEW q \in Threads, Submit(t, q)
    PROVE  TypeOK'
<1>1. submitted + 1 \in Tasks /\ submitted' \in 0..MaxTasks
  BY TasksAssumption DEF TypeOK, Submit, Tasks
<1>2. queue' \in [Threads -> Seq(Tasks)]
  BY <1>1, AppendProperties DEF TypeOK, Submit
<1> QED BY <1>1, <1>2 DEF TypeOK, Submit, Goto, Points

(* ... epoll_wait does, ...                                                *)
LEMMA TypeReturn ==
    ASSUME TypeOK, NEW t \in Threads, NEW events \in SUBSET Event, Return(t, events)
    PROVE  TypeOK'
<1>1. batch' \in [Threads -> SUBSET Event]
  BY DEF TypeOK, Return
<1>2. pc' \in [Threads -> Points]
  BY DEF TypeOK, Return, Goto, Points
<1>3. \A s \in Threads : current'[s] # Nothing <=> pc'[s] \in {"callback", "signal"}
  BY DEF TypeOK, Return, Goto
<1> QED BY <1>1, <1>2, <1>3 DEF TypeOK, Return

(* ... and what a thread does by itself, ...                               *)
LEMMA TypeProgress ==
    ASSUME TypeOK, NEW t \in Threads, Progress(t)
    PROVE  TypeOK'
<1>1. CASE Increment(t)
  BY <1>1 DEF TypeOK, Increment, Goto, Points
<1>2. CASE TakeTask(t)
  <2>1. Head(queue[t]) \in Tasks /\ Tail(queue[t]) \in Seq(Tasks)
    BY <1>2, HeadTailProperties DEF TypeOK, TakeTask
  <2>2. begun' \in [Threads -> Seq(Tasks)]
    BY <1>2, <2>1, AppendProperties DEF TypeOK, TakeTask
  <2> QED BY <1>2, <2>1, <2>2, TasksAreSomething DEF TypeOK, TakeTask, Goto, Points
<1>3. CASE FinishTask(t)
  BY <1>3 DEF TypeOK, FinishTask, Goto, Points
<1>4. CASE FindEmpty(t)
  BY <1>4 DEF TypeOK, FindEmpty, Goto, Points
<1>5. CASE Wait(t)
  BY <1>5 DEF TypeOK, Wait, Goto, Points
<1>6. CASE PollTasks(t)
  <2>1. PICK events \in SUBSET Event : Return(t, events)
    BY <1>6 DEF PollTasks, Event
  <2> QED BY <2>1, TypeReturn
<1>7. CASE WakeUp(t)
  BY <1>7 DEF TypeOK, WakeUp, Goto, Points
<1>8. CASE SocketEvent(t)
  BY <1>8, TasksAreSomething DEF TypeOK, SocketEvent, Goto, Points
<1>9. CASE FinishSocketEvent(t)
  BY <1>9 DEF TypeOK, FinishSocketEvent, Goto, Points
<1>10. CASE FinishDispatch(t)
  BY <1>10 DEF TypeOK, FinishDispatch, Goto, Points
<1>11. CASE Loop(t)
  BY <1>11 DEF TypeOK, Loop, Goto, Points
<1> QED
  BY <1>1, <1>2, <1>3, <1>4, <1>5, <1>6, <1>7, <1>8, <1>9, <1>10, <1>11 DEF Progress

(* ... as well as what is left.                                            *)
LEMMA TypeNext == ASSUME TypeOK, ThreadsConsistent, [Next]_vars PROVE TypeOK'
<1>1. CASE \E t \in Threads : Progress(t)
  BY <1>1, TypeProgress
<1>2. CASE \E t, q \in Threads : Submit(t, q)
  BY <1>2, TypeSubmit
<1>3. CASE \E w \in Workers : EndThread(w)
  BY <1>3, ThreadsAndWorkers DEF TypeOK, EndThread, Goto, Points
<1>4. CASE PollSocket
  BY <1>4, ThreadsAndWorkers, TypeReturn DEF PollSocket, Event
<1>5. CASE RequestShutdown
  BY <1>5 DEF TypeOK, RequestShutdown
<1>6. CASE LeaveLoop
  BY <1>6, ThreadsAndWorkers DEF TypeOK, LeaveLoop, Goto, Points
<1>7. CASE Shutdown
  BY <1>7, ThreadsAndWorkers DEF TypeOK, Shutdown, Goto, Points
<1>8. CASE Wake
  <2>1. stopping \in Workers /\ stopping \in Threads
    BY <1>8, ThreadsAndWorkers DEF ThreadsConsistent, Wake, Goto
  <2>2. stopping' \in 1..NumWorkers + 1
    BY <1>8, <2>1, WorkersAssumption DEF Wake, Workers
  <2>3. counter' \in [Threads -> Nat]
    BY <1>8, <2>1 DEF TypeOK, Wake
  <2>4. pc' \in [Threads -> Points] /\ pc[Main] = "wake" /\ pc'[Main] = "shutdown"
    BY <1>8, ThreadsAndWorkers DEF TypeOK, Wake, Goto, Points
  <2>5. \A s \in Threads : current'[s] # Nothing <=> pc'[s] \in {"callback", "signal"}
    BY <1>8, <2>4, ThreadsAndWorkers DEF TypeOK, Wake, Goto
  <2> QED BY <1>8, <2>2, <2>3, <2>4, <2>5 DEF TypeOK, Wake
<1>9. CASE Join
  BY <1>9, ThreadsAndWorkers DEF TypeOK, Join, Goto, Points
<1>10. CASE UNCHANGED vars
  BY <1>10 DEF TypeOK, vars
<1> QED
  BY <1>1, <1>2, <1>3, <1>4, <1>5, <1>6, <1>7, <1>8, <1>9, <1>10 DEF Next, Exit

------------------------------------------------------------------------------
(* Where the threads are tells who is registered, in the beginning ...     *)
LEMMA ThreadsInit == Init => ThreadsConsistent /\ EventFdUsed /\ NoLostWakeup
<1> SUFFICES ASSUME Init PROVE ThreadsConsistent /\ EventFdUsed /\ NoLostWakeup
  OBVIOUS
<1>1. \A t \in Threads :
        pc[t] = "process" /\ batch[t] = {} /\ registered[t] = FALSE
  BY DEF Init
<1>2. \A w \in Workers : w \in Threads
  BY ThreadsAndWorkers
<1> QED BY <1>1, <1>2, ThreadsAndWorkers
        DEF ThreadsConsistent, EventFdUsed, NoLostWakeup, Draining, Runs

(* ... when epoll_wait returns, ...                                        *)
LEMMA ThreadsReturn ==
    ASSUME LoopInv, NEW t \in Threads, NEW events \in SUBSET Event, Return(t, events)
    PROVE  ThreadsConsistent'
BY DEF LoopInv, TypeOK, ThreadsConsistent, Draining, Runs, Return, Goto

(* ... after the steps of a thread ...                                     *)
LEMMA ThreadsProgress ==
    ASSUME LoopInv, NEW t \in Threads, Progress(t)
    PROVE  ThreadsConsistent'
<1>1. CASE Increment(t)
  BY <1>1 DEF LoopInv, TypeOK, ThreadsConsistent, Draining, Runs, Increment, Goto
<1>2. CASE TakeTask(t)
  BY <1>2, HeadTailProperties
     DEF LoopInv, TypeOK, ThreadsConsistent, Draining, Runs, TakeTask, Goto
<1>3. CASE FinishTask(t)
  BY <1>3, TasksAreSomething
     DEF LoopInv, TypeOK, ThreadsConsistent, Draining, Runs, FinishTask, Goto
<1>4. CASE FindEmpty(t)
  BY <1>4 DEF LoopInv, TypeOK, ThreadsConsistent, Draining, Runs, FindEmpty, Goto
<1>5. CASE Wait(t)
  BY <1>5 DEF LoopInv, TypeOK, ThreadsConsistent, Draining, Runs, Wait, Goto
<1>6. CASE PollTasks(t)
  <2>1. PICK events \in SUBSET Event : Return(t, events)
    BY <1>6 DEF PollTasks, Event
  <2> QED BY <2>1, ThreadsReturn
<1>7. CASE WakeUp(t)
  BY <1>7 DEF LoopInv, TypeOK, ThreadsConsistent, Draining, Runs, WakeUp, Goto
<1>8. CASE SocketEvent(t)
  BY <1>8, TasksAreSomething
     DEF LoopInv, TypeOK, ThreadsConsistent, Draining, Runs, SocketEvent, Goto
<1>9. CASE FinishSocketEvent(t)
  BY <1>9, TasksAreSomething
     DEF LoopInv, TypeOK, ThreadsConsistent, Draining, Runs, FinishSocketEvent, Goto
<1>10. CASE FinishDispatch(t)
  BY <1>10 DEF LoopInv, TypeOK, ThreadsConsistent, Draining, Runs, FinishDispatch, Goto
<1>11. CASE Loop(t)
  BY <1>11 DEF LoopInv, TypeOK, ThreadsConsistent, Draining, Runs, Loop, Goto
<1> QED
  BY <1>1, <1>2, <1>3, <1>4, <1>5, <1>6, <1>7, <1>8, <1>9, <1>10, <1>11 DEF Progress


(* ... and after the others.                                               *)
LEMMA ThreadsNext == ASSUME LoopInv, [Next]_vars PROVE ThreadsConsistent'
<1>1. CASE \E t \in Threads : Progress(t)
  BY <1>1, ThreadsProgress
<1>2. CASE \E t, q \in Threads : Submit(t, q)
  BY <1>2 DEF LoopInv, TypeOK, ThreadsConsistent, Draining, Runs, Submit, Goto
<1>3. CASE \E w \in Workers : EndThread(w)
  BY <1>3, ThreadsAndWorkers
     DEF LoopInv, TypeOK, ThreadsConsistent, Draining, Runs, EndThread, Goto
<1>4. CASE PollSocket
  BY <1>4, ThreadsAndWorkers, ThreadsReturn DEF PollSocket, Event
<1>5. CASE RequestShutdown
  BY <1>5 DEF LoopInv, TypeOK, ThreadsConsistent, Draining, Runs, RequestShutdown
<1>6. CASE LeaveLoop
  BY <1>6, ThreadsAndWorkers
     DEF LoopInv, TypeOK, ThreadsConsistent, Draining, Runs, LeaveLoop, Goto
<1>7. CASE Shutdown
  BY <1>7, ThreadsAndWorkers
     DEF LoopInv, TypeOK, ThreadsConsistent, Draining, Runs, Shutdown, Goto
<1>8. CASE Wake
  BY <1>8, ThreadsAndWorkers
     DEF LoopInv, TypeOK, ThreadsConsistent, Draining, Runs, Wake, Goto
<1>9. CASE Join
  BY <1>9, ThreadsAndWorkers
     DEF LoopInv, TypeOK, ThreadsConsistent, Draining, Runs, Join, Goto
<1>10. CASE UNCHANGED vars
  BY <1>10 DEF LoopInv, ThreadsConsistent, Draining, Runs, vars
<1> QED
  BY <1>1, <1>2, <1>3, <1>4, <1>5, <1>6, <1>7, <1>8, <1>9, <1>10 DEF Next, Exit
------------------------------------------------------------------------------
(* A counter is reset by the thread itself when it wakes up, and by nobody *)
(* else; a thread does not fall asleep with an event it has still to look  *)
(* at.                                                                     *)
LEMMA CountersKept ==
    ASSUME LoopInv, [Next]_vars, NEW t \in Threads
    PROVE  /\ counter[t] > 0 => counter'[t] > 0 \/ WakeUp(t)
           /\ "tasks" \in batch'[t] =>
                "tasks" \in batch[t] \/ (PollTasks(t) /\ counter'[t] > 0)
<1>1. CASE \E s \in Threads : Increment(s)
  BY <1>1 DEF LoopInv, TypeOK, Increment
<1>2. CASE Wake
  BY <1>2 DEF LoopInv, TypeOK, Wake
<1>3. CASE \E s \in Threads : WakeUp(s)
  <2>1. PICK s \in Threads : WakeUp(s)
    BY <1>3
  <2>2. /\ batch' = [batch EXCEPT ![s] = @ \ {"tasks"}]
        /\ counter' = [counter EXCEPT ![s] = 0]
    BY <2>1 DEF WakeUp
  <2>3. DOMAIN batch = Threads /\ DOMAIN counter = Threads
    BY DEF LoopInv, TypeOK
  <2>4. CASE s = t
    BY <2>1, <2>2, <2>3, <2>4
  <2>5. CASE s # t
    BY <2>2, <2>3, <2>5
  <2> QED BY <2>4, <2>5
<1>4. CASE \E s \in Threads : PollTasks(s)
  BY <1>4 DEF LoopInv, TypeOK, PollTasks, TasksReady, Return
<1>5. CASE PollSocket
  BY <1>5 DEF LoopInv, TypeOK, PollSocket, Return
<1>6. CASE \E s \in Threads : SocketEvent(s)
  BY <1>6 DEF LoopInv, TypeOK, SocketEvent
<1>7. CASE UNCHANGED <<counter, batch>>
  BY <1>7
<1> QED
  BY <1>1, <1>2, <1>3, <1>4, <1>5, <1>6, <1>7
     DEF Next, Progress, Exit, Submit, TakeTask, FinishTask, FindEmpty, Wait,
         FinishSocketEvent, FinishDispatch, Loop, EndThread, RequestShutdown,
         LeaveLoop, Shutdown, Join, vars


(* Descriptors are used as epoll wants.                                    *)
LEMMA EventFdNext ==
    ASSUME LoopInv, [Next]_vars, ThreadsConsistent'
    PROVE  EventFdUsed'
<1> SUFFICES ASSUME NEW t \in Threads
             PROVE  /\ pc'[t] = "wait" => ~ registered'[t]
                    /\ pc'[t] = "poll" => registered'[t]
                    /\ "tasks" \in batch'[t] => registered'[t] /\ counter'[t] > 0
  BY DEF EventFdUsed
<1>1. registered'[t] <=> ~ (Draining(t)' \/ pc'[t] = "wait")
  BY DEF ThreadsConsistent
<1>2. "tasks" \in batch'[t] => registered'[t]
  BY <1>1, TasksAreSomething DEF ThreadsConsistent, Runs, Draining
<1>3. "tasks" \in batch'[t] => counter'[t] > 0
  <2>1. WakeUp(t) => "tasks" \notin batch'[t]
    BY DEF LoopInv, TypeOK, WakeUp
  <2> QED BY <2>1, CountersKept DEF LoopInv, EventFdUsed
<1> QED BY <1>1, <1>2, <1>3 DEF Draining

(* Who is about to signal a thread does so.                                *)
Signalled(t) ==
    counter[t] > 0 \/ \E s \in Threads : pc[s] = "signal" /\ target[s] = t

(* A signal is pending until its thread wakes up.                         *)
LEMMA SignalledKept ==
    ASSUME LoopInv, [Next]_vars, NEW t \in Threads, Signalled(t)
    PROVE  Signalled(t)' \/ WakeUp(t)
<1>1. CASE counter[t] > 0
  BY <1>1, CountersKept DEF Signalled
<1>2. ASSUME NEW s \in Threads, pc[s] = "signal", target[s] = t
      PROVE  Signalled(t)'
  <2>1. CASE Increment(s)
    BY <1>2, <2>1 DEF LoopInv, TypeOK, Increment, Signalled
  <2>2. CASE pc'[s] = "signal" /\ target'[s] = t
    BY <2>2 DEF Signalled
  <2>3. CASE \E u \in Threads : Progress(u) /\ ~ Increment(s)
    BY <1>2, <2>2, <2>3
       DEF LoopInv, TypeOK, Progress, Goto, Increment, TakeTask, FinishTask,
           FindEmpty, Wait, PollTasks, Return, WakeUp, SocketEvent,
           FinishSocketEvent, FinishDispatch, Loop
  <2>4. CASE \E u, q \in Threads : Submit(u, q)
    BY <1>2, <2>2, <2>4 DEF LoopInv, TypeOK, Submit, Goto
  <2>5. CASE (\E w \in Workers : EndThread(w)) \/ PollSocket
    BY <1>2, <2>2, <2>5, ThreadsAndWorkers
       DEF LoopInv, TypeOK, EndThread, PollSocket, Return, Goto
  <2>6. CASE RequestShutdown \/ Exit \/ UNCHANGED vars
    BY <1>2, <2>2, <2>6, ThreadsAndWorkers
       DEF LoopInv, TypeOK, Exit, RequestShutdown, LeaveLoop, Shutdown, Wake,
           Join, Goto, vars
  <2> QED BY <2>1, <2>3, <2>4, <2>5, <2>6 DEF Next
<1> QED BY <1>1, <1>2 DEF Signalled


(* A queue gets longer only by a task whose thread is about to be told,    *)
(* and a thread stops looking into its queue only when it is empty.        *)
LEMMA QueuesWatched ==
    ASSUME LoopInv, [Next]_vars, NEW t \in Threads,
           queue'[t] # <<>>, ~ Draining(t)'
    PROVE  Signalled(t)' \/ (queue[t] # <<>> /\ ~ Draining(t))
<1>1. CASE \E u, q \in Threads : Submit(u, q)
  <2>1. PICK u \in Threads, q \in Threads : Submit(u, q)
    BY <1>1
  <2>2. CASE q = t
    BY <2>1, <2>2 DEF LoopInv, TypeOK, Submit, Goto, Signalled
  <2>3. CASE q # t
    BY <2>1, <2>3 DEF LoopInv, TypeOK, Submit, Goto, Draining
  <2> QED BY <2>2, <2>3
<1>2. CASE \E u \in Threads : FindEmpty(u)
  BY <1>2 DEF LoopInv, TypeOK, FindEmpty, Goto, Draining
<1>3. CASE \E u \in Threads : TakeTask(u)
  BY <1>3, HeadTailProperties DEF LoopInv, TypeOK, TakeTask, Goto, Draining
<1>4. CASE \E u \in Threads : Increment(u) \/ FinishTask(u) \/ Wait(u)
  BY <1>4 DEF LoopInv, TypeOK, Increment, FinishTask, Wait, Goto, Draining
<1>5. CASE \E u \in Threads : PollTasks(u) \/ WakeUp(u)
  BY <1>5 DEF LoopInv, TypeOK, PollTasks, Return, WakeUp, Goto, Draining
<1>6. CASE \E u \in Threads : SocketEvent(u)
  BY <1>6 DEF LoopInv, TypeOK, SocketEvent, Goto, Draining
<1>7. CASE \E u \in Threads : FinishSocketEvent(u)
  BY <1>7, TasksAreSomething DEF LoopInv, TypeOK, FinishSocketEvent, Goto, Draining
<1>8. CASE \E u \in Threads : FinishDispatch(u) \/ Loop(u)
  BY <1>8 DEF LoopInv, TypeOK, FinishDispatch, Loop, Goto, Draining
<1>9. CASE (\E w \in Workers : EndThread(w)) \/ PollSocket
  BY <1>9, ThreadsAndWorkers
     DEF LoopInv, TypeOK, EndThread, PollSocket, Return, Goto, Draining
<1>10. CASE RequestShutdown \/ Exit \/ UNCHANGED vars
  BY <1>10, ThreadsAndWorkers
     DEF LoopInv, TypeOK, Exit, RequestShutdown, LeaveLoop, Shutdown, Wake, Join,
         Goto, Draining, vars
<1> QED
  BY <1>1, <1>2, <1>3, <1>4, <1>5, <1>6, <1>7, <1>8, <1>9, <1>10 DEF Next, Progress

(* A worker falls asleep only if it was not told to shut down, and is told *)
(* with its flag by the main thread, which then signals it.                *)
LEMMA ShutdownTold ==
    ASSUME LoopInv, [Next]_vars, NEW w \in Workers,
           shutdown'[w], pc'[w] = "poll"
    PROVE  \/ pc'[Main] = "wake" /\ stopping' = w
           \/ counter'[w] > 0
           \/ /\ shutdown[w] /\ pc[w] = "poll"
              /\ ~ (pc[Main] = "wake" /\ stopping = w)
<1> w \in Threads /\ w # Main /\ Main \in Threads
  BY ThreadsAndWorkers
<1>1. CASE Shutdown
  BY <1>1 DEF LoopInv, TypeOK, Shutdown, Goto
<1>2. CASE Wake
  BY <1>2 DEF LoopInv, TypeOK, Wake, Goto
<1>3. CASE \E u \in Threads : Loop(u)
  BY <1>3 DEF LoopInv, TypeOK, Loop, Keeps, Goto
<1>4. CASE \E u \in Threads : Progress(u) /\ ~ Loop(u)
  BY <1>4
     DEF LoopInv, TypeOK, Progress, Goto, Increment, TakeTask, FinishTask,
         FindEmpty, Wait, PollTasks, Return, WakeUp, SocketEvent,
         FinishSocketEvent, FinishDispatch
<1>5. CASE \E u, q \in Threads : Submit(u, q)
  BY <1>5 DEF LoopInv, TypeOK, Submit, Goto
<1>6. CASE (\E u \in Workers : EndThread(u)) \/ PollSocket
  BY <1>6, ThreadsAndWorkers DEF LoopInv, TypeOK, EndThread, PollSocket, Return, Goto
<1>7. CASE RequestShutdown \/ LeaveLoop \/ Join \/ UNCHANGED vars
  BY <1>7 DEF LoopInv, TypeOK, RequestShutdown, LeaveLoop, Join, Goto, vars
<1> QED BY <1>1, <1>2, <1>3, <1>4, <1>5, <1>6, <1>7 DEF Next, Exit

(* No wakeup is lost.                                                      *)
LEMMA WakeupNext == ASSUME LoopInv, [Next]_vars PROVE NoLostWakeup'
<1>1. ASSUME NEW t \in Threads, queue'[t] # <<>>, ~ Draining(t)'
      PROVE  Signalled(t)'
  <2>1. SUFFICES ASSUME queue[t] # <<>>, ~ Draining(t) PROVE Signalled(t)'
    BY <1>1, QueuesWatched
  <2>2. Signalled(t)
    BY <2>1 DEF LoopInv, NoLostWakeup, Signalled
  <2>3. ~ WakeUp(t)
    BY <1>1 DEF LoopInv, TypeOK, WakeUp, Goto, Draining
  <2> QED BY <2>2, <2>3, SignalledKept
<1>2. ASSUME NEW w \in Workers, shutdown'[w], pc'[w] = "poll"
      PROVE  counter'[w] > 0 \/ (pc'[Main] = "wake" /\ stopping' = w)
  <2>1. SUFFICES ASSUME shutdown[w], pc[w] = "poll",
                        ~ (pc[Main] = "wake" /\ stopping = w)
                 PROVE  counter'[w] > 0
    BY <1>2, ShutdownTold
  <2>2. counter[w] > 0
    BY <2>1 DEF LoopInv, NoLostWakeup
  <2>3. w \in Threads /\ ~ WakeUp(w)
    BY <2>1, ThreadsAndWorkers DEF WakeUp, Goto
  <2> QED BY <2>2, <2>3, CountersKept
<1> QED BY <1>1, <1>2 DEF NoLostWakeup, Signalled
------------------------------------------------------------------------------
(* The invariant holds in every reachable state of the runtime.            *)
THEOREM LoopSafety == Spec => []LoopInv
<1>1. Init => LoopInv
  BY TypeInit, ThreadsInit DEF LoopInv
<1>2. ASSUME LoopInv, [Next]_vars PROVE LoopInv'
  <2>1. ThreadsConsistent'
    BY <1>2, ThreadsNext
  <2> QED BY <1>2, <2>1, TypeNext, EventFdNext, WakeupNext DEF LoopInv
<1> QED BY <1>1, <1>2, PTL DEF Spec

(* Types.                                                                  *)
THEOREM TypeCorrect == Spec => []TypeOK
<1>1. LoopInv => TypeOK
  BY DEF LoopInv
<1> QED BY <1>1, LoopSafety, PTL

(* However many threads submit tasks to a thread while it falls asleep, it *)
(* is told of them, and a worker that sleeps is told of the shutdown.      *)
THEOREM WakeupNeverLost == Spec => []NoLostWakeup
<1>1. LoopInv => NoLostWakeup
  BY DEF LoopInv
<1> QED BY <1>1, LoopSafety, PTL

(* wait() never finds its descriptor in the epoll set, and the callback of *)
(* the descriptor never blocks.                                            *)
THEOREM EventFdAlwaysUsed == Spec => []EventFdUsed
<1>1. LoopInv => EventFdUsed
  BY DEF LoopInv
<1> QED BY <1>1, LoopSafety, PTL
------------------------------------------------------------------------------
(* EventLoop implements TaskQueues, liveness apart.                        *)

(* Tasks are numbered in the order of their submission.                    *)
TasksNumbered ==
    \A t \in Threads :
        /\ \A n \in 1..Len(queue[t]) : queue[t][n] <= submitted
        /\ \A n \in 1..Len(begun[t]) : begun[t][n] <= submitted

RefinementInv == TypeOK /\ TasksNumbered

(* Queues hold tasks, which are numbers.                                  *)
LEMMA QueueElements ==
    ASSUME RefinementInv, NEW u \in Threads
    PROVE  /\ queue[u] \in Seq(Tasks) /\ begun[u] \in Seq(Tasks)
           /\ Len(queue[u]) \in Nat /\ Len(begun[u]) \in Nat
           /\ \A n \in 1..Len(queue[u]) : queue[u][n] \in Nat
           /\ \A n \in 1..Len(begun[u]) : begun[u][n] \in Nat
<1>1. queue[u] \in Seq(Tasks) /\ begun[u] \in Seq(Tasks) /\ Tasks \subseteq Nat
  BY DEF RefinementInv, TypeOK, Tasks
<1>2. Len(queue[u]) \in Nat /\ Len(begun[u]) \in Nat
  BY <1>1
<1>3. \A n \in 1..Len(queue[u]) : queue[u][n] \in Tasks
  BY <1>1, ElementOfSeq
<1>4. \A n \in 1..Len(begun[u]) : begun[u][n] \in Tasks
  BY <1>1, ElementOfSeq
<1> QED BY <1>1, <1>2, <1>3, <1>4

(* A submission: the number that comes next is fresh.                      *)
LEMMA SubmitRefines ==
    ASSUME RefinementInv, NEW t \in Threads, NEW q \in Threads, Submit(t, q)
    PROVE  TasksNumbered' /\ Queues!Next
<1> USE DEF RefinementInv
<1>1. submitted \in Nat /\ submitted + 1 \in Tasks /\ submitted' = submitted + 1
  BY TasksAssumption DEF TypeOK, Submit, Tasks
<1>2. /\ begun' = begun
      /\ queue' = [queue EXCEPT ![q] = Append(@, submitted + 1)]
  BY DEF Submit
<1>3. ASSUME NEW u \in Threads
      PROVE  /\ queue[u] \in Seq(Tasks)
             /\ Len(queue[u]) \in Nat /\ Len(begun[u]) \in Nat
             /\ \A n \in 1..Len(queue[u]) : queue[u][n] \in Nat
             /\ \A n \in 1..Len(begun[u]) : begun[u][n] \in Nat
  BY QueueElements
<1>4. TasksNumbered'
  <2> SUFFICES ASSUME NEW u \in Threads
               PROVE  /\ \A n \in 1..Len(queue'[u]) : queue'[u][n] <= submitted'
                      /\ \A n \in 1..Len(begun'[u]) : begun'[u][n] <= submitted'
    BY DEF TasksNumbered
  <2>1. \A n \in 1..Len(begun'[u]) : begun'[u][n] <= submitted'
    BY <1>1, <1>2, <1>3 DEF TasksNumbered
  <2>2. \A n \in 1..Len(queue[u]) : queue[u][n] <= submitted'
    BY <1>1, <1>3 DEF TasksNumbered
  <2>3. CASE u # q
    <3>1. queue'[u] = queue[u]
      BY <1>2, <2>3 DEF TypeOK
    <3> QED BY <2>1, <2>2, <3>1
  <2>4. CASE u = q
    <3>1. queue'[u] = Append(queue[u], submitted + 1)
      BY <1>2, <2>4 DEF TypeOK
    <3> QED BY <1>1, <1>3, <2>1, <2>2, <3>1
  <2> QED BY <2>3, <2>4
<1>5. Queues!Fresh(submitted + 1)
  BY <1>1, <1>3 DEF Queues!Fresh, TasksNumbered
<1>6. {u \in Threads : pc'[u] \in {"shutdown", "wake", "ended"}}
        = {u \in Threads : pc[u] \in {"shutdown", "wake", "ended"}}
  BY DEF TypeOK, Submit, Goto
<1>7. Queues!Submit(q, submitted + 1)
  BY <1>2, <1>5, <1>6 DEF Queues!Submit
<1> QED BY <1>1, <1>4, <1>7 DEF Queues!Next

(* The thread begins the task at the head of its queue.                    *)
LEMMA TakeTaskRefines ==
    ASSUME RefinementInv, NEW t \in Threads, TakeTask(t)
    PROVE  TasksNumbered' /\ Queues!Next
<1>1. /\ submitted' = submitted /\ submitted \in Nat
      /\ begun' = [begun EXCEPT ![t] = Append(@, Head(queue[t]))]
      /\ queue' = [queue EXCEPT ![t] = Tail(@)]
      /\ queue[t] # <<>>
  BY TasksAssumption DEF RefinementInv, TypeOK, TakeTask
<1>2. TasksNumbered'
  <2> SUFFICES ASSUME NEW u \in Threads
               PROVE  /\ \A n \in 1..Len(queue'[u]) : queue'[u][n] <= submitted
                      /\ \A n \in 1..Len(begun'[u]) : begun'[u][n] <= submitted
    BY <1>1 DEF TasksNumbered
  <2>1. /\ \A n \in 1..Len(queue[u]) : queue[u][n] <= submitted
        /\ \A n \in 1..Len(begun[u]) : begun[u][n] <= submitted
    BY DEF RefinementInv, TasksNumbered
  <2>2. CASE u # t
    <3>1. queue'[u] = queue[u] /\ begun'[u] = begun[u]
      BY <1>1, <2>2 DEF RefinementInv, TypeOK
    <3> QED BY <2>1, <3>1
  <2>3. CASE u = t
    <3>1. queue'[u] = Tail(queue[u]) /\ begun'[u] = Append(begun[u], Head(queue[u]))
      BY <1>1, <2>3 DEF RefinementInv, TypeOK
    <3>2. queue[u] # <<>> /\ queue[u] \in Seq(Tasks) /\ begun[u] \in Seq(Tasks)
      BY <1>1, <2>3, QueueElements
    <3>3. Head(queue[u]) = queue[u][1] /\ 1 \in 1..Len(queue[u])
      BY <3>2, EmptySeq
    <3>4. \A n \in 1..Len(queue'[u]) : queue'[u][n] <= submitted
      BY <2>1, <3>1, <3>2, HeadTailProperties
    <3>5. \A n \in 1..Len(begun'[u]) : begun'[u][n] <= submitted
      BY <2>1, <3>1, <3>2, <3>3
    <3> QED BY <3>4, <3>5
  <2> QED BY <2>2, <2>3
<1>3. {u \in Threads : pc'[u] \in {"shutdown", "wake", "ended"}}
        = {u \in Threads : pc[u] \in {"shutdown", "wake", "ended"}}
  BY DEF RefinementInv, TypeOK, TakeTask, Goto
<1>4. pc[t] = "process"
  BY DEF TakeTask, Goto
<1>5. Queues!Begin(t)
  BY <1>1, <1>3, <1>4 DEF Queues!Begin
<1> QED BY <1>2, <1>5 DEF Queues!Next

(* A thread that leaves its loop begins no task any more.                  *)
LEMMA LeavingRefines ==
    ASSUME RefinementInv, NEW t \in Threads, NEW to \in {"ended", "shutdown"},
           Goto(t, "loop", to), UNCHANGED <<queue, begun, submitted>>
    PROVE  TasksNumbered' /\ Queues!Next
<1>1. TasksNumbered'
  BY DEF RefinementInv, TasksNumbered
<1>2. {u \in Threads : pc'[u] \in {"shutdown", "wake", "ended"}}
        = {u \in Threads : pc[u] \in {"shutdown", "wake", "ended"}} \cup {t}
  BY DEF RefinementInv, TypeOK, Goto
<1>3. Queues!Stop(t)
  BY <1>2 DEF Queues!Stop
<1> QED BY <1>1, <1>3 DEF Queues!Next

(* Every other step of a thread is out of sight.                           *)
LEMMA OtherStepsStutter ==
    ASSUME RefinementInv, UNCHANGED <<queue, begun, submitted>>,
           \/ UNCHANGED pc
           \/ \E t \in Threads : \E from, to \in Points \ {"shutdown", "wake", "ended"} :
                  Goto(t, from, to)
           \/ \E t \in Threads : \E from, to \in {"shutdown", "wake", "ended"} :
                  Goto(t, from, to)
    PROVE  TasksNumbered' /\ UNCHANGED Queues!vars
<1>1. TasksNumbered'
  BY DEF RefinementInv, TasksNumbered
<1>2. \A u \in Threads : pc'[u] \in {"shutdown", "wake", "ended"}
                        <=> pc[u] \in {"shutdown", "wake", "ended"}
  BY DEF RefinementInv, TypeOK, Goto, Points
<1> QED BY <1>1, <1>2 DEF Queues!vars

(* Every step is one of the task queues, or none.                         *)
LEMMA StepRefines ==
    ASSUME RefinementInv, [Next]_vars
    PROVE  TasksNumbered' /\ [Queues!Next]_Queues!vars
<1> DEFINE Ended == {"shutdown", "wake", "ended"}
<1>1. ASSUME NEW t \in Threads, Progress(t)
      PROVE  TasksNumbered' /\ [Queues!Next]_Queues!vars
  <2>1. CASE TakeTask(t)
    BY <2>1, TakeTaskRefines
  <2>2. CASE ~ TakeTask(t)
    <3>1. UNCHANGED <<queue, begun, submitted>>
      BY <1>1, <2>2 DEF Progress, Increment, FinishTask, FindEmpty, Wait, PollTasks,
        Return, WakeUp, SocketEvent, FinishSocketEvent, FinishDispatch, Loop, history
    <3>2. \E from, to \in Points \ Ended : Goto(t, from, to)
      BY <1>1, <2>2 DEF Progress, Increment, FinishTask, FindEmpty, Wait, PollTasks,
        Return, WakeUp, SocketEvent, FinishSocketEvent, FinishDispatch, Loop, Points
    <3> QED BY <3>1, <3>2, OtherStepsStutter
  <2> QED BY <2>1, <2>2
<1>2. ASSUME NEW t \in Threads, NEW q \in Threads, Submit(t, q)
      PROVE  TasksNumbered' /\ [Queues!Next]_Queues!vars
  BY <1>2, SubmitRefines
<1>3. ASSUME NEW w \in Workers, EndThread(w)
      PROVE  TasksNumbered' /\ [Queues!Next]_Queues!vars
  <2>1. w \in Threads
    BY DEF Workers, Threads
  <2> QED BY <1>3, <2>1, LeavingRefines DEF EndThread, history
<1>4. CASE PollSocket
  <2>1. Main \in Threads
    BY WorkersAssumption DEF Main, Threads
  <2>2. UNCHANGED <<queue, begun, submitted>> /\ Goto(Main, "poll", "dispatch")
    BY <1>4 DEF PollSocket, Return, history
  <2>3. {"poll", "dispatch"} \subseteq Points \ Ended
    BY DEF Points
  <2> QED BY <2>1, <2>2, <2>3, OtherStepsStutter
<1>5. CASE RequestShutdown
  BY <1>5, OtherStepsStutter DEF RequestShutdown, history
<1>6. CASE Exit
  <2>1. Main \in Threads
    BY WorkersAssumption DEF Main, Threads
  <2>2. UNCHANGED <<queue, begun, submitted>>
    BY <1>6 DEF Exit, LeaveLoop, Shutdown, Wake, Join, history
  <2>3. CASE LeaveLoop
    BY <2>1, <2>2, <2>3, LeavingRefines DEF LeaveLoop
  <2>4. CASE Shutdown \/ Wake \/ Join
    <3>1. \E from, to \in Ended : Goto(Main, from, to)
      BY <2>4 DEF Shutdown, Wake, Join
    <3> QED BY <2>1, <2>2, <3>1, OtherStepsStutter
  <2> QED BY <1>6, <2>3, <2>4 DEF Exit
<1>7. CASE UNCHANGED vars
  BY <1>7, OtherStepsStutter DEF vars, history
<1> QED BY <1>1, <1>2, <1>3, <1>4, <1>5, <1>6, <1>7 DEF Next

(* The queues do what TaskQueues says, but for its fairness, which is left *)
(* to the run.                                                             *)
THEOREM QueuesImplemented == Spec => Queues!Init /\ [][Queues!Next]_Queues!vars
<1>1. Init => TasksNumbered /\ Queues!Init
  BY DEF Init, TasksNumbered, Queues!Init
<1>2. TypeOK /\ TasksNumbered /\ [Next]_vars => TasksNumbered' /\ [Queues!Next]_Queues!vars
  BY StepRefines DEF RefinementInv
<1> QED BY <1>1, <1>2, TypeCorrect, PTL DEF Spec
===============================================================================
