------------------------------ MODULE EventLoop -------------------------------
(***************************************************************************)
(* The runtime below all components (src/shard/src/ll/tasks.cpp, the event *)
(* loop of src/shard/src/os/linux.cpp, the loops of main.cpp): each thread *)
(* sleeps in epoll_wait on its own LocalAsyncHost, and drains its own      *)
(* LocalTaskQueue when the EventFd of the queue is incremented.  The main  *)
(* thread also serves sockets; it shuts the workers down and joins them.   *)
(*                                                                         *)
(* A thread is at one point of its loop (pc), and `current` is what it     *)
(* runs there: a task, the callback of a socket, or nothing.  Callbacks    *)
(* may submit tasks to any queue: to their own thread                      *)
(* (LocalTaskQueue::get), back to another one (TaskCallback), or to any    *)
(* worker (TaskPool, which chooses at random).                             *)
(***************************************************************************)
EXTENDS Integers, Sequences

CONSTANTS
    NumWorkers,  \* worker threads (two in main.cpp)
    MaxTasks     \* bound on the tasks that are submitted

ASSUME WorkersAssumption == NumWorkers \in Nat
ASSUME TasksAssumption == MaxTasks \in Nat

VARIABLES
    queue,       \* p_queue of the LocalTaskQueue of a thread
    counter,     \* the counter of its EventFd
    registered,  \* its EventFd is in the epoll set of the thread
    pc,          \* where the thread is
    current,     \* the task or event callback it runs
    batch,       \* events of epoll_wait it has not dispatched
    target,      \* the queue it has pushed to and not yet signalled
    running,     \* `running` of main.cpp
    shutdown,    \* p_shutdown of a worker
    stopping,    \* the worker that the main thread is shutting down
    begun,       \* tasks a thread has begun, in order (history)
    submitted    \* how many tasks were submitted (history)

fds == <<counter, registered>>
flags == <<running, shutdown, stopping>>
history == <<begun, submitted>>
vars == <<queue, fds, pc, current, batch, target, flags, history>>

Main == 0
Workers == 1..NumWorkers
Threads == 0..NumWorkers
Tasks == 1..MaxTasks
Nothing == 0
Socket == -1
Event == {"tasks", "socket"}

(* main() calls process() before it enters its loop, and threadMain() does *)
(* too; tasks may be submitted to a worker before its thread has started.  *)
Init ==
    /\ queue = [t \in Threads |-> <<>>]
    /\ counter = [t \in Threads |-> 0]
    /\ registered = [t \in Threads |-> FALSE]
    /\ pc = [t \in Threads |-> "process"]
    /\ current = [t \in Threads |-> Nothing]
    /\ batch = [t \in Threads |-> {}]
    /\ target = [t \in Threads |-> Main]
    /\ running = TRUE
    /\ shutdown = [w \in Workers |-> FALSE]
    /\ stopping = 1
    /\ begun = [t \in Threads |-> <<>>]
    /\ submitted = 0

Goto(t, from, to) == pc[t] = from /\ pc' = [pc EXCEPT ![t] = to]
-------------------------------------------------------------------------------
(* LocalTaskQueue *)

(* submit(), under p_mutex: the task is in the queue, nobody is told yet. *)
Submit(t, q) ==
    /\ submitted < MaxTasks
    /\ Goto(t, "callback", "signal")
    /\ queue' = [queue EXCEPT ![q] = Append(@, submitted + 1)]
    /\ submitted' = submitted + 1
    /\ target' = [target EXCEPT ![t] = q]
    /\ UNCHANGED <<fds, current, batch, flags, begun>>

(* Mutant of Increment: nobody is told. *)
NoIncrement(t) ==
    /\ Goto(t, "signal", "callback")
    /\ UNCHANGED <<queue, fds, current, batch, target, flags, history>>

(* ... after the unlock. *)
Increment(t) ==
    /\ Goto(t, "signal", "callback")
    /\ counter' = [counter EXCEPT ![target[t]] = @ + 1]
    /\ UNCHANGED <<queue, registered, current, batch, target, flags, history>>

(* process() takes a task and unlocks ... *)
TakeTask(t) ==
    /\ queue[t] # <<>>
    /\ Goto(t, "process", "callback")
    /\ current' = [current EXCEPT ![t] = Head(queue[t])]
    /\ queue' = [queue EXCEPT ![t] = Tail(@)]
    /\ begun' = [begun EXCEPT ![t] = Append(@, Head(queue[t]))]
    /\ UNCHANGED <<fds, batch, target, flags, submitted>>

(* Mutant of FinishTask: the task is not forgotten. *)
KeepTask(t) ==
    /\ current[t] \in Tasks
    /\ Goto(t, "callback", "process")
    /\ UNCHANGED <<queue, fds, current, batch, target, flags, history>>

(* ... its callback returns, and process() locks again ... *)
FinishTask(t) ==
    /\ current[t] \in Tasks
    /\ Goto(t, "callback", "process")
    /\ current' = [current EXCEPT ![t] = Nothing]
    /\ UNCHANGED <<queue, fds, batch, target, flags, history>>

(* Mutant of FindEmpty: one task for each wakeup. *)
FindEnough(t) ==
    /\ Goto(t, "process", "wait")
    /\ UNCHANGED <<queue, fds, current, batch, target, flags, history>>

(* ... until it finds none, unlocks, and only then waits. *)
FindEmpty(t) ==
    /\ queue[t] = <<>>
    /\ Goto(t, "process", "wait")
    /\ UNCHANGED <<queue, fds, current, batch, target, flags, history>>

(* EventFd::wait: EPOLL_CTL_ADD, which fails if the descriptor is there. *)
Wait(t) ==
    /\ Goto(t, "wait", "dispatch")
    /\ registered' = [registered EXCEPT ![t] = TRUE]
    /\ UNCHANGED <<queue, counter, current, batch, target, flags, history>>
-------------------------------------------------------------------------------
(* LocalAsyncHost::process *)

(* epoll_wait returns all that is ready; sockets belong to the main thread. *)
TasksReady(t) ==
    /\ registered[t]
    /\ counter[t] > 0

Return(t, events) ==
    /\ Goto(t, "poll", "dispatch")
    /\ batch' = [batch EXCEPT ![t] = events]
    /\ UNCHANGED <<queue, fds, current, target, flags, history>>

PollTasks(t) ==
    /\ TasksReady(t)
    /\ \/ Return(t, {"tasks"})
       \/ t = Main /\ Return(t, {"tasks", "socket"})

PollSocket ==
    /\ ~ TasksReady(Main)
    /\ Return(Main, {"socket"})

(* Mutant of WakeUp: the descriptor stays in the epoll set. *)
WakeUpRegistered(t) ==
    /\ "tasks" \in batch[t]
    /\ Goto(t, "dispatch", "process")
    /\ batch' = [batch EXCEPT ![t] = @ \ {"tasks"}]
    /\ counter' = [counter EXCEPT ![t] = 0]
    /\ UNCHANGED <<queue, registered, current, target, flags, history>>

(* EventFd::EpollCallback: EPOLL_CTL_DEL, then read() resets the counter,  *)
(* then p_callback is process().                                           *)
WakeUp(t) ==
    /\ "tasks" \in batch[t]
    /\ Goto(t, "dispatch", "process")
    /\ batch' = [batch EXCEPT ![t] = @ \ {"tasks"}]
    /\ registered' = [registered EXCEPT ![t] = FALSE]
    /\ counter' = [counter EXCEPT ![t] = 0]
    /\ UNCHANGED <<queue, current, target, flags, history>>

(* The callback of a socket runs a request handler, on the main thread. *)
SocketEvent(t) ==
    /\ "socket" \in batch[t]
    /\ Goto(t, "dispatch", "callback")
    /\ batch' = [batch EXCEPT ![t] = @ \ {"socket"}]
    /\ current' = [current EXCEPT ![t] = Socket]
    /\ UNCHANGED <<queue, fds, target, flags, history>>

FinishSocketEvent(t) ==
    /\ current[t] = Socket
    /\ Goto(t, "callback", "dispatch")
    /\ current' = [current EXCEPT ![t] = Nothing]
    /\ UNCHANGED <<queue, fds, batch, target, flags, history>>

FinishDispatch(t) ==
    /\ batch[t] = {}
    /\ Goto(t, "dispatch", "loop")
    /\ UNCHANGED <<queue, fds, current, batch, target, flags, history>>
-------------------------------------------------------------------------------
(* The loops and the shutdown *)

(* while(!p_shutdown), and while(running) *)
Keeps(t) == IF t = Main THEN running ELSE ~ shutdown[t]

Loop(t) ==
    /\ Keeps(t)
    /\ Goto(t, "loop", "poll")
    /\ UNCHANGED <<queue, fds, current, batch, target, flags, history>>

EndThread(w) ==
    /\ ~ Keeps(w)
    /\ Goto(w, "loop", "ended")
    /\ UNCHANGED <<queue, fds, current, batch, target, flags, history>>

(* kCqShutdown is handled in the callback of a socket. *)
RequestShutdown ==
    /\ pc[Main] = "callback" /\ current[Main] = Socket
    /\ running' = FALSE
    /\ UNCHANGED <<queue, fds, pc, current, batch, target, shutdown, stopping,
                   history>>

LeaveLoop ==
    /\ ~ Keeps(Main)
    /\ Goto(Main, "loop", "shutdown")
    /\ UNCHANGED <<queue, fds, current, batch, target, flags, history>>

(* WorkerThread::shutdown: the flag first, then wake() ... *)
Shutdown ==
    /\ stopping \in Workers
    /\ Goto(Main, "shutdown", "wake")
    /\ shutdown' = [shutdown EXCEPT ![stopping] = TRUE]
    /\ UNCHANGED <<queue, fds, current, batch, target, running, stopping,
                   history>>

(* Mutant of Wake: the flag is set, but nobody is told. *)
NoWake ==
    /\ Goto(Main, "wake", "shutdown")
    /\ stopping' = stopping + 1
    /\ UNCHANGED <<queue, fds, current, batch, target, running, shutdown, history>>

Wake ==
    /\ Goto(Main, "wake", "shutdown")
    /\ counter' = [counter EXCEPT ![stopping] = @ + 1]
    /\ stopping' = stopping + 1
    /\ UNCHANGED <<queue, registered, current, batch, target, running, shutdown,
                   history>>

(* ... and when all were told, main joins them and returns. *)
Join ==
    /\ stopping \notin Workers
    /\ \A w \in Workers : pc[w] = "ended"
    /\ Goto(Main, "shutdown", "ended")
    /\ UNCHANGED <<queue, fds, current, batch, target, flags, history>>
-------------------------------------------------------------------------------
(* What a thread does by itself when the system lets it run. *)
Progress(t) ==
    \/ Increment(t) \/ TakeTask(t) \/ FinishTask(t) \/ FindEmpty(t) \/ Wait(t)
    \/ PollTasks(t) \/ WakeUp(t) \/ SocketEvent(t) \/ FinishSocketEvent(t)
    \/ FinishDispatch(t) \/ Loop(t)

Exit == LeaveLoop \/ Shutdown \/ Wake \/ Join

Next ==
    \/ \E t \in Threads : Progress(t)
    \/ \E t, q \in Threads : Submit(t, q)
    \/ \E w \in Workers : EndThread(w)
    \/ PollSocket
    \/ RequestShutdown
    \/ Exit

(* Threads are scheduled, and callbacks return.  Nobody has to connect, to *)
(* submit, or to ask for a shutdown.                                       *)
Fairness ==
    /\ \A t \in Threads : WF_vars(Progress(t))
    /\ \A w \in Workers : WF_vars(EndThread(w))
    /\ WF_vars(Exit)

Spec == Init /\ [][Next]_vars /\ Fairness
-------------------------------------------------------------------------------
(* Properties *)

Points == {"process", "callback", "signal", "wait", "dispatch", "loop", "poll",
           "shutdown", "wake", "ended"}

(* Every variable has its type, and a thread runs something exactly while  *)
(* it is in a callback.                                                    *)
TypeOK ==
    /\ queue \in [Threads -> Seq(Tasks)]
    /\ counter \in [Threads -> Nat]
    /\ registered \in [Threads -> BOOLEAN]
    /\ pc \in [Threads -> Points]
    /\ current \in [Threads -> Tasks \cup {Nothing, Socket}]
    /\ \A t \in Threads : current[t] # Nothing <=> pc[t] \in {"callback", "signal"}
    /\ batch \in [Threads -> SUBSET Event]
    /\ target \in [Threads -> Threads]
    /\ running \in BOOLEAN
    /\ shutdown \in [Workers -> BOOLEAN]
    /\ stopping \in 1..NumWorkers + 1
    /\ begun \in [Threads -> Seq(Tasks)]
    /\ submitted \in 0..MaxTasks

(* A thread is inside of LocalTaskQueue::process. *)
Draining(t) ==
    \/ pc[t] = "process"
    \/ pc[t] \in {"callback", "signal"} /\ current[t] \in Tasks

(* A thread that does not look into its queue will be woken up for what is *)
(* in it: its descriptor is signalled, or somebody is about to signal it.  *)
(* This is what the order push, increment and the order read, drain, wait  *)
(* are for.  Nor is a worker asleep without a signal after it was told to  *)
(* shut down: main() would wait for it for ever.                           *)
NoLostWakeup ==
    /\ \A t \in Threads :
        queue[t] # <<>> /\ ~ Draining(t) =>
            counter[t] > 0 \/ \E s \in Threads : pc[s] = "signal" /\ target[s] = t
    /\ \A w \in Workers :
        shutdown[w] /\ pc[w] = "poll" =>
            counter[w] > 0 \/ (pc[Main] = "wake" /\ stopping = w)

(* EventFd::wait is called for a descriptor that is not in the epoll set   *)
(* (it throws otherwise), a thread that sleeps has its own in it, and the  *)
(* read() in EpollCallback finds a counter that is not zero (it would      *)
(* block otherwise, the descriptor is a blocking one).                     *)
EventFdUsed ==
    \A t \in Threads :
        /\ pc[t] = "wait" => ~ registered[t]
        /\ pc[t] = "poll" => registered[t]
        /\ "tasks" \in batch[t] => registered[t] /\ counter[t] > 0

(* Each task runs once, on the thread it was submitted to, in the order    *)
(* of submission, and is not left behind unless that thread ends.          *)
Queues == INSTANCE TaskQueues WITH
    pending <- queue,
    stopped <- {t \in Threads : pc[t] \in {"shutdown", "wake", "ended"}}

ImplementsQueues == Queues!Spec

(* Once a client has asked for a shutdown, the process ends.               *)
ShutdownEnds == []<>(running \/ pc[Main] = "ended")
==============================================================================
