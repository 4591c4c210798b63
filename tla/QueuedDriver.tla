----------------------------- MODULE QueuedDriver -----------------------------
(***************************************************************************)
(* QueuedStorageDriver (src/shard/src/db/storage-driver.cpp): the engine   *)
(* hands commits to sequence(), clients and the engine call fetch(), and   *)
(* one ProcessClosure switches between a request phase, in which fetches   *)
(* run side by side, and a sequence phase, in which it alone applies       *)
(* commits.  QueuedViewDriver is the same code with queries for fetches.   *)
(*                                                                         *)
(* The storage below it is FlexStorage: an index from document id and      *)
(* sequence id to a buffer, which is left out.                             *)
(***************************************************************************)
EXTENDS Integers, Sequences, FiniteSets, FiniteSetsExt, Functions

CONSTANTS
    Fetches,        \* requests
    Documents,      \* document ids
    MaxSequence,    \* bound on sequence ids
    MaxMutations,   \* bound on the mutations of a commit
    MaxCallers      \* threads: how many callers may be about to signal

ASSUME FetchesAssumption == IsFiniteSet(Fetches)
ASSUME DocumentsAssumption == 0 \notin Documents
ASSUME MaxAssumption ==
    MaxSequence \in Nat /\ MaxMutations \in Nat /\ MaxCallers \in Nat

VARIABLES
    sequenceQueue,      \* p_sequenceQueue
    fetchQueue,         \* p_fetchQueue
    activeRequests,     \* p_activeRequests
    requestPhase,       \* p_requestPhase
    currentSequenceId,  \* p_currentSequenceId
    unsignalled,        \* calls between lock.unlock() and p_eventFd->increment()
    eventFd,            \* the counter of p_eventFd is not zero
    pc,                 \* where the one ProcessClosure is
    tasks,              \* unqueueRequest tasks in the process pool
    sequenceItem,       \* its p_sequenceItem
    index,              \* its p_index, counted from 1
    stored,             \* keys in the index tree of the storage
    fetches,            \* the requests: who holds them, what they ask
    sequenced           \* every commit handed over (history)

queues == <<sequenceQueue, fetchQueue>>
wakeup == <<unsignalled, eventFd>>
closure == <<sequenceItem, index, stored, currentSequenceId>>
vars == <<queues, activeRequests, requestPhase, wakeup, pc, tasks, closure,
          fetches, sequenced>>

SequenceIds == 1..MaxSequence
Mutations == UNION {[1..n -> Documents] : n \in 0..MaxMutations}
SequenceItem == [sequenceId : SequenceIds, mutations : Mutations]
NoItem == [sequenceId |-> 0, mutations |-> <<>>]

NotFound == 0
Pending == -1

(* queued, then active in processFetch, then its callback has been called; *)
(* after finishRequest() the request is gone.                              *)
FetchState == {"none", "queued", "active", "answered"}
NoFetch == [state |-> "none", documentId |-> 0, sequenceId |-> 0,
            answer |-> Pending]

FetchRecord == [state : FetchState, documentId : Documents \cup {0},
                sequenceId : Nat, answer : Int]

(* The steps of ProcessClosure, in the storage driver and the view driver.  *)
Phase == {"process", "idle", "wait",
          "endRequestPhase", "busy", "waitRequests",
          "sequencePhase", "apply", "unqueue"}
------------------------------------------------------------------------------
Init ==
    /\ sequenceQueue = <<>> /\ fetchQueue = <<>>
    /\ activeRequests = 0 /\ requestPhase = TRUE
    /\ unsignalled = 0 /\ eventFd = FALSE
    /\ pc = "process" /\ tasks = 0
    /\ sequenceItem = NoItem /\ index = 1 /\ currentSequenceId = 0
    /\ stored = {}
    /\ fetches = [f \in Fetches |-> NoFetch]
    /\ sequenced = <<>>

LastSequenced ==
    IF sequenced = <<>> THEN 0 ELSE sequenced[Len(sequenced)].sequenceId

(* Mutant: the last commit is served first. *)
PushFront(queue, i) == <<i>> \o queue

Push(queue, i) == Append(queue, i)

(* The engine's sequence ids grow, with gaps where it logged a submit. *)
Sequence(s, mutations) ==
    LET i == [sequenceId |-> s, mutations |-> mutations] IN
    /\ s > LastSequenced
    /\ sequenceQueue' = Push(sequenceQueue, i)
    /\ sequenced' = Append(sequenced, i)
    /\ unsignalled < MaxCallers
    /\ unsignalled' = unsignalled + 1
    /\ UNCHANGED <<fetchQueue, activeRequests, requestPhase, eventFd, pc, tasks,
                   closure, fetches>>

Asked(f, d, s, state) ==
    fetches' = [fetches EXCEPT ![f] = [state |-> state, documentId |-> d,
                                       sequenceId |-> s, answer |-> Pending]]

(* In the request phase fetch() starts the request itself, whatever waits  *)
(* in the sequence queue.                                                  *)
Fetch(f, d, s) ==
    /\ fetches[f].state = "none"
    /\ \/ /\ requestPhase
          /\ activeRequests' = activeRequests + 1
          /\ Asked(f, d, s, "active")
          /\ UNCHANGED fetchQueue
       \/ /\ ~ requestPhase
          /\ fetchQueue' = Append(fetchQueue, f)
          /\ Asked(f, d, s, "queued")
          /\ UNCHANGED activeRequests
    /\ unsignalled < MaxCallers
    /\ unsignalled' = unsignalled + 1
    /\ UNCHANGED <<sequenceQueue, requestPhase, eventFd, pc, tasks, closure,
                   sequenced>>

(* p_eventFd->increment() *)
Signal ==
    /\ unsignalled > 0
    /\ unsignalled' = unsignalled - 1
    /\ eventFd' = TRUE
    /\ UNCHANGED <<queues, activeRequests, requestPhase, pc, tasks, closure,
                   fetches, sequenced>>
------------------------------------------------------------------------------
(* FlexStorage::FetchClosure *)

NewestVersion(versions) == Max(versions)

(* findPrev, then the check that the key found is of the same document *)
Lookup(keys, documentId, seq) ==
    LET versions == {k.sequenceId : k \in {k \in keys :
                        k.documentId = documentId /\ k.sequenceId <= seq}}
    IN  IF versions = {} THEN NotFound ELSE NewestVersion(versions)

(* The callback is called first ... *)
Answer(f) ==
    /\ fetches[f].state = "active"
    /\ fetches' = [fetches EXCEPT
            ![f].state = "answered",
            ![f].answer = Lookup(stored, fetches[f].documentId,
                                 fetches[f].sequenceId)]
    /\ UNCHANGED <<queues, activeRequests, requestPhase, wakeup, pc, tasks,
                   closure, sequenced>>

(* Mutant: the request ends without being forgotten. *)
FinishAgain(f) ==
    /\ fetches[f].state = "answered"
    /\ activeRequests' = activeRequests - 1
    /\ UNCHANGED <<queues, requestPhase, wakeup, pc, tasks, closure, fetches,
                   sequenced>>

(* ... then finishRequest(), which does not increment p_eventFd. *)
FinishRequest(f) ==
    /\ fetches[f].state = "answered"
    /\ fetches' = [fetches EXCEPT ![f] = NoFetch]
    /\ activeRequests' = activeRequests - 1
    /\ UNCHANGED <<queues, requestPhase, wakeup, pc, tasks, closure, sequenced>>
------------------------------------------------------------------------------
(* ProcessClosure *)

Goto(phase) ==
    /\ pc' = phase
    /\ UNCHANGED <<queues, activeRequests, wakeup, tasks, closure, fetches,
                   sequenced>>

(* process() *)
Process ==
    /\ pc = "process"
    /\ \/ /\ sequenceQueue # <<>>
          /\ requestPhase' = FALSE
          /\ Goto("endRequestPhase")
       \/ /\ sequenceQueue = <<>>
          /\ Goto("idle")
          /\ UNCHANGED requestPhase

(* p_eventFd->wait(), after the unlock *)
Wait ==
    /\ UNCHANGED requestPhase
    /\ \/ pc = "idle" /\ Goto("wait")
       \/ pc = "busy" /\ Goto("waitRequests")

WakeUp ==
    /\ eventFd
    /\ eventFd' = FALSE
    /\ \/ pc = "wait" /\ pc' = "process"
       \/ pc = "waitRequests" /\ pc' = "endRequestPhase"
    /\ UNCHANGED <<queues, activeRequests, requestPhase, unsignalled, tasks,
                   closure, fetches, sequenced>>

(* Mutant: the sequence phase begins with a request still active. *)
Quiet(n) == n <= 1

Drained(n) == n = 0

EndRequestPhase ==
    /\ pc = "endRequestPhase"
    /\ UNCHANGED requestPhase
    /\ \/ Drained(activeRequests) /\ Goto("sequencePhase")
       \/ ~ Drained(activeRequests) /\ Goto("busy")

(* Mutant: one task per queued fetch, and none that goes on. *)
OneTaskEach(queue) == Len(queue)

UnqueueTasks(queue) == Len(queue) + 1

SequencePhase ==
    /\ pc = "sequencePhase"
    /\ \/ /\ sequenceQueue = <<>>
          /\ requestPhase' = TRUE
          /\ tasks' = UnqueueTasks(fetchQueue)
          /\ pc' = "unqueue"
          /\ UNCHANGED <<sequenceQueue, sequenceItem, index>>
       \/ /\ sequenceQueue # <<>>
          /\ sequenceItem' = Head(sequenceQueue)
          /\ sequenceQueue' = Tail(sequenceQueue)
          /\ index' = 1
          /\ pc' = "apply"
          /\ UNCHANGED <<requestPhase, tasks>>
    /\ UNCHANGED <<fetchQueue, activeRequests, wakeup, stored,
                   currentSequenceId, fetches, sequenced>>

(* A task takes a queued fetch; the one that finds none goes on. *)
UnqueueRequest ==
    /\ tasks > 0
    /\ tasks' = tasks - 1
    /\ \/ /\ fetchQueue = <<>>
          /\ pc' = "process"
          /\ UNCHANGED <<fetchQueue, activeRequests, fetches>>
       \/ /\ fetchQueue # <<>>
          /\ fetchQueue' = Tail(fetchQueue)
          /\ activeRequests' = activeRequests + 1
          /\ fetches' = [fetches EXCEPT ![Head(fetchQueue)].state = "active"]
          /\ UNCHANGED pc
    /\ UNCHANGED <<sequenceQueue, requestPhase, wakeup, closure, sequenced>>

(* processInsert and processModify, which are the same: InsertClosure adds *)
(* a key, told from the others by document id and sequence id.             *)
Inserted(keys, documentId, seq) ==
    keys \cup {[documentId |-> documentId, sequenceId |-> seq]}

(* processSequence: one mutation, then the next, then the next commit.     *)
ProcessMutation ==
    /\ pc = "apply"
    /\ index <= Len(sequenceItem.mutations)
    /\ stored' = Inserted(stored, sequenceItem.mutations[index],
                          sequenceItem.sequenceId)
    /\ index' = index + 1
    /\ UNCHANGED <<queues, activeRequests, requestPhase, wakeup, pc, tasks,
                   sequenceItem, currentSequenceId, fetches, sequenced>>

FinishSequence ==
    /\ pc = "apply"
    /\ index > Len(sequenceItem.mutations)
    /\ currentSequenceId' = sequenceItem.sequenceId
    /\ pc' = "sequencePhase"
    /\ UNCHANGED <<queues, activeRequests, requestPhase, wakeup, tasks,
                   sequenceItem, index, stored, fetches, sequenced>>
------------------------------------------------------------------------------
Callers ==
    \/ \E s \in SequenceIds, mutations \in Mutations : Sequence(s, mutations)
    \/ \E f \in Fetches, d \in Documents, s \in SequenceIds : Fetch(f, d, s)

Requests == \E f \in Fetches : Answer(f) \/ FinishRequest(f)

Loop ==
    \/ Process \/ Wait \/ WakeUp \/ EndRequestPhase \/ SequencePhase
    \/ UnqueueRequest \/ ProcessMutation \/ FinishSequence

Next == Callers \/ Signal \/ Requests \/ Loop

Spec == Init /\ [][Next]_vars

(* The pool runs the closure and its tasks, reads from disk return, and a  *)
(* caller that has unlocked goes on.  Nobody has to call again.            *)
Fairness ==
    /\ WF_vars(Loop) /\ WF_vars(Signal)
    /\ \A f \in Fetches : WF_vars(Answer(f)) /\ WF_vars(FinishRequest(f))

FairSpec == Spec /\ Fairness
------------------------------------------------------------------------------
(* Properties *)

(* Every variable has its type.                                            *)
TypeOK ==
    /\ sequenceQueue \in Seq(SequenceItem)
    /\ fetchQueue \in Seq(Fetches)
    /\ activeRequests \in Nat
    /\ requestPhase \in BOOLEAN
    /\ currentSequenceId \in Nat
    /\ unsignalled \in 0..MaxCallers
    /\ eventFd \in BOOLEAN
    /\ pc \in Phase
    /\ tasks \in Nat
    /\ sequenceItem \in SequenceItem \cup {NoItem}
    /\ index \in Nat \ {0}
    /\ stored \subseteq [documentId : Documents, sequenceId : SequenceIds]
    /\ fetches \in [Fetches -> FetchRecord]
    /\ sequenced \in Seq(SequenceItem)

Running == {f \in Fetches : fetches[f].state \in {"active", "answered"}}

(* While the closure changes the index nobody reads it: the tree and the   *)
(* page cache under it have no lock of their own.                          *)
Applying == pc \in {"sequencePhase", "apply"}

ReadersExcluded == Applying => Running = {} /\ ~ requestPhase

(* The closure exists once: while unqueueRequest tasks are about, there is *)
(* one for each queued fetch and one more, which alone continues the loop. *)
(* A second process() would wait on p_eventFd twice, and wait() throws.    *)
OneClosure ==
    /\ pc = "unqueue" => tasks = Len(fetchQueue) + 1
    /\ pc # "unqueue" => tasks = 0

(* No fetch is forgotten: the queued ones are in the queue, once each, and *)
(* the counter tells how many run.                                         *)
FetchesAccounted ==
    /\ activeRequests = Cardinality(Running)
    /\ \A f \in Fetches : fetches[f].state = "queued" <=> f \in Range(fetchQueue)
    /\ IsInjective(fetchQueue)

(* A storage applies whole commits in the order in which they came, and    *)
(* every answer is what whole commits say, never half of one.              *)
Whole == {n \in DOMAIN sequenced : sequenced[n].sequenceId <= currentSequenceId}

Store == INSTANCE SequencedStore WITH
    applied <- Cardinality(Whole),
    requests <- [f \in Fetches |-> [documentId |-> fetches[f].documentId,
                                    sequenceId |-> fetches[f].sequenceId]],
    answers <- [f \in Fetches |-> fetches[f].answer]

ImplementsStore == Store!Spec

(* A queued fetch is answered and all commits are applied, unless the      *)
(* closure waits for the end of requests that have all ended:              *)
(* finishRequest() is the one change the closure waits for that does not   *)
(* signal it.  One fetch stands for all, they differ only in their name.   *)
MissedWakeup ==
    pc = "waitRequests" /\ activeRequests = 0 /\ ~ eventFd /\ unsignalled = 0

StallsOnlyOnMissedWakeup ==
    \/ <>[]MissedWakeup
    \/ /\ LET f == CHOOSE f \in Fetches : TRUE
          IN  []<>(fetches[f].state \notin {"queued", "active"})
       /\ []<>(\A n \in DOMAIN sequenced :
                    sequenced[n].sequenceId <= currentSequenceId)
==============================================================================
