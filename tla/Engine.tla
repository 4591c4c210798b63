------------------------------- MODULE Engine --------------------------------
(***************************************************************************)
(* The transaction engine of d3b (src/shard/src/db/engine.cpp): clients    *)
(* build transactions and queue requests under p_mutex, one                *)
(* ProcessQueueClosure serves the queue, checks conflicts, writes the      *)
(* write-ahead log and hands committed mutations to the storages, and      *)
(* loadConfig rebuilds everything from the log when the process starts.    *)
(*                                                                         *)
(* A document is its id; buffers are left out.  A storage is seen from the *)
(* engine: what was handed to it, and how far its own queue has applied it *)
(* (QueuedDriver models that queue).                                       *)
(***************************************************************************)
EXTENDS Naturals, Sequences, FiniteSets, Functions

CONSTANTS
    Storages,          \* indices into p_storages
    MaxTransact,       \* bound on transaction ids
    MaxDocument,       \* bound on the document ids of a storage
    MaxMutations,      \* bound on the mutations of a transaction
    MaxConstraints,    \* bound on the constraints of a transaction
    Offered,           \* the constraints that clients add
    Modified           \* the documents that they modify

ASSUME BoundsAssumption ==
    /\ MaxTransact \in Nat /\ MaxDocument \in Nat
    /\ MaxMutations \in Nat /\ MaxConstraints \in Nat

TransactionIds == 1..MaxTransact
DocumentIds == 1..MaxDocument

Mutation == [type : {"Insert", "Modify"}, storageIndex : Storages,
             documentId : DocumentIds]

Constraint == [storageIndex : Storages, documentId : DocumentIds,
               mustExist : BOOLEAN, matchSequenceId : BOOLEAN,
               sequenceId : Nat]

ASSUME OfferedAssumption ==
    Offered \subseteq Constraint /\ Modified \subseteq DocumentIds

(* A transaction in state None is not in p_activeTransactions. *)
TransactionState ==
    {"None", "Open", "InSubmit", "Submitted", "InCommitOrRollback"}

Transaction == [state : TransactionState, mutations : Seq(Mutation),
                constraints : Seq(Constraint)]

NoTransaction == [state |-> "None", mutations |-> <<>>, constraints |-> <<>>]

RequestType == {"Submit", "SubmitCommit", "Commit", "Rollback"}
QueueItem == [type : RequestType, trid : TransactionIds]

LogEntry == [type : {"Submit", "SubmitCommit", "Commit"},
             transaction_id : TransactionIds, sequence_id : Nat,
             mutations : Seq(Mutation)]

VARIABLES
    up,                 \* the process is running
    nextTransactId,     \* p_nextTransactId
    currentSequenceId,  \* p_currentSequenceId
    active,             \* p_activeTransactions, by id
    submitted,          \* p_submittedTransactions (its order is left out)
    restored,           \* those that loadConfig took from the log (history)
    queue,              \* p_submitQueue
    unsignalled,        \* calls between lock.unlock() and increment()
    eventFd,            \* the counter of p_eventFd is not zero
    pc,                 \* where the one ProcessQueueClosure is
    item,               \* its p_queueItem
    index,              \* its p_index, counted from 1
    sequenceId,         \* its p_sequenceId
    log,                \* the write-ahead log, the only state a crash leaves
    lastDocumentId,     \* p_lastDocumentId of each storage
    delivered,          \* what sequence() has handed to every storage and view
    applied,            \* p_currentSequenceId of each storage
    reply,              \* the last callback the closure made
    acked,              \* commits a client was told of (history)
    promised,           \* submits that were answered with success (history)
    rolledBack          \* submitted, then rolled back and answered (history)

memory == <<nextTransactId, currentSequenceId, active, submitted>>
loop == <<pc, item, index, sequenceId>>
wakeup == <<queue, unsignalled, eventFd>>
storage == <<lastDocumentId, delivered, applied>>
clients == <<reply, acked, promised, rolledBack>>
vars == <<up, restored, memory, wakeup, loop, log, storage, clients>>

NoItem == [type |-> "Rollback", trid |-> 0]
NoReply == [trid |-> 0, result |-> "None"]
Result == {"None", "Success", "ConstraintViolation", "ConstraintConflict",
           "MutationConflict", "Committed", "RolledBack"}
------------------------------------------------------------------------------
(* The log, and what replaying it gives *)

(* Mutant: replay overlooks the commits that were one entry. *)
IsPlainCommit(entry) == entry.type = "Commit"

IsCommit(entry) == entry.type \in {"SubmitCommit", "Commit"}

(* Entry j is the Submit that p_transactions holds when entry i is read.   *)
OpenedBy(l, j, i) ==
    /\ j < i
    /\ l[j].type = "Submit"
    /\ l[j].transaction_id = l[i].transaction_id
    /\ \A k \in (j + 1)..(i - 1) :
            ~ (/\ l[k].type = "Commit"
               /\ l[k].transaction_id = l[i].transaction_id)

(* onEntry throws when a Commit has no open Submit before it. *)
Replayable(l) ==
    \A i \in DOMAIN l :
        l[i].type = "Commit" => \E j \in DOMAIN l : OpenedBy(l, j, i)

(* Mutant: replay leaves a submitCommit in p_transactions. *)
UnfinishedOrAtOnce(l) ==
    {i \in DOMAIN l :
        /\ l[i].type \in {"Submit", "SubmitCommit"}
        /\ \A k \in DOMAIN l :
                ~ (l[k].type = "Commit"
                   /\ l[k].transaction_id = l[i].transaction_id)}

(* Mutant: transactions that were only submitted are ignored. *)
UnfinishedIgnored(l) == {}

(* Submits without a Commit: what is left in p_transactions at the end. *)
Unfinished(l) ==
    {i \in DOMAIN l :
        /\ l[i].type = "Submit"
        /\ \A k \in DOMAIN l :
                ~ (l[k].type = "Commit"
                   /\ l[k].transaction_id = l[i].transaction_id)}

(* The mutations that entry i of the log commits. *)
CommitMutations(l, i) ==
    IF l[i].type = "SubmitCommit" THEN l[i].mutations
    ELSE l[CHOOSE j \in DOMAIN l : OpenedBy(l, j, i)].mutations

CommitsOf(l) ==
    {[transaction_id |-> l[i].transaction_id, sequence_id |-> l[i].sequence_id,
      mutations |-> CommitMutations(l, i)] :
            i \in {k \in DOMAIN l : IsCommit(l[k])}}

PreparedOf(l) ==
    {[transaction_id |-> l[i].transaction_id, mutations |-> l[i].mutations] :
            i \in Unfinished(l)}

(* onEntry turns every logged mutation, a Modify too, into an Insert. *)
AsReplayed(mutations) ==
    [n \in DOMAIN mutations |-> [mutations[n] EXCEPT !.type = "Insert"]]

(* Mutant: the sequence id of a submitCommit is not recovered. *)
SequenceIdsOfCommits(l) ==
    {l[i].sequence_id : i \in {k \in DOMAIN l : l[k].type = "Commit"}}

(* ReplayMetaClosure::onCommit and onTransaction, ReplayDataClosure::      *)
(* onTransaction with reinspect: what the counters have to be above.       *)
SequenceIdsOf(l) == {l[i].sequence_id : i \in {k \in DOMAIN l : IsCommit(l[k])}}

TransactionIdsOf(l) ==
    {l[i].transaction_id : i \in {k \in DOMAIN l : l[k].type # "Commit"}}

(* Mutant: only committed mutations are inspected. *)
DocumentIdsOfCommits(l) ==
    {m.documentId : m \in UNION {Range(c.mutations) : c \in CommitsOf(l)}}

DocumentIdsOf(l) ==
    {m.documentId : m \in UNION {Range(l[i].mutations) : i \in DOMAIN l}}

(* What a maximum taken in a loop over S from zero ends with. *)
IsLargest(n, S) == n \in S \cup {0} /\ \A m \in S : m <= n
------------------------------------------------------------------------------
Init ==
    /\ up = TRUE
    /\ nextTransactId = 1 /\ currentSequenceId = 0
    /\ active = [t \in TransactionIds |-> NoTransaction]
    /\ submitted = {} /\ restored = {}
    /\ queue = <<>> /\ unsignalled = 0 /\ eventFd = FALSE
    /\ pc = "process" /\ item = NoItem /\ index = 1 /\ sequenceId = 0
    /\ log = <<>>
    /\ lastDocumentId = [s \in Storages |-> 0]
    /\ delivered = {}
    /\ applied = [s \in Storages |-> 0]
    /\ reply = NoReply /\ acked = {} /\ promised = {} /\ rolledBack = {}

------------------------------------------------------------------------------
(* Calls of clients.  Each one asserts the state of its transaction. *)

BeginTransaction ==
    /\ up
    /\ nextTransactId <= MaxTransact
    /\ nextTransactId' = nextTransactId + 1
    /\ active' = [active EXCEPT ![nextTransactId].state = "Open"]
    /\ UNCHANGED <<up, restored, currentSequenceId, submitted, wakeup, loop,
                   log, storage, clients>>

AddMutation(t, m) ==
    /\ up
    /\ active[t].state = "Open"
    /\ Len(active[t].mutations) < MaxMutations
    /\ active' = [active EXCEPT ![t].mutations = Append(@, m)]
    /\ UNCHANGED <<up, restored, nextTransactId, currentSequenceId, submitted,
                   wakeup, loop, log, delivered, applied, clients>>

(* Mutant: post-increment. *)
AllocateOld(s) == lastDocumentId[s]

(* StorageDriver::allocate *)
Allocate(s) == lastDocumentId[s] + 1

UpdateMutationInsert(t, s) ==
    /\ Allocate(s) <= MaxDocument
    /\ lastDocumentId' = [lastDocumentId EXCEPT ![s] = Allocate(s)]
    /\ AddMutation(t, [type |-> "Insert", storageIndex |-> s,
                       documentId |-> Allocate(s)])

UpdateMutationModify(t, s, d) ==
    /\ AddMutation(t, [type |-> "Modify", storageIndex |-> s, documentId |-> d])
    /\ UNCHANGED lastDocumentId

UpdateConstraint(t, c) ==
    /\ up
    /\ active[t].state = "Open"
    /\ Len(active[t].constraints) < MaxConstraints
    /\ active' = [active EXCEPT ![t].constraints = Append(@, c)]
    /\ UNCHANGED <<up, restored, nextTransactId, currentSequenceId, submitted,
                   wakeup, loop, log, storage, clients>>

(* The part submit, submitCommit, commit and rollback share. *)
Enqueue(type, t, from, to) ==
    /\ up
    /\ active[t].state \in from
    /\ active' = [active EXCEPT ![t].state = to]
    /\ queue' = Append(queue, [type |-> type, trid |-> t])
    /\ unsignalled' = unsignalled + 1
    /\ UNCHANGED <<up, restored, nextTransactId, currentSequenceId, submitted,
                   eventFd, loop, log, storage, reply, acked, rolledBack>>

Submit(t) ==
    /\ Enqueue("Submit", t, {"Open"}, "InSubmit")
    /\ UNCHANGED promised

SubmitCommit(t) ==
    /\ Enqueue("SubmitCommit", t, {"Open"}, "InSubmit")
    /\ UNCHANGED promised

(* Mutant: a repeated commit is let through. *)
CommitAgain(t) ==
    /\ Enqueue("Commit", t, {"Submitted", "InCommitOrRollback"},
               "InCommitOrRollback")
    /\ UNCHANGED promised

Commit(t) ==
    /\ Enqueue("Commit", t, {"Submitted"}, "InCommitOrRollback")
    /\ UNCHANGED promised

Rollback(t) ==
    /\ Enqueue("Rollback", t, {"Open", "Submitted"}, "InCommitOrRollback")
    /\ promised' = {p \in promised : p.transaction_id # t}

(* Mutant: a signal nobody waits for is lost. *)
SignalOnlyWaiters ==
    /\ up
    /\ unsignalled > 0
    /\ unsignalled' = unsignalled - 1
    /\ eventFd' = (eventFd \/ pc = "wait")
    /\ UNCHANGED <<up, restored, memory, queue, loop, log, storage, clients>>

(* p_eventFd->increment(), after the unlock *)
Signal ==
    /\ up
    /\ unsignalled > 0
    /\ unsignalled' = unsignalled - 1
    /\ eventFd' = TRUE
    /\ UNCHANGED <<up, restored, memory, queue, loop, log, storage, clients>>
------------------------------------------------------------------------------
(* The end of the process, by a crash or by an exception nobody catches.   *)
(* Memory goes; lastDocumentId keeps its value, which nothing reads until  *)
(* Restart overwrites it, so that what had been allocated stays on record. *)

Stop ==
    /\ up' = FALSE
    /\ nextTransactId' = 1 /\ currentSequenceId' = 0
    /\ active' = [t \in TransactionIds |-> NoTransaction]
    /\ submitted' = {} /\ restored' = {}
    /\ queue' = <<>> /\ unsignalled' = 0 /\ eventFd' = FALSE
    /\ pc' = "process" /\ item' = NoItem /\ index' = 1 /\ sequenceId' = 0
    /\ delivered' = {}
    /\ applied' = [s \in Storages |-> 0]
    /\ reply' = NoReply
    /\ UNCHANGED <<log, lastDocumentId, acked, promised, rolledBack>>

Crash == up /\ Stop

------------------------------------------------------------------------------
(* ProcessQueueClosure *)

(* process() finds the queue empty and gives up the lock... *)
FindEmpty ==
    /\ up /\ pc = "process"
    /\ queue = <<>>
    /\ pc' = "empty"
    /\ UNCHANGED <<up, restored, memory, wakeup, item, index, sequenceId, log,
                   storage, clients>>

(* ... and only then waits for the event. *)
Wait ==
    /\ up /\ pc = "empty"
    /\ pc' = "wait"
    /\ UNCHANGED <<up, restored, memory, wakeup, item, index, sequenceId, log,
                   storage, clients>>

WakeUp ==
    /\ up /\ pc = "wait"
    /\ eventFd
    /\ eventFd' = FALSE
    /\ pc' = "process"
    /\ UNCHANGED <<up, restored, memory, queue, unsignalled, item, index,
                   sequenceId, log, storage, clients>>

(* process() takes the front of the queue. *)
Dequeue(types) ==
    /\ up /\ pc = "process"
    /\ queue # <<>>
    /\ Head(queue).type \in types
    /\ queue' = Tail(queue)
    /\ UNCHANGED <<unsignalled, eventFd>>

(* Engine::compatible, which does not look at the storage. *)
compatible(m, c) ==
    ~ (c.matchSequenceId /\ m.type = "Modify" /\ m.documentId = c.documentId)

Clash(mutations, constraints) ==
    \E m \in Range(mutations), c \in Range(constraints) : ~ compatible(m, c)

(* The two checks of processSubmit, of t against a submitted transaction. *)
ConstraintConflict(t, other) ==
    Clash(active[other].mutations, active[t].constraints)

(* Mutant: only one direction is checked. *)
NoMutationConflict(t, other) == FALSE

MutationConflict(t, other) ==
    Clash(active[t].mutations, active[other].constraints)

Conflicts(t, other) ==
    ConstraintConflict(t, other) \/ MutationConflict(t, other)

(* p_activeTransactions.at() does not find a submitted id. *)
Dangling(other) == active[other].state = "None"

(* submitFailure: the transaction is gone, the client is told why. *)
SubmitFailure(t, error) ==
    /\ active' = [active EXCEPT ![t] = NoTransaction]
    /\ reply' = [trid |-> t, result |-> error]
    /\ pc' = "process" /\ item' = NoItem /\ index' = 1
    /\ UNCHANGED <<up, restored, nextTransactId, currentSequenceId, submitted,
                   sequenceId, log, storage, acked, promised, rolledBack>>

(* processSubmit stops at the first submitted transaction that is missing  *)
(* or in conflict, in the order of a vector the model leaves open.         *)
ProcessSubmit ==
    LET t == Head(queue).trid IN
    \/ \E other \in submitted :
        /\ Dequeue({"Submit", "SubmitCommit"})
        /\ ~ Dangling(other)
        /\ \/ /\ ConstraintConflict(t, other)
              /\ SubmitFailure(t, "ConstraintConflict")
           \/ /\ ~ ConstraintConflict(t, other)
              /\ MutationConflict(t, other)
              /\ SubmitFailure(t, "MutationConflict")
    \/ /\ Dequeue({"Submit", "SubmitCommit"})
       /\ \A other \in submitted : ~ Dangling(other) /\ ~ Conflicts(t, other)
       /\ pc' = "check" /\ item' = Head(queue) /\ index' = 1
       /\ reply' = NoReply
       /\ UNCHANGED <<up, restored, memory, sequenceId, log, storage, acked,
                      promised, rolledBack>>

(* .at() throws out_of_range and the process ends. *)
ProcessSubmitThrows ==
    /\ up /\ pc = "process"
    /\ queue # <<>>
    /\ Head(queue).type \in {"Submit", "SubmitCommit"}
    /\ \E other \in submitted : Dangling(other)
    /\ Stop

(* A fetch at the current sequence id sees what the storage has applied:   *)
(* every mutation handed to it, whatever storage the mutation names.       *)
Found(s, d) ==
    \E c \in delivered :
        /\ c.sequence_id <= applied[s]
        /\ c.sequence_id <= currentSequenceId
        /\ \E m \in Range(c.mutations) : m.documentId = d

(* submitCheckConstraint with checkStateOnFetch.  matchSequenceId is not   *)
(* looked at: the comparison in checkStateOnData is commented out.         *)
Holds(c) == c.mustExist => Found(c.storageIndex, c.documentId)

CheckConstraint ==
    LET c == active[item.trid].constraints[index] IN
    /\ up /\ pc = "check"
    /\ index <= Len(active[item.trid].constraints)
    /\ \/ /\ Holds(c)
          /\ index' = index + 1
          /\ UNCHANGED <<up, restored, memory, wakeup, pc, item, sequenceId,
                         log, storage, clients>>
       \/ /\ ~ Holds(c)
          /\ SubmitFailure(item.trid, "ConstraintViolation")
          /\ UNCHANGED wakeup

(* Mutant: the closure keeps the sequence id before the increment. *)
WriteAheadOldSequence(entry) ==
    /\ currentSequenceId' = currentSequenceId + 1
    /\ sequenceId' = currentSequenceId
    /\ log' = Append(log, entry)
    /\ pc' = "logged"

(* writeAhead() of entry, with the sequence id the step has just taken *)
WriteAhead(entry) ==
    /\ currentSequenceId' = currentSequenceId + 1
    /\ sequenceId' = currentSequenceId + 1
    /\ log' = Append(log, entry)
    /\ pc' = "logged"

(* submitCheckConstraint when every constraint holds: even a plain submit  *)
(* takes a sequence id, which its log entry does not carry.                *)
LogSubmit ==
    /\ up /\ pc = "check"
    /\ index > Len(active[item.trid].constraints)
    /\ WriteAhead([type |-> item.type, transaction_id |-> item.trid,
                   sequence_id |-> IF item.type = "SubmitCommit"
                                   THEN currentSequenceId + 1 ELSE 0,
                   mutations |-> active[item.trid].mutations])
    /\ UNCHANGED <<up, restored, nextTransactId, active, submitted, wakeup,
                   item, index, storage, clients>>

ProcessCommit ==
    /\ Dequeue({"Commit"})
    /\ item' = Head(queue)
    /\ WriteAhead([type |-> "Commit", transaction_id |-> Head(queue).trid,
                   sequence_id |-> currentSequenceId + 1, mutations |-> <<>>])
    /\ reply' = NoReply
    /\ UNCHANGED <<up, restored, nextTransactId, active, submitted, index,
                   storage, acked, promised, rolledBack>>

(* afterWriteAhead of a submit: submitComplete *)
SubmitComplete ==
    /\ up /\ pc = "logged"
    /\ item.type = "Submit"
    /\ submitted' = submitted \cup {item.trid}
    /\ active' = [active EXCEPT ![item.trid].state = "Submitted"]
    /\ reply' = [trid |-> item.trid, result |-> "Success"]
    /\ promised' = promised \cup
            {[transaction_id |-> item.trid,
              mutations      |-> active[item.trid].mutations,
              constraints    |-> active[item.trid].constraints]}
    /\ pc' = "process" /\ item' = NoItem /\ index' = 1
    /\ UNCHANGED <<up, restored, nextTransactId, currentSequenceId, wakeup,
                   sequenceId, log, storage, acked, rolledBack>>

(* commitComplete, of a commit or, after submitComplete, of a submitCommit *)
CommitComplete ==
    /\ up /\ pc = "logged"
    /\ item.type \in {"Commit", "SubmitCommit"}
    /\ delivered' = delivered \cup
            {[transaction_id |-> item.trid, sequence_id |-> sequenceId,
              mutations |-> active[item.trid].mutations]}
    /\ active' = [active EXCEPT ![item.trid] = NoTransaction]
    /\ submitted' = submitted \ {item.trid}
    /\ reply' = [trid |-> item.trid, result |-> "Committed"]
    /\ acked' = acked \cup
            {[transaction_id |-> item.trid, sequence_id |-> sequenceId]}
    /\ promised' = {p \in promised : p.transaction_id # item.trid}
    /\ pc' = "process" /\ item' = NoItem /\ index' = 1
    /\ UNCHANGED <<up, restored, nextTransactId, currentSequenceId, wakeup,
                   sequenceId, log, lastDocumentId, applied, rolledBack>>

(* processRollback.  rollback() has already overwritten the state that the *)
(* test looks for, so the id stays in p_submittedTransactions.             *)
ProcessRollback ==
    LET t == Head(queue).trid IN
    /\ Dequeue({"Rollback"})
    /\ submitted' = IF active[t].state = "Submitted" THEN submitted \ {t}
                    ELSE submitted
    /\ active' = [active EXCEPT ![t] = NoTransaction]
    /\ reply' = [trid |-> t, result |-> "RolledBack"]
    /\ rolledBack' = IF t \in submitted THEN rolledBack \cup {t} ELSE rolledBack
    /\ UNCHANGED <<up, restored, nextTransactId, currentSequenceId, loop, log,
                   storage, acked, promised>>

------------------------------------------------------------------------------
(* A storage applies the next entry of its sequence queue. *)
StorageApply(s) ==
    LET waiting == {c \in delivered : c.sequence_id > applied[s]} IN
    /\ up
    /\ \E c \in waiting :
        /\ \A other \in waiting : c.sequence_id <= other.sequence_id
        /\ applied' = [applied EXCEPT ![s] = c.sequence_id]
    /\ UNCHANGED <<up, restored, memory, wakeup, loop, log, lastDocumentId,
                   delivered, clients>>

(* loadConfig: the storages are emptied, ReplayMetaClosure rebuilds the    *)
(* engine from the log, ReplayDataClosure hands every commit to every      *)
(* storage, which applies it later.                                        *)
Restart ==
    /\ ~ up
    /\ Replayable(log)
    /\ up' = TRUE
    /\ \E n \in {0} \cup TransactionIdsOf(log) :
        /\ IsLargest(n, TransactionIdsOf(log))
        /\ nextTransactId' = n + 1
    /\ \E n \in {0} \cup SequenceIdsOf(log) :
        /\ IsLargest(n, SequenceIdsOf(log))
        /\ currentSequenceId' = n
    /\ active' = [t \in TransactionIds |->
            IF \E p \in PreparedOf(log) : p.transaction_id = t
            THEN LET p == CHOOSE p \in PreparedOf(log) : p.transaction_id = t
                 IN  [state |-> "Submitted",
                      mutations |-> AsReplayed(p.mutations),
                      constraints |-> <<>>]
            ELSE NoTransaction]
    /\ submitted' = {p.transaction_id : p \in PreparedOf(log)}
    /\ restored' = submitted'
    /\ \E n \in {0} \cup DocumentIdsOf(log) :
        /\ IsLargest(n, DocumentIdsOf(log))
        /\ lastDocumentId' = [s \in Storages |-> n]
    /\ delivered' =
            {[c EXCEPT !.mutations = AsReplayed(@)] : c \in CommitsOf(log)}
    /\ UNCHANGED <<wakeup, loop, log, applied, clients>>

------------------------------------------------------------------------------
UpdateMutation(t) ==
    \E s \in Storages :
        \/ UpdateMutationInsert(t, s)
        \/ \E d \in Modified : UpdateMutationModify(t, s, d)

Client ==
    \/ BeginTransaction
    \/ \E t \in TransactionIds :
        \/ UpdateMutation(t)
        \/ \E c \in Offered : UpdateConstraint(t, c)
        \/ Submit(t) \/ SubmitCommit(t) \/ Commit(t) \/ Rollback(t)

Loop ==
    \/ FindEmpty \/ Wait \/ WakeUp
    \/ ProcessSubmit \/ ProcessSubmitThrows \/ LogSubmit \/ SubmitComplete
    \/ ProcessCommit \/ CommitComplete \/ ProcessRollback

Next ==
    \/ Client \/ Signal
    \/ Loop \/ CheckConstraint
    \/ \E s \in Storages : StorageApply(s)
    \/ Crash \/ Restart

Spec == Init /\ [][Next]_vars

(* The process pool runs the closure, a call that holds the lock goes on   *)
(* to the increment.  Nothing is assumed of the storages: CheckConstraint  *)
(* waits for their answer and StorageApply is theirs.                      *)
Fairness == WF_vars(Loop) /\ WF_vars(Signal)

FairSpec == Spec /\ Fairness
------------------------------------------------------------------------------
(* Properties *)

(* The closure has an item while it serves one, of a type that gets there. *)
ItemTypeOK ==
    /\ IF pc \in {"check", "logged"} THEN item \in QueueItem ELSE item = NoItem
    /\ pc = "check" => item.type \in {"Submit", "SubmitCommit"}
    /\ pc = "logged" => item.type \in {"Submit", "SubmitCommit", "Commit"}

(* Every variable has its type.                                            *)
TypeOK ==
    /\ up \in BOOLEAN
    /\ nextTransactId \in 1..(MaxTransact + 1)
    /\ currentSequenceId \in Nat
    /\ active \in [TransactionIds -> Transaction]
    /\ submitted \subseteq TransactionIds /\ restored \subseteq TransactionIds
    /\ queue \in Seq(QueueItem)
    /\ unsignalled \in Nat
    /\ eventFd \in BOOLEAN
    /\ pc \in {"process", "empty", "wait", "check", "logged"}
    /\ ItemTypeOK
    /\ index \in Nat \ {0}
    /\ sequenceId \in Nat
    /\ log \in Seq(LogEntry)
    /\ lastDocumentId \in [Storages -> 0..MaxDocument]
    /\ delivered \subseteq [transaction_id : TransactionIds, sequence_id : Nat,
                            mutations : Seq(Mutation)]
    /\ applied \in [Storages -> Nat]
    /\ reply \in [trid : TransactionIds \cup {0}, result : Result]
    /\ acked \subseteq [transaction_id : TransactionIds, sequence_id : Nat]
    /\ promised \subseteq [transaction_id : TransactionIds,
                           mutations : Seq(Mutation),
                           constraints : Seq(Constraint)]
    /\ rolledBack \subseteq TransactionIds

(* No log the engine writes makes the next start fail: every Commit entry  *)
(* follows the Submit of its transaction, which was not committed before.  *)
(* ReplayClosure::onEntry throws otherwise and the server cannot start.    *)
LogReplayable == Replayable(log)

(* The transactions a request waits for are there when the loop reaches    *)
(* them, in the state their request needs, and each has one request: none  *)
(* of the lookups and assertions of processSubmit, processCommit,          *)
(* commitComplete and processRollback on its own transaction can fail.     *)
(* With it, commit() of a submitted transaction never fails.               *)
Awaited(t, type) ==
    /\ type \in {"Submit", "SubmitCommit"} => active[t].state = "InSubmit"
    /\ type \in {"Commit", "Rollback"} => active[t].state = "InCommitOrRollback"
    /\ type = "Commit" => t \in submitted

RequestsServable ==
    /\ \A n \in DOMAIN queue :
        /\ Awaited(queue[n].trid, queue[n].type)
        /\ queue[n].trid # item.trid
        /\ \A m \in DOMAIN queue :
                queue[m].trid = queue[n].trid => m = n
    /\ pc \in {"check", "logged"} => Awaited(item.trid, item.type)

(* What two clients were promised side by side never clashes: what one     *)
(* requires of a document, the other does not modify.  processSubmit       *)
(* checks both directions, one transaction at a time.  This is about       *)
(* transactions submitted since the start: replay restores none of the     *)
(* constraints and makes every modification an insertion, so that later    *)
(* submits are not checked against what was promised before.               *)
SubmittedCompatible ==
    \A p, q \in promised :
        /\ p.transaction_id # q.transaction_id
        /\ {p.transaction_id, q.transaction_id} \subseteq submitted \ restored
        => ~ Clash(p.mutations, q.constraints)

(* What the storages have been handed is what the log commits, before and  *)
(* after a restart: same transactions, same sequence ids, same documents.  *)
Targets(mutations) ==
    [n \in DOMAIN mutations |-> <<mutations[n].storageIndex,
                                  mutations[n].documentId>>]

TargetsOf(commits) ==
    {[c EXCEPT !.mutations = Targets(@)] : c \in commits}

InFlight(c) ==
    pc = "logged" /\ item.type # "Submit" /\ c.sequence_id = sequenceId

StoragesFollowLog ==
    up => TargetsOf(delivered) =
            TargetsOf({c \in CommitsOf(log) : ~ InFlight(c)})

(* A commit a client was told of is never lost: whenever the process runs, *)
(* the storages have been handed it under the sequence id the client got.  *)
AckedSurvives ==
    up => \A a \in acked : \E c \in delivered :
            /\ c.transaction_id = a.transaction_id
            /\ c.sequence_id = a.sequence_id

(* "after submit() return success commit() is guaranteed to succeed": a    *)
(* transaction that was told so stays submitted with its mutations, or is  *)
(* committed, across crashes, until its client rolls it back.              *)
PromiseKept ==
    up => \A p \in promised :
        \/ /\ p.transaction_id \in submitted
           /\ active[p.transaction_id].state
                    \in {"Submitted", "InCommitOrRollback"}
           /\ Targets(active[p.transaction_id].mutations) = Targets(p.mutations)
        \/ \E c \in delivered :
           /\ c.transaction_id = p.transaction_id
           /\ Targets(c.mutations) = Targets(p.mutations)

(* No document is inserted by two logged transactions: the counter that    *)
(* reinspect restores is above every id the log mentions.                  *)
InsertsFresh ==
    \A i, j \in DOMAIN log :
        \A m \in DOMAIN log[i].mutations, n \in DOMAIN log[j].mutations :
            /\ log[i].mutations[m] = log[j].mutations[n]
            /\ log[i].mutations[m].type = "Insert"
            => i = j /\ m = n

(* The engine implements what it promises: transactions are prepared once, *)
(* decided in the order of their sequence ids, acknowledged only after     *)
(* that, and nothing decided or acknowledged is undone by a crash.         *)
History == INSTANCE CommitHistory WITH
    prepared <- PreparedOf(log), committed <- CommitsOf(log), acked <- acked

ImplementsHistory == History!Spec

(* Every queued request is answered unless the process ends, or the loop   *)
(* waits for a storage for ever: no increment of p_eventFd is lost.        *)
RequestsAnswered ==
    \/ <>[](pc = "check")
    \/ \A t \in TransactionIds :
        []<>(active[t].state \notin {"InSubmit", "InCommitOrRollback"})

(* Every id in p_submittedTransactions is an active transaction, which is  *)
(* what .at() in processSubmit and the erase in processRollback rely on.   *)
SubmittedAreActive == \A t \in submitted : ~ Dangling(t)

(* onSubmitted is "called for transaction that have been submitted but not *)
(* committed or rolled back": none of the others is found again.           *)
RolledBackStaysGone ==
    \A t \in rolledBack : active[t].state = "None"
==============================================================================
