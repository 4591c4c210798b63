---------------------------- MODULE EngineProofs -----------------------------
(***************************************************************************)
(* What holds of Engine for every number of transactions, documents and    *)
(* storages: types; that the log can always be replayed, that the closure  *)
(* finds the transactions it serves, and that an acknowledged commit       *)
(* survives; and, in the second half, what the log says.  EngineInv and    *)
(* LogInv are the inductive invariants.                                    *)
(***************************************************************************)
EXTENDS Engine, TLAPS, SequenceTheorems

------------------------------------------------------------------------------
(* The invariant that makes the safety properties inductive *)

(* An id is submitted once and committed once; no commit without a submit. *)
LogWellFormed ==
    /\ LogReplayable
    /\ \A i, j \in DOMAIN log :
        /\ log[i].transaction_id = log[j].transaction_id
        /\ (log[i].type = "Commit") = (log[j].type = "Commit")
        => i = j

IdsOf(l) == {l[i].transaction_id : i \in DOMAIN l}

(* The closure has logged the request of t and not yet completed it.       *)
Completing(t) == pc = "logged" /\ item.trid = t

LastEntryIsItem ==
    pc = "logged" =>
        /\ log # <<>>
        /\ log[Len(log)].type = item.type
        /\ log[Len(log)].transaction_id = item.trid
        /\ item.type # "Submit" => log[Len(log)].sequence_id = sequenceId

(* What the state of a transaction in memory says of the log.              *)
StateMatchesLog ==
    up => \A t \in TransactionIds :
        /\ active[t].state # "None" \/ t \in submitted \/ t \in IdsOf(log)
                => t < nextTransactId
        /\ active[t].state = "Submitted" => t \in submitted
        /\ ~ Completing(t) =>
            /\ active[t].state \in {"Open", "InSubmit"} => t \notin IdsOf(log)
            /\ t \in submitted /\ active[t].state # "None" =>
                    \E i \in Unfinished(log) : log[i].transaction_id = t

(* A stopped process serves nothing.                                       *)
StoppedIsIdle == ~ up => queue = <<>> /\ pc = "process"

(* Acknowledged commits are logged, and delivered while the process runs.  *)
AckedLogged ==
    \A a \in acked : \E i \in DOMAIN log :
        /\ IsCommit(log[i])
        /\ log[i].transaction_id = a.transaction_id
        /\ log[i].sequence_id = a.sequence_id

EngineInv ==
    /\ TypeOK
    /\ LogWellFormed
    /\ LastEntryIsItem
    /\ StateMatchesLog
    /\ RequestsServable
    /\ StoppedIsIdle
    /\ AckedLogged
    /\ AckedSurvives
------------------------------------------------------------------------------
(* What is inductive on top of it, for the properties about the content of *)
(* the log                                                                 *)

(* Commits are logged in the order of their sequence ids, none of which    *)
(* the counter will give again.                                            *)
CommitsOrdered ==
    /\ \A i, j \in DOMAIN log :
            IsCommit(log[i]) /\ IsCommit(log[j]) /\ i < j
                => log[i].sequence_id < log[j].sequence_id
    /\ up => \A i \in DOMAIN log :
                IsCommit(log[i]) => log[i].sequence_id <= currentSequenceId

(* A transaction in memory has the mutations it was logged with.           *)
MutationsMatchLog ==
    /\ \A t \in TransactionIds : active[t].state = "None" => active[t] = NoTransaction
    /\ up => \A i \in DOMAIN log :
            LET t == log[i].transaction_id IN
            log[i].type # "Commit" /\ active[t].state # "None" =>
                Targets(active[t].mutations) = Targets(log[i].mutations)

(* What the checks of processSubmit see of two submitted transactions does *)
(* not clash.                                                              *)
Live(t) == t \in submitted /\ ~ Dangling(t)

ActiveCompatible ==
    \A t, other \in TransactionIds :
        Live(t) /\ Live(other) /\ t # other => ~ Conflicts(t, other)

(* The transaction that is being submitted has passed the checks, and      *)
(* nothing it passed them for has changed.                                 *)
ItemCompatible ==
    pc \in {"check", "logged"} /\ item.type # "Commit" =>
        \A other \in TransactionIds :
            Live(other) /\ other # item.trid => ~ Conflicts(item.trid, other)

(* What was promised is logged, and is not about to be rolled back.        *)
PromisesLogged ==
    \A p \in promised :
        /\ \E i \in DOMAIN log :
            /\ log[i].type = "Submit" /\ log[i].transaction_id = p.transaction_id
            /\ Targets(log[i].mutations) = Targets(p.mutations)
        /\ \A n \in DOMAIN queue :
            queue[n].type = "Rollback" => queue[n].trid # p.transaction_id

(* The ids of inserted documents are below the counter of their storage,   *)
(* and no transaction that is still to be logged inserts what another one  *)
(* or the log does.                                                        *)
Drafts == {t \in TransactionIds : active[t].state # "None" /\ t \notin IdsOf(log)}

Allocated(m) == m.type = "Insert" => m.documentId <= lastDocumentId[m.storageIndex]

DraftsFresh ==
    up =>
    /\ \A i \in DOMAIN log : \A n \in DOMAIN log[i].mutations :
            Allocated(log[i].mutations[n])
    /\ \A t \in Drafts : \A m \in DOMAIN active[t].mutations :
        /\ Allocated(active[t].mutations[m])
        /\ active[t].mutations[m].type = "Insert" =>
            /\ \A i \in DOMAIN log : \A n \in DOMAIN log[i].mutations :
                    active[t].mutations[m] # log[i].mutations[n]
            /\ \A u \in Drafts : \A n \in DOMAIN active[u].mutations :
                    active[t].mutations[m] = active[u].mutations[n] => u = t /\ n = m

LogInv ==
    /\ CommitsOrdered
    /\ MutationsMatchLog /\ StoragesFollowLog
    /\ ItemCompatible /\ ActiveCompatible
    /\ PromisesLogged /\ PromiseKept
    /\ DraftsFresh /\ InsertsFresh
------------------------------------------------------------------------------
(* The sets the types are built from, left folded while types are checked. *)
Commits == [transaction_id : TransactionIds, sequence_id : Nat,
            mutations : Seq(Mutation)]

(* A replayed transaction has the type of a logged one.                    *)
LEMMA AsReplayedType ==
    ASSUME NEW mutations \in Seq(Mutation)
    PROVE  AsReplayed(mutations) \in Seq(Mutation)
<1>1. \A n \in DOMAIN mutations : mutations[n] \in Mutation
  BY ElementOfSeq
<1>2. \A n \in DOMAIN mutations :
        [mutations[n] EXCEPT !.type = "Insert"] \in Mutation
  BY <1>1 DEF Mutation
<1>3. DOMAIN mutations = 1..Len(mutations) /\ Len(mutations) \in Nat
  BY LenProperties
<1> QED BY <1>2, <1>3 DEF AsReplayed

(* The entries of a log have their types.                                  *)
LEMMA LogEntryType ==
    ASSUME log \in Seq(LogEntry), NEW i \in DOMAIN log
    PROVE  log[i] \in LogEntry
BY ElementOfSeq

(* What is left open by a log is a set of transactions with mutations.     *)
LEMMA PreparedType ==
    ASSUME log \in Seq(LogEntry), NEW p \in PreparedOf(log)
    PROVE  /\ p.transaction_id \in TransactionIds
           /\ p.mutations \in Seq(Mutation)
BY LogEntryType DEF PreparedOf, Unfinished, LogEntry

(* What a replayable log commits is typed.                                 *)
LEMMA CommitsType ==
    ASSUME log \in Seq(LogEntry), Replayable(log), NEW c \in CommitsOf(log)
    PROVE  c \in Commits
<1>1. PICK i \in DOMAIN log :
        /\ IsCommit(log[i])
        /\ c = [transaction_id |-> log[i].transaction_id,
                sequence_id |-> log[i].sequence_id,
                mutations |-> CommitMutations(log, i)]
  BY DEF CommitsOf
<1>2. log[i] \in LogEntry
  BY LogEntryType
<1>3. CommitMutations(log, i) \in Seq(Mutation)
  <2>1. CASE log[i].type = "SubmitCommit"
    BY <1>2, <2>1 DEF CommitMutations, LogEntry
  <2>2. CASE log[i].type = "Commit"
    <3>1. \E j \in DOMAIN log : OpenedBy(log, j, i)
      BY <2>2 DEF Replayable
    <3>2. (CHOOSE j \in DOMAIN log : OpenedBy(log, j, i)) \in DOMAIN log
      BY <3>1
    <3> QED BY <2>2, <3>2, LogEntryType DEF CommitMutations, LogEntry
  <2> QED BY <1>1, <2>1, <2>2 DEF IsCommit
<1> QED BY <1>1, <1>2, <1>3 DEF Commits, LogEntry

(* The largest document id of a typed log is a document id, or zero.       *)
LEMMA DocumentIdsType ==
    ASSUME log \in Seq(LogEntry)
    PROVE  DocumentIdsOf(log) \subseteq DocumentIds
<1> SUFFICES ASSUME NEW i \in DOMAIN log, NEW m \in Range(log[i].mutations)
             PROVE  m.documentId \in DocumentIds
  BY DEF DocumentIdsOf
<1>1. log[i].mutations \in Seq(Mutation)
  BY LogEntryType DEF LogEntry
<1>2. m \in Mutation
  BY <1>1, ElementOfSeq DEF Range
<1> QED BY <1>2 DEF Mutation
------------------------------------------------------------------------------
(* A step of the program changes no variable to a value of a wrong type.   *)

(* The first state has the types.                                          *)
LEMMA TypeInit == Init => TypeOK
<1> SUFFICES ASSUME Init PROVE TypeOK
  OBVIOUS
<1>1. NoTransaction \in Transaction
  BY DEF NoTransaction, Transaction, TransactionState
<1>2. active \in [TransactionIds -> Transaction]
  BY <1>1 DEF Init
<1>3. queue \in Seq(QueueItem) /\ log \in Seq(LogEntry)
  BY DEF Init
<1>4. reply \in [trid : TransactionIds \cup {0}, result : Result]
  BY DEF Init, NoReply, Result
<1>5. nextTransactId \in 1..(MaxTransact + 1)
  BY BoundsAssumption DEF Init
<1>6. /\ lastDocumentId \in [Storages -> 0..MaxDocument]
      /\ applied \in [Storages -> Nat]
  BY BoundsAssumption DEF Init
<1>7. up \in BOOLEAN /\ eventFd \in BOOLEAN
  BY DEF Init
<1>8. /\ currentSequenceId \in Nat /\ unsignalled \in Nat /\ sequenceId \in Nat
      /\ pc \in {"process", "empty", "wait", "check", "logged"}
      /\ ItemTypeOK /\ index \in Nat \ {0}
  BY DEF Init, ItemTypeOK
<1>9. submitted = {} /\ delivered = {} /\ acked = {} /\ promised = {}
      /\ rolledBack = {} /\ restored = {}
  BY DEF Init
<1> QED BY <1>2, <1>3, <1>4, <1>5, <1>6, <1>7, <1>8, <1>9 DEF TypeOK

(* A call of a client and its signal keep the types.                       *)
LEMMA TypeClient ==
    ASSUME TypeOK, Client \/ Signal
    PROVE  TypeOK'
<1> USE BoundsAssumption, OfferedAssumption
        DEF TransactionIds, DocumentIds, TransactionState, QueueItem,
            RequestType, memory, loop, wakeup, storage, clients
<1>0. \A t \in TransactionIds : active[t] \in Transaction
  BY DEF TypeOK
<1>1. CASE BeginTransaction
  <2>1. nextTransactId \in TransactionIds
    BY <1>1 DEF BeginTransaction, TypeOK
  <2>2. active' \in [TransactionIds -> Transaction]
    BY <1>1, <1>0, <2>1 DEF BeginTransaction, TypeOK, Transaction
  <2>3. nextTransactId' \in 1..(MaxTransact + 1)
    BY <1>1, <2>1 DEF BeginTransaction
  <2>4. /\ UNCHANGED <<up, currentSequenceId, submitted, restored, queue, unsignalled, eventFd>>
        /\ UNCHANGED <<pc, item, index, sequenceId, log, lastDocumentId>>
        /\ UNCHANGED <<delivered, applied, reply, acked, promised, rolledBack>>
    BY <1>1 DEF BeginTransaction
  <2> QED BY <2>2, <2>3, <2>4 DEF TypeOK, ItemTypeOK
<1>2. ASSUME NEW t \in TransactionIds, NEW m \in Mutation, AddMutation(t, m)
      PROVE  active' \in [TransactionIds -> Transaction]
  <2>1. Append(active[t].mutations, m) \in Seq(Mutation)
    BY <1>0 DEF Transaction
  <2> QED BY <1>0, <1>2, <2>1 DEF AddMutation, TypeOK, Transaction
<1>3. ASSUME NEW t \in TransactionIds, NEW s \in Storages,
             UpdateMutationInsert(t, s)
      PROVE  TypeOK'
  <2>1. Allocate(s) \in DocumentIds
    BY <1>3 DEF UpdateMutationInsert, Allocate, TypeOK
  <2>2. [type |-> "Insert", storageIndex |-> s, documentId |-> Allocate(s)]
            \in Mutation
    BY <2>1 DEF Mutation
  <2>3. active' \in [TransactionIds -> Transaction]
    BY <1>2, <1>3, <2>2 DEF UpdateMutationInsert
  <2>4. lastDocumentId' \in [Storages -> 0..MaxDocument]
    BY <1>3, <2>1 DEF UpdateMutationInsert, TypeOK
  <2> QED BY <1>3, <2>3, <2>4 DEF UpdateMutationInsert, AddMutation, TypeOK, ItemTypeOK
<1>4. ASSUME NEW t \in TransactionIds, NEW s \in Storages, NEW d \in Modified,
             UpdateMutationModify(t, s, d)
      PROVE  TypeOK'
  <2>1. [type |-> "Modify", storageIndex |-> s, documentId |-> d] \in Mutation
    BY DEF Mutation
  <2> QED BY <1>2, <1>4, <2>1 DEF UpdateMutationModify, AddMutation, TypeOK, ItemTypeOK
<1>5. ASSUME NEW t \in TransactionIds, NEW c \in Offered, UpdateConstraint(t, c)
      PROVE  TypeOK'
  <2>1. Append(active[t].constraints, c) \in Seq(Constraint)
    BY <1>0 DEF Transaction
  <2>2. active' \in [TransactionIds -> Transaction]
    BY <1>0, <1>5, <2>1 DEF UpdateConstraint, TypeOK, Transaction
  <2> QED BY <1>5, <2>2 DEF UpdateConstraint, TypeOK, ItemTypeOK
<1>6. ASSUME NEW t \in TransactionIds, NEW type \in RequestType, NEW from,
             NEW to \in TransactionState, Enqueue(type, t, from, to),
             promised' \subseteq promised
      PROVE  TypeOK'
  <2>1. active' \in [TransactionIds -> Transaction]
    BY <1>0, <1>6 DEF Enqueue, TypeOK, Transaction
  <2>2. queue' \in Seq(QueueItem)
    BY <1>6 DEF Enqueue, TypeOK
  <2> HIDE DEF TransactionIds, QueueItem
  <2>3. promised' \subseteq [transaction_id : TransactionIds,
                             mutations : Seq(Mutation),
                             constraints : Seq(Constraint)]
    BY <1>6 DEF TypeOK
  <2>4. unsignalled' \in Nat
    BY <1>6 DEF Enqueue, TypeOK
  <2>5. UNCHANGED <<up, nextTransactId, currentSequenceId, submitted, restored, eventFd,
                    loop, log, storage, reply, acked, rolledBack>>
    BY <1>6 DEF Enqueue
  <2> QED BY <2>1, <2>2, <2>3, <2>4, <2>5 DEF TypeOK, ItemTypeOK
<1>7. CASE \E t \in TransactionIds :
            Submit(t) \/ SubmitCommit(t) \/ Commit(t) \/ Rollback(t)
  BY <1>6, <1>7 DEF Submit, SubmitCommit, Commit, Rollback
<1>8. CASE Signal
  BY <1>8 DEF Signal, TypeOK, ItemTypeOK
<1> QED BY <1>1, <1>3, <1>4, <1>5, <1>7, <1>8 DEF Client, UpdateMutation

(* The end of the process keeps the types: what is left is the log.        *)
LEMMA TypeStop == ASSUME TypeOK, Stop PROVE TypeOK'
<1>1. NoTransaction \in Transaction
  BY DEF NoTransaction, Transaction, TransactionState
<1>2. active' \in [TransactionIds -> Transaction]
  BY <1>1 DEF Stop
<1>3. queue' \in Seq(QueueItem)
  BY DEF Stop
<1>4. reply' \in [trid : TransactionIds \cup {0}, result : Result]
  BY DEF Stop, NoReply, Result
<1>5. nextTransactId' \in 1..(MaxTransact + 1)
  BY BoundsAssumption DEF Stop
<1>6. applied' \in [Storages -> Nat]
  BY DEF Stop
<1>7. up' \in BOOLEAN /\ eventFd' \in BOOLEAN
  BY DEF Stop
<1>8. /\ currentSequenceId' \in Nat /\ unsignalled' \in Nat /\ sequenceId' \in Nat
      /\ pc' \in {"process", "empty", "wait", "check", "logged"}
      /\ ItemTypeOK' /\ index' \in Nat \ {0}
  BY DEF Stop, ItemTypeOK
<1>9. /\ submitted' = {} /\ restored' = {} /\ delivered' = {}
      /\ UNCHANGED <<log, lastDocumentId, acked, promised, rolledBack>>
  BY DEF Stop
<1> QED BY <1>2, <1>3, <1>4, <1>5, <1>6, <1>7, <1>8, <1>9 DEF TypeOK

(* A failed submit keeps the types. *)
LEMMA TypeSubmitFailure ==
    ASSUME TypeOK, NEW t \in TransactionIds, NEW error \in Result,
           SubmitFailure(t, error), queue' \in Seq(QueueItem),
           UNCHANGED <<unsignalled, eventFd>>
    PROVE  TypeOK'
<1>1. NoTransaction \in Transaction
  BY DEF NoTransaction, Transaction, TransactionState
<1>2. active' \in [TransactionIds -> Transaction]
  BY <1>1 DEF SubmitFailure, TypeOK
<1>3. reply' \in [trid : TransactionIds \cup {0}, result : Result]
  BY DEF SubmitFailure
<1> QED BY <1>2, <1>3 DEF SubmitFailure, TypeOK, ItemTypeOK, storage

(* The item taken from the queue is one, and what remains is a queue.      *)
LEMMA DequeueType ==
    ASSUME TypeOK, NEW types, Dequeue(types)
    PROVE  /\ Head(queue) \in QueueItem
           /\ Head(queue).trid \in TransactionIds
           /\ queue' \in Seq(QueueItem)
<1>1. queue \in Seq(QueueItem) /\ queue # <<>> /\ queue' = Tail(queue)
  BY DEF Dequeue, TypeOK
<1>2. Head(queue) \in QueueItem /\ Tail(queue) \in Seq(QueueItem)
  BY <1>1, HeadTailProperties
<1> QED BY <1>1, <1>2 DEF QueueItem

(* A log grows by a typed entry. *)
LEMMA TypeWriteAhead ==
    ASSUME TypeOK, NEW entry \in LogEntry, WriteAhead(entry)
    PROVE  /\ log' \in Seq(LogEntry)
           /\ currentSequenceId' \in Nat
           /\ sequenceId' \in Nat
           /\ pc' = "logged"
BY AppendProperties DEF WriteAhead, TypeOK

(* The steps of the closure, up to a submit that is complete.              *)
LEMMA TypeSubmitSteps ==
    ASSUME TypeOK,
           \/ FindEmpty \/ Wait \/ WakeUp \/ ProcessSubmit
           \/ ProcessSubmitThrows \/ LogSubmit \/ CheckConstraint
    PROVE  TypeOK'
<1> USE DEF memory, loop, wakeup, storage, clients
<1>0. \A t \in TransactionIds : active[t] \in Transaction
  BY DEF TypeOK
<1>1. CASE FindEmpty \/ Wait
  BY <1>1 DEF FindEmpty, Wait, TypeOK, ItemTypeOK
<1>2. CASE WakeUp
  <2>1. eventFd' \in BOOLEAN
    BY <1>2 DEF WakeUp
  <2>2. /\ UNCHANGED <<up, restored, memory, queue, unsignalled, item, index, sequenceId,
                       log, storage, clients>>
        /\ pc = "wait" /\ pc' = "process"
    BY <1>2 DEF WakeUp
  <2> QED BY <2>1, <2>2 DEF TypeOK, ItemTypeOK
<1>3. CASE ProcessSubmit
  <2>1. Dequeue({"Submit", "SubmitCommit"})
    BY <1>3 DEF ProcessSubmit
  <2>2. /\ Head(queue) \in QueueItem /\ Head(queue).trid \in TransactionIds
        /\ queue' \in Seq(QueueItem)
    BY <2>1, DequeueType
  <2>3. UNCHANGED <<unsignalled, eventFd>>
    BY <2>1 DEF Dequeue
  <2>4. CASE \E error \in {"ConstraintConflict", "MutationConflict"} :
                SubmitFailure(Head(queue).trid, error)
    BY <2>2, <2>3, <2>4, TypeSubmitFailure DEF Result
  <2>5. CASE /\ pc' = "check" /\ item' = Head(queue) /\ index' = 1
             /\ reply' = NoReply
             /\ UNCHANGED <<up, restored, memory, sequenceId, log, storage, acked,
                            promised, rolledBack>>
    <3>1. reply' \in [trid : TransactionIds \cup {0}, result : Result]
      BY <2>5 DEF NoReply, Result
    <3> QED BY <2>1, <2>2, <2>3, <2>5, <3>1 DEF TypeOK, ItemTypeOK, Dequeue
  <2> QED BY <1>3, <2>4, <2>5 DEF ProcessSubmit
<1>4. CASE ProcessSubmitThrows
  BY <1>4, TypeStop DEF ProcessSubmitThrows
<1>5. CASE LogSubmit
  <2> DEFINE entry == [type |-> item.type, transaction_id |-> item.trid,
                       sequence_id |-> IF item.type = "SubmitCommit"
                                       THEN currentSequenceId + 1 ELSE 0,
                       mutations |-> active[item.trid].mutations]
  <2>1. WriteAhead(entry)
    BY <1>5 DEF LogSubmit
  <2>2. /\ item \in QueueItem /\ item.type \in {"Submit", "SubmitCommit"}
        /\ item.trid \in TransactionIds
    BY <1>5 DEF LogSubmit, TypeOK, ItemTypeOK, QueueItem
  <2>3. active[item.trid].mutations \in Seq(Mutation)
    BY <1>0, <2>2 DEF Transaction
  <2>4. entry \in LogEntry
    BY <2>2, <2>3 DEF LogEntry, TypeOK
  <2>5. /\ log' \in Seq(LogEntry) /\ currentSequenceId' \in Nat
        /\ sequenceId' \in Nat /\ pc' = "logged"
    BY <2>1, <2>4, TypeWriteAhead
  <2>6. UNCHANGED <<up, restored, nextTransactId, active, submitted, wakeup, item, index,
                    storage, clients>>
    BY <1>5 DEF LogSubmit
  <2> QED BY <2>2, <2>5, <2>6 DEF TypeOK, ItemTypeOK
<1>6. CASE CheckConstraint
  <2>2. item.trid \in TransactionIds
    BY <1>6 DEF CheckConstraint, TypeOK, ItemTypeOK, QueueItem
  <2>3. CASE /\ index' = index + 1
             /\ UNCHANGED <<up, restored, memory, wakeup, pc, item, sequenceId, log,
                            storage, clients>>
    BY <2>3 DEF TypeOK, ItemTypeOK
  <2>4. CASE SubmitFailure(item.trid, "ConstraintViolation") /\ UNCHANGED wakeup
    BY <2>2, <2>4, TypeSubmitFailure DEF Result, TypeOK
  <2> QED BY <1>6, <2>3, <2>4 DEF CheckConstraint
<1> QED BY <1>1, <1>2, <1>3, <1>4, <1>5, <1>6

(* The steps that complete a submit, commit or roll back.                  *)
LEMMA TypeCommitSteps ==
    ASSUME TypeOK,
           SubmitComplete \/ ProcessCommit \/ CommitComplete \/ ProcessRollback
    PROVE  TypeOK'
<1> USE DEF memory, loop, wakeup, storage, clients
<1>0. \A t \in TransactionIds : active[t] \in Transaction
  BY DEF TypeOK
<1>1. NoTransaction \in Transaction
  BY DEF NoTransaction, Transaction, TransactionState
<1>2. CASE SubmitComplete
  <2>1. item.trid \in TransactionIds
    BY <1>2 DEF SubmitComplete, TypeOK, ItemTypeOK, QueueItem
  <2>2. active' \in [TransactionIds -> Transaction]
    BY <1>0, <1>2, <2>1
       DEF SubmitComplete, TypeOK, Transaction, TransactionState
  <2>3. reply' \in [trid : TransactionIds \cup {0}, result : Result]
    BY <1>2, <2>1 DEF SubmitComplete, Result
  <2>4. promised' \subseteq [transaction_id : TransactionIds,
                             mutations : Seq(Mutation),
                             constraints : Seq(Constraint)]
    BY <1>0, <1>2, <2>1 DEF SubmitComplete, TypeOK, Transaction
  <2> QED BY <1>2, <2>1, <2>2, <2>3, <2>4
          DEF SubmitComplete, TypeOK, ItemTypeOK
<1>3. CASE ProcessCommit
  <2>1. Dequeue({"Commit"})
    BY <1>3 DEF ProcessCommit
  <2>2. /\ Head(queue) \in QueueItem /\ Head(queue).trid \in TransactionIds
        /\ queue' \in Seq(QueueItem)
    BY <2>1, DequeueType
  <2>3. [type |-> "Commit", transaction_id |-> Head(queue).trid,
         sequence_id |-> currentSequenceId + 1, mutations |-> <<>>] \in LogEntry
    BY <2>2, EmptySeq DEF LogEntry, TypeOK
  <2>4. /\ log' \in Seq(LogEntry) /\ currentSequenceId' \in Nat
        /\ sequenceId' \in Nat /\ pc' = "logged"
    BY <1>3, <2>3, TypeWriteAhead DEF ProcessCommit
  <2>5. reply' \in [trid : TransactionIds \cup {0}, result : Result]
    BY <1>3 DEF ProcessCommit, NoReply, Result
  <2>6. /\ item' = Head(queue) /\ Head(queue).type = "Commit"
        /\ UNCHANGED <<up, restored, nextTransactId, active, submitted, unsignalled,
                       eventFd, index, storage, acked, promised, rolledBack>>
    BY <1>3 DEF ProcessCommit, Dequeue
  <2> QED BY <2>2, <2>4, <2>5, <2>6 DEF TypeOK, ItemTypeOK
<1>4. CASE CommitComplete
  <2>1. item.trid \in TransactionIds
    BY <1>4 DEF CommitComplete, TypeOK, ItemTypeOK, QueueItem
  <2>2. active' \in [TransactionIds -> Transaction]
    BY <1>1, <1>4, <2>1 DEF CommitComplete, TypeOK
  <2>3. reply' \in [trid : TransactionIds \cup {0}, result : Result]
    BY <1>4, <2>1 DEF CommitComplete, Result
  <2>4. delivered' \subseteq [transaction_id : TransactionIds,
                              sequence_id : Nat, mutations : Seq(Mutation)]
    BY <1>0, <1>4, <2>1 DEF CommitComplete, TypeOK, Transaction
  <2>5. acked' \subseteq [transaction_id : TransactionIds, sequence_id : Nat]
    BY <1>4, <2>1 DEF CommitComplete, TypeOK
  <2>6. promised' \subseteq promised /\ submitted' \subseteq submitted
    BY <1>4 DEF CommitComplete
  <2> QED BY <1>4, <2>2, <2>3, <2>4, <2>5, <2>6
          DEF CommitComplete, TypeOK, ItemTypeOK
<1>5. CASE ProcessRollback
  <2>1. /\ Head(queue).trid \in TransactionIds
        /\ queue' \in Seq(QueueItem)
    BY <1>5, DequeueType DEF ProcessRollback
  <2>2. active' \in [TransactionIds -> Transaction]
    BY <1>1, <1>5, <2>1 DEF ProcessRollback, TypeOK
  <2>3. reply' \in [trid : TransactionIds \cup {0}, result : Result]
    BY <1>5, <2>1 DEF ProcessRollback, Result
  <2>4. submitted' \subseteq TransactionIds /\ rolledBack' \subseteq TransactionIds
    BY <1>5, <2>1 DEF ProcessRollback, TypeOK
  <2>5. UNCHANGED <<up, restored, nextTransactId, currentSequenceId, unsignalled, eventFd,
                    loop, log, storage, acked, promised>>
    BY <1>5 DEF ProcessRollback, Dequeue
  <2> QED BY <2>1, <2>2, <2>3, <2>4, <2>5 DEF TypeOK, ItemTypeOK
<1> QED BY <1>2, <1>3, <1>4, <1>5

(* A storage that applies a commit, and a new start, keep the types.       *)
LEMMA TypeStorageApply ==
    ASSUME TypeOK, NEW s \in Storages, StorageApply(s)
    PROVE  TypeOK'
<1>1. PICK c \in delivered : applied' = [applied EXCEPT ![s] = c.sequence_id]
  BY DEF StorageApply
<1>2. applied' \in [Storages -> Nat]
  BY <1>1 DEF TypeOK
<1> QED BY <1>2 DEF StorageApply, TypeOK, ItemTypeOK, memory, wakeup, loop, clients

(* Replaying a typed log gives typed memory and counters.                  *)
LEMMA TypeRestart == ASSUME TypeOK, Restart PROVE TypeOK'
<1>1. log \in Seq(LogEntry) /\ Replayable(log)
  BY DEF Restart, TypeOK
<1>2. nextTransactId' \in 1..(MaxTransact + 1)
  <2>1. TransactionIdsOf(log) \subseteq TransactionIds
    BY <1>1, LogEntryType DEF TransactionIdsOf, LogEntry
  <2> QED BY <2>1, BoundsAssumption DEF Restart, TransactionIds
<1>3. currentSequenceId' \in Nat
  <2>1. SequenceIdsOf(log) \subseteq Nat
    BY <1>1, LogEntryType DEF SequenceIdsOf, LogEntry
  <2> QED BY <2>1 DEF Restart
<1>4. active' \in [TransactionIds -> Transaction]
  <2>1. NoTransaction \in Transaction
    BY DEF NoTransaction, Transaction, TransactionState
  <2>2. ASSUME NEW p \in PreparedOf(log)
        PROVE  [state |-> "Submitted", mutations |-> AsReplayed(p.mutations),
                constraints |-> <<>>] \in Transaction
    BY <1>1, <2>2, PreparedType, AsReplayedType, EmptySeq
       DEF Transaction, TransactionState
  <2>3. ASSUME NEW t \in TransactionIds,
               \E p \in PreparedOf(log) : p.transaction_id = t
        PROVE  (CHOOSE p \in PreparedOf(log) : p.transaction_id = t)
                    \in PreparedOf(log)
    BY <2>3
  <2> QED BY <2>1, <2>2, <2>3 DEF Restart
<1>5. submitted' \subseteq TransactionIds /\ restored' \subseteq TransactionIds
  BY <1>1, PreparedType DEF Restart
<1>6. lastDocumentId' \in [Storages -> 0..MaxDocument]
  <2>1. DocumentIdsOf(log) \subseteq DocumentIds
    BY <1>1, DocumentIdsType
  <2> QED BY <2>1, BoundsAssumption DEF Restart, DocumentIds
<1>7. delivered' \subseteq [transaction_id : TransactionIds, sequence_id : Nat,
                            mutations : Seq(Mutation)]
  <2>1. ASSUME NEW c \in CommitsOf(log)
        PROVE  [c EXCEPT !.mutations = AsReplayed(@)] \in Commits
    <3>1. c \in Commits
      BY <1>1, CommitsType
    <3>2. AsReplayed(c.mutations) \in Seq(Mutation)
      BY <3>1, AsReplayedType DEF Commits
    <3> QED BY <3>1, <3>2 DEF Commits
  <2> QED BY <2>1 DEF Restart, Commits
<1>8. up' \in BOOLEAN
  BY DEF Restart
<1>9. UNCHANGED <<wakeup, loop, log, applied, clients>>
  BY DEF Restart
<1> QED BY <1>2, <1>3, <1>4, <1>5, <1>6, <1>7, <1>8, <1>9
        DEF TypeOK, ItemTypeOK, wakeup, loop, clients

(* No step breaks the types. *)
LEMMA TypeNext == ASSUME TypeOK, [Next]_vars PROVE TypeOK'
<1>1. CASE Client \/ Signal
  BY <1>1, TypeClient
<1>2. CASE Loop \/ CheckConstraint
  BY <1>2, TypeSubmitSteps, TypeCommitSteps DEF Loop
<1>3. CASE \E s \in Storages : StorageApply(s)
  BY <1>3, TypeStorageApply
<1>4. CASE Crash \/ Restart
  BY <1>4, TypeStop, TypeRestart DEF Crash
<1>5. CASE UNCHANGED vars
  BY <1>5 DEF vars, memory, loop, wakeup, storage, clients, TypeOK, ItemTypeOK
<1> QED BY <1>1, <1>2, <1>3, <1>4, <1>5 DEF Next

(* The types hold in every reachable state of the engine.                  *)
THEOREM TypeCorrect == Spec => []TypeOK
BY TypeInit, TypeNext, PTL DEF Spec
------------------------------------------------------------------------------
(* The log, and what it says of the transactions in memory                 *)

(* A log with one more entry. *)
LEMMA Appended ==
    ASSUME NEW l \in Seq(LogEntry), NEW entry \in LogEntry
    PROVE  LET n == Len(l) + 1
               m == Append(l, entry) IN
           /\ m \in Seq(LogEntry) /\ m # <<>> /\ Len(m) = n
           /\ n \in Nat /\ n \notin DOMAIN l
           /\ DOMAIN m = (DOMAIN l) \cup {n}
           /\ \A i \in DOMAIN l : m[i] = l[i] /\ i \in Nat /\ i < n
           /\ m[n] = entry
<1>1. Len(l) \in Nat /\ DOMAIN l = 1..Len(l)
  BY LenProperties
<1>2. /\ Append(l, entry) \in Seq(LogEntry)
      /\ Append(l, entry) # <<>>
      /\ Len(Append(l, entry)) = Len(l) + 1
      /\ \A i \in 1..Len(l) : Append(l, entry)[i] = l[i]
      /\ Append(l, entry)[Len(l) + 1] = entry
  BY AppendProperties
<1>3. DOMAIN Append(l, entry) = 1..(Len(l) + 1)
  BY <1>1, <1>2, LenProperties
<1> QED BY <1>1, <1>2, <1>3

(* An open Submit stays the one a later entry finds. *)
LEMMA OpenedByAppended ==
    ASSUME NEW l \in Seq(LogEntry), NEW entry \in LogEntry,
           NEW i \in DOMAIN l, NEW j \in DOMAIN l
    PROVE  OpenedBy(Append(l, entry), j, i) <=> OpenedBy(l, j, i)
<1>1. \A k \in (j + 1)..(i - 1) : k \in DOMAIN l
  BY LenProperties
<1> QED BY <1>1, Appended DEF OpenedBy

(* A log stays well formed when a transaction whose id it does not mention *)
(* is submitted ...                                                        *)
LEMMA AppendSubmitWellFormed ==
    ASSUME log \in Seq(LogEntry), LogWellFormed, NEW entry \in LogEntry,
           entry.type # "Commit", entry.transaction_id \notin IdsOf(log),
           log' = Append(log, entry)
    PROVE  LogWellFormed'
<1> DEFINE n == Len(log) + 1
<1>1. /\ DOMAIN log' = (DOMAIN log) \cup {n} /\ n \notin DOMAIN log
      /\ \A i \in DOMAIN log : log'[i] = log[i]
      /\ log'[n] = entry
  BY Appended
<1>2. \A i \in DOMAIN log : log[i].transaction_id # entry.transaction_id
  BY DEF IdsOf
<1>3. ASSUME NEW i \in DOMAIN log', log'[i].type = "Commit"
      PROVE  \E j \in DOMAIN log' : OpenedBy(log', j, i)
  <2>1. i \in DOMAIN log /\ log[i].type = "Commit"
    BY <1>1, <1>3
  <2>2. PICK j \in DOMAIN log : OpenedBy(log, j, i)
    BY <2>1 DEF LogWellFormed, LogReplayable, Replayable
  <2> QED BY <1>1, <2>1, <2>2, OpenedByAppended
<1>4. ASSUME NEW i \in DOMAIN log', NEW j \in DOMAIN log',
             log'[i].transaction_id = log'[j].transaction_id,
             (log'[i].type = "Commit") = (log'[j].type = "Commit")
      PROVE  i = j
  BY <1>1, <1>2, <1>4 DEF LogWellFormed
<1> QED BY <1>3, <1>4 DEF LogWellFormed, LogReplayable, Replayable

(* ... and when an unfinished one is committed.                            *)
LEMMA AppendCommitWellFormed ==
    ASSUME log \in Seq(LogEntry), LogWellFormed, NEW entry \in LogEntry,
           entry.type = "Commit", NEW u \in Unfinished(log),
           log[u].transaction_id = entry.transaction_id,
           log' = Append(log, entry)
    PROVE  LogWellFormed'
<1> DEFINE n == Len(log) + 1
<1>1. /\ DOMAIN log' = (DOMAIN log) \cup {n} /\ n \notin DOMAIN log
      /\ n \in Nat
      /\ \A i \in DOMAIN log : log'[i] = log[i] /\ i \in Nat /\ i < n
      /\ log'[n] = entry
  BY Appended
<1>2. /\ u \in DOMAIN log /\ log[u].type = "Submit"
      /\ \A k \in DOMAIN log :
            ~ (log[k].type = "Commit"
               /\ log[k].transaction_id = entry.transaction_id)
  BY DEF Unfinished
<1>3. OpenedBy(log', u, n)
  <2>1. \A k \in (u + 1)..(n - 1) : k \in DOMAIN log
    BY <1>2, LenProperties
  <2> QED BY <1>1, <1>2, <2>1 DEF OpenedBy
<1>4. ASSUME NEW i \in DOMAIN log', log'[i].type = "Commit"
      PROVE  \E j \in DOMAIN log' : OpenedBy(log', j, i)
  <2>1. CASE i = n
    BY <1>1, <1>2, <1>3, <2>1
  <2>2. CASE i \in DOMAIN log
    <3>1. PICK j \in DOMAIN log : OpenedBy(log, j, i)
      BY <1>1, <1>4, <2>2 DEF LogWellFormed, LogReplayable, Replayable
    <3> QED BY <1>1, <2>2, <3>1, OpenedByAppended
  <2> QED BY <1>1, <2>1, <2>2
<1>5. ASSUME NEW i \in DOMAIN log', NEW j \in DOMAIN log',
             log'[i].transaction_id = log'[j].transaction_id,
             (log'[i].type = "Commit") = (log'[j].type = "Commit")
      PROVE  i = j
  BY <1>1, <1>2, <1>5 DEF LogWellFormed
<1> QED BY <1>4, <1>5 DEF LogWellFormed, LogReplayable, Replayable
------------------------------------------------------------------------------
(* Calls of clients *)

(* What every call and the signal leave alone keeps most of the invariant. *)
LEMMA LogUntouched ==
    ASSUME EngineInv, UNCHANGED <<up, pc, item, sequenceId, log, delivered, acked>>,
           up
    PROVE  /\ LogWellFormed' /\ LastEntryIsItem' /\ AckedLogged'
           /\ AckedSurvives' /\ StoppedIsIdle'
<1>1. LogWellFormed'
  BY DEF EngineInv, LogWellFormed, LogReplayable
<1>2. LastEntryIsItem'
  BY DEF EngineInv, LastEntryIsItem
<1>3. AckedLogged' /\ AckedSurvives'
  BY DEF EngineInv, AckedLogged, AckedSurvives
<1>4. StoppedIsIdle'
  BY DEF StoppedIsIdle
<1> QED BY <1>1, <1>2, <1>3, <1>4

(* A step that changes no state, no request and no list of submitted       *)
(* transactions keeps the rest.                                            *)
LEMMA StatesUntouched ==
    ASSUME EngineInv,
           \A t \in TransactionIds : active'[t].state = active[t].state,
           UNCHANGED <<up, nextTransactId, submitted, queue, pc, item, log>>
    PROVE  StateMatchesLog' /\ RequestsServable'
<1>0. \A n \in DOMAIN queue : queue[n] \in QueueItem
  BY ElementOfSeq, LenProperties DEF EngineInv, TypeOK
<1>1. \A n \in DOMAIN queue : queue[n].trid \in TransactionIds
  BY <1>0 DEF QueueItem
<1>2. pc \in {"check", "logged"} => item.trid \in TransactionIds
  BY DEF EngineInv, TypeOK, ItemTypeOK, QueueItem
<1>3. StateMatchesLog'
  BY DEF EngineInv, StateMatchesLog, Completing
<1>4. RequestsServable'
  BY <1>1, <1>2 DEF EngineInv, RequestsServable, Awaited
<1> QED BY <1>3, <1>4

(* transaction() hands out an id nothing else uses. *)
LEMMA SafetyBegin ==
    ASSUME EngineInv, BeginTransaction
    PROVE  StateMatchesLog' /\ RequestsServable'
<1> DEFINE new == nextTransactId
<1>1. /\ up /\ new \in TransactionIds /\ nextTransactId' = new + 1
      /\ active' = [active EXCEPT ![new].state = "Open"]
      /\ UNCHANGED <<up, submitted, queue, pc, item, log>>
  BY DEF BeginTransaction, EngineInv, TypeOK, TransactionIds, wakeup, loop
<1>2. active \in [TransactionIds -> Transaction]
  BY DEF EngineInv, TypeOK
<1>3. \A t \in TransactionIds :
        active'[t].state = IF t = new THEN "Open" ELSE active[t].state
  BY <1>1, <1>2 DEF Transaction
<1>4. active[new].state = "None" /\ new \notin submitted /\ new \notin IdsOf(log)
  BY <1>1 DEF EngineInv, StateMatchesLog, TransactionIds
<1>5. StateMatchesLog'
  BY <1>1, <1>3, <1>4 DEF EngineInv, StateMatchesLog, Completing, TransactionIds
<1>6. \A n \in DOMAIN queue : queue[n] \in QueueItem
  BY ElementOfSeq, LenProperties DEF EngineInv, TypeOK
<1>7. \A n \in DOMAIN queue : queue[n].trid \in TransactionIds \ {new}
  BY <1>4, <1>6 DEF EngineInv, RequestsServable, Awaited, QueueItem, RequestType
<1>8. pc \in {"check", "logged"} => item.trid \in TransactionIds \ {new}
  BY <1>4 DEF EngineInv, TypeOK, ItemTypeOK, QueueItem, RequestsServable, Awaited
<1>9. RequestsServable'
  BY <1>1, <1>3, <1>7, <1>8 DEF EngineInv, RequestsServable, Awaited
<1> QED BY <1>5, <1>9

(* submit, submitCommit, commit and rollback queue the one request of a    *)
(* transaction that has none.                                              *)
LEMMA SafetyEnqueue ==
    ASSUME EngineInv, NEW t \in TransactionIds,
           NEW type \in RequestType, NEW from, NEW to,
           Enqueue(type, t, from, to),
           \/ type \in {"Submit", "SubmitCommit"} /\ from = {"Open"} /\ to = "InSubmit"
           \/ /\ type = "Commit" /\ from = {"Submitted"}
              /\ to = "InCommitOrRollback"
           \/ /\ type = "Rollback" /\ from = {"Open", "Submitted"}
              /\ to = "InCommitOrRollback"
    PROVE  StateMatchesLog' /\ RequestsServable'
<1> DEFINE request == [type |-> type, trid |-> t]
<1>1. /\ active[t].state \in {"Open", "Submitted"}
      /\ type \in {"Submit", "SubmitCommit"} => active[t].state = "Open"
      /\ type = "Commit" => active[t].state = "Submitted"
      /\ active' = [active EXCEPT ![t].state = to]
      /\ queue' = Append(queue, request)
      /\ UNCHANGED <<up, nextTransactId, submitted, pc, item, log>>
  BY DEF Enqueue, memory, loop
<1>2. active \in [TransactionIds -> Transaction]
  BY DEF EngineInv, TypeOK
<1>3. \A u \in TransactionIds :
        active'[u].state = IF u = t THEN to ELSE active[u].state
  BY <1>1, <1>2 DEF Transaction
<1>4. StateMatchesLog'
  BY <1>1, <1>3 DEF EngineInv, StateMatchesLog, Completing
<1>5. queue \in Seq(QueueItem) /\ request \in QueueItem
  BY DEF EngineInv, TypeOK, QueueItem
<1>6. \A n \in DOMAIN queue : queue[n] \in QueueItem
  BY <1>5, ElementOfSeq, LenProperties
<1>7. \A n \in DOMAIN queue : queue[n].trid \in TransactionIds \ {t}
  BY <1>1, <1>6 DEF EngineInv, RequestsServable, Awaited, QueueItem, RequestType
<1>8. pc \in {"check", "logged"} => item.trid \in TransactionIds \ {t}
  BY <1>1 DEF EngineInv, TypeOK, ItemTypeOK, QueueItem, RequestsServable, Awaited
<1>9. item.trid # t
  BY <1>8 DEF EngineInv, TypeOK, ItemTypeOK, NoItem, TransactionIds
<1>10. /\ DOMAIN queue' = (DOMAIN queue) \cup {Len(queue) + 1}
       /\ Len(queue) + 1 \notin DOMAIN queue
       /\ \A n \in DOMAIN queue : queue'[n] = queue[n]
       /\ queue'[Len(queue) + 1] = request
  BY <1>1, <1>5, AppendProperties, LenProperties
<1>11. type = "Commit" => t \in submitted
  BY <1>1 DEF EngineInv, StateMatchesLog, Enqueue
<1>12. RequestsServable'
  BY <1>1, <1>3, <1>7, <1>8, <1>9, <1>10, <1>11
     DEF EngineInv, RequestsServable, Awaited
<1> QED BY <1>4, <1>12

(* No call of a client, and no signal, breaks the invariant. *)
LEMMA SafetyClient == ASSUME EngineInv, Client \/ Signal PROVE EngineInv'
<1> USE DEF memory, loop, wakeup, storage, clients
<1>0. TypeOK'
  BY TypeClient DEF EngineInv
<1>1. /\ up
      /\ UNCHANGED <<up, pc, item, sequenceId, log, delivered, acked>>
  BY DEF Client, UpdateMutation, BeginTransaction, UpdateMutationInsert,
         UpdateMutationModify, AddMutation, UpdateConstraint, Submit,
         SubmitCommit, Commit, Rollback, Enqueue, Signal
<1>2. /\ LogWellFormed' /\ LastEntryIsItem' /\ AckedLogged'
      /\ AckedSurvives' /\ StoppedIsIdle'
  BY <1>1, LogUntouched
<1>3. active \in [TransactionIds -> Transaction]
  BY DEF EngineInv, TypeOK
<1>4. ASSUME NEW t \in TransactionIds, NEW m, AddMutation(t, m)
      PROVE  StateMatchesLog' /\ RequestsServable'
  <2>1. \A u \in TransactionIds : active'[u].state = active[u].state
    BY <1>3, <1>4 DEF AddMutation, Transaction
  <2> QED BY <1>4, <2>1, StatesUntouched DEF AddMutation
<1>5. StateMatchesLog' /\ RequestsServable'
  <2>1. CASE BeginTransaction
    BY <2>1, SafetyBegin
  <2>2. CASE \E t \in TransactionIds : UpdateMutation(t)
    BY <1>4, <2>2 DEF UpdateMutation, UpdateMutationInsert, UpdateMutationModify
  <2>3. CASE \E t \in TransactionIds, c \in Offered : UpdateConstraint(t, c)
    <3>1. \A u \in TransactionIds : active'[u].state = active[u].state
      BY <1>3, <2>3 DEF UpdateConstraint, Transaction
    <3> QED BY <2>3, <3>1, StatesUntouched DEF UpdateConstraint
  <2>4. CASE \E t \in TransactionIds :
                Submit(t) \/ SubmitCommit(t) \/ Commit(t) \/ Rollback(t)
    BY <2>4, SafetyEnqueue
       DEF Submit, SubmitCommit, Commit, Rollback, RequestType
  <2>5. CASE Signal
    BY <2>5, StatesUntouched DEF Signal
  <2> QED BY <2>1, <2>2, <2>3, <2>4, <2>5 DEF Client
<1> QED BY <1>0, <1>2, <1>5 DEF EngineInv
------------------------------------------------------------------------------
(* Steps of the closure *)

(* Taking the front of the queue leaves requests that can be served, none  *)
(* of them of the transaction taken.                                       *)
LEMMA SafetyDequeue ==
    ASSUME EngineInv, NEW types, Dequeue(types)
    PROVE  LET t == Head(queue).trid IN
           /\ up /\ pc = "process"
           /\ Head(queue) \in QueueItem /\ Head(queue).type \in types
           /\ t \in TransactionIds
           /\ Awaited(t, Head(queue).type)
           /\ \A n \in DOMAIN queue' :
                /\ queue'[n] \in QueueItem
                /\ queue'[n].trid \in TransactionIds \ {t}
                /\ Awaited(queue'[n].trid, queue'[n].type)
                /\ \A m \in DOMAIN queue' :
                        queue'[m].trid = queue'[n].trid => m = n
<1>1. /\ up /\ pc = "process" /\ queue # <<>> /\ Head(queue).type \in types
      /\ queue' = Tail(queue) /\ queue \in Seq(QueueItem)
  BY DEF Dequeue, EngineInv, TypeOK
<1>2. /\ Len(queue) \in Nat \ {0} /\ DOMAIN queue = 1..Len(queue)
      /\ 1 \in DOMAIN queue /\ Head(queue) = queue[1]
  BY <1>1, EmptySeq, LenProperties
<1>3. /\ queue' \in Seq(QueueItem) /\ Len(queue') = Len(queue) - 1
      /\ \A n \in 1..Len(queue') : queue'[n] = queue[n + 1]
  BY <1>1, HeadTailProperties
<1>4. DOMAIN queue' = 1..(Len(queue) - 1)
  BY <1>3, LenProperties
<1>5. \A n \in DOMAIN queue : queue[n] \in QueueItem
  BY <1>1, <1>2, ElementOfSeq
<1>6. \A n \in DOMAIN queue' :
        n + 1 \in DOMAIN queue /\ n + 1 # 1 /\ queue'[n] = queue[n + 1]
  BY <1>2, <1>3, <1>4
<1>7. /\ \A n \in DOMAIN queue : Awaited(queue[n].trid, queue[n].type)
      /\ \A n, m \in DOMAIN queue : queue[m].trid = queue[n].trid => m = n
  BY DEF EngineInv, RequestsServable
<1>8. Head(queue) \in QueueItem /\ Head(queue).trid \in TransactionIds
  BY <1>2, <1>5 DEF QueueItem
<1>9. ASSUME NEW n \in DOMAIN queue'
      PROVE  /\ queue'[n] \in QueueItem
             /\ queue'[n].trid \in TransactionIds \ {Head(queue).trid}
             /\ Awaited(queue'[n].trid, queue'[n].type)
             /\ \A m \in DOMAIN queue' :
                        queue'[m].trid = queue'[n].trid => m = n
  <2>1. /\ queue'[n] \in QueueItem
        /\ Awaited(queue'[n].trid, queue'[n].type)
    BY <1>5, <1>6, <1>7
  <2>2. queue'[n].trid \in TransactionIds \ {Head(queue).trid}
    BY <1>2, <1>6, <1>7, <2>1 DEF QueueItem
  <2>3. ASSUME NEW m \in DOMAIN queue', queue'[m].trid = queue'[n].trid
        PROVE  m = n
    <3>1. m + 1 = n + 1
      BY <1>6, <1>7, <2>3
    <3> QED BY <1>2, <1>4, <3>1
  <2> QED BY <2>1, <2>2, <2>3
<1> QED BY <1>1, <1>2, <1>7, <1>8, <1>9

(* A step that neither logs nor answers a commit keeps what is known of    *)
(* the log and of the acknowledged commits.                                *)
LEMMA HistoryUntouched ==
    ASSUME EngineInv, up, up', pc' # "logged",
           UNCHANGED <<log, delivered, acked>>
    PROVE  /\ LogWellFormed' /\ LastEntryIsItem' /\ AckedLogged'
           /\ AckedSurvives' /\ StoppedIsIdle'
BY DEF EngineInv, LogWellFormed, LogReplayable, LastEntryIsItem, AckedLogged,
       AckedSurvives, StoppedIsIdle

(* An empty queue, a wait and a wake-up change no request.                 *)
LEMMA SafetyIdle ==
    ASSUME EngineInv, FindEmpty \/ Wait \/ WakeUp
    PROVE  EngineInv'
<1> USE DEF memory, loop, wakeup, storage, clients
<1>1. /\ up /\ up' /\ pc \notin {"check", "logged"}
      /\ pc' \notin {"check", "logged"}
      /\ UNCHANGED <<nextTransactId, active, submitted, queue, item, log,
                     delivered, acked>>
  BY DEF FindEmpty, Wait, WakeUp
<1>2. TypeOK'
  BY TypeSubmitSteps DEF EngineInv
<1>3. StateMatchesLog'
  BY <1>1 DEF EngineInv, StateMatchesLog, Completing
<1>4. RequestsServable'
  BY <1>1 DEF EngineInv, RequestsServable, Awaited
<1> QED BY <1>1, <1>2, <1>3, <1>4, HistoryUntouched DEF EngineInv

(* A transaction that is dropped, with no request of it left, leaves the   *)
(* others as they were.  Nothing is said of p_submittedTransactions: its   *)
(* id may stay there.                                                      *)
LEMMA SafetyDrop ==
    ASSUME EngineInv, TypeOK', NEW t \in TransactionIds,
           up, up', pc # "logged", pc' = "process", item' = NoItem,
           active' = [active EXCEPT ![t] = NoTransaction],
           UNCHANGED <<nextTransactId, submitted, log, delivered, acked>>,
           \A n \in DOMAIN queue' :
                /\ queue'[n].trid \in TransactionIds \ {t}
                /\ Awaited(queue'[n].trid, queue'[n].type)
                /\ \A m \in DOMAIN queue' :
                        queue'[m].trid = queue'[n].trid => m = n
    PROVE  EngineInv'
<1>1. active \in [TransactionIds -> Transaction]
  BY DEF EngineInv, TypeOK
<1>2. \A u \in TransactionIds :
        active'[u].state = IF u = t THEN "None" ELSE active[u].state
  BY <1>1 DEF NoTransaction
<1>3. StateMatchesLog'
  BY <1>2 DEF EngineInv, StateMatchesLog, Completing
<1>4. RequestsServable'
  BY <1>2 DEF RequestsServable, Awaited, NoItem, TransactionIds
<1> QED BY <1>3, <1>4, HistoryUntouched DEF EngineInv

(* Taking a submit from the queue, and checking it against the others.     *)
LEMMA SafetyProcessSubmit == ASSUME EngineInv, ProcessSubmit PROVE EngineInv'
<1> DEFINE t == Head(queue).trid
<1> USE DEF memory, loop, wakeup, storage, clients
<1>1. Dequeue({"Submit", "SubmitCommit"})
  BY DEF ProcessSubmit
<1>2. /\ up /\ pc = "process"
      /\ Head(queue) \in QueueItem
      /\ Head(queue).type \in {"Submit", "SubmitCommit"}
      /\ t \in TransactionIds /\ Awaited(t, Head(queue).type)
      /\ \A n \in DOMAIN queue' :
           /\ queue'[n] \in QueueItem
           /\ queue'[n].trid \in TransactionIds \ {t}
           /\ Awaited(queue'[n].trid, queue'[n].type)
           /\ \A m \in DOMAIN queue' : queue'[m].trid = queue'[n].trid => m = n
  BY <1>1, SafetyDequeue
<1>3. TypeOK'
  BY TypeSubmitSteps DEF EngineInv
<1>4. ASSUME NEW error, SubmitFailure(t, error) PROVE EngineInv'
  <2>1. /\ up' /\ pc' = "process" /\ item' = NoItem
        /\ active' = [active EXCEPT ![t] = NoTransaction]
        /\ UNCHANGED <<nextTransactId, submitted, log, delivered, acked>>
    BY <1>2, <1>4 DEF SubmitFailure
  <2> QED BY <1>2, <1>3, <2>1, SafetyDrop
<1>5. CASE /\ pc' = "check" /\ item' = Head(queue)
           /\ UNCHANGED <<up, memory, sequenceId, log, storage, acked,
                          promised, rolledBack>>
  <2>1. StateMatchesLog'
    BY <1>2, <1>5 DEF EngineInv, StateMatchesLog, Completing
  <2>2. RequestsServable'
    BY <1>2, <1>5 DEF RequestsServable, Awaited
  <2> QED BY <1>2, <1>3, <1>5, <2>1, <2>2, HistoryUntouched DEF EngineInv
<1> QED BY <1>4, <1>5 DEF ProcessSubmit

(* Checking one constraint. *)
LEMMA SafetyCheckConstraint == ASSUME EngineInv, CheckConstraint PROVE EngineInv'
<1> USE DEF memory, loop, wakeup, storage, clients
<1>1. up /\ pc = "check" /\ item.trid \in TransactionIds
  BY DEF CheckConstraint, EngineInv, TypeOK, ItemTypeOK, QueueItem
<1>2. TypeOK'
  BY TypeSubmitSteps DEF EngineInv
<1>3. CASE UNCHANGED <<up, memory, wakeup, pc, item, sequenceId, log, storage,
                       clients>>
  <2>1. StateMatchesLog' /\ RequestsServable'
    BY <1>3, StatesUntouched
  <2> QED BY <1>1, <1>2, <1>3, <2>1, HistoryUntouched DEF EngineInv
<1>4. CASE SubmitFailure(item.trid, "ConstraintViolation") /\ UNCHANGED wakeup
  <2>1. /\ up' /\ pc' = "process" /\ item' = NoItem
        /\ active' = [active EXCEPT ![item.trid] = NoTransaction]
        /\ UNCHANGED <<nextTransactId, submitted, log, delivered, acked, queue>>
    BY <1>1, <1>4 DEF SubmitFailure
  <2>2. \A n \in DOMAIN queue : queue[n] \in QueueItem
    BY ElementOfSeq, LenProperties DEF EngineInv, TypeOK
  <2>3. \A n \in DOMAIN queue' :
            /\ queue'[n].trid \in TransactionIds \ {item.trid}
            /\ Awaited(queue'[n].trid, queue'[n].type)
            /\ \A m \in DOMAIN queue' :
                    queue'[m].trid = queue'[n].trid => m = n
    BY <2>1, <2>2 DEF EngineInv, RequestsServable, QueueItem
  <2> QED BY <1>1, <1>2, <2>1, <2>3, SafetyDrop
<1> QED BY <1>3, <1>4 DEF CheckConstraint

(* A further entry does not finish the transactions it does not commit.    *)
LEMMA UnfinishedAppended ==
    ASSUME log \in Seq(LogEntry), NEW entry \in LogEntry,
           log' = Append(log, entry), NEW i \in Unfinished(log),
           \/ entry.type # "Commit"
           \/ entry.transaction_id # log[i].transaction_id
    PROVE  i \in Unfinished(log') /\ log'[i] = log[i]
BY Appended DEF Unfinished

(* A logged entry keeps the invariant when it is the request of the item   *)
(* the closure holds now, and the log stays well formed.                   *)
LEMMA SafetyWriteAhead ==
    ASSUME EngineInv, TypeOK', NEW entry \in LogEntry, WriteAhead(entry),
           LogWellFormed', up, up', pc # "logged",
           entry.type = item'.type, entry.transaction_id = item'.trid,
           entry.type # "Submit" => entry.sequence_id = currentSequenceId + 1,
           active[item'.trid].state # "None",
           Awaited(item'.trid, item'.type),
           \A n \in DOMAIN queue' :
                /\ Awaited(queue'[n].trid, queue'[n].type)
                /\ queue'[n].trid # item'.trid
                /\ \A m \in DOMAIN queue' :
                        queue'[m].trid = queue'[n].trid => m = n,
           UNCHANGED <<nextTransactId, active, submitted, delivered, acked>>
    PROVE  EngineInv'
<1> DEFINE n == Len(log) + 1
<1>0. log \in Seq(LogEntry) /\ log' = Append(log, entry)
  BY DEF EngineInv, TypeOK, WriteAhead
<1>1. /\ DOMAIN log' = (DOMAIN log) \cup {n} /\ log' # <<>> /\ Len(log') = n
      /\ \A i \in DOMAIN log : log'[i] = log[i]
      /\ log'[n] = entry
  BY <1>0, Appended
<1>2. pc' = "logged" /\ sequenceId' = currentSequenceId + 1
  BY DEF WriteAhead
<1>3. LastEntryIsItem'
  BY <1>1, <1>2 DEF LastEntryIsItem
<1>4. IdsOf(log)' = IdsOf(log) \cup {item'.trid}
  BY <1>1 DEF IdsOf
<1>5. StateMatchesLog'
  <2> SUFFICES ASSUME NEW t \in TransactionIds
               PROVE  /\ active[t].state # "None" \/ t \in submitted
                            \/ t \in IdsOf(log)' => t < nextTransactId
                      /\ active[t].state = "Submitted" => t \in submitted
                      /\ t # item'.trid =>
                          /\ active[t].state \in {"Open", "InSubmit"}
                                => t \notin IdsOf(log)'
                          /\ t \in submitted /\ active[t].state # "None" =>
                                \E i \in Unfinished(log') :
                                    log'[i].transaction_id = t
    BY <1>2 DEF StateMatchesLog, Completing
  <2>1. /\ active[t].state # "None" \/ t \in submitted \/ t \in IdsOf(log)
                => t < nextTransactId
        /\ active[t].state = "Submitted" => t \in submitted
        /\ active[t].state \in {"Open", "InSubmit"} => t \notin IdsOf(log)
        /\ t \in submitted /\ active[t].state # "None" =>
                    \E i \in Unfinished(log) : log[i].transaction_id = t
    BY DEF EngineInv, StateMatchesLog, Completing
  <2>2. ASSUME t # item'.trid, t \in submitted, active[t].state # "None"
        PROVE  \E i \in Unfinished(log') : log'[i].transaction_id = t
    <3>1. PICK i \in Unfinished(log) : log[i].transaction_id = t
      BY <2>1, <2>2
    <3> QED BY <1>0, <2>2, <3>1, UnfinishedAppended
  <2> QED BY <1>4, <2>1, <2>2
<1>6. RequestsServable'
  BY <1>2 DEF RequestsServable, Awaited
<1>7. AckedLogged'
  BY <1>1 DEF EngineInv, AckedLogged
<1>8. AckedSurvives' /\ StoppedIsIdle'
  BY DEF EngineInv, AckedSurvives, StoppedIsIdle
<1> QED BY <1>3, <1>5, <1>6, <1>7, <1>8 DEF EngineInv

(* Logging a submit whose constraints hold. *)
LEMMA SafetyLogSubmit == ASSUME EngineInv, LogSubmit PROVE EngineInv'
<1> DEFINE entry == [type |-> item.type, transaction_id |-> item.trid,
                     sequence_id |-> IF item.type = "SubmitCommit"
                                     THEN currentSequenceId + 1 ELSE 0,
                     mutations |-> active[item.trid].mutations]
<1> USE DEF memory, loop, wakeup, storage, clients
<1>1. /\ up /\ up' /\ pc = "check" /\ WriteAhead(entry)
      /\ UNCHANGED <<nextTransactId, active, submitted, queue, item, delivered,
                     acked>>
  BY DEF LogSubmit
<1>2. /\ item \in QueueItem /\ item.type \in {"Submit", "SubmitCommit"}
      /\ item.trid \in TransactionIds
  BY <1>1 DEF EngineInv, TypeOK, ItemTypeOK, QueueItem
<1>3. TypeOK'
  BY TypeSubmitSteps DEF EngineInv
<1>4. entry \in LogEntry
  <2>1. active[item.trid].mutations \in Seq(Mutation)
    BY <1>2 DEF EngineInv, TypeOK, Transaction
  <2> QED BY <1>2, <2>1 DEF LogEntry, EngineInv, TypeOK
<1>5. Awaited(item.trid, item.type)
  BY <1>1 DEF EngineInv, RequestsServable
<1>6. active[item.trid].state = "InSubmit"
  BY <1>2, <1>5 DEF Awaited
<1>7. item.trid \notin IdsOf(log)
  BY <1>1, <1>2, <1>6 DEF EngineInv, StateMatchesLog, Completing
<1>8. LogWellFormed'
  BY <1>1, <1>2, <1>4, <1>7, AppendSubmitWellFormed
     DEF EngineInv, TypeOK, WriteAhead
<1>9. \A n \in DOMAIN queue' :
        /\ Awaited(queue'[n].trid, queue'[n].type)
        /\ queue'[n].trid # item'.trid
        /\ \A m \in DOMAIN queue' : queue'[m].trid = queue'[n].trid => m = n
  BY <1>1 DEF EngineInv, RequestsServable
<1>10. entry.type # "Submit" => entry.sequence_id = currentSequenceId + 1
  BY <1>2
<1> HIDE DEF entry
<1>11. entry.type = item'.type /\ entry.transaction_id = item'.trid
  BY <1>1 DEF entry
<1> QED BY <1>1, <1>3, <1>4, <1>5, <1>6, <1>8, <1>9, <1>10, <1>11,
           SafetyWriteAhead

(* Logging the commit of a submitted transaction. *)
LEMMA SafetyProcessCommit == ASSUME EngineInv, ProcessCommit PROVE EngineInv'
<1> DEFINE t == Head(queue).trid
           entry == [type |-> "Commit", transaction_id |-> t,
                     sequence_id |-> currentSequenceId + 1, mutations |-> <<>>]
<1> USE DEF memory, loop, wakeup, storage, clients
<1>1. /\ Dequeue({"Commit"}) /\ WriteAhead(entry) /\ item' = Head(queue)
      /\ up' = up
      /\ UNCHANGED <<nextTransactId, active, submitted, delivered, acked>>
  BY DEF ProcessCommit
<1>2. /\ up /\ pc = "process" /\ Head(queue) \in QueueItem
      /\ Head(queue).type = "Commit" /\ t \in TransactionIds
      /\ Awaited(t, "Commit")
      /\ \A n \in DOMAIN queue' :
           /\ queue'[n].trid \in TransactionIds \ {t}
           /\ Awaited(queue'[n].trid, queue'[n].type)
           /\ \A m \in DOMAIN queue' : queue'[m].trid = queue'[n].trid => m = n
  BY <1>1, SafetyDequeue
<1>3. TypeOK'
  BY TypeCommitSteps DEF EngineInv
<1>4. entry \in LogEntry
  BY <1>2, EmptySeq DEF LogEntry, EngineInv, TypeOK
<1>5. active[t].state = "InCommitOrRollback" /\ t \in submitted
  BY <1>2 DEF Awaited
<1>6. PICK u \in Unfinished(log) : log[u].transaction_id = t
  BY <1>2, <1>5 DEF EngineInv, StateMatchesLog, Completing
<1>7. LogWellFormed'
  BY <1>1, <1>4, <1>6, AppendCommitWellFormed DEF EngineInv, TypeOK, WriteAhead
<1>8. /\ entry.type = item'.type /\ entry.transaction_id = item'.trid
      /\ entry.sequence_id = currentSequenceId + 1
  BY <1>1, <1>2
<1> HIDE DEF entry
<1> QED BY <1>1, <1>2, <1>3, <1>4, <1>5, <1>7, <1>8, SafetyWriteAhead

(* What the closure has logged is the last entry of the log.               *)
LEMMA LastEntry ==
    ASSUME EngineInv, pc = "logged"
    PROVE  LET n == Len(log) IN
           /\ n \in DOMAIN log /\ \A i \in DOMAIN log : i \in Nat /\ i <= n
           /\ log[n].type = item.type /\ log[n].transaction_id = item.trid
           /\ item.type # "Submit" => log[n].sequence_id = sequenceId
           /\ item.type \in {"Submit", "SubmitCommit", "Commit"}
           /\ item.trid \in TransactionIds
           /\ Awaited(item.trid, item.type)
<1>1. log \in Seq(LogEntry) /\ log # <<>>
  BY DEF EngineInv, TypeOK, LastEntryIsItem
<1>2. Len(log) \in Nat \ {0} /\ DOMAIN log = 1..Len(log)
  BY <1>1, EmptySeq, LenProperties
<1>3. item \in QueueItem /\ item.type \in {"Submit", "SubmitCommit", "Commit"}
  BY DEF EngineInv, TypeOK, ItemTypeOK
<1>4. Awaited(item.trid, item.type)
  BY DEF EngineInv, RequestsServable
<1> QED BY <1>2, <1>3, <1>4 DEF EngineInv, LastEntryIsItem, QueueItem

(* A submitted transaction joins the submitted ones. *)
LEMMA SafetySubmitComplete == ASSUME EngineInv, SubmitComplete PROVE EngineInv'
<1> DEFINE t == item.trid
           n == Len(log)
<1> USE DEF memory, loop, wakeup, storage, clients
<1>1. /\ up /\ up' /\ pc = "logged" /\ item.type = "Submit"
      /\ pc' = "process" /\ item' = NoItem
      /\ submitted' = submitted \cup {t}
      /\ active' = [active EXCEPT ![t].state = "Submitted"]
      /\ UNCHANGED <<nextTransactId, queue, log, delivered, acked>>
  BY DEF SubmitComplete
<1>2. /\ n \in DOMAIN log /\ \A i \in DOMAIN log : i \in Nat /\ i <= n
      /\ log[n].type = "Submit" /\ log[n].transaction_id = t
      /\ t \in TransactionIds /\ Awaited(t, "Submit")
  BY <1>1, LastEntry
<1>3. TypeOK'
  BY TypeCommitSteps DEF EngineInv
<1>4. active \in [TransactionIds -> Transaction]
  BY DEF EngineInv, TypeOK
<1>5. \A u \in TransactionIds :
        active'[u].state = IF u = t THEN "Submitted" ELSE active[u].state
  BY <1>1, <1>4 DEF Transaction
<1>6. n \in Unfinished(log)
  <2> SUFFICES ASSUME NEW k \in DOMAIN log, log[k].type = "Commit",
                      log[k].transaction_id = t
               PROVE  FALSE
    BY <1>2 DEF Unfinished
  <2>1. PICK j \in DOMAIN log : OpenedBy(log, j, k)
    BY DEF EngineInv, LogWellFormed, LogReplayable, Replayable
  <2>2. j = n
    BY <1>2, <2>1 DEF EngineInv, LogWellFormed, OpenedBy
  <2> QED BY <1>2, <2>1, <2>2 DEF OpenedBy
<1>7. StateMatchesLog'
  <2> SUFFICES ASSUME NEW u \in TransactionIds
               PROVE  /\ active'[u].state # "None" \/ u \in submitted'
                            \/ u \in IdsOf(log) => u < nextTransactId
                      /\ active'[u].state = "Submitted" => u \in submitted'
                      /\ active'[u].state \in {"Open", "InSubmit"}
                            => u \notin IdsOf(log)
                      /\ u \in submitted' /\ active'[u].state # "None" =>
                            \E i \in Unfinished(log) : log[i].transaction_id = u
    BY <1>1 DEF StateMatchesLog
  <2>1. CASE u = t
    <3>1. t \in IdsOf(log)
      BY <1>2 DEF IdsOf
    <3> QED BY <1>1, <1>2, <1>5, <1>6, <2>1, <3>1 DEF EngineInv, StateMatchesLog
  <2>2. CASE u # t
    BY <1>1, <1>5, <2>2 DEF EngineInv, StateMatchesLog, Completing
  <2> QED BY <2>1, <2>2
<1>8. \A m \in DOMAIN queue : queue[m] \in QueueItem
  BY ElementOfSeq, LenProperties DEF EngineInv, TypeOK
<1>9. RequestsServable'
  BY <1>1, <1>5, <1>8
     DEF EngineInv, RequestsServable, Awaited, QueueItem, NoItem, TransactionIds
<1> QED BY <1>1, <1>3, <1>7, <1>9, HistoryUntouched DEF EngineInv

(* A committed transaction leaves, delivered and acknowledged.             *)
LEMMA SafetyCommitComplete == ASSUME EngineInv, CommitComplete PROVE EngineInv'
<1> DEFINE t == item.trid
           n == Len(log)
<1> USE DEF memory, loop, wakeup, storage, clients
<1>1. /\ up /\ up' /\ pc = "logged" /\ item.type \in {"Commit", "SubmitCommit"}
      /\ pc' = "process" /\ item' = NoItem
      /\ submitted' = submitted \ {t}
      /\ active' = [active EXCEPT ![t] = NoTransaction]
      /\ delivered' = delivered \cup
            {[transaction_id |-> t, sequence_id |-> sequenceId,
              mutations |-> active[t].mutations]}
      /\ acked' = acked \cup {[transaction_id |-> t, sequence_id |-> sequenceId]}
      /\ UNCHANGED <<nextTransactId, queue, log>>
  BY DEF CommitComplete
<1>2. /\ n \in DOMAIN log /\ IsCommit(log[n]) /\ log[n].transaction_id = t
      /\ log[n].sequence_id = sequenceId /\ t \in TransactionIds
  BY <1>1, LastEntry DEF IsCommit
<1>3. TypeOK'
  BY TypeCommitSteps DEF EngineInv
<1>4. active \in [TransactionIds -> Transaction]
  BY DEF EngineInv, TypeOK
<1>5. \A u \in TransactionIds :
        active'[u].state = IF u = t THEN "None" ELSE active[u].state
  BY <1>1, <1>4 DEF NoTransaction
<1>6. StateMatchesLog'
  BY <1>1, <1>5 DEF EngineInv, StateMatchesLog, Completing
<1>7. \A m \in DOMAIN queue : queue[m] \in QueueItem
  BY ElementOfSeq, LenProperties DEF EngineInv, TypeOK
<1>8. RequestsServable'
  BY <1>1, <1>5, <1>7
     DEF EngineInv, RequestsServable, Awaited, QueueItem, NoItem, TransactionIds
<1> DEFINE new == [transaction_id |-> t, sequence_id |-> sequenceId]
<1>9. AckedLogged' /\ AckedSurvives'
  <2>1. AckedLogged'
    <3> SUFFICES ASSUME NEW a \in acked'
                 PROVE  \E i \in DOMAIN log : /\ IsCommit(log[i])
                            /\ log[i].transaction_id = a.transaction_id
                            /\ log[i].sequence_id = a.sequence_id
      BY <1>1 DEF AckedLogged
    <3>1. CASE a \in acked
      BY <3>1 DEF EngineInv, AckedLogged
    <3>2. CASE a = new
      BY <1>2, <3>2
    <3> QED BY <1>1, <3>1, <3>2
  <2>2. AckedSurvives'
    <3> SUFFICES ASSUME NEW a \in acked'
                 PROVE  \E c \in delivered' :
                            /\ c.transaction_id = a.transaction_id
                            /\ c.sequence_id = a.sequence_id
      BY DEF AckedSurvives
    <3>1. CASE a \in acked
      BY <1>1, <3>1 DEF EngineInv, AckedSurvives
    <3>2. CASE a = new
      <4> DEFINE d == [transaction_id |-> t, sequence_id |-> sequenceId,
                       mutations |-> active[t].mutations]
      <4>1. d \in delivered'
        BY <1>1
      <4>2. /\ d.transaction_id = a.transaction_id
            /\ d.sequence_id = a.sequence_id
        BY <3>2
      <4> HIDE DEF d
      <4> QED BY <4>1, <4>2
    <3> QED BY <1>1, <3>1, <3>2
  <2> QED BY <2>1, <2>2
<1>10. LogWellFormed' /\ LastEntryIsItem' /\ StoppedIsIdle'
  BY <1>1 DEF EngineInv, LogWellFormed, LogReplayable, LastEntryIsItem,
              StoppedIsIdle
<1> QED BY <1>3, <1>6, <1>8, <1>9, <1>10 DEF EngineInv

(* A rolled back transaction leaves; its id is not taken from the list.    *)
LEMMA SafetyProcessRollback == ASSUME EngineInv, ProcessRollback PROVE EngineInv'
<1> DEFINE t == Head(queue).trid
<1> USE DEF memory, loop, wakeup, storage, clients
<1>1. /\ Dequeue({"Rollback"})
      /\ active' = [active EXCEPT ![t] = NoTransaction]
      /\ submitted' = IF active[t].state = "Submitted" THEN submitted \ {t}
                      ELSE submitted
      /\ UNCHANGED <<up, nextTransactId, pc, item, log, delivered, acked>>
  BY DEF ProcessRollback
<1>2. /\ up /\ pc = "process" /\ Head(queue).type = "Rollback"
      /\ t \in TransactionIds /\ Awaited(t, "Rollback")
      /\ \A n \in DOMAIN queue' :
           /\ queue'[n].trid \in TransactionIds \ {t}
           /\ Awaited(queue'[n].trid, queue'[n].type)
           /\ \A m \in DOMAIN queue' : queue'[m].trid = queue'[n].trid => m = n
  BY <1>1, SafetyDequeue
<1>3. submitted' = submitted
  BY <1>1, <1>2 DEF Awaited
<1>4. item = NoItem
  BY <1>2 DEF EngineInv, TypeOK, ItemTypeOK
<1>5. TypeOK'
  BY TypeCommitSteps DEF EngineInv
<1> QED BY <1>1, <1>2, <1>3, <1>4, <1>5, SafetyDrop
------------------------------------------------------------------------------
(* The end of the process, the storages, a new start *)

(* The end of the process leaves a log and no requests.                    *)
LEMMA SafetyStop == ASSUME EngineInv, Stop PROVE EngineInv'
<1>1. /\ ~ up' /\ queue' = <<>> /\ pc' = "process" /\ item' = NoItem
      /\ UNCHANGED <<log, acked>>
  BY DEF Stop
<1>2. TypeOK'
  BY TypeStop DEF EngineInv
<1>3. RequestsServable'
  BY <1>1 DEF RequestsServable
<1>4. StateMatchesLog' /\ AckedSurvives'
  BY <1>1 DEF StateMatchesLog, AckedSurvives
<1>5. LogWellFormed' /\ LastEntryIsItem' /\ AckedLogged' /\ StoppedIsIdle'
  BY <1>1 DEF EngineInv, LogWellFormed, LogReplayable, LastEntryIsItem,
              AckedLogged, StoppedIsIdle
<1> QED BY <1>2, <1>3, <1>4, <1>5 DEF EngineInv

(* A storage that applies a commit changes nothing the invariant is about. *)
LEMMA SafetyStorageApply ==
    ASSUME EngineInv, NEW s \in Storages, StorageApply(s)
    PROVE  EngineInv'
<1>1. UNCHANGED <<up, memory, wakeup, loop, log, delivered, clients>>
  BY DEF StorageApply
<1>2. TypeOK'
  BY TypeStorageApply DEF EngineInv
<1> QED BY <1>1, <1>2
        DEF EngineInv, LogWellFormed, LogReplayable, LastEntryIsItem,
            StateMatchesLog, Completing, RequestsServable, Awaited,
            StoppedIsIdle, AckedLogged, AckedSurvives, memory, wakeup, loop,
            clients

(* What a replay finds open is submitted again; all that was committed,    *)
(* and so all that was acknowledged, is delivered again.                   *)
LEMMA SafetyRestart == ASSUME EngineInv, Restart PROVE EngineInv'
<1>1. /\ up' /\ queue = <<>> /\ pc = "process" /\ item = NoItem
      /\ UNCHANGED <<queue, pc, item, log, acked>>
  BY DEF Restart, EngineInv, StoppedIsIdle, TypeOK, ItemTypeOK, wakeup, loop,
         clients
<1>2. log \in Seq(LogEntry) /\ LogWellFormed
  BY DEF EngineInv, TypeOK
<1>3. TypeOK'
  BY TypeRestart DEF EngineInv
<1>4. LogWellFormed' /\ LastEntryIsItem' /\ AckedLogged' /\ StoppedIsIdle'
  BY <1>1 DEF EngineInv, LogWellFormed, LogReplayable, LastEntryIsItem,
              AckedLogged, StoppedIsIdle
<1>5. RequestsServable'
  BY <1>1 DEF RequestsServable
<1>6. AckedSurvives'
  <2> SUFFICES ASSUME NEW a \in acked
               PROVE  \E c \in delivered' :
                        /\ c.transaction_id = a.transaction_id
                        /\ c.sequence_id = a.sequence_id
    BY <1>1 DEF AckedSurvives
  <2>1. PICK i \in DOMAIN log : /\ IsCommit(log[i])
                                /\ log[i].transaction_id = a.transaction_id
                                /\ log[i].sequence_id = a.sequence_id
    BY DEF EngineInv, AckedLogged
  <2> DEFINE c == [transaction_id |-> log[i].transaction_id,
                   sequence_id |-> log[i].sequence_id,
                   mutations |-> CommitMutations(log, i)]
  <2>2. c \in CommitsOf(log)
    BY <2>1 DEF CommitsOf
  <2>3. [c EXCEPT !.mutations = AsReplayed(@)] \in delivered'
    BY <2>2 DEF Restart
  <2> QED BY <2>1, <2>3
<1>7. \A t \in IdsOf(log) : t < nextTransactId'
  <2>1. ASSUME NEW i \in DOMAIN log
        PROVE  log[i].transaction_id \in TransactionIdsOf(log)
    <3>1. CASE log[i].type # "Commit"
      BY <3>1 DEF TransactionIdsOf
    <3>2. CASE log[i].type = "Commit"
      <4>1. PICK j \in DOMAIN log : OpenedBy(log, j, i)
        BY <1>2, <3>2 DEF LogWellFormed, LogReplayable, Replayable
      <4> QED BY <4>1 DEF TransactionIdsOf, OpenedBy
    <3> QED BY <3>1, <3>2
  <2>2. TransactionIdsOf(log) \subseteq TransactionIds
    BY <1>2, LogEntryType DEF TransactionIdsOf, LogEntry
  <2>3. PICK n \in {0} \cup TransactionIdsOf(log) :
            /\ \A m \in TransactionIdsOf(log) : m <= n
            /\ nextTransactId' = n + 1
    BY DEF Restart, IsLargest
  <2> QED BY <2>1, <2>2, <2>3 DEF IdsOf, TransactionIds
<1>8. StateMatchesLog'
  <2>1. submitted' = {p.transaction_id : p \in PreparedOf(log)}
    BY DEF Restart
  <2>2. \A t \in TransactionIds :
            active'[t].state = IF t \in submitted' THEN "Submitted" ELSE "None"
    BY <2>1 DEF Restart, NoTransaction
  <2>3. \A t \in submitted' :
            \E i \in Unfinished(log) : log[i].transaction_id = t
    BY <2>1 DEF PreparedOf
  <2>4. submitted' \subseteq IdsOf(log)
    BY <2>3 DEF IdsOf, Unfinished
  <2> QED BY <1>1, <1>7, <2>2, <2>3, <2>4 DEF StateMatchesLog
<1> QED BY <1>3, <1>4, <1>5, <1>6, <1>8 DEF EngineInv
------------------------------------------------------------------------------
(* The first state satisfies the invariant.                                *)
LEMMA SafetyInit == Init => EngineInv
<1> SUFFICES ASSUME Init PROVE EngineInv
  OBVIOUS
<1>1. /\ log = <<>> /\ queue = <<>> /\ pc = "process" /\ item = NoItem
      /\ submitted = {} /\ acked = {}
      /\ \A t \in TransactionIds : active[t].state = "None"
  BY DEF Init, NoTransaction
<1>2. DOMAIN log = {} /\ DOMAIN queue = {}
  BY <1>1
<1>3. StateMatchesLog
  BY <1>1, <1>2 DEF StateMatchesLog, IdsOf
<1> QED BY <1>1, <1>2, <1>3, TypeInit
        DEF EngineInv, LogWellFormed, LogReplayable, Replayable,
            LastEntryIsItem, RequestsServable, StoppedIsIdle, AckedLogged,
            AckedSurvives

(* No step breaks it. *)
LEMMA SafetyNext == ASSUME EngineInv, [Next]_vars PROVE EngineInv'
<1>1. CASE Client \/ Signal
  BY <1>1, SafetyClient
<1>2. CASE Loop
  BY <1>2, SafetyIdle, SafetyProcessSubmit, SafetyStop, SafetyLogSubmit,
     SafetySubmitComplete, SafetyProcessCommit, SafetyCommitComplete,
     SafetyProcessRollback
     DEF Loop, ProcessSubmitThrows
<1>3. CASE CheckConstraint
  BY <1>3, SafetyCheckConstraint
<1>4. CASE \E s \in Storages : StorageApply(s)
  BY <1>4, SafetyStorageApply
<1>5. CASE Crash \/ Restart
  BY <1>5, SafetyStop, SafetyRestart DEF Crash
<1>6. CASE UNCHANGED vars
  <2>1. TypeOK'
    BY TypeNext DEF EngineInv
  <2> QED BY <1>6, <2>1
        DEF EngineInv, LogWellFormed, LogReplayable, LastEntryIsItem,
            StateMatchesLog, Completing, RequestsServable, Awaited,
            StoppedIsIdle, AckedLogged, AckedSurvives, vars, memory, wakeup,
            loop, storage, clients
<1> QED BY <1>1, <1>2, <1>3, <1>4, <1>5, <1>6 DEF Next

(* The inductive invariant holds in every reachable state of the engine.   *)
THEOREM Safety == Spec => []EngineInv
BY SafetyInit, SafetyNext, PTL DEF Spec

(* Every log the engine writes can be replayed: loadConfig never throws    *)
(* on a Commit without a Submit.                                           *)
THEOREM LogAlwaysReplayable == Spec => []LogReplayable
<1>1. EngineInv => LogReplayable
  BY DEF EngineInv, LogWellFormed
<1> QED BY <1>1, Safety, PTL

(* The closure finds every transaction it serves in the state it expects,  *)
(* so that a commit() of a submitted transaction cannot fail.              *)
THEOREM RequestsAlwaysServable == Spec => []RequestsServable
<1>1. EngineInv => RequestsServable
  BY DEF EngineInv
<1> QED BY <1>1, Safety, PTL

(* A commit a client was told of survives every crash and restart.         *)
THEOREM AckedAlwaysSurvives == Spec => []AckedSurvives
<1>1. EngineInv => AckedSurvives
  BY DEF EngineInv
<1> QED BY <1>1, Safety, PTL
------------------------------------------------------------------------------
(* What the log says: the engine implements CommitHistory, the storages    *)
(* are handed what the log commits, promises are kept, submitted           *)
(* transactions are compatible and documents are inserted once.  EngineInv *)
(* and LogInv together are inductive.                                      *)

(* The types a proof needs over and over.                                  *)
LEMMA Typed ==
    ASSUME TypeOK
    PROVE  /\ log \in Seq(LogEntry) /\ \A i \in DOMAIN log : log[i] \in LogEntry
           /\ DOMAIN log = 1..Len(log) /\ Len(log) \in Nat
           /\ active \in [TransactionIds -> Transaction]
           /\ \A t \in TransactionIds :
                /\ active[t].mutations \in Seq(Mutation)
                /\ active[t].constraints \in Seq(Constraint)
           /\ \A n \in DOMAIN queue : queue[n] \in QueueItem
           /\ currentSequenceId \in Nat
<1>1. log \in Seq(LogEntry) /\ active \in [TransactionIds -> Transaction]
      /\ currentSequenceId \in Nat /\ queue \in Seq(QueueItem)
  BY DEF TypeOK
<1>2. \A n \in DOMAIN queue : queue[n] \in QueueItem
  BY <1>1, ElementOfSeq, LenProperties
<1> QED BY <1>1, <1>2, LogEntryType, LenProperties DEF Transaction

(* A commit follows one submit only, whose mutations are its own.          *)
LEMMA CommitOf ==
    ASSUME NEW l, Replayable(l),
           \A i, j \in DOMAIN l :
                /\ l[i].transaction_id = l[j].transaction_id
                /\ (l[i].type = "Commit") = (l[j].type = "Commit")
                => i = j,
           NEW j \in DOMAIN l, NEW k \in DOMAIN l,
           l[j].type # "Commit", l[k].type = "Commit",
           l[j].transaction_id = l[k].transaction_id
    PROVE  /\ l[j].type = "Submit" /\ j < k
           /\ CommitMutations(l, k) = l[j].mutations
<1>1. \E o \in DOMAIN l : OpenedBy(l, o, k)
  BY DEF Replayable
<1>2. \A o \in DOMAIN l : OpenedBy(l, o, k) => o = j
  BY DEF OpenedBy
<1>3. OpenedBy(l, j, k)
  BY <1>1, <1>2
<1>4. (CHOOSE o \in DOMAIN l : OpenedBy(l, o, k)) = j
  BY <1>1, <1>2
<1> QED BY <1>3, <1>4 DEF OpenedBy, CommitMutations

(* The same of the log of the engine.                                     *)
LEMMA CommitOfSubmit ==
    ASSUME EngineInv, NEW j \in DOMAIN log, NEW k \in DOMAIN log,
           log[j].type # "Commit", log[k].type = "Commit",
           log[j].transaction_id = log[k].transaction_id
    PROVE  /\ log[j].type = "Submit" /\ j < k
           /\ CommitMutations(log, k) = log[j].mutations
BY CommitOf DEF EngineInv, LogWellFormed, LogReplayable

(* Each commit of a log that can be replayed has a submit.                 *)
LEMMA SubmitOfCommit ==
    ASSUME EngineInv, NEW k \in DOMAIN log, log[k].type = "Commit"
    PROVE  \E j \in DOMAIN log :
                /\ log[j].type = "Submit" /\ j < k
                /\ log[j].transaction_id = log[k].transaction_id
                /\ CommitMutations(log, k) = log[j].mutations
<1>1. PICK j \in DOMAIN log : OpenedBy(log, j, k)
  BY DEF EngineInv, LogWellFormed, LogReplayable, Replayable
<1> QED BY <1>1, CommitOfSubmit DEF OpenedBy

(* A commit as the abstract history has it.                                *)
CommitAt(l, i) == [transaction_id |-> l[i].transaction_id,
                   sequence_id |-> l[i].sequence_id,
                   mutations |-> CommitMutations(l, i)]

CommitIndices(l) == {i \in DOMAIN l : IsCommit(l[i])}

(* The commits of a log are those at its commit entries.                  *)
LEMMA CommitsAt == \A l : CommitsOf(l) = {CommitAt(l, i) : i \in CommitIndices(l)}
BY DEF CommitsOf, CommitAt, CommitIndices

(* What a step that logs an entry changes about the log's content.         *)
LEMMA CommitsAppended ==
    ASSUME EngineInv, EngineInv', NEW entry \in LogEntry, log' = Append(log, entry)
    PROVE  LET n == Len(log) + 1 IN
           /\ DOMAIN log' = DOMAIN log \cup {n} /\ n \notin DOMAIN log /\ n \in Nat
           /\ \A i \in DOMAIN log : log'[i] = log[i] /\ i \in Nat /\ i < n
           /\ log'[n] = entry
           /\ \A i \in CommitIndices(log) :
                CommitMutations(log', i) = CommitMutations(log, i)
           /\ CommitIndices(log') =
                CommitIndices(log) \cup (IF IsCommit(entry) THEN {n} ELSE {})
           /\ CommitsOf(log') = CommitsOf(log) \cup
                (IF IsCommit(entry) THEN {CommitAt(log', n)} ELSE {})
<1> DEFINE n == Len(log) + 1
<1>1. log \in Seq(LogEntry)
  BY DEF EngineInv, TypeOK
<1>2. /\ DOMAIN log' = DOMAIN log \cup {n} /\ n \notin DOMAIN log /\ n \in Nat
      /\ \A i \in DOMAIN log : log'[i] = log[i] /\ i \in Nat /\ i < n
      /\ log'[n] = entry
  BY <1>1, Appended
<1> HIDE DEF n
<1>3. ASSUME NEW i \in CommitIndices(log)
      PROVE  CommitMutations(log', i) = CommitMutations(log, i)
  <2>1. i \in DOMAIN log /\ i \in DOMAIN log' /\ IsCommit(log[i]) /\ log'[i] = log[i]
    BY <1>2, <1>3 DEF CommitIndices
  <2>2. CASE log[i].type = "SubmitCommit"
    BY <2>1, <2>2 DEF CommitMutations
  <2>3. CASE log[i].type = "Commit"
    <3>1. PICK j \in DOMAIN log :
              /\ log[j].type = "Submit" /\ CommitMutations(log, i) = log[j].mutations
              /\ log[j].transaction_id = log[i].transaction_id
      BY <2>1, <2>3, SubmitOfCommit
    <3>2. j \in DOMAIN log' /\ log'[j] = log[j]
      BY <1>2
    <3>3. CommitMutations(log', i) = log'[j].mutations
      <4>1. LogWellFormed'
        BY DEF EngineInv
      <4>2. /\ Replayable(log')
            /\ \A g, h \in DOMAIN log' :
                    /\ log'[g].transaction_id = log'[h].transaction_id
                    /\ (log'[g].type = "Commit") = (log'[h].type = "Commit")
                    => g = h
        BY <4>1 DEF LogWellFormed, LogReplayable
      <4>3. /\ log'[j].type # "Commit" /\ log'[i].type = "Commit"
            /\ log'[j].transaction_id = log'[i].transaction_id
        BY <2>1, <2>3, <3>1, <3>2
      <4> QED BY <2>1, <3>2, <4>2, <4>3, CommitOf
    <3> QED BY <3>1, <3>2, <3>3
  <2> QED BY <2>1, <2>2, <2>3 DEF IsCommit
<1>4. CommitIndices(log') =
          CommitIndices(log) \cup (IF IsCommit(entry) THEN {n} ELSE {})
  BY <1>2 DEF CommitIndices
<1>5. \A i \in CommitIndices(log) : CommitAt(log', i) = CommitAt(log, i)
  BY <1>2, <1>3 DEF CommitAt, CommitIndices
<1>6. CommitsOf(log') = CommitsOf(log) \cup
          (IF IsCommit(entry) THEN {CommitAt(log', n)} ELSE {})
  BY <1>4, <1>5, CommitsAt
<1> QED BY <1>2, <1>3, <1>4, <1>6 DEF n
------------------------------------------------------------------------------
(* The engine implements CommitHistory                                     *)

(* What logging a request adds: an entry of the item, for a transaction    *)
(* that waits for it.                                                      *)
LEMMA Logging ==
    ASSUME EngineInv, LogSubmit \/ ProcessCommit
    PROVE  \E entry \in LogEntry :
            /\ up /\ log' = Append(log, entry)
            /\ entry.type = item'.type /\ entry.transaction_id = item'.trid
            /\ item'.trid \in TransactionIds
            /\ active' = active /\ submitted' = submitted
            /\ pc # "logged" /\ pc' = "logged"
            /\ currentSequenceId' = currentSequenceId + 1
            /\ sequenceId' = currentSequenceId + 1
            /\ IsCommit(entry) => entry.sequence_id = currentSequenceId + 1
            /\ \/ /\ LogSubmit /\ item' = item /\ pc = "check" /\ queue' = queue
                  /\ entry.type \in {"Submit", "SubmitCommit"}
                  /\ item.trid \notin IdsOf(log)
                  /\ active[item.trid].state = "InSubmit"
                  /\ entry.mutations = active[item.trid].mutations
               \/ /\ ProcessCommit /\ entry.type = "Commit" /\ pc = "process"
                  /\ entry.mutations = <<>>
                  /\ item'.trid \in submitted
                  /\ active[item'.trid].state = "InCommitOrRollback"
                  /\ \E u \in Unfinished(log) : log[u].transaction_id = item'.trid
<1>1. CASE LogSubmit
  <2> DEFINE entry == [type |-> item.type, transaction_id |-> item.trid,
                       sequence_id |-> IF item.type = "SubmitCommit"
                                       THEN currentSequenceId + 1 ELSE 0,
                       mutations |-> active[item.trid].mutations]
  <2>1. /\ up /\ pc = "check" /\ WriteAhead(entry) /\ item' = item /\ queue' = queue
        /\ active' = active /\ submitted' = submitted
    BY <1>1 DEF LogSubmit, wakeup
  <2>2. /\ item \in QueueItem /\ item.type \in {"Submit", "SubmitCommit"}
        /\ item.trid \in TransactionIds
    BY <2>1 DEF EngineInv, TypeOK, ItemTypeOK, QueueItem
  <2>3. entry \in LogEntry
    BY <2>2, Typed DEF LogEntry, EngineInv
  <2>4. active[item.trid].state = "InSubmit"
    BY <2>1, <2>2 DEF EngineInv, RequestsServable, Awaited
  <2>5. item.trid \notin IdsOf(log)
    BY <2>1, <2>2, <2>4 DEF EngineInv, StateMatchesLog, Completing
  <2>6. /\ entry.type = item.type /\ entry.transaction_id = item.trid
        /\ entry.mutations = active[item.trid].mutations
        /\ IsCommit(entry) => entry.sequence_id = currentSequenceId + 1
    BY <2>2 DEF IsCommit
  <2> HIDE DEF entry
  <2> QED BY <1>1, <2>1, <2>2, <2>3, <2>4, <2>5, <2>6 DEF WriteAhead
<1>2. CASE ProcessCommit
  <2> DEFINE t == Head(queue).trid
             entry == [type |-> "Commit", transaction_id |-> t,
                       sequence_id |-> currentSequenceId + 1, mutations |-> <<>>]
  <2>1. /\ Dequeue({"Commit"}) /\ WriteAhead(entry) /\ item' = Head(queue)
        /\ active' = active /\ submitted' = submitted
    BY <1>2 DEF ProcessCommit
  <2>2. /\ up /\ pc = "process" /\ Head(queue) \in QueueItem
        /\ Head(queue).type = "Commit" /\ t \in TransactionIds
        /\ Awaited(t, "Commit")
    BY <2>1, SafetyDequeue
  <2>3. entry \in LogEntry
    BY <2>2, EmptySeq, Typed DEF LogEntry, EngineInv
  <2>4. active[t].state = "InCommitOrRollback" /\ t \in submitted
    BY <2>2 DEF Awaited
  <2>5. \E u \in Unfinished(log) : log[u].transaction_id = t
    BY <2>2, <2>4 DEF EngineInv, StateMatchesLog, Completing
  <2>6. /\ entry.type = "Commit" /\ entry.transaction_id = t
        /\ entry.mutations = <<>> /\ entry.sequence_id = currentSequenceId + 1
    OBVIOUS
  <2> HIDE DEF entry
  <2> QED BY <1>2, <2>1, <2>2, <2>3, <2>4, <2>5, <2>6 DEF WriteAhead
<1> QED BY <1>1, <1>2

(* Which steps write the log, and which ones acknowledge.                  *)
LEMMA WhoLogs ==
    ASSUME EngineInv, [Next]_vars
    PROVE  \/ LogSubmit \/ ProcessCommit \/ CommitComplete
           \/ log' = log /\ acked' = acked
<1> USE DEF memory, loop, wakeup, storage, clients
<1>1. CASE Client \/ Signal
  BY <1>1 DEF Client, UpdateMutation, BeginTransaction, UpdateMutationInsert,
         UpdateMutationModify, AddMutation, UpdateConstraint, Submit,
         SubmitCommit, Commit, Rollback, Enqueue, Signal
<1>2. CASE Loop
  BY <1>2 DEF Loop, FindEmpty, Wait, WakeUp, ProcessSubmit, SubmitFailure,
         ProcessSubmitThrows, Stop, SubmitComplete, ProcessRollback
<1>3. CASE CheckConstraint \/ \E s \in Storages : StorageApply(s)
  BY <1>3 DEF CheckConstraint, SubmitFailure, StorageApply
<1>4. CASE Crash \/ Restart
  BY <1>4 DEF Crash, Stop, Restart
<1>5. CASE UNCHANGED vars
  BY <1>5 DEF vars
<1> QED BY <1>1, <1>2, <1>3, <1>4, <1>5 DEF Next

(* The commits in the log are in the order of their sequence ids.          *)
LEMMA OrderKept ==
    ASSUME EngineInv, CommitsOrdered, [Next]_vars
    PROVE  CommitsOrdered'
<1>1. CASE LogSubmit \/ ProcessCommit
  <2>1. PICK entry \in LogEntry :
            /\ up /\ log' = Append(log, entry)
            /\ currentSequenceId' = currentSequenceId + 1
            /\ IsCommit(entry) => entry.sequence_id = currentSequenceId + 1
    BY <1>1, Logging
  <2>2. LET n == Len(log) + 1 IN
        /\ DOMAIN log' = DOMAIN log \cup {n} /\ n \notin DOMAIN log /\ n \in Nat
        /\ \A i \in DOMAIN log : log'[i] = log[i] /\ i \in Nat /\ i < n
        /\ log'[n] = entry
    BY <2>1, Appended DEF EngineInv, TypeOK
  <2>3. \A i \in DOMAIN log : log[i].sequence_id \in Nat
    BY Typed DEF EngineInv, LogEntry
  <2>4. currentSequenceId \in Nat
    BY DEF EngineInv, TypeOK
  <2> QED BY <2>1, <2>2, <2>3, <2>4 DEF CommitsOrdered
<1>2. CASE Restart
  <2>1. log' = log /\ \A i \in CommitIndices(log) : log[i].sequence_id <= currentSequenceId'
    BY <1>2 DEF Restart, IsLargest, SequenceIdsOf, CommitIndices
  <2> QED BY <2>1 DEF CommitsOrdered, CommitIndices
<1>3. CASE log' = log /\ (up' => up) /\ currentSequenceId' = currentSequenceId
  BY <1>3 DEF CommitsOrdered
<1>4. CASE Stop
  BY <1>4 DEF Stop, CommitsOrdered
<1>5. \/ LogSubmit \/ ProcessCommit \/ Restart \/ Stop
      \/ log' = log /\ (up' => up) /\ currentSequenceId' = currentSequenceId
  <2> USE DEF memory, loop, wakeup, storage, clients
  <2>1. CASE Client \/ Signal
    <3>1. CASE Client
      <4>1. ASSUME NEW u, UpdateMutation(u)
            PROVE  log' = log /\ up' = up /\ currentSequenceId' = currentSequenceId
        BY <4>1 DEF UpdateMutation, UpdateMutationInsert, UpdateMutationModify, AddMutation
      <4> QED BY <3>1, <4>1 DEF Client, BeginTransaction, UpdateConstraint, Submit,
               SubmitCommit, Commit, Rollback, Enqueue
    <3>2. CASE Signal
      BY <3>2 DEF Signal
    <3> QED BY <2>1, <3>1, <3>2
  <2>2. CASE Loop
    BY <2>2 DEF Loop, FindEmpty, Wait, WakeUp, ProcessSubmit, SubmitFailure,
         ProcessSubmitThrows, SubmitComplete, CommitComplete, ProcessRollback
  <2>3. CASE CheckConstraint \/ \E s \in Storages : StorageApply(s)
    BY <2>3 DEF CheckConstraint, SubmitFailure, StorageApply
  <2>4. CASE Crash \/ Restart \/ UNCHANGED vars
    BY <2>4 DEF Crash, vars
  <2> QED BY <2>1, <2>2, <2>3, <2>4 DEF Next
<1> QED BY <1>1, <1>2, <1>3, <1>4, <1>5

(* What a log leaves open, as the abstract history has it.                 *)
PreparedAt(l, i) == [transaction_id |-> l[i].transaction_id,
                     mutations |-> l[i].mutations]

(* The prepared transactions are those at the open submits.               *)
LEMMA PreparedAre == \A l : PreparedOf(l) = {PreparedAt(l, i) : i \in Unfinished(l)}
BY DEF PreparedOf, PreparedAt

(* An id that the log does not mention is unused in the abstract history.  *)
LEMMA UnusedIds ==
    ASSUME NEW t, t \notin IdsOf(log)
    PROVE  History!Unused(t)
<1>1. \A i \in DOMAIN log : log[i].transaction_id # t
  BY DEF IdsOf
<1>2. \A p \in PreparedOf(log) : p.transaction_id # t
  BY <1>1 DEF PreparedOf, Unfinished
<1>3. \A c \in CommitsOf(log) : c.transaction_id # t
  BY <1>1 DEF CommitsOf
<1> QED BY <1>2, <1>3 DEF History!Unused

(* The next sequence id is the latest in the abstract history.             *)
LEMMA NextIsLatest ==
    ASSUME EngineInv, CommitsOrdered, up
    PROVE  History!Latest(currentSequenceId + 1)
<1>1. \A i \in DOMAIN log : log[i].sequence_id \in Nat /\ currentSequenceId \in Nat
  BY Typed DEF EngineInv, LogEntry
<1>2. \A i \in CommitIndices(log) : log[i].sequence_id < currentSequenceId + 1
  BY <1>1 DEF CommitsOrdered, CommitIndices
<1>3. \A c \in CommitsOf(log) : \E i \in CommitIndices(log) :
          c.sequence_id = log[i].sequence_id
  BY CommitsAt DEF CommitAt
<1> QED BY <1>2, <1>3 DEF History!Latest

(* Logging a submit prepares a transaction ...                             *)
LEMMA SubmitPrepares ==
    ASSUME EngineInv, EngineInv', CommitsOrdered, LogSubmit
    PROVE  History!Next
<1>1. PICK entry \in LogEntry :
          /\ up /\ log' = Append(log, entry)
          /\ entry.transaction_id = item.trid
          /\ IsCommit(entry) => entry.sequence_id = currentSequenceId + 1
          /\ entry.type \in {"Submit", "SubmitCommit"}
          /\ item.trid \notin IdsOf(log)
  BY Logging DEF LogSubmit, ProcessCommit, Dequeue
<1> DEFINE n == Len(log) + 1
<1>2. /\ DOMAIN log' = DOMAIN log \cup {n} /\ n \notin DOMAIN log
      /\ \A i \in DOMAIN log : log'[i] = log[i]
      /\ log'[n] = entry
      /\ CommitsOf(log') = CommitsOf(log) \cup
            (IF IsCommit(entry) THEN {CommitAt(log', n)} ELSE {})
  BY <1>1, CommitsAppended
<1> HIDE DEF n
<1>3. acked' = acked /\ History!Unused(entry.transaction_id)
  BY <1>1, UnusedIds DEF LogSubmit, clients
<1>4. CASE entry.type = "SubmitCommit"
  <2> DEFINE c == CommitAt(log', n)
  <2>1. Unfinished(log') = Unfinished(log)
    <3>1. \A i \in DOMAIN log : i \in Unfinished(log') <=> i \in Unfinished(log)
      BY <1>2, <1>4 DEF Unfinished
    <3>2. n \notin Unfinished(log')
      BY <1>2, <1>4 DEF Unfinished
    <3> QED BY <1>2, <3>1, <3>2 DEF Unfinished
  <2>2. PreparedOf(log') = PreparedOf(log)
    <3>1. \A i \in Unfinished(log) : PreparedAt(log', i) = PreparedAt(log, i)
      BY <1>2 DEF PreparedAt, Unfinished
    <3> QED BY <2>1, <3>1, PreparedAre
  <2>3. CommitsOf(log') = CommitsOf(log) \cup {c}
    BY <1>2, <1>4 DEF IsCommit
  <2>4. c.transaction_id = entry.transaction_id /\ c.sequence_id = currentSequenceId + 1
    BY <1>1, <1>2, <1>4 DEF IsCommit, CommitAt
  <2> HIDE DEF c
  <2>5. History!PrepareAndDecide(c)
    BY <1>1, <1>3, <2>2, <2>3, <2>4, NextIsLatest DEF History!PrepareAndDecide
  <2>6. c \in CommitsOf(log')
    BY <2>3
  <2> QED BY <2>5, <2>6 DEF History!Next
<1>5. CASE entry.type = "Submit"
  <2> DEFINE p == PreparedAt(log', n)
  <2>1. Unfinished(log') = Unfinished(log) \cup {n}
    <3>1. \A k \in DOMAIN log : log[k].transaction_id # entry.transaction_id
      BY <1>1 DEF IdsOf
    <3> QED BY <1>2, <1>5, <3>1 DEF Unfinished
  <2>2. \A i \in Unfinished(log) : PreparedAt(log', i) = PreparedAt(log, i)
    BY <1>2 DEF PreparedAt, Unfinished
  <2>3. PreparedOf(log') = PreparedOf(log) \cup {p}
    BY <2>1, <2>2, PreparedAre
  <2>4. CommitsOf(log') = CommitsOf(log)
    BY <1>2, <1>5 DEF IsCommit
  <2>5. p.transaction_id = entry.transaction_id
    BY <1>2 DEF PreparedAt
  <2> HIDE DEF p
  <2>6. History!Prepare(p) /\ p \in PreparedOf(log')
    BY <1>3, <2>3, <2>4, <2>5 DEF History!Prepare
  <2> QED BY <2>6 DEF History!Next
<1> QED BY <1>1, <1>4, <1>5

(* ... and logging a commit decides it.                                    *)
LEMMA CommitDecides ==
    ASSUME EngineInv, EngineInv', CommitsOrdered, ProcessCommit
    PROVE  History!Next
<1>1. PICK entry \in LogEntry :
          /\ up /\ log' = Append(log, entry) /\ entry.type = "Commit"
          /\ entry.sequence_id = currentSequenceId + 1
          /\ \E u \in Unfinished(log) : log[u].transaction_id = entry.transaction_id
  <2>1. ~ LogSubmit
    BY DEF LogSubmit, ProcessCommit, Dequeue
  <2> QED BY <2>1, Logging DEF IsCommit
<1>2. PICK u \in Unfinished(log) : log[u].transaction_id = entry.transaction_id
  BY <1>1
<1> DEFINE n == Len(log) + 1
           c == CommitAt(log', n)
           p == PreparedAt(log, u)
<1>3. /\ DOMAIN log' = DOMAIN log \cup {n} /\ n \notin DOMAIN log
      /\ \A i \in DOMAIN log : log'[i] = log[i]
      /\ log'[n] = entry
      /\ CommitsOf(log') = CommitsOf(log) \cup {c}
  BY <1>1, CommitsAppended DEF IsCommit
<1> HIDE DEF n
<1>4. u \in DOMAIN log /\ u \in DOMAIN log' /\ n \in DOMAIN log' /\ log'[u] = log[u]
      /\ log[u].type = "Submit"
  BY <1>3 DEF Unfinished
<1>5. CommitMutations(log', n) = log[u].mutations
  <2>1. /\ Replayable(log')
        /\ \A g, h \in DOMAIN log' :
                /\ log'[g].transaction_id = log'[h].transaction_id
                /\ (log'[g].type = "Commit") = (log'[h].type = "Commit")
                => g = h
    BY DEF EngineInv, LogWellFormed, LogReplayable
  <2>2. /\ log'[u].type # "Commit" /\ log'[n].type = "Commit"
        /\ log'[u].transaction_id = log'[n].transaction_id
    BY <1>1, <1>2, <1>3, <1>4
  <2>3. CommitMutations(log', n) = log'[u].mutations
    BY <1>4, <2>1, <2>2, CommitOf
  <2> QED BY <1>4, <2>3
<1>6. \A i \in Unfinished(log) : PreparedAt(log', i) = PreparedAt(log, i)
                                 /\ (i # u => PreparedAt(log, i) # p)
  <2>1. \A i \in Unfinished(log) : i \in DOMAIN log /\ log[i].type = "Submit"
    BY DEF Unfinished
  <2>2. \A i \in Unfinished(log) : i # u =>
            log[i].transaction_id # log[u].transaction_id
    BY <1>4, <2>1 DEF EngineInv, LogWellFormed
  <2> QED BY <1>3, <2>1, <2>2 DEF PreparedAt
<1>7. Unfinished(log') = Unfinished(log) \ {u}
  <2>1. \A i \in Unfinished(log) : i # u =>
            log[i].transaction_id # entry.transaction_id
    BY <1>2, <1>4 DEF EngineInv, LogWellFormed, Unfinished
  <2>2. \A i \in DOMAIN log :
            i \in Unfinished(log') <=>
                i \in Unfinished(log) /\ log[i].transaction_id # entry.transaction_id
    BY <1>1, <1>3 DEF Unfinished
  <2>3. \A i \in Unfinished(log') : i \in DOMAIN log
    BY <1>1, <1>3 DEF Unfinished
  <2> QED BY <1>2, <2>1, <2>2, <2>3 DEF Unfinished
<1>8. PreparedOf(log') = PreparedOf(log) \ {p}
  <2> HIDE DEF p
  <2>1. p = PreparedAt(log, u)
    BY DEF p
  <2> QED BY <1>6, <1>7, <2>1, PreparedAre
<1>9. /\ c.transaction_id = p.transaction_id /\ c.mutations = p.mutations
      /\ c.sequence_id = currentSequenceId + 1
      /\ p \in PreparedOf(log) /\ c \in CommitsOf(log') /\ acked' = acked
  <2>1. c.transaction_id = p.transaction_id /\ c.mutations = p.mutations
        /\ c.sequence_id = currentSequenceId + 1
    BY <1>1, <1>2, <1>3, <1>5 DEF CommitAt, PreparedAt
  <2>2. p \in PreparedOf(log)
    BY PreparedAre
  <2> QED BY <1>3, <2>1, <2>2 DEF ProcessCommit
<1> HIDE DEF c, p
<1>10. History!Decide(p, c)
  BY <1>1, <1>3, <1>8, <1>9, NextIsLatest DEF History!Decide
<1> QED BY <1>9, <1>10 DEF History!Next

(* The answer to a commit acknowledges what is in the log.                 *)
LEMMA AnswerAcknowledges ==
    ASSUME EngineInv, CommitComplete
    PROVE  History!Next
<1> DEFINE n == Len(log)
           c == CommitAt(log, n)
<1>1. /\ n \in DOMAIN log /\ IsCommit(log[n])
      /\ log[n].transaction_id = item.trid /\ log[n].sequence_id = sequenceId
  BY LastEntry DEF CommitComplete, IsCommit
<1>2. log' = log
      /\ acked' = acked \cup {[transaction_id |-> item.trid, sequence_id |-> sequenceId]}
  BY DEF CommitComplete
<1>3. c \in CommitsOf(log) /\ c.transaction_id = item.trid /\ c.sequence_id = sequenceId
  BY <1>1, CommitsAt DEF CommitAt, CommitIndices
<1> HIDE DEF c
<1>4. History!Acknowledge(c)
  BY <1>2, <1>3 DEF History!Acknowledge
<1> QED BY <1>3, <1>4 DEF History!Next

(* The engine implements CommitHistory: each of its steps prepares,        *)
(* decides or acknowledges, in the log, or is none of the history's        *)
(* business, a crash and a restart among them.                             *)
THEOREM EngineImplementsHistory == Spec => ImplementsHistory
<1>1. Init => History!Init
  <2> SUFFICES ASSUME Init PROVE History!Init
    OBVIOUS
  <2>1. log = <<>> /\ acked = {} /\ DOMAIN log = {}
    BY DEF Init
  <2>2. Unfinished(log) = {} /\ CommitIndices(log) = {}
    BY <2>1 DEF Unfinished, CommitIndices
  <2>3. PreparedOf(log) = {} /\ CommitsOf(log) = {}
    BY <2>2, PreparedAre, CommitsAt
  <2> QED BY <2>1, <2>3 DEF History!Init
<1>2. Init => CommitsOrdered
  BY DEF Init, CommitsOrdered
<1>3. EngineInv /\ EngineInv' /\ CommitsOrdered /\ [Next]_vars
        => CommitsOrdered' /\ [History!Next]_(History!vars)
  <2> SUFFICES ASSUME EngineInv, EngineInv', CommitsOrdered, [Next]_vars
               PROVE  CommitsOrdered' /\ [History!Next]_(History!vars)
    OBVIOUS
  <2>1. CommitsOrdered'
    BY OrderKept
  <2>2. CASE log' = log /\ acked' = acked
    BY <2>1, <2>2 DEF History!vars
  <2>3. CASE LogSubmit
    BY <2>1, <2>3, SubmitPrepares
  <2>4. CASE ProcessCommit
    BY <2>1, <2>4, CommitDecides
  <2>5. CASE CommitComplete
    BY <2>1, <2>5, AnswerAcknowledges
  <2> QED BY <2>2, <2>3, <2>4, <2>5, WhoLogs
<1> QED BY <1>1, <1>2, <1>3, Safety, PTL DEF Spec, ImplementsHistory, History!Spec

------------------------------------------------------------------------------
(* LogInv: steps that change little                                        *)

(* What two transactions clash about is what they contain.                 *)
LEMMA ConflictsSame ==
    ASSUME NEW t, NEW u,
           active'[t].mutations = active[t].mutations,
           active'[t].constraints = active[t].constraints,
           active'[u].mutations = active[u].mutations,
           active'[u].constraints = active[u].constraints
    PROVE  Conflicts(t, u)' <=> Conflicts(t, u)
BY DEF Conflicts, ConstraintConflict, MutationConflict

(* Neither of two transactions is the one in conflict.                    *)
LEMMA ConflictsSymmetric ==
    ASSUME NEW t, NEW u
    PROVE  Conflicts(t, u) <=> Conflicts(u, t)
BY DEF Conflicts, ConstraintConflict, MutationConflict

(* A transaction that is still open is not in the log, not submitted and   *)
(* not the one the closure serves.                                         *)
LEMMA OpenIsNew ==
    ASSUME EngineInv, up, NEW t \in TransactionIds, active[t].state = "Open"
    PROVE  /\ t \notin IdsOf(log) /\ t \notin submitted
           /\ pc \in {"check", "logged"} => item.trid # t
<1>1. pc \in {"check", "logged"} => item.trid # t
  BY DEF EngineInv, TypeOK, ItemTypeOK, RequestsServable, Awaited
<1>2. t \notin IdsOf(log)
  BY <1>1 DEF EngineInv, StateMatchesLog, Completing
<1>3. t \notin submitted
  BY <1>1, <1>2 DEF EngineInv, StateMatchesLog, Completing, IdsOf, Unfinished
<1> QED BY <1>1, <1>2, <1>3

(* The closure's transaction while it submits it or commits it.            *)
LEMMA ItemIs ==
    ASSUME EngineInv, pc \in {"check", "logged"}
    PROVE  item.trid \in TransactionIds /\ item.type \in {"Submit", "SubmitCommit", "Commit"}
BY DEF EngineInv, TypeOK, ItemTypeOK, QueueItem

(* A step of no concern: the closure waits, a storage applies, ...         *)
LEMMA IdleKeeps ==
    ASSUME LogInv,
           UNCHANGED <<up, active, submitted, log, lastDocumentId, delivered, promised,
                       queue, item, sequenceId, currentSequenceId>>,
           pc' = pc \/ {pc, pc'} \cap {"check", "logged"} = {}
    PROVE  LogInv'
<1>1. CommitsOrdered' /\ MutationsMatchLog'
  BY DEF LogInv, CommitsOrdered, MutationsMatchLog
<1>2. StoragesFollowLog'
  <2>1. \A c : InFlight(c)' <=> InFlight(c)
    BY DEF InFlight
  <2>2. {c \in CommitsOf(log) : ~ InFlight(c)}' = {c \in CommitsOf(log) : ~ InFlight(c)}
    BY <2>1
  <2> QED BY <2>2 DEF LogInv, StoragesFollowLog
<1>3. \A t, u \in TransactionIds : Conflicts(t, u)' <=> Conflicts(t, u)
  BY ConflictsSame
<1>4. \A t : Live(t)' <=> Live(t)
  BY DEF Live, Dangling
<1>5. ActiveCompatible'
  BY <1>3, <1>4 DEF LogInv, ActiveCompatible
<1>6. ItemCompatible'
  <2>1. \A t, u : Conflicts(t, u)' <=> Conflicts(t, u)
    BY ConflictsSame
  <2> QED BY <1>4, <2>1 DEF LogInv, ItemCompatible
<1>7. PromisesLogged' /\ PromiseKept'
  BY DEF LogInv, PromisesLogged, PromiseKept
<1>8. DraftsFresh' /\ InsertsFresh'
  BY DEF LogInv, DraftsFresh, Drafts, Allocated, InsertsFresh
<1> QED BY <1>1, <1>2, <1>5, <1>6, <1>7, <1>8 DEF LogInv

(* A call of a client changes one transaction, which is not one that is    *)
(* submitted or served if it changes its content.                          *)
LEMMA CallKeeps ==
    ASSUME EngineInv, LogInv, up, NEW t \in TransactionIds,
           UNCHANGED <<up, submitted, log, delivered, item, sequenceId, pc,
                       currentSequenceId>>,
           \A u \in TransactionIds : u # t => active'[u] = active[u],
           active'[t].state # "None",
           \/ /\ active'[t].mutations = active[t].mutations
              /\ active'[t].constraints = active[t].constraints
              /\ active[t].state # "None"
           \/ /\ t \notin submitted /\ t \notin IdsOf(log)
              /\ pc \in {"check", "logged"} => item.trid # t
    PROVE  /\ CommitsOrdered' /\ MutationsMatchLog' /\ StoragesFollowLog'
           /\ ItemCompatible' /\ ActiveCompatible' /\ InsertsFresh'
<1>1. CommitsOrdered' /\ InsertsFresh'
  BY DEF LogInv, CommitsOrdered, InsertsFresh
<1>2. MutationsMatchLog'
  <2>1. \A i \in DOMAIN log : log[i].transaction_id \in TransactionIds
                              /\ log[i].transaction_id \in IdsOf(log)
    BY Typed DEF EngineInv, LogEntry, IdsOf
  <2> QED BY <2>1 DEF LogInv, MutationsMatchLog
<1>3. StoragesFollowLog'
  <2>1. \A c : InFlight(c)' <=> InFlight(c)
    BY DEF InFlight
  <2>2. {c \in CommitsOf(log) : ~ InFlight(c)}' = {c \in CommitsOf(log) : ~ InFlight(c)}
    BY <2>1
  <2> QED BY <2>2 DEF LogInv, StoragesFollowLog
<1>4. \A u \in TransactionIds : Live(u)' <=> Live(u)
  BY DEF Live, Dangling
<1>5. \A u, other \in TransactionIds :
          \/ Conflicts(u, other)' <=> Conflicts(u, other)
          \/ ~ Live(u) /\ u = t
          \/ ~ Live(other) /\ other = t
  BY ConflictsSame DEF Live
<1>6. ActiveCompatible'
  BY <1>4, <1>5 DEF LogInv, ActiveCompatible
<1>7. ItemCompatible'
  <2> SUFFICES ASSUME pc \in {"check", "logged"}, item.type # "Commit",
                      NEW other \in TransactionIds, Live(other), other # item.trid
               PROVE  ~ Conflicts(item.trid, other)'
    BY <1>4 DEF ItemCompatible
  <2>1. ~ Conflicts(item.trid, other) /\ item.trid \in TransactionIds
    BY ItemIs DEF LogInv, ItemCompatible
  <2>2. Conflicts(item.trid, other)' <=> Conflicts(item.trid, other)
    BY <2>1, ConflictsSame DEF Live
  <2> QED BY <2>1, <2>2
<1> QED BY <1>1, <1>2, <1>3, <1>6, <1>7

(* transaction() *)
LEMMA LogBegin ==
    ASSUME EngineInv, LogInv, BeginTransaction
    PROVE  LogInv'
<1> DEFINE new == nextTransactId
<1>1. /\ up /\ new \in TransactionIds
      /\ active' = [active EXCEPT ![new].state = "Open"]
      /\ UNCHANGED <<up, submitted, queue, pc, item, log, delivered, sequenceId,
                     currentSequenceId, promised, lastDocumentId>>
  BY DEF BeginTransaction, EngineInv, TypeOK, TransactionIds, wakeup, loop, storage,
         clients
<1>2. active[new].state = "None" /\ new \notin submitted /\ new \notin IdsOf(log)
  BY <1>1 DEF EngineInv, StateMatchesLog, TransactionIds
<1>3. active[new] = NoTransaction
  BY <1>1, <1>2 DEF LogInv, MutationsMatchLog
<1>4. /\ \A u \in TransactionIds : u # new => active'[u] = active[u]
      /\ active'[new].state = "Open" /\ active'[new].mutations = <<>>
  BY <1>1, <1>3, Typed DEF EngineInv, NoTransaction
<1>5. pc \in {"check", "logged"} => item.trid # new
  BY <1>2 DEF EngineInv, TypeOK, ItemTypeOK, QueueItem, RequestsServable, Awaited
<1> HIDE DEF new
<1>6. /\ CommitsOrdered' /\ MutationsMatchLog' /\ StoragesFollowLog'
      /\ ItemCompatible' /\ ActiveCompatible' /\ InsertsFresh'
  BY <1>1, <1>2, <1>4, <1>5, CallKeeps
<1>7. PromisesLogged'
  BY <1>1 DEF LogInv, PromisesLogged
<1>8. PromiseKept'
  <2>1. \A p \in promised : p.transaction_id \in TransactionIds
    BY DEF EngineInv, TypeOK
  <2> QED BY <1>1, <1>2, <1>4, <2>1 DEF LogInv, PromiseKept
<1>9. DraftsFresh'
  <2>1. Drafts' \subseteq Drafts \cup {new} /\ Drafts \subseteq TransactionIds
    BY <1>1, <1>4 DEF Drafts
  <2>2. new \notin Drafts
    BY <1>2 DEF Drafts
  <2> QED BY <1>1, <1>4, <2>1, <2>2 DEF LogInv, DraftsFresh, Allocated
<1> QED BY <1>6, <1>7, <1>8, <1>9 DEF LogInv

(* updateMutation, of a document the storage allocates or of any other.    *)
LEMMA LogUpdateMutation ==
    ASSUME EngineInv, LogInv, NEW t \in TransactionIds, NEW s \in Storages,
           \/ UpdateMutationInsert(t, s)
           \/ \E d \in Modified : UpdateMutationModify(t, s, d)
    PROVE  LogInv'
<1>1. PICK m : /\ AddMutation(t, m) /\ m.storageIndex = s
               /\ \/ /\ m.type = "Insert" /\ m.documentId = lastDocumentId[s] + 1
                     /\ lastDocumentId' = [lastDocumentId EXCEPT ![s] = @ + 1]
                  \/ m.type = "Modify" /\ lastDocumentId' = lastDocumentId
  <2>1. CASE UpdateMutationInsert(t, s)
    <3> DEFINE m == [type |-> "Insert", storageIndex |-> s, documentId |-> Allocate(s)]
    <3>1. AddMutation(t, m) /\ lastDocumentId' = [lastDocumentId EXCEPT ![s] = @ + 1]
      BY <2>1 DEF UpdateMutationInsert, Allocate
    <3>2. m.storageIndex = s /\ m.type = "Insert" /\ m.documentId = lastDocumentId[s] + 1
      BY DEF Allocate
    <3> HIDE DEF m
    <3> QED BY <3>1, <3>2
  <2>2. CASE \E d \in Modified : UpdateMutationModify(t, s, d)
    <3>1. PICK d \in Modified : UpdateMutationModify(t, s, d)
      BY <2>2
    <3> DEFINE m == [type |-> "Modify", storageIndex |-> s, documentId |-> d]
    <3>2. AddMutation(t, m) /\ lastDocumentId' = lastDocumentId
      BY <3>1 DEF UpdateMutationModify
    <3>3. m.storageIndex = s /\ m.type = "Modify"
      OBVIOUS
    <3> HIDE DEF m
    <3> QED BY <3>2, <3>3
  <2> QED BY <2>1, <2>2
<1>2. /\ up /\ active[t].state = "Open"
      /\ active' = [active EXCEPT ![t].mutations = Append(@, m)]
      /\ UNCHANGED <<up, submitted, queue, pc, item, log, delivered, sequenceId,
                     currentSequenceId, promised>>
  BY <1>1 DEF AddMutation, wakeup, loop, clients
<1>3. /\ \A u \in TransactionIds : u # t => active'[u] = active[u]
      /\ active'[t].state = "Open" /\ active[t].mutations \in Seq(Mutation)
      /\ active'[t].mutations = Append(active[t].mutations, m)
  BY <1>2, Typed DEF EngineInv, Transaction
<1>4. /\ t \notin IdsOf(log) /\ t \notin submitted
      /\ pc \in {"check", "logged"} => item.trid # t
  BY <1>2, OpenIsNew
<1>5. /\ CommitsOrdered' /\ MutationsMatchLog' /\ StoragesFollowLog'
      /\ ItemCompatible' /\ ActiveCompatible' /\ InsertsFresh'
  BY <1>2, <1>3, <1>4, CallKeeps
<1>6. PromisesLogged'
  BY <1>2 DEF LogInv, PromisesLogged
<1>7. PromiseKept'
  <2>1. \A p \in promised : p.transaction_id \in TransactionIds
    BY DEF EngineInv, TypeOK
  <2> QED BY <1>2, <1>3, <1>4, <2>1 DEF LogInv, PromiseKept
<1>8. DraftsFresh'
  <2> DEFINE k == Len(active[t].mutations) + 1
  <2>1. /\ DOMAIN active'[t].mutations = DOMAIN active[t].mutations \cup {k}
        /\ k \notin DOMAIN active[t].mutations
        /\ \A n \in DOMAIN active[t].mutations :
                active'[t].mutations[n] = active[t].mutations[n]
        /\ active'[t].mutations[k] = m
    <3>1. /\ Len(active[t].mutations) \in Nat
          /\ DOMAIN active[t].mutations = 1..Len(active[t].mutations)
          /\ active[t].mutations \in Seq(Mutation \cup {m})
      BY <1>3, LenProperties
    <3>2. /\ DOMAIN Append(active[t].mutations, m) = 1..k
          /\ \A n \in 1..Len(active[t].mutations) :
                Append(active[t].mutations, m)[n] = active[t].mutations[n]
          /\ Append(active[t].mutations, m)[k] = m
      BY <3>1, AppendProperties, LenProperties
    <3> QED BY <1>3, <3>1, <3>2
  <2> HIDE DEF k
  <2>2. Drafts' = Drafts /\ t \in Drafts /\ Drafts \subseteq TransactionIds
    BY <1>2, <1>3, <1>4 DEF Drafts
  <2>3. /\ \A r \in Storages : lastDocumentId[r] \in Nat
        /\ \A r \in Storages : lastDocumentId'[r] >= lastDocumentId[r]
        /\ \A r \in Storages : lastDocumentId'[r] \in Nat
        /\ m.type = "Insert" => lastDocumentId'[s] = lastDocumentId[s] + 1
    <3>1. /\ lastDocumentId \in [Storages -> 0..MaxDocument]
          /\ \A r \in Storages : lastDocumentId[r] \in Nat
      BY BoundsAssumption DEF EngineInv, TypeOK
    <3>2. CASE lastDocumentId' = [lastDocumentId EXCEPT ![s] = @ + 1]
      <4>1. \A r \in Storages : lastDocumentId'[r] =
                IF r = s THEN lastDocumentId[s] + 1 ELSE lastDocumentId[r]
        BY <3>1, <3>2
      <4> QED BY <3>1, <4>1
    <3> QED BY <1>1, <3>1, <3>2
  <2>4. \A i \in DOMAIN log : \A n \in DOMAIN log[i].mutations :
            log[i].mutations[n] \in Mutation
    BY Typed, ElementOfSeq, LenProperties DEF EngineInv, LogEntry
  <2>5. \A u \in TransactionIds : \A n \in DOMAIN active[u].mutations :
            active[u].mutations[n] \in Mutation
    <3> SUFFICES ASSUME NEW u \in TransactionIds, NEW n \in DOMAIN active[u].mutations
                 PROVE  active[u].mutations[n] \in Mutation
      OBVIOUS
    <3> DEFINE q == active[u].mutations
    <3>1. q \in Seq(Mutation) /\ n \in DOMAIN q
      BY Typed DEF EngineInv
    <3> HIDE DEF q
    <3>2. q[n] \in Mutation
      BY <3>1, ElementOfSeq, LenProperties
    <3> QED BY <3>2 DEF q
  <2>6. ASSUME NEW x \in Mutation, Allocated(x)
        PROVE  /\ x.type = "Insert" => x.documentId <= lastDocumentId'[x.storageIndex]
               /\ m.type = "Insert" => x # m
    <3>1. x.storageIndex \in Storages /\ x.documentId \in Int
      BY DEF Mutation, DocumentIds
    <3>2. x.type = "Insert" => x.documentId <= lastDocumentId[x.storageIndex]
      BY <2>6 DEF Allocated
    <3>3. x.type = "Insert" => x.documentId <= lastDocumentId'[x.storageIndex]
      BY <2>3, <3>1, <3>2
    <3>4. ASSUME m.type = "Insert", x = m
          PROVE  FALSE
      <4>1. x.documentId = lastDocumentId[s] + 1 /\ x.storageIndex = s /\ x.type = "Insert"
        BY <1>1, <3>4
      <4> QED BY <2>3, <3>1, <3>2, <4>1
    <3> QED BY <3>3, <3>4
  <2>7. m.type = "Insert" => m.documentId <= lastDocumentId'[m.storageIndex]
    BY <1>1, <2>3
  <2>8. ASSUME NEW i \in DOMAIN log, NEW n \in DOMAIN log[i].mutations
        PROVE  Allocated(log[i].mutations[n])'
    BY <1>2, <2>4, <2>6 DEF LogInv, DraftsFresh, Allocated
  <2>9. ASSUME NEW u \in Drafts, NEW n \in DOMAIN active'[u].mutations
        PROVE  Allocated(active[u].mutations[n])'
    <3>1. CASE u = t /\ n = k
      BY <2>1, <2>7, <3>1 DEF Allocated
    <3>2. CASE n \in DOMAIN active[u].mutations
               /\ active'[u].mutations[n] = active[u].mutations[n]
      BY <1>2, <2>2, <2>5, <2>6, <3>2 DEF LogInv, DraftsFresh, Allocated
    <3>3. u \in TransactionIds /\ (u # t => active'[u] = active[u])
      BY <1>3, <2>2
    <3>4. CASE u = t
      BY <2>1, <3>1, <3>2, <3>4
    <3>5. CASE u # t
      BY <3>2, <3>3, <3>5
    <3> QED BY <3>4, <3>5
  <2>10. ASSUME NEW u \in Drafts', NEW n \in DOMAIN active'[u].mutations,
                active'[u].mutations[n].type = "Insert",
                NEW i \in DOMAIN log', NEW h \in DOMAIN log'[i].mutations
         PROVE  active'[u].mutations[n] # log'[i].mutations[h]
    <3>1. CASE u = t /\ n = k
      BY <1>2, <2>1, <2>4, <2>6, <2>10, <3>1 DEF LogInv, DraftsFresh
    <3>2. CASE n \in DOMAIN active[u].mutations
               /\ active'[u].mutations[n] = active[u].mutations[n]
      BY <1>2, <2>2, <2>10, <3>2 DEF LogInv, DraftsFresh
    <3> QED BY <1>3, <2>1, <2>2, <3>1, <3>2
  <2>11. ASSUME NEW u \in Drafts', NEW n \in DOMAIN active'[u].mutations
         PROVE  \/ u = t /\ n = k
                \/ n \in DOMAIN active[u].mutations
                   /\ active'[u].mutations[n] = active[u].mutations[n]
    <3>1. CASE u = t
      BY <2>1, <3>1
    <3>2. CASE u # t
      <4>1. u \in TransactionIds
        BY <2>2
      <4>2. active'[u] = active[u]
        BY <1>3, <3>2, <4>1
      <4> QED BY <4>2
    <3> QED BY <3>1, <3>2
  <2>12. ASSUME NEW u \in Drafts', NEW n \in DOMAIN active'[u].mutations,
                active'[u].mutations[n].type = "Insert",
                NEW v \in Drafts', NEW h \in DOMAIN active'[v].mutations,
                active'[u].mutations[n] = active'[v].mutations[h]
         PROVE  v = u /\ h = n
    <3>1. \/ u = t /\ n = k
          \/ n \in DOMAIN active[u].mutations
             /\ active'[u].mutations[n] = active[u].mutations[n]
      BY <2>11
    <3>2. \/ v = t /\ h = k
          \/ h \in DOMAIN active[v].mutations
             /\ active'[v].mutations[h] = active[v].mutations[h]
      BY <2>11
    <3>3. CASE u = t /\ n = k
      BY <1>2, <2>1, <2>2, <2>5, <2>6, <2>12, <3>2, <3>3 DEF LogInv, DraftsFresh
    <3>4. CASE v = t /\ h = k
      BY <1>2, <2>1, <2>2, <2>5, <2>6, <2>12, <3>1, <3>4 DEF LogInv, DraftsFresh
    <3>5. CASE /\ n \in DOMAIN active[u].mutations
               /\ active'[u].mutations[n] = active[u].mutations[n]
               /\ h \in DOMAIN active[v].mutations
               /\ active'[v].mutations[h] = active[v].mutations[h]
      BY <1>2, <2>2, <2>12, <3>5 DEF LogInv, DraftsFresh
    <3> QED BY <3>1, <3>2, <3>3, <3>4, <3>5
  <2> QED BY <1>2, <2>2, <2>8, <2>9, <2>10, <2>12 DEF DraftsFresh
<1> QED BY <1>5, <1>6, <1>7, <1>8 DEF LogInv

(* What the last clauses say of transactions still holds when these are    *)
(* dropped, or move on with the content they have.                         *)
LEMMA DraftsKept ==
    ASSUME LogInv, UNCHANGED <<log, lastDocumentId>>, up' => up,
           \A u \in TransactionIds : active'[u].state # "None" =>
                /\ active[u].state # "None"
                /\ active'[u].mutations = active[u].mutations
    PROVE  DraftsFresh' /\ InsertsFresh'
<1>1. InsertsFresh'
  BY DEF LogInv, InsertsFresh
<1>2. Drafts' \subseteq Drafts /\ Drafts \subseteq TransactionIds
  BY DEF Drafts
<1>3. \A u \in Drafts' : active'[u].mutations = active[u].mutations
  BY DEF Drafts
<1> QED BY <1>1, <1>2, <1>3 DEF LogInv, DraftsFresh, Allocated

(* A log that grows keeps what the promises say, as long as no roll-back  *)
(* of a promised transaction is queued.                                   *)
LEMMA PromisesLoggedKept ==
    ASSUME LogInv, promised' \subseteq promised,
           \A i \in DOMAIN log : i \in DOMAIN log' /\ log'[i] = log[i],
           \A n \in DOMAIN queue' : queue'[n].type = "Rollback" =>
                \/ \E m \in DOMAIN queue : queue[m] = queue'[n]
                \/ \A p \in promised' : p.transaction_id # queue'[n].trid
    PROVE  PromisesLogged'
<1> SUFFICES ASSUME NEW p \in promised'
             PROVE  /\ \E i \in DOMAIN log' :
                        /\ log'[i].type = "Submit"
                        /\ log'[i].transaction_id = p.transaction_id
                        /\ Targets(log'[i].mutations) = Targets(p.mutations)
                    /\ \A n \in DOMAIN queue' :
                        queue'[n].type = "Rollback" => queue'[n].trid # p.transaction_id
  BY DEF PromisesLogged
<1>1. /\ \E i \in DOMAIN log :
            /\ log[i].type = "Submit" /\ log[i].transaction_id = p.transaction_id
            /\ Targets(log[i].mutations) = Targets(p.mutations)
      /\ \A n \in DOMAIN queue :
            queue[n].type = "Rollback" => queue[n].trid # p.transaction_id
  BY DEF LogInv, PromisesLogged
<1> QED BY <1>1

(* A promise is kept as long as its transaction stays submitted.          *)
LEMMA PromiseKeptOn ==
    ASSUME LogInv, up, promised' \subseteq promised, delivered \subseteq delivered',
           \A p \in promised' :
                LET t == p.transaction_id IN
                t \in submitted /\ active[t].state \in {"Submitted", "InCommitOrRollback"}
                => /\ t \in submitted'
                   /\ active'[t].state \in {"Submitted", "InCommitOrRollback"}
                   /\ active'[t].mutations = active[t].mutations
    PROVE  PromiseKept'
<1> SUFFICES ASSUME NEW p \in promised'
             PROVE  \/ /\ p.transaction_id \in submitted'
                       /\ active'[p.transaction_id].state
                                \in {"Submitted", "InCommitOrRollback"}
                       /\ Targets(active'[p.transaction_id].mutations)
                                = Targets(p.mutations)
                    \/ \E c \in delivered' :
                       /\ c.transaction_id = p.transaction_id
                       /\ Targets(c.mutations) = Targets(p.mutations)
  BY DEF PromiseKept
<1>1. CASE /\ p.transaction_id \in submitted
           /\ active[p.transaction_id].state \in {"Submitted", "InCommitOrRollback"}
           /\ Targets(active[p.transaction_id].mutations) = Targets(p.mutations)
  BY <1>1
<1>2. CASE \E c \in delivered :
           /\ c.transaction_id = p.transaction_id
           /\ Targets(c.mutations) = Targets(p.mutations)
  BY <1>2
<1> QED BY <1>1, <1>2 DEF LogInv, PromiseKept

(* updateConstraint *)
LEMMA LogUpdateConstraint ==
    ASSUME EngineInv, LogInv, NEW t \in TransactionIds, NEW c, UpdateConstraint(t, c)
    PROVE  LogInv'
<1>1. /\ up /\ active[t].state = "Open"
      /\ active' = [active EXCEPT ![t].constraints = Append(@, c)]
      /\ UNCHANGED <<up, submitted, queue, pc, item, log, delivered, sequenceId,
                     currentSequenceId, promised, lastDocumentId>>
  BY DEF UpdateConstraint, wakeup, loop, storage, clients
<1>2. /\ \A u \in TransactionIds : u # t => active'[u] = active[u]
      /\ \A u \in TransactionIds : /\ active'[u].state = active[u].state
                                   /\ active'[u].mutations = active[u].mutations
      /\ active'[t].state # "None"
  BY <1>1, Typed DEF EngineInv, Transaction
<1>3. /\ t \notin IdsOf(log) /\ t \notin submitted
      /\ pc \in {"check", "logged"} => item.trid # t
  BY <1>1, OpenIsNew
<1>4. /\ CommitsOrdered' /\ MutationsMatchLog' /\ StoragesFollowLog'
      /\ ItemCompatible' /\ ActiveCompatible' /\ InsertsFresh'
  BY <1>1, <1>2, <1>3, CallKeeps
<1>5. PromisesLogged'
  BY <1>1 DEF LogInv, PromisesLogged
<1>6. PromiseKept'
  <2>1. \A p \in promised : p.transaction_id \in TransactionIds
    BY DEF EngineInv, TypeOK
  <2> QED BY <1>1, <1>2, <2>1 DEF LogInv, PromiseKept
<1>7. DraftsFresh'
  BY <1>1, <1>2, DraftsKept
<1> QED BY <1>4, <1>5, <1>6, <1>7 DEF LogInv

(* submit, submitCommit, commit and rollback *)
LEMMA LogEnqueue ==
    ASSUME EngineInv, LogInv, NEW t \in TransactionIds,
           Submit(t) \/ SubmitCommit(t) \/ Commit(t) \/ Rollback(t)
    PROVE  LogInv'
<1>1. PICK type \in RequestType, to \in TransactionState \ {"None"} :
          /\ up /\ active[t].state \in {"Open", "Submitted"}
          /\ active' = [active EXCEPT ![t].state = to]
          /\ queue' = Append(queue, [type |-> type, trid |-> t])
          /\ UNCHANGED <<up, submitted, pc, item, log, delivered, sequenceId,
                         currentSequenceId, lastDocumentId>>
          /\ \/ type # "Rollback" /\ promised' = promised
             \/ promised' = {p \in promised : p.transaction_id # t}
          /\ active[t].state = "Submitted" => to = "InCommitOrRollback"
  BY DEF Submit, SubmitCommit, Commit, Rollback, Enqueue, RequestType,
         TransactionState, loop, storage
<1>2. /\ \A u \in TransactionIds : u # t => active'[u] = active[u]
      /\ \A u \in TransactionIds : /\ active'[u].mutations = active[u].mutations
                                   /\ active'[u].constraints = active[u].constraints
      /\ active'[t].state = to
  BY <1>1, Typed DEF EngineInv, Transaction
<1>3. /\ CommitsOrdered' /\ MutationsMatchLog' /\ StoragesFollowLog'
      /\ ItemCompatible' /\ ActiveCompatible' /\ InsertsFresh'
  BY <1>1, <1>2, CallKeeps
<1>4. \A n \in DOMAIN queue' :
          \/ \E m \in DOMAIN queue : queue[m] = queue'[n]
          \/ queue'[n].type = type /\ queue'[n].trid = t
  <2>1. queue \in Seq(QueueItem) /\ [type |-> type, trid |-> t] \in QueueItem
    BY DEF EngineInv, TypeOK, QueueItem
  <2> QED BY <1>1, <2>1, AppendProperties, LenProperties
<1>5. PromisesLogged'
  BY <1>1, <1>4, PromisesLoggedKept
<1>6. PromiseKept'
  <2>1. \A p \in promised : p.transaction_id \in TransactionIds
    BY DEF EngineInv, TypeOK
  <2> QED BY <1>1, <1>2, <2>1, PromiseKeptOn
<1>7. DraftsFresh'
  BY <1>1, <1>2, DraftsKept
<1> QED BY <1>3, <1>5, <1>6, <1>7 DEF LogInv

(* A transaction is dropped that nobody was promised anything about.       *)
LEMMA LogDrop ==
    ASSUME EngineInv, LogInv, NEW t \in TransactionIds,
           active' = [active EXCEPT ![t] = NoTransaction],
           up, pc # "logged", pc' = "process",
           UNCHANGED <<up, submitted, log, delivered, currentSequenceId, promised,
                       lastDocumentId>>,
           \/ active[t].state = "InSubmit"
           \/ \A p \in promised : p.transaction_id # t,
           \A n \in DOMAIN queue' : \E m \in DOMAIN queue : queue[m] = queue'[n]
    PROVE  LogInv'
<1>1. /\ \A u \in TransactionIds : u # t => active'[u] = active[u]
      /\ active'[t] = NoTransaction /\ active'[t].state = "None"
  BY Typed DEF EngineInv, NoTransaction
<1>2. CommitsOrdered'
  BY DEF LogInv, CommitsOrdered
<1>3. MutationsMatchLog'
  <2>1. \A i \in DOMAIN log : log[i].transaction_id \in TransactionIds
    BY Typed DEF EngineInv, LogEntry
  <2> QED BY <1>1, <2>1 DEF LogInv, MutationsMatchLog
<1>4. StoragesFollowLog'
  <2>1. \A c : ~ InFlight(c) /\ ~ InFlight(c)'
    BY DEF InFlight
  <2>2. {c \in CommitsOf(log) : ~ InFlight(c)}' = {c \in CommitsOf(log) : ~ InFlight(c)}
    BY <2>1
  <2> QED BY <2>2 DEF LogInv, StoragesFollowLog
<1>5. ItemCompatible'
  BY DEF ItemCompatible
<1>6. ActiveCompatible'
  <2> SUFFICES ASSUME NEW u \in TransactionIds, NEW v \in TransactionIds,
                      Live(u)', Live(v)', u # v
               PROVE  ~ Conflicts(u, v)'
    BY DEF ActiveCompatible
  <2>1. u # t /\ v # t /\ Live(u) /\ Live(v)
    BY <1>1 DEF Live, Dangling
  <2>2. Conflicts(u, v)' <=> Conflicts(u, v)
    BY <1>1, <2>1, ConflictsSame
  <2> QED BY <2>1, <2>2 DEF LogInv, ActiveCompatible
<1>7. PromisesLogged'
  BY PromisesLoggedKept
<1>8. PromiseKept'
  <2>1. \A p \in promised : p.transaction_id \in TransactionIds
    BY DEF EngineInv, TypeOK
  <2> QED BY <1>1, <2>1, PromiseKeptOn
<1>9. DraftsFresh' /\ InsertsFresh'
  BY <1>1, DraftsKept
<1> QED BY <1>2, <1>3, <1>4, <1>5, <1>6, <1>7, <1>8, <1>9 DEF LogInv
------------------------------------------------------------------------------
(* LogInv: the steps of the closure                                        *)

(* What remains of the queue was in it.                                    *)
LEMMA Remaining ==
    ASSUME EngineInv, NEW types, Dequeue(types)
    PROVE  /\ \A n \in DOMAIN queue' : \E m \in DOMAIN queue : queue[m] = queue'[n]
           /\ \E m \in DOMAIN queue : queue[m] = Head(queue)
<1>1. queue \in Seq(QueueItem) /\ queue # <<>> /\ queue' = Tail(queue)
  BY DEF Dequeue, EngineInv, TypeOK
<1>2. /\ Len(queue) \in Nat \ {0} /\ DOMAIN queue = 1..Len(queue)
      /\ Head(queue) = queue[1]
  BY <1>1, EmptySeq, LenProperties
<1>3. /\ queue' \in Seq(QueueItem) /\ Len(queue') = Len(queue) - 1
      /\ \A n \in 1..Len(queue') : queue'[n] = queue[n + 1]
  BY <1>1, HeadTailProperties
<1>4. DOMAIN queue' = 1..(Len(queue) - 1)
  BY <1>3, LenProperties
<1>5. \A n \in DOMAIN queue' : n + 1 \in DOMAIN queue /\ queue'[n] = queue[n + 1]
  BY <1>2, <1>3, <1>4
<1>6. 1 \in DOMAIN queue /\ queue[1] = Head(queue)
  BY <1>2
<1>7. \A n \in DOMAIN queue' : \E m \in DOMAIN queue : queue[m] = queue'[n]
  BY <1>5
<1> QED BY <1>6, <1>7

(* processSubmit passes a transaction that is compatible with the others.  *)
LEMMA LogProcessSubmit == ASSUME EngineInv, LogInv, ProcessSubmit PROVE LogInv'
<1> DEFINE t == Head(queue).trid
<1>1. Dequeue({"Submit", "SubmitCommit"})
  BY DEF ProcessSubmit
<1>2. /\ up /\ pc = "process" /\ t \in TransactionIds
      /\ Head(queue).type \in {"Submit", "SubmitCommit"}
      /\ Awaited(t, Head(queue).type)
  BY <1>1, SafetyDequeue
<1>3. active[t].state = "InSubmit"
  BY <1>2 DEF Awaited
<1>4. \A n \in DOMAIN queue' : \E m \in DOMAIN queue : queue[m] = queue'[n]
  BY <1>1, Remaining
<1>5. ASSUME NEW error, SubmitFailure(t, error) PROVE LogInv'
  <2>1. /\ active' = [active EXCEPT ![t] = NoTransaction] /\ pc' = "process"
        /\ UNCHANGED <<up, submitted, log, delivered, currentSequenceId, promised,
                       lastDocumentId>>
    BY <1>5 DEF SubmitFailure, storage
  <2> QED BY <1>2, <1>3, <1>4, <2>1, LogDrop
<1>6. CASE /\ \A other \in submitted : ~ Dangling(other) /\ ~ Conflicts(t, other)
           /\ pc' = "check" /\ item' = Head(queue)
           /\ UNCHANGED <<up, memory, sequenceId, log, storage, acked,
                          promised, rolledBack>>
  <2>1. UNCHANGED <<up, active, submitted, log, lastDocumentId, delivered, promised,
                    sequenceId, currentSequenceId>>
    BY <1>6 DEF memory, storage
  <2>2. CommitsOrdered' /\ MutationsMatchLog'
    BY <2>1 DEF LogInv, CommitsOrdered, MutationsMatchLog
  <2>3. StoragesFollowLog'
    <3>1. \A c : ~ InFlight(c) /\ ~ InFlight(c)'
      BY <1>2, <1>6 DEF InFlight
    <3>2. {c \in CommitsOf(log) : ~ InFlight(c)}' = {c \in CommitsOf(log) : ~ InFlight(c)}
      BY <2>1, <3>1
    <3> QED BY <2>1, <3>2 DEF LogInv, StoragesFollowLog
  <2>4. \A u : Live(u)' <=> Live(u)
    BY <2>1 DEF Live, Dangling
  <2>5. \A u, v : Conflicts(u, v)' <=> Conflicts(u, v)
    BY <2>1, ConflictsSame
  <2>6. ItemCompatible'
    BY <1>6, <2>4, <2>5 DEF ItemCompatible, Live
  <2>7. ActiveCompatible'
    BY <2>4, <2>5 DEF LogInv, ActiveCompatible
  <2>8. PromisesLogged'
    BY <1>4, <2>1, PromisesLoggedKept
  <2>9. PromiseKept'
    BY <1>2, <2>1, PromiseKeptOn
  <2>10. DraftsFresh' /\ InsertsFresh'
    BY <2>1, DraftsKept
  <2> QED BY <2>2, <2>3, <2>6, <2>7, <2>8, <2>9, <2>10 DEF LogInv
<1> QED BY <1>5, <1>6 DEF ProcessSubmit

(* processRollback: nothing was promised about the transaction any more.   *)
LEMMA LogProcessRollback == ASSUME EngineInv, LogInv, ProcessRollback PROVE LogInv'
<1> DEFINE t == Head(queue).trid
<1>1. Dequeue({"Rollback"})
  BY DEF ProcessRollback
<1>2. /\ up /\ pc = "process" /\ t \in TransactionIds
      /\ Head(queue).type = "Rollback" /\ Awaited(t, Head(queue).type)
  BY <1>1, SafetyDequeue
<1>3. /\ \A n \in DOMAIN queue' : \E m \in DOMAIN queue : queue[m] = queue'[n]
      /\ \E m \in DOMAIN queue : queue[m] = Head(queue)
  BY <1>1, Remaining
<1>4. /\ submitted' = submitted /\ pc' = "process"
      /\ active' = [active EXCEPT ![t] = NoTransaction]
      /\ UNCHANGED <<up, log, delivered, currentSequenceId, promised, lastDocumentId>>
  BY <1>2 DEF ProcessRollback, Awaited, loop, storage
<1>5. \A p \in promised : p.transaction_id # t
  BY <1>2, <1>3 DEF LogInv, PromisesLogged
<1> QED BY <1>2, <1>3, <1>4, <1>5, LogDrop

(* submitCheckConstraint *)
LEMMA LogCheckConstraint == ASSUME EngineInv, LogInv, CheckConstraint PROVE LogInv'
<1>1. up /\ pc = "check" /\ item.trid \in TransactionIds
  BY ItemIs DEF CheckConstraint
<1>2. active[item.trid].state = "InSubmit"
  BY <1>1 DEF EngineInv, TypeOK, ItemTypeOK, RequestsServable, Awaited
<1>3. CASE UNCHANGED <<up, memory, wakeup, pc, item, sequenceId, log, storage,
                       clients>>
  BY <1>3, IdleKeeps DEF memory, wakeup, storage, clients
<1>4. CASE SubmitFailure(item.trid, "ConstraintViolation") /\ UNCHANGED wakeup
  <2>1. /\ active' = [active EXCEPT ![item.trid] = NoTransaction] /\ pc' = "process"
        /\ UNCHANGED <<up, submitted, log, delivered, currentSequenceId, promised,
                       lastDocumentId, queue>>
    BY <1>4 DEF SubmitFailure, storage, wakeup
  <2> QED BY <1>1, <1>2, <2>1, LogDrop
<1> QED BY <1>3, <1>4 DEF CheckConstraint

(* submitComplete *)
LEMMA LogSubmitComplete == ASSUME EngineInv, LogInv, SubmitComplete PROVE LogInv'
<1> DEFINE t == item.trid
           n == Len(log)
           new == [transaction_id |-> t, mutations |-> active[t].mutations,
                   constraints |-> active[t].constraints]
<1>1. /\ up /\ pc = "logged" /\ item.type = "Submit" /\ pc' = "process"
      /\ submitted' = submitted \cup {t}
      /\ active' = [active EXCEPT ![t].state = "Submitted"]
      /\ promised' = promised \cup {new}
      /\ UNCHANGED <<up, log, lastDocumentId, delivered, queue, sequenceId,
                     currentSequenceId>>
  BY DEF SubmitComplete, wakeup, storage
<1>2. /\ n \in DOMAIN log /\ log[n].type = "Submit" /\ log[n].transaction_id = t
      /\ t \in TransactionIds /\ active[t].state = "InSubmit"
  BY <1>1, LastEntry DEF Awaited
<1>3. /\ \A u \in TransactionIds : u # t => active'[u] = active[u]
      /\ \A u \in TransactionIds : /\ active'[u].mutations = active[u].mutations
                                   /\ active'[u].constraints = active[u].constraints
      /\ active'[t].state = "Submitted"
  BY <1>1, <1>2, Typed DEF EngineInv, Transaction
<1>4. new.transaction_id = t /\ new.mutations = active[t].mutations
  OBVIOUS
<1> HIDE DEF n, new
<1>5. CommitsOrdered'
  BY <1>1 DEF LogInv, CommitsOrdered
<1>6. MutationsMatchLog'
  <2>1. \A i \in DOMAIN log : log[i].transaction_id \in TransactionIds
    BY Typed DEF EngineInv, LogEntry
  <2> QED BY <1>1, <1>2, <1>3, <2>1 DEF LogInv, MutationsMatchLog
<1>7. StoragesFollowLog'
  <2>1. \A c : ~ InFlight(c) /\ ~ InFlight(c)'
    BY <1>1 DEF InFlight
  <2>2. {c \in CommitsOf(log) : ~ InFlight(c)}' = {c \in CommitsOf(log) : ~ InFlight(c)}
    BY <1>1, <2>1
  <2> QED BY <1>1, <2>2 DEF LogInv, StoragesFollowLog
<1>8. ItemCompatible'
  BY <1>1 DEF ItemCompatible
<1>9. ActiveCompatible'
  <2> SUFFICES ASSUME NEW u \in TransactionIds, NEW v \in TransactionIds,
                      Live(u)', Live(v)', u # v
               PROVE  ~ Conflicts(u, v)'
    BY DEF ActiveCompatible
  <2>1. /\ u # t => Live(u)
        /\ v # t => Live(v)
    BY <1>1, <1>3 DEF Live, Dangling
  <2>2. Conflicts(u, v)' <=> Conflicts(u, v)
    BY <1>3, ConflictsSame
  <2>3. \A w \in TransactionIds : Live(w) /\ w # t => ~ Conflicts(t, w)
    BY <1>1 DEF LogInv, ItemCompatible
  <2>4. CASE u = t
    BY <2>1, <2>2, <2>3, <2>4
  <2>5. CASE v = t
    BY <2>1, <2>2, <2>3, <2>5, ConflictsSymmetric
  <2>6. CASE u # t /\ v # t
    BY <2>1, <2>2, <2>6 DEF LogInv, ActiveCompatible
  <2> QED BY <2>4, <2>5, <2>6
<1>10. PromisesLogged'
  <2> SUFFICES ASSUME NEW p \in promised'
               PROVE  /\ \E i \in DOMAIN log :
                          /\ log[i].type = "Submit"
                          /\ log[i].transaction_id = p.transaction_id
                          /\ Targets(log[i].mutations) = Targets(p.mutations)
                      /\ \A m \in DOMAIN queue :
                          queue[m].type = "Rollback" => queue[m].trid # p.transaction_id
    BY <1>1 DEF PromisesLogged
  <2>1. CASE p \in promised
    BY <2>1 DEF LogInv, PromisesLogged
  <2>2. CASE p = new
    <3>1. Targets(log[n].mutations) = Targets(p.mutations)
      BY <1>1, <1>2, <1>4, <2>2 DEF LogInv, MutationsMatchLog
    <3>2. \A m \in DOMAIN queue : queue[m].trid # t
      BY DEF EngineInv, RequestsServable
    <3> QED BY <1>2, <1>4, <2>2, <3>1, <3>2
  <2> QED BY <1>1, <2>1, <2>2
<1>11. PromiseKept'
  <2> SUFFICES ASSUME NEW p \in promised'
               PROVE  \/ /\ p.transaction_id \in submitted'
                         /\ active'[p.transaction_id].state
                                \in {"Submitted", "InCommitOrRollback"}
                         /\ Targets(active'[p.transaction_id].mutations)
                                = Targets(p.mutations)
                      \/ \E c \in delivered :
                         /\ c.transaction_id = p.transaction_id
                         /\ Targets(c.mutations) = Targets(p.mutations)
    BY <1>1 DEF PromiseKept
  <2>1. CASE p \in promised
    <3>1. p.transaction_id \in TransactionIds
      BY <2>1 DEF EngineInv, TypeOK
    <3> QED BY <1>1, <1>3, <2>1, <3>1 DEF LogInv, PromiseKept
  <2>2. CASE p = new
    BY <1>1, <1>2, <1>3, <1>4, <2>2
  <2> QED BY <1>1, <2>1, <2>2
<1>12. DraftsFresh' /\ InsertsFresh'
  BY <1>1, <1>2, <1>3, DraftsKept
<1> QED BY <1>5, <1>6, <1>7, <1>8, <1>9, <1>10, <1>11, <1>12 DEF LogInv

(* The entry of a request: what the transaction in memory holds, or the    *)
(* commit of what an earlier entry holds.                                  *)
LEMMA LogLogs == ASSUME EngineInv, EngineInv', LogInv, LogSubmit \/ ProcessCommit
                 PROVE  LogInv'
<1> DEFINE n == Len(log) + 1
           t == item'.trid
<1>1. PICK entry \in LogEntry :
          /\ up /\ log' = Append(log, entry)
          /\ entry.type = item'.type /\ entry.transaction_id = t
          /\ t \in TransactionIds
          /\ active' = active /\ submitted' = submitted
          /\ pc # "logged" /\ pc' = "logged"
          /\ sequenceId' = currentSequenceId + 1
          /\ IsCommit(entry) => entry.sequence_id = currentSequenceId + 1
          /\ \/ /\ item' = item /\ pc = "check" /\ queue' = queue
                /\ entry.type \in {"Submit", "SubmitCommit"}
                /\ t \notin IdsOf(log)
                /\ active[t].state = "InSubmit"
                /\ entry.mutations = active[t].mutations
             \/ /\ entry.type = "Commit" /\ ProcessCommit
                /\ entry.mutations = <<>>
                /\ \E u \in Unfinished(log) : log[u].transaction_id = t
  BY Logging
<1>2. /\ DOMAIN log' = DOMAIN log \cup {n} /\ n \notin DOMAIN log
      /\ \A i \in DOMAIN log : log'[i] = log[i]
      /\ log'[n] = entry
      /\ CommitsOf(log') = CommitsOf(log) \cup
            (IF IsCommit(entry) THEN {CommitAt(log', n)} ELSE {})
  BY <1>1, CommitsAppended
<1>3. UNCHANGED <<up, lastDocumentId, delivered, promised>>
  BY DEF LogSubmit, ProcessCommit, storage, clients
<1> HIDE DEF n, t
<1>4. CommitsOrdered'
  <2>1. [Next]_vars
    BY DEF Next, Loop
  <2> QED BY <2>1, OrderKept DEF LogInv
<1>5. MutationsMatchLog'
  BY <1>1, <1>2, <1>3 DEF LogInv, MutationsMatchLog
<1>6. StoragesFollowLog'
  <2>1. \A c \in CommitsOf(log) : c.sequence_id < currentSequenceId + 1
    BY <1>1, NextIsLatest DEF LogInv, History!Latest
  <2>2. currentSequenceId \in Nat
    BY Typed DEF EngineInv
  <2>3. \A c \in CommitsOf(log) : c.sequence_id # currentSequenceId + 1
    <3> SUFFICES ASSUME NEW c \in CommitsOf(log), c.sequence_id = currentSequenceId + 1
                 PROVE  FALSE
      OBVIOUS
    <3> QED BY <2>1, <2>2
  <2>4. \A c \in CommitsOf(log) : ~ InFlight(c) /\ ~ InFlight(c)'
    BY <1>1, <2>3 DEF InFlight
  <2>5. \A c : IsCommit(entry) /\ c.sequence_id = currentSequenceId + 1 => InFlight(c)'
    BY <1>1 DEF InFlight, IsCommit
  <2>6. {c \in CommitsOf(log) : ~ InFlight(c)} = CommitsOf(log)
    BY <2>4
  <2>7. {c \in CommitsOf(log) : ~ InFlight(c)}' = CommitsOf(log)
    <3> DEFINE d == CommitAt(log', n)
    <3>1. IsCommit(entry) => d.sequence_id = currentSequenceId + 1
      BY <1>1, <1>2 DEF CommitAt
    <3>2. CommitsOf(log') = CommitsOf(log) \cup (IF IsCommit(entry) THEN {d} ELSE {})
      BY <1>2
    <3> HIDE DEF d
    <3>3. \A c \in CommitsOf(log') : ~ InFlight(c)' <=> c \in CommitsOf(log)
      BY <2>4, <2>5, <3>1, <3>2
    <3>4. CommitsOf(log) \subseteq CommitsOf(log')
      BY <3>2
    <3> QED BY <3>3, <3>4
  <2> QED BY <1>1, <1>3, <2>6, <2>7 DEF LogInv, StoragesFollowLog
<1>7. \A u : Live(u)' <=> Live(u)
  BY <1>1 DEF Live, Dangling
<1>8. \A u, v : Conflicts(u, v)' <=> Conflicts(u, v)
  BY <1>1, ConflictsSame
<1>9. ItemCompatible' /\ ActiveCompatible'
  BY <1>1, <1>7, <1>8 DEF LogInv, ItemCompatible, ActiveCompatible
<1>10. PromisesLogged'
  <2>1. \A m \in DOMAIN queue' : \E k \in DOMAIN queue : queue[k] = queue'[m]
    <3>1. CASE ProcessCommit
      BY <3>1, Remaining DEF ProcessCommit
    <3>2. CASE queue' = queue
      BY <3>2
    <3> QED BY <1>1, <3>1, <3>2
  <2> QED BY <1>2, <1>3, <2>1, PromisesLoggedKept
<1>11. PromiseKept'
  BY <1>1, <1>3, PromiseKeptOn
<1>12. \/ entry.mutations = <<>> /\ DOMAIN entry.mutations = {}
       \/ t \in Drafts /\ entry.mutations = active[t].mutations
  BY <1>1 DEF Drafts
<1>13. Drafts' \subseteq Drafts /\ t \notin Drafts'
  <2>1. IdsOf(log)' = IdsOf(log) \cup {t}
    BY <1>1, <1>2 DEF IdsOf
  <2> QED BY <1>1, <2>1 DEF Drafts
<1>14. DraftsFresh'
  <2>1. /\ \A i \in DOMAIN log : \A h \in DOMAIN log[i].mutations :
                Allocated(log[i].mutations[h])
        /\ \A u \in Drafts : \A m \in DOMAIN active[u].mutations :
            /\ Allocated(active[u].mutations[m])
            /\ active[u].mutations[m].type = "Insert" =>
                /\ \A i \in DOMAIN log : \A h \in DOMAIN log[i].mutations :
                        active[u].mutations[m] # log[i].mutations[h]
                /\ \A v \in Drafts : \A h \in DOMAIN active[v].mutations :
                        active[u].mutations[m] = active[v].mutations[h]
                            => v = u /\ h = m
    BY <1>1 DEF LogInv, DraftsFresh
  <2>2. \A x : Allocated(x)' <=> Allocated(x)
    BY <1>3 DEF Allocated
  <2>3. \A i \in DOMAIN log' : \A h \in DOMAIN log'[i].mutations :
            Allocated(log'[i].mutations[h])
    BY <1>2, <1>12, <2>1
  <2>4. \A u \in Drafts' : \A m \in DOMAIN active[u].mutations :
            active[u].mutations[m].type = "Insert" =>
            \A h \in DOMAIN log'[n].mutations :
                active[u].mutations[m] # log'[n].mutations[h]
    BY <1>2, <1>12, <1>13, <2>1
  <2> QED BY <1>1, <1>2, <1>3, <1>13, <2>1, <2>2, <2>3, <2>4 DEF DraftsFresh, Allocated
<1>15. InsertsFresh'
  <2> SUFFICES ASSUME NEW i \in DOMAIN log', NEW j \in DOMAIN log',
                      NEW m \in DOMAIN log'[i].mutations,
                      NEW k \in DOMAIN log'[j].mutations,
                      log'[i].mutations[m] = log'[j].mutations[k],
                      log'[i].mutations[m].type = "Insert"
               PROVE  i = j /\ m = k
    BY DEF InsertsFresh
  <2>1. /\ (i \in DOMAIN log /\ log'[i] = log[i]) \/ (i = n /\ log'[i] = entry)
        /\ (j \in DOMAIN log /\ log'[j] = log[j]) \/ (j = n /\ log'[j] = entry)
    BY <1>2
  <2>2. CASE i \in DOMAIN log /\ j \in DOMAIN log
    BY <1>2, <2>2 DEF LogInv, InsertsFresh
  <2>3. CASE i = n \/ j = n
    <3>1. t \in Drafts /\ entry.mutations = active[t].mutations
      BY <1>2, <1>12, <2>3
    <3> QED BY <1>1, <1>2, <2>1, <2>3, <3>1 DEF LogInv, DraftsFresh
  <2> QED BY <2>1, <2>2, <2>3
<1> QED BY <1>4, <1>5, <1>6, <1>9, <1>10, <1>11, <1>14, <1>15 DEF LogInv

(* commitComplete: the storages get what the last entry commits.           *)
LEMMA LogCommitComplete == ASSUME EngineInv, LogInv, CommitComplete PROVE LogInv'
<1> DEFINE t == item.trid
           n == Len(log)
           new == [transaction_id |-> t, sequence_id |-> sequenceId,
                   mutations |-> active[t].mutations]
<1>1. /\ up /\ pc = "logged" /\ item.type \in {"Commit", "SubmitCommit"}
      /\ pc' = "process" /\ submitted' = submitted \ {t}
      /\ active' = [active EXCEPT ![t] = NoTransaction]
      /\ delivered' = delivered \cup {new}
      /\ promised' = {p \in promised : p.transaction_id # t}
      /\ UNCHANGED <<up, log, lastDocumentId, queue, sequenceId, currentSequenceId>>
  BY DEF CommitComplete, wakeup
<1>2. /\ n \in DOMAIN log /\ \A i \in DOMAIN log : i \in Nat /\ i <= n
      /\ log[n].type = item.type /\ log[n].transaction_id = t
      /\ log[n].sequence_id = sequenceId
      /\ t \in TransactionIds /\ active[t].state # "None"
  BY <1>1, LastEntry DEF Awaited
<1>3. /\ \A u \in TransactionIds : u # t => active'[u] = active[u]
      /\ active'[t] = NoTransaction /\ active'[t].state = "None"
  BY <1>1, <1>2, Typed DEF EngineInv, NoTransaction
<1>4. /\ new.transaction_id = t /\ new.sequence_id = sequenceId
      /\ new.mutations = active[t].mutations
  OBVIOUS
<1> HIDE DEF n
<1>5. CommitsOrdered'
  BY <1>1 DEF LogInv, CommitsOrdered
<1>6. MutationsMatchLog'
  <2>1. \A i \in DOMAIN log : log[i].transaction_id \in TransactionIds
    BY Typed DEF EngineInv, LogEntry
  <2> QED BY <1>1, <1>3, <2>1 DEF LogInv, MutationsMatchLog
<1>7. Targets(CommitMutations(log, n)) = Targets(active[t].mutations)
  <2>1. CASE log[n].type = "SubmitCommit"
    BY <1>1, <1>2, <2>1 DEF LogInv, MutationsMatchLog, CommitMutations
  <2>2. CASE log[n].type = "Commit"
    <3>1. PICK j \in DOMAIN log :
              /\ log[j].type = "Submit" /\ log[j].transaction_id = t
              /\ CommitMutations(log, n) = log[j].mutations
      BY <1>2, <2>2, SubmitOfCommit
    <3> QED BY <1>1, <1>2, <3>1 DEF LogInv, MutationsMatchLog
  <2> QED BY <1>1, <1>2, <2>1, <2>2
<1>8. StoragesFollowLog'
  <2> DEFINE last == CommitAt(log, n)
             others == {c \in CommitsOf(log) : ~ InFlight(c)}
  <2>1. last \in CommitsOf(log)
    BY <1>1, <1>2, CommitsAt DEF CommitIndices, IsCommit
  <2>2. \A c \in CommitsOf(log) : InFlight(c) => c = last
    <3> SUFFICES ASSUME NEW i \in CommitIndices(log), InFlight(CommitAt(log, i))
                 PROVE  i = n
      BY CommitsAt
    <3>1. log[i].sequence_id = sequenceId
      BY DEF InFlight, CommitAt
    <3>2. i \in DOMAIN log /\ IsCommit(log[i]) /\ IsCommit(log[n])
      BY <1>1, <1>2 DEF CommitIndices, IsCommit
    <3>3. log[i].sequence_id \in Nat
      BY <3>2, Typed DEF EngineInv, LogEntry
    <3>4. i < n => log[i].sequence_id < log[n].sequence_id
      BY <1>2, <3>2 DEF LogInv, CommitsOrdered
    <3> QED BY <1>2, <3>1, <3>2, <3>3, <3>4
  <2>3. CommitsOf(log) = others \cup {last}
    <3>1. InFlight(last)
      BY <1>1, <1>2 DEF InFlight, CommitAt
    <3> HIDE DEF last
    <3> QED BY <2>1, <2>2, <3>1
  <2>4. [last EXCEPT !.mutations = Targets(@)] = [new EXCEPT !.mutations = Targets(@)]
    BY <1>2, <1>7 DEF CommitAt
  <2>5. TargetsOf(delivered) = TargetsOf(others)
    BY <1>1 DEF LogInv, StoragesFollowLog
  <2>6. {c \in CommitsOf(log) : ~ InFlight(c)}' = CommitsOf(log)
    BY <1>1 DEF InFlight
  <2> HIDE DEF others, last, new
  <2>7. TargetsOf(delivered \cup {new}) =
            TargetsOf(delivered) \cup {[new EXCEPT !.mutations = Targets(@)]}
    BY DEF TargetsOf
  <2>8. TargetsOf(others \cup {last}) =
            TargetsOf(others) \cup {[last EXCEPT !.mutations = Targets(@)]}
    BY DEF TargetsOf
  <2>9. TargetsOf(delivered') = TargetsOf(CommitsOf(log))
    BY <1>1, <2>3, <2>4, <2>5, <2>7, <2>8
  <2> QED BY <2>6, <2>9 DEF StoragesFollowLog, TargetsOf
<1>9. ItemCompatible'
  BY <1>1 DEF ItemCompatible
<1>10. ActiveCompatible'
  <2> SUFFICES ASSUME NEW u \in TransactionIds, NEW v \in TransactionIds,
                      Live(u)', Live(v)', u # v
               PROVE  ~ Conflicts(u, v)'
    BY DEF ActiveCompatible
  <2>1. u # t /\ v # t /\ Live(u) /\ Live(v)
    BY <1>1, <1>3 DEF Live, Dangling
  <2>2. Conflicts(u, v)' <=> Conflicts(u, v)
    BY <1>3, <2>1, ConflictsSame
  <2> QED BY <2>1, <2>2 DEF LogInv, ActiveCompatible
<1>11. PromisesLogged'
  BY <1>1, PromisesLoggedKept
<1>12. PromiseKept'
  <2>1. \A p \in promised : p.transaction_id \in TransactionIds
    BY DEF EngineInv, TypeOK
  <2> QED BY <1>1, <1>3, <2>1, PromiseKeptOn
<1>13. DraftsFresh' /\ InsertsFresh'
  BY <1>1, <1>3, DraftsKept
<1> QED BY <1>5, <1>6, <1>8, <1>9, <1>10, <1>11, <1>12, <1>13 DEF LogInv
------------------------------------------------------------------------------
(* LogInv: the end of the process and a new start                          *)

(* A crash leaves the log and forgets the rest.                           *)
LEMMA LogStop == ASSUME EngineInv, LogInv, Stop PROVE LogInv'
<1>1. /\ ~ up' /\ pc' = "process" /\ submitted' = {} /\ queue' = <<>>
      /\ \A t \in TransactionIds : active'[t] = NoTransaction
      /\ UNCHANGED <<log, promised>>
  BY DEF Stop
<1>2. CommitsOrdered' /\ MutationsMatchLog' /\ StoragesFollowLog'
  BY <1>1 DEF LogInv, CommitsOrdered, MutationsMatchLog, StoragesFollowLog
<1>3. ItemCompatible' /\ ActiveCompatible'
  BY <1>1 DEF ItemCompatible, ActiveCompatible, Live
<1>4. PromisesLogged' /\ PromiseKept'
  BY <1>1 DEF LogInv, PromisesLogged, PromiseKept
<1>5. DraftsFresh' /\ InsertsFresh'
  BY <1>1 DEF LogInv, DraftsFresh, InsertsFresh
<1> QED BY <1>2, <1>3, <1>4, <1>5 DEF LogInv

(* A replayed mutation has the target of the logged one.                   *)
LEMMA ReplayKeepsTargets ==
    ASSUME NEW mutations \in Seq(Mutation)
    PROVE  Targets(AsReplayed(mutations)) = Targets(mutations)
<1>1. \A n \in DOMAIN mutations : mutations[n] \in Mutation
  BY ElementOfSeq, LenProperties
<1>2. \A n \in DOMAIN mutations :
          /\ AsReplayed(mutations)[n].storageIndex = mutations[n].storageIndex
          /\ AsReplayed(mutations)[n].documentId = mutations[n].documentId
  BY <1>1 DEF AsReplayed, Mutation
<1>3. DOMAIN AsReplayed(mutations) = DOMAIN mutations
  BY DEF AsReplayed
<1> QED BY <1>2, <1>3 DEF Targets

(* What loadConfig puts into memory.                                       *)
LEMMA Reloaded ==
    ASSUME EngineInv, Restart
    PROVE  /\ submitted' \subseteq IdsOf(log)
           /\ \A t \in TransactionIds :
                /\ active'[t].constraints = <<>>
                /\ t \notin submitted' => active'[t] = NoTransaction
           /\ \A i \in Unfinished(log) :
                LET t == log[i].transaction_id IN
                /\ t \in submitted' /\ t \in TransactionIds
                /\ active'[t].state = "Submitted"
                /\ Targets(active'[t].mutations) = Targets(log[i].mutations)
           /\ \A t \in submitted' : \E i \in Unfinished(log) :
                    log[i].transaction_id = t
<1>1. submitted' = {p.transaction_id : p \in PreparedOf(log)}
  BY DEF Restart
<1>2. \A t \in submitted' : \E i \in Unfinished(log) : log[i].transaction_id = t
  BY <1>1, PreparedAre DEF PreparedAt
<1>3. submitted' \subseteq IdsOf(log)
  BY <1>2 DEF IdsOf, Unfinished
<1>4. \A t \in TransactionIds :
          /\ active'[t].constraints = <<>>
          /\ t \notin submitted' => active'[t] = NoTransaction
  BY <1>1 DEF Restart, NoTransaction
<1>5. ASSUME NEW i \in Unfinished(log)
      PROVE  LET t == log[i].transaction_id IN
             /\ t \in submitted' /\ t \in TransactionIds
             /\ active'[t].state = "Submitted"
             /\ Targets(active'[t].mutations) = Targets(log[i].mutations)
  <2> DEFINE t == log[i].transaction_id
             p == PreparedAt(log, i)
             Chosen(u) == CHOOSE x \in PreparedOf(log) : x.transaction_id = u
  <2>1. i \in DOMAIN log /\ log[i].type = "Submit" /\ log[i] \in LogEntry
    BY Typed DEF EngineInv, Unfinished
  <2>2. t \in TransactionIds /\ log[i].mutations \in Seq(Mutation)
    BY <2>1 DEF LogEntry
  <2>3. p \in PreparedOf(log) /\ p.transaction_id = t /\ p.mutations = log[i].mutations
    BY PreparedAre DEF PreparedAt
  <2>4. \A x \in PreparedOf(log) : x.transaction_id = t => x = p
    <3> SUFFICES ASSUME NEW j \in Unfinished(log), PreparedAt(log, j).transaction_id = t
                 PROVE  j = i
      BY PreparedAre
    <3>1. j \in DOMAIN log /\ log[j].type = "Submit"
      BY DEF Unfinished
    <3> QED BY <2>1, <3>1 DEF PreparedAt, EngineInv, LogWellFormed
  <2> HIDE DEF t, p
  <2>5. Chosen(t) = p
    BY <2>3, <2>4
  <2>6. active'[t] = [state |-> "Submitted", constraints |-> <<>>,
                      mutations |-> AsReplayed(Chosen(t).mutations)]
    <3>1. active' = [u \in TransactionIds |->
                IF \E x \in PreparedOf(log) : x.transaction_id = u
                THEN [state |-> "Submitted", mutations |-> AsReplayed(Chosen(u).mutations),
                      constraints |-> <<>>]
                ELSE NoTransaction]
      BY DEF Restart
    <3> HIDE DEF Chosen
    <3> QED BY <2>2, <2>3, <3>1
  <2> HIDE DEF Chosen
  <2>7. active'[t].state = "Submitted" /\ active'[t].mutations = AsReplayed(p.mutations)
    BY <2>5, <2>6
  <2>8. Targets(active'[t].mutations) = Targets(log[i].mutations)
    BY <2>2, <2>3, <2>7, ReplayKeepsTargets
  <2>9. t \in submitted'
    BY <1>1, <2>3
  <2> QED BY <2>2, <2>7, <2>8, <2>9 DEF t
<1> QED BY <1>2, <1>3, <1>4, <1>5

(* loadConfig *)
LEMMA LogRestart == ASSUME EngineInv, LogInv, Restart PROVE LogInv'
<1>1. /\ ~ up /\ up' /\ queue' = <<>> /\ pc' = "process"
      /\ UNCHANGED <<log, promised>>
  BY DEF Restart, EngineInv, StoppedIsIdle, wakeup, loop, clients
<1>2. CommitsOrdered'
  <2>1. [Next]_vars
    BY DEF Next
  <2> QED BY <2>1, OrderKept DEF LogInv
<1>3. MutationsMatchLog'
  <2>1. \A t \in TransactionIds : active'[t].state = "None" => active'[t] = NoTransaction
    BY Reloaded
  <2>2. ASSUME NEW i \in DOMAIN log, log[i].type # "Commit",
               active'[log[i].transaction_id].state # "None"
        PROVE  Targets(active'[log[i].transaction_id].mutations)
                    = Targets(log[i].mutations)
    <3>1. log[i].transaction_id \in TransactionIds
      BY Typed DEF EngineInv, LogEntry
    <3>2. log[i].transaction_id \in submitted'
      BY <2>2, <3>1, Reloaded DEF NoTransaction
    <3>3. PICK j \in Unfinished(log) : log[j].transaction_id = log[i].transaction_id
      BY <3>2, Reloaded
    <3>4. j = i
      BY <2>2, <3>3 DEF Unfinished, EngineInv, LogWellFormed
    <3> QED BY <3>3, <3>4, Reloaded
  <2> QED BY <1>1, <2>1, <2>2 DEF MutationsMatchLog
<1>4. StoragesFollowLog'
  <2> DEFINE Replayed(c) == [c EXCEPT !.mutations = AsReplayed(@)]
             Target(c) == [c EXCEPT !.mutations = Targets(@)]
  <2>1. delivered' = {Replayed(c) : c \in CommitsOf(log)}
    BY DEF Restart
  <2>2. ASSUME NEW c \in CommitsOf(log)
        PROVE  Target(Replayed(c)) = Target(c)
    <3>1. c \in Commits
      BY CommitsType DEF EngineInv, TypeOK, LogWellFormed, LogReplayable
    <3>2. Targets(AsReplayed(c.mutations)) = Targets(c.mutations)
      BY <3>1, ReplayKeepsTargets DEF Commits
    <3> QED BY <3>1, <3>2 DEF Commits
  <2>3. TargetsOf(delivered') = {Target(c) : c \in delivered'}
        /\ TargetsOf(CommitsOf(log)) = {Target(c) : c \in CommitsOf(log)}
    BY DEF TargetsOf
  <2> HIDE DEF Replayed, Target
  <2>4. TargetsOf(delivered') = TargetsOf(CommitsOf(log))
    BY <2>1, <2>2, <2>3
  <2>5. {c \in CommitsOf(log) : ~ InFlight(c)}' = CommitsOf(log)
    BY <1>1 DEF InFlight
  <2> QED BY <2>4, <2>5 DEF StoragesFollowLog, TargetsOf
<1>5. ItemCompatible' /\ ActiveCompatible'
  <2>1. \A t, u \in TransactionIds : ~ Conflicts(t, u)'
    BY Reloaded DEF Conflicts, ConstraintConflict, MutationConflict, Clash, Range
  <2> QED BY <1>1, <2>1 DEF ItemCompatible, ActiveCompatible
<1>6. PromisesLogged'
  BY <1>1 DEF LogInv, PromisesLogged
<1>7. PromiseKept'
  <2> SUFFICES ASSUME NEW p \in promised
               PROVE  \/ /\ p.transaction_id \in submitted'
                         /\ active'[p.transaction_id].state
                                \in {"Submitted", "InCommitOrRollback"}
                         /\ Targets(active'[p.transaction_id].mutations)
                                = Targets(p.mutations)
                      \/ \E c \in delivered' :
                         /\ c.transaction_id = p.transaction_id
                         /\ Targets(c.mutations) = Targets(p.mutations)
    BY <1>1 DEF PromiseKept
  <2>1. PICK i \in DOMAIN log :
            /\ log[i].type = "Submit" /\ log[i].transaction_id = p.transaction_id
            /\ Targets(log[i].mutations) = Targets(p.mutations)
    BY DEF LogInv, PromisesLogged
  <2>2. CASE i \in Unfinished(log)
    BY <2>1, <2>2, Reloaded
  <2>3. CASE i \notin Unfinished(log)
    <3>1. PICK k \in DOMAIN log :
              log[k].type = "Commit" /\ log[k].transaction_id = log[i].transaction_id
      BY <2>1, <2>3 DEF Unfinished
    <3>2. CommitMutations(log, k) = log[i].mutations
      BY <2>1, <3>1, CommitOfSubmit
    <3> DEFINE c == CommitAt(log, k)
               d == [c EXCEPT !.mutations = AsReplayed(@)]
    <3>3. c \in CommitsOf(log)
      BY <3>1, CommitsAt DEF CommitIndices, IsCommit
    <3>4. c.transaction_id = p.transaction_id /\ c.mutations = log[i].mutations
      BY <2>1, <3>1, <3>2 DEF CommitAt
    <3>5. c \in Commits
      BY <3>3, CommitsType DEF EngineInv, TypeOK, LogWellFormed, LogReplayable
    <3> HIDE DEF c
    <3>6. d \in delivered' /\ d.transaction_id = c.transaction_id
          /\ d.mutations = AsReplayed(c.mutations)
      BY <3>3, <3>5 DEF Restart, Commits
    <3>7. Targets(d.mutations) = Targets(p.mutations)
      BY <2>1, <3>4, <3>5, <3>6, ReplayKeepsTargets DEF Commits
    <3> HIDE DEF d
    <3> QED BY <3>4, <3>6, <3>7
  <2> QED BY <2>2, <2>3
<1>8. DraftsFresh' /\ InsertsFresh'
  <2>1. Drafts' = {}
    BY <1>1, Reloaded DEF Drafts, NoTransaction
  <2>2. PICK largest \in {0} \cup DocumentIdsOf(log) :
            /\ \A d \in DocumentIdsOf(log) : d <= largest
            /\ lastDocumentId' = [s \in Storages |-> largest]
    BY DEF Restart, IsLargest
  <2>3. ASSUME NEW i \in DOMAIN log, NEW n \in DOMAIN log[i].mutations
        PROVE  Allocated(log[i].mutations[n])'
    <3> DEFINE q == log[i].mutations
    <3>1. q \in Seq(Mutation) /\ n \in DOMAIN q
      BY Typed DEF EngineInv, LogEntry
    <3>2. q[n].documentId \in DocumentIdsOf(log)
      <4>1. q[n] \in Range(log[i].mutations)
        BY <3>1 DEF Range
      <4> QED BY <4>1 DEF DocumentIdsOf
    <3> HIDE DEF q
    <3>3. q[n] \in Mutation
      BY <3>1, ElementOfSeq, LenProperties
    <3>4. q[n].documentId <= lastDocumentId'[q[n].storageIndex]
      BY <2>2, <3>2, <3>3 DEF Mutation
    <3> QED BY <1>1, <3>4 DEF Allocated, q
  <2>4. InsertsFresh'
    BY <1>1 DEF LogInv, InsertsFresh
  <2> QED BY <1>1, <2>1, <2>3, <2>4 DEF DraftsFresh
<1> QED BY <1>2, <1>3, <1>4, <1>5, <1>6, <1>7, <1>8 DEF LogInv
------------------------------------------------------------------------------
(* The first state satisfies LogInv ...                                    *)
LEMMA LogInit == Init => LogInv
<1> SUFFICES ASSUME Init PROVE LogInv
  OBVIOUS
<1>1. /\ log = <<>> /\ DOMAIN log = {} /\ pc = "process" /\ submitted = {}
      /\ promised = {} /\ delivered = {}
      /\ \A t \in TransactionIds : active[t] = NoTransaction
  BY DEF Init
<1>2. CommitsOf(log) = {}
  BY <1>1 DEF CommitsOf
<1>3. StoragesFollowLog
  BY <1>1, <1>2 DEF StoragesFollowLog, TargetsOf
<1> QED BY <1>1, <1>3
        DEF LogInv, CommitsOrdered, MutationsMatchLog, ItemCompatible,
            ActiveCompatible, Live, PromisesLogged, PromiseKept, DraftsFresh,
            Drafts, NoTransaction, InsertsFresh

(* ... and no step breaks it.                                              *)
LEMMA LogNext == ASSUME EngineInv, EngineInv', LogInv, [Next]_vars PROVE LogInv'
<1> USE DEF memory, loop, wakeup, storage, clients
<1>1. CASE BeginTransaction
  BY <1>1, LogBegin
<1>2. CASE \E t \in TransactionIds : UpdateMutation(t)
  BY <1>2, LogUpdateMutation DEF UpdateMutation
<1>3. CASE \E t \in TransactionIds, c \in Offered : UpdateConstraint(t, c)
  BY <1>3, LogUpdateConstraint
<1>4. CASE \E t \in TransactionIds :
                Submit(t) \/ SubmitCommit(t) \/ Commit(t) \/ Rollback(t)
  BY <1>4, LogEnqueue
<1>5. CASE Signal \/ \E s \in Storages : StorageApply(s)
  BY <1>5, IdleKeeps DEF Signal, StorageApply
<1>6. CASE FindEmpty \/ Wait \/ WakeUp
  <2>1. /\ UNCHANGED <<up, active, submitted, log, lastDocumentId, delivered, promised,
                       queue, item, sequenceId, currentSequenceId>>
        /\ {pc, pc'} \cap {"check", "logged"} = {}
    BY <1>6 DEF FindEmpty, Wait, WakeUp
  <2> QED BY <2>1, IdleKeeps
<1>7. CASE ProcessSubmit \/ ProcessSubmitThrows \/ CheckConstraint
  BY <1>7, LogProcessSubmit, LogStop, LogCheckConstraint DEF ProcessSubmitThrows
<1>8. CASE LogSubmit \/ ProcessCommit
  BY <1>8, LogLogs
<1>9. CASE SubmitComplete \/ CommitComplete \/ ProcessRollback
  BY <1>9, LogSubmitComplete, LogCommitComplete, LogProcessRollback
<1>10. CASE Crash \/ Restart
  BY <1>10, LogStop, LogRestart DEF Crash
<1>11. CASE UNCHANGED vars
  BY <1>11, IdleKeeps DEF vars
<1> QED BY <1>1, <1>2, <1>3, <1>4, <1>5, <1>6, <1>7, <1>8, <1>9, <1>10, <1>11
        DEF Next, Client, Loop

(* What the log, the storages, the promises and the transactions in memory *)
(* have to do with each other, in every reachable state of the engine.     *)
THEOREM LogSafety == Spec => []LogInv
BY LogInit, LogNext, Safety, PTL DEF Spec

------------------------------------------------------------------------------
(* What was promised is what is in memory, unless a restart came between:  *)
(* a transaction submitted since the start has the mutations and the       *)
(* constraints its client was promised, and nobody submits it again.       *)
PromiseCurrent(p) ==
    LET t == p.transaction_id IN
    /\ ~ (pc = "logged" /\ item.type = "Submit" /\ item.trid = t)
    /\ t \in submitted \ restored =>
        /\ active[t].state \in {"Submitted", "InCommitOrRollback"}
        /\ active[t].mutations = p.mutations
        /\ active[t].constraints = p.constraints

PromisesCurrent == \A p \in promised : PromiseCurrent(p)

(* A step that submits nothing, and leaves alone what is submitted.        *)
LEMMA PromisesCurrentKept ==
    ASSUME PromisesCurrent, promised' \subseteq promised,
           UNCHANGED <<pc, item>> \/ pc' # "logged" \/ item'.type # "Submit",
           submitted' \ restored' \subseteq submitted \ restored,
           \A p \in promised' :
                LET t == p.transaction_id IN
                /\ t \in submitted' \ restored'
                /\ active[t].state \in {"Submitted", "InCommitOrRollback"}
                => /\ active'[t].state \in {"Submitted", "InCommitOrRollback"}
                   /\ active'[t].mutations = active[t].mutations
                   /\ active'[t].constraints = active[t].constraints
    PROVE  PromisesCurrent'
<1> SUFFICES ASSUME NEW p \in promised' PROVE PromiseCurrent(p)'
  BY DEF PromisesCurrent
<1>1. PromiseCurrent(p)
  BY DEF PromisesCurrent
<1> QED BY <1>1 DEF PromiseCurrent

(* The calls of the clients *)
LEMMA PromisesCurrentClient ==
    ASSUME EngineInv, PromisesCurrent, Client
    PROVE  PromisesCurrent'
<1> USE DEF memory, loop, wakeup, storage, clients
<1>1. CASE BeginTransaction
  <2>1. nextTransactId \in TransactionIds /\ up
    BY <1>1 DEF BeginTransaction, EngineInv, TypeOK, TransactionIds
  <2>2. nextTransactId \notin submitted
    BY <2>1 DEF EngineInv, StateMatchesLog, TransactionIds
  <2>3. /\ \A u \in TransactionIds : u # nextTransactId => active'[u] = active[u]
        /\ submitted \subseteq TransactionIds
    BY <1>1, <2>1 DEF BeginTransaction, EngineInv, TypeOK
  <2>4. UNCHANGED <<pc, item, submitted, restored, promised>>
    BY <1>1 DEF BeginTransaction
  <2> QED BY <2>2, <2>3, <2>4, PromisesCurrentKept
<1>2. ASSUME NEW t \in TransactionIds, up, active[t].state = "Open",
             \A u \in TransactionIds : u # t => active'[u] = active[u],
             UNCHANGED <<pc, item, submitted, restored, promised>>
      PROVE  PromisesCurrent'
  <2>1. \A p \in promised : p.transaction_id \in TransactionIds
    BY DEF EngineInv, TypeOK
  <2> QED BY <1>2, <2>1, PromisesCurrentKept
<1>3. ASSUME NEW t \in TransactionIds, UpdateMutation(t) PROVE PromisesCurrent'
  <2>1. PICK m : AddMutation(t, m)
    BY <1>3 DEF UpdateMutation, UpdateMutationInsert, UpdateMutationModify
  <2>2. \A u \in TransactionIds : u # t => active'[u] = active[u]
    BY <2>1 DEF AddMutation, EngineInv, TypeOK
  <2> QED BY <1>2, <2>1, <2>2 DEF AddMutation
<1>4. ASSUME NEW t \in TransactionIds, NEW c \in Offered, UpdateConstraint(t, c)
      PROVE  PromisesCurrent'
  <2>1. \A u \in TransactionIds : u # t => active'[u] = active[u]
    BY <1>4 DEF UpdateConstraint, EngineInv, TypeOK
  <2> QED BY <1>2, <1>4, <2>1 DEF UpdateConstraint
<1>5. ASSUME NEW t \in TransactionIds,
             Submit(t) \/ SubmitCommit(t) \/ Commit(t) \/ Rollback(t)
      PROVE  PromisesCurrent'
  <2>1. PICK to \in TransactionState :
            /\ active' = [active EXCEPT ![t].state = to]
            /\ active[t].state = "Open" \/ to = "InCommitOrRollback"
            /\ promised' \subseteq promised
            /\ UNCHANGED <<pc, item, submitted, restored>>
    BY <1>5 DEF Submit, SubmitCommit, Commit, Rollback, Enqueue, TransactionState
  <2>2. \A u \in TransactionIds : /\ u # t => active'[u] = active[u]
                                  /\ active'[u].mutations = active[u].mutations
                                  /\ active'[u].constraints = active[u].constraints
    BY <2>1, Typed DEF EngineInv, Transaction
  <2>3. active'[t].state = to
    BY <2>1, Typed DEF EngineInv, Transaction
  <2>4. \A p \in promised : p.transaction_id \in TransactionIds
    BY DEF EngineInv, TypeOK
  <2> QED BY <2>1, <2>2, <2>3, <2>4, PromisesCurrentKept
<1> QED BY <1>1, <1>3, <1>4, <1>5 DEF Client

(* A transaction that is dropped was not promised, or is not any more.     *)
LEMMA PromisesCurrentDrop ==
    ASSUME EngineInv, PromisesCurrent, NEW t \in TransactionIds,
           active' = [active EXCEPT ![t] = NoTransaction],
           promised' \subseteq promised, UNCHANGED restored,
           submitted' \subseteq submitted,
           UNCHANGED <<pc, item>> \/ pc' # "logged",
           \/ active[t].state = "InSubmit"
           \/ \A p \in promised' : p.transaction_id # t
    PROVE  PromisesCurrent'
<1>1. \A u \in TransactionIds : u # t => active'[u] = active[u]
  BY DEF EngineInv, TypeOK
<1>2. \A p \in promised : p.transaction_id \in TransactionIds
  BY DEF EngineInv, TypeOK
<1> QED BY <1>1, <1>2, PromisesCurrentKept

(* The steps of the closure *)
LEMMA PromisesCurrentLoop ==
    ASSUME EngineInv, LogInv, PromisesCurrent, Loop \/ CheckConstraint
    PROVE  PromisesCurrent'
<1> USE DEF memory, loop, wakeup, storage, clients
<1>1. CASE FindEmpty \/ Wait \/ WakeUp
  <2>1. UNCHANGED <<active, submitted, restored, promised>> /\ pc' # "logged"
    BY <1>1 DEF FindEmpty, Wait, WakeUp
  <2> QED BY <2>1, PromisesCurrentKept
<1>2. ASSUME NEW t \in TransactionIds, active[t].state = "InSubmit",
             NEW error, SubmitFailure(t, error)
      PROVE  PromisesCurrent'
  <2>1. /\ active' = [active EXCEPT ![t] = NoTransaction] /\ pc' # "logged"
        /\ UNCHANGED <<promised, restored, submitted>>
    BY <1>2 DEF SubmitFailure
  <2> QED BY <1>2, <2>1, PromisesCurrentDrop
<1>3. CASE ProcessSubmit
  <2>1. Dequeue({"Submit", "SubmitCommit"})
    BY <1>3 DEF ProcessSubmit
  <2>2. /\ Head(queue).trid \in TransactionIds
        /\ active[Head(queue).trid].state = "InSubmit"
    BY <2>1, SafetyDequeue DEF Awaited
  <2>3. CASE \E error : SubmitFailure(Head(queue).trid, error)
    BY <1>2, <2>2, <2>3
  <2>4. CASE pc' = "check" /\ UNCHANGED <<restored, active, submitted, promised>>
    BY <2>4, PromisesCurrentKept
  <2> QED BY <1>3, <2>3, <2>4 DEF ProcessSubmit
<1>4. CASE CheckConstraint
  <2>1. item.trid \in TransactionIds
    BY <1>4, ItemIs DEF CheckConstraint
  <2>2. CASE SubmitFailure(item.trid, "ConstraintViolation")
    <3>1. active[item.trid].state = "InSubmit"
      BY <1>4 DEF CheckConstraint, EngineInv, TypeOK, ItemTypeOK, RequestsServable,
                  Awaited
    <3> QED BY <1>2, <2>1, <2>2, <3>1
  <2>3. CASE UNCHANGED <<pc, item, restored, active, submitted, promised>>
    BY <2>3, PromisesCurrentKept
  <2> QED BY <1>4, <2>2, <2>3 DEF CheckConstraint
<1>5. CASE LogSubmit
  <2>1. /\ up /\ pc = "check" /\ pc' = "logged" /\ item.type \in {"Submit", "SubmitCommit"}
        /\ UNCHANGED <<item, restored, active, submitted, promised>>
    BY <1>5 DEF LogSubmit, WriteAhead, EngineInv, TypeOK, ItemTypeOK
  <2>2. active[item.trid].state = "InSubmit" /\ item.trid \in TransactionIds
    BY <2>1, ItemIs DEF EngineInv, RequestsServable, Awaited
  <2>3. item.trid \notin IdsOf(log)
    BY <2>1, <2>2 DEF EngineInv, StateMatchesLog, Completing
  <2>4. \A p \in promised : p.transaction_id \in IdsOf(log)
    BY DEF LogInv, PromisesLogged, IdsOf
  <2> QED BY <2>1, <2>3, <2>4 DEF PromisesCurrent, PromiseCurrent
<1>6. CASE ProcessCommit
  <2>1. /\ item'.type = "Commit"
        /\ UNCHANGED <<restored, active, submitted, promised>>
    BY <1>6 DEF ProcessCommit, Dequeue, EngineInv, TypeOK
  <2> QED BY <2>1, PromisesCurrentKept
<1>7. CASE SubmitComplete
  <2> DEFINE t == item.trid
             new == [transaction_id |-> t, mutations |-> active[t].mutations,
                     constraints |-> active[t].constraints]
  <2>1. /\ pc = "logged" /\ item.type = "Submit" /\ t \in TransactionIds
        /\ promised' = promised \cup {new} /\ submitted' = submitted \cup {t}
        /\ pc' = "process" /\ restored' = restored
        /\ active' = [active EXCEPT ![t].state = "Submitted"]
    BY <1>7, ItemIs DEF SubmitComplete
  <2>2. /\ \A u \in TransactionIds : u # t => active'[u] = active[u]
        /\ active'[t].state = "Submitted"
        /\ active'[t].mutations = active[t].mutations
        /\ active'[t].constraints = active[t].constraints
    BY <2>1, Typed DEF EngineInv, Transaction
  <2>3. \A p \in promised : p.transaction_id \in TransactionIds /\ p.transaction_id # t
    BY <2>1 DEF EngineInv, TypeOK, PromisesCurrent, PromiseCurrent
  <2> SUFFICES ASSUME NEW p \in promised' PROVE PromiseCurrent(p)'
    BY DEF PromisesCurrent
  <2>4. CASE p \in promised
    BY <2>1, <2>2, <2>3, <2>4 DEF PromisesCurrent, PromiseCurrent
  <2>5. CASE p = new
    BY <2>1, <2>2, <2>5 DEF PromiseCurrent
  <2> QED BY <2>1, <2>4, <2>5
<1>8. CASE CommitComplete
  <2>1. /\ item.trid \in TransactionIds /\ pc' # "logged"
        /\ active' = [active EXCEPT ![item.trid] = NoTransaction]
        /\ promised' = {p \in promised : p.transaction_id # item.trid}
        /\ submitted' = submitted \ {item.trid} /\ restored' = restored
    BY <1>8, ItemIs DEF CommitComplete
  <2> QED BY <2>1, PromisesCurrentDrop
<1>9. CASE ProcessRollback
  <2>1. /\ Dequeue({"Rollback"}) /\ Head(queue).type = "Rollback"
        /\ active' = [active EXCEPT ![Head(queue).trid] = NoTransaction]
        /\ submitted' \subseteq submitted
        /\ UNCHANGED <<pc, item, restored, promised>>
    BY <1>9 DEF ProcessRollback, Dequeue
  <2>2. Head(queue).trid \in TransactionIds
    BY <2>1, SafetyDequeue
  <2>3. \A p \in promised : p.transaction_id # Head(queue).trid
    BY <2>1, Remaining DEF LogInv, PromisesLogged
  <2> QED BY <2>1, <2>2, <2>3, PromisesCurrentDrop
<1>10. CASE ProcessSubmitThrows
  <2>1. /\ pc' # "logged" /\ submitted' = {} /\ promised' = promised
    BY <1>10 DEF ProcessSubmitThrows, Stop
  <2> QED BY <2>1, PromisesCurrentKept
<1> QED BY <1>1, <1>3, <1>4, <1>5, <1>6, <1>7, <1>8, <1>9, <1>10 DEF Loop

(* The first state satisfies it, and no step breaks it.                    *)
LEMMA PromisesCurrentNext ==
    ASSUME EngineInv, LogInv, PromisesCurrent, [Next]_vars
    PROVE  PromisesCurrent'
<1> USE DEF memory, loop, wakeup, storage, clients
<1>1. CASE Client
  BY <1>1, PromisesCurrentClient
<1>2. CASE Loop \/ CheckConstraint
  BY <1>2, PromisesCurrentLoop
<1>3. CASE Signal \/ (\E s \in Storages : StorageApply(s)) \/ UNCHANGED vars
  <2>1. UNCHANGED <<pc, item, active, submitted, restored, promised>>
    BY <1>3 DEF Signal, StorageApply, vars
  <2> QED BY <2>1, PromisesCurrentKept
<1>4. CASE Crash
  <2>1. /\ pc' # "logged" /\ submitted' = {} /\ promised' = promised
    BY <1>4 DEF Crash, Stop
  <2> QED BY <2>1, PromisesCurrentKept
<1>5. CASE Restart
  <2>1. /\ UNCHANGED <<pc, item, promised>> /\ submitted' \ restored' = {}
    BY <1>5 DEF Restart
  <2> QED BY <2>1, PromisesCurrentKept
<1> QED BY <1>1, <1>2, <1>3, <1>4, <1>5 DEF Next

(* Every promise made since the last start is what the next checks see.    *)
LEMMA PromisesAlwaysCurrent == Spec => []PromisesCurrent
<1>1. Init => PromisesCurrent
  BY DEF Init, PromisesCurrent
<1> QED BY <1>1, PromisesCurrentNext, Safety, LogSafety, PTL DEF Spec

------------------------------------------------------------------------------
(* The storages have been handed what the log commits, neither more nor    *)
(* less, before and after a restart: replaying the log gives every         *)
(* document of every commit again, under the same sequence id.             *)
THEOREM StoragesAlwaysFollowLog == Spec => []StoragesFollowLog
<1>1. LogInv => StoragesFollowLog
  BY DEF LogInv
<1> QED BY <1>1, LogSafety, PTL

(* What two clients were promised side by side never clashes, as long as   *)
(* both transactions were submitted since the process started: what one    *)
(* requires of a document, the other does not modify.                      *)
THEOREM SubmittedAlwaysCompatible == Spec => []SubmittedCompatible
<1>1. ASSUME EngineInv, LogInv, PromisesCurrent PROVE SubmittedCompatible
  <2> SUFFICES ASSUME NEW p \in promised, NEW q \in promised,
                      p.transaction_id # q.transaction_id,
                      p.transaction_id \in submitted \ restored,
                      q.transaction_id \in submitted \ restored
               PROVE  ~ Clash(p.mutations, q.constraints)
    BY DEF SubmittedCompatible
  <2> DEFINE t == p.transaction_id
             u == q.transaction_id
  <2>1. /\ active[t].state # "None" /\ active[u].state # "None"
        /\ active[t].mutations = p.mutations
        /\ active[u].constraints = q.constraints
    BY <1>1 DEF PromisesCurrent, PromiseCurrent
  <2>2. Live(t) /\ Live(u) /\ t \in TransactionIds /\ u \in TransactionIds
    BY <1>1, <2>1 DEF Live, Dangling, EngineInv, TypeOK
  <2>3. ~ Conflicts(t, u)
    BY <1>1, <2>2 DEF LogInv, ActiveCompatible
  <2> QED BY <2>1, <2>3 DEF Conflicts, MutationConflict
<1> QED BY <1>1, Safety, LogSafety, PromisesAlwaysCurrent, PTL

(* A transaction whose submit was answered with success stays submitted    *)
(* or gets committed with the mutations it has, whatever crashes, until    *)
(* its client rolls it back.                                               *)
THEOREM PromisesAlwaysKept == Spec => []PromiseKept
<1>1. LogInv => PromiseKept
  BY DEF LogInv
<1> QED BY <1>1, LogSafety, PTL

(* No two logged mutations insert the same document: the counters that a   *)
(* restart recovers are above every id the log mentions.                   *)
THEOREM InsertsAlwaysFresh == Spec => []InsertsFresh
<1>1. LogInv => InsertsFresh
  BY DEF LogInv
<1> QED BY <1>1, LogSafety, PTL

==============================================================================
