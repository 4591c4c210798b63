-------------------------- MODULE QueuedDriverProofs --------------------------
(***************************************************************************)
(* What holds of QueuedDriver for every number of requests and commits:    *)
(* types, that requests and commits take turns, and that therefore the     *)
(* driver implements SequencedStore.  DriverInv and StoreInv are the       *)
(* inductive invariants.                                                   *)
(***************************************************************************)
EXTENDS QueuedDriver, TLAPS, SequenceTheorems, FiniteSetTheorems,
        WellFoundedInduction
------------------------------------------------------------------------------
(* The invariants that make the safety properties inductive *)

(* Outside of the request phase the closure is about to apply commits, and *)
(* fetches are queued only then.                                           *)
PhaseMatchesClosure ==
    /\ requestPhase <=> pc \in {"process", "idle", "wait", "unqueue"}
    /\ fetchQueue # <<>> => ~ requestPhase \/ pc = "unqueue"

(* Who has access, and that the closure stands where its counters say.     *)
DriverInv ==
    /\ TypeOK
    /\ ReadersExcluded
    /\ OneClosure
    /\ FetchesAccounted
    /\ PhaseMatchesClosure

(* What the refinement rests on.  A commit is applied, being applied or in *)
(* the queue, in the order of the calls.                                   *)
AppliedCommits ==
    LET taken == Len(sequenced) - Len(sequenceQueue)
    IN  IF pc = "apply" THEN taken - 1 ELSE taken

CommitsInOrder ==
    /\ \A m, n \in DOMAIN sequenced :
            m < n => sequenced[m].sequenceId < sequenced[n].sequenceId
    /\ AppliedCommits \in Nat
    /\ \A n \in DOMAIN sequenceQueue :
            sequenceQueue[n] = sequenced[Len(sequenced) - Len(sequenceQueue) + n]
    /\ pc = "apply" => /\ sequenceItem = sequenced[AppliedCommits + 1]
                       /\ index - 1 <= Len(sequenceItem.mutations)
    /\ currentSequenceId = IF AppliedCommits = 0 THEN 0
                           ELSE sequenced[AppliedCommits].sequenceId

(* The index has the keys of the applied commits, and of the mutations of  *)
(* the present one that are.                                               *)
KeysOf(c) == [documentId : Range(c.mutations), sequenceId : {c.sequenceId}]

KeysIn(commits, k) == UNION {KeysOf(commits[n]) : n \in 1..k}

KeysSoFar ==
    IF pc = "apply"
    THEN {[documentId |-> sequenceItem.mutations[n],
           sequenceId |-> sequenceItem.sequenceId] : n \in 1..(index - 1)}
    ELSE {}

StoredIsApplied == stored = KeysIn(sequenced, AppliedCommits) \cup KeysSoFar

FetchesInForm ==
    \A f \in Fetches :
        /\ fetches[f].state = "none" => fetches[f] = NoFetch
        /\ fetches[f].state # "none" => fetches[f].documentId \in Documents
        /\ fetches[f].answer = Pending <=> fetches[f].state # "answered"

StoreInv == CommitsInOrder /\ StoredIsApplied /\ FetchesInForm
------------------------------------------------------------------------------
(* A set of sequence ids that is not empty has a largest element.          *)
LEMMA LargestSequenceId ==
    ASSUME NEW S \in SUBSET SequenceIds, S # {}
    PROVE  \E n \in S : \A m \in S : m <= n
<1> DEFINE T == {MaxSequence - n : n \in S}
<1>0. \A n \in S : n \in Nat /\ n <= MaxSequence /\ MaxSequence \in Nat
  BY MaxAssumption DEF SequenceIds
<1>1. T \subseteq Nat /\ T # {}
  BY <1>0
<1>2. PICK x \in T : \A y \in T : ~ (<<y, x>> \in OpToRel(<, Nat))
  <2> HIDE DEF T
  <2> QED BY <1>1, NatLessThanWellFounded, WFMin
<1>3. \A y \in T : ~ (y < x)
  BY <1>1, <1>2 DEF OpToRel
<1>4. PICK n \in S : x = MaxSequence - n
  BY <1>2
<1>5. \A m \in S : m <= n
  <2> TAKE m \in S
  <2>1. MaxSequence - m \in T
    OBVIOUS
  <2>2. ~ (MaxSequence - m < MaxSequence - n)
    BY <1>3, <1>4, <2>1
  <2> HIDE DEF T
  <2> QED BY <1>0, <2>2
<1> QED BY <1>5

(* A lookup finds a version or nothing.                                    *)
LEMMA LookupType ==
    ASSUME NEW d, NEW s, TypeOK
    PROVE  Lookup(stored, d, s) \in Nat
<1> DEFINE versions == {k.sequenceId : k \in {k \in stored :
                            k.documentId = d /\ k.sequenceId <= s}}
<1>1. versions \subseteq SequenceIds
  BY DEF TypeOK
<1>2. CASE versions = {}
  BY <1>2 DEF Lookup, NotFound
<1>3. CASE versions # {}
  <2> HIDE DEF versions
  <2>1. Max(versions) \in SequenceIds
    BY <1>1, <1>3, LargestSequenceId DEF Max
  <2> QED BY <1>3, <2>1 DEF Lookup, versions, NewestVersion, SequenceIds
<1> QED BY <1>2, <1>3

(* Only finitely many requests run.                                        *)
LEMMA RunningFinite == IsFiniteSet(Running)
BY FetchesAssumption, FS_Subset DEF Running

(* The counter follows the set of running requests as one joins it ...     *)
LEMMA RunningGrows ==
    ASSUME DriverInv, NEW f \in Fetches, f \notin Running,
           Running' = Running \cup {f}, activeRequests' = activeRequests + 1
    PROVE  activeRequests' \in Nat /\ activeRequests' = Cardinality(Running')
<1>1. activeRequests = Cardinality(Running) /\ activeRequests \in Nat
  BY DEF DriverInv, TypeOK, FetchesAccounted
<1> QED BY <1>1, RunningFinite, FS_AddElement

(* ... and as one leaves it.                                               *)
LEMMA RunningShrinks ==
    ASSUME DriverInv, NEW f \in Running,
           Running' = Running \ {f}, activeRequests' = activeRequests - 1
    PROVE  activeRequests' \in Nat /\ activeRequests' = Cardinality(Running')
<1>1. activeRequests = Cardinality(Running) /\ activeRequests \in Nat
  BY DEF DriverInv, TypeOK, FetchesAccounted
<1>2. Cardinality(Running) # 0
  BY RunningFinite, FS_EmptySet
<1> QED BY <1>1, <1>2, RunningFinite, FS_RemoveElement

(* The first state satisfies the invariant.                                *)
LEMMA DriverInit == Init => DriverInv
<1> SUFFICES ASSUME Init PROVE DriverInv
  OBVIOUS
<1>1. TypeOK
  <2>1. NoFetch \in FetchRecord
    BY DEF FetchRecord, NoFetch, FetchState, Pending
  <2>2. unsignalled \in 0..MaxCallers /\ activeRequests \in Nat /\ tasks \in Nat
        /\ index \in Nat \ {0} /\ currentSequenceId \in Nat
    BY MaxAssumption DEF Init
  <2>3. pc \in Phase /\ requestPhase \in BOOLEAN /\ eventFd \in BOOLEAN
    BY DEF Init, Phase
  <2>4. /\ sequenceQueue \in Seq(SequenceItem) /\ fetchQueue \in Seq(Fetches)
        /\ sequenced \in Seq(SequenceItem)
    BY DEF Init
  <2>5. fetches \in [Fetches -> FetchRecord]
    BY <2>1 DEF Init
  <2>6. /\ sequenceItem \in SequenceItem \cup {NoItem}
        /\ stored \subseteq [documentId : Documents, sequenceId : SequenceIds]
    BY DEF Init
  <2> QED BY <2>2, <2>3, <2>4, <2>5, <2>6 DEF TypeOK
<1>2. ReadersExcluded /\ OneClosure /\ PhaseMatchesClosure
  BY DEF Init, ReadersExcluded, Applying, OneClosure, PhaseMatchesClosure
<1>3. Running = {}
  BY DEF Init, Running, NoFetch
<1>4. FetchesAccounted
  BY <1>3, FS_EmptySet DEF Init, FetchesAccounted, NoFetch, Range, IsInjective
<1> QED BY <1>1, <1>2, <1>4 DEF DriverInv
------------------------------------------------------------------------------
(* Callers *)

(* A step that leaves the requests alone leaves them accounted for.        *)
LEMMA FetchesUntouched ==
    ASSUME FetchesAccounted, UNCHANGED <<fetches, fetchQueue, activeRequests>>
    PROVE  FetchesAccounted'
BY DEF FetchesAccounted, Running

(* A commit that is handed over waits in the queue, in any phase.          *)
LEMMA SequencePreserves ==
    ASSUME DriverInv, NEW s \in SequenceIds, NEW mutations \in Mutations,
           Sequence(s, mutations)
    PROVE  DriverInv'
<1> DEFINE i == [sequenceId |-> s, mutations |-> mutations]
<1>1. /\ sequenceQueue' = Append(sequenceQueue, i)
      /\ sequenced' = Append(sequenced, i)
      /\ unsignalled < MaxCallers /\ unsignalled' = unsignalled + 1
      /\ UNCHANGED <<fetchQueue, activeRequests, requestPhase, eventFd, pc,
                     tasks, closure, fetches>>
  BY DEF Sequence, Push
<1>2. i \in SequenceItem
  BY DEF SequenceItem
<1>3. sequenceQueue' \in Seq(SequenceItem) /\ sequenced' \in Seq(SequenceItem)
  BY <1>1, <1>2, AppendProperties DEF DriverInv, TypeOK
<1>4. unsignalled' \in 0..MaxCallers
  BY <1>1, MaxAssumption DEF DriverInv, TypeOK
<1>5. TypeOK'
  BY <1>1, <1>3, <1>4 DEF DriverInv, TypeOK, closure
<1>6. FetchesAccounted'
  BY <1>1, FetchesUntouched DEF DriverInv
<1>7. ReadersExcluded' /\ OneClosure' /\ PhaseMatchesClosure'
  BY <1>1 DEF DriverInv, ReadersExcluded, Applying, Running, OneClosure,
              PhaseMatchesClosure
<1> QED BY <1>5, <1>6, <1>7 DEF DriverInv

(* A fetch runs at once in the request phase and is queued otherwise.      *)
LEMMA FetchPreserves ==
    ASSUME DriverInv, NEW f \in Fetches, NEW d \in Documents,
           NEW s \in SequenceIds, Fetch(f, d, s)
    PROVE  DriverInv'
<1> DEFINE Asking(state) == [state |-> state, documentId |-> d,
                             sequenceId |-> s, answer |-> Pending]
<1>1. /\ fetches[f].state = "none"
      /\ unsignalled < MaxCallers /\ unsignalled' = unsignalled + 1
      /\ UNCHANGED <<sequenceQueue, requestPhase, eventFd, pc, tasks, closure,
                     sequenced>>
  BY DEF Fetch
<1>2. unsignalled' \in 0..MaxCallers
  BY <1>1, MaxAssumption DEF DriverInv, TypeOK
<1>3. s \in Nat
  BY MaxAssumption DEF SequenceIds
<1>4. \A state \in FetchState : Asking(state) \in FetchRecord
  BY <1>3 DEF FetchRecord, Pending
<1>5. f \notin Running /\ f \notin Range(fetchQueue)
  BY <1>1 DEF Running, DriverInv, FetchesAccounted
<1>6. CASE /\ requestPhase
           /\ activeRequests' = activeRequests + 1
           /\ fetches' = [fetches EXCEPT ![f] = Asking("active")]
           /\ UNCHANGED fetchQueue
  <2>1. fetches' \in [Fetches -> FetchRecord]
    BY <1>4, <1>6 DEF DriverInv, TypeOK, FetchState
  <2>2. Running' = Running \cup {f}
    BY <1>6 DEF Running, DriverInv, TypeOK
  <2>3. activeRequests' \in Nat /\ activeRequests' = Cardinality(Running')
    BY <1>5, <1>6, <2>2, RunningGrows
  <2>4. TypeOK'
    BY <1>1, <1>2, <1>6, <2>1, <2>3 DEF DriverInv, TypeOK, closure
  <2>5. \A g \in Fetches : fetches'[g].state = "queued" <=>
                                g \in Range(fetchQueue')
    BY <1>5, <1>6 DEF DriverInv, TypeOK, FetchesAccounted
  <2>6. FetchesAccounted'
    BY <1>6, <2>3, <2>5 DEF DriverInv, FetchesAccounted
  <2>7. ~ Applying'
    BY <1>1, <1>6 DEF DriverInv, PhaseMatchesClosure, Applying
  <2>8. ReadersExcluded' /\ OneClosure' /\ PhaseMatchesClosure'
    BY <1>1, <1>6, <2>7 DEF DriverInv, ReadersExcluded, OneClosure,
                            PhaseMatchesClosure
  <2> QED BY <2>4, <2>6, <2>8 DEF DriverInv
<1>7. CASE /\ ~ requestPhase
           /\ fetchQueue' = Append(fetchQueue, f)
           /\ fetches' = [fetches EXCEPT ![f] = Asking("queued")]
           /\ UNCHANGED activeRequests
  <2>1. fetches' \in [Fetches -> FetchRecord]
    BY <1>4, <1>7 DEF DriverInv, TypeOK, FetchState
  <2>2. Running' = Running
    BY <1>1, <1>7 DEF Running, DriverInv, TypeOK
  <2>3. /\ fetchQueue \in Seq(Fetches) /\ fetchQueue' \in Seq(Fetches)
        /\ Len(fetchQueue) \in Nat
        /\ DOMAIN fetchQueue = 1..Len(fetchQueue)
        /\ DOMAIN fetchQueue' = 1..(Len(fetchQueue) + 1)
        /\ \A n \in 1..Len(fetchQueue) : fetchQueue'[n] = fetchQueue[n]
        /\ fetchQueue'[Len(fetchQueue) + 1] = f
    BY <1>7, AppendProperties, LenProperties DEF DriverInv, TypeOK
  <2>4. TypeOK'
    BY <1>1, <1>2, <1>7, <2>1, <2>3 DEF DriverInv, TypeOK, closure
  <2>5. Range(fetchQueue') = Range(fetchQueue) \cup {f}
    BY <2>3 DEF Range
  <2>6. \A g \in Fetches : fetches'[g].state = "queued" <=>
                                g \in Range(fetchQueue')
    BY <1>7, <2>5 DEF DriverInv, TypeOK, FetchesAccounted
  <2>7. IsInjective(fetchQueue')
    <3>1. IsInjective(fetchQueue)
      BY DEF DriverInv, FetchesAccounted
    <3>2. \A n \in 1..Len(fetchQueue) : fetchQueue[n] # f
      BY <1>5, <2>3 DEF Range
    <3> QED BY <2>3, <3>1, <3>2 DEF IsInjective
  <2>8. FetchesAccounted'
    BY <1>7, <2>2, <2>6, <2>7 DEF DriverInv, FetchesAccounted
  <2>9. ReadersExcluded' /\ OneClosure' /\ PhaseMatchesClosure'
    BY <1>1, <1>7, <2>2 DEF DriverInv, ReadersExcluded, Applying, OneClosure,
                            PhaseMatchesClosure
  <2> QED BY <2>4, <2>8, <2>9 DEF DriverInv
<1> QED BY <1>6, <1>7 DEF Fetch, Asked

(* An increment of the event disturbs nothing.                             *)
LEMMA SignalPreserves == ASSUME DriverInv, Signal PROVE DriverInv'
<1>1. /\ unsignalled > 0 /\ unsignalled' = unsignalled - 1
      /\ UNCHANGED <<queues, activeRequests, requestPhase, pc, tasks, closure,
                     fetches, sequenced>>
  BY DEF Signal
<1>2. eventFd' \in BOOLEAN
  BY DEF Signal
<1>3. unsignalled' \in 0..MaxCallers
  BY <1>1, MaxAssumption DEF DriverInv, TypeOK
<1>4. TypeOK'
  BY <1>1, <1>2, <1>3 DEF DriverInv, TypeOK, closure, queues
<1>5. FetchesAccounted'
  BY <1>1, FetchesUntouched DEF DriverInv, queues
<1>6. ReadersExcluded' /\ OneClosure' /\ PhaseMatchesClosure'
  BY <1>1 DEF DriverInv, ReadersExcluded, Applying, Running, OneClosure,
              PhaseMatchesClosure, queues
<1> QED BY <1>4, <1>5, <1>6 DEF DriverInv
------------------------------------------------------------------------------
(* Requests *)

(* A request that has been answered still runs.                            *)
LEMMA AnswerPreserves ==
    ASSUME DriverInv, NEW f \in Fetches, Answer(f)
    PROVE  DriverInv'
<1> DEFINE answer == Lookup(stored, fetches[f].documentId,
                            fetches[f].sequenceId)
<1>1. /\ fetches[f].state = "active"
      /\ fetches' = [fetches EXCEPT ![f].state = "answered",
                                    ![f].answer = answer]
      /\ UNCHANGED <<queues, activeRequests, requestPhase, wakeup, pc, tasks,
                     closure, sequenced>>
  BY DEF Answer
<1>2. answer \in Int
  BY LookupType DEF DriverInv
<1> HIDE DEF answer
<1>3. fetches' \in [Fetches -> FetchRecord]
  BY <1>1, <1>2 DEF DriverInv, TypeOK, FetchRecord, FetchState
<1>4. Running' = Running
  BY <1>1 DEF Running, DriverInv, TypeOK, FetchRecord
<1>5. TypeOK'
  BY <1>1, <1>3 DEF DriverInv, TypeOK, closure, queues, wakeup
<1>6. \A g \in Fetches : fetches'[g].state = "queued" <=>
                                g \in Range(fetchQueue')
  BY <1>1 DEF DriverInv, TypeOK, FetchesAccounted, FetchRecord, queues
<1>7. FetchesAccounted'
  BY <1>1, <1>4, <1>6 DEF DriverInv, FetchesAccounted, queues
<1>8. ReadersExcluded' /\ OneClosure' /\ PhaseMatchesClosure'
  BY <1>1, <1>4 DEF DriverInv, ReadersExcluded, Applying, OneClosure,
                    PhaseMatchesClosure, queues
<1> QED BY <1>5, <1>7, <1>8 DEF DriverInv

(* A request that ends was counted.                                        *)
LEMMA FinishPreserves ==
    ASSUME DriverInv, NEW f \in Fetches, FinishRequest(f)
    PROVE  DriverInv'
<1>1. /\ fetches[f].state = "answered"
      /\ fetches' = [fetches EXCEPT ![f] = NoFetch]
      /\ activeRequests' = activeRequests - 1
      /\ UNCHANGED <<queues, requestPhase, wakeup, pc, tasks, closure,
                     sequenced>>
  BY DEF FinishRequest
<1>2. NoFetch \in FetchRecord /\ NoFetch.state = "none"
  BY DEF FetchRecord, NoFetch, FetchState, Pending
<1>3. fetches' \in [Fetches -> FetchRecord]
  BY <1>1, <1>2 DEF DriverInv, TypeOK
<1>4. f \in Running /\ Running' = Running \ {f}
  BY <1>1, <1>2 DEF Running, DriverInv, TypeOK
<1>5. activeRequests' \in Nat /\ activeRequests' = Cardinality(Running')
  BY <1>1, <1>4, RunningShrinks
<1>6. TypeOK'
  BY <1>1, <1>3, <1>5 DEF DriverInv, TypeOK, closure, queues, wakeup
<1>7. \A g \in Fetches : fetches'[g].state = "queued" <=>
                                g \in Range(fetchQueue')
  BY <1>1, <1>2 DEF DriverInv, TypeOK, FetchesAccounted, queues
<1>8. FetchesAccounted'
  BY <1>1, <1>5, <1>7 DEF DriverInv, FetchesAccounted, queues
<1>9. ReadersExcluded' /\ OneClosure' /\ PhaseMatchesClosure'
  BY <1>1, <1>4 DEF DriverInv, ReadersExcluded, Applying, OneClosure,
                    PhaseMatchesClosure, queues
<1> QED BY <1>6, <1>8, <1>9 DEF DriverInv
------------------------------------------------------------------------------
(* The closure *)

(* Looking at the queue, and waiting.                                      *)
LEMMA WaitingPreserves ==
    ASSUME DriverInv, Process \/ Wait \/ WakeUp
    PROVE  DriverInv'
<1>1. /\ UNCHANGED <<queues, activeRequests, unsignalled, tasks, closure,
                     fetches, sequenced>>
      /\ <<pc, pc'>> \in {<<"process", "endRequestPhase">>, <<"process", "idle">>,
                          <<"idle", "wait">>, <<"busy", "waitRequests">>,
                          <<"wait", "process">>,
                          <<"waitRequests", "endRequestPhase">>}
      /\ pc = "process" /\ pc' = "endRequestPhase" => ~ requestPhase'
      /\ ~ (pc = "process" /\ pc' = "endRequestPhase")
            => UNCHANGED requestPhase
  BY DEF Process, Wait, WakeUp, Goto, wakeup
<1>2. requestPhase' \in BOOLEAN /\ eventFd' \in BOOLEAN
  BY DEF Process, Wait, WakeUp, Goto, wakeup, DriverInv, TypeOK
<1>3. pc' \in Phase
  BY <1>1 DEF Phase
<1>4. TypeOK'
  BY <1>1, <1>2, <1>3 DEF DriverInv, TypeOK, closure, queues
<1>5. FetchesAccounted'
  BY <1>1, FetchesUntouched DEF DriverInv, queues
<1>6. OneClosure' /\ PhaseMatchesClosure'
  BY <1>1 DEF DriverInv, OneClosure, PhaseMatchesClosure, queues
<1>7. ReadersExcluded'
  BY <1>1 DEF ReadersExcluded, Applying
<1> QED BY <1>4, <1>5, <1>6, <1>7 DEF DriverInv

(* The sequence phase begins when no request runs any more.                *)
LEMMA EndRequestPhasePreserves ==
    ASSUME DriverInv, EndRequestPhase
    PROVE  DriverInv'
<1>1. /\ UNCHANGED <<queues, activeRequests, requestPhase, wakeup, tasks,
                     closure, fetches, sequenced>>
      /\ pc = "endRequestPhase" /\ pc' \in {"sequencePhase", "busy"}
      /\ pc' = "sequencePhase" => activeRequests = 0
  BY DEF EndRequestPhase, Goto, Drained
<1>2. TypeOK'
  BY <1>1 DEF DriverInv, TypeOK, closure, queues, wakeup, Phase
<1>3. FetchesAccounted'
  BY <1>1, FetchesUntouched DEF DriverInv, queues
<1>4. OneClosure' /\ PhaseMatchesClosure'
  BY <1>1 DEF DriverInv, OneClosure, PhaseMatchesClosure, queues
<1>5. Running' = Running
  BY <1>1 DEF Running
<1>6. activeRequests = 0 => Running = {}
  BY RunningFinite, FS_EmptySet DEF DriverInv, FetchesAccounted
<1>7. ReadersExcluded'
  BY <1>1, <1>5, <1>6 DEF DriverInv, ReadersExcluded, Applying,
                          PhaseMatchesClosure
<1> QED BY <1>2, <1>3, <1>4, <1>7 DEF DriverInv

(* The next commit is taken, or as many tasks are submitted as it takes to *)
(* start the queued requests and go on.                                    *)
LEMMA SequencePhasePreserves ==
    ASSUME DriverInv, SequencePhase
    PROVE  DriverInv'
<1>1. /\ pc = "sequencePhase"
      /\ UNCHANGED <<fetchQueue, activeRequests, wakeup, stored,
                     currentSequenceId, fetches, sequenced>>
  BY DEF SequencePhase
<1>2. FetchesAccounted' /\ Running' = Running
  BY <1>1, FetchesUntouched DEF DriverInv, Running
<1>3. CASE /\ requestPhase' = TRUE
           /\ tasks' = UnqueueTasks(fetchQueue)
           /\ pc' = "unqueue"
           /\ UNCHANGED <<sequenceQueue, sequenceItem, index>>
  <2>1. Len(fetchQueue) \in Nat
    BY LenProperties DEF DriverInv, TypeOK
  <2>2. requestPhase' \in BOOLEAN
    BY <1>3
  <2>3. pc' \in Phase /\ tasks' \in Nat
    BY <1>3, <2>1 DEF Phase, UnqueueTasks
  <2>4. TypeOK'
    BY <1>1, <1>3, <2>2, <2>3 DEF DriverInv, TypeOK, wakeup
  <2>5. OneClosure' /\ ReadersExcluded' /\ PhaseMatchesClosure'
    BY <1>1, <1>3, <2>1 DEF OneClosure, ReadersExcluded, Applying,
                            PhaseMatchesClosure, UnqueueTasks
  <2> QED BY <1>2, <2>4, <2>5 DEF DriverInv
<1>4. CASE /\ sequenceQueue # <<>>
           /\ sequenceItem' = Head(sequenceQueue)
           /\ sequenceQueue' = Tail(sequenceQueue)
           /\ index' = 1
           /\ pc' = "apply"
           /\ UNCHANGED <<requestPhase, tasks>>
  <2>1. sequenceItem' \in SequenceItem /\ sequenceQueue' \in Seq(SequenceItem)
    BY <1>4, HeadTailProperties DEF DriverInv, TypeOK
  <2>2. pc' \in Phase /\ index' \in Nat \ {0}
    BY <1>4 DEF Phase
  <2>3. TypeOK'
    BY <1>1, <1>4, <2>1, <2>2 DEF DriverInv, TypeOK, wakeup
  <2>4. OneClosure' /\ ReadersExcluded' /\ PhaseMatchesClosure'
    BY <1>1, <1>2, <1>4 DEF DriverInv, OneClosure, ReadersExcluded, Applying,
                            PhaseMatchesClosure
  <2> QED BY <1>2, <2>3, <2>4 DEF DriverInv
<1> QED BY <1>3, <1>4 DEF SequencePhase

(* What remains of a queue without its front.                              *)
LEMMA Unqueued ==
    ASSUME DriverInv, fetchQueue # <<>>, fetchQueue' = Tail(fetchQueue)
    PROVE  /\ Head(fetchQueue) \in Fetches
           /\ fetchQueue' \in Seq(Fetches)
           /\ Len(fetchQueue') = Len(fetchQueue) - 1
           /\ Range(fetchQueue') = Range(fetchQueue) \ {Head(fetchQueue)}
           /\ Head(fetchQueue) \in Range(fetchQueue)
           /\ IsInjective(fetchQueue')
<1>1. fetchQueue \in Seq(Fetches) /\ IsInjective(fetchQueue)
  BY DEF DriverInv, TypeOK, FetchesAccounted
<1>2. /\ Len(fetchQueue) \in Nat \ {0} /\ DOMAIN fetchQueue = 1..Len(fetchQueue)
      /\ Head(fetchQueue) = fetchQueue[1] /\ 1 \in DOMAIN fetchQueue
  BY <1>1, EmptySeq, LenProperties
<1>3. /\ Head(fetchQueue) \in Fetches /\ fetchQueue' \in Seq(Fetches)
      /\ Len(fetchQueue') = Len(fetchQueue) - 1
      /\ \A n \in 1..Len(fetchQueue') : fetchQueue'[n] = fetchQueue[n + 1]
  BY <1>1, HeadTailProperties
<1>4. DOMAIN fetchQueue' = 1..(Len(fetchQueue) - 1)
  BY <1>3, LenProperties
<1>5. \A n \in DOMAIN fetchQueue' :
        n + 1 \in DOMAIN fetchQueue /\ fetchQueue'[n] = fetchQueue[n + 1]
  BY <1>2, <1>3, <1>4
<1>6. \A n \in DOMAIN fetchQueue : n # 1 =>
        n - 1 \in DOMAIN fetchQueue' /\ fetchQueue'[n - 1] = fetchQueue[n]
  BY <1>2, <1>4, <1>5
<1>7. \A m, n \in DOMAIN fetchQueue : fetchQueue[m] = fetchQueue[n] => m = n
  BY <1>1 DEF IsInjective
<1>8. Range(fetchQueue') = Range(fetchQueue) \ {Head(fetchQueue)}
  <2>1. ASSUME NEW x \in Range(fetchQueue')
        PROVE  x \in Range(fetchQueue) \ {Head(fetchQueue)}
    <3>1. PICK n \in DOMAIN fetchQueue' : x = fetchQueue'[n]
      BY <2>1 DEF Range
    <3>2. n + 1 # 1
      BY <1>4
    <3> QED BY <1>2, <1>5, <1>7, <3>1, <3>2 DEF Range
  <2>2. ASSUME NEW x \in Range(fetchQueue), x # Head(fetchQueue)
        PROVE  x \in Range(fetchQueue')
    <3>1. PICK n \in DOMAIN fetchQueue : x = fetchQueue[n]
      BY <2>2 DEF Range
    <3> QED BY <1>2, <1>6, <2>2, <3>1 DEF Range
  <2> QED BY <2>1, <2>2
<1>9. IsInjective(fetchQueue')
  <2> SUFFICES ASSUME NEW m \in DOMAIN fetchQueue', NEW n \in DOMAIN fetchQueue',
                      fetchQueue'[m] = fetchQueue'[n]
               PROVE  m = n
    BY DEF IsInjective
  <2>1. m + 1 = n + 1
    BY <1>5, <1>7
  <2> QED BY <1>2, <1>4, <2>1
<1>10. Head(fetchQueue) \in Range(fetchQueue)
  BY <1>2 DEF Range
<1> QED BY <1>3, <1>8, <1>9, <1>10

(* A task starts a queued request, or is the last one and goes on.         *)
LEMMA UnqueueRequestPreserves ==
    ASSUME DriverInv, UnqueueRequest
    PROVE  DriverInv'
<1> DEFINE f == Head(fetchQueue)
<1>1. /\ tasks > 0 /\ tasks' = tasks - 1
      /\ UNCHANGED <<sequenceQueue, requestPhase, wakeup, closure, sequenced>>
  BY DEF UnqueueRequest
<1>2. /\ pc = "unqueue" /\ tasks = Len(fetchQueue) + 1 /\ requestPhase
      /\ Len(fetchQueue) \in Nat
  BY <1>1, LenProperties
     DEF DriverInv, TypeOK, OneClosure, PhaseMatchesClosure
<1>3. tasks' = Len(fetchQueue) /\ tasks' \in Nat
  BY <1>1, <1>2
<1>4. CASE /\ fetchQueue = <<>>
           /\ pc' = "process"
           /\ UNCHANGED <<fetchQueue, activeRequests, fetches>>
  <2>1. tasks' = 0
    BY <1>3, <1>4
  <2>2. TypeOK'
    BY <1>1, <1>3, <1>4 DEF DriverInv, TypeOK, closure, wakeup, Phase
  <2>3. FetchesAccounted'
    BY <1>4, FetchesUntouched DEF DriverInv
  <2>4. ReadersExcluded' /\ OneClosure' /\ PhaseMatchesClosure'
    BY <1>1, <1>2, <1>4, <2>1 DEF ReadersExcluded, Applying, OneClosure,
                                  PhaseMatchesClosure
  <2> QED BY <2>2, <2>3, <2>4 DEF DriverInv
<1>5. CASE /\ fetchQueue # <<>>
           /\ fetchQueue' = Tail(fetchQueue)
           /\ activeRequests' = activeRequests + 1
           /\ fetches' = [fetches EXCEPT ![f].state = "active"]
           /\ UNCHANGED pc
  <2>1. /\ f \in Fetches /\ fetchQueue' \in Seq(Fetches)
        /\ Len(fetchQueue') = Len(fetchQueue) - 1
        /\ Range(fetchQueue') = Range(fetchQueue) \ {f}
        /\ f \in Range(fetchQueue)
        /\ IsInjective(fetchQueue')
    BY <1>5, Unqueued
  <2> HIDE DEF f
  <2>2. fetches[f].state = "queued"
    BY <2>1 DEF DriverInv, FetchesAccounted
  <2>3. fetches' \in [Fetches -> FetchRecord]
    BY <1>5, <2>1 DEF DriverInv, TypeOK, FetchRecord, FetchState
  <2>4. f \notin Running /\ Running' = Running \cup {f}
    BY <1>5, <2>1, <2>2 DEF Running, DriverInv, TypeOK, FetchRecord
  <2>5. activeRequests' \in Nat /\ activeRequests' = Cardinality(Running')
    BY <1>5, <2>1, <2>4, RunningGrows
  <2>6. TypeOK'
    BY <1>1, <1>3, <1>5, <2>1, <2>3, <2>5
       DEF DriverInv, TypeOK, closure, wakeup
  <2>7. \A g \in Fetches : fetches'[g].state = "queued" <=>
                                g \in Range(fetchQueue')
    BY <1>5, <2>1 DEF DriverInv, TypeOK, FetchRecord, FetchesAccounted
  <2>8. FetchesAccounted'
    BY <2>1, <2>5, <2>7 DEF FetchesAccounted
  <2>9. ReadersExcluded' /\ OneClosure' /\ PhaseMatchesClosure'
    BY <1>1, <1>2, <1>3, <1>5, <2>1 DEF ReadersExcluded, Applying, OneClosure,
                                        PhaseMatchesClosure
  <2> QED BY <2>6, <2>8, <2>9 DEF DriverInv
<1> QED BY <1>4, <1>5 DEF UnqueueRequest

(* Applying a commit touches the index only.                               *)
LEMMA ApplyPreserves ==
    ASSUME DriverInv, ProcessMutation \/ FinishSequence
    PROVE  DriverInv'
<1>1. /\ pc = "apply" /\ pc' \in {"apply", "sequencePhase"}
      /\ UNCHANGED <<queues, activeRequests, requestPhase, wakeup, tasks,
                     sequenceItem, fetches, sequenced>>
  BY DEF ProcessMutation, FinishSequence
<1>2. FetchesAccounted' /\ Running' = Running
  BY <1>1, FetchesUntouched DEF DriverInv, queues, Running
<1>3. ReadersExcluded' /\ OneClosure' /\ PhaseMatchesClosure'
  BY <1>1, <1>2 DEF DriverInv, ReadersExcluded, Applying, OneClosure,
                    PhaseMatchesClosure, queues
<1>4. CASE ProcessMutation
  <2>1. index <= Len(sequenceItem.mutations) /\ index' = index + 1
    BY <1>4 DEF ProcessMutation
  <2>2. index \in Nat \ {0} /\ sequenceItem \in SequenceItem \cup {NoItem}
    BY DEF DriverInv, TypeOK
  <2>3. sequenceItem # NoItem
    BY <2>1, <2>2 DEF NoItem
  <2>4. sequenceItem.mutations \in Mutations /\ sequenceItem.sequenceId \in SequenceIds
    BY <2>2, <2>3 DEF SequenceItem
  <2>5. PICK n \in 0..MaxMutations : sequenceItem.mutations \in [1..n -> Documents]
    BY <2>4 DEF Mutations
  <2>6. Len(sequenceItem.mutations) = n
    BY <2>5
  <2>7. sequenceItem.mutations[index] \in Documents
    BY <2>1, <2>2, <2>5, <2>6
  <2>8. stored' \subseteq [documentId : Documents, sequenceId : SequenceIds]
    BY <1>4, <2>4, <2>7 DEF ProcessMutation, Inserted, DriverInv, TypeOK
  <2>9. index' \in Nat \ {0} /\ UNCHANGED <<pc, currentSequenceId>>
    BY <1>4, <2>1, <2>2 DEF ProcessMutation
  <2>10. TypeOK'
    BY <1>1, <2>8, <2>9 DEF DriverInv, TypeOK, queues, wakeup
  <2> QED BY <1>2, <1>3, <2>10 DEF DriverInv
<1>5. CASE FinishSequence
  <2>1. currentSequenceId' = sequenceItem.sequenceId /\ UNCHANGED <<index, stored>>
    BY <1>5 DEF FinishSequence
  <2>2. currentSequenceId' \in Nat
    BY <2>1, MaxAssumption DEF DriverInv, TypeOK, SequenceItem, NoItem,
                               SequenceIds
  <2>3. TypeOK'
    BY <1>1, <2>1, <2>2 DEF DriverInv, TypeOK, queues, wakeup, Phase
  <2> QED BY <1>2, <1>3, <2>3 DEF DriverInv
<1> QED BY <1>4, <1>5
------------------------------------------------------------------------------
(* No step breaks the invariant.                                           *)
LEMMA DriverNext == ASSUME DriverInv, [Next]_vars PROVE DriverInv'
<1>1. CASE Callers \/ Signal
  BY <1>1, SequencePreserves, FetchPreserves, SignalPreserves DEF Callers
<1>2. CASE Requests
  BY <1>2, AnswerPreserves, FinishPreserves DEF Requests
<1>3. CASE Loop
  BY <1>3, WaitingPreserves, EndRequestPhasePreserves, SequencePhasePreserves,
     UnqueueRequestPreserves, ApplyPreserves DEF Loop
<1>4. CASE UNCHANGED vars
  <2>1. FetchesAccounted' /\ Running' = Running
    BY <1>4, FetchesUntouched DEF DriverInv, vars, queues, Running
  <2>2. TypeOK'
    BY <1>4 DEF vars, queues, wakeup, closure, DriverInv, TypeOK
  <2>3. ReadersExcluded' /\ OneClosure' /\ PhaseMatchesClosure'
    BY <1>4, <2>1 DEF vars, queues, DriverInv, ReadersExcluded, Applying,
                      OneClosure, PhaseMatchesClosure
  <2> QED BY <2>1, <2>2, <2>3 DEF DriverInv
<1> QED BY <1>1, <1>2, <1>3, <1>4 DEF Next

(* The invariant holds in every reachable state of the driver.             *)
THEOREM DriverSafety == Spec => []DriverInv
BY DriverInit, DriverNext, PTL DEF Spec

(* However many requests there are, none of them reads the index while the *)
(* closure changes it.                                                     *)
THEOREM ReadersAlwaysExcluded == Spec => []ReadersExcluded
<1>1. DriverInv => ReadersExcluded
  BY DEF DriverInv
<1> QED BY <1>1, DriverSafety, PTL

(* However many fetches were queued, the tasks that start them leave one   *)
(* closure.                                                                *)
THEOREM AlwaysOneClosure == Spec => []OneClosure
<1>1. DriverInv => OneClosure
  BY DEF DriverInv
<1> QED BY <1>1, DriverSafety, PTL

(* No fetch is lost between the queue and the counter.                     *)
THEOREM FetchesAlwaysAccounted == Spec => []FetchesAccounted
<1>1. DriverInv => FetchesAccounted
  BY DEF DriverInv
<1> QED BY <1>1, DriverSafety, PTL

(* The variables have their types for any number of requests and commits.  *)
THEOREM TypesKept == Spec => []TypeOK
<1>1. DriverInv => TypeOK
  BY DEF DriverInv
<1> QED BY <1>1, DriverSafety, PTL
------------------------------------------------------------------------------
(* The driver implements SequencedStore: StoreInv                          *)

(* The elements of a sequence, and of one that is an element longer.       *)
LEMMA Elements ==
    ASSUME NEW S, NEW q \in Seq(S)
    PROVE  /\ Len(q) \in Nat /\ DOMAIN q = 1..Len(q)
           /\ \A n \in DOMAIN q : q[n] \in S
BY LenProperties, ElementOfSeq

(* A sequence that is an element longer.                                  *)
LEMMA Appended ==
    ASSUME NEW S, NEW q \in Seq(S), NEW e \in S, NEW p, p = Append(q, e)
    PROVE  /\ p \in Seq(S) /\ Len(p) = Len(q) + 1
           /\ DOMAIN p = 1..(Len(q) + 1)
           /\ \A n \in 1..Len(q) : p[n] = q[n]
           /\ p[Len(q) + 1] = e
           /\ e \in Range(p)
<1>1. /\ p \in Seq(S) /\ Len(p) = Len(q) + 1 /\ Len(q) \in Nat
      /\ \A n \in 1..Len(q) : p[n] = q[n]
      /\ p[Len(q) + 1] = e
  BY AppendProperties, LenProperties
<1>2. DOMAIN p = 1..(Len(q) + 1)
  BY <1>1, LenProperties
<1>3. Len(q) + 1 \in DOMAIN p
  BY <1>1, <1>2
<1> QED BY <1>1, <1>2, <1>3 DEF Range

(* The keys of some first commits do not depend on the later ones.         *)
LEMMA KeysSame ==
    ASSUME NEW p, NEW q, NEW k, \A n \in 1..k : p[n] = q[n]
    PROVE  KeysIn(p, k) = KeysIn(q, k)
<1>1. {KeysOf(p[n]) : n \in 1..k} = {KeysOf(q[n]) : n \in 1..k}
  <2>1. \A n \in 1..k : KeysOf(p[n]) = KeysOf(q[n])
    OBVIOUS
  <2> QED BY <2>1
<1> QED BY <1>1 DEF KeysIn

(* One commit more adds its keys.                                         *)
LEMMA KeysGrow ==
    ASSUME NEW q, NEW k \in Nat
    PROVE  KeysIn(q, k + 1) = KeysIn(q, k) \cup KeysOf(q[k + 1])
<1> DEFINE K(n) == KeysOf(q[n])
<1> HIDE DEF K
<1>1. 1..(k + 1) = 1..k \cup {k + 1}
  OBVIOUS
<1>2. UNION {K(n) : n \in 1..(k + 1)} = (UNION {K(n) : n \in 1..k}) \cup K(k + 1)
  BY <1>1
<1> QED BY <1>2 DEF KeysIn, K

(* How many commits there are, in the queue, being applied and applied.    *)
LEMMA Counts ==
    ASSUME DriverInv, CommitsInOrder
    PROVE  /\ sequenced \in Seq(SequenceItem) /\ sequenceQueue \in Seq(SequenceItem)
           /\ Len(sequenced) \in Nat /\ DOMAIN sequenced = 1..Len(sequenced)
           /\ Len(sequenceQueue) \in Nat /\ DOMAIN sequenceQueue = 1..Len(sequenceQueue)
           /\ \A n \in DOMAIN sequenced : sequenced[n] \in SequenceItem
           /\ AppliedCommits \in Nat /\ AppliedCommits <= Len(sequenced)
           /\ pc = "apply" =>
                /\ AppliedCommits + 1 <= Len(sequenced)
                /\ AppliedCommits = Len(sequenced) - Len(sequenceQueue) - 1
           /\ pc # "apply" => AppliedCommits = Len(sequenced) - Len(sequenceQueue)
           /\ index \in Nat \ {0}
<1>1. /\ sequenced \in Seq(SequenceItem) /\ sequenceQueue \in Seq(SequenceItem)
      /\ index \in Nat \ {0}
  BY DEF DriverInv, TypeOK
<1>2. /\ Len(sequenced) \in Nat /\ DOMAIN sequenced = 1..Len(sequenced)
      /\ Len(sequenceQueue) \in Nat /\ DOMAIN sequenceQueue = 1..Len(sequenceQueue)
      /\ \A n \in DOMAIN sequenced : sequenced[n] \in SequenceItem
  BY <1>1, Elements
<1>3. AppliedCommits \in Nat
  BY DEF CommitsInOrder
<1>4. /\ pc = "apply" => AppliedCommits = Len(sequenced) - Len(sequenceQueue) - 1
      /\ pc # "apply" => AppliedCommits = Len(sequenced) - Len(sequenceQueue)
  BY DEF AppliedCommits
<1> DEFINE k == AppliedCommits
           l == Len(sequenced)
           q == Len(sequenceQueue)
<1>5. l \in Nat /\ q \in Nat /\ (k = l - q - 1 \/ k = l - q)
  BY <1>2, <1>4
<1> HIDE DEF k, l, q
<1>6. k <= l /\ (k = l - q - 1 => k + 1 <= l)
  BY <1>5
<1> QED BY <1>1, <1>2, <1>3, <1>4, <1>6 DEF k, l, q

(* The commits that are not newer than the last one applied are the ones   *)
(* that were applied.                                                      *)
LEMMA WholeCommits ==
    ASSUME NEW q \in Seq(SequenceItem), NEW k \in Nat, k <= Len(q), NEW newest,
           \A m, n \in DOMAIN q : m < n => q[m].sequenceId < q[n].sequenceId,
           newest = IF k = 0 THEN 0 ELSE q[k].sequenceId
    PROVE  LET whole == {n \in DOMAIN q : q[n].sequenceId <= newest}
           IN  whole = 1..k /\ Cardinality(whole) = k
<1> DEFINE whole == {n \in DOMAIN q : q[n].sequenceId <= newest}
<1>1. Len(q) \in Nat /\ DOMAIN q = 1..Len(q)
  BY LenProperties
<1>2. \A n \in DOMAIN q : q[n].sequenceId \in Nat \ {0}
  <2>1. \A n \in DOMAIN q : q[n] \in SequenceItem
    BY Elements
  <2> QED BY <2>1, MaxAssumption DEF SequenceItem, SequenceIds
<1>3. ASSUME NEW n \in DOMAIN q
      PROVE  q[n].sequenceId <= newest <=> n <= k
  <2>1. CASE k = 0
    BY <1>1, <1>2, <2>1
  <2>2. CASE k # 0
    <3>1. k \in DOMAIN q /\ newest = q[k].sequenceId
      BY <1>1, <2>2
    <3>2. /\ n < k => q[n].sequenceId < q[k].sequenceId
          /\ k < n => q[k].sequenceId < q[n].sequenceId
      BY <3>1
    <3>3. n \in Nat /\ q[n].sequenceId \in Nat /\ q[k].sequenceId \in Nat
      BY <1>1, <1>2, <3>1
    <3>4. n = k => q[n].sequenceId = q[k].sequenceId
      OBVIOUS
    <3> QED BY <3>1, <3>2, <3>3, <3>4
  <2> QED BY <2>1, <2>2
<1>4. whole = 1..k
  BY <1>1, <1>3
<1>5. Cardinality(1..k) = k
  BY FS_Interval
<1> QED BY <1>4, <1>5

(* The refinement counts the commits that were applied ...                *)
LEMMA WholeNow ==
    ASSUME DriverInv, CommitsInOrder
    PROVE  Cardinality(Whole) = AppliedCommits
<1>1. /\ sequenced \in Seq(SequenceItem) /\ AppliedCommits \in Nat
      /\ AppliedCommits <= Len(sequenced)
  BY Counts
<1>2. /\ \A m, n \in DOMAIN sequenced :
                m < n => sequenced[m].sequenceId < sequenced[n].sequenceId
      /\ currentSequenceId = IF AppliedCommits = 0 THEN 0
                             ELSE sequenced[AppliedCommits].sequenceId
  BY DEF CommitsInOrder
<1> HIDE DEF AppliedCommits
<1> QED BY <1>1, <1>2, WholeCommits DEF Whole

(* ... and so it does in the next state.                                  *)
LEMMA WholeNext ==
    ASSUME DriverInv', CommitsInOrder', AppliedCommits' <= Len(sequenced')
    PROVE  Cardinality(Whole)' = AppliedCommits'
<1> DEFINE k == AppliedCommits'
<1>1. sequenced' \in Seq(SequenceItem) /\ k \in Nat /\ k <= Len(sequenced')
  BY DEF DriverInv, TypeOK, CommitsInOrder
<1>2. /\ \A m, n \in DOMAIN sequenced' :
                m < n => sequenced'[m].sequenceId < sequenced'[n].sequenceId
      /\ currentSequenceId' = IF k = 0 THEN 0 ELSE sequenced'[k].sequenceId
  BY DEF CommitsInOrder
<1> HIDE DEF k
<1>3. Cardinality({n \in DOMAIN sequenced' :
                        sequenced'[n].sequenceId <= currentSequenceId'}) = k
  BY <1>1, <1>2, WholeCommits
<1> QED BY <1>3 DEF Whole, k

(* The first state. *)
LEMMA StoreInit == Init => StoreInv
<1> SUFFICES ASSUME Init PROVE StoreInv
  OBVIOUS
<1>1. /\ sequenced = <<>> /\ sequenceQueue = <<>> /\ pc = "process"
      /\ stored = {} /\ currentSequenceId = 0
      /\ \A f \in Fetches : fetches[f] = NoFetch
  BY DEF Init
<1>2. AppliedCommits = 0
  BY <1>1 DEF AppliedCommits
<1>3. CommitsInOrder
  BY <1>1, <1>2 DEF CommitsInOrder
<1>4. StoredIsApplied
  BY <1>1, <1>2 DEF StoredIsApplied, KeysSoFar, KeysIn
<1>5. FetchesInForm
  BY <1>1 DEF FetchesInForm, NoFetch
<1> QED BY <1>3, <1>4, <1>5 DEF StoreInv

(* What the steps that do not touch the commits keep.                      *)
LEMMA CommitsUntouched ==
    ASSUME CommitsInOrder, StoredIsApplied,
           UNCHANGED <<sequenced, sequenceQueue, sequenceItem, index,
                       currentSequenceId, stored>>,
           pc' = "apply" <=> pc = "apply"
    PROVE  /\ CommitsInOrder' /\ StoredIsApplied'
           /\ AppliedCommits' = AppliedCommits
<1>1. AppliedCommits' = AppliedCommits
  BY DEF AppliedCommits
<1>2. KeysSoFar' = KeysSoFar
  BY DEF KeysSoFar
<1>3. CommitsInOrder'
  BY <1>1 DEF CommitsInOrder
<1>4. StoredIsApplied'
  BY <1>1, <1>2 DEF StoredIsApplied
<1> QED BY <1>1, <1>3, <1>4

(* sequence() adds a commit behind all others.                             *)
LEMMA SequenceStores ==
    ASSUME DriverInv, StoreInv, NEW s \in SequenceIds, NEW mutations \in Mutations,
           Sequence(s, mutations)
    PROVE  /\ StoreInv' /\ AppliedCommits' = AppliedCommits
           /\ AppliedCommits' <= Len(sequenced')
           /\ \E c \in Range(sequenced') : sequenced' = Append(sequenced, c)
<1> DEFINE i == [sequenceId |-> s, mutations |-> mutations]
           l == Len(sequenced)
           q == Len(sequenceQueue)
           k == AppliedCommits
<1>1. /\ sequenceQueue' = Append(sequenceQueue, i) /\ sequenced' = Append(sequenced, i)
      /\ s > LastSequenced
      /\ UNCHANGED <<pc, sequenceItem, index, currentSequenceId, stored, fetches>>
  BY DEF Sequence, Push, closure
<1>2. i \in SequenceItem /\ i.sequenceId = s
  BY DEF SequenceItem
<1> HIDE DEF i, l, q, k
<1>3. CommitsInOrder /\ StoredIsApplied /\ FetchesInForm
  BY DEF StoreInv
<1>4. /\ sequenced \in Seq(SequenceItem) /\ sequenceQueue \in Seq(SequenceItem)
      /\ l \in Nat /\ DOMAIN sequenced = 1..l /\ q \in Nat /\ DOMAIN sequenceQueue = 1..q
      /\ \A n \in DOMAIN sequenced : sequenced[n] \in SequenceItem
      /\ k \in Nat /\ k <= l
      /\ pc = "apply" => k + 1 <= l /\ k = l - q - 1
      /\ pc # "apply" => k = l - q
  BY <1>3, Counts DEF l, q, k
<1>5. /\ DOMAIN sequenced' = 1..(l + 1) /\ Len(sequenced') = l + 1
      /\ \A n \in 1..l : sequenced'[n] = sequenced[n]
      /\ sequenced'[l + 1] = i
  <2>1. i \in SequenceItem /\ sequenced \in Seq(SequenceItem)
        /\ sequenced' = Append(sequenced, i)
    BY <1>1, <1>2, <1>4
  <2> QED BY <2>1, Appended DEF l
<1>6. /\ DOMAIN sequenceQueue' = 1..(q + 1) /\ Len(sequenceQueue') = q + 1
      /\ \A n \in 1..q : sequenceQueue'[n] = sequenceQueue[n]
      /\ sequenceQueue'[q + 1] = i
  <2>1. i \in SequenceItem /\ sequenceQueue \in Seq(SequenceItem)
        /\ sequenceQueue' = Append(sequenceQueue, i)
    BY <1>1, <1>2, <1>4
  <2> QED BY <2>1, Appended DEF q
<1>7. AppliedCommits' = k
  <2>1. AppliedCommits' = IF pc = "apply" THEN (l + 1) - (q + 1) - 1
                          ELSE (l + 1) - (q + 1)
    BY <1>1, <1>5, <1>6 DEF AppliedCommits
  <2> QED BY <1>4, <2>1
<1>8. \A n \in DOMAIN sequenced : sequenced[n].sequenceId \in Nat /\ s \in Nat
  BY <1>4, MaxAssumption DEF SequenceItem, SequenceIds
<1>9. \A m, n \in DOMAIN sequenced :
            m < n => sequenced[m].sequenceId < sequenced[n].sequenceId
  BY <1>3 DEF CommitsInOrder
<1>10. \A n \in DOMAIN sequenced : sequenced[n].sequenceId < s
  <2> SUFFICES ASSUME NEW n \in DOMAIN sequenced
               PROVE  sequenced[n].sequenceId < s
    OBVIOUS
  <2>1. sequenced # <<>> /\ l \in DOMAIN sequenced
    BY <1>4
  <2>2. sequenced[l].sequenceId < s
    BY <1>1, <1>8, <2>1 DEF LastSequenced, l
  <2>3. n < l => sequenced[n].sequenceId < sequenced[l].sequenceId
    BY <1>9, <2>1
  <2>4. n < l \/ n = l
    BY <1>4
  <2> QED BY <1>8, <2>1, <2>2, <2>3, <2>4
<1>11. CommitsInOrder'
  <2>1. \A m, n \in DOMAIN sequenced' :
            m < n => sequenced'[m].sequenceId < sequenced'[n].sequenceId
    BY <1>2, <1>4, <1>5, <1>9, <1>10
  <2>2. \A n \in DOMAIN sequenceQueue' :
            sequenceQueue'[n] = sequenced'[Len(sequenced') - Len(sequenceQueue') + n]
    <3> SUFFICES ASSUME NEW n \in 1..(q + 1)
                 PROVE  sequenceQueue'[n] = sequenced'[(l + 1) - (q + 1) + n]
      BY <1>5, <1>6
    <3>1. CASE n \in 1..q
      <4>1. sequenceQueue[n] = sequenced[l - q + n]
        BY <1>3, <1>4, <3>1 DEF CommitsInOrder, l, q
      <4>2. l - q + n \in 1..l /\ (l + 1) - (q + 1) + n = l - q + n
        BY <1>4, <3>1
      <4> QED BY <1>5, <1>6, <3>1, <4>1, <4>2
    <3>2. CASE n = q + 1
      <4>1. (l + 1) - (q + 1) + n = l + 1
        BY <1>4, <3>2
      <4> QED BY <1>5, <1>6, <3>2, <4>1
    <3> QED BY <1>4, <3>1, <3>2
  <2>3. pc' = "apply" => /\ sequenceItem' = sequenced'[k + 1]
                         /\ index' - 1 <= Len(sequenceItem'.mutations)
    BY <1>1, <1>3, <1>4, <1>5 DEF CommitsInOrder, k
  <2>4. currentSequenceId' = IF k = 0 THEN 0 ELSE sequenced'[k].sequenceId
    BY <1>1, <1>3, <1>4, <1>5 DEF CommitsInOrder, k
  <2> QED BY <1>4, <1>7, <2>1, <2>2, <2>3, <2>4 DEF CommitsInOrder
<1>12. StoredIsApplied'
  <2>1. KeysSoFar' = KeysSoFar
    BY <1>1 DEF KeysSoFar
  <2>2. \A n \in 1..k : sequenced'[n] = sequenced[n]
    BY <1>4, <1>5
  <2>3. KeysIn(sequenced', k) = KeysIn(sequenced, k)
    BY <2>2, KeysSame
  <2>4. stored' = KeysIn(sequenced', k) \cup KeysSoFar'
    BY <1>1, <1>3, <2>1, <2>3 DEF StoredIsApplied, k
  <2> QED BY <1>7, <2>4 DEF StoredIsApplied
<1>13. FetchesInForm'
  BY <1>1, <1>3 DEF FetchesInForm
<1>14. \E c \in Range(sequenced') : sequenced' = Append(sequenced, c)
  <2>1. i \in Range(sequenced')
    BY <1>1, <1>2, <1>4, Appended
  <2> QED BY <1>1, <2>1
<1>15. AppliedCommits' <= Len(sequenced')
  BY <1>4, <1>5, <1>7
<1> QED BY <1>7, <1>11, <1>12, <1>13, <1>14, <1>15 DEF StoreInv, k

(* The closure takes the first commit of the queue, or begins the request  *)
(* phase.                                                                  *)
LEMMA SequencePhaseStores ==
    ASSUME DriverInv, StoreInv, SequencePhase
    PROVE  StoreInv' /\ AppliedCommits' = AppliedCommits
<1>1. /\ pc = "sequencePhase"
      /\ UNCHANGED <<stored, currentSequenceId, fetches, sequenced>>
  BY DEF SequencePhase
<1>2. CommitsInOrder /\ StoredIsApplied /\ FetchesInForm
  BY DEF StoreInv
<1>3. FetchesInForm'
  BY <1>1, <1>2 DEF FetchesInForm
<1>4. CASE /\ pc' = "unqueue"
           /\ UNCHANGED <<sequenceQueue, sequenceItem, index>>
  <2>1. CommitsInOrder' /\ StoredIsApplied' /\ AppliedCommits' = AppliedCommits
    BY <1>1, <1>2, <1>4, CommitsUntouched
  <2> QED BY <1>3, <2>1 DEF StoreInv
<1>5. CASE /\ sequenceQueue # <<>>
           /\ sequenceItem' = Head(sequenceQueue)
           /\ sequenceQueue' = Tail(sequenceQueue)
           /\ index' = 1
           /\ pc' = "apply"
  <2> DEFINE l == Len(sequenced)
             q == Len(sequenceQueue)
             k == AppliedCommits
  <2> HIDE DEF l, q, k
  <2>1. /\ sequenced \in Seq(SequenceItem) /\ sequenceQueue \in Seq(SequenceItem)
        /\ l \in Nat /\ DOMAIN sequenced = 1..l /\ q \in Nat
        /\ DOMAIN sequenceQueue = 1..q
        /\ k \in Nat /\ k = l - q
    BY <1>1, <1>2, Counts DEF l, q, k
  <2>2. /\ sequenceQueue' \in Seq(SequenceItem) /\ Len(sequenceQueue') = q - 1
        /\ q > 0
        /\ \A n \in 1..(q - 1) : sequenceQueue'[n] = sequenceQueue[n + 1]
        /\ sequenceItem' = sequenceQueue[1]
    <3>1. sequenceQueue \in Seq(SequenceItem) /\ sequenceQueue # <<>>
      BY <1>5, <2>1
    <3>2. sequenceItem' = sequenceQueue[1]
      BY <1>5, <3>1
    <3>3. /\ sequenceQueue' \in Seq(SequenceItem) /\ Len(sequenceQueue') = q - 1
          /\ \A n \in 1..Len(sequenceQueue') : sequenceQueue'[n] = sequenceQueue[n + 1]
      BY <1>5, <3>1, HeadTailProperties DEF q
    <3>4. q > 0
      BY <2>1, <3>1, EmptySeq DEF q
    <3> QED BY <3>2, <3>3, <3>4
  <2>3. DOMAIN sequenceQueue' = 1..(q - 1)
    BY <2>2, LenProperties
  <2>4. AppliedCommits' = k
    <3>1. AppliedCommits' = l - (q - 1) - 1
      BY <1>1, <1>5, <2>2 DEF AppliedCommits, l
    <3> QED BY <2>1, <3>1
  <2>5. \A n \in 1..q : sequenceQueue[n] = sequenced[l - q + n]
    BY <1>2, <2>1 DEF CommitsInOrder, l, q
  <2>6. \A n \in DOMAIN sequenceQueue' :
            sequenceQueue'[n] = sequenced'[Len(sequenced') - Len(sequenceQueue') + n]
    <3> SUFFICES ASSUME NEW n \in 1..(q - 1)
                 PROVE  sequenceQueue'[n] = sequenced[l - (q - 1) + n]
      BY <1>1, <2>2, <2>3 DEF l
    <3>1. n + 1 \in 1..q /\ l - q + (n + 1) = l - (q - 1) + n
      BY <2>1
    <3>2. sequenceQueue[n + 1] = sequenced[l - q + (n + 1)]
      BY <2>5, <3>1
    <3> QED BY <2>2, <3>1, <3>2
  <2>7. sequenceItem' = sequenced'[k + 1]
    <3>1. 1 \in 1..q /\ l - q + 1 = k + 1
      BY <2>1, <2>2
    <3> QED BY <1>1, <2>2, <2>5, <3>1
  <2>8. index' - 1 <= Len(sequenceItem'.mutations)
    <3>1. sequenceItem' \in SequenceItem
      BY <2>1, <2>2, Elements DEF q
    <3>2. PICK n \in 0..MaxMutations : sequenceItem'.mutations \in [1..n -> Documents]
      BY <3>1 DEF SequenceItem, Mutations
    <3>3. Len(sequenceItem'.mutations) = n /\ n \in Nat
      BY <3>2
    <3> QED BY <1>5, <3>3
  <2>9. /\ \A m, n \in DOMAIN sequenced' :
                m < n => sequenced'[m].sequenceId < sequenced'[n].sequenceId
        /\ currentSequenceId' = IF k = 0 THEN 0 ELSE sequenced'[k].sequenceId
    BY <1>1, <1>2 DEF CommitsInOrder, k
  <2>10. CommitsInOrder'
    BY <2>1, <2>4, <2>6, <2>7, <2>8, <2>9 DEF CommitsInOrder
  <2>11. KeysSoFar = {} /\ KeysSoFar' = {}
    BY <1>1, <1>5 DEF KeysSoFar
  <2>12. StoredIsApplied'
    BY <1>1, <1>2, <2>4, <2>11 DEF StoredIsApplied, k
  <2> QED BY <1>3, <2>4, <2>10, <2>12 DEF StoreInv, k
<1> QED BY <1>4, <1>5 DEF SequencePhase

(* One mutation more of the commit that is being applied.                  *)
LEMMA MutationStores ==
    ASSUME DriverInv, StoreInv, ProcessMutation
    PROVE  StoreInv' /\ AppliedCommits' = AppliedCommits
<1> DEFINE key(n) == [documentId |-> sequenceItem.mutations[n],
                      sequenceId |-> sequenceItem.sequenceId]
<1>1. /\ pc = "apply" /\ index <= Len(sequenceItem.mutations) /\ index' = index + 1
      /\ stored' = stored \cup {key(index)}
      /\ UNCHANGED <<sequenceQueue, pc, sequenceItem, currentSequenceId, fetches,
                     sequenced>>
  BY DEF ProcessMutation, Inserted, queues
<1>2. CommitsInOrder /\ StoredIsApplied /\ FetchesInForm
  BY DEF StoreInv
<1>3. FetchesInForm'
  BY <1>1, <1>2 DEF FetchesInForm
<1>4. AppliedCommits' = AppliedCommits
  BY <1>1 DEF AppliedCommits
<1>5. index \in Nat \ {0}
  BY DEF DriverInv, TypeOK
<1>6. index' - 1 = index
  BY <1>1, <1>5
<1>7. CommitsInOrder'
  BY <1>1, <1>2, <1>4, <1>6 DEF CommitsInOrder
<1> HIDE DEF key
<1>8. 1..index = 1..(index - 1) \cup {index}
  BY <1>5
<1>9. /\ KeysSoFar = {key(n) : n \in 1..(index - 1)}
      /\ KeysSoFar' = {key(n) : n \in 1..(index' - 1)}
  BY <1>1 DEF KeysSoFar, key
<1>10. KeysSoFar' = KeysSoFar \cup {key(index)}
  BY <1>6, <1>8, <1>9
<1>11. stored' = KeysIn(sequenced', AppliedCommits') \cup KeysSoFar'
  BY <1>1, <1>2, <1>4, <1>10 DEF StoredIsApplied
<1> QED BY <1>3, <1>4, <1>7, <1>11 DEF StoreInv, StoredIsApplied

(* The commit is whole.                                                    *)
LEMMA FinishStores ==
    ASSUME DriverInv, StoreInv, FinishSequence
    PROVE  /\ StoreInv' /\ AppliedCommits' = AppliedCommits + 1
           /\ AppliedCommits + 1 <= Len(sequenced)
<1> DEFINE k == AppliedCommits
           c == sequenced[k + 1]
<1> HIDE DEF k
<1>1. /\ pc = "apply" /\ pc' = "sequencePhase"
      /\ index > Len(sequenceItem.mutations)
      /\ currentSequenceId' = sequenceItem.sequenceId
      /\ UNCHANGED <<sequenceQueue, sequenceItem, index, stored, fetches, sequenced>>
  BY DEF FinishSequence, queues
<1>2. CommitsInOrder /\ StoredIsApplied /\ FetchesInForm
  BY DEF StoreInv
<1>3. /\ k \in Nat /\ k + 1 <= Len(sequenced) /\ index \in Nat \ {0}
      /\ Len(sequenced) \in Nat /\ DOMAIN sequenced = 1..Len(sequenced)
      /\ \A n \in DOMAIN sequenced : sequenced[n] \in SequenceItem
  BY <1>1, <1>2, Counts DEF k
<1>4. AppliedCommits' = k + 1
  <2>1. Len(sequenced) \in Nat /\ Len(sequenceQueue) \in Nat
    BY <1>2, Counts
  <2>2. /\ k = Len(sequenced) - Len(sequenceQueue) - 1
        /\ AppliedCommits' = Len(sequenced) - Len(sequenceQueue)
    BY <1>1 DEF AppliedCommits, k
  <2> QED BY <2>1, <2>2
<1>5. sequenceItem = c /\ index - 1 <= Len(c.mutations) /\ c \in SequenceItem
  <2>1. sequenceItem = c /\ index - 1 <= Len(sequenceItem.mutations)
    BY <1>1, <1>2 DEF CommitsInOrder, k
  <2>2. k + 1 \in DOMAIN sequenced
    BY <1>3
  <2> QED BY <1>3, <2>1, <2>2
<1>6. CommitsInOrder'
  <2>1. currentSequenceId' = IF k + 1 = 0 THEN 0 ELSE sequenced'[k + 1].sequenceId
    BY <1>1, <1>3, <1>5
  <2>2. /\ \A m, n \in DOMAIN sequenced' :
                m < n => sequenced'[m].sequenceId < sequenced'[n].sequenceId
        /\ \A n \in DOMAIN sequenceQueue' : sequenceQueue'[n] =
                sequenced'[Len(sequenced') - Len(sequenceQueue') + n]
    BY <1>1, <1>2 DEF CommitsInOrder
  <2> QED BY <1>1, <1>3, <1>4, <2>1, <2>2 DEF CommitsInOrder
<1>7. KeysSoFar = KeysOf(c)
  <2>1. PICK n \in 0..MaxMutations : c.mutations \in [1..n -> Documents]
    BY <1>5 DEF SequenceItem, Mutations
  <2>2. Len(c.mutations) = n /\ n \in Nat /\ DOMAIN c.mutations = 1..n
    BY <2>1
  <2>3. index - 1 = n
    BY <1>1, <1>3, <1>5, <2>2
  <2>4. KeysSoFar = {[documentId |-> c.mutations[i], sequenceId |-> c.sequenceId] :
                        i \in 1..n}
    BY <1>1, <1>5, <2>3 DEF KeysSoFar
  <2> HIDE DEF c
  <2>5. Range(c.mutations) = {c.mutations[i] : i \in 1..n}
    BY <2>2 DEF Range
  <2> DEFINE m == c.mutations
             key(i) == [documentId |-> m[i], sequenceId |-> c.sequenceId]
  <2>6. \A i \in 1..n : key(i) \in KeysOf(c)
    BY <2>5 DEF KeysOf
  <2>7. ASSUME NEW x \in KeysOf(c)
        PROVE  \E i \in 1..n : x = key(i)
    <3>1. /\ x = [documentId |-> x.documentId, sequenceId |-> x.sequenceId]
          /\ x.documentId \in Range(m) /\ x.sequenceId = c.sequenceId
      BY DEF KeysOf
    <3>2. PICK i \in 1..n : x.documentId = m[i]
      BY <2>5, <3>1
    <3> QED BY <3>1, <3>2
  <2> HIDE DEF m
  <2>8. KeysSoFar = {key(i) : i \in 1..n}
    BY <2>4 DEF m
  <2> HIDE DEF key
  <2> QED BY <2>6, <2>7, <2>8
<1>8. KeysSoFar' = {}
  BY <1>1 DEF KeysSoFar
<1>9. stored' = KeysIn(sequenced', k + 1) \cup KeysSoFar'
  BY <1>1, <1>2, <1>3, <1>7, <1>8, KeysGrow DEF StoredIsApplied, k
<1>10. FetchesInForm'
  BY <1>1, <1>2 DEF FetchesInForm
<1> QED BY <1>3, <1>4, <1>6, <1>9, <1>10 DEF StoreInv, StoredIsApplied, k

(* What requests do leaves the commits alone.                              *)
LEMMA FetchStores ==
    ASSUME DriverInv, StoreInv,
           NEW f \in Fetches, NEW d \in Documents, NEW s \in SequenceIds,
           Fetch(f, d, s)
    PROVE  StoreInv' /\ AppliedCommits' = AppliedCommits
<1>1. /\ fetches[f].state = "none"
      /\ UNCHANGED <<sequenceQueue, sequenceItem, index, stored,
                     currentSequenceId, sequenced, pc>>
  BY DEF Fetch, closure
<1>2. PICK x \in {"active", "queued"} : Asked(f, d, s, x)
  BY DEF Fetch
<1>3. FetchesInForm'
  <2> SUFFICES ASSUME NEW g \in Fetches
               PROVE  /\ fetches'[g].state = "none" => fetches'[g] = NoFetch
                      /\ fetches'[g].state # "none" =>
                            fetches'[g].documentId \in Documents
                      /\ fetches'[g].answer = Pending <=>
                            fetches'[g].state # "answered"
    BY DEF FetchesInForm
  <2>1. CASE g = f
    BY <1>2, <2>1 DEF Asked, DriverInv, TypeOK
  <2>2. CASE g # f
    <3>1. fetches'[g] = fetches[g]
      BY <1>2, <2>2 DEF Asked, DriverInv, TypeOK
    <3> QED BY <3>1 DEF StoreInv, FetchesInForm
  <2> QED BY <2>1, <2>2
<1>4. CommitsInOrder' /\ StoredIsApplied' /\ AppliedCommits' = AppliedCommits
  BY <1>1, CommitsUntouched DEF StoreInv
<1> QED BY <1>3, <1>4 DEF StoreInv

(* An answer is what the index says.                                      *)
LEMMA AnswerStores ==
    ASSUME DriverInv, StoreInv, NEW f \in Fetches, Answer(f)
    PROVE  /\ StoreInv' /\ AppliedCommits' = AppliedCommits
           /\ fetches' = [fetches EXCEPT ![f] = fetches'[f]]
           /\ fetches'[f] = [fetches[f] EXCEPT
                    !.state = "answered",
                    !.answer = Lookup(stored, fetches[f].documentId,
                                      fetches[f].sequenceId)]
<1> DEFINE a == Lookup(stored, fetches[f].documentId, fetches[f].sequenceId)
<1>1. /\ fetches[f].state = "active"
      /\ fetches' = [fetches EXCEPT ![f].state = "answered", ![f].answer = a]
      /\ UNCHANGED <<sequenceQueue, sequenceItem, index, stored,
                     currentSequenceId, sequenced, pc>>
  BY DEF Answer, queues, closure
<1>2. a \in Nat
  BY LookupType DEF DriverInv
<1> HIDE DEF a
<1>3. fetches \in [Fetches -> FetchRecord]
  BY DEF DriverInv, TypeOK
<1>4. /\ fetches'[f] = [fetches[f] EXCEPT !.state = "answered", !.answer = a]
      /\ \A g \in Fetches : g # f => fetches'[g] = fetches[g]
      /\ DOMAIN fetches' = Fetches
  BY <1>1, <1>3
<1>5. fetches' = [fetches EXCEPT ![f] = fetches'[f]]
  BY <1>1, <1>3, <1>4
<1>6. /\ fetches'[f].state = "answered" /\ fetches'[f].answer = a
      /\ fetches'[f].documentId = fetches[f].documentId
      /\ fetches[f].documentId \in Documents
  BY <1>1, <1>3, <1>4 DEF FetchRecord, StoreInv, FetchesInForm
<1>7. FetchesInForm'
  <2> SUFFICES ASSUME NEW g \in Fetches
               PROVE  /\ fetches'[g].state = "none" => fetches'[g] = NoFetch
                      /\ fetches'[g].state # "none" =>
                            fetches'[g].documentId \in Documents
                      /\ fetches'[g].answer = Pending <=>
                            fetches'[g].state # "answered"
    BY DEF FetchesInForm
  <2>1. CASE g = f
    BY <1>2, <1>6, <2>1 DEF Pending
  <2>2. CASE g # f
    BY <1>4, <2>2 DEF StoreInv, FetchesInForm
  <2> QED BY <2>1, <2>2
<1>8. CommitsInOrder' /\ StoredIsApplied' /\ AppliedCommits' = AppliedCommits
  BY <1>1, CommitsUntouched DEF StoreInv
<1> QED BY <1>4, <1>5, <1>7, <1>8 DEF StoreInv, a

(* A request that ends is forgotten.                                      *)
LEMMA FinishRequestStores ==
    ASSUME DriverInv, StoreInv, NEW f \in Fetches, FinishRequest(f)
    PROVE  StoreInv' /\ AppliedCommits' = AppliedCommits
<1>1. /\ fetches' = [fetches EXCEPT ![f] = NoFetch]
      /\ UNCHANGED <<sequenceQueue, sequenceItem, index, stored,
                     currentSequenceId, sequenced, pc>>
  BY DEF FinishRequest, queues, closure
<1>2. FetchesInForm'
  BY <1>1 DEF StoreInv, FetchesInForm, NoFetch, Pending, DriverInv, TypeOK
<1>3. CommitsInOrder' /\ StoredIsApplied' /\ AppliedCommits' = AppliedCommits
  BY <1>1, CommitsUntouched DEF StoreInv
<1> QED BY <1>2, <1>3 DEF StoreInv

(* A task starts the first fetch of the queue: what it asks stays.         *)
LEMMA UnqueueStores ==
    ASSUME DriverInv, StoreInv, UnqueueRequest
    PROVE  /\ StoreInv' /\ AppliedCommits' = AppliedCommits
           /\ \A f \in Fetches :
                /\ fetches'[f].documentId = fetches[f].documentId
                /\ fetches'[f].sequenceId = fetches[f].sequenceId
                /\ fetches'[f].answer = fetches[f].answer
<1>1. /\ tasks > 0
      /\ UNCHANGED <<sequenceQueue, sequenceItem, index, stored,
                     currentSequenceId, sequenced>>
  BY DEF UnqueueRequest, closure
<1>2. pc = "unqueue"
  BY <1>1 DEF DriverInv, OneClosure
<1>3. pc' # "apply"
  BY <1>2 DEF UnqueueRequest
<1>4. CommitsInOrder' /\ StoredIsApplied' /\ AppliedCommits' = AppliedCommits
  BY <1>1, <1>2, <1>3, CommitsUntouched DEF StoreInv
<1>5. CASE UNCHANGED fetches
  BY <1>4, <1>5 DEF StoreInv, FetchesInForm
<1>6. CASE /\ fetchQueue # <<>>
           /\ fetches' = [fetches EXCEPT ![Head(fetchQueue)].state = "active"]
  <2> DEFINE h == Head(fetchQueue)
  <2>1. h \in Fetches /\ h \in Range(fetchQueue)
    <3>1. fetchQueue \in Seq(Fetches)
      BY DEF DriverInv, TypeOK
    <3>2. Len(fetchQueue) \in Nat \ {0} /\ DOMAIN fetchQueue = 1..Len(fetchQueue)
      BY <1>6, <3>1, EmptySeq, LenProperties
    <3>3. h = fetchQueue[1] /\ 1 \in DOMAIN fetchQueue
      BY <1>6, <3>1, <3>2
    <3>4. fetchQueue[1] \in Fetches
      BY <3>1, <3>3, Elements
    <3> QED BY <3>3, <3>4 DEF Range
  <2> HIDE DEF h
  <2>2. fetches \in [Fetches -> FetchRecord] /\ fetches[h].state = "queued"
    BY <2>1 DEF DriverInv, TypeOK, FetchesAccounted
  <2>3. /\ fetches'[h] = [fetches[h] EXCEPT !.state = "active"]
        /\ \A g \in Fetches : g # h => fetches'[g] = fetches[g]
    BY <1>6, <2>1, <2>2 DEF h
  <2>4. /\ fetches'[h].state = "active"
        /\ fetches'[h].documentId = fetches[h].documentId
        /\ fetches'[h].sequenceId = fetches[h].sequenceId
        /\ fetches'[h].answer = fetches[h].answer
        /\ fetches[h].documentId \in Documents
        /\ fetches[h].answer = Pending
    BY <2>1, <2>2, <2>3 DEF FetchRecord, StoreInv, FetchesInForm
  <2>5. FetchesInForm'
    <3> SUFFICES ASSUME NEW g \in Fetches
                 PROVE  /\ fetches'[g].state = "none" => fetches'[g] = NoFetch
                        /\ fetches'[g].state # "none" =>
                              fetches'[g].documentId \in Documents
                        /\ fetches'[g].answer = Pending <=>
                              fetches'[g].state # "answered"
      BY DEF FetchesInForm
    <3>1. CASE g = h
      BY <2>4, <3>1
    <3>2. CASE g # h
      BY <2>3, <3>2 DEF StoreInv, FetchesInForm
    <3> QED BY <3>1, <3>2
  <2>6. \A f \in Fetches :
            /\ fetches'[f].documentId = fetches[f].documentId
            /\ fetches'[f].sequenceId = fetches[f].sequenceId
            /\ fetches'[f].answer = fetches[f].answer
    BY <2>3, <2>4
  <2> QED BY <1>4, <2>5, <2>6 DEF StoreInv
<1> QED BY <1>5, <1>6 DEF UnqueueRequest

(* The steps that change neither commits nor requests.                     *)
Elsewhere ==
    \/ Signal \/ Process \/ Wait \/ WakeUp \/ EndRequestPhase
    \/ UNCHANGED vars

(* These steps keep the invariant.                                        *)
LEMMA ElsewhereStores ==
    ASSUME DriverInv, StoreInv, Elsewhere
    PROVE  /\ StoreInv' /\ AppliedCommits' = AppliedCommits
           /\ UNCHANGED <<sequenced, fetches>>
<1>1. UNCHANGED <<sequenceQueue, sequenceItem, index, stored, currentSequenceId,
                  sequenced, fetches>>
  BY DEF Elsewhere, Signal, Process, Wait, WakeUp, EndRequestPhase, Goto, vars,
         queues, closure
<1>2. pc' = "apply" <=> pc = "apply"
  BY DEF Elsewhere, Signal, Process, Wait, WakeUp, EndRequestPhase, Goto, vars
<1>3. CommitsInOrder' /\ StoredIsApplied' /\ AppliedCommits' = AppliedCommits
  BY <1>1, <1>2, CommitsUntouched DEF StoreInv
<1>4. FetchesInForm'
  BY <1>1 DEF StoreInv, FetchesInForm
<1> QED BY <1>1, <1>3, <1>4 DEF StoreInv

(* Every step keeps what the refinement rests on.                          *)
LEMMA StoreNext == ASSUME DriverInv, StoreInv, [Next]_vars PROVE StoreInv'
<1>1. CASE Callers
  BY <1>1, SequenceStores, FetchStores DEF Callers
<1>2. CASE Requests
  BY <1>2, AnswerStores, FinishRequestStores DEF Requests
<1>3. CASE SequencePhase \/ UnqueueRequest \/ ProcessMutation \/ FinishSequence
  BY <1>3, SequencePhaseStores, UnqueueStores, MutationStores, FinishStores
<1>4. CASE Elsewhere
  BY <1>4, ElsewhereStores
<1> QED BY <1>1, <1>2, <1>3, <1>4 DEF Next, Loop, Elsewhere

(* The index always holds the commits that are applied, in their order,    *)
(* and of the one being applied what is.                                   *)
THEOREM StoreSafety == Spec => []StoreInv
<1>1. Spec => [](DriverInv /\ StoreInv)
  <2>1. Init => DriverInv /\ StoreInv
    BY DriverInit, StoreInit
  <2>2. DriverInv /\ StoreInv /\ [Next]_vars => (DriverInv /\ StoreInv)'
    BY DriverNext, StoreNext
  <2> QED BY <2>1, <2>2, PTL DEF Spec
<1> QED BY <1>1, PTL
------------------------------------------------------------------------------
(* The driver implements SequencedStore: the steps                         *)

(* What the commits and the requests are to the store.                     *)
Asks(f) == [documentId |-> fetches[f].documentId,
            sequenceId |-> fetches[f].sequenceId]

(* The keys of the first commits are what the store finds in them.         *)
LEMMA IndexOfCommits ==
    ASSUME NEW q \in Seq(SequenceItem), NEW k \in Nat, k <= Len(q)
    PROVE  Store!IndexOf(SubSeq(q, 1, k)) = KeysIn(q, k)
<1> DEFINE p == SubSeq(q, 1, k)
<1>1. Len(q) \in Nat /\ DOMAIN q = 1..Len(q) /\ \A n \in DOMAIN q : q[n] \in SequenceItem
  BY Elements
<1>2. \A n \in 1..k : q[n] \in SequenceItem
  BY <1>1
<1>3. /\ p \in Seq(SequenceItem) /\ Len(p) = IF 1 <= k THEN k - 1 + 1 ELSE 0
      /\ \A n \in 1..(k - 1 + 1) : p[n] = q[1 + n - 1]
  BY <1>2, SubSeqProperties
<1> HIDE DEF p
<1>4. DOMAIN p = 1..k /\ \A n \in 1..k : p[n] = q[n]
  <2>1. Len(p) = k /\ k - 1 + 1 = k /\ \A n \in 1..k : 1 + n - 1 = n
    BY <1>3
  <2> QED BY <1>3, <2>1, LenProperties
<1>5. Range(p) = {q[n] : n \in 1..k}
  BY <1>4 DEF Range
<1>6. Store!IndexOf(p) = UNION {KeysOf(c) : c \in Range(p)}
  BY DEF Store!IndexOf, KeysOf, Store!Range, Range
<1>7. {KeysOf(c) : c \in Range(p)} = {KeysOf(q[n]) : n \in 1..k}
  BY <1>5
<1> QED BY <1>6, <1>7 DEF KeysIn, p

(* A step that changes no request and no whole commit is none of the       *)
(* store.                                                                  *)
LEMMA StoreStutters ==
    ASSUME DriverInv, StoreInv, StoreInv', DriverInv',
           AppliedCommits' = AppliedCommits, UNCHANGED sequenced,
           \A f \in Fetches :
                /\ fetches'[f].documentId = fetches[f].documentId
                /\ fetches'[f].sequenceId = fetches[f].sequenceId
                /\ fetches'[f].answer = fetches[f].answer
    PROVE  UNCHANGED Store!vars
<1>1. Cardinality(Whole) = AppliedCommits /\ AppliedCommits <= Len(sequenced)
  BY WholeNow, Counts DEF StoreInv
<1>2. Cardinality(Whole)' = AppliedCommits'
  BY <1>1, WholeNext DEF StoreInv
<1>3. Cardinality(Whole)' = Cardinality(Whole)
  BY <1>1, <1>2
<1> QED BY <1>3 DEF Store!vars

(* sequence() is a step of the store ...                                   *)
LEMMA SequenceStep ==
    ASSUME DriverInv, StoreInv, DriverInv',
           NEW s \in SequenceIds, NEW mutations \in Mutations,
           Sequence(s, mutations)
    PROVE  Store!Sequence
<1>1. /\ StoreInv' /\ AppliedCommits' = AppliedCommits
      /\ AppliedCommits' <= Len(sequenced')
      /\ \E c \in Range(sequenced') : sequenced' = Append(sequenced, c)
  BY SequenceStores
<1>2. Cardinality(Whole)' = Cardinality(Whole)
  BY <1>1, WholeNow, WholeNext DEF StoreInv
<1>3. fetches' = fetches
  BY DEF Sequence
<1> QED BY <1>1, <1>2, <1>3 DEF Store!Sequence, Store!Range, Range

(* ... and so is fetch(): no document has id zero ...                      *)
LEMMA FetchStep ==
    ASSUME DriverInv, StoreInv, DriverInv',
           NEW f \in Fetches, NEW d \in Documents, NEW s \in SequenceIds,
           Fetch(f, d, s)
    PROVE  Store!Ask(f)
<1>1. StoreInv' /\ AppliedCommits' = AppliedCommits
  BY FetchStores
<1>2. sequenced' = sequenced /\ fetches[f] = NoFetch
  BY DEF Fetch, StoreInv, FetchesInForm
<1>3. AppliedCommits <= Len(sequenced)
  BY Counts DEF StoreInv
<1>4. Cardinality(Whole)' = Cardinality(Whole)
  BY <1>1, <1>2, <1>3, WholeNow, WholeNext DEF StoreInv
<1>5. PICK x \in {"active", "queued"} : Asked(f, d, s, x)
  BY DEF Fetch
<1>6. /\ fetches'[f].documentId = d /\ fetches'[f].sequenceId = s
      /\ fetches'[f].answer = Pending
      /\ \A g \in Fetches : g # f => fetches'[g] = fetches[g]
  BY <1>5 DEF Asked, DriverInv, TypeOK
<1>7. /\ fetches[f].documentId = 0 /\ fetches[f].sequenceId = 0
      /\ fetches[f].answer = Pending /\ d # 0
  BY <1>2, DocumentsAssumption DEF NoFetch
<1>8. /\ Asks(f) = Store!NoRequest
      /\ Asks(f)' # Store!NoRequest
      /\ \A g \in Fetches : g # f => Asks(g)' = Asks(g)
  BY <1>6, <1>7 DEF Asks, Store!NoRequest
<1>9. \A g \in Fetches : fetches'[g].answer = fetches[g].answer
  BY <1>6, <1>7
<1>10. [g \in Fetches |-> Asks(g)'] =
            [[g \in Fetches |-> Asks(g)] EXCEPT ![f] = Asks(f)']
  BY <1>8
<1> QED BY <1>2, <1>4, <1>8, <1>9, <1>10 DEF Store!Ask, Asks

(* ... a commit is applied when it is whole ...                            *)
LEMMA FinishSequenceStep ==
    ASSUME DriverInv, StoreInv, DriverInv', FinishSequence
    PROVE  Store!Apply
<1>1. /\ StoreInv' /\ AppliedCommits' = AppliedCommits + 1
      /\ AppliedCommits + 1 <= Len(sequenced)
  BY FinishStores
<1>2. UNCHANGED <<sequenced, fetches>>
  BY DEF FinishSequence
<1>3. AppliedCommits' <= Len(sequenced')
  BY <1>1, <1>2
<1>4. Cardinality(Whole)' = Cardinality(Whole) + 1
  BY <1>1, <1>3, WholeNow, WholeNext DEF StoreInv
<1>5. Cardinality(Whole) < Len(sequenced)
  <2>1. /\ Cardinality(Whole) = AppliedCommits /\ AppliedCommits \in Nat
        /\ Len(sequenced) \in Nat
    BY WholeNow, Counts DEF StoreInv
  <2> HIDE DEF AppliedCommits
  <2> QED BY <1>1, <2>1
<1> QED BY <1>2, <1>4, <1>5 DEF Store!Apply

(* The answer is what the whole commits say: while a request is active the *)
(* closure is not applying any.                                            *)
LEMMA AnswerStep ==
    ASSUME DriverInv, StoreInv, DriverInv', NEW f \in Fetches, Answer(f)
    PROVE  Store!Answer(f)
<1> DEFINE a == Lookup(stored, fetches[f].documentId, fetches[f].sequenceId)
<1>1. /\ StoreInv' /\ AppliedCommits' = AppliedCommits
      /\ fetches' = [fetches EXCEPT ![f] = fetches'[f]]
      /\ fetches'[f] = [fetches[f] EXCEPT !.state = "answered", !.answer = a]
  BY AnswerStores
<1>2. fetches[f].state = "active" /\ UNCHANGED <<sequenced, pc>>
  BY DEF Answer
<1>3. /\ Cardinality(Whole) = AppliedCommits /\ AppliedCommits <= Len(sequenced)
      /\ AppliedCommits \in Nat /\ sequenced \in Seq(SequenceItem)
  BY WholeNow, Counts DEF StoreInv
<1>4. Cardinality(Whole)' = Cardinality(Whole)
  BY <1>1, <1>2, <1>3, WholeNext DEF StoreInv
<1>5. pc # "apply"
  BY <1>2 DEF DriverInv, ReadersExcluded, Applying, Running
<1>6. stored = KeysIn(sequenced, AppliedCommits)
  BY <1>5 DEF StoreInv, StoredIsApplied, KeysSoFar
<1>7. stored = Store!IndexOf(SubSeq(sequenced, 1, Cardinality(Whole)))
  BY <1>3, <1>6, IndexOfCommits
<1> HIDE DEF a
<1>8. fetches \in [Fetches -> FetchRecord]
  BY DEF DriverInv, TypeOK
<1>9. /\ fetches'[f].answer = a
      /\ \A g \in Fetches : g # f => fetches'[g] = fetches[g]
      /\ \A g \in Fetches : Asks(g)' = Asks(g)
  BY <1>1, <1>8 DEF FetchRecord, Asks
<1>10. Asks(f) # Store!NoRequest /\ fetches[f].answer = Store!Pending
  <2>1. fetches[f].documentId \in Documents /\ fetches[f].answer = Pending
    BY <1>2 DEF StoreInv, FetchesInForm
  <2> QED BY <2>1, DocumentsAssumption DEF Asks, Store!NoRequest, Store!Pending,
                                         Pending
<1>11. a = Store!Lookup(stored, Asks(f))
  BY DEF a, Lookup, Store!Lookup, Asks, NewestVersion, NotFound, Store!NotFound,
         Max, Store!Max
<1>12. [g \in Fetches |-> fetches'[g].answer] =
            [[g \in Fetches |-> fetches[g].answer] EXCEPT ![f] = a]
  BY <1>9
<1> QED BY <1>2, <1>4, <1>7, <1>9, <1>10, <1>11, <1>12 DEF Store!Answer, Asks

(* ... and a request that ends is closed.                                  *)
LEMMA FinishRequestStep ==
    ASSUME DriverInv, StoreInv, DriverInv', NEW f \in Fetches, FinishRequest(f)
    PROVE  Store!Close(f)
<1>1. StoreInv' /\ AppliedCommits' = AppliedCommits
  BY FinishRequestStores
<1>2. /\ fetches[f].state = "answered" /\ fetches' = [fetches EXCEPT ![f] = NoFetch]
      /\ UNCHANGED sequenced
  BY DEF FinishRequest
<1>3. AppliedCommits <= Len(sequenced)
  BY Counts DEF StoreInv
<1>4. Cardinality(Whole)' = Cardinality(Whole)
  BY <1>1, <1>2, <1>3, WholeNow, WholeNext DEF StoreInv
<1>5. fetches[f].answer # Store!Pending
  BY <1>2 DEF StoreInv, FetchesInForm, Pending, Store!Pending
<1>6. /\ fetches'[f] = NoFetch
      /\ \A g \in Fetches : g # f => fetches'[g] = fetches[g]
  BY <1>2 DEF DriverInv, TypeOK
<1>7. /\ Asks(f)' = Store!NoRequest /\ fetches'[f].answer = Store!Pending
      /\ \A g \in Fetches : g # f =>
            Asks(g)' = Asks(g) /\ fetches'[g].answer = fetches[g].answer
  BY <1>6 DEF NoFetch, Pending, Store!NoRequest, Store!Pending, Asks
<1>8. [g \in Fetches |-> Asks(g)'] =
            [[g \in Fetches |-> Asks(g)] EXCEPT ![f] = Store!NoRequest]
  BY <1>7
<1>9. [g \in Fetches |-> fetches'[g].answer] =
            [[g \in Fetches |-> fetches[g].answer] EXCEPT ![f] = Store!Pending]
  BY <1>7
<1> QED BY <1>2, <1>4, <1>5, <1>8, <1>9 DEF Store!Close, Asks

(* The first state of the driver is one of the store.                      *)
LEMMA StoreInitial == Init => Store!Init
<1> SUFFICES ASSUME Init PROVE Store!Init
  OBVIOUS
<1>1. sequenced = <<>> /\ fetches = [f \in Fetches |-> NoFetch]
  BY DEF Init
<1>2. Whole = {}
  BY <1>1 DEF Whole
<1>3. Cardinality(Whole) = 0
  BY <1>2, FS_EmptySet
<1>4. \A f \in Fetches : Asks(f) = Store!NoRequest /\ fetches[f].answer = Store!Pending
  BY <1>1 DEF NoFetch, Pending, Store!NoRequest, Store!Pending, Asks
<1> QED BY <1>1, <1>3, <1>4 DEF Store!Init, Asks

(* Every step of the driver is one of the store, or none.                  *)
LEMMA StoreSteps ==
    ASSUME DriverInv, StoreInv, [Next]_vars
    PROVE  [Store!Next]_(Store!vars)
<1>1. DriverInv' /\ StoreInv'
  BY DriverNext, StoreNext
<1>2. CASE Callers
  BY <1>1, <1>2, SequenceStep, FetchStep DEF Callers, Store!Next
<1>3. CASE Requests
  BY <1>1, <1>3, AnswerStep, FinishRequestStep DEF Requests, Store!Next
<1>4. CASE FinishSequence
  BY <1>1, <1>4, FinishSequenceStep DEF Store!Next
<1>5. CASE SequencePhase
  <2>1. AppliedCommits' = AppliedCommits /\ UNCHANGED <<sequenced, fetches>>
    BY <1>5, SequencePhaseStores DEF SequencePhase
  <2> QED BY <1>1, <2>1, StoreStutters
<1>6. CASE ProcessMutation
  <2>1. AppliedCommits' = AppliedCommits /\ UNCHANGED <<sequenced, fetches>>
    BY <1>6, MutationStores DEF ProcessMutation
  <2> QED BY <1>1, <2>1, StoreStutters
<1>7. CASE UnqueueRequest
  <2>1. UNCHANGED sequenced
    BY <1>7 DEF UnqueueRequest
  <2> QED BY <1>1, <1>7, <2>1, UnqueueStores, StoreStutters
<1>8. CASE Elsewhere
  BY <1>1, <1>8, ElsewhereStores, StoreStutters
<1> QED BY <1>2, <1>3, <1>4, <1>5, <1>6, <1>7, <1>8 DEF Next, Loop, Elsewhere

(* However many callers, requests and commits there are, the driver does   *)
(* what SequencedStore does: whole commits, in the order of the calls, and *)
(* no answer out of half of one.                                           *)
THEOREM DriverImplementsStore == Spec => ImplementsStore
<1>1. DriverInv /\ StoreInv /\ [Next]_vars => [Store!Next]_(Store!vars)
  BY StoreSteps
<1>2. Init => Store!Init
  BY StoreInitial
<1> QED BY <1>1, <1>2, DriverSafety, StoreSafety, PTL
        DEF Spec, ImplementsStore, Store!Spec
==============================================================================
