--------------------------- MODULE TransactionRefs ----------------------------
(***************************************************************************)
(* Who keeps a Transaction of src/shard/src/db/engine.cpp alive.  Its      *)
(* p_refCount is an int without a lock.  The engine holds a reference in   *)
(* p_activeTransactions, and one for each storage and view it sequenced    *)
(* the transaction to: the drivers keep a pointer to its mutations, and    *)
(* call refDecrement on their own threads when they have applied them.     *)
(*                                                                         *)
(* When the process starts, ReplayClosure reads the log once for the       *)
(* engine (pass Meta) and once for each driver, and allocates the          *)
(* transactions anew in every pass.  The drivers do not run before it is   *)
(* done.  Only the references are modelled; Engine has the rest.           *)
(***************************************************************************)
EXTENDS Integers, FiniteSets, Sequences

CONSTANTS
    NumDrivers,  \* storages and views
    Logs,        \* logs the process may find: sequences of entries
    MaxObjects   \* bound on the transactions that are allocated

Drivers == 1..NumDrivers
Engine == 0
Parties == Drivers \cup {Engine}
Meta == 0
Objects == 1..MaxObjects
NoObject == 0

Entry == [type : {"Submit", "SubmitCommit", "Commit"}, trid : Nat]
ASSUME DriversAssumption == NumDrivers \in Nat
ASSUME LogsAssumption == \A l \in Logs : l \in Seq(Entry)
ASSUME ObjectsAssumption == MaxObjects \in Nat

VARIABLES
    log,         \* what is replayed
    pass,        \* the pass over the log: Meta, or a driver
    entry,       \* the entry that is read next
    replayed,    \* p_transactions of ReplayClosure: ids and objects
    allocated,   \* how many objects were allocated
    refCount,    \* p_refCount
    deleted,     \* objects that were deleted
    active,      \* the objects in p_activeTransactions
    drivers,     \* the drivers in p_storages and p_views
    pc,          \* where ProcessQueueClosure is
    committing,  \* its p_transaction
    remaining,   \* drivers that commitComplete has still to visit
    queue,       \* the transactions in the p_sequenceQueue of a driver
    applying,    \* its p_sequenceItem
    op,          \* what a party does with a counter
    kept,        \* objects a pass has left (history)
    raced        \* objects two parties were at, at the same time (history)

replay == <<log, pass, entry, replayed, kept>>
objects == <<allocated, refCount, deleted>>
closure == <<pc, committing, remaining>>
driver == <<queue, applying>>
counting == <<op, raced>>
vars == <<replay, objects, active, drivers, closure, driver, counting>>

NoOp == [at |-> "none", by |-> 0, object |-> NoObject, value |-> 0]

Init ==
    /\ log \in Logs
    /\ pass = Meta /\ entry = 1 /\ replayed = {}
    /\ allocated = 0
    /\ refCount = [o \in Objects |-> 0]
    /\ deleted = {} /\ active = {}
    /\ drivers = Drivers
    /\ pc = "replay" /\ committing = NoObject /\ remaining = <<>>
    /\ queue = [d \in Drivers |-> <<>>]
    /\ applying = [d \in Drivers |-> NoObject]
    /\ op = [p \in Parties |-> NoOp]
    /\ kept = {} /\ raced = {}
-------------------------------------------------------------------------------
(* ReplayClosure.  Nobody else runs: the steps on a counter are one. *)

NextObject == allocated + 1

(* The references that are left when a commit of o has been replayed: the  *)
(* closure drops its own, the driver of the pass has got one.              *)
ReplayCommit(o) ==
    IF pass = Meta
    THEN /\ refCount' = [refCount EXCEPT ![o] = 0]
         /\ deleted' = deleted \cup {o}
         /\ UNCHANGED queue
    ELSE /\ refCount' = [refCount EXCEPT ![o] = 1]
         /\ queue' = [queue EXCEPT ![pass] = Append(@, o)]
         /\ UNCHANGED deleted

OnEntry ==
    /\ pc = "replay" /\ entry \in DOMAIN log
    /\ LET type == log[entry].type
           trid == log[entry].trid
       IN  \/ /\ type = "Submit" /\ allocated < MaxObjects
              /\ allocated' = NextObject
              /\ refCount' = [refCount EXCEPT ![NextObject] = 1]
              /\ replayed' = replayed \cup {<<trid, NextObject>>}
              /\ UNCHANGED <<deleted, queue>>
           \/ /\ type = "SubmitCommit" /\ allocated < MaxObjects
              /\ allocated' = NextObject
              /\ ReplayCommit(NextObject)
              /\ UNCHANGED replayed
           \/ /\ type = "Commit"
              /\ \E pair \in replayed :
                    /\ pair[1] = trid
                    /\ ReplayCommit(pair[2])
                    /\ replayed' = replayed \ {pair}
              /\ UNCHANGED allocated
    /\ entry' = entry + 1
    /\ UNCHANGED <<log, pass, kept, active, drivers, closure, applying, counting>>

(* The objects a pass leaves: onSubmitted of the meta pass takes another   *)
(* reference and puts them into p_activeTransactions, that of the others   *)
(* ignores them.  Nobody drops the reference of the closure.               *)
Left == {pair[2] : pair \in replayed}

EndPass ==
    /\ pc = "replay" /\ entry = Len(log) + 1
    /\ \/ /\ pass = Meta
          /\ refCount' = [o \in Objects |-> refCount[o] + IF o \in Left THEN 1 ELSE 0]
          /\ active' = active \cup Left
       \/ /\ pass # Meta
          /\ UNCHANGED <<refCount, active>>
    /\ kept' = kept \cup Left
    /\ replayed' = {}
    /\ pass' = pass + 1 /\ entry' = 1
    /\ pc' = IF pass = NumDrivers THEN "idle" ELSE "replay"
    /\ UNCHANGED <<log, allocated, deleted, drivers, committing, remaining, driver,
                   counting>>
-------------------------------------------------------------------------------
(* refIncrement and refDecrement read p_refCount, change it, and write it  *)
(* back; refDecrement deletes the object if what it wrote is 0.            *)

Busy(p) == op[p].at # "none"

Begin(p, by, o) ==
    /\ ~ Busy(p)
    /\ op' = [op EXCEPT ![p] = [at |-> "load", by |-> by, object |-> o, value |-> 0]]
    /\ raced' = raced \cup {x \in {o} : \E q \in Parties : op[q].object = o}

Load(p) ==
    /\ op[p].at = "load"
    /\ op' = [op EXCEPT ![p].at = "store", ![p].value = refCount[op[p].object]]
    /\ UNCHANGED <<replay, objects, active, drivers, closure, driver, raced>>

Store(p) ==
    /\ op[p].at = "store"
    /\ LET o == op[p].object
           count == op[p].value + op[p].by
       IN  /\ refCount' = [refCount EXCEPT ![o] = count]
           /\ deleted' = IF op[p].by = -1 /\ count = 0 THEN deleted \cup {o} ELSE deleted
    /\ op' = [op EXCEPT ![p] = NoOp]
    /\ UNCHANGED <<replay, allocated, active, drivers, closure, driver, raced>>
-------------------------------------------------------------------------------
(* The engine *)

(* Engine::transaction() *)
Allocate ==
    /\ pc = "idle" /\ allocated < MaxObjects
    /\ allocated' = NextObject
    /\ refCount' = [refCount EXCEPT ![NextObject] = 1]
    /\ active' = active \cup {NextObject}
    /\ UNCHANGED <<replay, deleted, drivers, closure, driver, counting>>

(* submitFailure() and processRollback() *)
Discard(o) ==
    /\ pc = "idle" /\ o \in active
    /\ active' = active \ {o}
    /\ Begin(Engine, -1, o)
    /\ UNCHANGED <<replay, objects, drivers, closure, driver>>

(* commitComplete(): for each driver a reference and a queue item ... *)
CommitComplete(o) ==
    /\ pc = "idle" /\ o \in active /\ ~ Busy(Engine)
    /\ pc' = "increment"
    /\ committing' = o
    /\ remaining' = [d \in Drivers |-> d]
    /\ UNCHANGED <<replay, objects, active, drivers, driver, counting>>

SkipUnlinked ==
    /\ pc = "increment" /\ remaining # <<>>
    /\ Head(remaining) \notin drivers
    /\ remaining' = Tail(remaining)
    /\ UNCHANGED <<replay, objects, active, drivers, pc, committing, driver,
                   counting>>

(* Mutant of Increment: the driver is handed the mutations uncounted. *)
NoIncrement ==
    /\ pc = "increment" /\ remaining # <<>> /\ Head(remaining) \in drivers
    /\ pc' = "sequence"
    /\ UNCHANGED <<replay, objects, active, drivers, committing, remaining, driver,
                   counting>>

Increment ==
    /\ pc = "increment" /\ remaining # <<>> /\ Head(remaining) \in drivers
    /\ pc' = "sequence"
    /\ Begin(Engine, 1, committing)
    /\ UNCHANGED <<replay, objects, active, drivers, committing, remaining, driver>>

Sequence ==
    /\ pc = "sequence" /\ ~ Busy(Engine)
    /\ pc' = "increment"
    /\ queue' = [queue EXCEPT ![Head(remaining)] = Append(@, committing)]
    /\ remaining' = Tail(remaining)
    /\ UNCHANGED <<replay, objects, active, drivers, committing, applying, counting>>

(* ... and then the engine drops its own. *)
EndCommit ==
    /\ pc = "increment" /\ remaining = <<>>
    /\ pc' = "idle"
    /\ active' = active \ {committing}
    /\ Begin(Engine, -1, committing)
    /\ committing' = NoObject
    /\ UNCHANGED <<replay, objects, drivers, remaining, driver>>

(* Requests are handled on the main thread, while the closure may be on    *)
(* another one.  A driver that is unlinked goes on with what is in its     *)
(* queue.                                                                  *)
Unlink(d) ==
    /\ pc # "replay" /\ d \in drivers
    /\ drivers' = drivers \ {d}
    /\ UNCHANGED <<replay, objects, active, closure, driver, counting>>

(* A driver: takes an item, applies it, calls refDecrement. *)
Take(d) ==
    /\ pc # "replay" /\ queue[d] # <<>>
    /\ applying[d] = NoObject /\ ~ Busy(d)
    /\ applying' = [applying EXCEPT ![d] = Head(queue[d])]
    /\ queue' = [queue EXCEPT ![d] = Tail(@)]
    /\ UNCHANGED <<replay, objects, active, drivers, closure, counting>>

Applied(d) ==
    /\ applying[d] # NoObject
    /\ Begin(d, -1, applying[d])
    /\ applying' = [applying EXCEPT ![d] = NoObject]
    /\ UNCHANGED <<replay, objects, active, drivers, closure, queue>>
-------------------------------------------------------------------------------
Next ==
    \/ OnEntry \/ EndPass
    \/ Allocate
    \/ \E o \in Objects : Discard(o) \/ CommitComplete(o)
    \/ SkipUnlinked \/ Increment \/ Sequence \/ EndCommit
    \/ \E d \in Drivers : Unlink(d) \/ Take(d) \/ Applied(d)
    \/ \E p \in Parties : Load(p) \/ Store(p)

Spec == Init /\ [][Next]_vars
-------------------------------------------------------------------------------
(* Properties *)

(* The references there are to an object: those of the maps, of what a     *)
(* driver has queued and applies, those somebody is about to drop, and the *)
(* one commitComplete has taken for the next driver.                       *)
Number(condition) == IF condition THEN 1 ELSE 0

Replays(o) == {pair \in replayed : pair[2] = o}

Queued(o) ==
    UNION {{d} \X {n \in DOMAIN queue[d] : queue[d][n] = o} : d \in Drivers}

Applies(o) == {d \in Drivers : applying[d] = o}

Drops(o) == {p \in Parties : op[p].object = o /\ op[p].by = -1}

Taken(o) == o = committing /\ pc = "sequence" /\ ~ Busy(Engine)

References(o) ==
    Number(o \in active) + Number(o \in kept) + Number(Taken(o))
    + Cardinality(Replays(o)) + Cardinality(Queued(o))
    + Cardinality(Applies(o)) + Cardinality(Drops(o))

(* As long as no two threads were at the counter of an object at the same  *)
(* time, it counts the references, and the object is deleted with the last *)
(* one: no driver reads mutations that are gone, and none is deleted       *)
(* twice.  Only what a replay has left is never deleted.                   *)
RefsExact ==
    \A o \in Objects \ raced :
        /\ refCount[o] = References(o)
        /\ o \in deleted <=> o <= allocated /\ References(o) = 0

(* "assert(p_refCount > 0)" of refDecrement.                               *)
CountPositive ==
    \A p \in Parties : op[p].at = "store" /\ op[p].by = -1 => op[p].value > 0
===============================================================================
