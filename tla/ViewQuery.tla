------------------------------- MODULE ViewQuery -------------------------------
(***************************************************************************)
(* Queries of a JsView (src/shard/src/db/js-view.cpp) over the storage it  *)
(* is based on.  The engine hands every commit to both, each applies it    *)
(* when its own queue gets there.  A query reads the order tree link by    *)
(* link, fetches the document of each from the storage, and returns those  *)
(* whose link is to the version the storage has.  Queries and inserts need *)
(* one of a few script instances.                                          *)
(*                                                                         *)
(* The drivers are seen as QueuedDriver leaves them: commits are applied   *)
(* whole and in order, in the view never beside a query.  A commit is one  *)
(* mutation; its sequence id is its place in committed.  Scripts only give *)
(* a document its key; removed documents (id zero) do not occur.           *)
(***************************************************************************)
EXTENDS Integers, Sequences, FiniteSets, SequencesExt

CONSTANTS
    Queries,
    Insert,         \* the view's InsertClosure, of which there is one
    Mutations,      \* what is committed: a document, and the key of its content
    FromKeys,       \* the keys queries start from
    Instances,      \* JsInstances, 5 in the code
    Limits,         \* the limits asked for
    MaxCommits,     \* bound on the commits
    MaxGarbage      \* bound on what uninitialised memory holds

ASSUME ActorsAssumption == IsFiniteSet(Queries) /\ Insert \notin Queries
ASSUME MutationsAssumption == \A m \in Mutations : m.key \in Nat
ASSUME RequestsAssumption == FromKeys \subseteq Nat /\ Limits \subseteq Nat
ASSUME BoundsAssumption ==
    Instances \in Nat \ {0} /\ MaxCommits \in Nat /\ MaxGarbage \in Nat

VARIABLES
    process,            \* the server: "up", "crashed" or "threw"
    committed,          \* the commits, all in the log
    storageApplied,     \* how many of them the storage has applied
    tree,               \* p_orderTree: links in the order of their keys
    idleInstances,      \* size of p_idleInstances
    waitForInstance,    \* p_waitForInstance
    state,              \* where each query is, and the insert
    query               \* what a query asks, and the members of its closure

data == <<committed, storageApplied, tree>>
pool == <<idleInstances, waitForInstance>>
vars == <<process, data, pool, state, query>>

Actors == Queries \cup {Insert}
SequenceIds == 0..MaxCommits
Documents == {m.documentId : m \in Mutations}
Link == [documentId : Documents, key : Nat, sequenceId : SequenceIds]

NoLimit == -1
NoKey == -1
NotFound == 0

State == {"none", "queued", "waiting", "instance", "item", "fetch", "done"}

QueryRecord ==
    [sequenceId : SequenceIds, fromKey : FromKeys \cup {NoKey},
     limit : Limits \cup {NoLimit}, fetchedCount : Nat, position : Nat,
     items : Seq(Link),
     settled : BOOLEAN]     \* both had the commits asked for (history)

NoQuery == [sequenceId |-> 0, fromKey |-> NoKey, limit |-> NoLimit,
            fetchedCount |-> 0, position |-> 0, items |-> <<>>, settled |-> FALSE]

Init ==
    /\ process = "up"
    /\ committed = <<>> /\ storageApplied = 0 /\ tree = <<>>
    /\ idleInstances = Instances /\ waitForInstance = <<>>
    /\ state = [a \in Actors |-> "none"]
    /\ query = [q \in Queries |-> NoQuery]
------------------------------------------------------------------------------
(* The pool of instances *)

exhausted == idleInstances = 0

grabInstance(a) ==
    IF exhausted
    THEN /\ waitForInstance' = Append(waitForInstance, a)
         /\ state' = [state EXCEPT ![a] = "waiting"]
         /\ UNCHANGED idleInstances
    ELSE /\ idleInstances' = idleInstances - 1
         /\ state' = [state EXCEPT ![a] = "instance"]
         /\ UNCHANGED waitForInstance

(* Mutant: an instance goes back to the others although somebody waits. *)
nobody == TRUE

nobodyWaits == waitForInstance = <<>>

(* Mutant: complete() forgets the instance. *)
keepInstance(a, s) ==
    /\ state' = [state EXCEPT ![a] = s]
    /\ UNCHANGED pool

(* a releases its instance, to the first who waits, and goes on to s. *)
releaseInstance(a, s) ==
    IF nobodyWaits
    THEN /\ idleInstances' = idleInstances + 1
         /\ state' = [state EXCEPT ![a] = s]
         /\ UNCHANGED waitForInstance
    ELSE /\ waitForInstance' = Tail(waitForInstance)
         /\ state' = [state EXCEPT ![a] = s, ![Head(waitForInstance)] = "instance"]
         /\ UNCHANGED idleInstances
------------------------------------------------------------------------------
(* Commits *)

Commit(m) ==
    /\ process = "up"
    /\ Len(committed) < MaxCommits
    /\ committed' = Append(committed, m)
    /\ UNCHANGED <<process, storageApplied, tree, pool, state, query>>

StorageApply ==
    /\ process = "up"
    /\ storageApplied < Len(committed)
    /\ storageApplied' = storageApplied + 1
    /\ UNCHANGED <<process, committed, tree, pool, state, query>>

Active == {q \in Queries : state[q] \in {"waiting", "instance", "item", "fetch"}}

(* processInsert, processModify and InsertClosure::apply *)
ApplyInsert ==
    /\ process = "up"
    /\ Len(tree) < Len(committed)
    /\ state[Insert] = "none" /\ Active = {}
    /\ grabInstance(Insert)
    /\ UNCHANGED <<process, data, query>>

(* The link of the nth commit. *)
linkOf(n) ==
    [documentId |-> committed[n].documentId, key |-> committed[n].key,
     sequenceId |-> n]

(* It goes behind those with the same key, as Btree has it. *)
linked(link) ==
    InsertAt(tree, Cardinality({i \in DOMAIN tree : tree[i].key <= link.key}) + 1,
             link)

(* InsertClosure::acquireInstance to onComplete *)
CompleteInsert ==
    /\ process = "up"
    /\ state[Insert] = "instance"
    /\ tree' = linked(linkOf(Len(tree) + 1))
    /\ releaseInstance(Insert, "none")
    /\ UNCHANGED <<process, committed, storageApplied, query>>
------------------------------------------------------------------------------
(* Queries *)

AskedIds == {Len(committed)} \cup 1..MaxCommits

(* Server::QueryClosure: the sequence id is the current one unless given.  *)
(* A to_key of the request overwrites the from key; there is no end key.   *)
Query(q, s, from, limit) ==
    /\ process = "up"
    /\ state[q] = "none"
    /\ state' = [state EXCEPT ![q] = "queued"]
    /\ query' = [query EXCEPT ![q] = [NoQuery EXCEPT
            !.sequenceId = s, !.fromKey = from, !.limit = limit]]
    /\ UNCHANGED <<process, data, pool>>

(* processQuery.  p_fetchedCount is never initialised; it is read only if  *)
(* there is a limit.                                                       *)
Start(q) ==
    /\ process = "up"
    /\ state[q] = "queued" /\ state[Insert] = "none"
    /\ grabInstance(q)
    /\ \E garbage \in IF query[q].limit = NoLimit THEN {0} ELSE 0..MaxGarbage :
        query' = [query EXCEPT
            ![q].fetchedCount = garbage,
            ![q].settled = /\ storageApplied >= query[q].sequenceId
                           /\ Len(tree) >= query[q].sequenceId]
    /\ UNCHANGED <<process, data>>

firstFrom(key) == Cardinality({i \in DOMAIN tree : tree[i].key < key}) + 1

(* acquireInstance, findFirst or findNext, seek: behind the last link if   *)
(* there is none.                                                          *)
FindBegin(q) ==
    /\ process = "up"
    /\ state[q] = "instance"
    /\ state' = [state EXCEPT ![q] = "item"]
    /\ query' = [query EXCEPT ![q].position = firstFrom(query[q].fromKey)]
    /\ UNCHANGED <<process, data, pool>>

finished(q) ==
    \/ query[q].position > Len(tree)
    \/ query[q].limit # NoLimit /\ query[q].fetchedCount = query[q].limit

(* fetchItem, and complete(), which releases the instance before it calls  *)
(* finishRequest().                                                        *)
FetchItem(q) ==
    /\ process = "up"
    /\ state[q] = "item"
    /\ \/ finished(q) /\ releaseInstance(q, "done")
       \/ /\ ~ finished(q)
          /\ state' = [state EXCEPT ![q] = "fetch"]
          /\ UNCHANGED pool
    /\ UNCHANGED <<process, data, query>>

(* Mutant: a version is visible only to later sequence ids. *)
visibleBefore(n, s) == n < s

visible(n, s) == n <= s

(* What the storage answers: the newest version it has that is not newer   *)
(* than asked for (Lookup of QueuedDriver).                                *)
version(d, s) ==
    Max({NotFound} \cup {n \in 1..storageApplied :
            committed[n].documentId = d /\ visible(n, s)})

fetched(q) == version(tree[query[q].position].documentId, query[q].sequenceId)

(* Mutant: every document found is returned. *)
always(link, n) == TRUE

expected(link, n) == link.sequenceId = n

(* onFetchData, which drops all versions but the expected one, and         *)
(* onFetchComplete.  Items leave in parts of 1000, which is left out.      *)
Fetched(q) ==
    LET link == tree[query[q].position] IN
    /\ process = "up"
    /\ state[q] = "fetch"
    /\ fetched(q) # NotFound
    /\ state' = [state EXCEPT ![q] = "item"]
    /\ query' = [query EXCEPT
            ![q].position = @ + 1,
            ![q].items = IF expected(link, fetched(q)) THEN Append(@, link) ELSE @,
            ![q].fetchedCount = IF expected(link, fetched(q)) THEN @ + 1 ELSE @]
    /\ UNCHANGED <<process, data, pool>>

Return(q) ==
    /\ process = "up"
    /\ state[q] = "done"
    /\ state' = [state EXCEPT ![q] = "none"]
    /\ query' = [query EXCEPT ![q] = NoQuery]
    /\ UNCHANGED <<process, data, pool>>
------------------------------------------------------------------------------
(* The end of the process, and the start that replays all commits into an  *)
(* empty storage and an empty view.                                        *)

Stop(how) ==
    /\ process = "up"
    /\ process' = how
    /\ storageApplied' = 0 /\ tree' = <<>>
    /\ idleInstances' = Instances /\ waitForInstance' = <<>>
    /\ state' = [a \in Actors |-> "none"]
    /\ query' = [q \in Queries |-> NoQuery]
    /\ UNCHANGED committed

(* onFetchComplete throws what nobody catches. *)
Throw(q) ==
    /\ state[q] = "fetch"
    /\ fetched(q) = NotFound
    /\ Stop("threw")

Restart ==
    /\ process # "up"
    /\ process' = "up"
    /\ UNCHANGED <<data, pool, state, query>>

Run(q) == FindBegin(q) \/ FetchItem(q) \/ Fetched(q) \/ Throw(q)

Next ==
    \/ \E m \in Mutations : Commit(m)
    \/ StorageApply \/ ApplyInsert \/ CompleteInsert
    \/ \E q \in Queries :
        \/ \E s \in AskedIds, from \in FromKeys \cup {NoKey},
              limit \in Limits \cup {NoLimit} : Query(q, s, from, limit)
        \/ Start(q) \/ Run(q) \/ Return(q)
    \/ Stop("crashed") \/ Restart

(* The driver starts what is queued, and the storage answers. *)
Fairness ==
    /\ WF_vars(CompleteInsert)
    /\ \A q \in Queries : WF_vars(Start(q)) /\ WF_vars(Run(q))

Spec == Init /\ [][Next]_vars /\ Fairness
------------------------------------------------------------------------------
(* Properties *)

(* Every variable has its type. *)
TypeOK ==
    /\ process \in {"up", "crashed", "threw"}
    /\ committed \in Seq(Mutations) /\ tree \in Seq(Link)
    /\ storageApplied \in 0..Len(committed) /\ Len(tree) <= Len(committed)
    /\ idleInstances \in 0..Instances
    /\ waitForInstance \in Seq(Actors)
    /\ state \in [Actors -> State]
    /\ query \in [Queries -> QueryRecord]

(* No instance is lost and none is used twice, nobody waits while one is   *)
(* idle, and the insert never waits: when the view applies commits, every  *)
(* query has given its instance back.                                      *)
Holding == {a \in Actors : state[a] \in {"instance", "item", "fetch"}}

InstancesAccounted ==
    /\ TypeOK
    /\ idleInstances + Cardinality(Holding) = Instances
    /\ ToSet(waitForInstance) = {a \in Actors : state[a] = "waiting"}
    /\ waitForInstance # <<>> => idleInstances = 0
    /\ state[Insert] # "waiting"

(* "make sure we only return the last version of each document": a query   *)
(* that starts when storage and view have the commits it asks for returns  *)
(* the last version of every document, once, in the order of the keys, and *)
(* with a limit (which the code counts from anywhere) the first of them,   *)
(* whatever is committed meanwhile.                                        *)
LastVersions(q) ==
    {linkOf(n) : n \in {n \in 1..query[q].sequenceId :
        /\ committed[n].key >= query[q].fromKey
        /\ \A m \in n+1..query[q].sequenceId :
                committed[m].documentId # committed[n].documentId}}

Before(a, b) ==
    \/ a.key < b.key
    \/ a.key = b.key /\ a.sequenceId < b.sequenceId

Ordered(links) == \A i, j \in DOMAIN links : i < j => Before(links[i], links[j])

Exact(q) ==
    LET items == query[q].items IN
    /\ Ordered(items)
    /\ ToSet(items) \subseteq LastVersions(q)
    /\ \A link \in LastVersions(q) \ ToSet(items) :
            query[q].limit # NoLimit /\ \A i \in DOMAIN items : Before(items[i], link)

SettledQueryExact ==
    \A q \in Queries : state[q] = "done" /\ query[q].settled => Exact(q)

(* Such a query fails only over a document that is newer than it asks for. *)
SettledQueryFinds ==
    \A q \in Queries : state[q] = "fetch" /\ query[q].settled =>
        LET link == tree[query[q].position] IN
            link.sequenceId <= query[q].sequenceId => fetched(q) # NotFound

(* Every query comes to an end, however few instances there are.           *)
QueriesEnd ==
    \A q \in Queries : []<>(state[q] \in {"none", "done"})
==============================================================================
