---------------------------- MODULE ViewQueryProofs ----------------------------
(***************************************************************************)
(* The safety of ViewQuery for any number of queries, script instances,    *)
(* documents and commits: no instance is lost, and a settled query finds   *)
(* the documents it asks for and returns exactly those.  ViewInv and, on   *)
(* top of it, ExactInv are the inductive invariants.                       *)
(***************************************************************************)
EXTENDS ViewQuery, TLAPS, SequenceTheorems, FiniteSetTheorems

------------------------------------------------------------------------------
(* The invariants that make the safety properties inductive *)

(* An actor waits in one place of the queue.                               *)
WaitsOnce ==
    \A i, j \in DOMAIN waitForInstance :
        waitForInstance[i] = waitForInstance[j] => i = j

(* The view applies commits only beside queries that have no instance and  *)
(* want none.                                                              *)
InsertAlone ==
    /\ state[Insert] \in {"none", "instance"}
    /\ state[Insert] = "instance" => Active = {} /\ Len(tree) < Len(committed)

(* Every link is that of a commit.                                         *)
LinksCommitted ==
    \A i \in DOMAIN tree :
        /\ tree[i].sequenceId \in 1..Len(committed)
        /\ committed[tree[i].sequenceId].documentId = tree[i].documentId

(* A query is at a link of the tree, or behind all of them.                *)
QueriesPlaced ==
    \A q \in Queries :
        /\ state[q] \in {"item", "fetch"} => query[q].position > 0
        /\ state[q] = "fetch" => query[q].position <= Len(tree)
        /\ query[q].settled => storageApplied >= query[q].sequenceId

ViewInv ==
    /\ InstancesAccounted
    /\ Len(committed) <= MaxCommits
    /\ WaitsOnce
    /\ InsertAlone
    /\ LinksCommitted
    /\ QueriesPlaced

(* The tree has one link of every commit the view has applied, in order.   *)
TreeExact ==
    /\ \A i \in DOMAIN tree :
        tree[i].sequenceId \in 1..Len(tree) /\ tree[i] = linkOf(tree[i].sequenceId)
    /\ \A n \in 1..Len(tree) : \E i \in DOMAIN tree : tree[i].sequenceId = n
    /\ Ordered(tree)

(* What a query that runs has of the links in front of its position.       *)
Passed(q) ==
    LET position == query[q].position
        items == query[q].items
    IN  /\ position <= Len(tree) + 1
        /\ \A i \in DOMAIN tree : i >= position => tree[i].key >= query[q].fromKey
        /\ Ordered(items)
        /\ ToSet(items) = LastVersions(q) \cap {tree[i] : i \in 1..position - 1}

(* A query has nothing before it runs, and knows the versions it asks for  *)
(* if it is settled.                                                       *)
QueryExact(q) ==
    /\ state[q] \in {"queued", "waiting", "instance"} => query[q].items = <<>>
    /\ query[q].settled =>
        /\ query[q].sequenceId <= Len(tree)
        /\ state[q] \in {"item", "fetch"} => Passed(q)
        /\ state[q] = "done" => Exact(q)

ExactInv == TreeExact /\ \A q \in Queries : QueryExact(q)
------------------------------------------------------------------------------
(* What the invariant says of the pool of instances.                       *)
PoolInv ==
    /\ idleInstances \in 0..Instances
    /\ waitForInstance \in Seq(Actors)
    /\ state \in [Actors -> State]
    /\ idleInstances + Cardinality(Holding) = Instances
    /\ ToSet(waitForInstance) = {a \in Actors : state[a] = "waiting"}
    /\ waitForInstance # <<>> => idleInstances = 0
    /\ WaitsOnce

(* The pool is part of the invariant.                                     *)
LEMMA PoolOfView == ViewInv => PoolInv
BY DEF ViewInv, InstancesAccounted, TypeOK, PoolInv

(* Holders can be counted; one more or one less changes the count by one.  *)
LEMMA HoldersFinite ==
    /\ IsFiniteSet(Actors)
    /\ IsFiniteSet(Holding)
    /\ Cardinality(Holding) \in Nat
<1>1. IsFiniteSet(Actors)
  BY ActorsAssumption, FS_AddElement DEF Actors
<1>2. Holding \in SUBSET Actors
  BY DEF Holding
<1> QED BY <1>1, <1>2, FS_Subset, FS_CardinalityType

(* A queue with one more element at its end.                               *)
LEMMA QueueAppended ==
    ASSUME NEW S, NEW w \in Seq(S), NEW a \in S
    PROVE  /\ Append(w, a) \in Seq(S) /\ Append(w, a) # <<>>
           /\ ToSet(Append(w, a)) = ToSet(w) \cup {a}
           /\ DOMAIN Append(w, a) = DOMAIN w \cup {Len(w) + 1}
           /\ Len(w) + 1 \notin DOMAIN w
           /\ \A i \in DOMAIN w : Append(w, a)[i] = w[i]
           /\ Append(w, a)[Len(w) + 1] = a
<1>1. Len(w) \in Nat /\ DOMAIN w = 1..Len(w)
  BY LenProperties
<1>2. /\ Append(w, a) \in Seq(S) /\ Append(w, a) # <<>>
      /\ Len(Append(w, a)) = Len(w) + 1
      /\ \A i \in 1..Len(w) : Append(w, a)[i] = w[i]
      /\ Append(w, a)[Len(w) + 1] = a
  BY AppendProperties
<1>3. DOMAIN Append(w, a) = 1..(Len(w) + 1)
  BY <1>2, LenProperties
<1>4. DOMAIN Append(w, a) = DOMAIN w \cup {Len(w) + 1} /\ Len(w) + 1 \notin DOMAIN w
  BY <1>1, <1>3
<1>5. ToSet(Append(w, a)) = ToSet(w) \cup {a}
  BY <1>1, <1>2, <1>4 DEF ToSet
<1> QED BY <1>1, <1>2, <1>4, <1>5

(* A queue without repetitions that loses its head.                        *)
LEMMA QueueTail ==
    ASSUME NEW w \in Seq(Actors), w # <<>>,
           \A i, j \in DOMAIN w : w[i] = w[j] => i = j
    PROVE  /\ Head(w) \in Actors /\ Tail(w) \in Seq(Actors)
           /\ Head(w) \in ToSet(w)
           /\ ToSet(Tail(w)) = ToSet(w) \ {Head(w)}
           /\ \A i, j \in DOMAIN Tail(w) : Tail(w)[i] = Tail(w)[j] => i = j
<1>1. /\ Len(w) \in Nat \ {0} /\ DOMAIN w = 1..Len(w) /\ Head(w) = w[1]
  BY EmptySeq, LenProperties
<1>2. /\ Head(w) \in Actors /\ Tail(w) \in Seq(Actors) /\ Len(Tail(w)) = Len(w) - 1
      /\ \A i \in 1..Len(Tail(w)) : Tail(w)[i] = w[i + 1]
  BY HeadTailProperties
<1>3. DOMAIN Tail(w) = 1..(Len(w) - 1)
  BY <1>2, LenProperties
<1>4. \A i \in DOMAIN Tail(w) : i + 1 \in DOMAIN w /\ i + 1 # 1 /\ Tail(w)[i] = w[i + 1]
  BY <1>1, <1>2, <1>3
<1>5. \A i, j \in DOMAIN Tail(w) : Tail(w)[i] = Tail(w)[j] => i = j
  <2> SUFFICES ASSUME NEW i \in DOMAIN Tail(w), NEW j \in DOMAIN Tail(w),
                      Tail(w)[i] = Tail(w)[j]
               PROVE  i = j
    OBVIOUS
  <2>1. i + 1 = j + 1
    BY <1>4
  <2> QED BY <1>1, <1>3, <2>1
<1>6. ToSet(Tail(w)) \subseteq ToSet(w) \ {Head(w)}
  BY <1>1, <1>4 DEF ToSet
<1>7. ToSet(w) \ {Head(w)} \subseteq ToSet(Tail(w))
  <2> SUFFICES ASSUME NEW i \in DOMAIN w, w[i] # w[1]
               PROVE  \E j \in DOMAIN Tail(w) : Tail(w)[j] = w[i]
    BY <1>1 DEF ToSet
  <2>1. i - 1 \in DOMAIN Tail(w) /\ (i - 1) + 1 = i
    BY <1>1, <1>3
  <2>2. Tail(w)[i - 1] = w[i]
    BY <1>4, <2>1
  <2> QED BY <2>1, <2>2
<1>8. Head(w) \in ToSet(w)
  BY <1>1 DEF ToSet
<1> QED BY <1>2, <1>5, <1>6, <1>7, <1>8
------------------------------------------------------------------------------
(* The pool of instances *)

(* Whoever grabs an instance gets one, or waits while there is none.       *)
LEMMA PoolGrab ==
    ASSUME PoolInv, NEW a \in Actors, state[a] \in {"none", "queued"},
           grabInstance(a)
    PROVE  /\ PoolInv'
           /\ state'[a] \in {"waiting", "instance"}
           /\ idleInstances > 0 => state'[a] = "instance"
           /\ \A b \in Actors \ {a} : state'[b] = state[b]
<1>1. CASE idleInstances = 0
  <2>1. /\ waitForInstance' = Append(waitForInstance, a)
        /\ state' = [state EXCEPT ![a] = "waiting"]
        /\ idleInstances' = idleInstances
    BY <1>1 DEF grabInstance, exhausted
  <2>2. \A b \in Actors : state'[b] = IF b = a THEN "waiting" ELSE state[b]
    BY <2>1 DEF PoolInv
  <2>3. Holding' = Holding
    BY <2>2 DEF Holding
  <2>4. /\ waitForInstance' \in Seq(Actors)
        /\ ToSet(waitForInstance') = ToSet(waitForInstance) \cup {a}
        /\ DOMAIN waitForInstance' = DOMAIN waitForInstance
                                        \cup {Len(waitForInstance) + 1}
        /\ Len(waitForInstance) + 1 \notin DOMAIN waitForInstance
        /\ \A i \in DOMAIN waitForInstance : waitForInstance'[i] = waitForInstance[i]
        /\ waitForInstance'[Len(waitForInstance) + 1] = a
    BY <2>1, QueueAppended DEF PoolInv
  <2>5. ToSet(waitForInstance') = {b \in Actors : state'[b] = "waiting"}
    BY <2>2, <2>4 DEF PoolInv
  <2>6. a \notin ToSet(waitForInstance)
    BY DEF PoolInv
  <2>7. WaitsOnce'
    BY <2>4, <2>6 DEF PoolInv, WaitsOnce, ToSet
  <2>8. state' \in [Actors -> State]
    BY <2>1 DEF PoolInv, State
  <2> QED BY <1>1, <2>1, <2>2, <2>3, <2>4, <2>5, <2>7, <2>8 DEF PoolInv
<1>2. CASE idleInstances # 0
  <2>1. /\ idleInstances' = idleInstances - 1
        /\ state' = [state EXCEPT ![a] = "instance"]
        /\ waitForInstance' = waitForInstance
    BY <1>2 DEF grabInstance, exhausted
  <2>2. \A b \in Actors : state'[b] = IF b = a THEN "instance" ELSE state[b]
    BY <2>1 DEF PoolInv
  <2>3. Holding' = Holding \cup {a} /\ a \notin Holding
    BY <2>2 DEF Holding
  <2>4. Cardinality(Holding') = Cardinality(Holding) + 1
    BY <2>3, HoldersFinite, FS_AddElement
  <2>5. /\ idleInstances' \in 0..Instances
        /\ idleInstances' + Cardinality(Holding') = Instances
    BY <1>2, <2>1, <2>4, HoldersFinite, BoundsAssumption DEF PoolInv
  <2>6. ToSet(waitForInstance') = {b \in Actors : state'[b] = "waiting"}
    BY <2>1, <2>2 DEF PoolInv
  <2>7. waitForInstance' = <<>>
    BY <1>2, <2>1 DEF PoolInv
  <2>8. state' \in [Actors -> State] /\ WaitsOnce'
    BY <2>1 DEF PoolInv, State, WaitsOnce
  <2> QED BY <2>1, <2>2, <2>5, <2>6, <2>7, <2>8 DEF PoolInv
<1> QED BY <1>1, <1>2

(* An instance that is released is idle, or is the one of the actor that   *)
(* waited first.                                                           *)
LEMMA PoolRelease ==
    ASSUME PoolInv, NEW a \in Holding, NEW s \in {"none", "done"},
           releaseInstance(a, s)
    PROVE  /\ PoolInv'
           /\ state'[a] = s
           /\ \A b \in Actors \ {a} :
                \/ state'[b] = state[b]
                \/ state[b] = "waiting" /\ state'[b] = "instance"
<1>0. a \in Actors
  BY DEF Holding
<1>1. CASE waitForInstance = <<>>
  <2>1. /\ idleInstances' = idleInstances + 1
        /\ state' = [state EXCEPT ![a] = s]
        /\ waitForInstance' = waitForInstance
    BY <1>1 DEF releaseInstance, nobodyWaits
  <2>2. \A b \in Actors : state'[b] = IF b = a THEN s ELSE state[b]
    BY <2>1 DEF PoolInv
  <2>3. Holding' = Holding \ {a}
    BY <2>2 DEF Holding
  <2>4. Cardinality(Holding') = Cardinality(Holding) - 1
    BY <2>3, HoldersFinite, FS_RemoveElement
  <2>5. Cardinality(Holding') \in Nat
    BY <2>3, HoldersFinite, FS_RemoveElement, FS_CardinalityType
  <2>6. /\ idleInstances' \in 0..Instances
        /\ idleInstances' + Cardinality(Holding') = Instances
    BY <2>1, <2>4, <2>5, HoldersFinite, BoundsAssumption DEF PoolInv
  <2>7. ToSet(waitForInstance') = {b \in Actors : state'[b] = "waiting"}
    BY <2>1, <2>2 DEF PoolInv, Holding
  <2>8. state' \in [Actors -> State] /\ WaitsOnce'
    BY <2>1 DEF PoolInv, State, WaitsOnce
  <2> QED BY <1>0, <1>1, <2>1, <2>2, <2>6, <2>7, <2>8 DEF PoolInv
<1>2. CASE waitForInstance # <<>>
  <2> DEFINE first == Head(waitForInstance)
  <2>1. /\ waitForInstance' = Tail(waitForInstance)
        /\ state' = [state EXCEPT ![a] = s, ![first] = "instance"]
        /\ idleInstances' = idleInstances
    BY <1>2 DEF releaseInstance, nobodyWaits
  <2>2. /\ first \in Actors /\ first \in ToSet(waitForInstance)
        /\ waitForInstance' \in Seq(Actors)
        /\ ToSet(waitForInstance') = ToSet(waitForInstance) \ {first}
        /\ WaitsOnce'
    BY <1>2, <2>1, QueueTail DEF PoolInv, WaitsOnce
  <2>3. state[first] = "waiting" /\ first # a /\ first \notin Holding
    BY <2>2 DEF PoolInv, Holding
  <2> HIDE DEF first
  <2>4. \A b \in Actors :
            state'[b] = IF b = a THEN s ELSE IF b = first THEN "instance" ELSE state[b]
    BY <1>0, <2>1, <2>2, <2>3 DEF PoolInv
  <2>5. Holding' = (Holding \ {a}) \cup {first}
    BY <1>0, <2>2, <2>3, <2>4 DEF Holding
  <2>6. Cardinality(Holding') = Cardinality(Holding)
    <3>1. IsFiniteSet(Holding \ {a}) /\ Cardinality(Holding \ {a}) = Cardinality(Holding) - 1
      BY HoldersFinite, FS_RemoveElement
    <3>2. Cardinality((Holding \ {a}) \cup {first}) = Cardinality(Holding \ {a}) + 1
      BY <2>3, <3>1, FS_AddElement
    <3> QED BY <2>5, <3>1, <3>2, HoldersFinite
  <2>7. ToSet(waitForInstance') = {b \in Actors : state'[b] = "waiting"}
    BY <2>2, <2>3, <2>4 DEF PoolInv, Holding
  <2>8. state' \in [Actors -> State]
    BY <1>0, <2>1, <2>2 DEF PoolInv, State
  <2>9. waitForInstance' # <<>> => idleInstances' = 0
    BY <1>2, <2>1 DEF PoolInv
  <2> QED BY <1>0, <2>1, <2>2, <2>3, <2>4, <2>6, <2>7, <2>8, <2>9 DEF PoolInv
<1> QED BY <1>1, <1>2

(* An actor that keeps its instance, or had none and wants none, leaves    *)
(* the pool as it is.                                                      *)
LEMMA PoolMove ==
    ASSUME PoolInv, NEW a \in Actors, NEW s \in State,
           state' = [state EXCEPT ![a] = s],
           \/ {state[a], s} \subseteq {"instance", "item", "fetch"}
           \/ {state[a], s} \subseteq {"none", "queued", "done"},
           UNCHANGED pool
    PROVE  PoolInv'
<1>1. \A b \in Actors : state'[b] = IF b = a THEN s ELSE state[b]
  BY DEF PoolInv
<1>2. Holding' = Holding
  BY <1>1 DEF Holding
<1>3. ToSet(waitForInstance') = {b \in Actors : state'[b] = "waiting"}
  BY <1>1 DEF PoolInv, pool
<1>4. state' \in [Actors -> State] /\ WaitsOnce'
  BY DEF PoolInv, pool, WaitsOnce
<1> QED BY <1>2, <1>3, <1>4 DEF PoolInv, pool
------------------------------------------------------------------------------
(* The tree *)

(* Bounded sets of naturals have a largest element, which is the Max of    *)
(* the community modules.                                                  *)
LEMMA LargestIsMax ==
    ASSUME NEW n \in Nat, NEW S \in SUBSET (0..n), S # {}
    PROVE  Max(S) \in S /\ \A m \in S : m <= Max(S)
<1> DEFINE T == {n - m : m \in S}
<1>0. \A m \in S : m \in Nat /\ m <= n /\ n - m \in Nat
  OBVIOUS
<1>1. T \subseteq Nat /\ T # {}
  BY <1>0
<1>2. PICK x \in T : \A y \in T : <<y, x>> \notin OpToRel(<, Nat)
  BY <1>1, NatLessThanWellFounded, WFMin
<1>3. \A y \in T : ~ (y < x)
  BY <1>1, <1>2 DEF OpToRel
<1>4. PICK m \in S : x = n - m
  OBVIOUS
<1>5. ASSUME NEW k \in S PROVE m >= k
  <2>1. ~ (n - k < n - m)
    BY <1>3, <1>4
  <2> QED BY <1>0, <2>1
<1> QED BY <1>4, <1>5 DEF Max

(* A set of the first few numbers is as long as it is large.               *)
LEMMA FirstFew ==
    ASSUME NEW n \in Nat, NEW S \in SUBSET (1..n),
           \A i \in S : 1..i \subseteq S
    PROVE  Cardinality(S) \in 0..n /\ S = 1..Cardinality(S)
<1>1. CASE S = {}
  BY <1>1, FS_EmptySet
<1>2. CASE S # {}
  <2> DEFINE m == Max(S)
  <2>1. m \in S /\ \A i \in S : i <= m
    <3>1. S \in SUBSET (0..n)
      OBVIOUS
    <3> QED BY <1>2, <3>1, LargestIsMax
  <2> HIDE DEF m
  <2>2. m \in 1..n /\ S \subseteq 1..m /\ 1..m \subseteq S
    <3>1. m \in 1..n
      BY <2>1
    <3>2. ASSUME NEW i \in S PROVE i \in 1..m
      <4>1. i \in 1..n /\ i <= m
        BY <2>1
      <4> QED BY <3>1, <4>1
    <3> QED BY <2>1, <3>1, <3>2
  <2>3. Cardinality(1..m) = IF 1 > m THEN 0 ELSE m - 1 + 1
    BY <2>2, FS_Interval
  <2>4. S = 1..m
    BY <2>2
  <2>5. Cardinality(S) = m
    BY <2>2, <2>3, <2>4
  <2> QED BY <2>2, <2>4, <2>5
<1> QED BY <1>1, <1>2


(* The links that a condition holds of can be counted.                     *)
LEMMA CountedLinks ==
    ASSUME NEW S, S \subseteq DOMAIN tree, tree \in Seq(Link)
    PROVE  Cardinality(S) \in 0..Len(tree)
<1>1. Len(tree) \in Nat /\ DOMAIN tree = 1..Len(tree)
  BY LenProperties
<1>2. IsFiniteSet(1..Len(tree)) /\ Cardinality(1..Len(tree)) = Len(tree)
  <2>1. Len(tree) \in Int /\ 1 \in Int
    BY <1>1
  <2>2. /\ IsFiniteSet(1..Len(tree))
        /\ Cardinality(1..Len(tree)) =
                IF 1 > Len(tree) THEN 0 ELSE Len(tree) - 1 + 1
    BY <2>1, FS_Interval
  <2> QED BY <1>1, <2>2
<1>3. IsFiniteSet(S) /\ Cardinality(S) <= Len(tree)
  BY <1>1, <1>2, FS_Subset
<1> QED BY <1>1, <1>3, FS_CardinalityType

(* A sequence with one element more, in some place.                        *)
LEMMA Inserted ==
    ASSUME NEW S, NEW s \in Seq(S), NEW k \in 0..Len(s), NEW e \in S
    PROVE  /\ InsertAt(s, k + 1, e) \in Seq(S)
           /\ Len(InsertAt(s, k + 1, e)) = Len(s) + 1
           /\ \A i \in 1..(Len(s) + 1) : InsertAt(s, k + 1, e)[i] =
                IF i <= k THEN s[i] ELSE IF i = k + 1 THEN e ELSE s[i - 1]
<1> DEFINE before == SubSeq(s, 1, k)
           after == SubSeq(s, k + 1, Len(s))
           r == InsertAt(s, k + 1, e)
<1>1. Len(s) \in Nat /\ k \in Nat /\ k <= Len(s) /\ \A i \in 1..Len(s) : s[i] \in S
  BY LenProperties, ElementOfSeq
<1>2. r = before \o <<e>> \o after
  <2>1. (k + 1) - 1 = k
    BY <1>1
  <2> QED BY <2>1 DEF InsertAt
<1>3. /\ before \in Seq(S) /\ Len(before) = k
      /\ \A i \in 1..k : before[i] = s[i]
  BY <1>1, SubSeqProperties
<1>4. /\ after \in Seq(S) /\ Len(after) = Len(s) - k
      /\ \A i \in 1..(Len(s) - k) : after[i] = s[k + i]
  <2> DEFINE m == k + 1
             n == Len(s)
  <2>1. m \in Int /\ n \in Int /\ \A i \in m..n : s[i] \in S
    BY <1>1
  <2> HIDE DEF m, n
  <2>2. /\ SubSeq(s, m, n) \in Seq(S)
        /\ Len(SubSeq(s, m, n)) = IF m <= n THEN n - m + 1 ELSE 0
        /\ \A i \in 1..(n - m + 1) : SubSeq(s, m, n)[i] = s[m + i - 1]
    BY <2>1, SubSeqProperties
  <2> QED BY <1>1, <2>2 DEF m, n
<1> HIDE DEF before, after, r
<1>5. <<e>> \in Seq(S) /\ Len(<<e>>) = 1 /\ <<e>>[1] = e
  OBVIOUS
<1>6. /\ before \o <<e>> \in Seq(S) /\ Len(before \o <<e>>) = k + 1
      /\ \A i \in 1..(k + 1) : (before \o <<e>>)[i] =
                IF i <= k THEN before[i] ELSE <<e>>[i - k]
  BY <1>1, <1>3, <1>5, ConcatProperties
<1>7. /\ r \in Seq(S) /\ Len(r) = Len(s) + 1
      /\ \A i \in 1..(Len(s) + 1) : r[i] =
                IF i <= k + 1 THEN (before \o <<e>>)[i] ELSE after[i - (k + 1)]
  BY <1>1, <1>2, <1>4, <1>6, ConcatProperties
<1>8. ASSUME NEW i \in 1..(Len(s) + 1)
      PROVE  r[i] = IF i <= k THEN s[i] ELSE IF i = k + 1 THEN e ELSE s[i - 1]
  <2>1. CASE i <= k
    <3>1. i \in 1..k /\ i \in 1..(k + 1) /\ i <= k + 1
      BY <1>1, <2>1
    <3> QED BY <1>3, <1>6, <1>7, <2>1, <3>1
  <2>2. CASE i = k + 1
    BY <1>1, <1>5, <1>6, <1>7, <2>2
  <2>3. CASE i > k + 1
    <3>1. /\ i - (k + 1) \in 1..(Len(s) - k) /\ k + (i - (k + 1)) = i - 1
          /\ ~ (i <= k + 1) /\ ~ (i <= k) /\ i # k + 1
      BY <1>1, <2>3
    <3>2. r[i] = after[i - (k + 1)]
      BY <1>7, <3>1
    <3>3. after[i - (k + 1)] = s[k + (i - (k + 1))]
      BY <1>4, <3>1
    <3> QED BY <3>1, <3>2, <3>3
  <2> QED BY <1>1, <2>1, <2>2, <2>3
<1> QED BY <1>7, <1>8 DEF r

(* Where the new link goes, and what is behind it.                         *)
LEMMA LinkedAt ==
    ASSUME tree \in Seq(Link), NEW link \in Link, NEW k,
           k = Cardinality({i \in DOMAIN tree : tree[i].key <= link.key})
    PROVE  /\ k \in 0..Len(tree)
           /\ linked(link) \in Seq(Link)
           /\ Len(linked(link)) = Len(tree) + 1
           /\ DOMAIN linked(link) = 1..(Len(tree) + 1)
           /\ \A i \in 1..(Len(tree) + 1) : linked(link)[i] =
                IF i <= k THEN tree[i] ELSE IF i = k + 1 THEN link ELSE tree[i - 1]
<1>1. k \in 0..Len(tree)
  <2>1. {i \in DOMAIN tree : tree[i].key <= link.key} \subseteq DOMAIN tree
    OBVIOUS
  <2> QED BY <2>1, CountedLinks
<1>2. linked(link) = InsertAt(tree, k + 1, link)
  BY DEF linked
<1> DEFINE r == InsertAt(tree, k + 1, link)
<1>3. /\ r \in Seq(Link) /\ Len(r) = Len(tree) + 1
      /\ \A i \in 1..(Len(tree) + 1) : r[i] =
            IF i <= k THEN tree[i] ELSE IF i = k + 1 THEN link ELSE tree[i - 1]
  <2>1. k \in 0..Len(tree) /\ tree \in Seq(Link) /\ link \in Link
    BY <1>1
  <2> QED BY ONLY <2>1, Inserted
<1> HIDE DEF r
<1>4. DOMAIN r = 1..(Len(tree) + 1)
  BY <1>3, LenProperties
<1> QED BY <1>1, <1>2, <1>3, <1>4 DEF r

(* The tree with one link more.                                            *)
LEMMA TreeLinked ==
    ASSUME tree \in Seq(Link), NEW link \in Link
    PROVE  /\ linked(link) \in Seq(Link)
           /\ Len(linked(link)) = Len(tree) + 1
           /\ \A i \in DOMAIN linked(link) :
                linked(link)[i] = link
                \/ \E j \in DOMAIN tree : linked(link)[i] = tree[j]
<1> DEFINE k == Cardinality({i \in DOMAIN tree : tree[i].key <= link.key})
<1>1. /\ k \in 0..Len(tree)
      /\ linked(link) \in Seq(Link) /\ Len(linked(link)) = Len(tree) + 1
      /\ DOMAIN linked(link) = 1..(Len(tree) + 1)
      /\ \A i \in 1..(Len(tree) + 1) : linked(link)[i] =
            IF i <= k THEN tree[i] ELSE IF i = k + 1 THEN link ELSE tree[i - 1]
  BY LinkedAt
<1> HIDE DEF k
<1>2. Len(tree) \in Nat /\ DOMAIN tree = 1..Len(tree)
  BY LenProperties
<1>3. ASSUME NEW i \in DOMAIN linked(link)
      PROVE  linked(link)[i] = link \/ \E j \in DOMAIN tree : linked(link)[i] = tree[j]
  <2>1. CASE i <= k
    <3>1. i \in DOMAIN tree /\ linked(link)[i] = tree[i]
      BY <1>1, <1>2, <2>1
    <3> QED BY <3>1
  <2>2. CASE i = k + 1
    BY <1>1, <1>2, <2>2
  <2>3. CASE i > k + 1
    <3>1. i - 1 \in DOMAIN tree /\ linked(link)[i] = tree[i - 1]
      BY <1>1, <1>2, <2>3
    <3> QED BY <3>1
  <2> QED BY <1>1, <1>2, <2>1, <2>2, <2>3
<1> QED BY <1>1, <1>3
------------------------------------------------------------------------------
(* Commits *)

(* The parts of the invariant together.                                    *)
LEMMA ViewParts ==
    ASSUME TypeOK', PoolInv', InsertAlone', Len(committed') <= MaxCommits,
           LinksCommitted', QueriesPlaced'
    PROVE  ViewInv'
<1>1. state'[Insert] # "waiting"
  BY DEF InsertAlone
<1> QED BY <1>1 DEF ViewInv, InstancesAccounted, PoolInv

(* A step that leaves the pool alone keeps what is known of it.            *)
LEMMA PoolUntouched ==
    ASSUME PoolInv, UNCHANGED <<pool, state>>
    PROVE  PoolInv'
BY DEF PoolInv, pool, Holding, WaitsOnce

(* One commit more is to be applied.                                      *)
LEMMA InvCommit ==
    ASSUME ViewInv, NEW m \in Mutations, Commit(m)
    PROVE  ViewInv'
<1> USE DEF pool
<1>1. /\ Len(committed) < MaxCommits
      /\ committed' = Append(committed, m)
      /\ UNCHANGED <<process, storageApplied, tree, pool, state, query>>
  BY DEF Commit
<1>2. TypeOK /\ LinksCommitted /\ QueriesPlaced /\ InsertAlone
  BY DEF ViewInv, InstancesAccounted
<1>3. /\ committed' \in Seq(Mutations) /\ Len(committed') = Len(committed) + 1
      /\ \A i \in 1..Len(committed) : committed'[i] = committed[i]
      /\ Len(committed) \in Nat /\ Len(tree) \in Nat
  BY <1>1, <1>2, AppendProperties, LenProperties DEF TypeOK
<1>4. TypeOK'
  BY <1>1, <1>2, <1>3 DEF TypeOK
<1>5. PoolInv'
  BY <1>1, PoolOfView, PoolUntouched
<1>6. InsertAlone' /\ QueriesPlaced'
  BY <1>1, <1>2, <1>3 DEF InsertAlone, QueriesPlaced, Active
<1>7. LinksCommitted'
  BY <1>1, <1>2, <1>3 DEF LinksCommitted
<1>8. Len(committed') <= MaxCommits
  BY <1>1, <1>3, BoundsAssumption
<1> QED BY <1>4, <1>5, <1>6, <1>7, <1>8, ViewParts

(* The storage knows one version more.                                    *)
LEMMA InvStorageApply ==
    ASSUME ViewInv, StorageApply
    PROVE  ViewInv'
<1> USE DEF pool
<1>1. /\ storageApplied < Len(committed)
      /\ storageApplied' = storageApplied + 1
      /\ UNCHANGED <<process, committed, tree, pool, state, query>>
  BY DEF StorageApply
<1>2. TypeOK /\ LinksCommitted /\ QueriesPlaced /\ InsertAlone
  BY DEF ViewInv, InstancesAccounted
<1>3. Len(committed) \in Nat
  BY <1>2, LenProperties DEF TypeOK
<1>4. TypeOK'
  BY <1>1, <1>2, <1>3 DEF TypeOK
<1>5. PoolInv'
  BY <1>1, PoolOfView, PoolUntouched
<1>6. InsertAlone' /\ LinksCommitted'
  BY <1>1, <1>2 DEF InsertAlone, LinksCommitted, Active
<1>7. QueriesPlaced'
  BY <1>1, <1>2, <1>3 DEF QueriesPlaced, TypeOK, QueryRecord, SequenceIds
<1> QED BY <1>1, <1>4, <1>5, <1>6, <1>7, ViewParts DEF ViewInv

(* The insert finds all instances idle.                                    *)
LEMMA InvApplyInsert ==
    ASSUME ViewInv, ApplyInsert
    PROVE  ViewInv'
<1> USE DEF data
<1>1. /\ Len(tree) < Len(committed) /\ state[Insert] = "none" /\ Active = {}
      /\ grabInstance(Insert)
      /\ UNCHANGED <<process, data, query>>
  BY DEF ApplyInsert
<1>2. TypeOK /\ LinksCommitted /\ QueriesPlaced /\ PoolInv
  BY PoolOfView DEF ViewInv, InstancesAccounted
<1>3. Insert \in Actors
  BY DEF Actors
<1>4. Holding = {}
  BY <1>1 DEF Holding, Active, Actors
<1>5. idleInstances > 0
  BY <1>2, <1>4, FS_EmptySet, BoundsAssumption DEF PoolInv
<1>6. /\ PoolInv' /\ state'[Insert] = "instance"
      /\ \A b \in Actors \ {Insert} : state'[b] = state[b]
  BY <1>1, <1>2, <1>3, <1>5, PoolGrab
<1>7. \A q \in Queries : state'[q] = state[q]
  BY <1>6, ActorsAssumption DEF Actors
<1>8. TypeOK'
  BY <1>1, <1>2, <1>6 DEF TypeOK, PoolInv
<1>9. InsertAlone' /\ QueriesPlaced' /\ LinksCommitted'
  BY <1>1, <1>2, <1>6, <1>7
     DEF InsertAlone, QueriesPlaced, LinksCommitted, Active
<1> QED BY <1>1, <1>6, <1>8, <1>9, ViewParts DEF ViewInv

(* An insertion ends and its link is in the tree.                         *)
LEMMA InvCompleteInsert ==
    ASSUME ViewInv, CompleteInsert
    PROVE  ViewInv'
<1> DEFINE n == Len(tree) + 1
           link == linkOf(n)
<1>1. /\ state[Insert] = "instance"
      /\ tree' = linked(link)
      /\ releaseInstance(Insert, "none")
      /\ UNCHANGED <<process, committed, storageApplied, query>>
  BY DEF CompleteInsert
<1>2. TypeOK /\ LinksCommitted /\ QueriesPlaced /\ InsertAlone /\ PoolInv
      /\ Len(committed) <= MaxCommits
  BY PoolOfView DEF ViewInv, InstancesAccounted
<1>3. /\ Len(tree) \in Nat /\ Len(committed) \in Nat
      /\ n \in 1..Len(committed) /\ Active = {}
      /\ committed[n] \in Mutations
  BY <1>1, <1>2, LenProperties, ElementOfSeq DEF TypeOK, InsertAlone
<1>4. link \in Link
  BY <1>2, <1>3, MutationsAssumption, BoundsAssumption
     DEF linkOf, Link, Documents, SequenceIds
<1>5. /\ link.sequenceId = n /\ link.documentId = committed[n].documentId
  BY DEF linkOf
<1> HIDE DEF link, n
<1>6. /\ tree' \in Seq(Link) /\ Len(tree') = Len(tree) + 1
      /\ \A i \in DOMAIN tree' : tree'[i] = link \/ \E j \in DOMAIN tree : tree'[i] = tree[j]
  BY <1>1, <1>2, <1>4, TreeLinked DEF TypeOK
<1>7. Insert \in Holding
  BY <1>1 DEF Holding, Actors
<1>8. /\ PoolInv' /\ state'[Insert] = "none"
      /\ \A b \in Actors \ {Insert} :
            state'[b] = state[b] \/ (state[b] = "waiting" /\ state'[b] = "instance")
  BY <1>1, <1>2, <1>7, PoolRelease
<1>9. \A q \in Queries : state'[q] = state[q]
  BY <1>3, <1>8, ActorsAssumption DEF Actors, Active
<1>10. TypeOK'
  BY <1>1, <1>2, <1>3, <1>6, <1>8 DEF TypeOK, PoolInv, n
<1>11. LinksCommitted'
  BY <1>1, <1>2, <1>3, <1>5, <1>6 DEF LinksCommitted
<1>12. InsertAlone'
  BY <1>8 DEF InsertAlone
<1>13. QueriesPlaced'
  BY <1>1, <1>2, <1>3, <1>9 DEF QueriesPlaced, Active
<1> QED BY <1>1, <1>2, <1>8, <1>10, <1>11, <1>12, <1>13, ViewParts
------------------------------------------------------------------------------
(* Queries *)

(* A query begins.                                                        *)
LEMMA InvQuery ==
    ASSUME ViewInv, NEW q \in Queries, NEW s \in AskedIds,
           NEW from \in FromKeys \cup {NoKey}, NEW limit \in Limits \cup {NoLimit},
           Query(q, s, from, limit)
    PROVE  ViewInv'
<1> USE DEF data, pool
<1> DEFINE new == [NoQuery EXCEPT !.sequenceId = s, !.fromKey = from, !.limit = limit]
<1>1. /\ state[q] = "none"
      /\ state' = [state EXCEPT ![q] = "queued"]
      /\ query' = [query EXCEPT ![q] = new]
      /\ UNCHANGED <<process, data, pool>>
  BY DEF Query
<1>2. TypeOK /\ LinksCommitted /\ QueriesPlaced /\ InsertAlone /\ PoolInv
      /\ Len(committed) <= MaxCommits /\ Len(committed) \in Nat
  BY PoolOfView, LenProperties DEF ViewInv, InstancesAccounted, TypeOK
<1>3. q \in Actors /\ q # Insert
  BY ActorsAssumption DEF Actors
<1>4. PoolInv'
  BY <1>1, <1>2, <1>3, PoolMove DEF State
<1>5. new \in QueryRecord /\ ~ new.settled
  <2>1. s \in SequenceIds
    BY <1>2, BoundsAssumption DEF AskedIds, SequenceIds
  <2>2. <<>> \in Seq(Link)
    BY EmptySeq
  <2> QED BY <2>1, <2>2 DEF NoQuery, QueryRecord
<1> HIDE DEF new
<1>6. TypeOK'
  BY <1>1, <1>2, <1>4, <1>5 DEF TypeOK, PoolInv
<1>7. \A a \in Actors : state'[a] = IF a = q THEN "queued" ELSE state[a]
  BY <1>1, <1>2 DEF PoolInv
<1>8. \A r \in Queries : query'[r] = IF r = q THEN new ELSE query[r]
  BY <1>1, <1>2 DEF TypeOK
<1>9. InsertAlone'
  BY <1>1, <1>2, <1>3, <1>7 DEF InsertAlone, Active, Actors
<1>10. QueriesPlaced'
  BY <1>1, <1>2, <1>5, <1>7, <1>8 DEF QueriesPlaced, Actors
<1>11. LinksCommitted'
  BY <1>1, <1>2 DEF LinksCommitted
<1> QED BY <1>1, <1>2, <1>4, <1>6, <1>9, <1>10, <1>11, ViewParts

(* A query starts only while no insert runs.                               *)
LEMMA InvStart ==
    ASSUME ViewInv, NEW q \in Queries, Start(q)
    PROVE  ViewInv'
<1> USE DEF data
<1>1. PICK garbage \in IF query[q].limit = NoLimit THEN {0} ELSE 0..MaxGarbage :
        /\ state[q] = "queued" /\ state[Insert] = "none"
        /\ grabInstance(q)
        /\ query' = [query EXCEPT
            ![q].fetchedCount = garbage,
            ![q].settled = /\ storageApplied >= query[q].sequenceId
                           /\ Len(tree) >= query[q].sequenceId]
        /\ UNCHANGED <<process, data>>
  BY DEF Start
<1>2. TypeOK /\ LinksCommitted /\ QueriesPlaced /\ InsertAlone /\ PoolInv
  BY PoolOfView DEF ViewInv, InstancesAccounted
<1>3. q \in Actors /\ q # Insert /\ Insert \in Actors
  BY ActorsAssumption DEF Actors
<1>4. /\ PoolInv' /\ state'[q] \in {"waiting", "instance"}
      /\ \A b \in Actors \ {q} : state'[b] = state[b]
  BY <1>1, <1>2, <1>3, PoolGrab
<1>5. garbage \in Nat
  BY <1>1, BoundsAssumption
<1>6. query' \in [Queries -> QueryRecord]
  <2> DEFINE settled == /\ storageApplied >= query[q].sequenceId
                        /\ Len(tree) >= query[q].sequenceId
             new == [query[q] EXCEPT !.fetchedCount = garbage, !.settled = settled]
  <2>1. settled \in BOOLEAN
    OBVIOUS
  <2> HIDE DEF settled
  <2>2. new \in QueryRecord
    BY <1>2, <1>5, <2>1 DEF TypeOK, QueryRecord
  <2>3. query' = [query EXCEPT ![q] = new]
    BY <1>1, <1>2 DEF TypeOK, settled
  <2> HIDE DEF new
  <2> QED BY <1>2, <2>2, <2>3 DEF TypeOK
<1>7. TypeOK'
  BY <1>1, <1>2, <1>4, <1>6 DEF TypeOK, PoolInv
<1>8. InsertAlone'
  BY <1>1, <1>2, <1>3, <1>4 DEF InsertAlone
<1>9. QueriesPlaced'
  <2> SUFFICES ASSUME NEW r \in Queries
               PROVE  /\ state'[r] \in {"item", "fetch"} => query'[r].position > 0
                      /\ state'[r] = "fetch" => query'[r].position <= Len(tree)
                      /\ query'[r].settled => storageApplied >= query'[r].sequenceId
    BY <1>1 DEF QueriesPlaced
  <2>1. CASE r = q
    BY <1>1, <1>2, <1>4, <2>1 DEF TypeOK, QueryRecord
  <2>2. CASE r # q
    <3>1. query'[r] = query[r] /\ state'[r] = state[r]
      BY <1>1, <1>2, <1>4, <2>2 DEF TypeOK, Actors
    <3> QED BY <1>2, <3>1 DEF QueriesPlaced
  <2> QED BY <2>1, <2>2
<1>10. LinksCommitted'
  BY <1>1, <1>2 DEF LinksCommitted
<1> QED BY <1>1, <1>4, <1>7, <1>8, <1>9, <1>10, ViewParts DEF ViewInv

(* A query that runs excludes the insert.                                  *)
LEMMA NoInsertBeside ==
    ASSUME InsertAlone, NEW q \in Queries,
           state[q] \in {"waiting", "instance", "item", "fetch"}
    PROVE  state[Insert] = "none"
BY DEF InsertAlone, Active

(* A query is at the first link it asks for.                              *)
LEMMA InvFindBegin ==
    ASSUME ViewInv, NEW q \in Queries, FindBegin(q)
    PROVE  ViewInv'
<1> USE DEF data, pool
<1> DEFINE p == firstFrom(query[q].fromKey)
<1>1. /\ state[q] = "instance"
      /\ state' = [state EXCEPT ![q] = "item"]
      /\ query' = [query EXCEPT ![q].position = p]
      /\ UNCHANGED <<process, data, pool>>
  BY DEF FindBegin
<1>2. TypeOK /\ LinksCommitted /\ QueriesPlaced /\ InsertAlone /\ PoolInv
  BY PoolOfView DEF ViewInv, InstancesAccounted
<1>3. q \in Actors /\ q # Insert
  BY ActorsAssumption DEF Actors
<1>4. PoolInv'
  BY <1>1, <1>2, <1>3, PoolMove DEF State
<1>5. p \in Nat /\ p > 0
  <2>1. {i \in DOMAIN tree : tree[i].key < query[q].fromKey} \subseteq DOMAIN tree
    OBVIOUS
  <2>2. Cardinality({i \in DOMAIN tree : tree[i].key < query[q].fromKey})
            \in 0..Len(tree)
    BY <1>2, <2>1, CountedLinks DEF TypeOK
  <2> QED BY <1>2, <2>2, LenProperties DEF TypeOK, firstFrom
<1> HIDE DEF p
<1>6. query' \in [Queries -> QueryRecord]
  BY <1>1, <1>2, <1>5 DEF TypeOK, QueryRecord
<1>7. TypeOK'
  BY <1>1, <1>2, <1>4, <1>6 DEF TypeOK, PoolInv
<1>8. InsertAlone'
  BY <1>1, <1>2, <1>3, NoInsertBeside DEF InsertAlone, PoolInv
<1>9. QueriesPlaced'
  BY <1>1, <1>2, <1>3, <1>5 DEF QueriesPlaced, TypeOK, QueryRecord
<1>10. LinksCommitted'
  BY <1>1, <1>2 DEF LinksCommitted
<1> QED BY <1>1, <1>4, <1>7, <1>8, <1>9, <1>10, ViewParts DEF ViewInv

(* A query asks for a document, or gives its instance back.               *)
LEMMA InvFetchItem ==
    ASSUME ViewInv, NEW q \in Queries, FetchItem(q)
    PROVE  ViewInv'
<1> USE DEF data, pool
<1>1. /\ state[q] = "item"
      /\ \/ releaseInstance(q, "done")
         \/ /\ query[q].position <= Len(tree)
            /\ state' = [state EXCEPT ![q] = "fetch"]
            /\ UNCHANGED pool
      /\ UNCHANGED <<process, data, query>>
  <2>1. TypeOK
    BY DEF ViewInv, InstancesAccounted
  <2>2. query[q].position \in Nat /\ Len(tree) \in Nat
    BY <2>1, LenProperties DEF TypeOK, QueryRecord
  <2> QED BY <2>2 DEF FetchItem, finished
<1>2. TypeOK /\ LinksCommitted /\ QueriesPlaced /\ InsertAlone /\ PoolInv
  BY PoolOfView DEF ViewInv, InstancesAccounted
<1>3. q \in Actors /\ q # Insert /\ q \in Holding /\ Insert \in Actors
  BY <1>1, ActorsAssumption DEF Actors, Holding
<1>4. /\ PoolInv'
      /\ state'[q] \in {"done", "fetch"}
      /\ state'[q] = "fetch" => query[q].position <= Len(tree)
      /\ \A b \in Actors \ {q} :
            state'[b] = state[b] \/ (state[b] = "waiting" /\ state'[b] = "instance")
  <2>1. CASE releaseInstance(q, "done")
    BY <1>2, <1>3, <2>1, PoolRelease
  <2>2. CASE /\ query[q].position <= Len(tree)
             /\ state' = [state EXCEPT ![q] = "fetch"]
             /\ UNCHANGED pool
    <3>1. PoolInv'
      BY <1>1, <1>2, <1>3, <2>2, PoolMove DEF State
    <3> QED BY <1>2, <1>3, <2>2, <3>1 DEF PoolInv
  <2> QED BY <1>1, <2>1, <2>2
<1>5. TypeOK'
  BY <1>1, <1>2, <1>4 DEF TypeOK, PoolInv
<1>6. InsertAlone'
  <2>1. state[Insert] = "none"
    BY <1>1, <1>2, NoInsertBeside
  <2> QED BY <1>3, <1>4, <2>1 DEF InsertAlone
<1>7. QueriesPlaced'
  <2> SUFFICES ASSUME NEW r \in Queries
               PROVE  /\ state'[r] \in {"item", "fetch"} => query[r].position > 0
                      /\ state'[r] = "fetch" => query[r].position <= Len(tree)
    BY <1>1, <1>2 DEF QueriesPlaced
  <2>1. CASE r = q
    BY <1>1, <1>2, <1>4, <2>1 DEF QueriesPlaced
  <2>2. CASE r # q
    BY <1>2, <1>4, <2>2 DEF QueriesPlaced, Actors
  <2> QED BY <2>1, <2>2
<1>8. LinksCommitted'
  BY <1>1, <1>2 DEF LinksCommitted
<1> QED BY <1>1, <1>4, <1>5, <1>6, <1>7, <1>8, ViewParts DEF ViewInv

(* A query goes on behind the link it has fetched.                        *)
LEMMA InvFetched ==
    ASSUME ViewInv, NEW q \in Queries, Fetched(q)
    PROVE  ViewInv'
<1> USE DEF data, pool
<1> DEFINE link == tree[query[q].position]
           hit == expected(link, fetched(q))
<1>1. /\ state[q] = "fetch"
      /\ state' = [state EXCEPT ![q] = "item"]
      /\ query' = [query EXCEPT
            ![q].position = @ + 1,
            ![q].items = IF hit THEN Append(@, link) ELSE @,
            ![q].fetchedCount = IF hit THEN @ + 1 ELSE @]
      /\ UNCHANGED <<process, data, pool>>
  BY DEF Fetched
<1>2. TypeOK /\ LinksCommitted /\ QueriesPlaced /\ InsertAlone /\ PoolInv
  BY PoolOfView DEF ViewInv, InstancesAccounted
<1>3. q \in Actors /\ q # Insert
  BY ActorsAssumption DEF Actors
<1>4. PoolInv'
  BY <1>1, <1>2, <1>3, PoolMove DEF State
<1>5. link \in Link
  <2>1. query[q].position \in 1..Len(tree)
    BY <1>1, <1>2, LenProperties DEF QueriesPlaced, TypeOK, QueryRecord
  <2> QED BY <1>2, <2>1, ElementOfSeq DEF TypeOK
<1> HIDE DEF link, hit
<1>6. query' \in [Queries -> QueryRecord]
  <2>1. query[q] \in QueryRecord
    BY <1>2 DEF TypeOK
  <2>2. Append(query[q].items, link) \in Seq(Link)
    BY <1>5, <2>1, AppendProperties DEF QueryRecord
  <2> DEFINE items == IF hit THEN Append(query[q].items, link) ELSE query[q].items
             count == IF hit THEN query[q].fetchedCount + 1 ELSE query[q].fetchedCount
  <2>3. items \in Seq(Link) /\ count \in Nat
    BY <2>1, <2>2 DEF QueryRecord
  <2> HIDE DEF items, count
  <2>4. [query[q] EXCEPT !.position = @ + 1, !.items = items, !.fetchedCount = count]
            \in QueryRecord
    <3>1. query[q].position + 1 \in Nat
      BY <2>1 DEF QueryRecord
    <3> QED BY <2>1, <2>3, <3>1 DEF QueryRecord
  <2>5. query' = [query EXCEPT ![q] =
            [query[q] EXCEPT !.position = @ + 1, !.items = items, !.fetchedCount = count]]
    BY <1>1, <1>2 DEF items, count, TypeOK
  <2> QED BY <1>2, <2>4, <2>5 DEF TypeOK
<1>7. TypeOK'
  BY <1>1, <1>2, <1>4, <1>6 DEF TypeOK, PoolInv
<1>8. InsertAlone'
  BY <1>1, <1>2, <1>3, NoInsertBeside DEF InsertAlone, PoolInv
<1>9. QueriesPlaced'
  <2> SUFFICES ASSUME NEW r \in Queries
               PROVE  /\ state'[r] \in {"item", "fetch"} => query'[r].position > 0
                      /\ state'[r] = "fetch" => query'[r].position <= Len(tree)
                      /\ query'[r].settled => storageApplied >= query'[r].sequenceId
    BY <1>1 DEF QueriesPlaced
  <2>1. CASE r = q
    BY <1>1, <1>2, <1>3, <2>1 DEF QueriesPlaced, TypeOK, QueryRecord
  <2>2. CASE r # q
    <3>1. query'[r] = query[r] /\ state'[r] = state[r]
      BY <1>1, <1>2, <2>2 DEF TypeOK, PoolInv, Actors
    <3> QED BY <1>2, <3>1 DEF QueriesPlaced
  <2> QED BY <2>1, <2>2
<1>10. LinksCommitted'
  BY <1>1, <1>2 DEF LinksCommitted
<1> QED BY <1>1, <1>4, <1>7, <1>8, <1>9, <1>10, ViewParts DEF ViewInv

(* A query that is done is forgotten.                                     *)
LEMMA InvReturn ==
    ASSUME ViewInv, NEW q \in Queries, Return(q)
    PROVE  ViewInv'
<1> USE DEF data, pool
<1>1. /\ state[q] = "done"
      /\ state' = [state EXCEPT ![q] = "none"]
      /\ query' = [query EXCEPT ![q] = NoQuery]
      /\ UNCHANGED <<process, data, pool>>
  BY DEF Return
<1>2. TypeOK /\ LinksCommitted /\ QueriesPlaced /\ InsertAlone /\ PoolInv
  BY PoolOfView DEF ViewInv, InstancesAccounted
<1>3. q \in Actors /\ q # Insert
  BY ActorsAssumption DEF Actors
<1>4. PoolInv'
  BY <1>1, <1>2, <1>3, PoolMove DEF State
<1>5. NoQuery \in QueryRecord /\ ~ NoQuery.settled
  <2>1. <<>> \in Seq(Link)
    BY EmptySeq
  <2> QED BY <2>1, BoundsAssumption DEF NoQuery, QueryRecord, SequenceIds
<1>6. TypeOK'
  BY <1>1, <1>2, <1>4, <1>5 DEF TypeOK, PoolInv
<1>7. InsertAlone'
  BY <1>1, <1>2, <1>3 DEF InsertAlone, PoolInv, Active
<1>8. QueriesPlaced'
  BY <1>1, <1>2, <1>3, <1>5 DEF QueriesPlaced, TypeOK, PoolInv
<1>9. LinksCommitted'
  BY <1>1, <1>2 DEF LinksCommitted
<1> QED BY <1>1, <1>4, <1>6, <1>7, <1>8, <1>9, ViewParts DEF ViewInv
------------------------------------------------------------------------------
(* The end of the process, the start, and all steps together *)

(* What the process is like at its start and after its end.                *)
Idle ==
    /\ committed \in Seq(Mutations) /\ Len(committed) <= MaxCommits
    /\ process \in {"up", "crashed", "threw"}
    /\ storageApplied = 0 /\ tree = <<>> /\ idleInstances = Instances
    /\ waitForInstance = <<>> /\ state = [a \in Actors |-> "none"]
    /\ query = [q \in Queries |-> NoQuery]

(* A view that has nothing to do satisfies the invariant.                 *)
LEMMA InvIdle == Idle => ViewInv
<1> SUFFICES ASSUME Idle PROVE ViewInv
  OBVIOUS
<1> USE DEF Idle
<1>1. /\ Len(committed) \in Nat /\ tree \in Seq(Link) /\ Len(tree) = 0
      /\ DOMAIN tree = {} /\ waitForInstance \in Seq(Actors)
      /\ DOMAIN waitForInstance = {}
  BY EmptySeq, LenProperties
<1>2. NoQuery \in QueryRecord /\ ~ NoQuery.settled
  <2>1. <<>> \in Seq(Link)
    BY EmptySeq
  <2> QED BY <2>1, BoundsAssumption DEF NoQuery, QueryRecord, SequenceIds
<1>3. TypeOK
  BY <1>1, <1>2, BoundsAssumption DEF TypeOK, State
<1>4. Holding = {} /\ ToSet(waitForInstance) = {}
  BY <1>1 DEF Holding, ToSet
<1>5. Insert \in Actors
  BY DEF Actors
<1>6. InstancesAccounted
  BY <1>3, <1>4, <1>5, FS_EmptySet, BoundsAssumption DEF InstancesAccounted
<1>7. WaitsOnce /\ LinksCommitted
  BY <1>1 DEF WaitsOnce, LinksCommitted
<1>8. InsertAlone
  BY <1>5 DEF InsertAlone
<1>9. QueriesPlaced
  BY <1>2 DEF QueriesPlaced, Actors
<1> QED BY <1>6, <1>7, <1>8, <1>9 DEF ViewInv

(* The end of the process leaves the commits.                             *)
LEMMA InvStop ==
    ASSUME ViewInv, NEW how \in {"crashed", "threw"}, Stop(how)
    PROVE  ViewInv'
<1>1. committed \in Seq(Mutations) /\ Len(committed) <= MaxCommits
  BY DEF ViewInv, InstancesAccounted, TypeOK
<1>2. /\ committed' = committed /\ process' = how
      /\ storageApplied' = 0 /\ tree' = <<>> /\ idleInstances' = Instances
      /\ waitForInstance' = <<>> /\ state' = [a \in Actors |-> "none"]
      /\ query' = [q \in Queries |-> NoQuery]
  BY DEF Stop
<1>3. Idle'
  BY <1>1, <1>2 DEF Idle
<1>4. Idle' => ViewInv'
  BY InvIdle, PTL
<1> QED BY <1>3, <1>4

(* The first state.                                                       *)
LEMMA InvInit == Init => ViewInv
<1> SUFFICES ASSUME Init PROVE ViewInv
  OBVIOUS
<1>1. committed \in Seq(Mutations) /\ Len(committed) <= MaxCommits
  BY EmptySeq, BoundsAssumption DEF Init
<1> QED BY <1>1, InvIdle DEF Init, Idle

(* A start, or no step at all, changes nothing that it speaks of.          *)
LEMMA InvSame ==
    ASSUME ViewInv, process' \in {"up", "crashed", "threw"},
           UNCHANGED <<data, pool, state, query>>
    PROVE  ViewInv'
<1> USE DEF data, pool
<1>1. TypeOK /\ InsertAlone /\ LinksCommitted /\ QueriesPlaced /\ PoolInv
  BY PoolOfView DEF ViewInv, InstancesAccounted
<1>2. TypeOK' /\ InsertAlone' /\ LinksCommitted' /\ QueriesPlaced'
  BY <1>1 DEF TypeOK, InsertAlone, Active, LinksCommitted, QueriesPlaced
<1>3. PoolInv'
  BY <1>1, PoolUntouched
<1> QED BY <1>2, <1>3, ViewParts DEF ViewInv

(* No step breaks the invariant.                                           *)
LEMMA InvNext == ASSUME ViewInv, [Next]_vars PROVE ViewInv'
<1>1. CASE \E m \in Mutations : Commit(m)
  BY <1>1, InvCommit
<1>2. CASE StorageApply \/ ApplyInsert \/ CompleteInsert
  BY <1>2, InvStorageApply, InvApplyInsert, InvCompleteInsert
<1>3. CASE \E q \in Queries, s \in AskedIds, from \in FromKeys \cup {NoKey},
              limit \in Limits \cup {NoLimit} : Query(q, s, from, limit)
  BY <1>3, InvQuery
<1>4. CASE \E q \in Queries : Start(q) \/ Run(q) \/ Return(q)
  BY <1>4, InvStart, InvFindBegin, InvFetchItem, InvFetched, InvReturn, InvStop
     DEF Run, Throw
<1>5. CASE Stop("crashed")
  BY <1>5, InvStop
<1>6. CASE Restart \/ UNCHANGED vars
  <2>1. process' \in {"up", "crashed", "threw"}
    BY <1>6 DEF Restart, vars, ViewInv, InstancesAccounted, TypeOK
  <2> QED BY <1>6, <2>1, InvSame DEF Restart, vars
<1> QED BY <1>1, <1>2, <1>3, <1>4, <1>5, <1>6 DEF Next

(* The inductive invariant holds in every reachable state of the view.     *)
THEOREM ViewSafety == Spec => []ViewInv
BY InvInit, InvNext, PTL DEF Spec

(* No script instance is lost or used twice, nobody waits while one is     *)
(* idle, and the insert never waits: the pool cannot be exhausted by the   *)
(* errors or the order of queries.                                         *)
THEOREM InstancesAlwaysAccounted == Spec => []InstancesAccounted
<1>1. ViewInv => InstancesAccounted
  BY DEF ViewInv
<1> QED BY <1>1, ViewSafety, PTL

(* Documents a settled query comes to are there, in the version it asks    *)
(* for or an older one: it throws only for links newer than that.          *)
THEOREM SettledQueriesFind == Spec => []SettledQueryFinds
<1>1. ViewInv => SettledQueryFinds
  <2> SUFFICES ASSUME ViewInv, NEW q \in Queries,
                      state[q] = "fetch", query[q].settled,
                      tree[query[q].position].sequenceId <= query[q].sequenceId
               PROVE  fetched(q) # NotFound
    BY DEF SettledQueryFinds
  <2> DEFINE i == query[q].position
             n == tree[i].sequenceId
             S == {NotFound} \cup {m \in 1..storageApplied :
                        committed[m].documentId = tree[i].documentId
                        /\ visible(m, query[q].sequenceId)}
  <2>1. TypeOK /\ LinksCommitted /\ QueriesPlaced
    BY DEF ViewInv, InstancesAccounted
  <2>2. i \in DOMAIN tree
    BY <2>1, LenProperties DEF QueriesPlaced, TypeOK, QueryRecord
  <2>3. n \in 1..Len(committed) /\ committed[n].documentId = tree[i].documentId
    BY <2>1, <2>2 DEF LinksCommitted
  <2>4. /\ query[q].sequenceId \in Nat /\ storageApplied \in Nat
        /\ query[q].sequenceId <= storageApplied
    BY <2>1, LenProperties DEF TypeOK, QueryRecord, SequenceIds, QueriesPlaced
  <2>5. n \in S /\ n > 0
    BY <2>3, <2>4, LenProperties DEF visible
  <2>6. S \in SUBSET (0..storageApplied) /\ S # {}
    BY <2>4, <2>5 DEF NotFound
  <2>7. n <= Max(S) /\ Max(S) \in 0..storageApplied
    BY <2>4, <2>5, <2>6, LargestIsMax
  <2>8. fetched(q) = Max(S)
    BY DEF fetched, version
  <2>9. n > 0 /\ n \in Nat /\ Max(S) \in Nat
    <3>1. n \in Nat /\ \A x \in 0..storageApplied : x \in Nat
      BY <2>3, <2>4
    <3> HIDE DEF n, S
    <3> QED BY <2>5, <2>7, <3>1
  <2> HIDE DEF n, S
  <2> QED BY <2>7, <2>8, <2>9 DEF NotFound
<1> QED BY <1>1, ViewSafety, PTL
------------------------------------------------------------------------------
(* What a settled query returns *)

(* What the parts of the invariant say of lengths and types.               *)
LEMMA ViewFacts ==
    ASSUME ViewInv
    PROVE  /\ TypeOK /\ PoolInv /\ InsertAlone /\ QueriesPlaced
           /\ tree \in Seq(Link) /\ DOMAIN tree = 1..Len(tree) /\ Len(tree) \in Nat
           /\ Len(committed) \in Nat /\ Len(tree) <= Len(committed)
           /\ \A i \in DOMAIN tree : tree[i] \in Link /\ tree[i].key \in Nat
           /\ \A n \in 1..Len(committed) : committed[n] \in Mutations
                                            /\ committed[n].key \in Nat
           /\ \A q \in Queries :
                /\ query[q] \in QueryRecord
                /\ query[q].sequenceId \in Nat /\ query[q].position \in Nat
                /\ query[q].fromKey \in Int /\ query[q].items \in Seq(Link)
<1>1. TypeOK /\ PoolInv /\ InsertAlone /\ QueriesPlaced
  BY PoolOfView DEF ViewInv, InstancesAccounted
<1>2. tree \in Seq(Link) /\ committed \in Seq(Mutations) /\ Len(tree) <= Len(committed)
  BY <1>1 DEF TypeOK
<1>3. /\ DOMAIN tree = 1..Len(tree) /\ Len(tree) \in Nat /\ Len(committed) \in Nat
      /\ \A i \in 1..Len(tree) : tree[i] \in Link
      /\ \A n \in 1..Len(committed) : committed[n] \in Mutations
  BY <1>2, LenProperties, ElementOfSeq
<1>4. \A i \in DOMAIN tree : tree[i].key \in Nat
  BY <1>3 DEF Link
<1>5. \A n \in 1..Len(committed) : committed[n].key \in Nat
  BY <1>3, MutationsAssumption
<1>6. ASSUME NEW q \in Queries
      PROVE  /\ query[q] \in QueryRecord
             /\ query[q].sequenceId \in Nat /\ query[q].position \in Nat
             /\ query[q].fromKey \in Int /\ query[q].items \in Seq(Link)
  <2>1. query[q] \in QueryRecord
    BY <1>1 DEF TypeOK
  <2>2. /\ query[q].sequenceId \in SequenceIds /\ query[q].position \in Nat
        /\ query[q].fromKey \in FromKeys \cup {NoKey} /\ query[q].items \in Seq(Link)
    BY <2>1 DEF QueryRecord
  <2>3. SequenceIds \subseteq Nat /\ FromKeys \cup {NoKey} \subseteq Int
    BY BoundsAssumption, RequestsAssumption DEF SequenceIds, NoKey
  <2> QED BY <2>1, <2>2, <2>3
<1> QED BY <1>1, <1>2, <1>3, <1>4, <1>5, <1>6

(* A last version is the link of one commit.                               *)
LEMMA LastVersionIs ==
    ASSUME NEW q, NEW link
    PROVE  link \in LastVersions(q) <=>
             \E n \in 1..query[q].sequenceId :
               /\ link = linkOf(n) /\ link.sequenceId = n
               /\ link.key >= query[q].fromKey
               /\ \A m \in n+1..query[q].sequenceId :
                     committed[m].documentId # link.documentId
BY DEF LastVersions, linkOf

(* The tree has the last versions that a settled query asks for.           *)
LEMMA LastInTree ==
    ASSUME ViewInv, TreeExact, NEW q \in Queries, query[q].sequenceId <= Len(tree),
           NEW link \in LastVersions(q)
    PROVE  \E i \in DOMAIN tree : tree[i] = link
<1>1. PICK n \in 1..query[q].sequenceId : link = linkOf(n)
  BY LastVersionIs
<1>2. n \in 1..Len(tree)
  BY <1>1, ViewFacts
<1>3. PICK i \in DOMAIN tree : tree[i].sequenceId = n
  BY <1>2 DEF TreeExact
<1>4. tree[i] = linkOf(n)
  BY <1>3 DEF TreeExact
<1> QED BY <1>1, <1>4

(* More commits change nothing of what was asked for.                      *)
LEMMA VersionsKept ==
    ASSUME NEW q, UNCHANGED <<query[q].sequenceId, query[q].fromKey>>,
           \A n \in 1..query[q].sequenceId : committed'[n] = committed[n]
    PROVE  LastVersions(q)' = LastVersions(q)
<1> DEFINE s == query[q].sequenceId
<1>1. \A n \in 1..s : linkOf(n)' = linkOf(n)
  BY DEF linkOf
<1>2. /\ LastVersions(q) = {linkOf(n) : n \in {n \in 1..s :
            /\ committed[n].key >= query[q].fromKey
            /\ \A m \in n+1..s : committed[m].documentId # committed[n].documentId}}
      /\ LastVersions(q)' = {linkOf(n)' : n \in {n \in 1..s :
            /\ committed'[n].key >= query[q].fromKey
            /\ \A m \in n+1..s : committed'[m].documentId # committed'[n].documentId}}
  BY DEF LastVersions
<1>3. ASSUME NEW n \in 1..s
      PROVE  (\A m \in n+1..s : committed'[m].documentId # committed'[n].documentId)
             <=> (\A m \in n+1..s : committed[m].documentId # committed[n].documentId)
  <2>1. \A m \in n+1..s : m \in 1..s
    OBVIOUS
  <2> HIDE DEF s
  <2> QED BY <2>1 DEF s
<1> HIDE DEF s
<1> QED BY <1>1, <1>2, <1>3 DEF s

(* A step that leaves a query where it is, or gives it an instance.        *)
LEMMA QueryKept ==
    ASSUME NEW q, QueryExact(q), query'[q] = query[q],
           state'[q] = state[q] \/ (state[q] = "waiting" /\ state'[q] = "instance"),
           query[q].settled =>
                \A n \in 1..query[q].sequenceId : committed'[n] = committed[n],
           query[q].sequenceId <= Len(tree) => query[q].sequenceId <= Len(tree'),
           tree' = tree \/ state[q] \notin {"item", "fetch"}
    PROVE  QueryExact(q)'
<1>1. CASE query[q].settled
  <2>1. LastVersions(q)' = LastVersions(q)
    BY <1>1, VersionsKept
  <2>2. Exact(q) => Exact(q)'
    BY <2>1 DEF Exact, Ordered, ToSet
  <2>3. tree' = tree => (Passed(q) => Passed(q)')
    BY <2>1 DEF Passed, Ordered, ToSet
  <2> QED BY <1>1, <2>2, <2>3 DEF QueryExact
<1>2. CASE ~ query[q].settled
  BY <1>2 DEF QueryExact
<1> QED BY <1>1, <1>2
------------------------------------------------------------------------------
(* Commits and insertions keep ExactInv *)

(* Keys never decrease along the tree, so that those up to some key come   *)
(* first.                                                                  *)
LEMMA FirstKeys ==
    ASSUME ViewInv, TreeExact, NEW key \in Int
    PROVE  /\ \E k \in 0..Len(tree) :
                /\ k = Cardinality({i \in DOMAIN tree : tree[i].key <= key})
                /\ \A i \in DOMAIN tree : i <= k <=> tree[i].key <= key
           /\ \E k \in 0..Len(tree) :
                /\ k = Cardinality({i \in DOMAIN tree : tree[i].key < key})
                /\ \A i \in DOMAIN tree : i <= k <=> tree[i].key < key
<1> DEFINE upTo == {i \in DOMAIN tree : tree[i].key <= key}
           below == {i \in DOMAIN tree : tree[i].key < key}
<1>1. /\ DOMAIN tree = 1..Len(tree) /\ Len(tree) \in Nat
      /\ \A i \in DOMAIN tree : tree[i].key \in Nat
  BY ViewFacts
<1>2. \A i, j \in DOMAIN tree : i <= j => tree[i].key <= tree[j].key
  <2> SUFFICES ASSUME NEW i \in DOMAIN tree, NEW j \in DOMAIN tree, i <= j
               PROVE  tree[i].key <= tree[j].key
    OBVIOUS
  <2>1. CASE i = j
    BY <1>1, <2>1
  <2>2. CASE i < j
    <3>1. Before(tree[i], tree[j])
      BY <2>2 DEF TreeExact, Ordered
    <3> QED BY <1>1, <3>1 DEF Before
  <2> QED BY <1>1, <2>1, <2>2
<1>3. /\ \A i \in upTo : 1..i \subseteq upTo
      /\ \A i \in below : 1..i \subseteq below
  <2>1. ASSUME NEW i \in DOMAIN tree, NEW j \in 1..i
        PROVE  j \in DOMAIN tree /\ tree[j].key <= tree[i].key
               /\ tree[j].key \in Nat /\ tree[i].key \in Nat
    <3>1. j \in DOMAIN tree /\ j <= i
      BY <1>1
    <3> QED BY <1>1, <1>2, <3>1
  <2>2. ASSUME NEW i \in upTo PROVE 1..i \subseteq upTo
    BY <2>1
  <2>3. ASSUME NEW i \in below PROVE 1..i \subseteq below
    BY <2>1
  <2> QED BY <2>2, <2>3
<1>4. upTo \in SUBSET (1..Len(tree)) /\ below \in SUBSET (1..Len(tree))
  BY <1>1
<1> HIDE DEF upTo, below
<1>5. /\ Cardinality(upTo) \in 0..Len(tree) /\ upTo = 1..Cardinality(upTo)
      /\ Cardinality(below) \in 0..Len(tree) /\ below = 1..Cardinality(below)
  BY <1>1, <1>3, <1>4, FirstFew
<1>6. ASSUME NEW i \in DOMAIN tree
      PROVE  /\ i <= Cardinality(upTo) <=> i \in upTo
             /\ i <= Cardinality(below) <=> i \in below
  BY <1>1, <1>5
<1>7. ASSUME NEW i \in DOMAIN tree
      PROVE  (i \in upTo <=> tree[i].key <= key) /\ (i \in below <=> tree[i].key < key)
  BY DEF upTo, below
<1>8. /\ Cardinality(upTo) \in 0..Len(tree)
      /\ \A i \in DOMAIN tree : i <= Cardinality(upTo) <=> tree[i].key <= key
  BY <1>5, <1>6, <1>7
<1>9. /\ Cardinality(below) \in 0..Len(tree)
      /\ \A i \in DOMAIN tree : i <= Cardinality(below) <=> tree[i].key < key
  BY <1>5, <1>6, <1>7
<1> QED BY <1>8, <1>9 DEF upTo, below

(* The tree stays exact when the next commit is linked.                    *)
LEMMA LinkedExact ==
    ASSUME ViewInv, TreeExact, Len(tree) < Len(committed),
           tree' = linked(linkOf(Len(tree) + 1)), committed' = committed
    PROVE  TreeExact' /\ Len(tree') = Len(tree) + 1
<1> DEFINE n == Len(tree) + 1
           link == linkOf(n)
<1>1. /\ DOMAIN tree = 1..Len(tree) /\ Len(tree) \in Nat /\ tree \in Seq(Link)
      /\ \A i \in DOMAIN tree : tree[i].key \in Nat
      /\ n \in 1..Len(committed) /\ Len(committed) \in Nat /\ Len(committed) <= MaxCommits
      /\ committed[n] \in Mutations /\ committed[n].key \in Nat
  <2>1. n \in 1..Len(committed)
    BY ViewFacts
  <2> QED BY <2>1, ViewFacts DEF ViewInv
<1>2. link.key \in Nat /\ link.sequenceId = n /\ link \in Link
  BY <1>1, BoundsAssumption DEF linkOf, Link, Documents, SequenceIds
<1> HIDE DEF link
<1>3. PICK k \in 0..Len(tree) :
        /\ k = Cardinality({i \in DOMAIN tree : tree[i].key <= link.key})
        /\ \A i \in DOMAIN tree : i <= k <=> tree[i].key <= link.key
  <2>1. link.key \in Int
    BY <1>2
  <2> HIDE DEF n
  <2> QED BY <2>1, FirstKeys
<1>4. /\ Len(tree') = n /\ DOMAIN tree' = 1..n
      /\ \A i \in 1..n : tree'[i] =
            IF i <= k THEN tree[i] ELSE IF i = k + 1 THEN link ELSE tree[i - 1]
  <2>1. tree' = linked(link)
    BY DEF link
  <2>2. /\ Len(linked(link)) = Len(tree) + 1
        /\ DOMAIN linked(link) = 1..(Len(tree) + 1)
        /\ \A i \in 1..(Len(tree) + 1) : linked(link)[i] =
              IF i <= k THEN tree[i] ELSE IF i = k + 1 THEN link ELSE tree[i - 1]
    <3> HIDE DEF n
    <3> QED BY <1>1, <1>2, <1>3, LinkedAt
  <2> QED BY <2>1, <2>2
<1> HIDE DEF n
<1>6. \A i \in 1..n : \/ i <= k /\ i \in DOMAIN tree /\ tree'[i] = tree[i]
                      \/ i = k + 1 /\ tree'[i] = link
                      \/ i > k + 1 /\ i - 1 \in DOMAIN tree /\ tree'[i] = tree[i - 1]
  <2> SUFFICES ASSUME NEW i \in 1..n
               PROVE  \/ i <= k /\ i \in DOMAIN tree /\ tree'[i] = tree[i]
                      \/ i = k + 1 /\ tree'[i] = link
                      \/ i > k + 1 /\ i - 1 \in DOMAIN tree /\ tree'[i] = tree[i - 1]
    OBVIOUS
  <2>1. n = Len(tree) + 1
    BY DEF n
  <2>2. CASE i <= k
    BY <1>1, <1>3, <1>4, <2>1, <2>2
  <2>3. CASE i = k + 1
    <3>1. ~ (i <= k)
      BY <1>1, <1>3, <2>3
    <3> QED BY <1>4, <2>3, <3>1
  <2>4. CASE i > k + 1
    BY <1>1, <1>3, <1>4, <2>1, <2>4
  <2> QED BY <1>3, <2>2, <2>3, <2>4
<1>7. \A i \in DOMAIN tree : tree[i].sequenceId \in 1..n - 1
                              /\ tree[i] = linkOf(tree[i].sequenceId)
  BY <1>1 DEF TreeExact, n
<1>8. ASSUME NEW i \in DOMAIN tree'
      PROVE  tree'[i].sequenceId \in 1..Len(tree')
             /\ tree'[i] = linkOf(tree'[i].sequenceId)
  <2>1. link = linkOf(n) /\ n \in 1..n /\ Len(tree') = n
    BY <1>1, <1>4 DEF link
  <2>2. \A m \in 1..n - 1 : m \in 1..n
    BY <1>1
  <2>3. CASE tree'[i] = link
    BY <1>2, <2>1, <2>3
  <2>4. CASE \E j \in DOMAIN tree : tree'[i] = tree[j]
    BY <1>7, <2>1, <2>2, <2>4
  <2> QED BY <1>4, <1>6, <2>3, <2>4
<1>9. ASSUME NEW m \in 1..Len(tree')
      PROVE  \E i \in DOMAIN tree' : tree'[i].sequenceId = m
  <2>1. CASE m = n
    <3>1. k + 1 \in 1..n /\ ~ (k + 1 <= k)
      BY <1>1, <1>3 DEF n
    <3>2. tree'[k + 1] = link
      BY <1>4, <3>1
    <3> QED BY <1>2, <1>4, <2>1, <3>1, <3>2
  <2>2. CASE m # n
    <3>1. m \in 1..Len(tree)
      BY <1>1, <1>4, <2>2 DEF n
    <3>2. PICK j \in DOMAIN tree : tree[j].sequenceId = m
      BY <3>1 DEF TreeExact
    <3>3. CASE j <= k
      <4>1. j \in 1..n /\ tree'[j] = tree[j]
        BY <1>1, <1>4, <3>2, <3>3 DEF n
      <4> QED BY <1>4, <3>2, <4>1
    <3>4. CASE j > k
      <4>1. j + 1 \in 1..n /\ ~ (j + 1 <= k) /\ j + 1 # k + 1 /\ (j + 1) - 1 = j
        BY <1>1, <1>3, <3>2, <3>4 DEF n
      <4>2. tree'[j + 1] = tree[(j + 1) - 1]
        BY <1>4, <4>1
      <4> QED BY <1>4, <3>2, <4>1, <4>2
    <3> QED BY <1>1, <1>3, <3>2, <3>3, <3>4
  <2> QED BY <2>1, <2>2
<1>10. /\ \A i, j \in DOMAIN tree : i < j => Before(tree[i], tree[j])
       /\ \A i \in DOMAIN tree : i <= k => Before(tree[i], link)
       /\ \A i \in DOMAIN tree : i > k => Before(link, tree[i])
  <2>1. \A i \in DOMAIN tree : tree[i].sequenceId < link.sequenceId
    BY <1>1, <1>2, <1>7 DEF n
  <2>2. \A i, j \in DOMAIN tree : i < j => Before(tree[i], tree[j])
    BY DEF TreeExact, Ordered
  <2>3. ASSUME NEW i \in DOMAIN tree, i <= k PROVE Before(tree[i], link)
    BY <1>1, <1>2, <1>3, <2>1, <2>3 DEF Before
  <2>4. ASSUME NEW i \in DOMAIN tree, i > k PROVE Before(link, tree[i])
    <3>1. ~ (i <= k)
      BY <1>1, <2>4
    <3>2. ~ (tree[i].key <= link.key)
      BY <1>3, <3>1
    <3>3. link.key < tree[i].key
      BY <1>1, <1>2, <3>2
    <3> QED BY <3>3 DEF Before
  <2> QED BY <2>2, <2>3, <2>4
<1>11. ASSUME NEW i \in DOMAIN tree', NEW j \in DOMAIN tree', i < j
       PROVE  Before(tree'[i], tree'[j])
  <2>1. /\ i \in 1..n /\ j \in 1..n /\ i \in Int /\ j \in Int /\ k \in Int
    BY <1>1, <1>3, <1>4
  <2>2. CASE i <= k
    <3>1. i \in DOMAIN tree /\ tree'[i] = tree[i]
      BY <1>6, <2>1, <2>2
    <3>2. CASE j <= k
      BY <1>6, <1>10, <1>11, <2>1, <3>1, <3>2
    <3>3. CASE j = k + 1
      BY <1>6, <1>10, <2>1, <2>2, <3>1, <3>3
    <3>4. CASE j > k + 1
      <4>1. j - 1 \in DOMAIN tree /\ tree'[j] = tree[j - 1] /\ i < j - 1
        BY <1>6, <2>1, <2>2, <3>4
      <4> QED BY <1>10, <3>1, <4>1
    <3> QED BY <2>1, <3>2, <3>3, <3>4
  <2>3. CASE i = k + 1
    <3>1. j > k + 1 /\ j - 1 > k
      BY <1>11, <2>1, <2>3
    <3>2. j - 1 \in DOMAIN tree /\ tree'[j] = tree[j - 1] /\ tree'[i] = link
      BY <1>6, <2>1, <2>3, <3>1
    <3> QED BY <1>10, <3>1, <3>2
  <2>4. CASE i > k + 1
    <3>1. j > k + 1 /\ i - 1 < j - 1
      BY <1>11, <2>1, <2>4
    <3>2. /\ i - 1 \in DOMAIN tree /\ tree'[i] = tree[i - 1]
          /\ j - 1 \in DOMAIN tree /\ tree'[j] = tree[j - 1]
      BY <1>6, <2>1, <2>4, <3>1
    <3> QED BY <1>10, <3>1, <3>2
  <2> QED BY <2>1, <2>2, <2>3, <2>4
<1>12. Ordered(tree')
  BY <1>11 DEF Ordered
<1>13. TreeExact'
  BY <1>8, <1>9, <1>12 DEF TreeExact, linkOf
<1> QED BY <1>4, <1>13 DEF n
(* A tree that is not touched stays exact.                                 *)
LEMMA TreeKept ==
    ASSUME ViewInv, TreeExact, tree' = tree,
           \A n \in 1..Len(committed) : committed'[n] = committed[n]
    PROVE  TreeExact'
<1>1. \A i \in DOMAIN tree :
        tree[i].sequenceId \in 1..Len(committed)
        /\ committed'[tree[i].sequenceId] = committed[tree[i].sequenceId]
  BY ViewFacts DEF TreeExact
<1> QED BY <1>1 DEF TreeExact, Ordered, linkOf

(* A step of one query, or of none, beside the others.                     *)
LEMMA OthersKept ==
    ASSUME ViewInv, ExactInv, NEW who,
           tree' = tree,
           \A n \in 1..Len(committed) : committed'[n] = committed[n],
           \A q \in Queries \ {who} :
                /\ query'[q] = query[q]
                /\ state'[q] = state[q] \/ (state[q] = "waiting" /\ state'[q] = "instance")
    PROVE  TreeExact' /\ \A q \in Queries \ {who} : QueryExact(q)'
<1>1. TreeExact'
  BY TreeKept DEF ExactInv
<1>2. ASSUME NEW q \in Queries \ {who} PROVE QueryExact(q)'
  <2>1. QueryExact(q)
    BY DEF ExactInv
  <2>2. query[q].settled =>
            \A n \in 1..query[q].sequenceId : committed'[n] = committed[n]
    BY <2>1, ViewFacts DEF QueryExact
  <2> QED BY <2>1, <2>2, QueryKept
<1> QED BY <1>1, <1>2

(* Commits, and what is applied by the storage.                            *)
LEMMA ExactCommits ==
    ASSUME ViewInv, ExactInv, (\E m \in Mutations : Commit(m)) \/ StorageApply
    PROVE  ExactInv'
<1>1. /\ tree' = tree /\ query' = query /\ state' = state
      /\ \A n \in 1..Len(committed) : committed'[n] = committed[n]
  <2>1. CASE \E m \in Mutations : Commit(m)
    <3>1. PICK m \in Mutations : Commit(m)
      BY <2>1
    <3>2. committed \in Seq(Mutations)
      BY ViewFacts DEF TypeOK
    <3> QED BY <3>1, <3>2, AppendProperties DEF Commit
  <2>2. CASE StorageApply
    BY <2>2 DEF StorageApply
  <2> QED BY <2>1, <2>2
<1>2. Insert \notin Queries
  BY ActorsAssumption
<1> QED BY <1>1, <1>2, OthersKept DEF ExactInv

(* The insert gets its instance.                                           *)
LEMMA ExactApplyInsert ==
    ASSUME ViewInv, ExactInv, ApplyInsert
    PROVE  ExactInv'
<1>1. /\ tree' = tree /\ committed' = committed /\ query' = query
      /\ state[Insert] = "none" /\ grabInstance(Insert)
  BY DEF ApplyInsert, data
<1>2. Insert \in Actors /\ Insert \notin Queries /\ Queries \subseteq Actors
  BY ActorsAssumption DEF Actors
<1>3. \A b \in Actors \ {Insert} : state'[b] = state[b]
  BY <1>1, <1>2, PoolGrab, ViewFacts
<1> QED BY <1>1, <1>2, <1>3, OthersKept DEF ExactInv

(* The insert links a commit that is newer than what any query that has    *)
(* read from the tree asks for.                                            *)
LEMMA ExactCompleteInsert ==
    ASSUME ViewInv, ExactInv, CompleteInsert
    PROVE  ExactInv'
<1>1. /\ state[Insert] = "instance" /\ tree' = linked(linkOf(Len(tree) + 1))
      /\ committed' = committed /\ query' = query
      /\ releaseInstance(Insert, "none")
  BY DEF CompleteInsert
<1>2. Active = {} /\ Len(tree) < Len(committed)
  BY <1>1, ViewFacts DEF InsertAlone
<1>3. TreeExact' /\ Len(tree') = Len(tree) + 1
  BY <1>1, <1>2, LinkedExact DEF ExactInv
<1>4. Insert \in Holding /\ Insert \notin Queries /\ Queries \subseteq Actors
  BY <1>1, ActorsAssumption DEF Actors, Holding
<1>5. \A b \in Actors \ {Insert} :
        state'[b] = state[b] \/ (state[b] = "waiting" /\ state'[b] = "instance")
  BY <1>1, <1>4, PoolRelease, ViewFacts
<1>6. ASSUME NEW q \in Queries PROVE QueryExact(q)'
  <2>1. QueryExact(q) /\ query[q].sequenceId \in Nat /\ Len(tree) \in Nat
    BY ViewFacts DEF ExactInv
  <2>2. state[q] \notin {"item", "fetch"}
    BY <1>2 DEF Active
  <2>3. query[q].sequenceId <= Len(tree) => query[q].sequenceId <= Len(tree')
    BY <1>3, <2>1
  <2>4. state'[q] = state[q] \/ (state[q] = "waiting" /\ state'[q] = "instance")
    BY <1>4, <1>5
  <2> QED BY <1>1, <2>1, <2>2, <2>3, <2>4, QueryKept
<1> QED BY <1>3, <1>6 DEF ExactInv
------------------------------------------------------------------------------
(* Queries keep ExactInv *)

(* A query that begins, or that is forgotten, has returned nothing.        *)
LEMMA ExactQuery ==
    ASSUME ViewInv, ExactInv, NEW q \in Queries,
           \/ Return(q)
           \/ \E s \in AskedIds, from \in FromKeys \cup {NoKey},
                 limit \in Limits \cup {NoLimit} : Query(q, s, from, limit)
    PROVE  ExactInv'
<1>1. /\ tree' = tree /\ committed' = committed
      /\ \E new, s : /\ query' = [query EXCEPT ![q] = new]
                     /\ state' = [state EXCEPT ![q] = s]
                     /\ new.items = <<>> /\ ~ new.settled
  <2>1. NoQuery.items = <<>> /\ ~ NoQuery.settled
    BY DEF NoQuery
  <2>2. CASE Return(q)
    BY <2>1, <2>2 DEF Return, data
  <2>3. CASE \E s \in AskedIds, from \in FromKeys \cup {NoKey},
                 limit \in Limits \cup {NoLimit} : Query(q, s, from, limit)
    <3>1. PICK s \in AskedIds, from \in FromKeys \cup {NoKey},
               limit \in Limits \cup {NoLimit} : Query(q, s, from, limit)
      BY <2>3
    <3> DEFINE new == [NoQuery EXCEPT !.sequenceId = s, !.fromKey = from, !.limit = limit]
    <3>2. new.items = <<>> /\ ~ new.settled
      BY <2>1 DEF NoQuery
    <3>3. query' = [query EXCEPT ![q] = new] /\ state' = [state EXCEPT ![q] = "queued"]
          /\ tree' = tree /\ committed' = committed
      BY <3>1 DEF Query, data
    <3> QED BY <3>2, <3>3
  <2> QED BY <2>2, <2>3
<1>2. q \in Actors /\ Queries \subseteq Actors
      /\ state \in [Actors -> State] /\ query \in [Queries -> QueryRecord]
  BY ViewFacts DEF Actors, TypeOK
<1>3. \A r \in Queries \ {q} : query'[r] = query[r] /\ state'[r] = state[r]
  BY <1>1, <1>2
<1>4. query'[q].items = <<>> /\ ~ query'[q].settled
  BY <1>1, <1>2
<1>5. QueryExact(q)'
  BY <1>4 DEF QueryExact
<1>6. TreeExact' /\ \A r \in Queries \ {q} : QueryExact(r)'
  BY <1>1, <1>3, OthersKept
<1> QED BY <1>5, <1>6 DEF ExactInv

(* A query starts, and it is decided whether it is settled.                *)
LEMMA ExactStart ==
    ASSUME ViewInv, ExactInv, NEW q \in Queries, Start(q)
    PROVE  ExactInv'
<1>1. PICK garbage \in IF query[q].limit = NoLimit THEN {0} ELSE 0..MaxGarbage :
        /\ state[q] = "queued" /\ grabInstance(q)
        /\ query' = [query EXCEPT
            ![q].fetchedCount = garbage,
            ![q].settled = /\ storageApplied >= query[q].sequenceId
                           /\ Len(tree) >= query[q].sequenceId]
        /\ tree' = tree /\ committed' = committed
  BY DEF Start, data
<1>2. /\ q \in Actors /\ Queries \subseteq Actors
      /\ query \in [Queries -> QueryRecord] /\ query[q] \in QueryRecord
      /\ query[q].sequenceId \in Nat /\ Len(tree) \in Nat
  BY ViewFacts DEF Actors, TypeOK
<1>3. state'[q] \in {"waiting", "instance"} /\ \A b \in Actors \ {q} : state'[b] = state[b]
  BY <1>1, <1>2, PoolGrab, ViewFacts
<1>4. \A r \in Queries \ {q} : query'[r] = query[r] /\ state'[r] = state[r]
  BY <1>1, <1>2, <1>3
<1>5. /\ query'[q].items = query[q].items
      /\ query'[q].sequenceId = query[q].sequenceId
      /\ query'[q].settled => Len(tree) >= query[q].sequenceId
  BY <1>1, <1>2 DEF QueryRecord
<1>6. query[q].items = <<>>
  BY <1>1 DEF ExactInv, QueryExact
<1>7. QueryExact(q)'
  BY <1>1, <1>2, <1>3, <1>5, <1>6 DEF QueryExact
<1>8. TreeExact' /\ \A r \in Queries \ {q} : QueryExact(r)'
  BY <1>1, <1>4, OthersKept
<1> QED BY <1>7, <1>8 DEF ExactInv

(* A query is at the first link it asks for: those in front are smaller.   *)
LEMMA ExactFindBegin ==
    ASSUME ViewInv, ExactInv, NEW q \in Queries, FindBegin(q)
    PROVE  ExactInv'
<1> DEFINE p == firstFrom(query[q].fromKey)
<1>1. /\ state[q] = "instance"
      /\ state' = [state EXCEPT ![q] = "item"]
      /\ query' = [query EXCEPT ![q].position = p]
      /\ tree' = tree /\ committed' = committed
  BY DEF FindBegin, data
<1> HIDE DEF p
<1>2. /\ q \in Actors /\ Queries \subseteq Actors /\ state \in [Actors -> State]
      /\ query \in [Queries -> QueryRecord] /\ query[q] \in QueryRecord
      /\ query[q].fromKey \in Int
      /\ DOMAIN tree = 1..Len(tree) /\ Len(tree) \in Nat
  BY ViewFacts DEF Actors, TypeOK
<1>3. \A r \in Queries \ {q} : query'[r] = query[r] /\ state'[r] = state[r]
  BY <1>1, <1>2
<1>4. /\ query'[q].position = p
      /\ query'[q].items = query[q].items /\ query'[q].settled = query[q].settled
      /\ query'[q].sequenceId = query[q].sequenceId
      /\ query'[q].fromKey = query[q].fromKey
      /\ state'[q] = "item"
  BY <1>1, <1>2 DEF QueryRecord
<1>5. QueryExact(q) /\ query[q].items = <<>>
  BY <1>1 DEF ExactInv, QueryExact
<1>6. PICK k \in 0..Len(tree) :
        /\ k = Cardinality({i \in DOMAIN tree : tree[i].key < query[q].fromKey})
        /\ \A i \in DOMAIN tree : i <= k <=> tree[i].key < query[q].fromKey
  BY <1>2, FirstKeys DEF ExactInv
<1>7. p = k + 1 /\ p - 1 = k
  BY <1>6 DEF p, firstFrom
<1>8. LastVersions(q)' = LastVersions(q)
  BY <1>1, <1>4, VersionsKept
<1>9. LastVersions(q) \cap {tree[i] : i \in 1..p - 1} = {}
  <2> SUFFICES ASSUME NEW i \in 1..k, tree[i] \in LastVersions(q) PROVE FALSE
    BY <1>7
  <2>1. i \in DOMAIN tree /\ tree[i].key < query[q].fromKey
    BY <1>2, <1>6
  <2>2. tree[i].key >= query[q].fromKey
    BY LastVersionIs
  <2> QED BY <1>2, <2>1, <2>2, ViewFacts
<1>10. query[q].settled => Passed(q)'
  <2>1. p <= Len(tree) + 1
    BY <1>2, <1>6, <1>7
  <2>2. ASSUME NEW i \in DOMAIN tree, i >= p PROVE tree[i].key >= query[q].fromKey
    <3>0. ~ (i <= k)
      BY <1>2, <1>6, <1>7, <2>2
    <3>1. ~ (tree[i].key < query[q].fromKey)
      BY <1>6, <3>0
    <3> QED BY <1>2, <3>1, ViewFacts
  <2>3. Ordered(<<>>) /\ ToSet(<<>>) = {}
    BY DEF Ordered, ToSet
  <2>4. query'[q].items = <<>>
    BY <1>4, <1>5
  <2> QED BY <1>1, <1>4, <1>8, <1>9, <2>1, <2>2, <2>3, <2>4 DEF Passed, Ordered
<1>11. QueryExact(q)'
  BY <1>1, <1>4, <1>5, <1>10 DEF QueryExact
<1>12. TreeExact' /\ \A r \in Queries \ {q} : QueryExact(r)'
  BY <1>1, <1>3, OthersKept
<1> QED BY <1>11, <1>12 DEF ExactInv
(* A query gives its instance back when it is behind the last link, and    *)
(* then it has all last versions, or when it has as many as it may have.   *)
LEMMA ExactFetchItem ==
    ASSUME ViewInv, ExactInv, NEW q \in Queries, FetchItem(q)
    PROVE  ExactInv'
<1> DEFINE p == query[q].position
           items == query[q].items
<1>1. /\ state[q] = "item"
      /\ \/ finished(q) /\ releaseInstance(q, "done")
         \/ state' = [state EXCEPT ![q] = "fetch"]
      /\ tree' = tree /\ committed' = committed /\ query' = query
  BY DEF FetchItem, data
<1>2. /\ q \in Actors /\ Queries \subseteq Actors /\ state \in [Actors -> State]
      /\ p \in Nat /\ items \in Seq(Link) /\ p > 0
      /\ DOMAIN tree = 1..Len(tree) /\ Len(tree) \in Nat
  BY <1>1, ViewFacts DEF Actors, TypeOK, QueriesPlaced
<1>3. \/ /\ finished(q) /\ state'[q] = "done"
         /\ \A b \in Actors \ {q} :
              state'[b] = state[b] \/ (state[b] = "waiting" /\ state'[b] = "instance")
      \/ state'[q] = "fetch" /\ \A b \in Actors \ {q} : state'[b] = state[b]
  <2>1. CASE finished(q) /\ releaseInstance(q, "done")
    <3>1. q \in Holding
      BY <1>1, <1>2 DEF Holding
    <3> QED BY <2>1, <3>1, PoolRelease, ViewFacts
  <2>2. CASE state' = [state EXCEPT ![q] = "fetch"]
    BY <1>2, <2>2
  <2> QED BY <1>1, <2>1, <2>2
<1>4. TreeExact' /\ \A r \in Queries \ {q} : QueryExact(r)'
  BY <1>1, <1>2, <1>3, OthersKept
<1>5. QueryExact(q) /\ TreeExact
  BY DEF ExactInv
<1>6. query[q].settled => LastVersions(q)' = LastVersions(q)
  BY <1>1, VersionsKept
<1>7. ASSUME query[q].settled PROVE Passed(q) /\ query[q].sequenceId <= Len(tree)
  BY <1>1, <1>5, <1>7 DEF QueryExact
<1>8. ASSUME query[q].settled, finished(q) PROVE Exact(q)
  <2>1. Passed(q) /\ query[q].sequenceId <= Len(tree)
    BY <1>7, <1>8
  <2>2. /\ p <= Len(tree) + 1 /\ Ordered(items)
        /\ ToSet(items) = LastVersions(q) \cap {tree[i] : i \in 1..p - 1}
    BY <2>1 DEF Passed
  <2>3. ASSUME NEW link \in LastVersions(q) \ ToSet(items)
        PROVE  query[q].limit # NoLimit /\ \A i \in DOMAIN items : Before(items[i], link)
    <3>1. PICK j \in DOMAIN tree : tree[j] = link
      BY <1>5, <2>1, LastInTree
    <3>2. j \notin 1..p - 1
      BY <2>2, <2>3, <3>1
    <3>3. j >= p /\ ~ (p > Len(tree))
      BY <1>2, <3>1, <3>2
    <3>4. query[q].limit # NoLimit
      BY <1>8, <3>3 DEF finished
    <3>5. ASSUME NEW i \in DOMAIN items PROVE Before(items[i], link)
      <4>1. items[i] \in ToSet(items)
        BY DEF ToSet
      <4>2. PICK k \in 1..p - 1 : items[i] = tree[k]
        BY <2>2, <4>1
      <4>3. k \in DOMAIN tree /\ k < j
        BY <1>2, <2>2, <3>1, <3>3
      <4> QED BY <1>5, <3>1, <4>2, <4>3 DEF TreeExact, Ordered
    <3> QED BY <3>4, <3>5
  <2> HIDE DEF items
  <2>4. ToSet(items) \subseteq LastVersions(q)
    BY <2>2
  <2> QED BY <2>2, <2>3, <2>4 DEF Exact, items
<1>9. query[q].settled => (Exact(q) => Exact(q)') /\ (Passed(q) => Passed(q)')
  BY <1>1, <1>6 DEF Exact, Passed, Ordered, ToSet
<1>10. QueryExact(q)'
  <2> HIDE DEF p, items
  <2>1. CASE query[q].settled
    BY <1>1, <1>3, <1>7, <1>8, <1>9, <2>1 DEF QueryExact
  <2>2. CASE ~ query[q].settled
    BY <1>1, <1>3, <2>2 DEF QueryExact
  <2> QED BY <2>1, <2>2
<1> QED BY <1>4, <1>10 DEF ExactInv

(* The version the storage has is the one of the link exactly if the link  *)
(* is to a last version: the storage has all commits that are asked for.   *)
LEMMA HitIsLast ==
    ASSUME ViewInv, ExactInv, NEW q \in Queries, state[q] = "fetch", query[q].settled
    PROVE  /\ query[q].position \in DOMAIN tree
           /\ expected(tree[query[q].position], fetched(q))
                <=> tree[query[q].position] \in LastVersions(q)
<1> DEFINE p == query[q].position
           s == query[q].sequenceId
           link == tree[p]
           n == link.sequenceId
           S == {NotFound} \cup {m \in 1..storageApplied :
                    committed[m].documentId = link.documentId /\ visible(m, s)}
<1>1. /\ p \in DOMAIN tree /\ s \in Nat /\ storageApplied \in Nat
      /\ s <= storageApplied /\ s <= Len(tree) /\ Len(tree) \in Nat
  <2>1. /\ p \in Nat /\ p > 0 /\ p <= Len(tree) /\ s <= storageApplied
        /\ DOMAIN tree = 1..Len(tree) /\ Len(tree) \in Nat /\ s \in Nat
        /\ storageApplied \in 0..Len(committed) /\ Len(committed) \in Nat
    BY ViewFacts DEF QueriesPlaced, TypeOK
  <2>2. s <= Len(tree)
    BY DEF ExactInv, QueryExact
  <2> QED BY <2>1, <2>2
<1>2. /\ n \in 1..Len(tree) /\ link = linkOf(n)
      /\ link.documentId = committed[n].documentId
      /\ link.key >= query[q].fromKey
  <2>1. n \in 1..Len(tree) /\ link = linkOf(n)
    BY <1>1 DEF ExactInv, TreeExact
  <2>2. Passed(q)
    BY DEF ExactInv, QueryExact
  <2>3. p >= p
    BY <1>1, ViewFacts
  <2>4. link.key >= query[q].fromKey
    BY <1>1, <2>2, <2>3 DEF Passed
  <2> HIDE DEF link, n
  <2> QED BY <2>1, <2>4 DEF linkOf
<1>3. fetched(q) = Max(S)
  BY DEF fetched, version
<1> HIDE DEF p, link, n
<1>4. Max(S) \in S /\ \A m \in S : m <= Max(S)
  <2>1. S \in SUBSET (0..storageApplied) /\ S # {}
    BY <1>1 DEF NotFound
  <2> HIDE DEF S
  <2> QED BY <1>1, <2>1, LargestIsMax
<1>5. \A m : m \in S <=> m = 0 \/ (m \in 1..s /\ committed[m].documentId = link.documentId)
  BY <1>1 DEF visible, NotFound
<1> HIDE DEF S
<1>6. expected(link, fetched(q)) <=> n = Max(S)
  BY <1>3 DEF expected, n
<1>7. ASSUME n = Max(S) PROVE link \in LastVersions(q)
  <2>1. n \in 1..s
    BY <1>2, <1>4, <1>5, <1>7
  <2>2. ASSUME NEW m \in n+1..s PROVE committed[m].documentId # link.documentId
    <3>1. m \in 1..s /\ ~ (m <= n)
      BY <1>1, <2>1
    <3> QED BY <1>4, <1>5, <1>7, <3>1
  <2> QED BY <1>2, <2>1, <2>2, LastVersionIs DEF n
<1>8. ASSUME link \in LastVersions(q) PROVE n = Max(S)
  <2>1. n \in 1..s /\ \A m \in n+1..s : committed[m].documentId # link.documentId
    BY <1>8, LastVersionIs DEF n, s
  <2>2. n \in S /\ n <= Max(S)
    BY <1>2, <1>4, <1>5, <2>1
  <2>3. Max(S) \in 1..s /\ committed[Max(S)].documentId = link.documentId
    BY <1>1, <1>4, <1>5, <2>1, <2>2
  <2>4. Max(S) \notin n+1..s
    BY <2>1, <2>3
  <2> QED BY <1>1, <2>1, <2>2, <2>3, <2>4
<1> QED BY <1>1, <1>6, <1>7, <1>8 DEF p, link

(* A query takes the link, if it is to a last version, and goes on.        *)
LEMMA ExactFetched ==
    ASSUME ViewInv, ExactInv, NEW q \in Queries, Fetched(q)
    PROVE  ExactInv'
<1> DEFINE p == query[q].position
           items == query[q].items
           link == tree[p]
           hit == expected(link, fetched(q))
<1>1. /\ state[q] = "fetch"
      /\ state' = [state EXCEPT ![q] = "item"]
      /\ query' = [query EXCEPT
            ![q].position = @ + 1,
            ![q].items = IF hit THEN Append(@, link) ELSE @,
            ![q].fetchedCount = IF hit THEN @ + 1 ELSE @]
      /\ tree' = tree /\ committed' = committed
  BY DEF Fetched, data
<1>2. /\ q \in Actors /\ Queries \subseteq Actors /\ state \in [Actors -> State]
      /\ query \in [Queries -> QueryRecord] /\ query[q] \in QueryRecord
      /\ p \in Nat /\ p > 0 /\ items \in Seq(Link)
      /\ DOMAIN tree = 1..Len(tree) /\ Len(tree) \in Nat
  BY <1>1, ViewFacts DEF Actors, TypeOK, QueriesPlaced
<1> HIDE DEF hit
<1>3. \A r \in Queries \ {q} : query'[r] = query[r] /\ state'[r] = state[r]
  BY <1>1, <1>2
<1>4. /\ query'[q].position = p + 1
      /\ query'[q].items = IF hit THEN Append(items, link) ELSE items
      /\ query'[q].settled = query[q].settled
      /\ query'[q].sequenceId = query[q].sequenceId
      /\ query'[q].fromKey = query[q].fromKey
      /\ state'[q] = "item"
  BY <1>1, <1>2 DEF QueryRecord
<1>5. QueryExact(q) /\ TreeExact
  BY DEF ExactInv
<1>6. LastVersions(q)' = LastVersions(q)
  BY <1>1, <1>4, VersionsKept
<1>7. ASSUME query[q].settled PROVE Passed(q)'
  <2>1. /\ p \in DOMAIN tree
        /\ hit <=> link \in LastVersions(q)
    BY <1>1, <1>7, HitIsLast DEF hit
  <2>2. Passed(q)
    BY <1>1, <1>5, <1>7 DEF QueryExact
  <2>3. /\ \A i \in DOMAIN tree : i >= p => tree[i].key >= query[q].fromKey
        /\ Ordered(items)
        /\ ToSet(items) = LastVersions(q) \cap {tree[i] : i \in 1..p - 1}
    BY <2>2 DEF Passed
  <2> DEFINE more == query'[q].items
  <2>4. link \in Link
    BY <2>1, ViewFacts
  <2>5. /\ p + 1 <= Len(tree) + 1
        /\ \A i \in DOMAIN tree : i >= p + 1 => tree[i].key >= query[q].fromKey
    <3>1. p <= Len(tree)
      BY <1>2, <2>1
    <3>2. \A i \in DOMAIN tree : i >= p + 1 => i >= p
      BY <1>2
    <3> QED BY <1>2, <2>3, <3>1, <3>2
  <2>6. {tree[i] : i \in 1..(p + 1) - 1} = {tree[i] : i \in 1..p - 1} \cup {link}
    <3>1. 1..(p + 1) - 1 = (1..p - 1) \cup {p}
      BY <1>2
    <3> QED BY <3>1
  <2>7. CASE hit
    <3>1. /\ more = Append(items, link)
          /\ ToSet(more) = ToSet(items) \cup {link}
          /\ DOMAIN more = DOMAIN items \cup {Len(items) + 1}
          /\ Len(items) + 1 \notin DOMAIN items
          /\ \A i \in DOMAIN items : more[i] = items[i]
          /\ more[Len(items) + 1] = link
      BY <1>2, <1>4, <2>4, <2>7, QueueAppended
    <3>2. Ordered(more)
      <4> SUFFICES ASSUME NEW i \in DOMAIN more, NEW j \in DOMAIN more, i < j
                   PROVE  Before(more[i], more[j])
        BY DEF Ordered
      <4> HIDE DEF more
      <4>1. Len(items) \in Nat /\ DOMAIN items = 1..Len(items)
        BY <1>2, LenProperties
      <4>2. i \in DOMAIN items
        BY <3>1, <4>1
      <4>3. CASE j \in DOMAIN items
        BY <2>3, <3>1, <4>2, <4>3 DEF Ordered
      <4>4. CASE j = Len(items) + 1
        <5>1. items[i] \in ToSet(items)
          BY <4>2 DEF ToSet
        <5>2. PICK k \in 1..p - 1 : items[i] = tree[k]
          BY <2>3, <5>1
        <5>3. k \in DOMAIN tree /\ k < p
          BY <1>2, <2>1
        <5>4. Before(tree[k], tree[p])
          BY <1>5, <2>1, <5>3 DEF TreeExact, Ordered
        <5> QED BY <3>1, <4>2, <4>4, <5>2, <5>4
      <4> QED BY <3>1, <4>3, <4>4
    <3>3. ToSet(more) = LastVersions(q) \cap {tree[i] : i \in 1..(p + 1) - 1}
      BY <2>1, <2>3, <2>6, <2>7, <3>1
    <3> HIDE DEF more, link
    <3> QED BY <1>1, <1>4, <1>6, <2>5, <3>2, <3>3 DEF Passed, Ordered, more
  <2>8. CASE ~ hit
    <3>1. more = items
      BY <1>4, <2>8
    <3>2. ToSet(more) = LastVersions(q) \cap {tree[i] : i \in 1..(p + 1) - 1}
      BY <2>1, <2>3, <2>6, <2>8, <3>1
    <3>3. Ordered(more)
      BY <2>3, <3>1
    <3> HIDE DEF more, link
    <3> QED BY <1>1, <1>4, <1>6, <2>5, <3>2, <3>3 DEF Passed, Ordered, more
  <2> QED BY <2>7, <2>8
<1>8. QueryExact(q)'
  BY <1>1, <1>4, <1>5, <1>7 DEF QueryExact
<1>9. TreeExact' /\ \A r \in Queries \ {q} : QueryExact(r)'
  BY <1>1, <1>3, OthersKept
<1> QED BY <1>8, <1>9 DEF ExactInv

(* A view that has nothing to do is exact.                                 *)
LEMMA ExactIdle == Idle => ExactInv
<1> SUFFICES ASSUME Idle PROVE ExactInv
  OBVIOUS
<1>1. tree = <<>> /\ DOMAIN tree = {} /\ Len(tree) = 0
  BY DEF Idle
<1>2. TreeExact
  BY <1>1 DEF TreeExact, Ordered
<1>3. ASSUME NEW q \in Queries PROVE QueryExact(q)
  <2>1. query[q] = NoQuery /\ NoQuery.items = <<>> /\ ~ NoQuery.settled
    BY DEF Idle, NoQuery
  <2> QED BY <2>1 DEF QueryExact
<1> QED BY <1>2, <1>3 DEF ExactInv

(* The end of the process leaves an idle view.                             *)
LEMMA ExactStop ==
    ASSUME ViewInv, NEW how \in {"crashed", "threw"}, Stop(how)
    PROVE  ExactInv'
<1>1. committed \in Seq(Mutations) /\ Len(committed) <= MaxCommits
  BY DEF ViewInv, InstancesAccounted, TypeOK
<1>2. Idle'
  BY <1>1 DEF Stop, Idle
<1>3. Idle' => ExactInv'
  BY ExactIdle, PTL
<1> QED BY <1>2, <1>3

(* No step breaks what is known of queries and of the tree.                *)
LEMMA ExactNext == ASSUME ViewInv, ExactInv, [Next]_vars PROVE ExactInv'
<1>1. CASE \E m \in Mutations : Commit(m)
  BY <1>1, ExactCommits
<1>2. CASE StorageApply \/ ApplyInsert \/ CompleteInsert
  BY <1>2, ExactCommits, ExactApplyInsert, ExactCompleteInsert
<1>3. CASE \E q \in Queries, s \in AskedIds, from \in FromKeys \cup {NoKey},
              limit \in Limits \cup {NoLimit} : Query(q, s, from, limit)
  BY <1>3, ExactQuery
<1>4. CASE \E q \in Queries : Start(q) \/ Run(q) \/ Return(q)
  BY <1>4, ExactStart, ExactFindBegin, ExactFetchItem, ExactFetched, ExactQuery, ExactStop
     DEF Run, Throw
<1>5. CASE Stop("crashed")
  BY <1>5, ExactStop
<1>6. CASE Restart \/ UNCHANGED vars
  <2>1. UNCHANGED <<data, pool, state, query>>
    BY <1>6 DEF Restart, vars
  <2>2. tree' = tree /\ committed' = committed /\ state' = state /\ query' = query
        /\ Insert \notin Queries
    BY <2>1, ActorsAssumption DEF data
  <2> QED BY <2>2, OthersKept DEF ExactInv
<1> QED BY <1>1, <1>2, <1>3, <1>4, <1>5, <1>6 DEF Next

(* Tree and storage agree on every version a query asks for, at each link  *)
(* it comes to and for as long as it runs.                                 *)
THEOREM ExactSafety == Spec => []ExactInv
<1>1. Init => ExactInv
  <2> SUFFICES ASSUME Init PROVE Idle
    BY ExactIdle
  <2>1. committed \in Seq(Mutations) /\ Len(committed) <= MaxCommits
    BY EmptySeq, BoundsAssumption DEF Init
  <2> QED BY <2>1 DEF Init, Idle
<1>2. ViewInv /\ ExactInv /\ [Next]_vars => ExactInv'
  BY ExactNext
<1> QED BY <1>1, <1>2, ViewSafety, PTL DEF Spec

(* A query that starts when storage and view have the commits it asks for  *)
(* returns the last version of every document, once and in the order of    *)
(* the keys, or the first of them if it has a limit, whatever is committed *)
(* or inserted before it has finished: fetchItem and onFetchData.          *)
THEOREM SettledQueriesExact == Spec => []SettledQueryExact
<1>1. ExactInv => SettledQueryExact
  BY DEF ExactInv, QueryExact, SettledQueryExact
<1> QED BY <1>1, ExactSafety, PTL
==============================================================================
