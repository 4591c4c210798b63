------------------------ MODULE TransactionRefsProofs -------------------------
(***************************************************************************)
(* The counter of TransactionRefs is exact for any number of drivers and   *)
(* transactions and any log, as long as no two threads are at it at once.  *)
(* RefsInv is the inductive invariant.                                     *)
(***************************************************************************)
EXTENDS TransactionRefs, TLAPS, SequenceTheorems, FiniteSetTheorems,
        FunctionTheorems
------------------------------------------------------------------------------
(* The invariant that makes RefsExact inductive *)

Op == [at : {"none", "load", "store"}, by : {-1, 0, 1},
       object : Objects \cup {NoObject}, value : Int]

RefsTyped ==
    /\ log \in Logs
    /\ pass \in Nat /\ replayed \subseteq Nat \X Objects /\ IsFiniteSet(replayed)
    /\ allocated \in 0..MaxObjects
    /\ refCount \in [Objects -> Int]
    /\ drivers \subseteq Drivers
    /\ pc \in {"replay", "idle", "increment", "sequence"}
    /\ queue \in [Drivers -> Seq(Objects)]
    /\ \A o \in Objects : IsFiniteSet(Queued(o))
    /\ applying \in [Drivers -> Objects \cup {NoObject}]
    /\ op \in [Parties -> Op]

(* Nobody has an object that was not allocated. *)
Known == 1..allocated

ObjectsKnown ==
    /\ active \subseteq Known /\ kept \subseteq Known
    /\ raced \subseteq Known /\ deleted \subseteq Known
    /\ \A pair \in replayed : pair[2] \in Known
    /\ \A d \in Drivers :
        /\ applying[d] \in Known \cup {NoObject}
        /\ \A n \in DOMAIN queue[d] : queue[d][n] \in Known
    /\ \A p \in Parties : op[p].object \in Known \cup {NoObject}

(* During a replay nobody else has any of its objects. *)
ReplayAlone ==
    /\ pc = "replay" =>
        /\ pass \in Drivers \cup {Meta}
        /\ raced = {}
        /\ \A p \in Parties : op[p] = NoOp
        /\ \A d \in Drivers : applying[d] = NoObject
        /\ \A pair \in replayed :
            /\ pair[2] \notin active \cup kept /\ Queued(pair[2]) = {}
            /\ \A other \in replayed : other[2] = pair[2] => other = pair
    /\ pc # "replay" => replayed = {}

(* The engine keeps its own reference while it takes those of the drivers. *)
CommitInForm ==
    /\ pc \in {"increment", "sequence"} => committing \in active
    /\ pc \in {"replay", "idle"} => committing = NoObject
    /\ pc = "increment" => ~ Busy(Engine)
    /\ pc = "sequence" =>
        /\ remaining # <<>> /\ Head(remaining) \in Drivers
        /\ op[Engine].by # -1

OpsInForm ==
    \A p \in Parties :
        /\ op[p].at = "none" => op[p] = NoOp
        /\ op[p].at # "none" => op[p].object \in Objects /\ op[p].by \in {-1, 1}
        /\ op[p].by = 1 => p = Engine /\ pc = "sequence" /\ op[p].object = committing

(* Who is at a counter alone writes what it is one more or less than.      *)
CountersAlone ==
    \A p \in Parties :
        op[p].object \notin raced \cup {NoObject} =>
            /\ \A q \in Parties : op[q].object = op[p].object => q = p
            /\ op[p].at = "store" => op[p].value = refCount[op[p].object]

RefsInv ==
    /\ RefsTyped /\ ObjectsKnown /\ ReplayAlone /\ CommitInForm /\ OpsInForm
    /\ CountersAlone /\ RefsExact
------------------------------------------------------------------------------
(* Where an object is in the queues.                                       *)
At(q, x) == UNION {{d} \X {n \in DOMAIN q[d] : q[d][n] = x} : d \in Drivers}

LEMMA AtMember ==
    ASSUME NEW q, NEW x, NEW at
    PROVE  at \in At(q, x) <=>
                \E d \in Drivers : \E n \in DOMAIN q[d] : at = <<d, n>> /\ q[d][n] = x
BY DEF At

(* A queue of r has one object more than that of q, or one less.           *)
HasAppended(q, r, d, o) == r = [q EXCEPT ![d] = Append(@, o)]
HasTaken(q, r, d) == r = [q EXCEPT ![d] = Tail(@)]

(* An object is put at the end of a queue.                                 *)
LEMMA QueueAppend ==
    ASSUME NEW q \in [Drivers -> Seq(Objects)], NEW d \in Drivers, NEW o \in Objects,
           NEW r, HasAppended(q, r, d, o)
    PROVE  LET at == <<d, Len(q[d]) + 1>> IN
           /\ r \in [Drivers -> Seq(Objects)]
           /\ at \notin At(q, o)
           /\ At(r, o) = At(q, o) \cup {at}
           /\ \A x : x # o => At(r, x) = At(q, x)
           /\ \A e \in Drivers : \A n \in DOMAIN r[e] :
                    r[e][n] = o \/ (n \in DOMAIN q[e] /\ r[e][n] = q[e][n])
<1> DEFINE l == Len(q[d])
           at == <<d, l + 1>>
<1>1. q[d] \in Seq(Objects)
  OBVIOUS
<1>2. l \in Nat /\ DOMAIN q[d] = 1..l
  BY <1>1, LenProperties
<1>3. /\ Append(q[d], o) \in Seq(Objects) /\ Len(Append(q[d], o)) = l + 1
      /\ \A n \in 1..l : Append(q[d], o)[n] = q[d][n]
      /\ Append(q[d], o)[l + 1] = o
  BY <1>1, AppendProperties
<1>4. /\ r[d] = Append(q[d], o)
      /\ \A e \in Drivers : e # d => r[e] = q[e]
      /\ r \in [Drivers -> Seq(Objects)]
  BY <1>3 DEF HasAppended
<1>5. DOMAIN r[d] = 1..(l + 1)
  BY <1>3, <1>4, LenProperties
<1> HIDE DEF l
<1>6. \A e \in Drivers : \A n \in DOMAIN r[e] :
            \/ n \in DOMAIN q[e] /\ r[e][n] = q[e][n]
            \/ e = d /\ n = l + 1 /\ r[e][n] = o
  <2> TAKE e \in Drivers
  <2>1. CASE e = d
    <3> TAKE n \in DOMAIN r[e]
    <3>1. n \in 1..l \/ n = l + 1
      BY <1>2, <1>5, <2>1
    <3> QED BY <1>2, <1>3, <1>4, <2>1, <3>1
  <2>2. CASE e # d
    BY <1>4, <2>2
  <2> QED BY <2>1, <2>2
<1>7. \A e \in Drivers : \A n \in DOMAIN q[e] : n \in DOMAIN r[e] /\ r[e][n] = q[e][n]
  <2> TAKE e \in Drivers
  <2>1. CASE e = d
    BY <1>2, <1>3, <1>4, <1>5, <2>1
  <2>2. CASE e # d
    BY <1>4, <2>2
  <2> QED BY <2>1, <2>2
<1>8. l + 1 \in DOMAIN r[d] /\ r[d][l + 1] = o /\ l + 1 \notin DOMAIN q[d]
  BY <1>2, <1>3, <1>4, <1>5
<1>9. at \notin At(q, o)
  <2> SUFFICES ASSUME at \in At(q, o) PROVE FALSE
    OBVIOUS
  <2>1. PICK e \in Drivers : \E n \in DOMAIN q[e] : at = <<e, n>>
    BY AtMember
  <2> QED BY <1>8, <2>1
<1>10. ASSUME NEW x, NEW a
       PROVE  a \in At(r, x) <=> a \in At(q, x) \/ (x = o /\ a = at)
  <2>1. ASSUME a \in At(r, x) PROVE a \in At(q, x) \/ (x = o /\ a = at)
    <3>1. PICK e \in Drivers : \E n \in DOMAIN r[e] : a = <<e, n>> /\ r[e][n] = x
      BY <2>1, AtMember
    <3>2. PICK n \in DOMAIN r[e] : a = <<e, n>> /\ r[e][n] = x
      BY <3>1
    <3>3. CASE n \in DOMAIN q[e] /\ r[e][n] = q[e][n]
      BY <3>2, <3>3, AtMember
    <3>4. CASE e = d /\ n = l + 1 /\ r[e][n] = o
      BY <3>2, <3>4
    <3> QED BY <1>6, <3>3, <3>4
  <2>2. ASSUME a \in At(q, x) PROVE a \in At(r, x)
    <3>1. PICK e \in Drivers : \E n \in DOMAIN q[e] : a = <<e, n>> /\ q[e][n] = x
      BY <2>2, AtMember
    <3>2. PICK n \in DOMAIN q[e] : a = <<e, n>> /\ q[e][n] = x
      BY <3>1
    <3> QED BY <1>7, <3>2, AtMember
  <2>3. ASSUME x = o, a = at PROVE a \in At(r, x)
    BY <1>8, <2>3, AtMember
  <2> QED BY <2>1, <2>2, <2>3
<1>11. ASSUME NEW x, x # o PROVE At(r, x) = At(q, x)
  <2> \A a : a \in At(r, x) <=> a \in At(q, x)
    BY <1>10, <1>11
  <2> QED OBVIOUS
<1>12. At(r, o) = At(q, o) \cup {at}
  <2> \A a : a \in At(r, o) <=> a \in At(q, o) \/ a = at
    BY <1>10
  <2> HIDE DEF at
  <2> QED OBVIOUS
<1> QED BY <1>4, <1>6, <1>9, <1>11, <1>12 DEF l

(* The first object of a queue is taken.                                   *)
LEMMA QueueTail ==
    ASSUME NEW q \in [Drivers -> Seq(Objects)], NEW d \in Drivers, q[d] # <<>>,
           NEW r, HasTaken(q, r, d),
           NEW x, IsFiniteSet(At(q, x))
    PROVE  /\ r \in [Drivers -> Seq(Objects)]
           /\ IsFiniteSet(At(r, x))
           /\ x = Head(q[d]) => Cardinality(At(r, x)) = Cardinality(At(q, x)) - 1
           /\ x # Head(q[d]) => Cardinality(At(r, x)) = Cardinality(At(q, x))
           /\ \A e \in Drivers : \A n \in DOMAIN r[e] :
                    \E m \in DOMAIN q[e] : r[e][n] = q[e][m]
           /\ 1 \in DOMAIN q[d] /\ Head(q[d]) = q[d][1] /\ Head(q[d]) \in Objects
<1> DEFINE l == Len(q[d])
           S == At(q, x) \ {<<d, 1>>}
           T == At(r, x)
           f == [at \in S |-> IF at[1] = d THEN <<d, at[2] - 1>> ELSE at]
<1>1. q[d] \in Seq(Objects)
  OBVIOUS
<1>2. l \in Nat \ {0} /\ DOMAIN q[d] = 1..l
  BY <1>1, EmptySeq, LenProperties
<1>3. /\ Tail(q[d]) \in Seq(Objects) /\ Len(Tail(q[d])) = l - 1
      /\ \A n \in 1..(l - 1) : Tail(q[d])[n] = q[d][n + 1]
      /\ Head(q[d]) \in Objects
  BY <1>1, HeadTailProperties
<1>4. /\ r[d] = Tail(q[d])
      /\ \A e \in Drivers : e # d => r[e] = q[e]
      /\ r \in [Drivers -> Seq(Objects)]
  BY <1>3 DEF HasTaken
<1>5. DOMAIN r[d] = 1..(l - 1)
  BY <1>3, <1>4, LenProperties
<1>6. 1 \in DOMAIN q[d] /\ Head(q[d]) = q[d][1]
  BY <1>1, <1>2
<1> HIDE DEF l
<1>7. ASSUME NEW e \in Drivers, NEW n \in DOMAIN r[e]
      PROVE  \E m \in DOMAIN q[e] : r[e][n] = q[e][m]
  <2>1. CASE e = d
    <3>1. n + 1 \in DOMAIN q[e] /\ r[e][n] = q[e][n + 1]
      BY <1>2, <1>3, <1>4, <1>5, <2>1
    <3> QED BY <3>1
  <2>2. CASE e # d
    BY <1>4, <2>2
  <2> QED BY <2>1, <2>2
<1>8. ASSUME NEW at \in S
      PROVE  \E e \in Drivers : \E n \in DOMAIN q[e] :
                    at = <<e, n>> /\ q[e][n] = x /\ (e = d => n # 1)
  <2>1. PICK e \in Drivers : \E n \in DOMAIN q[e] : at = <<e, n>> /\ q[e][n] = x
    BY AtMember
  <2>2. PICK n \in DOMAIN q[e] : at = <<e, n>> /\ q[e][n] = x
    BY <2>1
  <2> QED BY <2>2
<1>9. \A e \in Drivers : \A n \in DOMAIN q[e] :
            q[e][n] = x /\ (e = d => n # 1) => <<e, n>> \in S
  BY AtMember
<1>10. \A e \in Drivers : \A n \in DOMAIN r[e] : r[e][n] = x => <<e, n>> \in T
  BY AtMember
<1>11. ASSUME NEW at \in T
       PROVE  \E e \in Drivers : \E n \in DOMAIN r[e] : at = <<e, n>> /\ r[e][n] = x
  BY AtMember
<1> HIDE DEF S, T
<1>12. ASSUME NEW at \in S
       PROVE  f[at] \in T
  <2>1. PICK e \in Drivers : \E n \in DOMAIN q[e] :
                    at = <<e, n>> /\ q[e][n] = x /\ (e = d => n # 1)
    BY <1>8
  <2>2. PICK n \in DOMAIN q[e] : at = <<e, n>> /\ q[e][n] = x /\ (e = d => n # 1)
    BY <2>1
  <2>3. CASE e = d
    <3>1. n \in 2..l /\ n - 1 \in 1..(l - 1) /\ n - 1 + 1 = n
      BY <1>2, <2>2, <2>3
    <3>2. n - 1 \in DOMAIN r[d] /\ r[d][n - 1] = x
      BY <1>3, <1>4, <1>5, <2>2, <2>3, <3>1
    <3>3. f[at] = <<d, n - 1>>
      BY <2>2, <2>3
    <3> QED BY <1>10, <3>2, <3>3
  <2>4. CASE e # d
    <3>1. f[at] = <<e, n>>
      BY <2>2, <2>4
    <3>2. r[e] = q[e]
      BY <1>4, <2>4
    <3> QED BY <1>10, <2>2, <3>1, <3>2
  <2> QED BY <2>3, <2>4
<1>13. ASSUME NEW a \in S, NEW b \in S, f[a] = f[b]
       PROVE  a = b
  <2>1. PICK e \in Drivers : \E n \in DOMAIN q[e] : a = <<e, n>>
    BY <1>8
  <2>2. PICK n \in DOMAIN q[e] : a = <<e, n>>
    BY <2>1
  <2>3. PICK g \in Drivers : \E m \in DOMAIN q[g] : b = <<g, m>>
    BY <1>8
  <2>4. PICK m \in DOMAIN q[g] : b = <<g, m>>
    BY <2>3
  <2>5. /\ f[a] = IF e = d THEN <<d, n - 1>> ELSE <<e, n>>
        /\ f[b] = IF g = d THEN <<d, m - 1>> ELSE <<g, m>>
    BY <2>2, <2>4
  <2>6. e = g
    BY <1>13, <2>5
  <2>7. CASE e = d
    <3>1. n - 1 = m - 1 /\ n \in Nat /\ m \in Nat
      BY <1>2, <1>13, <2>2, <2>4, <2>5, <2>6, <2>7
    <3> QED BY <2>2, <2>4, <2>6, <3>1
  <2>8. CASE e # d
    BY <1>13, <2>2, <2>4, <2>5, <2>6, <2>8
  <2> QED BY <2>7, <2>8
<1>14. ASSUME NEW at \in T
       PROVE  \E a \in S : f[a] = at
  <2>1. PICK e \in Drivers : \E n \in DOMAIN r[e] : at = <<e, n>> /\ r[e][n] = x
    BY <1>11
  <2>2. PICK n \in DOMAIN r[e] : at = <<e, n>> /\ r[e][n] = x
    BY <2>1
  <2>3. CASE e = d
    <3>1. n \in 1..(l - 1) /\ n + 1 \in 1..l /\ n + 1 # 1 /\ n + 1 - 1 = n
      BY <1>2, <1>5, <2>2, <2>3
    <3>2. n + 1 \in DOMAIN q[d] /\ q[d][n + 1] = x
      BY <1>2, <1>3, <1>4, <2>2, <2>3, <3>1
    <3>3. <<d, n + 1>> \in S
      BY <1>9, <3>1, <3>2
    <3>4. f[<<d, n + 1>>] = <<d, n>>
      BY <3>1, <3>3
    <3> QED BY <2>2, <2>3, <3>3, <3>4
  <2>4. CASE e # d
    <3>1. <<e, n>> \in S
      BY <1>4, <1>9, <2>2, <2>4
    <3>2. f[<<e, n>>] = <<e, n>>
      BY <2>4, <3>1
    <3> QED BY <2>2, <3>1, <3>2
  <2> QED BY <2>3, <2>4
<1>15. f \in Bijection(S, T)
  <2>1. f \in [S -> T]
    BY <1>12
  <2> HIDE DEF f
  <2>2. f \in Injection(S, T)
    BY <1>13, <2>1 DEF Injection, IsInjective
  <2>3. f \in Surjection(S, T)
    BY <1>14, <2>1 DEF Surjection
  <2> QED BY <2>2, <2>3 DEF Bijection
<1>16. IsFiniteSet(S) /\ Cardinality(S) =
            IF <<d, 1>> \in At(q, x) THEN Cardinality(At(q, x)) - 1
            ELSE Cardinality(At(q, x))
  BY FS_RemoveElement DEF S
<1>17. IsFiniteSet(T) /\ Cardinality(T) = Cardinality(S)
  <2>1. ExistsBijection(S, T)
    BY <1>15 DEF ExistsBijection
  <2> QED BY <1>16, <2>1, FS_Bijection
<1>18. <<d, 1>> \in At(q, x) <=> x = Head(q[d])
  <2>1. ASSUME <<d, 1>> \in At(q, x) PROVE q[d][1] = x
    <3>1. PICK e \in Drivers : \E n \in DOMAIN q[e] : <<d, 1>> = <<e, n>> /\ q[e][n] = x
      BY <2>1, AtMember
    <3> QED BY <3>1
  <2>2. ASSUME q[d][1] = x PROVE <<d, 1>> \in At(q, x)
    BY <1>6, <2>2, AtMember
  <2> QED BY <1>6, <2>1, <2>2
<1> QED BY <1>3, <1>4, <1>6, <1>7, <1>16, <1>17, <1>18 DEF T
-------------------------------------------------------------------------------
(* The parts of References(o) are finite. *)

LEMMA PartiesFinite ==
    /\ IsFiniteSet(Drivers) /\ IsFiniteSet(Parties)
    /\ Drivers \subseteq Parties /\ Engine \in Parties /\ Engine \notin Drivers
    /\ NoObject \notin Objects
<1>1. IsFiniteSet(Drivers)
  BY FS_Interval, DriversAssumption DEF Drivers
<1>2. IsFiniteSet(Parties)
  BY <1>1, FS_AddElement DEF Parties
<1> QED BY <1>1, <1>2, DriversAssumption, ObjectsAssumption
        DEF Parties, Drivers, Engine, NoObject, Objects

(* Two sets that differ in one member at most.                             *)
LEMMA OneChanges ==
    ASSUME NEW D, IsFiniteSet(D), NEW S \in SUBSET D, NEW T \in SUBSET D, NEW d \in D,
           \A e \in D : e # d => (e \in S <=> e \in T)
    PROVE  /\ Cardinality(S) \in Nat /\ Cardinality(T) \in Nat
           /\ Cardinality(T) + Number(d \in S) = Cardinality(S) + Number(d \in T)
<1> DEFINE R == S \ {d}
<1>1. IsFiniteSet(S) /\ IsFiniteSet(T)
  BY FS_Subset
<1>2. Cardinality(S) \in Nat /\ Cardinality(T) \in Nat /\ Cardinality(R) \in Nat
  BY <1>1, FS_CardinalityType, FS_RemoveElement
<1>3. T \ {d} = R
  OBVIOUS
<1>4. Cardinality(R) = IF d \in S THEN Cardinality(S) - 1 ELSE Cardinality(S)
  BY <1>1, FS_RemoveElement
<1>5. Cardinality(R) = IF d \in T THEN Cardinality(T) - 1 ELSE Cardinality(T)
  BY <1>1, <1>3, FS_RemoveElement
<1> HIDE DEF R
<1> QED BY <1>2, <1>4, <1>5 DEF Number

(* What References adds up are numbers.                                    *)
LEMMA Counts ==
    ASSUME RefsTyped, NEW o \in Objects
    PROVE  /\ IsFiniteSet(Replays(o)) /\ IsFiniteSet(Queued(o))
           /\ IsFiniteSet(Applies(o)) /\ IsFiniteSet(Drops(o))
           /\ Cardinality(Replays(o)) \in Nat /\ Cardinality(Queued(o)) \in Nat
           /\ Cardinality(Applies(o)) \in Nat /\ Cardinality(Drops(o)) \in Nat
<1>1. IsFiniteSet(Replays(o))
  BY FS_Subset DEF RefsTyped, Replays
<1>2. IsFiniteSet(Queued(o))
  BY DEF RefsTyped
<1>3. IsFiniteSet(Applies(o))
  BY FS_Subset, PartiesFinite DEF Applies
<1>4. IsFiniteSet(Drops(o))
  BY FS_Subset, PartiesFinite DEF Drops
<1> QED BY <1>1, <1>2, <1>3, <1>4, FS_CardinalityType

(* A driver applies another object.                                        *)
LEMMA AppliesChange ==
    ASSUME NEW d \in Drivers, \A e \in Drivers : e # d => applying'[e] = applying[e],
           NEW o
    PROVE  Cardinality(Applies(o)') = Cardinality(Applies(o))
            - (IF applying[d] = o THEN 1 ELSE 0) + (IF applying'[d] = o THEN 1 ELSE 0)
<1> DEFINE S == Applies(o)
           T == Applies(o)'
<1>1. S \in SUBSET Drivers /\ T \in SUBSET Drivers
  BY DEF Applies
<1>2. \A e \in Drivers : e # d => (e \in S <=> e \in T)
  BY DEF Applies
<1>3. (d \in S <=> applying[d] = o) /\ (d \in T <=> applying'[d] = o)
  BY DEF Applies
<1> HIDE DEF S, T
<1>4. /\ Cardinality(S) \in Nat /\ Cardinality(T) \in Nat
      /\ Cardinality(T) + Number(d \in S) = Cardinality(S) + Number(d \in T)
  BY <1>1, <1>2, PartiesFinite, OneChanges
<1>5. Cardinality(T) = Cardinality(S)
                - (IF applying[d] = o THEN 1 ELSE 0) + (IF applying'[d] = o THEN 1 ELSE 0)
  BY <1>3, <1>4 DEF Number
<1> QED BY <1>5 DEF S, T

(* A party does another thing with a counter.                              *)
LEMMA DropsChange ==
    ASSUME RefsTyped, NEW p \in Parties, NEW v, op' = [op EXCEPT ![p] = v], NEW o
    PROVE  Cardinality(Drops(o)') = Cardinality(Drops(o))
                - (IF op[p].object = o /\ op[p].by = -1 THEN 1 ELSE 0)
                + (IF v.object = o /\ v.by = -1 THEN 1 ELSE 0)
<1> DEFINE S == Drops(o)
           T == Drops(o)'
<1>1. S \in SUBSET Parties /\ T \in SUBSET Parties
  BY DEF Drops
<1>2. \A q \in Parties : q # p => (q \in S <=> q \in T)
  BY DEF RefsTyped, Drops
<1>3. (p \in S <=> op[p].object = o /\ op[p].by = -1) /\ (p \in T <=> v.object = o /\ v.by = -1)
  BY DEF RefsTyped, Drops
<1> HIDE DEF S, T
<1>4. /\ Cardinality(S) \in Nat /\ Cardinality(T) \in Nat
      /\ Cardinality(T) + Number(p \in S) = Cardinality(S) + Number(p \in T)
  BY <1>1, <1>2, PartiesFinite, OneChanges
<1>5. Cardinality(T) = Cardinality(S)
                - (IF op[p].object = o /\ op[p].by = -1 THEN 1 ELSE 0)
                + (IF v.object = o /\ v.by = -1 THEN 1 ELSE 0)
  BY <1>3, <1>4 DEF Number
<1> QED BY <1>5 DEF S, T
-------------------------------------------------------------------------------
(* Steps on a counter *)

(* Reading a counter changes no reference.                                 *)
LEMMA LoadStep ==
    ASSUME RefsInv, NEW p \in Parties, Load(p)
    PROVE  RefsInv'
<1> USE DEF RefsInv
<1> DEFINE v == [op[p] EXCEPT !.at = "store", !.value = refCount[op[p].object]]
<1>1. /\ op[p] \in Op /\ op[p].at = "load" /\ op[p].object \in Objects
      /\ op[p].by \in {-1, 1}
  BY DEF RefsTyped, Load, OpsInForm
<1>2. /\ v \in Op /\ v.at = "store" /\ v.by = op[p].by /\ v.object = op[p].object
      /\ v.value = refCount[v.object]
  BY <1>1 DEF Op, RefsTyped
<1> HIDE DEF v
<1>3. op' = [op EXCEPT ![p] = v]
  <2>1. op' = [op EXCEPT ![p] = [op[p] EXCEPT !.at = "store", !.value = refCount[op[p].object]]]
    BY DEF RefsTyped, Load
  <2> QED BY <2>1 DEF v
<1>4. op'[p] = v /\ \A q \in Parties : q # p => op'[q] = op[q]
  BY <1>3 DEF RefsTyped
<1>5. UNCHANGED <<replay, objects, active, drivers, closure, driver, raced>>
  BY DEF Load
<1>6. RefsTyped'
  <2>1. op' \in [Parties -> Op]
    BY <1>2, <1>3 DEF RefsTyped
  <2> QED BY <1>5, <2>1 DEF RefsTyped, replay, objects, closure, driver, Queued
<1>7. ObjectsKnown'
  BY <1>1, <1>2, <1>4, <1>5 DEF ObjectsKnown, Known, replay, objects, closure, driver
<1>8. pc # "replay"
  BY <1>1 DEF ReplayAlone, NoOp
<1>9. ReplayAlone'
  BY <1>5, <1>8 DEF ReplayAlone, replay, closure
<1>10. Busy(Engine)' = Busy(Engine) /\ op'[Engine].by = op[Engine].by
  BY <1>1, <1>2, <1>4, PartiesFinite DEF Busy
<1>11. CommitInForm'
  BY <1>5, <1>10 DEF CommitInForm, closure, objects
<1>12. OpsInForm'
  BY <1>1, <1>2, <1>4, <1>5 DEF OpsInForm, closure
<1>13. CountersAlone'
  BY <1>1, <1>2, <1>4, <1>5 DEF CountersAlone, objects
<1>14. ASSUME NEW o \in Objects PROVE References(o)' = References(o)
  <2>1. Cardinality(Drops(o)') = Cardinality(Drops(o))
    <3>1. \A q \in Parties : op'[q].object = op[q].object /\ op'[q].by = op[q].by
      BY <1>2, <1>4
    <3> QED BY <3>1 DEF Drops
  <2>2. Taken(o)' = Taken(o)
    BY <1>5, <1>10 DEF Taken, closure
  <2> QED BY <1>5, <2>1, <2>2
          DEF References, Replays, Queued, Applies, replay, closure, driver, Number
<1>15. RefsExact'
  BY <1>5, <1>14 DEF RefsExact, objects
<1> QED BY <1>6, <1>7, <1>9, <1>11, <1>12, <1>13, <1>15

(* A counter is written when a reference comes or goes: what is written is *)
(* the number of references, if nobody was there between.                  *)
LEMMA StoreStep ==
    ASSUME RefsInv, NEW p \in Parties, Store(p)
    PROVE  RefsInv'
<1> USE DEF RefsInv
<1> DEFINE o == op[p].object
           by == op[p].by
           count == op[p].value + by
<1>1. /\ op[p] \in Op /\ op[p].at = "store" /\ o \in Objects /\ by \in {-1, 1}
      /\ count \in Int
  BY DEF RefsTyped, Store, OpsInForm, Op
<1>2. /\ refCount' = [refCount EXCEPT ![o] = count]
      /\ deleted' = IF by = -1 /\ count = 0 THEN deleted \cup {o} ELSE deleted
      /\ op' = [op EXCEPT ![p] = NoOp]
      /\ UNCHANGED <<replay, allocated, active, drivers, closure, driver, raced>>
  BY DEF Store
<1>3. /\ NoOp \in Op /\ NoOp.at = "none" /\ NoOp.object = NoObject /\ NoOp.by = 0
  BY DEF NoOp, Op
<1>4. op'[p] = NoOp /\ \A q \in Parties : q # p => op'[q] = op[q]
  BY <1>2 DEF RefsTyped
<1>5. /\ o \in Known /\ NoObject \notin Objects
      /\ by = 1 => p = Engine /\ pc = "sequence" /\ o = committing
  BY <1>1, PartiesFinite DEF ObjectsKnown, OpsInForm
<1>6. refCount'[o] = count /\ \A y \in Objects : y # o => refCount'[y] = refCount[y]
  BY <1>1, <1>2 DEF RefsTyped
<1>7. o \notin raced => op[p].value = refCount[o]
  BY <1>1, <1>5 DEF CountersAlone
<1>8. Busy(p) /\ ~ Busy(p)' /\ \A q \in Parties : q # p => (Busy(q)' <=> Busy(q))
  BY <1>1, <1>3, <1>4 DEF Busy
<1>9. Engine \in Parties
  BY PartiesFinite
<1> HIDE DEF count, o, by
<1>10. RefsTyped'
  <2>1. op' \in [Parties -> Op] /\ refCount' \in [Objects -> Int]
    BY <1>1, <1>2, <1>3 DEF RefsTyped
  <2> QED BY <1>2, <2>1 DEF RefsTyped, replay, closure, driver, Queued
<1>11. ObjectsKnown'
  <2>1. \A q \in Parties : op'[q].object \in Known \cup {NoObject}
    BY <1>3, <1>4 DEF ObjectsKnown
  <2>2. deleted' \subseteq Known
    BY <1>2, <1>5 DEF ObjectsKnown
  <2> QED BY <1>2, <2>1, <2>2 DEF ObjectsKnown, Known, replay, closure, driver
<1>12. pc # "replay"
  BY <1>1, <1>3 DEF ReplayAlone
<1>13. ReplayAlone'
  BY <1>2, <1>12 DEF ReplayAlone, replay, closure
<1>14. CommitInForm'
  <2>1. pc = "increment" => ~ Busy(Engine)'
    BY <1>8, <1>9 DEF CommitInForm
  <2>2. pc = "sequence" => op'[Engine].by # -1
    BY <1>3, <1>4, <1>9 DEF CommitInForm
  <2> QED BY <1>2, <2>1, <2>2 DEF CommitInForm, closure
<1>15. OpsInForm'
  BY <1>2, <1>3, <1>4 DEF OpsInForm, closure
<1>16. CountersAlone'
  <2> SUFFICES ASSUME NEW q \in Parties, op'[q].object \notin raced \cup {NoObject}
               PROVE  /\ \A r \in Parties : op'[r].object = op'[q].object => r = q
                      /\ op'[q].at = "store" => op'[q].value = refCount'[op'[q].object]
    BY <1>2 DEF CountersAlone
  <2>1. q # p /\ op'[q] = op[q]
    BY <1>3, <1>4
  <2>2. /\ \A r \in Parties : op[r].object = op[q].object => r = q
        /\ op[q].at = "store" => op[q].value = refCount[op[q].object]
    BY <2>1 DEF CountersAlone
  <2>3. \A r \in Parties : op'[r].object = op'[q].object => r = q
    BY <1>3, <1>4, <2>1, <2>2
  <2>4. op[q].object # o /\ op[q].object \in Objects
    BY <1>1, <1>3, <2>1, <2>2 DEF o, RefsTyped, Op
  <2> QED BY <1>6, <2>1, <2>2, <2>3, <2>4
<1>17. ASSUME NEW y \in Objects
       PROVE  References(y)' = References(y) + IF y = o THEN by ELSE 0
  <2>1. Cardinality(Drops(y)')
          = Cardinality(Drops(y)) - IF o = y /\ by = -1 THEN 1 ELSE 0
    <3>1. Cardinality(Drops(y)') = Cardinality(Drops(y))
                - (IF op[p].object = y /\ op[p].by = -1 THEN 1 ELSE 0)
                + (IF NoOp.object = y /\ NoOp.by = -1 THEN 1 ELSE 0)
      BY <1>2, DropsChange
    <3>2. Cardinality(Drops(y)) \in Nat
      BY Counts
    <3> QED BY <1>3, <3>1, <3>2 DEF o, by
  <2>2. by = 1 => (Taken(y)' <=> y = o) /\ ~ Taken(y)
    BY <1>2, <1>5, <1>8 DEF Taken, closure
  <2>3. by = -1 => (Taken(y)' <=> Taken(y))
    <3>1. CASE p = Engine
      BY <1>2, <3>1 DEF CommitInForm, Taken, closure, by
    <3>2. CASE p # Engine
      BY <1>2, <1>8, <1>9, <3>2 DEF Taken, closure
    <3> QED BY <3>1, <3>2
  <2>4. UNCHANGED <<active, kept, Replays(y), Queued(y), Applies(y)>>
    BY <1>2 DEF replay, driver, Replays, Queued, Applies
  <2>5. /\ Cardinality(Replays(y)) \in Nat /\ Cardinality(Queued(y)) \in Nat
        /\ Cardinality(Applies(y)) \in Nat /\ Cardinality(Drops(y)) \in Nat
    BY Counts
  <2>6. CASE by = 1
    <3>1. Cardinality(Drops(y)') = Cardinality(Drops(y))
      BY <2>1, <2>5, <2>6
    <3> QED BY <2>2, <2>4, <2>5, <2>6, <3>1 DEF References, Number
  <2>7. CASE by = -1
    BY <2>1, <2>3, <2>4, <2>5, <2>7 DEF References, Number
  <2> QED BY <1>1, <2>6, <2>7
<1>18. RefsExact'
  <2> SUFFICES ASSUME NEW y \in Objects \ raced
               PROVE  /\ refCount'[y] = References(y)'
                      /\ y \in deleted' <=> y <= allocated /\ References(y)' = 0
    BY <1>2 DEF RefsExact
  <2>1. /\ refCount[y] = References(y)
        /\ y \in deleted <=> y <= allocated /\ References(y) = 0
    BY DEF RefsExact
  <2>2. CASE y # o
    BY <1>2, <1>6, <1>17, <2>1, <2>2 DEF RefsTyped
  <2>3. CASE y = o
    <3>1. refCount'[y] = References(y)' /\ References(y)' = count
      BY <1>1, <1>6, <1>7, <1>17, <2>1, <2>3 DEF count
    <3>2. References(y) > 0
      <4>1. CASE by = 1
        <5>1. y \in active
          BY <1>5, <2>3, <4>1 DEF CommitInForm
        <5> QED BY <5>1, Counts DEF References, Number
      <4>2. CASE by = -1
        <5>1. Drops(y) # {}
          BY <2>3, <4>2 DEF Drops, o, by
        <5>2. Cardinality(Drops(y)) # 0
          BY <5>1, Counts, FS_EmptySet
        <5> QED BY <5>2, Counts DEF References, Number
      <4> QED BY <1>1, <4>1, <4>2
    <3>3. y \notin deleted /\ y <= allocated
      BY <1>5, <2>1, <2>3, <3>2 DEF Known, RefsTyped
    <3>4. by = 1 => count # 0
      BY <1>7, <2>1, <2>3, <3>2, <1>1 DEF count, RefsTyped
    <3> QED BY <1>1, <1>2, <2>3, <3>1, <3>3, <3>4
  <2> QED BY <2>2, <2>3
<1> QED BY <1>10, <1>11, <1>13, <1>14, <1>15, <1>16, <1>18

(* What was allocated is an object.                                        *)
LEMMA KnownObjects ==
    ASSUME RefsTyped
    PROVE  Known \subseteq Objects
<1>1. allocated \in Nat /\ allocated <= MaxObjects /\ MaxObjects \in Nat
  BY ObjectsAssumption DEF RefsTyped
<1> QED BY <1>1 DEF Known, Objects

(* A party that begins a step on a counter is alone there, or the object   *)
(* is raced; if it is to drop a reference, it has that reference now.      *)
LEMMA BeginStep ==
    ASSUME RefsInv, NEW p \in Parties, NEW by \in {-1, 1}, NEW o \in Known, Begin(p, by, o)
    PROVE  /\ op' \in [Parties -> Op] /\ op[p] = NoOp
           /\ op'[p].at = "load" /\ op'[p].by = by /\ op'[p].object = o
           /\ \A q \in Parties : q # p => op'[q] = op[q]
           /\ raced \subseteq raced' /\ raced' \subseteq raced \cup {o}
           /\ \A y \in Objects : Cardinality(Drops(y)')
                = Cardinality(Drops(y)) + IF y = o /\ by = -1 THEN 1 ELSE 0
           /\ refCount' = refCount => CountersAlone'
<1> USE DEF RefsInv
<1> DEFINE v == [at |-> "load", by |-> by, object |-> o, value |-> 0]
<1>1. v.at = "load" /\ v.by = by /\ v.object = o
  OBVIOUS
<1>2. o \in Objects /\ NoObject \notin Objects
  BY PartiesFinite, KnownObjects
<1>3. v \in Op
  BY <1>2 DEF Op
<1>4. op' = [op EXCEPT ![p] = v] /\ ~ Busy(p)
  BY DEF Begin
<1> HIDE DEF v
<1>5. op'[p] = v /\ op' \in [Parties -> Op] /\ \A q \in Parties : q # p => op'[q] = op[q]
  BY <1>3, <1>4 DEF RefsTyped
<1>6. op[p] = NoOp /\ NoOp.object = NoObject /\ NoOp.by = 0
  BY <1>4 DEF Busy, OpsInForm, NoOp
<1>7. raced' = raced \cup {x \in {o} : \E q \in Parties : op[q].object = o}
  BY DEF Begin
<1>8. ASSUME NEW y \in Objects
      PROVE  Cardinality(Drops(y)')
                = Cardinality(Drops(y)) + IF y = o /\ by = -1 THEN 1 ELSE 0
  <2>1. Cardinality(Drops(y)') = Cardinality(Drops(y))
                - (IF op[p].object = y /\ op[p].by = -1 THEN 1 ELSE 0)
                + (IF v.object = y /\ v.by = -1 THEN 1 ELSE 0)
    BY <1>4, DropsChange
  <2>2. Cardinality(Drops(y)) \in Nat
    BY Counts
  <2> QED BY <1>1, <1>6, <2>1, <2>2
<1>9. ASSUME refCount' = refCount PROVE CountersAlone'
  <2> SUFFICES ASSUME NEW q \in Parties, op'[q].object \notin raced' \cup {NoObject}
               PROVE  /\ \A r \in Parties : op'[r].object = op'[q].object => r = q
                      /\ op'[q].at = "store" => op'[q].value = refCount'[op'[q].object]
    BY DEF CountersAlone
  <2>1. CASE q = p
    <3>1. \A r \in Parties : op[r].object # o
      BY <1>1, <1>5, <1>7, <2>1
    <3> QED BY <1>1, <1>5, <2>1, <3>1
  <2>2. CASE q # p
    <3>1. op'[q] = op[q] /\ op[q].object # o
      BY <1>5, <1>7, <2>2
    <3>2. /\ \A r \in Parties : op[r].object = op[q].object => r = q
          /\ op[q].at = "store" => op[q].value = refCount[op[q].object]
      BY <1>7, <3>1 DEF CountersAlone
    <3>3. \A r \in Parties : op'[r].object = op'[q].object => r = q
      BY <1>1, <1>5, <3>1, <3>2
    <3> QED BY <1>9, <3>1, <3>2, <3>3
  <2> QED BY <2>1, <2>2
<1> QED BY <1>1, <1>5, <1>6, <1>7, <1>8, <1>9
-------------------------------------------------------------------------------
(* Steps that change no reference *)

(* Nothing that References adds up is changed.                             *)
LEMMA SameReferences ==
    ASSUME UNCHANGED <<active, kept, replayed, queue, applying, op>>,
           NEW o, Taken(o)' <=> Taken(o)
    PROVE  References(o)' = References(o)
BY DEF References, Number, Replays, Queued, Applies, Drops

(* commitComplete begins with all drivers.                                 *)
LEMMA CommitCompleteStep ==
    ASSUME RefsInv, NEW o \in Objects, CommitComplete(o)
    PROVE  RefsInv'
<1> USE DEF RefsInv
<1>1. /\ pc = "idle" /\ o \in active /\ ~ Busy(Engine)
      /\ pc' = "increment" /\ committing' = o
      /\ UNCHANGED <<replay, objects, active, drivers, driver, counting>>
  BY DEF CommitComplete
<1> USE <1>1 DEF replay, objects, driver, counting
<1>2. RefsTyped'
  BY DEF RefsTyped, Queued
<1>3. ObjectsKnown'
  BY DEF ObjectsKnown, Known
<1>4. ReplayAlone'
  BY DEF ReplayAlone
<1>5. CommitInForm'
  BY DEF CommitInForm, Busy
<1>6. OpsInForm'
  BY DEF OpsInForm
<1>7. CountersAlone'
  BY DEF CountersAlone
<1>8. \A y : References(y)' = References(y)
  BY SameReferences DEF Taken
<1>9. RefsExact'
  BY <1>8 DEF RefsExact
<1> QED BY <1>2, <1>3, <1>4, <1>5, <1>6, <1>7, <1>9

(* A driver that is gone is passed over.                                   *)
LEMMA SkipUnlinkedStep ==
    ASSUME RefsInv, SkipUnlinked
    PROVE  RefsInv'
<1> USE DEF RefsInv
<1>1. /\ pc = "increment"
      /\ UNCHANGED <<replay, objects, active, drivers, pc, committing, driver, counting>>
  BY DEF SkipUnlinked
<1> USE <1>1 DEF replay, objects, driver, counting
<1>2. RefsTyped'
  BY DEF RefsTyped, Queued
<1>3. ObjectsKnown'
  BY DEF ObjectsKnown, Known
<1>4. ReplayAlone'
  BY DEF ReplayAlone
<1>5. CommitInForm'
  BY DEF CommitInForm, Busy
<1>6. OpsInForm'
  BY DEF OpsInForm
<1>7. CountersAlone'
  BY DEF CountersAlone
<1>8. \A y : References(y)' = References(y)
  BY SameReferences DEF Taken, Busy
<1>9. RefsExact'
  BY <1>8 DEF RefsExact
<1> QED BY <1>2, <1>3, <1>4, <1>5, <1>6, <1>7, <1>9

(* A driver that is unlinked keeps its queue.                              *)
LEMMA UnlinkStep ==
    ASSUME RefsInv, NEW d \in Drivers, Unlink(d)
    PROVE  RefsInv'
<1> USE DEF RefsInv
<1>1. /\ drivers' = drivers \ {d}
      /\ UNCHANGED <<replay, objects, active, closure, driver, counting>>
  BY DEF Unlink
<1> USE <1>1 DEF replay, objects, closure, driver, counting
<1>2. RefsTyped'
  BY DEF RefsTyped, Queued
<1>3. ObjectsKnown'
  BY DEF ObjectsKnown, Known
<1>4. ReplayAlone'
  BY DEF ReplayAlone, Queued
<1>5. CommitInForm'
  BY DEF CommitInForm, Busy
<1>6. OpsInForm'
  BY DEF OpsInForm
<1>7. CountersAlone'
  BY DEF CountersAlone
<1>8. \A y : References(y)' = References(y)
  BY SameReferences DEF Taken, Busy
<1>9. RefsExact'
  BY <1>8 DEF RefsExact
<1> QED BY <1>2, <1>3, <1>4, <1>5, <1>6, <1>7, <1>9
-------------------------------------------------------------------------------
(* Steps that move a reference *)

(* A transaction that failed or was rolled back: the reference of          *)
(* p_activeTransactions is about to be dropped.                            *)
LEMMA DiscardStep ==
    ASSUME RefsInv, NEW o \in Objects, Discard(o)
    PROVE  RefsInv'
<1> USE DEF RefsInv
<1>1. /\ pc = "idle" /\ o \in active /\ active' = active \ {o}
      /\ Begin(Engine, -1, o)
      /\ UNCHANGED <<replay, objects, drivers, closure, driver>>
  BY DEF Discard
<1> USE DEF replay, objects, closure, driver
<1>2. o \in Known /\ Engine \in Parties
  BY <1>1, PartiesFinite DEF ObjectsKnown
<1>3. /\ op' \in [Parties -> Op] /\ op[Engine] = NoOp
      /\ op'[Engine].at = "load" /\ op'[Engine].by = -1 /\ op'[Engine].object = o
      /\ \A q \in Parties : q # Engine => op'[q] = op[q]
      /\ raced \subseteq raced' /\ raced' \subseteq raced \cup {o}
      /\ \A y \in Objects : Cardinality(Drops(y)')
            = Cardinality(Drops(y)) + IF y = o /\ -1 = -1 THEN 1 ELSE 0
      /\ CountersAlone'
  BY <1>1, <1>2, BeginStep
<1>4. RefsTyped'
  BY <1>1, <1>3 DEF RefsTyped, Queued
<1>5. ObjectsKnown'
  BY <1>1, <1>2, <1>3 DEF ObjectsKnown, Known
<1>6. ReplayAlone'
  BY <1>1 DEF ReplayAlone
<1>7. CommitInForm'
  BY <1>1 DEF CommitInForm
<1>8. OpsInForm'
  BY <1>1, <1>2, <1>3, KnownObjects DEF OpsInForm
<1>9. ASSUME NEW y \in Objects PROVE References(y)' = References(y)
  <2>1. UNCHANGED <<kept, Replays(y), Queued(y), Applies(y)>>
    BY <1>1 DEF Replays, Queued, Applies
  <2>2. ~ Taken(y) /\ ~ Taken(y)'
    BY <1>1 DEF Taken
  <2>3. Cardinality(Drops(y)') = Cardinality(Drops(y)) + IF y = o THEN 1 ELSE 0
    BY <1>3
  <2>4. y \in active' <=> y \in active /\ y # o
    BY <1>1
  <2> QED BY <1>1, <2>1, <2>2, <2>3, <2>4, Counts DEF References, Number
<1>10. RefsExact'
  BY <1>1, <1>3, <1>9 DEF RefsExact
<1> QED BY <1>3, <1>4, <1>5, <1>6, <1>7, <1>8, <1>10

(* The last step of commitComplete.                                        *)
LEMMA EndCommitStep ==
    ASSUME RefsInv, EndCommit
    PROVE  RefsInv'
<1> USE DEF RefsInv
<1> DEFINE o == committing
<1>1. /\ pc = "increment" /\ pc' = "idle" /\ active' = active \ {o}
      /\ Begin(Engine, -1, o) /\ committing' = NoObject
      /\ UNCHANGED <<replay, objects, drivers, remaining, driver>>
  BY DEF EndCommit
<1> USE DEF replay, objects, closure, driver
<1>2. o \in Known /\ Engine \in Parties /\ o \in active
  BY <1>1, PartiesFinite DEF ObjectsKnown, CommitInForm
<1>3. /\ op' \in [Parties -> Op] /\ op[Engine] = NoOp
      /\ op'[Engine].at = "load" /\ op'[Engine].by = -1 /\ op'[Engine].object = o
      /\ \A q \in Parties : q # Engine => op'[q] = op[q]
      /\ raced \subseteq raced' /\ raced' \subseteq raced \cup {o}
      /\ \A y \in Objects : Cardinality(Drops(y)')
            = Cardinality(Drops(y)) + IF y = o /\ -1 = -1 THEN 1 ELSE 0
      /\ CountersAlone'
  BY <1>1, <1>2, BeginStep
<1>4. RefsTyped'
  BY <1>1, <1>3 DEF RefsTyped, Queued
<1>5. ObjectsKnown'
  BY <1>1, <1>2, <1>3 DEF ObjectsKnown, Known
<1>6. ReplayAlone'
  BY <1>1 DEF ReplayAlone
<1>7. CommitInForm'
  BY <1>1 DEF CommitInForm
<1>8. OpsInForm'
  <2>1. \A q \in Parties : q # Engine => op[q].by # 1
    BY DEF OpsInForm
  <2> QED BY <1>1, <1>2, <1>3, <2>1, KnownObjects DEF OpsInForm
<1>9. ASSUME NEW y \in Objects PROVE References(y)' = References(y)
  <2>1. UNCHANGED <<kept, Replays(y), Queued(y), Applies(y)>>
    BY <1>1 DEF Replays, Queued, Applies
  <2>2. ~ Taken(y) /\ ~ Taken(y)'
    BY <1>1 DEF Taken
  <2>3. Cardinality(Drops(y)') = Cardinality(Drops(y)) + IF y = o THEN 1 ELSE 0
    BY <1>3
  <2>4. y \in active' <=> y \in active /\ y # o
    BY <1>1
  <2> QED BY <1>1, <1>2, <2>1, <2>2, <2>3, <2>4, Counts DEF References, Number
<1>10. RefsExact'
  BY <1>1, <1>3, <1>9 DEF RefsExact
<1> QED BY <1>3, <1>4, <1>5, <1>6, <1>7, <1>8, <1>10

(* A reference for the next driver is about to be counted.                 *)
LEMMA IncrementStep ==
    ASSUME RefsInv, Increment
    PROVE  RefsInv'
<1> USE DEF RefsInv
<1> DEFINE o == committing
<1>1. /\ pc = "increment" /\ pc' = "sequence" /\ remaining # <<>>
      /\ Head(remaining) \in drivers /\ Begin(Engine, 1, o)
      /\ UNCHANGED <<replay, objects, active, drivers, committing, remaining, driver>>
  BY DEF Increment
<1> USE DEF replay, objects, closure, driver
<1>2. o \in Known /\ Engine \in Parties /\ o \in active
  BY <1>1, PartiesFinite DEF ObjectsKnown, CommitInForm
<1>3. /\ op' \in [Parties -> Op] /\ op[Engine] = NoOp
      /\ op'[Engine].at = "load" /\ op'[Engine].by = 1 /\ op'[Engine].object = o
      /\ \A q \in Parties : q # Engine => op'[q] = op[q]
      /\ raced \subseteq raced' /\ raced' \subseteq raced \cup {o}
      /\ \A y \in Objects : Cardinality(Drops(y)')
            = Cardinality(Drops(y)) + IF y = o /\ 1 = -1 THEN 1 ELSE 0
      /\ CountersAlone'
  BY <1>1, <1>2, BeginStep
<1>4. RefsTyped'
  BY <1>1, <1>3 DEF RefsTyped, Queued
<1>5. ObjectsKnown'
  BY <1>1, <1>2, <1>3 DEF ObjectsKnown, Known
<1>6. ReplayAlone'
  BY <1>1 DEF ReplayAlone
<1>7. CommitInForm'
  BY <1>1, <1>3 DEF CommitInForm, RefsTyped
<1>8. OpsInForm'
  <2>1. \A q \in Parties : q # Engine => op[q].by # 1
    BY DEF OpsInForm
  <2> QED BY <1>1, <1>2, <1>3, <2>1, KnownObjects DEF OpsInForm
<1>9. ASSUME NEW y \in Objects PROVE References(y)' = References(y)
  <2>1. UNCHANGED <<active, kept, Replays(y), Queued(y), Applies(y)>>
    BY <1>1 DEF Replays, Queued, Applies
  <2>2. ~ Taken(y) /\ ~ Taken(y)'
    BY <1>1, <1>3 DEF Taken, Busy
  <2>3. Cardinality(Drops(y)') = Cardinality(Drops(y))
    BY <1>3, Counts
  <2> QED BY <2>1, <2>2, <2>3 DEF References, Number
<1>10. RefsExact'
  BY <1>1, <1>3, <1>9 DEF RefsExact
<1> QED BY <1>3, <1>4, <1>5, <1>6, <1>7, <1>8, <1>10

(* A driver has applied a transaction.                                     *)
LEMMA AppliedStep ==
    ASSUME RefsInv, NEW d \in Drivers, Applied(d)
    PROVE  RefsInv'
<1> USE DEF RefsInv
<1> DEFINE o == applying[d]
<1>1. /\ o # NoObject /\ Begin(d, -1, o)
      /\ applying' = [applying EXCEPT ![d] = NoObject]
      /\ UNCHANGED <<replay, objects, active, drivers, closure, queue>>
  BY DEF Applied
<1> USE DEF replay, objects, closure
<1>2. o \in Known /\ o \in Objects /\ d \in Parties /\ d # Engine /\ Engine \in Parties
  BY <1>1, PartiesFinite, KnownObjects DEF ObjectsKnown
<1>3. /\ op' \in [Parties -> Op] /\ op[d] = NoOp
      /\ op'[d].at = "load" /\ op'[d].by = -1 /\ op'[d].object = o
      /\ \A q \in Parties : q # d => op'[q] = op[q]
      /\ raced \subseteq raced' /\ raced' \subseteq raced \cup {o}
      /\ \A y \in Objects : Cardinality(Drops(y)')
            = Cardinality(Drops(y)) + IF y = o /\ -1 = -1 THEN 1 ELSE 0
      /\ CountersAlone'
  BY <1>1, <1>2, BeginStep
<1>4. /\ applying' \in [Drivers -> Objects \cup {NoObject}]
      /\ applying'[d] = NoObject /\ \A e \in Drivers : e # d => applying'[e] = applying[e]
  BY <1>1 DEF RefsTyped
<1>5. RefsTyped'
  BY <1>1, <1>3, <1>4 DEF RefsTyped, Queued
<1>6. ObjectsKnown'
  BY <1>1, <1>2, <1>3, <1>4 DEF ObjectsKnown, Known
<1>7. ReplayAlone'
  <2>1. pc # "replay"
    BY <1>1 DEF ReplayAlone
  <2> QED BY <1>1, <2>1 DEF ReplayAlone
<1>8. CommitInForm'
  BY <1>1, <1>2, <1>3 DEF CommitInForm, Busy
<1>9. OpsInForm'
  BY <1>1, <1>2, <1>3 DEF OpsInForm
<1>10. ASSUME NEW y \in Objects PROVE References(y)' = References(y)
  <2>1. UNCHANGED <<active, kept, Replays(y), Queued(y)>>
    BY <1>1 DEF Replays, Queued
  <2>2. Taken(y)' <=> Taken(y)
    BY <1>1, <1>2, <1>3 DEF Taken, Busy
  <2>3. Cardinality(Drops(y)') = Cardinality(Drops(y)) + IF y = o THEN 1 ELSE 0
    BY <1>3
  <2>4. Cardinality(Applies(y)') = Cardinality(Applies(y))
            - (IF o = y THEN 1 ELSE 0) + (IF NoObject = y THEN 1 ELSE 0)
    <3>1. /\ applying'[d] = NoObject /\ applying[d] = o
          /\ \A e \in Drivers : e # d => applying'[e] = applying[e]
      BY <1>4
    <3>2. Cardinality(Applies(y)') = Cardinality(Applies(y))
            - (IF applying[d] = y THEN 1 ELSE 0) + (IF applying'[d] = y THEN 1 ELSE 0)
      BY <3>1, AppliesChange
    <3> HIDE DEF o, RefsInv
    <3> QED BY <3>1, <3>2
  <2> HIDE DEF o
  <2> QED BY <2>1, <2>2, <2>3, <2>4, Counts, PartiesFinite DEF References, Number
<1>11. RefsExact'
  BY <1>1, <1>3, <1>10 DEF RefsExact
<1> QED BY <1>3, <1>5, <1>6, <1>7, <1>8, <1>9, <1>11

(* A queue gets one object more.                                           *)
LEMMA HandOver ==
    ASSUME RefsTyped, NEW d \in Drivers, NEW o \in Objects,
           HasAppended(queue, queue', d, o)
    PROVE  /\ queue' \in [Drivers -> Seq(Objects)]
           /\ \A e \in Drivers : \A n \in DOMAIN queue'[e] :
                queue'[e][n] = o \/ (n \in DOMAIN queue[e] /\ queue'[e][n] = queue[e][n])
           /\ \A y \in Objects : IsFiniteSet(Queued(y)')
           /\ Cardinality(Queued(o)') = Cardinality(Queued(o)) + 1
           /\ \A y : y # o => Queued(y)' = Queued(y)
<1> DEFINE at == <<d, Len(queue[d]) + 1>>
<1>1. /\ queue' \in [Drivers -> Seq(Objects)]
      /\ at \notin At(queue, o)
      /\ At(queue', o) = At(queue, o) \cup {at}
      /\ \A y : y # o => At(queue', y) = At(queue, y)
      /\ \A e \in Drivers : \A n \in DOMAIN queue'[e] :
            queue'[e][n] = o \/ (n \in DOMAIN queue[e] /\ queue'[e][n] = queue[e][n])
  <2>1. queue \in [Drivers -> Seq(Objects)]
    BY DEF RefsTyped
  <2> QED BY <2>1, QueueAppend
<1> HIDE DEF at
<1>2. \A y : Queued(y) = At(queue, y) /\ Queued(y)' = At(queue', y)
  BY DEF Queued, At
<1>3. IsFiniteSet(Queued(o)') /\ Cardinality(Queued(o)') = Cardinality(Queued(o)) + 1
  <2>1. IsFiniteSet(At(queue, o))
    BY <1>2, Counts
  <2>2. IsFiniteSet(At(queue', o)) /\ Cardinality(At(queue', o)) = Cardinality(At(queue, o)) + 1
    BY <1>1, <2>1, FS_AddElement
  <2> QED BY <1>2, <2>2
<1>4. \A y : y # o => Queued(y)' = Queued(y)
  BY <1>1, <1>2
<1>5. \A y \in Objects : IsFiniteSet(Queued(y)')
  BY <1>3, <1>4, Counts
<1> QED BY <1>1, <1>3, <1>4, <1>5

(* A driver is handed the transaction: the reference is that of its queue. *)
LEMMA SequenceStep ==
    ASSUME RefsInv, Sequence
    PROVE  RefsInv'
<1> USE DEF RefsInv
<1> DEFINE d == Head(remaining)
<1>1. /\ pc = "sequence" /\ ~ Busy(Engine) /\ pc' = "increment"
      /\ queue' = [queue EXCEPT ![d] = Append(@, committing)]
      /\ UNCHANGED <<replay, objects, active, drivers, committing, applying, counting>>
  BY DEF Sequence
<1> USE DEF replay, objects, counting
<1>2. PICK o \in Objects : o = committing /\ o \in Known /\ d \in Drivers /\ o \in active
  BY <1>1, KnownObjects DEF ObjectsKnown, CommitInForm
<1> HIDE DEF d
<1>3. /\ queue' \in [Drivers -> Seq(Objects)]
      /\ \A e \in Drivers : \A n \in DOMAIN queue'[e] :
            queue'[e][n] = o \/ (n \in DOMAIN queue[e] /\ queue'[e][n] = queue[e][n])
      /\ \A y \in Objects : IsFiniteSet(Queued(y)')
      /\ Cardinality(Queued(o)') = Cardinality(Queued(o)) + 1
      /\ \A y : y # o => Queued(y)' = Queued(y)
  <2>1. HasAppended(queue, queue', d, o) /\ RefsTyped
    BY <1>1, <1>2 DEF HasAppended
  <2> QED BY <1>2, <2>1, HandOver
<1>4. RefsTyped'
  BY <1>1, <1>3 DEF RefsTyped
<1>5. ObjectsKnown'
  <2>1. \A e \in Drivers : \A n \in DOMAIN queue'[e] : queue'[e][n] \in Known
    BY <1>2, <1>3 DEF ObjectsKnown
  <2> QED BY <1>1, <2>1 DEF ObjectsKnown, Known
<1>6. ReplayAlone'
  BY <1>1 DEF ReplayAlone
<1>7. CommitInForm'
  BY <1>1, <1>2 DEF CommitInForm, Busy
<1>8. OpsInForm'
  <2>1. \A q \in Parties : op[q].by # 1
    BY <1>1 DEF OpsInForm, Busy, NoOp
  <2> QED BY <1>1, <2>1 DEF OpsInForm
<1>9. CountersAlone'
  BY <1>1 DEF CountersAlone
<1>10. ASSUME NEW y \in Objects PROVE References(y)' = References(y)
  <2>1. UNCHANGED <<active, kept, Replays(y), Applies(y), Drops(y)>>
    BY <1>1 DEF Replays, Applies, Drops
  <2>2. (Taken(y) <=> y = o) /\ ~ Taken(y)'
    BY <1>1, <1>2 DEF Taken
  <2>3. CASE y = o
    <3>1. Cardinality(Queued(y)') = Cardinality(Queued(y)) + 1
      BY <1>3, <2>3
    <3> QED BY <2>1, <2>2, <2>3, <3>1, Counts DEF References, Number
  <2>4. CASE y # o
    BY <1>3, <2>1, <2>2, <2>4, Counts DEF References, Number
  <2> QED BY <2>3, <2>4
<1>11. RefsExact'
  BY <1>1, <1>10 DEF RefsExact
<1> QED BY <1>4, <1>5, <1>6, <1>7, <1>8, <1>9, <1>11

(* A driver takes the next transaction from its queue.                     *)
LEMMA TakeStep ==
    ASSUME RefsInv, NEW d \in Drivers, Take(d)
    PROVE  RefsInv'
<1> USE DEF RefsInv
<1> DEFINE o == Head(queue[d])
<1>1. /\ pc # "replay" /\ queue[d] # <<>> /\ applying[d] = NoObject
      /\ applying' = [applying EXCEPT ![d] = o]
      /\ queue' = [queue EXCEPT ![d] = Tail(@)]
      /\ UNCHANGED <<replay, objects, active, drivers, closure, counting>>
  BY DEF Take
<1> USE DEF replay, objects, closure, counting
<1>2. HasTaken(queue, queue', d) /\ queue \in [Drivers -> Seq(Objects)]
  BY <1>1 DEF HasTaken, RefsTyped
<1>3. \A x : Queued(x) = At(queue, x) /\ Queued(x)' = At(queue', x)
  BY DEF Queued, At
<1>4. ASSUME NEW y \in Objects
      PROVE  /\ queue' \in [Drivers -> Seq(Objects)]
             /\ IsFiniteSet(Queued(y)')
             /\ y = o => Cardinality(Queued(y)') = Cardinality(Queued(y)) - 1
             /\ y # o => Cardinality(Queued(y)') = Cardinality(Queued(y))
             /\ \A e \in Drivers : \A n \in DOMAIN queue'[e] :
                    \E m \in DOMAIN queue[e] : queue'[e][n] = queue[e][m]
             /\ 1 \in DOMAIN queue[d] /\ o = queue[d][1] /\ o \in Objects
  <2>1. IsFiniteSet(At(queue, y)) /\ queue[d] # <<>>
    BY <1>1, <1>3, Counts
  <2> QED BY <1>2, <1>3, <2>1, QueueTail
<1>5. /\ queue' \in [Drivers -> Seq(Objects)] /\ o \in Objects
      /\ \A e \in Drivers : \A n \in DOMAIN queue'[e] :
            \E m \in DOMAIN queue[e] : queue'[e][n] = queue[e][m]
      /\ 1 \in DOMAIN queue[d] /\ o = queue[d][1]
  <2>1. queue[d] \in Seq(Objects)
    BY <1>2
  <2>2. o \in Objects
    BY <1>1, <2>1, EmptySeq, HeadTailProperties
  <2> QED BY <1>4, <2>2
<1> HIDE DEF o
<1>6. o \in Known
  BY <1>5 DEF ObjectsKnown
<1>7. /\ applying' \in [Drivers -> Objects \cup {NoObject}]
      /\ applying'[d] = o /\ \A e \in Drivers : e # d => applying'[e] = applying[e]
  BY <1>1, <1>5 DEF RefsTyped
<1>8. RefsTyped'
  BY <1>1, <1>4, <1>5, <1>7 DEF RefsTyped
<1>9. ObjectsKnown'
  <2>1. \A e \in Drivers : \A n \in DOMAIN queue'[e] : queue'[e][n] \in Known
    BY <1>5 DEF ObjectsKnown
  <2>2. \A e \in Drivers : applying'[e] \in Known \cup {NoObject}
    BY <1>6, <1>7 DEF ObjectsKnown
  <2> QED BY <1>1, <2>1, <2>2 DEF ObjectsKnown, Known
<1>10. ReplayAlone'
  BY <1>1 DEF ReplayAlone
<1>11. CommitInForm'
  BY <1>1 DEF CommitInForm, Busy
<1>12. OpsInForm'
  BY <1>1 DEF OpsInForm
<1>13. CountersAlone'
  BY <1>1 DEF CountersAlone
<1>14. ASSUME NEW y \in Objects PROVE References(y)' = References(y)
  <2>1. UNCHANGED <<active, kept, Replays(y), Drops(y)>>
    BY <1>1 DEF Replays, Drops
  <2>2. Taken(y)' <=> Taken(y)
    BY <1>1 DEF Taken, Busy
  <2>3. Cardinality(Applies(y)') = Cardinality(Applies(y))
            - (IF applying[d] = y THEN 1 ELSE 0) + (IF o = y THEN 1 ELSE 0)
    <3> HIDE DEF RefsInv
    <3>1. Cardinality(Applies(y)') = Cardinality(Applies(y))
            - (IF applying[d] = y THEN 1 ELSE 0) + (IF applying'[d] = y THEN 1 ELSE 0)
      BY <1>7, AppliesChange
    <3> QED BY <1>7, <3>1
  <2>4. applying[d] # y
    BY <1>1, PartiesFinite
  <2>5. CASE y = o
    BY <1>4, <2>1, <2>2, <2>3, <2>4, <2>5, Counts DEF References, Number
  <2>6. CASE y # o
    BY <1>4, <2>1, <2>2, <2>3, <2>4, <2>6, Counts DEF References, Number
  <2> QED BY <2>5, <2>6
<1>15. RefsExact'
  BY <1>1, <1>14 DEF RefsExact
<1> QED BY <1>8, <1>9, <1>10, <1>11, <1>12, <1>13, <1>15
-------------------------------------------------------------------------------
(* Steps that make an object, and the replay *)

(* Nobody has a reference to an object that is not allocated yet.          *)
LEMMA Fresh ==
    ASSUME RefsInv, allocated < MaxObjects
    PROVE  /\ NextObject \in Objects /\ NextObject \notin Known
           /\ NextObject \notin active \cup kept \cup raced \cup deleted
           /\ \A pair \in replayed : pair[2] # NextObject
           /\ Replays(NextObject) = {} /\ Queued(NextObject) = {}
           /\ Applies(NextObject) = {} /\ Drops(NextObject) = {}
<1> USE DEF RefsInv
<1> DEFINE n == NextObject
<1>1. n \in Objects /\ n \notin Known /\ n # NoObject
  BY ObjectsAssumption DEF RefsTyped, NextObject, Objects, Known, NoObject
<1> HIDE DEF n
<1>2. n \notin active \cup kept \cup raced \cup deleted
  BY <1>1 DEF ObjectsKnown
<1>3. \A pair \in replayed : pair[2] # n
  BY <1>1 DEF ObjectsKnown
<1>4. Replays(n) = {}
  BY <1>3 DEF Replays
<1>5. Queued(n) = {}
  <2>1. \A d \in Drivers : \A m \in DOMAIN queue[d] : queue[d][m] # n
    BY <1>1 DEF ObjectsKnown
  <2>2. \A at : at \notin At(queue, n)
    BY <2>1, AtMember
  <2> QED BY <2>2 DEF Queued, At
<1>6. Applies(n) = {}
  BY <1>1 DEF ObjectsKnown, Applies
<1>7. Drops(n) = {}
  BY <1>1 DEF ObjectsKnown, Drops
<1> QED BY <1>1, <1>2, <1>3, <1>4, <1>5, <1>6, <1>7 DEF n

(* What was allocated before is still known, and the new object is.        *)
LEMMA NextKnown ==
    ASSUME RefsTyped, allocated < MaxObjects, allocated' = NextObject
    PROVE  /\ Known' = Known \cup {NextObject} /\ allocated' \in 0..MaxObjects
           /\ \A y \in Objects : y <= allocated' <=> y <= allocated \/ y = NextObject
BY ObjectsAssumption DEF RefsTyped, NextObject, Objects, Known

(* transaction() makes one with the reference of p_activeTransactions.     *)
LEMMA AllocateStep ==
    ASSUME RefsInv, Allocate
    PROVE  RefsInv'
<1> USE DEF RefsInv
<1>1. /\ pc = "idle" /\ allocated < MaxObjects /\ allocated' = NextObject
      /\ refCount' = [refCount EXCEPT ![NextObject] = 1]
      /\ active' = active \cup {NextObject}
      /\ UNCHANGED <<replay, deleted, drivers, closure, driver, counting>>
  BY DEF Allocate
<1> USE DEF replay, closure, driver, counting
<1>2. PICK n \in Objects : n = NextObject
  BY <1>1, Fresh
<1>3. /\ n \notin Known
      /\ n \notin active \cup kept \cup raced \cup deleted
      /\ \A pair \in replayed : pair[2] # n
      /\ Replays(n) = {} /\ Queued(n) = {} /\ Applies(n) = {} /\ Drops(n) = {}
  BY <1>1, <1>2, Fresh
<1>4. /\ Known' = Known \cup {n} /\ allocated' \in 0..MaxObjects
      /\ \A y \in Objects : y <= allocated' <=> y <= allocated \/ y = n
  BY <1>1, <1>2, NextKnown
<1>5. /\ refCount' \in [Objects -> Int] /\ refCount'[n] = 1
      /\ \A y \in Objects : y # n => refCount'[y] = refCount[y]
  BY <1>1, <1>2 DEF RefsTyped
<1>6. RefsTyped'
  BY <1>1, <1>4, <1>5 DEF RefsTyped, Queued
<1>7. ObjectsKnown'
  BY <1>1, <1>2, <1>4 DEF ObjectsKnown
<1>8. ReplayAlone'
  BY <1>1 DEF ReplayAlone
<1>9. CommitInForm'
  BY <1>1 DEF CommitInForm
<1>10. OpsInForm'
  BY <1>1 DEF OpsInForm
<1>11. CountersAlone'
  <2>1. \A q \in Parties : op[q].object # n /\ op[q].object \in Objects \cup {NoObject}
    BY <1>3, PartiesFinite DEF ObjectsKnown, RefsTyped, Op
  <2> QED BY <1>1, <1>5, <2>1 DEF CountersAlone
<1>12. ASSUME NEW y \in Objects
       PROVE  References(y)' = References(y) + IF y = n THEN 1 ELSE 0
  <2>1. UNCHANGED <<kept, Replays(y), Queued(y), Applies(y), Drops(y)>>
    BY <1>1 DEF Replays, Queued, Applies, Drops
  <2>2. ~ Taken(y) /\ ~ Taken(y)'
    BY <1>1 DEF Taken
  <2>3. /\ y \in active' <=> y \in active \/ y = n
        /\ n \notin active
    BY <1>1, <1>2, <1>3
  <2> QED BY <2>1, <2>2, <2>3, Counts DEF References, Number
<1>13. References(n) = 0
  BY <1>1, <1>3, FS_EmptySet DEF References, Number, Taken
<1>14. RefsExact'
  BY <1>1, <1>3, <1>4, <1>5, <1>12, <1>13 DEF RefsExact, RefsTyped
<1> QED BY <1>6, <1>7, <1>8, <1>9, <1>10, <1>11, <1>14

(* During a replay the references are the maps' and the queues'.           *)
LEMMA ReplayReferences ==
    ASSUME RefsInv, pc = "replay", NEW y \in Objects
    PROVE  /\ References(y) = Number(y \in active) + Number(y \in kept)
                    + Cardinality(Replays(y)) + Cardinality(Queued(y))
           /\ Applies(y) = {} /\ Drops(y) = {} /\ ~ Taken(y)
<1> USE DEF RefsInv
<1>1. Applies(y) = {} /\ Drops(y) = {} /\ ~ Taken(y)
  BY PartiesFinite DEF ReplayAlone, Applies, Drops, NoOp, Taken
<1>2. Cardinality(Applies(y)) = 0 /\ Cardinality(Drops(y)) = 0
  BY <1>1, FS_EmptySet
<1> QED BY <1>1, <1>2, Counts DEF References, Number

(* The commit of o is replayed, which nobody but the closure has: a driver *)
(* gets the closure's reference, or o is deleted.                          *)
LEMMA ReplayCommitStep ==
    ASSUME RefsInv, pc = "replay", NEW o \in Objects, ReplayCommit(o),
           o \notin active \cup kept \cup deleted, Queued(o) = {},
           \A pair \in replayed' : pair \in replayed /\ pair[2] # o,
           \A pair \in replayed : pair[2] # o => pair \in replayed',
           allocated' \in 0..MaxObjects, Known' = Known \cup {o},
           \A y \in Objects : y <= allocated' <=> y <= allocated \/ y = o,
           UNCHANGED <<log, pass, kept, active, drivers, closure, applying, counting>>
    PROVE  RefsInv'
<1> USE DEF RefsInv, closure, counting
<1>1. /\ refCount' = [refCount EXCEPT ![o] = IF pass = Meta THEN 0 ELSE 1]
      /\ deleted' = IF pass = Meta THEN deleted \cup {o} ELSE deleted
      /\ pass = Meta => queue' = queue
      /\ pass # Meta => HasAppended(queue, queue', pass, o) /\ pass \in Drivers
  BY DEF ReplayCommit, HasAppended, ReplayAlone
<1>2. /\ refCount' \in [Objects -> Int] /\ refCount'[o] = IF pass = Meta THEN 0 ELSE 1
      /\ \A y \in Objects : y # o => refCount'[y] = refCount[y]
  BY <1>1 DEF RefsTyped
<1>3. /\ queue' \in [Drivers -> Seq(Objects)]
      /\ \A d \in Drivers : \A n \in DOMAIN queue'[d] :
            queue'[d][n] = o \/ (n \in DOMAIN queue[d] /\ queue'[d][n] = queue[d][n])
      /\ \A y \in Objects : IsFiniteSet(Queued(y)')
      /\ Cardinality(Queued(o)') = IF pass = Meta THEN 0 ELSE 1
      /\ \A y : y # o => Queued(y)' = Queued(y)
  <2>1. Cardinality(Queued(o)) = 0
    BY FS_EmptySet
  <2>2. CASE pass = Meta
    <3>1. \A y : Queued(y)' = Queued(y)
      BY <1>1, <2>2 DEF Queued
    <3> QED BY <1>1, <2>1, <2>2, <3>1, Counts DEF RefsTyped
  <2>3. CASE pass # Meta
    <3>1. HasAppended(queue, queue', pass, o) /\ pass \in Drivers /\ RefsTyped
      BY <1>1, <2>3
    <3>2. /\ queue' \in [Drivers -> Seq(Objects)]
          /\ \A d \in Drivers : \A n \in DOMAIN queue'[d] :
                queue'[d][n] = o \/ (n \in DOMAIN queue[d] /\ queue'[d][n] = queue[d][n])
          /\ \A y \in Objects : IsFiniteSet(Queued(y)')
          /\ Cardinality(Queued(o)') = Cardinality(Queued(o)) + 1
          /\ \A y : y # o => Queued(y)' = Queued(y)
      BY <3>1, HandOver
    <3> QED BY <2>1, <2>3, <3>2
  <2> QED BY <2>2, <2>3
<1>4. replayed' \subseteq replayed
  OBVIOUS
<1>5. RefsTyped'
  <2>1. IsFiniteSet(replayed') /\ replayed' \subseteq Nat \X Objects
    BY <1>4, FS_Subset DEF RefsTyped
  <2> QED BY <1>2, <1>3, <2>1 DEF RefsTyped
<1>6. ObjectsKnown'
  <2>1. \A d \in Drivers : \A n \in DOMAIN queue'[d] : queue'[d][n] \in Known'
    BY <1>3 DEF ObjectsKnown
  <2>2. deleted' \subseteq Known'
    BY <1>1 DEF ObjectsKnown
  <2> QED BY <1>4, <2>1, <2>2 DEF ObjectsKnown
<1>7. ReplayAlone'
  BY <1>3, <1>4 DEF ReplayAlone
<1>8. CommitInForm'
  BY DEF CommitInForm
<1>9. OpsInForm'
  BY DEF OpsInForm
<1>10. CountersAlone'
  BY DEF CountersAlone, ReplayAlone, NoOp
<1>11. ASSUME NEW y \in Objects
       PROVE  /\ y # o => References(y)' = References(y)
              /\ y = o => References(y)' = IF pass = Meta THEN 0 ELSE 1
  <2>1. ~ Taken(y)' /\ UNCHANGED <<active, kept, Applies(y), Drops(y)>>
    BY ReplayReferences DEF Taken, Applies, Drops
  <2>2. Cardinality(Applies(y)') = 0 /\ Cardinality(Drops(y)') = 0
    BY <2>1, ReplayReferences, FS_EmptySet
  <2>3. CASE y # o
    <3>1. Replays(y)' = Replays(y)
      BY <2>3 DEF Replays
    <3>2. Queued(y)' = Queued(y)
      BY <1>3, <2>3
    <3> QED BY <2>1, <2>2, <2>3, <3>1, <3>2, ReplayReferences, Counts
            DEF References, Number
  <2>4. CASE y = o
    <3>1. Replays(y)' = {}
      BY <2>4 DEF Replays
    <3>2. Cardinality(Replays(y)') = 0
      BY <3>1, FS_EmptySet
    <3>3. Cardinality(Queued(y)') = IF pass = Meta THEN 0 ELSE 1
      BY <1>3, <2>4
    <3> QED BY <2>1, <2>2, <2>4, <3>2, <3>3 DEF References, Number
  <2> QED BY <2>3, <2>4
<1>12. RefsExact'
  <2> SUFFICES ASSUME NEW y \in Objects \ raced
               PROVE  /\ refCount'[y] = References(y)'
                      /\ y \in deleted' <=> y <= allocated' /\ References(y)' = 0
    BY DEF RefsExact
  <2>1. CASE y # o
    BY <1>1, <1>2, <1>11, <2>1 DEF RefsExact
  <2>2. CASE y = o
    BY <1>1, <1>2, <1>11, <2>2
  <2> QED BY <2>1, <2>2
<1> QED BY <1>5, <1>6, <1>7, <1>8, <1>9, <1>10, <1>12

(* A Submit entry makes an object that the closure keeps.                  *)
LEMMA ReplaySubmitStep ==
    ASSUME RefsInv, pc = "replay", allocated < MaxObjects, allocated' = NextObject,
           refCount' = [refCount EXCEPT ![NextObject] = 1],
           NEW trid \in Nat, replayed' = replayed \cup {<<trid, NextObject>>},
           UNCHANGED <<log, pass, kept, deleted, queue, active, drivers, closure,
                       applying, counting>>
    PROVE  RefsInv'
<1> USE DEF RefsInv, closure, counting
<1>1. PICK n \in Objects : n = NextObject
  BY Fresh
<1>2. /\ n \notin Known
      /\ n \notin active \cup kept \cup raced \cup deleted
      /\ \A pair \in replayed : pair[2] # n
      /\ Replays(n) = {} /\ Queued(n) = {} /\ Applies(n) = {} /\ Drops(n) = {}
  BY <1>1, Fresh
<1>3. /\ Known' = Known \cup {n} /\ allocated' \in 0..MaxObjects
      /\ \A y \in Objects : y <= allocated' <=> y <= allocated \/ y = n
  BY <1>1, NextKnown
<1>4. /\ refCount' \in [Objects -> Int] /\ refCount'[n] = 1
      /\ \A y \in Objects : y # n => refCount'[y] = refCount[y]
  BY <1>1 DEF RefsTyped
<1> DEFINE new == <<trid, n>>
<1>5. replayed' = replayed \cup {new} /\ new[2] = n /\ new \in Nat \X Objects
  BY <1>1
<1> HIDE DEF new
<1>6. RefsTyped'
  <2>1. IsFiniteSet(replayed) /\ replayed \subseteq Nat \X Objects
    BY DEF RefsTyped
  <2>2. IsFiniteSet(replayed \cup {new})
    BY <2>1, FS_AddElement
  <2>3. IsFiniteSet(replayed') /\ replayed' \subseteq Nat \X Objects
    BY <1>5, <2>1, <2>2
  <2> QED BY <1>3, <1>4, <2>3 DEF RefsTyped, Queued
<1>7. ObjectsKnown'
  BY <1>3, <1>5 DEF ObjectsKnown
<1>8. \A y : Queued(y)' = Queued(y)
  BY DEF Queued
<1>9. ReplayAlone'
  <2>1. ASSUME NEW pair \in replayed'
        PROVE  /\ pair[2] \notin active \cup kept /\ Queued(pair[2]) = {}
               /\ \A other \in replayed' : other[2] = pair[2] => other = pair
    BY <1>2, <1>5 DEF ReplayAlone
  <2> QED BY <1>8, <2>1 DEF ReplayAlone
<1>10. CommitInForm'
  BY DEF CommitInForm
<1>11. OpsInForm'
  BY DEF OpsInForm
<1>12. CountersAlone'
  BY DEF CountersAlone, ReplayAlone, NoOp
<1>13. ASSUME NEW y \in Objects
       PROVE  References(y)' = References(y) + IF y = n THEN 1 ELSE 0
  <2>1. /\ ~ Taken(y) /\ ~ Taken(y)'
        /\ UNCHANGED <<active, kept, Queued(y), Applies(y), Drops(y)>>
    BY <1>8, ReplayReferences DEF Taken, Applies, Drops
  <2>2. Cardinality(Replays(y)') = Cardinality(Replays(y)) + IF y = n THEN 1 ELSE 0
    <3>1. CASE y = n
      <4>1. Replays(y)' = Replays(y) \cup {new} /\ new \notin Replays(y)
        BY <1>2, <1>5, <3>1 DEF Replays
      <4> QED BY <3>1, <4>1, Counts, FS_AddElement
    <3>2. CASE y # n
      <4>1. Replays(y)' = Replays(y)
        BY <1>5, <3>2 DEF Replays
      <4> QED BY <3>2, <4>1, Counts
    <3> QED BY <3>1, <3>2
  <2> QED BY <2>1, <2>2, Counts DEF References, Number
<1>14. References(n) = 0
  <2>1. n \notin active /\ n \notin kept /\ Replays(n) = {} /\ Queued(n) = {}
    BY <1>2
  <2>2. Cardinality(Replays(n)) = 0 /\ Cardinality(Queued(n)) = 0
    BY <2>1, FS_EmptySet
  <2>3. References(n) = Number(n \in active) + Number(n \in kept)
                    + Cardinality(Replays(n)) + Cardinality(Queued(n))
    BY ReplayReferences
  <2> QED BY <2>1, <2>2, <2>3 DEF Number
<1>15. RefsExact'
  BY <1>2, <1>3, <1>4, <1>13, <1>14 DEF RefsExact, RefsTyped
<1> QED BY <1>6, <1>7, <1>9, <1>10, <1>11, <1>12, <1>15

(* What the closure keeps is referenced.                                   *)
LEMMA Referenced ==
    ASSUME RefsTyped, NEW o \in Objects, Replays(o) # {}
    PROVE  References(o) > 0
<1>1. Cardinality(Replays(o)) # 0 /\ Cardinality(Replays(o)) \in Nat
  BY Counts, FS_EmptySet
<1>2. /\ Cardinality(Queued(o)) \in Nat /\ Cardinality(Applies(o)) \in Nat
      /\ Cardinality(Drops(o)) \in Nat
  BY Counts
<1> QED BY <1>1, <1>2 DEF References, Number

(* An entry of the log is replayed.                                        *)
LEMMA OnEntryStep ==
    ASSUME RefsInv, OnEntry
    PROVE  RefsInv'
<1> USE DEF RefsInv
<1>1. /\ pc = "replay" /\ entry \in DOMAIN log
      /\ UNCHANGED <<log, pass, kept, active, drivers, closure, applying, counting>>
  BY DEF OnEntry
<1>2. log[entry] \in Entry
  <2>1. log \in Seq(Entry)
    BY LogsAssumption DEF RefsTyped
  <2> QED BY <1>1, <2>1, ElementOfSeq
<1>3. PICK trid \in Nat : trid = log[entry].trid
  BY <1>2 DEF Entry
<1>4. CASE /\ allocated < MaxObjects /\ allocated' = NextObject
           /\ refCount' = [refCount EXCEPT ![NextObject] = 1]
           /\ replayed' = replayed \cup {<<trid, NextObject>>}
           /\ UNCHANGED <<deleted, queue>>
  BY <1>1, <1>4, ReplaySubmitStep
<1>5. CASE /\ allocated < MaxObjects /\ allocated' = NextObject
           /\ ReplayCommit(NextObject) /\ UNCHANGED replayed
  <2>1. PICK o \in Objects : o = NextObject
    BY <1>5, Fresh
  <2>2. /\ o \notin active \cup kept \cup deleted /\ Queued(o) = {}
        /\ \A pair \in replayed : pair[2] # o
    BY <1>5, <2>1, Fresh
  <2>3. /\ allocated' \in 0..MaxObjects /\ Known' = Known \cup {o}
        /\ \A y \in Objects : y <= allocated' <=> y <= allocated \/ y = o
    BY <1>5, <2>1, NextKnown
  <2> QED BY <1>1, <1>5, <2>1, <2>2, <2>3, ReplayCommitStep
<1>6. CASE /\ \E pair \in replayed : /\ ReplayCommit(pair[2])
                                     /\ replayed' = replayed \ {pair}
           /\ UNCHANGED allocated
  <2>1. PICK pair \in replayed : ReplayCommit(pair[2]) /\ replayed' = replayed \ {pair}
    BY <1>6
  <2>2. PICK o \in Objects : o = pair[2]
    BY DEF RefsTyped
  <2>3. /\ o \notin active \cup kept /\ Queued(o) = {} /\ o \in Known /\ o \notin raced
        /\ \A other \in replayed : other[2] = o => other = pair
    BY <1>1, <2>2 DEF ReplayAlone, ObjectsKnown
  <2>4. References(o) > 0
    <3>1. Replays(o) # {}
      BY <2>2 DEF Replays
    <3> QED BY <3>1, Referenced
  <2>5. o \notin deleted
    BY <2>3, <2>4 DEF RefsExact
  <2>6. /\ \A other \in replayed' : other \in replayed /\ other[2] # o
        /\ \A other \in replayed : other[2] # o => other \in replayed'
    BY <2>1, <2>2, <2>3
  <2>7. /\ allocated' \in 0..MaxObjects /\ Known' = Known \cup {o}
        /\ \A y \in Objects : y <= allocated' <=> y <= allocated \/ y = o
    BY <1>6, <2>3 DEF RefsTyped, Known
  <2> QED BY <1>1, <2>1, <2>2, <2>3, <2>5, <2>6, <2>7, ReplayCommitStep
<1> QED BY <1>3, <1>4, <1>5, <1>6 DEF OnEntry

(* The end of a pass: what it leaves keeps the closure's reference, and    *)
(* gets that of p_activeTransactions in the pass for the engine.           *)
LEMMA EndPassStep ==
    ASSUME RefsInv, EndPass
    PROVE  RefsInv'
<1> USE DEF RefsInv
<1>1. /\ pc = "replay" /\ pc' \in {"idle", "replay"}
      /\ kept' = kept \cup Left /\ replayed' = {} /\ pass' = pass + 1
      /\ pc' = "replay" => pass # NumDrivers
      /\ UNCHANGED <<log, allocated, deleted, drivers, committing, remaining, driver,
                     counting>>
  BY DEF EndPass
<1>2. \/ /\ pass = Meta
         /\ refCount' = [o \in Objects |-> refCount[o] + IF o \in Left THEN 1 ELSE 0]
         /\ active' = active \cup Left
      \/ pass # Meta /\ UNCHANGED <<refCount, active>>
  BY DEF EndPass
<1> USE DEF driver, counting
<1>3. Left \subseteq Known /\ \A o \in Left : o \notin active \cup kept
  BY <1>1 DEF Left, ObjectsKnown, ReplayAlone
<1>4. RefsTyped'
  <2>1. refCount' \in [Objects -> Int]
    BY <1>2 DEF RefsTyped
  <2>2. IsFiniteSet({})
    BY FS_EmptySet
  <2> QED BY <1>1, <2>1, <2>2 DEF RefsTyped, Queued
<1>5. ObjectsKnown'
  <2>1. active' \subseteq Known /\ kept' \subseteq Known
    BY <1>1, <1>2, <1>3 DEF ObjectsKnown
  <2> QED BY <1>1, <2>1 DEF ObjectsKnown, Known
<1>6. ReplayAlone'
  <2>1. pc' = "replay" => pass' \in Drivers \cup {Meta}
    BY <1>1, DriversAssumption DEF ReplayAlone, Drivers, Meta
  <2> QED BY <1>1, <2>1 DEF ReplayAlone
<1>7. CommitInForm'
  BY <1>1 DEF CommitInForm
<1>8. OpsInForm'
  BY <1>1 DEF OpsInForm, ReplayAlone, NoOp
<1>9. CountersAlone'
  BY <1>1 DEF CountersAlone, ReplayAlone, NoOp
<1>10. ASSUME NEW y \in Objects
       PROVE  References(y)' = References(y)
                    + IF y \in Left /\ pass = Meta THEN 1 ELSE 0
  <2>1. /\ ~ Taken(y)' /\ ~ Taken(y)
        /\ UNCHANGED <<Queued(y), Applies(y), Drops(y)>>
    BY <1>1 DEF Taken, Queued, Applies, Drops
  <2>2. Replays(y)' = {} /\ Cardinality(Replays(y)') = 0
    BY <1>1, FS_EmptySet DEF Replays
  <2>3. Cardinality(Replays(y)) = IF y \in Left THEN 1 ELSE 0
    <3>1. CASE y \in Left
      <4>1. PICK pair \in replayed : pair[2] = y
        BY <3>1 DEF Left
      <4>2. Replays(y) = {pair}
        BY <1>1, <4>1 DEF Replays, ReplayAlone
      <4> QED BY <3>1, <4>2, FS_Singleton
    <3>2. CASE y \notin Left
      <4>1. Replays(y) = {}
        BY <3>2 DEF Left, Replays
      <4> QED BY <3>2, <4>1, FS_EmptySet
    <3> QED BY <3>1, <3>2
  <2>4. /\ y \in kept' <=> y \in kept \/ y \in Left
        /\ y \in active' <=> y \in active \/ (y \in Left /\ pass = Meta)
        /\ y \in Left => y \notin active /\ y \notin kept
    BY <1>1, <1>2, <1>3
  <2> QED BY <2>1, <2>2, <2>3, <2>4, Counts DEF References, Number
<1>11. RefsExact'
  <2> SUFFICES ASSUME NEW y \in Objects \ raced
               PROVE  /\ refCount'[y] = References(y)'
                      /\ y \in deleted <=> y <= allocated /\ References(y)' = 0
    BY <1>1 DEF RefsExact
  <2>1. refCount'[y] = refCount[y] + IF y \in Left /\ pass = Meta THEN 1 ELSE 0
    BY <1>2 DEF RefsTyped
  <2>2. refCount[y] = References(y)
    BY DEF RefsExact
  <2>3. y \in Left => References(y) > 0
    <3>1. ASSUME y \in Left PROVE Replays(y) # {}
      BY <3>1 DEF Left, Replays
    <3> QED BY <3>1, Referenced
  <2>4. References(y) \in Nat
    BY Counts DEF References, Number
  <2> QED BY <1>10, <2>1, <2>2, <2>3, <2>4 DEF RefsExact
<1> QED BY <1>4, <1>5, <1>6, <1>7, <1>8, <1>9, <1>11
-------------------------------------------------------------------------------
(* The invariant *)

(* Before the replay there is no object.                                   *)
LEMMA InitRefs ==
    ASSUME Init
    PROVE  RefsInv
<1> USE DEF Init
<1>1. \A y : Queued(y) = {}
  <2>1. \A d \in Drivers : DOMAIN queue[d] = {}
    BY EmptySeq
  <2> QED BY <2>1 DEF Queued
<1>2. \A y \in Objects : Replays(y) = {} /\ Applies(y) = {} /\ Drops(y) = {} /\ ~ Taken(y)
  BY PartiesFinite DEF Replays, Applies, Drops, Taken, NoOp
<1>3. NoOp \in Op
  BY DEF NoOp, Op
<1>4. RefsTyped
  <2>1. queue \in [Drivers -> Seq(Objects)]
    BY EmptySeq
  <2>2. allocated \in 0..MaxObjects
    BY ObjectsAssumption
  <2>3. op \in [Parties -> Op] /\ refCount \in [Objects -> Int]
    BY <1>3
  <2>4. IsFiniteSet(replayed) /\ \A o \in Objects : IsFiniteSet(Queued(o))
    BY <1>1, FS_EmptySet
  <2> QED BY <2>1, <2>2, <2>3, <2>4 DEF RefsTyped, Meta
<1>5. ObjectsKnown
  BY <1>1, EmptySeq DEF ObjectsKnown, NoOp
<1>6. ReplayAlone
  BY DEF ReplayAlone
<1>7. CommitInForm /\ OpsInForm /\ CountersAlone
  <2>1. \A p \in Parties : op[p] = NoOp
    OBVIOUS
  <2>2. NoOp.at = "none" /\ NoOp.by = 0 /\ NoOp.object = NoObject
    BY DEF NoOp
  <2> QED BY <2>1, <2>2 DEF CommitInForm, OpsInForm, CountersAlone
<1>8. ASSUME NEW y \in Objects PROVE References(y) = 0
  <2>1. /\ Cardinality(Replays(y)) = 0 /\ Cardinality(Queued(y)) = 0
        /\ Cardinality(Applies(y)) = 0 /\ Cardinality(Drops(y)) = 0 /\ ~ Taken(y)
    BY <1>1, <1>2, FS_EmptySet
  <2> QED BY <2>1 DEF References, Number
<1>9. RefsExact
  BY <1>8 DEF RefsExact, Objects
<1> QED BY <1>4, <1>5, <1>6, <1>7, <1>9 DEF RefsInv

(* Each step keeps the invariant.                                          *)
LEMMA NextRefs ==
    ASSUME RefsInv, [Next]_vars
    PROVE  RefsInv'
<1>1. CASE OnEntry
  BY <1>1, OnEntryStep
<1>2. CASE EndPass
  BY <1>2, EndPassStep
<1>3. CASE Allocate
  BY <1>3, AllocateStep
<1>4. CASE \E o \in Objects : Discard(o) \/ CommitComplete(o)
  BY <1>4, DiscardStep, CommitCompleteStep
<1>5. CASE SkipUnlinked
  BY <1>5, SkipUnlinkedStep
<1>6. CASE Increment
  BY <1>6, IncrementStep
<1>7. CASE Sequence
  BY <1>7, SequenceStep
<1>8. CASE EndCommit
  BY <1>8, EndCommitStep
<1>9. CASE \E d \in Drivers : Unlink(d) \/ Take(d) \/ Applied(d)
  BY <1>9, UnlinkStep, TakeStep, AppliedStep
<1>10. CASE \E p \in Parties : Load(p) \/ Store(p)
  BY <1>10, LoadStep, StoreStep
<1>11. CASE UNCHANGED vars
  <2> USE <1>11 DEF RefsInv, vars, replay, objects, closure, driver, counting
  <2>1. RefsTyped' /\ ObjectsKnown' /\ CommitInForm' /\ OpsInForm' /\ CountersAlone'
    BY DEF RefsTyped, ObjectsKnown, Known, CommitInForm, OpsInForm, CountersAlone,
           Queued, Busy
  <2>2. ReplayAlone'
    BY DEF ReplayAlone, Queued
  <2>3. \A y : References(y)' = References(y)
    BY SameReferences DEF Taken, Busy
  <2>4. RefsExact'
    BY <2>3 DEF RefsExact
  <2> QED BY <2>1, <2>2, <2>4
<1> QED BY <1>1, <1>2, <1>3, <1>4, <1>5, <1>6, <1>7, <1>8, <1>9, <1>10, <1>11 DEF Next

(* All of RefsInv: who is at a counter alone finds there what it has read, *)
(* the replay has its objects for itself, and the counters are exact.      *)
THEOREM RefsSafety == Spec => []RefsInv
<1>1. Init => RefsInv
  BY InitRefs
<1>2. RefsInv /\ [Next]_vars => RefsInv'
  BY NextRefs
<1> QED BY <1>1, <1>2, PTL DEF Spec

(* Without a race refCount is the number of references, and a transaction  *)
(* is deleted with the last of them: refIncrement and refDecrement are     *)
(* balanced in every path of the engine, of the drivers and of a replay.   *)
THEOREM CountersExact == Spec => []RefsExact
<1>1. RefsInv => RefsExact
  BY DEF RefsInv
<1> QED BY <1>1, RefsSafety, PTL
===============================================================================
