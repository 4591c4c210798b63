---------------------------- MODULE PageCacheProofs ----------------------------
(***************************************************************************)
(* The safety of PageCache for every set of pages, clients and every       *)
(* limit: pages are accounted for and no write is lost.  CacheInv is the   *)
(* inductive invariant.                                                    *)
(***************************************************************************)
EXTENDS PageCache, TLAPS, SequenceTheorems, FiniteSetTheorems

------------------------------------------------------------------------------
(* The invariant that makes the safety properties inductive *)

Loaded(p) == "loaded" \in flags[p]
Released(p) == "release" \in flags[p]
Dirty(p) == "dirty" \in flags[p]

(* Nothing is left of a page that is not present.                          *)
Absent(p) ==
    /\ call[p] = "none" /\ io[p] = "none" /\ flags[p] = {}
    /\ useCount[p] = 0 /\ waitQueue[p] = {} /\ buffer[p] = NoBuffer
    /\ p \notin Alive

(* Between finishRelease and acquire a page has no buffer to read or write. *)
BetweenLives(p) ==
    /\ io[p] = "none" /\ flags[p] = {} /\ p \notin Alive
    /\ buffer[p] = NoBuffer

BeingRead(p) ==
    /\ waitQueue[p] # {} /\ flags[p] \subseteq {"release"}
    /\ call[p] \notin {"acquire", "finish"}

BeingWritten(p) ==
    /\ call[p] = "none" /\ flags[p] = {"dirty"} /\ p \notin Alive
    /\ buffer[p] = written[p]

(* Only a page that is to be released makes clients wait.                  *)
Usable(p) ==
    /\ io[p] = "none" /\ call[p] \notin {"acquire", "finish"}
    /\ buffer[p] = written[p]
    /\ waitQueue[p] # {} => Released(p)

(* Whatever a page is up to, somebody is left who takes its next step.     *)
PageInv(p) ==
    /\ p \notin present => Absent(p)
    /\ call[p] \in {"acquire", "finish"} => BetweenLives(p)
    /\ call[p] = "acquire" => waitQueue[p] # {}
    /\ io[p] = "read" => BeingRead(p)
    /\ io[p] = "write" => BeingWritten(p)
    /\ Loaded(p) => Usable(p)
    /\ p \in present =>
        Loaded(p) \/ io[p] # "none" \/ call[p] \in {"acquire", "finish"}
    /\ Released(p) =>
        /\ call[p] = "none" /\ p \notin Alive
        /\ Loaded(p) => useCount[p] > 0
    /\ p \in Alive => call[p] = "none"
    /\ p \in present \ Alive =>
        call[p] # "none" \/ io[p] = "write" \/ Released(p)
    /\ useCount[p] > 0 => Loaded(p)
    /\ Dirty(p) => Loaded(p) \/ io[p] = "write"
    /\ disk[p] # written[p] => Dirty(p)

(* A client that waits is in the one queue it waits for, or is about to be *)
(* called.                                                                 *)
ClientInv(c) ==
    /\ \A p \in Pages : c \in waitQueue[p] => wants[c] = p /\ c \notin completing
    /\ c \in completing => wants[c] # NoPage
    /\ wants[c] # NoPage =>
        /\ wants[c] \notin uses[c]
        /\ c \in completing \/ c \in waitQueue[wants[c]]

CacheInv ==
    /\ TypeOK
    /\ UsesCounted
    /\ \A i, j \in DOMAIN lru : lru[i] = lru[j] => i = j
    /\ \A p \in Pages : PageInv(p)
    /\ \A c \in Clients : ClientInv(c)
------------------------------------------------------------------------------
(* The users of a page can be counted. *)
LEMMA UsersFinite ==
    ASSUME NEW p
    PROVE  /\ IsFiniteSet(Users(p))
           /\ Cardinality(Users(p)) \in 0..Cardinality(Clients)
<1>1. Users(p) \in SUBSET Clients
  BY DEF Users
<1>2. IsFiniteSet(Users(p)) /\ Cardinality(Users(p)) <= Cardinality(Clients)
  BY <1>1, ClientsAssumption, FS_Subset
<1>3. Cardinality(Users(p)) \in Nat /\ Cardinality(Clients) \in Nat
  BY <1>2, ClientsAssumption, FS_CardinalityType
<1> QED BY <1>2, <1>3

(* A page with users has a count above zero, one without has none.         *)
LEMMA CountedUsers ==
    ASSUME UsesCounted, NEW p \in Pages
    PROVE  /\ useCount[p] = 0 <=> Users(p) = {}
           /\ useCount[p] \in Nat
<1>1. useCount[p] = Cardinality(Users(p))
  BY DEF UsesCounted
<1> QED BY <1>1, UsersFinite, FS_EmptySet

(* A step that leaves the counts and the users alone keeps them right.     *)
LEMMA SameUsers ==
    ASSUME UsesCounted, UNCHANGED <<useCount, uses, wants, completing>>
    PROVE  UsesCounted'
BY DEF UsesCounted, Users

(* A step that leaves all of a page alone keeps what is known of it.       *)
LEMMA OtherPage ==
    ASSUME NEW q \in Pages, PageInv(q),
           q \in present' <=> q \in present, q \in Alive' <=> q \in Alive,
           call'[q] = call[q], io'[q] = io[q], flags'[q] = flags[q],
           useCount'[q] = useCount[q], waitQueue'[q] = waitQueue[q],
           buffer'[q] = buffer[q], disk'[q] = disk[q], written'[q] = written[q]
    PROVE  PageInv(q)'
BY DEF PageInv, Absent, BetweenLives, BeingRead, BeingWritten, Usable, Loaded,
       Released, Dirty

(* So does one that leaves all of a client alone.                          *)
LEMMA SameClients ==
    ASSUME \A c \in Clients : ClientInv(c),
           UNCHANGED <<waitQueue, wants, completing, uses>>
    PROVE  \A c \in Clients : ClientInv(c)'
BY DEF ClientInv

(* What a page is when a thread is about to do something to it.            *)
LEMMA CallOf ==
    ASSUME CacheInv, NEW p \in Pages
    PROVE  /\ call[p] # "none" => p \in present /\ p \notin Alive /\ ~ Released(p)
           /\ call[p] \in {"acquire", "finish"} =>
                /\ io[p] = "none" /\ flags[p] = {} /\ useCount[p] = 0
           /\ call[p] \in {"insert", "release"} => io[p] # "write"
           /\ call[p] = "acquire" => waitQueue[p] # {}
           /\ useCount[p] \in Nat
<1>1. PageInv(p) /\ useCount[p] \in Nat
  BY CountedUsers DEF CacheInv
<1> QED BY <1>1 DEF PageInv, Absent, BetweenLives, BeingWritten, Loaded, Released
------------------------------------------------------------------------------
(* Acquiring a page *)

(* A page gets a buffer that is to be filled.                             *)
LEMMA InvAcquire ==
    ASSUME CacheInv, NEW p \in Pages, Acquire(p)
    PROVE  CacheInv'
<1> USE DEF clientVars
<1>1. /\ call[p] = "acquire"
      /\ buffer' = [buffer EXCEPT ![p] = 0]
      /\ io' = [io EXCEPT ![p] = "read"]
      /\ call' = [call EXCEPT ![p] = "insert"]
      /\ UNCHANGED <<present, flags, useCount, waitQueue, disk, lru, clientVars>>
  BY DEF Acquire
<1>2. TypeOK /\ TypeOK'
  BY <1>1, LimitAssumption DEF CacheInv, TypeOK, Call, Content
<1>3. UsesCounted'
  BY <1>1, SameUsers DEF CacheInv
<1>4. ASSUME NEW q \in Pages PROVE PageInv(q)'
  <2>1. PageInv(q) /\ (q \in Alive' <=> q \in Alive)
    BY <1>1 DEF CacheInv, Alive
  <2>2. CASE q # p
    BY <1>1, <1>2, <2>1, <2>2, OtherPage DEF TypeOK
  <2>3. CASE q = p
    BY <1>1, <1>2, <2>1, <2>3, CallOf
       DEF TypeOK, PageInv, Absent, BetweenLives, BeingRead, BeingWritten, Usable,
           Loaded, Released, Dirty
  <2> QED BY <2>2, <2>3
<1>5. \A c \in Clients : ClientInv(c)'
  BY <1>1, SameClients DEF CacheInv
<1> QED BY <1>1, <1>2, <1>3, <1>4, <1>5 DEF CacheInv

(* The list with the page at its end, after the oldest has left it if that *)
(* was needed.                                                             *)
LEMMA InvRequestAcquire ==
    ASSUME CacheInv, NEW p \in Pages, RequestAcquire(p)
    PROVE  CacheInv'
<1> USE DEF clientVars
<1> DEFINE old == Head(lru)
           full == Len(lru) = Limit
           rest == IF full THEN Tail(lru) ELSE lru
<1>1. /\ call[p] = "insert"
      /\ lru' = Append(rest, p)
      /\ call' = IF full THEN [call EXCEPT ![p] = "none", ![old] = "release"]
                         ELSE [call EXCEPT ![p] = "none"]
      /\ UNCHANGED <<present, flags, useCount, waitQueue, buffer, disk, io,
                     clientVars>>
  BY DEF RequestAcquire
<1>2. /\ TypeOK /\ lru \in Seq(Pages) /\ Len(lru) \in Nat /\ Len(lru) <= Limit
      /\ DOMAIN lru = 1..Len(lru)
      /\ \A i \in DOMAIN lru : lru[i] \in Pages
      /\ \A i, j \in DOMAIN lru : lru[i] = lru[j] => i = j
  BY LenProperties, ElementOfSeq DEF CacheInv, TypeOK
<1>3. /\ p \in present /\ p \notin Alive /\ ~ Released(p) /\ io[p] # "write"
  BY <1>1, CallOf
<1>4. full => /\ lru # <<>> /\ old = lru[1] /\ old \in Alive /\ old \in Pages
              /\ old # p /\ 1 \in DOMAIN lru
  BY <1>2, <1>3, LimitAssumption, EmptySeq DEF Alive
<1>5. full => /\ Tail(lru) \in Seq(Pages) /\ Len(Tail(lru)) = Len(lru) - 1
              /\ \A i \in 1..Len(Tail(lru)) : Tail(lru)[i] = lru[i + 1]
  BY <1>2, <1>4, HeadTailProperties
<1>6. /\ rest \in Seq(Pages) /\ Len(rest) \in Nat /\ Len(rest) < Limit
      /\ DOMAIN rest = 1..Len(rest)
      /\ full => \A i \in DOMAIN rest :
                    rest[i] = lru[i + 1] /\ i + 1 \in DOMAIN lru
      /\ ~ full => rest = lru
  <2>1. CASE full
    <3>1. DOMAIN Tail(lru) = 1..(Len(lru) - 1)
      BY <1>5, <2>1, LenProperties
    <3> QED BY <1>2, <1>4, <1>5, <2>1, <3>1, LimitAssumption
  <2>2. CASE ~ full
    <3>1. Len(lru) < Limit
      <4>1. Len(lru) \in Nat /\ Limit \in Nat /\ Len(lru) <= Limit
        BY <1>2, LimitAssumption
      <4>2. Len(lru) # Limit
        BY <2>2
      <4> QED BY <4>1, <4>2
    <3>2. rest = lru
      BY <2>2
    <3> HIDE DEF rest
    <3> QED BY <1>2, <2>2, <3>1, <3>2
  <2> QED BY <2>1, <2>2
<1>7. /\ \A i, j \in DOMAIN rest : rest[i] = rest[j] => i = j
      /\ \A i \in DOMAIN rest : rest[i] \in Alive /\ rest[i] # p
      /\ full => \A i \in DOMAIN rest : rest[i] # old
  <2>1. CASE full
    BY <1>2, <1>3, <1>4, <1>6, <2>1 DEF Alive
  <2>2. CASE ~ full
    BY <1>2, <1>3, <1>6, <2>2 DEF Alive
  <2> QED BY <2>1, <2>2
<1>8. /\ \A q \in Alive : q \in {rest[i] : i \in DOMAIN rest} \/ (full /\ q = old)
  <2> SUFFICES ASSUME NEW i \in DOMAIN lru, lru[i] # old, full
               PROVE  \E j \in DOMAIN rest : lru[i] = rest[j]
    BY <1>6 DEF Alive
  <2>1. i - 1 \in DOMAIN rest /\ lru[i] = rest[i - 1]
    BY <1>2, <1>4, <1>5, <1>6
  <2> QED BY <2>1
<1> HIDE DEF rest
<1>9. /\ lru' \in Seq(Pages) /\ Len(lru') <= Limit
      /\ DOMAIN lru' = 1..(Len(rest) + 1)
      /\ \A i \in DOMAIN rest : lru'[i] = rest[i]
      /\ lru'[Len(rest) + 1] = p
  BY <1>1, <1>6, AppendProperties, LenProperties, LimitAssumption
<1>10. /\ \A i, j \in DOMAIN lru' : lru'[i] = lru'[j] => i = j
  BY <1>6, <1>7, <1>9
<1>11. Alive' = {rest[i] : i \in DOMAIN rest} \cup {p}
  BY <1>6, <1>9 DEF Alive
<1>12. \A q \in Pages :
          /\ q \in Alive' <=> q = p \/ (q \in Alive /\ ~ (full /\ q = old))
          /\ call'[q] = IF q = p THEN "none"
                        ELSE IF full /\ q = old THEN "release" ELSE call[q]
  BY <1>1, <1>2, <1>4, <1>7, <1>8, <1>11 DEF TypeOK
<1>13. TypeOK'
  BY <1>1, <1>2, <1>9 DEF TypeOK, Call
<1>14. UsesCounted'
  BY <1>1, SameUsers DEF CacheInv
<1>15. ASSUME NEW q \in Pages PROVE PageInv(q)'
  <2>1. PageInv(q)
    BY DEF CacheInv
  <2>2. CASE q # p /\ ~ (full /\ q = old)
    BY <1>1, <1>12, <2>1, <2>2, OtherPage
  <2>3. CASE q = p
    <3>1. call'[q] = "none" /\ q \in Alive' /\ q \in present
      BY <1>3, <1>12, <2>3
    <3> QED BY <1>1, <1>3, <2>1, <2>3, <3>1
            DEF PageInv, Absent, BetweenLives, BeingRead, BeingWritten, Usable,
                Loaded, Released, Dirty
  <2>4. CASE full /\ q = old
    <3>1. call'[q] = "release" /\ q \notin Alive' /\ q \in Alive
      BY <1>4, <1>12, <2>4
    <3> QED BY <1>1, <2>1, <3>1
            DEF PageInv, Absent, BetweenLives, BeingRead, BeingWritten, Usable,
                Loaded, Released, Dirty
  <2> QED BY <2>2, <2>3, <2>4
<1>16. \A c \in Clients : ClientInv(c)'
  BY <1>1, SameClients DEF CacheInv
<1> QED BY <1>10, <1>13, <1>14, <1>15, <1>16 DEF CacheInv

(* The page is loaded with what the file has, and those who waited use it. *)
LEMMA InvDiskRead ==
    ASSUME CacheInv, NEW p \in Pages, DiskRead(p)
    PROVE  CacheInv'
<1>1. /\ io[p] = "read"
      /\ io' = [io EXCEPT ![p] = "none"]
      /\ buffer' = [buffer EXCEPT ![p] = disk[p]]
      /\ flags' = [flags EXCEPT ![p] = @ \cup {"loaded"}]
      /\ useCount' = [useCount EXCEPT ![p] = Cardinality(waitQueue[p])]
      /\ completing' = completing \cup waitQueue[p]
      /\ waitQueue' = [waitQueue EXCEPT ![p] = {}]
      /\ UNCHANGED <<present, disk, lru, call, wants, uses, written>>
  BY DEF DiskRead, waiting
<1>2. TypeOK /\ PageInv(p) /\ \A c \in Clients : ClientInv(c)
  BY DEF CacheInv
<1>3. waitQueue[p] \in SUBSET Clients /\ waitQueue[p] # {}
  BY <1>1, <1>2 DEF TypeOK, PageInv, BeingRead
<1>4. useCount[p] = 0 /\ Users(p) = {}
  BY <1>1, <1>2, CountedUsers DEF CacheInv, PageInv, BeingRead, Loaded
<1>5. \A q \in Pages :
        Users(q)' = IF q = p THEN waitQueue[p] ELSE Users(q)
  BY <1>1, <1>2, <1>3, <1>4 DEF Users, ClientInv
<1>6. /\ IsFiniteSet(waitQueue[p]) /\ Cardinality(waitQueue[p]) \in Nat
      /\ Cardinality(waitQueue[p]) <= Cardinality(Clients)
      /\ Cardinality(waitQueue[p]) # 0 /\ Cardinality(Clients) \in Nat
  BY <1>3, ClientsAssumption, FS_Subset, FS_CardinalityType, FS_EmptySet
<1>7. TypeOK'
  BY <1>1, <1>2, <1>3, <1>6 DEF TypeOK, Flag
<1>8. UsesCounted'
  BY <1>1, <1>2, <1>5 DEF CacheInv, UsesCounted, TypeOK
<1>9. ASSUME NEW q \in Pages PROVE PageInv(q)'
  <2>1. PageInv(q) /\ (q \in Alive' <=> q \in Alive)
    BY <1>1 DEF CacheInv, Alive
  <2>2. CASE q # p
    BY <1>1, <1>2, <2>1, <2>2, OtherPage DEF TypeOK
  <2>3. CASE q = p
    BY <1>1, <1>2, <1>6, <2>1, <2>3
       DEF TypeOK, PageInv, Absent, BetweenLives, BeingRead, BeingWritten, Usable,
           Loaded, Released, Dirty
  <2> QED BY <2>2, <2>3
<1>10. \A c \in Clients : ClientInv(c)'
  <2> SUFFICES ASSUME NEW c \in Clients PROVE ClientInv(c)'
    OBVIOUS
  <2>1. ClientInv(c) /\ wants[c] \in Pages \cup {NoPage} /\ p # NoPage
    BY <1>2, PagesAssumption DEF TypeOK
  <2>2. \A q \in Pages : waitQueue'[q] = IF q = p THEN {} ELSE waitQueue[q]
    BY <1>1, <1>2 DEF TypeOK
  <2> QED BY <1>1, <2>1, <2>2 DEF ClientInv
<1>11. \A i, j \in DOMAIN lru' : lru'[i] = lru'[j] => i = j
  BY <1>1 DEF CacheInv
<1> QED BY <1>7, <1>8, <1>9, <1>10, <1>11 DEF CacheInv
------------------------------------------------------------------------------
(* Releasing a page *)

(* A loaded page that nobody is left to use is on its way to the disk, if  *)
(* it is dirty, or out.                                                    *)
LEMMA DoRelease ==
    ASSUME CacheInv, NEW p \in Pages, doRelease(p),
           Loaded(p), p \notin Alive, call[p] \in {"none", "release"},
           useCount'[p] = 0,
           UNCHANGED <<present, waitQueue, disk, lru, written>>
    PROVE  /\ \A q \in Pages :
                useCount'[q] = useCount[q] \/ q = p => PageInv(q)'
           /\ flags' \in [Pages -> SUBSET Flag]
           /\ buffer' \in [Pages -> Content \cup {NoBuffer}]
           /\ call' \in [Pages -> Call]
           /\ io' \in [Pages -> {"none", "read", "write"}]
<1>1. TypeOK /\ PageInv(p)
  BY DEF CacheInv
<1>2. /\ flags' = [flags EXCEPT ![p] = @ \ {"loaded", "release"}]
      /\ IF Dirty(p)
         THEN /\ io' = [io EXCEPT ![p] = "write"]
              /\ call' = [call EXCEPT ![p] = "none"] /\ buffer' = buffer
         ELSE /\ buffer' = [buffer EXCEPT ![p] = NoBuffer]
              /\ call' = [call EXCEPT ![p] = "finish"] /\ io' = io
  BY DEF doRelease, isDirty, Dirty
<1>3. ASSUME NEW q \in Pages, useCount'[q] = useCount[q] \/ q = p
      PROVE  PageInv(q)'
  <2>1. PageInv(q) /\ (q \in Alive' <=> q \in Alive)
    BY DEF CacheInv, Alive
  <2>2. CASE q # p
    BY <1>1, <1>2, <1>3, <2>1, <2>2, OtherPage DEF TypeOK
  <2>3. CASE q = p
    <3>1. /\ flags'[p] = IF Dirty(p) THEN {"dirty"} ELSE {}
          /\ io'[p] = IF Dirty(p) THEN "write" ELSE "none"
          /\ call'[p] = IF Dirty(p) THEN "none" ELSE "finish"
          /\ buffer'[p] = IF Dirty(p) THEN buffer[p] ELSE NoBuffer
      BY <1>1, <1>2 DEF TypeOK, Flag, Dirty, PageInv, Usable
    <3> QED
      BY <1>1, <2>1, <2>3, <3>1
         DEF TypeOK, PageInv, Absent, BetweenLives, BeingRead, BeingWritten, Usable,
             Loaded, Released, Dirty
  <2> QED BY <2>2, <2>3
<1>4. /\ flags' \in [Pages -> SUBSET Flag]
      /\ buffer' \in [Pages -> Content \cup {NoBuffer}]
      /\ call' \in [Pages -> Call]
      /\ io' \in [Pages -> {"none", "read", "write"}]
  BY <1>1, <1>2 DEF TypeOK, Call
<1> QED BY <1>3, <1>4

(* A page out of the list goes, or waits for its last user.               *)
LEMMA InvRelease ==
    ASSUME CacheInv, NEW p \in Pages, Release(p)
    PROVE  CacheInv'
<1> USE DEF clientVars
<1>1. /\ call[p] = "release"
      /\ UNCHANGED <<present, useCount, waitQueue, disk, lru, clientVars>>
      /\ p \in present /\ p \notin Alive
  BY CallOf DEF Release
<1>2. TypeOK /\ PageInv(p)
  BY DEF CacheInv
<1>3. UsesCounted'
  BY <1>1, SameUsers DEF CacheInv
<1>4. \A c \in Clients : ClientInv(c)'
  BY <1>1, SameClients DEF CacheInv
<1>5. TypeOK' /\ \A q \in Pages : PageInv(q)'
  <2>1. CASE Loaded(p) /\ useCount[p] = 0
    <3>1. doRelease(p)
      BY <2>1 DEF Release, Loaded
    <3> QED BY <1>1, <1>2, <2>1, <3>1, DoRelease DEF TypeOK
  <2>2. CASE ~ (Loaded(p) /\ useCount[p] = 0)
    <3>1. /\ flags' = [flags EXCEPT ![p] = @ \cup {"release"}]
          /\ call' = [call EXCEPT ![p] = "none"]
          /\ UNCHANGED <<buffer, io>>
      BY <2>2 DEF Release, Loaded
    <3>2. TypeOK'
      BY <1>1, <1>2, <3>1 DEF TypeOK, Flag, Call
    <3>3. ASSUME NEW q \in Pages PROVE PageInv(q)'
      <4>1. PageInv(q) /\ (q \in Alive' <=> q \in Alive)
        BY <1>1 DEF CacheInv, Alive
      <4>2. CASE q # p
        BY <1>1, <1>2, <3>1, <4>1, <4>2, OtherPage DEF TypeOK
      <4>3. CASE q = p
        <5>1. useCount[p] \in Nat
          BY CallOf
        <5> QED
          BY <1>1, <1>2, <2>2, <3>1, <4>1, <4>3, <5>1
             DEF TypeOK, PageInv, Absent, BetweenLives, BeingRead, BeingWritten,
                 Usable, Loaded, Released, Dirty
      <4> QED BY <4>2, <4>3
    <3> QED BY <3>2, <3>3
  <2> QED BY <2>1, <2>2
<1>6. \A i, j \in DOMAIN lru' : lru'[i] = lru'[j] => i = j
  BY <1>1 DEF CacheInv
<1> QED BY <1>3, <1>4, <1>5, <1>6 DEF CacheInv

(* A dirty page reaches the file before its buffer goes.                  *)
LEMMA InvDiskWrite ==
    ASSUME CacheInv, NEW p \in Pages, DiskWrite(p)
    PROVE  CacheInv'
<1> USE DEF clientVars
<1>1. /\ io[p] = "write"
      /\ io' = [io EXCEPT ![p] = "none"]
      /\ disk' = [disk EXCEPT ![p] = buffer[p]]
      /\ flags' = [flags EXCEPT ![p] = @ \ {"dirty"}]
      /\ buffer' = [buffer EXCEPT ![p] = NoBuffer]
      /\ call' = [call EXCEPT ![p] = "finish"]
      /\ UNCHANGED <<present, useCount, waitQueue, lru, clientVars>>
  BY DEF DiskWrite
<1>2. TypeOK /\ PageInv(p)
  BY DEF CacheInv
<1>3. disk' = [disk EXCEPT ![p] = written[p]]
  BY <1>1, <1>2 DEF PageInv, BeingWritten
<1>4. TypeOK'
  BY <1>1, <1>2, <1>3 DEF TypeOK, Call
<1>5. UsesCounted'
  BY <1>1, SameUsers DEF CacheInv
<1>6. ASSUME NEW q \in Pages PROVE PageInv(q)'
  <2>1. PageInv(q) /\ (q \in Alive' <=> q \in Alive)
    BY <1>1 DEF CacheInv, Alive
  <2>2. CASE q # p
    BY <1>1, <1>2, <2>1, <2>2, OtherPage DEF TypeOK
  <2>3. CASE q = p
    BY <1>1, <1>2, <1>3, <2>1, <2>3
       DEF TypeOK, PageInv, Absent, BetweenLives, BeingRead, BeingWritten, Usable,
           Loaded, Released, Dirty
  <2> QED BY <2>2, <2>3
<1>7. \A c \in Clients : ClientInv(c)'
  BY <1>1, SameClients DEF CacheInv
<1>8. \A i, j \in DOMAIN lru' : lru'[i] = lru'[j] => i = j
  BY <1>1 DEF CacheInv
<1> QED BY <1>4, <1>5, <1>6, <1>7, <1>8 DEF CacheInv

(* A page leaves the cache, unless somebody waits for it.                 *)
LEMMA InvFinishRelease ==
    ASSUME CacheInv, NEW p \in Pages, FinishRelease(p)
    PROVE  CacheInv'
<1> USE DEF clientVars
<1>1. /\ call[p] = "finish"
      /\ IF waitQueue[p] = {}
         THEN /\ present' = present \ {p}
              /\ call' = [call EXCEPT ![p] = "none"]
         ELSE /\ call' = [call EXCEPT ![p] = "acquire"]
              /\ UNCHANGED present
      /\ UNCHANGED <<flags, useCount, waitQueue, buffer, disk, io, lru, clientVars>>
  BY DEF FinishRelease, nobodyWaits
<1>2. TypeOK /\ PageInv(p)
  BY DEF CacheInv
<1>3. /\ p \in present /\ p \notin Alive /\ io[p] = "none" /\ flags[p] = {}
      /\ useCount[p] = 0
  BY <1>1, CallOf
<1>4. TypeOK'
  BY <1>1, <1>2 DEF TypeOK, Call
<1>5. UsesCounted'
  BY <1>1, SameUsers DEF CacheInv
<1>6. ASSUME NEW q \in Pages PROVE PageInv(q)'
  <2>1. PageInv(q) /\ (q \in Alive' <=> q \in Alive)
    BY <1>1 DEF CacheInv, Alive
  <2>2. CASE q # p
    BY <1>1, <1>2, <2>1, <2>2, OtherPage DEF TypeOK
  <2>3. CASE q = p
    BY <1>1, <1>2, <1>3, <2>1, <2>3
       DEF TypeOK, PageInv, Absent, BetweenLives, BeingRead, BeingWritten, Usable,
           Loaded, Released, Dirty
  <2> QED BY <2>2, <2>3
<1>7. \A c \in Clients : ClientInv(c)'
  BY <1>1, SameClients DEF CacheInv
<1>8. \A i, j \in DOMAIN lru' : lru'[i] = lru'[j] => i = j
  BY <1>1 DEF CacheInv
<1> QED BY <1>4, <1>5, <1>6, <1>7, <1>8 DEF CacheInv
------------------------------------------------------------------------------
(* The operations of PageCache *)

(* A client that may ask for a page neither has it nor waits for any.      *)
LEMMA Asks ==
    ASSUME CacheInv, NEW c \in Clients, NEW p \in Pages, MayAsk(c, p)
    PROVE  /\ wants[c] = NoPage /\ p # NoPage /\ p \notin uses[c]
           /\ c \notin completing /\ c \notin Users(p)
           /\ \A q \in Pages : c \notin waitQueue[q]
<1>1. ClientInv(c) /\ wants[c] = NoPage /\ NoPage \notin Pages /\ p \in Nat
  BY PagesAssumption DEF CacheInv, MayAsk
<1>2. p \notin uses[c]
  BY <1>1 DEF MayAsk
<1>3. c \notin completing /\ \A q \in Pages : c \notin waitQueue[q]
  BY <1>1 DEF ClientInv
<1> QED BY <1>1, <1>2, <1>3 DEF Users

(* A client that starts to wait for a page is in its queue, and in no      *)
(* other.                                                                  *)
LEMMA StartsToWait ==
    ASSUME CacheInv, NEW c \in Clients, NEW p \in Pages, MayAsk(c, p),
           waitQueue' = [waitQueue EXCEPT ![p] = @ \cup {c}],
           wants' = [wants EXCEPT ![c] = p],
           UNCHANGED <<useCount, completing, uses>>
    PROVE  /\ \A d \in Clients : ClientInv(d)'
           /\ UsesCounted'
<1>1. /\ wants[c] = NoPage /\ p # NoPage /\ p \notin uses[c]
      /\ c \notin completing /\ \A q \in Pages : c \notin waitQueue[q]
  BY Asks
<1>2. TypeOK
  BY DEF CacheInv
<1>3. \A q \in Pages :
        waitQueue'[q] = IF q = p THEN waitQueue[q] \cup {c} ELSE waitQueue[q]
  BY <1>2 DEF TypeOK
<1>4. \A d \in Clients : wants'[d] = IF d = c THEN p ELSE wants[d]
  BY <1>2 DEF TypeOK
<1>5. ASSUME NEW d \in Clients PROVE ClientInv(d)'
  <2>1. ClientInv(d) /\ wants[d] \in Pages \cup {NoPage}
    BY <1>2 DEF CacheInv, TypeOK
  <2>2. CASE d = c
    BY <1>1, <1>3, <1>4, <2>1, <2>2 DEF ClientInv
  <2>3. CASE d # c
    BY <1>1, <1>3, <1>4, <2>1, <2>3 DEF ClientInv
  <2> QED BY <2>2, <2>3
<1>6. \A q \in Pages : Users(q)' = Users(q)
  BY <1>1, <1>4 DEF Users
<1> QED BY <1>5, <1>6 DEF CacheInv, UsesCounted

(* A client asks for a page that is not there.                            *)
LEMMA InvEnterPage ==
    ASSUME CacheInv, NEW c \in Clients, NEW p \in Pages, MayAsk(c, p),
           EnterPage(c, p)
    PROVE  CacheInv'
<1>1. /\ p \notin present
      /\ present' = present \cup {p}
      /\ waitQueue' = [waitQueue EXCEPT ![p] = {c}]
      /\ wants' = [wants EXCEPT ![c] = p]
      /\ call' = [call EXCEPT ![p] = "acquire"]
      /\ UNCHANGED <<flags, useCount, buffer, disk, io, lru, completing, uses, written>>
  BY DEF EnterPage
<1>2. TypeOK /\ Absent(p)
  BY <1>1 DEF CacheInv, PageInv
<1>3. waitQueue' = [waitQueue EXCEPT ![p] = @ \cup {c}]
  BY <1>1, <1>2 DEF Absent, TypeOK
<1>4. UsesCounted' /\ \A d \in Clients : ClientInv(d)'
  BY <1>1, <1>3, StartsToWait
<1>5. TypeOK'
  BY <1>1, <1>2 DEF TypeOK, Call
<1>6. ASSUME NEW q \in Pages PROVE PageInv(q)'
  <2>1. PageInv(q) /\ (q \in Alive' <=> q \in Alive)
    BY <1>1 DEF CacheInv, Alive
  <2>2. CASE q # p
    BY <1>1, <1>2, <2>1, <2>2, OtherPage DEF TypeOK
  <2>3. CASE q = p
    BY <1>1, <1>2, <2>1, <2>3
       DEF TypeOK, PageInv, Absent, BetweenLives, BeingRead, BeingWritten, Usable,
           Loaded, Released, Dirty
  <2> QED BY <2>2, <2>3
<1>7. \A i, j \in DOMAIN lru' : lru'[i] = lru'[j] => i = j
  BY <1>1 DEF CacheInv
<1> QED BY <1>4, <1>5, <1>6, <1>7 DEF CacheInv

(* A client waits for a page that is being read or released.              *)
LEMMA InvAwaitPage ==
    ASSUME CacheInv, NEW c \in Clients, NEW p \in Pages, MayAsk(c, p),
           AwaitPage(c, p)
    PROVE  CacheInv'
<1>1. /\ p \in present /\ (Loaded(p) => Released(p))
      /\ waitQueue' = [waitQueue EXCEPT ![p] = @ \cup {c}]
      /\ wants' = [wants EXCEPT ![c] = p]
      /\ UNCHANGED <<present, flags, useCount, buffer, disk, call, io, lru,
                     completing, uses, written>>
  BY DEF AwaitPage, available, Loaded, Released
<1>2. TypeOK
  BY DEF CacheInv
<1>3. UsesCounted' /\ \A d \in Clients : ClientInv(d)'
  BY <1>1, StartsToWait
<1>4. TypeOK'
  BY <1>1, <1>2 DEF TypeOK
<1>5. ASSUME NEW q \in Pages PROVE PageInv(q)'
  <2>1. PageInv(q) /\ (q \in Alive' <=> q \in Alive)
    BY <1>1 DEF CacheInv, Alive
  <2>2. CASE q # p
    BY <1>1, <1>2, <2>1, <2>2, OtherPage DEF TypeOK
  <2>3. CASE q = p
    BY <1>1, <1>2, <2>1, <2>3
       DEF TypeOK, PageInv, Absent, BetweenLives, BeingRead, BeingWritten, Usable,
           Loaded, Released, Dirty
  <2> QED BY <2>2, <2>3
<1>6. \A i, j \in DOMAIN lru' : lru'[i] = lru'[j] => i = j
  BY <1>1 DEF CacheInv
<1> QED BY <1>3, <1>4, <1>5, <1>6 DEF CacheInv

(* A client that gets a page, or gives it back, is counted.                *)
LEMMA OneUserMore ==
    ASSUME UsesCounted, NEW c \in Clients, NEW p \in Pages,
           useCount \in [Pages -> Nat], c \notin Users(p),
           useCount' = [useCount EXCEPT ![p] = @ + 1],
           \A q \in Pages :
                Users(q)' = IF q = p THEN Users(q) \cup {c} ELSE Users(q)
    PROVE  UsesCounted'
<1>1. Cardinality(Users(p) \cup {c}) = Cardinality(Users(p)) + 1
  BY UsersFinite, FS_AddElement
<1> QED BY <1>1 DEF UsesCounted

(* One user less is one less to count.                                    *)
LEMMA OneUserLess ==
    ASSUME UsesCounted, NEW c \in Clients, NEW p \in Pages,
           useCount \in [Pages -> Nat], c \in Users(p),
           useCount' = [useCount EXCEPT ![p] = @ - 1],
           \A q \in Pages :
                Users(q)' = IF q = p THEN Users(q) \ {c} ELSE Users(q)
    PROVE  UsesCounted'
<1>1. Cardinality(Users(p) \ {c}) = Cardinality(Users(p)) - 1
  BY UsersFinite, FS_RemoveElement
<1> QED BY <1>1 DEF UsesCounted

(* Counts that are right are in their range.                               *)
LEMMA CountsInRange ==
    ASSUME UsesCounted', NEW f, useCount' = [p \in Pages |-> f[p]]
    PROVE  useCount' \in [Pages -> 0..Cardinality(Clients)]
<1>1. \A p \in Pages : Cardinality(Users(p)') \in 0..Cardinality(Clients)
  <2> SUFFICES ASSUME NEW p \in Pages
               PROVE  Cardinality(Users(p)') \in 0..Cardinality(Clients)
    OBVIOUS
  <2>1. Users(p)' \in SUBSET Clients
    BY DEF Users
  <2>2. /\ IsFiniteSet(Users(p)')
        /\ Cardinality(Users(p)') <= Cardinality(Clients)
    BY <2>1, ClientsAssumption, FS_Subset
  <2> QED BY <2>2, ClientsAssumption, FS_CardinalityType
<1> QED BY <1>1 DEF UsesCounted

(* A client gets a page that is loaded at once.                           *)
LEMMA InvUsePage ==
    ASSUME CacheInv, NEW c \in Clients, NEW p \in Pages, MayAsk(c, p),
           UsePage(c, p)
    PROVE  CacheInv'
<1>1. /\ p \in present /\ Loaded(p) /\ ~ Released(p)
      /\ useCount' = [useCount EXCEPT ![p] = @ + 1]
      /\ uses' = [uses EXCEPT ![c] = @ \cup {p}]
      /\ UNCHANGED <<present, flags, waitQueue, buffer, disk, call, io, lru,
                     wants, completing, written>>
  BY DEF UsePage, available, Loaded, Released
<1>2. TypeOK /\ useCount \in [Pages -> Nat]
  BY DEF CacheInv, TypeOK
<1>3. c \notin Users(p) /\ wants[c] = NoPage
  BY Asks
<1>4. \A d \in Clients :
        uses'[d] = IF d = c THEN uses[d] \cup {p} ELSE uses[d]
  BY <1>1, <1>2 DEF TypeOK
<1>5. \A q \in Pages :
        Users(q)' = IF q = p THEN Users(q) \cup {c} ELSE Users(q)
  BY <1>1, <1>4 DEF Users
<1>6. UsesCounted'
  BY <1>1, <1>2, <1>3, <1>5, OneUserMore DEF CacheInv
<1>7. useCount' \in [Pages -> 0..Cardinality(Clients)]
  <2>1. useCount' = [q \in Pages |-> useCount'[q]]
    BY <1>1, <1>2
  <2> QED BY <1>6, <2>1, CountsInRange
<1>8. TypeOK'
  BY <1>1, <1>2, <1>7 DEF TypeOK
<1>9. ASSUME NEW q \in Pages PROVE PageInv(q)'
  <2>1. PageInv(q) /\ (q \in Alive' <=> q \in Alive)
    BY <1>1 DEF CacheInv, Alive
  <2>2. CASE q # p
    BY <1>1, <1>2, <2>1, <2>2, OtherPage DEF TypeOK
  <2>3. CASE q = p
    BY <1>1, <1>2, <2>1, <2>3
       DEF TypeOK, PageInv, Absent, BetweenLives, BeingRead, BeingWritten, Usable,
           Loaded, Released, Dirty
  <2> QED BY <2>2, <2>3
<1>10. ASSUME NEW d \in Clients PROVE ClientInv(d)'
  BY <1>1, <1>3, <1>4 DEF CacheInv, ClientInv
<1>11. \A i, j \in DOMAIN lru' : lru'[i] = lru'[j] => i = j
  BY <1>1 DEF CacheInv
<1> QED BY <1>6, <1>8, <1>9, <1>10, <1>11 DEF CacheInv

(* A client that waited has its page: it was counted before.              *)
LEMMA InvComplete ==
    ASSUME CacheInv, NEW c \in Clients, Complete(c)
    PROVE  CacheInv'
<1> USE DEF pageVars
<1> DEFINE p == wants[c]
<1>1. /\ c \in completing
      /\ completing' = completing \ {c}
      /\ uses' = [uses EXCEPT ![c] = @ \cup {p}]
      /\ wants' = [wants EXCEPT ![c] = NoPage]
      /\ UNCHANGED <<pageVars, lru, written>>
  BY DEF Complete
<1>2. TypeOK /\ ClientInv(c) /\ wants[c] \in Pages \cup {NoPage}
  BY DEF CacheInv, TypeOK
<1>3. p \in Pages /\ p # NoPage
  BY <1>1, <1>2 DEF ClientInv
<1> HIDE DEF p
<1>4. \A d \in Clients :
        /\ uses'[d] = IF d = c THEN uses[d] \cup {p} ELSE uses[d]
        /\ wants'[d] = IF d = c THEN NoPage ELSE wants[d]
  BY <1>1, <1>2 DEF TypeOK
<1>5. TypeOK'
  BY <1>1, <1>2, <1>3 DEF TypeOK
<1>6. \A q \in Pages : Users(q)' = Users(q)
  <2> SUFFICES ASSUME NEW q \in Pages, NEW d \in Clients
               PROVE  q \in uses'[d] \/ (d \in completing' /\ wants'[d] = q)
                      <=> q \in uses[d] \/ (d \in completing /\ wants[d] = q)
    BY DEF Users
  <2>1. CASE d = c
    BY <1>1, <1>4, <2>1 DEF p
  <2>2. CASE d # c
    BY <1>1, <1>4, <2>2
  <2> QED BY <2>1, <2>2
<1>7. UsesCounted'
  BY <1>1, <1>6 DEF CacheInv, UsesCounted
<1>8. ASSUME NEW q \in Pages PROVE PageInv(q)'
  BY <1>1, OtherPage DEF CacheInv, Alive
<1>9. ASSUME NEW d \in Clients PROVE ClientInv(d)'
  <2>1. ClientInv(d) /\ ClientInv(c)
    BY DEF CacheInv
  <2>2. CASE d = c
    BY <1>1, <1>4, <2>1, <2>2 DEF ClientInv
  <2>3. CASE d # c
    BY <1>1, <1>4, <2>1, <2>3 DEF ClientInv
  <2> QED BY <2>2, <2>3
<1>10. \A i, j \in DOMAIN lru' : lru'[i] = lru'[j] => i = j
  BY <1>1 DEF CacheInv
<1> QED BY <1>5, <1>7, <1>8, <1>9, <1>10 DEF CacheInv

(* A client changes only a page it uses, which is loaded.                  *)
LEMMA UsedIsLoaded ==
    ASSUME CacheInv, NEW c \in Clients, NEW p \in Pages, p \in uses[c]
    PROVE  /\ useCount[p] \in Nat /\ useCount[p] > 0
           /\ Loaded(p) /\ Usable(p) /\ p \in present
<1>1. Users(p) # {}
  BY DEF Users
<1>2. useCount[p] # 0 /\ useCount[p] \in Nat
  BY <1>1, CountedUsers DEF CacheInv
<1>3. PageInv(p)
  BY DEF CacheInv
<1> QED BY <1>2, <1>3 DEF PageInv, Absent

(* A client changes a page it uses.                                       *)
LEMMA InvWritePage ==
    ASSUME CacheInv, NEW c \in Clients, NEW p \in Pages, writePage(c, p)
    PROVE  CacheInv'
<1>1. /\ p \in uses[c] /\ written[p] < MaxWrites
      /\ flags' = [flags EXCEPT ![p] = @ \cup {"dirty"}]
      /\ buffer' = [buffer EXCEPT ![p] = written[p] + 1]
      /\ written' = [written EXCEPT ![p] = @ + 1]
      /\ UNCHANGED <<present, useCount, waitQueue, disk, call, io, lru,
                     wants, completing, uses>>
  BY DEF writePage
<1>2. TypeOK
  BY DEF CacheInv
<1>3. Loaded(p) /\ Usable(p) /\ p \in present
  BY <1>1, UsedIsLoaded
<1>4. TypeOK'
  BY <1>1, <1>2, LimitAssumption DEF TypeOK, Flag, Content
<1>5. UsesCounted'
  BY <1>1, SameUsers DEF CacheInv
<1>6. ASSUME NEW q \in Pages PROVE PageInv(q)'
  <2>1. PageInv(q) /\ (q \in Alive' <=> q \in Alive)
    BY <1>1 DEF CacheInv, Alive
  <2>2. CASE q # p
    BY <1>1, <1>2, <2>1, <2>2, OtherPage DEF TypeOK
  <2>3. CASE q = p
    <3>1. /\ flags'[p] = flags[p] \cup {"dirty"}
          /\ buffer'[p] = written'[p]
      BY <1>1, <1>2 DEF TypeOK
    <3> QED
      BY <1>1, <1>3, <2>1, <2>3, <3>1
         DEF PageInv, Absent, BetweenLives, BeingRead, BeingWritten, Usable,
             Loaded, Released, Dirty
  <2> QED BY <2>2, <2>3
<1>7. \A d \in Clients : ClientInv(d)'
  BY <1>1, SameClients DEF CacheInv
<1>8. \A i, j \in DOMAIN lru' : lru'[i] = lru'[j] => i = j
  BY <1>1 DEF CacheInv
<1> QED BY <1>4, <1>5, <1>6, <1>7, <1>8 DEF CacheInv

(* A client gives its page back; the last one may release it.             *)
LEMMA InvReleasePage ==
    ASSUME CacheInv, NEW c \in Clients, NEW p \in Pages, releasePage(c, p)
    PROVE  CacheInv'
<1>1. /\ wants[c] = NoPage /\ p \in uses[c] /\ p # NoPage
      /\ uses' = [uses EXCEPT ![c] = @ \ {p}]
      /\ useCount' = [useCount EXCEPT ![p] = @ - 1]
      /\ IF useCount[p] = 1 /\ Released(p) THEN doRelease(p)
         ELSE UNCHANGED <<flags, buffer, io, call>>
      /\ UNCHANGED <<present, waitQueue, disk, lru, wants, completing, written>>
  BY PagesAssumption DEF releasePage, lastUse, Released
<1>2. TypeOK /\ useCount \in [Pages -> Nat] /\ ClientInv(c) /\ PageInv(p)
  BY DEF CacheInv, TypeOK
<1>3. /\ useCount[p] \in Nat /\ useCount[p] > 0
      /\ Loaded(p) /\ Usable(p) /\ p \in present
  BY <1>1, UsedIsLoaded
<1>4. \A d \in Clients :
        uses'[d] = IF d = c THEN uses[d] \ {p} ELSE uses[d]
  BY <1>1, <1>2 DEF TypeOK
<1>5. c \in Users(p)
  BY <1>1 DEF Users
<1>6. \A q \in Pages :
        Users(q)' = IF q = p THEN Users(q) \ {c} ELSE Users(q)
  BY <1>1, <1>4 DEF Users
<1>7. UsesCounted'
  BY <1>1, <1>2, <1>5, <1>6, OneUserLess DEF CacheInv
<1>8. useCount' \in [Pages -> 0..Cardinality(Clients)]
  <2>1. useCount' = [q \in Pages |-> useCount'[q]]
    BY <1>1, <1>2
  <2> QED BY <1>7, <2>1, CountsInRange
<1>9. TypeOK' /\ \A q \in Pages : PageInv(q)'
  <2>1. CASE useCount[p] = 1 /\ Released(p)
    <3>1. doRelease(p) /\ call[p] = "none" /\ p \notin Alive /\ useCount'[p] = 0
      BY <1>1, <1>2, <2>1 DEF PageInv
    <3>2. \A q \in Pages : useCount'[q] = useCount[q] \/ q = p
      BY <1>1, <1>2
    <3>3. /\ \A q \in Pages : PageInv(q)'
          /\ flags' \in [Pages -> SUBSET Flag]
          /\ buffer' \in [Pages -> Content \cup {NoBuffer}]
          /\ call' \in [Pages -> Call]
          /\ io' \in [Pages -> {"none", "read", "write"}]
      BY <1>1, <1>3, <3>1, <3>2, DoRelease
    <3> QED BY <1>1, <1>2, <1>8, <3>3 DEF TypeOK
  <2>2. CASE ~ (useCount[p] = 1 /\ Released(p))
    <3>1. UNCHANGED <<flags, buffer, io, call>>
      BY <1>1, <2>2
    <3>2. TypeOK'
      BY <1>1, <1>2, <1>8, <3>1 DEF TypeOK
    <3>3. ASSUME NEW q \in Pages PROVE PageInv(q)'
      <4>1. PageInv(q) /\ (q \in Alive' <=> q \in Alive)
        BY <1>1 DEF CacheInv, Alive
      <4>2. CASE q # p
        BY <1>1, <1>2, <3>1, <4>1, <4>2, OtherPage
      <4>3. CASE q = p
        <5>1. Released(p) => useCount'[p] > 0
          BY <1>1, <1>2, <1>3, <2>2
        <5> QED
          BY <1>1, <1>3, <3>1, <4>1, <4>3, <5>1
             DEF PageInv, Absent, BetweenLives, BeingRead, BeingWritten, Usable,
                 Loaded, Released, Dirty
      <4> QED BY <4>2, <4>3
    <3> QED BY <3>2, <3>3
  <2> QED BY <2>1, <2>2
<1>10. ASSUME NEW d \in Clients PROVE ClientInv(d)'
  BY <1>1, <1>4 DEF CacheInv, ClientInv
<1>11. \A i, j \in DOMAIN lru' : lru'[i] = lru'[j] => i = j
  BY <1>1 DEF CacheInv
<1> QED BY <1>7, <1>9, <1>10, <1>11 DEF CacheInv
------------------------------------------------------------------------------
(* An empty cache satisfies the invariant.                                 *)
LEMMA InvInit == Init => CacheInv
<1> SUFFICES ASSUME Init PROVE CacheInv
  OBVIOUS
<1>1. Cardinality(Clients) \in Nat
  BY ClientsAssumption, FS_CardinalityType
<1>2. lru = <<>> /\ DOMAIN lru = {} /\ Len(lru) = 0 /\ lru \in Seq(Pages)
  BY EmptySeq DEF Init
<1>3. TypeOK
  BY <1>1, <1>2, LimitAssumption DEF Init, TypeOK, Flag, Call, Content
<1>4. UsesCounted
  <2>1. \A p \in Pages : Users(p) = {}
    BY DEF Init, Users
  <2> QED BY <2>1, FS_EmptySet DEF Init, UsesCounted
<1>5. \A p \in Pages : PageInv(p)
  BY <1>2 DEF Init, PageInv, Absent, BetweenLives, BeingRead, BeingWritten, Usable,
              Loaded, Released, Dirty, Alive
<1>6. \A c \in Clients : ClientInv(c)
  BY DEF Init, ClientInv
<1> QED BY <1>2, <1>3, <1>4, <1>5, <1>6 DEF CacheInv

(* No step breaks it.                                                      *)
LEMMA InvNext == ASSUME CacheInv, [Next]_vars PROVE CacheInv'
<1>1. CASE \E p \in Pages : Thread(p) \/ IoPool(p)
  BY <1>1, InvAcquire, InvRequestAcquire, InvRelease, InvFinishRelease,
     InvDiskRead, InvDiskWrite
     DEF Thread, IoPool
<1>2. CASE \E c \in Clients : Complete(c)
  BY <1>2, InvComplete
<1>3. CASE \E c \in Clients, p \in Pages : readPage(c, p) \/ initializePage(c, p)
  BY <1>3, InvEnterPage, InvUsePage, InvAwaitPage DEF readPage, initializePage
<1>4. CASE \E c \in Clients, p \in Pages : writePage(c, p) \/ releasePage(c, p)
  BY <1>4, InvWritePage, InvReleasePage
<1>5. CASE UNCHANGED vars
  <2>1. UNCHANGED <<present, flags, useCount, waitQueue, buffer, disk, lru, call,
                    io, wants, completing, uses, written>>
    BY <1>5 DEF vars, pageVars, clientVars
  <2>2. TypeOK'
    BY <2>1 DEF CacheInv, TypeOK
  <2>3. UsesCounted'
    BY <2>1, SameUsers DEF CacheInv
  <2>4. \A p \in Pages : PageInv(p)'
    BY <2>1, OtherPage DEF CacheInv, Alive
  <2>5. \A c \in Clients : ClientInv(c)'
    BY <2>1, SameClients DEF CacheInv
  <2>6. \A i, j \in DOMAIN lru' : lru'[i] = lru'[j] => i = j
    BY <2>1 DEF CacheInv
  <2> QED BY <2>2, <2>3, <2>4, <2>5, <2>6 DEF CacheInv
<1> QED BY <1>1, <1>2, <1>3, <1>4, <1>5 DEF Next

(* The inductive invariant holds in every reachable state of the cache.    *)
THEOREM CacheSafety == Spec => []CacheInv
BY InvInit, InvNext, PTL DEF Spec

(* A list without repetitions has as many elements as its length says.     *)
LEMMA AliveCounted ==
    ASSUME lru \in Seq(Pages), \A i, j \in DOMAIN lru : lru[i] = lru[j] => i = j
    PROVE  Cardinality(Alive) = Len(lru)
<1>1. Len(lru) \in Nat /\ DOMAIN lru = 1..Len(lru) /\ lru \in [1..Len(lru) -> Pages]
  BY LenProperties
<1>2. lru \in Bijection(1..Len(lru), Alive)
  <2>1. lru \in [1..Len(lru) -> Alive]
    BY <1>1 DEF Alive
  <2>2. \A i, j \in 1..Len(lru) : lru[i] = lru[j] => i = j
    BY <1>1
  <2>3. \A p \in Alive : \E i \in 1..Len(lru) : lru[i] = p
    BY <1>1 DEF Alive
  <2> QED BY <2>1, <2>2, <2>3 DEF Bijection, Injection, Surjection, IsInjective
<1>3. ExistsBijection(1..Len(lru), Alive)
  BY <1>2 DEF ExistsBijection
<1> QED BY <1>1, <1>3, FS_CountingElements

(* Use counts are the numbers of users, no page escapes the limit, and     *)
(* none is released twice.                                                 *)
THEOREM PagesAlwaysAccounted == Spec => []PagesAccounted
<1>1. CacheInv => PagesAccounted
  <2> SUFFICES ASSUME CacheInv PROVE PagesAccounted
    OBVIOUS
  <2>1. TypeOK /\ UsesCounted /\ \A p \in Pages : PageInv(p)
    BY DEF CacheInv
  <2>2. Cardinality(Alive) = Len(lru)
    BY AliveCounted DEF CacheInv, TypeOK
  <2>3. Alive \subseteq Pages
    BY <2>1, LenProperties, ElementOfSeq DEF Alive, TypeOK
  <2>4. \A p \in Alive : call[p] = "none" /\ io[p] # "write" /\ "release" \notin flags[p]
    BY <2>1, <2>3 DEF PageInv, BeingWritten, Released
  <2>5. \A p \in present \ Alive :
        \/ call[p] # "none" \/ io[p] = "write"
        \/ "release" \in flags[p] /\ ("loaded" \in flags[p] => useCount[p] > 0)
    BY <2>1 DEF PageInv, Released, Loaded, TypeOK
  <2>6. \A p \in Pages \ present :
        /\ call[p] = "none" /\ io[p] = "none" /\ flags[p] = {}
        /\ useCount[p] = 0 /\ waitQueue[p] = {} /\ buffer[p] = NoBuffer
    BY <2>1 DEF PageInv, Absent
  <2> QED BY <2>1, <2>2, <2>4, <2>5, <2>6 DEF PagesAccounted
<1> QED BY <1>1, CacheSafety, PTL

(* Who uses a page sees what was written to it last, and what the file     *)
(* lacks is in a dirty page: eviction loses no write.                      *)
THEOREM WritesNeverLost == Spec => []NoWriteLost
<1>1. CacheInv => NoWriteLost
  <2> SUFFICES ASSUME CacheInv PROVE NoWriteLost
    OBVIOUS
  <2>1. ASSUME NEW c \in Clients, NEW p \in uses[c]
        PROVE  buffer[p] = written[p]
    <3>1. p \in Pages
      BY DEF CacheInv, TypeOK
    <3> QED BY <3>1, UsedIsLoaded DEF Usable
  <2>2. ASSUME NEW p \in Pages, disk[p] # written[p]
        PROVE  p \in present /\ "dirty" \in flags[p] /\ buffer[p] = written[p]
    BY <2>2 DEF CacheInv, PageInv, Absent, Usable, BeingWritten, Dirty
  <2> QED BY <2>1, <2>2 DEF NoWriteLost
<1> QED BY <1>1, CacheSafety, PTL

(* A client that waits for a page is in its queue or about to be called:   *)
(* no eviction forgets one that came between two lives of the page.        *)
THEOREM WaitersNeverForgotten ==
    Spec => [](\A c \in Clients : wants[c] # NoPage =>
                    c \in completing \/ c \in waitQueue[wants[c]])
<1>1. CacheInv => \A c \in Clients : wants[c] # NoPage =>
                        c \in completing \/ c \in waitQueue[wants[c]]
  BY DEF CacheInv, ClientInv
<1> QED BY <1>1, CacheSafety, PTL
==============================================================================
