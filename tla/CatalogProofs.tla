----------------------------- MODULE CatalogProofs -----------------------------
(***************************************************************************)
(* The safety of Catalog for every set of names and every number of        *)
(* transactions: what is on the disk can always be loaded, names survive a      *)
(* restart, and views follow the storages they were made for.  CatalogInv  *)
(* is the inductive invariant.                                             *)
(***************************************************************************)
EXTENDS Catalog, TLAPS, SequenceTheorems, FiniteSetTheorems

------------------------------------------------------------------------------
(* The invariant that makes the safety properties inductive                *)

Unique(names) ==
    \A i, j \in DOMAIN names : names[i] = names[j] /\ names[i] # NoName => i = j

Live == Range(storages) \cup Range(views)
Kept == Range(config.storages) \cup Range(config.views)

(* What the main thread is doing fits the request it has. *)
JobFits ==
    /\ job.op = "none" => job = NoJob
    /\ pc = "createLog" => job.op = "create"
    /\ pc = "setupStorage" => job.op = "storage"
    /\ pc = "setupView" => job.op = "view"
    /\ pc = "describe" => job.op \in {"storage", "view"}
    /\ job.op = "storage" => job.name \in StorageNames
    /\ job.op = "view" => job.name \in ViewNames /\ job.base \in StorageNames
    /\ job.op = "unlink" => job.name \in Names
    /\ job.op \in {"storage", "view", "unlink"} => told[job.name] = "asked"
    /\ job.op = "create" => pc \in {"createLog", "truncate", "write", "answer"}
    /\ job.op = "unlink" => pc \in {"truncate", "write", "answer"}

(* Without a process that serves there is nothing in memory. *)
EmptyMemory ==
    pc = "down" \/ job.op = "create" =>
        /\ storages = <<>> /\ views = <<>>
        /\ open = {} /\ DOMAIN submitted = {} /\ delivered = 0
        /\ \A v \in ViewNames : base[v] = Illegal /\ accepted[v] = {} /\ since[v] = 0

(* A name is linked once, and it has a directory, which it keeps for ever. *)
(* The one that is about to be linked never was.                           *)
NamesOnce ==
    /\ Unique(storages) /\ Unique(views)
    /\ Unique(config.storages) /\ Unique(config.views)
    /\ Live \ {NoName} \subseteq dirs /\ Kept \subseteq dirs
    /\ pc \in {"setupStorage", "setupView"} =>
            job.name \notin Live \cup Kept /\ job.name \in dirs

(* What is in memory has its files, but for the descriptor of what is being *)
(* created; so has what config names.                                      *)
FilesComplete ==
    /\ AlwaysLoadable
    /\ ~ config.exists => config = NoConfig
    /\ pc \notin {"down", "createLog"} => logFile
    /\ Live \ {NoName} \subseteq
            descriptors \cup (IF pc = "describe" THEN {job.name} ELSE {})
    /\ \A v \in ViewNames \cap Live : settings[v] # NoName

(* What clients know is so in memory too; config is behind by the request  *)
(* that is being served.                                                   *)
NamesKnown ==
    /\ ~ torn /\ pc # "down" =>
            \A n \in Names : /\ told[n] = "linked" => n \in Live
                             /\ told[n] \in {"absent", "unlinked"} => n \notin Live
    /\ job.op = "unlink" => job.name \notin Live
    /\ job.op \in {"storage", "view"} /\ pc \notin {"setupStorage", "setupView"} =>
            job.name \in Live
    /\ pc = "answer" => Kept = Live \ {NoName}

(* The index a view has for its storage is that of no other, also when the *)
(* storage is gone: nothing takes its place, and its name is not used again. *)
BasesRight ==
    /\ \A v \in ViewNames : base[v] # Illegal =>
            /\ settings[v] \in dirs
            /\ storages[base[v]] \in {settings[v], NoName}
            /\ \A i \in DOMAIN storages : storages[i] = settings[v] => i = base[v]
            /\ pc = "setupStorage" => settings[v] # job.name
    /\ \A v \in ViewNames :
            /\ since[v] <= delivered
            /\ v \notin dirs \/ (pc = "setupView" /\ v = job.name) => accepted[v] = {}
            /\ v \in Range(views) /\ base[v] # Illegal =>
                    accepted[v] = {k \in since[v] + 1..delivered :
                                        submits[commits[k]] = settings[v]}

(* So with the index a submitted transaction has for its storage: a view    *)
(* that knows a storage by an index has the one that the transactions of    *)
(* that storage have, also those of a storage that is gone.                 *)
TransactionsRight ==
    /\ \A n \in DOMAIN submits :
            submits[n] \in dirs /\ (pc = "setupStorage" => submits[n] # job.name)
    /\ \A n \in DOMAIN submitted :
            /\ submitted[n] # Illegal => storages[submitted[n]] \in {submits[n], NoName}
            /\ \A i \in DOMAIN storages : storages[i] = submits[n] => i = submitted[n]
            /\ \A v \in ViewNames :
                    base[v] # Illegal =>
                        (submitted[n] = base[v] <=> submits[n] = settings[v])

CatalogInv ==
    /\ TypeOK /\ JobFits /\ EmptyMemory /\ NamesOnce /\ FilesComplete
    /\ NamesKnown /\ NamesSurvive /\ BasesRight /\ TransactionsRight
------------------------------------------------------------------------------
(* Linked drops the names that were unlinked, and only these.              *)
LEMMA LinkedKeeps ==
    ASSUME NEW S, NoName \notin S, NEW names \in Seq(S \cup {NoName})
    PROVE  /\ Linked(names) \in Seq(S)
           /\ Range(Linked(names)) = Range(names) \ {NoName}
           /\ Unique(names) => Unique(Linked(names))
<1> DEFINE kept == {i \in DOMAIN names : names[i] # NoName}
           upTo(i) == {j \in kept : j <= i}
           rank == [i \in kept |-> Cardinality(upTo(i))]
           N == Cardinality(kept)
           nth(n) == CHOOSE i \in kept : rank[i] = n
<1>1. kept \in SUBSET (1..Len(names)) /\ IsFiniteSet(kept) /\ N \in Nat
  <2>1. DOMAIN names = 1..Len(names) /\ Len(names) \in Nat
    BY LenProperties
  <2>2. IsFiniteSet(1..Len(names))
    BY <2>1, FS_Interval
  <2> QED BY <2>1, <2>2, FS_Subset, FS_CardinalityType
<1>2. \A i \in kept : i \in Nat /\ IsFiniteSet(upTo(i)) /\ rank[i] \in 1..N
  <2> SUFFICES ASSUME NEW i \in kept
               PROVE  i \in Nat /\ IsFiniteSet(upTo(i)) /\ rank[i] \in 1..N
    OBVIOUS
  <2>1. i \in Nat /\ i \in upTo(i) /\ upTo(i) \in SUBSET kept
    BY <1>1
  <2>2. IsFiniteSet(upTo(i)) /\ Cardinality(upTo(i)) <= N
    BY <1>1, <2>1, FS_Subset
  <2>3. Cardinality(upTo(i)) \in Nat /\ Cardinality(upTo(i)) # 0
    BY <2>1, <2>2, FS_CardinalityType, FS_EmptySet
  <2> QED BY <1>1, <2>1, <2>2, <2>3
<1>3. \A i, j \in kept : rank[i] = rank[j] => i = j
  <2>1. \A i, j \in kept : i < j => rank[i] # rank[j]
    <3> SUFFICES ASSUME NEW i \in kept, NEW j \in kept, i < j
                 PROVE  Cardinality(upTo(i)) # Cardinality(upTo(j))
      OBVIOUS
    <3>1. upTo(i) \in SUBSET upTo(j) /\ j \in upTo(j) /\ j \notin upTo(i)
      BY <1>2
    <3>2. upTo(i) # upTo(j) /\ IsFiniteSet(upTo(j))
      BY <3>1, <1>2
    <3> HIDE DEF upTo
    <3> QED BY <3>1, <3>2, FS_Subset
  <2> QED BY <1>2, <2>1
<1>4. \A n \in 1..N : nth(n) \in kept /\ rank[nth(n)] = n
  <2>1. rank \in Injection(kept, 1..N)
    BY <1>2, <1>3 DEF Injection, IsInjective
  <2>2. IsFiniteSet(1..N) /\ Cardinality(1..N) = N
    BY <1>1, FS_Interval
  <2>3. rank \in Surjection(kept, 1..N)
    <3> HIDE DEF kept, rank, N
    <3> QED BY <2>1, <2>2, FS_Injection DEF N
  <2>4. \A n \in 1..N : \E i \in kept : rank[i] = n
    <3> HIDE DEF kept, rank, N
    <3> QED BY <2>3 DEF Surjection
  <2> QED BY <2>4
<1>5. Linked(names) = [n \in 1..N |-> names[nth(n)]]
  <2>1. \A n \in 1..N :
            (CHOOSE i \in kept : Cardinality(upTo(i)) = n) = nth(n)
    OBVIOUS
  <2>2. Linked(names) = [n \in 1..N |->
                            names[CHOOSE i \in kept : Cardinality(upTo(i)) = n]]
    BY DEF Linked
  <2> HIDE DEF nth, N, upTo, kept, rank
  <2> QED BY <2>1, <2>2
<1> HIDE DEF nth, rank, N
<1>6. DOMAIN Linked(names) = 1..N /\ \A n \in 1..N : Linked(names)[n] = names[nth(n)]
  BY <1>5
<1>7. \A n \in 1..N : Linked(names)[n] \in S /\ Linked(names)[n] \in Range(names) \ {NoName}
  BY <1>4, <1>6 DEF Range
<1>8. Linked(names) \in Seq(S)
  BY <1>1, <1>5, <1>6, <1>7
<1>9. \A i \in kept : rank[i] \in 1..N /\ Linked(names)[rank[i]] = names[i]
  <2> SUFFICES ASSUME NEW i \in kept
               PROVE  rank[i] \in 1..N /\ Linked(names)[rank[i]] = names[i]
    OBVIOUS
  <2>1. rank[i] \in 1..N
    BY <1>2
  <2>2. nth(rank[i]) = i
    BY <2>1, <1>4, <1>3
  <2> QED BY <2>1, <2>2, <1>6
<1>10. Range(Linked(names)) = Range(names) \ {NoName}
  <2>1. ASSUME NEW x \in Range(names) \ {NoName}
        PROVE  x \in Range(Linked(names))
    <3>1. PICK i \in kept : names[i] = x
      BY DEF Range
    <3>2. rank[i] \in DOMAIN Linked(names) /\ Linked(names)[rank[i]] = x
      BY <1>6, <1>9, <3>1
    <3> QED BY <3>2 DEF Range
  <2> QED BY <1>6, <1>7, <2>1 DEF Range
<1>11. ASSUME Unique(names)
       PROVE  Unique(Linked(names))
  <2> SUFFICES ASSUME NEW m \in 1..N, NEW n \in 1..N,
                      Linked(names)[m] = Linked(names)[n], Linked(names)[m] # NoName
               PROVE  m = n
    BY <1>6 DEF Unique
  <2>1. nth(m) \in kept /\ nth(n) \in kept /\ names[nth(m)] = names[nth(n)]
    BY <1>4, <1>6
  <2>2. nth(m) = nth(n)
    BY <2>1, <1>11 DEF Unique
  <2> QED BY <2>2, <1>4
<1> QED BY <1>8, <1>10, <1>11

(* What the index of a name is.                                            *)
LEMMA IndexOf ==
    ASSUME NEW S, NEW names \in Seq(S), NEW name
    PROVE  /\ Index(names, name) = Illegal <=> name \notin Range(names)
           /\ name \in Range(names) =>
                Index(names, name) \in DOMAIN names /\ names[Index(names, name)] = name
           /\ Index(names, name) \in {Illegal} \cup DOMAIN names
<1>1. DOMAIN names = 1..Len(names) /\ Illegal \notin DOMAIN names
  BY LenProperties DEF Illegal
<1>2. name \in Range(names) <=> \E i \in DOMAIN names : names[i] = name
  BY DEF Range
<1>3. CASE \E i \in DOMAIN names : names[i] = name
  <2>1. Index(names, name) \in DOMAIN names /\ names[Index(names, name)] = name
    BY <1>3 DEF Index
  <2> QED BY <1>1, <1>2, <1>3, <2>1
<1>4. CASE ~ \E i \in DOMAIN names : names[i] = name
  BY <1>1, <1>2, <1>4 DEF Index
<1> QED BY <1>3, <1>4

(* A name that is linked once has the index where it is.                   *)
LEMMA IndexUnique ==
    ASSUME NEW S, NEW names \in Seq(S), Unique(names),
           NEW i \in DOMAIN names, names[i] # NoName
    PROVE  Index(names, names[i]) = i
<1>1. names[i] \in Range(names)
  BY DEF Range
<1> QED BY <1>1, IndexOf DEF Unique

(* Linking a name.                                                         *)
LEMMA Appended ==
    ASSUME NEW S, NEW names \in Seq(S), NEW name \in S
    PROVE  /\ Append(names, name) \in Seq(S)
           /\ Len(Append(names, name)) = Len(names) + 1
           /\ DOMAIN Append(names, name) = DOMAIN names \cup {Len(names) + 1}
           /\ \A i \in DOMAIN names : Append(names, name)[i] = names[i]
           /\ Append(names, name)[Len(names) + 1] = name
           /\ Len(names) + 1 \notin DOMAIN names
           /\ Range(Append(names, name)) = Range(names) \cup {name}
           /\ Unique(names) /\ name \notin Range(names) => Unique(Append(names, name))
<1>1. /\ Append(names, name) \in Seq(S)
      /\ Len(Append(names, name)) = Len(names) + 1 /\ Len(names) \in Nat
      /\ DOMAIN names = 1..Len(names)
      /\ DOMAIN Append(names, name) = 1..Len(names) + 1
  BY AppendProperties, LenProperties
<1>2. /\ \A i \in DOMAIN names : Append(names, name)[i] = names[i]
      /\ Append(names, name)[Len(names) + 1] = name
  BY <1>1, AppendProperties
<1>3. /\ DOMAIN Append(names, name) = DOMAIN names \cup {Len(names) + 1}
      /\ Len(names) + 1 \notin DOMAIN names
  BY <1>1
<1>4. Range(Append(names, name)) = Range(names) \cup {name}
  BY <1>2, <1>3 DEF Range
<1>5. Unique(names) /\ name \notin Range(names) => Unique(Append(names, name))
  BY <1>2, <1>3 DEF Unique, Range
<1> QED BY <1>1, <1>2, <1>3, <1>4, <1>5

(* Unlinking one: the others stay where they are.                          *)
Without(names, name) == [names EXCEPT ![Index(names, name)] = NoName]

(* What this leaves of the names.                                         *)
LEMMA Unlinked ==
    ASSUME NEW S, NEW names \in Seq(S \cup {NoName}), Unique(names),
           NEW name \in S, name # NoName, Index(names, name) # Illegal
    PROVE  /\ Without(names, name) \in Seq(S \cup {NoName})
           /\ DOMAIN Without(names, name) = DOMAIN names
           /\ \A i \in DOMAIN names : Without(names, name)[i] \in {names[i], NoName}
           /\ Range(Without(names, name)) \ {NoName}
                = (Range(names) \ {NoName}) \ {name}
           /\ name \notin Range(Without(names, name))
           /\ Unique(Without(names, name))
<1> USE DEF Without
<1> DEFINE k == Index(names, name)
           left == Without(names, name)
<1>1. k \in DOMAIN names /\ names[k] = name
  BY IndexOf
<1> HIDE DEF k
<1>2. left \in Seq(S \cup {NoName})
  <2>1. k \in 1..Len(names)
    BY <1>1, LenProperties
  <2> QED BY <2>1, ExceptSeq DEF k
<1>3. DOMAIN left = DOMAIN names /\ left[k] = NoName
      /\ \A i \in DOMAIN names : i # k => left[i] = names[i]
  BY <1>1 DEF k
<1>4. \A i \in DOMAIN names : i # k => names[i] # name
  BY <1>1 DEF Unique
<1>5. \A i \in DOMAIN names : left[i] \in {names[i], NoName}
  BY <1>3
<1>6. name \notin Range(left)
  BY <1>3, <1>4 DEF Range
<1>7. Range(left) \ {NoName} = (Range(names) \ {NoName}) \ {name}
  BY <1>1, <1>3, <1>4 DEF Range
<1>8. Unique(left)
  BY <1>3 DEF Unique
<1> QED BY <1>2, <1>3, <1>5, <1>6, <1>7, <1>8
-------------------------------------------------------------------------------
(* What is linked are names.                                               *)
LEMMA LiveNames ==
    ASSUME TypeOK
    PROVE  /\ Range(storages) \subseteq StorageNames \cup {NoName}
           /\ Range(views) \subseteq ViewNames \cup {NoName}
           /\ Range(config.storages) \subseteq StorageNames
           /\ Range(config.views) \subseteq ViewNames
           /\ \A s \in StorageNames : s \in Live <=> s \in Range(storages)
           /\ \A v \in ViewNames : v \in Live <=> v \in Range(views)
           /\ NoName \notin Names
<1>1. Range(storages) \subseteq StorageNames \cup {NoName}
  BY ElementOfSeq DEF TypeOK, Range
<1>2. Range(views) \subseteq ViewNames \cup {NoName}
  BY ElementOfSeq DEF TypeOK, Range
<1>3. Range(config.storages) \subseteq StorageNames
  BY ElementOfSeq DEF TypeOK, Range
<1>4. Range(config.views) \subseteq ViewNames
  BY ElementOfSeq DEF TypeOK, Range
<1> QED BY <1>1, <1>2, <1>3, <1>4, NamesAssumption DEF Names, Live

(* A list of some names is a list of more.                                 *)
LEMMA SeqWider ==
    ASSUME NEW S, NEW T, S \subseteq T, NEW names \in Seq(S)
    PROVE  names \in Seq(T)
<1>1. Len(names) \in Nat /\ names \in [1..Len(names) -> S]
  BY LenProperties
<1>2. names \in [1..Len(names) -> T]
  BY <1>1
<1> QED BY <1>1, <1>2

(* Nothing is in an empty list.                                            *)
LEMMA NothingListed ==
    /\ Range(<<>>) = {} /\ Unique(<<>>)
    /\ \A S : <<>> \in Seq(S)
BY DEF Range, Unique

(* What a request changes first.                                           *)
LEMMA Requested ==
    ASSUME TypeOK, NEW op \in Ops \ {"none"}, NEW name \in Names,
           NEW baseName \in StorageNames \cup {NoName}, NEW to,
           Request(op, name, baseName, to)
    PROVE  /\ pc = "serve" /\ pc' = to
           /\ job' \in [op : Ops, name : Names \cup {NoName},
                        base : StorageNames \cup {NoName}]
           /\ job = NoJob /\ job' # NoJob
           /\ job'.op = op /\ job'.name = name /\ job'.base = baseName
           /\ told' \in [Names -> {"absent", "asked", "linked", "unlinked"}]
           /\ told'[name] = "asked"
           /\ \A n \in Names : n # name => told'[n] = told[n]
<1>1. /\ pc = "serve" /\ pc' = to
      /\ job' = [op |-> op, name |-> name, base |-> baseName]
      /\ told' = [told EXCEPT ![name] = "asked"]
  BY DEF Request, Goto
<1>2. told \in [Names -> {"absent", "asked", "linked", "unlinked"}]
  BY DEF TypeOK
<1>3. job = NoJob
  BY <1>1 DEF TypeOK
<1> QED BY <1>1, <1>2, <1>3 DEF NoJob

(* The empty directory.                                                    *)
LEMMA InitInv == Init => CatalogInv
<1> SUFFICES ASSUME Init PROVE CatalogInv
  OBVIOUS
<1>1. TypeOK
  <2>1. /\ config.storages \in Seq(StorageNames) /\ config.views \in Seq(ViewNames)
        /\ storages \in Seq(StorageNames \cup {NoName})
        /\ views \in Seq(ViewNames \cup {NoName}) /\ submits \in Seq(StorageNames)
        /\ commits \in Seq(DOMAIN submits)
        /\ DOMAIN storages = {} /\ DOMAIN commits = {} /\ Len(commits) = 0
    BY NothingListed DEF Init, NoConfig
  <2>2. job \in [op : Ops, name : Names \cup {NoName},
                 base : StorageNames \cup {NoName}]
    BY DEF Init, NoJob, Ops
  <2>3. /\ base \in [ViewNames -> {Illegal} \cup DOMAIN storages]
        /\ accepted \in [ViewNames -> SUBSET DOMAIN commits]
        /\ settings \in [ViewNames -> StorageNames \cup {NoName}]
        /\ told \in [Names -> {"absent", "asked", "linked", "unlinked"}]
    BY DEF Init
  <2>4. /\ since \in [ViewNames -> 0..Len(commits)] /\ delivered \in 0..Len(commits)
        /\ DOMAIN submitted = {}
        /\ submitted \in [DOMAIN submitted -> {Illegal} \cup DOMAIN storages]
    BY <2>1 DEF Init
  <2>5. {prepared, logFile, config.exists, torn} \subseteq BOOLEAN
    BY DEF Init, NoConfig
  <2> QED BY <2>1, <2>2, <2>3, <2>4, <2>5 DEF Init, TypeOK, Points
<1>2. JobFits /\ EmptyMemory
  BY DEF Init, JobFits, EmptyMemory, NoJob
<1>3. NamesOnce /\ FilesComplete
  BY NothingListed DEF Init, NamesOnce, FilesComplete, AlwaysLoadable, Live, Kept, NoConfig
<1>4. NamesKnown /\ NamesSurvive
  BY NothingListed DEF Init, NamesKnown, NamesSurvive, Live, Kept, NoConfig, NoJob
<1>5. BasesRight /\ TransactionsRight
  BY DEF Init, BasesRight, TransactionsRight, Illegal
<1> QED BY <1>1, <1>2, <1>3, <1>4, <1>5 DEF CatalogInv

(* The start and the end of the process.                                   *)
LEMMA CreateConfigStep ==
    ASSUME CatalogInv, CreateConfig
    PROVE  CatalogInv'
<1> USE DEF CatalogInv, CreateConfig, Goto, files, memory, history, NoJob, NoConfig
<1>1. TypeOK'
  BY LiveNames DEF TypeOK, Points, Ops
<1>2. JobFits'
  BY LiveNames DEF JobFits
<1>3. EmptyMemory'
  BY LiveNames DEF EmptyMemory, JobFits
<1>4. NamesOnce'
  BY LiveNames DEF NamesOnce, Live, Kept
<1>5. FilesComplete'
  BY LiveNames DEF FilesComplete, AlwaysLoadable, Loadable, Live
<1>6. NamesKnown'
  <2>1. Kept = {} /\ Live = {} /\ Live' = {}
    BY NothingListed DEF FilesComplete, EmptyMemory, Live, Kept
  <2>2. pc' = "createLog" /\ job'.op = "create"
    OBVIOUS
  <2> QED BY <2>1, <2>2 DEF NamesKnown, NamesSurvive, Kept
<1>7. NamesSurvive'
  BY LiveNames DEF NamesSurvive, Live, Kept
<1>8. BasesRight'
  BY LiveNames DEF BasesRight
<1>9. TransactionsRight'
  BY LiveNames DEF TransactionsRight
<1> QED BY <1>1, <1>2, <1>3, <1>4, <1>5, <1>6, <1>7, <1>8, <1>9

(* The log is created next to the new configuration.                      *)
LEMMA CreateLogStep ==
    ASSUME CatalogInv, CreateLog
    PROVE  CatalogInv'
<1> USE DEF CatalogInv, CreateLog, Goto, files, memory, history, NoJob, NoConfig
<1>1. TypeOK'
  BY LiveNames DEF TypeOK, Points, Ops
<1>2. JobFits'
  BY LiveNames DEF JobFits
<1>3. EmptyMemory'
  BY LiveNames DEF EmptyMemory, JobFits
<1>4. NamesOnce'
  BY LiveNames DEF NamesOnce, Live, Kept
<1>5. FilesComplete'
  BY LiveNames DEF FilesComplete, AlwaysLoadable, Loadable, Live
<1>6. NamesKnown'
  BY LiveNames DEF NamesKnown, Live, Kept
<1>7. NamesSurvive'
  BY LiveNames DEF NamesSurvive, Live, Kept
<1>8. BasesRight'
  BY LiveNames DEF BasesRight
<1>9. TransactionsRight'
  BY LiveNames DEF TransactionsRight
<1> QED BY <1>1, <1>2, <1>3, <1>4, <1>5, <1>6, <1>7, <1>8, <1>9

(* Loading takes what the config file says.                               *)
LEMMA LoadConfigStep ==
    ASSUME CatalogInv, LoadConfig
    PROVE  CatalogInv'
<1>0. /\ storages' = config.storages /\ views' = config.views
      /\ Live' = Kept /\ Kept' = Kept /\ Kept \subseteq Names
      /\ pc = "down" /\ pc' = "serve" /\ job = NoJob
  BY LiveNames DEF CatalogInv, LoadConfig, Goto, files, Live, Kept, Names, TypeOK
<1> USE DEF CatalogInv, LoadConfig, files
<1>1. TypeOK'
  <2>1. /\ storages' \in Seq(StorageNames \cup {NoName})
        /\ views' \in Seq(ViewNames \cup {NoName})
    BY <1>0, SeqWider DEF TypeOK
  <2>2. base' \in [ViewNames -> {Illegal} \cup DOMAIN storages']
    <3>1. \A v \in ViewNames :
              Index(storages', settings[v]) \in {Illegal} \cup DOMAIN storages'
      BY <2>1, IndexOf
    <3> QED BY <3>1
  <2>3. /\ accepted' \in [ViewNames -> SUBSET DOMAIN commits']
        /\ delivered' \in 0..Len(commits') /\ since' \in [ViewNames -> 0..Len(commits')]
    BY LenProperties DEF TypeOK
  <2>4. /\ DOMAIN submitted' \subseteq DOMAIN submits'
        /\ submitted' \in [DOMAIN submitted' -> {Illegal} \cup DOMAIN storages']
    BY <2>1, IndexOf
  <2>5. open' \subseteq DOMAIN storages'
    BY <1>0 DEF EmptyMemory
  <2> QED BY <1>0, <2>1, <2>2, <2>3, <2>4, <2>5 DEF TypeOK, Points
<1>2. JobFits'
  BY <1>0 DEF JobFits, NoJob
<1>3. EmptyMemory'
  BY <1>0 DEF EmptyMemory, NoJob
<1>4. NamesOnce'
  BY <1>0, LiveNames DEF NamesOnce
<1>5. FilesComplete'
  <2>1. Kept \subseteq descriptors
    BY DEF Loadable, Kept
  <2>2. \A v \in ViewNames \cap Kept : settings[v] # NoName
    BY LiveNames, NamesAssumption DEF Loadable, Kept
  <2>3. Loadable'
    BY DEF Loadable
  <2> QED BY <1>0, <2>1, <2>2, <2>3 DEF FilesComplete, AlwaysLoadable, Loadable
<1>6. NamesKnown'
  BY <1>0 DEF NamesKnown, NamesSurvive, Kept, NoJob
<1>7. NamesSurvive'
  BY <1>0 DEF NamesSurvive
<1>a. /\ storages' \in Seq(StorageNames) /\ Unique(storages')
      /\ submits \in Seq(StorageNames) /\ commits \in Seq(DOMAIN submits)
      /\ Range(storages') \subseteq dirs /\ NoName \notin StorageNames
  BY <1>0, NamesAssumption DEF NamesOnce, Kept, TypeOK
<1>b. /\ DOMAIN commits = 1..Len(commits) /\ Len(commits) \in Nat
      /\ \A k \in DOMAIN commits : commits[k] \in DOMAIN submits
      /\ \A n \in DOMAIN submits : submits[n] \in StorageNames
  BY <1>a, LenProperties, ElementOfSeq
<1>c. ASSUME NEW s \in StorageNames, Index(storages', s) # Illegal
      PROVE  /\ s \in dirs /\ Index(storages', s) \in DOMAIN storages'
             /\ storages'[Index(storages', s)] = s
  <2>1. s \in Range(storages')
    BY <1>a, <1>c, IndexOf
  <2> QED BY <1>a, <2>1, IndexOf
<1>d. \A s \in StorageNames : \A i \in DOMAIN storages' :
            storages'[i] = s => i = Index(storages', s)
  BY <1>a, IndexUnique
<1>e. \A r, s \in StorageNames :
            Index(storages', r) # Illegal =>
                (Index(storages', s) = Index(storages', r) <=> s = r)
  BY <1>c
<1>f. \A v \in ViewNames : base'[v] # Illegal =>
            /\ v \in Range(views') /\ base'[v] = Index(storages', settings[v])
            /\ settings[v] \in StorageNames
  <2> SUFFICES ASSUME NEW v \in ViewNames, base'[v] # Illegal
               PROVE  /\ v \in Range(views') /\ base'[v] = Index(storages', settings[v])
                      /\ settings[v] \in StorageNames
    OBVIOUS
  <2>1. v \in Range(views') /\ base'[v] = Index(storages', settings[v])
    OBVIOUS
  <2>2. settings[v] \in StorageNames
    BY <1>0, <2>1 DEF Loadable, TypeOK
  <2> QED BY <2>1, <2>2
<1>8. BasesRight'
  <2>1. ASSUME NEW v \in ViewNames, base'[v] # Illegal
        PROVE  /\ settings[v] \in dirs
               /\ storages'[base'[v]] = settings[v]
               /\ \A i \in DOMAIN storages' : storages'[i] = settings[v] => i = base'[v]
               /\ accepted'[v] = {k \in 0 + 1..Len(commits) :
                                    submits[commits[k]] = settings[v]}
    <3>1. accepted'[v] = {k \in DOMAIN commits :
                            Index(storages', submits[commits[k]]) = base'[v]}
      BY <1>f, <2>1
    <3>2. \A k \in DOMAIN commits :
                Index(storages', submits[commits[k]]) = base'[v]
                    <=> submits[commits[k]] = settings[v]
      BY <1>b, <1>e, <1>f, <2>1
    <3> QED BY <1>b, <1>c, <1>d, <1>f, <2>1, <3>1, <3>2
  <2>2. \A v \in ViewNames : v \notin dirs => accepted'[v] = {}
    BY <1>0 DEF NamesOnce, Kept
  <2>3. \A v \in ViewNames : since'[v] = 0
    BY <1>0 DEF EmptyMemory
  <2> QED BY <1>0, <1>b, <2>1, <2>2, <2>3 DEF BasesRight
<1>9. TransactionsRight'
  <2>1. ASSUME NEW n \in DOMAIN submitted'
        PROVE  /\ submitted'[n] = Index(storages', submits[n])
               /\ submits[n] \in StorageNames
    BY <1>b
  <2>2. ASSUME NEW n \in DOMAIN submitted', NEW v \in ViewNames, base'[v] # Illegal
        PROVE  submitted'[n] = base'[v] <=> submits[n] = settings[v]
    BY <1>e, <1>f, <2>1, <2>2
  <2>3. \A n \in DOMAIN submits : submits[n] \in dirs
    BY DEF TransactionsRight
  <2> QED BY <1>0, <1>c, <1>d, <2>1, <2>2, <2>3 DEF TransactionsRight
<1> QED BY <1>1, <1>2, <1>3, <1>4, <1>5, <1>6, <1>7, <1>8, <1>9

(* A crash leaves what is on disk.                                        *)
LEMMA CrashStep ==
    ASSUME CatalogInv, Crash
    PROVE  CatalogInv'
<1> USE DEF CatalogInv, Crash, Goto, files, memory, history, NoJob, NoConfig
<1>1. TypeOK'
  BY LiveNames DEF TypeOK, Points, Ops
<1>2. JobFits'
  BY LiveNames DEF JobFits
<1>3. EmptyMemory'
  BY LiveNames DEF EmptyMemory, JobFits
<1>4. NamesOnce'
  BY NothingListed DEF NamesOnce, Live, Kept
<1>5. FilesComplete'
  BY NothingListed DEF FilesComplete, AlwaysLoadable, Loadable, Live
<1>6. NamesKnown'
  BY LiveNames DEF NamesKnown, Live, Kept
<1>7. NamesSurvive'
  BY LiveNames DEF NamesSurvive, Live, Kept
<1>8. BasesRight'
  BY LiveNames DEF BasesRight
<1>9. TransactionsRight'
  BY LiveNames DEF TransactionsRight
<1> QED BY <1>1, <1>2, <1>3, <1>4, <1>5, <1>6, <1>7, <1>8, <1>9

(* The requests: what each does first, and the steps that follow.          *)
LEMMA CreateStorageStep ==
    ASSUME CatalogInv, NEW s \in StorageNames, CreateStorage(s)
    PROVE  CatalogInv'
<1>0. /\ s \in Names /\ s # NoName
      /\ pc = "serve" /\ pc' = "setupStorage"
      /\ job' \in [op : Ops, name : Names \cup {NoName},
                   base : StorageNames \cup {NoName}]
      /\ job = NoJob /\ job' # NoJob
      /\ job'.op = "storage" /\ job'.name = s /\ job'.base = NoName
      /\ told' \in [Names -> {"absent", "asked", "linked", "unlinked"}]
      /\ told'[s] = "asked" /\ \A n \in Names : n # s => told'[n] = told[n]
  <2>1. s \in Names /\ s # NoName
    BY NamesAssumption DEF Names
  <2> QED BY <2>1, Requested DEF CreateStorage, CatalogInv, Ops
<1> USE DEF CatalogInv, CreateStorage, files, memory, history
<1>1. TypeOK'
  <2>1. dirs' \subseteq Names
    BY <1>0 DEF TypeOK
  <2> QED BY <1>0, <2>1 DEF TypeOK, Points
<1>2. JobFits'
  BY <1>0 DEF JobFits
<1>3. EmptyMemory'
  BY <1>0 DEF EmptyMemory
<1>4. NamesOnce'
  <2>1. s \notin Live \cup Kept
    BY <1>0 DEF NamesOnce
  <2>2. Live' = Live /\ Kept' = Kept
    BY DEF Live, Kept
  <2> QED BY <1>0, <2>1, <2>2 DEF NamesOnce
<1>5. FilesComplete'
  BY <1>0 DEF FilesComplete, AlwaysLoadable, Loadable, Live, NoJob
<1>6. NamesKnown'
  BY <1>0 DEF NamesKnown, Live, Kept, NoJob
<1>7. NamesSurvive'
  BY <1>0 DEF NamesSurvive
<1>8. BasesRight'
  BY <1>0 DEF BasesRight
<1>9. TransactionsRight'
  BY <1>0 DEF TransactionsRight
<1> QED BY <1>1, <1>2, <1>3, <1>4, <1>5, <1>6, <1>7, <1>8, <1>9

(* A storage gets the next index: its name is new.                        *)
LEMMA SetupStorageStep ==
    ASSUME CatalogInv, SetupStorage
    PROVE  CatalogInv'
<1>0. /\ pc = "setupStorage" /\ pc' = "describe" /\ job' = job
      /\ job.op = "storage" /\ job.name \in StorageNames /\ job.name # NoName
      /\ job.name \notin Live \cup Kept /\ job.name \in dirs
      /\ storages \in Seq(StorageNames \cup {NoName})
      /\ storages' = Append(storages, job.name) /\ views' = views
  BY NamesAssumption DEF CatalogInv, SetupStorage, Goto, JobFits, NamesOnce, TypeOK, files
<1>a. /\ storages' \in Seq(StorageNames \cup {NoName})
      /\ DOMAIN storages' = DOMAIN storages \cup {Len(storages) + 1}
      /\ Len(storages) + 1 \notin DOMAIN storages
      /\ \A i \in DOMAIN storages : storages'[i] = storages[i]
      /\ storages'[Len(storages) + 1] = job.name
      /\ Range(storages') = Range(storages) \cup {job.name}
      /\ Unique(storages) => Unique(storages')
  BY <1>0, Appended DEF Live
<1>b. Live' = Live \cup {job.name} /\ Kept' = Kept
  BY <1>0, <1>a DEF Live, Kept, SetupStorage, files
<1> USE DEF CatalogInv, SetupStorage, files, history
<1>1. TypeOK'
  BY <1>0, <1>a DEF TypeOK, Points
<1>2. JobFits'
  BY <1>0 DEF JobFits
<1>3. EmptyMemory'
  BY <1>0 DEF EmptyMemory
<1>4. NamesOnce'
  BY <1>0, <1>a, <1>b DEF NamesOnce
<1>5. FilesComplete'
  <2>1. ViewNames \cap Live' = ViewNames \cap Live
    BY <1>0, <1>b, NamesAssumption
  <2> QED BY <1>0, <1>b, <2>1 DEF FilesComplete, AlwaysLoadable, Loadable
<1>6. NamesKnown'
  <2>1. told[job.name] = "asked"
    BY <1>0 DEF JobFits
  <2> QED BY <1>0, <1>b, <2>1 DEF NamesKnown
<1>7. NamesSurvive'
  BY <1>0 DEF NamesSurvive
<1>8. BasesRight'
  <2>1. base \in [ViewNames -> {Illegal} \cup DOMAIN storages]
    BY DEF TypeOK
  <2> QED BY <1>0, <1>a, <2>1 DEF BasesRight
<1>9. TransactionsRight'
  <2>1. DOMAIN submitted \subseteq DOMAIN submits /\ submits \in Seq(StorageNames)
        /\ \A n \in DOMAIN submitted : submitted[n] \in {Illegal} \cup DOMAIN storages
    BY DEF TypeOK
  <2>2. \A n \in DOMAIN submits : submits[n] \in StorageNames
    BY <2>1, ElementOfSeq, LenProperties
  <2>3. UNCHANGED <<submits, submitted, base, settings, dirs>>
    OBVIOUS
  <2>4. TransactionsRight /\ pc = "setupStorage" /\ pc' # "setupStorage"
    BY <1>0
  <2> HIDE DEF CatalogInv, SetupStorage
  <2> QED BY <1>a, <2>1, <2>3, <2>4 DEF TransactionsRight
<1> QED BY <1>1, <1>2, <1>3, <1>4, <1>5, <1>6, <1>7, <1>8, <1>9

(* The directory of a view is made.                                       *)
LEMMA CreateViewStep ==
    ASSUME CatalogInv, NEW v \in ViewNames, NEW s \in StorageNames, CreateView(v, s)
    PROVE  CatalogInv'
<1>0. /\ v \in Names /\ v # NoName
      /\ pc = "serve" /\ pc' = "setupView"
      /\ job' \in [op : Ops, name : Names \cup {NoName},
                   base : StorageNames \cup {NoName}]
      /\ job = NoJob /\ job' # NoJob
      /\ job'.op = "view" /\ job'.name = v /\ job'.base = s
      /\ told' \in [Names -> {"absent", "asked", "linked", "unlinked"}]
      /\ told'[v] = "asked" /\ \A n \in Names : n # v => told'[n] = told[n]
  <2>1. v \in Names /\ v # NoName
    BY NamesAssumption DEF Names
  <2> QED BY <2>1, Requested DEF CreateView, CatalogInv, Ops
<1> USE DEF CatalogInv, CreateView, files, memory, history
<1>1. TypeOK'
  <2>1. dirs' \subseteq Names
    BY <1>0 DEF TypeOK
  <2> QED BY <1>0, <2>1 DEF TypeOK, Points
<1>2. JobFits'
  BY <1>0 DEF JobFits
<1>3. EmptyMemory'
  BY <1>0 DEF EmptyMemory
<1>4. NamesOnce'
  <2>1. v \notin Live \cup Kept
    BY <1>0 DEF NamesOnce
  <2>2. Live' = Live /\ Kept' = Kept
    BY DEF Live, Kept
  <2> QED BY <1>0, <2>1, <2>2 DEF NamesOnce
<1>5. FilesComplete'
  BY <1>0 DEF FilesComplete, AlwaysLoadable, Loadable, Live, NoJob
<1>6. NamesKnown'
  BY <1>0 DEF NamesKnown, Live, Kept, NoJob
<1>7. NamesSurvive'
  BY <1>0 DEF NamesSurvive
<1>8. BasesRight'
  BY <1>0 DEF BasesRight
<1>9. TransactionsRight'
  BY <1>0 DEF TransactionsRight
<1> QED BY <1>1, <1>2, <1>3, <1>4, <1>5, <1>6, <1>7, <1>8, <1>9

(* A view gets its settings and the index of its storage.                 *)
LEMMA SetupViewStep ==
    ASSUME CatalogInv, SetupView
    PROVE  CatalogInv'
<1>0. /\ pc = "setupView" /\ pc' = "describe" /\ job' = job
      /\ job.op = "view" /\ job.name \in ViewNames /\ job.name # NoName
      /\ job.base \in StorageNames /\ job.base # NoName
      /\ job.name \notin Live \cup Kept /\ job.name \in dirs
      /\ views \in Seq(ViewNames \cup {NoName})
      /\ views' = Append(views, job.name) /\ storages' = storages
  BY NamesAssumption DEF CatalogInv, SetupView, Goto, JobFits, NamesOnce, TypeOK
<1>a. /\ views' \in Seq(ViewNames \cup {NoName})
      /\ Range(views') = Range(views) \cup {job.name}
      /\ Unique(views) => Unique(views')
  BY <1>0, Appended DEF Live
<1>b. Live' = Live \cup {job.name} /\ Kept' = Kept
  BY <1>0, <1>a DEF Live, Kept, SetupView
<1>c. /\ settings \in [ViewNames -> StorageNames \cup {NoName}]
      /\ settings'[job.name] = job.base
      /\ \A v \in ViewNames : v # job.name => settings'[v] = settings[v]
      /\ settings' \in [ViewNames -> StorageNames \cup {NoName}]
  BY <1>0 DEF SetupView, CatalogInv, TypeOK
<1>d. /\ Index(storages, job.base) \in {Illegal} \cup DOMAIN storages
      /\ base'[job.name] = Index(storages, job.base)
      /\ \A v \in ViewNames : v # job.name => base'[v] = base[v]
      /\ base' \in [ViewNames -> {Illegal} \cup DOMAIN storages]
  BY <1>0, IndexOf DEF SetupView, CatalogInv, TypeOK
<1>e. /\ delivered \in Nat /\ since'[job.name] = delivered
      /\ \A v \in ViewNames : v # job.name => since'[v] = since[v]
      /\ since' \in [ViewNames -> 0..Len(commits)]
  BY <1>0, LenProperties DEF SetupView, CatalogInv, TypeOK
<1> USE DEF CatalogInv, SetupView, transactions
<1>1. TypeOK'
  BY <1>0, <1>a, <1>c, <1>d, <1>e DEF TypeOK, Points
<1>2. JobFits'
  BY <1>0 DEF JobFits
<1>3. EmptyMemory'
  BY <1>0 DEF EmptyMemory
<1>4. NamesOnce'
  BY <1>0, <1>a, <1>b DEF NamesOnce
<1>5. FilesComplete'
  <2>1. Range(config.views) \subseteq ViewNames /\ job.name \notin Range(config.views)
    BY <1>0, LiveNames DEF Kept
  <2>2. AlwaysLoadable'
    BY <1>0, <1>c, <2>1 DEF FilesComplete, AlwaysLoadable, Loadable
  <2> QED BY <1>0, <1>b, <1>c, <2>2 DEF FilesComplete
<1>6. NamesKnown'
  <2>1. told[job.name] = "asked"
    BY <1>0 DEF JobFits
  <2> QED BY <1>0, <1>b, <2>1 DEF NamesKnown
<1>7. NamesSurvive'
  BY <1>0 DEF NamesSurvive
<1>8. BasesRight'
  <2>1. ASSUME NEW v \in ViewNames, v # job.name
        PROVE  /\ settings'[v] = settings[v] /\ base'[v] = base[v] /\ since'[v] = since[v]
               /\ v \in Range(views') <=> v \in Range(views)
    BY <1>a, <1>c, <1>d, <1>e, <2>1
  <2>2. accepted[job.name] = {}
    BY <1>0 DEF BasesRight
  <2>3. {k \in delivered + 1..delivered : submits[commits[k]] = settings'[job.name]} = {}
    BY <1>e
  <2>4. CASE Index(storages, job.base) = Illegal
    BY <1>0, <1>d, <1>e, <2>1, <2>2, <2>4 DEF BasesRight
  <2>5. CASE Index(storages, job.base) # Illegal
    <3>1. /\ storages \in Seq(StorageNames \cup {NoName}) /\ Unique(storages)
          /\ Live \ {NoName} \subseteq dirs
      BY DEF TypeOK, NamesOnce
    <3>2. /\ job.base \in Range(storages)
          /\ storages[Index(storages, job.base)] = job.base
          /\ \A i \in DOMAIN storages :
                storages[i] = job.base => i = Index(storages, job.base)
      BY <1>0, <2>5, <3>1, IndexOf, IndexUnique
    <3>3. job.base \in dirs
      BY <1>0, <3>1, <3>2 DEF Live
    <3> QED BY <1>0, <1>c, <1>d, <1>e, <2>1, <2>2, <2>3, <3>2, <3>3 DEF BasesRight
  <2> QED BY <2>4, <2>5
<1>9. TransactionsRight'
  <2>1. DOMAIN submitted \subseteq DOMAIN submits /\ submits \in Seq(StorageNames)
        /\ \A n \in DOMAIN submitted : submitted[n] \in {Illegal} \cup DOMAIN storages
    BY DEF TypeOK
  <2>2. \A n \in DOMAIN submits : submits[n] \in StorageNames
    BY <2>1, ElementOfSeq, LenProperties
  <2>3. storages \in Seq(StorageNames \cup {NoName}) /\ TransactionsRight
    BY DEF TypeOK
  <2>4. Index(storages, job.base) # Illegal =>
            /\ Index(storages, job.base) \in DOMAIN storages
            /\ storages[Index(storages, job.base)] = job.base
    BY <2>3, IndexOf
  <2>5. ASSUME NEW n \in DOMAIN submitted, base'[job.name] # Illegal
        PROVE  submitted[n] = base'[job.name] <=> submits[n] = job.base
    <3>1. /\ submitted[n] # Illegal => storages[submitted[n]] \in {submits[n], NoName}
          /\ \A i \in DOMAIN storages : storages[i] = submits[n] => i = submitted[n]
      BY <2>3 DEF TransactionsRight
    <3> QED BY <1>0, <1>d, <2>4, <2>5, <3>1
  <2>6. \A v \in ViewNames : v # job.name =>
            settings'[v] = settings[v] /\ base'[v] = base[v]
    BY <1>c, <1>d
  <2>7. UNCHANGED <<submits, submitted, storages, dirs, job>> /\ pc' # "setupStorage"
    BY <1>0
  <2>8. settings'[job.name] = job.base
    BY <1>c
  <2>9. ASSUME NEW n \in DOMAIN submitted, NEW v \in ViewNames, base'[v] # Illegal
        PROVE  submitted[n] = base'[v] <=> submits[n] = settings'[v]
    <3>1. CASE v = job.name
      BY <2>5, <2>8, <2>9, <3>1
    <3>2. CASE v # job.name
      BY <2>3, <2>6, <2>9, <3>2 DEF TransactionsRight
    <3> QED BY <3>1, <3>2
  <2> HIDE DEF CatalogInv, SetupView
  <2> QED BY <2>3, <2>7, <2>9 DEF TransactionsRight
<1> QED BY <1>1, <1>2, <1>3, <1>4, <1>5, <1>6, <1>7, <1>8, <1>9

(* The descriptor is written before the configuration is.                 *)
LEMMA DescribeStep ==
    ASSUME CatalogInv, Describe
    PROVE  CatalogInv'
<1> USE DEF CatalogInv, Describe, Goto, files, memory, history, NoJob, NoConfig
<1>1. TypeOK'
  <2>1. job.name \in Names
    BY DEF JobFits, Names
  <2> QED BY <2>1 DEF TypeOK, Points
<1>2. JobFits'
  BY LiveNames DEF JobFits
<1>3. EmptyMemory'
  BY LiveNames DEF EmptyMemory, JobFits
<1>4. NamesOnce'
  BY LiveNames DEF NamesOnce, Live, Kept
<1>5. FilesComplete'
  BY LiveNames DEF FilesComplete, AlwaysLoadable, Loadable, Live
<1>6. NamesKnown'
  BY LiveNames DEF NamesKnown, Live, Kept
<1>7. NamesSurvive'
  BY LiveNames DEF NamesSurvive, Live, Kept
<1>8. BasesRight'
  BY LiveNames DEF BasesRight
<1>9. TransactionsRight'
  BY LiveNames DEF TransactionsRight
<1> QED BY <1>1, <1>2, <1>3, <1>4, <1>5, <1>6, <1>7, <1>8, <1>9

(* An unlinked storage leaves its index to nobody.                        *)
LEMMA UnlinkStorageStep ==
    ASSUME CatalogInv, NEW s \in StorageNames, UnlinkStorage(s)
    PROVE  CatalogInv'
<1>0. /\ s \in Names /\ s # NoName
      /\ pc = "serve" /\ pc' = "truncate"
      /\ job' \in [op : Ops, name : Names \cup {NoName},
                   base : StorageNames \cup {NoName}]
      /\ job = NoJob /\ job' # NoJob
      /\ job'.op = "unlink" /\ job'.name = s /\ job'.base = NoName
      /\ told' \in [Names -> {"absent", "asked", "linked", "unlinked"}]
      /\ told'[s] = "asked" /\ \A n \in Names : n # s => told'[n] = told[n]
  <2>1. s \in Names /\ s # NoName
    BY NamesAssumption DEF Names
  <2> QED BY <2>1, Requested DEF UnlinkStorage, CatalogInv, Ops
<1>a. /\ storages \in Seq(StorageNames \cup {NoName}) /\ Unique(storages)
      /\ Index(storages, s) # Illegal /\ views' = views
      /\ storages' = Without(storages, s)
  BY DEF CatalogInv, UnlinkStorage, TypeOK, NamesOnce, Without
<1>b. /\ storages' \in Seq(StorageNames \cup {NoName}) /\ Unique(storages')
      /\ DOMAIN storages' = DOMAIN storages
      /\ \A i \in DOMAIN storages : storages'[i] \in {storages[i], NoName}
      /\ Range(storages') \ {NoName} = (Range(storages) \ {NoName}) \ {s}
      /\ s \notin Range(storages')
  <2>1. storages \in Seq(StorageNames \cup {NoName}) /\ Unique(storages)
    BY <1>a
  <2>2. s \in StorageNames /\ s # NoName /\ Index(storages, s) # Illegal
    BY <1>0, <1>a
  <2>3. storages' = Without(storages, s)
    BY <1>a
  <2>4. Unique(storages')
    BY <2>1, <2>2, <2>3, Unlinked
  <2> QED BY <2>1, <2>2, <2>3, <2>4, Unlinked
<1>c. /\ Live' \ {NoName} = (Live \ {NoName}) \ {s} /\ s \notin Live'
      /\ Kept' = Kept /\ \A n \in Names : n # s => (n \in Live' <=> n \in Live)
  <2>1. s \notin Range(views')
    BY <1>0, <1>a, LiveNames, NamesAssumption DEF CatalogInv
  <2>2. Live = Range(storages) \cup Range(views)
        /\ Live' = Range(storages') \cup Range(views)
    BY <1>a DEF Live
  <2>3. Kept' = Kept
    BY DEF Kept, UnlinkStorage, files
  <2>4. \A n : n # NoName => (n \in Live' <=> n \in Live /\ n # s)
    BY <1>b, <2>1, <2>2, <1>a
  <2> QED BY <1>0, <2>1, <2>2, <2>3, <2>4, <1>b, LiveNames DEF CatalogInv
<1> USE DEF CatalogInv, UnlinkStorage, files, memory, history
<1>1. TypeOK'
  BY <1>0, <1>a, <1>b DEF TypeOK, Points
<1>2. JobFits'
  BY <1>0 DEF JobFits
<1>3. EmptyMemory'
  BY <1>0 DEF EmptyMemory
<1>4. NamesOnce'
  BY <1>0, <1>a, <1>b, <1>c DEF NamesOnce
<1>5. FilesComplete'
  <2>1. ViewNames \cap Live' \subseteq ViewNames \cap Live
    BY <1>c, NamesAssumption DEF Names
  <2> QED BY <1>0, <1>c, <2>1 DEF FilesComplete, AlwaysLoadable, Loadable
<1>6. NamesKnown'
  BY <1>0, <1>c DEF NamesKnown
<1>7. NamesSurvive'
  BY <1>0 DEF NamesSurvive
<1>8. BasesRight'
  <2>1. base \in [ViewNames -> {Illegal} \cup DOMAIN storages]
    BY DEF TypeOK
  <2>2. \A v \in ViewNames : base[v] # Illegal => settings[v] # NoName
    BY NamesAssumption DEF BasesRight, TypeOK, Names
  <2> QED BY <1>0, <1>a, <1>b, <2>1, <2>2 DEF BasesRight
<1>9. TransactionsRight'
  <2>1. DOMAIN submitted \subseteq DOMAIN submits /\ submits \in Seq(StorageNames)
        /\ \A n \in DOMAIN submitted : submitted[n] \in {Illegal} \cup DOMAIN storages
    BY DEF TypeOK
  <2>2. \A n \in DOMAIN submits : submits[n] \in StorageNames
    BY <2>1, ElementOfSeq, LenProperties
  <2>3. \A n \in DOMAIN submits : submits[n] # NoName
    BY <2>2, NamesAssumption
  <2>4. UNCHANGED <<submits, submitted, base, settings, dirs>>
    OBVIOUS
  <2>5. TransactionsRight
    OBVIOUS
  <2>6. pc' # "setupStorage"
    BY <1>0
  <2> HIDE DEF CatalogInv, UnlinkStorage
  <2> QED BY <1>b, <2>1, <2>3, <2>4, <2>5, <2>6 DEF TransactionsRight
<1> QED BY <1>1, <1>2, <1>3, <1>4, <1>5, <1>6, <1>7, <1>8, <1>9

(* So does an unlinked view.                                              *)
LEMMA UnlinkViewStep ==
    ASSUME CatalogInv, NEW v \in ViewNames, UnlinkView(v)
    PROVE  CatalogInv'
<1>0. /\ v \in Names /\ v # NoName
      /\ pc = "serve" /\ pc' = "truncate"
      /\ job' \in [op : Ops, name : Names \cup {NoName},
                   base : StorageNames \cup {NoName}]
      /\ job = NoJob /\ job' # NoJob
      /\ job'.op = "unlink" /\ job'.name = v /\ job'.base = NoName
      /\ told' \in [Names -> {"absent", "asked", "linked", "unlinked"}]
      /\ told'[v] = "asked" /\ \A n \in Names : n # v => told'[n] = told[n]
  <2>1. v \in Names /\ v # NoName
    BY NamesAssumption DEF Names
  <2> QED BY <2>1, Requested DEF UnlinkView, CatalogInv, Ops
<1>a. /\ views \in Seq(ViewNames \cup {NoName}) /\ Unique(views)
      /\ Index(views, v) # Illegal /\ storages' = storages
      /\ views' = Without(views, v)
  BY DEF CatalogInv, UnlinkView, TypeOK, NamesOnce, Without
<1>b. /\ views' \in Seq(ViewNames \cup {NoName}) /\ Unique(views')
      /\ DOMAIN views' = DOMAIN views
      /\ \A i \in DOMAIN views : views'[i] \in {views[i], NoName}
      /\ Range(views') \ {NoName} = (Range(views) \ {NoName}) \ {v}
      /\ v \notin Range(views')
  <2>1. views \in Seq(ViewNames \cup {NoName}) /\ Unique(views)
    BY <1>a
  <2>2. v \in ViewNames /\ v # NoName /\ Index(views, v) # Illegal
    BY <1>0, <1>a
  <2>3. views' = Without(views, v)
    BY <1>a
  <2>4. Unique(views')
    BY <2>1, <2>2, <2>3, Unlinked
  <2> QED BY <2>1, <2>2, <2>3, <2>4, Unlinked
<1>c. /\ Live' \ {NoName} = (Live \ {NoName}) \ {v} /\ v \notin Live'
      /\ Kept' = Kept /\ \A n \in Names : n # v => (n \in Live' <=> n \in Live)
  <2>1. v \notin Range(storages')
    BY <1>0, <1>a, LiveNames, NamesAssumption DEF CatalogInv
  <2>2. Live = Range(views) \cup Range(storages)
        /\ Live' = Range(views') \cup Range(storages)
    BY <1>a DEF Live
  <2>3. Kept' = Kept
    BY DEF Kept, UnlinkView, files
  <2>4. \A n : n # NoName => (n \in Live' <=> n \in Live /\ n # v)
    BY <1>b, <2>1, <2>2, <1>a
  <2> QED BY <1>0, <2>1, <2>2, <2>3, <2>4, <1>b, LiveNames DEF CatalogInv
<1> USE DEF CatalogInv, UnlinkView, files, memory, history
<1>1. TypeOK'
  BY <1>0, <1>a, <1>b DEF TypeOK, Points
<1>2. JobFits'
  BY <1>0 DEF JobFits
<1>3. EmptyMemory'
  BY <1>0 DEF EmptyMemory
<1>4. NamesOnce'
  BY <1>0, <1>a, <1>b, <1>c DEF NamesOnce
<1>5. FilesComplete'
  <2>1. ViewNames \cap Live' \subseteq ViewNames \cap Live
    BY <1>c, NamesAssumption DEF Names
  <2> QED BY <1>0, <1>c, <2>1 DEF FilesComplete, AlwaysLoadable, Loadable
<1>6. NamesKnown'
  BY <1>0, <1>c DEF NamesKnown
<1>7. NamesSurvive'
  BY <1>0 DEF NamesSurvive
<1>8. BasesRight'
  <2>1. \A w \in ViewNames : w \in Range(views') => w \in Range(views)
    BY <1>b, NamesAssumption DEF Names
  <2>2. /\ UNCHANGED <<settings, dirs, storages, base, accepted, since>>
        /\ UNCHANGED <<submits, commits, delivered>>
        /\ pc' \notin {"setupStorage", "setupView"} /\ pc \notin {"setupStorage", "setupView"}
    BY <1>0
  <2>3. BasesRight
    OBVIOUS
  <2> HIDE DEF CatalogInv, UnlinkView
  <2> QED BY <2>1, <2>2, <2>3 DEF BasesRight
<1>9. TransactionsRight'
  BY <1>0 DEF TransactionsRight
<1> QED BY <1>1, <1>2, <1>3, <1>4, <1>5, <1>6, <1>7, <1>8, <1>9

(* The rewriting of config.                                                *)
LEMMA TruncateStep ==
    ASSUME CatalogInv, Truncate
    PROVE  CatalogInv'
<1>0. /\ pc = "truncate" /\ pc' = "write" /\ job' = job
      /\ storages' = storages /\ views' = views /\ Live' = Live
      /\ config' = [NoConfig EXCEPT !.exists = TRUE]
  BY DEF Truncate, Goto, memory, Live
<1>a. /\ config'.exists = TRUE /\ config'.storages = <<>> /\ config'.views = <<>>
      /\ Kept' = {} /\ Range(config'.storages) = {} /\ Range(config'.views) = {}
  BY <1>0, NothingListed DEF NoConfig, Kept
<1>1. TypeOK'
  <2>1. /\ UNCHANGED <<prepared, logFile, dirs, descriptors, settings, submits, commits>>
        /\ UNCHANGED <<job, storages, views, base, open, submitted, delivered>>
        /\ UNCHANGED history
    BY DEF Truncate, memory
  <2>2. {prepared, logFile, torn} \subseteq BOOLEAN /\ config'.exists \in BOOLEAN
    BY <1>a DEF CatalogInv, TypeOK
  <2>3. config'.storages \in Seq(StorageNames) /\ config'.views \in Seq(ViewNames)
    BY <1>a, NothingListed
  <2>4. pc' \in Points /\ pc \notin {"down", "serve"} /\ pc' \notin {"down", "serve"}
    BY <1>0 DEF Points
  <2>5. (job' = NoJob) <=> pc' \in {"down", "serve"}
    BY <2>1, <2>4 DEF CatalogInv, TypeOK, NoJob
  <2>6. TypeOK
    BY DEF CatalogInv
  <2> QED BY <2>1, <2>2, <2>3, <2>4, <2>5, <2>6 DEF TypeOK, history
<1> USE DEF CatalogInv, Truncate, memory, history
<1>2. JobFits'
  BY <1>0 DEF JobFits
<1>3. EmptyMemory'
  BY <1>0 DEF EmptyMemory
<1>4. NamesOnce'
  BY <1>0, <1>a, NothingListed DEF NamesOnce
<1>5. FilesComplete'
  BY <1>0, <1>a DEF FilesComplete, AlwaysLoadable, Loadable
<1>6. NamesKnown'
  BY <1>0 DEF NamesKnown
<1>7. NamesSurvive'
  BY <1>0 DEF NamesSurvive
<1>8. BasesRight'
  BY <1>0 DEF BasesRight
<1>9. TransactionsRight'
  BY <1>0 DEF TransactionsRight
<1> QED BY <1>1, <1>2, <1>3, <1>4, <1>5, <1>6, <1>7, <1>8, <1>9

(* The configuration has the names that are linked.                       *)
LEMMA WriteConfigStep ==
    ASSUME CatalogInv, WriteConfig
    PROVE  CatalogInv'
<1>0. /\ pc = "write" /\ pc' = "answer" /\ job' = job
      /\ storages' = storages /\ views' = views /\ Live' = Live
      /\ config' = [exists |-> TRUE, storages |-> Linked(storages),
                    views |-> Linked(views)]
  BY DEF WriteConfig, Goto, memory, Live
<1>a. /\ config'.storages \in Seq(StorageNames) /\ config'.views \in Seq(ViewNames)
      /\ Range(config'.storages) = Range(storages) \ {NoName}
      /\ Range(config'.views) = Range(views) \ {NoName}
      /\ Unique(config'.storages) /\ Unique(config'.views) /\ config'.exists = TRUE
  <2>1. /\ storages \in Seq(StorageNames \cup {NoName}) /\ Unique(storages)
        /\ views \in Seq(ViewNames \cup {NoName}) /\ Unique(views)
        /\ NoName \notin StorageNames /\ NoName \notin ViewNames
    BY NamesAssumption DEF CatalogInv, TypeOK, NamesOnce
  <2> QED BY <1>0, <2>1, LinkedKeeps
<1>b. Kept' = Live \ {NoName}
  BY <1>a DEF Kept, Live
<1> USE DEF CatalogInv, WriteConfig, memory, history
<1>1. TypeOK'
  BY <1>0, <1>a DEF TypeOK, Points, NoJob
<1>2. JobFits'
  BY <1>0 DEF JobFits
<1>3. EmptyMemory'
  BY <1>0 DEF EmptyMemory
<1>4. NamesOnce'
  BY <1>0, <1>a, <1>b DEF NamesOnce
<1>5. FilesComplete'
  <2>1. \A v \in Range(config'.views) : v \in ViewNames \cap Live
    BY <1>a, LiveNames DEF Live
  <2>2. Range(config'.storages) \cup Range(config'.views) \subseteq descriptors
    BY <1>0, <1>b DEF FilesComplete, Kept
  <2> QED BY <1>0, <1>a, <2>1, <2>2 DEF FilesComplete, AlwaysLoadable, Loadable
<1>6. NamesKnown'
  BY <1>0, <1>b DEF NamesKnown
<1>7. NamesSurvive'
  <2>1. \A n \in Names : n \in Kept' <=> n \in Live
    BY <1>b, LiveNames
  <2> QED BY <1>0, <2>1 DEF NamesSurvive, NamesKnown, Kept
<1>8. BasesRight'
  BY <1>0 DEF BasesRight
<1>9. TransactionsRight'
  BY <1>0 DEF TransactionsRight
<1> QED BY <1>1, <1>2, <1>3, <1>4, <1>5, <1>6, <1>7, <1>8, <1>9

(* The answer, from which on clients rely on it.                           *)
LEMMA AnswerStep ==
    ASSUME CatalogInv, Answer
    PROVE  CatalogInv'
<1>0. /\ pc = "answer" /\ job' = NoJob /\ job # NoJob
      /\ Live' = Live /\ Kept' = Kept /\ Kept = Live \ {NoName}
  BY DEF Answer, Goto, files, memory, Live, Kept, CatalogInv, TypeOK, NamesKnown
<1>a. \/ job.op = "create" /\ pc' = "down" /\ told' = told
      \/ /\ job.op \in {"storage", "view", "unlink"} /\ pc' = "serve"
         /\ job.name \in Names
         /\ told' \in [Names -> {"absent", "asked", "linked", "unlinked"}]
         /\ told'[job.name] = IF job.op = "unlink" THEN "unlinked" ELSE "linked"
         /\ \A n \in Names : n # job.name => told'[n] = told[n]
         /\ job.name \in Live <=> job.op # "unlink"
  <2>1. job.op \in Ops /\ told \in [Names -> {"absent", "asked", "linked", "unlinked"}]
    BY DEF CatalogInv, TypeOK
  <2>2. CASE job.op = "create"
    BY <2>2 DEF Answer, Goto
  <2>3. CASE job.op # "create"
    <3>1. job.op \in {"storage", "view", "unlink"} /\ job.name \in Names
      BY <1>0, <2>1, <2>3 DEF Ops, CatalogInv, JobFits, Names
    <3>2. /\ pc' = "serve"
          /\ told' = [told EXCEPT ![job.name] =
                          IF job.op = "unlink" THEN "unlinked" ELSE "linked"]
      BY <2>3 DEF Answer, Goto
    <3>3. job.name \in Live <=> job.op # "unlink"
      BY <1>0, <3>1 DEF CatalogInv, NamesKnown
    <3> QED BY <2>1, <3>1, <3>2, <3>3
  <2> QED BY <2>2, <2>3
<1> USE DEF CatalogInv, files, memory
<1>1. TypeOK'
  BY <1>0, <1>a DEF Answer, TypeOK, Points, NoJob, Ops
<1>2. JobFits'
  BY <1>0, <1>a DEF JobFits, NoJob
<1>3. EmptyMemory'
  BY <1>0, <1>a DEF Answer, EmptyMemory, NoJob
<1>4. NamesOnce'
  BY <1>0, <1>a DEF Answer, NamesOnce
<1>5. FilesComplete'
  BY <1>0, <1>a DEF Answer, FilesComplete, AlwaysLoadable, Loadable
<1>6. NamesKnown'
  BY <1>0, <1>a DEF Answer, NamesKnown, NoJob
<1>7. NamesSurvive'
  <2>1. \A n \in Names : n \in Kept <=> n \in Live
    BY <1>0, LiveNames
  <2>2. torn' = torn /\ config' = config
    BY DEF Answer
  <2>3. CASE told' = told
    BY <1>0, <2>2, <2>3 DEF NamesSurvive
  <2>4. CASE job.op \in {"storage", "view", "unlink"}
    BY <1>0, <1>a, <2>1, <2>2, <2>4 DEF NamesSurvive, NamesKnown, Kept
  <2> QED BY <1>a, <2>3, <2>4
<1>8. BasesRight'
  BY <1>0, <1>a DEF Answer, BasesRight
<1>9. TransactionsRight'
  BY <1>0, <1>a DEF Answer, TransactionsRight
<1> QED BY <1>1, <1>2, <1>3, <1>4, <1>5, <1>6, <1>7, <1>8, <1>9

(* Transactions.  They concern neither names nor files nor the main thread, *)
LEMMA NamesUntouched ==
    ASSUME CatalogInv,
           UNCHANGED <<prepared, logFile, config, dirs, descriptors, settings, pc, job,
                       storages, views, base, since, told, torn>>
    PROVE  JobFits' /\ NamesOnce' /\ FilesComplete' /\ NamesKnown' /\ NamesSurvive'
<1>1. Live' = Live /\ Kept' = Kept
  BY DEF Live, Kept
<1>2. JobFits' /\ NamesOnce'
  BY <1>1 DEF CatalogInv, JobFits, NamesOnce, NoJob
<1>3. FilesComplete'
  BY <1>1 DEF CatalogInv, FilesComplete, AlwaysLoadable, Loadable, NoConfig
<1>4. NamesKnown' /\ NamesSurvive'
  BY <1>1 DEF CatalogInv, NamesKnown, NamesSurvive
<1> QED BY <1>2, <1>3, <1>4

(* and only a process that serves has them.                                *)
LEMMA Serving ==
    ASSUME CatalogInv, pc = "serve" \/ open # {} \/ DOMAIN submitted # {}
    PROVE  ~ (pc = "down" \/ job.op = "create")
<1>1. CASE pc = "serve"
  BY <1>1 DEF CatalogInv, JobFits
<1>2. CASE open # {} \/ DOMAIN submitted # {}
  BY <1>2 DEF CatalogInv, EmptyMemory
<1> QED BY <1>1, <1>2

(* A transaction takes the index the storage has, if it has one.           *)
LEMMA UpdateStep ==
    ASSUME CatalogInv, NEW type \in {"insert", "modify"}, NEW s \in StorageNames,
           Update(type, s)
    PROVE  CatalogInv'
<1>0. /\ ~ (pc = "down" \/ job.op = "create") /\ pc = "serve"
      /\ open' = open \cup {Index(storages, s)}
      /\ UNCHANGED <<files, pc, job, storages, views, base, submitted, delivered,
                     history>>
  BY Serving DEF Update
<1> USE DEF files, history
<1>1. TypeOK'
  <2>1. TypeOK
    BY DEF CatalogInv
  <2>2. Index(storages, s) \in {Illegal} \cup DOMAIN storages
    BY <2>1, IndexOf DEF TypeOK
  <2> QED BY <1>0, <2>1, <2>2 DEF TypeOK
<1>2. JobFits' /\ NamesOnce' /\ FilesComplete' /\ NamesKnown' /\ NamesSurvive'
  BY <1>0, NamesUntouched
<1>3. EmptyMemory'
  BY <1>0 DEF EmptyMemory
<1>4. BasesRight' /\ TransactionsRight'
  BY <1>0 DEF CatalogInv, BasesRight, TransactionsRight
<1> QED BY <1>1, <1>2, <1>3, <1>4 DEF CatalogInv

(* A submitted transaction keeps its index; the log has the name.          *)
LEMMA SubmitStep ==
    ASSUME CatalogInv, NEW i \in open, NEW type \in {"submit", "submitCommit"},
           Submit(type, i)
    PROVE  CatalogInv'
<1> DEFINE N == Len(submits) + 1
<1>0. /\ ~ (pc = "down" \/ job.op = "create")
      /\ i # Illegal /\ storages[i] # NoName /\ open' \subseteq open
      /\ delivered = Len(commits)
      /\ submits' = Append(submits, storages[i])
      /\ submitted' = [n \in DOMAIN submitted \cup {Len(submits')} |->
                            IF n = Len(submits') THEN i ELSE submitted[n]]
      /\ commits' = IF type = "submitCommit" THEN Append(commits, Len(submits'))
                                             ELSE commits
      /\ UNCHANGED <<prepared, logFile, config, dirs, descriptors, settings, pc, job,
                     storages, views, base, delivered, history>>
  BY Serving DEF Submit, LoopIdle
<1>t. TypeOK
  BY DEF CatalogInv
<1>a. i \in DOMAIN storages /\ storages[i] \in StorageNames
  <2>1. storages \in Seq(StorageNames \cup {NoName}) /\ i \in DOMAIN storages
    BY <1>0, <1>t DEF TypeOK
  <2> QED BY <1>0, <2>1, ElementOfSeq, LenProperties
<1>b. /\ submits' \in Seq(StorageNames) /\ Len(submits') = N
      /\ DOMAIN submits' = DOMAIN submits \cup {N} /\ N \notin DOMAIN submits
      /\ \A n \in DOMAIN submits : submits'[n] = submits[n]
      /\ submits'[N] = storages[i]
  BY <1>0, <1>t, <1>a, Appended DEF TypeOK
<1>c. /\ DOMAIN submitted' = DOMAIN submitted \cup {N} /\ submitted'[N] = i
      /\ DOMAIN submitted \subseteq DOMAIN submits
      /\ \A n \in DOMAIN submitted : submitted'[n] = submitted[n]
      /\ \A n \in DOMAIN submitted' : submitted'[n] \in {Illegal} \cup DOMAIN storages
      /\ submitted' \in [DOMAIN submitted' -> {Illegal} \cup DOMAIN storages]
  BY <1>0, <1>t, <1>a, <1>b DEF TypeOK
<1>d. /\ commits' \in Seq(DOMAIN submits') /\ Len(commits') \in Nat
      /\ Len(commits) \in Nat /\ Len(commits) <= Len(commits')
      /\ DOMAIN commits = 1..Len(commits) /\ DOMAIN commits' = 1..Len(commits')
      /\ \A k \in 1..Len(commits) :
            commits'[k] = commits[k] /\ commits[k] \in DOMAIN submits
  <2>1. /\ commits \in Seq(DOMAIN submits) /\ N \in DOMAIN submits'
        /\ commits \in Seq(DOMAIN submits')
    BY <1>t, <1>b, SeqWider DEF TypeOK
  <2>2. Append(commits, N) \in Seq(DOMAIN submits')
        /\ Len(Append(commits, N)) = Len(commits) + 1
        /\ \A k \in DOMAIN commits : Append(commits, N)[k] = commits[k]
    BY <2>1, Appended
  <2>3. commits' \in {commits, Append(commits, N)}
    BY <1>0, <1>b
  <2> QED BY <2>1, <2>2, <2>3, LenProperties, ElementOfSeq
<1> HIDE DEF N
<1> USE DEF history
<1>1. TypeOK'
  <2>1. accepted' \in [ViewNames -> SUBSET DOMAIN commits']
        /\ since' \in [ViewNames -> 0..Len(commits')] /\ delivered' \in 0..Len(commits')
    BY <1>0, <1>t, <1>d DEF TypeOK
  <2>2. DOMAIN submitted' \subseteq DOMAIN submits'
    BY <1>b, <1>c
  <2>3. open' \subseteq {Illegal} \cup DOMAIN storages'
    BY <1>0, <1>t DEF TypeOK
  <2> QED BY <1>0, <1>t, <1>b, <1>c, <1>d, <2>1, <2>2, <2>3 DEF TypeOK
<1>2. JobFits' /\ NamesOnce' /\ FilesComplete' /\ NamesKnown' /\ NamesSurvive'
  BY <1>0, NamesUntouched
<1>3. EmptyMemory'
  BY <1>0 DEF EmptyMemory
<1>4. BasesRight'
  <2>1. \A v \in ViewNames : since[v] \in Nat /\ delivered \in Nat
    BY <1>t DEF TypeOK
  <2>2. ASSUME NEW v \in ViewNames
        PROVE  {k \in since[v] + 1..delivered : submits'[commits'[k]] = settings[v]}
                 = {k \in since[v] + 1..delivered : submits[commits[k]] = settings[v]}
    <3>1. \A k \in since[v] + 1..delivered : k \in 1..Len(commits)
      BY <1>0, <1>d, <2>1
    <3> QED BY <1>b, <1>d, <3>1
  <2>3. BasesRight
    BY DEF CatalogInv
  <2> QED BY <1>0, <2>2, <2>3 DEF BasesRight
<1>5. TransactionsRight'
  <2>1. storages[i] \in dirs /\ (pc = "setupStorage" => storages[i] # job.name)
    <3>1. storages[i] \in Live \ {NoName}
      BY <1>0, <1>a DEF Live, Range
    <3> QED BY <3>1 DEF CatalogInv, NamesOnce
  <2>2. \A j \in DOMAIN storages : storages[j] = storages[i] => j = i
    BY <1>0, <1>a DEF CatalogInv, NamesOnce, Unique
  <2>3. \A v \in ViewNames : base[v] # Illegal => (i = base[v] <=> storages[i] = settings[v])
    BY <1>0, <1>a DEF CatalogInv, BasesRight
  <2>4. TransactionsRight
    BY DEF CatalogInv
  <2>5. ASSUME NEW n \in DOMAIN submits'
        PROVE  submits'[n] \in dirs' /\ (pc' = "setupStorage" => submits'[n] # job'.name)
    BY <1>0, <1>b, <2>1, <2>4 DEF TransactionsRight
  <2>6. ASSUME NEW n \in DOMAIN submitted'
        PROVE  /\ submitted'[n] # Illegal => storages[submitted'[n]] \in {submits'[n], NoName}
               /\ \A j \in DOMAIN storages : storages[j] = submits'[n] => j = submitted'[n]
               /\ \A v \in ViewNames :
                    base[v] # Illegal =>
                        (submitted'[n] = base[v] <=> submits'[n] = settings[v])
    <3>1. CASE n = N
      BY <1>b, <1>c, <2>2, <2>3, <3>1
    <3>2. CASE n \in DOMAIN submitted
      <4>1. submitted'[n] = submitted[n] /\ submits'[n] = submits[n]
        BY <1>b, <1>c, <3>2
      <4>2. /\ submitted[n] # Illegal => storages[submitted[n]] \in {submits[n], NoName}
            /\ \A j \in DOMAIN storages : storages[j] = submits[n] => j = submitted[n]
            /\ \A v \in ViewNames :
                    base[v] # Illegal =>
                        (submitted[n] = base[v] <=> submits[n] = settings[v])
        BY <2>4, <3>2 DEF TransactionsRight
      <4> QED BY <4>1, <4>2
    <3> QED BY <1>c, <3>1, <3>2
  <2>7. UNCHANGED <<storages, base, settings>>
    BY <1>0
  <2> QED BY <2>5, <2>6, <2>7 DEF TransactionsRight
<1> QED BY <1>1, <1>2, <1>3, <1>4, <1>5 DEF CatalogInv

(* One that is not submitted is gone.                                      *)
LEMMA AbandonStep ==
    ASSUME CatalogInv, NEW i \in open, Abandon(i)
    PROVE  CatalogInv'
<1>0. /\ open' \subseteq open
      /\ UNCHANGED <<files, pc, job, storages, views, base, submitted, delivered,
                     history>>
  BY DEF Abandon
<1> USE DEF files, history
<1>1. TypeOK'
  BY <1>0 DEF CatalogInv, TypeOK
<1>2. JobFits' /\ NamesOnce' /\ FilesComplete' /\ NamesKnown' /\ NamesSurvive'
  BY <1>0, NamesUntouched
<1>3. EmptyMemory'
  BY <1>0 DEF CatalogInv, EmptyMemory
<1>4. BasesRight' /\ TransactionsRight'
  BY <1>0 DEF CatalogInv, BasesRight, TransactionsRight
<1> QED BY <1>1, <1>2, <1>3, <1>4 DEF CatalogInv

(* A commit, which is not handed out yet.                                  *)
LEMMA CommitStep ==
    ASSUME CatalogInv, NEW n \in DOMAIN submitted, Commit(n)
    PROVE  CatalogInv'
<1>0. /\ ~ (pc = "down" \/ job.op = "create")
      /\ delivered = Len(commits) /\ commits' = Append(commits, n)
      /\ UNCHANGED <<prepared, logFile, config, dirs, descriptors, settings, submits,
                     pc, job, memory, history>>
  BY Serving DEF Commit, LoopIdle
<1>t. TypeOK
  BY DEF CatalogInv
<1>a. /\ commits' \in Seq(DOMAIN submits) /\ Len(commits') = Len(commits) + 1
      /\ DOMAIN commits = 1..Len(commits) /\ Len(commits) \in Nat
      /\ \A k \in DOMAIN commits : commits'[k] = commits[k]
      /\ DOMAIN commits' = DOMAIN commits \cup {Len(commits) + 1}
  <2>1. n \in DOMAIN submits /\ commits \in Seq(DOMAIN submits)
    BY <1>t DEF TypeOK
  <2> QED BY <1>0, <2>1, Appended, LenProperties
<1> USE DEF memory, history
<1>1. TypeOK'
  <2>1. /\ accepted' \in [ViewNames -> SUBSET DOMAIN commits']
        /\ since' \in [ViewNames -> 0..Len(commits')] /\ delivered' \in 0..Len(commits')
    BY <1>0, <1>t, <1>a DEF TypeOK
  <2> QED BY <1>0, <1>t, <1>a, <2>1 DEF TypeOK
<1>2. JobFits' /\ NamesOnce' /\ FilesComplete' /\ NamesKnown' /\ NamesSurvive'
  BY <1>0, NamesUntouched
<1>3. EmptyMemory'
  BY <1>0 DEF EmptyMemory
<1>4. BasesRight'
  <2>1. \A v \in ViewNames : since[v] \in Nat /\ delivered \in Nat
    BY <1>t DEF TypeOK
  <2>2. ASSUME NEW v \in ViewNames
        PROVE  {k \in since[v] + 1..delivered : submits[commits'[k]] = settings[v]}
                 = {k \in since[v] + 1..delivered : submits[commits[k]] = settings[v]}
    BY <1>0, <1>a, <2>1
  <2> QED BY <1>0, <2>2 DEF CatalogInv, BasesRight
<1>5. TransactionsRight'
  BY <1>0 DEF CatalogInv, TransactionsRight
<1> QED BY <1>1, <1>2, <1>3, <1>4, <1>5 DEF CatalogInv

(* What a transaction that is freed leaves.                                *)
LEMMA Freeing ==
    ASSUME TypeOK, NEW n \in DOMAIN submitted, Freed(n)
    PROVE  /\ DOMAIN submitted' \subseteq DOMAIN submitted
           /\ \A m \in DOMAIN submitted' : submitted'[m] = submitted[m]
           /\ submitted' \in [DOMAIN submitted' -> {Illegal} \cup DOMAIN storages]
<1>1. submitted \in [DOMAIN submitted -> {Illegal} \cup DOMAIN storages]
  BY DEF TypeOK
<1> QED BY <1>1 DEF Freed

(* Views are handed the commit: those on the storage have its index.       *)
LEMMA DeliverStep ==
    ASSUME CatalogInv, NEW n \in DOMAIN submitted, Deliver(n)
    PROVE  CatalogInv'
<1> DEFINE K == delivered + 1
<1>t. TypeOK
  BY DEF CatalogInv
<1>0. /\ ~ (pc = "down" \/ job.op = "create")
      /\ delivered < Len(commits) /\ commits[K] = n /\ delivered' = K
      /\ \A v \in ViewNames :
            accepted'[v] = IF v \in Range(views) /\ base[v] = submitted[n]
                           THEN accepted[v] \cup {K} ELSE accepted[v]
      /\ UNCHANGED <<files, pc, job, storages, views, base, open, since, told, torn>>
  BY Serving DEF Deliver
<1>a. /\ delivered \in Nat /\ Len(commits) \in Nat /\ DOMAIN commits = 1..Len(commits)
      /\ K \in DOMAIN commits
  <2>1. Len(commits) \in Nat /\ DOMAIN commits = 1..Len(commits) /\ delivered \in 0..Len(commits)
    BY <1>t, LenProperties DEF TypeOK
  <2> QED BY <1>0, <2>1
<1>b. /\ DOMAIN submitted' \subseteq DOMAIN submitted
      /\ \A m \in DOMAIN submitted' : submitted'[m] = submitted[m]
      /\ submitted' \in [DOMAIN submitted' -> {Illegal} \cup DOMAIN storages]
  BY <1>t, Freeing DEF Deliver
<1> USE DEF files
<1>1. TypeOK'
  <2>1. accepted' \in [ViewNames -> SUBSET DOMAIN commits']
    <3>1. accepted' = [v \in ViewNames |->
                        IF v \in Range(views) /\ base[v] = submitted[n]
                        THEN accepted[v] \cup {K} ELSE accepted[v]]
      BY DEF Deliver
    <3>2. \A v \in ViewNames : accepted[v] \subseteq DOMAIN commits
      BY <1>t DEF TypeOK
    <3> QED BY <1>0, <1>a, <3>1, <3>2
  <2>2. delivered' \in 0..Len(commits')
    BY <1>0, <1>a
  <2>3. DOMAIN submitted' \subseteq DOMAIN submits'
    BY <1>0, <1>t, <1>b DEF TypeOK
  <2> QED BY <1>0, <1>t, <1>b, <2>1, <2>2, <2>3 DEF TypeOK
<1>2. JobFits' /\ NamesOnce' /\ FilesComplete' /\ NamesKnown' /\ NamesSurvive'
  BY <1>0, NamesUntouched
<1>3. EmptyMemory'
  BY <1>0 DEF EmptyMemory
<1>4. BasesRight'
  <2>1. ASSUME NEW v \in ViewNames, v \in Range(views), base[v] # Illegal
        PROVE  accepted'[v] = {k \in since[v] + 1..K : submits[commits[k]] = settings[v]}
    <3>1. /\ since[v] \in Nat /\ since[v] <= delivered
          /\ accepted[v] = {k \in since[v] + 1..delivered :
                                submits[commits[k]] = settings[v]}
      BY <1>t, <2>1 DEF CatalogInv, BasesRight, TypeOK
    <3>2. base[v] = submitted[n] <=> submits[commits[K]] = settings[v]
      BY <1>0, <2>1 DEF CatalogInv, TransactionsRight
    <3>3. since[v] + 1..K = (since[v] + 1..delivered) \cup {K}
      BY <1>a, <3>1
    <3> HIDE DEF K
    <3> QED BY <1>0, <2>1, <3>1, <3>2, <3>3
  <2>2. ASSUME NEW v \in ViewNames, v \notin dirs \/ (pc = "setupView" /\ v = job.name)
        PROVE  v \notin Range(views)
    BY <2>2, NamesAssumption DEF CatalogInv, NamesOnce, Live, Names
  <2>3. \A v \in ViewNames : since[v] <= K
    BY <1>a, <1>t DEF CatalogInv, BasesRight, TypeOK
  <2>4. BasesRight
    BY DEF CatalogInv
  <2> HIDE DEF K
  <2> QED BY <1>0, <2>1, <2>2, <2>3, <2>4 DEF BasesRight
<1>5. TransactionsRight'
  BY <1>0, <1>b DEF CatalogInv, TransactionsRight
<1> QED BY <1>1, <1>2, <1>3, <1>4, <1>5 DEF CatalogInv

(* A submitted transaction is rolled back.                                 *)
LEMMA RollbackStep ==
    ASSUME CatalogInv, NEW n \in DOMAIN submitted, Rollback(n)
    PROVE  CatalogInv'
<1>t. TypeOK
  BY DEF CatalogInv
<1>0. /\ ~ (pc = "down" \/ job.op = "create")
      /\ UNCHANGED <<files, pc, job, storages, views, base, open, delivered, history>>
  BY Serving DEF Rollback
<1>b. /\ DOMAIN submitted' \subseteq DOMAIN submitted
      /\ \A m \in DOMAIN submitted' : submitted'[m] = submitted[m]
      /\ submitted' \in [DOMAIN submitted' -> {Illegal} \cup DOMAIN storages]
  BY <1>t, Freeing DEF Rollback
<1> USE DEF files, history
<1>1. TypeOK'
  BY <1>0, <1>t, <1>b DEF TypeOK
<1>2. JobFits' /\ NamesOnce' /\ FilesComplete' /\ NamesKnown' /\ NamesSurvive'
  BY <1>0, NamesUntouched
<1>3. EmptyMemory'
  BY <1>0 DEF EmptyMemory
<1>4. BasesRight'
  BY <1>0 DEF CatalogInv, BasesRight
<1>5. TransactionsRight'
  BY <1>0, <1>b DEF CatalogInv, TransactionsRight
<1> QED BY <1>1, <1>2, <1>3, <1>4, <1>5 DEF CatalogInv

-------------------------------------------------------------------------------
(* CatalogInv holds in every state: each step of the main thread, of a      *)
(* transaction and of the end of the process keeps it.                     *)
THEOREM CatalogSafety == Spec => []CatalogInv
<1>1. Init => CatalogInv
  BY InitInv
<1>2. CatalogInv /\ [Next]_vars => CatalogInv'
  <2> SUFFICES ASSUME CatalogInv, [Next]_vars PROVE CatalogInv'
    OBVIOUS
  <2>1. CASE CreateConfig \/ CreateLog \/ LoadConfig \/ Crash
    BY <2>1, CreateConfigStep, CreateLogStep, LoadConfigStep, CrashStep
  <2>2. CASE \E s \in StorageNames :
                    \/ CreateStorage(s) \/ UnlinkStorage(s)
                    \/ \E type \in {"insert", "modify"} : Update(type, s)
    BY <2>2, CreateStorageStep, UnlinkStorageStep, UpdateStep
  <2>3. CASE \E v \in ViewNames : \/ \E s \in StorageNames : CreateView(v, s)
                                  \/ UnlinkView(v)
    BY <2>3, CreateViewStep, UnlinkViewStep
  <2>4. CASE SetupStorage \/ SetupView \/ Describe
    BY <2>4, SetupStorageStep, SetupViewStep, DescribeStep
  <2>5. CASE Truncate \/ WriteConfig \/ Answer
    BY <2>5, TruncateStep, WriteConfigStep, AnswerStep
  <2>6. CASE \E i \in open :
                    \/ \E type \in {"submit", "submitCommit"} : Submit(type, i)
                    \/ Abandon(i)
    BY <2>6, SubmitStep, AbandonStep
  <2>7. CASE \E n \in DOMAIN submitted : Commit(n) \/ Deliver(n) \/ Rollback(n)
    BY <2>7, CommitStep, DeliverStep, RollbackStep
  <2>8. CASE UNCHANGED vars
    <3> USE <2>8 DEF vars, files, memory, history
    <3>1. Live' = Live /\ Kept' = Kept
      BY DEF Live, Kept
    <3>2. TypeOK' /\ JobFits' /\ EmptyMemory' /\ TransactionsRight'
      BY DEF CatalogInv, TypeOK, JobFits, EmptyMemory, TransactionsRight
    <3>3. NamesOnce' /\ FilesComplete'
      <4>1. NamesOnce'
        BY <3>1 DEF CatalogInv, NamesOnce
      <4>2. FilesComplete'
        BY <3>1 DEF CatalogInv, FilesComplete, AlwaysLoadable, Loadable
      <4> QED BY <4>1, <4>2
    <3>4. NamesKnown' /\ NamesSurvive' /\ BasesRight'
      BY <3>1 DEF CatalogInv, NamesKnown, NamesSurvive, BasesRight
    <3> QED BY <3>2, <3>3, <3>4 DEF CatalogInv
  <2> QED BY <2>1, <2>2, <2>3, <2>4, <2>5, <2>6, <2>7, <2>8 DEF Next
<1> QED BY <1>1, <1>2, PTL DEF Spec

(* Every variable has its type, whatever the names and however long it     *)
(* runs.                                                                   *)
THEOREM TypesKept == Spec => []TypeOK
<1>1. CatalogInv => TypeOK
  BY DEF CatalogInv
<1> QED BY <1>1, CatalogSafety, PTL

(* Whenever the process ends, loadConfig finds what it needs.              *)
THEOREM LoadableAlways == Spec => []AlwaysLoadable
<1>1. CatalogInv => AlwaysLoadable
  BY DEF CatalogInv, FilesComplete
<1> QED BY <1>1, CatalogSafety, PTL

(* What clients were told of a storage or view holds for the next process, *)
(* unless one ended while it rewrote config.                               *)
THEOREM NamesSurviveRestarts == Spec => []NamesSurvive
<1>1. CatalogInv => NamesSurvive
  BY DEF CatalogInv
<1> QED BY <1>1, CatalogSafety, PTL

(* A view has the commits of its storage and of no other: also of           *)
(* transactions that were submitted before the storage was unlinked or the *)
(* process ended, and committed after it.                                  *)
THEOREM ViewsStayWithTheirStorages == Spec => []ViewsFollowStorages
<1>1. CatalogInv => ViewsFollowStorages
  <2> SUFFICES ASSUME CatalogInv, NEW v \in Range(Linked(views)), base[v] # Illegal
               PROVE  accepted[v] = {k \in since[v] + 1..delivered :
                                        submits[commits[k]] = settings[v]}
    BY DEF ViewsFollowStorages
  <2>1. NoName \notin ViewNames /\ views \in Seq(ViewNames \cup {NoName})
    BY NamesAssumption DEF CatalogInv, TypeOK
  <2>2. Range(Linked(views)) = Range(views) \ {NoName}
    BY <2>1, LinkedKeeps
  <2>3. v \in ViewNames /\ v \in Range(views)
    BY <2>2, LiveNames DEF CatalogInv
  <2> QED BY <2>3 DEF CatalogInv, BasesRight
<1> QED BY <1>1, CatalogSafety, PTL
================================================================================
