-------------------------------- MODULE Catalog --------------------------------
(***************************************************************************)
(* Which storages and views a database has: p_storages and p_views of      *)
(* src/shard/src/db/engine.cpp, the files that remember them, and the      *)
(* start of the process from these files (main.cpp, createConfig and       *)
(* loadConfig).  In memory a storage is its index, on the disk and in the  *)
(* log it is its name; the indices change with every start.  The process   *)
(* may end between any two writes: a crash, or an exception for a request  *)
(* the code refuses, which is the same here.                               *)
(*                                                                         *)
(* A transaction has one mutation of one storage.  It knows the storage by *)
(* its index until its entry is written, with the name; replay looks the   *)
(* name up again.  Views filter mutations by the index of their base       *)
(* storage; what they have accepted is compared with the names in the log. *)
(* Engine has what a transaction is otherwise.                             *)
(***************************************************************************)
EXTENDS Integers, FiniteSets, SequencesExt

CONSTANTS
    StorageNames,  \* names that clients use for storages
    ViewNames,     \* and for views
    NoName,        \* nullptr in p_storages and p_views
    MaxSubmits     \* bound on the transactions in the log

ASSUME NamesAssumption ==
    /\ NoName \notin StorageNames \cup ViewNames
    /\ StorageNames \cap ViewNames = {}
ASSUME SubmitsAssumption == MaxSubmits \in Nat

Names == StorageNames \cup ViewNames

VARIABLES
    \* the database directory
    prepared,    \* storages/, views/ and extern/ were made
    logFile,     \* transact.wal is there
    config,      \* the file config
    dirs,        \* storages and views that have a directory
    descriptors, \* those that have a file descriptor in it
    settings,    \* the base storage in the file config of a view, or NoName
    submits,     \* the storages of the Submit and SubmitCommit entries of the
                 \* log, in its order; a transaction is its place here
    commits,     \* transactions with a Commit or SubmitCommit entry, in order
    \* the process
    pc,          \* where its main thread is
    job,         \* the request it serves
    storages,    \* p_storages from index 1 on
    views,       \* p_views from index 1 on
    base,        \* p_storage of a view
    open,        \* storageIndex in transactions that are not submitted
    submitted,   \* storageIndex in those that are submitted and not freed
    delivered,   \* how many commits the views were handed
    \* history
    accepted,    \* commits a view has been handed and has not filtered out
    since,       \* how many commits were handed out when the view was made
    told,        \* what clients know of a name
    torn         \* the process has ended while it rewrote config

files == <<prepared, logFile, config, dirs, descriptors, settings,
           submits, commits>>
memory == <<storages, views, base, open, submitted, delivered>>
transactions == <<submits, commits, open, submitted, delivered>>
history == <<accepted, since, told, torn>>
vars == <<files, pc, job, memory, history>>

NoConfig == [exists |-> FALSE, storages |-> <<>>, views |-> <<>>]
NoJob == [op |-> "none", name |-> NoName, base |-> NoName]
Illegal == -1

(* getStorage, getView *)
Index(names, name) ==
    IF \E i \in DOMAIN names : names[i] = name
    THEN CHOOSE i \in DOMAIN names : names[i] = name
    ELSE Illegal

Init ==
    /\ prepared = FALSE /\ logFile = FALSE /\ config = NoConfig
    /\ dirs = {} /\ descriptors = {} /\ settings = [v \in ViewNames |-> NoName]
    /\ submits = <<>> /\ commits = <<>>
    /\ pc = "down" /\ job = NoJob
    /\ storages = <<>> /\ views = <<>> /\ base = [v \in ViewNames |-> Illegal]
    /\ open = {} /\ submitted = <<>> /\ delivered = 0
    /\ accepted = [v \in ViewNames |-> {}] /\ since = [v \in ViewNames |-> 0]
    /\ told = [n \in Names |-> "absent"]
    /\ torn = FALSE

Goto(from, to) == pc = from /\ pc' = to
-------------------------------------------------------------------------------
(* The start and the end of the process *)

(* --create: it must be a fresh directory. *)
CreateConfig ==
    /\ ~ config.exists /\ ~ prepared
    /\ Goto("down", "createLog")
    /\ prepared' = TRUE
    /\ job' = [NoJob EXCEPT !.op = "create"]
    /\ UNCHANGED <<logFile, config, dirs, descriptors, settings, submits, commits,
                   memory, history>>

CreateLog ==
    /\ Goto("createLog", "truncate")
    /\ logFile' = TRUE
    /\ UNCHANGED <<prepared, config, dirs, descriptors, settings, submits, commits,
                   job, memory, history>>

(* Nothing of what loadConfig reads is missing: it throws otherwise. *)
Loadable ==
    /\ logFile
    /\ Range(config.storages) \cup Range(config.views) \subseteq descriptors
    /\ \A v \in Range(config.views) : settings[v] # NoName

(* loadConfig: storages, then views, then the log.  The transactions that   *)
(* have no commit in it are submitted again, and the commits are handed to *)
(* all storages and views.  Both look the names up in the new p_storages.  *)
LoadConfig ==
    /\ config.exists /\ Loadable
    /\ Goto("down", "serve")
    /\ storages' = config.storages
    /\ views' = config.views
    /\ base' = [v \in ViewNames |->
                    IF v \in Range(views') THEN Index(storages', settings[v])
                                           ELSE Illegal]
    /\ submitted' = [n \in DOMAIN submits \ Range(commits) |->
                        Index(storages', submits[n])]
    /\ delivered' = Len(commits)
    /\ accepted' = [v \in ViewNames |->
                        {k \in DOMAIN commits :
                            /\ v \in Range(views')
                            /\ Index(storages', submits[commits[k]]) = base'[v]}]
    /\ UNCHANGED <<files, job, open, since, told, torn>>

Crash ==
    /\ pc # "down"
    /\ pc' = "down" /\ job' = NoJob
    /\ storages' = <<>> /\ views' = <<>> /\ base' = [v \in ViewNames |-> Illegal]
    /\ open' = {} /\ submitted' = <<>> /\ delivered' = 0
    /\ accepted' = [v \in ViewNames |-> {}] /\ since' = [v \in ViewNames |-> 0]
    /\ torn' = (torn \/ pc = "write")
    /\ UNCHANGED <<files, told>>
-------------------------------------------------------------------------------
(* Requests, on the main thread.  Those that would throw are in Crash. *)

Request(op, name, baseName, to) ==
    /\ Goto("serve", to)
    /\ job' = [op |-> op, name |-> name, base |-> baseName]
    /\ told' = [told EXCEPT ![name] = "asked"]

(* mkDir fails for a name that was ever used. *)
CreateStorage(s) ==
    /\ Index(storages, s) = Illegal /\ s \notin dirs
    /\ Request("storage", s, NoName, "setupStorage")
    /\ dirs' = dirs \cup {s}
    /\ UNCHANGED <<prepared, logFile, config, descriptors, settings, submits,
                   commits, memory, accepted, since, torn>>

(* Mutant of SetupStorage: the descriptor is forgotten. *)
SetupStorageOnly ==
    /\ Goto("setupStorage", "truncate")
    /\ storages' = Append(storages, job.name)
    /\ UNCHANGED <<files, job, views, base, open, submitted, delivered, history>>

SetupStorage ==
    /\ Goto("setupStorage", "describe")
    /\ storages' = Append(storages, job.name)
    /\ UNCHANGED <<files, job, views, base, open, submitted, delivered, history>>

CreateView(v, s) ==
    /\ Index(views, v) = Illegal /\ v \notin dirs
    /\ Request("view", v, s, "setupView")
    /\ dirs' = dirs \cup {v}
    /\ UNCHANGED <<prepared, logFile, config, descriptors, settings, submits,
                   commits, memory, accepted, since, torn>>

(* setupView, and what createView of JsView does: nobody runs the view     *)
(* before p_storage is set.                                                *)
SetupView ==
    /\ Goto("setupView", "describe")
    /\ settings' = [settings EXCEPT ![job.name] = job.base]
    /\ views' = Append(views, job.name)
    /\ base' = [base EXCEPT ![job.name] = Index(storages, job.base)]
    /\ since' = [since EXCEPT ![job.name] = delivered]
    /\ UNCHANGED <<prepared, logFile, config, dirs, descriptors, job, storages,
                   transactions, accepted, told, torn>>

Describe ==
    /\ Goto("describe", "truncate")
    /\ descriptors' = descriptors \cup {job.name}
    /\ UNCHANGED <<prepared, logFile, config, dirs, settings, submits, commits, job,
                   memory, history>>

(* Mutant of UnlinkStorage: the entry is removed. *)
UnlinkStorageRemoved(s) ==
    /\ Index(storages, s) # Illegal
    /\ Request("unlink", s, NoName, "truncate")
    /\ storages' = RemoveAt(storages, Index(storages, s))
    /\ UNCHANGED <<files, views, base, open, submitted, delivered, accepted, since,
                   torn>>

(* Mutant of UnlinkStorage: the others move up. *)
UnlinkStorageErased(s) ==
    /\ Index(storages, s) # Illegal
    /\ Request("unlink", s, NoName, "truncate")
    /\ storages' = Append(RemoveAt(storages, Index(storages, s)), NoName)
    /\ UNCHANGED <<files, views, base, open, submitted, delivered, accepted, since,
                   torn>>

UnlinkStorage(s) ==
    /\ Index(storages, s) # Illegal
    /\ Request("unlink", s, NoName, "truncate")
    /\ storages' = [storages EXCEPT ![Index(storages, s)] = NoName]
    /\ UNCHANGED <<files, views, base, open, submitted, delivered, accepted, since,
                   torn>>

UnlinkView(v) ==
    /\ Index(views, v) # Illegal
    /\ Request("unlink", v, NoName, "truncate")
    /\ views' = [views EXCEPT ![Index(views, v)] = NoName]
    /\ UNCHANGED <<files, storages, base, open, submitted, delivered, accepted,
                   since, torn>>

(* writeConfig: writeFileSync empties the file, then it writes it. *)
Truncate ==
    /\ Goto("truncate", "write")
    /\ config' = [NoConfig EXCEPT !.exists = TRUE]
    /\ UNCHANGED <<prepared, logFile, dirs, descriptors, settings, submits, commits,
                   job, memory, history>>

(* Those that are not unlinked, in their order: SelectSeq, which tlapm does *)
(* not know.                                                               *)
Linked(names) ==
    LET kept == {i \in DOMAIN names : names[i] # NoName}
        rank(i) == Cardinality({j \in kept : j <= i})
    IN  [n \in 1..Cardinality(kept) |-> names[CHOOSE i \in kept : rank(i) = n]]

(* Mutant of WriteConfig: the views are left out. *)
WriteStorages ==
    /\ Goto("write", "answer")
    /\ config' = [exists |-> TRUE, storages |-> Linked(storages), views |-> <<>>]
    /\ UNCHANGED <<prepared, logFile, dirs, descriptors, settings, submits, commits,
                   job, memory, history>>

WriteConfig ==
    /\ Goto("write", "answer")
    /\ config' = [exists |-> TRUE, storages |-> Linked(storages),
                  views |-> Linked(views)]
    /\ UNCHANGED <<prepared, logFile, dirs, descriptors, settings, submits, commits,
                   job, memory, history>>

(* The client gets its answer; the process that was to create the database *)
(* ends.                                                                   *)
Answer ==
    /\ \/ /\ job.op = "create"
          /\ Goto("answer", "down")
          /\ UNCHANGED told
       \/ /\ job.op # "create"
          /\ Goto("answer", "serve")
          /\ told' = [told EXCEPT ![job.name] =
                          IF job.op = "unlink" THEN "unlinked" ELSE "linked"]
    /\ job' = NoJob
    /\ UNCHANGED <<files, memory, accepted, since, torn>>
-------------------------------------------------------------------------------
(* Transactions *)

(* parseMutation and updateMutation.  An insert asks the driver of the     *)
(* storage for a document id, which ends the process if there is none; a   *)
(* modification is accepted with the index Illegal.                        *)
Update(type, s) ==
    /\ pc = "serve"
    /\ type = "insert" => Index(storages, s) # Illegal
    /\ open' = open \cup {Index(storages, s)}
    /\ UNCHANGED <<files, pc, job, storages, views, base, submitted, delivered,
                   history>>

(* The loop, which may be on another thread, serves one item of the queue  *)
(* at a time; the commit of the one before was handed out.                 *)
LoopIdle == pc # "down" /\ delivered = Len(commits)

(* writeAhead asks the driver for the name of the storage, which ends the  *)
(* process if that was unlinked meanwhile.  Others of the open             *)
(* transactions may be about the same storage.                             *)
Submit(type, i) ==
    /\ LoopIdle /\ Len(submits) < MaxSubmits
    /\ i \in open \ {Illegal} /\ storages[i] # NoName
    /\ open' \in {open, open \ {i}}
    /\ submits' = Append(submits, storages[i])
    /\ submitted' = [n \in DOMAIN submitted \cup {Len(submits')} |->
                        IF n = Len(submits') THEN i ELSE submitted[n]]
    /\ commits' = IF type = "submitCommit" THEN Append(commits, Len(submits'))
                                           ELSE commits
    /\ UNCHANGED <<prepared, logFile, config, dirs, descriptors, settings, pc, job,
                   storages, views, base, delivered, history>>

(* A transaction that is not submitted is rolled back, or its submit is    *)
(* refused.                                                                *)
Abandon(i) ==
    /\ LoopIdle
    /\ open' = open \ {i}
    /\ UNCHANGED <<files, pc, job, storages, views, base, submitted, delivered,
                   history>>

(* writeAhead of a Commit asks for no name: it does not matter whether the *)
(* storage is still there.                                                 *)
Commit(n) ==
    /\ LoopIdle
    /\ commits' = Append(commits, n)
    /\ UNCHANGED <<prepared, logFile, config, dirs, descriptors, settings, submits,
                   pc, job, memory, history>>

Freed(n) == submitted' = [m \in DOMAIN submitted \ {n} |-> submitted[m]]

(* commitComplete *)
Deliver(n) ==
    /\ pc # "down" /\ delivered < Len(commits) /\ commits[delivered + 1] = n
    /\ accepted' = [v \in ViewNames |->
                        IF v \in Range(views) /\ base[v] = submitted[n]
                        THEN accepted[v] \cup {delivered + 1} ELSE accepted[v]]
    /\ delivered' = delivered + 1
    /\ Freed(n)
    /\ UNCHANGED <<files, pc, job, storages, views, base, open, since, told, torn>>

(* processRollback: nothing is logged, the next start submits it again. *)
Rollback(n) ==
    /\ LoopIdle
    /\ Freed(n)
    /\ UNCHANGED <<files, pc, job, storages, views, base, open, delivered, history>>
-------------------------------------------------------------------------------
Next ==
    \/ CreateConfig \/ CreateLog \/ LoadConfig \/ Crash
    \/ \E s \in StorageNames :
            \/ CreateStorage(s) \/ UnlinkStorage(s)
            \/ \E type \in {"insert", "modify"} : Update(type, s)
    \/ \E v \in ViewNames : \/ \E s \in StorageNames : CreateView(v, s)
                            \/ UnlinkView(v)
    \/ SetupStorage \/ SetupView \/ Describe \/ Truncate \/ WriteConfig \/ Answer
    \/ \E i \in open : \/ \E type \in {"submit", "submitCommit"} : Submit(type, i)
                      \/ Abandon(i)
    \/ \E n \in DOMAIN submitted : Commit(n) \/ Deliver(n) \/ Rollback(n)

Spec == Init /\ [][Next]_vars
-------------------------------------------------------------------------------
(* Properties *)

Points == {"down", "createLog", "setupStorage", "setupView", "describe", "truncate",
           "write", "answer", "serve"}
Ops == {"none", "create", "storage", "view", "unlink"}

(* Every variable has its type, and a process has a job while it is not    *)
(* serving.                                                                *)
TypeOK ==
    /\ {prepared, logFile, config.exists, torn} \subseteq BOOLEAN
    /\ config.storages \in Seq(StorageNames) /\ config.views \in Seq(ViewNames)
    /\ dirs \subseteq Names /\ descriptors \subseteq Names
    /\ settings \in [ViewNames -> StorageNames \cup {NoName}]
    /\ submits \in Seq(StorageNames) /\ commits \in Seq(DOMAIN submits)
    /\ pc \in Points
    /\ job \in [op : Ops, name : Names \cup {NoName},
                base : StorageNames \cup {NoName}]
    /\ job = NoJob <=> pc \in {"down", "serve"}
    /\ storages \in Seq(StorageNames \cup {NoName})
    /\ views \in Seq(ViewNames \cup {NoName})
    /\ base \in [ViewNames -> {Illegal} \cup DOMAIN storages]
    /\ open \subseteq {Illegal} \cup DOMAIN storages
    /\ DOMAIN submitted \subseteq DOMAIN submits
    /\ submitted \in [DOMAIN submitted -> {Illegal} \cup DOMAIN storages]
    /\ delivered \in 0..Len(commits)
    /\ accepted \in [ViewNames -> SUBSET DOMAIN commits]
    /\ since \in [ViewNames -> 0..Len(commits)]
    /\ told \in [Names -> {"absent", "asked", "linked", "unlinked"}]

(* Whenever the process ends, the next one can start: what config names is *)
(* complete, because it is written last.                                   *)
AlwaysLoadable == config.exists => Loadable

(* The next process has each storage and view whose creation was answered, *)
(* and none whose end was answered or that nobody asked for; unless a      *)
(* process ended when it had emptied config and had not written it again,  *)
(* which forgets them all.                                                 *)
NamesSurvive ==
    ~ torn /\ pc # "write" =>
        \A n \in Names :
            /\ told[n] = "linked" =>
                    n \in Range(config.storages) \cup Range(config.views)
            /\ told[n] \in {"absent", "unlinked"} =>
                    n \notin Range(config.storages) \cup Range(config.views)

(* A view has accepted the commits to the storage it was made for, and no  *)
(* others, although it and the transactions know the storage by an index   *)
(* only, and storages come and go and change their index with every start, *)
(* also between the submit and the commit of a transaction.  It has those  *)
(* since it was made, or all after a start.  This holds while the storage  *)
(* is there: the index of one that is gone is Illegal after a start, for   *)
(* all of them, so that a view on one gets the commits of the others.      *)
ViewsFollowStorages ==
    \A v \in Range(Linked(views)) :
        base[v] # Illegal =>
            accepted[v] = {k \in since[v] + 1..delivered :
                                submits[commits[k]] = settings[v]}
================================================================================
