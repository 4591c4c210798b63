------------------------------- MODULE PageCache -------------------------------
(***************************************************************************)
(* The page cache (src/shard/src/ll/page-cache.cpp): CacheHost lets a      *)
(* limited number of pages be alive and makes the oldest go, PageCache     *)
(* reads pages from the disk, counts their users and writes them back.     *)
(*                                                                         *)
(* One action is one critical section.  A call that is between two of them *)
(* is noted at its page (call, io), not at its thread: an event loop or an *)
(* I/O worker may run it at any time.  All pages have the same size, the   *)
(* content of a page is how often it was written, and the file starts      *)
(* empty.  Trees and files are the clients; each of their operations takes *)
(* pages in an order (parents before children, left before right).         *)
(***************************************************************************)
EXTENDS Naturals, Sequences, FiniteSets

CONSTANTS
    Pages,      \* the page numbers
    Clients,    \* the operations that use pages
    NoPage,
    Limit,      \* p_limit, in pages
    MaxWrites   \* bound on the writes to one page

ASSUME PagesAssumption ==
    Pages \subseteq Nat /\ IsFiniteSet(Pages) /\ NoPage \notin Pages

ASSUME ClientsAssumption == IsFiniteSet(Clients)

\* requestAcquire asserts that a page is smaller than the limit
ASSUME LimitAssumption == Limit \in Nat /\ Limit > 1 /\ MaxWrites \in Nat

VARIABLES
    present,    \* p_presentPages
    flags,      \* page -> p_flags
    useCount,   \* page -> p_useCount
    waitQueue,  \* page -> the clients in p_waitQueue
    buffer,     \* page -> content of p_buffer, or NoBuffer
    disk,       \* page -> its content in the file
    lru,        \* the pages that are alive, the oldest first
    call,       \* page -> what a thread is about to do to it
    io,         \* page -> the task the I/O pool has for it
    wants,      \* client -> the page it waits for
    completing, \* clients whose ReadClosure::complete is queued
    uses,       \* client -> the pages it was given and did not release
    written     \* page -> how often it was written (history)

pageVars == <<present, flags, useCount, waitQueue, buffer, disk, call, io>>
clientVars == <<wants, completing, uses, written>>
vars == <<pageVars, lru, clientVars>>

Flag == {"loaded", "dirty", "release"}
Call == {"none", "acquire", "insert", "release", "finish"}
Content == 0..MaxWrites
NoBuffer == MaxWrites + 1

Init ==
    /\ present = {}
    /\ flags = [p \in Pages |-> {}]
    /\ useCount = [p \in Pages |-> 0]
    /\ waitQueue = [p \in Pages |-> {}]
    /\ buffer = [p \in Pages |-> NoBuffer]
    /\ disk = [p \in Pages |-> 0]
    /\ lru = <<>>
    /\ call = [p \in Pages |-> "none"]
    /\ io = [p \in Pages |-> "none"]
    /\ wants = [c \in Clients |-> NoPage]
    /\ completing = {}
    /\ uses = [c \in Clients |-> {}]
    /\ written = [p \in Pages |-> 0]
------------------------------------------------------------------------------
(* Acquiring a page *)

(* CacheHost::requestAcquire begins with PageInfo::acquire: a zeroed       *)
(* buffer, which the I/O pool is to fill.                                  *)
Acquire(p) ==
    /\ call[p] = "acquire"
    /\ buffer' = [buffer EXCEPT ![p] = 0]
    /\ io' = [io EXCEPT ![p] = "read"]
    /\ call' = [call EXCEPT ![p] = "insert"]
    /\ UNCHANGED <<present, flags, useCount, waitQueue, disk, lru, clientVars>>

(* The rest of requestAcquire: the page is alive, and when that is one too *)
(* many releaseItem takes the oldest from the list before it unlocks.      *)
RequestAcquire(p) ==
    /\ call[p] = "insert"
    /\ IF Len(lru) = Limit
       THEN /\ lru' = Append(Tail(lru), p)
            /\ call' = [call EXCEPT ![p] = "none", ![Head(lru)] = "release"]
       ELSE /\ lru' = Append(lru, p)
            /\ call' = [call EXCEPT ![p] = "none"]
    /\ UNCHANGED <<present, flags, useCount, waitQueue, buffer, disk, io, clientVars>>

(* p_waitQueue.size() *)
waiting(p) == Cardinality(waitQueue[p])

DiskRead(p) ==
    /\ io[p] = "read"
    /\ io' = [io EXCEPT ![p] = "none"]
    /\ buffer' = [buffer EXCEPT ![p] = disk[p]]
    /\ flags' = [flags EXCEPT ![p] = @ \cup {"loaded"}]
    /\ useCount' = [useCount EXCEPT ![p] = waiting(p)]
    /\ completing' = completing \cup waitQueue[p]
    /\ waitQueue' = [waitQueue EXCEPT ![p] = {}]
    /\ UNCHANGED <<present, disk, lru, call, wants, uses, written>>
------------------------------------------------------------------------------
(* Releasing a page *)

(* Mutant: what was written to the page is not kept. *)
neverDirty(p) == FALSE

isDirty(p) == "dirty" \in flags[p]

(* PageInfo::doRelease: a dirty page is written first; otherwise           *)
(* finishRelease deletes the buffer and unlocks.                           *)
doRelease(p) ==
    /\ flags' = [flags EXCEPT ![p] = @ \ {"loaded", "release"}]
    /\ IF isDirty(p)
       THEN /\ io' = [io EXCEPT ![p] = "write"]
            /\ call' = [call EXCEPT ![p] = "none"]
            /\ UNCHANGED buffer
       ELSE /\ buffer' = [buffer EXCEPT ![p] = NoBuffer]
            /\ call' = [call EXCEPT ![p] = "finish"]
            /\ UNCHANGED io

(* PageInfo::release, called by releaseItem *)
Release(p) ==
    /\ call[p] = "release"
    /\ IF "loaded" \in flags[p] /\ useCount[p] = 0
       THEN doRelease(p)
       ELSE /\ flags' = [flags EXCEPT ![p] = @ \cup {"release"}]
            /\ call' = [call EXCEPT ![p] = "none"]
            /\ UNCHANGED <<buffer, io>>
    /\ UNCHANGED <<present, useCount, waitQueue, disk, lru, clientVars>>

(* PageInfo::diskWrite, and finishRelease up to its first unlock           *)
DiskWrite(p) ==
    /\ io[p] = "write"
    /\ io' = [io EXCEPT ![p] = "none"]
    /\ disk' = [disk EXCEPT ![p] = buffer[p]]
    /\ flags' = [flags EXCEPT ![p] = @ \ {"dirty"}]
    /\ buffer' = [buffer EXCEPT ![p] = NoBuffer]
    /\ call' = [call EXCEPT ![p] = "finish"]
    /\ UNCHANGED <<present, useCount, waitQueue, lru, clientVars>>

(* Mutant: the page goes whether or not somebody waits for it. *)
nobody(p) == TRUE

nobodyWaits(p) == waitQueue[p] = {}

(* The rest of finishRelease: those who came meanwhile want the page back. *)
FinishRelease(p) ==
    /\ call[p] = "finish"
    /\ IF nobodyWaits(p)
       THEN /\ present' = present \ {p}
            /\ call' = [call EXCEPT ![p] = "none"]
       ELSE /\ call' = [call EXCEPT ![p] = "acquire"]
            /\ UNCHANGED present
    /\ UNCHANGED <<flags, useCount, waitQueue, buffer, disk, io, lru, clientVars>>
------------------------------------------------------------------------------
(* The operations of PageCache *)

(* An operation that waits for a page does nothing else. *)
MayAsk(c, p) == wants[c] = NoPage /\ \A q \in uses[c] : q < p

(* The page is not there, for readPage as for initializePage.              *)
EnterPage(c, p) ==
    /\ p \notin present
    /\ present' = present \cup {p}
    /\ waitQueue' = [waitQueue EXCEPT ![p] = {c}]
    /\ wants' = [wants EXCEPT ![c] = p]
    /\ call' = [call EXCEPT ![p] = "acquire"]
    /\ UNCHANGED <<flags, useCount, buffer, disk, io, lru, completing, uses, written>>

available(p) == "loaded" \in flags[p] /\ "release" \notin flags[p]

(* The page is loaded: the callback runs at once. *)
UsePage(c, p) ==
    /\ p \in present /\ available(p)
    /\ useCount' = [useCount EXCEPT ![p] = @ + 1]
    /\ uses' = [uses EXCEPT ![c] = @ \cup {p}]
    /\ UNCHANGED <<present, flags, waitQueue, buffer, disk, call, io, lru,
                   wants, completing, written>>

AwaitPage(c, p) ==
    /\ p \in present /\ ~ available(p)
    /\ waitQueue' = [waitQueue EXCEPT ![p] = @ \cup {c}]
    /\ wants' = [wants EXCEPT ![c] = p]
    /\ UNCHANGED <<present, flags, useCount, buffer, disk, call, io, lru,
                   completing, uses, written>>

readPage(c, p) ==
    /\ MayAsk(c, p)
    /\ EnterPage(c, p) \/ UsePage(c, p) \/ AwaitPage(c, p)

(* Only called for new block numbers: the page is not present.             *)
initializePage(c, p) ==
    /\ MayAsk(c, p)
    /\ written[p] = 0
    /\ EnterPage(c, p)

(* ReadClosure::complete *)
Complete(c) ==
    /\ c \in completing
    /\ completing' = completing \ {c}
    /\ uses' = [uses EXCEPT ![c] = @ \cup {wants[c]}]
    /\ wants' = [wants EXCEPT ![c] = NoPage]
    /\ UNCHANGED <<pageVars, lru, written>>

(* The client changes the content, then calls writePage.                   *)
writePage(c, p) ==
    /\ wants[c] = NoPage
    /\ p \in uses[c] /\ written[p] < MaxWrites
    /\ flags' = [flags EXCEPT ![p] = @ \cup {"dirty"}]
    /\ buffer' = [buffer EXCEPT ![p] = written[p] + 1]
    /\ written' = [written EXCEPT ![p] = @ + 1]
    /\ UNCHANGED <<present, useCount, waitQueue, disk, call, io, lru,
                   wants, completing, uses>>

(* Mutant: the last user leaves the page to nobody. *)
neverLast(p) == FALSE

lastUse(p) == useCount[p] = 1 /\ "release" \in flags[p]

releasePage(c, p) ==
    /\ wants[c] = NoPage
    /\ p \in uses[c]
    /\ uses' = [uses EXCEPT ![c] = @ \ {p}]
    /\ useCount' = [useCount EXCEPT ![p] = @ - 1]
    /\ IF lastUse(p) THEN doRelease(p) ELSE UNCHANGED <<flags, buffer, io, call>>
    /\ UNCHANGED <<present, waitQueue, disk, lru, wants, completing, written>>
------------------------------------------------------------------------------
Thread(p) == Acquire(p) \/ RequestAcquire(p) \/ Release(p) \/ FinishRelease(p)

IoPool(p) == DiskRead(p) \/ DiskWrite(p)

Next ==
    \/ \E p \in Pages : Thread(p) \/ IoPool(p)
    \/ \E c \in Clients : Complete(c)
    \/ \E c \in Clients, p \in Pages :
        readPage(c, p) \/ initializePage(c, p) \/ writePage(c, p) \/ releasePage(c, p)

(* Threads run on and queued tasks are run.  Nothing is assumed of the     *)
(* clients: findNext keeps some of the pages it reads.                     *)
Fairness ==
    /\ \A p \in Pages : WF_vars(Thread(p)) /\ WF_vars(IoPool(p))
    /\ \A c \in Clients : WF_vars(Complete(c))

Spec == Init /\ [][Next]_vars /\ Fairness
------------------------------------------------------------------------------
(* Properties *)

(* Every variable has its type. *)
TypeOK ==
    /\ present \subseteq Pages
    /\ flags \in [Pages -> SUBSET Flag]
    /\ useCount \in [Pages -> 0..Cardinality(Clients)]
    /\ waitQueue \in [Pages -> SUBSET Clients]
    /\ buffer \in [Pages -> Content \cup {NoBuffer}]
    /\ disk \in [Pages -> Content]
    /\ lru \in Seq(Pages) /\ Len(lru) <= Limit
    /\ call \in [Pages -> Call]
    /\ io \in [Pages -> {"none", "read", "write"}]
    /\ wants \in [Clients -> Pages \cup {NoPage}]
    /\ completing \subseteq Clients
    /\ uses \in [Clients -> SUBSET Pages]
    /\ written \in [Pages -> Content]

(* However often a page was evicted and read again: who uses it has its    *)
(* buffer, and in it what was written last; and what the file does not     *)
(* have yet is in the buffer of a dirty page, which therefore is written   *)
(* before its buffer is deleted.                                           *)
NoWriteLost ==
    /\ \A c \in Clients : \A p \in uses[c] : buffer[p] = written[p]
    /\ \A p \in Pages : disk[p] # written[p] =>
            p \in present /\ "dirty" \in flags[p] /\ buffer[p] = written[p]

(* The clients that use a page or are about to be called are its use       *)
(* count: releasePage and diskRead assert it, doRelease relies on it.      *)
Users(p) == {c \in Clients :
    p \in uses[c] \/ (c \in completing /\ wants[c] = p)}

UsesCounted == \A p \in Pages : useCount[p] = Cardinality(Users(p))

(* Every variable has its type, the counts are right, and a page is alive, *)
(* or is on its way in or out, or waits for its last user with its release *)
(* flag set: none escapes the limit for good, and none is released by two  *)
(* threads.                                                                *)
Alive == {lru[i] : i \in DOMAIN lru}

PagesAccounted ==
    /\ TypeOK
    /\ UsesCounted
    /\ Cardinality(Alive) = Len(lru)
    /\ \A p \in Alive : call[p] = "none" /\ io[p] # "write" /\ "release" \notin flags[p]
    /\ \A p \in present \ Alive :
        \/ call[p] # "none" \/ io[p] = "write"
        \/ "release" \in flags[p] /\ ("loaded" \in flags[p] => useCount[p] > 0)
    /\ \A p \in Pages \ present :
        /\ call[p] = "none" /\ io[p] = "none" /\ flags[p] = {}
        /\ useCount[p] = 0 /\ waitQueue[p] = {} /\ buffer[p] = NoBuffer

(* Every read is answered, also when the page has to make room for others  *)
(* and to be read again in between, unless another operation keeps that    *)
(* very page for ever, as findNext does with inner blocks.                 *)
KeptForEver(c) ==
    \E p \in Pages, d \in Clients \ {c} :
        <>[](wants[c] = p /\ p \in uses[d])

ReadsServed ==
    \A c \in Clients : []<>(wants[c] = NoPage) \/ KeptForEver(c)
==============================================================================
