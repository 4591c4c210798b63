-------------------------------- MODULE Btree ---------------------------------
(***************************************************************************)
(* The B-tree under every index (src/shard/include/ll/btree.hpp): insert   *)
(* splits full blocks on its way down, findPrev, findNext and findFirst    *)
(* look a key up, and right links lead through the leaves in order.        *)
(*                                                                         *)
(* A block is a record instead of a buffer; a value is told from others of *)
(* the same key by how many there were before it.  The storage drivers let *)
(* an insert run alone (QueuedDriver), so operations follow each other     *)
(* here, one step for each block they visit.                               *)
(***************************************************************************)
EXTENDS Naturals, Sequences, SequencesExt

CONSTANTS
    Keys,           \* the keys, numbers
    EntsPerLeaf,    \* p_entsPerLeaf(): how many entries fit into a leaf
    EntsPerInner,   \* p_entsPerInner()
    MaxInserts      \* bound on the number of inserts

ASSUME KeysAssumption == Keys \subseteq Nat

\* asserted by the constructor
ASSUME EntsAssumption ==
    /\ EntsPerLeaf \in Nat /\ EntsPerLeaf >= 4
    /\ EntsPerInner \in Nat /\ EntsPerInner >= 4

ASSUME MaxInsertsAssumption == MaxInserts \in Nat

VARIABLES
    blocks,     \* block number -> block; block 0 is the file head
    rootBlock,  \* p_curFileHead.rootBlock
    depth,      \* p_curFileHead.depth
    task,       \* the operation that is under way
    held,       \* blocks that the last operation read and did not release
    inserted,   \* how many entries each key has (history)
    answer,     \* what the last find returned
    steps       \* how often the iterator has gone forward (history)

tree == <<blocks, rootBlock, depth>>
vars == <<tree, task, held, inserted, answer, steps>>

numBlocks == Len(blocks) + 1

(* A child reference goes before the first key, and one after each key.    *)
Leaf(ents, left, right) ==
    [leaf |-> TRUE, ents |-> ents, refs |-> <<>>, left |-> left, right |-> right]

Inner(ents, refs) ==
    [leaf |-> FALSE, ents |-> ents, refs |-> refs, left |-> 0, right |-> 0]

Entry(k, n) == [key |-> k, value |-> n]

NoEntry == Entry(0, 0)

(* The operation is at block, and fixParent may write parent unless that   *)
(* is zero.                                                                *)
Idle == [op |-> "none", key |-> 0, block |-> 0, parent |-> 0, index |-> 0]
Task(op, k) ==
    [op |-> op, key |-> k, block |-> rootBlock, parent |-> 0, index |-> 0]

(* An answer has the Ref of an entry, its block and index, and the entry.  *)
NoAnswer == [op |-> "none", key |-> 0, block |-> 0, index |-> 0, entry |-> NoEntry]

(* createTree *)
Init ==
    /\ blocks = <<Leaf(<<>>, 0, 0)>>
    /\ rootBlock = 1 /\ depth = 1
    /\ task = Idle
    /\ held = {}
    /\ inserted = [k \in Keys |-> 0]
    /\ answer = NoAnswer
    /\ steps = 0
------------------------------------------------------------------------------
(* Searching a block *)

(* Mutant: entries equal to the key are passed over. *)
strictLowerBound(ents, k) ==
    Max({0} \cup {i \in DOMAIN ents : ents[i].key < k})

(* lowerBoundInner, lowerBoundLeaf: the last entry that is not above k, or *)
(* zero.                                                                   *)
lowerBound(ents, k) == Max({0} \cup {i \in DOMAIN ents : ents[i].key <= k})

(* nextInLeaf, nextInInner: the first entry that is not below k, or zero.  *)
nextIn(ents, k) ==
    LET above == {i \in DOMAIN ents : ents[i].key >= k}
    IN  IF above = {} THEN 0 ELSE Min(above)

blockIsFull(b) ==
    Len(b.ents) >= (IF b.leaf THEN EntsPerLeaf ELSE EntsPerInner) - 1

(* The child that insert and findPrev go on with: its index. *)
childFor(b, k) == lowerBound(b.ents, k)
------------------------------------------------------------------------------
(* Splitting a block *)

(* A leaf keeps the key that separates it from its new neighbour; an inner *)
(* block gives it away.                                                    *)
splitKey(b, leftSize) ==
    IF b.leaf THEN b.ents[leftSize].key ELSE b.ents[leftSize + 1].key

leftHalf(b, leftSize, new) ==
    IF b.leaf
    THEN [b EXCEPT !.ents = SubSeq(@, 1, leftSize), !.right = new]
    ELSE Inner(SubSeq(b.ents, 1, leftSize), SubSeq(b.refs, 1, leftSize + 1))

rightHalf(b, leftSize, number) ==
    LET n == Len(b.ents) IN
    IF b.leaf
    THEN Leaf(SubSeq(b.ents, leftSize + 1, n), number, b.right)
    ELSE Inner(SubSeq(b.ents, leftSize + 2, n), SubSeq(b.refs, leftSize + 2, n + 1))

(* Mutant: the left link of the next leaf is not corrected. *)
keepRightLink(number, new) == [i \in DOMAIN blocks |-> blocks[i]]

(* splitLeaf with splitLeafOnInitialize and onReadRightLink, or splitInner *)
(* with splitInnerOnInitialize: all blocks but the parent.                 *)
fixRightLink(number, new) ==
    [i \in DOMAIN blocks |->
        IF blocks[number].leaf /\ i = blocks[number].right
        THEN [blocks[i] EXCEPT !.left = new] ELSE blocks[i]]

split(number) ==
    LET b == blocks[number]
        leftSize == Len(b.ents) \div 2
        new == numBlocks
    IN  Append([fixRightLink(number, new) EXCEPT ![number] = leftHalf(b, leftSize, new)],
               rightHalf(b, leftSize, number))

(* p_insertAtInnerR *)
insertAtInnerR(b, i, k, ref) ==
    Inner(InsertAt(b.ents, i, Entry(k, 0)), InsertAt(b.refs, i + 1, ref))

(* fixParent when there is one *)
splitBelow(number, parent, index) ==
    [split(number) EXCEPT ![parent] =
        insertAtInnerR(@, index + 1,
                       splitKey(blocks[number], Len(blocks[number].ents) \div 2),
                       numBlocks)]

(* fixParent at the root, with fixParentOnInitialize *)
splitRoot(number) ==
    Append(split(number),
           Inner(<<Entry(splitKey(blocks[number],
                                  Len(blocks[number].ents) \div 2), 0)>>,
                 <<number, numBlocks>>))
------------------------------------------------------------------------------
(* The pages of the blocks: calls of releasePage, then of readPage.  A     *)
(* page that one step initializes or reads, writes and releases is not     *)
(* held in between: the new blocks of a split, the next leaf.              *)
releaseThenRead(released, read) == held' = (held \ released) \cup read

(* What another operation may have left held is not its concern.           *)
readFirst(block) == held' = {block}

(* Mutant: the parent stays in use. *)
noParent(t) == {}

parentOf(t) == {t.parent} \ {0}
------------------------------------------------------------------------------
(* insert *)

Insert(k) ==
    /\ task = Idle
    /\ FoldFunction(+, 0, inserted) < MaxInserts
    /\ task' = Task("insert", k)
    /\ readFirst(rootBlock)
    /\ answer' = NoAnswer /\ steps' = 0
    /\ UNCHANGED <<tree, inserted>>

(* maybe_split_block at the root: the new root is read next.               *)
InsertSplitRoot ==
    /\ task.op = "insert" /\ task.parent = 0
    /\ blockIsFull(blocks[task.block])
    /\ blocks' = splitRoot(task.block)
    /\ rootBlock' = numBlocks + 1
    /\ depth' = depth + 1
    /\ task' = [task EXCEPT !.block = numBlocks + 1]
    /\ releaseThenRead({task.block}, {task'.block})
    /\ UNCHANGED <<inserted, answer, steps>>

(* maybe_split_block below: which half is the right one is looked up again *)
InsertSplit ==
    /\ task.op = "insert" /\ task.parent # 0
    /\ blockIsFull(blocks[task.block])
    /\ blocks' = splitBelow(task.block, task.parent, task.index)
    /\ LET index == childFor(blocks'[task.parent], task.key) IN
       task' = [task EXCEPT !.index = index,
                            !.block = blocks'[task.parent].refs[index + 1]]
    /\ releaseThenRead({task.block}, {task'.block})
    /\ UNCHANGED <<rootBlock, depth, inserted, answer, steps>>

(* insert_or_descend, at an inner block, which is the parent from then on. *)
InsertDescend ==
    LET b == blocks[task.block]
        index == childFor(b, task.key)
    IN
    /\ task.op = "insert"
    /\ ~ blockIsFull(b) /\ ~ b.leaf
    /\ task' = [task EXCEPT !.parent = task.block, !.index = index,
                            !.block = b.refs[index + 1]]
    /\ releaseThenRead(parentOf(task), {task'.block})
    /\ UNCHANGED <<tree, inserted, answer, steps>>

leafPosition(b, k) == lowerBound(b.ents, k) + 1

(* insert_or_descend, at a leaf *)
InsertAtLeaf ==
    LET b == blocks[task.block] IN
    /\ task.op = "insert"
    /\ ~ blockIsFull(b) /\ b.leaf
    /\ blocks' = [blocks EXCEPT ![task.block].ents =
            InsertAt(@, leafPosition(b, task.key),
                     Entry(task.key, inserted[task.key]))]
    /\ inserted' = [inserted EXCEPT ![task.key] = @ + 1]
    /\ releaseThenRead(parentOf(task) \cup {task.block}, {})
    /\ task' = Idle
    /\ UNCHANGED <<rootBlock, depth, answer, steps>>
------------------------------------------------------------------------------
(* FindClosure *)

Find(op, k) ==
    /\ task = Idle
    /\ task' = Task(op, k)
    /\ readFirst(rootBlock)
    /\ answer' = NoAnswer /\ steps' = 0
    /\ UNCHANGED <<tree, inserted>>

(* findPrevOnFoundChild, findNextOnFoundChild, findFirstOnRead: the child  *)
(* left of the first separator that is not below k, for findNext.          *)
findChild(b) ==
    CASE task.op = "findFirst" -> 0
      [] task.op = "findPrev"  -> childFor(b, task.key)
      [] task.op = "findNext"  ->
            IF nextIn(b.ents, task.key) = 0 THEN Len(b.ents)
            ELSE nextIn(b.ents, task.key) - 1

(* findNextOnFoundChild releases the block it leaves for its first or its  *)
(* last child, not for one between two separators.                         *)
betweenSeparators(b) == task.op = "findNext" /\ nextIn(b.ents, task.key) > 1

FindDescend ==
    LET b == blocks[task.block] IN
    /\ task.op \in {"findFirst", "findPrev", "findNext"}
    /\ ~ b.leaf
    /\ task' = [task EXCEPT !.block = b.refs[findChild(b) + 1]]
    /\ releaseThenRead(IF betweenSeparators(b) THEN {} ELSE {task.block},
                       {task'.block})
    /\ UNCHANGED <<tree, inserted, answer, steps>>

(* releasePage(block), then p_onComplete(Ref(block, i)); for i = 0 the Ref *)
(* is not valid.                                                           *)
Answered(op, i) ==
    /\ answer' = [op |-> op, key |-> task.key, block |-> task.block, index |-> i,
                  entry |-> IF i = 0 THEN NoEntry ELSE blocks[task.block].ents[i]]
    /\ releaseThenRead({task.block}, {})
    /\ task' = Idle
    /\ UNCHANGED <<tree, inserted, steps>>

(* findFirstOnRead, findNextInLeaf *)
FindInLeaf ==
    LET b == blocks[task.block] IN
    \/ /\ task.op = "findFirst" /\ b.leaf
       /\ Answered("findFirst", IF b.ents = <<>> THEN 0 ELSE 1)
    \/ /\ task.op = "findNext" /\ b.leaf
       /\ Answered("findNext", nextIn(b.ents, task.key))

(* findPrevInLeaf: when all keys are above, the answer is the last entry   *)
(* of the leaf to the left.                                                *)
FindPrevInLeaf ==
    LET b == blocks[task.block]
        i == lowerBound(b.ents, task.key)
    IN
    /\ task.op = "findPrev" /\ b.leaf
    /\ \/ /\ i # 0 \/ b.left = 0
          /\ Answered("findPrev", i)
       \/ /\ i = 0 /\ b.left # 0
          /\ task' = [task EXCEPT !.op = "readLeft", !.block = b.left]
          /\ releaseThenRead({task.block}, {b.left})
          /\ UNCHANGED <<tree, inserted, answer, steps>>

FindPrevReadLeft ==
    /\ task.op = "readLeft"
    /\ Answered("findPrev", Len(blocks[task.block].ents))
------------------------------------------------------------------------------
(* IterateClosure: p_block and p_entry are in task; p_block is zero before *)
(* the iterator is set and after it has left the last leaf.                *)

At(number, i) ==
    [op |-> "iterate", key |-> 0, block |-> number, parent |-> 0, index |-> i]

(* Once a find has an answer, the query or fetch goes on from there. *)
Seek ==
    /\ task = Idle
    /\ answer.index # 0
    /\ task' = At(answer.block, answer.index)
    /\ readFirst(answer.block)
    /\ UNCHANGED <<tree, inserted, answer, steps>>

(* Mutant: the next leaf is entered at its second entry. *)
secondAfter(number, i) ==
    IF i < Len(blocks[number].ents) THEN At(number, i + 1)
    ELSE At(blocks[number].right, IF blocks[number].right = 0 THEN 0 ELSE 2)

nextAfter(number, i) ==
    IF i < Len(blocks[number].ents) THEN At(number, i + 1)
    ELSE At(blocks[number].right, IF blocks[number].right = 0 THEN 0 ELSE 1)

(* In the same leaf forward reads nothing.                                 *)
Forward ==
    /\ task.op = "iterate" /\ task.block # 0
    /\ task' = nextAfter(task.block, task.index)
    /\ IF task'.block = task.block THEN UNCHANGED held
       ELSE releaseThenRead({task.block}, {task'.block} \ {0})
    /\ steps' = steps + 1
    /\ UNCHANGED <<tree, inserted, answer>>

(* The closure is destroyed, at the end or before; it releases its page.   *)
EndIteration ==
    /\ task.op = "iterate"
    /\ task' = Idle
    /\ releaseThenRead({task.block}, {})
    /\ answer' = NoAnswer /\ steps' = 0
    /\ UNCHANGED <<tree, inserted>>
------------------------------------------------------------------------------
Next ==
    \/ \E k \in Keys :
        Insert(k) \/ Find("findPrev", k) \/ Find("findNext", k)
    \/ Find("findFirst", 0)
    \/ InsertSplitRoot \/ InsertSplit \/ InsertDescend \/ InsertAtLeaf
    \/ FindDescend \/ FindInLeaf \/ FindPrevInLeaf \/ FindPrevReadLeft
    \/ Seek \/ Forward \/ EndIteration

Spec == Init /\ [][Next]_vars
------------------------------------------------------------------------------
(* Properties *)

Numbers == DOMAIN blocks

(* Every variable has its type, no block holds more than fits, and a block *)
(* that is about to take an entry has room for it (the assertions of       *)
(* insert and fixParent).                                                  *)
TypeOK ==
    /\ \A i \in Numbers :
        /\ blocks[i].leaf \in BOOLEAN
        /\ \A j \in DOMAIN blocks[i].ents : blocks[i].ents[j].key \in Keys
        /\ blocks[i].leaf =>
            /\ Len(blocks[i].ents) <= EntsPerLeaf - 1
            /\ {blocks[i].left, blocks[i].right} \subseteq Numbers \cup {0}
        /\ ~ blocks[i].leaf =>
            /\ Len(blocks[i].ents) <= EntsPerInner - 1
            /\ Len(blocks[i].refs) = Len(blocks[i].ents) + 1
            /\ \A j \in DOMAIN blocks[i].refs : blocks[i].refs[j] \in Numbers
    /\ rootBlock \in Numbers
    /\ task.parent # 0 /\ blockIsFull(blocks[task.block]) =>
            ~ blockIsFull(blocks[task.parent])
    /\ inserted \in [Keys -> 0..MaxInserts]

(* What p_blockIntegrity would check: the keys below a child lie between   *)
(* the separators around it, also while an insert is between two blocks,   *)
(* and all leaves are at the same depth, which is p_curFileHead.depth.     *)
Separated ==
    LET b == blocks
        keys[i \in Numbers] ==
            IF b[i].leaf THEN {b[i].ents[j].key : j \in DOMAIN b[i].ents}
            ELSE UNION {keys[b[i].refs[j]] : j \in DOMAIN b[i].refs}
    IN  \A i \in Numbers : \A j \in DOMAIN b[i].refs :
            /\ j > 1 =>
                \A k \in keys[b[i].refs[j]] : k >= b[i].ents[j - 1].key
            /\ j <= Len(b[i].ents) =>
                \A k \in keys[b[i].refs[j]] : k <= b[i].ents[j].key

Balanced ==
    LET height[i \in Numbers] ==
            IF blocks[i].leaf THEN 1 ELSE 1 + height[blocks[i].refs[1]]
    IN  /\ height[rootBlock] = depth
        /\ \A i \in Numbers : \A j \in DOMAIN blocks[i].refs :
                height[blocks[i].refs[j]] = height[i] - 1

(* The leaves in the order in which the tree has them. *)
LeafOrder ==
    LET below[i \in Numbers] ==
            IF blocks[i].leaf THEN <<i>>
            ELSE FlattenSeq([j \in DOMAIN blocks[i].refs |-> below[blocks[i].refs[j]]])
    IN  below[rootBlock]

Before(e, f) ==
    \/ e.key < f.key
    \/ e.key = f.key /\ e.value < f.value

Entries ==
    LET leaves == LeafOrder
    IN  FlattenSeq([n \in DOMAIN leaves |-> blocks[leaves[n]].ents])

(* All that was inserted, and nothing else, is in the leaves in order, the *)
(* entries of one key in the order of their inserts.                       *)
EntriesInOrder ==
    LET entries == Entries
    IN  /\ \A i \in 1..(Len(entries) - 1) : Before(entries[i], entries[i + 1])
        /\ ToSet(entries) = UNION {{Entry(k, n) : n \in 0..(inserted[k] - 1)} : k \in Keys}

(* The links run through all leaves in that order and back; a view is read *)
(* along the right links, and findPrev relies on the leaf to the left not  *)
(* being empty.                                                            *)
LinksMatch ==
    LET leaves == <<0>> \o LeafOrder \o <<0>> IN
    \A n \in 2..(Len(leaves) - 1) : LET b == blocks[leaves[n]] IN
        /\ b.left = leaves[n - 1] /\ b.right = leaves[n + 1]
        /\ b.right # 0 => b.ents # <<>>

(* Inserts and splits keep all of that, whatever the order of the keys.    *)
SearchTree == TypeOK /\ Separated /\ Balanced /\ EntriesInOrder /\ LinksMatch

(* findPrev returns the newest entry of the largest key that is not above, *)
(* so that FlexStorage finds the version it asks for; findNext and         *)
(* findFirst return the oldest of the smallest key that is not below.      *)
Matching ==
    {k \in Keys :
        /\ inserted[k] > 0
        /\ answer.op = "findPrev" => k <= answer.key
        /\ answer.op = "findNext" => k >= answer.key}

AnswersCorrect ==
    answer.op # "none" =>
        /\ (answer.index # 0) = (Matching # {})
        /\ answer.index # 0 => answer.entry =
                IF answer.op = "findPrev"
                THEN Entry(Max(Matching), inserted[Max(Matching)] - 1)
                ELSE Entry(Min(Matching), 0)

(* An iterator that is set to what a find returned meets that entry and    *)
(* then every later one, once each and in order, across all leaves, and    *)
(* ends after the last: a query reads a view that way.                     *)
IterationComplete ==
    task.op = "iterate" =>
        LET entries == Entries
            from == CHOOSE i \in DOMAIN entries : entries[i] = answer.entry
        IN  IF task.block = 0 THEN from + steps = Len(entries) + 1
            ELSE /\ from + steps \in DOMAIN entries
                 /\ task.index \in DOMAIN blocks[task.block].ents
                 /\ blocks[task.block].ents[task.index] = entries[from + steps]

(* While an operation is under way it holds the pages whose buffers it has *)
(* (block and parent: the cache may delete any other), and no more; when   *)
(* it is done it holds none, since the cache never gives up a page that    *)
(* is held.  Only findNext keeps pages: inner blocks, on its way down.     *)
PagesHeld ==
    LET buffers == {task.block, task.parent} \ {0}
        findsNext == task.op = "findNext" \/ (task = Idle /\ answer.op = "findNext")
    IN  /\ buffers \subseteq held
        /\ \A b \in held \ buffers : findsNext /\ ~ blocks[b].leaf
==============================================================================
