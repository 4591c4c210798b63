-------------------------- MODULE ConnectionProofs --------------------------
(***************************************************************************)
(* Proofs about Connection.  ShapeInv, the invariant of the control state  *)
(* and of the buffers, comes first; on it rest FramesInv, which says where *)
(* in the stream every packet is that is not handled yet, and the proof    *)
(* that each step keeps the order of the encrypted units.  What the model  *)
(* leaves to FlattenSeq is a recursive function: what is said of it for    *)
(* every sequence is proved by a least counterexample.                     *)
(***************************************************************************)
EXTENDS Connection, TLAPS, SequenceTheorems, WellFoundedInduction

------------------------------------------------------------------------------
(* The invariant that makes the two safety properties inductive *)

Critical == {"check", "write", "again", "push", "release"}

(* At most one thread is in postResponse or onWriteReady with the mutex,   *)
(* and while nothing has raced, none is when the channel answers to a      *)
(* handshake.                                                              *)
WritersTakeTurns ==
    /\ \A t \in Workers :
        /\ pc[t] \in {"ready", "post"} \cup Critical
        /\ pc[t] \in Critical <=> mutex = t
    /\ pc[Main] = "flush" => mutex = Main
    /\ mutex = Main => pc[Main] \in {"flush"} \cup Critical
    /\ ~ raced /\ Unlocked => mutex = Nobody

(* A thread has units to write only in onWriteRaw, and writes them only    *)
(* when there is no queue.                                                 *)
OutputHeld ==
    /\ \A t \in Threads :
        /\ Len(output[t]) <= RecordSize
        /\ output[t] # <<>> => pc[t] \in Critical \ {"release"}
        /\ pc[t] \in {"write", "again"} /\ ~ raced => sendQueue = <<>>
    /\ \A i \in DOMAIN sendQueue : Len(sendQueue[i]) <= RecordSize
    /\ IF sendQueue = <<>> THEN sendOffset = 0
       ELSE sendOffset <= Len(Head(sendQueue))

(* p_readReady is set exactly in onReadReady, and what readRaw delivers is *)
(* delivered before the next read().                                       *)
ReadInOnePlace ==
    /\ readReady => pc[Main] \notin {"ready", "dispatch", "flushLock", "flush"}
    /\ pc[Main] = "deliver" => readReady
    /\ pc[Main] \in Critical /\ mutex # Main => readReady
    /\ chunk # <<>> => readReady /\ pc[Main] # "read"

(* A buffer that is full is handled at once.                               *)
BuffersOpen ==
    IF validHead THEN /\ Len(curPacket) = HeadSize
                      /\ Len(partial) < Length(curPacket)
    ELSE Len(partial) < HeadSize

ShapeInv ==
    TypeOK /\ WritersTakeTurns /\ OutputHeld /\ ReadInOnePlace /\ BuffersOpen

(* What onReadTls has of the packet it is reading, and what is still to    *)
(* come: the packets that are not handled, one behind the other, with      *)
(* records of the channel between them.                                    *)
Size(r) == HeadSize + requests[r].length
Sent == {r \in RequestIds : requests[r].state # "planned"}
Pending == {r \in Sent : r > Len(handled)}
Current == Len(handled) + 1
Got == (IF validHead THEN curPacket ELSE <<>>) \o partial
Stream == chunk \o inbound

(* at[r]: how many units are in front of packet r, less than none if part  *)
(* of it was read.                                                         *)
Laid(at) ==
    /\ \A r \in Pending : \A k \in 1..Size(r) :
        at[r] + k > 0 =>
            at[r] + k \in DOMAIN Stream /\ Stream[at[r] + k] = <<r, k>>
    /\ \A r, q \in Pending : r < q => at[r] + Size(r) <= at[q]
    /\ \A i \in DOMAIN Stream :
        \/ Stream[i] = Handshake
        \/ \E r \in Pending : at[r] < i /\ i <= at[r] + Size(r)
    /\ \A r \in Pending :
        IF r = Current /\ Got # <<>> THEN at[r] = 0 - Len(Got) ELSE at[r] >= 0

StreamLaid == \E at \in [Pending -> (0 - Len(Got))..Len(Stream)] : Laid(at)

FramesInv ==
    /\ \A r \in Sent : 1..r \subseteq Sent
    /\ Len(handled) \in {0} \cup Sent
    /\ FramesAsSent
    /\ Got # <<>> => Current \in Pending /\ Got = SubSeq(Packet(Current), 1, Len(Got))
    /\ StreamLaid

ConnectionInv == ShapeInv /\ FramesInv /\ StreamIntact
------------------------------------------------------------------------------
(* The threads, and the bounds.                                            *)
LEMMA ThreadFacts ==
    /\ Main \in Threads /\ Main \notin Workers
    /\ Threads = Workers \cup {Main}
    /\ Nobody \notin Threads /\ 0 = Main
BY BoundsAssumption DEF Main, Threads, Workers, Nobody

(* The bounds are numbers.                                                 *)
LEMMA Constants ==
    /\ NumWorkers \in Nat /\ MaxRecords \in Nat /\ MaxRows \in Nat
    /\ MaxChunk \in Nat \ {0} /\ SendBuffer \in Nat \ {0}
    /\ HeadSize = 2 /\ RecordSize = 2
BY BoundsAssumption DEF HeadSize, RecordSize

(* A set of numbers has a least one.                                       *)
LEMMA Smallest ==
    ASSUME NEW S \in SUBSET Nat, S # {}
    PROVE  \E n \in S : \A m \in S : n <= m
<1>1. PICK x \in S : \A y \in S : ~ (<<y, x>> \in OpToRel(<, Nat))
  BY NatLessThanWellFounded, WFMin
<1>2. \A y \in S : ~ (y < x)
  BY <1>1 DEF OpToRel
<1> QED BY <1>2

(* A request is one.                                                       *)
LEMMA RequestTyped ==
    ASSUME TypeOK, NEW r \in RequestIds
    PROVE  /\ requests[r] \in Request
           /\ requests[r].opcode \in Opcodes /\ requests[r].length \in Nat
           /\ requests[r].state \in States /\ requests[r].rows \in 0..MaxRows
<1>1. requests \in Seq(Request)
  BY DEF TypeOK
<1>2. requests[r] \in Request
  BY <1>1 DEF RequestIds
<1> QED BY <1>2 DEF Request

(* A packet is made of units.                                              *)
LEMMA PacketUnits ==
    ASSUME TypeOK, NEW r \in RequestIds
    PROVE  /\ Packet(r) \in Seq(Unit)
           /\ Len(Packet(r)) = Size(r) /\ Size(r) \in Nat /\ Size(r) >= HeadSize
           /\ \A k \in 1..Size(r) : Packet(r)[k] = <<r, k>>
<1>1. requests[r].length \in Nat /\ Size(r) \in Nat /\ Size(r) >= HeadSize
  BY Constants, RequestTyped DEF Size
<1>2. Packet(r) = [k \in 1..Size(r) |-> <<r, k>>]
  BY DEF Packet, Size
<1>3. \A k \in 1..Size(r) : <<r, k>> \in Unit
  BY <1>1 DEF Unit
<1> QED BY <1>1, <1>2, <1>3

(* The state of one request changes and nothing else about any.            *)
LEMMA RequestChanged ==
    ASSUME TypeOK, NEW r \in RequestIds, NEW s \in States,
           requests' = [requests EXCEPT ![r].state = s]
    PROVE  /\ requests' \in Seq(Request)'
           /\ RequestIds' = RequestIds /\ Len(requests') = Len(requests)
           /\ Unit' = Unit /\ Responses' = Responses
           /\ requests'[r].state = s
           /\ \A q \in RequestIds :
                /\ requests'[q].length = requests[q].length
                /\ requests'[q].opcode = requests[q].opcode
                /\ q # r => requests'[q].state = requests[q].state
<1>1. requests[r] \in Request /\ [requests[r] EXCEPT !.state = s] \in Request
  BY RequestTyped DEF Request
<1>2. requests' \in Seq(Request) /\ Len(requests') = Len(requests)
  BY <1>1 DEF TypeOK, RequestIds
<1>3. RequestIds' = RequestIds
  BY <1>2 DEF RequestIds, TypeOK
<1>4. \A q \in RequestIds : requests'[q] =
            IF q = r THEN [requests[q] EXCEPT !.state = s] ELSE requests[q]
  BY DEF RequestIds, TypeOK
<1> QED BY <1>1, <1>2, <1>3, <1>4
   DEF Unit, Responses, Request, RequestIds, TypeOK

(* The number of rows of one request changes and nothing else about any.   *)
LEMMA RowsChanged ==
    ASSUME TypeOK, NEW r \in RequestIds, requests[r].rows < MaxRows,
           requests' = [requests EXCEPT ![r].rows = @ + 1]
    PROVE  /\ requests' \in Seq(Request)'
           /\ RequestIds' = RequestIds /\ Len(requests') = Len(requests)
           /\ Unit' = Unit /\ Responses' = Responses
           /\ \A q \in RequestIds :
                /\ requests'[q].length = requests[q].length
                /\ requests'[q].opcode = requests[q].opcode
                /\ requests'[q].state = requests[q].state
<1>1. /\ requests[r] \in Request
      /\ [requests[r] EXCEPT !.rows = @ + 1] \in Request
  BY Constants, RequestTyped DEF Request
<1>2. requests' \in Seq(Request) /\ Len(requests') = Len(requests)
  BY <1>1 DEF TypeOK, RequestIds
<1>3. RequestIds' = RequestIds
  BY <1>2 DEF RequestIds, TypeOK
<1>4. \A q \in RequestIds : requests'[q] =
            IF q = r THEN [requests[q] EXCEPT !.rows = @ + 1] ELSE requests[q]
  BY DEF RequestIds, TypeOK
<1> QED BY <1>1, <1>2, <1>3, <1>4
   DEF Unit, Responses, Request, RequestIds, TypeOK

(* What onReadTls gets are units of packets, the first ones of the chunk.  *)
LEMMA PlainUnits ==
    ASSUME TypeOK
    PROVE  /\ Plain \in Seq(Unit) /\ Len(Plain) \in 0..Len(chunk)
           /\ \A i \in 1..Len(Plain) : chunk[i] \in Unit /\ chunk[i] # Handshake
           /\ Len(Plain) < Len(chunk) => chunk[Len(Plain) + 1] = Handshake
<1> DEFINE ends == {n \in 1..Len(chunk) : chunk[n] = Handshake}
<1>0. /\ chunk \in Seq(Unit \cup {Handshake}) /\ Len(chunk) \in Nat
      /\ ends \in SUBSET Nat
  BY DEF TypeOK
<1>h. Handshake \notin Unit
  BY DEF Handshake, Unit
<1>1. CASE ends = {}
  <2>1. \A i \in 1..Len(chunk) : chunk[i] \in Unit /\ chunk[i] # Handshake
    BY <1>0, <1>1
  <2>2. chunk \in Seq(Unit)
    BY <1>0, <2>1
  <2> QED BY <1>0, <1>1, <2>1, <2>2 DEF Plain
<1>2. CASE ends # {}
  <2> DEFINE e == CHOOSE n \in ends : \A m \in ends : n <= m
  <2>1. e \in ends /\ \A m \in ends : e <= m
    <3> HIDE DEF ends
    <3>1. \E n \in ends : \A m \in ends : n <= m
      BY <1>0, <1>2, Smallest
    <3> QED BY <3>1
  <2>2. Plain = SubSeq(chunk, 1, e - 1)
    BY <1>2 DEF Plain
  <2> HIDE DEF e
  <2>3. e \in 1..Len(chunk) /\ chunk[e] = Handshake /\ e - 1 \in 0..Len(chunk)
    BY <1>0, <2>1
  <2>4. \A i \in 1..e - 1 : chunk[i] \in Unit /\ chunk[i] # Handshake
    BY <1>0, <2>1, <2>3
  <2>5. Plain \in Seq(Unit) /\ Len(Plain) = e - 1
    BY <1>0, <2>2, <2>3, <2>4
  <2> QED BY <1>0, <2>3, <2>4, <2>5
<1> QED BY <1>1, <1>2

(* What is copied.                                                         *)
LEMMA CopiedUnits ==
    ASSUME TypeOK, Plain # <<>>, NEW size \in Nat, Len(partial) < size
    PROVE  /\ Copied(size) \in 1..Len(chunk)
           /\ Copied(size) <= Len(Plain)
           /\ Len(partial) + Copied(size) <= size
           /\ Len(partial) + Copied(size) < size => Copied(size) = Len(Plain)
           /\ SubSeq(chunk, 1, Copied(size)) \in Seq(Unit)
           /\ Len(SubSeq(chunk, 1, Copied(size))) = Copied(size)
           /\ partial \o SubSeq(chunk, 1, Copied(size)) \in Seq(Unit)
           /\ Len(partial \o SubSeq(chunk, 1, Copied(size)))
                = Len(partial) + Copied(size)
           /\ SubSeq(chunk, Copied(size) + 1, Len(chunk))
                \in Seq(Unit \cup {Handshake})
<1>1. /\ chunk \in Seq(Unit \cup {Handshake}) /\ Len(chunk) \in Nat
      /\ partial \in Seq(Unit) /\ Len(partial) \in Nat
  BY DEF TypeOK
<1>2. Len(Plain) \in 1..Len(chunk)
  BY PlainUnits
<1> DEFINE n == Copied(size)
<1>3. /\ n \in 1..Len(chunk) /\ n <= Len(Plain) /\ Len(partial) + n <= size
      /\ Len(partial) + n < size => n = Len(Plain)
  BY <1>1, <1>2 DEF Copied
<1> HIDE DEF n
<1>4. SubSeq(chunk, 1, n) \in Seq(Unit) /\ Len(SubSeq(chunk, 1, n)) = n
  <2>1. \A i \in 1..n : chunk[i] \in Unit
    BY <1>2, <1>3, PlainUnits
  <2> QED BY <1>1, <1>3, <2>1
<1>5. SubSeq(chunk, n + 1, Len(chunk)) \in Seq(Unit \cup {Handshake})
  BY <1>1, <1>3
<1>6. /\ partial \o SubSeq(chunk, 1, n) \in Seq(Unit)
      /\ Len(partial \o SubSeq(chunk, 1, n)) = Len(partial) + n
  BY <1>1, <1>4
<1> QED BY <1>3, <1>4, <1>5, <1>6 DEF n

(* What write() takes is in the socket and on the wire.                    *)
LEMMA Transmitted ==
    ASSUME TypeOK, NEW units \in Seq(Nat), Transmit(units), Room > 0
    PROVE  /\ wire' \in Seq(Nat) /\ inFlight' \in 0..SendBuffer
           /\ noSpace' \in BOOLEAN
<1>1. inFlight \in 0..SendBuffer /\ SendBuffer \in Nat /\ wire \in Seq(Nat)
  BY Constants DEF TypeOK
<1>2. Room \in Nat /\ Room = SendBuffer - inFlight
  BY <1>1 DEF Room
<1> DEFINE n == IF Room < Len(units) THEN Room ELSE Len(units)
<1>3. n \in 0..Len(units) /\ n <= Room
  BY <1>2
<1>4. /\ wire' = wire \o SubSeq(units, 1, n) /\ inFlight' = inFlight + n
      /\ noSpace' = (noSpace \/ n < Len(units))
  BY DEF Transmit
<1> HIDE DEF n
<1>5. SubSeq(units, 1, n) \in Seq(Nat)
  BY <1>3
<1> QED BY <1>1, <1>2, <1>3, <1>4, <1>5 DEF TypeOK

(* What two sequences are together.                                        *)
LEMMA Concatenated ==
    ASSUME NEW S, NEW a \in Seq(S), NEW b \in Seq(S)
    PROVE  /\ a \o b \in Seq(S) /\ Len(a \o b) = Len(a) + Len(b)
           /\ Len(a) \in Nat /\ Len(b) \in Nat
           /\ \A i \in 1..Len(a) + Len(b) :
                (a \o b)[i] = IF i <= Len(a) THEN a[i] ELSE b[i - Len(a)]
OBVIOUS

(* What is left of a sequence without its first units.                     *)
LEMMA Dropped ==
    ASSUME NEW S, NEW a \in Seq(S), NEW n \in 0..Len(a)
    PROVE  /\ SubSeq(a, n + 1, Len(a)) \in Seq(S)
           /\ Len(SubSeq(a, n + 1, Len(a))) = Len(a) - n
           /\ \A i \in 1..Len(a) - n : SubSeq(a, n + 1, Len(a))[i] = a[n + i]
OBVIOUS

(* The first units of two sequences, and what is left of them.             *)
LEMMA DropFirst ==
    ASSUME NEW S, NEW a \in Seq(S), NEW b \in Seq(S), NEW n \in 0..Len(a)
    PROVE  /\ SubSeq(a, n + 1, Len(a)) \o b = SubSeq(a \o b, n + 1, Len(a \o b))
           /\ SubSeq(a, 1, n) = SubSeq(a \o b, 1, n)
<1>1. /\ a \o b \in Seq(S) /\ Len(a \o b) = Len(a) + Len(b)
      /\ \A i \in 1..Len(a) + Len(b) :
            (a \o b)[i] = IF i <= Len(a) THEN a[i] ELSE b[i - Len(a)]
      /\ Len(a) \in Nat /\ Len(b) \in Nat
  BY Concatenated
<1> DEFINE rest == SubSeq(a, n + 1, Len(a))
           both == a \o b
<1>2. /\ rest \in Seq(S) /\ Len(rest) = Len(a) - n
      /\ \A i \in 1..Len(a) - n : rest[i] = a[n + i]
  BY Dropped
<1>3. /\ rest \o b \in Seq(S) /\ Len(rest \o b) = Len(a) - n + Len(b)
      /\ \A i \in 1..Len(a) - n + Len(b) : (rest \o b)[i] = both[n + i]
  <2> HIDE DEF rest, both
  <2>1. /\ rest \o b \in Seq(S) /\ Len(rest \o b) = Len(rest) + Len(b)
        /\ \A i \in 1..Len(rest) + Len(b) :
            (rest \o b)[i] = IF i <= Len(rest) THEN rest[i] ELSE b[i - Len(rest)]
    BY <1>2, Concatenated
  <2>2. \A i \in 1..Len(a) + Len(b) :
            both[i] = IF i <= Len(a) THEN a[i] ELSE b[i - Len(a)]
    BY <1>1 DEF both
  <2>3. Len(rest) + Len(b) = Len(a) - n + Len(b) /\ Len(b) \in Nat /\ Len(a) \in Nat
    BY <1>1, <1>2
  <2>4. ASSUME NEW i \in 1..Len(a) - n + Len(b)
        PROVE  (rest \o b)[i] = both[n + i]
    <3>1. CASE i <= Len(rest)
      <4>1. /\ i \in 1..Len(a) - n /\ n + i \in 1..Len(a) + Len(b) /\ n + i <= Len(a)
            /\ i \in 1..Len(rest) + Len(b)
        BY <1>2, <2>3, <3>1
      <4> QED BY <1>2, <2>1, <2>2, <3>1, <4>1
    <3>2. CASE i > Len(rest)
      <4>1. /\ n + i \in 1..Len(a) + Len(b) /\ ~ (n + i <= Len(a))
            /\ i \in 1..Len(rest) + Len(b) /\ ~ (i <= Len(rest))
            /\ (n + i) - Len(a) = i - Len(rest)
        BY <1>2, <2>3, <3>2
      <4>2. (rest \o b)[i] = b[i - Len(rest)]
        BY <2>1, <4>1
      <4>3. both[n + i] = b[(n + i) - Len(a)]
        BY <2>2, <4>1
      <4> QED BY <4>1, <4>2, <4>3
    <3> QED BY <1>2, <2>3, <3>1, <3>2
  <2> QED BY <2>1, <2>3, <2>4
<1> HIDE DEF rest, both
<1>4. both \in Seq(S) /\ Len(both) = Len(a) + Len(b)
  BY <1>1 DEF both
<1> DEFINE tail == SubSeq(both, n + 1, Len(both))
<1>5. /\ tail \in Seq(S) /\ Len(tail) = Len(a) + Len(b) - n
      /\ \A i \in 1..Len(a) + Len(b) - n : tail[i] = both[n + i]
  BY <1>1, <1>4
<1>6. rest \o b = tail
  <2> HIDE DEF tail
  <2>1. Len(rest \o b) = Len(tail)
    BY <1>1, <1>3, <1>5
  <2>2. \A i \in 1..Len(tail) : (rest \o b)[i] = tail[i]
    BY <1>1, <1>3, <1>5
  <2> QED BY <1>3, <1>5, <2>1, <2>2, SeqEqual
<1>7. SubSeq(a, 1, n) = SubSeq(both, 1, n)
  <2>1. \A i \in 1..n : a[i] = both[i]
    BY <1>1 DEF both
  <2> QED BY <1>1, <1>4, <2>1
<1> QED BY <1>6, <1>7 DEF rest, both

(* The first units and the rest are the sequence.                          *)
LEMMA TakeDrop ==
    ASSUME NEW S, NEW a \in Seq(S), NEW n \in 0..Len(a)
    PROVE  SubSeq(a, 1, n) \o SubSeq(a, n + 1, Len(a)) = a
<1> DEFINE f == SubSeq(a, 1, n)
           g == SubSeq(a, n + 1, Len(a))
<1>1. /\ f \in Seq(S) /\ Len(f) = n /\ \A i \in 1..n : f[i] = a[i]
      /\ g \in Seq(S) /\ Len(g) = Len(a) - n /\ \A i \in 1..Len(a) - n : g[i] = a[n + i]
      /\ Len(a) \in Nat
  OBVIOUS
<1> HIDE DEF f, g
<1>2. /\ f \o g \in Seq(S) /\ Len(f \o g) = Len(a)
      /\ \A i \in 1..Len(a) : (f \o g)[i] = a[i]
  <2>1. /\ f \o g \in Seq(S) /\ Len(f \o g) = Len(f) + Len(g)
        /\ \A i \in 1..Len(f) + Len(g) :
            (f \o g)[i] = IF i <= Len(f) THEN f[i] ELSE g[i - Len(f)]
    BY <1>1, Concatenated
  <2>2. ASSUME NEW i \in 1..Len(a), i > n
        PROVE  g[i - n] = a[i]
    <3>1. i - n \in 1..Len(a) - n /\ n + (i - n) = i
      BY <1>1, <2>2
    <3> QED BY <1>1, <3>1
  <2> QED BY <1>1, <2>1, <2>2
<1>3. f \o g = a
  BY <1>2, SeqEqual
<1> QED BY <1>3 DEF f, g

-------------------------------------------------------------------------------
(* FlattenSeq *)

(* The recursive function in FlattenSeq. *)
Flattens(f, seqs, n) ==
    f = [i \in 1..n |-> IF i = 1 THEN seqs[i] ELSE f[i - 1] \o seqs[i]]

(* There is such a function, ...                                           *)
LEMMA FlattensExists ==
    ASSUME NEW S, NEW seqs \in Seq(Seq(S))
    PROVE  \A n \in 0..Len(seqs) : \E f \in [1..n -> Seq(S)] : Flattens(f, seqs, n)
<1> DEFINE Bad == {n \in 0..Len(seqs) : ~ \E f \in [1..n -> Seq(S)] : Flattens(f, seqs, n)}
<1> SUFFICES ASSUME Bad # {} PROVE FALSE
  OBVIOUS
<1>0. Bad \in SUBSET Nat /\ Len(seqs) \in Nat
  OBVIOUS
<1>1. PICK n \in Bad : \A m \in Bad : n <= m
  <2> HIDE DEF Bad
  <2> QED BY <1>0, Smallest
<1>2. n # 0
  <2> SUFFICES ASSUME n = 0 PROVE \E f \in [1..n -> Seq(S)] : Flattens(f, seqs, n)
    OBVIOUS
  <2> WITNESS [i \in 1..0 |-> IF i = 1 THEN seqs[i] ELSE <<>>] \in [1..n -> Seq(S)]
  <2> QED BY DEF Flattens
<1>3. n - 1 \in 0..Len(seqs) /\ n - 1 \notin Bad
  <2>1. n \in 0..Len(seqs)
    BY <1>1
  <2>2. n - 1 \in 0..Len(seqs)
    BY <1>0, <1>2, <2>1
  <2> HIDE DEF Bad
  <2> QED BY <1>0, <1>1, <2>2
<1>4. PICK g \in [1..n-1 -> Seq(S)] : Flattens(g, seqs, n - 1)
  BY <1>3
<1> DEFINE f == [i \in 1..n |-> IF i = n THEN IF n = 1 THEN seqs[1] ELSE g[n-1] \o seqs[n] ELSE g[i]]
<1>5. f \in [1..n -> Seq(S)]
  BY <1>0, <1>2
<1>6. Flattens(f, seqs, n)
  <2>1. n \in Nat \ {0}
    BY <1>0, <1>1, <1>2
  <2>2. \A i \in 1..n - 1 : g[i] = (IF i = 1 THEN seqs[i] ELSE g[i - 1] \o seqs[i])
    BY <1>4, <2>1 DEF Flattens
  <2>3. \A i \in 1..n - 1 : f[i] = g[i]
    <3>1. \A i \in 1..n - 1 : i \in 1..n /\ i # n
      BY <2>1
    <3> QED BY <3>1
  <2>4. f[n] = IF n = 1 THEN seqs[1] ELSE g[n - 1] \o seqs[n]
    BY <2>1
  <2>5. ASSUME NEW i \in 1..n
        PROVE  f[i] = (IF i = 1 THEN seqs[i] ELSE f[i - 1] \o seqs[i])
    <3> HIDE DEF f
    <3>1. CASE i = n
      <4>1. n # 1 => f[n - 1] = g[n - 1]
        BY <2>1, <2>3
      <4> QED BY <2>4, <3>1, <4>1
    <3>2. CASE i # n
      <4>1. i \in 1..n - 1 /\ (i # 1 => i - 1 \in 1..n - 1)
        BY <2>1, <3>2
      <4> QED BY <2>2, <2>3, <4>1
    <3> QED BY <3>1, <3>2
  <2>6. f = [i \in 1..n |-> f[i]]
    OBVIOUS
  <2> HIDE DEF f
  <2> QED BY <2>5, <2>6 DEF Flattens
<1> QED BY <1>1, <1>5, <1>6

(* ... only one, ...                                                       *)
LEMMA FlattensUnique ==
    ASSUME NEW seqs, NEW n \in Nat, NEW f, NEW g, Flattens(f, seqs, n), Flattens(g, seqs, n)
    PROVE  \A i \in 1..n : f[i] = g[i]
<1> DEFINE Bad == {i \in 1..n : f[i] # g[i]}
<1> SUFFICES ASSUME Bad # {} PROVE FALSE
  OBVIOUS
<1>0. Bad \in SUBSET Nat
  OBVIOUS
<1>1. PICK i \in Bad : \A m \in Bad : i <= m
  <2> HIDE DEF Bad
  <2> QED BY <1>0, Smallest
<1>2. i \in 1..n /\ f[i] # g[i]
  BY <1>1
<1>3. \A j \in 1..n : /\ f[j] = (IF j = 1 THEN seqs[j] ELSE f[j - 1] \o seqs[j])
                       /\ g[j] = (IF j = 1 THEN seqs[j] ELSE g[j - 1] \o seqs[j])
  BY DEF Flattens
<1>4. i # 1
  BY <1>2, <1>3
<1>5. i - 1 \in 1..n /\ ~ (i <= i - 1)
  BY <1>2, <1>4
<1>6. f[i - 1] = g[i - 1]
  BY <1>1, <1>5
<1> QED BY <1>2, <1>3, <1>4, <1>6

(* ... and it is what FlattenSeq takes its value from.                     *)
LEMMA FlattenIs ==
    ASSUME NEW S, NEW seqs \in Seq(Seq(S)), seqs # <<>>
    PROVE  \E f \in [1..Len(seqs) -> Seq(S)] :
              Flattens(f, seqs, Len(seqs)) /\ FlattenSeq(seqs) = f[Len(seqs)]
<1>1. PICK f \in [1..Len(seqs) -> Seq(S)] : Flattens(f, seqs, Len(seqs))
  BY FlattensExists
<1> DEFINE g == CHOOSE h : Flattens(h, seqs, Len(seqs))
<1>2. Flattens(g, seqs, Len(seqs))
  BY <1>1
<1>3. FlattenSeq(seqs) = g[Len(seqs)]
  BY DEF FlattenSeq, Flattens
<1>4. Len(seqs) \in 1..Len(seqs) /\ Len(seqs) \in Nat
  OBVIOUS
<1> HIDE DEF g
<1>5. g[Len(seqs)] = f[Len(seqs)]
  BY <1>1, <1>2, <1>4, FlattensUnique
<1> QED BY <1>1, <1>3, <1>5

(* Concatenation is associative.                                           *)
LEMMA Associative ==
    ASSUME NEW S, NEW x \in Seq(S), NEW y \in Seq(S), NEW z \in Seq(S)
    PROVE  (x \o y) \o z = x \o (y \o z)
BY ConcatAssociative

(* Flattening nothing, ...                                                 *)
LEMMA FlattenEmpty == FlattenSeq(<<>>) = <<>>
BY DEF FlattenSeq

(* ... one more sequence, ...                                              *)
LEMMA FlattenAppend ==
    ASSUME NEW S, NEW seqs \in Seq(Seq(S)), NEW s \in Seq(S)
    PROVE  FlattenSeq(Append(seqs, s)) = FlattenSeq(seqs) \o s
<1> DEFINE longer == Append(seqs, s)
           n == Len(seqs)
<1>1. /\ longer \in Seq(Seq(S)) /\ Len(longer) = n + 1 /\ n \in Nat
      /\ longer[n + 1] = s /\ \A i \in 1..n : longer[i] = seqs[i]
  OBVIOUS
<1> HIDE DEF longer
<1>2. PICK f : Flattens(f, longer, n + 1) /\ FlattenSeq(longer) = f[n + 1]
  BY <1>1, FlattenIs
<1>3. \A i \in 1..n + 1 : f[i] = (IF i = 1 THEN longer[i] ELSE f[i - 1] \o longer[i])
  BY <1>2 DEF Flattens
<1>4. CASE n = 0
  <2>1. seqs = <<>>
    BY <1>4
  <2> QED BY <1>1, <1>2, <1>3, <1>4, <2>1, FlattenEmpty DEF longer
<1>5. CASE n > 0
  <2>1. seqs # <<>>
    BY <1>5
  <2>2. PICK g : Flattens(g, seqs, n) /\ FlattenSeq(seqs) = g[n]
    BY <2>1, FlattenIs
  <2> DEFINE h == [i \in 1..n |-> f[i]]
  <2>3. Flattens(h, seqs, n)
    <3>1. ASSUME NEW i \in 1..n
          PROVE  h[i] = (IF i = 1 THEN seqs[i] ELSE h[i - 1] \o seqs[i])
      <4>1. i \in 1..n + 1 /\ (i # 1 => i - 1 \in 1..n) 
        BY <1>1
      <4> QED BY <1>1, <1>3, <4>1
    <3>2. h = [i \in 1..n |-> h[i]]
      OBVIOUS
    <3> HIDE DEF h
    <3> QED BY <3>1, <3>2 DEF Flattens
  <2>4. n \in 1..n /\ n + 1 \in 1..n + 1 /\ n + 1 # 1 /\ n + 1 - 1 = n
    BY <1>1, <1>5
  <2>5. h[n] = g[n] /\ h[n] = f[n]
    <3>1. h[n] = f[n]
      BY <2>4
    <3> HIDE DEF h
    <3> QED BY <1>1, <2>2, <2>3, <2>4, <3>1, FlattensUnique
  <2> HIDE DEF h
  <2>6. f[n + 1] = f[n] \o longer[n + 1]
    <3> DEFINE k == n + 1
    <3>1. k \in 1..n + 1 /\ k # 1 /\ k - 1 = n
      BY <2>4
    <3> HIDE DEF k
    <3>2. f[k] = f[n] \o longer[k]
      BY <1>3, <3>1
    <3> QED BY <3>2 DEF k
  <2> QED BY <1>1, <1>2, <2>2, <2>5, <2>6 DEF longer
<1> QED BY <1>1, <1>4, <1>5

(* ... and a sequence of sequences over S is one over S.                   *)
LEMMA FlattenType ==
    ASSUME NEW S, NEW seqs \in Seq(Seq(S))
    PROVE  FlattenSeq(seqs) \in Seq(S)
<1>1. CASE seqs = <<>>
  <2>1. <<>> \in Seq(S)
    OBVIOUS
  <2> QED BY <1>1, <2>1, FlattenEmpty
<1>2. CASE seqs # <<>>
  <2>1. PICK f \in [1..Len(seqs) -> Seq(S)] : FlattenSeq(seqs) = f[Len(seqs)]
    BY <1>2, FlattenIs
  <2>2. Len(seqs) \in 1..Len(seqs)
    BY <1>2
  <2> QED BY <2>1, <2>2
<1> QED BY <1>1, <1>2

(* The first sequence comes first.                                         *)
LEMMA FlattenTail ==
    ASSUME NEW S, NEW seqs \in Seq(Seq(S)), seqs # <<>>
    PROVE  FlattenSeq(seqs) = Head(seqs) \o FlattenSeq(Tail(seqs))
<1> DEFINE Good(t) == FlattenSeq(t) = Head(t) \o FlattenSeq(Tail(t))
           Bad == {n \in Nat \ {0} : \E t \in Seq(Seq(S)) : Len(t) = n /\ ~ Good(t)}
<1> SUFFICES ASSUME ~ Good(seqs) PROVE FALSE
  OBVIOUS
<1>0. Bad \in SUBSET Nat /\ Len(seqs) \in Bad
  OBVIOUS
<1>1. PICK n \in Bad : \A m \in Bad : n <= m
  <2> HIDE DEF Bad
  <2> QED BY <1>0, Smallest
<1>2. PICK t \in Seq(Seq(S)) : Len(t) = n /\ ~ Good(t) /\ n \in Nat \ {0}
  BY <1>1
<1>3. PICK front \in Seq(Seq(S)), last \in Seq(S) : t = Append(front, last)
  <2>1. t # <<>>
    BY <1>2
  <2> HIDE DEF Bad, Good
  <2> QED BY <2>1, SequenceEmptyOrAppend
<1>4. front # <<>>
  <2> SUFFICES ASSUME front = <<>> PROVE Good(t)
    BY <1>2
  <2>1. t = <<last>> /\ Head(t) = last /\ Tail(t) = <<>>
    BY <1>3
  <2>2. FlattenSeq(t) = last
    <3>1. <<>> \o last = last
      BY ConcatEmptySeq
    <3>2. FlattenSeq(t) = FlattenSeq(front) \o last
      BY <1>3, FlattenAppend
    <3> QED BY <3>1, <3>2, FlattenEmpty
  <2>3. last \o <<>> = last
    BY ConcatEmptySeq
  <2> QED BY <2>1, <2>2, FlattenEmpty, <2>3
<1>5. Good(front)
  <2>1. Len(front) \in Nat \ {0} /\ ~ (n <= Len(front))
    <3> HIDE DEF Good, Bad
    <3> QED BY <1>2, <1>3, <1>4
  <2>2. Len(front) \notin Bad
    <3> HIDE DEF Bad
    <3> QED BY <1>1, <2>1
  <2> QED BY <2>1, <2>2
<1>6. /\ Tail(t) = Append(Tail(front), last) /\ Head(t) = Head(front)
      /\ Tail(front) \in Seq(Seq(S)) /\ Head(front) \in Seq(S)
  <2> HIDE DEF Good, Bad
  <2>1. Head(t) = Head(front) /\ Tail(t) = Append(Tail(front), last)
    BY <1>3, <1>4, HeadTailAppend
  <2>2. Tail(front) \in Seq(Seq(S)) /\ Head(front) \in Seq(S)
    BY <1>4, HeadTailProperties
  <2> QED BY <2>1, <2>2
<1>7. FlattenSeq(t) = (Head(front) \o FlattenSeq(Tail(front))) \o last
  BY <1>3, <1>5, FlattenAppend
<1>8. FlattenSeq(Tail(t)) = FlattenSeq(Tail(front)) \o last
  BY <1>3, <1>6, FlattenAppend
<1>9. FlattenSeq(Tail(front)) \in Seq(S)
  BY <1>6, FlattenType
<1>10. Good(t)
  <2>1. (Head(front) \o FlattenSeq(Tail(front))) \o last
            = Head(front) \o (FlattenSeq(Tail(front)) \o last)
    <3> DEFINE a == Head(front)
               b == FlattenSeq(Tail(front))
    <3>1. a \in Seq(S) /\ b \in Seq(S) /\ last \in Seq(S)
      BY <1>6, <1>9
    <3> HIDE DEF Good, Bad, a, b
    <3>2. (a \o b) \o last = a \o (b \o last)
      BY ONLY <3>1, ConcatAssociative, SMTT(60)
    <3> QED BY <3>2 DEF a, b
  <2> QED BY <1>6, <1>7, <1>8, <2>1
<1> QED BY <1>2, <1>10

(* If at most one sequence is not empty, it is what flattening gives.      *)
LEMMA FlattenOne ==
    ASSUME NEW S, NEW seqs \in Seq(Seq(S)), NEW p \in 1..Len(seqs),
           \A i \in 1..Len(seqs) : i # p => seqs[i] = <<>>
    PROVE  FlattenSeq(seqs) = seqs[p]
<1> DEFINE n == Len(seqs)
<1>1. n \in Nat /\ n \in 1..n /\ seqs # <<>> /\ seqs[p] \in Seq(S)
  OBVIOUS
<1>2. PICK f \in [1..n -> Seq(S)] : Flattens(f, seqs, n) /\ FlattenSeq(seqs) = f[n]
  BY <1>1, FlattenIs
<1>3. \A i \in 1..n : f[i] = (IF i = 1 THEN seqs[i] ELSE f[i - 1] \o seqs[i])
  BY <1>2 DEF Flattens
<1> DEFINE Value(i) == IF i < p THEN <<>> ELSE seqs[p]
           Bad == {i \in 1..n : f[i] # Value(i)}
<1>4. Bad = {}
  <2> SUFFICES ASSUME Bad # {} PROVE FALSE
    OBVIOUS
  <2>1. Bad \in SUBSET Nat
    OBVIOUS
  <2>2. PICK i \in Bad : \A m \in Bad : i <= m
    <3> HIDE DEF Bad
    <3> QED BY <2>1, Smallest
  <2>3. i \in 1..n /\ f[i] # Value(i)
    BY <2>2
  <2>4. i # 1
    <3> SUFFICES ASSUME i = 1 PROVE FALSE
      OBVIOUS
    <3>1. f[1] = seqs[1]
      BY <1>3, <2>3
    <3>2. seqs[1] = Value(1)
      BY <1>1, <2>3
    <3> QED BY <2>3, <3>1, <3>2
  <2>5. i - 1 \in 1..n /\ ~ (i <= i - 1)
    BY <1>1, <2>3, <2>4
  <2>6. f[i - 1] = Value(i - 1)
    BY <2>2, <2>5
  <2>7. f[i] = Value(i - 1) \o seqs[i]
    BY <1>3, <2>3, <2>4, <2>6
  <2>8. CASE i = p
    <3>1. Value(i - 1) = <<>> /\ Value(i) = seqs[p]
      BY <1>1, <2>3, <2>8
    <3>2. <<>> \o seqs[p] = seqs[p]
      BY <1>1, ConcatEmptySeq
    <3> HIDE DEF Value
    <3> QED BY <2>3, <2>7, <2>8, <3>1, <3>2
  <2>9. CASE i # p
    <3>1. Value(i - 1) = Value(i)
      BY <1>1, <2>3, <2>9
    <3>2. seqs[i] = <<>> /\ Value(i) \in Seq(S)
      <4>1. <<>> \in Seq(S)
        OBVIOUS
      <4> QED BY <1>1, <2>3, <2>9, <4>1
    <3>3. f[i] = Value(i)
      <4> HIDE DEF Value
      <4>1. Value(i) \o <<>> = Value(i)
        BY <3>2, ConcatEmptySeq
      <4> QED BY <2>7, <3>1, <3>2, <4>1
    <3> QED BY <2>3, <3>3
  <2> QED BY <2>8, <2>9
<1>5. f[n] = Value(n) /\ ~ (n < p)
  <2>1. f[n] = Value(n)
    BY ONLY <1>1, <1>4
  <2> QED BY <1>1, <2>1
<1> QED BY <1>2, <1>5

-------------------------------------------------------------------------------
(* The invariant of the control state and of the buffers, step by step *)

(* The groups of variables.                                                *)
USE DEF client, socket, flags, reader, sending, posting, process

(* How long the body is, by the head.                                      *)
LEMMA LengthTyped ==
    ASSUME TypeOK, NEW head \in Seq(Unit), Len(head) > 0
    PROVE  /\ head[1][1] \in RequestIds
           /\ Length(head) = requests[head[1][1]].length /\ Length(head) \in Nat
<1>1. head[1] \in Unit
  OBVIOUS
<1>2. head[1][1] \in RequestIds
  BY <1>1 DEF Unit
<1> QED BY <1>2, RequestTyped DEF Length

(* A head that was read is a whole one.                                    *)
LEMMA HeadThere ==
    ASSUME TypeOK, BuffersOpen, validHead
    PROVE  /\ curPacket \in Seq(Unit) /\ Len(curPacket) = 2 /\ Len(curPacket) > 0
           /\ Length(curPacket) \in Nat /\ partial \in Seq(Unit)
<1>1. curPacket \in Seq(Unit) /\ partial \in Seq(Unit)
  BY DEF TypeOK
<1>2. Len(curPacket) = HeadSize
  BY DEF BuffersOpen
<1>3. Len(curPacket) = 2 /\ Len(curPacket) > 0
  BY <1>2, Constants
<1> QED BY <1>1, <1>3, LengthTyped

(* The buffers are as they were.                                           *)
LEMMA BuffersSame ==
    ASSUME TypeOK, BuffersOpen, UNCHANGED <<validHead, curPacket, partial>>,
           \A q \in RequestIds : requests'[q].length = requests[q].length
    PROVE  BuffersOpen'
<1>1. CASE ~ validHead
  BY <1>1 DEF BuffersOpen
<1>2. CASE validHead
  <2>1. curPacket \in Seq(Unit) /\ Len(curPacket) > 0
    BY <1>2, HeadThere
  <2>2. Length(curPacket)' = Length(curPacket)
    BY <2>1, LengthTyped DEF Length
  <2> QED BY <1>2, <2>2 DEF BuffersOpen
<1> QED BY <1>1, <1>2

(* The record that a thread has encrypted.                                 *)
LEMMA Encrypted ==
    ASSUME TypeOK, NEW t \in Threads, NEW response \in Responses, Encrypt(t, response)
    PROVE  /\ records' \in Seq(Responses) /\ Len(records') = Len(records) + 1
           /\ output' \in [Threads -> Seq(Nat)]
           /\ \A s \in Threads : s # t => output'[s] = output[s]
           /\ Len(output'[t]) = RecordSize
           /\ output'[t] = [k \in 1..RecordSize |-> Len(records) * RecordSize + k]
<1>1. /\ records' = Append(records, response)
      /\ records \in Seq(Responses) /\ Len(records) \in Nat
  BY DEF TypeOK, Encrypt
<1> DEFINE record == [k \in 1..RecordSize |-> Len(records) * RecordSize + k]
<1>2. record \in Seq(Nat) /\ Len(record) = RecordSize
  BY <1>1, Constants
<1>3. output' = [output EXCEPT ![t] = record]
  BY DEF Encrypt
<1> HIDE DEF record
<1>4. output \in [Threads -> Seq(Nat)]
  BY DEF TypeOK
<1>5. /\ output' \in [Threads -> Seq(Nat)] /\ output'[t] = record
      /\ \A s \in Threads : s # t => output'[s] = output[s]
  BY <1>2, <1>3, <1>4
<1>6. output'[t] = [k \in 1..RecordSize |-> Len(records) * RecordSize + k]
  BY <1>5 DEF record
<1>7. /\ records' \in Seq(Responses) /\ Len(records') = Len(records) + 1
      /\ output' \in [Threads -> Seq(Nat)]
      /\ \A s \in Threads : s # t => output'[s] = output[s]
      /\ Len(output'[t]) = RecordSize
  BY <1>1, <1>2, <1>5
<1> QED BY <1>6, <1>7

(* What a request is answered with in one go.                              *)
Kinds == {<<"fin">>, <<"data">>, <<"data", "fin">>}

(* The responses that a thread will post.                                  *)
LEMMA Responded ==
    ASSUME TypeOK, NEW t \in Threads, NEW r \in RequestIds, NEW from,
           NEW kinds \in Kinds,
           Respond(t, r, from, kinds)
    PROVE  /\ todo' \in [Threads -> Seq(Responses)]
           /\ serving' \in [Threads -> {0} \cup RequestIds]
           /\ pc[t] = from /\ pc' = [pc EXCEPT ![t] = "post"]
           /\ UNCHANGED <<mutex, output, records, raced>>
<1> DEFINE list == [n \in DOMAIN kinds |-> Response(r, kinds[n])]
<1>1. list \in Seq(Responses)
  <2>1. /\ Response(r, "data") \in Responses /\ Response(r, "fin") \in Responses
    BY DEF Response, Responses
  <2>2. /\ Len(kinds) \in {1, 2} /\ DOMAIN kinds = 1..Len(kinds)
        /\ \A n \in DOMAIN kinds : kinds[n] \in {"data", "fin"}
    BY DEF Kinds
  <2>3. list \in [1..Len(kinds) -> Responses]
    BY <2>1, <2>2
  <2> HIDE DEF list
  <2> QED BY <2>2, <2>3
<1>2. todo' = [todo EXCEPT ![t] = list]
  BY DEF Respond
<1> HIDE DEF list
<1> QED BY <1>1, <1>2 DEF Respond, Goto, TypeOK

(* What processMessage changes.                                            *)
LEMMA Processed ==
    ASSUME TypeOK, pc[Main] = "deliver", NEW message \in Seq(Unit), Len(message) > 0,
           ProcessMessage(message)
    PROVE  /\ requests' \in Seq(Request)'
           /\ RequestIds' = RequestIds /\ Unit' = Unit /\ Responses' = Responses
           /\ handled' \in Seq(Seq(Unit)) /\ running' \in BOOLEAN
           /\ pc' \in [Threads -> Points] /\ pc'[Main] \in {"deliver", "post"}
           /\ \A t \in Threads \ {Main} : pc'[t] = pc[t]
           /\ todo' \in [Threads -> Seq(Responses)]
           /\ serving' \in [Threads -> {0} \cup RequestIds]
           /\ UNCHANGED <<mutex, output, records, raced>>
           /\ handled' = Append(handled, message)
           /\ requests'[message[1][1]].state \in {"engine", "answered"}
           /\ \A q \in RequestIds :
                /\ requests'[q].length = requests[q].length
                /\ q # message[1][1] => requests'[q].state = requests[q].state
<1> DEFINE r == message[1][1]
<1>1. r \in RequestIds
  BY LengthTyped
<1> HIDE DEF r
<1>2. handled' = Append(handled, message) /\ handled' \in Seq(Seq(Unit))
  BY DEF ProcessMessage, TypeOK
<1>3. PICK s \in {"engine", "answered"} :
            requests' = [requests EXCEPT ![r].state = s]
  BY DEF ProcessMessage, Progress, r
<1>4. s \in States
  BY DEF States
<1>5. running' \in BOOLEAN
  BY DEF ProcessMessage, TypeOK
<1>6. \/ UNCHANGED <<pc, posting>>
      \/ \E kinds \in Kinds :
              Respond(Main, r, "deliver", kinds)
  BY DEF ProcessMessage, r, Kinds
<1>7. /\ pc' \in [Threads -> Points] /\ pc'[Main] \in {"deliver", "post"}
      /\ \A t \in Threads \ {Main} : pc'[t] = pc[t]
      /\ todo' \in [Threads -> Seq(Responses)]
      /\ serving' \in [Threads -> {0} \cup RequestIds]
      /\ UNCHANGED <<mutex, output, records, raced>>
  <2>1. CASE UNCHANGED <<pc, posting>>
    BY <2>1 DEF TypeOK
  <2>2. CASE \E kinds \in Kinds :
                 Respond(Main, r, "deliver", kinds)
    <3>1. /\ todo' \in [Threads -> Seq(Responses)]
          /\ serving' \in [Threads -> {0} \cup RequestIds]
          /\ pc' = [pc EXCEPT ![Main] = "post"]
          /\ UNCHANGED <<mutex, output, records, raced>>
      <4>1. PICK kinds \in Kinds :
                Respond(Main, r, "deliver", kinds)
        BY <2>2
      <4> QED BY <1>1, <4>1, ThreadFacts, Responded
    <3> QED BY <3>1, ThreadFacts DEF TypeOK, Points
  <2> QED BY <1>6, <2>1, <2>2
<1>8. /\ requests' \in Seq(Request)'
      /\ RequestIds' = RequestIds /\ Unit' = Unit /\ Responses' = Responses
      /\ requests'[r].state \in {"engine", "answered"}
      /\ \A q \in RequestIds :
            /\ requests'[q].length = requests[q].length
            /\ q # r => requests'[q].state = requests[q].state
  BY <1>1, <1>3, <1>4, RequestChanged
<1> QED BY <1>2, <1>5, <1>7, <1>8 DEF r

(* It holds at the start.                                                  *)
LEMMA ShapeInit == Init => ShapeInv
<1> SUFFICES ASSUME Init PROVE ShapeInv
  OBVIOUS
<1>1. TypeOK
  <2>1. PICK session \in Sessions :
            requests = [r \in DOMAIN session |->
                [opcode |-> session[r].opcode, length |-> session[r].length,
                 state |-> "planned", rows |-> 0]]
    BY DEF Init
  <2>2. session \in Seq([opcode : Opcodes, length : Nat])
    BY SessionsAssumption
  <2>3. requests \in Seq(Request)
    <3>1. \A r \in DOMAIN session :
              session[r].opcode \in Opcodes /\ session[r].length \in Nat
      <4> DEFINE S == [opcode : Opcodes, length : Nat]
      <4>1. session \in Seq(S)
        BY <2>2
      <4> SUFFICES ASSUME NEW r \in DOMAIN session
                   PROVE  session[r].opcode \in Opcodes /\ session[r].length \in Nat
        OBVIOUS
      <4>2. session[r] \in S
        <5> HIDE DEF S
        <5>1. r \in 1..Len(session)
          BY <4>1
        <5> QED BY <4>1, <5>1, ElementOfSeq
      <4> QED BY <4>2
    <3>2. \A r \in DOMAIN session :
              [opcode |-> session[r].opcode, length |-> session[r].length,
               state |-> "planned", rows |-> 0] \in Request
      BY <3>1, Constants DEF Request, States
    <3>3. DOMAIN session = 1..Len(session) /\ Len(session) \in Nat
      BY <2>2
    <3> QED BY <2>1, <3>2, <3>3
  <2>4. /\ inbound \in Seq(Unit \cup {Handshake}) /\ chunk \in Seq(Unit \cup {Handshake})
        /\ partial \in Seq(Unit) /\ curPacket \in Seq(Unit) /\ handled \in Seq(Seq(Unit))
        /\ sendQueue \in Seq(Seq(Nat)) /\ records \in Seq(Responses) /\ wire \in Seq(Nat)
    BY DEF Init
  <2>5. /\ pc \in [Threads -> Points] /\ serving \in [Threads -> {0} \cup RequestIds]
        /\ todo \in [Threads -> Seq(Responses)] /\ output \in [Threads -> Seq(Nat)]
    BY DEF Init, Points
  <2>6. /\ controls \in Nat /\ inFlight \in 0..SendBuffer /\ sendOffset \in 0..RecordSize - 1
        /\ peer \in {"open", "closed"} /\ event \subseteq {"in", "out"}
        /\ mutex \in Threads \cup {Nobody}
    BY Constants DEF Init
  <2>7. {edge, noSpace, readReady, writeReady, validHead, raced, running, up} \subseteq BOOLEAN
    BY DEF Init
  <2> QED BY <2>3, <2>4, <2>5, <2>6, <2>7 DEF TypeOK
<1>2. WritersTakeTurns /\ OutputHeld /\ ReadInOnePlace /\ BuffersOpen
  BY ThreadFacts, Constants
     DEF Init, WritersTakeTurns, OutputHeld, ReadInOnePlace,
         BuffersOpen, Unlocked, Critical
<1> QED BY <1>1, <1>2 DEF ShapeInv

(* The client: a packet, ...                                               *)
LEMMA ShapeSend ==
    ASSUME ShapeInv, NEW r \in RequestIds, Send(r)
    PROVE  ShapeInv'
<1>0. requests' = [requests EXCEPT ![r].state = "sent"] /\ "sent" \in States /\ TypeOK
  BY DEF Send, States, ShapeInv
<1>1. TypeOK'
  <2>1. inbound' \in Seq(Unit \cup {Handshake})
    <3>1. Packet(r) \in Seq(Unit \cup {Handshake})
      BY PacketUnits DEF ShapeInv
    <3> QED BY <3>1 DEF ShapeInv, TypeOK, Send, Arrive
  <2> QED BY <1>0, <2>1, RequestChanged DEF TypeOK, Send, Arrive, Handshake
<1>2. WritersTakeTurns' /\ OutputHeld' /\ ReadInOnePlace'
  BY
     DEF ShapeInv, WritersTakeTurns, OutputHeld, ReadInOnePlace, Send, Arrive,
         Unlocked
<1>3. BuffersOpen'
  <2>1. \A q \in RequestIds : requests'[q].length = requests[q].length
    BY <1>0, RequestChanged
  <2> QED BY <1>0, <2>1, BuffersSame DEF ShapeInv, Send, Arrive
<1> QED BY <1>1, <1>2, <1>3 DEF ShapeInv

(* ... a record that is no data, ...                                       *)
LEMMA ShapeSendControl ==
    ASSUME ShapeInv, SendControl
    PROVE  ShapeInv'
<1>1. TypeOK'
  <2>1. controls' \in Nat /\ inbound' \in Seq(Unit \cup {Handshake})
    BY Constants DEF ShapeInv, TypeOK, SendControl, Arrive
  <2> QED BY <2>1
     DEF ShapeInv, TypeOK, SendControl, Arrive, RequestIds, Unit, Responses
<1>2. WritersTakeTurns' /\ OutputHeld' /\ ReadInOnePlace' /\ BuffersOpen'
  BY
     DEF ShapeInv, WritersTakeTurns, OutputHeld, ReadInOnePlace, BuffersOpen,
         Length,
         SendControl, Arrive, Unlocked
<1> QED BY <1>1, <1>2 DEF ShapeInv

(* ... the end of its side, ...                                            *)
LEMMA ShapeClose ==
    ASSUME ShapeInv, Close
    PROVE  ShapeInv'
<1>1. TypeOK'
  BY ThreadFacts, Constants
     DEF ShapeInv, TypeOK, Close, Goto, Callback, Points, RequestIds, Unit,
         Responses
<1>2. WritersTakeTurns' /\ ReadInOnePlace' /\ BuffersOpen'
  BY ThreadFacts DEF ShapeInv, TypeOK, WritersTakeTurns, ReadInOnePlace,
         BuffersOpen, Length, Close, Goto, Unlocked, Critical
<1>3. OutputHeld'
  BY ThreadFacts
     DEF ShapeInv, TypeOK, WritersTakeTurns, OutputHeld, Close, Goto, Unlocked,
         Critical
<1> QED BY <1>1, <1>2, <1>3 DEF ShapeInv

(* ... and what it reads.                                                  *)
LEMMA ShapePeerReads ==
    ASSUME ShapeInv, PeerReads
    PROVE  ShapeInv'
<1>1. TypeOK'
  <2>1. inFlight' \in 0..SendBuffer
    BY Constants DEF PeerReads
  <2>2. edge' \in BOOLEAN /\ noSpace' \in BOOLEAN
    BY DEF PeerReads
  <2> QED BY <2>1, <2>2
     DEF ShapeInv, TypeOK, PeerReads, RequestIds, Unit, Responses
<1>2. WritersTakeTurns' /\ OutputHeld' /\ ReadInOnePlace' /\ BuffersOpen'
  BY
     DEF ShapeInv, WritersTakeTurns, OutputHeld, ReadInOnePlace, BuffersOpen,
         Length,
         PeerReads, Unlocked
<1> QED BY <1>1, <1>2 DEF ShapeInv

(* The events of the socket.                                               *)
LEMMA ShapePoll ==
    ASSUME ShapeInv, Poll
    PROVE  ShapeInv'
<1>1. TypeOK'
  BY ThreadFacts, Constants
     DEF ShapeInv, TypeOK, Poll, Goto, Callback, Points, RequestIds, Unit,
         Responses
<1>2. WritersTakeTurns' /\ ReadInOnePlace' /\ BuffersOpen'
  BY ThreadFacts DEF ShapeInv, TypeOK, WritersTakeTurns, ReadInOnePlace,
         BuffersOpen, Length, Poll, Goto, Unlocked, Critical
<1>3. OutputHeld'
  BY ThreadFacts
     DEF ShapeInv, TypeOK, WritersTakeTurns, OutputHeld, Poll, Goto, Unlocked,
         Critical
<1> QED BY <1>1, <1>2, <1>3 DEF ShapeInv

(* onReadReady is called, ...                                              *)
LEMMA ShapeEventIn ==
    ASSUME ShapeInv, EventIn
    PROVE  ShapeInv'
<1>1. TypeOK'
  BY ThreadFacts, Constants
     DEF ShapeInv, TypeOK, EventIn, Goto, Callback, Points, RequestIds, Unit,
         Responses
<1>2. WritersTakeTurns' /\ ReadInOnePlace' /\ BuffersOpen'
  BY ThreadFacts DEF ShapeInv, TypeOK, WritersTakeTurns, ReadInOnePlace,
         BuffersOpen, Length, EventIn, Goto, Unlocked, Critical
<1>3. OutputHeld'
  BY ThreadFacts
     DEF ShapeInv, TypeOK, WritersTakeTurns, OutputHeld, EventIn, Goto,
         Unlocked,
         Critical
<1> QED BY <1>1, <1>2, <1>3 DEF ShapeInv

(* ... or onWriteReady, ...                                                *)
LEMMA ShapeEventOut ==
    ASSUME ShapeInv, EventOut
    PROVE  ShapeInv'
<1>1. TypeOK'
  BY ThreadFacts, Constants
     DEF ShapeInv, TypeOK, EventOut, Goto, Callback, Points, RequestIds, Unit,
         Responses
<1>2. WritersTakeTurns' /\ ReadInOnePlace' /\ BuffersOpen'
  BY ThreadFacts DEF ShapeInv, TypeOK, WritersTakeTurns, ReadInOnePlace,
         BuffersOpen, Length, EventOut, Goto, Unlocked, Critical
<1>3. OutputHeld'
  BY ThreadFacts
     DEF ShapeInv, TypeOK, WritersTakeTurns, OutputHeld, EventOut, Goto,
         Unlocked,
         Critical
<1> QED BY <1>1, <1>2, <1>3 DEF ShapeInv

(* ... or neither.                                                         *)
LEMMA ShapeEndDispatch ==
    ASSUME ShapeInv, EndDispatch
    PROVE  ShapeInv'
<1>1. TypeOK'
  BY ThreadFacts, Constants
     DEF ShapeInv, TypeOK, EndDispatch, Goto, Callback, Points, RequestIds,
         Unit, Responses
<1>2. WritersTakeTurns' /\ ReadInOnePlace' /\ BuffersOpen'
  BY ThreadFacts DEF ShapeInv, TypeOK, WritersTakeTurns, ReadInOnePlace,
         BuffersOpen, Length, EndDispatch, Goto, Unlocked, Critical
<1>3. OutputHeld'
  BY ThreadFacts
     DEF ShapeInv, TypeOK, WritersTakeTurns, OutputHeld, EndDispatch, Goto,
         Unlocked,
         Critical
<1> QED BY <1>1, <1>2, <1>3 DEF ShapeInv

(* read() gets something, ...                                              *)
LEMMA ShapeRead ==
    ASSUME ShapeInv, NEW n \in 1..MaxChunk, Read(n)
    PROVE  ShapeInv'
<1>1. TypeOK'
  <2>1. n \in 0..Len(inbound) /\ inbound \in Seq(Unit \cup {Handshake})
    BY Constants DEF ShapeInv, TypeOK, Read
  <2>2. /\ chunk' \in Seq(Unit \cup {Handshake})
        /\ inbound' \in Seq(Unit \cup {Handshake})
    BY <2>1 DEF Read
  <2>3. pc' \in [Threads -> Points]
    BY ThreadFacts DEF ShapeInv, TypeOK, Read, Goto, Points
  <2> QED BY <2>2, <2>3 DEF ShapeInv, TypeOK, Read, RequestIds, Unit, Responses
<1>2. WritersTakeTurns' /\ OutputHeld' /\ ReadInOnePlace' /\ BuffersOpen'
  BY ThreadFacts
     DEF ShapeInv, TypeOK, WritersTakeTurns, OutputHeld, ReadInOnePlace,
         BuffersOpen, Length, Read, Goto, Unlocked, Critical
<1> QED BY <1>1, <1>2 DEF ShapeInv

(* ... or has to be tried again.                                           *)
LEMMA ShapeReadAgain ==
    ASSUME ShapeInv, ReadAgain
    PROVE  ShapeInv'
<1>1. TypeOK'
  BY ThreadFacts, Constants
     DEF ShapeInv, TypeOK, ReadAgain, Goto, Callback, Points, RequestIds,
         Unit, Responses
<1>2. WritersTakeTurns' /\ ReadInOnePlace' /\ BuffersOpen'
  BY ThreadFacts DEF ShapeInv, TypeOK, WritersTakeTurns, ReadInOnePlace,
         BuffersOpen, Length, ReadAgain, Goto, Unlocked, Critical
<1>3. OutputHeld'
  BY ThreadFacts
     DEF ShapeInv, TypeOK, WritersTakeTurns, OutputHeld, ReadAgain, Goto,
         Unlocked,
         Critical
<1> QED BY <1>1, <1>2, <1>3 DEF ShapeInv

(* onReadReady returns.                                                    *)
LEMMA ShapeEndRead ==
    ASSUME ShapeInv, EndRead
    PROVE  ShapeInv'
<1>1. TypeOK'
  BY ThreadFacts, Constants
     DEF ShapeInv, TypeOK, EndRead, Goto, Callback, Points, RequestIds, Unit,
         Responses
<1>2. WritersTakeTurns' /\ ReadInOnePlace' /\ BuffersOpen'
  BY ThreadFacts DEF ShapeInv, TypeOK, WritersTakeTurns, ReadInOnePlace,
         BuffersOpen, Length, EndRead, Goto, Unlocked, Critical
<1>3. OutputHeld'
  BY ThreadFacts
     DEF ShapeInv, TypeOK, WritersTakeTurns, OutputHeld, EndRead, Goto,
         Unlocked,
         Critical
<1> QED BY <1>1, <1>2, <1>3 DEF ShapeInv

(* readRaw returns.                                                        *)
LEMMA ShapeEndDeliver ==
    ASSUME ShapeInv, EndDeliver
    PROVE  ShapeInv'
<1>1. TypeOK'
  BY ThreadFacts, Constants
     DEF ShapeInv, TypeOK, EndDeliver, Goto, Callback, Points, RequestIds,
         Unit, Responses
<1>2. WritersTakeTurns' /\ ReadInOnePlace' /\ BuffersOpen'
  BY ThreadFacts DEF ShapeInv, TypeOK, WritersTakeTurns, ReadInOnePlace,
         BuffersOpen, Length, EndDeliver, Goto, Unlocked, Critical
<1>3. OutputHeld'
  BY ThreadFacts
     DEF ShapeInv, TypeOK, WritersTakeTurns, OutputHeld, EndDeliver, Goto,
         Unlocked,
         Critical
<1> QED BY <1>1, <1>2, <1>3 DEF ShapeInv

(* The channel answers: nobody may write then, or there is a race.         *)
LEMMA ShapeAnswerHandshake ==
    ASSUME ShapeInv, AnswerHandshake
    PROVE  ShapeInv'
<1>0. TypeOK /\ Encrypt(Main, Control) /\ Control \in Responses /\ Main \in Threads
  BY ThreadFacts DEF ShapeInv, AnswerHandshake, Control, Response, Responses
<1>1. TypeOK'
  <2>1. chunk' \in Seq(Unit \cup {Handshake})
    BY <1>0 DEF TypeOK, AnswerHandshake
  <2>2. pc' \in [Threads -> Points] /\ raced' \in BOOLEAN
    BY ThreadFacts DEF ShapeInv, TypeOK, AnswerHandshake, Goto, Points
  <2> QED BY <1>0, <2>1, <2>2, Encrypted
          DEF TypeOK, AnswerHandshake, RequestIds, Unit, Responses
<1>2. WritersTakeTurns' /\ ReadInOnePlace' /\ BuffersOpen'
  BY ThreadFacts DEF ShapeInv, TypeOK, WritersTakeTurns, ReadInOnePlace,
         BuffersOpen, Length, AnswerHandshake, Goto, Unlocked, Critical
<1>3. OutputHeld'
  <2>1. \A s \in Threads : s # Main => output'[s] = output[s] /\ pc'[s] = pc[s]
    BY <1>0, Encrypted DEF TypeOK, AnswerHandshake, Goto
  <2>2. Len(output'[Main]) = RecordSize /\ pc'[Main] = "check"
    BY <1>0, Encrypted DEF TypeOK, AnswerHandshake, Goto
  <2>3. UNCHANGED <<sendQueue, sendOffset>> /\ (raced => raced')
    BY DEF AnswerHandshake
  <2>4. RecordSize <= RecordSize
    BY Constants
  <2> QED BY <2>1, <2>2, <2>3, <2>4 DEF ShapeInv, OutputHeld, Critical
<1> QED BY <1>1, <1>2, <1>3 DEF ShapeInv

(* A part of a head ...                                                    *)
LEMMA ShapeCopyHead ==
    ASSUME ShapeInv, CopyHead
    PROVE  ShapeInv'
<1>0. TypeOK /\ HeadSize \in Nat /\ Len(partial) < HeadSize /\ CopyPart(HeadSize) /\ Plain # <<>>
  <2> QED BY HeadThere, Constants DEF ShapeInv, BuffersOpen, CopyHead, CopyPart
<1>1. TypeOK'
  <2>1. chunk' \in Seq(Unit \cup {Handshake}) /\ partial' \in Seq(Unit)
    BY <1>0, CopiedUnits DEF CopyPart, Take
  <2> QED BY <1>0, <2>1 DEF TypeOK, CopyPart, RequestIds, Unit, Responses
<1>2. WritersTakeTurns' /\ OutputHeld' /\ ReadInOnePlace'
  BY
     DEF ShapeInv, WritersTakeTurns, OutputHeld, ReadInOnePlace, CopyHead,
         CopyPart,
         Unlocked
<1>3. BuffersOpen'
  <2>1. Len(partial') < HeadSize
    BY <1>0, CopiedUnits DEF CopyPart
  <2> QED BY <2>1 DEF ShapeInv, BuffersOpen, Length, CopyHead, CopyPart
<1> QED BY <1>1, <1>2, <1>3 DEF ShapeInv

(* ... or of a body is copied, and the buffer is not full.                 *)
LEMMA ShapeCopyBody ==
    ASSUME ShapeInv, CopyBody
    PROVE  ShapeInv'
<1>0. TypeOK /\ Length(curPacket) \in Nat /\ Len(partial) < Length(curPacket) /\ CopyPart(Length(curPacket)) /\ Plain # <<>>
  <2> QED BY HeadThere, Constants DEF ShapeInv, BuffersOpen, CopyBody, CopyPart
<1>1. TypeOK'
  <2>1. chunk' \in Seq(Unit \cup {Handshake}) /\ partial' \in Seq(Unit)
    BY <1>0, CopiedUnits DEF CopyPart, Take
  <2> QED BY <1>0, <2>1 DEF TypeOK, CopyPart, RequestIds, Unit, Responses
<1>2. WritersTakeTurns' /\ OutputHeld' /\ ReadInOnePlace'
  BY
     DEF ShapeInv, WritersTakeTurns, OutputHeld, ReadInOnePlace, CopyBody,
         CopyPart,
         Unlocked
<1>3. BuffersOpen'
  <2>1. Len(partial') < Length(curPacket)
    BY <1>0, CopiedUnits DEF CopyPart
  <2> QED BY <2>1 DEF ShapeInv, BuffersOpen, Length, CopyBody, CopyPart
<1> QED BY <1>1, <1>2, <1>3 DEF ShapeInv

(* A head is there.                                                        *)
LEMMA ShapeFinishHead ==
    ASSUME ShapeInv, FinishHead
    PROVE  ShapeInv'
<1> DEFINE head == partial \o SubSeq(chunk, 1, Copied(HeadSize))
<1>0. /\ TypeOK /\ pc[Main] = "deliver" /\ ~ validHead /\ Plain # <<>>
      /\ Len(partial) < HeadSize /\ HeadSize \in Nat /\ HeadSize = 2
  BY Constants DEF ShapeInv, BuffersOpen, FinishHead
<1>1. /\ head \in Seq(Unit) /\ Len(head) = HeadSize /\ head # <<>>
      /\ chunk' \in Seq(Unit \cup {Handshake})
      /\ curPacket' = head /\ partial' = <<>>
      /\ \/ ProcessMessage(head) /\ validHead' = FALSE
         \/ /\ Length(head) > 0 /\ validHead' = TRUE
            /\ UNCHANGED <<requests, pc, handled, posting, running>>
  <2>1. /\ head \in Seq(Unit) /\ Len(head) = Len(partial) + Copied(HeadSize)
        /\ SubSeq(chunk, Copied(HeadSize) + 1, Len(chunk)) \in Seq(Unit \cup {Handshake})
    BY <1>0, CopiedUnits
  <2>2. Len(head) = HeadSize /\ head # <<>>
    <3>1. Len(head) = HeadSize
      BY <2>1 DEF FinishHead
    <3> HIDE DEF head
    <3> QED BY <1>0, <3>1
  <2> HIDE DEF head
  <2>3. /\ curPacket' = head /\ partial' = <<>>
        /\ \/ ProcessMessage(head) /\ validHead' = validHead
           \/ /\ Length(head) > 0 /\ validHead' = TRUE
              /\ UNCHANGED <<requests, pc, handled, posting, running>>
    BY DEF FinishHead, head
  <2>4. chunk' \in Seq(Unit \cup {Handshake})
    BY <2>1 DEF FinishHead, Take
  <2>5. validHead' = validHead => validHead' = FALSE
    BY <1>0 DEF TypeOK
  <2> QED BY <2>1, <2>2, <2>3, <2>4, <2>5
<1>u. UNCHANGED <<controls, inbound, peer, socket, flags, event, sending, up>>
  BY DEF FinishHead
<1> HIDE DEF head
<1>2. TypeOK'
  <2>1. <<>> \in Seq(Unit)
    OBVIOUS
  <2>2. CASE ProcessMessage(head)
    <3>1. /\ requests' \in Seq(Request)'
          /\ RequestIds' = RequestIds /\ Unit' = Unit /\ Responses' = Responses
          /\ handled' \in Seq(Seq(Unit)) /\ running' \in BOOLEAN
          /\ pc' \in [Threads -> Points]
          /\ todo' \in [Threads -> Seq(Responses)]
          /\ serving' \in [Threads -> {0} \cup RequestIds]
          /\ UNCHANGED <<mutex, output, records, raced>>
      BY <1>0, <1>1, <2>2, Processed
    <3> QED BY <1>0, <1>1, <1>u, <2>1, <3>1 DEF TypeOK
  <2>3. CASE UNCHANGED <<requests, pc, handled, posting, running>>
    BY <1>0, <1>1, <1>u, <2>1, <2>3 DEF TypeOK, RequestIds, Unit, Responses
  <2> QED BY <1>1, <2>2, <2>3
<1>3. WritersTakeTurns' /\ OutputHeld' /\ ReadInOnePlace'
  <2>1. /\ \A t \in Threads \ {Main} : pc'[t] = pc[t]
        /\ pc'[Main] \in {"deliver", "post"}
        /\ UNCHANGED <<mutex, output, raced, sendQueue, sendOffset, readReady>>
    BY <1>0, <1>1, Processed DEF FinishHead
  <2> QED BY <1>0, <2>1, ThreadFacts
          DEF ShapeInv, WritersTakeTurns, OutputHeld, ReadInOnePlace, Unlocked, Critical
<1>4. BuffersOpen'
  <2>1. CASE ProcessMessage(head) /\ validHead' = FALSE
    BY <1>0, <1>1, <2>1 DEF BuffersOpen
  <2>2. CASE /\ Length(head) > 0 /\ validHead' = TRUE
             /\ UNCHANGED <<requests, pc, handled, posting, running>>
    BY <1>0, <1>1, <2>2, LengthTyped DEF BuffersOpen, Length
  <2> QED BY <1>1, <2>1, <2>2
<1> QED BY <1>2, <1>3, <1>4 DEF ShapeInv

(* A body is there.                                                        *)
LEMMA ShapeFinishBody ==
    ASSUME ShapeInv, FinishBody
    PROVE  ShapeInv'
<1> DEFINE message == curPacket \o partial
                          \o SubSeq(chunk, 1, Copied(Length(curPacket)))
<1>0. /\ TypeOK /\ pc[Main] = "deliver" /\ validHead /\ Plain # <<>>
      /\ Len(partial) < Length(curPacket) /\ Length(curPacket) \in Nat
      /\ curPacket \in Seq(Unit) /\ Len(curPacket) = 2
  <2>1. TypeOK /\ validHead
    BY DEF ShapeInv, FinishBody
  <2>2. Len(partial) < Length(curPacket)
    BY <2>1 DEF ShapeInv, BuffersOpen
  <2>3. pc[Main] = "deliver" /\ Plain # <<>>
    BY DEF FinishBody
  <2> QED BY <2>1, <2>2, <2>3, HeadThere DEF ShapeInv
<1>u. UNCHANGED <<controls, inbound, peer, socket, flags, event, curPacket, sending, up>>
  BY DEF FinishBody
<1>1. /\ message \in Seq(Unit) /\ Len(message) > 0
      /\ chunk' \in Seq(Unit \cup {Handshake})
      /\ partial' = <<>> /\ validHead' = FALSE /\ ProcessMessage(message)
  <2>1. /\ SubSeq(chunk, 1, Copied(Length(curPacket))) \in Seq(Unit)
        /\ SubSeq(chunk, Copied(Length(curPacket)) + 1, Len(chunk))
                \in Seq(Unit \cup {Handshake})
    BY <1>0, CopiedUnits
  <2>2. curPacket \o partial \in Seq(Unit) /\ Len(curPacket \o partial) > 0
    <3>1. partial \in Seq(Unit)
      BY <1>0 DEF TypeOK
    <3>2. /\ curPacket \o partial \in Seq(Unit)
          /\ Len(curPacket \o partial) = Len(curPacket) + Len(partial)
      BY <1>0, <3>1, ConcatProperties
    <3>3. Len(partial) \in Nat
      BY <3>1, LenProperties
    <3> QED BY <1>0, <3>2, <3>3
  <2>3. message \in Seq(Unit) /\ Len(message) > 0
    BY <2>1, <2>2
  <2> HIDE DEF message
  <2>4. ProcessMessage(message)
    BY DEF FinishBody, message
  <2> QED BY <2>1, <2>3, <2>4 DEF FinishBody, Take
<1> HIDE DEF message
<1>2. TypeOK'
  <2>1. <<>> \in Seq(Unit)
    OBVIOUS
  <2>2. /\ requests' \in Seq(Request)'
        /\ RequestIds' = RequestIds /\ Unit' = Unit /\ Responses' = Responses
        /\ handled' \in Seq(Seq(Unit)) /\ running' \in BOOLEAN
        /\ pc' \in [Threads -> Points]
        /\ todo' \in [Threads -> Seq(Responses)]
        /\ serving' \in [Threads -> {0} \cup RequestIds]
        /\ UNCHANGED <<mutex, output, records, raced>>
    BY <1>0, <1>1, Processed
  <2> QED BY <1>0, <1>1, <1>u, <2>1, <2>2 DEF TypeOK
<1>3. WritersTakeTurns' /\ OutputHeld' /\ ReadInOnePlace'
  <2>1. /\ \A t \in Threads \ {Main} : pc'[t] = pc[t]
        /\ pc'[Main] \in {"deliver", "post"}
        /\ UNCHANGED <<mutex, output, raced, sendQueue, sendOffset, readReady>>
    BY <1>0, <1>1, Processed DEF FinishBody
  <2> QED BY <1>0, <2>1, ThreadFacts
          DEF ShapeInv, WritersTakeTurns, OutputHeld, ReadInOnePlace, Unlocked, Critical
<1>4. BuffersOpen'
  BY <1>1, Constants DEF BuffersOpen
<1> QED BY <1>2, <1>3, <1>4 DEF ShapeInv

(* The engine calls a closure for rows, ...                                *)
LEMMA ShapeOnData ==
    ASSUME ShapeInv, NEW t \in Threads, NEW r \in RequestIds, OnData(t, r)
    PROVE  ShapeInv'
<1>0. TypeOK /\ requests[r].rows < MaxRows /\ requests' = [requests EXCEPT ![r].rows = @ + 1]
  BY DEF ShapeInv, OnData, Progress, States
<1>1. /\ todo' \in [Threads -> Seq(Responses)]
      /\ serving' \in [Threads -> {0} \cup RequestIds]
      /\ pc[t] = "ready" /\ pc' = [pc EXCEPT ![t] = "post"]
      /\ UNCHANGED <<mutex, output, records, raced>>
  BY <1>0, Responded DEF OnData, Kinds
<1>2. TypeOK'
  <2>1. pc' \in [Threads -> Points]
    BY <1>0, <1>1 DEF TypeOK, Points
  <2> QED BY <1>0, <1>1, <2>1, RowsChanged DEF TypeOK, OnData, Handshake
<1>3. WritersTakeTurns' /\ OutputHeld' /\ ReadInOnePlace'
  BY <1>0, <1>1, ThreadFacts
     DEF ShapeInv, TypeOK, WritersTakeTurns, OutputHeld, ReadInOnePlace, OnData, Unlocked,
         Critical
<1>4. BuffersOpen'
  <2>1. \A q \in RequestIds : requests'[q].length = requests[q].length
    BY <1>0, RowsChanged
  <2> QED BY <1>0, <2>1, BuffersSame DEF ShapeInv, OnData
<1> QED BY <1>2, <1>3, <1>4 DEF ShapeInv

(* ... at the end, ...                                                     *)
LEMMA ShapeComplete ==
    ASSUME ShapeInv, NEW t \in Threads, NEW r \in RequestIds, Complete(t, r)
    PROVE  ShapeInv'
<1>0. TypeOK /\ "answered" \in States /\ requests' = [requests EXCEPT ![r].state = "answered"]
  BY DEF ShapeInv, Complete, Progress, States
<1>1. /\ todo' \in [Threads -> Seq(Responses)]
      /\ serving' \in [Threads -> {0} \cup RequestIds]
      /\ pc[t] = "ready" /\ pc' = [pc EXCEPT ![t] = "post"]
      /\ UNCHANGED <<mutex, output, records, raced>>
  BY <1>0, Responded DEF Complete, Kinds
<1>2. TypeOK'
  <2>1. pc' \in [Threads -> Points]
    BY <1>0, <1>1 DEF TypeOK, Points
  <2> QED BY <1>0, <1>1, <2>1, RequestChanged DEF TypeOK, Complete, Handshake
<1>3. WritersTakeTurns' /\ OutputHeld' /\ ReadInOnePlace'
  BY <1>0, <1>1, ThreadFacts
     DEF ShapeInv, TypeOK, WritersTakeTurns, OutputHeld, ReadInOnePlace, Complete, Unlocked,
         Critical
<1>4. BuffersOpen'
  <2>1. \A q \in RequestIds : requests'[q].length = requests[q].length
    BY <1>0, RequestChanged
  <2> QED BY <1>0, <2>1, BuffersSame DEF ShapeInv, Complete
<1> QED BY <1>2, <1>3, <1>4 DEF ShapeInv

(* ... or throws.                                                          *)
LEMMA ShapeThrow ==
    ASSUME ShapeInv, NEW t \in Threads, NEW r \in RequestIds, Throw(t, r)
    PROVE  ShapeInv'
<1>1. TypeOK'
  BY ThreadFacts, Constants
     DEF ShapeInv, TypeOK, Throw, Goto, Callback, Points, RequestIds, Unit,
         Responses
<1>2. WritersTakeTurns' /\ ReadInOnePlace' /\ BuffersOpen'
  BY ThreadFacts DEF ShapeInv, TypeOK, WritersTakeTurns, ReadInOnePlace,
         BuffersOpen, Length, Throw, Goto, Unlocked, Critical
<1>3. OutputHeld'
  BY ThreadFacts
     DEF ShapeInv, TypeOK, WritersTakeTurns, OutputHeld, Throw, Goto, Unlocked,
         Critical
<1> QED BY <1>1, <1>2, <1>3 DEF ShapeInv

(* postResponse: the thread takes the mutex and encrypts.                  *)
LEMMA ShapeLock ==
    ASSUME ShapeInv, NEW t \in Threads, Lock(t)
    PROVE  ShapeInv'
<1>0. /\ TypeOK /\ Encrypt(t, Head(todo[t]))
      /\ pc[t] = "post" /\ pc' = [pc EXCEPT ![t] = "check"]
      /\ mutex = Nobody /\ mutex' = t
  BY DEF ShapeInv, Lock, Goto
<1>1. /\ Head(todo[t]) \in Responses
      /\ [todo EXCEPT ![t] = Tail(@)] \in [Threads -> Seq(Responses)]
  BY DEF ShapeInv, TypeOK, Lock
<1>2. TypeOK'
  <2>1. pc' \in [Threads -> Points] /\ raced' \in BOOLEAN
    BY <1>0 DEF TypeOK, Points, Lock
  <2> QED BY <1>0, <1>1, <2>1, Encrypted
          DEF TypeOK, Lock, RequestIds, Unit, Responses
<1>3. WritersTakeTurns' /\ ReadInOnePlace' /\ BuffersOpen'
  BY <1>0, ThreadFacts DEF ShapeInv, TypeOK, WritersTakeTurns, ReadInOnePlace,
         BuffersOpen, Length, Lock, Unlocked, Critical
<1>4. OutputHeld'
  <2>1. \A s \in Threads : s # t => output'[s] = output[s] /\ pc'[s] = pc[s]
    BY <1>0, <1>1, Encrypted DEF TypeOK
  <2>2. Len(output'[t]) = RecordSize /\ pc'[t] = "check"
    BY <1>0, <1>1, Encrypted DEF TypeOK
  <2>3. UNCHANGED <<sendQueue, sendOffset>> /\ (raced => raced')
    BY DEF Lock
  <2>4. RecordSize <= RecordSize
    BY Constants
  <2> QED BY <2>1, <2>2, <2>3, <2>4 DEF ShapeInv, OutputHeld, Critical
<1> QED BY <1>2, <1>3, <1>4 DEF ShapeInv

(* onWriteRaw looks at the queue.                                          *)
LEMMA ShapeCheckQueue ==
    ASSUME ShapeInv, NEW t \in Threads, CheckQueue(t)
    PROVE  ShapeInv'
<1>1. TypeOK'
  BY ThreadFacts, Constants
     DEF ShapeInv, TypeOK, CheckQueue, Goto, Callback, Points, RequestIds,
         Unit, Responses
<1>2. WritersTakeTurns' /\ ReadInOnePlace' /\ BuffersOpen'
  BY ThreadFacts DEF ShapeInv, TypeOK, WritersTakeTurns, ReadInOnePlace,
         BuffersOpen, Length, CheckQueue, Goto, Unlocked, Critical
<1>3. OutputHeld'
  BY ThreadFacts
     DEF ShapeInv, TypeOK, WritersTakeTurns, OutputHeld, CheckQueue, Goto,
         Unlocked,
         Critical
<1> QED BY <1>1, <1>2, <1>3 DEF ShapeInv

(* write() takes something, ...                                            *)
LEMMA ShapeTryWrite ==
    ASSUME ShapeInv, NEW t \in Threads, TryWrite(t)
    PROVE  ShapeInv'
<1>0. /\ TypeOK /\ Transmit(output[t]) /\ output[t] \in Seq(Nat)
      /\ Room > 0 /\ Room \in Nat /\ pc[t] = "write" /\ edge' = edge
  <2>1. TypeOK /\ Room \in Int /\ output[t] \in Seq(Nat)
    BY Constants DEF ShapeInv, TypeOK, Room
  <2> QED BY <2>1 DEF TryWrite, Goto, Transmit
<1> DEFINE rest == SubSeq(output[t], Room + 1, Len(output[t]))
<1>1. /\ rest \in Seq(Nat) /\ Len(rest) <= Len(output[t])
      /\ Len(output[t]) <= Room => rest = <<>>
  BY <1>0
<1> HIDE DEF rest
<1>2. /\ output' = [output EXCEPT ![t] = rest]
      /\ pc' = [pc EXCEPT ![t] = IF Len(output[t]) <= Room THEN "release" ELSE "write"]
  BY DEF TryWrite, rest, Goto
<1>3. TypeOK'
  <2>1. pc' \in [Threads -> Points] /\ output' \in [Threads -> Seq(Nat)]
    BY <1>0, <1>1, <1>2 DEF TypeOK, Points
  <2> QED BY <1>0, <2>1, Transmitted
          DEF TypeOK, TryWrite, RequestIds, Unit, Responses
<1>4. WritersTakeTurns' /\ ReadInOnePlace' /\ BuffersOpen'
  BY <1>0, <1>2, ThreadFacts
     DEF ShapeInv, TypeOK, WritersTakeTurns, ReadInOnePlace,
         BuffersOpen, Length, TryWrite, Unlocked, Critical
<1>5. OutputHeld'
  <2>1. \A s \in Threads : s # t => output'[s] = output[s] /\ pc'[s] = pc[s]
    BY <1>0, <1>2 DEF TypeOK
  <2>2. output'[t] = rest /\ pc'[t] \in {"write", "release"} /\ (pc'[t] = "release" => rest = <<>>)
    BY <1>0, <1>1, <1>2 DEF TypeOK
  <2>3. Len(rest) <= RecordSize
    BY <1>0, <1>1, Constants DEF ShapeInv, OutputHeld
  <2> QED BY <1>0, <2>1, <2>2, <2>3
          DEF ShapeInv, OutputHeld, TryWrite, Critical
<1> QED BY <1>3, <1>4, <1>5 DEF ShapeInv

(* ... or fails, ...                                                       *)
LEMMA ShapeTryWriteFails ==
    ASSUME ShapeInv, NEW t \in Threads, TryWriteFails(t)
    PROVE  ShapeInv'
<1>1. TypeOK'
  BY ThreadFacts, Constants
     DEF ShapeInv, TypeOK, TryWriteFails, Goto, Callback, Points, RequestIds,
         Unit, Responses
<1>2. WritersTakeTurns' /\ ReadInOnePlace' /\ BuffersOpen'
  BY ThreadFacts DEF ShapeInv, TypeOK, WritersTakeTurns, ReadInOnePlace,
         BuffersOpen, Length, TryWriteFails, Goto, Unlocked, Critical
<1>3. OutputHeld'
  BY ThreadFacts
     DEF ShapeInv, TypeOK, WritersTakeTurns, OutputHeld, TryWriteFails, Goto,
         Unlocked,
         Critical
<1> QED BY <1>1, <1>2, <1>3 DEF ShapeInv

(* ... whereupon the flag is reset, ...                                    *)
LEMMA ShapeClearWriteReady ==
    ASSUME ShapeInv, NEW t \in Threads, ClearWriteReady(t)
    PROVE  ShapeInv'
<1>1. TypeOK'
  BY ThreadFacts, Constants
     DEF ShapeInv, TypeOK, ClearWriteReady, Goto, Callback, Points,
         RequestIds, Unit, Responses
<1>2. WritersTakeTurns' /\ ReadInOnePlace' /\ BuffersOpen'
  BY ThreadFacts DEF ShapeInv, TypeOK, WritersTakeTurns, ReadInOnePlace,
         BuffersOpen, Length, ClearWriteReady, Goto, Unlocked, Critical
<1>3. OutputHeld'
  BY ThreadFacts
     DEF ShapeInv, TypeOK, WritersTakeTurns, OutputHeld, ClearWriteReady,
         Goto, Unlocked,
         Critical
<1> QED BY <1>1, <1>2, <1>3 DEF ShapeInv

(* ... and the writing ends.                                               *)
LEMMA ShapeStopWriting ==
    ASSUME ShapeInv, NEW t \in Threads, StopWriting(t)
    PROVE  ShapeInv'
<1>1. TypeOK'
  BY ThreadFacts, Constants
     DEF ShapeInv, TypeOK, StopWriting, Goto, Callback, Points, RequestIds,
         Unit, Responses
<1>2. WritersTakeTurns' /\ ReadInOnePlace' /\ BuffersOpen'
  BY ThreadFacts DEF ShapeInv, TypeOK, WritersTakeTurns, ReadInOnePlace,
         BuffersOpen, Length, StopWriting, Goto, Unlocked, Critical
<1>3. OutputHeld'
  BY ThreadFacts
     DEF ShapeInv, TypeOK, WritersTakeTurns, OutputHeld, StopWriting, Goto,
         Unlocked,
         Critical
<1> QED BY <1>1, <1>2, <1>3 DEF ShapeInv

(* The rest is queued.                                                     *)
LEMMA ShapePush ==
    ASSUME ShapeInv, NEW t \in Threads, Push(t)
    PROVE  ShapeInv'
<1>0. /\ TypeOK /\ output[t] \in Seq(Nat) /\ sendQueue \in Seq(Seq(Nat))
      /\ Len(output[t]) <= RecordSize
      /\ pc[t] = "push" /\ pc' = [pc EXCEPT ![t] = "release"]
  BY DEF ShapeInv, Push, TypeOK, Goto, OutputHeld
<1>1. TypeOK'
  <2>1. /\ pc' \in [Threads -> Points] /\ output' \in [Threads -> Seq(Nat)]
        /\ sendQueue' \in Seq(Seq(Nat))
    <3>1. pc \in [Threads -> Points] /\ output \in [Threads -> Seq(Nat)]
      BY <1>0 DEF TypeOK
    <3>2. /\ output' = [output EXCEPT ![t] = <<>>]
          /\ sendQueue' = Append(sendQueue, output[t])
      BY DEF Push
    <3>3. pc' \in [Threads -> Points]
      BY <1>0, <3>1 DEF Points
    <3>4. <<>> \in Seq(Nat) /\ Append(sendQueue, output[t]) \in Seq(Seq(Nat))
      BY <1>0, AppendProperties
    <3> QED BY <3>1, <3>2, <3>3, <3>4
  <2> QED BY <1>0, <2>1 DEF TypeOK, Push, RequestIds, Unit, Responses
<1>2. WritersTakeTurns' /\ ReadInOnePlace' /\ BuffersOpen'
  BY <1>0, ThreadFacts DEF ShapeInv, TypeOK, WritersTakeTurns, ReadInOnePlace,
         BuffersOpen, Length, Push, Unlocked, Critical
<1>3. OutputHeld'
  <2>1. \A s \in Threads :
            /\ Len(output'[s]) <= RecordSize
            /\ output'[s] # <<>> => pc'[s] \in Critical \ {"release"}
    BY <1>0, Constants DEF ShapeInv, TypeOK, OutputHeld, Push, Critical
  <2>2. \A s \in Threads : pc'[s] \in {"write", "again"} /\ ~ raced' => sendQueue' = <<>>
    <3> SUFFICES ASSUME NEW s \in Threads, pc'[s] \in {"write", "again"}, ~ raced
                 PROVE  FALSE
      BY DEF Push
    <3>1. s # t /\ pc[s] = pc'[s]
      BY <1>0 DEF TypeOK
    <3> QED BY <1>0, <3>1, ThreadFacts
            DEF ShapeInv, WritersTakeTurns, Unlocked, Critical
  <2>3. /\ sendQueue' = Append(sendQueue, output[t]) /\ sendQueue' # <<>>
        /\ Head(sendQueue') = IF sendQueue = <<>> THEN output[t] ELSE Head(sendQueue)
        /\ \A i \in DOMAIN sendQueue' : Len(sendQueue'[i]) <= RecordSize
    BY <1>0 DEF ShapeInv, OutputHeld, Push
  <2>4. sendOffset' <= Len(Head(sendQueue'))
    BY <1>0, <2>3 DEF ShapeInv, OutputHeld, Push
  <2> QED BY <2>1, <2>2, <2>3, <2>4 DEF OutputHeld
<1> QED BY <1>1, <1>2, <1>3 DEF ShapeInv

(* onWriteRaw returns, with the mutex released if it was taken.            *)
LEMMA ShapeRelease ==
    ASSUME ShapeInv, NEW t \in Threads, Release(t)
    PROVE  ShapeInv'
<1>1. TypeOK'
  BY ThreadFacts, Constants
     DEF ShapeInv, TypeOK, Release, Goto, Callback, Points, RequestIds, Unit,
         Responses
<1>2. WritersTakeTurns' /\ ReadInOnePlace' /\ BuffersOpen'
  BY ThreadFacts DEF ShapeInv, TypeOK, WritersTakeTurns, ReadInOnePlace,
         BuffersOpen, Length, Release, Goto, Unlocked, Critical
<1>3. OutputHeld'
  BY ThreadFacts
     DEF ShapeInv, TypeOK, WritersTakeTurns, OutputHeld, Release, Goto,
         Unlocked,
         Critical
<1> QED BY <1>1, <1>2, <1>3 DEF ShapeInv

(* The closure returns.                                                    *)
LEMMA ShapeEndPost ==
    ASSUME ShapeInv, NEW t \in Threads, EndPost(t)
    PROVE  ShapeInv'
<1>1. TypeOK'
  BY ThreadFacts, Constants
     DEF ShapeInv, TypeOK, EndPost, Goto, Callback, Points, RequestIds, Unit,
         Responses
<1>2. WritersTakeTurns' /\ ReadInOnePlace' /\ BuffersOpen'
  BY ThreadFacts DEF ShapeInv, TypeOK, WritersTakeTurns, ReadInOnePlace,
         BuffersOpen, Length, EndPost, Goto, Unlocked, Critical
<1>3. OutputHeld'
  BY ThreadFacts
     DEF ShapeInv, TypeOK, WritersTakeTurns, OutputHeld, EndPost, Goto,
         Unlocked,
         Critical
<1> QED BY <1>1, <1>2, <1>3 DEF ShapeInv

(* onWriteReady takes the mutex, ...                                       *)
LEMMA ShapeLockQueue ==
    ASSUME ShapeInv, LockQueue
    PROVE  ShapeInv'
<1>1. TypeOK'
  BY ThreadFacts, Constants
     DEF ShapeInv, TypeOK, LockQueue, Goto, Callback, Points, RequestIds,
         Unit, Responses
<1>2. WritersTakeTurns' /\ ReadInOnePlace' /\ BuffersOpen'
  BY ThreadFacts DEF ShapeInv, TypeOK, WritersTakeTurns, ReadInOnePlace,
         BuffersOpen, Length, LockQueue, Goto, Unlocked, Critical
<1>3. OutputHeld'
  BY ThreadFacts
     DEF ShapeInv, TypeOK, WritersTakeTurns, OutputHeld, LockQueue, Goto,
         Unlocked,
         Critical
<1> QED BY <1>1, <1>2, <1>3 DEF ShapeInv

(* ... writes from the queue, ...                                          *)
LEMMA ShapeFlushItem ==
    ASSUME ShapeInv, FlushItem
    PROVE  ShapeInv'
<1>0. /\ TypeOK /\ sendQueue \in Seq(Seq(Nat)) /\ sendQueue # <<>>
      /\ Head(sendQueue) \in Seq(Nat) /\ Len(Head(sendQueue)) <= RecordSize
      /\ Tail(sendQueue) \in Seq(Seq(Nat))
      /\ sendOffset \in 0..Len(Head(sendQueue)) /\ RecordSize = 2
      /\ Transmit(Remainder) /\ Room > 0 /\ Room \in Nat
  <2>1. TypeOK /\ Room \in Int /\ sendQueue \in Seq(Seq(Nat)) /\ sendOffset \in Nat
    BY Constants DEF ShapeInv, TypeOK, Room
  <2>2. sendQueue # <<>> /\ Transmit(Remainder) /\ Room > 0
    BY DEF FlushItem
  <2>3. /\ Head(sendQueue) \in Seq(Nat) /\ Tail(sendQueue) \in Seq(Seq(Nat))
        /\ Head(sendQueue) = sendQueue[1] /\ 1 \in DOMAIN sendQueue
    BY <2>1, <2>2
  <2> QED BY <2>1, <2>2, <2>3, Constants DEF ShapeInv, OutputHeld
<1>1. /\ Remainder \in Seq(Nat)
      /\ Len(Remainder) = Len(Head(sendQueue)) - sendOffset
  BY <1>0 DEF Remainder
<1>2. /\ sendQueue' \in Seq(Seq(Nat)) /\ sendOffset' \in 0..RecordSize - 1
      /\ \A i \in DOMAIN sendQueue' : Len(sendQueue'[i]) <= RecordSize
      /\ IF sendQueue' = <<>> THEN sendOffset' = 0
         ELSE sendOffset' <= Len(Head(sendQueue'))
  <2>1. CASE sendQueue' = Tail(sendQueue) /\ sendOffset' = 0
    <3>1. \A i \in DOMAIN sendQueue' : sendQueue'[i] = sendQueue[i + 1]
                                      /\ i + 1 \in DOMAIN sendQueue
      BY <1>0, <2>1
    <3>2. sendQueue' # <<>> => Len(Head(sendQueue')) \in Nat
      BY <1>0, <2>1
    <3> QED BY <1>0, <2>1, <3>1, <3>2 DEF ShapeInv, OutputHeld
  <2>2. CASE /\ sendQueue' = sendQueue /\ sendOffset' = sendOffset + Room
             /\ Len(Remainder) > Room
    BY <1>0, <1>1, <2>2 DEF ShapeInv, OutputHeld
  <2> QED BY <2>1, <2>2 DEF FlushItem
<1>3. TypeOK'
  BY <1>0, <1>1, <1>2, Transmitted
     DEF TypeOK, FlushItem, RequestIds, Unit, Responses, Transmit
<1>4. WritersTakeTurns' /\ ReadInOnePlace' /\ BuffersOpen'
  BY
     DEF ShapeInv, WritersTakeTurns, ReadInOnePlace, BuffersOpen, Length,
         FlushItem,
         Unlocked
<1>5. OutputHeld'
  <2>1. \A s \in Threads : pc[s] \notin {"write", "again"} \/ raced
    BY ThreadFacts
       DEF ShapeInv, FlushItem, WritersTakeTurns, Unlocked, Critical
  <2> QED BY <1>2, <2>1 DEF ShapeInv, OutputHeld, FlushItem
<1> QED BY <1>3, <1>4, <1>5 DEF ShapeInv

(* ... until the socket is full ...                                        *)
LEMMA ShapeFlushFails ==
    ASSUME ShapeInv, FlushFails
    PROVE  ShapeInv'
<1>1. TypeOK'
  BY ThreadFacts, Constants
     DEF ShapeInv, TypeOK, FlushFails, Goto, Callback, Points, RequestIds,
         Unit, Responses
<1>2. WritersTakeTurns' /\ ReadInOnePlace' /\ BuffersOpen'
  BY ThreadFacts DEF ShapeInv, TypeOK, WritersTakeTurns, ReadInOnePlace,
         BuffersOpen, Length, FlushFails, Goto, Unlocked, Critical
<1>3. OutputHeld'
  BY ThreadFacts
     DEF ShapeInv, TypeOK, WritersTakeTurns, OutputHeld, FlushFails, Goto,
         Unlocked,
         Critical
<1> QED BY <1>1, <1>2, <1>3 DEF ShapeInv

(* ... or the queue is empty.                                              *)
LEMMA ShapeEndFlush ==
    ASSUME ShapeInv, EndFlush
    PROVE  ShapeInv'
<1>1. TypeOK'
  BY ThreadFacts, Constants
     DEF ShapeInv, TypeOK, EndFlush, Goto, Callback, Points, RequestIds, Unit,
         Responses
<1>2. WritersTakeTurns' /\ ReadInOnePlace' /\ BuffersOpen'
  BY ThreadFacts DEF ShapeInv, TypeOK, WritersTakeTurns, ReadInOnePlace,
         BuffersOpen, Length, EndFlush, Goto, Unlocked, Critical
<1>3. OutputHeld'
  BY ThreadFacts
     DEF ShapeInv, TypeOK, WritersTakeTurns, OutputHeld, EndFlush, Goto,
         Unlocked,
         Critical
<1> QED BY <1>1, <1>2, <1>3 DEF ShapeInv

(* Every step, whichever it is.                                            *)
LEMMA ShapeNext ==
    ASSUME ShapeInv, [Next]_vars
    PROVE  ShapeInv'
<1>1. CASE UNCHANGED vars
  BY <1>1
     DEF vars, ShapeInv, TypeOK, WritersTakeTurns, OutputHeld, ReadInOnePlace,
         BuffersOpen, RequestIds, Unit, Responses, Length, Unlocked, Remainder
<1>2. CASE ClientSteps
  BY <1>2, ShapeSend, ShapeSendControl, ShapeClose, ShapePeerReads
     DEF ClientSteps
<1>3. CASE ReadSteps
  BY <1>3, ShapeRead, ShapeReadAgain, ShapeEndRead, ShapeEndDeliver,
     ShapeAnswerHandshake, ShapeCopyHead, ShapeCopyBody, ShapeFinishHead,
     ShapeFinishBody DEF ReadSteps
<1>4. CASE MainSteps
  BY <1>3, <1>4, ShapePoll, ShapeEventIn, ShapeEventOut, ShapeEndDispatch,
     ShapeLockQueue, ShapeFlushItem, ShapeFlushFails, ShapeEndFlush DEF MainSteps
<1>5. CASE \E t \in Threads : PostSteps(t)
  BY <1>5, ShapeLock, ShapeCheckQueue, ShapeTryWrite, ShapeTryWriteFails,
     ShapeClearWriteReady, ShapeStopWriting, ShapePush, ShapeRelease, ShapeEndPost
     DEF PostSteps
<1>6. CASE \E t \in Threads, r \in RequestIds :
                OnData(t, r) \/ Complete(t, r) \/ Throw(t, r)
  BY <1>6, ShapeOnData, ShapeComplete, ShapeThrow
<1> QED BY <1>1, <1>2, <1>4, <1>5, <1>6 DEF Next

(* The control state has the shape that the safety properties rest on: at  *)
(* most one thread is in postResponse or onWriteReady, it alone has units  *)
(* to write while nothing has raced, what was read is delivered before the *)
(* next read(), and no buffer of the reader is full.                       *)
THEOREM ShapeAlways == Spec => []ShapeInv
<1>1. ShapeInv /\ [Next]_vars => ShapeInv'
  BY ShapeNext
<1> QED BY <1>1, ShapeInit, PTL DEF Spec

-------------------------------------------------------------------------------
(* What is read: the packets in the stream *)

(* Requests keep the length of their bodies.                               *)
Kept ==
    /\ RequestIds' = RequestIds
    /\ \A q \in RequestIds : requests'[q].length = requests[q].length

(* So packets stay what they are.                                          *)
LEMMA PacketsKept ==
    ASSUME Kept, NEW r \in RequestIds
    PROVE  Packet(r)' = Packet(r) /\ Size(r)' = Size(r)
BY DEF Kept, Packet, Size

(* What the reader has, and what is still to come.                         *)
LEMMA ReaderTyped ==
    ASSUME ShapeInv
    PROVE  /\ Got \in Seq(Unit) /\ Len(Got) \in Nat
           /\ Stream \in Seq(Unit \cup {Handshake}) /\ Len(Stream) \in Nat
           /\ DOMAIN Stream = 1..Len(Stream)
           /\ Len(handled) \in Nat /\ Current \in Nat /\ Current = Len(handled) + 1
           /\ DOMAIN handled = 1..Len(handled)
           /\ Pending \subseteq Sent /\ Sent \subseteq RequestIds
           /\ RequestIds = 1..Len(requests) /\ Len(requests) \in Nat
           /\ \A r \in Pending : r \in Nat /\ r >= Current
<1>1. /\ chunk \in Seq(Unit \cup {Handshake}) /\ inbound \in Seq(Unit \cup {Handshake})
      /\ partial \in Seq(Unit) /\ curPacket \in Seq(Unit)
      /\ handled \in Seq(Seq(Unit)) /\ requests \in Seq(Request)
  BY DEF ShapeInv, TypeOK
<1>2. Got \in Seq(Unit) /\ Len(Got) \in Nat
  BY <1>1 DEF Got
<1>3. Stream \in Seq(Unit \cup {Handshake}) /\ Len(Stream) \in Nat
      /\ DOMAIN Stream = 1..Len(Stream)
  BY <1>1 DEF Stream
<1>4. /\ Len(handled) \in Nat /\ Current \in Nat /\ Current = Len(handled) + 1
      /\ DOMAIN handled = 1..Len(handled)
  BY <1>1 DEF Current
<1>5. /\ Pending \subseteq Sent /\ Sent \subseteq RequestIds
      /\ RequestIds = 1..Len(requests) /\ Len(requests) \in Nat
  BY <1>1 DEF Pending, Sent, RequestIds
<1>6. \A r \in Pending : r \in Nat /\ r >= Current
  BY <1>4, <1>5 DEF Pending
<1> QED BY <1>2, <1>3, <1>4, <1>5, <1>6

(* The packets lie in the stream as they did, without the first n units.   *)
LEMMA Shifted ==
    ASSUME ShapeInv, NEW at \in [Pending -> Int], Laid(at),
           \A r \in Pending : at[r] <= Len(Stream),
           NEW n \in 0..Len(Stream), Stream' = SubSeq(Stream, n + 1, Len(Stream)),
           Pending' \subseteq Pending, Kept, Len(Got') \in Nat,
           \A r \in Pending \ Pending' : at[r] + Size(r) <= n,
           \A r \in Pending' : IF r = Current' /\ Got' # <<>>
                               THEN at[r] - n = 0 - Len(Got') ELSE at[r] >= n
    PROVE  StreamLaid'
<1>1. /\ Stream \in Seq(Unit \cup {Handshake}) /\ Len(Stream) \in Nat
      /\ DOMAIN Stream = 1..Len(Stream) /\ Pending \subseteq RequestIds
  BY ReaderTyped
<1>2. /\ Len(Stream') = Len(Stream) - n /\ DOMAIN Stream' = 1..Len(Stream) - n
      /\ \A i \in 1..Len(Stream) - n : Stream'[i] = Stream[n + i]
  <2>1. Stream' \in Seq(Unit \cup {Handshake}) /\ Len(Stream') = Len(Stream) - n
        /\ \A i \in 1..Len(Stream) - n : Stream'[i] = Stream[n + i]
    BY <1>1, Dropped
  <2> QED BY <2>1
<1>3. \A r \in Pending : Size(r) \in Nat /\ Size(r)' = Size(r)
  BY <1>1, PacketsKept, PacketUnits DEF ShapeInv
<1>4. PICK at2 \in [Pending -> (0 - Len(Got))..Len(Stream)]' :
            \A r \in Pending' : at2[r] = at[r] - n
  <2>1. \A r \in Pending' : at[r] - n \in (0 - Len(Got'))..Len(Stream')
    BY <1>2
  <2> WITNESS [r \in Pending' |-> at[r] - n] \in [Pending -> (0 - Len(Got))..Len(Stream)]'
  <2> QED OBVIOUS
<1>5. \A r \in Pending' : at2[r] = at[r] - n /\ at[r] \in Int /\ r \in Pending
  BY <1>4
<1>6. \A r \in Pending' : \A k \in 1..Size(r)' :
        at2[r] + k > 0 =>
            at2[r] + k \in DOMAIN Stream' /\ Stream'[at2[r] + k] = <<r, k>>
  <2> SUFFICES ASSUME NEW r \in Pending', NEW k \in 1..Size(r), at2[r] + k > 0
               PROVE  at2[r] + k \in DOMAIN Stream' /\ Stream'[at2[r] + k] = <<r, k>>
    BY <1>3
  <2>1. k \in Nat /\ at[r] + k = n + (at2[r] + k) /\ at[r] + k > 0
    BY <1>3, <1>5
  <2>2. at[r] + k \in 1..Len(Stream) /\ Stream[at[r] + k] = <<r, k>>
    BY <1>1, <1>5, <2>1 DEF Laid
  <2>3. at2[r] + k \in 1..Len(Stream) - n
    <3>1. at2[r] + k \in Int /\ at[r] + k <= Len(Stream)
      BY <1>5, <2>1, <2>2
    <3> QED BY <1>1, <2>1, <3>1
  <2> QED BY <1>2, <2>1, <2>2, <2>3
<1>7. \A r, q \in Pending' : r < q => at2[r] + Size(r)' <= at2[q]
  <2>1. \A r, q \in Pending : r < q => at[r] + Size(r) <= at[q]
    BY DEF Laid
  <2> SUFFICES ASSUME NEW r \in Pending', NEW q \in Pending', r < q
               PROVE  at2[r] + Size(r)' <= at2[q]
    OBVIOUS
  <2>2. /\ at[r] + Size(r) <= at[q] /\ Size(r)' = Size(r) /\ Size(r) \in Nat
        /\ at2[r] = at[r] - n /\ at2[q] = at[q] - n
        /\ at[r] \in Int /\ at[q] \in Int /\ n \in Nat
    BY <1>3, <1>5, <2>1
  <2> QED BY <2>2
<1>8. \A i \in DOMAIN Stream' :
        \/ Stream'[i] = Handshake
        \/ \E r \in Pending' : at2[r] < i /\ i <= at2[r] + Size(r)'
  <2> SUFFICES ASSUME NEW i \in 1..Len(Stream) - n, Stream[n + i] # Handshake
               PROVE  \E r \in Pending' : at2[r] < i /\ i <= at2[r] + Size(r)'
    BY <1>2
  <2>1. n + i \in DOMAIN Stream /\ i \in Nat /\ i > 0
    BY <1>1
  <2>2. PICK r \in Pending : at[r] < n + i /\ n + i <= at[r] + Size(r)
    BY <2>1 DEF Laid
  <2>3. r \in Pending'
    BY <1>3, <2>1, <2>2
  <2>4. at2[r] < i /\ i <= at2[r] + Size(r)
    BY <1>3, <1>5, <2>1, <2>2, <2>3
  <2> QED BY <1>3, <2>3, <2>4
<1>9. \A r \in Pending' : IF r = Current' /\ Got' # <<>>
                          THEN at2[r] = 0 - Len(Got') ELSE at2[r] >= 0
  BY <1>5
<1>10. Handshake' = Handshake
  BY DEF Handshake
<1>11. Laid(at2)'
  BY <1>6, <1>7, <1>8, <1>9, <1>10 DEF Laid
<1> QED BY <1>4, <1>11 DEF StreamLaid

(* The reader's buffers and the stream are what they were, and so is which *)
(* requests were sent.                                                     *)
LEMMA FramesSame ==
    ASSUME ShapeInv, FramesInv, Kept, handled' = handled, Got' = Got, Stream' = Stream,
           \A q \in RequestIds :
              /\ requests'[q].state = "planned" <=> requests[q].state = "planned"
              /\ requests'[q].state \in {"engine", "answered"} =>
                    requests[q].state \in {"engine", "answered"}
    PROVE  FramesInv'
<1>1. Sent' = Sent
  BY DEF Sent, Kept
<1>2. Pending' = Pending /\ Current' = Current
  BY <1>1 DEF Pending, Current
<1>3. \A r \in RequestIds : Packet(r)' = Packet(r) /\ Size(r)' = Size(r)
  BY PacketsKept
<1>4. FramesAsSent'
  <2>1. \A n \in DOMAIN handled : n \in RequestIds
    BY ReaderTyped DEF FramesInv
  <2> QED BY <1>3, <2>1 DEF FramesInv, FramesAsSent, Kept
<1>5. StreamLaid'
  <2>1. PICK at \in [Pending -> (0 - Len(Got))..Len(Stream)] : Laid(at)
    BY DEF FramesInv, StreamLaid
  <2>2. Laid(at)'
    BY <1>2, <1>3, <2>1, ReaderTyped DEF Laid, Handshake
  <2> QED BY <1>2, <2>1, <2>2 DEF StreamLaid
<1>6. (Got # <<>> => Current \in Pending /\ Got = SubSeq(Packet(Current), 1, Len(Got)))'
  BY <1>2, <1>3, ReaderTyped DEF FramesInv
<1> QED BY <1>1, <1>4, <1>5, <1>6 DEF FramesInv

(* Only the handshake is in the stream at the start.                       *)
LEMMA FramesInit == Init => FramesInv
<1> SUFFICES ASSUME Init PROVE FramesInv
  OBVIOUS
<1>0. ShapeInv
  BY ShapeInit
<1>1. Sent = {} /\ Pending = {} /\ Got = <<>>
  <2>1. PICK session \in Sessions :
            requests = [r \in DOMAIN session |->
                [opcode |-> session[r].opcode, length |-> session[r].length,
                 state |-> "planned", rows |-> 0]]
    BY DEF Init
  <2>2. \A r \in RequestIds : requests[r].state = "planned"
    BY <2>1 DEF RequestIds
  <2>3. Sent = {}
    BY <2>2 DEF Sent
  <2> QED BY <2>3, ReaderTyped, <1>0 DEF Init, Got
<1>2. handled = <<>> /\ Len(handled) = 0 /\ \A r \in RequestIds : requests[r].state = "planned"
  BY <1>1 DEF Init, Sent
<1>3. Stream = <<Handshake>>
  BY DEF Init, Stream
<1>4. StreamLaid
  <2>1. PICK at \in [Pending -> (0 - Len(Got))..Len(Stream)] : TRUE
    <3>1. [r \in Pending |-> 0] \in [Pending -> (0 - Len(Got))..Len(Stream)]
      BY <1>1
    <3> QED BY <3>1
  <2>2. Laid(at)
    BY <1>1, <1>3 DEF Laid
  <2> QED BY <2>2 DEF StreamLaid
<1> QED BY <1>1, <1>2, <1>4 DEF FramesInv, FramesAsSent

(* A packet comes to the end of the stream.                                *)
LEMMA FramesSend ==
    ASSUME ShapeInv, FramesInv, NEW r \in RequestIds, Send(r)
    PROVE  FramesInv'
<1>0. /\ TypeOK /\ requests' = [requests EXCEPT ![r].state = "sent"]
      /\ "sent" \in States /\ handled' = handled
      /\ validHead' = validHead /\ curPacket' = curPacket /\ partial' = partial
      /\ chunk' = chunk /\ inbound' = inbound \o Packet(r)
      /\ requests[r].state = "planned"
      /\ \A earlier \in 1..r - 1 : requests[earlier].state # "planned"
  BY DEF Send, Arrive, States, ShapeInv
<1>1. /\ Kept /\ RequestIds' = RequestIds /\ requests'[r].state = "sent"
      /\ \A q \in RequestIds \ {r} : requests'[q].state = requests[q].state
  BY <1>0, RequestChanged DEF Kept
<1>2. Sent' = Sent \cup {r} /\ r \notin Sent
  BY <1>0, <1>1 DEF Sent
<1>3. /\ Got' = Got /\ Current' = Current /\ Got \in Seq(Unit) /\ Len(Got) \in Nat
      /\ Stream \in Seq(Unit \cup {Handshake}) /\ Len(Stream) \in Nat
      /\ DOMAIN Stream = 1..Len(Stream) /\ Len(handled) \in Nat
      /\ RequestIds = 1..Len(requests) /\ Len(requests) \in Nat
      /\ Sent \subseteq RequestIds /\ Pending \subseteq Sent
  BY <1>0, ReaderTyped DEF Got, Current
<1>4. r > Len(handled)
  BY <1>2, <1>3 DEF FramesInv
<1>5. Pending' = Pending \cup {r} /\ r \notin Pending
  BY <1>0, <1>2, <1>3, <1>4 DEF Pending
<1>6. \A q \in Sent' : 1..q \subseteq Sent'
  <2>1. 1..r \subseteq Sent'
    BY <1>0, <1>2, <1>3 DEF Sent
  <2> QED BY <1>2, <2>1 DEF FramesInv
<1>7. \A q \in Pending : q < r
  BY <1>2, <1>3 DEF FramesInv
<1>8. \A q \in RequestIds : Packet(q)' = Packet(q) /\ Size(q)' = Size(q)
  BY <1>1, PacketsKept
<1>9. FramesAsSent'
  <2>1. \A n \in DOMAIN handled : n \in RequestIds
    BY ReaderTyped DEF FramesInv
  <2> QED BY <1>0, <1>1, <1>8, <2>1 DEF FramesInv, FramesAsSent
<1>10. /\ Packet(r) \in Seq(Unit) /\ Len(Packet(r)) = Size(r) /\ Size(r) \in Nat
       /\ \A k \in 1..Size(r) : Packet(r)[k] = <<r, k>>
  BY <1>0, PacketUnits
<1>11. Stream' = Stream \o Packet(r)
  <2>1. /\ chunk \in Seq(Unit \cup {Handshake}) /\ inbound \in Seq(Unit \cup {Handshake})
        /\ Packet(r) \in Seq(Unit \cup {Handshake})
    BY <1>0, <1>10 DEF TypeOK
  <2> QED BY <1>0, <2>1, ConcatAssociative DEF Stream
<1>12. /\ Len(Stream') = Len(Stream) + Size(r) /\ DOMAIN Stream' = 1..Len(Stream')
       /\ \A i \in 1..Len(Stream) : Stream'[i] = Stream[i]
       /\ \A k \in 1..Size(r) : Stream'[Len(Stream) + k] = <<r, k>>
  <2>1. Packet(r) \in Seq(Unit \cup {Handshake})
    BY <1>10
  <2> QED BY <1>3, <1>10, <1>11, <2>1
<1>13. PICK at \in [Pending -> (0 - Len(Got))..Len(Stream)] : Laid(at)
  BY DEF FramesInv, StreamLaid
<1>14. PICK at2 \in [Pending -> (0 - Len(Got))..Len(Stream)]' :
          at2[r] = Len(Stream) /\ \A q \in Pending : at2[q] = at[q]
  <2> DEFINE f == [q \in Pending' |-> IF q = r THEN Len(Stream) ELSE at[q]]
  <2>1. /\ f[r] = Len(Stream) /\ \A q \in Pending : f[q] = at[q]
    BY <1>5
  <2>2. f \in [Pending -> (0 - Len(Got))..Len(Stream)]'
    BY <1>3, <1>5, <1>10, <1>12
  <2> QED BY <2>1, <2>2
<1>15. \A q \in Pending : at[q] \in Int /\ at[q] <= Len(Stream) /\ Size(q) \in Nat
                         /\ Size(q) >= 2 /\ at[q] + Size(q) <= Len(Stream)
  <2> SUFFICES ASSUME NEW q \in Pending
               PROVE  at[q] \in Int /\ at[q] <= Len(Stream) /\ Size(q) \in Nat
                         /\ Size(q) >= 2 /\ at[q] + Size(q) <= Len(Stream)
    OBVIOUS
  <2>1. Size(q) \in Nat /\ Size(q) >= 2
    BY <1>0, <1>3, PacketUnits, Constants
  <2>2. at[q] \in Int /\ at[q] <= Len(Stream)
    BY <1>3, <1>13
  <2>3. at[q] + Size(q) > 0 => at[q] + Size(q) \in DOMAIN Stream
    BY <1>13, <2>1 DEF Laid
  <2> QED BY <1>3, <2>1, <2>2, <2>3
<1>16. Laid(at2)'
  <2>1. \A q \in Pending' : \A k \in 1..Size(q)' :
          at2[q] + k > 0 =>
             at2[q] + k \in DOMAIN Stream' /\ Stream'[at2[q] + k] = <<q, k>>
    <3>1. ASSUME NEW q \in Pending, NEW k \in 1..Size(q), at[q] + k > 0
          PROVE  at[q] + k \in DOMAIN Stream' /\ Stream'[at[q] + k] = <<q, k>>
      <4>1. at[q] + k \in DOMAIN Stream /\ Stream[at[q] + k] = <<q, k>>
        BY <1>13, <3>1 DEF Laid
      <4>2. DOMAIN Stream = 1..Len(Stream) /\ Len(Stream) \in Nat
        BY <1>3
      <4>3. at[q] + k \in 1..Len(Stream) /\ at[q] + k \in 1..Len(Stream')
        BY <1>10, <1>12, <4>1, <4>2
      <4> QED BY <1>12, <4>1, <4>3
    <3>2. ASSUME NEW k \in 1..Size(r)
          PROVE  /\ Len(Stream) + k \in DOMAIN Stream'
                 /\ Stream'[Len(Stream) + k] = <<r, k>>
      BY <1>3, <1>10, <1>12
    <3> QED BY <1>3, <1>5, <1>8, <1>14, <3>1, <3>2
  <2>2. \A p, q \in Pending' : p < q => at2[p] + Size(p)' <= at2[q]
    <3>1. ASSUME NEW p \in Pending, NEW q \in Pending, p < q
          PROVE  at[p] + Size(p) <= at[q]
      BY <1>13, <3>1 DEF Laid
    <3> QED BY <1>3, <1>5, <1>7, <1>8, <1>14, <1>15, <3>1
  <2>3. \A i \in DOMAIN Stream' :
          \/ Stream'[i] = Handshake
          \/ \E q \in Pending' : at2[q] < i /\ i <= at2[q] + Size(q)'
    <3> SUFFICES ASSUME NEW i \in 1..Len(Stream'), Stream'[i] # Handshake
                 PROVE  \E q \in Pending' : at2[q] < i /\ i <= at2[q] + Size(q)'
      BY <1>12
    <3>1. CASE i \in 1..Len(Stream)
      BY <1>3, <1>5, <1>8, <1>12, <1>13, <1>14, <3>1 DEF Laid
    <3>2. CASE i \notin 1..Len(Stream)
      <4>1. Len(Stream) < i /\ i <= Len(Stream) + Size(r)
        BY <1>3, <1>10, <1>12, <3>2
      <4> QED BY <1>3, <1>5, <1>8, <1>14, <4>1
    <3> QED BY <3>1, <3>2
  <2>4. \A q \in Pending' : IF q = Current' /\ Got' # <<>>
                            THEN at2[q] = 0 - Len(Got') ELSE at2[q] >= 0
    <3>1. Got # <<>> => r # Current
      BY <1>5 DEF FramesInv
    <3>2. \A q \in Pending : IF q = Current /\ Got # <<>>
                             THEN at[q] = 0 - Len(Got) ELSE at[q] >= 0
      BY <1>13 DEF Laid
    <3> QED BY <1>3, <1>5, <1>14, <3>1, <3>2
  <2>5. Handshake' = Handshake
    BY DEF Handshake
  <2> QED BY <2>1, <2>2, <2>3, <2>4, <2>5 DEF Laid
<1>17. StreamLaid'
  BY <1>14, <1>16 DEF StreamLaid
<1>18. (Got # <<>> => Current \in Pending /\ Got = SubSeq(Packet(Current), 1, Len(Got)))'
  BY <1>3, <1>5, <1>8 DEF FramesInv
<1>19. (Len(handled) \in {0} \cup Sent)'
  BY <1>0, <1>2 DEF FramesInv
<1> QED BY <1>6, <1>9, <1>17, <1>18, <1>19 DEF FramesInv

(* A record of the channel comes to the end of the stream.                 *)
LEMMA FramesSendControl ==
    ASSUME ShapeInv, FramesInv, SendControl
    PROVE  FramesInv'
<1>0. /\ requests' = requests /\ handled' = handled
      /\ validHead' = validHead /\ curPacket' = curPacket /\ partial' = partial
      /\ chunk' = chunk /\ inbound' = inbound \o <<Handshake>>
  BY DEF SendControl, Arrive
<1>1. Kept /\ Sent' = Sent /\ Pending' = Pending /\ Current' = Current /\ Got' = Got
  BY <1>0 DEF Kept, Sent, Pending, Current, Got, RequestIds
<1>2. \A r \in RequestIds : Packet(r)' = Packet(r) /\ Size(r)' = Size(r)
  BY <1>1, PacketsKept
<1>3. /\ Stream \in Seq(Unit \cup {Handshake}) /\ Len(Stream) \in Nat
      /\ DOMAIN Stream = 1..Len(Stream) /\ Pending \subseteq RequestIds
      /\ Len(Got) \in Nat
  BY ReaderTyped
<1>4. /\ Len(Stream') = Len(Stream) + 1 /\ DOMAIN Stream' = 1..Len(Stream) + 1
      /\ \A i \in 1..Len(Stream) : Stream'[i] = Stream[i]
      /\ Stream'[Len(Stream) + 1] = Handshake
  <2>1. /\ chunk \in Seq(Unit \cup {Handshake}) /\ inbound \in Seq(Unit \cup {Handshake})
        /\ <<Handshake>> \in Seq(Unit \cup {Handshake})
    BY DEF ShapeInv, TypeOK
  <2>2. Stream' = Stream \o <<Handshake>>
    BY <1>0, <2>1, ConcatAssociative DEF Stream
  <2> QED BY <1>3, <2>1, <2>2
<1>5. PICK at \in [Pending -> (0 - Len(Got))..Len(Stream)] : Laid(at)
  BY DEF FramesInv, StreamLaid
<1>6. at \in [Pending -> (0 - Len(Got))..Len(Stream)]'
  <2>1. \A r \in Pending : at[r] \in (0 - Len(Got))..Len(Stream')
    BY <1>3, <1>4, <1>5
  <2> QED BY <1>1, <1>5, <2>1
<1>7. Laid(at)'
  <2>1. Handshake' = Handshake
    BY DEF Handshake
  <2>2. \A r \in Pending : \A k \in 1..Size(r) :
          at[r] + k > 0 =>
             at[r] + k \in DOMAIN Stream' /\ Stream'[at[r] + k] = <<r, k>>
    BY <1>3, <1>4, <1>5 DEF Laid
  <2>3. \A i \in DOMAIN Stream' :
          \/ Stream'[i] = Handshake
          \/ \E q \in Pending : at[q] < i /\ i <= at[q] + Size(q)
    BY <1>3, <1>4, <1>5 DEF Laid
  <2> QED BY <1>1, <1>2, <1>3, <1>5, <2>1, <2>2, <2>3 DEF Laid
<1>8. FramesAsSent'
  <2>1. \A n \in DOMAIN handled : n \in RequestIds
    BY ReaderTyped DEF FramesInv
  <2> QED BY <1>0, <1>1, <1>2, <2>1 DEF FramesInv, FramesAsSent, Kept
<1>9. (Got # <<>> => Current \in Pending /\ Got = SubSeq(Packet(Current), 1, Len(Got)))'
  BY <1>1, <1>2, <1>3 DEF FramesInv
<1> QED BY <1>0, <1>1, <1>6, <1>7, <1>8, <1>9 DEF FramesInv, StreamLaid

(* A read moves units from the socket to the chunk.                        *)
LEMMA FramesRead ==
    ASSUME ShapeInv, FramesInv, NEW n \in 1..MaxChunk, Read(n)
    PROVE  FramesInv'
<1>1. /\ chunk' = SubSeq(inbound, 1, n) /\ n \in 0..Len(inbound)
      /\ inbound' = SubSeq(inbound, n + 1, Len(inbound))
      /\ UNCHANGED <<requests, handled, validHead, curPacket, partial>>
      /\ pc[Main] = "read"
  BY Constants DEF Read, Goto
<1>2. chunk = <<>> /\ inbound \in Seq(Unit \cup {Handshake})
  BY <1>1 DEF ShapeInv, ReadInOnePlace, TypeOK
<1>3. Stream' = Stream
  <2>1. Stream = inbound
    BY <1>2 DEF Stream
  <2>2. Stream' = inbound
    BY <1>1, <1>2, TakeDrop DEF Stream
  <2> QED BY <2>1, <2>2
<1>4. Kept /\ Got' = Got
  BY <1>1 DEF Kept, RequestIds, Got
<1> QED BY <1>1, <1>3, <1>4, FramesSame

(* The units that onReadTls gets next are the next ones of the packet that *)
(* it is reading, also if it has none of it yet.                           *)
LEMMA NextOfCurrent ==
    ASSUME ShapeInv, FramesInv, NEW at \in [Pending -> (0 - Len(Got))..Len(Stream)],
           Laid(at), Len(Stream) > 0, Stream[1] # Handshake
    PROVE  /\ Current \in Pending /\ at[Current] = 0 - Len(Got)
           /\ Got = SubSeq(Packet(Current), 1, Len(Got))
<1>0. /\ Got \in Seq(Unit) /\ Len(Got) \in Nat
      /\ DOMAIN Stream = 1..Len(Stream) /\ Len(Stream) \in Nat
      /\ Pending \subseteq Sent /\ Sent \subseteq RequestIds
      /\ \A r \in Pending : r \in Nat /\ r >= Current
      /\ Current \in Nat /\ Current = Len(handled) + 1 /\ Len(handled) \in Nat
  BY ReaderTyped
<1>1. CASE Got # <<>>
  BY <1>0, <1>1 DEF FramesInv, Laid
<1>2. CASE Got = <<>>
  <2>1. Len(Got) = 0
    BY <1>2
  <2>2. PICK r \in Pending : at[r] < 1 /\ 1 <= at[r] + Size(r)
    BY <1>0 DEF Laid
  <2>3. \A q \in Pending : at[q] >= 0 /\ at[q] \in Nat /\ Size(q) \in Nat /\ Size(q) >= 2
    BY <1>0, <1>2, <2>1, PacketUnits, Constants DEF Laid, ShapeInv
  <2>4. at[r] = 0
    BY <2>2, <2>3
  <2>5. \A q \in Pending : ~ (q < r)
    BY <2>2, <2>3, <2>4 DEF Laid
  <2>6. Current \in Sent
    BY <1>0, <2>2 DEF FramesInv
  <2>7. Current \in Pending
    BY <1>0, <2>6 DEF Pending
  <2>8. Current = r
    BY <1>0, <2>2, <2>5, <2>7
  <2>9. Got = SubSeq(Packet(Current), 1, Len(Got))
    <3>1. Packet(Current) \in Seq(Unit)
      BY <1>0, <2>7, PacketUnits DEF ShapeInv
    <3>2. SubSeq(Packet(Current), 1, 0) = <<>>
      BY <3>1
    <3> QED BY <1>2, <2>1, <3>2
  <2>10. at[Current] = 0 - Len(Got)
    BY <2>1, <2>4, <2>8
  <2> QED BY <2>7, <2>9, <2>10
<1> QED BY <1>1, <1>2

(* With the next units, the reader has more of the same packet.            *)
LEMMA MoreOfCurrent ==
    ASSUME ShapeInv, FramesInv, NEW at \in [Pending -> (0 - Len(Got))..Len(Stream)],
           Laid(at), Stream[1] # Handshake,
           NEW n \in 1..Len(Stream), Len(Got) + n <= Size(Current)
    PROVE  Got \o SubSeq(Stream, 1, n) = SubSeq(Packet(Current), 1, Len(Got) + n)
<1>0. /\ Got \in Seq(Unit) /\ Len(Got) \in Nat
      /\ Stream \in Seq(Unit \cup {Handshake}) /\ Len(Stream) \in Nat
      /\ DOMAIN Stream = 1..Len(Stream) /\ Pending \subseteq RequestIds
  BY ReaderTyped
<1>1. /\ Current \in Pending /\ at[Current] = 0 - Len(Got)
      /\ Got = SubSeq(Packet(Current), 1, Len(Got))
  BY <1>0, NextOfCurrent
<1> DEFINE packet == Packet(Current)
           m == Len(Got)
           more == SubSeq(Stream, 1, n)
<1>2. /\ packet \in Seq(Unit) /\ Len(packet) = Size(Current) /\ Size(Current) \in Nat
      /\ \A k \in 1..Size(Current) : packet[k] = <<Current, k>>
  BY <1>0, <1>1, PacketUnits DEF ShapeInv
<1>3. \A i \in 1..n : Stream[i] = packet[m + i]
  <2> SUFFICES ASSUME NEW i \in 1..n PROVE Stream[i] = packet[m + i]
    OBVIOUS
  <2>1. m + i \in 1..Size(Current) /\ at[Current] + (m + i) = i /\ i > 0
    BY <1>0, <1>1, <1>2
  <2>2. Stream[i] = <<Current, m + i>>
    BY <1>1, <2>1 DEF Laid
  <2> QED BY <1>2, <2>1, <2>2
<1>4. /\ more \in Seq(Unit \cup {Handshake}) /\ Len(more) = n
      /\ \A i \in 1..n : more[i] = Stream[i]
  BY <1>0
<1> HIDE DEF packet, more
<1>5. /\ SubSeq(packet, 1, m) \in Seq(Unit)
      /\ \A i \in 1..m : Got[i] = packet[i]
  BY <1>0, <1>1, <1>2 DEF packet
<1>6. /\ Got \o more \in Seq(Unit \cup {Handshake}) /\ Len(Got \o more) = m + n
      /\ \A i \in 1..m + n : (Got \o more)[i] = packet[i]
  <2>1. Got \in Seq(Unit \cup {Handshake})
    BY <1>0
  <2>2. /\ Got \o more \in Seq(Unit \cup {Handshake}) /\ Len(Got \o more) = m + n
        /\ \A i \in 1..m + n : (Got \o more)[i] = IF i <= m THEN Got[i] ELSE more[i - m]
    BY <1>4, <2>1, Concatenated
  <2>3. ASSUME NEW i \in 1..m + n, i > m
        PROVE  more[i - m] = packet[i]
    <3>1. i - m \in 1..n /\ m + (i - m) = i
      BY <1>0, <2>3
    <3> QED BY <1>3, <1>4, <3>1
  <2> QED BY <1>0, <1>5, <2>2, <2>3
<1>7. /\ SubSeq(packet, 1, m + n) \in Seq(Unit \cup {Handshake})
      /\ Len(SubSeq(packet, 1, m + n)) = m + n
      /\ \A i \in 1..m + n : SubSeq(packet, 1, m + n)[i] = packet[i]
  BY <1>0, <1>2
<1>8. Got \o more = SubSeq(packet, 1, m + n)
  BY <1>6, <1>7, SeqEqual
<1> QED BY <1>8 DEF packet, more

(* The reader never has a whole packet.                                    *)
LEMMA GotOpen ==
    ASSUME ShapeInv, Current \in Pending, Got = SubSeq(Packet(Current), 1, Len(Got))
    PROVE  /\ Len(Got) + 1 <= Size(Current)
           /\ validHead => /\ Length(curPacket) = requests[Current].length
                           /\ Len(Got) = HeadSize + Len(partial)
           /\ ~ validHead => Got = partial
<1>1. /\ Current \in RequestIds /\ TypeOK /\ BuffersOpen /\ Len(Got) \in Nat
      /\ Got \in Seq(Unit)
  BY ReaderTyped DEF ShapeInv
<1>2. /\ Packet(Current) \in Seq(Unit) /\ Len(Packet(Current)) = Size(Current)
      /\ Size(Current) \in Nat /\ Size(Current) >= 2
      /\ \A k \in 1..Size(Current) : Packet(Current)[k] = <<Current, k>>
  BY <1>1, PacketUnits, Constants
<1>3. partial \in Seq(Unit) /\ Len(partial) \in Nat
  BY <1>1 DEF TypeOK
<1>4. CASE ~ validHead
  <2>1. Got = partial
    BY <1>3, <1>4 DEF Got
  <2>2. Len(partial) < 2
    BY <1>1, <1>4, Constants DEF BuffersOpen
  <2>3. Len(Got) + 1 <= Size(Current)
    BY <1>2, <1>3, <2>1, <2>2
  <2> QED BY <1>4, <2>1, <2>3
<1>5. CASE validHead
  <2>1. /\ curPacket \in Seq(Unit) /\ Len(curPacket) = 2 /\ Length(curPacket) \in Nat
        /\ Len(partial) < Length(curPacket)
    BY <1>1, <1>5, HeadThere DEF BuffersOpen
  <2>2. Got = curPacket \o partial
    BY <1>5 DEF Got
  <2>3. Len(Got) = 2 + Len(partial) /\ Got[1] = curPacket[1]
    <3>1. /\ Len(curPacket \o partial) = Len(curPacket) + Len(partial)
          /\ \A i \in 1..Len(curPacket) + Len(partial) :
                (curPacket \o partial)[i] =
                    IF i <= Len(curPacket) THEN curPacket[i]
                    ELSE partial[i - Len(curPacket)]
      BY <1>3, <2>1, Concatenated
    <3>2. 1 \in 1..Len(curPacket) + Len(partial) /\ 1 <= Len(curPacket)
      BY <1>3, <2>1
    <3> QED BY <2>1, <2>2, <3>1, <3>2
  <2>4. Got[1] = <<Current, 1>>
    <3>1. 1 \in 1..Len(Got) /\ 1 \in 1..Size(Current)
      BY <1>1, <1>2, <1>3, <2>3
    <3>2. SubSeq(Packet(Current), 1, Len(Got))[1] = Packet(Current)[1]
      BY <1>2, <3>1, <1>1
    <3> QED BY <1>2, <3>1, <3>2
  <2>5. Length(curPacket) = requests[Current].length
    BY <2>3, <2>4 DEF Length
  <2> QED BY <1>3, <1>5, <2>1, <2>3, <2>5, Constants DEF Size
<1> QED BY <1>4, <1>5

(* The channel answers to a record of its own: the reader has no part of a *)
(* packet then.                                                            *)
LEMMA FramesAnswerHandshake ==
    ASSUME ShapeInv, FramesInv, AnswerHandshake
    PROVE  FramesInv'
<1>1. /\ chunk # <<>> /\ Head(chunk) = Handshake /\ chunk' = Tail(chunk)
      /\ UNCHANGED <<requests, inbound, handled, validHead, curPacket, partial>>
  BY DEF AnswerHandshake
<1>2. /\ chunk \in Seq(Unit \cup {Handshake}) /\ inbound \in Seq(Unit \cup {Handshake})
      /\ Len(chunk) \in Nat /\ Len(chunk) > 0 /\ 1 \in 0..Len(chunk)
  BY <1>1 DEF ShapeInv, TypeOK
<1>3. /\ chunk' = SubSeq(chunk, 2, Len(chunk)) /\ chunk[1] = Handshake
  BY <1>1, <1>2
<1>4. /\ Stream' = SubSeq(Stream, 2, Len(Stream)) /\ Stream[1] = Handshake
      /\ Len(Stream) \in Nat /\ Len(Stream) > 0
  <2>1. Stream' = SubSeq(chunk, 1 + 1, Len(chunk)) \o inbound
    BY <1>1, <1>3 DEF Stream
  <2>2. Stream' = SubSeq(Stream, 1 + 1, Len(Stream))
    BY <1>2, <2>1, DropFirst DEF Stream
  <2>3. Stream[1] = Handshake /\ Len(Stream) \in Nat /\ Len(Stream) > 0
    BY <1>2, <1>3, Concatenated DEF Stream
  <2> QED BY <2>2, <2>3
<1>5. Kept /\ Sent' = Sent /\ Pending' = Pending /\ Current' = Current /\ Got' = Got
  BY <1>1 DEF Kept, Sent, Pending, Current, Got, RequestIds
<1>6. PICK at \in [Pending -> (0 - Len(Got))..Len(Stream)] : Laid(at)
  BY DEF FramesInv, StreamLaid
<1>7. /\ Got \in Seq(Unit) /\ Len(Got) \in Nat /\ DOMAIN Stream = 1..Len(Stream)
      /\ Pending \subseteq RequestIds /\ Current \in Nat
  BY ReaderTyped
<1>8. ASSUME NEW r \in Pending, at[r] + 1 > 0
      PROVE  at[r] + 1 > 1
  <2>1. Size(r) \in Nat /\ Size(r) >= 2
    BY <1>7, PacketUnits, Constants DEF ShapeInv
  <2>2. at[r] + 1 # 1
    BY <1>4, <1>6, <1>8, <2>1 DEF Laid, Handshake
  <2> QED BY <1>7, <1>8, <2>2
<1>9. Got = <<>>
  <2> SUFFICES ASSUME Got # <<>> PROVE FALSE
    OBVIOUS
  <2>1. /\ Current \in Pending /\ at[Current] = 0 - Len(Got)
        /\ Got = SubSeq(Packet(Current), 1, Len(Got))
    BY <1>6 DEF FramesInv, Laid
  <2>2. Len(Got) + 1 <= Size(Current)
    BY <2>1, GotOpen
  <2>3. Size(Current) \in Nat /\ Len(Got) + 1 \in 1..Size(Current)
    BY <1>7, <2>1, <2>2, PacketUnits DEF ShapeInv
  <2>4. at[Current] + (Len(Got) + 1) = 1
    BY <1>7, <2>1
  <2>5. Stream[1] = <<Current, Len(Got) + 1>>
    BY <1>6, <2>1, <2>3, <2>4 DEF Laid
  <2> QED BY <1>4, <1>7, <2>1, <2>5, ReaderTyped DEF Handshake
<1>10. \A r \in Pending : at[r] >= 1
  BY <1>6, <1>7, <1>8, <1>9 DEF Laid
<1>11. at \in [Pending -> Int] /\ \A r \in Pending : at[r] <= Len(Stream)
  BY <1>4, <1>6, <1>7
<1>12. StreamLaid'
  <2>1. 1 \in 0..Len(Stream) /\ Stream' = SubSeq(Stream, 1 + 1, Len(Stream))
    BY <1>4
  <2>2. Pending' \subseteq Pending /\ Pending \ Pending' = {} /\ Got' = <<>> /\ Len(Got') \in Nat
    BY <1>5, <1>7, <1>9
  <2>3. \A r \in Pending' : IF r = Current' /\ Got' # <<>>
                            THEN at[r] - 1 = 0 - Len(Got') ELSE at[r] >= 1
    BY <1>5, <1>9, <1>10
  <2>4. \A r \in Pending \ Pending' : at[r] + Size(r) <= 1
    BY <2>2
  <2> QED BY <1>5, <1>6, <1>11, <2>1, <2>2, <2>3, <2>4, Shifted
<1>13. FramesAsSent'
  <2>1. \A n \in DOMAIN handled : n \in RequestIds
    BY ReaderTyped DEF FramesInv
  <2>2. \A r \in RequestIds : Packet(r)' = Packet(r)
    BY <1>5, PacketsKept
  <2> QED BY <1>1, <1>5, <2>1, <2>2 DEF FramesInv, FramesAsSent, Kept
<1>14. (Got # <<>> => Current \in Pending /\ Got = SubSeq(Packet(Current), 1, Len(Got)))'
  BY <1>5, <1>9
<1> QED BY <1>1, <1>5, <1>12, <1>13, <1>14 DEF FramesInv

(* The size of the buffer that onReadTls is filling, and what it takes.    *)
Buffer == IF validHead THEN Length(curPacket) ELSE HeadSize
More == SubSeq(chunk, 1, Copied(Buffer))

(* onReadTls takes n units for the buffer that it is filling: they are the *)
(* next ones of the packet that it is reading.                             *)
LEMMA Taken ==
    ASSUME ShapeInv, FramesInv, Plain # <<>>, Take(Copied(Buffer)), inbound' = inbound
    PROVE  /\ Copied(Buffer) \in 1..Len(Stream) /\ Stream[1] # Handshake
           /\ Stream' = SubSeq(Stream, Copied(Buffer) + 1, Len(Stream))
           /\ Current \in Pending /\ More \in Seq(Unit)
           /\ Got \o More = SubSeq(Packet(Current), 1, Len(Got) + Copied(Buffer))
           /\ Len(Got) + Copied(Buffer) <= Size(Current)
           /\ Len(Got) = (IF validHead THEN 2 ELSE 0) + Len(partial)
           /\ validHead => Length(curPacket) + 2 = Size(Current)
           /\ Len(partial) \in Nat /\ Len(partial) + Copied(Buffer) <= Buffer
<1>0. /\ TypeOK /\ BuffersOpen /\ chunk \in Seq(Unit \cup {Handshake})
      /\ inbound \in Seq(Unit \cup {Handshake}) /\ Len(chunk) \in Nat
      /\ partial \in Seq(Unit) /\ Len(partial) \in Nat
      /\ Got \in Seq(Unit) /\ Len(Got) \in Nat /\ Pending \subseteq RequestIds
      /\ Stream \in Seq(Unit \cup {Handshake}) /\ Len(Stream) \in Nat
  <2>1. /\ Got \in Seq(Unit) /\ Len(Got) \in Nat /\ Pending \subseteq RequestIds
        /\ Stream \in Seq(Unit \cup {Handshake}) /\ Len(Stream) \in Nat
    BY ReaderTyped
  <2>2. /\ TypeOK /\ BuffersOpen /\ chunk \in Seq(Unit \cup {Handshake})
        /\ inbound \in Seq(Unit \cup {Handshake}) /\ partial \in Seq(Unit)
    BY DEF ShapeInv, TypeOK
  <2>3. Len(chunk) \in Nat /\ Len(partial) \in Nat
    BY <2>2
  <2> QED BY <2>1, <2>2, <2>3
<1>1. Buffer \in Nat /\ Len(partial) < Buffer
  BY <1>0, HeadThere, Constants DEF Buffer, BuffersOpen
<1> DEFINE n == Copied(Buffer)
<1>2. /\ n \in 1..Len(chunk) /\ n <= Len(Plain) /\ Len(partial) + n <= Buffer
      /\ More \in Seq(Unit) /\ n \in 0..Len(chunk)
  BY <1>0, <1>1, CopiedUnits DEF More
<1>3. chunk[1] # Handshake
  BY <1>0, <1>2, PlainUnits
<1>4. chunk' = SubSeq(chunk, n + 1, Len(chunk))
  BY DEF Take
<1> HIDE DEF n
<1>5. Stream' = SubSeq(Stream, n + 1, Len(Stream)) /\ More = SubSeq(Stream, 1, n)
  <2>1. Stream' = SubSeq(chunk, n + 1, Len(chunk)) \o inbound
    BY <1>4 DEF Stream
  <2>2. More = SubSeq(chunk, 1, n)
    BY DEF More, n
  <2> QED BY <1>0, <1>2, <2>1, <2>2, DropFirst DEF Stream
<1>6. n \in 1..Len(Stream) /\ Stream[1] # Handshake /\ Len(Stream) > 0
  <2>1. Len(Stream) = Len(chunk) + Len(inbound) /\ Len(inbound) \in Nat
        /\ Stream[1] = chunk[1]
    BY <1>0, <1>2, Concatenated DEF Stream
  <2> QED BY <1>0, <1>2, <1>3, <2>1
<1>7. PICK at \in [Pending -> (0 - Len(Got))..Len(Stream)] : Laid(at)
  BY DEF FramesInv, StreamLaid
<1>8. /\ Current \in Pending /\ Got = SubSeq(Packet(Current), 1, Len(Got))
  BY <1>6, <1>7, NextOfCurrent
<1>9. /\ Size(Current) \in Nat /\ Size(Current) >= 2
      /\ Size(Current) = 2 + requests[Current].length
      /\ requests[Current].length \in Nat
  BY <1>0, <1>8, PacketUnits, RequestTyped, Constants DEF Size
<1>10. Len(Got) = (IF validHead THEN 2 ELSE 0) + Len(partial)
  <2>1. CASE validHead
    <3>1. Len(Got) = HeadSize + Len(partial)
      BY <1>8, <2>1, GotOpen
    <3> QED BY <2>1, <3>1, Constants
  <2>2. CASE ~ validHead
    <3>1. Got = partial
      BY <1>8, <2>2, GotOpen
    <3>2. Len(Got) = 0 + Len(partial)
      BY <1>0, <3>1
    <3> QED BY <2>2, <3>2
  <2> QED BY <2>1, <2>2
<1>11. validHead => Length(curPacket) + 2 = Size(Current)
  BY <1>8, <1>9, GotOpen
<1>12. Len(Got) + n <= Size(Current)
  <2>1. CASE validHead
    <3>1. Buffer + 2 = Size(Current) /\ Len(Got) = 2 + Len(partial)
      BY <1>10, <1>11, <2>1 DEF Buffer
    <3>2. Len(partial) \in Nat /\ n \in Nat /\ Len(partial) + n <= Buffer
          /\ Buffer \in Nat
      BY <1>0, <1>1, <1>2
    <3>3. Size(Current) \in Nat
      BY <1>9
    <3> HIDE DEF n
    <3> QED BY <3>1, <3>2, <3>3
  <2>2. CASE ~ validHead
    <3>1. Buffer = 2 /\ Len(Got) = Len(partial)
      BY <1>0, <1>10, <2>2, Constants DEF Buffer
    <3>2. Len(partial) \in Nat /\ n \in Nat /\ Len(partial) + n <= Buffer
      BY <1>0, <1>2
    <3>3. Size(Current) \in Nat /\ Size(Current) >= 2
      BY <1>9
    <3> HIDE DEF n
    <3> QED BY <3>1, <3>2, <3>3
  <2> QED BY <2>1, <2>2
<1>13. Got \o More = SubSeq(Packet(Current), 1, Len(Got) + n)
  BY <1>5, <1>6, <1>7, <1>12, MoreOfCurrent
<1> QED BY <1>0, <1>2, <1>5, <1>6, <1>8, <1>10, <1>11, <1>12, <1>13 DEF n

(* It does not have the whole packet yet.                                  *)
LEMMA FramesMore ==
    ASSUME ShapeInv, FramesInv, requests' = requests, handled' = handled,
           NEW n \in 1..Len(Stream), Stream' = SubSeq(Stream, n + 1, Len(Stream)),
           Stream[1] # Handshake, Len(Got) + n < Size(Current),
           Got' = SubSeq(Packet(Current), 1, Len(Got) + n)
    PROVE  FramesInv'
<1>0. /\ Got \in Seq(Unit) /\ Len(Got) \in Nat /\ Pending \subseteq RequestIds
      /\ Stream \in Seq(Unit \cup {Handshake}) /\ Len(Stream) \in Nat
      /\ \A r \in Pending : r \in Nat /\ r >= Current /\ Current \in Nat
  BY ReaderTyped
<1>1. Kept /\ Sent' = Sent /\ Pending' = Pending /\ Current' = Current
  BY DEF Kept, Sent, Pending, Current, RequestIds
<1>2. PICK at \in [Pending -> (0 - Len(Got))..Len(Stream)] : Laid(at)
  BY DEF FramesInv, StreamLaid
<1>3. Current \in Pending /\ at[Current] = 0 - Len(Got)
  BY <1>0, <1>2, NextOfCurrent
<1>4. Packet(Current) \in Seq(Unit) /\ Len(Packet(Current)) = Size(Current)
      /\ Size(Current) \in Nat
  BY <1>0, <1>3, PacketUnits DEF ShapeInv
<1>5. Len(Got') = Len(Got) + n /\ Len(Got') \in Nat
  BY <1>0, <1>4
<1>6. \A r \in RequestIds : Packet(r)' = Packet(r)
  BY <1>1, PacketsKept
<1>7. (Got # <<>> => Current \in Pending /\ Got = SubSeq(Packet(Current), 1, Len(Got)))'
  BY <1>0, <1>1, <1>3, <1>5, <1>6
<1>8. at \in [Pending -> Int] /\ \A r \in Pending : at[r] \in Int /\ at[r] <= Len(Stream)
  BY <1>0, <1>2
<1>9. \A r \in Pending' : IF r = Current' /\ Got' # <<>>
                          THEN at[r] - n = 0 - Len(Got') ELSE at[r] >= n
  <2>1. Got' # <<>>
    <3>1. Len(Got') > 0 /\ Len(<<>>) = 0
      BY <1>0, <1>5
    <3>2. Got' = <<>> => Len(Got') = Len(<<>>)
      OBVIOUS
    <3> QED BY <3>1, <3>2
  <2>2. at[Current] - n = 0 - Len(Got')
    BY <1>0, <1>3, <1>5
  <2>3. ASSUME NEW r \in Pending, r # Current
        PROVE  at[r] >= n
    <3>1. Current < r
      BY <1>0, <2>3
    <3>2. at[Current] + Size(Current) <= at[r]
      BY <1>2, <1>3, <3>1 DEF Laid
    <3> QED BY <1>0, <1>3, <1>4, <1>8, <3>2
  <2> QED BY <1>1, <2>1, <2>2, <2>3
<1>10. StreamLaid'
  <2>1. n \in 0..Len(Stream) /\ Pending' \subseteq Pending
        /\ \A r \in Pending \ Pending' : at[r] + Size(r) <= n
    BY <1>0, <1>1
  <2> QED BY <1>1, <1>2, <1>5, <1>8, <1>9, <2>1, Shifted
<1>11. FramesAsSent'
  <2>1. \A k \in DOMAIN handled : k \in RequestIds
    BY ReaderTyped DEF FramesInv
  <2> QED BY <1>1, <1>6, <2>1 DEF FramesInv, FramesAsSent, Kept
<1> QED BY <1>1, <1>7, <1>10, <1>11 DEF FramesInv

(* It has, and processMessage gets it.                                     *)
LEMMA FramesHandled ==
    ASSUME ShapeInv, FramesInv, Kept, Got' = <<>>,
           handled' = Append(handled, Packet(Current)),
           NEW n \in 1..Len(Stream), Stream' = SubSeq(Stream, n + 1, Len(Stream)),
           Stream[1] # Handshake, Len(Got) + n = Size(Current),
           requests'[Current].state \in {"engine", "answered"},
           \A q \in RequestIds \ {Current} : requests'[q].state = requests[q].state
    PROVE  FramesInv'
<1>0. /\ Got \in Seq(Unit) /\ Len(Got) \in Nat /\ Pending \subseteq Sent
      /\ Sent \subseteq RequestIds /\ RequestIds = 1..Len(requests) /\ Len(requests) \in Nat
      /\ Stream \in Seq(Unit \cup {Handshake}) /\ Len(Stream) \in Nat
      /\ Current \in Nat /\ Current = Len(handled) + 1 /\ Len(handled) \in Nat
      /\ DOMAIN handled = 1..Len(handled)
      /\ \A r \in Pending : r \in Nat /\ r >= Current
  BY ReaderTyped
<1>1. PICK at \in [Pending -> (0 - Len(Got))..Len(Stream)] : Laid(at)
  BY DEF FramesInv, StreamLaid
<1>2. Current \in Pending /\ at[Current] = 0 - Len(Got)
  <2>1. Len(Stream) > 0
    BY <1>0
  <2> QED BY <1>1, <2>1, NextOfCurrent
<1>3. Sent' = Sent
  <2>1. Current \in Sent /\ requests[Current].state # "planned"
    BY <1>0, <1>2 DEF Sent
  <2> QED BY <2>1 DEF Sent, Kept
<1>4. /\ Len(handled') = Len(handled) + 1
      /\ DOMAIN handled' = 1..Len(handled) + 1
      /\ \A k \in DOMAIN handled : handled'[k] = handled[k]
      /\ handled'[Len(handled) + 1] = Packet(Current)
  <2>1. handled \in Seq(Seq(Unit)) /\ Packet(Current) \in Seq(Unit)
    BY <1>0, <1>2, PacketUnits DEF ShapeInv, TypeOK
  <2> QED BY <1>0, <2>1
<1>5. Current' = Current + 1 /\ Pending' = Pending \ {Current}
  <2>1. Current' = Current + 1
    BY <1>0, <1>4 DEF Current
  <2>2. \A r \in Sent : r > Len(handled) + 1 <=> r > Len(handled) /\ r # Current
    BY <1>0
  <2>3. Pending' = {r \in Sent : r > Len(handled) + 1}
    BY <1>3, <1>4 DEF Pending
  <2> QED BY <2>1, <2>2, <2>3 DEF Pending
<1>6. \A r \in RequestIds : Packet(r)' = Packet(r)
  BY PacketsKept
<1>7. FramesAsSent'
  <2>1. \A k \in DOMAIN handled : k \in RequestIds /\ handled[k] = Packet(k)
    BY <1>0 DEF FramesInv, FramesAsSent
  <2>2. \A k \in DOMAIN handled' : handled'[k] = Packet(k)'
    BY <1>0, <1>2, <1>4, <1>6, <2>1
  <2>3. ASSUME NEW r \in RequestIds, requests'[r].state \in {"engine", "answered"}
        PROVE  r \in DOMAIN handled'
    <3>1. CASE r = Current
      BY <1>0, <1>4, <3>1
    <3>2. CASE r # Current
      <4>1. requests[r].state \in {"engine", "answered"}
        BY <2>3, <3>2
      <4>2. r \in DOMAIN handled
        BY <4>1 DEF FramesInv, FramesAsSent
      <4> QED BY <1>0, <1>4, <4>2
    <3> QED BY <3>1, <3>2
  <2> QED BY <2>2, <2>3 DEF FramesAsSent, Kept
<1>8. at \in [Pending -> Int] /\ \A r \in Pending : at[r] \in Int /\ at[r] <= Len(Stream)
  BY <1>0, <1>1
<1>9. Size(Current) \in Nat
  BY <1>0, <1>2, PacketUnits DEF ShapeInv
<1>10. \A r \in Pending \ {Current} : at[r] >= n
  <2> SUFFICES ASSUME NEW r \in Pending \ {Current} PROVE at[r] >= n
    OBVIOUS
  <2>1. Current < r
    BY <1>0
  <2>2. at[Current] + Size(Current) <= at[r]
    BY <1>1, <1>2, <2>1 DEF Laid
  <2> QED BY <1>0, <1>2, <1>8, <1>9, <2>2
<1>11. StreamLaid'
  <2>1. n \in 0..Len(Stream) /\ Pending' \subseteq Pending /\ Len(Got') \in Nat
    BY <1>0, <1>5
  <2>2. \A r \in Pending \ Pending' : at[r] + Size(r) <= n
    BY <1>0, <1>2, <1>5, <1>9
  <2>3. \A r \in Pending' : IF r = Current' /\ Got' # <<>>
                            THEN at[r] - n = 0 - Len(Got') ELSE at[r] >= n
    BY <1>5, <1>10
  <2> QED BY <1>1, <1>8, <2>1, <2>2, <2>3, Shifted
<1>12. (Len(handled) \in {0} \cup Sent)'
  BY <1>0, <1>2, <1>3, <1>4
<1> QED BY <1>3, <1>7, <1>11, <1>12 DEF FramesInv

(* A part of a head or of a body.                                          *)
LEMMA FramesCopy ==
    ASSUME ShapeInv, FramesInv, NEW size, size = Buffer, CopyPart(size)
    PROVE  FramesInv'
<1>1. /\ Plain # <<>> /\ Take(Copied(Buffer)) /\ inbound' = inbound
      /\ Len(partial) + Copied(Buffer) < Buffer
      /\ UNCHANGED <<requests, handled, validHead, curPacket>>
      /\ partial' = partial \o More
  BY DEF CopyPart, More
<1>2. /\ Copied(Buffer) \in 1..Len(Stream) /\ Stream[1] # Handshake
      /\ Stream' = SubSeq(Stream, Copied(Buffer) + 1, Len(Stream))
      /\ Current \in Pending /\ More \in Seq(Unit)
      /\ Got \o More = SubSeq(Packet(Current), 1, Len(Got) + Copied(Buffer))
      /\ Len(Got) = (IF validHead THEN 2 ELSE 0) + Len(partial)
      /\ validHead => Length(curPacket) + 2 = Size(Current)
      /\ Len(partial) \in Nat
  BY <1>1, Taken
<1>3. /\ partial \in Seq(Unit) /\ curPacket \in Seq(Unit) /\ Current \in RequestIds
      /\ Len(Stream) \in Nat
  BY <1>2, ReaderTyped DEF ShapeInv, TypeOK
<1>4. Got' = Got \o More
  <2>1. (<<>> \o partial) \o More = <<>> \o (partial \o More)
    BY <1>2, <1>3, ConcatEmptySeq
  <2>2. (curPacket \o partial) \o More = curPacket \o (partial \o More)
    <3>1. curPacket \in Seq(Unit) /\ partial \in Seq(Unit) /\ More \in Seq(Unit)
      BY <1>2, <1>3
    <3> QED BY ONLY <3>1, ConcatAssociative
  <2> QED BY <1>1, <2>1, <2>2 DEF Got
<1>5. Len(Got) + Copied(Buffer) < Size(Current)
  <2>1. Size(Current) \in Nat /\ Size(Current) >= 2 /\ Copied(Buffer) \in Nat
    BY <1>2, <1>3, PacketUnits, Constants DEF ShapeInv
  <2>2. CASE validHead
    <3>1. Buffer + 2 = Size(Current) /\ Len(Got) = 2 + Len(partial)
      BY <1>2, <2>2 DEF Buffer
    <3>2. Buffer \in Nat
      BY <2>2, HeadThere DEF ShapeInv, Buffer
    <3> QED BY <1>1, <1>2, <2>1, <3>1, <3>2
  <2>3. CASE ~ validHead
    <3>1. Buffer = 2 /\ Len(Got) = Len(partial)
      BY <1>2, <2>3, Constants DEF Buffer
    <3> QED BY <1>1, <1>2, <2>1, <3>1
  <2> QED BY <2>2, <2>3
<1> QED BY <1>1, <1>2, <1>4, <1>5, FramesMore

(* A whole head, with or without a body to come.                           *)
LEMMA FramesFinishHead ==
    ASSUME ShapeInv, FramesInv, FinishHead
    PROVE  FramesInv'
<1> DEFINE head == partial \o SubSeq(chunk, 1, Copied(HeadSize))
<1>0. /\ ~ validHead /\ Buffer = HeadSize /\ head = partial \o More
      /\ pc[Main] = "deliver"
  BY DEF FinishHead, Buffer, More
<1>1. /\ Plain # <<>> /\ Take(Copied(Buffer)) /\ inbound' = inbound
      /\ Len(partial) + Copied(Buffer) = 2
  BY <1>0, Constants DEF FinishHead
<1>2. curPacket' = head /\ partial' = <<>>
  BY DEF FinishHead
<1>3. \/ Length(head) = 0 /\ ProcessMessage(head) /\ validHead' = validHead
      \/ Length(head) > 0 /\ validHead' = TRUE /\ UNCHANGED <<requests, handled>>
  BY DEF FinishHead
<1> HIDE DEF head
<1>4. /\ Copied(Buffer) \in 1..Len(Stream) /\ Stream[1] # Handshake
      /\ Stream' = SubSeq(Stream, Copied(Buffer) + 1, Len(Stream))
      /\ Current \in Pending /\ More \in Seq(Unit)
      /\ Got \o More = SubSeq(Packet(Current), 1, Len(Got) + Copied(Buffer))
      /\ Len(Got) = Len(partial) /\ Len(partial) \in Nat
  BY <1>0, <1>1, Taken
<1>5. /\ partial \in Seq(Unit) /\ Current \in RequestIds /\ TypeOK
  BY <1>4, ReaderTyped DEF ShapeInv, TypeOK
<1>6. /\ Packet(Current) \in Seq(Unit) /\ Len(Packet(Current)) = Size(Current)
      /\ Size(Current) \in Nat /\ Size(Current) >= 2
      /\ \A k \in 1..Size(Current) : Packet(Current)[k] = <<Current, k>>
      /\ Size(Current) = 2 + requests[Current].length /\ requests[Current].length \in Nat
  BY <1>5, PacketUnits, RequestTyped, Constants DEF Size
<1>7. Got = partial
  BY <1>0, <1>5, ConcatEmptySeq DEF Got
<1>8. Len(Got) + Copied(Buffer) = 2
  BY <1>1, <1>4
<1>9. head = SubSeq(Packet(Current), 1, 2)
  BY <1>0, <1>4, <1>7, <1>8
<1>10. head \in Seq(Unit) /\ Len(head) = 2 /\ head[1] = <<Current, 1>>
  BY <1>6, <1>9
<1>11. head[1][1] = Current /\ Length(head) = requests[Current].length
  BY <1>10 DEF Length
<1>12. CASE Length(head) = 0 /\ ProcessMessage(head) /\ validHead' = validHead
  <2>1. head = Packet(Current) /\ Size(Current) = 2
    BY <1>6, <1>9, <1>11, <1>12
  <2>2. Got' = <<>>
    BY <1>0, <1>2, <1>12, ConcatEmptySeq DEF Got
  <2>3. /\ RequestIds' = RequestIds /\ handled' = Append(handled, head)
        /\ requests'[Current].state \in {"engine", "answered"}
        /\ \A q \in RequestIds :
              /\ requests'[q].length = requests[q].length
              /\ q # Current => requests'[q].state = requests[q].state
    <3>1. Len(head) > 0
      BY <1>10
    <3>2. /\ RequestIds' = RequestIds /\ handled' = Append(handled, head)
          /\ requests'[head[1][1]].state \in {"engine", "answered"}
          /\ \A q \in RequestIds :
                /\ requests'[q].length = requests[q].length
                /\ q # head[1][1] => requests'[q].state = requests[q].state
      BY <1>0, <1>5, <1>10, <1>12, <3>1, Processed
    <3> QED BY <1>11, <3>2
  <2>4. Kept
    BY <2>3 DEF Kept
  <2>5. handled' = Append(handled, Packet(Current))
    BY <2>1, <2>3
  <2> QED BY <1>4, <1>8, <2>1, <2>2, <2>3, <2>4, <2>5, FramesHandled
<1>13. CASE Length(head) > 0 /\ validHead' = TRUE /\ UNCHANGED <<requests, handled>>
  <2>1. Got' = head
    <3>1. head \o <<>> = head
      BY <1>10, ConcatEmptySeq
    <3> QED BY <1>2, <1>13, <3>1 DEF Got
  <2>2. Len(Got) + Copied(Buffer) < Size(Current)
    BY <1>6, <1>8, <1>11, <1>13
  <2> QED BY <1>4, <1>8, <1>9, <1>13, <2>1, <2>2, FramesMore
<1> QED BY <1>3, <1>12, <1>13

(* A whole body.                                                           *)
LEMMA FramesFinishBody ==
    ASSUME ShapeInv, FramesInv, FinishBody
    PROVE  FramesInv'
<1> DEFINE message == curPacket \o partial \o SubSeq(chunk, 1, Copied(Length(curPacket)))
<1>0. /\ validHead /\ Buffer = Length(curPacket) /\ message = curPacket \o partial \o More
      /\ pc[Main] = "deliver"
  BY DEF FinishBody, Buffer, More
<1>1. /\ Plain # <<>> /\ Take(Copied(Buffer)) /\ inbound' = inbound
      /\ Len(partial) + Copied(Buffer) = Buffer
      /\ partial' = <<>> /\ validHead' = FALSE
  BY <1>0 DEF FinishBody
<1>2. ProcessMessage(message)
  BY DEF FinishBody
<1> HIDE DEF message
<1>4. /\ Copied(Buffer) \in 1..Len(Stream) /\ Stream[1] # Handshake
      /\ Stream' = SubSeq(Stream, Copied(Buffer) + 1, Len(Stream))
      /\ Current \in Pending /\ More \in Seq(Unit)
      /\ Got \o More = SubSeq(Packet(Current), 1, Len(Got) + Copied(Buffer))
      /\ Len(Got) = 2 + Len(partial) /\ Len(partial) \in Nat
      /\ Length(curPacket) + 2 = Size(Current)
  BY <1>0, <1>1, Taken
<1>5. Current \in RequestIds /\ TypeOK /\ Len(Stream) \in Nat
  BY <1>4, ReaderTyped DEF ShapeInv
<1>6. /\ Packet(Current) \in Seq(Unit) /\ Len(Packet(Current)) = Size(Current)
      /\ Size(Current) \in Nat /\ Size(Current) >= 2
      /\ \A k \in 1..Size(Current) : Packet(Current)[k] = <<Current, k>>
  BY <1>5, PacketUnits, Constants
<1>7. Len(Got) + Copied(Buffer) = Size(Current)
  <2>1. Length(curPacket) \in Nat
    BY <1>0, HeadThere DEF ShapeInv
  <2> QED BY <1>0, <1>1, <1>4, <1>5, <1>6, <2>1
<1>8. message = Packet(Current)
  <2>1. message = Got \o More
    BY <1>0 DEF Got
  <2> QED BY <1>4, <1>6, <1>7, <2>1
<1>9. message \in Seq(Unit) /\ Len(message) > 0 /\ message[1][1] = Current
  BY <1>6, <1>8
<1>10. Got' = <<>>
  BY <1>1, ConcatEmptySeq DEF Got
<1>11. /\ RequestIds' = RequestIds /\ handled' = Append(handled, message)
       /\ requests'[Current].state \in {"engine", "answered"}
       /\ \A q \in RequestIds :
             /\ requests'[q].length = requests[q].length
             /\ q # Current => requests'[q].state = requests[q].state
  BY <1>0, <1>2, <1>5, <1>9, Processed
<1>12. Kept
  BY <1>11 DEF Kept
<1>13. handled' = Append(handled, Packet(Current))
  BY <1>8, <1>11
<1> QED BY <1>4, <1>7, <1>10, <1>11, <1>12, <1>13, FramesHandled

(* A callback changes how far a request is, and no more.                   *)
LEMMA FramesCallback ==
    ASSUME ShapeInv, FramesInv, NEW t \in Threads, NEW r \in RequestIds,
           OnData(t, r) \/ Complete(t, r)
    PROVE  FramesInv'
<1>1. /\ UNCHANGED <<handled, validHead, curPacket, partial, chunk, inbound>>
      /\ requests[r].state = "engine" /\ TypeOK
  BY DEF OnData, Complete, Callback, ShapeInv
<1>2. Got' = Got /\ Stream' = Stream
  BY <1>1 DEF Got, Stream
<1>3. CASE OnData(t, r)
  <2>1. /\ requests[r].rows < MaxRows
        /\ requests' = [requests EXCEPT ![r].rows = @ + 1]
    BY <1>3 DEF OnData
  <2>2. /\ Kept
        /\ \A q \in RequestIds : requests'[q].state = requests[q].state
    BY <1>1, <2>1, RowsChanged DEF Kept
  <2> QED BY <1>1, <1>2, <2>2, FramesSame
<1>4. CASE Complete(t, r)
  <2>1. requests' = [requests EXCEPT ![r].state = "answered"] /\ "answered" \in States
    BY <1>4 DEF Complete, Progress, States
  <2>2. /\ Kept /\ requests'[r].state = "answered"
        /\ \A q \in RequestIds : q # r => requests'[q].state = requests[q].state
    BY <1>1, <2>1, RequestChanged DEF Kept
  <2>3. \A q \in RequestIds :
              /\ requests'[q].state = "planned" <=> requests[q].state = "planned"
              /\ requests'[q].state \in {"engine", "answered"} =>
                    requests[q].state \in {"engine", "answered"}
    BY <1>1, <2>2
  <2> QED BY <1>1, <1>2, <2>2, <2>3, FramesSame
<1> QED BY <1>3, <1>4

(* Nothing that the reader or the client does.                             *)
LEMMA FramesOther ==
    ASSUME ShapeInv, FramesInv,
           UNCHANGED <<requests, handled, validHead, curPacket, partial, chunk, inbound>>
    PROVE  FramesInv'
<1>1. Kept /\ Got' = Got /\ Stream' = Stream
  BY DEF Kept, RequestIds, Got, Stream
<1> QED BY <1>1, FramesSame

(* Every step, whichever it is.                                            *)
LEMMA FramesNext ==
    ASSUME ShapeInv, FramesInv, [Next]_vars
    PROVE  FramesInv'
<1>1. CASE UNCHANGED vars
  BY <1>1, FramesOther DEF vars
<1>2. CASE ClientSteps
  <2>1. CASE Close \/ PeerReads
    BY <2>1, FramesOther DEF Close, PeerReads
  <2> QED BY <1>2, <2>1, FramesSend, FramesSendControl DEF ClientSteps
<1>3. CASE ReadSteps
  <2>1. CASE ReadAgain \/ EndRead \/ EndDeliver
    BY <2>1, FramesOther DEF ReadAgain, EndRead, EndDeliver
  <2>2. CASE CopyHead
    BY <2>2, FramesCopy DEF CopyHead, Buffer
  <2>3. CASE CopyBody
    BY <2>3, FramesCopy DEF CopyBody, Buffer
  <2> QED BY <1>3, <2>1, <2>2, <2>3, FramesRead, FramesAnswerHandshake,
             FramesFinishHead, FramesFinishBody DEF ReadSteps
<1>4. CASE MainSteps
  <2>1. CASE Poll \/ EventIn \/ EventOut \/ EndDispatch
    BY <2>1, FramesOther DEF Poll, EventIn, EventOut, EndDispatch
  <2>2. CASE LockQueue \/ FlushItem \/ FlushFails \/ EndFlush
    BY <2>2, FramesOther DEF LockQueue, FlushItem, FlushFails, EndFlush
  <2> QED BY <1>3, <1>4, <2>1, <2>2 DEF MainSteps
<1>5. CASE \E t \in Threads : PostSteps(t)
  BY <1>5, FramesOther
     DEF PostSteps, Lock, CheckQueue, TryWrite, TryWriteFails,
     ClearWriteReady, StopWriting, Push, Release, EndPost
<1>6. CASE \E t \in Threads, r \in RequestIds :
                OnData(t, r) \/ Complete(t, r) \/ Throw(t, r)
  <2>1. ASSUME NEW t \in Threads, NEW r \in RequestIds, Throw(t, r)
        PROVE  FramesInv'
    BY <2>1, FramesOther DEF Throw
  <2> QED BY <1>6, <2>1, FramesCallback
<1> QED BY <1>1, <1>2, <1>4, <1>5, <1>6 DEF Next

(* However TLS and read() cut the stream, and whatever the channel sends   *)
(* in between, processMessage gets the packets that were sent, in order    *)
(* and whole: the buffers and p_validHead of onReadTls.                    *)
THEOREM FramesAlways == Spec => []FramesAsSent
<1>1. FramesInv => FramesAsSent
  BY DEF FramesInv
<1>2. ShapeInv /\ FramesInv /\ [Next]_vars => FramesInv'
  BY FramesNext
<1> QED BY <1>1, <1>2, ShapeAlways, FramesInit, PTL DEF Spec

-------------------------------------------------------------------------------
(* What is written: the order of the encrypted units *)

(* The order of concatenations does not matter.                            *)
LEMMA NatAssociative == \A x, y, z \in Seq(Nat) : (x \o y) \o z = x \o (y \o z)
<1> TAKE x, y, z \in Seq(Nat)
<1> DEFINE S == Nat
<1>1. x \in Seq(S) /\ y \in Seq(S) /\ z \in Seq(S)
  OBVIOUS
<1> HIDE DEF S
<1> QED BY <1>1, Associative, SMTT(30)

(* What is left of what is left of a sequence.                             *)
LEMMA DropDrop ==
    ASSUME NEW S, NEW a \in Seq(S), NEW n \in 0..Len(a), NEW m \in 0..Len(a) - n
    PROVE  LET rest == SubSeq(a, n + 1, Len(a))
           IN  SubSeq(rest, m + 1, Len(rest)) = SubSeq(a, n + m + 1, Len(a))
<1> DEFINE rest == SubSeq(a, n + 1, Len(a))
           less == SubSeq(rest, m + 1, Len(rest))
           last == SubSeq(a, n + m + 1, Len(a))
<1>1. /\ rest \in Seq(S) /\ Len(rest) = Len(a) - n /\ Len(a) \in Nat
      /\ \A i \in 1..Len(a) - n : rest[i] = a[n + i]
  OBVIOUS
<1>2. /\ last \in Seq(S) /\ Len(last) = Len(a) - n - m
      /\ \A i \in 1..Len(a) - n - m : last[i] = a[n + m + i]
  BY <1>1
<1> HIDE DEF rest, last
<1>3. /\ less \in Seq(S) /\ Len(less) = Len(a) - n - m
      /\ \A i \in 1..Len(a) - n - m : less[i] = rest[m + i]
  BY <1>1
<1> HIDE DEF less
<1>4. ASSUME NEW i \in 1..Len(less)
      PROVE  less[i] = last[i]
  <2>1. m + i \in 1..Len(a) - n /\ n + (m + i) = n + m + i
    BY <1>1, <1>3
  <2> QED BY <1>1, <1>2, <1>3, <2>1
<1>5. less = last
  <2>1. Len(less) = Len(last)
    BY <1>2, <1>3
  <2> QED BY <1>2, <1>3, <1>4, <2>1, SeqEqual
<1> QED BY <1>5 DEF rest, less, last

(* The units of the records, numbered, and those of one more record.       *)
LEMMA Numbered ==
    ASSUME NEW n \in Nat
    PROVE  /\ [j \in 1..n |-> j] \in Seq(Nat)
           /\ [j \in 1..n |-> j] \o [k \in 1..2 |-> n + k] = [j \in 1..n + 2 |-> j]
<1> DEFINE a == [j \in 1..n |-> j]
           b == [k \in 1..2 |-> n + k]
           c == [j \in 1..n + 2 |-> j]
<1>1. /\ a \in Seq(Nat) /\ Len(a) = n /\ \A j \in 1..n : a[j] = j
      /\ b \in Seq(Nat) /\ Len(b) = 2 /\ \A k \in 1..2 : b[k] = n + k
      /\ c \in Seq(Nat) /\ Len(c) = n + 2 /\ \A j \in 1..n + 2 : c[j] = j
  OBVIOUS
<1> HIDE DEF a, b, c
<1>2. /\ a \o b \in Seq(Nat) /\ Len(a \o b) = Len(a) + Len(b)
      /\ \A i \in 1..Len(a) + Len(b) :
            (a \o b)[i] = IF i <= Len(a) THEN a[i] ELSE b[i - Len(a)]
  <2>1. a \in Seq(Nat) /\ b \in Seq(Nat)
    BY <1>1
  <2> QED BY ONLY <2>1, Concatenated, SMTT(30)
<1>3. ASSUME NEW i \in 1..n + 2
      PROVE  (a \o b)[i] = i
  <2>1. CASE i <= n
    BY <1>1, <1>2, <2>1
  <2>2. CASE i > n
    <3>1. i - n \in 1..2 /\ n + (i - n) = i
      BY <2>2
    <3>2. b[i - n] = i
      BY <1>1, <3>1
    <3>3. (a \o b)[i] = b[i - n]
      <4>1. i \in 1..Len(a) + Len(b) /\ ~ (i <= Len(a))
        BY <1>1, <2>2
      <4> QED BY <1>1, <1>2, <4>1
    <3> QED BY <3>2, <3>3
  <2>3. i <= n \/ i > n
    OBVIOUS
  <2> QED BY <2>1, <2>2, <2>3
<1>4. a \o b = c
  BY <1>1, <1>2, <1>3, SeqEqual
<1> QED BY <1>1, <1>4 DEF a, b, c

(* What the threads have to write, if only one has anything.               *)
LEMMA WritingOf ==
    ASSUME NEW out \in [Threads -> Seq(Nat)], NEW t \in Threads,
           \A s \in Threads : s # t => out[s] = <<>>
    PROVE  FlattenSeq([n \in 1..NumWorkers + 1 |-> out[n - 1]]) = out[t]
<1> DEFINE all == [n \in 1..NumWorkers + 1 |-> out[n - 1]]
<1>1. NumWorkers \in Nat /\ Threads = 0..NumWorkers
  BY Constants DEF Threads
<1>2. \A n \in 1..NumWorkers + 1 : n - 1 \in Threads
  BY <1>1
<1>3. all \in [1..NumWorkers + 1 -> Seq(Nat)]
  BY <1>2
<1>4. all \in Seq(Seq(Nat)) /\ Len(all) = NumWorkers + 1
  <2> HIDE DEF all
  <2> QED BY <1>1, <1>3
<1>5. t + 1 \in 1..Len(all) /\ all[t + 1] = out[t]
  <2>1. t + 1 \in 1..NumWorkers + 1 /\ (t + 1) - 1 = t
    BY <1>1
  <2> QED BY <1>4, <2>1
<1>6. \A i \in 1..Len(all) : i # t + 1 => all[i] = <<>>
  <2> SUFFICES ASSUME NEW i \in 1..NumWorkers + 1, i # t + 1
               PROVE  out[i - 1] = <<>>
    BY <1>4
  <2> QED BY <1>1, <1>2
<1> HIDE DEF all
<1>7. FlattenSeq(all) = all[t + 1]
  BY <1>4, <1>5, <1>6, FlattenOne
<1> QED BY <1>5, <1>7 DEF all

(* What is queued, and what the first item adds to it.                     *)
LEMMA QueueTyped ==
    ASSUME TypeOK, OutputHeld
    PROVE  /\ FlattenSeq(sendQueue) \in Seq(Nat)
           /\ sendOffset \in 0..Len(FlattenSeq(sendQueue))
           /\ Queued \in Seq(Nat)
           /\ sendQueue = <<>> => Queued = <<>> /\ sendOffset = 0
           /\ sendQueue # <<>> =>
                /\ Head(sendQueue) \in Seq(Nat)
                /\ sendOffset \in 0..Len(Head(sendQueue))
                /\ FlattenSeq(Tail(sendQueue)) \in Seq(Nat)
                /\ Queued = Remainder \o FlattenSeq(Tail(sendQueue))
<1> DEFINE flat == FlattenSeq(sendQueue)
<1>0. sendQueue \in Seq(Seq(Nat)) /\ sendOffset \in Nat
  BY Constants DEF TypeOK
<1>1. flat \in Seq(Nat) /\ Len(flat) \in Nat
  BY <1>0, FlattenType
<1>2. CASE sendQueue = <<>>
  <2>1. flat = <<>> /\ sendOffset = 0
    BY <1>2, FlattenEmpty DEF OutputHeld
  <2> HIDE DEF flat
  <2>2. SubSeq(flat, 1, Len(flat)) = <<>> /\ Len(flat) = 0
    BY <2>1
  <2>3. Queued = SubSeq(flat, sendOffset + 1, Len(flat))
    BY DEF Queued, flat
  <2>4. Queued = <<>>
    BY <2>1, <2>2, <2>3
  <2> QED BY <1>1, <1>2, <2>1, <2>2, <2>4 DEF flat
<1>3. CASE sendQueue # <<>>
  <2> DEFINE head == Head(sendQueue)
             rest == FlattenSeq(Tail(sendQueue))
  <2>1. /\ head \in Seq(Nat) /\ Tail(sendQueue) \in Seq(Seq(Nat))
        /\ sendOffset \in 0..Len(head)
    BY <1>0, <1>3 DEF OutputHeld
  <2>2. rest \in Seq(Nat)
    BY <2>1, FlattenType
  <2>3. flat = head \o rest
    BY <1>0, <1>3, FlattenTail
  <2> HIDE DEF flat, head, rest
  <2>4. Len(flat) = Len(head) + Len(rest) /\ Len(head) \in Nat /\ Len(rest) \in Nat
    BY <2>1, <2>2, <2>3, Concatenated
  <2>5. SubSeq(head, sendOffset + 1, Len(head)) \o rest
            = SubSeq(flat, sendOffset + 1, Len(flat))
    BY <2>1, <2>2, <2>3, DropFirst
  <2>6. Queued = SubSeq(flat, sendOffset + 1, Len(flat))
    BY DEF Queued, flat
  <2>7. Remainder = SubSeq(head, sendOffset + 1, Len(head))
    BY DEF Remainder, head
  <2>8. sendOffset \in 0..Len(flat) /\ Queued \in Seq(Nat)
    BY <1>1, <2>1, <2>4, <2>6 DEF flat
  <2> QED BY <1>1, <1>3, <2>1, <2>2, <2>5, <2>6, <2>7, <2>8
     DEF flat, head, rest
<1> QED BY <1>2, <1>3

(* What write() takes is now on the wire.                                  *)
LEMMA Sending ==
    ASSUME TypeOK, NEW units \in Seq(Nat), Transmit(units), Room > 0
    PROVE  /\ Room \in Nat /\ Len(units) \in Nat
           /\ Len(units) <= Room => wire' = wire \o units
           /\ Len(units) > Room =>
                /\ Room \in 0..Len(units)
                /\ wire' = wire \o SubSeq(units, 1, Room)
                /\ SubSeq(units, 1, Room) \o SubSeq(units, Room + 1, Len(units)) = units
<1>1. Room \in Nat /\ Len(units) \in Nat
  BY Constants DEF TypeOK, Room
<1>2. CASE Len(units) <= Room
  <2>1. (IF Room < Len(units) THEN Room ELSE Len(units)) = Len(units)
    BY <1>1, <1>2
  <2>2. wire' = wire \o SubSeq(units, 1, Len(units))
    BY <2>1 DEF Transmit
  <2>3. SubSeq(units, 1, Len(units)) = units
    OBVIOUS
  <2>4. wire' = wire \o units /\ ~ (Len(units) > Room)
    BY <1>1, <1>2, <2>2, <2>3
  <2> QED BY <1>1, <1>2, <2>4
<1>3. CASE Len(units) > Room
  <2>1. (IF Room < Len(units) THEN Room ELSE Len(units)) = Room
    BY <1>1, <1>3
  <2>2. wire' = wire \o SubSeq(units, 1, Room)
    BY <2>1 DEF Transmit
  <2>3. Room \in 0..Len(units)
    BY <1>1, <1>3
  <2>4. SubSeq(units, 1, Room) \o SubSeq(units, Room + 1, Len(units)) = units
    BY <2>3, TakeDrop
  <2>5. ~ (Len(units) <= Room)
    BY <1>1, <1>3
  <2> QED BY <1>1, <2>2, <2>3, <2>4, <2>5
<1> QED BY <1>1, <1>2, <1>3

(* While nothing has raced, at most one thread is in onWriteRaw.           *)
LEMMA OneWriter ==
    ASSUME ShapeInv, ~ raced
    PROVE  /\ mutex = Nobody /\ ~ Unlocked => \A s \in Threads : output[s] = <<>>
           /\ mutex = Nobody /\ pc[Main] = "deliver" => \A s \in Threads : output[s] = <<>>
           /\ \A t \in Threads : pc[t] \in Critical \ {"release"} =>
                \A s \in Threads : s # t => output[s] = <<>>
<1>1. /\ \A t \in Workers : pc[t] \in Critical <=> mutex = t
      /\ Unlocked => mutex = Nobody
      /\ mutex = Main => pc[Main] \in {"flush"} \cup Critical
  BY DEF ShapeInv, WritersTakeTurns
<1>2. \A t \in Threads : output[t] # <<>> => pc[t] \in Critical \ {"release"}
  BY DEF ShapeInv, OutputHeld
<1>3. mutex # Main => (Unlocked <=> pc[Main] \in Critical \ {"release"})
  BY DEF Unlocked, Critical
<1>4. Workers = Threads \ {Main} /\ Main \in Threads /\ Nobody \notin Threads
  BY ThreadFacts
<1>5. ASSUME mutex = Nobody, ~ Unlocked
      PROVE  \A s \in Threads : output[s] = <<>>
  BY <1>1, <1>2, <1>3, <1>4, <1>5
<1>6. ASSUME mutex = Nobody, pc[Main] = "deliver"
      PROVE  \A s \in Threads : output[s] = <<>>
  <2>1. ~ Unlocked
    BY <1>6 DEF Unlocked
  <2> QED BY <1>5, <1>6, <2>1
<1>7. ASSUME NEW t \in Threads, pc[t] \in Critical \ {"release"},
             NEW s \in Threads, s # t
      PROVE  output[s] = <<>>
  <2>1. CASE t # Main
    <3>1. mutex = t
      BY <1>1, <1>4, <1>7, <2>1
    <3> QED BY <1>1, <1>2, <1>3, <1>4, <1>7, <2>1, <3>1
  <2>2. CASE t = Main
    <3>1. mutex \in {Main, Nobody}
      BY <1>1, <1>3, <1>7, <2>2
    <3> QED BY <1>1, <1>2, <1>4, <1>7, <2>2, <3>1
  <2> QED BY <2>1, <2>2
<1> QED BY <1>5, <1>6, <1>7

(* What has been encrypted, in order.                                      *)
Order == wire \o Queued \o Writing
Numbers(n) == [j \in 1..n * RecordSize |-> j]

(* The thread encrypts while no other has anything to write.               *)
LEMMA StreamEncrypt ==
    ASSUME ShapeInv, StreamIntact, ~ raced, NEW t \in Threads,
           NEW response \in Responses, Encrypt(t, response),
           \A s \in Threads : output[s] = <<>>,
           UNCHANGED <<wire, sendQueue, sendOffset>>
    PROVE  Order' = Numbers(Len(records'))
<1>0. /\ wire \in Seq(Nat) /\ Queued \in Seq(Nat) /\ TypeOK
      /\ output \in [Threads -> Seq(Nat)] /\ Len(records) \in Nat
  <2>1. Queued \in Seq(Nat)
    BY QueueTyped DEF ShapeInv
  <2> QED BY <2>1 DEF ShapeInv, TypeOK
<1>1. Queued' = Queued
  BY DEF Queued
<1>2. Writing = <<>>
  BY <1>0, WritingOf DEF Writing
<1> DEFINE record == [k \in 1..2 |-> Len(records) * 2 + k]
<1>3. /\ output' \in [Threads -> Seq(Nat)] /\ Len(records') = Len(records) + 1
      /\ \A s \in Threads : s # t => output'[s] = <<>>
      /\ output'[t] = record
  BY <1>0, Encrypted, Constants
<1>4. Writing' = record
  BY <1>3, WritingOf DEF Writing
<1>5. wire \o Queued = Numbers(Len(records))
  <2>1. wire \o Queued \in Seq(Nat)
    BY <1>0
  <2>2. wire \o Queued \o <<>> = wire \o Queued
    BY <2>1, ConcatEmptySeq
  <2> QED BY <1>2, <2>2 DEF StreamIntact, Numbers
<1>6. Numbers(Len(records)) \o record = Numbers(Len(records'))
  <2>1. Len(records) * 2 \in Nat /\ Len(records') * 2 = Len(records) * 2 + 2
    BY <1>0, <1>3
  <2> HIDE DEF record
  <2>2. [j \in 1..Len(records) * 2 |-> j] \o [k \in 1..2 |-> Len(records) * 2 + k]
            = [j \in 1..Len(records) * 2 + 2 |-> j]
    BY <2>1, Numbered
  <2> QED BY <2>1, <2>2, Constants DEF Numbers, record
<1> HIDE DEF record
<1> QED BY <1>1, <1>4, <1>5, <1>6 DEF Order

(* The thread writes what fits into the socket.                            *)
LEMMA StreamTryWrite ==
    ASSUME ShapeInv, ~ raced, NEW t \in Threads, TryWrite(t)
    PROVE  Order' = Order
<1>0. /\ wire \in Seq(Nat) /\ TypeOK /\ output \in [Threads -> Seq(Nat)]
      /\ output[t] \in Seq(Nat)
      /\ Transmit(output[t]) /\ Room > 0 /\ pc[t] = "write"
      /\ output' = [output EXCEPT ![t] = SubSeq(@, Room + 1, Len(@))]
      /\ UNCHANGED <<sendQueue, sendOffset>>
  BY DEF ShapeInv, TypeOK, TryWrite, Goto
<1>1. Queued = <<>> /\ Queued' = <<>>
  <2>1. sendQueue = <<>>
    BY <1>0 DEF ShapeInv, OutputHeld
  <2>2. Queued = <<>>
    BY <2>1, QueueTyped DEF ShapeInv
  <2> QED BY <1>0, <2>2 DEF Queued
<1> DEFINE units == output[t]
           rest == SubSeq(units, Room + 1, Len(units))
<1>2. \A s \in Threads : s # t => output[s] = <<>>
  BY <1>0, OneWriter DEF Critical
<1>3. Writing = units
  BY <1>0, <1>2, WritingOf DEF Writing
<1>4. /\ Room \in Nat /\ Len(units) \in Nat
      /\ Len(units) <= Room => wire' = wire \o units
      /\ Len(units) > Room =>
            /\ wire' = wire \o SubSeq(units, 1, Room)
            /\ SubSeq(units, 1, Room) \o rest = units
            /\ Room \in 0..Len(units)
  BY <1>0, Sending
<1>6. rest \in Seq(Nat)
  BY <1>0, <1>4
<1>7. Writing' = rest
  <2>1. output'[t] = rest /\ \A s \in Threads : s # t => output'[s] = <<>>
    BY <1>0, <1>2
  <2> HIDE DEF rest, units
  <2>2. output' \in [Threads -> Seq(Nat)]
    BY <1>0, <1>6 DEF rest, units
  <2> QED BY <2>1, <2>2, WritingOf DEF Writing
<1>8. wire \o Queued = wire /\ wire' \in Seq(Nat)
  BY <1>0, <1>1, Transmitted, ConcatEmptySeq
<1>9. wire' \o Queued' = wire'
  BY <1>1, <1>8, ConcatEmptySeq
<1>10. CASE Len(units) <= Room
  <2>1. rest = <<>>
    BY <1>0, <1>4, <1>10
  <2>2. wire' \o <<>> = wire'
    BY <1>8, ConcatEmptySeq
  <2> HIDE DEF rest, units
  <2> QED BY <1>3, <1>4, <1>7, <1>8, <1>9, <1>10, <2>1, <2>2 DEF Order
<1>11. CASE Len(units) > Room
  <2> HIDE DEF rest, units
  <2>1. (wire \o SubSeq(units, 1, Room)) \o rest = wire \o (SubSeq(units, 1, Room) \o rest)
    <3>1. /\ wire \in Seq(Nat) /\ SubSeq(units, 1, Room) \in Seq(Nat)
          /\ rest \in Seq(Nat)
      BY <1>0, <1>4, <1>6, <1>11 DEF units
    <3> QED BY <3>1, NatAssociative
  <2> QED BY <1>3, <1>4, <1>7, <1>8, <1>9, <1>11, <2>1 DEF Order
<1> QED BY <1>4, <1>10, <1>11

(* The rest goes to the end of the queue.                                  *)
LEMMA StreamPush ==
    ASSUME ShapeInv, ~ raced, NEW t \in Threads, Push(t)
    PROVE  Order' = Order
<1>0. /\ wire \in Seq(Nat) /\ TypeOK /\ output \in [Threads -> Seq(Nat)]
      /\ output[t] \in Seq(Nat) /\ pc[t] = "push"
      /\ sendQueue \in Seq(Seq(Nat))
      /\ sendQueue' = Append(sendQueue, output[t])
      /\ output' = [output EXCEPT ![t] = <<>>]
      /\ UNCHANGED <<wire, sendOffset>>
  BY DEF ShapeInv, TypeOK, Push, Goto
<1> DEFINE units == output[t]
<1>1. \A s \in Threads : s # t => output[s] = <<>>
  BY <1>0, OneWriter DEF Critical
<1>2. Writing = units
  BY <1>0, <1>1, WritingOf DEF Writing
<1>3. Writing' = <<>>
  <2>1. output' \in [Threads -> Seq(Nat)] /\ \A s \in Threads : output'[s] = <<>>
    BY <1>0, <1>1
  <2> QED BY <2>1, WritingOf DEF Writing
<1>4. Queued' = Queued \o units /\ Queued \in Seq(Nat)
  <2> DEFINE flat == FlattenSeq(sendQueue)
  <2>1. flat \in Seq(Nat) /\ sendOffset \in 0..Len(flat) /\ Queued \in Seq(Nat)
    BY <1>0, QueueTyped DEF ShapeInv
  <2>2. FlattenSeq(sendQueue') = flat \o units
    BY <1>0, FlattenAppend
  <2>3. Queued = SubSeq(flat, sendOffset + 1, Len(flat))
    BY DEF Queued
  <2>4. Queued' = SubSeq(flat \o units, sendOffset + 1, Len(flat \o units))
    BY <1>0, <2>2 DEF Queued
  <2> HIDE DEF flat
  <2> QED BY <1>0, <2>1, <2>3, <2>4, DropFirst
<1>5. wire \o Queued \o units = wire \o (Queued \o units)
  <2>1. wire \in Seq(Nat) /\ Queued \in Seq(Nat) /\ units \in Seq(Nat)
    BY <1>0, <1>4
  <2> QED BY <2>1, NatAssociative
<1>6. wire \o (Queued \o units) \o <<>> = wire \o (Queued \o units)
  <2>1. wire \o (Queued \o units) \in Seq(Nat)
    BY <1>0, <1>4
  <2> QED BY <2>1, ConcatEmptySeq
<1> QED BY <1>0, <1>2, <1>3, <1>4, <1>5, <1>6 DEF Order

(* onWriteReady writes the queue from its front.                           *)
LEMMA StreamFlushItem ==
    ASSUME ShapeInv, FlushItem
    PROVE  Order' = Order
<1>0. /\ wire \in Seq(Nat) /\ TypeOK /\ sendQueue # <<>> /\ sendQueue \in Seq(Seq(Nat))
      /\ Transmit(Remainder) /\ Room > 0 /\ output' = output
  BY DEF ShapeInv, TypeOK, FlushItem
<1> DEFINE head == Head(sendQueue)
           rest == FlattenSeq(Tail(sendQueue))
           n == sendOffset
<1>1. /\ head \in Seq(Nat) /\ n \in 0..Len(head) /\ rest \in Seq(Nat)
      /\ Queued = Remainder \o rest
  BY <1>0, QueueTyped DEF ShapeInv
<1>2. /\ Remainder = SubSeq(head, n + 1, Len(head)) /\ Remainder \in Seq(Nat)
      /\ Len(Remainder) = Len(head) - n /\ Len(head) \in Nat
  <2>1. head \in Seq(Nat) /\ Len(head) \in Nat /\ n \in 0..Len(head)
    BY <1>1
  <2>2. Remainder = SubSeq(head, n + 1, Len(head))
    BY DEF Remainder
  <2> HIDE DEF head, n
  <2> QED BY <2>1, <2>2, Dropped
<1>3. /\ Room \in Nat /\ Len(Remainder) \in Nat
      /\ Len(Remainder) <= Room => wire' = wire \o Remainder
      /\ Len(Remainder) > Room =>
            /\ wire' = wire \o SubSeq(Remainder, 1, Room)
            /\ SubSeq(Remainder, 1, Room) \o SubSeq(Remainder, Room + 1, Len(Remainder))
                    = Remainder
            /\ Room \in 0..Len(Remainder)
  BY <1>0, <1>2, Sending
<1>4. wire' \o Queued' = wire \o Queued
  <2>1. CASE /\ Len(Remainder) <= Room
             /\ sendQueue' = Tail(sendQueue) /\ sendOffset' = 0
    <3>1. Queued' = SubSeq(rest, 1, Len(rest))
      BY <2>1 DEF Queued
    <3> HIDE DEF rest, head, n
    <3>2. Queued' = rest
      BY <1>1, <3>1
    <3>3. wire' \o Queued' = (wire \o Remainder) \o rest
      BY <1>3, <2>1, <3>2
    <3>4. (wire \o Remainder) \o rest = wire \o (Remainder \o rest)
      <4>1. wire \in Seq(Nat) /\ Remainder \in Seq(Nat) /\ rest \in Seq(Nat)
        BY <1>0, <1>1, <1>2
      <4> QED BY <4>1, NatAssociative
    <3> QED BY <1>1, <3>3, <3>4
  <2>2. CASE /\ Len(Remainder) > Room
             /\ sendQueue' = sendQueue /\ sendOffset' = sendOffset + Room
    <3> DEFINE left == SubSeq(Remainder, Room + 1, Len(Remainder))
               part == SubSeq(Remainder, 1, Room)
    <3>1. left \in Seq(Nat) /\ part \in Seq(Nat)
      <4>1. Room \in 0..Len(Remainder) /\ Remainder \in Seq(Nat)
        BY <1>2, <1>3, <2>2
      <4> QED BY <4>1
    <3>2. left = SubSeq(head, n + Room + 1, Len(head))
      <4>1. Room \in 0..Len(head) - n
        BY <1>2, <1>3, <2>2
      <4> HIDE DEF head, n
      <4> QED BY <1>1, <1>2, <4>1, DropDrop
    <3>3. Queued' = left \o rest
      <4> DEFINE flat == FlattenSeq(sendQueue)
      <4>1. flat = head \o rest
        BY <1>0, FlattenTail
      <4>2. Queued' = SubSeq(flat, (n + Room) + 1, Len(flat))
        BY <2>2 DEF Queued
      <4>3. n + Room \in 0..Len(head)
        BY <1>1, <1>2, <1>3, <2>2
      <4> HIDE DEF flat, head, rest, n, left
      <4> QED BY <1>1, <3>2, <4>1, <4>2, <4>3, DropFirst
    <3> HIDE DEF left, part, rest, head, n
    <3>4. wire' = wire \o part /\ part \o left = Remainder
      BY <1>3, <2>2 DEF left, part
    <3>5. (wire \o part) \o (left \o rest) = wire \o (part \o (left \o rest))
      <4>1. /\ wire \in Seq(Nat) /\ part \in Seq(Nat) /\ left \o rest \in Seq(Nat)
        BY <1>0, <1>1, <3>1, Concatenated
      <4> QED BY <4>1, NatAssociative
    <3>6. part \o (left \o rest) = Remainder \o rest
      <4>1. part \in Seq(Nat) /\ left \in Seq(Nat) /\ rest \in Seq(Nat)
        BY <1>1, <3>1
      <4>2. (part \o left) \o rest = part \o (left \o rest)
        BY <4>1, NatAssociative
      <4> QED BY <3>4, <4>2
    <3> QED BY <1>1, <3>3, <3>4, <3>5, <3>6
  <2> QED BY <2>1, <2>2 DEF FlushItem
<1>5. Writing' = Writing
  BY <1>0 DEF Writing
<1> QED BY <1>4, <1>5 DEF Order

(* There is nothing at the start.                                          *)
LEMMA StreamInit == Init => StreamIntact
<1> SUFFICES ASSUME Init PROVE StreamIntact
  OBVIOUS
<1>1. TypeOK /\ OutputHeld /\ output \in [Threads -> Seq(Nat)]
  BY ShapeInit DEF ShapeInv, TypeOK
<1>2. Queued = <<>>
  BY <1>1, QueueTyped DEF Init
<1>3. Writing = <<>>
  <2>1. \A s \in Threads : output[s] = <<>>
    BY DEF Init
  <2> QED BY <1>1, <2>1, ThreadFacts, WritingOf DEF Writing
<1>4. wire = <<>> /\ Len(records) = 0
  BY DEF Init
<1>5. <<>> \o <<>> \o <<>> = [j \in 1..0 |-> j]
  OBVIOUS
<1>6. Len(records) * RecordSize = 0
  BY <1>4, Constants
<1> QED BY <1>1, <1>2, <1>3, <1>4, <1>5, <1>6 DEF StreamIntact

(* Everything else leaves the stream alone.                                *)
LEMMA StreamSame ==
    ASSUME ShapeInv', StreamIntact,
           UNCHANGED <<wire, sendQueue, sendOffset, output, records, raced>>
    PROVE  StreamIntact'
BY DEF StreamIntact, Queued, Writing, ShapeInv

(* Every step, whichever it is.                                            *)
LEMMA StreamNext ==
    ASSUME ShapeInv, ShapeInv', StreamIntact, [Next]_vars
    PROVE  StreamIntact'
<1> SUFFICES ASSUME ~ raced', [Next]_vars
             PROVE  StreamIntact'
  BY DEF StreamIntact, ShapeInv
<1>a. ASSUME ~ raced, Order' = Order, records' = records
      PROVE  StreamIntact'
  <2>1. Order = Numbers(Len(records))
    BY <1>a DEF StreamIntact, Order, Numbers
  <2>2. Order' = Numbers(Len(records))
    BY <1>a, <2>1
  <2> QED BY <1>a, <2>2 DEF StreamIntact, ShapeInv, Order, Numbers
<1>b. ASSUME Order' = Numbers(Len(records'))
      PROVE  StreamIntact'
  BY <1>b DEF StreamIntact, ShapeInv, Order, Numbers
<1>1. CASE UNCHANGED vars
  BY <1>1, StreamSame DEF vars
<1>2. CASE ClientSteps
  <2>1. UNCHANGED <<wire, sendQueue, sendOffset, output, records, raced>>
    BY <1>2 DEF ClientSteps, Send, SendControl, Arrive, Close, PeerReads
  <2> QED BY <2>1, StreamSame
<1>3. CASE ReadSteps
  <2>1. CASE AnswerHandshake
    <3>1. /\ ~ raced /\ mutex = Nobody /\ pc[Main] = "deliver" /\ Encrypt(Main, Control)
          /\ UNCHANGED <<wire, sendQueue, sendOffset>>
      BY <2>1 DEF AnswerHandshake, Goto
    <3>2. Main \in Threads /\ Control \in Responses
      BY ThreadFacts DEF Control, Response, Responses
    <3>3. Order' = Numbers(Len(records'))
      BY <3>1, <3>2, OneWriter, StreamEncrypt
    <3> QED BY <1>b, <3>3
  <2>2. CASE \E n \in 1..MaxChunk : Read(n)
    BY <2>2, StreamSame DEF Read
  <2>3. CASE ReadAgain \/ EndRead \/ EndDeliver \/ CopyHead \/ CopyBody
    BY <2>3, StreamSame
       DEF ReadAgain, EndRead, EndDeliver, CopyHead, CopyBody, CopyPart
  <2>4. CASE FinishHead \/ FinishBody
    <3>1. UNCHANGED <<wire, sendQueue, sendOffset, output, records, raced>>
      BY <2>4 DEF FinishHead, FinishBody, ProcessMessage, Respond
    <3> QED BY <3>1, StreamSame
  <2> QED BY <1>3, <2>1, <2>2, <2>3, <2>4 DEF ReadSteps
<1>4. CASE MainSteps
  <2>1. CASE FlushItem
    <3>1. ~ raced /\ records' = records
      BY <2>1 DEF FlushItem
    <3> QED BY <1>a, <2>1, <3>1, StreamFlushItem
  <2>2. CASE Poll \/ EventIn \/ EventOut \/ EndDispatch
    BY <2>2, StreamSame DEF Poll, EventIn, EventOut, EndDispatch
  <2>3. CASE LockQueue \/ FlushFails \/ EndFlush
    BY <2>3, StreamSame DEF LockQueue, FlushFails, EndFlush
  <2> QED BY <1>3, <1>4, <2>1, <2>2, <2>3 DEF MainSteps
<1>5. CASE \E t \in Threads : PostSteps(t)
  <2> SUFFICES ASSUME NEW t \in Threads, PostSteps(t)
               PROVE  StreamIntact'
    BY <1>5
  <2>1. CASE Lock(t)
    <3>1. /\ ~ raced /\ mutex = Nobody /\ ~ Unlocked /\ Encrypt(t, Head(todo[t]))
          /\ UNCHANGED <<wire, sendQueue, sendOffset>> /\ todo[t] # <<>>
      BY <2>1 DEF Lock
    <3>2. Head(todo[t]) \in Responses
      <4>1. todo[t] \in Seq(Responses)
        BY DEF ShapeInv, TypeOK
      <4> QED BY <3>1, <4>1
    <3>3. Order' = Numbers(Len(records'))
      BY <3>1, <3>2, OneWriter, StreamEncrypt
    <3> QED BY <1>b, <3>3
  <2>2. CASE TryWrite(t)
    <3>1. ~ raced /\ records' = records
      BY <2>2 DEF TryWrite
    <3> QED BY <1>a, <2>2, <3>1, StreamTryWrite
  <2>3. CASE Push(t)
    <3>1. ~ raced /\ records' = records
      BY <2>3 DEF Push
    <3> QED BY <1>a, <2>3, <3>1, StreamPush
  <2>4. CASE \/ CheckQueue(t) \/ TryWriteFails(t) \/ ClearWriteReady(t)
             \/ StopWriting(t) \/ Release(t) \/ EndPost(t)
    BY <2>4, StreamSame
       DEF CheckQueue, TryWriteFails, ClearWriteReady, StopWriting, Release, EndPost
  <2> QED BY <2>1, <2>2, <2>3, <2>4 DEF PostSteps
<1>6. CASE \E t \in Threads, r \in RequestIds :
                OnData(t, r) \/ Complete(t, r) \/ Throw(t, r)
  <2>1. UNCHANGED <<wire, sendQueue, sendOffset, output, records, raced>>
    BY <1>6 DEF OnData, Complete, Throw, Respond
  <2> QED BY <2>1, StreamSame
<1> QED BY <1>1, <1>2, <1>4, <1>5, <1>6 DEF Next

(* What the channel has encrypted leaves in that order, nothing twice and  *)
(* nothing out of turn, unless the unlocked call of onWriteRaw has raced:  *)
(* postResponse, onWriteRaw and onWriteReady.                              *)
THEOREM StreamAlways == Spec => []StreamIntact
<1>1. ShapeInv /\ ShapeInv' /\ StreamIntact /\ [Next]_vars => StreamIntact'
  BY StreamNext
<1> QED BY <1>1, ShapeAlways, StreamInit, PTL DEF Spec
==============================================================================
