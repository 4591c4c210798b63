------------------------------ MODULE Connection ------------------------------
(***************************************************************************)
(* One connection of the API server: Server::Connection and the request    *)
(* closures of src/shard/src/api/server.cpp, on a SockStream of            *)
(* src/shard/src/os/linux.cpp.  The main thread gets the events of the     *)
(* socket, reads, cuts the stream into packets and hands requests to the   *)
(* engine; the engine calls the closures back on any thread, and they post *)
(* responses.  A response is written to the socket as far as it takes it,  *)
(* the rest goes to p_sendQueue, which onWriteReady empties.               *)
(*                                                                         *)
(* Data are counted in units.  A packet is HeadSize units and a body, unit *)
(* k of packet r being <<r, k>>.  The n-th TLS record that is sent is      *)
(* RecordSize units, and the units of all of them are numbered in the      *)
(* order in which the channel encrypts them, so that the peer can decrypt  *)
(* the stream exactly if it gets unit j as the j-th.                       *)
(***************************************************************************)
EXTENDS Integers, Sequences, SequencesExt

CONSTANTS
    NumWorkers,   \* threads other than the main thread that run callbacks
    Sessions,     \* what a client may ask for: sequences of packets, each
                  \* with its opcode and the length of its body
    MaxRecords,   \* bound on its packets and TLS records that are no data
    MaxRows,      \* bound on the rows of a query
    MaxChunk,     \* what one read() returns (the buffer has 512 bytes)
    SendBuffer    \* what the socket takes before the peer reads

(* Requests that processMessage answers before it returns: with one        *)
(* response (packets it cannot parse or does not know are the same), or,   *)
(* for DownloadExtern, with a blob and then the final one.                 *)
Immediate == {"Transaction", "Update", "CreateStorage", "CreateView",
              "UnlinkStorage", "UnlinkView", "UploadExtern", "Illegal"}

(* Requests the engine answers through a closure, and kCqShutdown, which   *)
(* gets no answer.                                                         *)
Deferred == {"Fetch", "Query", "ShortTransact", "Apply"}

Opcodes == Immediate \cup Deferred \cup {"DownloadExtern", "Shutdown"}

ASSUME SessionsAssumption ==
    \A session \in Sessions :
        session \in Seq([opcode : Opcodes, length : Nat])
ASSUME BoundsAssumption ==
    /\ {NumWorkers, MaxRecords, MaxRows} \subseteq Nat
    /\ MaxChunk \in Nat \ {0} /\ SendBuffer \in Nat \ {0}

VARIABLES
    requests,    \* for each packet: opcode, length of the body, progress
    controls,    \* TLS records that are no data sent by the client (history)
    inbound,     \* what the socket holds for the server to read
    peer,        \* the client has or has not closed its side
    edge,        \* the stream is on the ready list of epoll
    inFlight,    \* units in the socket that the peer has not read
    noSpace,     \* a write() found the socket full: reading makes an edge
    readReady,   \* p_readReady
    writeReady,  \* p_writeReady
    event,       \* what EpollCallback has still to look at
    pc,          \* where a thread is
    chunk,       \* what readRaw has still to deliver
    partial,     \* the p_readOffset units in the head or body buffer
    validHead,   \* p_validHead
    curPacket,   \* p_curPacket: the head that was read last
    handled,     \* packets given to processMessage (history)
    mutex,       \* the thread that holds p_mutex, or Nobody
    serving,     \* the request whose closure a thread is in
    todo,        \* responses a thread has still to post
    output,      \* units that onWriteRaw has still to write or queue
    sendQueue,   \* p_sendQueue
    sendOffset,  \* p_sendOffset
    records,     \* responses in the order of their encryption (history)
    wire,        \* units in the order in which the socket took them (history)
    raced,       \* two threads were in onWriteRaw or onWriteReady (history)
    running,     \* `running` of main.cpp
    up           \* no exception has ended the process

client == <<requests, controls, inbound, peer>>
socket == <<edge, inFlight, noSpace, wire>>
flags == <<readReady, writeReady>>
reader == <<chunk, partial, validHead, curPacket, handled>>
sending == <<sendQueue, sendOffset>>
posting == <<mutex, serving, todo, output, records, raced>>
process == <<running, up>>
vars == <<client, socket, flags, event, pc, reader, sending, posting, process>>

Main == 0
Workers == 1..NumWorkers
Threads == 0..NumWorkers
Nobody == -1
HeadSize == 2
RecordSize == 2
RequestIds == DOMAIN requests

Handshake == <<0, 0>>
Packet(r) == [k \in 1..HeadSize + requests[r].length |-> <<r, k>>]
Response(r, kind) == [request |-> r, kind |-> kind]
Control == Response(0, "control")

Room == SendBuffer - inFlight
ReadByPeer == Len(wire) - inFlight

(* The client opens the connection with a TLS handshake; the socket can be *)
(* written to, which epoll reports at once.                                *)
Init ==
    /\ \E session \in Sessions :
            requests = [r \in DOMAIN session |->
                [opcode |-> session[r].opcode, length |-> session[r].length,
                 state |-> "planned", rows |-> 0]]
    /\ inbound = <<Handshake>> /\ controls = 1
    /\ peer = "open"
    /\ edge = TRUE /\ inFlight = 0 /\ noSpace = FALSE /\ wire = <<>>
    /\ readReady = FALSE /\ writeReady = FALSE
    /\ event = {}
    /\ pc = [t \in Threads |-> "ready"]
    /\ chunk = <<>> /\ partial = <<>> /\ validHead = FALSE
    /\ curPacket = <<>> /\ handled = <<>>
    /\ mutex = Nobody
    /\ serving = [t \in Threads |-> 0]
    /\ todo = [t \in Threads |-> <<>>]
    /\ output = [t \in Threads |-> <<>>]
    /\ sendQueue = <<>> /\ sendOffset = 0
    /\ records = <<>>
    /\ raced = FALSE
    /\ running = TRUE /\ up = TRUE

Goto(t, from, to) == pc[t] = from /\ pc' = [pc EXCEPT ![t] = to]
-------------------------------------------------------------------------------
(* The client and the socket *)

Arrive(units) ==
    /\ peer = "open"
    /\ inbound' = inbound \o units
    /\ edge' = TRUE
    /\ UNCHANGED <<peer, inFlight, noSpace, wire, flags, event, pc, reader,
                   sending, posting, process>>

(* A request is sent once the server's part of the handshake has arrived. *)
Send(r) ==
    /\ requests[r].state = "planned"
    /\ \A earlier \in 1..r - 1 : requests[earlier].state # "planned"
    /\ ReadByPeer >= RecordSize
    /\ requests' = [requests EXCEPT ![r].state = "sent"]
    /\ Arrive(Packet(r))
    /\ UNCHANGED controls

(* Handshakes of a running session, and the alert that announces its end,  *)
(* are answered by the channel itself.                                     *)
SendControl ==
    /\ ReadByPeer >= RecordSize
    /\ Len(requests) + controls < MaxRecords
    /\ controls' = controls + 1
    /\ Arrive(<<Handshake>>)
    /\ UNCHANGED requests

Close ==
    /\ peer = "open"
    /\ peer' = "closed"
    /\ edge' = TRUE
    /\ UNCHANGED <<requests, controls, inbound, inFlight, noSpace, wire, flags,
                   event, pc, reader, sending, posting, process>>

(* The peer reads what there is.  If a write has failed for want of space, *)
(* that is an event.                                                       *)
PeerReads ==
    /\ inFlight > 0
    /\ inFlight' = 0
    /\ edge' = (edge \/ noSpace)
    /\ noSpace' = FALSE
    /\ UNCHANGED <<client, wire, flags, event, pc, reader, sending, posting,
                   process>>
-------------------------------------------------------------------------------
(* SockStream: edge-triggered events, on the main thread *)

Readable == inbound # <<>> \/ peer = "closed"

Poll ==
    /\ running /\ edge
    /\ Goto(Main, "ready", "dispatch")
    /\ edge' = FALSE
    /\ event' = (IF Readable THEN {"in"} ELSE {})
                    \cup (IF Room > 0 THEN {"out"} ELSE {})
    /\ UNCHANGED <<client, inFlight, noSpace, wire, flags, reader, sending,
                   posting, process>>

(* EpollCallback calls p_readCallback, then p_writeCallback, each only if  *)
(* the flag was not set.                                                   *)
EventIn ==
    /\ "in" \in event
    /\ event' = event \ {"in"}
    /\ readReady' = TRUE
    /\ Goto(Main, "dispatch", IF readReady THEN "dispatch" ELSE "read")
    /\ UNCHANGED <<client, socket, writeReady, reader, sending, posting,
                   process>>

EventOut ==
    /\ event = {"out"}
    /\ event' = {}
    /\ writeReady' = TRUE
    /\ Goto(Main, "dispatch", IF writeReady THEN "dispatch" ELSE "flushLock")
    /\ UNCHANGED <<client, socket, readReady, reader, sending, posting, process>>

EndDispatch ==
    /\ event = {}
    /\ Goto(Main, "dispatch", "ready")
    /\ UNCHANGED <<client, socket, flags, event, reader, sending, posting,
                   process>>
-------------------------------------------------------------------------------
(* Reading: onReadReady, readRaw, onReadTls *)

(* At the end of the stream tryRead returns 0 with the flag still set, and *)
(* the loop of onReadReady goes on: a step that changes nothing.           *)
Read(n) ==
    /\ readReady
    /\ n <= Len(inbound)
    /\ Goto(Main, "read", "deliver")
    /\ chunk' = SubSeq(inbound, 1, n)
    /\ inbound' = SubSeq(inbound, n + 1, Len(inbound))
    /\ UNCHANGED <<requests, controls, peer, socket, flags, event, partial,
                   validHead, curPacket, handled, sending, posting, process>>

(* Mutant of ReadAgain: the flag stays set. *)
ReadOn ==
    /\ pc[Main] = "read" /\ readReady
    /\ inbound = <<>> /\ peer = "open"
    /\ UNCHANGED vars

ReadAgain ==
    /\ pc[Main] = "read" /\ readReady
    /\ inbound = <<>> /\ peer = "open"
    /\ readReady' = FALSE
    /\ UNCHANGED <<client, socket, writeReady, event, pc, reader, sending,
                   posting, process>>

EndRead ==
    /\ ~ readReady
    /\ Goto(Main, "read", "dispatch")
    /\ UNCHANGED <<client, socket, flags, event, reader, sending, posting,
                   process>>

EndDeliver ==
    /\ chunk = <<>>
    /\ Goto(Main, "deliver", "read")
    /\ UNCHANGED <<client, socket, flags, event, reader, sending, posting,
                   process>>

(* The channel answers to a handshake from within readRaw, that is without *)
(* p_mutex.                                                                *)
Encrypt(t, response) ==
    /\ records' = Append(records, response)
    /\ output' = [output EXCEPT ![t] =
            [k \in 1..RecordSize |-> Len(records) * RecordSize + k]]

AnswerHandshake ==
    /\ chunk # <<>> /\ Head(chunk) = Handshake
    /\ Goto(Main, "deliver", "check")
    /\ chunk' = Tail(chunk)
    /\ Encrypt(Main, Control)
    /\ raced' = (raced \/ mutex # Nobody)
    /\ UNCHANGED <<client, socket, flags, event, partial, validHead, curPacket,
                   handled, sending, mutex, serving, todo, process>>

(* The plain text that onReadTls is called with. *)
Plain ==
    LET ends == {n \in 1..Len(chunk) : chunk[n] = Handshake}
    IN  IF ends = {} THEN chunk
        ELSE SubSeq(chunk, 1, (CHOOSE n \in ends : \A m \in ends : n <= m) - 1)

(* memcpy of what is there and still missing to `size` units *)
Copied(size) ==
    LET missing == size - Len(partial)
    IN  IF Len(Plain) < missing THEN Len(Plain) ELSE missing

Take(n) == chunk' = SubSeq(chunk, n + 1, Len(chunk))

(* The length of the body, as the head that was read says. *)
Length(head) == requests[head[1][1]].length

CopyPart(size) ==
    /\ pc[Main] = "deliver" /\ Plain # <<>>
    /\ Len(partial) + Copied(size) < size
    /\ Take(Copied(size))
    /\ partial' = partial \o SubSeq(chunk, 1, Copied(size))
    /\ UNCHANGED <<client, socket, flags, event, pc, validHead, curPacket,
                   handled, sending, posting, process>>

CopyHead ==
    /\ ~ validHead
    /\ CopyPart(HeadSize)

CopyBody ==
    /\ validHead
    /\ CopyPart(Length(curPacket))

(* The last unit of a packet is there: processMessage. *)
Respond(t, r, from, kinds) ==
    /\ Goto(t, from, "post")
    /\ serving' = [serving EXCEPT ![t] = r]
    /\ todo' = [todo EXCEPT ![t] = [n \in DOMAIN kinds |-> Response(r, kinds[n])]]
    /\ UNCHANGED <<mutex, output, records, raced>>

Progress(r, state) == requests' = [requests EXCEPT ![r].state = state]

ProcessMessage(message) ==
    LET r == message[1][1]
        opcode == requests[r].opcode
    IN  /\ handled' = Append(handled, message)
        /\ \/ /\ opcode \in Immediate
              /\ Progress(r, "answered")
              /\ Respond(Main, r, "deliver", <<"fin">>)
              /\ UNCHANGED running
           \/ /\ opcode = "DownloadExtern"
              /\ Progress(r, "answered")
              /\ Respond(Main, r, "deliver", <<"data", "fin">>)
              /\ UNCHANGED running
           \/ /\ opcode \in Deferred
              /\ Progress(r, "engine")
              /\ UNCHANGED <<pc, posting, running>>
           \/ /\ opcode = "Shutdown"
              /\ Progress(r, "answered")
              /\ running' = FALSE
              /\ UNCHANGED <<pc, posting>>

FinishHead ==
    /\ pc[Main] = "deliver" /\ ~ validHead /\ Plain # <<>>
    /\ Len(partial) + Copied(HeadSize) = HeadSize
    /\ Take(Copied(HeadSize))
    /\ LET head == partial \o SubSeq(chunk, 1, Copied(HeadSize))
       IN  /\ curPacket' = head
           /\ partial' = <<>>
           /\ \/ /\ Length(head) = 0
                 /\ ProcessMessage(head)
                 /\ UNCHANGED validHead
              \/ /\ Length(head) > 0
                 /\ validHead' = TRUE
                 /\ UNCHANGED <<requests, pc, handled, posting, running>>
    /\ UNCHANGED <<controls, inbound, peer, socket, flags, event, sending, up>>

(* Mutant of FinishBody: the next packet is read as another body. *)
FinishBodyOnly ==
    /\ pc[Main] = "deliver" /\ validHead /\ Plain # <<>>
    /\ LET size == Length(curPacket)
       IN  /\ Len(partial) + Copied(size) = size
           /\ Take(Copied(size))
           /\ ProcessMessage(curPacket \o partial \o SubSeq(chunk, 1, Copied(size)))
    /\ partial' = <<>>
    /\ UNCHANGED <<controls, inbound, peer, socket, flags, event, validHead,
                   curPacket, sending, up>>

FinishBody ==
    /\ pc[Main] = "deliver" /\ validHead /\ Plain # <<>>
    /\ LET size == Length(curPacket)
       IN  /\ Len(partial) + Copied(size) = size
           /\ Take(Copied(size))
           /\ ProcessMessage(curPacket \o partial \o SubSeq(chunk, 1, Copied(size)))
    /\ partial' = <<>>
    /\ validHead' = FALSE
    /\ UNCHANGED <<controls, inbound, peer, socket, flags, event, curPacket,
                   sending, up>>
-------------------------------------------------------------------------------
(* The closures: the engine calls them back on a worker, or on the main    *)
(* thread when it is between two events.                                   *)
Callback(t, r) ==
    /\ t = Main => running
    /\ requests[r].state = "engine"
    /\ \A s \in Threads : serving[s] # r

(* A fetch calls onData and complete, a query calls onData for every       *)
(* thousand rows and at its end.                                           *)
OnData(t, r) ==
    /\ Callback(t, r)
    /\ requests[r].opcode = "Query" /\ requests[r].rows < MaxRows
    /\ requests' = [requests EXCEPT ![r].rows = @ + 1]
    /\ Respond(t, r, "ready", <<"data">>)
    /\ UNCHANGED <<controls, inbound, peer, socket, flags, event, reader, sending,
                   process>>

Complete(t, r) ==
    /\ Callback(t, r)
    /\ Progress(r, "answered")
    /\ Respond(t, r, "ready",
            IF requests[r].opcode = "Fetch" THEN <<"data", "fin">> ELSE <<"fin">>)
    /\ UNCHANGED <<controls, inbound, peer, socket, flags, event, reader, sending,
                   process>>

(* A fetch or query that fails, and a short transaction that conflicts     *)
(* with another one, are "unexpected" errors: an exception nobody catches. *)
Throw(t, r) ==
    /\ Callback(t, r)
    /\ pc[t] = "ready"
    /\ requests[r].opcode \in {"Fetch", "Query", "ShortTransact"}
    /\ up' = FALSE
    /\ UNCHANGED <<client, socket, flags, event, pc, reader, sending, posting,
                   running>>
-------------------------------------------------------------------------------
(* postResponse and onWriteRaw *)

(* The main thread is in onWriteRaw without the mutex. *)
Unlocked == pc[Main] \in {"check", "write", "again", "push"} /\ mutex # Main

Lock(t) ==
    /\ todo[t] # <<>> /\ mutex = Nobody
    /\ Goto(t, "post", "check")
    /\ mutex' = t
    /\ Encrypt(t, Head(todo[t]))
    /\ todo' = [todo EXCEPT ![t] = Tail(@)]
    /\ raced' = (raced \/ Unlocked)
    /\ UNCHANGED <<client, socket, flags, event, reader, sending, serving, process>>

(* Mutant of CheckQueue: what is in the queue is overtaken. *)
IgnoreQueue(t) ==
    /\ Goto(t, "check", "write")
    /\ UNCHANGED <<client, socket, flags, event, reader, sending, posting, process>>

CheckQueue(t) ==
    /\ Goto(t, "check", IF sendQueue = <<>> THEN "write" ELSE "push")
    /\ UNCHANGED <<client, socket, flags, event, reader, sending, posting, process>>

(* write() takes what there is room for; if that is not all, reading by    *)
(* the peer becomes an event.                                              *)
Transmit(units) ==
    LET n == IF Room < Len(units) THEN Room ELSE Len(units)
    IN  /\ wire' = wire \o SubSeq(units, 1, n)
        /\ inFlight' = inFlight + n
        /\ noSpace' = (noSpace \/ n < Len(units))
        /\ UNCHANGED edge

TryWrite(t) ==
    /\ writeReady /\ Room > 0
    /\ Transmit(output[t])
    /\ output' = [output EXCEPT ![t] = SubSeq(@, Room + 1, Len(@))]
    /\ Goto(t, "write", IF Len(output[t]) <= Room THEN "release" ELSE "write")
    /\ UNCHANGED <<client, flags, event, reader, sending, mutex, serving, todo,
                   records, raced, process>>

(* EAGAIN; between write() and the assignment to the flag the main thread  *)
(* may get the event of the socket.                                        *)
TryWriteFails(t) ==
    /\ writeReady /\ Room = 0
    /\ Goto(t, "write", "again")
    /\ noSpace' = TRUE
    /\ UNCHANGED <<client, edge, inFlight, wire, flags, event, reader, sending,
                   posting, process>>

ClearWriteReady(t) ==
    /\ Goto(t, "again", "write")
    /\ writeReady' = FALSE
    /\ UNCHANGED <<client, socket, readReady, event, reader, sending, posting,
                   process>>

StopWriting(t) ==
    /\ ~ writeReady
    /\ Goto(t, "write", "push")
    /\ UNCHANGED <<client, socket, flags, event, reader, sending, posting, process>>

Push(t) ==
    /\ Goto(t, "push", "release")
    /\ sendQueue' = Append(sendQueue, output[t])
    /\ output' = [output EXCEPT ![t] = <<>>]
    /\ UNCHANGED <<client, socket, flags, event, reader, sendOffset, mutex, serving,
                   todo, records, raced, process>>

Release(t) ==
    /\ Goto(t, "release", IF mutex = t THEN "post" ELSE "deliver")
    /\ mutex' = (IF mutex = t THEN Nobody ELSE mutex)
    /\ UNCHANGED <<client, socket, flags, event, reader, sending, serving, todo,
                   output, records, raced, process>>

(* p_readReady is set exactly while the main thread is in onReadReady. *)
EndPost(t) ==
    /\ todo[t] = <<>>
    /\ Goto(t, "post", IF t = Main /\ readReady THEN "deliver" ELSE "ready")
    /\ serving' = [serving EXCEPT ![t] = 0]
    /\ UNCHANGED <<client, socket, flags, event, reader, sending, mutex, todo,
                   output, records, raced, process>>
-------------------------------------------------------------------------------
(* onWriteReady *)

LockQueue ==
    /\ mutex = Nobody
    /\ Goto(Main, "flushLock", "flush")
    /\ mutex' = Main
    /\ UNCHANGED <<client, socket, flags, event, reader, sending, serving, todo,
                   output, records, raced, process>>

Remainder == SubSeq(Head(sendQueue), sendOffset + 1, Len(Head(sendQueue)))

FlushItem ==
    /\ pc[Main] = "flush" /\ sendQueue # <<>> /\ writeReady /\ Room > 0
    /\ Transmit(Remainder)
    /\ \/ /\ Len(Remainder) <= Room
          /\ sendQueue' = Tail(sendQueue)
          /\ sendOffset' = 0
       \/ /\ Len(Remainder) > Room
          /\ sendOffset' = sendOffset + Room
          /\ UNCHANGED sendQueue
    /\ UNCHANGED <<client, flags, event, pc, reader, posting, process>>

(* Mutant of FlushFails: the flag stays set, so that the next event of the *)
(* socket calls nobody.                                                    *)
FlushGivesUp ==
    /\ sendQueue # <<>> /\ Room = 0
    /\ Goto(Main, "flush", "dispatch")
    /\ mutex' = Nobody
    /\ noSpace' = TRUE
    /\ UNCHANGED <<client, edge, inFlight, wire, flags, event, reader, sending,
                   serving, todo, output, records, raced, process>>

FlushFails ==
    /\ pc[Main] = "flush" /\ sendQueue # <<>> /\ writeReady /\ Room = 0
    /\ writeReady' = FALSE
    /\ noSpace' = TRUE
    /\ UNCHANGED <<client, edge, inFlight, wire, readReady, event, pc, reader,
                   sending, posting, process>>

EndFlush ==
    /\ sendQueue = <<>> \/ ~ writeReady
    /\ Goto(Main, "flush", "dispatch")
    /\ mutex' = Nobody
    /\ UNCHANGED <<client, socket, flags, event, reader, sending, serving, todo,
                   output, records, raced, process>>
-------------------------------------------------------------------------------
ReadSteps ==
    \/ \E n \in 1..MaxChunk : Read(n)
    \/ ReadAgain \/ EndRead \/ EndDeliver \/ AnswerHandshake
    \/ CopyHead \/ CopyBody \/ FinishHead \/ FinishBody

MainSteps ==
    \/ Poll \/ EventIn \/ EventOut \/ EndDispatch
    \/ ReadSteps
    \/ LockQueue \/ FlushItem \/ FlushFails \/ EndFlush

PostSteps(t) ==
    \/ Lock(t) \/ CheckQueue(t) \/ TryWrite(t) \/ TryWriteFails(t)
    \/ ClearWriteReady(t) \/ StopWriting(t) \/ Push(t) \/ Release(t) \/ EndPost(t)

ClientSteps ==
    \/ \E r \in RequestIds : Send(r)
    \/ SendControl \/ Close \/ PeerReads

(* Nothing is left to model once the process has ended. *)
Next ==
    /\ up
    /\ \/ ClientSteps
       \/ MainSteps
       \/ \E t \in Threads : PostSteps(t)
       \/ \E t \in Threads, r \in RequestIds :
              OnData(t, r) \/ Complete(t, r) \/ Throw(t, r)

(* Threads run, the engine completes what it was asked, and the peer reads *)
(* what it is sent.                                                        *)
Fairness ==
    /\ WF_vars(up /\ PeerReads)
    /\ WF_vars(up /\ MainSteps)
    /\ \A t \in Threads : WF_vars(up /\ PostSteps(t))
    /\ WF_vars(up /\ \E t \in Threads, r \in RequestIds : Complete(t, r))

Spec == Init /\ [][Next]_vars /\ Fairness
-------------------------------------------------------------------------------
(* Properties *)

Points == {"ready", "dispatch", "read", "deliver", "post", "check", "write",
           "again", "push", "release", "flushLock", "flush"}
States == {"planned", "sent", "engine", "answered"}
Request == [opcode : Opcodes, length : Nat, state : States, rows : 0..MaxRows]
Unit == RequestIds \X (Nat \ {0})
Responses == [request : {0} \cup RequestIds, kind : {"data", "fin", "control"}]

(* Every variable has its type, and no item of the queue is sent whole.    *)
TypeOK ==
    /\ requests \in Seq(Request)
    /\ controls \in Nat
    /\ inbound \in Seq(Unit \cup {Handshake})
    /\ peer \in {"open", "closed"}
    /\ inFlight \in 0..SendBuffer
    /\ {edge, noSpace, readReady, writeReady, validHead, raced, running, up}
            \subseteq BOOLEAN
    /\ event \subseteq {"in", "out"}
    /\ pc \in [Threads -> Points]
    /\ chunk \in Seq(Unit \cup {Handshake})
    /\ partial \in Seq(Unit) /\ curPacket \in Seq(Unit)
    /\ handled \in Seq(Seq(Unit))
    /\ mutex \in Threads \cup {Nobody}
    /\ serving \in [Threads -> {0} \cup RequestIds]
    /\ todo \in [Threads -> Seq(Responses)]
    /\ output \in [Threads -> Seq(Nat)]
    /\ sendQueue \in Seq(Seq(Nat)) /\ sendOffset \in 0..RecordSize - 1
    /\ records \in Seq(Responses)
    /\ wire \in Seq(Nat)

(* However the stream is cut by TLS and by read(), processMessage gets the *)
(* packets that were sent, in order, each with its own body.               *)
FramesAsSent ==
    /\ \A n \in DOMAIN handled : handled[n] = Packet(n)
    /\ \A r \in RequestIds :
            requests[r].state \in {"engine", "answered"} => r \in DOMAIN handled

(* What has been encrypted leaves whole and in that order, nothing twice   *)
(* and nothing out of turn, whoever writes it and however often the socket *)
(* is full: it is in the socket, or in the queue, or with the one thread   *)
(* that writes.  Only the unlocked call of onWriteRaw can break this.      *)
(* (And every variable has its type.)                                      *)
Queued ==
    LET queued == FlattenSeq(sendQueue)
    IN  SubSeq(queued, sendOffset + 1, Len(queued))

Writing == FlattenSeq([n \in 1..NumWorkers + 1 |-> output[n - 1]])

StreamIntact ==
    /\ TypeOK
    /\ raced \/ wire \o Queued \o Writing = [j \in 1..Len(records) * RecordSize |-> j]

(* The event of the socket came between a worker's write() that found it   *)
(* full and the assignment to p_writeReady: the flag was still set, so     *)
(* EpollCallback did nothing, and no other event will come.                *)
LostEdge ==
    /\ sendQueue # <<>> /\ ~ writeReady
    /\ ~ noSpace /\ ~ edge /\ "out" \notin event

(* The client has closed its side, and onReadReady reads the end of the    *)
(* stream again and again.                                                 *)
Spinning == pc[Main] = "read" /\ inbound = <<>> /\ peer = "closed"

Stopped == ~ up \/ ~ running \/ raced

Received(r) ==
    \E n \in DOMAIN records :
        records[n] = Response(r, "fin") /\ n * RecordSize <= ReadByPeer

(* A request the server has read is answered and the answer arrives,       *)
(* unless the process ends, the client has closed its side, the edge was   *)
(* lost, or the channel wrote while a worker did.                          *)
RequestsServed ==
    \/ <>[]Stopped \/ <>[]Spinning \/ <>[]LostEdge
    \/ []<>(\A r \in RequestIds :
                requests[r].state \in {"engine", "answered"} => Received(r))

(* The main thread, on which all connections and the loops of the engine   *)
(* depend, comes back to epoll_wait, except in the one loop that does not  *)
(* end.                                                                    *)
MainReturns == []<>(pc[Main] = "ready" \/ ~ up \/ Spinning)
==============================================================================
