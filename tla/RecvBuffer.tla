----------------------------- MODULE RecvBuffer -----------------------------
(***************************************************************************)
(* mallo/RecvBuffer and the receive loop of mallo/Session: the bytes of a  *)
(* client's stream land in one buffer, in pieces that have nothing to do   *)
(* with its packets, and are handed to OnRecv packet by packet.  The       *)
(* handlers of a session do not overlap, so its buffer has one user.       *)
(* A byte of the stream is known by its packet and its place in it, and    *)
(* only the first one tells the size (PacketHeader::_pktSize).             *)
(***************************************************************************)
EXTENDS Naturals, Sequences

CONSTANTS
    Length,     \* RECV_BUFFER_LEN
    Limit,      \* RECV_BUFFER_CHUNK * 4, beyond which Read moves the data down
    HeaderSize, \* sizeof(PacketHeader)
    Sizes,      \* packet sizes
    MaxPackets  \* bound: packets of a client

ASSUME SizeAssumption ==
    /\ Length \in Nat /\ Limit \in Nat /\ HeaderSize \in Nat \ {0}
    /\ Limit < Length
    /\ \A n \in Sizes : n \in Nat /\ HeaderSize <= n /\ n <= Limit
    /\ MaxPackets \in Nat

VARIABLES
    sent,       \* packets the client sent, each a sequence of bytes
    stream,     \* the same, byte by byte
    arrived,    \* how many bytes of it have been received
    buffer,     \* _buffer
    readPos, writePos,  \* _readPos, _writePos
    num,        \* numOfBytes of the completed receive, not yet in _writePos
    handed,     \* packets given to OnRecv
    pc          \* where Session::Recv is

vars == <<sent, stream, arrived, buffer, readPos, writePos, num, handed, pc>>

Bytes == [pkt : 1..MaxPackets, off : Nat, size : Nat]
Junk == [pkt |-> 0, off |-> 0, size |-> 0]

DataSize == writePos - readPos
FreeSize == Length - writePos

Init ==
    /\ sent = << >> /\ stream = << >> /\ arrived = 0
    /\ buffer = [i \in 0..(Length - 1) |-> Junk]
    /\ readPos = 0 /\ writePos = 0 /\ num = 0
    /\ handed = << >>
    /\ pc = "read"

-----------------------------------------------------------------------------
(* The client and the network.                                             *)

Packet(k, n) == [i \in 1..n |-> [pkt |-> k, off |-> i,
                                 size |-> IF i = 1 THEN n ELSE 0]]

Send(n) ==
    /\ Len(sent) < MaxPackets
    /\ sent' = Append(sent, Packet(Len(sent) + 1, n))
    /\ stream' = stream \o Packet(Len(sent) + 1, n)
    /\ UNCHANGED <<arrived, buffer, readPos, writePos, num, handed, pc>>

\* The posted receive completes with the next n bytes, put at _writePos.
Arrive(n) ==
    /\ pc = "posted"
    /\ n <= Len(stream) - arrived /\ n <= FreeSize
    /\ buffer' = [i \in 0..(Length - 1) |->
                    IF writePos <= i /\ i < writePos + n
                    THEN stream[arrived + 1 + (i - writePos)] ELSE buffer[i]]
    /\ arrived' = arrived + n
    /\ num' = n
    /\ pc' = "read"
    /\ UNCHANGED <<sent, stream, readPos, writePos, handed>>

-----------------------------------------------------------------------------
(* Session::Recv.                                                          *)

\* Every call of Read, also those for the further packets of a completion,
\* moves the data down when the write position would pass the limit.
TooFarLate == writePos + num > Length
TooFar == writePos + num > Limit

\* The memory copied by Read; on this platform memcpy allows an overlap.
MovedUnread ==
    [i \in 0..(Length - 1) |->
        IF i < DataSize THEN buffer[readPos + i] ELSE buffer[i]]
Moved ==
    [i \in 0..(Length - 1) |->
        IF i < DataSize + num THEN buffer[readPos + i] ELSE buffer[i]]

\* _writePos after the move, which takes _readPos as it was.
MovedWritePosSwapped == writePos
MovedWritePos == DataSize

Place ==
    IF TooFar
    THEN buffer' = Moved /\ readPos' = 0 /\ writePos' = MovedWritePos + num
    ELSE UNCHANGED <<buffer, readPos>> /\ writePos' = writePos + num

Read ==
    /\ pc = "read"
    /\ Place
    /\ num' = 0
    /\ pc' = IF /\ writePos' - readPos' >= HeaderSize
                /\ writePos' - readPos' >= buffer'[readPos'].size
             THEN "handle" ELSE "post"
    /\ UNCHANGED <<sent, stream, arrived, handed>>

\* OnRecv with the packet at _readPos, then AddRecvPos.
AfterHandleOnce == "post"
AfterHandle == "read"

Handle ==
    /\ pc = "handle"
    /\ LET n == buffer[readPos].size IN
        /\ handed' = Append(handed, [i \in 1..n |-> buffer[readPos + i - 1]])
        /\ IF readPos + n = writePos
           THEN readPos' = 0 /\ writePos' = 0
           ELSE readPos' = readPos + n /\ UNCHANGED writePos
    /\ pc' = AfterHandle
    /\ UNCHANGED <<sent, stream, arrived, buffer, num>>

\* WSARecv into the free part.  With no free part it would complete with 0
\* bytes, which Dispatch takes for the client's farewell.
Post ==
    /\ pc = "post"
    /\ pc' = IF FreeSize = 0 THEN "dropped" ELSE "posted"
    /\ UNCHANGED <<sent, stream, arrived, buffer, readPos, writePos, num,
                   handed>>

-----------------------------------------------------------------------------
Recv == Read \/ Handle \/ Post
Network == \E n \in 1..Length : Arrive(n)

Next == Recv \/ Network \/ \E n \in Sizes : Send(n)

\* The dispatch thread runs on and the network delivers what was sent.
Fairness == WF_vars(Recv) /\ WF_vars(Network)

Spec == Init /\ [][Next]_vars /\ Fairness

-----------------------------------------------------------------------------
(* Properties.                                                             *)

TypeOK ==
    /\ sent \in Seq(Seq(Bytes)) /\ stream \in Seq(Bytes)
    /\ arrived \in Nat
    /\ buffer \in [0..(Length - 1) -> Bytes \cup {Junk}]
    /\ readPos \in 0..Length /\ writePos \in 0..Length
    /\ num \in 0..Length
    /\ readPos <= writePos /\ writePos + num <= Length
    /\ handed \in Seq(Seq(Bytes))
    /\ pc \in {"read", "handle", "post", "posted", "dropped"}

\* The data in the buffer is the part of the stream that has arrived and has
\* not been handed over, wherever a move of the data left it.
DataInPlace ==
    \A i \in readPos..(writePos + num - 1) :
        buffer[i] = stream[arrived - (writePos + num) + i + 1]

\* A client that sends whole packets is never taken for one that left: there
\* is room for the next receive however the packets were cut up.
NeverDropped == pc # "dropped"

\* OnRecv gets the client's packets whole, each once, in order.
Waiting == SubSeq(sent, Len(handed) + 1, Len(sent))
Channel == INSTANCE FifoChannel
    WITH Events <- {Packet(k, n) : k \in 1..MaxPackets, n \in Sizes},
         queue <- Waiting, taken <- handed
IsFifoChannel == Channel!SafeSpec

\* Every packet sent is handed over: none is left behind in the buffer until
\* the next one comes.
AllHanded == \A k \in 1..MaxPackets : Len(sent) >= k ~> Len(handed) >= k
=============================================================================
