-------------------------- MODULE RecvBuffer_proofs --------------------------
(***************************************************************************)
(* For any buffer length, limit, packet sizes and cutting of the stream:   *)
(* the data stays in place, there is always room for the next receive, and *)
(* the packets come out as they went in.                                   *)
(***************************************************************************)
EXTENDS RecvBuffer, SequenceTheorems, TLAPS

\* How much of the stream has arrived and how much of that is in the buffer.
Received == arrived <= Len(stream) /\ DataSize + num <= arrived
Consumed == arrived - (DataSize + num)

\* The stream is the packets one after the other: start[k] bytes of it come
\* before packet k.
IsPacket ==
    /\ Len(sent) <= MaxPackets
    /\ \A k \in 1..Len(sent) : \E n \in Sizes : sent[k] = Packet(k, n)

Layout(start) ==
    /\ start[1] = 0 /\ start[Len(sent) + 1] = Len(stream)
    /\ \A k \in 1..Len(sent) :
        /\ start[k + 1] = start[k] + Len(sent[k])
        /\ start[k + 1] <= Len(stream)
        /\ \A i \in 1..Len(sent[k]) : stream[start[k] + i] = sent[k][i]

\* What has left the buffer are the packets handed over, whole.
AtBoundary ==
    /\ Len(handed) <= Len(sent)
    /\ \E start \in [1..(Len(sent) + 1) -> Nat] :
        Layout(start) /\ Consumed = start[Len(handed) + 1]

\* What Session::Recv knows where it is.  That the data ends below the limit
\* when it posts a receive is why the receive has room.
KnownAt ==
    /\ pc \in {"handle", "post", "posted"} => num = 0
    /\ pc = "handle" => /\ DataSize >= HeaderSize
                        /\ DataSize >= buffer[readPos].size
    /\ pc \in {"post", "posted"} => writePos <= Limit
    /\ NeverDropped

IInv == /\ TypeOK /\ Received /\ IsPacket /\ AtBoundary /\ DataInPlace
        /\ KnownAt

\* A packet is a sequence of as many bytes as its first one says.
LEMMA PacketShape ==
    \A k \in 1..MaxPackets, n \in Sizes :
        /\ Packet(k, n) \in Seq(Bytes) /\ Len(Packet(k, n)) = n
        /\ n \in Nat /\ 1 <= n /\ Packet(k, n)[1].size = n
<1> SUFFICES ASSUME NEW k \in 1..MaxPackets, NEW n \in Sizes
             PROVE  /\ Packet(k, n) \in Seq(Bytes) /\ Len(Packet(k, n)) = n
                    /\ n \in Nat /\ 1 <= n /\ Packet(k, n)[1].size = n
  OBVIOUS
<1>1. n \in Nat /\ 1 <= n
  BY SizeAssumption
<1>2. \A i \in 1..n : [pkt |-> k, off |-> i, size |-> IF i = 1 THEN n ELSE 0]
                        \in Bytes
  BY <1>1 DEF Bytes
<1> QED
  BY <1>1, <1>2 DEF Packet

\* If there is data, the first byte of it is the first of the packet that is
\* to be handed over next.
LEMMA FirstByte ==
    ASSUME IInv, DataSize + num >= 1
    PROVE  /\ Len(handed) + 1 \in 1..Len(sent)
           /\ \E n \in Sizes :
                /\ sent[Len(handed) + 1] = Packet(Len(handed) + 1, n)
                /\ buffer[readPos].size = n
                /\ \A i \in 1..n : i <= DataSize + num =>
                    buffer[readPos + i - 1] = sent[Len(handed) + 1][i]
<1> DEFINE k == Len(handed) + 1
<1>1. PICK start \in [1..(Len(sent) + 1) -> Nat] :
        Layout(start) /\ Consumed = start[k]
  BY DEF IInv, AtBoundary
<1>2. /\ arrived \in Nat /\ readPos \in Nat /\ writePos \in Nat /\ num \in Nat
      /\ Len(handed) \in Nat /\ Len(sent) \in Nat /\ Len(stream) \in Nat
      /\ Len(handed) <= Len(sent) /\ readPos <= writePos
  BY SizeAssumption, LenProperties DEF IInv, TypeOK, AtBoundary
<1>3. k \in 1..Len(sent)
  <2>1. start[k] < Len(stream)
    BY <1>1, <1>2 DEF IInv, Received, Consumed, DataSize
  <2>2. k # Len(sent) + 1
    BY <1>1, <1>2, <2>1 DEF Layout
  <2> QED
    BY <1>2, <2>2
<1>4. PICK n \in Sizes : sent[k] = Packet(k, n)
  BY <1>3 DEF IInv, IsPacket
<1>5. /\ Len(sent[k]) = n /\ 1 <= n /\ n \in Nat /\ sent[k][1].size = n
  BY <1>2, <1>3, <1>4, PacketShape, SizeAssumption DEF IInv, IsPacket
<1>6. \A i \in 1..n : stream[start[k] + i] = sent[k][i]
  BY <1>1, <1>3, <1>5 DEF Layout
<1>7. start[k] = arrived - (DataSize + num)
  BY <1>1 DEF Consumed
<1>8. \A i \in 1..n : i <= DataSize + num =>
        buffer[readPos + i - 1] = sent[k][i]
  <2> SUFFICES ASSUME NEW i \in 1..n, i <= DataSize + num
               PROVE  buffer[readPos + i - 1] = sent[k][i]
    OBVIOUS
  <2>1. readPos + i - 1 \in readPos..(writePos + num - 1)
    BY <1>2, <1>5 DEF DataSize
  <2>2. buffer[readPos + i - 1]
          = stream[arrived - (writePos + num) + (readPos + i - 1) + 1]
    BY <2>1 DEF IInv, DataInPlace
  <2>3. arrived - (writePos + num) + (readPos + i - 1) + 1 = start[k] + i
    BY <1>2, <1>5, <1>7 DEF DataSize
  <2> QED
    BY <1>6, <2>2, <2>3
<1>9. buffer[readPos].size = n
  <2>1. 1 \in 1..n /\ readPos + 1 - 1 = readPos
    BY <1>2, <1>5
  <2> QED
    BY <1>5, <1>8, <2>1
<1> QED
  BY <1>3, <1>4, <1>8, <1>9

-----------------------------------------------------------------------------
\* At the start nothing has been sent.
LEMMA InitIInv == Init => IInv
<1> SUFFICES ASSUME Init PROVE IInv
  OBVIOUS
<1> USE SizeAssumption DEF Init
<1>1. TypeOK
  BY EmptySeq DEF TypeOK, Junk
<1>2. Len(sent) = 0 /\ Len(stream) = 0 /\ Len(handed) = 0
  BY EmptySeq
<1>3. AtBoundary
  <2> DEFINE start == [k \in 1..(Len(sent) + 1) |-> 0]
  <2>1. start \in [1..(Len(sent) + 1) -> Nat] /\ start[1] = 0
    BY <1>2
  <2>2. Layout(start)
    BY <1>2, <2>1 DEF Layout
  <2>3. Consumed = start[Len(handed) + 1]
    BY <1>2, <2>1 DEF Consumed, DataSize
  <2> QED
    BY <1>2, <2>1, <2>2, <2>3 DEF AtBoundary
<1> QED
  BY <1>1, <1>2, <1>3
     DEF IInv, Received, IsPacket, DataInPlace, KnownAt, NeverDropped, DataSize

LEMMA BytesConcat ==
    \A a, b \in Seq(Bytes) :
        /\ a \o b \in Seq(Bytes) /\ Len(a \o b) = Len(a) + Len(b)
        /\ \A i \in 1..Len(a) : (a \o b)[i] = a[i]
        /\ \A i \in 1..Len(b) : (a \o b)[Len(a) + i] = b[i]
<1> TAKE a, b \in Seq(Bytes)
<1>1. Len(a) \in Nat /\ Len(b) \in Nat
  BY LenProperties
<1>2. /\ a \o b \in Seq(Bytes) /\ Len(a \o b) = Len(a) + Len(b)
      /\ \A i \in 1..(Len(a) + Len(b)) :
            (a \o b)[i] = IF i <= Len(a) THEN a[i] ELSE b[i - Len(a)]
  BY ConcatProperties, Zenon
<1>3. \A i \in 1..Len(a) : (a \o b)[i] = a[i]
  BY <1>1, <1>2
<1>4. ASSUME NEW i \in 1..Len(b)
      PROVE  (a \o b)[Len(a) + i] = b[i]
  <2>1. /\ Len(a) + i \in 1..(Len(a) + Len(b)) /\ ~(Len(a) + i <= Len(a))
        /\ Len(a) + i - Len(a) = i
    BY <1>1
  <2> QED
    BY <1>2, <2>1
<1> QED
  BY <1>2, <1>3, <1>4

\* The client's send appends one packet to the stream.
LEMMA SendStep ==
    ASSUME IInv, NEW n \in Sizes, Send(n)
    PROVE  IInv'
<1> DEFINE k == Len(sent) + 1
           p == Packet(k, n)
<1>1. /\ Len(sent) \in Nat /\ Len(stream) \in Nat /\ k \in 1..MaxPackets
      /\ sent \in Seq(Seq(Bytes)) /\ stream \in Seq(Bytes)
      /\ arrived \in Nat /\ Len(handed) \in Nat
  BY SizeAssumption, LenProperties DEF IInv, TypeOK, Send
<1>2. p \in Seq(Bytes) /\ Len(p) = n /\ n \in Nat
  BY <1>1, PacketShape
<1>3. /\ sent' = Append(sent, p) /\ stream' = stream \o p
      /\ UNCHANGED <<arrived, buffer, readPos, writePos, num, handed, pc>>
  BY DEF Send
<1> HIDE DEF p
<1>4. /\ sent' \in Seq(Seq(Bytes)) /\ Len(sent') = k /\ sent'[k] = p
      /\ \A j \in 1..Len(sent) : sent'[j] = sent[j]
  BY <1>1, <1>2, <1>3, AppendProperties
<1>5. /\ stream' \in Seq(Bytes) /\ Len(stream') = Len(stream) + n
      /\ \A i \in 1..Len(stream) : stream'[i] = stream[i]
      /\ \A i \in 1..n : stream'[Len(stream) + i] = p[i]
  BY <1>1, <1>2, <1>3, BytesConcat
<1>6. TypeOK'
  BY <1>3, <1>4, <1>5 DEF IInv, TypeOK
<1>7. Received' /\ KnownAt'
  BY <1>1, <1>2, <1>3, <1>5
     DEF IInv, Received, KnownAt, NeverDropped, DataSize
<1>8. IsPacket'
  <2> SUFFICES ASSUME NEW j \in 1..Len(sent')
               PROVE  \E m \in Sizes : sent'[j] = Packet(j, m)
    BY <1>1, <1>4 DEF IsPacket
  <2>1. CASE j = k
    BY <1>4, <2>1 DEF p
  <2>2. CASE j # k
    <3>1. j \in 1..Len(sent)
      BY <1>1, <1>4, <2>2
    <3> QED
      BY <1>4, <3>1 DEF IInv, IsPacket
  <2> QED
    BY <2>1, <2>2
<1>9. DataInPlace'
  <2> SUFFICES ASSUME NEW i \in readPos..(writePos + num - 1)
               PROVE  buffer[i] = stream'[arrived - (writePos + num) + i + 1]
    BY <1>3 DEF DataInPlace
  <2>1. arrived - (writePos + num) + i + 1 \in 1..Len(stream)
    BY <1>1, SizeAssumption DEF IInv, Received, TypeOK, DataSize
  <2> QED
    BY <1>5, <2>1 DEF IInv, DataInPlace
<1>10. AtBoundary'
  <2>1. PICK start \in [1..(Len(sent) + 1) -> Nat] :
          Layout(start) /\ Consumed = start[Len(handed) + 1]
    BY DEF IInv, AtBoundary
  <2>2. PICK next : next = [j \in 1..(k + 1) |->
                     IF j = k + 1 THEN Len(stream) + n ELSE start[j]]
    OBVIOUS
  <2>3. /\ next \in [1..(Len(sent') + 1) -> Nat]
        /\ \A j \in 1..k : next[j] = start[j]
        /\ next[k + 1] = Len(stream) + n
    BY <1>1, <1>2, <1>4, <2>2
  <2>4. next[1] = 0 /\ next[k] = Len(stream) /\ next[k + 1] = Len(stream')
    <3>1. 1 \in 1..k /\ k \in 1..k
      BY <1>1
    <3> QED
      BY <1>5, <2>1, <2>3, <3>1 DEF Layout
  <2>5. ASSUME NEW j \in 1..Len(sent')
        PROVE  /\ next[j + 1] = next[j] + Len(sent'[j])
               /\ next[j + 1] <= Len(stream')
               /\ \A i \in 1..Len(sent'[j]) :
                    stream'[next[j] + i] = sent'[j][i]
    <3>1. CASE j = k
      <4>1. sent'[j] = p /\ next[j] = Len(stream)
            /\ next[j + 1] = Len(stream) + n
        BY <1>4, <2>3, <2>4, <3>1
      <4>2. Len(sent'[j]) = n /\ Len(stream) + n <= Len(stream')
        BY <1>1, <1>2, <1>5, <4>1
      <4>3. \A i \in 1..n : stream'[Len(stream) + i] = p[i]
        BY <1>5
      <4> QED
        BY <4>1, <4>2, <4>3
    <3>2. CASE j # k
      <4>1. j \in 1..Len(sent) /\ j \in 1..k /\ j + 1 \in 1..k
        BY <1>1, <1>4, <3>2
      <4>2. /\ next[j] = start[j] /\ next[j + 1] = start[j + 1]
            /\ sent'[j] = sent[j] /\ start[j] \in Nat /\ sent[j] \in Seq(Bytes)
        BY <1>1, <1>4, <2>1, <2>3, <4>1, ElementOfSeq
      <4>3. /\ start[j + 1] = start[j] + Len(sent[j])
            /\ start[j + 1] <= Len(stream)
            /\ \A i \in 1..Len(sent[j]) : stream[start[j] + i] = sent[j][i]
        BY <2>1, <4>1 DEF Layout
      <4>4. Len(sent[j]) \in Nat
        BY <4>2, LenProperties
      <4>5. \A i \in 1..Len(sent[j]) : start[j] + i \in 1..Len(stream)
        BY <1>1, <4>2, <4>3, <4>4
      <4>6. \A i \in 1..Len(sent[j]) :
                stream'[start[j] + i] = stream[start[j] + i]
        BY <1>5, <4>5
      <4>7. start[j + 1] <= Len(stream')
        BY <1>1, <1>2, <1>5, <4>2, <4>3, <4>4
      <4> QED
        BY <4>2, <4>3, <4>6, <4>7
    <3> QED
      BY <3>1, <3>2
  <2>6. Layout(next)'
    BY <1>4, <2>4, <2>5 DEF Layout
  <2>7. Consumed' = next[Len(handed') + 1] /\ Len(handed') <= Len(sent')
    <3>1. Len(handed) + 1 \in 1..k /\ Len(handed) <= Len(sent')
      BY <1>1, <1>4 DEF IInv, AtBoundary
    <3> QED
      BY <1>3, <2>1, <2>3, <3>1 DEF Consumed, DataSize
  <2> QED
    BY <2>3, <2>6, <2>7 DEF AtBoundary
<1> QED
  BY <1>6, <1>7, <1>8, <1>9, <1>10 DEF IInv

\* The numbers of the invariant, for the arithmetic below.
LEMMA Numbers ==
    IInv => /\ arrived \in Nat /\ readPos \in Nat /\ writePos \in Nat
            /\ num \in Nat /\ readPos <= writePos /\ writePos + num <= Length
            /\ Length \in Nat /\ Limit \in Nat /\ Limit < Length
            /\ HeaderSize \in Nat /\ 1 <= HeaderSize
            /\ Len(sent) \in Nat /\ Len(stream) \in Nat /\ Len(handed) \in Nat
            /\ Len(handed) <= Len(sent)
            /\ arrived <= Len(stream)
            /\ writePos - readPos + num <= arrived
BY SizeAssumption, LenProperties
   DEF IInv, TypeOK, AtBoundary, Received, DataSize

\* A byte of the stream is one.
LEMMA StreamBytes ==
    IInv => \A i \in 1..Len(stream) : stream[i] \in Bytes
BY ElementOfSeq DEF IInv, TypeOK

\* As long as what has been sent, handed over and consumed stays the same,
\* what has left the buffer stays the packets handed over.
LEMMA SameBoundary ==
    ASSUME IInv, UNCHANGED <<sent, stream, handed>>, Consumed' = Consumed
    PROVE  AtBoundary' /\ IsPacket'
BY DEF IInv, AtBoundary, Layout, IsPacket

\* A receive completes: the next bytes of the stream lie behind the data.
LEMMA ArriveStep ==
    ASSUME IInv, NEW n \in 1..Length, Arrive(n)
    PROVE  IInv'
<1>1. /\ n \in Nat /\ n <= Len(stream) - arrived /\ n <= Length - writePos
      /\ arrived' = arrived + n /\ num' = n /\ pc' = "read"
      /\ UNCHANGED <<sent, stream, readPos, writePos, handed>>
  BY Numbers DEF Arrive, FreeSize
<1>2. num = 0
  BY DEF Arrive, IInv, KnownAt
<1>b. buffer' = [i \in 0..(Length - 1) |->
                  IF writePos <= i /\ i < writePos + n
                  THEN stream[arrived + 1 + (i - writePos)] ELSE buffer[i]]
  BY DEF Arrive
<1>n. /\ arrived \in Nat /\ readPos \in Nat /\ writePos \in Nat
      /\ Length \in Nat /\ Len(stream) \in Nat /\ arrived <= Len(stream)
      /\ readPos <= writePos
  BY Numbers
<1>3. TypeOK'
  <2>1. ASSUME NEW i \in 0..(Length - 1)
        PROVE  buffer'[i] \in Bytes \cup {Junk}
    <3>1. CASE writePos <= i /\ i < writePos + n
      <4>1. arrived + 1 + (i - writePos) \in 1..Len(stream)
        BY <1>1, <1>n, <3>1
      <4> QED
        BY <1>b, <3>1, <4>1, StreamBytes
    <3>2. CASE ~(writePos <= i /\ i < writePos + n)
      BY <1>b, <3>2 DEF IInv, TypeOK
    <3> QED
      BY <3>1, <3>2
  <2>2. buffer' \in [0..(Length - 1) -> Bytes \cup {Junk}]
    BY <1>b, <2>1
  <2>3. arrived' \in Nat /\ num' \in 0..Length /\ writePos' + num' <= Length
    BY <1>1, Numbers
  <2> QED
    BY <1>1, <2>2, <2>3 DEF IInv, TypeOK
<1>4. Received' /\ Consumed' = Consumed
  BY <1>1, <1>2, Numbers DEF Received, Consumed, DataSize
<1>5. DataInPlace'
  <2> SUFFICES ASSUME NEW i \in readPos..(writePos + n - 1)
               PROVE  buffer'[i] = stream[arrived + n - (writePos + n) + i + 1]
    <3>1. arrived' - (writePos' + num') = arrived + n - (writePos + n)
      BY <1>1, <1>n
    <3>2. writePos' + num' - 1 = writePos + n - 1 /\ readPos' = readPos
      BY <1>1, <1>n
    <3> QED
      BY <1>1, <3>1, <3>2 DEF DataInPlace
  <2>1. i \in 0..(Length - 1) /\ i \in Nat
    BY <1>1, <1>n
  <2>2. CASE i < writePos
    <3>1. buffer'[i] = buffer[i]
      BY <1>b, <1>1, <2>1, <2>2, <1>n
    <3>2. buffer[i] = stream[arrived - (writePos + num) + i + 1]
      <4>1. i \in readPos..(writePos + num - 1)
        BY <1>2, <2>2, Numbers
      <4> QED
        BY <4>1 DEF IInv, DataInPlace
    <3>3. arrived - (writePos + num) + i + 1
            = arrived + n - (writePos + n) + i + 1
      BY <1>1, <1>2, <2>1, Numbers
    <3> QED
      BY <3>1, <3>2, <3>3
  <2>3. CASE writePos <= i
    <3>1. i < writePos + n
      BY <1>1, <1>n, <2>1
    <3>2. buffer'[i] = stream[arrived + 1 + (i - writePos)]
      BY <1>b, <2>1, <2>3, <3>1
    <3>3. arrived + 1 + (i - writePos) = arrived + n - (writePos + n) + i + 1
      BY <1>1, <2>1, <1>n
    <3> QED
      BY <3>2, <3>3
  <2> QED
    BY <2>1, <2>2, <2>3, Numbers
<1>6. KnownAt'
  BY <1>1 DEF KnownAt, NeverDropped
<1> QED
  BY <1>1, <1>3, <1>4, <1>5, <1>6, SameBoundary DEF IInv

\* Read takes the bytes over, with or without moving the data down.  When it
\* moves the data and they still pass the limit, they begin with a whole
\* packet, so the receive is posted only after some of them are handled.
LEMMA ReadStep ==
    ASSUME IInv, Read
    PROVE  IInv'
<1>1. /\ pc = "read" /\ num' = 0
      /\ pc' = IF /\ writePos' - readPos' >= HeaderSize
                  /\ writePos' - readPos' >= buffer'[readPos'].size
               THEN "handle" ELSE "post"
      /\ UNCHANGED <<sent, stream, arrived, handed>>
  BY DEF Read
<1>2. /\ readPos' \in Nat /\ writePos' \in Nat /\ readPos' <= writePos'
      /\ writePos' <= Length /\ writePos' - readPos' = writePos - readPos + num
      /\ buffer' \in [0..(Length - 1) -> Bytes \cup {Junk}]
      /\ DataInPlace' /\ (pc' = "post" => writePos' <= Limit)
  <2>1. CASE TooFar
    <3>1. /\ buffer' = Moved /\ readPos' = 0
          /\ writePos' = writePos - readPos + num
      BY <2>1 DEF Read, Place, MovedWritePos, DataSize
    <3>2. ASSUME NEW i \in 0..(Length - 1)
          PROVE  /\ buffer'[i] \in Bytes \cup {Junk}
                 /\ i < writePos - readPos + num
                        => buffer'[i] = buffer[readPos + i]
      <4>1. CASE i < writePos - readPos + num
        <5>1. readPos + i \in 0..(Length - 1)
          BY <4>1, Numbers
        <5> QED
          BY <3>1, <4>1, <5>1 DEF Moved, DataSize, IInv, TypeOK
      <4>2. CASE ~(i < writePos - readPos + num)
        BY <3>1, <4>2 DEF Moved, DataSize, IInv, TypeOK
      <4> QED
        BY <4>1, <4>2
    <3>3. buffer' \in [0..(Length - 1) -> Bytes \cup {Junk}]
      BY <3>1, <3>2 DEF Moved
    <3>4. DataInPlace'
      <4> SUFFICES ASSUME NEW i \in 0..(writePos - readPos + num - 1)
                   PROVE  buffer'[i] =
                            stream[arrived - (writePos - readPos + num) + i + 1]
        <5>1. /\ writePos' + num' = writePos - readPos + num
              /\ writePos' + num' - 1 = writePos - readPos + num - 1
              /\ arrived' - (writePos' + num')
                    = arrived - (writePos - readPos + num)
          BY <1>1, <3>1, Numbers
        <5> QED
          BY <1>1, <3>1, <5>1 DEF DataInPlace
      <4>1. /\ i \in 0..(Length - 1) /\ i < writePos - readPos + num
            /\ readPos + i \in readPos..(writePos + num - 1)
        BY Numbers
      <4>2. buffer'[i] = buffer[readPos + i]
        BY <3>2, <4>1
      <4>3. buffer[readPos + i]
              = stream[arrived - (writePos + num) + (readPos + i) + 1]
        BY <4>1 DEF IInv, DataInPlace
      <4>4. arrived - (writePos + num) + (readPos + i) + 1
              = arrived - (writePos - readPos + num) + i + 1
        BY Numbers
      <4> QED
        BY <4>2, <4>3, <4>4
    <3>5. ASSUME pc' = "post" PROVE writePos' <= Limit
      <4> SUFFICES ASSUME ~(writePos - readPos + num <= Limit) PROVE FALSE
        BY <3>1
      <4>1. DataSize + num >= 1
        BY Numbers DEF DataSize
      <4>2. PICK n \in Sizes : buffer[readPos].size = n
        BY <4>1, FirstByte
      <4>3. n \in Nat /\ HeaderSize <= n /\ n <= Limit
        BY SizeAssumption
      <4>4. buffer'[0] = buffer[readPos]
        <5>1. /\ 0 \in 0..(Length - 1) /\ 0 < writePos - readPos + num
              /\ readPos + 0 = readPos
          BY Numbers
        <5> QED
          BY <3>2, <5>1
      <4>5. /\ writePos' - readPos' >= HeaderSize
            /\ writePos' - readPos' >= buffer'[readPos'].size
        BY <3>1, <4>2, <4>3, <4>4, Numbers
      <4> QED
        BY <1>1, <3>5, <4>5
    <3> QED
      BY <3>1, <3>3, <3>4, <3>5, Numbers
  <2>2. CASE ~TooFar
    <3>1. /\ buffer' = buffer /\ readPos' = readPos
          /\ writePos' = writePos + num /\ writePos + num <= Limit
      BY <2>2, Numbers DEF Read, Place, TooFar
    <3>2. DataInPlace'
      <4>1. /\ writePos' + num' = writePos + num
            /\ writePos' + num' - 1 = writePos + num - 1
            /\ arrived' - (writePos' + num') = arrived - (writePos + num)
        BY <1>1, <3>1, Numbers
      <4>2. UNCHANGED <<stream, arrived, buffer, readPos>>
        BY <1>1, <3>1
      <4> QED
        BY <4>1, <4>2 DEF IInv, DataInPlace
    <3> QED
      BY <3>1, <3>2, Numbers DEF IInv, TypeOK
  <2> QED
    BY <2>1, <2>2
<1>3. TypeOK'
  BY <1>1, <1>2, Numbers DEF IInv, TypeOK
<1>4. Received' /\ Consumed' = Consumed
  BY <1>1, <1>2, Numbers DEF Received, Consumed, DataSize
<1>5. KnownAt'
  BY <1>1, <1>2 DEF KnownAt, NeverDropped, DataSize
<1> QED
  BY <1>1, <1>2, <1>3, <1>4, <1>5, SameBoundary DEF IInv

\* OnRecv gets the next packet the client sent, whole.
LEMMA HandledPacket ==
    ASSUME IInv, Handle
    PROVE  /\ Len(handed) + 1 \in 1..Len(sent)
           /\ handed' = Append(handed, sent[Len(handed) + 1])
           /\ buffer[readPos].size = Len(sent[Len(handed) + 1])
<1> DEFINE k == Len(handed) + 1
<1>1. num = 0 /\ DataSize >= HeaderSize /\ DataSize >= buffer[readPos].size
  BY DEF IInv, KnownAt, Handle
<1>2. DataSize + num >= 1
  BY <1>1, Numbers DEF DataSize
<1>3. PICK n \in Sizes :
        /\ sent[k] = Packet(k, n) /\ buffer[readPos].size = n
        /\ \A i \in 1..n : i <= DataSize + num =>
            buffer[readPos + i - 1] = sent[k][i]
  BY <1>2, FirstByte
<1>4. k \in 1..Len(sent)
  BY <1>2, FirstByte
<1>5. \A i \in 1..n : buffer[readPos + i - 1] = sent[k][i]
  BY <1>1, <1>3, SizeAssumption, Numbers DEF DataSize
<1>6. [i \in 1..n |-> buffer[readPos + i - 1]] = sent[k]
  <2>1. sent[k] = [i \in 1..n |-> sent[k][i]]
    BY <1>3 DEF Packet
  <2> QED
    BY <1>5, <2>1
<1>7. k \in 1..MaxPackets
  BY <1>4, Numbers, SizeAssumption DEF IInv, IsPacket
<1>8. Len(sent[k]) = n
  BY <1>3, <1>7, PacketShape
<1> QED
  BY <1>3, <1>4, <1>6, <1>8 DEF Handle

LEMMA HandleStep ==
    ASSUME IInv, Handle
    PROVE  IInv'
<1> DEFINE k == Len(handed) + 1
           n == buffer[readPos].size
<1>1. /\ k \in 1..Len(sent) /\ handed' = Append(handed, sent[k])
      /\ n = Len(sent[k])
  BY HandledPacket
<1>2. /\ pc' = "read" /\ num = 0 /\ DataSize >= n
      /\ UNCHANGED <<sent, stream, arrived, buffer, num>>
      /\ IF readPos + n = writePos THEN readPos' = 0 /\ writePos' = 0
         ELSE readPos' = readPos + n /\ writePos' = writePos
  BY DEF IInv, KnownAt, Handle, AfterHandle
<1>3. sent[k] \in Seq(Bytes) /\ n \in Nat
  <2>1. sent[k] \in Seq(Bytes)
    BY <1>1, ElementOfSeq DEF IInv, TypeOK
  <2> QED
    BY <1>1, <2>1, LenProperties
<1> HIDE DEF n
<1>4. /\ handed' \in Seq(Seq(Bytes)) /\ Len(handed') = Len(handed) + 1
  BY <1>1, <1>3, AppendProperties DEF IInv, TypeOK
<1>5. /\ readPos \in Nat /\ writePos \in Nat /\ arrived \in Nat
      /\ Len(stream) \in Nat /\ writePos <= Length /\ Length \in Nat
      /\ writePos - readPos <= arrived /\ arrived <= Len(stream)
      /\ readPos + n <= writePos
  BY <1>2, <1>3, Numbers DEF DataSize
<1>6. /\ TypeOK' /\ Received' /\ Consumed' = Consumed + n /\ DataInPlace'
  <2>1. CASE readPos + n = writePos
    <3>1. readPos' = 0 /\ writePos' = 0
      BY <1>2, <2>1
    <3>2. TypeOK'
      BY <1>2, <1>4, <1>5, <3>1 DEF IInv, TypeOK
    <3>3. Received' /\ Consumed' = Consumed + n
      BY <1>2, <1>3, <1>5, <2>1, <3>1 DEF Received, Consumed, DataSize
    <3>4. DataInPlace'
      BY <1>2, <3>1 DEF DataInPlace
    <3> QED
      BY <3>2, <3>3, <3>4
  <2>2. CASE readPos + n # writePos
    <3>1. readPos' = readPos + n /\ writePos' = writePos
      BY <1>2, <2>2
    <3>2. TypeOK'
      BY <1>2, <1>3, <1>4, <1>5, <3>1 DEF IInv, TypeOK
    <3>3. Received' /\ Consumed' = Consumed + n
      BY <1>2, <1>3, <1>5, <3>1 DEF Received, Consumed, DataSize
    <3>4. DataInPlace'
      <4>1. ASSUME NEW i \in (readPos + n)..(writePos + num - 1)
            PROVE  buffer[i] = stream[arrived - (writePos + num) + i + 1]
        <5>1. i \in readPos..(writePos + num - 1)
          BY <1>2, <1>3, <1>5
        <5> QED
          BY <5>1 DEF IInv, DataInPlace
      <4> QED
        BY <1>2, <3>1, <4>1 DEF DataInPlace
    <3> QED
      BY <3>2, <3>3, <3>4
  <2> QED
    BY <2>1, <2>2
<1>7. AtBoundary'
  <2>1. PICK start \in [1..(Len(sent) + 1) -> Nat] :
          Layout(start) /\ Consumed = start[k]
    BY DEF IInv, AtBoundary
  <2>2. start[k + 1] = start[k] + n
    BY <1>1, <2>1 DEF Layout
  <2>3. Consumed' = start[Len(handed') + 1]
    BY <1>4, <1>6, <2>1, <2>2
  <2>4. Layout(start)' /\ start \in [1..(Len(sent') + 1) -> Nat]
    BY <1>2, <2>1 DEF Layout
  <2>5. Len(handed') <= Len(sent')
    BY <1>1, <1>2, <1>4, Numbers
  <2> QED
    BY <2>3, <2>4, <2>5 DEF AtBoundary
<1>8. IsPacket' /\ KnownAt'
  BY <1>2 DEF IInv, IsPacket, KnownAt, NeverDropped
<1> QED
  BY <1>6, <1>7, <1>8 DEF IInv

\* There is room for the receive, for the data ends below the limit.
LEMMA PostStep ==
    ASSUME IInv, Post
    PROVE  IInv'
<1>1. /\ pc = "post" /\ pc' = IF FreeSize = 0 THEN "dropped" ELSE "posted"
      /\ UNCHANGED <<sent, stream, arrived, buffer, readPos, writePos, num,
                     handed>>
  BY DEF Post
<1>2. pc' = "posted"
  BY <1>1, Numbers DEF IInv, KnownAt, FreeSize
<1>3. Consumed' = Consumed /\ Received'
  BY <1>1 DEF IInv, Consumed, Received, DataSize
<1>4. TypeOK' /\ DataInPlace'
  BY <1>1, <1>2 DEF IInv, TypeOK, DataInPlace
<1>5. KnownAt'
  BY <1>1, <1>2 DEF IInv, KnownAt, NeverDropped
<1> QED
  BY <1>1, <1>3, <1>4, <1>5, SameBoundary DEF IInv

LEMMA StutterStep ==
    ASSUME IInv, UNCHANGED vars
    PROVE  IInv'
<1>1. UNCHANGED <<sent, stream, arrived, buffer, readPos, writePos, num,
                  handed, pc>>
  BY DEF vars
<1>2. Consumed' = Consumed /\ Received'
  BY <1>1 DEF IInv, Consumed, Received, DataSize
<1>3. TypeOK' /\ DataInPlace'
  BY <1>1 DEF IInv, TypeOK, DataInPlace
<1>4. KnownAt'
  BY <1>1 DEF IInv, KnownAt, NeverDropped, DataSize
<1> QED
  BY <1>1, <1>2, <1>3, <1>4, SameBoundary DEF IInv

LEMMA IInvCorrect == Spec => []IInv
<1>1. ASSUME IInv, [Next]_vars PROVE IInv'
  <2>1. CASE Read
    BY <1>1, <2>1, ReadStep
  <2>2. CASE Handle
    BY <1>1, <2>2, HandleStep
  <2>3. CASE Post
    BY <1>1, <2>3, PostStep
  <2>4. CASE \E n \in 1..Length : Arrive(n)
    BY <1>1, <2>4, ArriveStep
  <2>5. CASE \E n \in Sizes : Send(n)
    BY <1>1, <2>5, SendStep
  <2>6. CASE UNCHANGED vars
    BY <1>1, <2>6, StutterStep
  <2> QED
    BY <1>1, <2>1, <2>2, <2>3, <2>4, <2>5, <2>6 DEF Next, Recv, Network
<1> QED
  BY InitIInv, <1>1, PTL DEF Spec

\* The type invariant of RecvBuffer, for every size and every cutting of the
\* stream: the positions stay within the buffer and in order.
THEOREM TypeSafe == Spec => []TypeOK
BY IInvCorrect, PTL DEF IInv

\* Wherever Read's moves leave the data, what lies between _readPos and
\* _writePos is the part of the client's stream that comes next.
THEOREM DataStaysInPlace == Spec => []DataInPlace
BY IInvCorrect, PTL DEF IInv

\* Session::Recv never posts a receive without room, so a client that sends
\* packets of legal size is never taken for one that left.
THEOREM RoomIsLeft == Spec => []NeverDropped
<1>1. IInv => NeverDropped
  BY DEF IInv, KnownAt
<1> QED
  BY <1>1, IInvCorrect, PTL

-----------------------------------------------------------------------------
\* Cutting the front off a sequence and putting an element behind it do not
\* disturb each other.
LEMMA AppendToRest ==
    ASSUME NEW s \in Seq(Seq(Bytes)), NEW e \in Seq(Bytes),
           NEW m \in 1..(Len(s) + 1)
    PROVE  SubSeq(Append(s, e), m, Len(s) + 1) = Append(SubSeq(s, m, Len(s)), e)
<1> DEFINE l == Len(s)
           t == Append(s, e)
           left == SubSeq(t, m, l + 1)
           rest == SubSeq(s, m, l)
           right == Append(rest, e)
<1>1. /\ l \in Nat /\ t \in Seq(Seq(Bytes)) /\ Len(t) = l + 1
      /\ \A i \in 1..l : t[i] = s[i] /\ s[i] \in Seq(Bytes)
      /\ t[l + 1] = e
  BY LenProperties, AppendProperties, ElementOfSeq
<1>2. \A i \in m..(l + 1) : t[i] \in Seq(Bytes)
  BY <1>1
<1>3. /\ left \in Seq(Seq(Bytes)) /\ Len(left) = l + 1 - m + 1
      /\ \A i \in 1..(l + 1 - m + 1) : left[i] = t[m + i - 1]
  <2>1. PICK h : h = l + 1
    OBVIOUS
  <2>2. m \in Int /\ h \in Int /\ m <= h
    BY <1>1, <2>1
  <2> HIDE DEF l, t
  <2>3. \A i \in m..h : t[i] \in Seq(Bytes)
    BY <1>2, <2>1
  <2>4. /\ SubSeq(t, m, h) \in Seq(Seq(Bytes))
        /\ Len(SubSeq(t, m, h)) = IF m <= h THEN h - m + 1 ELSE 0
        /\ \A i \in 1..(h - m + 1) : SubSeq(t, m, h)[i] = t[m + i - 1]
    BY <2>2, <2>3, SubSeqProperties
  <2>5. Len(SubSeq(t, m, h)) = h - m + 1
    BY <2>2, <2>4
  <2> QED
    BY <1>1, <2>1, <2>2, <2>4, <2>5
<1>4. /\ rest \in Seq(Seq(Bytes)) /\ Len(rest) = l - m + 1
      /\ \A i \in 1..(l - m + 1) : rest[i] = s[m + i - 1]
  <2>1. m \in Int /\ l \in Int /\ m <= l + 1
    BY <1>1
  <2>2. \A i \in m..l : s[i] \in Seq(Bytes)
    BY <1>1
  <2> HIDE DEF l
  <2>3. /\ rest \in Seq(Seq(Bytes))
        /\ Len(rest) = IF m <= l THEN l - m + 1 ELSE 0
        /\ \A i \in 1..(l - m + 1) : rest[i] = s[m + i - 1]
    BY <2>1, <2>2, SubSeqProperties
  <2> QED
    BY <2>1, <2>3
<1> HIDE DEF left, rest, t, l
<1>5. /\ right \in Seq(Seq(Bytes)) /\ Len(right) = l - m + 1 + 1
      /\ \A i \in 1..(l - m + 1) : right[i] = rest[i]
      /\ right[l - m + 1 + 1] = e
  BY <1>4, AppendProperties
<1> HIDE DEF right
<1>6. m \in Int /\ 1 <= m /\ m <= l + 1
  BY <1>1 DEF l
<1>7. ASSUME NEW i \in 1..Len(left) PROVE left[i] = right[i]
  <2>1. CASE i = l - m + 1 + 1
    <3>1. i \in 1..(l + 1 - m + 1) /\ m + i - 1 = l + 1
      BY <1>1, <1>6, <2>1
    <3>2. left[i] = t[l + 1]
      BY <1>3, <3>1
    <3> QED
      BY <1>1, <1>5, <2>1, <3>2
  <2>2. CASE i # l - m + 1 + 1
    <3>1. i \in 1..(l - m + 1) /\ i \in 1..(l + 1 - m + 1) /\ m + i - 1 \in 1..l
      BY <1>1, <1>3, <1>6, <2>2
    <3> QED
      BY <1>1, <1>3, <1>4, <1>5, <3>1
  <2> QED
    BY <2>1, <2>2
<1>8. Len(left) = Len(right)
  BY <1>1, <1>3, <1>5, <1>6
<1>9. left = right
  BY <1>3, <1>5, <1>7, <1>8, SeqEqual
<1> QED
  BY <1>9 DEF left, right, rest, t, l

\* Sending is a Put, OnRecv is a Take, and how the bytes arrived and were
\* moved is invisible: packets come out whole, once and in order.
THEOREM ImplementsFifo == Spec => IsFifoChannel
<1>1. Init => Channel!Init
  <2> SUFFICES ASSUME Init PROVE Channel!Init
    OBVIOUS
  <2>1. sent = << >> /\ handed = << >>
    BY DEF Init
  <2>2. SubSeq(sent, 1, 0) = << >>
    BY SubSeqEmpty
  <2> QED
    BY <2>1, <2>2 DEF Channel!Init, Waiting
<1>2. IInv /\ [Next]_vars => [Channel!Next]_(Channel!vars)
  <2> SUFFICES ASSUME IInv, [Next]_vars
               PROVE  Channel!Next \/ UNCHANGED Channel!vars
    OBVIOUS
  <2>1. ASSUME NEW n \in Sizes, Send(n) PROVE Channel!Next
    <3>1. PICK p : p = Packet(Len(sent) + 1, n)
      OBVIOUS
    <3>2. Len(sent) + 1 \in 1..MaxPackets
      BY <2>1, Numbers, SizeAssumption DEF Send
    <3>3. p \in Seq(Bytes)
      BY <3>1, <3>2, PacketShape
    <3>4. /\ sent \in Seq(Seq(Bytes)) /\ sent' = Append(sent, p)
          /\ handed' = handed
      BY <2>1, <3>1 DEF Send, IInv, TypeOK
    <3>5. Len(sent') = Len(sent) + 1
      BY <3>3, <3>4, AppendProperties
    <3>6. Len(handed) + 1 \in 1..(Len(sent) + 1)
      BY Numbers
    <3>7. SubSeq(Append(sent, p), Len(handed) + 1, Len(sent) + 1)
            = Append(SubSeq(sent, Len(handed) + 1, Len(sent)), p)
      BY <3>3, <3>4, <3>6, AppendToRest
    <3>8. Waiting' = Append(Waiting, p)
      BY <3>4, <3>5, <3>7 DEF Waiting
    <3> QED
      BY <3>1, <3>2, <3>4, <3>8 DEF Channel!Next, Channel!Put
  <2>2. CASE Handle
    <3>1. PICK k : k = Len(handed) + 1
      OBVIOUS
    <3>2. k \in 1..Len(sent) /\ handed' = Append(handed, sent[k])
      BY <2>2, <3>1, HandledPacket
    <3>3. /\ sent \in Seq(Seq(Bytes)) /\ handed \in Seq(Seq(Bytes))
          /\ sent' = sent /\ sent[k] \in Seq(Bytes)
      BY <2>2, <3>2, ElementOfSeq DEF IInv, TypeOK, Handle
    <3>4. Len(handed') = k
      BY <3>1, <3>2, <3>3, AppendProperties
    <3>5. Len(sent) \in k..Len(sent)
      BY <3>2, Numbers
    <3>6. /\ Head(SubSeq(sent, k, Len(sent))) = sent[k]
          /\ Tail(SubSeq(sent, k, Len(sent))) = SubSeq(sent, k + 1, Len(sent))
      BY <3>2, <3>3, <3>5, HeadTailOfSubSeq
    <3>7. SubSeq(sent, k, Len(sent)) # << >>
      <4>1. k \in Int /\ Len(sent) \in Int /\ k <= Len(sent)
        BY <3>2, Numbers
      <4>2. \A i \in k..Len(sent) : sent[i] \in Seq(Bytes)
        BY <3>2, <3>3, <4>1, ElementOfSeq
      <4>3. Len(SubSeq(sent, k, Len(sent))) = Len(sent) - k + 1
        BY <4>1, <4>2, SubSeqProperties
      <4>4. Len(SubSeq(sent, k, Len(sent))) # 0
        BY <4>1, <4>3
      <4> QED
        BY <4>4, EmptySeq
    <3>8. /\ Waiting # << >> /\ handed' = Append(handed, Head(Waiting))
          /\ Waiting' = Tail(Waiting)
      BY <3>1, <3>2, <3>3, <3>4, <3>6, <3>7 DEF Waiting
    <3> QED
      BY <3>8 DEF Channel!Next, Channel!Take
  <2>3. ASSUME NEW n \in 1..Length, Arrive(n) PROVE UNCHANGED Channel!vars
    BY <2>3 DEF Arrive, Channel!vars, Waiting
  <2>4. CASE Read
    BY <2>4 DEF Read, Channel!vars, Waiting
  <2>5. CASE Post
    BY <2>5 DEF Post, Channel!vars, Waiting
  <2>6. CASE UNCHANGED vars
    BY <2>6 DEF vars, Channel!vars, Waiting
  <2> QED
    BY <2>1, <2>2, <2>3, <2>4, <2>5, <2>6 DEF Next, Recv, Network
<1> QED
  BY <1>1, <1>2, IInvCorrect, PTL DEF Spec, IsFifoChannel, Channel!SafeSpec
=============================================================================
