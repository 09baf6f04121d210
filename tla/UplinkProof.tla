----------------------------- MODULE UplinkProof -----------------------------
(***************************************************************************)
(* The link keeps the order of the bytes: whatever the sizes of queue,     *)
(* buffer and packets, and whatever the race for the buffer's length does. *)
(* In a calm connection it loses none, and the reader's file is right.     *)
(*                                                                         *)
(* The argument follows the bytes' way: what was received is older than    *)
(* what the buffer holds, that older than the packet being copied, that    *)
(* older than the queue's packets, and those older than the one write is   *)
(* putting into the queue.  The race only ever shortens what the buffer    *)
(* counts as its own, so that it may forget bytes but never repeat them.   *)
(***************************************************************************)
EXTENDS Uplink, TLAPS

LenInv ==
  /\ txpc = "copied" => txLen <= oldLen /\ oldLen + added <= SPP_TX_MAX
  /\ txpc \in {"ack", "rest"} => txLen = 0

Proper(p, last) == 1 <= p.from /\ p.from <= p.to /\ p.to <= last /\ Size(p) < SPP_TX_MAX

PieceInv ==
  /\ packet = Nothing \/ Proper(packet, written)
  /\ writing = Nothing \/ Proper(writing, written)
  /\ \A q \in 1 .. Len(txQueue) : Proper(txQueue[q], written) /\ packet.to < txQueue[q].from
  /\ \A q, r \in 1 .. Len(txQueue) : q < r => txQueue[q].to < txQueue[r].from
  /\ writing # Nothing =>
       /\ packet.to < writing.from
       /\ \A q \in 1 .. Len(txQueue) : txQueue[q].to < writing.from

(* Byte b is older than every byte on its way to the buffer.               *)
Ahead(b) ==
  /\ b \in 1 .. written
  /\ packet # Nothing => b < packet.from
  /\ \A q \in 1 .. Len(txQueue) : b < txQueue[q].from
  /\ writing # Nothing => b < writing.from

CellInv ==
  /\ \A c \in 1 .. Filled : Ahead(txBuffer[c])
  /\ \A c, d \in 1 .. Filled : c < d => txBuffer[c] < txBuffer[d]

ReceivedInv ==
  /\ \A k \in 1 .. Len(received) :
       /\ Ahead(received[k])
       /\ \A c \in 1 .. Filled : received[k] < txBuffer[c]
  /\ \A j, k \in 1 .. Len(received) : j < k => received[j] < received[k]

Order == PieceInv /\ CellInv /\ ReceivedInv

IInv == LinkTypeOK /\ LenInv /\ Order

-----------------------------------------------------------------------------
LEMMA PacketFields ==
  ASSUME NEW queue \in Seq(Packet), NEW q \in 1 .. Len(queue)
  PROVE  queue[q] \in Packet /\ queue[q].from \in Nat /\ queue[q].to \in Nat
<1>1. queue[q] \in Packet
  OBVIOUS
<1> QED BY <1>1 DEF Packet

LEMMA FilledBound ==
  ASSUME LinkTypeOK, LenInv
  PROVE  Filled \in 0 .. SPP_TX_MAX
BY LinkAssumption DEF LinkTypeOK, LenInv, Filled

(* Steps that only drop: a packet, or the end of the buffer.               *)
LEMMA Dropping ==
  ASSUME IInv, Filled' \in Nat, Filled' <= Filled,
         packet' \in {packet, Nothing}, writing' \in {writing, Nothing},
         UNCHANGED <<written, txQueue, txBuffer, received>>
  PROVE  Order'
<1> USE DEF IInv, Order
<1>1. \A b : Ahead(b) => Ahead(b)'
  BY DEF Ahead
<1>2. Filled \in 0 .. SPP_TX_MAX
  BY FilledBound
<1>3. PieceInv'
  <2>1. packet'.to <= packet.to /\ packet'.to \in Nat /\ packet.to \in Nat
    BY DEF LinkTypeOK, Packet, Nothing
  <2>3. packet' = Nothing \/ Proper(packet', written)
    BY DEF PieceInv
  <2>4. writing' = Nothing \/ Proper(writing', written)
    BY DEF PieceInv
  <2>5. \A q \in 1 .. Len(txQueue) : txQueue[q].from \in Nat
    BY PacketFields DEF LinkTypeOK
  <2>6. \A q \in 1 .. Len(txQueue)' :
          Proper(txQueue'[q], written) /\ packet'.to < txQueue'[q].from
    BY <2>1, <2>5 DEF PieceInv
  <2>7. writing' # Nothing => packet'.to < writing'.from
    BY <2>1 DEF PieceInv, LinkTypeOK, Packet
  <2> QED BY <2>3, <2>4, <2>6, <2>7 DEF PieceInv
<1>4. CellInv'
  BY <1>1, <1>2 DEF CellInv
<1>5. ReceivedInv'
  BY <1>1, <1>2 DEF ReceivedInv
<1> QED BY <1>3, <1>4, <1>5

LEMMA InitInv == LinkInit => IInv
<1> SUFFICES ASSUME LinkInit PROVE IInv
  OBVIOUS
<1>1. LinkTypeOK
  <2>1. txBuffer \in [1 .. SPP_TX_MAX -> Nat]
    BY DEF LinkInit
  <2>2. /\ txQueue \in Seq(Packet) /\ Len(txQueue) <= TX_QUEUE_SIZE
        /\ received \in Seq(Nat)
    BY LinkAssumption DEF LinkInit
  <2>3. packet \in Packet /\ writing \in Packet
    BY DEF LinkInit, Nothing, Packet
  <2>4. txLen \in 0 .. SPP_TX_MAX /\ oldLen \in 0 .. SPP_TX_MAX /\ added \in 0 .. SPP_TX_MAX
    BY LinkAssumption DEF LinkInit
  <2> QED BY <2>1, <2>2, <2>3, <2>4 DEF LinkInit, LinkTypeOK
<1>2. LenInv
  BY DEF LinkInit, LenInv
<1>3. Filled = 0 /\ Len(txQueue) = 0 /\ Len(received) = 0
  BY DEF LinkInit, Filled
<1>4. PieceInv
  BY <1>3 DEF LinkInit, PieceInv, Nothing
<1>5. CellInv /\ ReceivedInv
  BY <1>3 DEF CellInv, ReceivedInv
<1> QED BY <1>1, <1>2, <1>4, <1>5 DEF IInv, Order

-----------------------------------------------------------------------------
(* The steps that only drop.                                               *)
LEMMA QueueTimeoutInv == IInv /\ QueueTimeout => IInv'
<1> SUFFICES ASSUME IInv, QueueTimeout PROVE IInv'
  OBVIOUS
<1> USE DEF IInv, QueueTimeout, taskVars, stackVars
<1>1. LinkTypeOK'
  BY DEF LinkTypeOK, Nothing, Packet
<1>2. LenInv'
  BY DEF LenInv
<1>3. Filled' = Filled /\ Filled \in Nat
  BY FilledBound DEF Filled
<1>4. Order'
  BY <1>3, Dropping
<1> QED BY <1>1, <1>2, <1>4

LEMMA StoreInv == IInv /\ (Store \/ StoreFull) => IInv'
<1> SUFFICES ASSUME IInv, Store \/ StoreFull PROVE IInv'
  OBVIOUS
<1> USE DEF IInv, Store, StoreFull, writerVars, stackVars, history
<1>1. txLen \in Nat /\ oldLen \in Nat /\ added \in Nat /\ SPP_TX_MAX \in Nat
  BY LinkAssumption DEF LinkTypeOK
<1>2. /\ txLen' \in 0 .. SPP_TX_MAX /\ txpc' \in {"receive", "send"}
      /\ txLen' <= Filled
  BY <1>1 DEF LenInv, Filled
<1>3. LinkTypeOK'
  BY <1>2 DEF LinkTypeOK
<1>4. LenInv'
  BY <1>2 DEF LenInv
<1>5. Filled' = txLen'
  BY <1>2 DEF Filled
<1>6. Order'
  BY <1>1, <1>2, <1>5, Dropping
<1> QED BY <1>3, <1>4, <1>6

LEMMA SendInv == IInv /\ (AwaitFree \/ Refuse \/ AwaitDone) => IInv'
<1> SUFFICES ASSUME IInv, AwaitFree \/ Refuse \/ AwaitDone PROVE IInv'
  OBVIOUS
<1> USE DEF IInv, AwaitFree, Refuse, AwaitDone, Sent, NotSent, Idle, writerVars, stackVars
<1>1. /\ packet' \in {packet, Nothing}
      /\ txpc \in {"send", "write", "ack"} /\ txpc' \in {"write", "receive", "rest"}
      /\ txpc' = "rest" => txpc = "ack"
      /\ UNCHANGED <<written, writing, txQueue, txBuffer, txLen, oldLen, added, client,
                     free, acks, opens, received, base, sofar>>
      /\ txDone' \in BOOLEAN /\ calm' \in BOOLEAN
  BY DEF LinkTypeOK
<1>2. LinkTypeOK'
  BY <1>1 DEF LinkTypeOK, Nothing, Packet
<1>3. LenInv'
  BY <1>1 DEF LenInv
<1>4. Filled' = Filled /\ Filled \in Nat
  BY <1>1, FilledBound DEF Filled
<1>5. Order'
  BY <1>1, <1>4, Dropping
<1> QED BY <1>2, <1>3, <1>5

LEMMA StackInv == IInv /\ Stack => IInv'
<1> SUFFICES ASSUME IInv, Stack PROVE IInv'
  OBVIOUS
<1> USE DEF IInv, Stack, SrvOpen, Close, Congestion, WriteDone, Quiet, Idle, writerVars,
            taskVars, history
<1>1. /\ txLen' \in {txLen, 0}
      /\ UNCHANGED <<written, writing, txQueue, txpc, packet, txBuffer, oldLen, added,
                     received>>
  OBVIOUS
<1>2. /\ client' \in BOOLEAN /\ free' \in BOOLEAN /\ txDone' \in BOOLEAN
      /\ calm' \in BOOLEAN
  <2> USE DEF LinkTypeOK
  <2>1. CASE SrvOpen
    BY <2>1
  <2>2. CASE Close
    BY <2>2
  <2>3. CASE Congestion
    BY <2>3
  <2>4. CASE WriteDone
    BY <2>4
  <2> QED BY <2>1, <2>2, <2>3, <2>4
<1>3. acks' \in Nat /\ opens' \in Nat /\ base' \in Nat /\ sofar' \in Nat
  <2> USE DEF LinkTypeOK
  <2>0. Len(received) \in Nat
    OBVIOUS
  <2>1. CASE SrvOpen
    BY <2>0, <2>1
  <2>2. CASE Close
    BY <2>2
  <2>3. CASE Congestion
    BY <2>3
  <2>4. CASE WriteDone
    BY <2>4
  <2> QED BY <2>1, <2>2, <2>3, <2>4
<1>4. LinkTypeOK'
  BY <1>1, <1>2, <1>3, LinkAssumption DEF LinkTypeOK
<1>5. LenInv'
  BY <1>1 DEF LenInv, LinkTypeOK
<1>6. Filled' \in Nat /\ Filled' <= Filled
  BY <1>1, FilledBound DEF Filled, LinkTypeOK
<1>7. Order'
  BY <1>1, <1>6, Dropping
<1> QED BY <1>4, <1>5, <1>7

-----------------------------------------------------------------------------
(* The steps that carry bytes.                                             *)
LEMMA WriteInv ==
  ASSUME IInv, NEW size \in 1 .. SPP_TX_MAX - 1, Write(size)
  PROVE  IInv'
<1> USE DEF IInv, taskVars, stackVars, history
<1>1. /\ writing = Nothing
      /\ written' = written + size
      /\ \/ writing' = [from |-> written + 1, to |-> written + size]
         \/ writing' = Nothing
      /\ UNCHANGED <<txQueue, taskVars, stackVars, history>>
  BY DEF Write, Idle
<1>2. written \in Nat /\ size \in Nat /\ size >= 1 /\ size < SPP_TX_MAX
  BY LinkAssumption DEF LinkTypeOK
<1>3. LinkTypeOK'
  <2>1. writing' \in Packet
    BY <1>1, <1>2 DEF Packet, Nothing
  <2> QED BY <1>1, <1>2, <2>1 DEF LinkTypeOK
<1>4. LenInv'
  BY <1>1 DEF LenInv
<1>5. Filled' = Filled
  BY <1>1 DEF Filled
<1>6. \A p \in Packet : Proper(p, written) => Proper(p, written') /\ p.to < written + 1
  BY <1>1, <1>2 DEF Proper, Size, Packet
<1>7. writing' # Nothing => Proper(writing', written') /\ writing'.from = written + 1
  <2> SUFFICES ASSUME writing' = [from |-> written + 1, to |-> written + size]
               PROVE  Proper(writing', written') /\ writing'.from = written + 1
    BY <1>1
  <2>1. writing'.from = written + 1 /\ writing'.to = written + size
    OBVIOUS
  <2> QED BY <1>1, <1>2, <2>1 DEF Proper, Size
<1>8. packet.to < written + 1
  BY <1>2, <1>6 DEF Order, PieceInv, Nothing, LinkTypeOK
<1>9. PieceInv'
  <2>1. \A q \in 1 .. Len(txQueue) :
          Proper(txQueue[q], written') /\ txQueue[q].to < written + 1
    BY <1>6, PacketFields DEF Order, PieceInv, LinkTypeOK
  <2>2. packet = Nothing \/ Proper(packet, written')
    BY <1>6 DEF Order, PieceInv, LinkTypeOK
  <2> QED BY <1>1, <1>7, <1>8, <2>1, <2>2 DEF Order, PieceInv
<1>10. \A b : Ahead(b) => Ahead(b)'
  BY <1>1, <1>2, <1>7 DEF Ahead
<1>11. CellInv' /\ ReceivedInv'
  BY <1>1, <1>5, <1>10 DEF Order, CellInv, ReceivedInv
<1> QED BY <1>3, <1>4, <1>9, <1>11 DEF Order

LEMMA EnqueueInv == IInv /\ Enqueue => IInv'
<1> SUFFICES ASSUME IInv, Enqueue PROVE IInv'
  OBVIOUS
<1> USE DEF IInv, taskVars, stackVars, history
<1>1. /\ writing # Nothing /\ Len(txQueue) < TX_QUEUE_SIZE
      /\ txQueue' = Append(txQueue, writing)
      /\ writing' = Nothing
      /\ UNCHANGED <<written, taskVars, stackVars, history>>
  BY DEF Enqueue, Idle
<1> DEFINE n == Len(txQueue)
<1>2. /\ txQueue \in Seq(Packet) /\ writing \in Packet /\ n \in Nat
      /\ txQueue' \in Seq(Packet) /\ Len(txQueue') = n + 1
      /\ \A q \in 1 .. n : txQueue'[q] = txQueue[q]
      /\ txQueue'[n + 1] = writing
  BY <1>1 DEF LinkTypeOK
<1>3. LinkTypeOK'
  <2>1. n + 1 <= TX_QUEUE_SIZE
    BY <1>1, <1>2, LinkAssumption
  <2>2. Nothing \in Packet
    BY DEF Nothing, Packet
  <2> QED BY <1>1, <1>2, <2>1, <2>2 DEF LinkTypeOK
<1>4. LenInv'
  BY <1>1 DEF LenInv
<1>5. Filled' = Filled
  BY <1>1 DEF Filled
<1>6. Proper(writing, written)
  BY <1>1 DEF Order, PieceInv
<1> HIDE DEF n
<1>7. PieceInv'
  <2>1. \A q \in 1 .. n + 1 : Proper(txQueue'[q], written) /\ packet.to < txQueue'[q].from
    <3> SUFFICES ASSUME NEW q \in 1 .. n + 1
                 PROVE  Proper(txQueue'[q], written) /\ packet.to < txQueue'[q].from
      OBVIOUS
    <3>1. CASE q = n + 1
      BY <1>1, <1>2, <1>6, <3>1 DEF Order, PieceInv
    <3>2. CASE q \in 1 .. n
      BY <1>2, <1>6, <3>2 DEF Order, PieceInv, n
    <3> QED BY <1>2, <3>1, <3>2
  <2>2. \A q, r \in 1 .. n + 1 : q < r => txQueue'[q].to < txQueue'[r].from
    <3> SUFFICES ASSUME NEW q \in 1 .. n + 1, NEW r \in 1 .. n + 1, q < r
                 PROVE  txQueue'[q].to < txQueue'[r].from
      OBVIOUS
    <3>1. q \in 1 .. n /\ txQueue'[q] = txQueue[q]
      BY <1>2
    <3>2. CASE r = n + 1
      BY <1>1, <1>2, <3>1, <3>2 DEF Order, PieceInv, n
    <3>3. CASE r \in 1 .. n
      BY <1>2, <3>1, <3>3 DEF Order, PieceInv, n
    <3> QED BY <1>2, <3>2, <3>3
  <2> QED BY <1>1, <1>2, <1>6, <2>1, <2>2 DEF Order, PieceInv
<1>8. \A b : Ahead(b) => Ahead(b)'
  BY <1>1, <1>2 DEF Ahead, n
<1>9. CellInv' /\ ReceivedInv'
  BY <1>1, <1>5, <1>8 DEF Order, CellInv, ReceivedInv
<1> QED BY <1>3, <1>4, <1>7, <1>9 DEF Order

LEMMA ReceiveInv == IInv /\ Receive => IInv'
<1> SUFFICES ASSUME IInv, Receive PROVE IInv'
  OBVIOUS
<1> USE DEF IInv, writerVars, stackVars, history
<1>1. /\ txpc = "receive" /\ txpc' = "fill" /\ txQueue # <<>>
      /\ packet' = Head(txQueue) /\ txQueue' = Tail(txQueue)
      /\ UNCHANGED <<written, writing, txBuffer, txLen, oldLen, added, client, free,
                     txDone, acks, opens, received, calm, base, sofar>>
  BY DEF Receive
<1> DEFINE n == Len(txQueue)
<1>2. /\ txQueue \in Seq(Packet) /\ n \in Nat /\ n >= 1
      /\ packet' = txQueue[1] /\ packet' \in Packet
      /\ txQueue' \in Seq(Packet) /\ Len(txQueue') = n - 1
      /\ \A q \in 1 .. n - 1 : txQueue'[q] = txQueue[q + 1]
  BY <1>1 DEF LinkTypeOK
<1>3. LinkTypeOK'
  <2>1. Len(txQueue') <= TX_QUEUE_SIZE
    BY <1>2, LinkAssumption DEF LinkTypeOK
  <2> QED BY <1>1, <1>2, <2>1 DEF LinkTypeOK
<1>4. LenInv'
  BY <1>1 DEF LenInv
<1>5. Filled' = Filled
  BY <1>1 DEF Filled
<1> HIDE DEF n
<1>6. PieceInv'
  <2>1. Proper(packet', written)
    BY <1>2 DEF Order, PieceInv, n
  <2>2. \A q \in 1 .. n - 1 : Proper(txQueue'[q], written) /\ packet'.to < txQueue'[q].from
    BY <1>2 DEF Order, PieceInv, n
  <2>3. \A q, r \in 1 .. n - 1 : q < r => txQueue'[q].to < txQueue'[r].from
    BY <1>2 DEF Order, PieceInv, n
  <2>4. writing # Nothing => packet'.to < writing.from
    BY <1>2 DEF Order, PieceInv, n
  <2>5. writing # Nothing => \A q \in 1 .. n - 1 : txQueue'[q].to < writing.from
    BY <1>2 DEF Order, PieceInv, n
  <2> QED BY <1>1, <1>2, <2>1, <2>2, <2>3, <2>4, <2>5 DEF Order, PieceInv
<1>7. \A b : Ahead(b) => Ahead(b)'
  BY <1>1, <1>2 DEF Ahead, n
<1>8. CellInv' /\ ReceivedInv'
  BY <1>1, <1>5, <1>7 DEF Order, CellInv, ReceivedInv
<1> QED BY <1>3, <1>4, <1>6, <1>8 DEF Order

(* What is copied behind the bytes the buffer counts comes after them.     *)
LEMMA Copying ==
  ASSUME IInv, NEW size \in Nat, size <= Size(packet), Filled + size <= SPP_TX_MAX,
         CopyTo(Filled, size), Filled' = Filled + size,
         UNCHANGED <<written, writing, txQueue, received>>
  PROVE  packet' \in Packet /\ txBuffer' \in [1 .. SPP_TX_MAX -> Nat] /\ Order'
<1> USE DEF IInv
<1> DEFINE f == Filled
<1>1. f \in Nat /\ SPP_TX_MAX \in Nat /\ f <= SPP_TX_MAX
  BY FilledBound, LinkAssumption
<1>2. packet \in Packet /\ packet.from \in Nat /\ packet.to \in Nat
  BY DEF LinkTypeOK, Packet
<1>3. /\ txBuffer \in [1 .. SPP_TX_MAX -> Nat]
      /\ txBuffer' = [cell \in 1 .. SPP_TX_MAX |->
                        IF cell \in f + 1 .. f + size
                        THEN packet.from + (cell - f - 1) ELSE txBuffer[cell]]
  BY DEF CopyTo, LinkTypeOK
<1>4. \/ size = Size(packet) /\ packet' = Nothing
      \/ /\ size < Size(packet) /\ packet' = [packet EXCEPT !.from = packet.from + size]
         /\ packet'.from = packet.from + size /\ packet'.to = packet.to
         /\ packet # Nothing /\ packet' \in Packet
  BY <1>2 DEF CopyTo, Size, Packet, Nothing
<1>5. f' = f + size
  OBVIOUS
<1>6. size > 0 => Proper(packet, written) /\ packet # Nothing
  BY <1>2 DEF Order, PieceInv, Nothing, Size
<1> HIDE DEF f
<1>7. packet' \in Packet
  BY <1>4 DEF Nothing, Packet
<1>8. txBuffer' \in [1 .. SPP_TX_MAX -> Nat]
  BY <1>1, <1>2, <1>3
<1>9. /\ \A c \in 1 .. f : txBuffer'[c] = txBuffer[c]
      /\ \A c \in f + 1 .. f + size : txBuffer'[c] = packet.from + (c - f - 1)
  BY <1>1, <1>3, f + size <= SPP_TX_MAX DEF f
<1>10. PieceInv'
  <2>1. packet' = Nothing \/ Proper(packet', written)
    <3> SUFFICES ASSUME packet' # Nothing PROVE Proper(packet', written)
      OBVIOUS
    <3>1. /\ size < Size(packet) /\ packet'.from = packet.from + size
          /\ packet'.to = packet.to
      BY <1>4
    <3>2. Proper(packet, written) /\ written \in Nat
      BY <1>4 DEF Order, PieceInv, LinkTypeOK
    <3> QED BY <1>1, <1>2, <3>1, <3>2 DEF Proper, Size
  <2>3. \A q \in 1 .. Len(txQueue) : packet'.to < txQueue[q].from
    BY <1>2, <1>4, PacketFields DEF Order, PieceInv, Proper, Nothing, LinkTypeOK
  <2>4. writing # Nothing => packet'.to < writing.from
    <3>1. writing # Nothing => writing.from \in Nat /\ 1 <= writing.from
      BY DEF Order, PieceInv, Proper, LinkTypeOK, Packet
    <3>2. packet'.to = packet.to \/ packet'.to = 0
      BY <1>4 DEF Nothing
    <3> QED BY <1>2, <3>1, <3>2 DEF Order, PieceInv
  <2> QED BY <2>1, <2>3, <2>4 DEF Order, PieceInv
<1>11. \A b : Ahead(b) => Ahead(b)'
  <2> SUFFICES ASSUME NEW b, Ahead(b) PROVE Ahead(b)'
    OBVIOUS
  <2>1. packet' # Nothing => b < packet'.from
    BY <1>2, <1>4 DEF Ahead
  <2> QED BY <2>1 DEF Ahead
<1>12. \A c \in f + 1 .. f + size : Ahead(txBuffer[c])'
  <2> SUFFICES ASSUME NEW c \in f + 1 .. f + size PROVE Ahead(txBuffer[c])'
    OBVIOUS
  <2> DEFINE b == packet.from + (c - f - 1)
  <2>1. Proper(packet, written) /\ txBuffer'[c] = b /\ written \in Nat
    BY <1>1, <1>6, <1>9 DEF LinkTypeOK
  <2>2. b \in Nat /\ packet.from <= b /\ b < packet.from + size /\ b <= packet.to
    BY <1>1, <1>2 DEF Size
  <2> HIDE DEF b
  <2>3. b \in 1 .. written
    BY <1>2, <2>1, <2>2 DEF Proper
  <2>4. packet' # Nothing => b < packet'.from
    BY <1>2, <1>4, <2>2
  <2>5. \A q \in 1 .. Len(txQueue) : b < txQueue[q].from
    BY <1>2, <2>2, PacketFields DEF Order, PieceInv, LinkTypeOK
  <2>6. writing # Nothing => b < writing.from
    BY <1>2, <2>2 DEF Order, PieceInv, LinkTypeOK, Packet
  <2> QED BY <2>1, <2>3, <2>4, <2>5, <2>6 DEF Ahead
<1>13. \A c \in 1 .. f, d \in f + 1 .. f + size : txBuffer'[c] < txBuffer'[d]
  <2> SUFFICES ASSUME NEW c \in 1 .. f, NEW d \in f + 1 .. f + size
               PROVE  txBuffer'[c] < txBuffer'[d]
    OBVIOUS
  <2>1. packet # Nothing /\ txBuffer'[d] = packet.from + (d - f - 1)
    BY <1>1, <1>6, <1>9
  <2>2. Ahead(txBuffer[c]) /\ txBuffer'[c] = txBuffer[c]
    BY <1>9 DEF Order, CellInv, f
  <2>3. txBuffer[c] < packet.from /\ txBuffer[c] \in Nat
    BY <2>1, <2>2 DEF Ahead
  <2> QED BY <1>1, <1>2, <2>1, <2>2, <2>3
<1>14. CellInv'
  <2>1. \A c \in 1 .. f + size : Ahead(txBuffer[c])'
    <3> SUFFICES ASSUME NEW c \in 1 .. f + size PROVE Ahead(txBuffer[c])'
      OBVIOUS
    <3>1. CASE c \in f + 1 .. f + size
      BY <1>12, <3>1
    <3>2. CASE c \in 1 .. f
      <4> DEFINE b == txBuffer[c]
      <4>1. Ahead(b) /\ txBuffer'[c] = b
        BY <1>9, <3>2 DEF Order, CellInv, f
      <4> HIDE DEF b
      <4>2. \A x : Ahead(x) => Ahead(x)'
        BY <1>11
      <4> QED BY <4>1, <4>2 DEF Ahead
    <3> QED BY <1>1, <3>1, <3>2
  <2>2. \A c, d \in 1 .. f + size : c < d => txBuffer'[c] < txBuffer'[d]
    <3> SUFFICES ASSUME NEW c \in 1 .. f + size, NEW d \in 1 .. f + size, c < d
                 PROVE  txBuffer'[c] < txBuffer'[d]
      OBVIOUS
    <3>1. CASE d \in 1 .. f
      BY <1>1, <1>9, <3>1 DEF Order, CellInv, f
    <3>2. CASE c \in 1 .. f /\ d \in f + 1 .. f + size
      BY <1>13, <3>2
    <3>3. CASE c \in f + 1 .. f + size /\ d \in f + 1 .. f + size
      BY <1>1, <1>2, <1>9, <3>3
    <3> QED BY <1>1, <3>1, <3>2, <3>3
  <2> QED BY <2>1, <2>2 DEF CellInv, f
<1>15. ReceivedInv'
  <2>1. \A k \in 1 .. Len(received) : \A c \in 1 .. f + size : received[k] < txBuffer'[c]
    <3> SUFFICES ASSUME NEW k \in 1 .. Len(received), NEW c \in 1 .. f + size
                 PROVE  received[k] < txBuffer'[c]
      OBVIOUS
    <3>1. CASE c \in 1 .. f
      BY <1>9, <3>1 DEF Order, ReceivedInv, f
    <3>2. CASE c \in f + 1 .. f + size
      <4>1. packet # Nothing /\ txBuffer'[c] = packet.from + (c - f - 1)
        BY <1>1, <1>6, <1>9, <3>2
      <4>2. received[k] < packet.from /\ received[k] \in Nat
        BY <4>1 DEF Order, ReceivedInv, Ahead
      <4> QED BY <1>1, <1>2, <3>2, <4>1, <4>2
    <3> QED BY <1>1, <3>1, <3>2
  <2> QED BY <1>11, <2>1 DEF Order, ReceivedInv, f
<1> QED BY <1>7, <1>8, <1>10, <1>14, <1>15 DEF Order

LEMMA FillInv == IInv /\ (Fill \/ CopyRest) => IInv'
<1> SUFFICES ASSUME IInv, Fill \/ CopyRest PROVE IInv'
  OBVIOUS
<1> USE DEF IInv, writerVars, stackVars, history
<1>1. /\ txLen \in Nat /\ txLen <= SPP_TX_MAX /\ SPP_TX_MAX \in Nat
      /\ packet.from \in Nat /\ packet.to \in Nat
  BY LinkAssumption DEF LinkTypeOK, Packet
<1>2. Size(packet) \in Nat /\ Size(packet) <= SPP_TX_MAX
  BY <1>1 DEF Order, PieceInv, Proper, Size, Nothing
<1>3. Filled = txLen /\ (txpc = "rest" => txLen = 0)
  BY DEF Filled, Fill, CopyRest, LenInv
<1>4. PICK size \in Nat :
        /\ size <= Size(packet) /\ txLen + size <= SPP_TX_MAX
        /\ CopyTo(txLen, size)
        /\ UNCHANGED <<written, writing, txQueue, txLen, client, free, txDone, acks,
                       opens, received, calm, base, sofar>>
        /\ \/ txpc' = "copied" /\ oldLen' = txLen /\ added' = size
           \/ /\ txpc' = "filled" /\ UNCHANGED <<oldLen, added>>
              /\ txLen + size = SPP_TX_MAX
  <2>1. CASE Fill /\ Size(packet) <= SPP_TX_MAX - txLen
    BY <1>1, <1>2, <2>1 DEF Fill
  <2>2. CASE Fill /\ ~(Size(packet) <= SPP_TX_MAX - txLen)
    <3> DEFINE room == SPP_TX_MAX - txLen
    <3>1. room \in Nat /\ room <= Size(packet) /\ txLen + room = SPP_TX_MAX
      BY <1>1, <1>2, <2>2
    <3>2. /\ CopyTo(txLen, room)
          /\ txpc' = "filled" /\ UNCHANGED <<oldLen, added>>
          /\ UNCHANGED <<written, writing, txQueue, txLen, client, free, txDone, acks,
                         opens, received, calm, base, sofar>>
      BY <2>2 DEF Fill
    <3>3. txLen + room <= SPP_TX_MAX
      BY <1>1, <3>1
    <3> HIDE DEF room
    <3> QED BY <3>1, <3>2, <3>3
  <2>3. CASE CopyRest
    BY <1>1, <1>2, <1>3, <2>3 DEF CopyRest
  <2> QED BY <2>1, <2>2, <2>3
<1>5. Filled' = Filled + size
  BY <1>1, <1>3, <1>4 DEF Filled
<1>6. packet' \in Packet /\ txBuffer' \in [1 .. SPP_TX_MAX -> Nat] /\ Order'
  BY <1>1, <1>3, <1>4, <1>5, Copying
<1>7. LinkTypeOK'
  <2>1. oldLen' \in 0 .. SPP_TX_MAX /\ added' \in 0 .. SPP_TX_MAX
    BY <1>1, <1>4 DEF LinkTypeOK
  <2> QED BY <1>4, <1>6, <2>1 DEF LinkTypeOK
<1>8. LenInv'
  BY <1>1, <1>4 DEF LenInv
<1> QED BY <1>6, <1>7, <1>8

LEMMA HandOverInv == IInv /\ HandOver => IInv'
<1> SUFFICES ASSUME IInv, HandOver PROVE IInv'
  OBVIOUS
<1> USE DEF IInv, writerVars
<1>1. /\ txpc = "write" /\ txpc' = "ack" /\ txLen' = 0
      /\ acks' = acks + 1
      /\ UNCHANGED <<written, writing, txQueue, packet, txBuffer, oldLen, added, client,
                     free, txDone, opens, base, sofar>>
  BY DEF HandOver
<1>2. Filled = txLen /\ Filled' = 0
  BY <1>1 DEF Filled
<1>3. LenInv'
  BY <1>1 DEF LenInv
<1>4. calm' \in BOOLEAN /\ acks' \in Nat /\ txLen' \in 0 .. SPP_TX_MAX
  <2>1. calm' \in BOOLEAN
    <3>1. calm \in BOOLEAN /\ (calm' = calm \/ calm' = FALSE)
      BY DEF HandOver, LinkTypeOK
    <3> QED BY <3>1
  <2>2. acks' \in Nat /\ txLen' \in 0 .. SPP_TX_MAX
    BY <1>1, LinkAssumption DEF LinkTypeOK
  <2> QED BY <2>1, <2>2
<1>5. CASE received' = received
  <2>1. LinkTypeOK'
    BY <1>1, <1>4, <1>5 DEF LinkTypeOK
  <2>2. Filled' <= Filled
    BY <1>2 DEF LinkTypeOK
  <2>3. Order'
    BY <1>1, <1>2, <1>5, <2>2, Dropping
  <2> QED BY <1>3, <2>1, <2>3
<1>6. CASE received' = received \o SubSeq(txBuffer, 1, txLen)
  <2> DEFINE n == Len(received)
             sent == SubSeq(txBuffer, 1, txLen)
  <2>1. /\ txLen \in Nat /\ txLen <= SPP_TX_MAX /\ SPP_TX_MAX \in Nat
        /\ txBuffer \in [1 .. SPP_TX_MAX -> Nat]
        /\ received \in Seq(Nat) /\ n \in Nat
    BY LinkAssumption DEF LinkTypeOK
  <2>2. txBuffer \in Seq(Nat) /\ Len(txBuffer) = SPP_TX_MAX
    BY <2>1
  <2>3. /\ sent \in Seq(Nat) /\ Len(sent) = txLen
        /\ \A c \in 1 .. txLen : sent[c] = txBuffer[c]
    BY <2>1, <2>2
  <2> HIDE DEF sent
  <2>4. /\ received' \in Seq(Nat) /\ Len(received') = n + txLen
        /\ \A k \in 1 .. n : received'[k] = received[k]
        /\ \A k \in n + 1 .. n + txLen : received'[k] = txBuffer[k - n]
    BY <1>6, <2>1, <2>3 DEF sent
  <2> HIDE DEF n
  <2>5. LinkTypeOK'
    BY <1>1, <1>4, <2>4 DEF LinkTypeOK
  <2>6. PieceInv' /\ \A b : Ahead(b) => Ahead(b)'
    BY <1>1 DEF Order, PieceInv, Ahead
  <2>7. CellInv'
    BY <1>2 DEF CellInv
  <2>8. \A k \in 1 .. n + txLen : Ahead(received'[k])
    <3> SUFFICES ASSUME NEW k \in 1 .. n + txLen PROVE Ahead(received'[k])
      OBVIOUS
    <3>1. CASE k \in 1 .. n
      BY <2>4, <3>1 DEF Order, ReceivedInv, n
    <3>2. CASE k \in n + 1 .. n + txLen
      <4>1. k - n \in 1 .. Filled /\ received'[k] = txBuffer[k - n]
        BY <1>2, <2>1, <2>4, <3>2
      <4> QED BY <4>1 DEF Order, CellInv
    <3> QED BY <2>1, <3>1, <3>2
  <2>9. \A j, k \in 1 .. n + txLen : j < k => received'[j] < received'[k]
    <3> SUFFICES ASSUME NEW j \in 1 .. n + txLen, NEW k \in 1 .. n + txLen, j < k
                 PROVE  received'[j] < received'[k]
      OBVIOUS
    <3>1. CASE k \in 1 .. n
      <4>1. j \in 1 .. n /\ received'[j] = received[j] /\ received'[k] = received[k]
        BY <2>1, <2>4, <3>1
      <4> QED BY <3>1, <4>1 DEF Order, ReceivedInv, n
    <3>2. CASE j \in 1 .. n /\ k \in n + 1 .. n + txLen
      <4>1. k - n \in 1 .. Filled
        BY <1>2, <2>1, <3>2
      <4> QED BY <2>4, <3>2, <4>1 DEF Order, ReceivedInv, n
    <3>3. CASE j \in n + 1 .. n + txLen /\ k \in n + 1 .. n + txLen
      <4>1. j - n \in 1 .. Filled /\ k - n \in 1 .. Filled /\ j - n < k - n
        BY <1>2, <2>1, <3>3
      <4> QED BY <2>4, <3>3, <4>1 DEF Order, CellInv
    <3> QED BY <2>1, <3>1, <3>2, <3>3
  <2>10. ReceivedInv'
    BY <1>2, <2>4, <2>6, <2>8, <2>9 DEF ReceivedInv
  <2> QED BY <1>3, <2>5, <2>6, <2>7, <2>10 DEF Order
<1> QED BY <1>5, <1>6 DEF HandOver

-----------------------------------------------------------------------------
LEMMA LinkStepInv == IInv /\ [LinkNext]_linkVars => IInv'
<1> SUFFICES ASSUME IInv, [LinkNext]_linkVars PROVE IInv'
  OBVIOUS
<1>1. CASE \E size \in 1 .. SPP_TX_MAX - 1 : Write(size)
  BY <1>1, WriteInv
<1>2. CASE Enqueue
  BY <1>2, EnqueueInv
<1>3. CASE QueueTimeout
  BY <1>3, QueueTimeoutInv
<1>4. CASE Task
  BY <1>4, ReceiveInv, FillInv, StoreInv, SendInv, HandOverInv DEF Task
<1>5. CASE Stack
  BY <1>5, StackInv
<1>6. CASE UNCHANGED linkVars
  BY <1>6 DEF IInv, LinkTypeOK, LenInv, Order, PieceInv, CellInv, ReceivedInv, Ahead,
              Filled, linkVars, writerVars, taskVars, stackVars, history
<1> QED BY <1>1, <1>2, <1>3, <1>4, <1>5, <1>6 DEF LinkNext

(* Whatever the writer, the stack and the race do, older bytes stay ahead  *)
(* of younger ones all along their way.                                    *)
THEOREM LinkInvariant == LinkSpec => []IInv
BY InitInv, LinkStepInv, PTL DEF LinkSpec

LEMMA IInvOrders == IInv => InOrder
<1> SUFFICES ASSUME IInv PROVE InOrder
  OBVIOUS
<1>1. DOMAIN received = 1 .. Len(received)
  BY DEF IInv, LinkTypeOK
<1> QED BY <1>1 DEF InOrder, IInv, Order, ReceivedInv, Ahead

(* The link by itself, for any writer: a byte reaches the stack at most    *)
(* once and after every older one that does (BluetoothSerial.cpp 158-259). *)
THEOREM LinkInOrder == LinkSpec => []InOrder
BY LinkInvariant, IInvOrders, PTL

-----------------------------------------------------------------------------
(* Nothing is missing in a calm connection.  Between two packets the task  *)
(* has copied all of the last one, and while the connection is calm no     *)
(* callback resets the length, so that the race has one outcome.           *)
CalmInv ==
  /\ txpc \in {"receive", "copied"} => packet = Nothing
  /\ calm => /\ client
             /\ txpc = "copied" => txLen = oldLen
             /\ sofar <= Len(received)

HandedOver == \A i \in 1 .. Arrived : received[sofar + i] = base + i
Buffered   == \A i \in 1 .. Filled : txBuffer[i] = base + Arrived + i

(* What waits behind the buffer.                                           *)
InQueue ==
  \A q \in 1 .. Len(txQueue) :
    ~Idle(txQueue[q]) /\ Continues(txQueue[q], Queued(q - 1))

Waiting ==
  /\ Continues(packet, InBuffer)
  /\ InQueue
  /\ Continues(writing, Queued(Len(txQueue)))
  /\ LastByte(writing, Queued(Len(txQueue))) = written

AllThere == HandedOver /\ Buffered /\ Waiting

LossInv == IInv /\ CalmInv /\ Lossless

LEMMA LosslessParts == Lossless <=> (calm => AllThere)
BY DEF Lossless, AllThere, HandedOver, Buffered, Waiting, InQueue

(* Steps that leave every byte where it is.                                *)
LEMMA Resting ==
  ASSUME AllThere, Filled' = Filled,
         UNCHANGED <<written, writing, txQueue, packet, txBuffer, received, base, sofar>>
  PROVE  AllThere'
<1>1. Arrived' = Arrived /\ InBuffer' = InBuffer
  BY DEF Arrived, InBuffer
<1>2. \A q : Queued(q)' = Queued(q)
  BY <1>1 DEF Queued, LastByte, Idle
<1>3. HandedOver' /\ Buffered'
  BY <1>1 DEF AllThere, HandedOver, Buffered
<1>4. InQueue'
  BY <1>2 DEF AllThere, Waiting, InQueue, Continues, Idle
<1>5. Waiting'
  BY <1>1, <1>2, <1>4 DEF AllThere, Waiting, Continues, LastByte, Idle
<1> QED BY <1>3, <1>5 DEF AllThere

LEMMA ByteNumbers ==
  ASSUME IInv
  PROVE  /\ written \in Nat /\ base \in Nat /\ sofar \in Nat /\ Len(received) \in Nat
         /\ Filled \in Nat /\ Arrived \in Int /\ InBuffer \in Int
         /\ Len(txQueue) \in Nat
         /\ packet \in Packet /\ packet.from \in Nat /\ packet.to \in Nat
         /\ writing \in Packet /\ writing.from \in Nat /\ writing.to \in Nat
<1>1. Filled \in Nat
  BY FilledBound, LinkAssumption DEF IInv
<1>2. Len(received) \in Nat /\ Len(txQueue) \in Nat
  BY DEF IInv, LinkTypeOK
<1> QED BY <1>1, <1>2 DEF IInv, LinkTypeOK, Packet, Arrived, InBuffer

LEMMA InitLossInv == LinkInit => LossInv
BY InitInv DEF LinkInit, LossInv, CalmInv, Lossless

LEMMA WriteLossInv ==
  ASSUME LossInv, NEW size \in 1 .. SPP_TX_MAX - 1, Write(size)
  PROVE  LossInv'
<1> USE DEF LossInv
<1>1. IInv'
  BY WriteInv
<1>2. /\ writing = Nothing /\ written' = written + size
      /\ client => writing' = [from |-> written + 1, to |-> written + size]
      /\ UNCHANGED <<txQueue, txpc, packet, txBuffer, txLen, oldLen, added, client,
                     received, calm, base, sofar>>
  BY DEF Write, Idle, taskVars, stackVars, history
<1>3. CalmInv'
  BY <1>2 DEF CalmInv
<1>4. ASSUME calm' PROVE AllThere'
  <2>1. AllThere /\ client
    BY <1>2, <1>4, LosslessParts DEF CalmInv
  <2>2. /\ writing'.from = written + 1 /\ writing'.to = written + size
        /\ written \in Nat /\ size \in Nat /\ size >= 1
    BY <1>2, <2>1, ByteNumbers, LinkAssumption
  <2>3. ~Idle(writing)'
    BY <2>2 DEF Idle, Nothing
  <2>4. Filled' = Filled /\ Arrived' = Arrived /\ InBuffer' = InBuffer
    BY <1>2 DEF Filled, Arrived, InBuffer
  <2>5. \A q : Queued(q)' = Queued(q)
    BY <1>2, <2>4 DEF Queued, LastByte, Idle
  <2>6. Queued(Len(txQueue)) = written
    BY <1>2, <2>1 DEF AllThere, Waiting, LastByte, Idle
  <2>7. HandedOver' /\ Buffered' /\ Continues(packet, InBuffer)'
    BY <1>2, <2>1, <2>4 DEF AllThere, HandedOver, Buffered, Waiting, Continues, Idle
  <2>8. InQueue'
    BY <1>2, <2>1, <2>5 DEF AllThere, Waiting, InQueue, Continues, Idle
  <2>9. /\ Continues(writing, Queued(Len(txQueue)))'
        /\ LastByte(writing, Queued(Len(txQueue)))' = written'
    BY <1>2, <2>2, <2>3, <2>5, <2>6 DEF Continues, LastByte
  <2> QED BY <2>7, <2>8, <2>9 DEF AllThere, Waiting
<1>5. Lossless'
  BY <1>4 DEF Lossless, AllThere, HandedOver, Buffered, Waiting, InQueue
<1> QED BY <1>1, <1>3, <1>5

LEMMA EnqueueLossInv == LossInv /\ Enqueue => LossInv'
<1> SUFFICES ASSUME LossInv, Enqueue PROVE LossInv'
  OBVIOUS
<1> USE DEF LossInv
<1>1. IInv'
  BY EnqueueInv
<1>2. /\ ~Idle(writing) /\ txQueue' = Append(txQueue, writing)
      /\ writing' = Nothing
      /\ UNCHANGED <<written, txpc, packet, txBuffer, txLen, oldLen, added, client,
                     received, calm, base, sofar>>
  BY DEF Enqueue, taskVars, stackVars, history
<1>3. CalmInv'
  BY <1>2 DEF CalmInv
<1>4. ASSUME calm' PROVE AllThere'
  <2>0. PICK n \in Nat : n = Len(txQueue)
    BY ByteNumbers
  <2>1. AllThere
    BY <1>2, <1>4, LosslessParts
  <2>2. /\ n \in Nat /\ Len(txQueue') = n + 1
        /\ \A q \in 1 .. n : txQueue'[q] = txQueue[q]
        /\ txQueue'[n + 1] = writing
    BY <1>2, <2>0 DEF IInv, LinkTypeOK
  <2>3. Filled' = Filled /\ Arrived' = Arrived /\ InBuffer' = InBuffer
    BY <1>2 DEF Filled, Arrived, InBuffer
  <2>4. \A q \in 0 .. n : Queued(q)' = Queued(q)
    BY <1>2, <2>2, <2>3 DEF Queued, LastByte, Idle
  <2>5. HandedOver' /\ Buffered' /\ Continues(packet, InBuffer)'
    BY <1>2, <2>1, <2>3 DEF AllThere, HandedOver, Buffered, Waiting, Continues, Idle
  <2>6. InQueue'
    <3> SUFFICES ASSUME NEW q \in 1 .. n + 1
                 PROVE  ~Idle(txQueue'[q]) /\ Continues(txQueue'[q], Queued(q - 1)')
      BY <2>2 DEF InQueue, Continues, Idle
    <3>1. q - 1 \in 0 .. n /\ Queued(q - 1)' = Queued(q - 1)
      BY <2>2, <2>4
    <3>2. CASE q \in 1 .. n
      BY <2>0, <2>1, <2>2, <3>1, <3>2 DEF AllThere, Waiting, InQueue
    <3>3. CASE q = n + 1
      BY <2>0, <1>2, <2>1, <2>2, <3>1, <3>3 DEF AllThere, Waiting
    <3> QED BY <2>2, <3>2, <3>3
  <2>7. Queued(Len(txQueue))' = written
    <3>1. Queued(n + 1)' = writing.to
      BY <2>2 DEF Queued
    <3>2. writing.to = written
      BY <1>2, <2>1 DEF AllThere, Waiting, LastByte
    <3> QED BY <2>0, <2>2, <3>1, <3>2
  <2>8. /\ Continues(writing, Queued(Len(txQueue)))'
        /\ LastByte(writing, Queued(Len(txQueue)))' = written'
    BY <1>2, <2>7 DEF Continues, LastByte, Idle
  <2> QED BY <2>5, <2>6, <2>8 DEF AllThere, Waiting
<1>5. Lossless'
  BY <1>4 DEF Lossless, AllThere, HandedOver, Buffered, Waiting, InQueue
<1> QED BY <1>1, <1>3, <1>5

LEMMA ReceiveLossInv == LossInv /\ Receive => LossInv'
<1> SUFFICES ASSUME LossInv, Receive PROVE LossInv'
  OBVIOUS
<1> USE DEF LossInv
<1>1. IInv'
  BY ReceiveInv
<1>2. /\ txpc = "receive" /\ txpc' = "fill" /\ txQueue # <<>>
      /\ packet' = Head(txQueue) /\ txQueue' = Tail(txQueue)
      /\ UNCHANGED <<written, writing, txBuffer, txLen, oldLen, added, client,
                     received, calm, base, sofar>>
  BY DEF Receive, writerVars, stackVars, history
<1>3. CalmInv'
  BY <1>2 DEF CalmInv
<1>4. ASSUME calm' PROVE AllThere'
  <2>0. PICK n \in Nat : n = Len(txQueue)
    BY ByteNumbers
  <2>1. AllThere /\ Idle(packet)
    BY <1>2, <1>4, LosslessParts DEF CalmInv, Idle
  <2>2. /\ n \in Nat /\ n >= 1 /\ packet' = txQueue[1]
        /\ Len(txQueue') = n - 1
        /\ \A q \in 1 .. n - 1 : txQueue'[q] = txQueue[q + 1]
    BY <1>2, <2>0 DEF IInv, LinkTypeOK
  <2>3. Filled' = Filled /\ Arrived' = Arrived /\ InBuffer' = InBuffer
    BY <1>2 DEF Filled, Arrived, InBuffer
  <2>4. ~Idle(packet') /\ Continues(packet', InBuffer)
    <3>1. ~Idle(txQueue[1]) /\ Continues(txQueue[1], Queued(1 - 1))
      BY <2>0, <2>1, <2>2 DEF AllThere, Waiting, InQueue
    <3>2. Queued(1 - 1) = InBuffer
      BY <2>1 DEF Queued, LastByte
    <3> QED BY <2>2, <3>1, <3>2
  <2>5. \A q \in 0 .. n - 1 : Queued(q)' = Queued(q + 1)
    <3> SUFFICES ASSUME NEW q \in 0 .. n - 1 PROVE Queued(q)' = Queued(q + 1)
      OBVIOUS
    <3>1. CASE q = 0
      BY <2>2, <2>4, <3>1 DEF Queued, LastByte, Idle
    <3>2. CASE q \in 1 .. n - 1
      BY <2>2, <3>2 DEF Queued
    <3> QED BY <2>2, <3>1, <3>2
  <2>6. HandedOver' /\ Buffered' /\ Continues(packet, InBuffer)'
    BY <1>2, <2>1, <2>3, <2>4 DEF AllThere, HandedOver, Buffered, Continues, Idle
  <2>7. InQueue'
    <3> SUFFICES ASSUME NEW q \in 1 .. n - 1
                 PROVE  ~Idle(txQueue'[q]) /\ Continues(txQueue'[q], Queued(q - 1)')
      BY <2>2 DEF InQueue, Continues, Idle
    <3>1. q - 1 \in 0 .. n - 1 /\ Queued(q - 1)' = Queued((q + 1) - 1)
      BY <2>2, <2>5
    <3>2. /\ q + 1 \in 1 .. n
          /\ ~Idle(txQueue[q + 1]) /\ Continues(txQueue[q + 1], Queued((q + 1) - 1))
      BY <2>0, <2>1, <2>2 DEF AllThere, Waiting, InQueue
    <3> QED BY <2>2, <3>1, <3>2
  <2>8. Queued(Len(txQueue))' = Queued(Len(txQueue))
    <3>1. Queued(n - 1)' = Queued((n - 1) + 1) /\ (n - 1) + 1 = n
      BY <2>2, <2>5
    <3> QED BY <2>0, <2>2, <3>1
  <2>9. /\ Continues(writing, Queued(Len(txQueue)))'
        /\ LastByte(writing, Queued(Len(txQueue)))' = written'
    BY <1>2, <2>1, <2>8 DEF AllThere, Waiting, Continues, LastByte, Idle
  <2> QED BY <2>6, <2>7, <2>9 DEF AllThere, Waiting
<1>5. Lossless'
  BY <1>4 DEF Lossless, AllThere, HandedOver, Buffered, Waiting, InQueue
<1> QED BY <1>1, <1>3, <1>5

LEMMA FillLossInv == LossInv /\ (Fill \/ CopyRest) => LossInv'
<1> SUFFICES ASSUME LossInv, Fill \/ CopyRest PROVE LossInv'
  OBVIOUS
<1> USE DEF LossInv
<1>1. IInv'
  BY FillInv
<1>2. /\ UNCHANGED <<written, writing, txQueue, txLen, client, received, calm, base, sofar>>
      /\ txpc \in {"fill", "rest"} /\ txpc' \in {"copied", "filled"}
      /\ Filled = txLen /\ SPP_TX_MAX \in Nat /\ txLen \in 0 .. SPP_TX_MAX
      /\ txBuffer \in [1 .. SPP_TX_MAX -> Nat]
  BY LinkAssumption DEF Fill, CopyRest, writerVars, stackVars, history, Filled, IInv, LinkTypeOK
<1>3. PICK size \in Int :
        /\ CopyTo(txLen, size)
        /\ Filled' = txLen + size /\ 0 <= size /\ size <= Size(packet)
        /\ txLen + size <= SPP_TX_MAX
        /\ txpc' = "copied" => size = Size(packet) /\ oldLen' = txLen
  <2> USE ByteNumbers DEF Size
  <2>1. CASE Fill /\ Size(packet) <= SPP_TX_MAX - txLen
    <3>1. 0 <= Size(packet)
      BY DEF IInv, Order, PieceInv, Proper, Nothing
    <3>2. packet.from \in Nat /\ packet.to \in Nat
      OBVIOUS
    <3>3. /\ CopyTo(txLen, Size(packet)) /\ txpc' = "copied"
          /\ oldLen' = txLen /\ added' = Size(packet)
      BY <2>1 DEF Fill
    <3>4. Size(packet) \in Int /\ Filled' = txLen + Size(packet)
      BY <3>2, <3>3 DEF Filled
    <3>5. txLen + Size(packet) <= SPP_TX_MAX
      BY <1>2, <2>1, <3>4
    <3> HIDE DEF Size
    <3> QED BY <3>1, <3>3, <3>4, <3>5
  <2>2. CASE Fill /\ ~(Size(packet) <= SPP_TX_MAX - txLen)
    <3>1. /\ CopyTo(txLen, SPP_TX_MAX - txLen) /\ txpc' = "filled"
          /\ Filled' = SPP_TX_MAX
      BY <2>2 DEF Fill, Filled
    <3> QED BY <1>2, <2>2, <3>1
  <2>3. CASE CopyRest
    <3>1. txLen = 0
      BY <2>3 DEF CopyRest, IInv, LenInv
    <3>2. packet = Nothing \/ Proper(packet, written)
      BY DEF IInv, Order, PieceInv
    <3>3. packet.from \in Nat /\ packet.to \in Nat
      OBVIOUS
    <3>4. 0 <= Size(packet) /\ Size(packet) <= SPP_TX_MAX
      BY <1>2, <3>2, <3>3 DEF Proper, Nothing
    <3> QED BY <1>2, <2>3, <3>1, <3>4 DEF CopyRest, Filled
  <2> QED BY <2>1, <2>2, <2>3
<1>4. CalmInv'
  BY <1>2, <1>3 DEF CalmInv, CopyTo
<1>5. ASSUME calm' PROVE AllThere'
  <2>1. AllThere
    BY <1>2, <1>5, LosslessParts
  <2>2. Arrived' = Arrived /\ InBuffer' = InBuffer + size /\ InBuffer \in Int
    BY <1>2, <1>3, ByteNumbers DEF Arrived, InBuffer
  <2>3. \A i \in 1 .. Filled : txBuffer'[i] = base + Arrived + i
    BY <1>2, <1>3, <2>1 DEF CopyTo, AllThere, Buffered
  <2>4. \A i \in Filled + 1 .. Filled + size : txBuffer'[i] = base + Arrived + i
    <3> SUFFICES ASSUME NEW i \in Filled + 1 .. Filled + size
                 PROVE  txBuffer'[i] = base + Arrived + i
      OBVIOUS
    <3>1. packet.from = InBuffer + 1
      <4>1. ~Idle(packet)
        BY <1>2, <1>3 DEF Idle, Nothing, Size
      <4> QED BY <2>1, <4>1 DEF AllThere, Waiting, Continues
    <3>2. i \in 1 .. SPP_TX_MAX /\ i \in txLen + 1 .. txLen + size
      BY <1>2, <1>3
    <3>3. txBuffer'[i] = packet.from + (i - txLen - 1)
      BY <3>2, <1>3 DEF CopyTo
    <3>4. InBuffer = base + Arrived + txLen
      BY <1>2 DEF InBuffer
    <3>5. txBuffer'[i] = base + Arrived + txLen + 1 + (i - txLen - 1)
      BY <3>1, <3>3, <3>4
    <3> QED BY <1>2, <1>3, <3>2, <3>5, ByteNumbers
  <2>5. Buffered'
    BY <1>2, <1>3, <2>2, <2>3, <2>4, ByteNumbers DEF Buffered
  <2>6. Continues(packet, InBuffer)' /\ LastByte(packet, InBuffer)' = LastByte(packet, InBuffer)
    <3>1. CASE size = Size(packet)
      <4>1. Idle(packet)'
        BY <1>3, <3>1 DEF CopyTo, Idle
      <4>2. InBuffer + size = LastByte(packet, InBuffer)
        <5>1. CASE Idle(packet)
          BY <2>2, <3>1, <5>1 DEF LastByte, Idle, Nothing, Size
        <5>2. CASE ~Idle(packet)
          <6>1. packet.from = InBuffer + 1
            BY <2>1, <5>2 DEF AllThere, Waiting, Continues
          <6>2. packet.from \in Nat /\ packet.to \in Nat
            BY ByteNumbers
          <6>3. InBuffer + size = packet.to
            BY <2>2, <3>1, <6>1, <6>2 DEF Size
          <6> QED BY <5>2, <6>3 DEF LastByte
        <5> QED BY <5>1, <5>2
      <4> QED BY <2>2, <4>1, <4>2 DEF Continues, LastByte
    <3>2. CASE size # Size(packet)
      <4>1. ~Idle(packet)
        BY <1>3, <3>2 DEF Idle, Nothing, Size
      <4>2. packet.from = InBuffer + 1
        BY <2>1, <4>1 DEF AllThere, Waiting, Continues
      <4>3. packet'.from = packet.from + size /\ packet'.to = packet.to
        BY <1>3, <3>2, ByteNumbers DEF CopyTo, Packet
      <4>4. packet'.from <= packet'.to
        <5>1. size < Size(packet)
          BY <1>3, <3>2, ByteNumbers DEF Size
        <5> QED BY <1>3, <4>3, <5>1, ByteNumbers DEF Size
      <4>5. ~Idle(packet)'
        BY <1>3, <4>3, <4>4, <4>2, ByteNumbers DEF Idle, Nothing
      <4> QED BY <1>3, <2>2, <4>1, <4>2, <4>3, <4>4, <4>5, ByteNumbers DEF Continues, LastByte
    <3> QED BY <3>1, <3>2
  <2>7. \A q : Queued(q)' = Queued(q)
    BY <1>2, <2>6 DEF Queued
  <2>8. HandedOver'
    BY <1>2, <2>1, <2>2 DEF AllThere, HandedOver
  <2>9. InQueue'
    BY <1>2, <2>1, <2>7 DEF AllThere, Waiting, InQueue, Continues, Idle
  <2>10. Waiting'
    BY <1>2, <2>1, <2>6, <2>7, <2>9 DEF AllThere, Waiting, Continues, LastByte, Idle
  <2> QED BY <2>5, <2>8, <2>10 DEF AllThere
<1>6. Lossless'
  BY <1>5 DEF Lossless, AllThere, HandedOver, Buffered, Waiting, InQueue
<1> QED BY <1>1, <1>4, <1>6

(* The stored length is that of the buffer's contents: in a calm           *)
(* connection nobody has reset it since it was read.                       *)
LEMMA StoreLossInv == LossInv /\ (Store \/ StoreFull) => LossInv'
<1> SUFFICES ASSUME LossInv, Store \/ StoreFull PROVE LossInv'
  OBVIOUS
<1> USE DEF LossInv
<1>1. IInv'
  BY StoreInv
<1>2. /\ UNCHANGED <<written, writing, txQueue, packet, txBuffer, client, received, calm,
                     base, sofar>>
      /\ txpc' \in {"send", "receive"}
      /\ txpc' = "receive" => txpc = "copied"
  BY DEF Store, StoreFull, writerVars, stackVars, history
<1>3. CalmInv'
  BY <1>2 DEF CalmInv
<1>4. ASSUME calm' PROVE AllThere'
  <2>1. AllThere
    BY <1>2, <1>4, LosslessParts
  <2>2. Filled' = txLen'
    BY <1>2 DEF Filled
  <2>3. txLen' = Filled
    <3>1. CASE Store
      BY <1>2, <1>4, <3>1 DEF Store, Filled, CalmInv
    <3>2. CASE StoreFull
      BY <3>2 DEF StoreFull, Filled
    <3> QED BY <3>1, <3>2
  <2> QED BY <1>2, <2>1, <2>2, <2>3, Resting
<1>5. Lossless'
  BY <1>4 DEF Lossless, AllThere, HandedOver, Buffered, Waiting, InQueue
<1> QED BY <1>1, <1>3, <1>5

LEMMA SendLossInv == LossInv /\ (AwaitFree \/ Refuse \/ AwaitDone) => LossInv'
<1> SUFFICES ASSUME LossInv, AwaitFree \/ Refuse \/ AwaitDone PROVE LossInv'
  OBVIOUS
<1> USE DEF LossInv
<1>1. IInv'
  BY SendInv
<1>2. /\ UNCHANGED <<written, writing, txQueue, txBuffer, txLen, client, received, base,
                     sofar>>
      /\ txpc \in {"send", "write", "ack"} /\ txpc' \in {"write", "receive", "rest"}
      /\ txpc' = "receive" => Idle(packet')
      /\ calm' => calm /\ packet' = packet
  BY DEF AwaitFree, Refuse, AwaitDone, Sent, NotSent, Idle, writerVars, stackVars, IInv,
         LinkTypeOK
<1>3. CalmInv'
  BY <1>2 DEF CalmInv, Idle
<1>4. ASSUME calm' PROVE AllThere'
  <2>1. AllThere
    BY <1>2, <1>4, LosslessParts
  <2>2. Filled' = Filled
    BY <1>2 DEF Filled
  <2> QED BY <1>2, <1>4, <2>1, <2>2, Resting
<1>5. Lossless'
  BY <1>4 DEF Lossless, AllThere, HandedOver, Buffered, Waiting, InQueue
<1> QED BY <1>1, <1>3, <1>5

LEMMA Concatenation ==
  ASSUME NEW s \in Seq(Nat), NEW t \in Seq(Nat)
  PROVE  /\ Len(s \o t) = Len(s) + Len(t)
         /\ \A k \in 1 .. Len(s) : (s \o t)[k] = s[k]
         /\ \A k \in Len(s) + 1 .. Len(s) + Len(t) : (s \o t)[k] = t[k - Len(s)]
  OBVIOUS

LEMMA HandOverLossInv == LossInv /\ HandOver => LossInv'
<1> SUFFICES ASSUME LossInv, HandOver PROVE LossInv'
  OBVIOUS
<1> USE DEF LossInv
<1>1. IInv'
  BY HandOverInv
<1>2. /\ UNCHANGED <<written, writing, txQueue, packet, txBuffer, client, base, sofar>>
      /\ txpc = "write" /\ txpc' = "ack" /\ txLen' = 0
      /\ calm' => /\ calm
                  /\ \/ received' = received \o SubSeq(txBuffer, 1, txLen)
                     \/ calm' = FALSE
  BY DEF HandOver, writerVars, IInv, LinkTypeOK
<1>3. ASSUME calm'
      PROVE  /\ received' = received \o SubSeq(txBuffer, 1, txLen)
             /\ calm' = calm
             /\ Len(received') = Len(received) + txLen
             /\ \A k \in 1 .. Len(received) : received'[k] = received[k]
             /\ \A k \in 1 .. txLen : received'[Len(received) + k] = txBuffer[k]
             /\ txLen \in Nat /\ Filled = txLen /\ Filled' = 0
  <2>1. /\ received' = received \o SubSeq(txBuffer, 1, txLen)
        /\ calm' = calm
    BY <1>3 DEF HandOver, CalmInv
  <2>2. /\ txBuffer \in Seq(Nat) /\ Len(txBuffer) = SPP_TX_MAX /\ SPP_TX_MAX \in Nat
        /\ txLen \in Nat /\ txLen <= SPP_TX_MAX /\ received \in Seq(Nat)
    BY LinkAssumption DEF IInv, LinkTypeOK
  <2> DEFINE sent == SubSeq(txBuffer, 1, txLen)
  <2>3. /\ sent \in Seq(Nat) /\ Len(sent) = txLen
        /\ \A c \in 1 .. txLen : sent[c] = txBuffer[c]
    BY <2>2
  <2>4. received' = received \o sent
    BY <2>1
  <2> HIDE DEF sent
  <2>5. PICK n \in Nat : n = Len(received)
    BY <2>2
  <2>6. /\ Len(received') = n + txLen
        /\ \A k \in 1 .. n : received'[k] = received[k]
        /\ \A k \in n + 1 .. n + txLen : received'[k] = sent[k - n]
    BY <2>2, <2>3, <2>4, <2>5, Concatenation
  <2>7. \A k \in 1 .. txLen : received'[n + k] = sent[k]
    <3> SUFFICES ASSUME NEW k \in 1 .. txLen PROVE received'[n + k] = sent[k]
      OBVIOUS
    <3>1. n + k \in n + 1 .. n + txLen /\ (n + k) - n = k
      BY <2>2
    <3> QED BY <2>6, <3>1
  <2> QED BY <1>2, <2>1, <2>2, <2>3, <2>5, <2>6, <2>7 DEF Filled
<1>4. CalmInv'
  BY <1>2, <1>3, ByteNumbers DEF CalmInv
<1>5. ASSUME calm' PROVE AllThere'
  <2>1. calm /\ AllThere /\ sofar <= Len(received)
    BY <1>2, <1>5, LosslessParts DEF CalmInv
  <2>2. Arrived' = Arrived + txLen /\ InBuffer' = InBuffer /\ Arrived \in Nat
    <3>1. Arrived' = Arrived + txLen /\ Arrived \in Nat
      BY <1>2, <1>3, <1>5, <2>1, ByteNumbers DEF Arrived
    <3> QED BY <1>2, <1>3, <1>5, <2>1, <3>1, ByteNumbers DEF InBuffer
  <2>3. HandedOver'
    <3> SUFFICES ASSUME NEW i \in 1 .. Arrived + txLen
                 PROVE  received'[sofar + i] = base + i
      BY <1>2, <2>2 DEF HandedOver
    <3>1. CASE i \in 1 .. Arrived
      <4>1. received[sofar + i] = base + i /\ sofar + i \in 1 .. Len(received)
        BY <2>1, <3>1, ByteNumbers DEF AllThere, HandedOver, Arrived
      <4> QED BY <1>3, <1>5, <2>1, <4>1
    <3>2. CASE i \in Arrived + 1 .. Arrived + txLen
      <4> DEFINE k == i - Arrived
      <4>1. k \in 1 .. txLen /\ Len(received) + k = sofar + i /\ base + Arrived + k = base + i
        <5>1. txLen \in Nat /\ i \in Nat
          BY <1>3, <1>5, <2>1, <2>2, <3>2
        <5>2. k \in 1 .. txLen /\ base + Arrived + k = base + i
          BY <2>2, <3>2, <5>1, ByteNumbers
        <5>3. Len(received) + k = sofar + i
          BY <3>2, <5>1, ByteNumbers DEF Arrived
        <5> QED BY <5>2, <5>3
      <4>2. received'[Len(received) + k] = txBuffer[k] /\ txBuffer[k] = base + Arrived + k
        <5> HIDE DEF k
        <5> QED BY <1>3, <1>5, <2>1, <4>1 DEF AllThere, Buffered
      <4> QED BY <4>1, <4>2
    <3> QED BY <1>3, <1>5, <2>1, <2>2, <3>1, <3>2
  <2>4. Buffered'
    BY <1>3, <1>5, <2>1 DEF Buffered
  <2>5. \A q : Queued(q)' = Queued(q)
    BY <1>2, <2>2 DEF Queued, LastByte, Idle
  <2>6. InQueue'
    BY <1>2, <2>1, <2>5 DEF AllThere, Waiting, InQueue, Continues, Idle
  <2>7. Waiting'
    BY <1>2, <2>1, <2>2, <2>5, <2>6 DEF AllThere, Waiting, Continues, LastByte, Idle
  <2> QED BY <2>3, <2>4, <2>7 DEF AllThere
<1>6. Lossless'
  BY <1>5 DEF Lossless, AllThere, HandedOver, Buffered, Waiting, InQueue
<1> QED BY <1>1, <1>4, <1>6

(* A connection that opens with nothing under way has all of nothing.      *)
LEMMA StackLossInv == LossInv /\ Stack => LossInv'
<1> SUFFICES ASSUME LossInv, Stack PROVE LossInv'
  OBVIOUS
<1> USE DEF LossInv
<1>1. IInv'
  BY StackInv
<1>2. UNCHANGED <<written, writing, txQueue, txpc, packet, txBuffer, oldLen, added,
                  received>>
  BY DEF Stack, SrvOpen, Close, Congestion, WriteDone, writerVars, taskVars, history
<1>3. CASE SrvOpen
  <2>1. /\ client' = TRUE /\ txLen' = 0 /\ base' = written /\ sofar' = Len(received)
        /\ calm' = Quiet
    BY <1>3 DEF SrvOpen
  <2>2. CalmInv'
    BY <1>2, <2>1, ByteNumbers DEF CalmInv, Quiet
  <2>3. ASSUME calm' PROVE AllThere'
    <3>1. Idle(writing) /\ Len(txQueue) = 0 /\ txpc = "receive" /\ Idle(packet)
      BY <2>1, <2>3 DEF Quiet, CalmInv, Idle
    <3>2. Arrived' = 0 /\ Filled' = 0 /\ InBuffer' = written
      BY <1>2, <2>1, <3>1, ByteNumbers DEF Arrived, Filled, InBuffer
    <3>3. Queued(0)' = written
      BY <1>2, <3>1, <3>2 DEF Queued, LastByte, Idle
    <3>4. HandedOver' /\ Buffered' /\ InQueue'
      BY <1>2, <3>1, <3>2 DEF HandedOver, Buffered, InQueue
    <3>5. Waiting'
      BY <1>2, <3>1, <3>3, <3>4 DEF Waiting, Continues, LastByte, Idle
    <3> QED BY <3>4, <3>5 DEF AllThere
  <2>4. Lossless'
    BY <2>3 DEF Lossless, AllThere, HandedOver, Buffered, Waiting, InQueue
  <2> QED BY <1>1, <2>2, <2>4
<1>4. CASE Close
  BY <1>1, <1>2, <1>4 DEF Close, CalmInv, Lossless
<1>5. CASE Congestion \/ WriteDone
  <2>1. UNCHANGED <<txLen, client, calm, base, sofar>>
    BY <1>5 DEF Congestion, WriteDone, taskVars, history
  <2>2. CalmInv'
    BY <1>2, <2>1 DEF CalmInv
  <2>3. ASSUME calm' PROVE AllThere'
    <3>1. AllThere
      BY <2>1, <2>3, LosslessParts
    <3>2. Filled' = Filled
      BY <1>2, <2>1 DEF Filled
    <3> QED BY <1>2, <2>1, <3>1, <3>2, Resting
  <2>4. Lossless'
    BY <2>3 DEF Lossless, AllThere, HandedOver, Buffered, Waiting, InQueue
  <2> QED BY <1>1, <2>2, <2>4
<1> QED BY <1>3, <1>4, <1>5 DEF Stack

LEMMA LossStepInv == LossInv /\ [LinkNext]_linkVars => LossInv'
<1> SUFFICES ASSUME LossInv, [LinkNext]_linkVars PROVE LossInv'
  OBVIOUS
<1>1. CASE \E size \in 1 .. SPP_TX_MAX - 1 : Write(size)
  BY <1>1, WriteLossInv
<1>2. CASE Enqueue
  BY <1>2, EnqueueLossInv
<1>3. CASE QueueTimeout
  <2>1. IInv'
    BY <1>3, QueueTimeoutInv DEF LossInv
  <2> QED BY <1>3, <2>1 DEF QueueTimeout, LossInv, CalmInv, Lossless, taskVars, stackVars
<1>4. CASE Task
  BY <1>4, ReceiveLossInv, FillLossInv, StoreLossInv, SendLossInv, HandOverLossInv DEF Task
<1>5. CASE Stack
  BY <1>5, StackLossInv
<1>6. CASE UNCHANGED linkVars
  <2> USE <1>6 DEF linkVars, writerVars, taskVars, stackVars, history
  <2>1. IInv'
    BY LinkStepInv DEF LossInv
  <2>2. CalmInv'
    BY DEF LossInv, CalmInv
  <2>3. ASSUME calm' PROVE AllThere'
    <3>1. AllThere /\ Filled' = Filled
      BY <2>3, LosslessParts DEF Filled, LossInv
    <3> QED BY <3>1, Resting
  <2>4. Lossless'
    BY <2>3 DEF Lossless, AllThere, HandedOver, Buffered, Waiting, InQueue
  <2> QED BY <2>1, <2>2, <2>4 DEF LossInv
<1> QED BY <1>1, <1>2, <1>3, <1>4, <1>5, <1>6 DEF LinkNext

(* In a calm connection the places a byte can be in leave no gap.          *)
THEOREM LossInvariant == LinkSpec => []LossInv
BY InitLossInv, LossStepInv, PTL DEF LinkSpec

(* The link by itself, for any writer and any sizes: in a connection that  *)
(* opened with nothing under way, and until something is refused, timed    *)
(* out or closed, no byte is missing between what was written and what was *)
(* handed over (BluetoothSerial.cpp 208-249).                              *)
THEOREM LinkLossless == LinkSpec => []Lossless
<1>1. LossInv => Lossless
  BY DEF LossInv
<1> QED BY <1>1, LossInvariant, PTL

-----------------------------------------------------------------------------
(* Car, link and PC together make no step the link alone would not: the    *)
(* car writes whole packets that fit, the reader only takes what arrived.  *)
LEMMA StepRefines == [Next]_uplinkVars => [LinkNext]_linkVars
<1> SUFFICES ASSUME [Next]_uplinkVars PROVE [LinkNext]_linkVars
  OBVIOUS
<1> USE DEF uplinkVars
<1>1. CASE BtSend
  <2>1. (IF EndsLine(written) THEN PayloadSize ELSE 1) \in 1 .. SPP_TX_MAX - 1
    BY UplinkAssumption, LinkAssumption
  <2> QED BY <1>1, <2>1 DEF BtSend, LinkNext
<1>2. CASE Open
  BY <1>2 DEF Open, LinkNext, Stack
<1>3. CASE ReadLine
  BY <1>3 DEF ReadLine
<1>4. CASE Lost
  BY <1>4 DEF Lost
<1>5. CASE Link
  BY <1>5 DEF Link, LinkNext, Stack
<1> QED BY <1>1, <1>2, <1>3, <1>4, <1>5 DEF Next

(* Car, link and reader together are the link: the car's packets are never *)
(* empty and fit the buffer, and the reader changes nothing of it.         *)
THEOREM UplinkRefinesLink == Spec => LinkSpec
<1>1. Init => LinkInit
  BY DEF Init
<1> QED BY <1>1, StepRefines, PTL DEF Spec, LinkSpec

(* In the whole uplink nothing reaches the PC twice or out of order, for   *)
(* any queue, buffer and message sizes (BluetoothSerial.cpp 158-259).      *)
THEOREM UplinkInOrder == Spec => []InOrder
BY UplinkRefinesLink, LinkInOrder, PTL

(* ... and nothing is missing in a calm connection.                        *)
THEOREM UplinkLossless == Spec => []Lossless
BY UplinkRefinesLink, LinkLossless, PTL

-----------------------------------------------------------------------------
(* The reader's file.                                                      *)
LastLine == base + (consumed - sofar)

ReaderInv ==
  /\ written <= EndOf(MaxMessages)
  /\ reader \in BOOLEAN
  /\ consumed \in 0 .. Len(received)
  /\ stored \in Seq(0 .. MaxMessages)

(* The lines read in a sound connection, the last of them up to LastLine.  *)
FileInv ==
  Sound =>
    /\ reader
    /\ sofar <= consumed
    /\ EndsLine(LastLine)
    /\ Reports(base) <= Reports(LastLine)
    /\ stored = [k \in 1 .. Reports(LastLine) - Reports(base) |->
                   (Reports(base) + k) * (platform_num + 1)]

UplinkInv == LossInv /\ ReaderInv /\ FileInv

(* A positive multiple of n is at least n.                                 *)
LEMMA PositiveMultiple ==
  ASSUME NEW n \in Nat \ {0}, NEW k \in Int, k >= 1
  PROVE  n * k \in Int /\ n * k >= n
  OBVIOUS

(* The division theorem ...                                                *)
LEMMA DivMod ==
  ASSUME NEW n \in Nat \ {0}, NEW a \in Int
  PROVE  /\ a \div n \in Int
         /\ a % n \in 0 .. n - 1
         /\ a = n * (a \div n) + (a % n)
  OBVIOUS

(* ... and its converse: quotient and remainder are unique.                *)
LEMMA DivModUnique ==
  ASSUME NEW n \in Nat \ {0}, NEW q \in Int, NEW r \in 0 .. n - 1
  PROVE  (n * q + r) \div n = q /\ (n * q + r) % n = r
<1> DEFINE a == n * q + r
           d == a \div n
           m == a % n
<1>1. a \in Int /\ d \in Int /\ m \in 0 .. n - 1 /\ a = n * d + m
  <2>1. a \in Int
    OBVIOUS
  <2> HIDE DEF a
  <2> QED BY <2>1, DivMod
<1>2. n * (d - q) = r - m /\ n * (q - d) = m - r
  BY <1>1
<1>3. ~(d - q >= 1)
  BY <1>1, <1>2, PositiveMultiple
<1>4. ~(q - d >= 1)
  BY <1>1, <1>2, PositiveMultiple
<1>5. d = q
  BY <1>1, <1>3, <1>4
<1> QED BY <1>1, <1>5

(* Counting one further either stays in the circle or begins the next one. *)
LEMMA DivModSuccessor ==
  ASSUME NEW n \in Nat \ {0}, NEW a \in Nat
  PROVE  /\ (a + 1) % n # 0 => /\ (a + 1) \div n = a \div n
                               /\ (a + 1) % n = (a % n) + 1
         /\ (a + 1) % n = 0 => /\ (a + 1) \div n = (a \div n) + 1
                               /\ a % n = n - 1
<1> DEFINE q == a \div n
           r == a % n
<1>1. q \in Int /\ r \in 0 .. n - 1 /\ a = n * q + r
  BY DivMod
<1>2. CASE r = n - 1
  <2>1. a + 1 = n * (q + 1) + 0 /\ q + 1 \in Int /\ 0 \in 0 .. n - 1
    BY <1>1, <1>2
  <2>2. /\ (n * (q + 1) + 0) \div n = q + 1
        /\ (n * (q + 1) + 0) % n = 0
    <3> HIDE DEF q, r
    <3> QED BY <2>1, DivModUnique
  <2>3. (a + 1) \div n = q + 1 /\ (a + 1) % n = 0
    BY <2>1, <2>2
  <2> QED BY <1>2, <2>3
<1>3. CASE r # n - 1
  <2>1. a + 1 = n * q + (r + 1) /\ r + 1 \in 0 .. n - 1
    BY <1>1, <1>3
  <2>2. (a + 1) \div n = q /\ (a + 1) % n = r + 1
    BY <1>1, <2>1, DivModUnique
  <2> QED BY <1>1, <2>2
<1> QED BY <1>2, <1>3

(* A quotient is natural, and its multiple does not exceed the dividend.   *)
LEMMA DivBounds ==
  ASSUME NEW n \in Nat \ {0}, NEW a \in Nat
  PROVE  a \div n \in Nat /\ n * (a \div n) <= a
<1> DEFINE q == a \div n
<1>1. q \in Int /\ a % n \in 0 .. n - 1 /\ a = n * q + (a % n)
  BY DivMod
<1>2. ~(q <= -1)
  <2> SUFFICES ASSUME q <= -1 PROVE FALSE
    OBVIOUS
  <2>1. -q \in Int /\ -q >= 1
    BY <1>1
  <2>2. n * (-q) >= n
    BY <2>1, PositiveMultiple
  <2>3. n * (-q) = -(n * q)
    BY <1>1
  <2> QED BY <1>1, <2>2, <2>3
<1> QED BY <1>1, <1>2

LEMMA Distributes ==
  ASSUME NEW n \in Int, NEW a \in Int, NEW b \in Int
  PROVE  n * (a - b) = n * a - n * b /\ n * a \in Int
  OBVIOUS

LEMMA Sizes ==
  /\ MessageSize \in Nat \ {0} /\ platform_num + 1 \in Nat \ {0}
  /\ PayloadSize \in Nat /\ MaxMessages \in Nat
  /\ MessageSize = PayloadSize + 1
BY UplinkAssumption, LinkAssumption DEF MessageSize

LEMMA ReportsType ==
  ASSUME NEW b \in Nat
  PROVE  b \div MessageSize \in Nat /\ Reports(b) \in Nat
<1>1. b \div MessageSize \in Nat
  BY Sizes, DivBounds
<1> QED BY <1>1, Sizes, DivBounds DEF Reports

(* From the end of a line to the next one it is one message.               *)
LEMMA NextLine ==
  ASSUME NEW a \in Nat, NEW b \in Nat, EndsLine(a), EndsLine(b), a < b,
         \A c \in a + 1 .. b - 1 : ~EndsLine(c)
  PROVE  /\ b = a + MessageSize
         /\ b \div MessageSize = (a \div MessageSize) + 1
         /\ a = EndOf(a \div MessageSize)
<1> DEFINE S == MessageSize
           d == a \div MessageSize
<1>1. S \in Nat \ {0} /\ d \in Nat
  BY Sizes, ReportsType
<1>2. a = S * d
  <2>1. a % S = 0 /\ a = S * (a \div S) + (a % S)
    BY <1>1, DivMod DEF EndsLine
  <2> QED BY <1>1, <2>1
<1> HIDE DEF d
<1>3. a + S = S * (d + 1) + 0 /\ d + 1 \in Int
  BY <1>1, <1>2
<1>4. (a + S) \div S = d + 1 /\ (a + S) % S = 0
  <2> HIDE DEF S
  <2>1. 0 \in 0 .. S - 1
    BY <1>1
  <2>2. (S * (d + 1) + 0) \div S = d + 1 /\ (S * (d + 1) + 0) % S = 0
    BY <1>1, <1>3, <2>1, DivModUnique
  <2> QED BY <1>3, <2>2
<1>5. ~(a + S < b)
  BY <1>1, <1>4 DEF EndsLine
<1>6. ~(b < a + S)
  <2> SUFFICES ASSUME b < a + S PROVE FALSE
    OBVIOUS
  <2> DEFINE e == b \div MessageSize
  <2>1. e \in Nat /\ b = S * e
    <3>1. b % S = 0 /\ b \in Int
      BY DEF EndsLine
    <3>2. b = S * (b \div S) + (b % S)
      BY <1>1, <3>1, DivMod
    <3> QED BY <1>1, <3>1, <3>2, ReportsType
  <2> HIDE DEF e, S
  <2>2. /\ S * (e - d) = S * e - S * d /\ S * (d - e) = S * d - S * e
        /\ S * d \in Int /\ S * e \in Int
    BY <1>1, <2>1, Distributes
  <2>3. ~(e - d >= 1) /\ ~(d - e >= 1)
    BY <1>1, <1>2, <2>1, <2>2, PositiveMultiple
  <2>4. e = d
    BY <1>1, <2>1, <2>3
  <2> QED BY <1>2, <2>1, <2>4
<1>7. b = a + S
  BY <1>1, <1>5, <1>6
<1>8. a = EndOf(d)
  BY <1>1, <1>2 DEF EndOf
<1> QED BY <1>4, <1>7, <1>8 DEF d

(* The car never writes beyond its last message.                           *)
LEMMA LineRoom ==
  ASSUME NEW w \in Nat, w < EndOf(MaxMessages)
  PROVE  w + (IF EndsLine(w) THEN PayloadSize ELSE 1) <= EndOf(MaxMessages)
<1> DEFINE S == MessageSize
           d == w \div MessageSize
<1>1. S \in Nat \ {0} /\ d \in Nat /\ S = PayloadSize + 1 /\ MaxMessages \in Nat
      /\ EndOf(MaxMessages) = S * MaxMessages /\ S * MaxMessages \in Nat
  BY Sizes, ReportsType DEF EndOf
<1>2. CASE EndsLine(w)
  <2>1. w = S * d
    <3>1. w % S = 0 /\ w \in Int
      BY <1>2 DEF EndsLine
    <3>2. w = S * (w \div S) + (w % S)
      BY <1>1, <3>1, DivMod
    <3> QED BY <1>1, <3>1, <3>2
  <2> HIDE DEF d, S
  <2>2. MaxMessages - d >= 1
    <3> SUFFICES ASSUME ~(MaxMessages - d >= 1) PROVE FALSE
      OBVIOUS
    <3>1. CASE d = MaxMessages
      BY <1>1, <2>1, <3>1
    <3>2. CASE d - MaxMessages >= 1
      <4>1. S * (d - MaxMessages) >= S
        BY <1>1, <3>2, PositiveMultiple
      <4>2. S * (d - MaxMessages) = S * d - S * MaxMessages
        BY <1>1, Distributes
      <4> QED BY <1>1, <2>1, <4>1, <4>2
    <3> QED BY <1>1, <3>1, <3>2
  <2>3. S * (MaxMessages - d) >= S
    BY <1>1, <2>2, PositiveMultiple
  <2>4. S * (MaxMessages - d) = S * MaxMessages - S * d
    BY <1>1, Distributes
  <2>5. w + PayloadSize <= S * MaxMessages
    <3>1. S * d \in Int /\ PayloadSize \in Int /\ S \in Int
      BY <1>1, <2>1, Sizes
    <3> QED BY <1>1, <2>1, <2>3, <2>4, <3>1
  <2> QED BY <1>1, <1>2, <2>5
<1>3. CASE ~EndsLine(w)
  BY <1>1, <1>3
<1> QED BY <1>2, <1>3

(* A byte of the car's belongs to one of its messages.                     *)
LEMMA MessageOf ==
  ASSUME NEW b \in Nat, b <= EndOf(MaxMessages)
  PROVE  b \div MessageSize \in 0 .. MaxMessages
<1> DEFINE S == MessageSize
           d == b \div MessageSize
<1>1. S \in Nat \ {0} /\ d \in Nat /\ MaxMessages \in Nat
      /\ EndOf(MaxMessages) = S * MaxMessages /\ S * MaxMessages \in Nat
  BY Sizes, ReportsType DEF EndOf
<1>2. S * d <= b
  BY <1>1, DivBounds
<1> HIDE DEF d, S
<1>3. ~(d - MaxMessages >= 1)
  <2> SUFFICES ASSUME d - MaxMessages >= 1 PROVE FALSE
    OBVIOUS
  <2>1. S * (d - MaxMessages) >= S
    BY <1>1, PositiveMultiple
  <2>2. S * (d - MaxMessages) = S * d - S * MaxMessages /\ S * d \in Int
    BY <1>1, Distributes
  <2> QED BY <1>1, <1>2, <2>1, <2>2
<1> QED BY <1>1, <1>3 DEF d

(* A piece of a sequence.                                                  *)
LEMMA Piece ==
  ASSUME NEW s \in Seq(Nat), NEW m \in Nat, NEW n \in 1 .. Len(s), m < n
  PROVE  /\ SubSeq(s, m + 1, n) \in Seq(Nat)
         /\ Len(SubSeq(s, m + 1, n)) = n - m
         /\ \A i \in 1 .. n - m : SubSeq(s, m + 1, n)[i] = s[m + i]
OBVIOUS

-----------------------------------------------------------------------------
LEMMA ReceivedGrows ==
  ASSUME IInv, [LinkNext]_linkVars
  PROVE  /\ Len(received) \in Nat /\ Len(received') \in Nat
         /\ Len(received) <= Len(received')
         /\ \A k \in 1 .. Len(received) : received'[k] = received[k]
<1>1. received \in Seq(Nat) /\ received' \in Seq(Nat)
  BY LinkStepInv DEF IInv, LinkTypeOK
<1>2. CASE received' = received
  BY <1>1, <1>2
<1>3. CASE received' # received
  <2> USE DEF writerVars, taskVars, stackVars, history, linkVars
  <2>1. HandOver
    BY <1>3 DEF LinkNext, Write, Enqueue, QueueTimeout, Task, Receive, Fill, Store, StoreFull,
                CopyRest, AwaitFree, Refuse, AwaitDone, Stack, SrvOpen, Close, Congestion,
                WriteDone
  <2> DEFINE sent == SubSeq(txBuffer, 1, txLen)
  <2>2. received' = received \o sent
    BY <1>3, <2>1 DEF HandOver
  <2>3. sent \in Seq(Nat)
    <3>1. /\ txBuffer \in Seq(Nat) /\ Len(txBuffer) = SPP_TX_MAX /\ SPP_TX_MAX \in Nat
          /\ txLen \in Nat /\ txLen <= SPP_TX_MAX
      BY LinkAssumption DEF IInv, LinkTypeOK
    <3> QED BY <3>1
  <2> HIDE DEF sent
  <2>4. Len(sent) \in Nat
    BY <2>3
  <2> QED BY <1>1, <2>2, <2>3, <2>4, Concatenation
<1> QED BY <1>2, <1>3

LEMMA InitUplinkInv == Init => UplinkInv
<1> SUFFICES ASSUME Init PROVE UplinkInv
  OBVIOUS
<1>1. LossInv
  BY InitLossInv DEF Init
<1>2. ReaderInv
  <2>1. 0 <= EndOf(MaxMessages)
    BY Sizes DEF EndOf
  <2>2. received = <<>> /\ consumed = 0 /\ stored = <<>> /\ reader = FALSE /\ written = 0
    BY DEF Init, LinkInit
  <2>3. consumed \in 0 .. Len(received) /\ stored \in Seq(0 .. MaxMessages)
    BY <2>2
  <2> QED BY <2>1, <2>2, <2>3 DEF ReaderInv
<1>3. FileInv
  BY DEF Init, LinkInit, FileInv, Sound
<1> QED BY <1>1, <1>2, <1>3 DEF UplinkInv

LEMMA BtSendUplinkInv == UplinkInv /\ BtSend => UplinkInv'
<1> SUFFICES ASSUME UplinkInv, BtSend PROVE UplinkInv'
  OBVIOUS
<1> USE DEF UplinkInv
<1>1. LossInv'
  BY StepRefines, LossStepInv DEF Next
<1>2. /\ written' = written + (IF EndsLine(written) THEN PayloadSize ELSE 1)
      /\ written < EndOf(MaxMessages)
      /\ UNCHANGED <<received, calm, base, sofar, reader, consumed, stored>>
  BY DEF BtSend, Write, readerVars, history
<1>3. written \in Nat
  BY ByteNumbers DEF LossInv
<1>4. ReaderInv'
  BY <1>2, <1>3, LineRoom DEF ReaderInv
<1>5. FileInv'
  BY <1>2 DEF FileInv, Sound, LastLine
<1> QED BY <1>1, <1>4, <1>5

LEMMA OpenUplinkInv == UplinkInv /\ Open => UplinkInv'
<1> SUFFICES ASSUME UplinkInv, Open PROVE UplinkInv'
  OBVIOUS
<1> USE DEF UplinkInv
<1>1. LossInv'
  BY StepRefines, LossStepInv DEF Next
<1>2. /\ base' = written /\ sofar' = Len(received) /\ consumed' = Len(received)
      /\ reader' = TRUE /\ stored' = <<>>
      /\ UNCHANGED <<written, received>>
  BY DEF Open, SrvOpen, writerVars
<1>3. written \in Nat /\ Len(received) \in Nat
  BY ByteNumbers DEF LossInv
<1>4. ReaderInv'
  BY <1>2, <1>3 DEF ReaderInv
<1>5. FileInv'
  <2>1. LastLine' = base' /\ sofar' <= consumed'
    BY <1>2, <1>3 DEF LastLine
  <2>2. Reports(LastLine)' - Reports(base)' = 0 /\ Reports(base)' <= Reports(LastLine)'
    <3>1. Reports(written) \in Nat
      BY <1>3, ReportsType
    <3>2. Reports(LastLine)' = Reports(written) /\ Reports(base)' = Reports(written)
      BY <1>2, <2>1 DEF Reports
    <3> QED BY <3>1, <3>2
  <2>3. Sound' => EndsLine(LastLine)'
    BY <1>2, <2>1 DEF Sound, EndsLine
  <2> QED BY <1>2, <2>1, <2>2, <2>3 DEF FileInv
<1> QED BY <1>1, <1>4, <1>5

LEMMA LinkUplinkInv == UplinkInv /\ (Link \/ Lost \/ UNCHANGED uplinkVars) => UplinkInv'
<1> SUFFICES ASSUME UplinkInv, Link \/ Lost \/ UNCHANGED uplinkVars PROVE UplinkInv'
  OBVIOUS
<1> USE DEF UplinkInv
<1>1. [LinkNext]_linkVars
  BY StepRefines DEF Next
<1>2. LossInv'
  BY <1>1, LossStepInv
<1>3. UNCHANGED <<written, base, sofar, consumed, stored>> /\ reader' \in {reader, FALSE}
  BY DEF Link, Enqueue, QueueTimeout, Task, Receive, Fill, Store, StoreFull, CopyRest,
         AwaitFree, HandOver, Refuse, AwaitDone, Close, Congestion, WriteDone, Lost,
         writerVars, taskVars, stackVars, history, readerVars, linkVars, uplinkVars
<1>4. calm' => calm /\ reader' = reader
  <2>1. CASE Link
    BY <2>1 DEF Link, Enqueue, QueueTimeout, Task, Receive, Fill, Store, StoreFull, CopyRest,
         AwaitFree, HandOver, Refuse, AwaitDone, Sent, NotSent, Close, Congestion, WriteDone,
         taskVars, stackVars, history, readerVars
  <2>2. CASE Lost
    BY <2>2 DEF Lost, linkVars, history, LossInv, CalmInv
  <2>3. CASE UNCHANGED uplinkVars
    BY <2>3 DEF uplinkVars, linkVars, history
  <2> QED BY <2>1, <2>2, <2>3
<1>5. Len(received) \in Nat /\ Len(received') \in Nat /\ Len(received) <= Len(received')
  BY <1>1, ReceivedGrows DEF LossInv
<1>6. ReaderInv'
  <2>1. consumed' \in 0 .. Len(received')
    BY <1>3, <1>5 DEF ReaderInv
  <2>2. written' <= EndOf(MaxMessages) /\ reader' \in BOOLEAN
        /\ stored' \in Seq(0 .. MaxMessages)
    BY <1>3 DEF ReaderInv
  <2> QED BY <2>1, <2>2 DEF ReaderInv
<1>7. FileInv'
  BY <1>3, <1>4 DEF FileInv, Sound, LastLine
<1> QED BY <1>2, <1>6, <1>7

(* In a sound connection what is received is numbered without a gap, so    *)
(* that the next line is the next message.                                 *)
LEMMA ReadLineUplinkInv == UplinkInv /\ ReadLine => UplinkInv'
<1> SUFFICES ASSUME UplinkInv, ReadLine PROVE UplinkInv'
  OBVIOUS
<1> USE DEF UplinkInv
<1>1. LossInv' /\ UNCHANGED linkVars
  BY StepRefines, LossStepInv DEF Next, ReadLine
<1>2. UNCHANGED <<written, received, calm, base, sofar>>
  BY <1>1 DEF linkVars, writerVars, history
<1>3. PICK end \in consumed + 1 .. Len(received) :
        /\ EndsLine(received[end])
        /\ \A i \in consumed + 1 .. end - 1 : ~EndsLine(received[i])
        /\ LET line == SubSeq(received, consumed + 1, end)
               m    == received[end] \div MessageSize
           IN  IF IsMessage(line, m) THEN WholeLine(m) ELSE TornLine(line)
        /\ consumed' = end
  BY DEF ReadLine
<1> DEFINE line == SubSeq(received, consumed + 1, end)
           m    == received[end] \div MessageSize
<1>4. /\ IF IsMessage(line, m) THEN WholeLine(m) ELSE TornLine(line)
      /\ written \in Nat /\ received \in Seq(Nat) /\ Len(received) \in Nat
      /\ base \in Nat /\ sofar \in Nat
      /\ consumed \in Nat /\ end \in Nat /\ end \in 1 .. Len(received)
      /\ stored \in Seq(0 .. MaxMessages)
  BY <1>3, ByteNumbers DEF LossInv, IInv, LinkTypeOK, ReaderInv
<1>5. m \in 0 .. MaxMessages
  <2>1. received[end] \in 1 .. written
    BY <1>4 DEF LossInv, IInv, Order, ReceivedInv, Ahead
  <2>2. received[end] \in Nat /\ received[end] <= EndOf(MaxMessages)
    <3>1. EndOf(MaxMessages) \in Nat
      BY Sizes DEF EndOf
    <3> QED BY <1>4, <2>1, <3>1 DEF ReaderInv
  <2> QED BY <2>2, MessageOf
<1>6. ReaderInv'
  <2>1. reader' \in BOOLEAN
    BY <1>4 DEF WholeLine, TornLine, ReaderInv
  <2>2. stored' \in Seq(0 .. MaxMessages)
    <3>1. stored' = stored \/ stored' = Append(stored, m) \/ stored' = Append(stored, 0)
      BY <1>4 DEF WholeLine, TornLine
    <3>2. 0 \in 0 .. MaxMessages
      BY Sizes
    <3> DEFINE Files == 0 .. MaxMessages
    <3>3. m \in Files /\ 0 \in Files /\ stored \in Seq(Files)
      BY <1>4, <1>5, <3>2
    <3> HIDE DEF m, Files
    <3>4. Append(stored, m) \in Seq(Files) /\ Append(stored, 0) \in Seq(Files)
      BY <3>3
    <3>5. stored' \in Seq(Files)
      BY <3>1, <3>3, <3>4
    <3> QED BY <3>5 DEF Files
  <2> QED BY <1>2, <1>3, <1>4, <2>1, <2>2 DEF ReaderInv
<1>7. ASSUME Sound PROVE FileInv'
  <2>1. /\ reader /\ sofar <= consumed /\ EndsLine(LastLine)
        /\ Reports(base) <= Reports(LastLine)
        /\ stored = [k \in 1 .. Reports(LastLine) - Reports(base) |->
                       (Reports(base) + k) * (platform_num + 1)]
    BY <1>7 DEF FileInv
  <2>2. \A k \in sofar + 1 .. Len(received) : received[k] = base + (k - sofar)
    <3> SUFFICES ASSUME NEW k \in sofar + 1 .. Len(received)
                 PROVE  received[k] = base + (k - sofar)
      OBVIOUS
    <3>1. \A i \in 1 .. Arrived : received[sofar + i] = base + i
      BY <1>7, LosslessParts DEF Sound, LossInv, AllThere, HandedOver
    <3>2. k - sofar \in 1 .. Arrived /\ sofar + (k - sofar) = k
      BY <1>4 DEF Arrived
    <3> QED BY <3>1, <3>2
  <2> DEFINE a == LastLine
             b == received[end]
  <2>3. a \in Nat /\ b \in Nat /\ b = base + (end - sofar) /\ a < b
        /\ a = base + (consumed - sofar)
    BY <1>4, <1>3, <2>1, <2>2 DEF LastLine
  <2>4. EndsLine(b) /\ \A c \in a + 1 .. b - 1 : ~EndsLine(c)
    <3>1. EndsLine(b)
      BY <1>3
    <3> SUFFICES ASSUME NEW c \in a + 1 .. b - 1 PROVE ~EndsLine(c)
      BY <3>1
    <3>2. PICK i \in Int : i = c - base + sofar
      BY <1>4, <2>3
    <3>3. i \in consumed + 1 .. end - 1 /\ i \in sofar + 1 .. Len(received)
          /\ base + (i - sofar) = c
      BY <1>3, <1>4, <2>1, <2>3, <3>2
    <3>4. received[i] = c
      BY <2>2, <3>3
    <3> QED BY <1>3, <3>3, <3>4
  <2> HIDE DEF a, b
  <2>5. b = a + MessageSize /\ b \div MessageSize = (a \div MessageSize) + 1
        /\ a = EndOf(a \div MessageSize)
    BY <2>1, <2>3, <2>4, NextLine DEF a
  <2>6. end = consumed + MessageSize
    BY <1>4, <2>3, <2>5, Sizes
  <2>7. IsMessage(line, m)
    <3>1. m = (a \div MessageSize) + 1 /\ a \div MessageSize \in Nat
      BY <2>3, <2>5, ReportsType DEF b
    <3>2. EndOf(m - 1) = a
      BY <2>5, <3>1
    <3>3. /\ line \in Seq(Nat) /\ Len(line) = MessageSize
          /\ \A i \in 1 .. MessageSize : line[i] = received[consumed + i]
      <4>1. consumed < end /\ end - consumed = MessageSize
        BY <1>4, <2>6, Sizes
      <4> QED BY <1>4, <4>1, Piece
    <3>4. \A i \in 1 .. MessageSize : line[i] = a + i
      <4> SUFFICES ASSUME NEW i \in 1 .. MessageSize PROVE line[i] = a + i
        OBVIOUS
      <4>1. PICK k \in Int : k = consumed + i
        BY <1>4, Sizes
      <4>2. k \in sofar + 1 .. Len(received) /\ base + (k - sofar) = a + i
        BY <1>4, <2>1, <2>3, <2>6, <4>1, Sizes
      <4>3. received[k] = a + i
        BY <2>2, <4>2
      <4> HIDE DEF line
      <4> QED BY <3>3, <4>1, <4>3
    <3> HIDE DEF line, m
    <3>5. line = [i \in 1 .. MessageSize |-> a + i]
      BY <3>3, <3>4, Sizes
    <3> QED BY <3>2, <3>5 DEF IsMessage
  <2>8. reader' = TRUE /\ stored' = IF IsReport(m) THEN Append(stored, m) ELSE stored
    BY <1>4, <2>7 DEF WholeLine
  <2>9. LastLine' = b /\ Sound'
    BY <1>2, <1>3, <1>7, <2>3 DEF LastLine, Sound
  <2> DEFINE r == Reports(a)
             q == Reports(base)
             n == platform_num + 1
             f(k) == (q + k) * n
  <2>10. /\ r \in Nat /\ q \in Nat /\ n \in Nat \ {0} /\ q <= r
         /\ stored = [k \in 1 .. r - q |-> f(k)]
    BY <1>4, <2>1, <2>3, ReportsType, Sizes DEF a
  <2>11. /\ IsReport(m) => Reports(b) = r + 1 /\ m = (r + 1) * n
         /\ ~IsReport(m) => Reports(b) = r
    <3> DEFINE d == a \div MessageSize
    <3>1. d \in Nat /\ m = d + 1 /\ r = d \div n /\ Reports(b) = (d + 1) \div n
          /\ (IsReport(m) <=> (d + 1) % n = 0)
      BY <2>3, <2>5, ReportsType DEF Reports, IsReport, b
    <3> HIDE DEF d, m, n, r
    <3>2. /\ (d + 1) % n # 0 => (d + 1) \div n = d \div n
          /\ (d + 1) % n = 0 => (d + 1) \div n = (d \div n) + 1
      BY <2>10, <3>1, DivModSuccessor
    <3>3. (d + 1) % n = 0 => d + 1 = n * ((d + 1) \div n) /\ (d + 1) \div n \in Int
      <4>1. d + 1 \in Int
        BY <3>1
      <4>2. d + 1 = n * ((d + 1) \div n) + ((d + 1) % n) /\ (d + 1) \div n \in Int
        BY <2>10, <4>1, DivMod
      <4> QED BY <2>10, <4>2
    <3>4. (d + 1) % n = 0 => d + 1 = (r + 1) * n
      <4> SUFFICES ASSUME (d + 1) % n = 0 PROVE d + 1 = (r + 1) * n
        OBVIOUS
      <4>1. d + 1 = n * (r + 1) /\ r \in Nat
        BY <2>10, <3>1, <3>2, <3>3
      <4> QED BY <2>10, <4>1
    <3> QED BY <3>1, <3>2, <3>4
  <2>12. q <= Reports(b) /\ stored' = [k \in 1 .. Reports(b) - q |-> f(k)]
    <3>1. CASE IsReport(m)
      <4>1. m = f(r - q + 1)
        <5>1. q + (r - q + 1) = r + 1
          BY <2>10
        <5> QED BY <2>11, <3>1, <5>1
      <4>2. PICK c \in Nat : c = r - q
        BY <2>10
      <4> HIDE DEF f, m, r, q
      <4>3. stored' = [k \in 1 .. c + 1 |-> f(k)]
        BY <2>8, <2>10, <3>1, <4>1, <4>2
      <4>4. Reports(b) - q = c + 1
        BY <2>10, <2>11, <3>1, <4>2
      <4> QED BY <2>10, <2>11, <3>1, <4>3, <4>4
    <3>2. CASE ~IsReport(m)
      BY <2>8, <2>10, <2>11, <3>2
    <3> QED BY <3>1, <3>2
  <2>13. EndsLine(LastLine)' /\ sofar' <= consumed' /\ reader'
    <3>1. EndsLine(LastLine)'
      BY <2>4, <2>9 DEF EndsLine
    <3> QED BY <1>2, <1>3, <1>4, <2>1, <2>8, <3>1
  <2>14. Reports(LastLine)' = Reports(b) /\ Reports(base)' = q
    BY <1>2, <2>9 DEF Reports
  <2> QED BY <2>12, <2>13, <2>14 DEF FileInv
<1>8. FileInv'
  BY <1>2, <1>7 DEF FileInv, Sound
<1> QED BY <1>1, <1>6, <1>8

LEMMA UplinkStepInv == UplinkInv /\ [Next]_uplinkVars => UplinkInv'
BY BtSendUplinkInv, OpenUplinkInv, ReadLineUplinkInv, LinkUplinkInv DEF Next

(* The file follows the lines read, and those the messages written.        *)
THEOREM UplinkInvariant == Spec => []UplinkInv
BY InitUplinkInv, UplinkStepInv, PTL DEF Spec

(* The variables of the whole uplink keep their types.                     *)
THEOREM TypeCorrect == Spec => []TypeOK
<1>1. UplinkInv => TypeOK
  BY DEF UplinkInv, LossInv, IInv, ReaderInv, TypeOK
<1> QED BY <1>1, UplinkInvariant, PTL

(* In a calm connection that opens between two messages the reader never   *)
(* meets a torn line, and its file holds exactly the reports among the     *)
(* lines read so far, in order (serial_reader.py 64-89, bluetooth.h 31).   *)
THEOREM FileCorrect == Spec => []FileHoldsReports
<1>1. UplinkInv => FileHoldsReports
  <2> SUFFICES ASSUME UplinkInv, Sound
               PROVE  LET last == IF consumed = sofar THEN base ELSE received[consumed]
                      IN  /\ reader
                          /\ EndsLine(last)
                          /\ stored = [k \in 1 .. Reports(last) - Reports(base) |->
                                         (Reports(base) + k) * (platform_num + 1)]
    BY DEF FileHoldsReports
  <2>1. /\ reader /\ sofar <= consumed /\ EndsLine(LastLine)
        /\ stored = [k \in 1 .. Reports(LastLine) - Reports(base) |->
                       (Reports(base) + k) * (platform_num + 1)]
    BY DEF UplinkInv, FileInv
  <2>2. /\ base \in Nat /\ sofar \in Nat /\ Len(received) \in Nat
        /\ consumed \in Nat /\ consumed <= Len(received)
    BY ByteNumbers DEF UplinkInv, LossInv, ReaderInv
  <2>3. CASE consumed = sofar
    <3>1. LastLine = base
      BY <2>2, <2>3 DEF LastLine
    <3> QED BY <2>1, <2>3, <3>1
  <2>4. CASE consumed # sofar
    <3>1. \A i \in 1 .. Arrived : received[sofar + i] = base + i
      BY LosslessParts DEF UplinkInv, Sound, LossInv, AllThere, HandedOver
    <3>2. consumed - sofar \in 1 .. Arrived /\ sofar + (consumed - sofar) = consumed
      BY <2>1, <2>2, <2>4 DEF Arrived
    <3>3. received[consumed] = LastLine
      BY <3>1, <3>2 DEF LastLine
    <3> QED BY <2>1, <2>4, <3>3
  <2> QED BY <2>3, <2>4
<1> QED BY <1>1, UplinkInvariant, PTL

=============================================================================
