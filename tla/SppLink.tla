------------------------------- MODULE SppLink -------------------------------
(***************************************************************************)
(* The sending side of the vendored BluetoothSerial (BluetoothSerial.cpp), *)
(* the path of everything the car tells the PC: write puts a packet into   *)
(* a queue, the task _spp_tx_task gathers packets in one buffer and hands  *)
(* that to the Bluetooth stack, and the stack's callback esp_spp_cb opens  *)
(* and closes the connection, reports congestion and finished writes.      *)
(*                                                                         *)
(* Writer, task and callback run concurrently.  The task and the callback  *)
(* share _spp_tx_buffer_len without a lock: a connection that opens sets   *)
(* it to 0 between the task's reads and writes of it.                      *)
(*                                                                         *)
(* Bytes are numbered in the order they are written, so a packet is an     *)
(* interval of numbers and what they spell does not matter here.           *)
(* Abstracted: malloc does not fail; one peer (RemoteControl has more);    *)
(* a packet is shorter than the buffer, as the program's all are, so that  *)
(* the loop for longer ones (lines 230-239) is never entered; what the     *)
(* stack writes arrives.                                                   *)
(***************************************************************************)
EXTENDS Integers, Sequences, SequencesExt

CONSTANTS
  TX_QUEUE_SIZE,  \* packets in the queue
  SPP_TX_MAX,     \* bytes in the buffer
  MaxOpens        \* bound: connections

ASSUME LinkAssumption ==
  /\ TX_QUEUE_SIZE \in Nat \ {0}
  /\ SPP_TX_MAX \in Nat \ {0, 1}
  /\ MaxOpens \in Nat

VARIABLES
  written,    \* bytes given to write so far
  writing,    \* the packet write is putting into the queue
  txQueue,    \* _spp_tx_queue
  txpc,       \* where _spp_tx_task is, see TypeOK
  packet,     \* what it has still to copy of the packet it took
  txBuffer,   \* _spp_tx_buffer
  txLen,      \* _spp_tx_buffer_len ...
  oldLen,     \* ... when the task read it last,
  added       \* and the bytes copied since

VARIABLES
  client,     \* _spp_client # 0
  free,       \* the bit SPP_CONGESTED, set when the link is not congested
  txDone,     \* the semaphore _spp_tx_done
  acks,       \* writes the stack has not reported finished
  opens,      \* connections so far
  received,   \* history: the bytes the stack has written, in order
  calm,       \* history: the connection opened with nothing under way, and
              \* since then nothing was refused, failed, timed out or cut short
  base,       \* history: the bytes written before the connection opened,
  sofar       \* and the length of received

writerVars == <<written, writing>>
taskVars   == <<txpc, packet, txBuffer, txLen, oldLen, added>>
stackVars  == <<client, free, txDone, acks, opens>>
history    == <<received, calm, base, sofar>>
linkVars   == <<writerVars, txQueue, taskVars, stackVars, history>>

Packet   == [from : Nat, to : Nat]   \* the bytes from .. to
Nothing  == [from |-> 1, to |-> 0]
Size(p)  == p.to - p.from + 1
Idle(p)  == p = Nothing

-----------------------------------------------------------------------------
LinkInit ==
  /\ written = 0 /\ writing = Nothing
  /\ txQueue = <<>>
  /\ txpc = "receive" /\ packet = Nothing
  /\ txBuffer = [cell \in 1 .. SPP_TX_MAX |-> 0]
  /\ txLen = 0 /\ oldLen = 0 /\ added = 0
  /\ client = FALSE /\ free = TRUE /\ txDone = FALSE /\ acks = 0
  /\ opens = 0
  /\ received = <<>> /\ calm = FALSE /\ base = 0 /\ sofar = 0

(* write: without a client the bytes are gone.                             *)
Write(size) ==
  /\ Idle(writing)
  /\ written' = written + size
  /\ IF client THEN writing' = [from |-> written + 1, to |-> written + size]
               ELSE UNCHANGED writing
  /\ UNCHANGED <<txQueue, taskVars, stackVars, history>>

(* xQueueSend waits a second for room in the queue.                        *)
Enqueue ==
  /\ ~Idle(writing) /\ Len(txQueue) < TX_QUEUE_SIZE
  /\ txQueue' = Append(txQueue, writing)
  /\ writing' = Nothing
  /\ UNCHANGED <<written, taskVars, stackVars, history>>

QueueTimeout ==
  /\ ~Idle(writing) /\ Len(txQueue) = TX_QUEUE_SIZE
  /\ writing' = Nothing
  /\ calm' = FALSE
  /\ UNCHANGED <<written, txQueue, taskVars, stackVars, received, base, sofar>>

-----------------------------------------------------------------------------
(* _spp_tx_task.                                                           *)
Receive ==
  /\ txpc = "receive" /\ txQueue # <<>>
  /\ packet' = Head(txQueue)
  /\ txQueue' = Tail(txQueue)
  /\ txpc' = "fill"
  /\ UNCHANGED <<writerVars, txBuffer, txLen, oldLen, added, stackVars, history>>

(* memcpy of the first bytes of the packet to the given place.             *)
CopyTo(offset, size) ==
  /\ txBuffer' = [cell \in 1 .. SPP_TX_MAX |->
                   IF cell \in offset + 1 .. offset + size
                   THEN packet.from + (cell - offset - 1)
                   ELSE txBuffer[cell]]
  /\ packet' = IF size = Size(packet) THEN Nothing
               ELSE [packet EXCEPT !.from = packet.from + size]

MutantFill ==
  /\ txpc = "fill"
  /\ CopyTo(txLen, Size(packet))
  /\ oldLen' = txLen /\ added' = Size(packet)
  /\ txpc' = "copied"
  /\ UNCHANGED <<writerVars, txQueue, txLen, stackVars, history>>

(* The length is read once, before the copy.                               *)
Fill ==
  /\ txpc = "fill"
  /\ LET room == SPP_TX_MAX - txLen
     IN  IF Size(packet) <= room
         THEN /\ CopyTo(txLen, Size(packet))
              /\ oldLen' = txLen /\ added' = Size(packet)
              /\ txpc' = "copied"
         ELSE /\ CopyTo(txLen, room)
              /\ txpc' = "filled"
              /\ UNCHANGED <<oldLen, added>>
  /\ UNCHANGED <<writerVars, txQueue, txLen, stackVars, history>>

(* _spp_tx_buffer_len += ...: of the length as it is now, or as it was     *)
(* read before the copy, as the compiler likes.  The buffer is sent when   *)
(* it is full and when no other packet waits.                              *)
MutantStore ==
  /\ txpc = "copied"
  /\ txLen' = oldLen + added
  /\ txpc' = "receive"
  /\ UNCHANGED <<writerVars, txQueue, packet, txBuffer, oldLen, added, stackVars,
                 history>>

Store ==
  /\ txpc = "copied"
  /\ txLen' \in {txLen + added, oldLen + added}
  /\ txpc' = IF txLen' = SPP_TX_MAX \/ txQueue = <<>> THEN "send" ELSE "receive"
  /\ UNCHANGED <<writerVars, txQueue, packet, txBuffer, oldLen, added, stackVars,
                 history>>

StoreFull ==
  /\ txpc = "filled"
  /\ txLen' = SPP_TX_MAX
  /\ txpc' = "send"
  /\ UNCHANGED <<writerVars, txQueue, packet, txBuffer, oldLen, added, stackVars,
                 history>>

(* The rest of a packet that did not fit goes to the start of the buffer.  *)
CopyRest ==
  /\ txpc = "rest"
  /\ CopyTo(0, Size(packet))
  /\ oldLen' = txLen /\ added' = Size(packet)
  /\ txpc' = "copied"
  /\ UNCHANGED <<writerVars, txQueue, txLen, stackVars, history>>

(* _spp_send_buffer returns; after a failure the rest is dropped, the      *)
(* buffer is not.                                                          *)
MutantSent ==
  /\ txpc' = "receive"
  /\ packet' = Nothing
  /\ UNCHANGED calm

Sent ==
  /\ txpc' = IF Idle(packet) THEN "receive" ELSE "rest"
  /\ UNCHANGED <<packet, calm>>

NotSent ==
  /\ txpc' = "receive"
  /\ packet' = Nothing
  /\ calm' = FALSE

(* It waits for the congestion to end, a second at most, ...               *)
AwaitFree ==
  /\ txpc = "send"
  /\ IF free /\ client THEN txpc' = "write" /\ UNCHANGED <<packet, calm>>
                       ELSE NotSent
  /\ UNCHANGED <<writerVars, txQueue, txBuffer, txLen, oldLen, added, stackVars,
                 received, base, sofar>>

(* ... hands the buffer to the stack, which may refuse it; what it accepts *)
(* is lost if the client has gone meanwhile, and may be lost otherwise     *)
(* too, with a write that fails later, ...                                 *)
MutantHandOver ==
  /\ txpc = "write"
  /\ \/ client /\ received' = received \o SubSeq(txBuffer, 1, txLen) /\ UNCHANGED calm
     \/ calm' = FALSE /\ UNCHANGED received
  /\ acks' = acks + 1
  /\ txpc' = "ack"
  /\ UNCHANGED <<writerVars, txQueue, packet, txBuffer, txLen, oldLen, added, client,
                 free, txDone, opens, base, sofar>>

HandOver ==
  /\ txpc = "write"
  /\ \/ client /\ received' = received \o SubSeq(txBuffer, 1, txLen) /\ UNCHANGED calm
     \/ calm' = FALSE /\ UNCHANGED received
  /\ acks' = acks + 1
  /\ txLen' = 0
  /\ txpc' = "ack"
  /\ UNCHANGED <<writerVars, txQueue, packet, txBuffer, oldLen, added, client, free,
                 txDone, opens, base, sofar>>

Refuse ==
  /\ txpc = "write"
  /\ NotSent
  /\ UNCHANGED <<writerVars, txQueue, txBuffer, txLen, oldLen, added, stackVars,
                 received, base, sofar>>

(* ... and waits for the write to be reported finished, a second at most.  *)
AwaitDone ==
  /\ txpc = "ack"
  /\ IF txDone THEN Sent ELSE NotSent
  /\ txDone' = FALSE
  /\ UNCHANGED <<writerVars, txQueue, txBuffer, txLen, oldLen, added, client, free,
                 acks, opens, received, base, sofar>>

Task ==
  \/ Receive \/ Fill \/ Store \/ StoreFull \/ CopyRest
  \/ AwaitFree \/ HandOver \/ Refuse \/ AwaitDone

-----------------------------------------------------------------------------
(* esp_spp_cb.  A connection drops what the buffer holds.                  *)
Quiet ==
  /\ Idle(writing) /\ txQueue = <<>> /\ txpc = "receive"

SrvOpen ==
  /\ ~client /\ opens < MaxOpens
  /\ client' = TRUE
  /\ txLen' = 0
  /\ opens' = opens + 1
  /\ calm' = Quiet /\ base' = written /\ sofar' = Len(received)
  /\ UNCHANGED <<writerVars, txQueue, txpc, packet, txBuffer, oldLen, added, free,
                 txDone, acks, received>>

(* A closed connection counts as free; writes may go unreported.           *)
Close ==
  /\ client
  /\ client' = FALSE
  /\ free' = TRUE
  /\ acks' \in {0, acks}
  /\ calm' = FALSE
  /\ UNCHANGED <<writerVars, txQueue, taskVars, txDone, opens, received, base, sofar>>

Congestion ==
  /\ client
  /\ free' = ~free
  /\ UNCHANGED <<writerVars, txQueue, taskVars, client, txDone, acks, opens, history>>

(* A finished write: a failed one is only logged, and the semaphore given  *)
(* as after one that has succeeded.                                        *)
WriteDone ==
  /\ acks > 0
  /\ acks' = acks - 1
  /\ txDone' = TRUE
  /\ free' \in {free, FALSE}
  /\ UNCHANGED <<writerVars, txQueue, taskVars, client, opens, history>>

Stack == SrvOpen \/ Close \/ Congestion \/ WriteDone

LinkNext ==
  \/ \E size \in 1 .. SPP_TX_MAX - 1 : Write(size)
  \/ Enqueue \/ QueueTimeout \/ Task \/ Stack

LinkSpec == LinkInit /\ [][LinkNext]_linkVars

-----------------------------------------------------------------------------
LinkTypeOK ==
  /\ written \in Nat /\ writing \in Packet
  /\ txQueue \in Seq(Packet) /\ Len(txQueue) <= TX_QUEUE_SIZE
  /\ txpc \in {"receive", "fill", "copied", "filled", "send", "write", "ack", "rest"}
  /\ packet \in Packet
  /\ txBuffer \in [1 .. SPP_TX_MAX -> Nat]
  /\ txLen \in 0 .. SPP_TX_MAX /\ oldLen \in 0 .. SPP_TX_MAX
  /\ added \in 0 .. SPP_TX_MAX
  /\ client \in BOOLEAN /\ free \in BOOLEAN /\ txDone \in BOOLEAN /\ calm \in BOOLEAN
  /\ acks \in Nat /\ opens \in Nat /\ base \in Nat /\ sofar \in Nat
  /\ received \in Seq(Nat)

(* Whatever the task and the callback do to the length between each        *)
(* other's steps (lines 211-224 and 281), whatever is refused, cut or lost *)
(* with a connection: a byte never reaches the peer twice, before an       *)
(* older one, or without having been written.                              *)
InOrder ==
  /\ \A i, j \in DOMAIN received : i < j => received[i] < received[j]
  /\ \A i \in DOMAIN received : received[i] \in 1 .. written

(* How much the buffer holds, counting what was copied before the length   *)
(* is stored.                                                              *)
Filled == CASE txpc = "copied" -> oldLen + added
            [] txpc = "filled" -> SPP_TX_MAX
            [] OTHER           -> txLen

(* The bytes sent in this connection, and the last one in the              *)
(* buffer, when none is missing.                                           *)
Arrived  == Len(received) - sofar
InBuffer == base + Arrived + Filled

(* The first byte of p, if there is any, is the one after byte b.          *)
Continues(p, b) == Idle(p) \/ (p.from = b + 1 /\ p.from <= p.to)
LastByte(p, b)  == IF Idle(p) THEN b ELSE p.to

(* The last byte up to the q-th packet of the queue.                       *)
Queued(q) == IF q = 0 THEN LastByte(packet, InBuffer) ELSE txQueue[q].to

(* In a calm connection nothing is missing (lines 208-249): all that was   *)
(* written since it opened has been sent or waits in the buffer, in        *)
(* the packet being copied, in the queue or in write, in this order, byte  *)
(* after byte.                                                             *)
Lossless ==
  calm =>
    /\ \A i \in 1 .. Arrived : received[sofar + i] = base + i
    /\ \A i \in 1 .. Filled : txBuffer[i] = base + Arrived + i
    /\ Continues(packet, InBuffer)
    /\ \A q \in 1 .. Len(txQueue) :
         ~Idle(txQueue[q]) /\ Continues(txQueue[q], Queued(q - 1))
    /\ Continues(writing, Queued(Len(txQueue)))
    /\ LastByte(writing, Queued(Len(txQueue))) = written

=============================================================================
