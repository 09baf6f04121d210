------------------------------- MODULE Uplink -------------------------------
(***************************************************************************)
(* The car's messages on their way into the PC's goods file: btSend, the   *)
(* link of SppLink, and the reader data_uploader/serial_reader.py.         *)
(*                                                                         *)
(* println gives every message to the link in two writes, its text and the *)
(* end of its line.  Message number m is the report of a round when m is a *)
(* multiple of platform_num + 1, an announcement otherwise: Patrol shows   *)
(* that the car sends them so.                                             *)
(*                                                                         *)
(* A connection is a run of the reader, which opens the port when it       *)
(* starts and begins an empty file; whoever runs it may start it again.    *)
(* Abstracted: what a text spells.  A line that is one whole message is    *)
(* read as that message; the reader's checks of any other are those of     *)
(* TornLine.  The end of a line is one byte, a text PayloadSize bytes; the *)
(* goods of one report enter the file together.                            *)
(***************************************************************************)
EXTENDS SppLink

CONSTANTS
  platform_num,  \* shelves of a round
  PayloadSize,   \* bytes of a text
  MaxMessages    \* bound: messages the car sends

ASSUME UplinkAssumption ==
  /\ platform_num \in Nat \ {0}
  /\ PayloadSize \in 1 .. SPP_TX_MAX - 1
  /\ MaxMessages \in Nat

VARIABLES
  reader,    \* is serial_reader.py running?
  consumed,  \* how much of received it has read
  stored     \* the reports in receive.xml, 0 for one nobody sent

uplinkVars == <<linkVars, reader, consumed, stored>>
readerVars == <<reader, consumed, stored>>

MessageSize == PayloadSize + 1
EndOf(m)    == m * MessageSize
EndsLine(b) == b % MessageSize = 0
IsReport(m) == m % (platform_num + 1) = 0

-----------------------------------------------------------------------------
Init == LinkInit /\ reader = FALSE /\ consumed = 0 /\ stored = <<>>

(* btSend: println writes the text, then the end of the line.              *)
BtSend ==
  /\ written < EndOf(MaxMessages)
  /\ Write(IF EndsLine(written) THEN PayloadSize ELSE 1)
  /\ UNCHANGED readerVars

Open ==
  /\ ~reader /\ SrvOpen
  /\ reader' = TRUE
  /\ consumed' = Len(received)
  /\ stored' = <<>>

(* Without an announcement's words or five commas in it, a torn line is a  *)
(* ValueError that ends the reader; the piece of a report may bring them.  *)
TornLine(line) ==
  \/ reader' = FALSE /\ UNCHANGED stored
  \/ /\ \E i \in DOMAIN line : IsReport((line[i] - 1) \div MessageSize + 1)
     /\ reader' = TRUE
     /\ stored' = Append(stored, 0)

IsMessage(line, m) ==
  line = [i \in 1 .. MessageSize |-> EndOf(m - 1) + i]

MutantWholeLine(m) ==
  /\ reader' = TRUE
  /\ stored' = Append(stored, m)

WholeLine(m) ==
  /\ reader' = TRUE
  /\ stored' = IF IsReport(m) THEN Append(stored, m) ELSE stored

ReadLine ==
  /\ reader
  /\ \E end \in consumed + 1 .. Len(received) :
       /\ EndsLine(received[end])
       /\ \A i \in consumed + 1 .. end - 1 : ~EndsLine(received[i])
       /\ LET line == SubSeq(received, consumed + 1, end)
              m    == received[end] \div MessageSize
          IN  IF IsMessage(line, m) THEN WholeLine(m) ELSE TornLine(line)
       /\ consumed' = end
  /\ UNCHANGED linkVars

(* With the link gone, readline raises an exception.                       *)
Lost ==
  /\ reader /\ ~client
  /\ reader' = FALSE
  /\ UNCHANGED <<linkVars, consumed, stored>>

Link ==
  /\ Enqueue \/ QueueTimeout \/ Task \/ Close \/ Congestion \/ WriteDone
  /\ UNCHANGED readerVars

Next == BtSend \/ Open \/ ReadLine \/ Lost \/ Link

Spec == Init /\ [][Next]_uplinkVars

Does(A) == A /\ UNCHANGED readerVars

FairSpec ==
  /\ Spec
  /\ WF_uplinkVars(Does(Enqueue))
  /\ WF_uplinkVars(Does(Task))
  /\ WF_uplinkVars(ReadLine)

-----------------------------------------------------------------------------
TypeOK ==
  /\ LinkTypeOK
  /\ written <= EndOf(MaxMessages)
  /\ reader \in BOOLEAN
  /\ consumed \in 0 .. Len(received)
  /\ stored \in Seq(0 .. MaxMessages)

(* A calm connection that opened between two messages.                     *)
Sound == calm /\ EndsLine(base)

(* The reports among the messages up to byte b.                            *)
Reports(b) == (b \div MessageSize) \div (platform_num + 1)

(* In it no line ever ends the reader, and the file holds exactly the      *)
(* reports among the lines read so far, each once and in order             *)
(* (serial_reader.py 64-89).                                               *)
FileHoldsReports ==
  Sound =>
    LET last == IF consumed = sofar THEN base ELSE received[consumed]
    IN  /\ reader
        /\ EndsLine(last)
        /\ stored = [k \in 1 .. Reports(last) - Reports(base) |->
                       (Reports(base) + k) * (platform_num + 1)]

(* Every report written in a sound connection gets into the file, unless   *)
(* something is refused, timed out or lost first: nothing the task keeps   *)
(* in its buffer (lines 216, 243) waits for a message that never comes.    *)
Delivered ==
  \A m \in 1 .. MaxMessages :
    IsReport(m) =>
      ((Sound /\ base < EndOf(m) /\ EndOf(m) <= written)
         ~> (~Sound \/ m \in Range(stored)))

=============================================================================
