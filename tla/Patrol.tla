------------------------------- MODULE Patrol -------------------------------
(***************************************************************************)
(* What the tracking mode promises the warehouse: the car visits one shelf *)
(* after the other, announces each visit over Bluetooth, and after every   *)
(* full round sends one report that holds the goods of exactly that        *)
(* round's shelves, the rounds numbered 1, 2, 3, ...                       *)
(*                                                                         *)
(* AutoTrack, the model of the code, implements this specification.        *)
(***************************************************************************)
EXTENDS Integers, Sequences

CONSTANTS
  platform_num,  \* shelves of a round
  Colors         \* what can be seen on a shelf

VARIABLES
  seen,    \* what was on the shelf, visit by visit
  outbox,  \* the messages sent, in order
  owed     \* the message owed for the last visit, if any

vars == <<seen, outbox, owed>>

Slots == 0 .. platform_num - 1

Reached == [kind |-> "reached"]
Report(count, cargo) == [kind |-> "report", count |-> count, cargo |-> cargo]

Message == {Reached} \cup
           [kind : {"report"}, count : Nat, cargo : [Slots -> Colors]]

(* The goods of the given round, the first round being 1.                  *)
Round(count) ==
  [slot \in Slots |-> seen[(count - 1) * platform_num + slot + 1]]

RoundComplete == Len(seen) % platform_num = 0

-----------------------------------------------------------------------------
Init == seen = <<>> /\ outbox = <<>> /\ owed = "none"

Visit ==
  /\ owed = "none"
  /\ \E goods \in Colors : seen' = Append(seen, goods)
  /\ owed' = "reached"
  /\ UNCHANGED outbox

SendReached ==
  /\ owed = "reached"
  /\ outbox' = Append(outbox, Reached)
  /\ owed' = IF RoundComplete THEN "report" ELSE "none"
  /\ UNCHANGED seen

SendReport ==
  /\ owed = "report"
  /\ LET count == Len(seen) \div platform_num
     IN  outbox' = Append(outbox, Report(count, Round(count)))
  /\ owed' = "none"
  /\ UNCHANGED seen

Next == Visit \/ SendReached \/ SendReport

Spec == Init /\ [][Next]_vars

-----------------------------------------------------------------------------
(* The whole stream, message by message: every round is platform_num       *)
(* announcements and then its report, so that no message is missing,       *)
(* doubled or out of order, and the report with number c carries what was  *)
(* seen in round c.                                                        *)
StreamMatchesVisits ==
  \A m \in DOMAIN outbox :
    outbox[m] = IF m % (platform_num + 1) = 0
                THEN LET count == m \div (platform_num + 1)
                     IN  Report(count, Round(count))
                ELSE Reached

(* Why: the length of the stream follows from the number of visits, so     *)
(* that the next message falls where StreamMatchesVisits wants it.         *)
TypeOK ==
  /\ seen \in Seq(Colors)
  /\ outbox \in Seq(Message)
  /\ owed \in {"none", "reached", "report"}

StreamLength ==
  LET visits == Len(seen)
      before == (visits - 1) \div platform_num   \* reports before this visit
  IN  /\ owed = "none"    => Len(outbox) = visits + (visits \div platform_num)
      /\ owed = "reached" => visits > 0 /\ Len(outbox) = visits - 1 + before
      /\ owed = "report"  => /\ visits > 0 /\ RoundComplete
                             /\ Len(outbox) = visits + before

StreamInv == TypeOK /\ StreamLength /\ StreamMatchesVisits

=============================================================================
