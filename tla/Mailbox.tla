------------------------------- MODULE Mailbox -------------------------------
(***************************************************************************)
(* What a queue across the frame boundary promises, whatever copies and    *)
(* clears implement it: messages are posted one batch at a time and arrive *)
(* once, in order.                                                         *)
(***************************************************************************)
EXTENDS Sequences, SequencesExt

CONSTANT Message

VARIABLES posted,    \* every message ever posted, in order
          received   \* those that have arrived

Init == posted = <<>> /\ received = <<>>

Post ==
  /\ posted' \in Seq(Message) /\ IsPrefix(posted, posted')
  /\ UNCHANGED received

Receive ==
  /\ IsPrefix(received, received') /\ IsPrefix(received', posted)
  /\ UNCHANGED posted

Next == Post \/ Receive

Spec == Init /\ [][Next]_<<posted, received>>
=============================================================================
