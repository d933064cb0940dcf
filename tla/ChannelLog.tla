----------------------------- MODULE ChannelLog ----------------------------
(* What an A2A channel promises (hallpass/a2a.py): "a monotonic per-channel    *)
(* sequence and a forward-only cursor".  Messages are only ever added at the   *)
(* end, and a reader's position only moves forward, never past the end.        *)
EXTENDS Integers, Sequences

CONSTANT Readers   \* the subjects that have a cursor on the channel

VARIABLES
  log,       \* the messages, in the order everybody reads them
  position   \* position[s]: how many of them s has acknowledged

Init == log = <<>> /\ position = [s \in Readers |-> 0]

Post ==
  /\ Len(log') = Len(log) + 1
  /\ SubSeq(log', 1, Len(log)) = log
  /\ UNCHANGED position

Acknowledge(s) ==
  /\ \E n \in (position[s] + 1) .. Len(log) : position' = [position EXCEPT ![s] = n]
  /\ UNCHANGED log

Next == Post \/ \E s \in Readers : Acknowledge(s)

Spec == Init /\ [][Next]_<<log, position>>
=============================================================================
