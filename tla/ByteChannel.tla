---------------------------- MODULE ByteChannel ----------------------------
(***************************************************************************)
(* What a pipe promises: a bounded queue of bytes.  Readers take bytes in  *)
(* the order they were put in; a read that finds nothing to take returns   *)
(* nothing only when the write end is closed.                              *)
(***************************************************************************)
EXTENDS Integers, Sequences

CONSTANTS Bytes, CAPACITY
VARIABLES
  chan,   \* the bytes in the pipe
  open,   \* the ends still open, a subset of {"r", "w"}
  got     \* what the last read returned

Init == chan = << >> /\ open = {"r", "w"} /\ got = << >>

Put ==
  /\ "w" \in open
  /\ \E k \in 1..CAPACITY : \E bs \in [1..k -> Bytes] :
       /\ Len(chan) + k <= CAPACITY
       /\ chan' = chan \o bs
  /\ UNCHANGED <<open, got>>

Get ==
  /\ "r" \in open
  /\ chan # << >> \/ "w" \notin open
  /\ \E k \in 0..Len(chan) :
       /\ k = 0 => chan = << >>
       /\ got' = SubSeq(chan, 1, k)
       /\ chan' = SubSeq(chan, k + 1, Len(chan))
  /\ UNCHANGED open

Hangup ==
  /\ \E e \in open : open' = open \ {e}
  /\ UNCHANGED <<chan, got>>

Next == Put \/ Get \/ Hangup

Spec == Init /\ [][Next]_<<chan, open, got>>
=============================================================================
