---------------------------- MODULE AtomicStore ----------------------------
(***************************************************************************)
(* What log.c promises to the file system: operations change blocks in     *)
(* memory, whole groups of finished operations become durable at once, and *)
(* a crash takes the memory back to the last such group.                   *)
(***************************************************************************)
CONSTANTS Procs, Blocks, Values
VARIABLES
  store,    \* what a restart would find
  memory,   \* what reads return
  open      \* the operations between begin_op() and end_op()

Init == store \in [Blocks -> Values] /\ memory = store /\ open = {}

Begin(p) ==
  /\ p \notin open
  /\ open' = open \cup {p}
  /\ UNCHANGED <<store, memory>>

Write(p, b, v) ==
  /\ p \in open
  /\ memory' = [memory EXCEPT ![b] = v]
  /\ UNCHANGED <<store, open>>

End(p) ==
  /\ p \in open
  /\ open' = open \ {p}
  /\ UNCHANGED <<store, memory>>

Commit ==
  /\ open = {}
  /\ store' = memory
  /\ UNCHANGED <<memory, open>>

Crash ==
  /\ memory' = store
  /\ open' = {}
  /\ UNCHANGED store

Next ==
  \/ \E p \in Procs : Begin(p) \/ End(p) \/ \E b \in Blocks, v \in Values : Write(p, b, v)
  \/ Commit \/ Crash

Spec == Init /\ [][Next]_<<store, memory, open>>
=============================================================================
