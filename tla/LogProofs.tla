----------------------------- MODULE LogProofs -----------------------------
(***************************************************************************)
(* log.c implements an atomic store, for any number of processes, blocks   *)
(* and values and any size of the log.  LogInv is the inductive invariant: *)
(* OpInv is about begin_op(), end_op() and the reservation of log space,   *)
(* DataInv about how far the log on disk, the home blocks and the buffers  *)
(* agree in each phase of commit() and recovery.                           *)
(***************************************************************************)
EXTENDS Log, FiniteSetTheorems, TLAPS

LEMMA EntriesAppend ==
  ASSUME NEW s \in Seq(Blocks), NEW b \in Blocks
  PROVE  /\ Append(s, b) \in Seq(Blocks) /\ Len(Append(s, b)) = Len(s) + 1
         /\ Entries(Append(s, b)) = Entries(s) \cup {b}
         /\ Distinct(s) /\ b \notin Entries(s) => Distinct(Append(s, b))
<1>1. /\ Append(s, b) \in Seq(Blocks) /\ Len(Append(s, b)) = Len(s) + 1 /\ Len(s) \in Nat
      /\ \A i \in 1..Len(s) : Append(s, b)[i] = s[i]
      /\ Append(s, b)[Len(s) + 1] = b
  OBVIOUS
<1>2. Entries(Append(s, b)) \subseteq Entries(s) \cup {b}
  <2> SUFFICES ASSUME NEW i \in 1..(Len(s) + 1)
               PROVE  Append(s, b)[i] \in Entries(s) \cup {b}
    BY <1>1, Zenon DEF Entries
  <2>1. CASE i \in 1..Len(s)
    BY <1>1, <2>1, Zenon DEF Entries
  <2>2. CASE i = Len(s) + 1
    BY <1>1, <2>2, Zenon
  <2> QED BY <1>1, <2>1, <2>2
<1>3. Entries(s) \cup {b} \subseteq Entries(Append(s, b))
  <2>1. \A i \in 1..Len(s) : i \in 1..Len(Append(s, b)) /\ s[i] = Append(s, b)[i]
    BY <1>1
  <2>2. Len(s) + 1 \in 1..Len(Append(s, b)) /\ b = Append(s, b)[Len(s) + 1]
    BY <1>1
  <2> QED BY <2>1, <2>2, Zenon DEF Entries
<1>4. ASSUME Distinct(s), b \notin Entries(s) PROVE Distinct(Append(s, b))
  <2> SUFFICES ASSUME NEW i \in 1..(Len(s) + 1), NEW j \in 1..(Len(s) + 1),
                      Append(s, b)[i] = Append(s, b)[j]
               PROVE  i = j
    BY <1>1, Zenon DEF Distinct
  <2>1. \A k \in 1..Len(s) : Append(s, b)[k] = s[k] /\ s[k] # b
    BY <1>1, <1>4, Zenon DEF Entries
  <2>2. CASE i \in 1..Len(s) /\ j \in 1..Len(s)
    BY <1>4, <2>1, <2>2, Zenon DEF Distinct
  <2>3. CASE i = Len(s) + 1 \/ j = Len(s) + 1
    BY <1>1, <2>1, <2>3
  <2> QED BY <1>1, <2>2, <2>3
<1> QED BY <1>1, <1>2, <1>3, <1>4, Zenon

LEMMA EntriesEmpty == Entries(<< >>) = {} /\ Distinct(<< >>) /\ Len(<< >>) = 0
BY DEF Entries, Distinct

\* Recovery takes an entry's data from the log, everything else from its home.
LEMMA RecoveredIs ==
  ASSUME head \in Seq(Blocks), Distinct(head)
  PROVE  /\ \A i \in 1..Len(head) : head[i] \in Blocks /\ Recovered[head[i]] = logdata[i]
         /\ \A b \in Blocks \ Entries(head) : Recovered[b] = home[b]
         /\ \A b \in Entries(head) : \E i \in 1..Len(head) : head[i] = b
<1>1. ASSUME NEW i \in 1..Len(head)
      PROVE  head[i] \in Blocks /\ Recovered[head[i]] = logdata[i]
  <2>1. head[i] \in Blocks /\ head[i] \in Entries(head)
    BY DEF Entries
  <2>2. \A j \in 1..Len(head) : head[j] = head[i] <=> j = i
    BY Zenon DEF Distinct
  <2>3. (CHOOSE j \in 1..Len(head) : head[j] = head[i]) = i
    BY <2>2, Zenon
  <2> QED BY <2>1, <2>3, Zenon DEF Recovered
<1>2. \A b \in Blocks \ Entries(head) : Recovered[b] = home[b]
  BY Zenon DEF Recovered
<1>3. \A b \in Entries(head) : \E i \in 1..Len(head) : head[i] = b
  BY Zenon DEF Entries
<1> QED BY <1>1, <1>2, <1>3, Zenon

LEMMA LogSizes == LOGSIZE \in Nat /\ MAXOPBLOCKS \in Nat \ {0} /\ SIZE \in Nat /\ OpBlocks \in Nat
                  /\ OpBlocks <= MAXOPBLOCKS /\ None \notin Blocks
BY LogAssumption DEF LogAssumption

LEMMA SlotsBound ==
  ASSUME NEW m \in Nat, NEW S, S \subseteq Procs, NEW F, F \subseteq S \X (1..m)
  PROVE  /\ IsFiniteSet(S) /\ Cardinality(S) \in Nat
         /\ IsFiniteSet(F) /\ Cardinality(F) \in Nat
         /\ Cardinality(F) <= Cardinality(S) * m
<1>1. IsFiniteSet(Procs)
  BY LogAssumption, Zenon DEF LogAssumption
<1>2. IsFiniteSet(S)
  BY <1>1, FS_Subset, Zenon
<1>3. IsFiniteSet(1..m) /\ Cardinality(1..m) = m
  BY FS_Interval
<1>4. /\ IsFiniteSet(S \X (1..m))
      /\ Cardinality(S \X (1..m)) = Cardinality(S) * Cardinality(1..m)
  BY <1>2, <1>3, FS_Product, Zenon
<1>5. IsFiniteSet(F) /\ Cardinality(F) <= Cardinality(S \X (1..m))
  BY <1>4, FS_Subset, Zenon
<1>6. Cardinality(S) \in Nat /\ Cardinality(F) \in Nat
  BY <1>2, <1>5, FS_CardinalityType, Zenon
<1> QED BY <1>2, <1>3, <1>4, <1>5, <1>6, Zenon

\* When p logs one more block, one of its slots is used up.
LEMMA SlotUsed ==
  ASSUME NEW m \in Nat, NEW p \in Open,
         \A r \in Open : r # p => wrote'[r] = wrote[r],
         Cardinality(wrote[p]) \in Nat, Cardinality(wrote[p]) < m,
         Cardinality(wrote'[p]) = Cardinality(wrote[p]) + 1
  PROVE  /\ Cardinality({x \in Open \X (1..m) : x[2] > Cardinality(wrote[x[1]])}) \in Nat
         /\ Cardinality({x \in Open \X (1..m) : x[2] > Cardinality(wrote'[x[1]])})
              = Cardinality({x \in Open \X (1..m) : x[2] > Cardinality(wrote[x[1]])}) - 1
<1> DEFINE F == {y \in Open \X (1..m) : y[2] > Cardinality(wrote[y[1]])}
           G == {y \in Open \X (1..m) : y[2] > Cardinality(wrote'[y[1]])}
           n == Cardinality(wrote[p])
           x == <<p, n + 1>>
<1>1. x \in F
  <2>1. n + 1 \in 1..m /\ n + 1 > n
    OBVIOUS
  <2> QED BY <2>1, Zenon
<1>2. \A y \in Open \X (1..m) :
        y[2] > Cardinality(wrote'[y[1]]) <=> y[2] > Cardinality(wrote[y[1]]) /\ y # x
  <2> TAKE y \in Open \X (1..m)
  <2>1. y[1] \in Open /\ y[2] \in Nat /\ y = <<y[1], y[2]>>
    OBVIOUS
  <2>2. CASE y[1] = p
    BY <2>1, <2>2
  <2>3. CASE y[1] # p
    <3>1. wrote'[y[1]] = wrote[y[1]] /\ y # x
      BY <2>1, <2>3
    <3> QED BY <3>1, Zenon
  <2> QED BY <2>2, <2>3, Zenon
<1> HIDE DEF x
<1>3. G = F \ {x}
  BY <1>2, Zenon
<1>4. F \subseteq Open \X (1..m) /\ Open \subseteq Procs
  BY Zenon DEF Open
<1> HIDE DEF F, G
<1>5. IsFiniteSet(F) /\ Cardinality(F) \in Nat
  BY <1>4, SlotsBound, Zenon
<1>6. Cardinality(F \ {x}) = Cardinality(F) - 1
  BY <1>1, <1>5, FS_RemoveElement, Zenon
<1>7. Cardinality(F) \in Nat /\ Cardinality(G) = Cardinality(F) - 1
  BY <1>3, <1>5, <1>6, Zenon
<1> QED BY <1>7, Zenon DEF F, G

LEMMA OpenFinite ==
  /\ IsFiniteSet(Open) /\ Cardinality(Open) \in Nat
  /\ IsFiniteSet(FreeSlots) /\ Cardinality(FreeSlots) \in Nat
  /\ Cardinality(FreeSlots) <= Cardinality(Open) * MAXOPBLOCKS
<1>1. Open \subseteq Procs /\ FreeSlots \subseteq Open \X (1..MAXOPBLOCKS) /\ MAXOPBLOCKS \in Nat
  BY LogSizes, Zenon DEF Open, FreeSlots
<1> QED BY <1>1, SlotsBound, Zenon

\* OpInv when no operation is open: during commit(), recovery and after a crash.
LEMMA ClosedOp ==
  ASSUME Open' = {}, outstanding' = 0, lh' \in Seq(Blocks), Len(lh') <= LOGSIZE,
         \A p \in Procs : wrote'[p] = {} /\ buf'[p] = None /\ pc'[p] \notin {"op", "logging"}
  PROVE  OpInv'
<1>1. FreeSlots' = {}
  BY Zenon DEF FreeSlots
<1>2. Cardinality({}) = 0 /\ IsFiniteSet({})
  BY FS_EmptySet, Zenon
<1>3. OpBlocks \in Nat
  BY LogAssumption DEF LogAssumption
<1>4. Len(lh') \in Nat /\ LOGSIZE \in Nat
  BY LogAssumption DEF LogAssumption
<1>5. Len(lh') + Cardinality(FreeSlots') <= LOGSIZE
  BY <1>1, <1>2, <1>4
<1>6. \A p \in Procs :
        /\ wrote'[p] \subseteq Entries(lh') /\ IsFiniteSet(wrote'[p])
        /\ Cardinality(wrote'[p]) <= OpBlocks
  <2> TAKE p \in Procs
  <2>1. wrote'[p] = {}
    BY Zenon
  <2>2. IsFiniteSet(wrote'[p]) /\ Cardinality(wrote'[p]) = 0
    BY <1>2, <2>1, Zenon
  <2> QED BY <1>3, <2>1, <2>2
<1>7. outstanding' = Cardinality(Open')
  BY <1>2, Zenon
<1>8. \A p \in Procs :
        /\ (pc[p] \notin {"op", "logging"} => wrote[p] = {})'
        /\ (phase # "panic" => (buf[p] # None <=> pc[p] = "logging"))'
        /\ (pc[p] = "logging" => buf[p] \in wrote[p] \/ Cardinality(wrote[p]) < OpBlocks)'
  BY Zenon
<1> QED BY <1>5, <1>6, <1>7, <1>8, Zenon DEF OpInv

\* What OpInv says then.
LEMMA ClosedFacts ==
  ASSUME TypeOK, OpInv, Open = {}, phase # "panic"
  PROVE  /\ outstanding = 0 /\ lh \in Seq(Blocks) /\ Len(lh) <= LOGSIZE
         /\ \A p \in Procs : wrote[p] = {} /\ buf[p] = None /\ pc[p] \notin {"op", "logging"}
<1>1. \A p \in Procs : pc[p] \notin {"op", "logging"}
  BY Zenon DEF Open
<1>2. outstanding = 0
  BY FS_EmptySet, Zenon DEF OpInv
<1>3. Len(lh) <= LOGSIZE
  <2>1. Cardinality(FreeSlots) \in Nat /\ Len(lh) \in Nat /\ LOGSIZE \in Nat
    BY OpenFinite, LogAssumption DEF LogAssumption, TypeOK
  <2> QED BY <2>1 DEF OpInv
<1> QED BY <1>1, <1>2, <1>3, Zenon DEF OpInv, TypeOK

-----------------------------------------------------------------------------
(* Type correctness *)

LEMMA NothingWrote == /\ [p \in Procs |-> {}] \in [Procs -> SUBSET Blocks]
                      /\ [p \in Procs |-> None] \in [Procs -> Blocks \cup {None}]
                      /\ [p \in Procs |-> "idle"] \in [Procs -> Places]
BY Zenon DEF Places

LEMMA InitType == ASSUME Init PROVE TypeOK
<1>1. pc \in [Procs -> Places] /\ buf \in [Procs -> Blocks \cup {None}] /\ wrote \in [Procs -> SUBSET Blocks]
  BY NothingWrote, Zenon DEF Init
<1>2. head \in Seq(Blocks) /\ lh \in Seq(Blocks)
  BY DEF Init
<1>4. dirty \subseteq Blocks
  BY Zenon DEF Init
<1>5. committing \in BOOLEAN
  BY Zenon DEF Init
<1>3. /\ home \in [Blocks -> Values] /\ cache \in [Blocks -> Values]
      /\ logdata \in [1..LOGSIZE -> Values]
      /\ outstanding \in Nat /\ phase \in Phases /\ tail \in Nat
  BY Zenon DEF Init, Phases
<1> QED BY <1>1, <1>2, <1>3, <1>4, <1>5, Zenon DEF TypeOK

LEMMA WakeupType ==
  ASSUME TypeOK
  PROVE  /\ wakeup_log \in [Procs -> Places]
         /\ \A p \in Procs : wakeup_log[p] = pc[p] \/ (pc[p] = "asleep" /\ wakeup_log[p] = "begin")
BY Zenon DEF wakeup_log, TypeOK, Places

\* No operation is open during commit(): end_op() does not panic.
LEMMA end_opStep ==
  ASSUME LogInv, NEW p \in Procs, end_op(p)
  PROVE  /\ ~committing
         /\ outstanding = 1 => last_op(p)
         /\ outstanding # 1 => other_op(p)
<1>1. p \in Open
  BY Zenon DEF end_op, Open
<1>2. ~committing
  BY <1>1, Zenon DEF LogInv, OpInv
<1> QED BY <1>2, Zenon DEF end_op

LEMMA NextType == ASSUME LogInv, [Next]_vars PROVE TypeOK'
<1> USE DEF LogInv
<1>0. TypeOK
  BY Zenon
<1> USE DEF TypeOK
<1>1. ASSUME NEW p \in Procs, begin_op(p) PROVE TypeOK'
  BY <1>1 DEF begin_op, diskVars, Places
<1>2. ASSUME NEW p \in Procs, NEW b \in Blocks, NEW v \in Values, log_write(p, b, v) PROVE TypeOK'
  BY <1>2, Zenon DEF log_write, diskVars, Places, Phases
<1>3. ASSUME NEW p \in Procs, log_write_locked(p) PROVE TypeOK'
  <2>1. buf[p] \in Blocks
    BY <1>3, Zenon DEF log_write_locked, OpInv
  <2>2. lh' \in Seq(Blocks)
    BY <1>3, <2>1 DEF log_write_locked, Absorb
  <2> QED BY <1>3, <2>1, <2>2, Zenon DEF log_write_locked, Pin, diskVars, Places
<1>4. ASSUME NEW p \in Procs, end_op(p) PROVE TypeOK'
  <2>1. p \in Open /\ outstanding = Cardinality(Open)
    BY <1>4, Zenon DEF end_op, Open, OpInv
  <2>2. outstanding - 1 \in Nat
    <3>1. Cardinality(Open) # 0
      BY <2>1, OpenFinite, FS_EmptySet, Zenon
    <3> QED BY <2>1, <3>1
  <2>3. pc' \in [Procs -> Places]
    BY <1>4, <1>0, end_opStep, WakeupType, Zenon DEF last_op, other_op, EndWakes, Places
  <2>4. committing' \in BOOLEAN /\ phase' \in Phases
    BY <1>4, end_opStep, Zenon DEF last_op, other_op, Phases
  <2> QED BY <1>4, <2>2, <2>3, <2>4, Zenon DEF end_op, diskVars
<1>5. ASSUME write_log PROVE TypeOK'
  <2>1. tail + 1 \in 1..Len(lh)
    BY <1>5 DEF write_log, DataInv
  <2>2. lh[tail + 1] \in Blocks /\ cache[lh[tail + 1]] \in Values
    BY <2>1
  <2>3. logdata' \in [1..LOGSIZE -> Values]
    BY <1>5, <2>2, Zenon DEF write_log
  <2>4. phase' \in Phases /\ tail' \in Nat
    BY <1>5 DEF write_log, write_log_next, Phases
  <2> QED BY <1>5, <2>3, <2>4, Zenon DEF write_log, procVars
<1>6. ASSUME write_head PROVE TypeOK'
  BY <1>6, Zenon DEF write_head, procVars, Phases
<1>7. ASSUME install_trans PROVE TypeOK'
  <2>1. tail + 1 \in 1..Len(lh)
    BY <1>7 DEF install_trans
  <2>2. Len(lh) <= LOGSIZE
    BY <1>7, LogSizes, Zenon DEF install_trans, DataInv
  <2>3. lh[tail + 1] \in Blocks /\ logdata[tail + 1] \in Values
    BY <2>1, <2>2, LogSizes
  <2> QED BY <1>7, <2>1, <2>3 DEF install_trans, procVars
<1>8. ASSUME clear_head PROVE TypeOK'
  BY <1>8 DEF clear_head, procVars, Phases
<1>9. ASSUME NEW p \in Procs, end_commit(p) PROVE TypeOK'
  <2>1. pc' \in [Procs -> Places]
    BY <1>9, <1>0, WakeupType, Zenon DEF end_commit, Places
  <2> QED BY <1>9, <2>1, Zenon DEF end_commit, diskVars, Phases
<1>10. ASSUME Crash PROVE TypeOK'
  <2>1. /\ pc' \in [Procs -> Places] /\ buf' \in [Procs -> Blocks \cup {None}]
        /\ wrote' \in [Procs -> SUBSET Blocks]
    BY <1>10, NothingWrote, Zenon DEF Crash
  <2>2. lh' \in Seq(Blocks) /\ phase' \in Phases
    BY <1>10 DEF Crash, Phases
  <2>3. dirty' \subseteq Blocks
    BY <1>10, Zenon DEF Crash
  <2>4. committing' \in BOOLEAN
    BY <1>10, Zenon DEF Crash
  <2> QED BY <1>10, <2>1, <2>2, <2>3, <2>4, Zenon DEF Crash, diskVars
<1>11. ASSUME read_head PROVE TypeOK'
  BY <1>11, Zenon DEF read_head, diskVars, procVars, Phases
<1>12. ASSUME NEW b \in Blocks, Recycle(b) PROVE TypeOK'
  BY <1>12, Zenon DEF Recycle, diskVars, logVars, procVars
<1>13. CASE UNCHANGED vars
  BY <1>13, Zenon DEF vars
<1> QED BY <1>1, <1>2, <1>3, <1>4, <1>5, <1>6, <1>7, <1>8, <1>9, <1>10, <1>11, <1>12, <1>13, Zenon
        DEF Next, CommitStep

-----------------------------------------------------------------------------
(* The operations: OpInv *)

LEMMA InitOp == ASSUME Init PROVE OpInv
<1>1. Open = {} /\ outstanding = 0 /\ lh = << >> /\ Len(lh) = 0
  BY Zenon DEF Init, Open
<1>2. FreeSlots = {}
  BY <1>1, Zenon DEF FreeSlots
<1>3. Cardinality({}) = 0 /\ IsFiniteSet({})
  BY FS_EmptySet, Zenon
<1>4. \A p \in Procs : wrote[p] = {} /\ buf[p] = None /\ pc[p] = "idle"
  BY Zenon DEF Init
<1>5. \A p \in Procs : IsFiniteSet(wrote[p]) /\ Cardinality(wrote[p]) = 0
  BY <1>3, <1>4, Zenon
<1>6. outstanding = Cardinality(Open) /\ Len(lh) + Cardinality(FreeSlots) <= LOGSIZE
  BY <1>1, <1>2, <1>3, LogSizes
<1> QED BY <1>1, <1>4, <1>5, <1>6, LogSizes DEF OpInv

\* While an operation is open neither commit() nor recovery runs.
LEMMA OpenUp ==
  ASSUME LogInv, NEW p \in Procs, pc[p] \in {"op", "logging"}, phase # "panic"
  PROVE  p \in Open /\ phase = "up" /\ ~committing /\ ~Recovering
<1>1. p \in Open
  BY Zenon DEF Open
<1>2. ~committing /\ ~Recovering
  BY <1>1, Zenon DEF LogInv, OpInv
<1>3. phase = "up"
  BY <1>2, Zenon DEF LogInv, DataInv, TypeOK, Phases, Recovering
<1> QED BY <1>1, <1>2, <1>3, Zenon

\* And while one of them runs no operation is open.
LEMMA Closed ==
  ASSUME LogInv, phase \in {"write", "head", "install", "done", "boot"}
  PROVE  Open = {} /\ (phase \notin {"boot", "install"} => committing)
BY Zenon DEF LogInv, OpInv, DataInv, Recovering

LEMMA ClosedNext ==
  ASSUME LogInv,
         \/ write_log \/ write_head \/ install_trans \/ clear_head \/ read_head
         \/ \E p \in Procs : end_commit(p)
  PROVE  OpInv'
<1>1. phase \in {"write", "head", "install", "done", "boot"}
  BY Zenon DEF write_log, write_head, install_trans, clear_head, read_head, end_commit
<1>2. Open = {} /\ phase # "panic"
  BY <1>1, Closed, Zenon
<1>3. /\ outstanding = 0 /\ lh \in Seq(Blocks) /\ Len(lh) <= LOGSIZE
      /\ \A p \in Procs : wrote[p] = {} /\ buf[p] = None /\ pc[p] \notin {"op", "logging"}
  BY <1>2, ClosedFacts, Zenon DEF LogInv
<1>4. outstanding' = outstanding /\ wrote' = wrote /\ buf' = buf
  BY Zenon DEF write_log, write_head, install_trans, clear_head, read_head, end_commit, procVars
<1>5. \A p \in Procs : pc'[p] \notin {"op", "logging"}
  <2>1. CASE UNCHANGED procVars
    BY <1>3, <2>1, Zenon DEF procVars
  <2>2. CASE \E p \in Procs : end_commit(p)
    <3>1. PICK p \in Procs : pc' = [wakeup_log EXCEPT ![p] = "idle"]
      BY <2>2, Zenon DEF end_commit
    <3> QED BY <1>3, <3>1, WakeupType, Zenon DEF LogInv
  <2> QED BY <2>1, <2>2, Zenon DEF write_log, write_head, install_trans, clear_head, read_head
<1>6. lh' \in Seq(Blocks) /\ Len(lh') <= LOGSIZE
  <2>1. head \in Seq(Blocks) /\ Len(head) <= LOGSIZE
    BY Zenon DEF LogInv, TypeOK, DataInv
  <2>2. << >> \in Seq(Blocks) /\ Len(<< >>) <= LOGSIZE
    BY LogSizes
  <2>3. lh' = lh \/ lh' = << >> \/ lh' = head
    BY Zenon DEF write_log, write_head, install_trans, clear_head, read_head, end_commit
  <2> QED BY <1>3, <2>1, <2>2, <2>3, Zenon
<1>7. Open' = {}
  BY <1>5, Zenon DEF Open
<1> QED BY <1>3, <1>4, <1>5, <1>6, <1>7, ClosedOp, Zenon

LEMMA CrashOp == ASSUME Crash PROVE OpInv'
<1>1. \A p \in Procs : wrote'[p] = {} /\ buf'[p] = None /\ pc'[p] \notin {"op", "logging"}
  BY Zenon DEF Crash
<1>2. Open' = {}
  BY <1>1, Zenon DEF Open
<1>3. outstanding' = 0 /\ lh' \in Seq(Blocks) /\ Len(lh') <= LOGSIZE
  BY LogSizes DEF Crash
<1> QED BY <1>1, <1>2, <1>3, ClosedOp, Zenon

\* The per-process part of OpInv.
PcInv(p) ==
  /\ wrote[p] \subseteq Entries(lh) /\ IsFiniteSet(wrote[p])
  /\ Cardinality(wrote[p]) <= OpBlocks
  /\ pc[p] \notin {"op", "logging"} => wrote[p] = {}
  /\ phase # "panic" => (buf[p] # None <=> pc[p] = "logging")
  /\ pc[p] = "logging" => buf[p] \in wrote[p] \/ Cardinality(wrote[p]) < OpBlocks

LEMMA OpParts ==
  /\ OpInv <=> /\ outstanding = Cardinality(Open)
               /\ committing \/ Recovering => Open = {}
               /\ Len(lh) + Cardinality(FreeSlots) <= LOGSIZE
               /\ \A p \in Procs : PcInv(p)
  /\ OpInv' <=> /\ outstanding' = Cardinality(Open')
                /\ committing' \/ Recovering' => Open' = {}
                /\ Len(lh') + Cardinality(FreeSlots') <= LOGSIZE
                /\ \A p \in Procs : PcInv(p)'
BY Zenon DEF OpInv, PcInv

LEMMA begin_opOp == ASSUME LogInv, NEW p \in Procs, begin_op(p) PROVE OpInv'
<1>1. /\ pc \in [Procs -> Places] /\ lh \in Seq(Blocks) /\ Len(lh) \in Nat /\ outstanding \in Nat
      /\ pc[p] \in {"idle", "begin"} /\ ~Recovering /\ p \notin Open
  BY DEF LogInv, TypeOK, begin_op, Open
<1>2. /\ lh' = lh /\ wrote' = wrote /\ buf' = buf /\ phase' = phase /\ committing' = committing
      /\ Recovering' = Recovering
  BY Zenon DEF begin_op, Recovering
<1>3. OpInv
  BY Zenon DEF LogInv
<1>4. CASE Admits
  <2>1. outstanding' = outstanding + 1 /\ pc' = [pc EXCEPT ![p] = "op"] /\ ~committing
    BY <1>4, Zenon DEF begin_op, Admits
  <2>2. Open' = Open \cup {p}
    BY <1>1, <2>1, Zenon DEF Open
  <2>3. IsFiniteSet(Open) /\ Cardinality(Open') = Cardinality(Open) + 1
    BY <1>1, <2>2, OpenFinite, FS_AddElement, Zenon
  <2>4. outstanding' = Cardinality(Open')
    BY <1>3, <2>1, <2>3, OpParts, Zenon
  <2>5. Len(lh') + Cardinality(FreeSlots') <= LOGSIZE
    <3>1. Open' \subseteq Procs /\ FreeSlots' \subseteq Open' \X (1..MAXOPBLOCKS) /\ MAXOPBLOCKS \in Nat
      BY LogSizes, Zenon DEF Open, FreeSlots
    <3>2. Cardinality(FreeSlots') \in Nat /\ Cardinality(FreeSlots') <= Cardinality(Open') * MAXOPBLOCKS
      BY <3>1, SlotsBound, Zenon
    <3>3. Len(lh) + Cardinality(Open') * MAXOPBLOCKS <= LOGSIZE
      BY <1>4, <2>1, <2>4, Zenon DEF Admits, Room
    <3>4. Cardinality(Open') * MAXOPBLOCKS \in Int
      BY <2>4, <2>1, <1>1, LogSizes
    <3> QED BY <1>1, <1>2, <3>2, <3>3, <3>4, LogSizes
  <2>6. \A r \in Procs : PcInv(r)'
    BY <1>1, <1>2, <1>3, <2>1, OpParts, Zenon DEF PcInv
  <2> QED BY <1>1, <1>2, <2>1, <2>4, <2>5, <2>6, OpParts, Zenon
<1>5. CASE ~Admits
  <2>1. outstanding' = outstanding /\ pc' = [pc EXCEPT ![p] = "asleep"]
    BY <1>5, Zenon DEF begin_op
  <2>2. Open' = Open
    BY <1>1, <2>1, Zenon DEF Open
  <2>3. FreeSlots' = FreeSlots
    BY <1>2, <2>2, Zenon DEF FreeSlots
  <2>4. \A r \in Procs : PcInv(r)'
    BY <1>1, <1>2, <1>3, <2>1, OpParts, Zenon DEF PcInv
  <2> QED BY <1>2, <1>3, <2>1, <2>2, <2>3, <2>4, OpParts, Zenon
<1> QED BY <1>4, <1>5, Zenon

LEMMA log_writeOp ==
  ASSUME LogInv, NEW p \in Procs, NEW b \in Blocks, NEW v \in Values, log_write(p, b, v)
  PROVE  OpInv'
<1>1. /\ pc \in [Procs -> Places] /\ buf \in [Procs -> Blocks \cup {None}] /\ OpInv
      /\ pc[p] = "op" /\ b # None
      /\ b \in wrote[p] \/ Cardinality(wrote[p]) < OpBlocks
  BY LogSizes, Zenon DEF LogInv, TypeOK, log_write
<1>2. phase = "up" /\ ~committing /\ ~Recovering
  BY <1>1, OpenUp, Zenon DEF log_write
<1>3. /\ lh' = lh /\ outstanding' = outstanding /\ committing' = committing /\ wrote' = wrote
      /\ buf' = [buf EXCEPT ![p] = b]
      /\ \/ phase' = "panic" /\ pc' = pc
         \/ phase' = phase /\ pc' = [pc EXCEPT ![p] = "logging"]
  BY Zenon DEF log_write
<1>4. Open' = Open
  BY <1>1, <1>3, Zenon DEF Open
<1>5. FreeSlots' = FreeSlots
  BY <1>3, <1>4, Zenon DEF FreeSlots
<1>6. ~committing' /\ ~Recovering'
  BY <1>2, <1>3, Zenon DEF Recovering
<1>7. \A r \in Procs : PcInv(r)'
  <2>1. ASSUME NEW r \in Procs, r # p PROVE PcInv(r)'
    BY <1>1, <1>2, <1>3, <2>1, OpParts, Zenon DEF PcInv
  <2>2. PcInv(p)'
    BY <1>1, <1>3, OpParts, Zenon DEF PcInv
  <2> QED BY <2>1, <2>2, Zenon
<1> QED BY <1>1, <1>3, <1>4, <1>5, <1>6, <1>7, OpParts, Zenon

LEMMA log_write_lockedOp ==
  ASSUME LogInv, NEW p \in Procs, log_write_locked(p)
  PROVE  OpInv'
<1> DEFINE b == buf[p]
           n == Cardinality(wrote[p])
<1>1. /\ pc \in [Procs -> Places] /\ wrote \in [Procs -> SUBSET Blocks] /\ lh \in Seq(Blocks)
      /\ buf \in [Procs -> Blocks \cup {None}] /\ Len(lh) \in Nat
      /\ pc[p] = "logging" /\ phase # "panic" /\ OpInv
  BY DEF LogInv, TypeOK, log_write_locked
<1>2. /\ b \in Blocks /\ PcInv(p) /\ n \in Nat /\ n <= OpBlocks
      /\ b \in wrote[p] \/ n < OpBlocks
  <2>1. PcInv(p)
    BY <1>1, OpParts, Zenon
  <2> QED BY <1>1, <2>1, FS_CardinalityType, Zenon DEF PcInv
<1>3. phase = "up" /\ ~committing /\ ~Recovering /\ p \in Open
  BY <1>1, OpenUp, Zenon
<1>4. /\ outstanding' = outstanding /\ committing' = committing /\ phase' = phase
      /\ wrote' = [wrote EXCEPT ![p] = wrote[p] \cup {b}]
      /\ buf' = [buf EXCEPT ![p] = None] /\ pc' = [pc EXCEPT ![p] = "op"]
      /\ lh' = IF b \in Entries(lh) THEN lh ELSE Append(lh, b)
  BY Zenon DEF log_write_locked, Absorb
<1> HIDE DEF b
<1>5. Open' = Open
  BY <1>1, <1>4, Zenon DEF Open
<1>6. /\ lh' \in Seq(Blocks) /\ Len(lh') \in {Len(lh), Len(lh) + 1}
      /\ Entries(lh') = Entries(lh) \cup {b}
      /\ b \in wrote[p] => lh' = lh
  BY <1>1, <1>2, <1>4, EntriesAppend DEF PcInv
<1>7. /\ IsFiniteSet(wrote'[p]) /\ Cardinality(wrote'[p]) <= OpBlocks
      /\ b \in wrote[p] => wrote' = wrote
      /\ b \notin wrote[p] => Cardinality(wrote'[p]) = n + 1
  <2>1. CASE b \in wrote[p]
    <3>1. wrote[p] \cup {b} = wrote[p]
      BY <2>1, Zenon
    <3>2. wrote' = wrote
      BY <1>1, <1>4, <3>1, Zenon
    <3> QED BY <1>2, <2>1, <3>2, Zenon DEF PcInv
  <2>2. CASE b \notin wrote[p]
    <3>1. wrote'[p] = wrote[p] \cup {b}
      BY <1>1, <1>4, Zenon
    <3>2. IsFiniteSet(wrote'[p]) /\ Cardinality(wrote'[p]) = n + 1
      <4>1. IsFiniteSet(wrote[p])
        BY <1>2, Zenon DEF PcInv
      <4>2. /\ IsFiniteSet(wrote[p] \cup {b})
            /\ Cardinality(wrote[p] \cup {b}) = Cardinality(wrote[p]) + 1
        BY <2>2, <4>1, FS_AddElement, Zenon
      <4> QED BY <3>1, <4>2, Zenon
    <3> QED BY <1>2, <2>2, <3>2, LogSizes
  <2> QED BY <2>1, <2>2, Zenon
<1>8. Len(lh') + Cardinality(FreeSlots') <= LOGSIZE
  <2>1. CASE b \in wrote[p]
    <3>1. FreeSlots' = FreeSlots
      BY <1>5, <1>7, <2>1, Zenon DEF FreeSlots
    <3> QED BY <1>1, <1>6, <2>1, <3>1, OpParts, Zenon
  <2>2. CASE b \notin wrote[p]
    <3>1. Open \subseteq Procs /\ MAXOPBLOCKS \in Nat /\ n < MAXOPBLOCKS
      BY <1>2, <2>2, LogSizes DEF Open
    <3>2. \A r \in Open : r # p => wrote'[r] = wrote[r]
      BY <1>1, <1>4, Zenon DEF Open
    <3>3. Cardinality(FreeSlots') = Cardinality(FreeSlots) - 1 /\ Cardinality(FreeSlots) \in Nat
      <4>1. /\ FreeSlots = {x \in Open \X (1..MAXOPBLOCKS) : x[2] > Cardinality(wrote[x[1]])}
            /\ FreeSlots' = {x \in Open \X (1..MAXOPBLOCKS) : x[2] > Cardinality(wrote'[x[1]])}
        BY <1>5, Zenon DEF FreeSlots
      <4>2. Cardinality(wrote'[p]) = Cardinality(wrote[p]) + 1 /\ Cardinality(wrote[p]) \in Nat
        BY <1>2, <1>7, <2>2, Zenon
      <4>3. /\ Cardinality({x \in Open \X (1..MAXOPBLOCKS) : x[2] > Cardinality(wrote[x[1]])}) \in Nat
            /\ Cardinality({x \in Open \X (1..MAXOPBLOCKS) : x[2] > Cardinality(wrote'[x[1]])})
                 = Cardinality({x \in Open \X (1..MAXOPBLOCKS) : x[2] > Cardinality(wrote[x[1]])}) - 1
        BY <1>3, <3>1, <3>2, <4>2, SlotUsed, Zenon
      <4> QED BY <4>1, <4>3, Zenon
    <3> QED BY <1>1, <1>6, <3>3, LogSizes, OpParts
  <2> QED BY <2>1, <2>2, Zenon
<1>9. \A r \in Procs : PcInv(r)'
  <2>1. ASSUME NEW r \in Procs, r # p PROVE PcInv(r)'
    BY <1>1, <1>4, <1>6, <2>1, OpParts, Zenon DEF PcInv
  <2>2. PcInv(p)'
    <3>1. pc'[p] = "op" /\ buf'[p] = None /\ wrote'[p] = wrote[p] \cup {b}
      BY <1>1, <1>4, Zenon
    <3> QED BY <1>2, <1>6, <1>7, <3>1, Zenon DEF PcInv
  <2> QED BY <2>1, <2>2, Zenon
<1>10. ~committing' /\ ~Recovering'
  BY <1>3, <1>4, Zenon DEF Recovering
<1> QED BY <1>1, <1>4, <1>5, <1>8, <1>9, <1>10, OpParts, Zenon

LEMMA end_opOp == ASSUME LogInv, NEW p \in Procs, end_op(p) PROVE OpInv'
<1>1. /\ pc \in [Procs -> Places] /\ wrote \in [Procs -> SUBSET Blocks] /\ lh \in Seq(Blocks)
      /\ Len(lh) \in Nat /\ outstanding \in Nat /\ pc[p] = "op" /\ phase # "panic" /\ OpInv
  BY DEF LogInv, TypeOK, end_op
<1>2. p \in Open /\ phase = "up" /\ ~committing /\ ~Recovering
  BY <1>1, OpenUp, Zenon
<1>3. /\ lh' = lh /\ buf' = buf /\ outstanding' = outstanding - 1
      /\ wrote' = [wrote EXCEPT ![p] = {}]
  BY Zenon DEF end_op
<1>4. /\ pc' \in [Procs -> Places] /\ pc'[p] \in {"idle", "commit"}
      /\ \A r \in Procs \ {p} : pc'[r] = pc[r] \/ (pc[r] = "asleep" /\ pc'[r] = "begin")
  <2>1. CASE outstanding = 1
    BY <1>1, <2>1, end_opStep, Zenon DEF last_op, Places
  <2>2. CASE outstanding # 1
    <3>1. pc' = [wakeup_log EXCEPT ![p] = "idle"]
      BY <2>2, end_opStep, Zenon DEF other_op, EndWakes
    <3>2. /\ wakeup_log \in [Procs -> Places]
          /\ \A r \in Procs : wakeup_log[r] = pc[r] \/ (pc[r] = "asleep" /\ wakeup_log[r] = "begin")
      BY WakeupType, Zenon DEF LogInv
    <3> QED BY <3>1, <3>2, Zenon DEF Places
  <2> QED BY <2>1, <2>2, Zenon
<1>5. Open' = Open \ {p}
  BY <1>2, <1>4, Zenon DEF Open
<1>6. Cardinality(Open') = Cardinality(Open) - 1 /\ Cardinality(Open) \in Nat /\ IsFiniteSet(Open')
  BY <1>2, <1>5, OpenFinite, FS_RemoveElement, Zenon
<1>7. outstanding' = Cardinality(Open')
  BY <1>1, <1>3, <1>6, OpParts, Zenon
<1>8. committing' \/ Recovering' => Open' = {}
  <2>1. CASE outstanding = 1
    BY <1>3, <1>6, <1>7, <2>1, FS_EmptySet
  <2>2. CASE outstanding # 1
    BY <1>2, <2>2, end_opStep, Zenon DEF other_op, Recovering
  <2> QED BY <2>1, <2>2, Zenon
<1>9. Len(lh') + Cardinality(FreeSlots') <= LOGSIZE
  <2>1. FreeSlots' \subseteq FreeSlots
    <3>1. \A x \in Open' \X (1..MAXOPBLOCKS) : wrote'[x[1]] = wrote[x[1]]
      BY <1>1, <1>3, <1>5, Zenon DEF Open
    <3> QED BY <1>5, <3>1, Zenon DEF FreeSlots
  <2>2. /\ Cardinality(FreeSlots') <= Cardinality(FreeSlots)
        /\ Cardinality(FreeSlots') \in Nat /\ Cardinality(FreeSlots) \in Nat
    BY <2>1, OpenFinite, FS_Subset, FS_CardinalityType, Zenon
  <2> QED BY <1>1, <1>3, <2>2, LogSizes, OpParts
<1>10. \A r \in Procs : PcInv(r)'
  <2>0. phase' # "panic"
    BY <1>2, end_opStep, Zenon DEF last_op, other_op
  <2>1. ASSUME NEW r \in Procs, r # p PROVE PcInv(r)'
    BY <1>1, <1>3, <1>4, <2>0, <2>1, OpParts DEF PcInv
  <2>2. PcInv(p)'
    <3>1. wrote'[p] = {} /\ pc'[p] \notin {"op", "logging"} /\ buf'[p] = None
      BY <1>1, <1>3, <1>4, OpParts, Zenon DEF PcInv
    <3>2. IsFiniteSet({}) /\ Cardinality({}) = 0
      BY FS_EmptySet, Zenon
    <3>3. IsFiniteSet(wrote'[p]) /\ Cardinality(wrote'[p]) = 0
      BY <3>1, <3>2, Zenon
    <3>4. Cardinality(wrote'[p]) <= OpBlocks
      BY <3>3, LogSizes
    <3> QED BY <3>1, <3>3, <3>4, Zenon DEF PcInv
  <2> QED BY <2>1, <2>2, Zenon
<1> QED BY <1>7, <1>8, <1>9, <1>10, OpParts, Zenon

LEMMA NextOp == ASSUME LogInv, [Next]_vars PROVE OpInv'
<1>1. ASSUME UNCHANGED <<lh, outstanding, committing, phase, procVars>> PROVE OpInv'
  <2>1. Open' = Open /\ Recovering' = Recovering
    BY <1>1, Zenon DEF Open, Recovering, procVars
  <2>2. FreeSlots' = FreeSlots
    BY <1>1, <2>1, Zenon DEF FreeSlots, procVars
  <2> QED BY <1>1, <2>1, <2>2, Zenon DEF LogInv, OpInv, procVars
<1>2. ASSUME NEW b \in Blocks, Recycle(b) PROVE OpInv'
  BY <1>1, <1>2, Zenon DEF Recycle, logVars
<1>3. CASE UNCHANGED vars
  BY <1>1, <1>3, Zenon DEF vars, procVars
<1> QED BY <1>2, <1>3, begin_opOp, log_writeOp, log_write_lockedOp, end_opOp, ClosedNext, CrashOp, Zenon
        DEF Next, CommitStep

-----------------------------------------------------------------------------
(* The data: DataInv *)

LEMMA InitData == ASSUME Init PROVE DataInv
<1>1. /\ head = << >> /\ lh = << >> /\ phase = "boot" /\ tail = 0 /\ dirty = {} /\ cache = home
      /\ committing = FALSE
  BY Zenon DEF Init
<1> QED BY <1>1, EntriesEmpty, LogSizes DEF DataInv

LEMMA DataFrame ==
  ASSUME LogInv,
         UNCHANGED <<home, logdata, head, cache, dirty, lh, committing, phase, tail, buf>>
  PROVE  DataInv'
BY DEF LogInv, DataInv, Recovering, Held

\* A held buffer of another process stays held when buf[p] changes.
LEMMA HeldExcept ==
  ASSUME TypeOK, NEW p \in Procs, NEW x \in Blocks \cup {None}, buf' = [buf EXCEPT ![p] = x]
  PROVE  \A b \in Blocks : b \in Held => b \in Held' \/ b = buf[p]
<1> SUFFICES ASSUME NEW r \in Procs PROVE buf[r] \in Held' \/ buf[r] = buf[p]
  BY Zenon DEF Held
<1> QED BY Zenon DEF Held, TypeOK

LEMMA log_writeData ==
  ASSUME LogInv, NEW p \in Procs, NEW b \in Blocks, NEW v \in Values, log_write(p, b, v)
  PROVE  DataInv'
<1>1. pc[p] = "op" /\ phase # "panic"
  BY Zenon DEF log_write
<1>2. phase = "up" /\ ~committing
  BY <1>1, OpenUp, Zenon
<1>3. buf[p] = None /\ buf[p] \notin Blocks /\ TypeOK
  BY <1>1, LogSizes, Zenon DEF LogInv, OpInv
<1>4. /\ cache' = [cache EXCEPT ![b] = v] /\ buf' = [buf EXCEPT ![p] = b]
      /\ phase' \in {"up", "panic"}
      /\ UNCHANGED <<home, logdata, head, dirty, lh, committing, tail>>
  BY <1>2, Zenon DEF log_write, diskVars
<1>5. \A x \in Blocks \ (dirty' \cup Held') : cache'[x] = home'[x]
  <2> TAKE x \in Blocks \ (dirty' \cup Held')
  <2>1. x \notin Held
    BY <1>3, <1>4, HeldExcept, Zenon
  <2>2. x # b
    BY <1>3, <1>4, Zenon DEF Held, TypeOK
  <2>3. cache[x] = home[x]
    BY <1>4, <2>1, Zenon DEF LogInv, DataInv
  <2> QED BY <1>3, <1>4, <2>2, <2>3, Zenon DEF TypeOK
<1> QED BY <1>2, <1>4, <1>5, Zenon DEF LogInv, DataInv, Recovering

LEMMA log_write_lockedData ==
  ASSUME LogInv, NEW p \in Procs, log_write_locked(p)
  PROVE  DataInv'
<1> DEFINE b == buf[p]
<1>1. pc[p] = "logging" /\ phase # "panic" /\ TypeOK
  BY Zenon DEF log_write_locked, LogInv
<1>2. phase = "up" /\ ~committing
  BY <1>1, OpenUp, Zenon
<1>3. b \in Blocks /\ lh \in Seq(Blocks) /\ Distinct(lh) /\ dirty \subseteq Entries(lh)
  BY <1>1 DEF LogInv, OpInv, TypeOK, DataInv
<1>4. /\ lh' = (IF b \in Entries(lh) THEN lh ELSE Append(lh, b)) /\ dirty' = dirty \cup {b}
      /\ buf' = [buf EXCEPT ![p] = None]
      /\ UNCHANGED <<home, logdata, head, cache, committing, phase, tail>>
  BY Zenon DEF log_write_locked, Absorb, Pin, diskVars
<1>5. Distinct(lh') /\ Entries(lh') = Entries(lh) \cup {b}
  BY <1>3, <1>4, EntriesAppend, Zenon
<1>6. \A x \in Blocks \ (dirty' \cup Held') : cache'[x] = home'[x]
  <2> TAKE x \in Blocks \ (dirty' \cup Held')
  <2>1. x \notin Held /\ x \notin dirty
    BY <1>1, <1>4, HeldExcept, Zenon
  <2> QED BY <1>4, <2>1, Zenon DEF LogInv, DataInv
<1> HIDE DEF b
<1>7. /\ head = << >> /\ tail = 0 /\ Distinct(head) /\ Len(head) <= LOGSIZE
  BY <1>2, Zenon DEF LogInv, DataInv
<1> QED BY <1>2, <1>3, <1>4, <1>5, <1>6, <1>7, Zenon DEF DataInv, Recovering

LEMMA end_opData == ASSUME LogInv, NEW p \in Procs, end_op(p) PROVE DataInv'
<1>1. pc[p] = "op" /\ phase # "panic"
  BY Zenon DEF end_op
<1>2. phase = "up" /\ ~committing
  BY <1>1, OpenUp, Zenon
<1>3. UNCHANGED <<home, logdata, head, cache, dirty, lh, tail, buf>> /\ Held' = Held
  BY Zenon DEF end_op, diskVars, Held
<1>4. \/ phase' = "up" /\ ~committing'
      \/ phase' = "done" /\ committing' /\ lh = << >>
      \/ phase' = "write" /\ committing' /\ lh # << >>
  BY <1>2, end_opStep, Zenon DEF last_op, other_op
<1>5. lh \in Seq(Blocks) /\ tail = 0 /\ (lh # << >> => tail < Len(lh))
  BY <1>2 DEF LogInv, TypeOK, DataInv
<1>6. ~Recovering'
  BY <1>4, Zenon DEF Recovering
<1>7. \A i \in 1..Len(lh) : ~(i <= tail)
  BY <1>5
<1> QED BY <1>2, <1>3, <1>4, <1>5, <1>6, <1>7, Zenon DEF LogInv, DataInv

\* During commit() and recovery no buffer is held.
LEMMA NoneHeld ==
  ASSUME LogInv, phase \in {"write", "head", "install", "done", "boot"}
  PROVE  /\ \A b \in Blocks : b \notin Held
         /\ lh \in Seq(Blocks) /\ Len(lh) \in Nat /\ Len(lh) <= LOGSIZE
         /\ \A i \in 1..Len(lh) : lh[i] \in Blocks
<1>1. Open = {} /\ phase # "panic"
  BY Closed, Zenon
<1>2. lh \in Seq(Blocks) /\ Len(lh) <= LOGSIZE /\ \A p \in Procs : buf[p] = None
  BY <1>1, ClosedFacts, Zenon DEF LogInv
<1>3. \A b \in Blocks : b \notin Held
  BY <1>2, LogSizes, Zenon DEF Held
<1>4. Len(lh) \in Nat /\ \A i \in 1..Len(lh) : lh[i] \in Blocks
  BY <1>2
<1> QED BY <1>2, <1>3, <1>4, Zenon

LEMMA write_logData == ASSUME LogInv, write_log PROVE DataInv'
<1>1. phase = "write" /\ committing /\ tail < Len(lh) /\ tail \in Nat
  BY Zenon DEF write_log, LogInv, DataInv, TypeOK
<1>2. lh \in Seq(Blocks) /\ Len(lh) \in Nat /\ Len(lh) <= LOGSIZE
  BY <1>1, NoneHeld, Zenon
<1>3. /\ logdata' = [logdata EXCEPT ![tail + 1] = cache[lh[tail + 1]]]
      /\ UNCHANGED <<home, head, cache, dirty, lh, committing, buf>> /\ Held' = Held
  BY Zenon DEF write_log, procVars, Held
<1>4. \/ tail + 1 < Len(lh) /\ phase' = "write" /\ tail' = tail + 1
      \/ tail + 1 = Len(lh) /\ phase' = "head" /\ tail' = 0
  BY <1>1, <1>2 DEF write_log, write_log_next
<1>5. \A i \in 1..Len(lh) : i <= tail + 1 => logdata'[i] = cache[lh[i]]
  <2> TAKE i \in 1..Len(lh)
  <2>1. i \in 1..LOGSIZE /\ logdata \in [1..LOGSIZE -> Values]
    BY <1>2, LogSizes DEF LogInv, TypeOK
  <2>2. CASE i = tail + 1
    BY <1>3, <2>1, <2>2, Zenon
  <2>3. CASE i # tail + 1
    <3>1. logdata'[i] = logdata[i]
      BY <1>3, <2>1, <2>3, Zenon
    <3>2. i <= tail + 1 => i <= tail
      BY <1>1, <2>3
    <3>3. i <= tail => logdata[i] = cache[lh[i]]
      BY <1>1, Zenon DEF LogInv, DataInv
    <3> QED BY <3>1, <3>2, <3>3, Zenon
  <2> QED BY <2>2, <2>3, Zenon
<1>6. \A i \in 1..Len(lh') : phase' = "head" \/ (phase' = "write" /\ i <= tail') =>
        logdata'[i] = cache'[lh'[i]]
  BY <1>2, <1>3, <1>4, <1>5
<1>7. ~Recovering' /\ phase' \in {"write", "head"}
  BY <1>4, Zenon DEF Recovering
<1> QED BY <1>1, <1>3, <1>4, <1>6, <1>7, Zenon DEF LogInv, DataInv

LEMMA write_headData == ASSUME LogInv, write_head PROVE DataInv'
<1>1. phase = "head" /\ committing /\ tail = 0
  BY Zenon DEF write_head, LogInv, DataInv
<1>2. lh \in Seq(Blocks) /\ Len(lh) \in Nat /\ Len(lh) <= LOGSIZE
  BY <1>1, NoneHeld, Zenon
<1>3. /\ head' = lh /\ phase' = "install" /\ Held' = Held
      /\ UNCHANGED <<home, logdata, cache, dirty, lh, committing, tail, buf>>
  BY Zenon DEF write_head, procVars, Held
<1>4. ~Recovering'
  BY <1>1, <1>3, Zenon DEF Recovering
<1>5. \A i \in 1..Len(lh) : logdata[i] = cache[lh[i]] /\ ~(i <= tail)
  BY <1>1 DEF LogInv, DataInv
<1> QED BY <1>1, <1>2, <1>3, <1>4, <1>5 DEF LogInv, DataInv

\* install_trans() copies one more entry home.
LEMMA InstallFacts ==
  ASSUME LogInv, install_trans
  PROVE  /\ tail \in Nat /\ tail + 1 \in 1..Len(lh) /\ lh[tail + 1] \in Blocks
         /\ head = lh /\ lh \in Seq(Blocks) /\ Distinct(lh)
         /\ home'[lh[tail + 1]] = logdata[tail + 1] /\ cache'[lh[tail + 1]] = logdata[tail + 1]
         /\ \A b \in Blocks \ {lh[tail + 1]} : home'[b] = home[b] /\ cache'[b] = cache[b]
         /\ \A i \in 1..Len(lh) : i # tail + 1 => lh[i] \in Blocks \ {lh[tail + 1]}
<1>1. phase = "install" /\ tail < Len(lh) /\ tail \in Nat /\ head = lh /\ Distinct(lh)
  BY Zenon DEF install_trans, LogInv, DataInv, TypeOK
<1>2. lh \in Seq(Blocks) /\ Len(lh) \in Nat /\ \A i \in 1..Len(lh) : lh[i] \in Blocks
  BY <1>1, NoneHeld, Zenon
<1>3. tail + 1 \in 1..Len(lh)
  BY <1>1, <1>2
<1>4. home \in [Blocks -> Values] /\ cache \in [Blocks -> Values]
  BY Zenon DEF LogInv, TypeOK
<1>5. /\ home' = [home EXCEPT ![lh[tail + 1]] = logdata[tail + 1]]
      /\ cache' = [cache EXCEPT ![lh[tail + 1]] = logdata[tail + 1]]
  BY Zenon DEF install_trans
<1>6. \A i \in 1..Len(lh) : i # tail + 1 => lh[i] # lh[tail + 1]
  BY <1>1, <1>3, Zenon DEF Distinct
<1> QED BY <1>1, <1>2, <1>3, <1>4, <1>5, <1>6, Zenon

LEMMA install_transData == ASSUME LogInv, install_trans PROVE DataInv'
<1> DEFINE x == lh[tail + 1]
<1>1. phase = "install" /\ \A b \in Blocks : b \notin Held
  BY NoneHeld, Zenon DEF install_trans
<1>2. /\ tail \in Nat /\ tail + 1 \in 1..Len(lh) /\ x \in Blocks /\ lh \in Seq(Blocks)
      /\ home'[x] = logdata[tail + 1] /\ cache'[x] = logdata[tail + 1]
      /\ \A b \in Blocks \ {x} : home'[b] = home[b] /\ cache'[b] = cache[b]
      /\ \A i \in 1..Len(lh) : i # tail + 1 => lh[i] \in Blocks \ {x}
  BY InstallFacts, Zenon
<1>3. /\ dirty' = dirty \ {x} /\ tail' = tail + 1 /\ Held' = Held /\ Recovering' = Recovering
      /\ UNCHANGED <<logdata, head, lh, committing, phase, buf>>
  BY Zenon DEF install_trans, procVars, Held, Recovering
<1> HIDE DEF x
<1>4. \A i \in 1..Len(lh) : committing => logdata[i] = cache'[lh[i]]
  <2> TAKE i \in 1..Len(lh)
  <2>1. CASE i = tail + 1
    BY <1>2, <2>1, Zenon DEF x
  <2>2. CASE i # tail + 1
    BY <1>1, <1>2, <2>2, Zenon DEF LogInv, DataInv
  <2> QED BY <2>1, <2>2, Zenon
<1>5. \A i \in 1..Len(lh) : i <= tail + 1 => home'[lh[i]] = logdata[i] /\ lh[i] \notin dirty'
  <2> TAKE i \in 1..Len(lh)
  <2>1. CASE i = tail + 1
    BY <1>2, <1>3, <2>1, Zenon DEF x
  <2>2. CASE i # tail + 1
    <3>1. i <= tail + 1 => i <= tail
      BY <1>2, <2>2
    <3>2. i <= tail => home[lh[i]] = logdata[i] /\ lh[i] \notin dirty
      BY <1>1, Zenon DEF LogInv, DataInv
    <3> QED BY <1>2, <1>3, <2>2, <3>1, <3>2, Zenon
  <2> QED BY <2>1, <2>2, Zenon
<1>6. \A b \in Blocks \ (dirty' \cup Held') : cache'[b] = home'[b]
  <2> TAKE b \in Blocks \ (dirty' \cup Held')
  <2>1. CASE b = x
    BY <1>2, <2>1, Zenon
  <2>2. CASE b # x
    <3>1. cache[b] = home[b]
      BY <1>1, <1>3, <2>2, Zenon DEF LogInv, DataInv
    <3> QED BY <1>2, <2>2, <3>1, Zenon
  <2> QED BY <2>1, <2>2, Zenon
<1>7. tail + 1 <= Len(lh)
  BY <1>2
<1> QED BY <1>1, <1>3, <1>4, <1>5, <1>6, <1>7 DEF LogInv, DataInv

\* When everything is installed no buffer is pinned.
LEMMA AllInstalled ==
  ASSUME LogInv, clear_head
  PROVE  /\ dirty = {} /\ head = lh /\ lh \in Seq(Blocks) /\ phase = "install"
         /\ \A i \in 1..Len(lh) : home[lh[i]] = logdata[i]
         /\ \A b \in Blocks : cache[b] = home[b]
<1>1. phase = "install" /\ tail = Len(lh) /\ head = lh
  BY Zenon DEF clear_head, Installed, LogInv, DataInv
<1>2. lh \in Seq(Blocks) /\ Len(lh) \in Nat /\ \A b \in Blocks : b \notin Held
  BY <1>1, NoneHeld, Zenon
<1>3. \A i \in 1..Len(lh) : i <= tail
  BY <1>1, <1>2
<1>4. \A i \in 1..Len(lh) : home[lh[i]] = logdata[i] /\ lh[i] \notin dirty
  BY <1>1, <1>3, Zenon DEF LogInv, DataInv
<1>5. dirty = {}
  BY <1>4 DEF LogInv, DataInv, Entries
<1>6. \A b \in Blocks : cache[b] = home[b]
  BY <1>2, <1>5, Zenon DEF LogInv, DataInv
<1> QED BY <1>1, <1>2, <1>4, <1>5, <1>6, Zenon

LEMMA clear_headData == ASSUME LogInv, clear_head PROVE DataInv'
<1>1. dirty = {} /\ \A b \in Blocks : cache[b] = home[b]
  BY AllInstalled, Zenon
<1>2. /\ lh' = << >> /\ head' = << >> /\ tail' = 0 /\ Held' = Held
      /\ phase' = (IF committing THEN "done" ELSE "up")
      /\ UNCHANGED <<home, logdata, cache, dirty, committing, buf>>
  BY Zenon DEF clear_head, procVars, Held
<1>3. ~Recovering'
  BY <1>2, Zenon DEF Recovering
<1> QED BY <1>1, <1>2, <1>3, EntriesEmpty, LogSizes DEF DataInv

LEMMA end_commitData == ASSUME LogInv, NEW p \in Procs, end_commit(p) PROVE DataInv'
<1>1. phase = "done" /\ lh = << >> /\ head = << >> /\ tail = 0
  BY Zenon DEF end_commit, LogInv, DataInv
<1>2. /\ phase' = "up" /\ ~committing' /\ Held' = Held
      /\ UNCHANGED <<home, logdata, head, cache, dirty, lh, tail, buf>>
  BY Zenon DEF end_commit, diskVars, Held
<1>3. ~Recovering'
  BY <1>2, Zenon DEF Recovering
<1> QED BY <1>1, <1>2, <1>3, Zenon DEF LogInv, DataInv

LEMMA CrashData == ASSUME LogInv, Crash PROVE DataInv'
<1>1. /\ cache' = home' /\ dirty' = {} /\ lh' = << >> /\ ~committing' /\ phase' = "boot" /\ tail' = 0
      /\ head' = head
  BY Zenon DEF Crash, diskVars
<1>2. Distinct(head) /\ Len(head) <= LOGSIZE
  BY Zenon DEF LogInv, DataInv
<1> QED BY <1>1, <1>2, EntriesEmpty, Zenon DEF DataInv

LEMMA read_headData == ASSUME LogInv, read_head PROVE DataInv'
<1>1. phase = "boot" /\ ~committing /\ tail = 0 /\ dirty = {} /\ head \in Seq(Blocks)
  BY Zenon DEF read_head, LogInv, DataInv, Recovering, TypeOK
<1>2. /\ lh' = head /\ phase' = "install" /\ Held' = Held
      /\ UNCHANGED <<home, logdata, head, cache, dirty, committing, tail, buf>>
  BY Zenon DEF read_head, diskVars, procVars, Held
<1>3. \A i \in 1..Len(head) : ~(i <= tail)
  BY <1>1
<1>4. tail <= Len(head)
  BY <1>1
<1> QED BY <1>1, <1>2, <1>3, <1>4, Zenon DEF LogInv, DataInv

\* A buffer that may be recycled has the disk's data already.
LEMMA RecycleSame == ASSUME LogInv, NEW b \in Blocks, Recycle(b) PROVE UNCHANGED vars
<1>1. cache[b] = home[b] /\ cache \in [Blocks -> Values]
  BY Zenon DEF Recycle, LogInv, DataInv, TypeOK
<1>2. cache' = [cache EXCEPT ![b] = home[b]]
  BY Zenon DEF Recycle
<1>3. cache' = cache
  BY <1>1, <1>2, Zenon
<1> QED BY <1>3, Zenon DEF Recycle, vars, diskVars, logVars, procVars

LEMMA NextData == ASSUME LogInv, [Next]_vars PROVE DataInv'
<1>1. ASSUME NEW p \in Procs, begin_op(p) PROVE DataInv'
  BY <1>1, DataFrame, Zenon DEF begin_op, diskVars
<1>2. CASE UNCHANGED vars
  BY <1>2, DataFrame, Zenon DEF vars
<1>3. ASSUME NEW b \in Blocks, Recycle(b) PROVE DataInv'
  BY <1>2, <1>3, RecycleSame, Zenon
<1> QED BY <1>1, <1>2, <1>3, log_writeData, log_write_lockedData, end_opData, write_logData,
           write_headData, install_transData, clear_headData, end_commitData, CrashData,
           read_headData, Zenon
        DEF Next, CommitStep

-----------------------------------------------------------------------------
(***************************************************************************)
(* LogInv is inductive: begin_op() reserves space for every block an       *)
(* operation may log, log_write() uses up one reserved block at most, and  *)
(* the phases of commit() and recovery keep the copies consistent.         *)
(***************************************************************************)
THEOREM LogCorrect == Spec => []LogInv
<1>1. Init => LogInv
  BY InitType, InitOp, InitData, Zenon DEF LogInv
<1>2. LogInv /\ [Next]_vars => LogInv'
  BY NextType, NextOp, NextData, Zenon DEF LogInv
<1> QED BY <1>1, <1>2, PTL DEF Spec

LEMMA OpenCounts ==
  ASSUME LogInv
  PROVE  outstanding = 0 <=> Open = {}
BY OpenFinite, FS_EmptySet, Zenon DEF LogInv, OpInv

\* Between operations the log in memory is empty.
Quiet == outstanding = 0 /\ phase = "up" => lh = << >>

LEMMA QuietNext == ASSUME LogInv, Quiet, [Next]_vars PROVE Quiet'
<1>0. outstanding \in Nat
  BY Zenon DEF LogInv, TypeOK
<1>1. ASSUME NEW p \in Procs, begin_op(p) PROVE Quiet'
  BY <1>0, <1>1 DEF begin_op, Quiet
<1>2. ASSUME NEW p \in Procs, pc[p] \in {"op", "logging"}, phase # "panic", outstanding' = outstanding
      PROVE  Quiet'
  BY <1>2, OpenUp, OpenCounts, Zenon DEF Quiet
<1>3. ASSUME NEW p \in Procs, end_op(p) PROVE Quiet'
  <2>1. outstanding' = outstanding - 1
    BY <1>3, Zenon DEF end_op
  <2>2. CASE outstanding = 1
    BY <1>3, <2>2, end_opStep, Zenon DEF last_op, Quiet
  <2>3. CASE outstanding # 1
    BY <1>0, <2>1, <2>3 DEF Quiet
  <2> QED BY <2>2, <2>3, Zenon
<1>4. ASSUME NEW p \in Procs, end_commit(p) PROVE Quiet'
  BY <1>4, Zenon DEF end_commit, LogInv, DataInv, Quiet
<1>5. CASE write_log \/ write_head \/ install_trans \/ clear_head \/ read_head \/ Crash
  BY <1>5, Zenon DEF write_log, write_log_next, write_head, install_trans, clear_head, read_head, Crash, Quiet
<1>6. CASE UNCHANGED vars
  BY <1>6, Zenon DEF vars, Quiet
<1>7. ASSUME NEW b \in Blocks, Recycle(b) PROVE Quiet'
  BY <1>6, <1>7, RecycleSame, Zenon
<1>8. ASSUME NEW p \in Procs, NEW b \in Blocks, NEW v \in Values, log_write(p, b, v) PROVE Quiet'
  BY <1>2, <1>8, Zenon DEF log_write
<1>9. ASSUME NEW p \in Procs, log_write_locked(p) PROVE Quiet'
  BY <1>2, <1>9, Zenon DEF log_write_locked
<1> QED BY <1>1, <1>3, <1>4, <1>5, <1>6, <1>7, <1>8, <1>9, Zenon DEF Next, CommitStep

\* Durability, for every instance: when no operation is open and commit() has
\* returned, what the finished operations wrote survives a crash.
THEOREM FinishedIsDurable == Spec => []Durable
<1>1. LogInv /\ Quiet => Durable
  <2> SUFFICES ASSUME LogInv, lh = << >>, outstanding = 0, phase = "up" PROVE Recovered = cache
    BY Zenon DEF Durable, Quiet
  <2>1. \A b \in Blocks : b \notin dirty \cup Held
    <3>1. \A p \in Procs : buf[p] = None
      BY OpenCounts, Zenon DEF LogInv, OpInv, Open
    <3> QED BY <3>1, EntriesEmpty, LogSizes DEF LogInv, DataInv, Held
  <2>2. \A b \in Blocks : cache[b] = home[b]
    BY <2>1, Zenon DEF LogInv, DataInv
  <2>3. head = << >> /\ cache \in [Blocks -> Values]
    BY Zenon DEF LogInv, DataInv, TypeOK
  <2> QED BY <2>2, <2>3, EntriesEmpty, Zenon DEF Recovered
<1>2. Init => Quiet
  BY Zenon DEF Init, Quiet
<1>3. LogInv /\ Quiet /\ [Next]_vars => Quiet'
  BY QuietNext, Zenon
<1>4. Spec => []LogInv
  BY LogCorrect, Zenon
<1> QED BY <1>1, <1>2, <1>3, <1>4, PTL DEF Spec

-----------------------------------------------------------------------------
(* The refinement *)

LEMMA RecoveredSame ==
  ASSUME LogInv, [Next]_vars, ~write_head
  PROVE  Recovered' = Recovered
<1>1. ASSUME UNCHANGED diskVars PROVE Recovered' = Recovered
  BY <1>1 DEF diskVars, Recovered
<1>2. CASE write_log
  <2>1. head = << >> /\ head' = << >> /\ home' = home
    BY <1>2, Zenon DEF write_log, LogInv, DataInv
  <2> QED BY <2>1, EntriesEmpty, Zenon DEF Recovered
<1>3. CASE install_trans
  <2>1. head' = head /\ logdata' = logdata
    BY <1>3, Zenon DEF install_trans
  <2>2. \A b \in Blocks \ Entries(head) : home'[b] = home[b]
    BY <1>3, InstallFacts DEF Entries
  <2> QED BY <2>1, <2>2 DEF Recovered
<1>4. CASE clear_head
  <2>1. head' = << >> /\ home' = home
    BY <1>4, Zenon DEF clear_head
  <2>2. Recovered' = [b \in Blocks |-> home[b]]
    BY <2>1, EntriesEmpty, Zenon DEF Recovered
  <2>3. /\ head \in Seq(Blocks) /\ Distinct(head)
        /\ \A i \in 1..Len(head) : home[head[i]] = logdata[i]
    BY <1>4, AllInstalled DEF LogInv, DataInv
  <2>4. \A b \in Blocks : Recovered[b] = home[b]
    BY <2>3, RecoveredIs
  <2>5. Recovered = [b \in Blocks |-> Recovered[b]]
    BY DEF Recovered
  <2> QED BY <2>2, <2>4, <2>5, Zenon
<1>5. write_log \/ install_trans \/ clear_head \/ UNCHANGED diskVars
  BY DEF Next, CommitStep, begin_op, log_write, log_write_locked, end_op, end_commit, Crash,
         read_head, Recycle, vars, diskVars
<1> QED BY <1>1, <1>2, <1>3, <1>4, <1>5, Zenon

\* The commit point: the log on disk and the clean home blocks are the cache.
LEMMA CommitPoint == ASSUME LogInv, write_head PROVE Recovered' = cache
<1>1. /\ phase = "head" /\ head' = lh /\ logdata' = logdata /\ home' = home
      /\ cache \in [Blocks -> Values]
  BY Zenon DEF write_head, LogInv, TypeOK
<1>2. lh \in Seq(Blocks) /\ Len(lh) \in Nat /\ \A b \in Blocks : b \notin Held
  BY <1>1, NoneHeld, Zenon
<1>3. \A i \in 1..Len(lh) : logdata[i] = cache[lh[i]]
  BY <1>1, Zenon DEF LogInv, DataInv
<1>4. \A b \in Blocks \ Entries(lh) : home[b] = cache[b]
  BY <1>2, Zenon DEF LogInv, DataInv
<1>5. \A b \in Blocks : Recovered'[b] = cache[b]
  <2> TAKE b \in Blocks
  <2>1. CASE b \in Entries(lh)
    <3> DEFINE j == CHOOSE i \in 1..Len(lh) : lh[i] = b
    <3>1. j \in 1..Len(lh) /\ lh[j] = b
      BY <2>1, Zenon DEF Entries
    <3>2. Recovered'[b] = logdata[j]
      BY <1>1, <2>1, Zenon DEF Recovered
    <3> HIDE DEF j
    <3> QED BY <1>3, <3>1, <3>2, Zenon
  <2>2. CASE b \notin Entries(lh)
    BY <1>1, <1>4, <2>2, Zenon DEF Recovered
  <2> QED BY <2>1, <2>2, Zenon
<1>6. Recovered' = [b \in Blocks |-> Recovered'[b]]
  BY DEF Recovered
<1> QED BY <1>1, <1>5, <1>6, Zenon

\* What reads return; between a crash and the end of recovery nobody reads.
Memory == IF Recovering THEN Recovered ELSE cache
StoreVars == <<Recovered, Memory, Open>>

LEMMA InitStore == ASSUME Init PROVE Store!Init
<1>1. Recovered = home /\ home \in [Blocks -> Values]
  <2>1. head = << >> /\ home \in [Blocks -> Values]
    BY Zenon DEF Init
  <2> QED BY <2>1, EntriesEmpty, Zenon DEF Recovered
<1>2. Recovering /\ Open = {}
  BY Zenon DEF Init, Recovering, Open
<1> QED BY <1>1, <1>2, Zenon DEF Store!Init

LEMMA begin_opStore ==
  ASSUME LogInv, NEW p \in Procs, begin_op(p), Recovered' = Recovered
  PROVE  Store!Begin(p) \/ UNCHANGED StoreVars
<1>1. pc \in [Procs -> Places] /\ p \notin Open
  BY Zenon DEF LogInv, TypeOK, begin_op, Open
<1>2. Memory' = Memory
  BY Zenon DEF begin_op, Recovering, Memory
<1>3. Open' = Open \/ Open' = Open \cup {p}
  <2>1. pc' = [pc EXCEPT ![p] = "op"] \/ pc' = [pc EXCEPT ![p] = "asleep"]
    BY Zenon DEF begin_op
  <2> QED BY <1>1, <2>1, Zenon DEF Open
<1> QED BY <1>1, <1>2, <1>3, Zenon DEF Store!Begin, StoreVars, Memory

LEMMA log_writeStore ==
  ASSUME LogInv, NEW p \in Procs, NEW b \in Blocks, NEW v \in Values, log_write(p, b, v),
         Recovered' = Recovered
  PROVE  Store!Write(p, b, v)
<1>1. p \in Open /\ ~Recovering /\ phase = "up"
  BY OpenUp, Zenon DEF log_write
<1>2. ~Recovering' /\ cache' = [cache EXCEPT ![b] = v]
  BY <1>1, Zenon DEF log_write, Recovering
<1>3. Open' = Open
  BY Zenon DEF log_write, Open, LogInv, TypeOK
<1> QED BY <1>1, <1>2, <1>3, Zenon DEF Store!Write

LEMMA end_opStore ==
  ASSUME LogInv, NEW p \in Procs, end_op(p), Recovered' = Recovered
  PROVE  Store!End(p)
<1>1. p \in Open /\ ~Recovering /\ phase = "up" /\ TypeOK
  BY OpenUp, Zenon DEF end_op, LogInv
<1>2. ~Recovering' /\ cache' = cache
  <2>1. cache' = cache
    BY Zenon DEF end_op
  <2> QED BY <1>1, <2>1, end_opStep, Zenon DEF last_op, other_op, Recovering
<1>3. Open' = Open \ {p}
  <2>1. pc' = [pc EXCEPT ![p] = "commit"] \/ pc' = [wakeup_log EXCEPT ![p] = "idle"]
    BY end_opStep, Zenon DEF last_op, other_op, EndWakes
  <2>2. /\ wakeup_log \in [Procs -> Places] /\ pc \in [Procs -> Places]
        /\ \A r \in Procs : wakeup_log[r] = pc[r] \/ (pc[r] = "asleep" /\ wakeup_log[r] = "begin")
    BY <1>1, WakeupType, Zenon DEF TypeOK
  <2> QED BY <2>1, <2>2, Zenon DEF Open
<1> QED BY <1>1, <1>2, <1>3, Zenon DEF Store!End

LEMMA CommitStore ==
  ASSUME LogInv, write_head
  PROVE  Store!Commit
<1>1. Open = {} /\ committing /\ phase = "head"
  BY Closed, Zenon DEF write_head
<1>2. ~Recovering /\ ~Recovering' /\ cache' = cache /\ Open' = Open
  BY <1>1, Zenon DEF write_head, Recovering, procVars, Open
<1> QED BY <1>1, <1>2, CommitPoint, Zenon DEF Store!Commit

LEMMA CrashStore ==
  ASSUME Crash, Recovered' = Recovered
  PROVE  Store!Crash
<1>1. Recovering' /\ Open' = {}
  BY Zenon DEF Crash, Recovering, Open
<1> QED BY <1>1, Zenon DEF Store!Crash

\* The other steps of commit() and recovery are invisible.
LEMMA Invisible ==
  ASSUME LogInv, Recovered' = Recovered,
         \/ write_log \/ install_trans \/ clear_head \/ read_head
         \/ \E p \in Procs : end_commit(p) \/ log_write_locked(p)
  PROVE  UNCHANGED StoreVars
<1>1. CASE write_log
  BY <1>1, Zenon DEF write_log, write_log_next, procVars, Open, Recovering, Memory, StoreVars
<1>2. CASE install_trans
  <2>1. Open' = Open /\ Recovering' = Recovering /\ phase = "install"
    BY <1>2, Zenon DEF install_trans, procVars, Open, Recovering
  <2>2. committing => cache' = cache
    <3> DEFINE x == lh[tail + 1]
    <3>1. /\ tail + 1 \in 1..Len(lh) /\ x \in Blocks
          /\ cache' = [cache EXCEPT ![x] = logdata[tail + 1]] /\ cache \in [Blocks -> Values]
      BY <1>2, InstallFacts, Zenon DEF install_trans, LogInv, TypeOK
    <3>2. committing => logdata[tail + 1] = cache[x]
      BY <2>1, <3>1, Zenon DEF LogInv, DataInv
    <3> HIDE DEF x
    <3> QED BY <3>1, <3>2, Zenon
  <2>3. ~Recovering => committing
    BY <2>1, Zenon DEF Recovering
  <2> QED BY <2>1, <2>2, <2>3, Zenon DEF Memory, StoreVars
<1>3. CASE clear_head
  <2>1. Open' = Open /\ ~Recovering' /\ cache' = cache /\ phase = "install" /\ head' = << >> /\ home' = home
    BY <1>3, Zenon DEF clear_head, procVars, Open, Recovering
  <2>2. Recovered' = home
    BY <2>1, EntriesEmpty, Zenon DEF Recovered, LogInv, TypeOK
  <2>3. cache = home
    <3>1. cache \in [Blocks -> Values] /\ home \in [Blocks -> Values]
      BY Zenon DEF LogInv, TypeOK
    <3>2. \A b \in Blocks : cache[b] = home[b]
      BY <1>3, AllInstalled, Zenon
    <3> QED BY <3>1, <3>2
  <2> QED BY <2>1, <2>2, <2>3, Zenon DEF Memory, StoreVars
<1>4. CASE read_head
  <2>1. Open' = Open /\ Recovering /\ Recovering'
    BY <1>4, Zenon DEF read_head, procVars, Open, Recovering, LogInv, DataInv
  <2> QED BY <2>1, Zenon DEF Memory, StoreVars
<1>5. ASSUME NEW p \in Procs, end_commit(p) PROVE UNCHANGED StoreVars
  <2>1. ~Recovering /\ ~Recovering' /\ cache' = cache
    BY <1>5, Zenon DEF end_commit, Recovering
  <2>2. Open' = Open
    <3>1. pc' = [wakeup_log EXCEPT ![p] = "idle"] /\ pc[p] = "commit"
      BY <1>5, Zenon DEF end_commit
    <3> QED BY <3>1, WakeupType, Zenon DEF Open, LogInv
  <2> QED BY <2>1, <2>2, Zenon DEF Memory, StoreVars
<1>6. ASSUME NEW p \in Procs, log_write_locked(p) PROVE UNCHANGED StoreVars
  <2>1. Recovering' = Recovering /\ cache' = cache
    BY <1>6, Zenon DEF log_write_locked, Recovering
  <2>2. Open' = Open
    BY <1>6, Zenon DEF log_write_locked, Open, LogInv, TypeOK
  <2> QED BY <2>1, <2>2, Zenon DEF Memory, StoreVars
<1> QED BY <1>1, <1>2, <1>3, <1>4, <1>5, <1>6, Zenon

LEMMA StepStore == ASSUME LogInv, [Next]_vars PROVE Store!Next \/ UNCHANGED StoreVars
<1>1. CASE write_head
  BY <1>1, CommitStore, Zenon DEF Store!Next
<1>2. CASE ~write_head
  <2>0. Recovered' = Recovered
    BY <1>2, RecoveredSame, Zenon
  <2>1. ASSUME NEW p \in Procs, begin_op(p) PROVE Store!Next \/ UNCHANGED StoreVars
    BY <2>0, <2>1, begin_opStore, Zenon DEF Store!Next
  <2>2. ASSUME NEW p \in Procs, NEW b \in Blocks, NEW v \in Values, log_write(p, b, v)
        PROVE  Store!Next
    BY <2>0, <2>2, log_writeStore, Zenon DEF Store!Next
  <2>3. ASSUME NEW p \in Procs, end_op(p) PROVE Store!Next
    BY <2>0, <2>3, end_opStore, Zenon DEF Store!Next
  <2>4. CASE Crash
    BY <2>0, <2>4, CrashStore, Zenon DEF Store!Next
  <2>5. CASE UNCHANGED vars
    BY <2>0, <2>5, Zenon DEF vars, StoreVars, Memory, Recovering, Open
  <2>6. ASSUME NEW b \in Blocks, Recycle(b) PROVE UNCHANGED StoreVars
    BY <2>5, <2>6, <2>0, RecycleSame DEF vars, StoreVars, Memory, Recovering, Open
  <2> QED BY <1>2, <2>0, <2>1, <2>2, <2>3, <2>4, <2>5, <2>6, Invisible, Zenon DEF Next, CommitStep
<1> QED BY <1>1, <1>2, Zenon

\* Crash atomicity, for every instance: log.c implements the atomic store; its
\* commit point is the first write_head() of commit(), and every other disk
\* write of commit(), install_trans() and recovery leaves the store as it is.
THEOREM LogImplementsStore == Spec => Atomic
<1>1. Init => Store!Init
  BY InitStore, Zenon
<1>2. LogInv /\ [Next]_vars => [Store!Next]_StoreVars
  BY StepStore, Zenon
<1>3. Spec => []LogInv
  BY LogCorrect, Zenon
<1>4. Init /\ [][Next]_vars /\ []LogInv => Store!Init /\ [][Store!Next]_StoreVars
  BY <1>1, <1>2, PTL
<1> QED BY <1>3, <1>4, Zenon DEF Spec, Atomic, Store!Spec, StoreVars, Memory

-----------------------------------------------------------------------------
(* The reservation is enough *)

\* What the open operations may still log.
LeftSlots == {x \in Open \X (1..OpBlocks) : x[2] > Cardinality(wrote[x[1]])}

\* With what they may still log, the entries leave two blocks of LOGSIZE free:
\* the log's header takes one, and log_write() stops one short of the end.
SpaceInv ==
  /\ phase # "panic"
  /\ Len(lh) + Cardinality(LeftSlots) + 2 <= LOGSIZE
  /\ Len(head) + 2 <= LOGSIZE

LEMMA LeftFinite ==
  /\ IsFiniteSet(LeftSlots) /\ Cardinality(LeftSlots) \in Nat
  /\ Cardinality(LeftSlots') \in Nat
  /\ Cardinality(LeftSlots') <= Cardinality(Open') * OpBlocks
<1>1. /\ Open \subseteq Procs /\ LeftSlots \subseteq Open \X (1..OpBlocks) /\ OpBlocks \in Nat
      /\ Open' \subseteq Procs /\ LeftSlots' \subseteq Open' \X (1..OpBlocks)
  BY LogSizes, Zenon DEF Open, LeftSlots
<1> QED BY <1>1, SlotsBound, Zenon

LEMMA NoneLeft == (Open = {} => Cardinality(LeftSlots) = 0) /\ (Open' = {} => Cardinality(LeftSlots') = 0)
<1>1. (Open = {} => LeftSlots = {}) /\ (Open' = {} => LeftSlots' = {})
  BY Zenon DEF LeftSlots
<1> QED BY <1>1, FS_EmptySet, Zenon

\* (c operations that reserve m blocks and log o each leave c blocks.)
LEMMA SparedBlocks ==
  ASSUME NEW c \in Nat, NEW o \in Nat, NEW m \in Nat, o < m
  PROVE  c * o \in Nat /\ c * m \in Nat /\ c * o + c <= c * m
<1>1. c * m = c * o + c + c * (m - o - 1) /\ m - o - 1 \in Nat
  OBVIOUS
<1>2. \A x, y \in Nat : x * y \in Nat
  OBVIOUS
<1>3. c * o \in Nat /\ c * m \in Nat /\ c * (m - o - 1) \in Nat
  BY <1>1, <1>2
<1> QED BY <1>1, <1>3

LEMMA begin_opSpace ==
  ASSUME OpBlocks < MAXOPBLOCKS, MAXOPBLOCKS < LOGSIZE,
         LogInv, Quiet, SpaceInv, NEW p \in Procs, begin_op(p), OpInv', TypeOK'
  PROVE  Len(lh') + Cardinality(LeftSlots') + 2 <= LOGSIZE
<1>0. /\ lh' = lh /\ wrote' = wrote /\ phase # "panic" /\ ~Recovering /\ Len(lh) \in Nat
      /\ outstanding \in Nat /\ pc \in [Procs -> Places] /\ pc[p] \notin {"op", "logging"}
  BY DEF begin_op, LogInv, TypeOK
<1>1. CASE Admits
  <2>1. outstanding' = outstanding + 1 /\ ~committing /\ Room
    BY <1>1, Zenon DEF begin_op, Admits
  <2>2. Cardinality(Open') = outstanding + 1
    BY <2>1, Zenon DEF OpInv
  <2>3. /\ Cardinality(LeftSlots') \in Nat
        /\ Cardinality(LeftSlots') <= (outstanding + 1) * OpBlocks
    BY <2>2, LeftFinite, Zenon
  <2>4. CASE outstanding = 0
    <3>1. phase = "up"
      BY <1>0, <2>1, Zenon DEF LogInv, TypeOK, Phases, DataInv, Recovering
    <3>2. Len(lh) = 0
      BY <2>4, <3>1, EntriesEmpty, Zenon DEF Quiet
    <3>3. (outstanding + 1) * OpBlocks = OpBlocks
      BY <2>4, LogSizes
    <3> QED BY <1>0, <2>3, <3>2, <3>3, LogSizes
  <2>5. CASE outstanding # 0
    <3> DEFINE c == outstanding + 1
    <3>1. c \in Nat /\ c >= 2 /\ MAXOPBLOCKS \in Nat /\ OpBlocks \in Nat
      BY <1>0, <2>5, LogSizes
    <3>2. c * OpBlocks \in Nat /\ c * MAXOPBLOCKS \in Nat /\ c * OpBlocks + c <= c * MAXOPBLOCKS
      BY <3>1, SparedBlocks, Zenon
    <3>3. Len(lh) + c * MAXOPBLOCKS <= LOGSIZE
      BY <2>1, Zenon DEF Room
    <3>4. Cardinality(LeftSlots') <= c * OpBlocks
      BY <2>3, Zenon
    <3> HIDE DEF c
    <3> QED BY <1>0, <2>3, <3>1, <3>2, <3>3, <3>4, LogSizes
  <2> QED BY <2>4, <2>5, Zenon
<1>2. CASE ~Admits
  <2>1. Open' = Open
    BY <1>0, <1>2, Zenon DEF begin_op, Open
  <2>2. LeftSlots' = LeftSlots
    BY <1>0, <2>1, Zenon DEF LeftSlots
  <2> QED BY <1>0, <2>2, Zenon DEF SpaceInv
<1> QED BY <1>1, <1>2, Zenon

LEMMA log_write_lockedSpace ==
  ASSUME LogInv, SpaceInv, NEW p \in Procs, log_write_locked(p)
  PROVE  Len(lh') + Cardinality(LeftSlots') + 2 <= LOGSIZE
<1> DEFINE b == buf[p]
<1>1. /\ pc \in [Procs -> Places] /\ wrote \in [Procs -> SUBSET Blocks] /\ lh \in Seq(Blocks)
      /\ Len(lh) \in Nat /\ pc[p] = "logging" /\ p \in Open /\ Open \subseteq Procs
  BY DEF LogInv, TypeOK, log_write_locked, Open
<1>2. /\ b \in Blocks /\ wrote[p] \subseteq Entries(lh) /\ IsFiniteSet(wrote[p])
      /\ b \in wrote[p] \/ Cardinality(wrote[p]) < OpBlocks
  BY Zenon DEF log_write_locked, LogInv, OpInv, TypeOK
<1>3. /\ wrote' = [wrote EXCEPT ![p] = wrote[p] \cup {b}] /\ pc' = [pc EXCEPT ![p] = "op"]
      /\ lh' = IF b \in Entries(lh) THEN lh ELSE Append(lh, b)
  BY Zenon DEF log_write_locked, Absorb
<1> HIDE DEF b
<1>4. Open' = Open
  BY <1>1, <1>3, Zenon DEF Open
<1>5. CASE b \in wrote[p]
  <2>1. wrote[p] \cup {b} = wrote[p] /\ lh' = lh
    BY <1>2, <1>3, <1>5, Zenon
  <2>2. wrote' = wrote
    BY <1>1, <1>3, <2>1, Zenon
  <2>3. LeftSlots' = LeftSlots
    BY <1>4, <2>2, Zenon DEF LeftSlots
  <2> QED BY <2>1, <2>3, Zenon DEF SpaceInv
<1>6. CASE b \notin wrote[p]
  <2>1. wrote'[p] = wrote[p] \cup {b}
    BY <1>1, <1>3, Zenon
  <2>2. Cardinality(wrote[p] \cup {b}) = Cardinality(wrote[p]) + 1 /\ Cardinality(wrote[p]) \in Nat
    BY <1>2, <1>6, FS_AddElement, FS_CardinalityType, Zenon
  <2>3. \A r \in Open : r # p => wrote'[r] = wrote[r]
    BY <1>1, <1>3, Zenon
  <2>4. Cardinality(wrote[p]) < OpBlocks /\ OpBlocks \in Nat
    BY <1>2, <1>6, LogSizes, Zenon
  <2>5. Cardinality(wrote'[p]) = Cardinality(wrote[p]) + 1
    BY <2>1, <2>2, Zenon
  <2>6. Cardinality(LeftSlots') = Cardinality(LeftSlots) - 1 /\ Cardinality(LeftSlots) \in Nat
    <3>1. /\ LeftSlots = {x \in Open \X (1..OpBlocks) : x[2] > Cardinality(wrote[x[1]])}
          /\ LeftSlots' = {x \in Open \X (1..OpBlocks) : x[2] > Cardinality(wrote'[x[1]])}
      BY <1>4, Zenon DEF LeftSlots
    <3>2. /\ Cardinality({x \in Open \X (1..OpBlocks) : x[2] > Cardinality(wrote[x[1]])}) \in Nat
          /\ Cardinality({x \in Open \X (1..OpBlocks) : x[2] > Cardinality(wrote'[x[1]])})
               = Cardinality({x \in Open \X (1..OpBlocks) : x[2] > Cardinality(wrote[x[1]])}) - 1
      BY <1>1, <2>2, <2>3, <2>4, <2>5, SlotUsed, Zenon
    <3> QED BY <3>1, <3>2, Zenon
  <2>7. Len(lh') \in {Len(lh), Len(lh) + 1}
    BY <1>1, <1>2, <1>3
  <2> QED BY <1>1, <2>6, <2>7, LogSizes DEF SpaceInv
<1> QED BY <1>5, <1>6, Zenon

LEMMA end_opSpace ==
  ASSUME LogInv, SpaceInv, NEW p \in Procs, end_op(p)
  PROVE  Len(lh') + Cardinality(LeftSlots') + 2 <= LOGSIZE
<1>1. /\ lh' = lh /\ wrote' = [wrote EXCEPT ![p] = {}] /\ TypeOK /\ Len(lh) \in Nat
      /\ pc \in [Procs -> Places] /\ wrote \in [Procs -> SUBSET Blocks]
  BY DEF end_op, LogInv, TypeOK
<1>2. Open' = Open \ {p}
  <2>1. pc' = [pc EXCEPT ![p] = "commit"] \/ pc' = [wakeup_log EXCEPT ![p] = "idle"]
    BY end_opStep, Zenon DEF last_op, other_op, EndWakes
  <2>2. /\ wakeup_log \in [Procs -> Places]
        /\ \A r \in Procs : wakeup_log[r] = pc[r] \/ (pc[r] = "asleep" /\ wakeup_log[r] = "begin")
    BY <1>1, WakeupType, Zenon
  <2> QED BY <1>1, <2>1, <2>2, Zenon DEF Open
<1>3. \A x \in Open' \X (1..OpBlocks) : wrote'[x[1]] = wrote[x[1]]
  BY <1>1, <1>2, Zenon DEF Open
<1>4. LeftSlots' \subseteq LeftSlots
  BY <1>2, <1>3, Zenon DEF LeftSlots
<1>5. /\ Cardinality(LeftSlots') <= Cardinality(LeftSlots)
      /\ Cardinality(LeftSlots') \in Nat /\ Cardinality(LeftSlots) \in Nat
  BY <1>4, LeftFinite, FS_Subset, FS_CardinalityType, Zenon
<1> QED BY <1>1, <1>5, LogSizes DEF SpaceInv

LEMMA SpaceNext ==
  ASSUME OpBlocks < MAXOPBLOCKS, MAXOPBLOCKS < LOGSIZE, SIZE >= LOGSIZE,
         LogInv, Quiet, SpaceInv, [Next]_vars
  PROVE  SpaceInv'
<1>0. /\ Len(<< >>) = 0 /\ lh \in Seq(Blocks) /\ Len(lh) \in Nat /\ Len(head) \in Nat
      /\ Cardinality(LeftSlots) \in Nat
  BY LeftFinite DEF LogInv, TypeOK
<1>1. ASSUME UNCHANGED <<lh, head, pc, wrote>>, phase' # "panic" PROVE SpaceInv'
  <2>1. LeftSlots' = LeftSlots
    BY <1>1, Zenon DEF LeftSlots, Open
  <2> QED BY <1>1, <2>1, Zenon DEF SpaceInv
<1>2. ASSUME NEW p \in Procs, NEW b \in Blocks, NEW v \in Values, log_write(p, b, v) PROVE SpaceInv'
  <2>1. p \in Open /\ pc[p] = "op" /\ pc \in [Procs -> Places]
    BY <1>2, Zenon DEF log_write, Open, LogInv, TypeOK
  <2>2. Len(lh) + 2 <= LOGSIZE
    BY <1>0, LogSizes DEF SpaceInv
  <2>3. outstanding # 0 /\ outstanding \in Nat
    BY <2>1, OpenCounts, Zenon DEF LogInv, TypeOK
  <2>4. ~(Len(lh) >= LOGSIZE) /\ ~(Len(lh) >= SIZE - 1) /\ ~(outstanding < 1)
    BY <1>0, <2>2, <2>3, LogSizes
  <2>5. /\ lh' = lh /\ head' = head /\ wrote' = wrote /\ phase' # "panic"
        /\ pc' = [pc EXCEPT ![p] = "logging"]
    BY <1>2, <2>4, Zenon DEF log_write, diskVars, SpaceInv
  <2>6. LeftSlots' = LeftSlots
    BY <2>1, <2>5, Zenon DEF LeftSlots, Open
  <2> QED BY <2>5, <2>6, Zenon DEF SpaceInv
<1>3. ASSUME NEW p \in Procs, log_write_locked(p) PROVE SpaceInv'
  <2>1. head' = head /\ phase' # "panic"
    BY <1>3, Zenon DEF log_write_locked, diskVars
  <2> QED BY <1>3, <2>1, log_write_lockedSpace, Zenon DEF SpaceInv
<1>4. ASSUME NEW p \in Procs, begin_op(p) PROVE SpaceInv'
  <2>1. head' = head /\ phase' # "panic"
    BY <1>4, Zenon DEF begin_op, diskVars
  <2> QED BY <1>4, <2>1, begin_opSpace, NextType, NextOp, Zenon DEF SpaceInv
<1>5. ASSUME NEW p \in Procs, end_op(p) PROVE SpaceInv'
  <2>1. head' = head /\ phase' # "panic"
    BY <1>5, end_opStep, Zenon DEF end_op, last_op, other_op, diskVars
  <2> QED BY <1>5, <2>1, end_opSpace, Zenon DEF SpaceInv
<1>6. CASE \/ write_log \/ write_head \/ install_trans \/ clear_head \/ read_head
           \/ \E p \in Procs : end_commit(p)
  <2>1. Open = {} /\ phase # "panic"
    <3>1. phase \in {"write", "head", "install", "done", "boot"}
      BY <1>6, Zenon DEF write_log, write_head, install_trans, clear_head, read_head, end_commit
    <3> QED BY <3>1, Closed, Zenon
  <2>2. Open' = {}
    <3>1. CASE UNCHANGED procVars
      BY <2>1, <3>1, Zenon DEF procVars, Open
    <3>2. ASSUME NEW p \in Procs, end_commit(p) PROVE Open' = {}
      <4>1. pc' = [wakeup_log EXCEPT ![p] = "idle"]
        BY <3>2, Zenon DEF end_commit
      <4> QED BY <2>1, <4>1, WakeupType, Zenon DEF LogInv, Open
    <3> QED BY <1>6, <3>1, <3>2, Zenon DEF write_log, write_head, install_trans, clear_head, read_head
  <2>3. Cardinality(LeftSlots) = 0 /\ Cardinality(LeftSlots') = 0
    BY <2>1, <2>2, NoneLeft, Zenon
  <2>4. /\ lh' = lh \/ lh' = << >> \/ lh' = head
        /\ head' = lh \/ head' = << >> \/ head' = head
        /\ phase' # "panic"
    BY <1>6, <2>1, Zenon DEF write_log, write_log_next, write_head, install_trans, clear_head, read_head,
                        end_commit, diskVars
  <2> QED BY <1>0, <2>3, <2>4, LogSizes DEF SpaceInv
<1>7. CASE Crash
  <2>1. lh' = << >> /\ head' = head /\ phase' # "panic" /\ Open' = {}
    BY <1>7, Zenon DEF Crash, diskVars, Open
  <2>2. Cardinality(LeftSlots') = 0
    BY <2>1, NoneLeft, Zenon
  <2> QED BY <1>0, <2>1, <2>2, LogSizes DEF SpaceInv
<1>8. CASE UNCHANGED vars
  BY <1>1, <1>8, Zenon DEF vars, SpaceInv
<1>9. ASSUME NEW b \in Blocks, Recycle(b) PROVE SpaceInv'
  BY <1>8, <1>9, RecycleSame, Zenon
<1> QED BY <1>2, <1>3, <1>4, <1>5, <1>6, <1>7, <1>8, <1>9, Zenon DEF Next, CommitStep

\* If operations log fewer blocks than begin_op() reserves,
\* and the log on disk has LOGSIZE blocks as mkfs.c makes it, log_write() and
\* end_op() never panic and no entry runs past lh.block or past the log on
\* disk.  With one operation alone, LOGSIZE > MAXOPBLOCKS is what is left of
\* the reservation; beside others, each leaves one block.
THEOREM ReservationSuffices ==
  ASSUME OpBlocks < MAXOPBLOCKS, MAXOPBLOCKS < LOGSIZE, SIZE >= LOGSIZE
  PROVE  Spec => [](LogFits /\ NoLogPanic)
<1>1. Init => Quiet /\ SpaceInv
  <2> SUFFICES ASSUME Init PROVE Quiet /\ SpaceInv
    OBVIOUS
  <2>1. Open = {} /\ lh = << >> /\ head = << >> /\ phase = "boot"
    BY Zenon DEF Init, Open
  <2>2. Cardinality(LeftSlots) = 0
    BY <2>1, NoneLeft, Zenon
  <2> QED BY <2>1, <2>2, LogSizes DEF SpaceInv, Quiet
<1>2. LogInv /\ Quiet /\ SpaceInv /\ [Next]_vars => (Quiet /\ SpaceInv)'
  BY QuietNext, SpaceNext, Zenon
<1>3. LogInv /\ SpaceInv => LogFits /\ NoLogPanic
  BY LeftFinite, LogSizes DEF LogInv, TypeOK, SpaceInv, LogFits, NoLogPanic
<1>4. Spec => []LogInv
  BY LogCorrect, Zenon
<1> QED BY <1>1, <1>2, <1>3, <1>4, PTL DEF Spec

\* While commit() copies blocks no operation is open, for every instance.
THEOREM CommitsWholeOperations == Spec => []CommitAlone
<1>1. LogInv => CommitAlone
  BY Zenon DEF LogInv, OpInv, DataInv, CommitAlone
<1> QED BY <1>1, LogCorrect, PTL

-----------------------------------------------------------------------------
(* Nobody sleeps in vain *)

\* Recovery is over before the first begin_op().
SleepInv == NoIdleSleeper /\ (Recovering => \A p \in Procs : pc[p] # "asleep")

\* A step that leaves the sleepers with no more room than before.
LEMMA SleepFrame ==
  ASSUME LogInv, SleepInv, \A p \in Procs : pc'[p] = "asleep" => pc[p] = "asleep",
         outstanding' = outstanding, committing' = committing,
         Len(lh') \in Nat, Len(lh) <= Len(lh') \/ committing \/ Recovering,
         Recovering' => Recovering
  PROVE  SleepInv'
<1>1. LOGSIZE \in Nat /\ Len(lh) \in Nat /\ (outstanding + 1) * MAXOPBLOCKS \in Nat
  <2>1. outstanding + 1 \in Nat /\ MAXOPBLOCKS \in Nat
    BY LogSizes DEF LogInv, TypeOK
  <2>2. \A m, n \in Nat : m * n \in Nat
    OBVIOUS
  <2> QED BY <2>1, <2>2, LogSizes DEF LogInv, TypeOK
<1>2. ASSUME NEW p \in Procs, pc'[p] = "asleep" PROVE ~Admits' /\ (outstanding' > 0 \/ committing')
  <2>1. pc[p] = "asleep" /\ ~Admits /\ (outstanding > 0 \/ committing) /\ ~Recovering
    BY <1>2, Zenon DEF SleepInv, NoIdleSleeper
  <2>2. CASE committing
    BY <2>2, Zenon DEF Admits
  <2>3. CASE ~committing
    <3>1. Len(lh) + (outstanding + 1) * MAXOPBLOCKS > LOGSIZE /\ Len(lh) <= Len(lh')
      BY <1>1, <2>1, <2>3 DEF Admits, Room
    <3>2. (outstanding' + 1) * MAXOPBLOCKS = (outstanding + 1) * MAXOPBLOCKS
      BY Zenon
    <3>3. Len(lh') + (outstanding' + 1) * MAXOPBLOCKS > LOGSIZE
      BY <1>1, <3>1, <3>2
    <3> QED BY <1>1, <2>1, <3>2, <3>3 DEF Admits, Room
  <2> QED BY <2>2, <2>3, Zenon
<1>3. Recovering' => \A p \in Procs : pc'[p] # "asleep"
  BY Zenon DEF SleepInv
<1> QED BY <1>2, <1>3, Zenon DEF SleepInv, NoIdleSleeper

LEMMA AllAwake ==
  ASSUME \A p \in Procs : pc'[p] # "asleep"
  PROVE  SleepInv'
BY Zenon DEF SleepInv, NoIdleSleeper

LEMMA begin_opSleep ==
  ASSUME LogInv, Quiet, SleepInv, MAXOPBLOCKS <= LOGSIZE, NEW p \in Procs, begin_op(p)
  PROVE  SleepInv'
<1>0. /\ ~Recovering /\ ~Recovering' /\ phase # "panic" /\ lh' = lh /\ committing' = committing
      /\ outstanding \in Nat /\ pc \in [Procs -> Places] /\ committing \in BOOLEAN
  BY Zenon DEF begin_op, LogInv, TypeOK, Recovering
<1>1. CASE Admits
  <2>1. \A r \in Procs : pc[r] # "asleep"
    BY <1>1, Zenon DEF SleepInv, NoIdleSleeper
  <2>2. pc' = [pc EXCEPT ![p] = "op"]
    BY <1>1, Zenon DEF begin_op
  <2>3. \A r \in Procs : pc'[r] # "asleep"
    BY <1>0, <2>1, <2>2, Zenon
  <2> QED BY <2>3, AllAwake, Zenon
<1>2. CASE ~Admits
  <2>1. outstanding' = outstanding
    BY <1>2, Zenon DEF begin_op
  <2>2. ~Admits'
    BY <1>0, <1>2, <2>1, Zenon DEF Admits, Room
  <2>3. outstanding > 0 \/ committing
    <3> SUFFICES ASSUME outstanding = 0, ~committing PROVE FALSE
      BY <1>0
    <3>1. phase = "up"
      BY <1>0, Zenon DEF LogInv, TypeOK, Phases, DataInv, Recovering
    <3>2. Len(lh) = 0
      BY <3>1, EntriesEmpty, Zenon DEF Quiet
    <3>3. Len(lh) + (outstanding + 1) * MAXOPBLOCKS = MAXOPBLOCKS
      BY <3>2, LogSizes
    <3> QED BY <1>2, <3>3, Zenon DEF Admits, Room
  <2> QED BY <1>0, <2>1, <2>2, <2>3, Zenon DEF SleepInv, NoIdleSleeper
<1> QED BY <1>1, <1>2, Zenon

LEMMA SleepNext ==
  ASSUME LogInv, Quiet, SleepInv, MAXOPBLOCKS <= LOGSIZE, [Next]_vars PROVE SleepInv'
<1>0. /\ lh \in Seq(Blocks) /\ Len(lh) \in Nat /\ head \in Seq(Blocks) /\ Len(head) \in Nat
      /\ pc \in [Procs -> Places] /\ outstanding \in Nat
  BY DEF LogInv, TypeOK
<1>1. ASSUME UNCHANGED <<lh, outstanding, committing, pc>>, Recovering' => Recovering
      PROVE  SleepInv'
  BY <1>0, <1>1, SleepFrame
<1>2. ASSUME NEW p \in Procs, NEW b \in Blocks, NEW v \in Values, log_write(p, b, v)
      PROVE  SleepInv'
  <2>1. /\ UNCHANGED <<lh, outstanding, committing>>
        /\ \A r \in Procs : pc'[r] = "asleep" => pc[r] = "asleep"
        /\ Recovering' => Recovering
    BY <1>0, <1>2, Zenon DEF log_write, Recovering
  <2> QED BY <1>0, <2>1, SleepFrame
<1>3. ASSUME NEW p \in Procs, log_write_locked(p) PROVE SleepInv'
  <2>1. /\ UNCHANGED <<outstanding, committing, phase>>
        /\ \A r \in Procs : pc'[r] = "asleep" => pc[r] = "asleep"
    BY <1>0, <1>3, Zenon DEF log_write_locked
  <2>2. Len(lh') \in Nat /\ Len(lh) <= Len(lh')
    <3>1. buf[p] \in Blocks
      BY <1>3, Zenon DEF log_write_locked, LogInv, OpInv, TypeOK
    <3>2. lh' = lh \/ lh' = Append(lh, buf[p])
      BY <1>3, Zenon DEF log_write_locked, Absorb
    <3> QED BY <1>0, <3>1, <3>2
  <2>3. Recovering' => Recovering
    BY <2>1, Zenon DEF Recovering
  <2> QED BY <2>1, <2>2, <2>3, SleepFrame, Zenon
<1>4. ASSUME NEW p \in Procs, end_op(p) PROVE SleepInv'
  <2>1. CASE outstanding = 1
    <3>1. committing' /\ phase' \in {"write", "done"} /\ pc' = [pc EXCEPT ![p] = "commit"]
      BY <1>4, <2>1, end_opStep, Zenon DEF last_op
    <3> QED BY <3>1, Zenon DEF SleepInv, NoIdleSleeper, Admits, Recovering
  <2>2. CASE outstanding # 1
    <3>1. pc' = [wakeup_log EXCEPT ![p] = "idle"]
      BY <1>4, <2>2, end_opStep, Zenon DEF other_op, EndWakes
    <3>2. \A r \in Procs : pc'[r] # "asleep"
      BY <3>1, Zenon DEF wakeup_log
    <3> QED BY <3>2, AllAwake, Zenon
  <2> QED BY <2>1, <2>2, Zenon
<1>5. ASSUME NEW p \in Procs, end_commit(p) PROVE SleepInv'
  <2>1. \A r \in Procs : pc'[r] # "asleep"
    BY <1>5, Zenon DEF end_commit, wakeup_log
  <2> QED BY <2>1, AllAwake, Zenon
<1>6. CASE write_log \/ write_head \/ install_trans
  <2>1. UNCHANGED <<lh, outstanding, committing, pc>> /\ (Recovering' => Recovering)
    BY <1>6, Zenon DEF write_log, write_log_next, write_head, install_trans, procVars, Recovering,
                LogInv, DataInv
  <2> QED BY <1>1, <2>1, Zenon
<1>7. CASE clear_head
  <2>1. /\ UNCHANGED <<outstanding, committing, pc>> /\ (Recovering' => Recovering)
        /\ lh' = << >> /\ (committing \/ Recovering)
    BY <1>7, Zenon DEF clear_head, procVars, Recovering, LogInv, TypeOK
  <2> QED BY <2>1, EntriesEmpty, SleepFrame, Zenon
<1>8. CASE read_head
  <2>1. /\ UNCHANGED <<outstanding, committing, pc>> /\ Recovering /\ lh' = head
    BY <1>8, Zenon DEF read_head, procVars, Recovering
  <2> QED BY <1>0, <2>1, SleepFrame, Zenon
<1>9. CASE Crash
  <2>1. \A r \in Procs : pc'[r] # "asleep"
    BY <1>9, Zenon DEF Crash
  <2> QED BY <2>1, AllAwake, Zenon
<1>10. ASSUME NEW b \in Blocks, Recycle(b) PROVE SleepInv'
  BY <1>1, <1>10, Zenon DEF Recycle, logVars, procVars, Recovering
<1>11. CASE UNCHANGED vars
  BY <1>1, <1>11, Zenon DEF vars, Recovering
<1> QED BY <1>2, <1>3, <1>4, <1>5, <1>6, <1>7, <1>8, <1>9, <1>10, <1>11, begin_opSleep, Zenon
        DEF Next, CommitStep

\* No lost wakeup in begin_op() and end_op(), for every instance whose log has
\* room for one operation: whoever sleeps would not be admitted now, and an
\* open operation or a commit that will wake it is under way.
THEOREM NobodySleepsIdly ==
  ASSUME MAXOPBLOCKS <= LOGSIZE
  PROVE  Spec => []NoIdleSleeper
<1>1. Init => Quiet /\ SleepInv
  BY Zenon DEF Init, Quiet, SleepInv, NoIdleSleeper
<1>2. LogInv /\ Quiet /\ SleepInv /\ [Next]_vars => (Quiet /\ SleepInv)'
  BY QuietNext, SleepNext, Zenon
<1>3. SleepInv => NoIdleSleeper
  BY Zenon DEF SleepInv
<1>4. Spec => []LogInv
  BY LogCorrect, Zenon
<1> QED BY <1>1, <1>2, <1>3, <1>4, PTL DEF Spec
=============================================================================
