----------------------------- MODULE PipeProofs -----------------------------
(***************************************************************************)
(* Four promises of pipe.c for any number of processes, any PIPESIZE and   *)
(* any requests: the pipe is freed once and last, on one CPU a killed      *)
(* process does not stay asleep in it, no wakeup is lost, and the ring of  *)
(* PIPESIZE bytes with its two wrapping counters is a queue of bytes.      *)
(***************************************************************************)
EXTENDS Pipe, SequenceTheorems, TLAPS

-----------------------------------------------------------------------------
(* Frames *)

\* The step q may make by being woken, or by going on in its own call.
Goes(q) ==
  \/ pc'[q] = pc[q]
  \/ pc[q] \in {"write", "wdoze", "wsleep"} /\ pc'[q] \in {"write", "wdoze", "wsleep", "user"}
  \/ pc[q] \in {"read", "rdoze", "rsleep"} /\ pc'[q] \in {"read", "rdoze", "rsleep", "user"}
  \/ pc[q] = "user" /\ pc'[q] = "write" /\ "w" \in hold[q]
  \/ pc[q] = "user" /\ pc'[q] = "read" /\ "r" \in hold[q]

LEMMA EndFrame ==
  ASSUME EndInv, UNCHANGED endVars, pc' \in [Procs -> Places], \A q \in Procs : Goes(q)
  PROVE  EndInv'
<1>1. open' = open /\ freed' = freed /\ hold' = hold
  BY Zenon DEF endVars
<1>2. \A q \in Procs :
        /\ pc'[q] \in {"write", "wdoze", "wsleep"} => "w" \in hold[q]
        /\ pc'[q] \in {"read", "rdoze", "rsleep"} => "r" \in hold[q]
  BY Zenon DEF Goes, EndInv
<1>3. \A q \in Procs, e \in Ends : pc'[q] = Closing(e) <=> pc[q] = Closing(e)
  BY Zenon DEF Goes, Ends, Closing
<1>4. \A e : Closing(e)' = Closing(e)
  BY Zenon DEF Closing
<1> QED BY <1>1, <1>2, <1>3, <1>4 DEF EndInv

\* Who is woken goes back to the loop of its call.
LEMMA WakeupFacts ==
  ASSUME pc \in [Procs -> Places], NEW w \in {pc, wakeup_readers, wakeup_writers}
  PROVE  /\ w \in [Procs -> Places]
         /\ \A q \in Procs : \/ w[q] = pc[q]
                             \/ pc[q] = "rsleep" /\ w[q] = "read"
                             \/ pc[q] = "wsleep" /\ w[q] = "write"
BY Zenon DEF wakeup_readers, wakeup_writers, Places

\* A step of p that wakes others and leaves p at l.
LEMMA OneGoes ==
  ASSUME pc \in [Procs -> Places], NEW p \in Procs, NEW l \in Places,
         NEW w \in {pc, wakeup_readers, wakeup_writers}, pc' = [w EXCEPT ![p] = l]
  PROVE  /\ pc' \in [Procs -> Places] /\ pc'[p] = l
         /\ \A q \in Procs \ {p} : \/ pc'[q] = pc[q]
                                   \/ pc[q] = "rsleep" /\ pc'[q] = "read"
                                   \/ pc[q] = "wsleep" /\ pc'[q] = "write"
BY WakeupFacts

-----------------------------------------------------------------------------
(* The ends *)

LEMMA pipewriteGoes ==
  ASSUME NEW p \in Procs, pipewrite(p)
  PROVE  /\ pc[p] = "write" /\ UNCHANGED endVars /\ killed' = killed
         /\ \E w \in {pc, wakeup_readers, wakeup_writers}, l \in {"user", "wdoze"} :
              pc' = [w EXCEPT ![p] = l] /\ (l = "wdoze" => ~killed[p])
BY Zenon DEF pipewrite, FullWakes

LEMMA pipereadGoes ==
  ASSUME NEW p \in Procs, piperead(p)
  PROVE  /\ pc[p] = "read" /\ UNCHANGED endVars /\ killed' = killed
         /\ \E w \in {pc, wakeup_readers, wakeup_writers}, l \in {"user", "rdoze"} :
              pc' = [w EXCEPT ![p] = l] /\ (l = "rdoze" => ~killed[p])
BY Zenon DEF piperead

LEMMA CallEnds ==
  ASSUME EndInv, NEW p \in Procs, pipewrite(p) \/ piperead(p) \/ sleep(p) \/ sys_write(p) \/ sys_read(p)
  PROVE  EndInv'
<1>0. pc \in [Procs -> Places]
  BY Zenon DEF EndInv
<1>1. CASE pipewrite(p)
  <2>1. PICK w \in {pc, wakeup_readers, wakeup_writers}, l \in {"user", "wdoze"} : pc' = [w EXCEPT ![p] = l]
    BY <1>1, pipewriteGoes, Zenon
  <2>2. pc' \in [Procs -> Places] /\ \A q \in Procs : Goes(q)
    <3>1. l \in Places
      BY Zenon DEF Places
    <3>2. /\ pc' \in [Procs -> Places] /\ pc'[p] = l
          /\ \A q \in Procs \ {p} : \/ pc'[q] = pc[q]
                                    \/ pc[q] = "rsleep" /\ pc'[q] = "read"
                                    \/ pc[q] = "wsleep" /\ pc'[q] = "write"
      BY <1>0, <2>1, <3>1, OneGoes, Zenon
    <3>3. pc[p] = "write"
      BY <1>1, pipewriteGoes, Zenon
    <3> QED BY <3>2, <3>3, Zenon DEF Goes
  <2> QED BY <1>1, <2>2, EndFrame, pipewriteGoes, Zenon
<1>2. CASE piperead(p)
  <2>1. PICK w \in {pc, wakeup_readers, wakeup_writers}, l \in {"user", "rdoze"} : pc' = [w EXCEPT ![p] = l]
    BY <1>2, pipereadGoes, Zenon
  <2>2. pc' \in [Procs -> Places] /\ \A q \in Procs : Goes(q)
    <3>1. l \in Places
      BY Zenon DEF Places
    <3>2. /\ pc' \in [Procs -> Places] /\ pc'[p] = l
          /\ \A q \in Procs \ {p} : \/ pc'[q] = pc[q]
                                    \/ pc[q] = "rsleep" /\ pc'[q] = "read"
                                    \/ pc[q] = "wsleep" /\ pc'[q] = "write"
      BY <1>0, <2>1, <3>1, OneGoes, Zenon
    <3>3. pc[p] = "read"
      BY <1>2, pipereadGoes, Zenon
    <3> QED BY <3>2, <3>3, Zenon DEF Goes
  <2> QED BY <1>2, <2>2, EndFrame, pipereadGoes, Zenon
<1>3. CASE sleep(p) \/ sys_write(p) \/ sys_read(p)
  <2>1. pc' \in [Procs -> Places] /\ \A q \in Procs : Goes(q)
    BY <1>0, <1>3, Zenon DEF sleep, sys_write, sys_read, Goes, Places
  <2>2. UNCHANGED endVars
    BY <1>3, Zenon DEF sleep, sys_write, sys_read
  <2> QED BY <2>1, <2>2, EndFrame, Zenon
<1> QED BY <1>1, <1>2, <1>3, Zenon

LEMMA killEnds ==
  ASSUME EndInv, NEW p \in Procs, kill(p)
  PROVE  EndInv'
<1>1. pc' \in [Procs -> Places] /\ \A q \in Procs : Goes(q)
  BY DEF EndInv, kill, KillWakes, Goes, Places
<1> QED BY <1>1, EndFrame, Zenon DEF kill

LEMMA forkEnds ==
  ASSUME EndInv, NEW p \in Procs, NEW q \in Procs, fork(p, q)
  PROVE  EndInv'
<1>1. /\ open' = open /\ freed' = freed /\ pc' = pc
      /\ pc[q] = "user" /\ hold[q] = {} /\ hold' = [hold EXCEPT ![q] = hold[p]]
  BY Zenon DEF fork
<1>2. hold' \in [Procs -> SUBSET Ends] /\ hold'[q] = hold[p] /\ \A r \in Procs \ {q} : hold'[r] = hold[r]
  BY <1>1 DEF EndInv
<1>3. p # q => hold'[p] = hold[p]
  BY <1>2, Zenon
<1>4. \A e \in Ends : (\E r \in Procs : e \in hold'[r] \/ pc'[r] = Closing(e))
                  <=> (\E r \in Procs : e \in hold[r] \/ pc[r] = Closing(e))
  BY <1>1, <1>2, <1>3, Zenon
<1>5. \A r \in Procs : /\ pc'[r] \in {"write", "wdoze", "wsleep"} => "w" \in hold'[r]
                       /\ pc'[r] \in {"read", "rdoze", "rsleep"} => "r" \in hold'[r]
  BY <1>1, <1>2, Zenon DEF EndInv
<1>6. \A e \in Ends : \A r, s \in Procs :
        pc'[r] = Closing(e) => e \notin hold'[s] /\ (pc'[s] = Closing(e) => r = s)
  BY <1>1, <1>2 DEF EndInv
<1>7. \A e : Closing(e)' = Closing(e)
  BY Zenon DEF Closing
<1> QED BY <1>1, <1>2, <1>4, <1>5, <1>6, <1>7, Zenon DEF EndInv

LEMMA filecloseEnds ==
  ASSUME EndInv, NEW p \in Procs, NEW e \in Ends, fileclose(p, e)
  PROVE  EndInv'
<1>1. /\ open' = open /\ freed' = freed /\ pc[p] = "user" /\ e \in hold[p]
      /\ hold' = [hold EXCEPT ![p] = @ \ {e}]
      /\ pc' = IF LastReference(p, e) THEN [pc EXCEPT ![p] = Closing(e)] ELSE pc
  BY Zenon DEF fileclose, Closing
<1>2. /\ hold' \in [Procs -> SUBSET Ends] /\ hold'[p] = hold[p] \ {e}
      /\ \A r \in Procs \ {p} : hold'[r] = hold[r]
  BY <1>1 DEF EndInv
<1>3. Closing(e) \in {"closer", "closew"} /\ \A d \in Ends : Closing(d) = Closing(e) => d = e
  BY Zenon DEF Closing, Ends
<1>4. /\ pc' \in [Procs -> Places] /\ \A r \in Procs \ {p} : pc'[r] = pc[r]
      /\ LastReference(p, e) => pc'[p] = Closing(e)
      /\ ~LastReference(p, e) => pc'[p] = "user"
  BY <1>1, <1>3 DEF EndInv, Places
<1>5. \A d \in Ends, r \in Procs : pc[r] = Closing(d) => d # e
  BY <1>1, Zenon DEF EndInv
<1>6. \A d \in Ends : Closing(d) # "user"
  BY Zenon DEF Closing
<1>7. \A d \in Ends : d \in open <=> \E r \in Procs : d \in hold'[r] \/ pc'[r] = Closing(d)
  <2> TAKE d \in Ends
  <2>1. d \in open <=> \E r \in Procs : d \in hold[r] \/ pc[r] = Closing(d)
    BY Zenon DEF EndInv
  <2>2. CASE d # e
    BY <1>1, <1>2, <1>3, <1>4, <1>6, <2>1, <2>2, Zenon
  <2>3. CASE d = e /\ LastReference(p, e)
    BY <1>1, <1>4, <2>1, <2>3, Zenon
  <2>4. CASE d = e /\ ~LastReference(p, e)
    <3>1. PICK r \in Procs \ {p} : e \in hold[r]
      BY <2>4, Zenon DEF LastReference
    <3> QED BY <1>1, <1>2, <2>1, <2>4, <3>1, Zenon
  <2> QED BY <2>2, <2>3, <2>4, Zenon
<1>8. ASSUME NEW d \in Ends, NEW r \in Procs, NEW s \in Procs, pc'[r] = Closing(d)
      PROVE  d \notin hold'[s] /\ (pc'[s] = Closing(d) => r = s)
  <2>1. CASE r = p
    <3>1. LastReference(p, e) /\ d = e
      BY <1>3, <1>4, <1>6, <1>8, <2>1, Zenon
    <3>2. e \notin hold'[s]
      BY <1>2, <3>1, Zenon DEF LastReference
    <3>3. s # p => pc'[s] # Closing(e)
      BY <1>4, <1>5, Zenon
    <3> QED BY <2>1, <3>1, <3>2, <3>3, Zenon
  <2>2. CASE r # p
    <3>1. pc[r] = Closing(d) /\ d # e
      BY <1>4, <1>5, <1>8, <2>2, Zenon
    <3>2. d \notin hold[s] /\ (pc[s] = Closing(d) => r = s)
      BY <3>1, Zenon DEF EndInv
    <3>3. pc'[p] # Closing(d)
      BY <1>3, <1>4, <1>6, <3>1, Zenon
    <3> QED BY <1>2, <1>4, <3>2, <3>3, Zenon
  <2> QED BY <2>1, <2>2, Zenon
<1>9. \A r \in Procs : /\ pc'[r] \in {"write", "wdoze", "wsleep"} => "w" \in hold'[r]
                       /\ pc'[r] \in {"read", "rdoze", "rsleep"} => "r" \in hold'[r]
  BY <1>2, <1>3, <1>4, Zenon DEF EndInv
<1>10. \A d : Closing(d)' = Closing(d)
  BY Zenon DEF Closing
<1> QED BY <1>1, <1>2, <1>4, <1>7, <1>8, <1>9, <1>10, Zenon DEF EndInv

LEMMA pipecloseEnds ==
  ASSUME EndInv, NEW p \in Procs, NEW e \in Ends, pipeclose(p, e)
  PROVE  EndInv'
<1>1. /\ hold' = hold /\ pc[p] = Closing(e) /\ open' = open \ {e}
      /\ freed' = IF open' = {} THEN freed + 1 ELSE freed
  BY Zenon DEF pipeclose, Closing
<1>2. \E w \in {pc, wakeup_readers, wakeup_writers} : pc' = [w EXCEPT ![p] = "user"]
  BY Zenon DEF pipeclose, CloseWakes
<1>3. /\ pc' \in [Procs -> Places] /\ pc'[p] = "user"
      /\ \A q \in Procs \ {p} : \/ pc'[q] = pc[q]
                                \/ pc[q] = "rsleep" /\ pc'[q] = "read"
                                \/ pc[q] = "wsleep" /\ pc'[q] = "write"
  BY <1>2, OneGoes, Zenon DEF EndInv, Places
<1>4. \A d \in Ends : Closing(d) \in {"closer", "closew"} /\ (Closing(d) = Closing(e) => d = e)
  BY Zenon DEF Closing, Ends
<1>5. \A q \in Procs \ {p}, d \in Ends : pc'[q] = Closing(d) <=> pc[q] = Closing(d)
  BY <1>3, <1>4, Zenon
<1>6. e \in open /\ \A q \in Procs : e \notin hold[q] /\ (pc[q] = Closing(e) => p = q)
  BY <1>1, Zenon DEF EndInv
<1>7. freed = 0 /\ freed' = IF open' = {} THEN 1 ELSE 0
  BY <1>1, <1>6 DEF EndInv
<1>8. \A d \in Ends : d \in open' <=> \E r \in Procs : d \in hold[r] \/ pc'[r] = Closing(d)
  <2> TAKE d \in Ends
  <2>1. d \in open <=> \E r \in Procs : d \in hold[r] \/ pc[r] = Closing(d)
    BY Zenon DEF EndInv
  <2>2. pc'[p] # Closing(d)
    BY <1>3, <1>4, Zenon
  <2>3. CASE d = e
    BY <1>1, <1>5, <1>6, <2>2, <2>3, Zenon
  <2>4. CASE d # e
    <3>1. pc[p] # Closing(d)
      BY <1>1, <1>4, <2>4, Zenon
    <3> QED BY <1>1, <1>5, <2>1, <2>2, <2>4, <3>1, Zenon
  <2> QED BY <2>3, <2>4, Zenon
<1>9. \A d \in Ends : \A r, s \in Procs :
        pc'[r] = Closing(d) => d \notin hold[s] /\ (pc'[s] = Closing(d) => r = s)
  <2>1. \A d \in Ends : pc'[p] # Closing(d)
    BY <1>3, <1>4, Zenon
  <2> QED BY <1>5, <2>1 DEF EndInv
<1>10. \A r \in Procs : /\ pc'[r] \in {"write", "wdoze", "wsleep"} => "w" \in hold[r]
                        /\ pc'[r] \in {"read", "rdoze", "rsleep"} => "r" \in hold[r]
  BY <1>3, Zenon DEF EndInv
<1>11. \A d : Closing(d)' = Closing(d)
  BY Zenon DEF Closing
<1>12. open' \subseteq Ends
  BY <1>1, Zenon DEF EndInv
<1> QED BY <1>1, <1>3, <1>7, <1>8, <1>9, <1>10, <1>11, <1>12 DEF EndInv

LEMMA EndsInit == Init => EndInv
<1> SUFFICES ASSUME Init PROVE EndInv
  BY Zenon
<1>1. \A e \in Ends : \E p \in Procs : e \in hold[p]
  BY Zenon DEF Init
<1>2. \A e : Closing(e) # "user"
  BY Zenon DEF Closing
<1>3. open # {} /\ open = Ends
  BY Zenon DEF Init, Ends
<1> QED BY <1>1, <1>2, <1>3, Zenon DEF Init, EndInv, Places

LEMMA EndsNext == EndInv /\ [Next]_vars => EndInv'
<1> SUFFICES ASSUME EndInv, [Next]_vars PROVE EndInv'
  BY Zenon
<1>1. CASE UNCHANGED vars
  BY <1>1, EndFrame, Zenon DEF vars, endVars, Goes, EndInv
<1> QED BY <1>1, CallEnds, killEnds, forkEnds, filecloseEnds, pipecloseEnds, Zenon DEF Next, KernelStep

\* pipeclose() frees the pipe once, when nobody has an end of it, is in a call
\* on it or is about to close it, however many processes share it by fork().
THEOREM FreedOnceAndLast == Spec => []FreedLast
<1>1. Init => EndInv
  BY EndsInit, Zenon
<1>2. EndInv => FreedLast
  <2> SUFFICES ASSUME EndInv, freed > 0
               PROVE  freed = 1 /\ \A p \in Procs : pc[p] = "user" /\ hold[p] = {}
    BY Zenon DEF FreedLast
  <2>1. open = {} /\ freed = 1
    BY DEF EndInv
  <2>2. \A p \in Procs : hold[p] = {} /\ pc[p] \notin {"closer", "closew"}
    BY <2>1, Zenon DEF EndInv, Ends, Closing
  <2> QED BY <2>1, <2>2, Zenon DEF EndInv, Places
<1> QED BY <1>1, <1>2, EndsNext, PTL DEF Spec

-----------------------------------------------------------------------------
(* kill() *)

LEMMA KillNext ==
  ASSUME SMP = FALSE, KillInv, [Next]_vars
  PROVE  KillInv'
<1>0. pc \in [Procs -> Places] /\ killed \in [Procs -> BOOLEAN]
  BY Zenon DEF KillInv
<1>1. ASSUME NEW p \in Procs, NEW l \in Places, killed' = killed, l \in {"wdoze", "rdoze"} => ~killed[p],
             l \notin {"wsleep", "rsleep"},
             \E w \in {pc, wakeup_readers, wakeup_writers} : pc' = [w EXCEPT ![p] = l]
      PROVE  KillInv'
  <2>1. /\ pc' \in [Procs -> Places] /\ pc'[p] = l
        /\ \A q \in Procs \ {p} : \/ pc'[q] = pc[q]
                                  \/ pc[q] = "rsleep" /\ pc'[q] = "read"
                                  \/ pc[q] = "wsleep" /\ pc'[q] = "write"
    BY <1>0, <1>1, OneGoes, Zenon
  <2> QED BY <1>0, <1>1, <2>1, Zenon DEF KillInv
<1>2. ASSUME NEW p \in Procs, pipewrite(p) PROVE KillInv'
  <2>1. PICK w \in {pc, wakeup_readers, wakeup_writers}, l \in {"user", "wdoze"} :
          pc' = [w EXCEPT ![p] = l] /\ (l = "wdoze" => ~killed[p])
    BY <1>2, pipewriteGoes, Zenon
  <2> QED BY <1>1, <1>2, <2>1, pipewriteGoes, Zenon DEF Places
<1>3. ASSUME NEW p \in Procs, piperead(p) PROVE KillInv'
  <2>1. PICK w \in {pc, wakeup_readers, wakeup_writers}, l \in {"user", "rdoze"} :
          pc' = [w EXCEPT ![p] = l] /\ (l = "rdoze" => ~killed[p])
    BY <1>3, pipereadGoes, Zenon
  <2> QED BY <1>1, <1>3, <2>1, pipereadGoes, Zenon DEF Places
<1>4. ASSUME NEW p \in Procs, NEW e \in Ends, pipeclose(p, e) PROVE KillInv'
  <2>1. \E w \in {pc, wakeup_readers, wakeup_writers} : pc' = [w EXCEPT ![p] = "user"]
    BY <1>4, Zenon DEF pipeclose, CloseWakes
  <2> QED BY <1>1, <1>4, <2>1, Zenon DEF pipeclose, Places
<1>5. ASSUME NEW p \in Procs, sleep(p) \/ sys_write(p) \/ sys_read(p) PROVE KillInv'
  BY <1>0, <1>5, Zenon DEF KillInv, sleep, sys_write, sys_read, Places
<1>6. ASSUME NEW p \in Procs, kill(p) PROVE KillInv'
  <2>1. ~Locked /\ pc' = [pc EXCEPT ![p] = KillWakes(p)] /\ killed' = [killed EXCEPT ![p] = TRUE]
    BY <1>6, Zenon DEF kill
  <2>2. KillWakes(p) \in Places \ {"wsleep", "rsleep", "wdoze", "rdoze"}
    BY <1>0, <2>1, Zenon DEF KillWakes, Places, Locked
  <2> QED BY <1>0, <2>1, <2>2, Zenon DEF KillInv
<1>7. ASSUME NEW p \in Procs, NEW q \in Procs, fork(p, q) PROVE KillInv'
  BY <1>0, <1>7, Zenon DEF KillInv, fork
<1>8. ASSUME NEW p \in Procs, NEW e \in Ends, fileclose(p, e) PROVE KillInv'
  BY <1>0, <1>8, Zenon DEF KillInv, fileclose, Places
<1>9. CASE UNCHANGED vars
  BY <1>9, Zenon DEF vars, KillInv
<1> QED BY <1>2, <1>3, <1>4, <1>5, <1>6, <1>7, <1>8, <1>9, Zenon DEF Next, KernelStep

\* On one CPU, where no kill() can fall between the test of killed and the
\* sleep(), nobody who was killed stays asleep in pipewrite() or piperead().
THEOREM KilledNotAsleep ==
  ASSUME SMP = FALSE
  PROVE  Spec => []KilledAwake
<1>1. Init => KillInv
  BY Zenon DEF Init, KillInv, Places
<1>2. KillInv => KilledAwake
  BY Zenon DEF KillInv, KilledAwake
<1> QED BY <1>1, <1>2, KillNext, PTL DEF Spec

-----------------------------------------------------------------------------
(* Remainders *)

LEMMA Division ==
  ASSUME NEW d \in Nat \ {0}, NEW x \in Int
  PROVE  x % d \in 0..(d - 1) /\ \E q \in Int : x = q * d + (x % d)
<1>1. x = (x \div d) * d + (x % d) /\ x \div d \in Int /\ x % d \in 0..(d - 1)
  OBVIOUS
<1> QED BY <1>1, Zenon

LEMMA Remainder ==
  ASSUME NEW d \in Nat \ {0}, NEW q \in Int, NEW r \in 0..(d - 1)
  PROVE  (q * d + r) % d = r
OBVIOUS

\* Multiples of d do not change the remainder.
LEMMA RemainderShift ==
  ASSUME NEW d \in Nat \ {0}, NEW x \in Int, NEW k \in Int
  PROVE  (x + k * d) % d = x % d
<1>1. PICK q \in Int : x = q * d + (x % d)
  BY Division, Zenon
<1>2. x % d \in 0..(d - 1)
  BY Division, Zenon
<1>3. q + k \in Int /\ (q + k) * d = q * d + k * d /\ q * d \in Int /\ k * d \in Int
  OBVIOUS
<1>4. x + k * d = (q + k) * d + (x % d)
  BY <1>1, <1>2, <1>3
<1> QED BY <1>2, <1>3, <1>4, Remainder, Zenon

\* In a window of d numbers the remainders differ.
LEMMA RemainderUnique ==
  ASSUME NEW d \in Nat \ {0}, NEW x \in Int, NEW y \in Int, x % d = y % d, x - y < d, y - x < d
  PROVE  x = y
<1>1. PICK q \in Int : x = q * d + (x % d)
  BY Division, Zenon
<1>2. PICK r \in Int : y = r * d + (y % d)
  BY Division, Zenon
<1>3. x - y = (q - r) * d
  BY <1>1, <1>2, Division
<1>4. q - r >= 1 => (q - r) * d >= d
  OBVIOUS
<1>5. q - r <= -1 => (q - r) * d <= -d
  OBVIOUS
<1>6. q - r = 0
  BY <1>3, <1>4, <1>5
<1> QED BY <1>3, <1>6

-----------------------------------------------------------------------------
(* The ring *)

LEMMA Sizes == PIPESIZE \in Nat \ {0} /\ UINTS \in Nat \ {0} /\ UINTS > PIPESIZE /\ UINTS % PIPESIZE = 0
BY PipeAssumption

\* nwrite is Length after nread, once around the counter's range or not.
LEMMA Around ==
  ASSUME NEW r \in 0..(UINTS - 1), NEW w \in 0..(UINTS - 1)
  PROVE  /\ (w - r) % UINTS \in 0..(UINTS - 1)
         /\ \E q \in Int : r + ((w - r) % UINTS) = w + q * UINTS
         /\ (w - r) % UINTS = 0 <=> r = w
<1>1. w - r \in Int
  OBVIOUS
<1>2. (w - r) % UINTS \in 0..(UINTS - 1)
  BY <1>1, Sizes, Division, Zenon
<1>3. PICK q \in Int : w - r = q * UINTS + ((w - r) % UINTS)
  BY <1>1, Sizes, Division, Zenon
<1>4. -q \in Int /\ (-q) * UINTS = -(q * UINTS) /\ q * UINTS \in Int
  BY Sizes
<1>5. r + ((w - r) % UINTS) = w + (-q) * UINTS
  BY <1>2, <1>3, <1>4
<1>6. ASSUME (w - r) % UINTS = 0 PROVE r = w
  <2>1. 0 % UINTS = 0
    BY Sizes
  <2> QED BY <1>1, <1>6, <2>1, Sizes, RemainderUnique
<1>7. r = w => (w - r) % UINTS = 0
  BY Sizes
<1> QED BY <1>2, <1>4, <1>5, <1>6, <1>7, Zenon

\* The slot of a counter is its remainder: UINTS is a multiple of PIPESIZE, so that
\* nothing is torn apart where the counters wrap.
LEMMA SlotIs ==
  ASSUME NEW n \in Int
  PROVE  Slot(n) = n % PIPESIZE
<1>1. PICK q \in Int : n = q * UINTS + (n % UINTS)
  BY Sizes, Division, Zenon
<1>2. \E m \in Int : UINTS = m * PIPESIZE
  <2>1. UINTS \in Int /\ PIPESIZE \in Nat \ {0}
    BY Sizes
  <2>2. PICK m \in Int : UINTS = m * PIPESIZE + (UINTS % PIPESIZE)
    BY <2>1, Division, Zenon
  <2> QED BY <2>1, <2>2, Sizes
<1>3. PICK m \in Int : UINTS = m * PIPESIZE
  BY <1>2, Zenon
<1>4. n % UINTS \in Int /\ q * m \in Int
  BY Sizes, Division
<1>5. q * UINTS = (q * m) * PIPESIZE
  BY <1>3, Sizes
<1>6. n = (n % UINTS) + (q * m) * PIPESIZE
  BY <1>1, <1>4, <1>5, Sizes
<1>7. ((n % UINTS) + (q * m) * PIPESIZE) % PIPESIZE = (n % UINTS) % PIPESIZE
  BY ONLY <1>4, Sizes, RemainderShift, Zenon
<1> QED BY <1>6, <1>7, Zenon DEF Slot

LEMMA SlotRange == ASSUME NEW n \in Int PROVE Slot(n) \in 0..(PIPESIZE - 1)
BY SlotIs, Sizes, Division, Zenon

LEMMA SlotAround ==
  ASSUME NEW n \in Int, NEW q \in Int
  PROVE  Slot(n + q * UINTS) = Slot(n)
BY Sizes, RemainderShift, Zenon DEF Slot

LEMMA SlotUnique ==
  ASSUME NEW m \in Int, NEW n \in Int, Slot(m) = Slot(n), m - n < PIPESIZE, n - m < PIPESIZE
  PROVE  m = n
BY SlotIs, Sizes, RemainderUnique, Zenon

Counters == nread \in 0..(UINTS - 1) /\ nwrite \in 0..(UINTS - 1)

LEMMA RoomIs ==
  ASSUME Counters, Length <= PIPESIZE
  PROVE  Room = PIPESIZE - Length
<1>1. Length \in 0..(UINTS - 1) /\ \E q \in Int : nread + Length = nwrite + q * UINTS
  BY Around, Zenon DEF Counters, Length
<1>2. PICK q \in Int : nread + Length = nwrite + q * UINTS
  BY <1>1, Zenon
<1> DEFINE k0 == PIPESIZE - Length
<1>3. k0 \in 0..(UINTS - 1)
  BY <1>1, Sizes
<1>4. q * UINTS \in Int /\ nread + PIPESIZE = (nwrite + k0) + q * UINTS
  BY <1>1, <1>2, Sizes DEF Counters
<1>5. (nwrite + k0) % UINTS = (nread + PIPESIZE) % UINTS
  <2> HIDE DEF k0
  <2>1. nwrite + k0 \in Int
    BY <1>3 DEF Counters
  <2>2. ((nwrite + k0) + q * UINTS) % UINTS = (nwrite + k0) % UINTS
    BY <2>1, Sizes, RemainderShift, Zenon
  <2> QED BY <1>4, <2>2, Zenon
<1>6. ASSUME NEW k \in 0..(UINTS - 1), (nwrite + k) % UINTS = (nread + PIPESIZE) % UINTS
      PROVE  k = k0
  <2> HIDE DEF k0
  <2>1. nwrite \in Int /\ k \in Int /\ k0 \in Int /\ k - k0 < UINTS /\ k0 - k < UINTS
    BY <1>3, Sizes DEF Counters
  <2>2. (nwrite + k) % UINTS = (nwrite + k0) % UINTS
    BY <1>5, <1>6, Zenon
  <2>3. /\ nwrite + k \in Int /\ nwrite + k0 \in Int
        /\ (nwrite + k) - (nwrite + k0) < UINTS /\ (nwrite + k0) - (nwrite + k) < UINTS
    BY <2>1, Sizes
  <2>4. nwrite + k = nwrite + k0
    BY <2>2, <2>3, Sizes, RemainderUnique, Zenon
  <2> QED BY <2>1, <2>4
<1> QED BY <1>3, <1>5, <1>6, Zenon DEF Room

LEMMA FilledIs ==
  ASSUME Counters
  PROVE  Filled = Length
<1>1. Length \in 0..(UINTS - 1) /\ \E q \in Int : nread + Length = nwrite + q * UINTS
  BY Around, Zenon DEF Counters, Length
<1>2. PICK q \in Int : nread + Length = nwrite + q * UINTS
  BY <1>1, Zenon
<1>3. (nread + Length) % UINTS = nwrite
  <2> nwrite \in Int
    BY DEF Counters
  <2>1. (nwrite + q * UINTS) % UINTS = nwrite % UINTS
    BY Sizes, RemainderShift, Zenon
  <2>2. nwrite % UINTS = nwrite
    BY Sizes DEF Counters
  <2> QED BY <1>2, <2>1, <2>2, Zenon
<1>4. ASSUME NEW k \in 0..(UINTS - 1), (nread + k) % UINTS = nwrite
      PROVE  k = Length
  <2>1. nread \in Int /\ k \in Int /\ Length \in Int /\ k - Length < UINTS /\ Length - k < UINTS
    BY <1>1, Sizes DEF Counters
  <2>2. /\ nread + k \in Int /\ nread + Length \in Int
        /\ (nread + k) - (nread + Length) < UINTS /\ (nread + Length) - (nread + k) < UINTS
    BY <2>1, Sizes
  <2>3. nread + k = nread + Length
    BY <1>3, <1>4, <2>2, Sizes, RemainderUnique, Zenon
  <2> QED BY <2>1, <2>3
<1> QED BY <1>1, <1>3, <1>4, Zenon DEF Filled

\* Min of two numbers.
LEMMA MinOfTwo ==
  ASSUME NEW a \in Nat, NEW b \in Nat
  PROVE  Min({a, b}) = IF a <= b THEN a ELSE b
BY DEF Min

\* Counters that have gone on by k.
LEMMA Advanced ==
  ASSUME NEW n \in Int, NEW k \in Int
  PROVE  /\ advance(n, k) \in 0..(UINTS - 1)
         /\ \E q \in Int : advance(n, k) = (n + k) + q * UINTS
<1>1. (n + k) % UINTS \in 0..(UINTS - 1)
  BY Sizes, Division
<1> n + k \in Int
  OBVIOUS
<1>2. PICK q \in Int : n + k = q * UINTS + ((n + k) % UINTS)
  BY Sizes, Division, Zenon
<1>3. -q \in Int /\ (-q) * UINTS = -(q * UINTS) /\ q * UINTS \in Int
  BY Sizes
<1>4. (n + k) % UINTS = (n + k) + (-q) * UINTS
  BY <1>1, <1>2, <1>3
<1> QED BY <1>1, <1>3, <1>4, Zenon DEF advance

\* Two numbers of a range whose difference from a third is a multiple of UINTS.
LEMMA SameLength ==
  ASSUME NEW x \in Int, NEW y \in Int, NEW q \in Int, NEW l \in 0..(UINTS - 1),
         y - x = l + q * UINTS
  PROVE  (y - x) % UINTS = l
<1> l \in Int
  OBVIOUS
<1>1. (l + q * UINTS) % UINTS = l % UINTS
  BY Sizes, RemainderShift, Zenon
<1>2. l % UINTS = l
  BY Sizes
<1> QED BY <1>1, <1>2, Zenon

\* pipewrite(): k bytes for which there is room go to the end of the queue.
LEMMA WriteLength ==
  ASSUME Counters, NEW k \in Nat, k <= PIPESIZE - Length,
         nwrite' = advance(nwrite, k), nread' = nread
  PROVE  /\ Counters' /\ Length' = Length + k
         /\ \E q \in Int : nread + Length = nwrite + q * UINTS
<1>1. Length \in 0..(UINTS - 1) /\ \E q \in Int : nread + Length = nwrite + q * UINTS
  BY Around, Zenon DEF Counters, Length
<1>2. PICK q \in Int : nread + Length = nwrite + q * UINTS
  BY <1>1, Zenon
<1>3. nwrite \in Int /\ nread \in Int
  BY DEF Counters
<1>4. PICK r \in Int : nwrite' = (nwrite + k) + r * UINTS
  BY <1>3, Advanced
<1>5. nwrite' \in 0..(UINTS - 1)
  BY <1>3, Advanced
<1>6. /\ r - q \in Int /\ (r - q) * UINTS = r * UINTS - q * UINTS
      /\ r * UINTS \in Int /\ q * UINTS \in Int
  BY Sizes
<1>7. Length + k \in 0..(UINTS - 1)
  BY <1>1, Sizes
<1>8. nwrite' - nread = (Length + k) + (r - q) * UINTS
  BY <1>1, <1>2, <1>3, <1>4, <1>6
<1> nwrite' \in Int
  BY <1>5
<1>9. (nwrite' - nread) % UINTS = Length + k
  BY <1>3, <1>6, <1>7, <1>8, SameLength, Zenon
<1> QED BY <1>1, <1>5, <1>9, Zenon DEF Counters, Length

\* piperead(): k bytes that are there go away.
LEMMA ReadLength ==
  ASSUME Counters, NEW k \in Nat, k <= Length,
         nread' = advance(nread, k), nwrite' = nwrite
  PROVE  /\ Counters' /\ Length' = Length - k
         /\ \E q \in Int : nread' = (nread + k) + q * UINTS
<1>1. Length \in 0..(UINTS - 1) /\ \E q \in Int : nread + Length = nwrite + q * UINTS
  BY Around, Zenon DEF Counters, Length
<1>2. PICK q \in Int : nread + Length = nwrite + q * UINTS
  BY <1>1, Zenon
<1>3. nwrite \in Int /\ nread \in Int
  BY DEF Counters
<1>4. PICK r \in Int : nread' = (nread + k) + r * UINTS
  BY <1>3, Advanced
<1>5. nread' \in 0..(UINTS - 1)
  BY <1>3, Advanced
<1>6. /\ -q - r \in Int /\ (-q - r) * UINTS = -(q * UINTS) - r * UINTS
      /\ r * UINTS \in Int /\ q * UINTS \in Int
  BY Sizes
<1>7. Length - k \in 0..(UINTS - 1)
  BY <1>1, Sizes
<1>8. nwrite - nread' = (Length - k) + (-q - r) * UINTS
  BY <1>1, <1>2, <1>3, <1>4, <1>6
<1> nread' \in Int
  BY <1>5
<1>9. (nwrite - nread') % UINTS = Length - k
  BY <1>3, <1>6, <1>7, <1>8, SameLength, Zenon
<1> QED BY <1>4, <1>5, <1>9, Zenon DEF Counters, Length

LEMMA WriteChan ==
  ASSUME Counters, data \in [0..(PIPESIZE - 1) -> Bytes], NEW bs \in Seq(Bytes),
         Len(bs) <= PIPESIZE - Length,
         data' = copy_in(bs), nwrite' = advance(nwrite, Len(bs)), nread' = nread
  PROVE  data' \in [0..(PIPESIZE - 1) -> Bytes] /\ Chan' = Chan \o bs
<1> DEFINE At(j) == {i \in 1..Len(bs) : Slot(nwrite + i - 1) = j}
           k == Len(bs)
<1>1. Length' = Length + k /\ \E q \in Int : nread + Length = nwrite + q * UINTS
  BY WriteLength
<1>2. PICK q \in Int : nread + Length = nwrite + q * UINTS
  BY <1>1, Zenon
<1>3. nread \in Nat /\ nwrite \in Nat /\ Length \in Nat /\ k \in Nat /\ q * UINTS \in Int
  BY Around, Sizes DEF Counters, Length
<1>4. data' = [i \in 0..(PIPESIZE - 1) |-> IF At(i) = {} THEN data[i] ELSE bs[Max(At(i))]]
  BY Zenon DEF copy_in
<1>5. ASSUME NEW m \in 1..k PROVE At(Slot(nwrite + m - 1)) = {m} /\ Max({m}) = m
  <2>1. ASSUME NEW i \in 1..k, Slot(nwrite + i - 1) = Slot(nwrite + m - 1) PROVE i = m
    <3>1. /\ nwrite + i - 1 \in Int /\ nwrite + m - 1 \in Int
          /\ (nwrite + i - 1) - (nwrite + m - 1) < PIPESIZE /\ (nwrite + m - 1) - (nwrite + i - 1) < PIPESIZE
      BY <1>3, Sizes
    <3>2. nwrite + i - 1 = nwrite + m - 1
      BY <2>1, <3>1, SlotUnique, Zenon
    <3> QED BY <1>3, <3>2
  <2>2. Max({m}) = m
    BY DEF Max
  <2> QED BY <2>1, <2>2, Zenon
<1>6. ASSUME NEW m \in 1..k
      PROVE  /\ Slot(nread + (Length + m) - 1) = Slot(nwrite + m - 1)
             /\ data'[Slot(nwrite + m - 1)] = bs[m]
  <2>1. nwrite + m - 1 \in Int /\ nread + (Length + m) - 1 = (nwrite + m - 1) + q * UINTS
    BY <1>2, <1>3
  <2>2. Slot((nwrite + m - 1) + q * UINTS) = Slot(nwrite + m - 1)
    BY <2>1, SlotAround, Zenon
  <2>3. Slot(nwrite + m - 1) \in 0..(PIPESIZE - 1)
    BY <2>1, SlotRange, Zenon
  <2>4. At(Slot(nwrite + m - 1)) = {m} /\ Max({m}) = m
    BY <1>5, Zenon
  <2> HIDE DEF At
  <2>5. data'[Slot(nwrite + m - 1)] = bs[m]
    BY <1>4, <2>3, <2>4, Zenon
  <2> QED BY <2>1, <2>2, <2>5, Zenon
<1>7. ASSUME NEW i \in 1..Length PROVE data'[Slot(nread + i - 1)] = data[Slot(nread + i - 1)]
  <2> DEFINE j == Slot(nread + i - 1)
  <2>1. nread + i - 1 \in Int
    BY <1>3
  <2>2. ASSUME NEW m \in 1..k, Slot(nwrite + m - 1) = j PROVE FALSE
    <3>1. Slot(nread + (Length + m) - 1) = Slot(nread + i - 1)
      BY <1>6, <2>2, Zenon
    <3>2. /\ nread + (Length + m) - 1 \in Int
          /\ (nread + (Length + m) - 1) - (nread + i - 1) < PIPESIZE
          /\ (nread + i - 1) - (nread + (Length + m) - 1) < PIPESIZE
      BY <1>3, Sizes
    <3>3. nread + (Length + m) - 1 = nread + i - 1
      BY <2>1, <3>1, <3>2, SlotUnique, Zenon
    <3> QED BY <1>3, <3>3
  <2>3. At(j) = {} /\ j \in 0..(PIPESIZE - 1)
    BY <2>1, <2>2, SlotRange, Zenon
  <2> QED BY <1>4, <2>3, Zenon
<1>8. data' \in [0..(PIPESIZE - 1) -> Bytes]
  <2> SUFFICES ASSUME NEW j \in 0..(PIPESIZE - 1), At(j) # {} PROVE bs[Max(At(j))] \in Bytes
    BY <1>4, Zenon
  <2>1. PICK m \in 1..k : Slot(nwrite + m - 1) = j
    BY Zenon
  <2>2. At(j) = {m} /\ Max({m}) = m
    BY <1>5, <2>1, Zenon
  <2> HIDE DEF At
  <2> QED BY <2>2
<1>9. Chan' = Chan \o bs
  <2> HIDE DEF k
  <2>1. Chan' = [i \in 1..(Length + k) |-> data'[Slot(nread + i - 1)]]
    BY <1>1, Zenon DEF Chan, copy_out, Slot
  <2>2. Chan = [i \in 1..Length |-> data[Slot(nread + i - 1)]]
    BY Zenon DEF Chan, copy_out
  <2>3. ASSUME NEW i \in 1..(Length + k)
        PROVE  data'[Slot(nread + i - 1)] = IF i <= Length THEN Chan[i] ELSE bs[i - Length]
    <3>1. CASE i <= Length
      BY <1>3, <1>7, <2>2, <3>1
    <3>2. CASE i > Length
      <4>1. i - Length \in 1..k /\ Length + (i - Length) = i
        BY <1>3, <3>2
      <4>2. /\ Slot(nread + (Length + (i - Length)) - 1) = Slot(nwrite + (i - Length) - 1)
            /\ data'[Slot(nwrite + (i - Length) - 1)] = bs[i - Length]
        BY <1>6, <4>1, Zenon
      <4>3. data'[Slot(nread + i - 1)] = bs[i - Length]
        BY <4>1, <4>2, Zenon
      <4> QED BY <1>3, <3>2, <4>3
    <3> QED BY <1>3, <3>1, <3>2
  <2>4. Chan \in Seq(Bytes) /\ Len(Chan) = Length
    <3>1. ASSUME NEW i \in 1..Length PROVE data[Slot(nread + i - 1)] \in Bytes
      <4>1. nread + i - 1 \in Int
        BY <1>3
      <4>2. Slot(nread + i - 1) \in 0..(PIPESIZE - 1)
        BY <4>1, SlotRange, Zenon
      <4> QED BY <4>2, Zenon
    <3> QED BY <1>3, <2>2, <3>1
  <2>5. Chan \o bs = [i \in 1..(Length + k) |-> IF i <= Length THEN Chan[i] ELSE bs[i - Length]]
    <3>1. Chan \o bs \in Seq(Bytes) /\ Len(Chan \o bs) = Length + k
      BY <2>4 DEF k
    <3>2. \A i \in 1..(Length + k) : (Chan \o bs)[i] = IF i <= Length THEN Chan[i] ELSE bs[i - Length]
      BY <1>3, <2>4 DEF k
    <3>3. Chan \o bs \in [1..(Length + k) -> Bytes]
      BY <3>1, LenProperties, Zenon
    <3> HIDE DEF k
    <3> QED BY <3>2, <3>3, Zenon
  <2> QED BY <2>1, <2>3, <2>5, Zenon
<1> QED BY <1>8, <1>9, Zenon

LEMMA ReadChan ==
  ASSUME Counters, data \in [0..(PIPESIZE - 1) -> Bytes], Length <= PIPESIZE, NEW k \in Nat, k <= Length,
         data' = data, nread' = advance(nread, k), nwrite' = nwrite
  PROVE  /\ Chan \in Seq(Bytes) /\ Len(Chan) = Length
         /\ copy_out(k) = SubSeq(Chan, 1, k)
         /\ Chan' = SubSeq(Chan, k + 1, Len(Chan))
<1>1. Length' = Length - k /\ \E q \in Int : nread' = (nread + k) + q * UINTS
  BY ReadLength, Zenon
<1>2. PICK q \in Int : nread' = (nread + k) + q * UINTS
  BY <1>1, Zenon
<1>3. nread \in Nat /\ nwrite \in Nat /\ Length \in Nat /\ q * UINTS \in Int
  BY Around, Sizes DEF Counters, Length
<1>4. Chan = [i \in 1..Length |-> data[Slot(nread + i - 1)]]
  BY Zenon DEF Chan, copy_out
<1>5. Chan \in Seq(Bytes) /\ Len(Chan) = Length
  <2>1. ASSUME NEW i \in 1..Length PROVE data[Slot(nread + i - 1)] \in Bytes
    <3>1. nread + i - 1 \in Int
      BY <1>3
    <3>2. Slot(nread + i - 1) \in 0..(PIPESIZE - 1)
      BY <3>1, SlotRange, Zenon
    <3> QED BY <3>2, Zenon
  <2> QED BY <1>3, <1>4, <2>1
<1>6. copy_out(k) = SubSeq(Chan, 1, k)
  <2>1. SubSeq(Chan, 1, k) = [i \in 1..k |-> Chan[i]]
    BY <1>3, <1>5
  <2> QED BY <1>3, <1>4, <2>1 DEF copy_out
<1>7. Chan' = SubSeq(Chan, k + 1, Len(Chan))
  <2>1. Chan' = [i \in 1..(Length - k) |-> data[Slot(nread' + i - 1)]]
    BY <1>1, Zenon DEF Chan, copy_out, Slot
  <2>2. ASSUME NEW i \in 1..(Length - k) PROVE Slot(nread' + i - 1) = Slot(nread + (i + k) - 1)
    <3>1. nread + (i + k) - 1 \in Int /\ nread' + i - 1 = (nread + (i + k) - 1) + q * UINTS
      BY <1>2, <1>3
    <3>2. Slot((nread + (i + k) - 1) + q * UINTS) = Slot(nread + (i + k) - 1)
      BY <3>1, SlotAround, Zenon
    <3> QED BY <3>1, <3>2, Zenon
  <2>3. SubSeq(Chan, k + 1, Length) = [i \in 1..(Length - k) |-> Chan[i + k]]
    BY <1>3, <1>5
  <2>4. ASSUME NEW i \in 1..(Length - k) PROVE data[Slot(nread' + i - 1)] = Chan[i + k]
    BY <1>3, <1>4, <2>2
  <2> QED BY <1>5, <2>1, <2>3, <2>4, Zenon
<1> QED BY <1>5, <1>6, <1>7, Zenon

-----------------------------------------------------------------------------
(* Sleeping and waking *)

LEMMA EmptyLength ==
  ASSUME Counters
  PROVE  Length \in Nat /\ (Length = 0 <=> nread = nwrite)
BY Around DEF Counters, Length

\* The bytes in the pipe.
LEMMA ChanIs ==
  ASSUME Counters, Length <= PIPESIZE, data \in [0..(PIPESIZE - 1) -> Bytes]
  PROVE  Chan \in Seq(Bytes) /\ Len(Chan) = Length
<1>1. Length \in Nat
  BY EmptyLength, Zenon
<1>2. ASSUME NEW i \in 1..Length PROVE data[Slot(nread + i - 1)] \in Bytes
  <2>1. nread + i - 1 \in Int
    BY <1>1, Sizes DEF Counters
  <2>2. Slot(nread + i - 1) \in 0..(PIPESIZE - 1)
    BY <2>1, SlotRange, Zenon
  <2> QED BY <2>2, Zenon
<1>3. Chan \in [1..Length -> Bytes]
  BY <1>2, Zenon DEF Chan, copy_out
<1> QED BY <1>1, <1>3

\* What pipewrite() does to the ring, whether it returns or goes to sleep.
Copied(p) == Min({Len(todo[p]), Room})

LEMMA pipewriteRing ==
  ASSUME PipeInv, NEW p \in Procs, pipewrite(p)
  PROVE  /\ Copied(p) \in Nat /\ Copied(p) <= Len(todo[p]) /\ Copied(p) <= PIPESIZE - Length
         /\ Copied(p) # Len(todo[p]) => Copied(p) = PIPESIZE - Length
         /\ SubSeq(todo[p], 1, Copied(p)) \in Seq(Bytes) /\ Len(SubSeq(todo[p], 1, Copied(p))) = Copied(p)
         /\ data' \in [0..(PIPESIZE - 1) -> Bytes] /\ Counters' /\ Length' = Length + Copied(p)
         /\ Chan' = Chan \o SubSeq(todo[p], 1, Copied(p))
<1> DEFINE k == Copied(p)
<1>1. /\ Counters /\ data \in [0..(PIPESIZE - 1) -> Bytes] /\ Length <= PIPESIZE
      /\ todo[p] \in Seq(Bytes)
  BY Zenon DEF PipeInv, TypeOK, Counters
<1>2. Length \in Nat /\ Room = PIPESIZE - Length
  BY <1>1, EmptyLength, RoomIs, Zenon
<1>3. Len(todo[p]) \in Nat /\ Room \in Nat
  BY <1>1, <1>2, Sizes
<1>4. k = IF Len(todo[p]) <= Room THEN Len(todo[p]) ELSE Room
  BY <1>3, MinOfTwo, Zenon DEF Copied
<1> HIDE DEF k
<1>5. /\ k \in Nat /\ k <= Len(todo[p]) /\ k <= PIPESIZE - Length
      /\ k # Len(todo[p]) => k = PIPESIZE - Length
  <2>1. CASE Len(todo[p]) <= Room
    <3>1. k = Len(todo[p])
      BY <1>4, <2>1, Zenon
    <3> QED BY <1>2, <1>3, <2>1, <3>1, Sizes
  <2>2. CASE ~(Len(todo[p]) <= Room)
    <3>1. k = Room
      BY <1>4, <2>2, Zenon
    <3> QED BY <1>2, <1>3, <2>2, <3>1, Sizes
  <2> QED BY <2>1, <2>2, Zenon
<1>6. SubSeq(todo[p], 1, k) \in Seq(Bytes) /\ Len(SubSeq(todo[p], 1, k)) = k
  <2>1. \A i \in 1..k : todo[p][i] \in Bytes
    BY <1>1, <1>3, <1>5
  <2>2. /\ SubSeq(todo[p], 1, k) \in Seq(Bytes)
        /\ Len(SubSeq(todo[p], 1, k)) = IF 1 <= k THEN k - 1 + 1 ELSE 0
    <3>1. 1 \in Int /\ k \in Int
      BY <1>5
    <3> QED BY <2>1, <3>1, SubSeqProperties
  <2>3. CASE k = 0
    BY <2>2, <2>3
  <2>4. CASE k >= 1
    <3>1. 1 <= k /\ k - 1 + 1 = k
      BY <1>5, <2>4
    <3> QED BY <2>2, <3>1, Zenon
  <2> QED BY <1>5, <2>3, <2>4
<1>7. /\ data' = copy_in(SubSeq(todo[p], 1, k)) /\ nwrite' = advance(nwrite, k) /\ nread' = nread
  BY Zenon DEF pipewrite, Copied, k
<1>8. Counters' /\ Length' = Length + k
  BY <1>1, <1>5, <1>7, WriteLength, Zenon
<1>9. data' \in [0..(PIPESIZE - 1) -> Bytes] /\ Chan' = Chan \o SubSeq(todo[p], 1, k)
  BY <1>1, <1>5, <1>6, <1>7, WriteChan, Zenon
<1> QED BY <1>5, <1>6, <1>8, <1>9, Zenon DEF k

LEMMA pipewriteInv ==
  ASSUME PipeInv, NEW p \in Procs, pipewrite(p)
  PROVE  TypeOK' /\ Length' <= PIPESIZE /\ SleepInv'
<1> DEFINE k == Copied(p)
<1>1. /\ k \in Nat /\ k <= Len(todo[p]) /\ k <= PIPESIZE - Length
      /\ k # Len(todo[p]) => k = PIPESIZE - Length
      /\ data' \in [0..(PIPESIZE - 1) -> Bytes] /\ Counters' /\ Length' = Length + k
  BY pipewriteRing, Zenon
<1>2. Counters /\ pc \in [Procs -> Places] /\ todo \in [Procs -> Seq(Bytes)]
  BY Zenon DEF PipeInv, TypeOK, Counters
<1>3. Length \in Nat /\ (Length = 0 <=> nread = nwrite) /\ (Length' = 0 <=> nread' = nwrite')
  BY <1>1, <1>2, EmptyLength, Around, Zenon DEF Counters, Length
<1>4. /\ pc[p] = "write" /\ \A q \in Procs : pc[q] \notin {"wdoze", "rdoze"}
      /\ nread' = nread /\ UNCHANGED <<endVars, want, got, killed>>
  BY Zenon DEF pipewrite, Locked
<1>5. /\ \/ /\ pc' = [wakeup_readers EXCEPT ![p] = "user"]
            /\ todo' = [todo EXCEPT ![p] = << >>] /\ unannounced' = FALSE
         \/ /\ pc' = [pc EXCEPT ![p] = "user"]
            /\ todo' = [todo EXCEPT ![p] = << >>] /\ unannounced' = (unannounced \/ k > 0)
         \/ /\ pc' = [wakeup_readers EXCEPT ![p] = "wdoze"] /\ "r" \in open
            /\ todo' = [todo EXCEPT ![p] = SubSeq(@, k + 1, Len(@))] /\ unannounced' = FALSE
            /\ k # Len(todo[p])
  BY Zenon DEF pipewrite, FullWakes, Copied
<1> HIDE DEF k
<1>6. << >> \in Seq(Bytes) /\ SubSeq(todo[p], k + 1, Len(todo[p])) \in Seq(Bytes)
  BY <1>1, <1>2
<1>7. Length' <= PIPESIZE /\ (Length = PIPESIZE => Length' = PIPESIZE)
  BY <1>1, <1>3, Sizes
<1>8. unannounced \in BOOLEAN /\ unannounced' \in BOOLEAN
  BY <1>5, Zenon DEF PipeInv, TypeOK
<1>9. TypeOK'
  <2>1. pc' \in [Procs -> Places]
    BY <1>2, <1>5, Zenon DEF wakeup_readers, Places
  <2>2. todo' \in [Procs -> Seq(Bytes)]
    BY <1>2, <1>5, <1>6, Zenon
  <2> QED BY <1>1, <1>4, <1>8, <2>1, <2>2, Zenon DEF PipeInv, TypeOK, Counters, endVars
<1>10. ASSUME NEW q \in Procs
       PROVE  /\ pc'[q] \in {"read", "rdoze", "rsleep"} => want'[q] > 0
              /\ pc'[q] \in {"wdoze", "wsleep"} => Length' = PIPESIZE /\ "r" \in open'
              /\ pc'[q] = "rdoze" => nread' = nwrite' /\ "w" \in open'
              /\ pc'[q] = "rsleep" => (nread' = nwrite' \/ unannounced') /\ "w" \in open'
  <2>1. /\ pc[q] \in {"read", "rsleep"} => want'[q] > 0
        /\ pc[q] = "wsleep" => Length' = PIPESIZE /\ "r" \in open'
        /\ pc[q] = "rsleep" => (Length = 0 \/ unannounced) /\ "w" \in open'
    BY <1>3, <1>4, <1>7, Zenon DEF PipeInv, SleepInv, endVars
  <2>2. CASE pc' = [wakeup_readers EXCEPT ![p] = "user"]
    BY <1>2, <1>4, <2>1, <2>2, Zenon DEF wakeup_readers
  <2>3. CASE pc' = [pc EXCEPT ![p] = "user"] /\ unannounced' = (unannounced \/ k > 0)
    <3>1. pc'[q] = "rsleep" => (nread' = nwrite' \/ unannounced')
      <4>1. CASE k = 0 /\ ~unannounced
        BY <1>1, <1>2, <1>3, <2>1, <2>3, <4>1
      <4>2. CASE k > 0 \/ unannounced
        BY <2>3, <4>2, Zenon
      <4> QED BY <1>1, <4>1, <4>2
    <3> QED BY <1>2, <1>4, <2>1, <2>3, <3>1, Zenon
  <2>4. CASE pc' = [wakeup_readers EXCEPT ![p] = "wdoze"] /\ "r" \in open /\ k # Len(todo[p])
    <3>1. Length' = PIPESIZE /\ "r" \in open'
      BY <1>1, <1>3, <1>4, <2>4, Sizes DEF endVars
    <3> QED BY <1>2, <1>4, <2>1, <2>4, <3>1, Zenon DEF wakeup_readers
  <2> QED BY <1>5, <2>2, <2>3, <2>4, Zenon
<1>11. SleepInv'
  BY <1>10, Zenon DEF SleepInv
<1> QED BY <1>7, <1>9, <1>11, Zenon

LEMMA pipereadInv ==
  ASSUME PipeInv, NEW p \in Procs, piperead(p)
  PROVE  TypeOK' /\ Length' <= PIPESIZE /\ SleepInv'
<1>1. /\ Counters /\ pc \in [Procs -> Places] /\ want \in [Procs -> 0..MAXN] /\ Length <= PIPESIZE
      /\ data \in [0..(PIPESIZE - 1) -> Bytes] /\ killed \in [Procs -> BOOLEAN] /\ MAXN \in Nat
  BY PipeAssumption, Zenon DEF PipeInv, TypeOK, Counters
<1>2. Length \in Nat /\ (Length = 0 <=> nread = nwrite) /\ want[p] > 0
  BY <1>1, EmptyLength, Zenon DEF piperead, PipeInv, SleepInv
<1>3. /\ pc[p] = "read" /\ \A q \in Procs : pc[q] \notin {"wdoze", "rdoze"}
      /\ UNCHANGED <<data, nwrite, endVars, todo, killed, unannounced>>
  BY Zenon DEF piperead, Locked
<1>4. CASE Waits
  <2>1. /\ pc' = [pc EXCEPT ![p] = IF killed[p] THEN "user" ELSE "rdoze"]
        /\ want' = [want EXCEPT ![p] = IF killed[p] THEN 0 ELSE @]
        /\ UNCHANGED <<nread, got>> /\ nread = nwrite /\ "w" \in open
    BY <1>4, Zenon DEF piperead, Waits
  <2>2. TypeOK'
    BY <1>1, <1>3, <2>1 DEF PipeInv, TypeOK, endVars, Places
  <2>3. Length' = Length
    BY <1>3, <2>1, Zenon DEF Length
  <2>4. SleepInv'
    BY <1>1, <1>2, <1>3, <2>1, <2>3, Zenon DEF PipeInv, SleepInv, endVars
  <2> QED BY <1>1, <2>2, <2>3, <2>4, Zenon
<1>5. CASE ~Waits
  <2> DEFINE k == Min({want[p], Filled})
  <2>1. /\ got' = copy_out(k) /\ nread' = advance(nread, k)
        /\ pc' = [wakeup_writers EXCEPT ![p] = "user"] /\ want' = [want EXCEPT ![p] = 0]
    BY <1>5, Zenon DEF piperead
  <2>2. k \in Nat /\ k <= Length
    <3>1. want[p] \in Nat /\ Filled = Length
      BY <1>1, FilledIs
    <3> QED BY <1>2, <3>1, MinOfTwo
  <2> HIDE DEF k
  <2>3. Counters' /\ Length' = Length - k
    BY <1>1, <1>3, <2>1, <2>2, ReadLength, Zenon
  <2>4. Chan \in Seq(Bytes) /\ Len(Chan) = Length /\ copy_out(k) = SubSeq(Chan, 1, k)
    BY <1>1, <1>3, <2>1, <2>2, ReadChan, Zenon
  <2>5. got' \in Seq(Bytes)
    BY <2>1, <2>2, <2>4
  <2>6. pc' \in [Procs -> Places] /\ want' \in [Procs -> 0..MAXN]
    BY <1>1, <2>1 DEF wakeup_writers, Places
  <2>7. TypeOK'
    BY <1>1, <1>3, <2>3, <2>5, <2>6, Zenon DEF PipeInv, TypeOK, Counters, endVars
  <2>8. \A q \in Procs : pc[q] = "rsleep" => unannounced' /\ "w" \in open'
    BY <1>3, <1>5, Zenon DEF PipeInv, SleepInv, Waits, endVars
  <2>9. \A q \in Procs \ {p} : want'[q] = want[q] /\ (pc'[q] = pc[q] \/ pc'[q] = "write") /\ pc'[q] # "wsleep"
    BY <1>1, <2>1, Zenon DEF wakeup_writers
  <2>10. pc'[p] = "user"
    BY <1>1, <2>1, Zenon DEF wakeup_writers
  <2>11. SleepInv'
    BY <1>3, <2>8, <2>9, <2>10, Zenon DEF PipeInv, SleepInv
  <2> QED BY <1>1, <1>2, <2>2, <2>3, <2>7, <2>11, Sizes
<1> QED BY <1>4, <1>5, Zenon

\* Steps that leave the ring and the open ends alone.
LEMMA QuietInv ==
  ASSUME PipeInv, NEW p \in Procs,
         \/ sleep(p) \/ sys_write(p) \/ sys_read(p) \/ kill(p)
         \/ \E q \in Procs : fork(p, q)
         \/ \E e \in Ends : fileclose(p, e)
  PROVE  TypeOK' /\ Length' <= PIPESIZE /\ SleepInv'
<1>1. nread' = nread /\ nwrite' = nwrite /\ data' = data /\ open' = open /\ unannounced' = unannounced
  BY Zenon DEF sleep, sys_write, sys_read, kill, fork, fileclose, ringVars, endVars
<1>2. Length' = Length
  BY <1>1, Zenon DEF Length
<1>3. Length <= PIPESIZE /\ TypeOK
  BY Zenon DEF PipeInv
<1>4. pc \in [Procs -> Places] /\ want \in [Procs -> 0..MAXN]
  BY <1>3, Zenon DEF TypeOK
<1>5. ASSUME NEW q \in Procs, pc'[q] = pc[q] \/ pc'[q] \in {"user", "write", "closer", "closew"}, want'[q] = want[q]
      PROVE  /\ pc'[q] \in {"read", "rdoze", "rsleep"} => want'[q] > 0
             /\ pc'[q] \in {"wdoze", "wsleep"} => Length' = PIPESIZE /\ "r" \in open'
             /\ pc'[q] = "rdoze" => nread' = nwrite' /\ "w" \in open'
             /\ pc'[q] = "rsleep" => (nread' = nwrite' \/ unannounced') /\ "w" \in open'
  BY <1>1, <1>2, <1>5, Zenon DEF PipeInv, SleepInv
<1>6. CASE sleep(p)
  <2>1. TypeOK'
    BY <1>3, <1>6, Zenon DEF TypeOK, sleep, ringVars, endVars, Places
  <2>2. /\ pc'[p] = (IF pc[p] = "wdoze" THEN "wsleep" ELSE "rsleep") /\ want' = want
        /\ \A q \in Procs \ {p} : pc'[q] = pc[q]
    BY <1>4, <1>6, Zenon DEF sleep
  <2>3. pc[p] \in {"wdoze", "rdoze"}
    BY <1>6, Zenon DEF sleep
  <2>4. SleepInv'
    BY <1>1, <1>2, <2>2, <2>3, Zenon DEF PipeInv, SleepInv
  <2> QED BY <1>2, <1>3, <2>1, <2>4, Zenon
<1>7. CASE sys_write(p)
  <2>1. PICK n \in 1..MAXN : \E bs \in [1..n -> Bytes] : todo' = [todo EXCEPT ![p] = bs]
    BY <1>7, Zenon DEF sys_write
  <2>2. PICK bs \in [1..n -> Bytes] : todo' = [todo EXCEPT ![p] = bs]
    BY <2>1, Zenon
  <2>3. n \in Nat
    BY PipeAssumption
  <2>4. bs \in Seq(Bytes)
    BY <2>3
  <2>5. todo' \in [Procs -> Seq(Bytes)]
    BY <1>3, <2>2, <2>4, Zenon DEF TypeOK
  <2>6. pc' = [pc EXCEPT ![p] = "write"] /\ UNCHANGED <<ringVars, endVars, want, got, killed, unannounced>>
    BY <1>7, Zenon DEF sys_write
  <2>7. TypeOK'
    BY <1>3, <2>5, <2>6, Zenon DEF TypeOK, ringVars, endVars, Places
  <2>8. SleepInv'
    BY <1>4, <1>5, <2>6, Zenon DEF SleepInv
  <2> QED BY <1>2, <1>3, <2>7, <2>8, Zenon
<1>8. CASE sys_read(p)
  <2>1. PICK n \in 1..MAXN : want' = [want EXCEPT ![p] = n]
    BY <1>8, Zenon DEF sys_read
  <2>2. n \in 0..MAXN /\ n > 0
    BY PipeAssumption
  <2>3. pc' = [pc EXCEPT ![p] = "read"] /\ UNCHANGED <<ringVars, endVars, todo, got, killed, unannounced>>
    BY <1>8, Zenon DEF sys_read
  <2>4. TypeOK'
    BY <1>3, <2>1, <2>2, <2>3, Zenon DEF TypeOK, ringVars, endVars, Places
  <2>5. pc'[p] = "read" /\ want'[p] > 0 /\ \A q \in Procs \ {p} : pc'[q] = pc[q] /\ want'[q] = want[q]
    BY <1>4, <2>1, <2>2, <2>3, Zenon
  <2>6. SleepInv'
    BY <1>5, <2>5, Zenon DEF SleepInv
  <2> QED BY <1>2, <1>3, <2>4, <2>6, Zenon
<1>9. CASE kill(p)
  <2>1. KillWakes(p) \in Places
    BY <1>4, Zenon DEF KillWakes, Places
  <2>2. /\ pc' = [pc EXCEPT ![p] = KillWakes(p)] /\ killed' = [killed EXCEPT ![p] = TRUE]
        /\ UNCHANGED <<ringVars, endVars, todo, want, got, unannounced>>
    BY <1>9, Zenon DEF kill
  <2>3. TypeOK'
    BY <1>3, <2>1, <2>2, Zenon DEF TypeOK, ringVars, endVars
  <2>4. /\ \/ pc'[p] = pc[p]
           \/ pc'[p] = "write"
           \/ pc[p] = "rsleep" /\ pc'[p] = "read"
        /\ want' = want /\ \A q \in Procs \ {p} : pc'[q] = pc[q]
    <3>1. pc'[p] = KillWakes(p) /\ want' = want /\ \A q \in Procs \ {p} : pc'[q] = pc[q]
      BY <1>4, <2>2, Zenon
    <3>2. CASE pc[p] = "wsleep"
      BY <3>1, <3>2, Zenon DEF KillWakes
    <3>3. CASE pc[p] = "rsleep"
      BY <3>1, <3>3, Zenon DEF KillWakes
    <3>4. CASE pc[p] \notin {"wsleep", "rsleep"}
      BY <3>1, <3>4, Zenon DEF KillWakes
    <3> QED BY <3>2, <3>3, <3>4, Zenon
  <2>5. pc[p] = "rsleep" => want[p] > 0
    BY Zenon DEF PipeInv, SleepInv
  <2>6. SleepInv'
    BY <1>5, <2>4, <2>5, Zenon DEF SleepInv
  <2> QED BY <1>2, <1>3, <2>3, <2>6, Zenon
<1>10. CASE \E q \in Procs : fork(p, q)
  <2>1. TypeOK' /\ pc' = pc /\ want' = want
    BY <1>3, <1>10 DEF TypeOK, fork, ringVars
  <2> QED BY <1>2, <1>3, <1>5, <2>1, Zenon DEF SleepInv
<1>11. CASE \E e \in Ends : fileclose(p, e)
  <2>1. TypeOK'
    BY <1>3, <1>11 DEF TypeOK, fileclose, ringVars, Places
  <2>2. want' = want /\ \A q \in Procs : pc'[q] = pc[q] \/ pc'[q] \in {"closer", "closew"}
    BY <1>4, <1>11, Zenon DEF fileclose
  <2> QED BY <1>2, <1>3, <1>5, <2>1, <2>2, Zenon DEF SleepInv
<1> QED BY <1>6, <1>7, <1>8, <1>9, <1>10, <1>11, Zenon

\* pipeclose() wakes the other side, which looks at readopen or writeopen again.
LEMMA pipecloseInv ==
  ASSUME PipeInv, NEW p \in Procs, NEW e \in Ends, pipeclose(p, e)
  PROVE  TypeOK' /\ Length' <= PIPESIZE /\ SleepInv'
<1>1. /\ pc' = [CloseWakes(e) EXCEPT ![p] = "user"] /\ open' = open \ {e}
      /\ freed' = (IF open' = {} THEN freed + 1 ELSE freed)
      /\ UNCHANGED <<ringVars, hold, todo, want, got, killed, unannounced>>
      /\ \A q \in Procs : pc[q] \notin {"wdoze", "rdoze"}
  BY Zenon DEF pipeclose, Locked
<1>2. TypeOK /\ Length <= PIPESIZE /\ pc \in [Procs -> Places]
  BY Zenon DEF PipeInv, TypeOK
<1>3. Length' = Length
  BY <1>1, Zenon DEF Length, ringVars
<1>4. pc' \in [Procs -> Places]
  BY <1>1, <1>2, Zenon DEF CloseWakes, wakeup_readers, wakeup_writers, Places
<1>5. freed' \in Nat
  BY <1>1, <1>2 DEF TypeOK
<1>6. TypeOK'
  BY <1>1, <1>2, <1>4, <1>5, Zenon DEF TypeOK, ringVars
<1>7. /\ pc'[p] = "user"
      /\ \A q \in Procs \ {p} : \/ pc'[q] = pc[q] /\ pc[q] \notin {"rsleep", "wsleep"}
                                \/ pc'[q] = "write"
                                \/ pc[q] = "rsleep" /\ pc'[q] = "read"
                                \/ pc'[q] = pc[q] /\ pc[q] = "rsleep" /\ e = "r"
                                \/ pc'[q] = pc[q] /\ pc[q] = "wsleep" /\ e = "w"
  BY <1>1, <1>2, Zenon DEF CloseWakes, wakeup_readers, wakeup_writers, Ends
<1>8. "w" \in open /\ e = "r" => "w" \in open'
  BY <1>1, Zenon
<1>9. "r" \in open /\ e = "w" => "r" \in open'
  BY <1>1, Zenon
<1>10. nread' = nread /\ nwrite' = nwrite /\ want' = want /\ unannounced' = unannounced
  BY <1>1, Zenon DEF ringVars
<1>11. ASSUME NEW q \in Procs
       PROVE  /\ pc'[q] \in {"read", "rdoze", "rsleep"} => want'[q] > 0
              /\ pc'[q] \in {"wdoze", "wsleep"} => Length' = PIPESIZE /\ "r" \in open'
              /\ pc'[q] = "rdoze" => nread' = nwrite' /\ "w" \in open'
              /\ pc'[q] = "rsleep" => (nread' = nwrite' \/ unannounced') /\ "w" \in open'
  <2>1. /\ pc[q] \in {"read", "rdoze", "rsleep"} => want[q] > 0
        /\ pc[q] \in {"wdoze", "wsleep"} => Length = PIPESIZE /\ "r" \in open
        /\ pc[q] = "rsleep" => (nread = nwrite \/ unannounced) /\ "w" \in open
        /\ pc[q] \notin {"wdoze", "rdoze"}
    BY <1>1, Zenon DEF PipeInv, SleepInv
  <2>2. CASE q = p
    BY <1>7, <2>2, Zenon
  <2>3. CASE q # p
    BY <1>3, <1>7, <1>8, <1>9, <1>10, <2>1, <2>3, Zenon
  <2> QED BY <2>2, <2>3, Zenon
<1>12. SleepInv'
  BY <1>11, Zenon DEF SleepInv
<1> QED BY <1>2, <1>3, <1>6, <1>12, Zenon

LEMMA PipeInit == Init => PipeInv
<1> SUFFICES ASSUME Init PROVE PipeInv
  BY Zenon
<1>1. EndInv
  BY EndsInit, Zenon
<1>2. Length = 0
  BY Sizes DEF Init, Length
<1>3. /\ 0 \in 0..(UINTS - 1) /\ 0 \in 0..MAXN /\ << >> \in Seq(Bytes) /\ 0 \in Nat
      /\ \A f : f \in [Procs -> {"user"}] => f \in [Procs -> Places]
  BY Sizes, PipeAssumption DEF Places
<1>4. data \in [0..(PIPESIZE - 1) -> Bytes] /\ nread \in 0..(UINTS - 1) /\ nwrite \in 0..(UINTS - 1)
  BY <1>3, Zenon DEF Init
<1>5. /\ open \subseteq Ends /\ freed \in Nat /\ hold \in [Procs -> SUBSET Ends] /\ pc \in [Procs -> Places]
      /\ got \in Seq(Bytes)
  BY <1>3, Zenon DEF Init
<1>6. /\ todo \in [Procs -> Seq(Bytes)] /\ want \in [Procs -> 0..MAXN]
  BY <1>3, Zenon DEF Init
<1>7. killed \in [Procs -> BOOLEAN] /\ unannounced \in BOOLEAN
  BY Zenon DEF Init
<1>8. TypeOK
  BY <1>4, <1>5, <1>6, <1>7, Zenon DEF TypeOK
<1>9. PIPESIZE \in Nat
  BY Sizes, Zenon
<1> QED BY <1>1, <1>2, <1>8, <1>9 DEF PipeInv, SleepInv, Init

LEMMA PipeNext == PipeInv /\ [Next]_vars => PipeInv'
<1> SUFFICES ASSUME PipeInv, [Next]_vars PROVE PipeInv'
  BY Zenon
<1>1. EndInv'
  BY EndsNext, Zenon DEF PipeInv
<1>2. TypeOK' /\ Length' <= PIPESIZE /\ SleepInv'
  <2>1. CASE UNCHANGED vars
    BY <2>1, Zenon DEF vars, PipeInv, TypeOK, SleepInv, Length
  <2> QED BY <2>1, pipewriteInv, pipereadInv, pipecloseInv, QuietInv, Zenon DEF Next, KernelStep
<1> QED BY <1>1, <1>2, Zenon DEF PipeInv

\* No wakeup is lost, for any number of processes, any PIPESIZE and any requests:
\* whoever sleeps in pipewrite() has no room, and whoever sleeps in piperead() has
\* nothing to read but what a killed writer left; the end each waits for is open.
THEOREM NoSleeperStranded == Spec => []SleepersWait
<1>1. PipeInv => SleepersWait
  <2> SUFFICES ASSUME PipeInv PROVE SleepersWait
    BY Zenon
  <2>1. Counters /\ Length <= PIPESIZE /\ TypeOK
    BY Zenon DEF PipeInv, TypeOK, Counters
  <2>2. Length = PIPESIZE => Room = 0
    BY <2>1, RoomIs, Sizes
  <2> QED BY <2>1, <2>2, Zenon DEF PipeInv, SleepInv, SleepersWait
<1> QED BY <1>1, PipeInit, PipeNext, PTL DEF Spec

-----------------------------------------------------------------------------
(* The pipe is a queue of bytes *)

\* What pipewrite() copies is put at the tail.
LEMMA pipewriteIsPut ==
  ASSUME PipeInv, NEW p \in Procs, pipewrite(p)
  PROVE  Channel!Put \/ UNCHANGED <<Chan, open, got>>
<1> DEFINE k == Copied(p)
           bs == SubSeq(todo[p], 1, k)
<1>1. /\ k \in Nat /\ k <= PIPESIZE - Length /\ bs \in Seq(Bytes) /\ Len(bs) = k /\ Chan' = Chan \o bs
  BY pipewriteRing, Zenon
<1>2. UNCHANGED <<open, got>> /\ pc[p] = "write"
  BY Zenon DEF pipewrite, endVars
<1>3. "w" \in open
  BY <1>2, Zenon DEF PipeInv, EndInv, Ends
<1>4. Counters /\ Length <= PIPESIZE /\ data \in [0..(PIPESIZE - 1) -> Bytes]
  BY Zenon DEF PipeInv, TypeOK, Counters
<1>5. Length \in Nat /\ Chan \in Seq(Bytes) /\ Len(Chan) = Length
  BY <1>4, EmptyLength, ChanIs, Zenon
<1> HIDE DEF k, bs
<1>6. CASE k = 0
  <2>1. bs = << >>
    BY <1>1, <1>6, EmptySeq, Zenon
  <2> QED BY <1>1, <1>2, <1>5, <2>1, ConcatEmptySeq, Zenon
<1>7. CASE k # 0
  <2>1. k \in 1..PIPESIZE /\ Len(Chan) + k <= PIPESIZE
    BY <1>1, <1>5, <1>7, Sizes
  <2>2. bs \in [1..k -> Bytes]
    BY <1>1, LenProperties, Zenon
  <2> QED BY <1>1, <1>2, <1>3, <2>1, <2>2, Zenon DEF Channel!Put
<1> QED BY <1>6, <1>7, Zenon

\* What piperead() returns is taken from the head, and it returns nothing only
\* when there is nothing and nobody can write.
LEMMA pipereadIsGet ==
  ASSUME PipeInv, NEW p \in Procs, piperead(p)
  PROVE  Channel!Get \/ UNCHANGED <<Chan, open, got>>
<1>1. Counters /\ Length <= PIPESIZE /\ data \in [0..(PIPESIZE - 1) -> Bytes] /\ want[p] \in Nat /\ want[p] > 0
  BY PipeAssumption DEF PipeInv, TypeOK, Counters, piperead, SleepInv
<1>2. Length \in Nat /\ (Length = 0 <=> nread = nwrite) /\ Chan \in Seq(Bytes) /\ Len(Chan) = Length
  BY <1>1, EmptyLength, ChanIs, Zenon
<1>3. data' = data /\ nwrite' = nwrite /\ open' = open /\ pc[p] = "read"
  BY Zenon DEF piperead, endVars
<1>4. CASE Waits
  <2>1. nread' = nread /\ got' = got
    BY <1>4, Zenon DEF piperead
  <2> QED BY <1>3, <2>1, Zenon DEF Chan, Length, copy_out, Slot
<1>5. CASE ~Waits
  <2> DEFINE k == Min({want[p], Filled})
  <2>1. got' = copy_out(k) /\ nread' = advance(nread, k)
    BY <1>5, Zenon DEF piperead
  <2>2. Filled = Length
    BY <1>1, FilledIs, Zenon
  <2>3. k \in {want[p], Length} /\ k <= want[p] /\ k <= Length
    BY <1>1, <1>2, <2>2, MinOfTwo
  <2> HIDE DEF k
  <2>4. k \in Nat /\ k \in 0..Len(Chan) /\ (k = 0 => Length = 0)
    BY <1>1, <1>2, <2>3
  <2>5. copy_out(k) = SubSeq(Chan, 1, k) /\ Chan' = SubSeq(Chan, k + 1, Len(Chan))
    BY <1>1, <1>3, <2>1, <2>3, <2>4, ReadChan, Zenon
  <2>6. Length = 0 <=> Chan = << >>
    BY <1>2, EmptySeq, Zenon
  <2>7. "r" \in open
    BY <1>3, Zenon DEF PipeInv, EndInv, Ends
  <2>8. Chan # << >> \/ "w" \notin open
    BY <1>2, <1>5, <2>6, Zenon DEF Waits
  <2> QED BY <1>3, <2>1, <2>4, <2>5, <2>6, <2>7, <2>8, Zenon DEF Channel!Get
<1> QED BY <1>4, <1>5, Zenon

\* Every step of the kernel is a step of the queue, or leaves the queue alone.
LEMMA ChannelStep == PipeInv /\ [Next]_vars => [Channel!Next]_<<Chan, open, got>>
<1> SUFFICES ASSUME PipeInv, [Next]_vars PROVE Channel!Next \/ UNCHANGED <<Chan, open, got>>
  BY Zenon
<1>1. ASSUME UNCHANGED <<data, nread, nwrite, open, got>> PROVE UNCHANGED <<Chan, open, got>>
  BY <1>1, Zenon DEF Chan, Length, copy_out, Slot
<1>2. ASSUME NEW p \in Procs, NEW e \in Ends, pipeclose(p, e) PROVE Channel!Next
  <2>1. pc[p] = Closing(e) /\ open' = open \ {e} /\ UNCHANGED <<data, nread, nwrite, got>>
    BY <1>2, Zenon DEF pipeclose, Closing, ringVars, Ends
  <2>2. e \in open
    BY <2>1, Zenon DEF PipeInv, EndInv
  <2>3. Chan' = Chan
    BY <2>1, Zenon DEF Chan, Length, copy_out, Slot
  <2> QED BY <2>1, <2>2, <2>3, Zenon DEF Channel!Next, Channel!Hangup
<1>3. ASSUME NEW p \in Procs,
             \/ sleep(p) \/ sys_write(p) \/ sys_read(p) \/ kill(p)
             \/ \E q \in Procs : fork(p, q)
             \/ \E e \in Ends : fileclose(p, e)
      PROVE  UNCHANGED <<data, nread, nwrite, open, got>>
  BY <1>3, Zenon DEF sleep, sys_write, sys_read, kill, fork, fileclose, ringVars, endVars
<1>4. CASE UNCHANGED vars
  BY <1>1, <1>4, Zenon DEF vars
<1>5. CASE Next
  <2>1. PICK p \in Procs :
          \/ KernelStep(p) \/ sys_write(p) \/ sys_read(p) \/ kill(p)
          \/ \E q \in Procs : fork(p, q)
          \/ \E e \in Ends : fileclose(p, e)
    BY <1>5, Zenon DEF Next
  <2>2. CASE pipewrite(p)
    BY <2>2, pipewriteIsPut, Zenon DEF Channel!Next
  <2>3. CASE piperead(p)
    BY <2>3, pipereadIsGet, Zenon DEF Channel!Next
  <2> QED BY <1>1, <1>2, <1>3, <2>1, <2>2, <2>3, Zenon DEF KernelStep
<1> QED BY <1>4, <1>5, Zenon

\* A pipe implements a bounded queue of bytes, with any number of readers and
\* writers, for any PIPESIZE that divides 2^w, and when the counters wrap: bytes
\* come out once, in the order they went in, never more than PIPESIZE are in it,
\* and a read returns nothing only when every write end is closed.
THEOREM PipeImplementsChannel == Spec => IsChannel
<1>1. Init => Channel!Init
  <2> SUFFICES ASSUME Init PROVE Channel!Init
    BY Zenon
  <2>1. Counters /\ nread = nwrite /\ data \in [0..(PIPESIZE - 1) -> Bytes]
    BY Sizes DEF Init, Counters
  <2>2. Length = 0 /\ Length <= PIPESIZE
    BY <2>1, EmptyLength, Sizes
  <2>3. Chan \in Seq(Bytes) /\ Len(Chan) = 0
    BY <2>1, <2>2, ChanIs, Zenon
  <2> QED BY <2>3, EmptySeq, Zenon DEF Init, Ends, Channel!Init
<1>2. Spec => []PipeInv
  BY PipeInit, PipeNext, PTL DEF Spec
<1>3. Init /\ [][Next]_vars /\ []PipeInv => Channel!Init /\ [][Channel!Next]_<<Chan, open, got>>
  BY <1>1, ChannelStep, PTL
<1> QED BY <1>2, <1>3, Zenon DEF Spec, IsChannel, Channel!Spec
=============================================================================
