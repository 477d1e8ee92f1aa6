------------------------------- MODULE MCRSDL -------------------------------
(* RSDL for TLC: bounds on what the processes do, and a view. *)
EXTENDS RSDL, FiniteSets

\* The quantum, level and place of an UNUSED slot are dead: allocproc() and
\* priofork() overwrite them before anything reads them.
Dead(f, v) == [p \in Procs |-> IF state[p] = "UNUSED" THEN v ELSE f[p]]

View == <<state, Dead(ticksLeft, 0), Dead(defaultLevel, 0), parent, chan, killed,
          Dead(kpc, "user"), child, queue, levelTicks, active, lock, pc, cproc,
          cqueue, reg, swapLevel>>

\* State constraints.
FewKills == Cardinality({p \in Procs : killed[p]}) <= 1
KillLast == \A p \in Procs : killed[p] => p = NPROC - 1 /\ state[p] # "UNUSED"
NoKills == \A p \in Procs : ~killed[p]
NoWaits == \A p \in Procs : kpc[p] # "wait"
NoExits == \A p \in Procs : kpc[p] # "exit"
LastExits == \A p \in Procs : kpc[p] = "exit" => p = NPROC - 1

\* On several CPUs the unlocked decrements can drive a level's quantum down
\* without end.
MaxOverdraft == 1
TicksBound == \A q \in Queues : levelTicks[q] >= -MaxOverdraft
=============================================================================
