---------------------------- MODULE MCRSDLHistory ----------------------------
(* RSDLHistory for TLC, bounded as in MCRSDL. *)
EXTENDS RSDLHistory

Dead(f, v) == [p \in Procs |-> IF state[p] = "UNUSED" THEN v ELSE f[p]]

View == <<state, Dead(ticksLeft, 0), Dead(defaultLevel, 0), parent, chan, killed,
          Dead(kpc, "user"), child, queue, levelTicks, active, lock, pc, cproc,
          cqueue, reg, swapLevel, Dead(used, 0), before>>

NoKills == \A p \in Procs : ~killed[p]
NoWaits == \A p \in Procs : kpc[p] # "wait"
NoExits == \A p \in Procs : kpc[p] # "exit"
=============================================================================
