------------------------- MODULE BufferCacheProofs -------------------------
(***************************************************************************)
(* The buffer cache is coherent and exclusive and loses no wakeup, for any *)
(* number of processes, buffers and blocks.                                *)
(***************************************************************************)
EXTENDS BufferCache, FiniteSetTheorems, TLAPS

-----------------------------------------------------------------------------
(* What the invariant says of one process and one buffer *)

LEMMA Distinctness ==
  None \notin Procs /\ None \notin Bufs /\ None \notin Blocks /\ Read \notin Values /\ Idle # Read
  /\ Idle \notin Values
BY CacheAssumption, Zenon DEF CacheAssumption

LEMMA UserFacts ==
  ASSUME CacheInv, NEW p \in Procs, pc[p] \notin {"idle", "panic"}
  PROVE  buf[p] \in Bufs /\ block[buf[p]] = want[p] /\ want[p] \in Blocks
<1>1. buf[p] \in Bufs \cup {None} /\ want[p] \in Blocks \cup {None}
  BY Zenon DEF CacheInv, TypeOK
<1>2. buf[p] # None /\ block[buf[p]] = want[p] /\ want[p] # None
  BY Zenon DEF CacheInv, ProcInv
<1> QED BY <1>1, <1>2, Zenon

\* The process that has the lock of its buffer is the only one that works on it.
LEMMA OwnerFacts ==
  ASSUME CacheInv, NEW p \in Procs, pc[p] \in InOwner
  PROVE  /\ buf[p] \in Bufs /\ owner[buf[p]] = p
         /\ block[buf[p]] = want[p] /\ want[p] \in Blocks
         /\ \A q \in Procs \ {p} : pc[q] \in InOwner => buf[q] # buf[p]
         /\ \A b \in Bufs : owner[b] = p => b = buf[p]
<1>1. pc[p] \notin {"idle", "panic"}
  BY Zenon DEF InOwner
<1>2. buf[p] \in Bufs /\ block[buf[p]] = want[p] /\ want[p] \in Blocks
  BY <1>1, UserFacts, Zenon
<1>3. owner[buf[p]] = p /\ \A q \in Procs : pc[q] \in InOwner => owner[buf[q]] = q
  BY Zenon DEF CacheInv, ProcInv
<1>4. \A b \in Bufs : owner[b] = p => b = buf[p]
  BY Distinctness, Zenon DEF CacheInv, BufInv
<1> QED BY <1>2, <1>3, <1>4, Zenon

\* A process outside the lock owns nothing.
LEMMA OutsiderFacts ==
  ASSUME CacheInv, NEW p \in Procs, pc[p] \notin InOwner
  PROVE  \A b \in Bufs : owner[b] # p
BY Distinctness, Zenon DEF CacheInv, BufInv

\* A request in the queue belongs to the owner of its buffer, who waits for it.
LEMMA QueuedFacts ==
  ASSUME CacheInv, NEW b \in Bufs, Queued(b)
  PROVE  /\ owner[b] \in Procs /\ pc[owner[b]] \in {"disk", "woken"} /\ buf[owner[b]] = b
         /\ b \in dirty \/ b \notin valid
<1>1. PICK i \in 1..Len(idequeue) : idequeue[i] = b
  BY Zenon DEF Queued
<1>2. owner[b] # None /\ pc[owner[b]] \in {"disk", "woken"}
  BY <1>1, Zenon DEF CacheInv, QueueInv
<1>3. owner[b] \in Procs
  BY <1>2, Zenon DEF CacheInv, TypeOK
<1>4. buf[owner[b]] = b
  BY <1>2, Zenon DEF CacheInv, BufInv
<1>5. ~Synced(b)
  BY <1>2, <1>3, <1>4, Zenon DEF CacheInv, ProcInv
<1> QED BY <1>2, <1>3, <1>4, <1>5, Zenon DEF Synced

LEMMA UsersFinite ==
  ASSUME TypeOK, NEW b
  PROVE  IsFiniteSet(Users(b)) /\ Cardinality(Users(b)) \in Nat
<1>1. IsFiniteSet(Procs) /\ Users(b) \subseteq Procs
  BY CacheAssumption, Zenon DEF CacheAssumption, Users
<1>2. IsFiniteSet(Users(b))
  BY <1>1, FS_Subset, Zenon
<1> QED BY <1>2, FS_CardinalityType, Zenon

\* A buffer without references: nobody uses it, owns it or has queued it.
LEMMA UnusedFacts ==
  ASSUME CacheInv, NEW b \in Bufs, refcnt[b] = 0
  PROVE  owner[b] = None /\ ~Queued(b) /\ \A p \in Procs : buf[p] # b
<1>1. Users(b) = {}
  BY UsersFinite, FS_EmptySet, Zenon DEF CacheInv, BufInv
<1>2. \A p \in Procs : buf[p] # b
  BY <1>1, Zenon DEF Users
<1>3. owner[b] = None
  BY <1>2 DEF CacheInv, TypeOK, BufInv
<1>4. ~Queued(b)
  BY <1>3, QueuedFacts, Distinctness, Zenon
<1> QED BY <1>2, <1>3, <1>4, Zenon

-----------------------------------------------------------------------------
(* Frames *)

LEMMA DataFrame ==
  ASSUME DataInv, UNCHANGED <<block, valid, dirty, data, disk, last>>
  PROVE  DataInv'
BY Zenon DEF DataInv

LEMMA QueueFrame ==
  ASSUME QueueInv, UNCHANGED <<idequeue, device>>,
         \A i \in 1..Len(idequeue) :
           /\ owner'[idequeue[i]] = owner[idequeue[i]]
           /\ pc'[owner[idequeue[i]]] \in {"disk", "woken"}
           /\ idestart(idequeue[i])' = idestart(idequeue[i]),
         idequeue \in Seq(Bufs)
  PROVE  QueueInv'
<1>1. idequeue # << >> => 1 \in 1..Len(idequeue) /\ Head(idequeue) = idequeue[1]
  OBVIOUS
<1>2. idequeue # << >> => idestart(Head(idequeue))' = idestart(Head(idequeue))
  BY <1>1, Zenon
<1>3. device' = IF idequeue' = << >> THEN Idle ELSE idestart(Head(idequeue))'
  BY <1>2, Zenon DEF QueueInv
<1> QED BY <1>3 DEF QueueInv

\* The references, when nobody takes or drops one.
LEMMA UsersSame ==
  ASSUME buf' = buf, NEW b
  PROVE  Users(b)' = Users(b)
BY Zenon DEF Users

LEMMA BufFrame ==
  ASSUME BufInv, TypeOK, UNCHANGED <<lru, block, refcnt, buf>>, dirty' \subseteq valid',
         \A b \in Bufs : owner'[b] # None => buf[owner'[b]] = b /\ pc'[owner'[b]] \in InOwner
  PROVE  BufInv'
BY UsersSame DEF BufInv

\* No lock changes hands, and its owner stays at work.
LEMMA OwnersStay ==
  ASSUME TypeOK, BufInv, owner' = owner, \A q \in Procs : pc[q] \in InOwner => pc'[q] \in InOwner
  PROVE  \A c \in Bufs : owner'[c] # None => buf[owner'[c]] = c /\ pc'[owner'[c]] \in InOwner
<1> SUFFICES ASSUME NEW c \in Bufs, owner[c] # None
             PROVE  buf[owner[c]] = c /\ pc'[owner[c]] \in InOwner
  BY Zenon
<1>1. owner[c] \in Procs
  BY Zenon DEF TypeOK
<1>2. buf[owner[c]] = c /\ pc[owner[c]] \in InOwner
  BY Zenon DEF BufInv
<1> QED BY <1>1, <1>2, Zenon

-----------------------------------------------------------------------------
(* The steps that move one process and change no flag *)

\* kill() makes a sleeper test its condition again.
LEMMA killInv ==
  ASSUME CacheInv, NEW p \in Procs, kill(p)
  PROVE  CacheInv'
<1> USE DEF kill, listVars, ideVars
<1>1. TypeOK'
  BY Zenon DEF CacheInv, TypeOK, Places
<1>2. /\ pc'[p] = IF pc[p] = "waits" THEN "lock" ELSE "woken"
      /\ \A q \in Procs \ {p} : pc'[q] = pc[q]
      /\ pc[p] = "waits" \/ pc[p] = "disk"
  BY Zenon DEF CacheInv, TypeOK
<1>3. UNCHANGED <<lru, block, refcnt, valid, dirty, data, owner, idequeue, device, disk, buf, want, last>>
  BY Zenon
<1> HIDE DEF kill
<1>4. ProcInv'
  <2>1. \A b : Queued(b)' = Queued(b) /\ Synced(b)' = Synced(b)
    BY <1>3, Zenon DEF Queued, Synced
  <2>2. pc'[p] \in InOwner => pc[p] \in InOwner
    BY <1>2, Zenon DEF InOwner
  <2> QED BY <1>2, <1>3, <2>1, <2>2 DEF CacheInv, ProcInv
<1>5. BufInv'
  <2>1. \A q \in Procs : pc[q] \in InOwner => pc'[q] \in InOwner
    BY <1>2, Zenon DEF InOwner
  <2>2. \A b \in Bufs : owner'[b] # None => buf[owner'[b]] = b /\ pc'[owner'[b]] \in InOwner
    BY <1>3, <2>1, OwnersStay, Zenon DEF CacheInv
  <2> QED BY <1>3, <2>2, BufFrame, Zenon DEF CacheInv, BufInv
<1>6. QueueInv'
  <2>0. \A i \in 1..Len(idequeue) : /\ owner[idequeue[i]] # None
                                     /\ pc[owner[idequeue[i]]] \in {"disk", "woken"}
    BY Zenon DEF CacheInv, QueueInv
  <2>a. \A i \in 1..Len(idequeue) : idequeue[i] \in Bufs /\ owner[idequeue[i]] \in Procs
    BY <2>0 DEF CacheInv, TypeOK
  <2>b. \A b : idestart(b)' = idestart(b)
    BY <1>3, Zenon DEF idestart
  <2>c. \A q \in Procs : pc[q] \in {"disk", "woken"} => pc'[q] \in {"disk", "woken"}
    BY <1>2, Zenon
  <2>1. \A i \in 1..Len(idequeue) :
          /\ owner'[idequeue[i]] = owner[idequeue[i]]
          /\ pc'[owner[idequeue[i]]] \in {"disk", "woken"}
          /\ idestart(idequeue[i])' = idestart(idequeue[i])
    BY <1>3, <2>0, <2>a, <2>b, <2>c, Zenon
  <2> QED BY <1>3, <2>1, QueueFrame, Zenon DEF CacheInv, TypeOK
<1>7. DataInv'
  BY <1>3, DataFrame, Zenon DEF CacheInv
<1> QED BY <1>1, <1>4, <1>5, <1>6, <1>7, Zenon DEF CacheInv

\* Awake in iderw(), the process goes on when its request has been served.
LEMMA iderw_loopInv ==
  ASSUME CacheInv, NEW p \in Procs, iderw_loop(p)
  PROVE  CacheInv'
<1> USE DEF iderw_loop, listVars, ideVars
<1>1. TypeOK'
  BY Zenon DEF CacheInv, TypeOK, Places
<1>2. /\ pc'[p] = IF Synced(buf[p]) THEN "hold" ELSE "disk"
      /\ \A q \in Procs \ {p} : pc'[q] = pc[q]
      /\ pc[p] = "woken"
  BY Zenon DEF CacheInv, TypeOK
<1>3. UNCHANGED <<lru, block, refcnt, valid, dirty, data, owner, idequeue, device, disk, buf, want, last>>
  BY Zenon
<1> HIDE DEF iderw_loop
<1>4. Queued(buf[p]) <=> ~Synced(buf[p])
  BY <1>2, Zenon DEF CacheInv, ProcInv
<1>5. ProcInv'
  <2>1. \A b : Queued(b)' = Queued(b) /\ Synced(b)' = Synced(b)
    BY <1>3, Zenon DEF Queued, Synced
  <2>2. pc[p] \in InOwner
    BY <1>2, Zenon DEF InOwner
  <2>3. pc'[p] = "hold" => buf[p] \in valid
    BY <1>2, Zenon DEF Synced
  <2> QED BY <1>2, <1>3, <1>4, <2>1, <2>2, <2>3 DEF CacheInv, ProcInv
<1>6. BufInv'
  <2>1. \A q \in Procs : pc[q] \in InOwner => pc'[q] \in InOwner
    BY <1>2, Zenon DEF InOwner
  <2>2. \A b \in Bufs : owner'[b] # None => buf[owner'[b]] = b /\ pc'[owner'[b]] \in InOwner
    BY <1>3, <2>1, OwnersStay, Zenon DEF CacheInv
  <2> QED BY <1>3, <2>2, BufFrame, Zenon DEF CacheInv, BufInv
<1>7. QueueInv'
  <2>1. ASSUME NEW i \in 1..Len(idequeue)
        PROVE  /\ owner'[idequeue[i]] = owner[idequeue[i]]
               /\ pc'[owner[idequeue[i]]] \in {"disk", "woken"}
               /\ idestart(idequeue[i])' = idestart(idequeue[i])
    <3>1. idequeue[i] \in Bufs /\ Queued(idequeue[i])
      BY DEF CacheInv, TypeOK, Queued
    <3>2. /\ owner[idequeue[i]] \in Procs /\ buf[owner[idequeue[i]]] = idequeue[i]
          /\ pc[owner[idequeue[i]]] \in {"disk", "woken"}
      BY <3>1, QueuedFacts, Zenon
    <3>3. pc'[owner[idequeue[i]]] \in {"disk", "woken"}
      BY <1>2, <1>4, <3>1, <3>2, Zenon
    <3> QED BY <1>3, <3>3, Zenon DEF idestart
  <2> QED BY <1>3, <2>1, QueueFrame, Zenon DEF CacheInv, TypeOK
<1>8. DataInv'
  BY <1>3, DataFrame, Zenon DEF CacheInv
<1> QED BY <1>1, <1>5, <1>6, <1>7, <1>8, Zenon DEF CacheInv

LEMMA acquiresleepInv ==
  ASSUME CacheInv, NEW p \in Procs, acquiresleep(p)
  PROVE  CacheInv'
<1> DEFINE b == buf[p]
<1>1. pc[p] = "lock" /\ b \in Bufs /\ pc[p] \notin InOwner /\ TypeOK
  BY UserFacts, Zenon DEF acquiresleep, InOwner, CacheInv
<1>2. UNCHANGED <<lru, block, refcnt, valid, dirty, data, idequeue, device, disk, buf, want, last>>
  BY Zenon DEF acquiresleep, listVars, ideVars
<1>3. \/ /\ owner[b] = None /\ owner' = [owner EXCEPT ![b] = p]
         /\ pc' = [pc EXCEPT ![p] = IF b \in valid THEN "hold" ELSE "rw"]
      \/ owner[b] # None /\ owner' = owner /\ pc' = [pc EXCEPT ![p] = "waits"]
  BY Zenon DEF acquiresleep, Free, bread
<1> HIDE DEF b
<1>4. TypeOK'
  <2>1. \E l \in {"hold", "rw", "waits"} : pc' = [pc EXCEPT ![p] = l]
    BY <1>3, Zenon
  <2>2. pc' \in [Procs -> Places]
    BY <1>1, <2>1 DEF TypeOK, Places
  <2>3. owner' \in [Bufs -> Procs \cup {None}]
    BY <1>1, <1>3 DEF TypeOK
  <2> QED BY <1>1, <1>2, <2>2, <2>3, Zenon DEF TypeOK
<1>5. /\ \/ /\ owner[b] = None /\ owner'[b] = p
            /\ pc'[p] \in InOwner /\ pc'[p] \in {"hold", "rw"} /\ (pc'[p] = "hold" <=> b \in valid)
         \/ owner[b] # None /\ owner'[b] = owner[b] /\ pc'[p] = "waits"
      /\ \A c \in Bufs \ {b} : owner'[c] = owner[c]
      /\ \A q \in Procs \ {p} : pc'[q] = pc[q]
  BY <1>1, <1>3 DEF TypeOK, InOwner
<1>6. ProcInv'
  <2>1. \A c : Queued(c)' = Queued(c) /\ Synced(c)' = Synced(c)
    BY <1>2, Zenon DEF Queued, Synced
  <2>2. ASSUME NEW q \in Procs \ {p}
        PROVE  /\ pc[q] \in InOwner => owner'[buf[q]] = q
               /\ pc[q] = "waits" => owner'[buf[q]] # None
    <3>1. pc[q] \notin {"idle", "panic"} => buf[q] \in Bufs
      BY UserFacts, Zenon
    <3>2. pc[q] \in InOwner => pc[q] \notin {"idle", "panic"}
      BY Zenon DEF InOwner
    <3>3. pc[q] \in InOwner => owner[buf[q]] = q
      BY Zenon DEF CacheInv, ProcInv
    <3>4. pc[q] = "waits" => owner[buf[q]] # None
      BY Zenon DEF CacheInv, ProcInv
    <3> QED BY <1>5, <3>1, <3>2, <3>3, <3>4, Distinctness, Zenon
  <2>3. pc'[p] \notin {"idle", "panic", "disk", "woken"} /\ pc[p] \notin {"idle", "panic"}
    BY <1>1, <1>5, Zenon
  <2>4. pc'[p] \in InOwner => owner'[b] = p
    BY <1>5, Zenon DEF InOwner
  <2> QED BY <1>2, <1>5, <2>1, <2>2, <2>3, <2>4, Distinctness DEF CacheInv, ProcInv, b
<1>7. BufInv'
  <2>1. \A c \in Bufs : owner[c] # p
    BY <1>1, OutsiderFacts, Zenon
  <2>2. ASSUME NEW c \in Bufs, owner'[c] # None
        PROVE  buf[owner'[c]] = c /\ pc'[owner'[c]] \in InOwner
    <3>1. CASE c = b /\ owner[b] = None
      BY <1>5, <3>1, Zenon DEF b
    <3>2. CASE owner'[c] = owner[c]
      <4>1. buf[owner[c]] = c /\ pc[owner[c]] \in InOwner /\ owner[c] \in Procs
        BY <1>1, <2>2, <3>2 DEF CacheInv, BufInv, TypeOK
      <4> QED BY <1>5, <2>1, <3>2, <4>1, Zenon
    <3> QED BY <1>5, <2>2, <3>1, <3>2, Zenon
  <2> QED BY <1>1, <1>2, <2>2, BufFrame, Zenon DEF CacheInv, BufInv
<1>8. QueueInv'
  <2>1. ASSUME NEW i \in 1..Len(idequeue)
        PROVE  /\ owner'[idequeue[i]] = owner[idequeue[i]]
               /\ pc'[owner[idequeue[i]]] \in {"disk", "woken"}
               /\ idestart(idequeue[i])' = idestart(idequeue[i])
    <3>1. idequeue[i] \in Bufs /\ Queued(idequeue[i])
      BY <1>1 DEF TypeOK, Queued
    <3>2. owner[idequeue[i]] \in Procs /\ pc[owner[idequeue[i]]] \in {"disk", "woken"}
      BY <3>1, QueuedFacts, Zenon
    <3>3. owner'[idequeue[i]] = owner[idequeue[i]]
      BY <1>5, <3>1, <3>2, Distinctness, Zenon
    <3>4. pc'[owner[idequeue[i]]] \in {"disk", "woken"}
      BY <1>1, <1>5, <3>2, Zenon
    <3> QED BY <1>2, <3>3, <3>4, Zenon DEF idestart
  <2> QED BY <1>1, <1>2, <2>1, QueueFrame, Zenon DEF CacheInv, TypeOK
<1>9. DataInv'
  BY <1>2, DataFrame, Zenon DEF CacheInv
<1> QED BY <1>4, <1>6, <1>7, <1>8, <1>9, Zenon DEF CacheInv

LEMMA releasesleepInv ==
  ASSUME CacheInv, NEW p \in Procs, releasesleep(p)
  PROVE  CacheInv'
<1> DEFINE b == buf[p]
<1>1. pc[p] = "hold" /\ pc[p] \in InOwner /\ TypeOK
  BY Zenon DEF releasesleep, InOwner, CacheInv
<1>2. UNCHANGED <<lru, block, refcnt, valid, dirty, data, idequeue, device, disk, buf, want, last>>
  BY Zenon DEF releasesleep, listVars, ideVars
<1>3. /\ b \in Bufs /\ owner[b] = p
      /\ \A q \in Procs \ {p} : pc[q] \in InOwner => buf[q] # b
      /\ \A c \in Bufs : owner[c] = p => c = b
  BY <1>1, OwnerFacts, Zenon
<1>4. /\ owner' = [owner EXCEPT ![b] = None]
      /\ pc' = [wakeup_lock(b) EXCEPT ![p] = "release"]
  BY Zenon DEF releasesleep
<1> HIDE DEF b
<1>5. /\ owner'[b] = None /\ \A c \in Bufs \ {b} : owner'[c] = owner[c]
      /\ pc'[p] = "release"
      /\ \A q \in Procs \ {p} :
           \/ pc'[q] = pc[q] /\ (pc[q] = "waits" => buf[q] # b)
           \/ pc[q] = "waits" /\ pc'[q] = "lock"
  BY <1>1, <1>3, <1>4, Zenon DEF TypeOK, wakeup_lock
<1>6. TypeOK'
  <2>1. owner' \in [Bufs -> Procs \cup {None}]
    BY <1>1, <1>4, Zenon DEF TypeOK
  <2>2. wakeup_lock(b) \in [Procs -> Places]
    BY <1>1, Zenon DEF TypeOK, Places, wakeup_lock
  <2>3. pc' \in [Procs -> Places]
    BY <1>4, <2>2, Zenon DEF Places
  <2> QED BY <1>1, <1>2, <2>1, <2>3, Zenon DEF TypeOK
<1>7. ProcInv'
  <2>1. \A c : Queued(c)' = Queued(c) /\ Synced(c)' = Synced(c)
    BY <1>2, Zenon DEF Queued, Synced
  <2>2. ASSUME NEW q \in Procs \ {p}
        PROVE  /\ pc'[q] \in InOwner => owner'[buf[q]] = q /\ pc'[q] = pc[q]
               /\ pc'[q] = "waits" => owner'[buf[q]] # None /\ pc'[q] = pc[q]
    <3>1. pc[q] \notin {"idle", "panic"} => buf[q] \in Bufs
      BY UserFacts, Zenon
    <3>2. CASE pc'[q] \in InOwner
      <4>1. pc[q] \in InOwner /\ pc'[q] = pc[q] /\ pc[q] \notin {"idle", "panic", "waits"}
        BY <1>5, <3>2, Zenon DEF InOwner
      <4>2. owner[buf[q]] = q /\ buf[q] # b
        BY <1>3, <4>1, Zenon DEF CacheInv, ProcInv
      <4>3. pc'[q] # "waits"
        BY <4>1, Zenon
      <4> QED BY <1>5, <3>1, <4>1, <4>2, <4>3, Zenon
    <3>3. CASE pc'[q] = "waits"
      <4>1. pc[q] = "waits" /\ buf[q] # b
        BY <1>5, <3>3, Zenon
      <4>2. owner[buf[q]] # None
        BY <4>1, Zenon DEF CacheInv, ProcInv
      <4>3. pc'[q] \notin InOwner
        BY <3>3, Zenon DEF InOwner
      <4> QED BY <1>5, <3>1, <3>3, <4>1, <4>2, <4>3, Zenon
    <3> QED BY <3>2, <3>3, Zenon
  <2>3. pc'[p] \notin InOwner /\ pc[p] \notin {"idle", "panic"}
    BY <1>1, <1>5, Zenon DEF InOwner
  <2>4. \A q \in Procs : pc'[q] \in {"hold", "rw", "disk", "woken"} => pc'[q] \in InOwner
    BY Zenon DEF InOwner
  <2>5. \A q \in Procs : pc'[q] \in {"idle", "panic"} <=> pc[q] \in {"idle", "panic"}
    BY <1>5, <2>3, Zenon
  <2> QED BY <1>2, <1>5, <2>1, <2>2, <2>3, <2>4, <2>5 DEF CacheInv, ProcInv
<1>8. BufInv'
  <2>1. ASSUME NEW c \in Bufs, owner'[c] # None
        PROVE  buf[owner'[c]] = c /\ pc'[owner'[c]] \in InOwner
    <3>1. c # b /\ owner'[c] = owner[c]
      BY <1>5, <2>1, Zenon
    <3>2. owner[c] # p /\ owner[c] \in Procs
      BY <1>1, <1>3, <2>1, <3>1, Zenon DEF TypeOK
    <3>3. buf[owner[c]] = c /\ pc[owner[c]] \in InOwner
      BY <2>1, <3>1, Zenon DEF CacheInv, BufInv
    <3>4. pc[owner[c]] # "waits"
      BY <3>3, Zenon DEF InOwner
    <3> QED BY <1>5, <3>1, <3>2, <3>3, <3>4, Zenon
  <2> QED BY <1>1, <1>2, <2>1, BufFrame, Zenon DEF CacheInv, BufInv
<1>9. QueueInv'
  <2>1. ASSUME NEW i \in 1..Len(idequeue)
        PROVE  /\ owner'[idequeue[i]] = owner[idequeue[i]]
               /\ pc'[owner[idequeue[i]]] \in {"disk", "woken"}
               /\ idestart(idequeue[i])' = idestart(idequeue[i])
    <3>1. idequeue[i] \in Bufs /\ Queued(idequeue[i])
      BY <1>1 DEF TypeOK, Queued
    <3>2. owner[idequeue[i]] \in Procs /\ pc[owner[idequeue[i]]] \in {"disk", "woken"}
      BY <3>1, QueuedFacts, Zenon
    <3>3. idequeue[i] # b /\ owner[idequeue[i]] # p
      BY <1>1, <1>3, <3>2, Zenon
    <3>4. owner'[idequeue[i]] = owner[idequeue[i]] /\ pc'[owner[idequeue[i]]] \in {"disk", "woken"}
      BY <1>5, <3>1, <3>2, <3>3, Zenon
    <3> QED BY <1>2, <3>4, Zenon DEF idestart
  <2> QED BY <1>1, <1>2, <2>1, QueueFrame, Zenon DEF CacheInv, TypeOK
<1>10. DataInv'
  BY <1>2, DataFrame, Zenon DEF CacheInv
<1> QED BY <1>6, <1>7, <1>8, <1>9, <1>10, Zenon DEF CacheInv

-----------------------------------------------------------------------------
(* References *)

LEMMA SeqOf ==
  ASSUME NEW S, NEW n \in Nat, NEW f \in [1..n -> S]
  PROVE  f \in Seq(S) /\ Len(f) = n
OBVIOUS

\* The least recently used list keeps every buffer.
LEMMA MoveToFrontFacts ==
  ASSUME lru \in Seq(Bufs), NEW b \in Bufs, \A c \in Bufs : \E i \in 1..Len(lru) : lru[i] = c
  PROVE  /\ MoveToFront(b) \in Seq(Bufs)
         /\ \A c \in Bufs : \E i \in 1..Len(MoveToFront(b)) : MoveToFront(b)[i] = c
<1> DEFINE n == Len(lru)
           at == CHOOSE i \in 1..n : lru[i] = b
           new == [i \in 1..n |-> IF i = 1 THEN b ELSE IF i <= at THEN lru[i - 1] ELSE lru[i]]
<1>0. n \in Nat /\ \A i \in 1..n : lru[i] \in Bufs
  OBVIOUS
<1>1. at \in 1..n /\ lru[at] = b
  BY Zenon
<1>2. MoveToFront(b) = new
  BY Zenon DEF MoveToFront
<1> HIDE DEF at
<1>3. \A i \in 1..n : new[i] \in Bufs
  <2> SUFFICES ASSUME NEW i \in 1..n PROVE new[i] \in Bufs
    BY Zenon
  <2>1. i # 1 => i - 1 \in 1..n
    BY <1>0
  <2> QED BY <1>0, <2>1, Zenon
<1>4. new \in Seq(Bufs) /\ Len(new) = n
  <2>1. new \in [1..n -> Bufs]
    BY <1>3, Zenon
  <2> HIDE DEF new, n
  <2> QED BY <1>0, <2>1, SeqOf, Zenon
<1>5. ASSUME NEW c \in Bufs PROVE \E i \in 1..n : new[i] = c
  <2>1. CASE c = b
    <3>1. 1 \in 1..n /\ new[1] = b
      BY <1>0, <1>1
    <3> QED BY <2>1, <3>1, Zenon
  <2>2. CASE c # b
    <3>1. PICK i \in 1..n : lru[i] = c
      BY Zenon
    <3>2. i # at
      BY <1>1, <2>2, <3>1, Zenon
    <3>3. CASE i < at
      <4>0. i \in Nat /\ i >= 1 /\ at \in Nat /\ at <= n
        BY <1>0, <1>1
      <4> HIDE DEF n
      <4>1. i + 1 \in 1..n /\ i + 1 # 1 /\ i + 1 <= at /\ (i + 1) - 1 = i
        BY <1>0, <3>3, <4>0
      <4>2. new[i + 1] = lru[i]
        BY <4>1, Zenon
      <4> QED BY <3>1, <4>1, <4>2, Zenon
    <3>4. CASE i > at
      <4>1. i # 1 /\ ~(i <= at)
        BY <1>0, <1>1, <3>4
      <4>2. new[i] = lru[i]
        BY <4>1, Zenon
      <4> QED BY <3>1, <4>2, Zenon
    <3> QED BY <1>0, <1>1, <3>2, <3>3, <3>4
  <2> QED BY <2>1, <2>2, Zenon
<1> HIDE DEF new
<1> QED BY <1>2, <1>4, <1>5, Zenon

LEMMA UsersAdd ==
  ASSUME TypeOK, NEW p \in Procs, NEW b \in Bufs, buf[p] = None,
         buf'[p] = b, \A q \in Procs \ {p} : buf'[q] = buf[q]
  PROVE  /\ Cardinality(Users(b)') = Cardinality(Users(b)) + 1
         /\ \A c \in Bufs \ {b} : Users(c)' = Users(c)
<1>1. Users(b)' = Users(b) \cup {p} /\ p \notin Users(b)
  BY Distinctness, Zenon DEF Users
<1>2. IsFiniteSet(Users(b))
  BY UsersFinite, Zenon
<1>3. Cardinality(Users(b)') = Cardinality(Users(b)) + 1
  BY <1>1, <1>2, FS_AddElement, Zenon
<1>4. \A c \in Bufs \ {b} : Users(c)' = Users(c)
  BY Distinctness, Zenon DEF Users
<1> QED BY <1>3, <1>4, Zenon

LEMMA UsersRemove ==
  ASSUME TypeOK, NEW p \in Procs, NEW b \in Bufs, buf[p] = b,
         buf'[p] = None, \A q \in Procs \ {p} : buf'[q] = buf[q]
  PROVE  /\ Cardinality(Users(b)') = Cardinality(Users(b)) - 1 /\ Cardinality(Users(b)) \in Nat \ {0}
         /\ \A c \in Bufs \ {b} : Users(c)' = Users(c)
<1>1. Users(b)' = Users(b) \ {p} /\ p \in Users(b)
  BY Distinctness, Zenon DEF Users
<1>2. IsFiniteSet(Users(b)) /\ Cardinality(Users(b)) \in Nat
  BY UsersFinite, Zenon
<1>3. Cardinality(Users(b)') = Cardinality(Users(b)) - 1
  BY <1>1, <1>2, FS_RemoveElement, Zenon
<1>4. Cardinality(Users(b)) # 0
  BY <1>1, <1>2, FS_EmptySet, Zenon
<1>5. \A c \in Bufs \ {b} : Users(c)' = Users(c)
  BY Distinctness, Zenon DEF Users
<1> QED BY <1>2, <1>3, <1>4, <1>5, Zenon

LEMMA brelseInv ==
  ASSUME CacheInv, NEW p \in Procs, brelse(p)
  PROVE  CacheInv'
<1>0. buf[p] \in Bufs
  BY UserFacts, Zenon DEF brelse
<1> PICK b \in Bufs : b = buf[p]
  BY <1>0, Zenon
<1>1. pc[p] = "release" /\ pc[p] \notin InOwner /\ TypeOK /\ BufInv
  BY Zenon DEF brelse, InOwner, CacheInv
<1>2. /\ refcnt' = [refcnt EXCEPT ![b] = refcnt[b] - 1]
      /\ lru' = lru \/ lru' = MoveToFront(b)
      /\ pc' = [pc EXCEPT ![p] = "idle"]
      /\ buf' = [buf EXCEPT ![p] = None]
      /\ want' = [want EXCEPT ![p] = None]
      /\ UNCHANGED <<block, valid, dirty, data, owner, idequeue, device, disk, last>>
  BY Zenon DEF brelse, unref, ideVars
<1>3. /\ pc'[p] = "idle" /\ \A q \in Procs \ {p} : pc'[q] = pc[q]
      /\ buf'[p] = None /\ \A q \in Procs \ {p} : buf'[q] = buf[q]
      /\ want'[p] = None /\ \A q \in Procs \ {p} : want'[q] = want[q]
  BY <1>1, <1>2, Zenon DEF TypeOK
<1>4. /\ Cardinality(Users(b)') = Cardinality(Users(b)) - 1
      /\ Cardinality(Users(b)) \in Nat \ {0}
      /\ \A c \in Bufs \ {b} : Users(c)' = Users(c)
  BY <1>1, <1>3, UsersRemove, Zenon
<1>5. lru' \in Seq(Bufs) /\ \A c \in Bufs : \E i \in 1..Len(lru') : lru'[i] = c
  <2>1. lru \in Seq(Bufs) /\ \A c \in Bufs : \E i \in 1..Len(lru) : lru[i] = c
    BY <1>1, Zenon DEF TypeOK, BufInv
  <2>2. /\ MoveToFront(b) \in Seq(Bufs)
        /\ \A c \in Bufs : \E i \in 1..Len(MoveToFront(b)) : MoveToFront(b)[i] = c
    BY <1>1, <2>1, MoveToFrontFacts, Zenon
  <2> QED BY <1>2, <2>1, <2>2, Zenon
<1>6. /\ refcnt' \in [Bufs -> Nat] /\ refcnt'[b] = Cardinality(Users(b)')
      /\ \A c \in Bufs \ {b} : refcnt'[c] = refcnt[c]
  <2>1. refcnt[b] = Cardinality(Users(b))
    BY <1>1, Zenon DEF BufInv
  <2>2. refcnt[b] - 1 \in Nat
    BY <1>4, <2>1
  <2> QED BY <1>1, <1>2, <1>4, <2>1, <2>2, Zenon DEF TypeOK
<1>7. TypeOK'
  <2>1. /\ pc' \in [Procs -> Places] /\ buf' \in [Procs -> Bufs \cup {None}]
        /\ want' \in [Procs -> Blocks \cup {None}]
    BY <1>1, <1>2, Zenon DEF TypeOK, Places
  <2> QED BY <1>1, <1>2, <1>5, <1>6, <2>1, Zenon DEF TypeOK
<1>8. ProcInv'
  <2>1. \A c : Queued(c)' = Queued(c) /\ Synced(c)' = Synced(c)
    BY <1>2, Zenon DEF Queued, Synced
  <2>2. "idle" \notin InOwner
    BY Zenon DEF InOwner
  <2>3. ASSUME NEW q \in Procs
        PROVE  /\ buf'[q] = None <=> pc'[q] \in {"idle", "panic"}
               /\ buf'[q] # None => block'[buf'[q]] = want'[q] /\ want'[q] # None
               /\ pc'[q] \in InOwner => owner'[buf'[q]] = q
               /\ pc'[q] = "waits" => owner'[buf'[q]] # None
               /\ pc'[q] = "hold" => buf'[q] \in valid'
               /\ pc'[q] = "rw" => buf'[q] \in dirty' \/ buf'[q] \notin valid'
               /\ pc'[q] \in {"disk", "woken"} => (Queued(buf[q])' <=> ~Synced(buf[q])')
               /\ pc'[q] = "disk" => Queued(buf[q])'
    <3>1. CASE q = p
      BY <1>3, <2>2, <3>1, Zenon
    <3>2. CASE q # p
      <4>1. pc'[q] = pc[q] /\ buf'[q] = buf[q] /\ want'[q] = want[q]
        BY <1>3, <3>2, Zenon
      <4>2. (Queued(buf[q])' <=> Queued(buf[q])) /\ (Synced(buf[q])' <=> Synced(buf[q]))
        BY <2>1, <4>1, Zenon
      <4>3. UNCHANGED <<block, owner, valid, dirty>>
        BY <1>2, Zenon
      <4> QED BY <4>1, <4>2, <4>3 DEF CacheInv, ProcInv
    <3> QED BY <3>1, <3>2, Zenon
  <2> QED BY <2>3, Zenon DEF ProcInv
<1>9. BufInv'
  <2>1. \A c \in Bufs : owner[c] # p
    BY <1>1, OutsiderFacts, Zenon
  <2>2. ASSUME NEW c \in Bufs
        PROVE  /\ refcnt'[c] = Cardinality(Users(c)')
               /\ owner'[c] # None => buf'[owner'[c]] = c /\ pc'[owner'[c]] \in InOwner
    <3>1. refcnt'[c] = Cardinality(Users(c)')
      BY <1>1, <1>4, <1>6 DEF BufInv
    <3>2. owner[c] # None => owner[c] \in Procs \ {p} /\ buf[owner[c]] = c /\ pc[owner[c]] \in InOwner
      BY <1>1, <2>1 DEF TypeOK, BufInv
    <3> QED BY <1>2, <1>3, <3>1, <3>2
  <2>3. /\ dirty' \subseteq valid'
        /\ \A c, d \in Bufs : block'[c] = block'[d] /\ block'[c] # None => c = d
    BY <1>1, <1>2, Zenon DEF BufInv
  <2> QED BY <1>5, <2>2, <2>3, Zenon DEF BufInv
<1>10. QueueInv'
  <2>1. ASSUME NEW i \in 1..Len(idequeue)
        PROVE  /\ owner'[idequeue[i]] = owner[idequeue[i]]
               /\ pc'[owner[idequeue[i]]] \in {"disk", "woken"}
               /\ idestart(idequeue[i])' = idestart(idequeue[i])
    <3>1. idequeue[i] \in Bufs /\ Queued(idequeue[i])
      BY <1>1 DEF TypeOK, Queued
    <3>2. owner[idequeue[i]] \in Procs /\ pc[owner[idequeue[i]]] \in {"disk", "woken"}
      BY <3>1, QueuedFacts, Zenon
    <3>3. pc'[owner[idequeue[i]]] \in {"disk", "woken"}
      BY <1>1, <1>3, <3>2, Zenon
    <3> QED BY <1>2, <3>3, Zenon DEF idestart
  <2> QED BY <1>1, <1>2, <2>1, QueueFrame, Zenon DEF CacheInv, TypeOK
<1>11. DataInv'
  BY <1>2, DataFrame, Zenon DEF CacheInv
<1> QED BY <1>7, <1>8, <1>9, <1>10, <1>11, Zenon DEF CacheInv

\* Process p takes a reference to buffer b, whose block is now blk.
Takes(p, blk, b) ==
  /\ pc[p] = "idle" /\ pc' = [pc EXCEPT ![p] = "lock"]
  /\ want' = [want EXCEPT ![p] = blk] /\ buf' = [buf EXCEPT ![p] = b]
  /\ refcnt'[b] = refcnt[b] + 1 /\ refcnt' \in [Bufs -> Nat]
  /\ \A c \in Bufs \ {b} : refcnt'[c] = refcnt[c]
  /\ block'[b] = blk /\ block' \in [Bufs -> Blocks \cup {None}]
  /\ \A c \in Bufs \ {b} : block'[c] = block[c] /\ (c \in valid' <=> c \in valid)
  /\ block' = block \/ ~\E c \in Bufs : block[c] = blk
  /\ \A q \in Procs : buf[q] = b => block'[b] = block[b] /\ (b \in valid' <=> b \in valid)
  /\ valid' \subseteq Bufs /\ dirty' = dirty /\ dirty' \subseteq valid'
  /\ UNCHANGED <<lru, data, owner, idequeue, device, disk, last>>

LEMMA TakesInv ==
  ASSUME CacheInv, NEW p \in Procs, NEW blk \in Blocks, NEW b \in Bufs, Takes(p, blk, b), DataInv'
  PROVE  CacheInv'
<1> USE DEF Takes
<1>0. TypeOK /\ BufInv /\ ProcInv /\ buf[p] = None /\ pc[p] = "idle" /\ pc[p] \notin InOwner
  BY Zenon DEF CacheInv, ProcInv, InOwner
<1>1. /\ pc'[p] = "lock" /\ \A q \in Procs \ {p} : pc'[q] = pc[q]
      /\ buf'[p] = b /\ \A q \in Procs \ {p} : buf'[q] = buf[q]
      /\ want'[p] = blk /\ \A q \in Procs \ {p} : want'[q] = want[q]
  BY <1>0, Zenon DEF TypeOK
<1>2. /\ Cardinality(Users(b)') = Cardinality(Users(b)) + 1
      /\ \A c \in Bufs \ {b} : Users(c)' = Users(c)
  BY <1>0, <1>1, UsersAdd
<1>3. /\ refcnt' \in [Bufs -> Nat] /\ refcnt'[b] = Cardinality(Users(b)')
      /\ \A c \in Bufs \ {b} : refcnt'[c] = refcnt[c]
  BY <1>0, <1>2, Zenon DEF TypeOK, BufInv
<1>4. TypeOK'
  <2>1. /\ pc' \in [Procs -> Places] /\ buf' \in [Procs -> Bufs \cup {None}]
        /\ want' \in [Procs -> Blocks \cup {None}]
    BY <1>0, Zenon DEF TypeOK, Places
  <2> QED BY <1>0, <1>3, <2>1, Zenon DEF TypeOK
<1>5. ASSUME NEW q \in Procs \ {p}, buf[q] # None
      PROVE  block'[buf[q]] = block[buf[q]] /\ (buf[q] \in valid' <=> buf[q] \in valid)
  <2>1. buf[q] \in Bufs
    BY <1>0, <1>5 DEF TypeOK
  <2> QED BY <2>1
<1>6. UNCHANGED <<lru, data, owner, idequeue, device, disk, last, dirty>>
  BY Zenon
<1>7. /\ block'[b] = blk /\ \A c \in Bufs \ {b} : block'[c] = block[c]
      /\ block' = block \/ ~\E c \in Bufs : block[c] = blk
      /\ dirty' \subseteq valid'
  BY Zenon
<1> HIDE DEF Takes
<1>8. ProcInv'
  <2>1. \A c : Queued(c)' = Queued(c)
    BY <1>6, Zenon DEF Queued
  <2>2. "lock" \notin InOwner
    BY Zenon DEF InOwner
  <2>3. ASSUME NEW q \in Procs \ {p}
        PROVE  /\ buf[q] = None <=> pc[q] \in {"idle", "panic"}
               /\ buf[q] # None => block'[buf[q]] = want[q] /\ want[q] # None
               /\ pc[q] \in InOwner => owner[buf[q]] = q
               /\ pc[q] = "waits" => owner[buf[q]] # None
               /\ pc[q] = "hold" => buf[q] \in valid'
               /\ pc[q] = "rw" => buf[q] \in dirty \/ buf[q] \notin valid'
               /\ pc[q] \in {"disk", "woken"} =>
                    (Queued(buf[q]) <=> ~(buf[q] \in valid' /\ buf[q] \notin dirty))
               /\ pc[q] = "disk" => Queued(buf[q])
    <3>1. CASE buf[q] = None
      BY <1>0, <3>1, Zenon DEF ProcInv, InOwner
    <3>2. CASE buf[q] # None
      BY <1>0, <1>5, <3>2, Zenon DEF ProcInv, Synced
    <3> QED BY <3>1, <3>2, Zenon
  <2>4. \A c : Synced(c)' <=> c \in valid' /\ c \notin dirty
    BY <1>6, Zenon DEF Synced
  <2>5. ASSUME NEW q \in Procs
        PROVE  /\ buf'[q] = None <=> pc'[q] \in {"idle", "panic"}
               /\ buf'[q] # None => block'[buf'[q]] = want'[q] /\ want'[q] # None
               /\ pc'[q] \in InOwner => owner'[buf'[q]] = q
               /\ pc'[q] = "waits" => owner'[buf'[q]] # None
               /\ pc'[q] = "hold" => buf'[q] \in valid'
               /\ pc'[q] = "rw" => buf'[q] \in dirty' \/ buf'[q] \notin valid'
               /\ pc'[q] \in {"disk", "woken"} => (Queued(buf[q])' <=> ~Synced(buf[q])')
               /\ pc'[q] = "disk" => Queued(buf[q])'
    <3>1. CASE q = p
      BY <1>1, <1>7, <2>2, <3>1, Distinctness, Zenon
    <3>2. CASE q # p
      <4>1. pc'[q] = pc[q] /\ buf'[q] = buf[q] /\ want'[q] = want[q]
        BY <1>1, <3>2, Zenon
      <4>2. (Queued(buf[q])' <=> Queued(buf[q]))
            /\ (Synced(buf[q])' <=> buf[q] \in valid' /\ buf[q] \notin dirty)
        BY <2>1, <2>4, <4>1, Zenon
      <4>3. q \in Procs \ {p}
        BY <3>2, Zenon
      <4>4. /\ buf[q] = None <=> pc[q] \in {"idle", "panic"}
            /\ buf[q] # None => block'[buf[q]] = want[q] /\ want[q] # None
            /\ pc[q] \in InOwner => owner[buf[q]] = q
            /\ pc[q] = "waits" => owner[buf[q]] # None
        BY <2>3, <4>3, Zenon
      <4>5. /\ pc[q] = "hold" => buf[q] \in valid'
            /\ pc[q] = "rw" => buf[q] \in dirty \/ buf[q] \notin valid'
            /\ pc[q] \in {"disk", "woken"} =>
                 (Queued(buf[q]) <=> ~(buf[q] \in valid' /\ buf[q] \notin dirty))
            /\ pc[q] = "disk" => Queued(buf[q])
        BY <2>3, <4>3, Zenon
      <4> QED BY <1>6, <4>1, <4>2, <4>4, <4>5, Zenon
    <3> QED BY <3>1, <3>2, Zenon
  <2> QED BY <2>5, Zenon DEF ProcInv
<1>9. BufInv'
  <2>1. \A c \in Bufs : owner[c] # p
    BY <1>0, OutsiderFacts, Zenon
  <2>2. ASSUME NEW c \in Bufs
        PROVE  /\ refcnt'[c] = Cardinality(Users(c)')
               /\ owner'[c] # None => buf'[owner'[c]] = c /\ pc'[owner'[c]] \in InOwner
    <3>1. refcnt'[c] = Cardinality(Users(c)')
      <4>1. CASE c = b
        BY <1>3, <4>1, Zenon
      <4>2. CASE c # b
        <5>1. refcnt'[c] = refcnt[c] /\ Users(c)' = Users(c)
          BY <1>2, <1>3, <4>2, Zenon
        <5> QED BY <1>0, <5>1, Zenon DEF BufInv
      <4> QED BY <4>1, <4>2, Zenon
    <3>2. owner[c] # None => owner[c] \in Procs \ {p} /\ buf[owner[c]] = c /\ pc[owner[c]] \in InOwner
      BY <1>0, <2>1 DEF TypeOK, BufInv
    <3> QED BY <1>1, <1>6, <3>1, <3>2, Zenon
  <2>3. \A c, d \in Bufs : block'[c] = block'[d] /\ block'[c] # None => c = d
    <3>1. CASE block' = block
      BY <1>0, <3>1, Zenon DEF BufInv
    <3>2. CASE ~\E c \in Bufs : block[c] = blk
      <4>1. TAKE c, d \in Bufs
      <4>2. \A x \in Bufs \ {b} : block'[x] = block[x] /\ block'[x] # block'[b]
        BY <1>7, <3>2, Zenon
      <4>3. CASE c # b /\ d # b
        BY <1>0, <4>2, <4>3 DEF BufInv
      <4>4. CASE c = b \/ d = b
        BY <4>2, <4>4, Zenon
      <4> QED BY <4>3, <4>4, Zenon
    <3> QED BY <1>7, <3>1, <3>2, Zenon
  <2>4. \A c \in Bufs : \E i \in 1..Len(lru') : lru'[i] = c
    BY <1>0, <1>6, Zenon DEF BufInv
  <2> QED BY <1>7, <2>2, <2>3, <2>4, Zenon DEF BufInv
<1>10. QueueInv'
  <2>1. ASSUME NEW i \in 1..Len(idequeue)
        PROVE  /\ owner'[idequeue[i]] = owner[idequeue[i]]
               /\ pc'[owner[idequeue[i]]] \in {"disk", "woken"}
               /\ idestart(idequeue[i])' = idestart(idequeue[i])
    <3>1. idequeue[i] \in Bufs /\ Queued(idequeue[i])
      BY <1>0 DEF TypeOK, Queued
    <3>2. owner[idequeue[i]] \in Procs /\ pc[owner[idequeue[i]]] \in {"disk", "woken"}
      BY <3>1, QueuedFacts, Zenon
    <3>3. pc'[owner[idequeue[i]]] \in {"disk", "woken"}
      BY <1>0, <1>1, <3>2, Zenon
    <3> QED BY <1>6, <3>3, Zenon DEF idestart
  <2> QED BY <1>0, <1>6, <2>1, QueueFrame, Zenon DEF CacheInv, TypeOK
<1> QED BY <1>4, <1>8, <1>9, <1>10, Zenon DEF CacheInv

LEMMA bgetInv ==
  ASSUME CacheInv, NEW p \in Procs, NEW blk \in Blocks, bget(p, blk)
  PROVE  CacheInv'
<1>0. /\ pc[p] = "idle" /\ want' = [want EXCEPT ![p] = blk]
      /\ UNCHANGED <<lru, data, owner, idequeue, device, disk, last>>
      /\ TypeOK /\ BufInv /\ DataInv
  BY Zenon DEF bget, ideVars, CacheInv
<1>1. ASSUME NEW b \in Bufs, Found(blk, b), refcnt' = [refcnt EXCEPT ![b] = @ + 1],
             buf' = [buf EXCEPT ![p] = b], pc' = [pc EXCEPT ![p] = "lock"],
             UNCHANGED <<block, valid, dirty>>
      PROVE  CacheInv'
  <2>1. DataInv'
    BY <1>0, <1>1, DataFrame, Zenon
  <2>2. block[b] = blk /\ block \in [Bufs -> Blocks \cup {None}] /\ valid \subseteq Bufs
        /\ dirty \subseteq valid
    BY <1>0, <1>1, Zenon DEF Found, TypeOK, BufInv
  <2>3. /\ refcnt'[b] = refcnt[b] + 1 /\ refcnt' \in [Bufs -> Nat]
        /\ \A c \in Bufs \ {b} : refcnt'[c] = refcnt[c]
    BY <1>0, <1>1 DEF TypeOK
  <2>4. Takes(p, blk, b)
    BY <1>0, <1>1, <2>2, <2>3, Zenon DEF Takes
  <2> QED BY <2>1, <2>4, TakesInv, Zenon
<1>2. ASSUME NEW b \in Bufs, Recycled(b), ~\E c \in Bufs : Found(blk, c),
             block' = [block EXCEPT ![b] = blk], valid' = valid \ {b}, dirty' = dirty \ {b},
             refcnt' = [refcnt EXCEPT ![b] = 1],
             buf' = [buf EXCEPT ![p] = b], pc' = [pc EXCEPT ![p] = "lock"]
      PROVE  CacheInv'
  <2>1. refcnt[b] = 0 /\ b \notin dirty
    BY <1>2, Zenon DEF Recycled, Unused
  <2>2. \A q \in Procs : buf[q] # b
    BY <2>1, UnusedFacts, Zenon
  <2>3. /\ dirty' = dirty /\ dirty' \subseteq valid' /\ valid' \subseteq Bufs
        /\ refcnt'[b] = refcnt[b] + 1 /\ refcnt' \in [Bufs -> Nat]
        /\ \A c \in Bufs \ {b} : refcnt'[c] = refcnt[c]
    BY <1>0, <1>2, <2>1 DEF TypeOK, BufInv
  <2>4. /\ block'[b] = blk /\ block' \in [Bufs -> Blocks \cup {None}]
        /\ \A c \in Bufs \ {b} : block'[c] = block[c] /\ (c \in valid' <=> c \in valid)
    BY <1>0, <1>2, Zenon DEF TypeOK
  <2>5. DataInv'
    <3>1. \A c \in Bufs : c \in valid' /\ block'[c] # None => data'[c] = last'[block'[c]]
      BY <1>0, <1>2, <2>4, Zenon DEF DataInv
    <3>2. \A d \in dirty : block'[d] = block[d]
      BY <1>0, <2>1, <2>4, Zenon DEF TypeOK
    <3>3. \A k \in Blocks : (\A d \in dirty' : block'[d] # k) => disk'[k] = last'[k]
      BY <1>0, <2>3, <3>2 DEF DataInv
    <3> QED BY <3>1, <3>3, Zenon DEF DataInv
  <2>6. block' = block \/ ~\E c \in Bufs : block[c] = blk
    BY <1>2, Zenon DEF Found
  <2>7. buf' = [buf EXCEPT ![p] = b] /\ pc' = [pc EXCEPT ![p] = "lock"]
    BY <1>2, Zenon
  <2>8. \A q \in Procs : buf[q] = b => block'[b] = block[b] /\ (b \in valid' <=> b \in valid)
    BY <2>2, Zenon
  <2>9. Takes(p, blk, b)
    BY <1>0, <2>3, <2>4, <2>6, <2>7, <2>8, Zenon DEF Takes
  <2> QED BY <2>5, <2>9, TakesInv, Zenon
<1>3. ASSUME pc' = [pc EXCEPT ![p] = "panic"], UNCHANGED <<block, valid, dirty, refcnt, buf>>
      PROVE  CacheInv'
  <2>0. pc[p] \notin InOwner /\ buf[p] = None /\ ProcInv
    BY <1>0, Zenon DEF CacheInv, ProcInv, InOwner
  <2>1. /\ pc'[p] = "panic" /\ \A q \in Procs \ {p} : pc'[q] = pc[q] /\ want'[q] = want[q]
    BY <1>0, <1>3, Zenon DEF TypeOK
  <2>2. TypeOK'
    <3>1. pc' \in [Procs -> Places] /\ want' \in [Procs -> Blocks \cup {None}]
      BY <1>0, <1>3, Zenon DEF TypeOK, Places
    <3> QED BY <1>0, <1>3, <3>1, Zenon DEF TypeOK
  <2>3. ProcInv'
    <3>1. \A c : Queued(c)' = Queued(c) /\ Synced(c)' = Synced(c)
      BY <1>0, <1>3, Zenon DEF Queued, Synced
    <3>2. "panic" \notin InOwner
      BY Zenon DEF InOwner
    <3>3. UNCHANGED <<block, valid, dirty, owner, buf>>
      BY <1>0, <1>3, Zenon
    <3>4. ASSUME NEW q \in Procs
          PROVE  /\ buf'[q] = None <=> pc'[q] \in {"idle", "panic"}
                 /\ buf'[q] # None => block'[buf'[q]] = want'[q] /\ want'[q] # None
                 /\ pc'[q] \in InOwner => owner'[buf'[q]] = q
                 /\ pc'[q] = "waits" => owner'[buf'[q]] # None
                 /\ pc'[q] = "hold" => buf'[q] \in valid'
                 /\ pc'[q] = "rw" => buf'[q] \in dirty' \/ buf'[q] \notin valid'
                 /\ pc'[q] \in {"disk", "woken"} => (Queued(buf[q])' <=> ~Synced(buf[q])')
                 /\ pc'[q] = "disk" => Queued(buf[q])'
      <4>1. CASE q = p
        BY <2>0, <2>1, <3>2, <3>3, <4>1, Zenon
      <4>2. CASE q # p
        BY <2>0, <2>1, <3>1, <3>3, <4>2 DEF ProcInv
      <4> QED BY <4>1, <4>2, Zenon
    <3> QED BY <3>4, Zenon DEF ProcInv
  <2>4. BufInv'
    <3>1. \A c \in Bufs : owner[c] # p
      BY <2>0, OutsiderFacts, Zenon
    <3>2. \A c \in Bufs : owner'[c] # None => buf[owner'[c]] = c /\ pc'[owner'[c]] \in InOwner
      <4> SUFFICES ASSUME NEW c \in Bufs, owner'[c] # None
                   PROVE  buf[owner'[c]] = c /\ pc'[owner'[c]] \in InOwner
        BY Zenon
      <4>1. owner'[c] = owner[c]
        BY <1>0, Zenon
      <4>2. owner[c] \in Procs \ {p} /\ buf[owner[c]] = c /\ pc[owner[c]] \in InOwner
        BY <1>0, <3>1, <4>1 DEF TypeOK, BufInv
      <4>3. pc'[owner[c]] = pc[owner[c]]
        BY <2>1, <4>2, Zenon
      <4> QED BY <4>1, <4>2, <4>3, Zenon
    <3> QED BY <1>0, <1>3, <3>2, BufFrame, Zenon DEF BufInv
  <2>5. QueueInv'
    <3>1. ASSUME NEW i \in 1..Len(idequeue)
          PROVE  /\ owner'[idequeue[i]] = owner[idequeue[i]]
                 /\ pc'[owner[idequeue[i]]] \in {"disk", "woken"}
                 /\ idestart(idequeue[i])' = idestart(idequeue[i])
      <4>1. idequeue[i] \in Bufs /\ Queued(idequeue[i])
        BY <1>0 DEF TypeOK, Queued
      <4>2. owner[idequeue[i]] \in Procs /\ pc[owner[idequeue[i]]] \in {"disk", "woken"}
        BY <4>1, QueuedFacts, Zenon
      <4>3. pc'[owner[idequeue[i]]] \in {"disk", "woken"}
        BY <1>0, <2>1, <4>2, Zenon
      <4> QED BY <1>0, <1>3, <4>3, Zenon DEF idestart
    <3> QED BY <1>0, <3>1, QueueFrame, Zenon DEF CacheInv, TypeOK
  <2>6. DataInv'
    BY <1>0, <1>3, DataFrame, Zenon
  <2> QED BY <2>2, <2>3, <2>4, <2>5, <2>6, Zenon DEF CacheInv
<1> QED BY <1>1, <1>2, <1>3, Zenon DEF bget

-----------------------------------------------------------------------------
(* Writers *)

\* Process p has changed its buffer to v; it goes on to the disk or stays.
Writes(p, v) ==
  /\ pc[p] = "hold" /\ \E l \in {"hold", "rw"} : pc' = [pc EXCEPT ![p] = l]
  /\ data' = [data EXCEPT ![buf[p]] = v]
  /\ last' = [last EXCEPT ![block[buf[p]]] = v]
  /\ dirty' = dirty \cup {buf[p]}
  /\ UNCHANGED <<lru, block, refcnt, valid, owner, idequeue, device, disk, buf, want>>

LEMMA WritesInv ==
  ASSUME CacheInv, NEW p \in Procs, NEW v \in Values, Writes(p, v)
  PROVE  CacheInv'
<1>1. pc[p] = "hold" /\ pc[p] \in InOwner /\ TypeOK /\ BufInv /\ buf[p] \in valid
  BY Zenon DEF Writes, InOwner, CacheInv, ProcInv
<1>2. PICK b \in Bufs : b = buf[p]
  BY <1>1, OwnerFacts, Zenon
<1>3. /\ owner[b] = p /\ block[b] \in Blocks /\ b \in valid
      /\ \A q \in Procs \ {p} : pc[q] \in InOwner => buf[q] # b
      /\ \A c \in Bufs : owner[c] = p => c = b
  BY <1>1, <1>2, OwnerFacts, Zenon
<1>4. UNCHANGED <<lru, block, refcnt, valid, owner, idequeue, device, disk, buf, want>>
  BY Zenon DEF Writes
<1>5. /\ data'[b] = v /\ \A c \in Bufs \ {b} : data'[c] = data[c]
      /\ last'[block[b]] = v /\ \A blk \in Blocks \ {block[b]} : last'[blk] = last[blk]
      /\ dirty' = dirty \cup {b}
  BY <1>1, <1>2, <1>3, Zenon DEF Writes, TypeOK
<1>6. pc'[p] \in {"hold", "rw"} /\ \A q \in Procs \ {p} : pc'[q] = pc[q]
  BY <1>1, Zenon DEF Writes, TypeOK
<1>7. TypeOK'
  <2>1. pc' \in [Procs -> Places]
    BY <1>1, Zenon DEF Writes, TypeOK, Places
  <2>2. data' \in [Bufs -> Values] /\ last' \in [Blocks -> Values] /\ dirty' \subseteq Bufs
    BY <1>1, <1>2, <1>3, Zenon DEF Writes, TypeOK
  <2> QED BY <1>1, <1>4, <2>1, <2>2, Zenon DEF TypeOK
<1>8. ~Queued(b)
  BY <1>1, <1>3, QueuedFacts, Zenon
<1>9. ProcInv'
  <2>1. \A c : Queued(c)' = Queued(c)
    BY <1>4, Zenon DEF Queued
  <2>2. \A c : c # b => (Synced(c)' <=> Synced(c)) /\ (c \in dirty' <=> c \in dirty)
    BY <1>4, <1>5, Zenon DEF Synced
  <2>3. pc'[p] \in InOwner /\ pc'[p] \notin {"idle", "panic", "waits", "disk", "woken"}
    BY <1>6, Zenon DEF InOwner
  <2>4. \A q \in Procs : pc[q] \in {"disk", "woken", "rw"} => pc[q] \in InOwner
    BY Zenon DEF InOwner
  <2>5. ASSUME NEW q \in Procs \ {p}
        PROVE  /\ pc'[q] = "rw" => buf[q] \in dirty' \/ buf[q] \notin valid
               /\ pc'[q] \in {"disk", "woken"} => (Queued(buf[q]) <=> ~(Synced(buf[q]))')
    <3>1. pc'[q] = pc[q] /\ (pc[q] \in {"disk", "woken", "rw"} => buf[q] # b)
      BY <1>3, <1>6, <2>4, Zenon
    <3>2. /\ pc[q] = "rw" => buf[q] \in dirty \/ buf[q] \notin valid
          /\ pc[q] \in {"disk", "woken"} => (Queued(buf[q]) <=> ~Synced(buf[q]))
      BY Zenon DEF CacheInv, ProcInv
    <3>3. pc[q] \in {"disk", "woken"} => (Synced(buf[q])' <=> Synced(buf[q]))
      BY <1>4, <2>2, <3>1, Zenon
    <3> QED BY <2>2, <3>1, <3>2, <3>3, Zenon
  <2>6. ASSUME NEW q \in Procs \ {p}
        PROVE  /\ buf'[q] = None <=> pc'[q] \in {"idle", "panic"}
               /\ buf'[q] # None => block'[buf'[q]] = want'[q] /\ want'[q] # None
               /\ pc'[q] \in InOwner => owner'[buf'[q]] = q
               /\ pc'[q] = "waits" => owner'[buf'[q]] # None
               /\ pc'[q] = "hold" => buf'[q] \in valid'
               /\ pc'[q] = "disk" => Queued(buf[q])
    BY <1>4, <1>6, Zenon DEF CacheInv, ProcInv
  <2>7. buf'[p] # None /\ block'[buf'[p]] = want'[p] /\ want'[p] # None /\ owner'[buf'[p]] = p
    <3>1. block[buf[p]] = want[p] /\ want[p] \in Blocks
      BY <1>1, OwnerFacts, Zenon
    <3> QED BY <1>2, <1>3, <1>4, <3>1, Distinctness, Zenon
  <2>8. buf'[p] \in valid' /\ buf'[p] \in dirty'
    BY <1>2, <1>3, <1>4, <1>5, Zenon
  <2> QED BY <1>4, <2>1, <2>3, <2>5, <2>6, <2>7, <2>8, Zenon DEF ProcInv
<1>10. BufInv'
  <2>1. \A q \in Procs : pc[q] \in InOwner => pc'[q] \in InOwner
    BY <1>6, Zenon DEF InOwner
  <2>2. \A c \in Bufs : owner'[c] # None => buf[owner'[c]] = c /\ pc'[owner'[c]] \in InOwner
    BY <1>1, <1>4, <2>1, OwnersStay, Zenon
  <2>3. dirty' \subseteq valid'
    BY <1>1, <1>3, <1>4, <1>5, Zenon DEF BufInv
  <2> QED BY <1>1, <1>4, <2>2, <2>3, BufFrame, Zenon
<1>11. QueueInv'
  <2>1. ASSUME NEW i \in 1..Len(idequeue)
        PROVE  /\ owner'[idequeue[i]] = owner[idequeue[i]]
               /\ pc'[owner[idequeue[i]]] \in {"disk", "woken"}
               /\ idestart(idequeue[i])' = idestart(idequeue[i])
    <3>1. PICK c \in Bufs : c = idequeue[i] /\ Queued(c)
      BY <1>1 DEF TypeOK, Queued
    <3>2. owner[c] \in Procs /\ pc[owner[c]] \in {"disk", "woken"}
      BY <3>1, QueuedFacts, Zenon
    <3>3. c # b /\ owner[c] # p
      BY <1>1, <1>8, <3>1, <3>2, Zenon
    <3>4. data'[c] = data[c] /\ (c \in dirty' <=> c \in dirty)
      BY <1>5, <3>3, Zenon
    <3>5. idestart(idequeue[i])' = idestart(idequeue[i])
      BY <1>4, <3>1, <3>4, Zenon DEF idestart
    <3> QED BY <1>4, <1>6, <3>1, <3>2, <3>3, <3>5, Zenon
  <2> QED BY <1>1, <1>4, <2>1, QueueFrame, Zenon DEF CacheInv, TypeOK
<1>12. DataInv'
  <2>1. ASSUME NEW c \in Bufs, c \in valid, block[c] # None PROVE data'[c] = last'[block[c]]
    <3>1. CASE c = b
      BY <1>5, <3>1, Zenon
    <3>2. CASE c # b
      <4>1. block[c] # block[b] /\ block[c] \in Blocks
        BY <1>1, <2>1, <3>2 DEF BufInv, TypeOK
      <4>2. data[c] = last[block[c]]
        BY <2>1, Zenon DEF CacheInv, DataInv
      <4> QED BY <1>5, <3>2, <4>1, <4>2, Zenon
    <3> QED BY <3>1, <3>2, Zenon
  <2>2. ASSUME NEW blk \in Blocks, \A c \in dirty' : block[c] # blk PROVE disk[blk] = last'[blk]
    <3>1. blk # block[b] /\ \A c \in dirty : block[c] # blk
      BY <1>5, <2>2, Zenon
    <3>2. disk[blk] = last[blk]
      BY <3>1, Zenon DEF CacheInv, DataInv
    <3> QED BY <1>5, <3>1, <3>2, Zenon
  <2> QED BY <1>4, <2>1, <2>2, Zenon DEF DataInv
<1> QED BY <1>7, <1>9, <1>10, <1>11, <1>12, Zenon DEF CacheInv

LEMMA WriterInv ==
  ASSUME CacheInv, NEW p \in Procs, NEW v \in Values, bwrite(p, v) \/ log_write(p, v)
  PROVE  CacheInv'
<1>1. pc = [pc EXCEPT ![p] = pc[p]]
  BY Zenon DEF CacheInv, TypeOK
<1>2. Writes(p, v)
  BY <1>1, Zenon DEF bwrite, log_write, Writes, listVars, ideVars
<1> QED BY <1>2, WritesInv, Zenon

-----------------------------------------------------------------------------
(* The disk *)

LEMMA QueueLast ==
  ASSUME NEW S, NEW s \in Seq(S), NEW b \in S
  PROVE  /\ Append(s, b) \in Seq(S) /\ Len(Append(s, b)) = Len(s) + 1 /\ Append(s, b) # << >>
         /\ \A i \in 1..Len(s) : Append(s, b)[i] = s[i]
         /\ Append(s, b)[Len(s) + 1] = b
         /\ Head(Append(s, b)) = IF s = << >> THEN b ELSE Head(s)
OBVIOUS

LEMMA QueueFirst ==
  ASSUME NEW S, NEW s \in Seq(S), s # << >>
  PROVE  /\ Tail(s) \in Seq(S) /\ Len(s) \in Nat \ {0} /\ Len(Tail(s)) = Len(s) - 1
         /\ Head(s) = s[1] /\ Head(s) \in S
         /\ \A i \in 1..Len(Tail(s)) : Tail(s)[i] = s[i + 1] /\ i + 1 \in 1..Len(s)
         /\ Tail(s) # << >> => Head(Tail(s)) = s[2] /\ 2 \in 1..Len(s)
OBVIOUS

LEMMA iderwInv ==
  ASSUME CacheInv, NEW p \in Procs, iderw(p)
  PROVE  CacheInv'
<1>1. pc[p] = "rw" /\ pc[p] \in InOwner /\ TypeOK /\ BufInv /\ QueueInv
  BY Zenon DEF iderw, InOwner, CacheInv
<1>2. PICK b \in Bufs : b = buf[p]
  BY <1>1, OwnerFacts, Zenon
<1>3. /\ owner[b] = p /\ (b \in dirty \/ b \notin valid)
      /\ \A q \in Procs \ {p} : pc[q] \in InOwner => buf[q] # b
  BY <1>1, <1>2, OwnerFacts, Zenon DEF CacheInv, ProcInv
<1>4. UNCHANGED <<lru, block, refcnt, valid, dirty, data, owner, disk, buf, want, last>>
  BY Zenon DEF iderw, listVars
<1>5. /\ idequeue' = Append(idequeue, b)
      /\ device' = IF idequeue = << >> THEN idestart(b) ELSE device
      /\ pc' = [pc EXCEPT ![p] = "disk"]
  BY <1>2, Zenon DEF iderw
<1>6. pc'[p] = "disk" /\ \A q \in Procs \ {p} : pc'[q] = pc[q]
  BY <1>1, <1>5, Zenon DEF TypeOK
<1> DEFINE n == Len(idequeue)
<1>7. /\ idequeue' \in Seq(Bufs) /\ n \in Nat /\ Len(idequeue') = n + 1 /\ idequeue' # << >>
      /\ \A i \in 1..n : idequeue'[i] = idequeue[i]
      /\ idequeue'[n + 1] = b
      /\ Head(idequeue') = IF idequeue = << >> THEN b ELSE Head(idequeue)
  <2>1. idequeue \in Seq(Bufs)
    BY <1>1, Zenon DEF TypeOK
  <2>2. n \in Nat
    BY <2>1
  <2> QED BY <1>5, <2>1, <2>2, QueueLast
<1>8. ~Queued(b)
  BY <1>1, <1>3, QueuedFacts, Zenon
<1>9. \A c : Queued(c)' <=> Queued(c) \/ c = b
  <2> HIDE DEF n
  <2>1. \A i : i \in 1..(n + 1) <=> i \in 1..n \/ i = n + 1
    BY <1>7
  <2>2. \A c : Queued(c) <=> \E i \in 1..n : idequeue[i] = c
    BY Zenon DEF Queued, n
  <2>3. \A c : Queued(c)' <=> \E i \in 1..(n + 1) : idequeue'[i] = c
    BY <1>7, Zenon DEF Queued
  <2> QED BY <1>7, <2>1, <2>2, <2>3, Zenon
<1>10. TypeOK'
  <2>1. pc' \in [Procs -> Places]
    BY <1>1, <1>5, Zenon DEF TypeOK, Places
  <2>2. idestart(b) \in Values \cup {Read}
    BY <1>1, Zenon DEF TypeOK, idestart
  <2>3. device' \in Values \cup {Read, Idle}
    BY <1>1, <1>5, <2>2, Zenon DEF TypeOK
  <2> QED BY <1>1, <1>4, <1>7, <2>1, <2>3, Zenon DEF TypeOK
<1>11. ProcInv'
  <2>1. \A c : Synced(c)' = Synced(c)
    BY <1>4, Zenon DEF Synced
  <2>2. \A q \in Procs : pc[q] \in {"disk", "woken"} => pc[q] \in InOwner
    BY Zenon DEF InOwner
  <2>3. ASSUME NEW q \in Procs \ {p}
        PROVE  /\ pc'[q] \in {"disk", "woken"} => (Queued(buf[q])' <=> ~Synced(buf[q]))
               /\ pc'[q] = "disk" => Queued(buf[q])'
    <3>1. pc'[q] = pc[q] /\ (pc[q] \in {"disk", "woken"} => buf[q] # b)
      BY <1>3, <1>6, <2>2, Zenon
    <3>2. /\ pc[q] \in {"disk", "woken"} => (Queued(buf[q]) <=> ~Synced(buf[q]))
          /\ pc[q] = "disk" => Queued(buf[q])
      BY Zenon DEF CacheInv, ProcInv
    <3>3. pc[q] \in {"disk", "woken"} => (Queued(buf[q])' <=> Queued(buf[q]))
      BY <1>4, <1>9, <3>1, Zenon
    <3> QED BY <3>1, <3>2, <3>3, Zenon
  <2>4. ASSUME NEW q \in Procs \ {p}
        PROVE  /\ buf'[q] = None <=> pc'[q] \in {"idle", "panic"}
               /\ buf'[q] # None => block'[buf'[q]] = want'[q] /\ want'[q] # None
               /\ pc'[q] \in InOwner => owner'[buf'[q]] = q
               /\ pc'[q] = "waits" => owner'[buf'[q]] # None
               /\ pc'[q] = "hold" => buf'[q] \in valid'
               /\ pc'[q] = "rw" => buf'[q] \in dirty' \/ buf'[q] \notin valid'
    BY <1>4, <1>6, Zenon DEF CacheInv, ProcInv
  <2>5. buf'[p] # None /\ block'[buf'[p]] = want'[p] /\ want'[p] # None /\ owner'[buf'[p]] = p
    <3>1. block[buf[p]] = want[p] /\ want[p] \in Blocks
      BY <1>1, OwnerFacts, Zenon
    <3> QED BY <1>2, <1>3, <1>4, <3>1, Distinctness, Zenon
  <2>6. Queued(buf[p])' /\ ~Synced(buf[p])
    BY <1>2, <1>3, <1>4, <1>9, Zenon DEF Synced
  <2> QED BY <1>4, <1>6, <2>1, <2>3, <2>4, <2>5, <2>6, Zenon DEF ProcInv
<1>12. BufInv'
  <2>1. \A q \in Procs : pc[q] \in InOwner => pc'[q] \in InOwner
    BY <1>6, Zenon DEF InOwner
  <2>2. \A c \in Bufs : owner'[c] # None => buf[owner'[c]] = c /\ pc'[owner'[c]] \in InOwner
    BY <1>1, <1>4, <2>1, OwnersStay, Zenon
  <2> QED BY <1>1, <1>4, <2>2, BufFrame, Zenon DEF BufInv
<1>13. QueueInv'
  <2> HIDE DEF n
  <2>1. ASSUME NEW i \in 1..(n + 1), NEW j \in 1..(n + 1), idequeue'[i] = idequeue'[j]
        PROVE  i = j
    <3>1. \A k \in 1..n : idequeue[k] # b
      BY <1>8, Zenon DEF Queued, n
    <3>2. \A k, l \in 1..n : idequeue[k] = idequeue[l] => k = l
      BY <1>1, Zenon DEF QueueInv, n
    <3>3. (i \in 1..n \/ i = n + 1) /\ (j \in 1..n \/ j = n + 1)
      BY <1>7
    <3> QED BY <1>7, <2>1, <3>1, <3>2, <3>3, Zenon
  <2>2. ASSUME NEW i \in 1..(n + 1)
        PROVE  owner'[idequeue'[i]] # None /\ pc'[owner'[idequeue'[i]]] \in {"disk", "woken"}
    <3>1. CASE i \in 1..n
      <4>1. PICK c \in Bufs : c = idequeue[i] /\ Queued(c)
        BY <1>1, <3>1 DEF TypeOK, Queued, n
      <4>2. owner[c] \in Procs /\ pc[owner[c]] \in {"disk", "woken"}
        BY <4>1, QueuedFacts, Zenon
      <4>3. owner[c] # p
        BY <1>1, <4>2, Zenon
      <4> QED BY <1>4, <1>6, <1>7, <3>1, <4>1, <4>2, <4>3, Distinctness
    <3>2. CASE i = n + 1
      BY <1>3, <1>4, <1>6, <1>7, <3>2, Distinctness, Zenon
    <3> QED BY <1>7, <3>1, <3>2
  <2>3. device' = idestart(Head(idequeue'))
    <3>1. CASE idequeue = << >>
      BY <1>5, <1>7, <3>1, Zenon
    <3>2. CASE idequeue # << >>
      BY <1>1, <1>5, <1>7, <3>2, Zenon DEF QueueInv
    <3> QED BY <3>1, <3>2, Zenon
  <2>4. device' = IF idequeue' = << >> THEN Idle ELSE idestart(Head(idequeue))'
    BY <1>4, <1>7, <2>3, Zenon DEF idestart
  <2> QED BY <1>7, <2>1, <2>2, <2>4, Zenon DEF QueueInv
<1>14. DataInv'
  BY <1>4, DataFrame, Zenon DEF CacheInv
<1> QED BY <1>10, <1>11, <1>12, <1>13, <1>14, Zenon DEF CacheInv

\* The interrupt serves the first request, which no longer waits afterwards.
LEMMA ideintrInv ==
  ASSUME CacheInv, ideintr(TRUE)
  PROVE  CacheInv'
<1>1. TypeOK /\ BufInv /\ QueueInv /\ DataInv /\ idequeue # << >> /\ idequeue \in Seq(Bufs)
  BY Zenon DEF ideintr, CacheInv, TypeOK
<1> DEFINE n == Len(idequeue)
<1>2. /\ Tail(idequeue) \in Seq(Bufs) /\ n \in Nat \ {0} /\ Len(Tail(idequeue)) = n - 1
      /\ Head(idequeue) = idequeue[1] /\ Head(idequeue) \in Bufs
      /\ \A i \in 1..Len(Tail(idequeue)) : Tail(idequeue)[i] = idequeue[i + 1] /\ i + 1 \in 1..n
      /\ Tail(idequeue) # << >> => Head(Tail(idequeue)) = idequeue[2] /\ 2 \in 1..n
  BY <1>1, QueueFirst, Zenon
<1>3. PICK b \in Bufs : b = Head(idequeue)
  BY <1>2, Zenon
<1>4. 1 \in 1..n /\ idequeue[1] = b
  BY <1>2, <1>3
<1>5. Queued(b)
  BY <1>4, Zenon DEF Queued
<1>6. PICK o \in Procs : o = owner[b] /\ pc[o] \in {"disk", "woken"} /\ buf[o] = b
  BY <1>5, QueuedFacts, Zenon
<1>7. /\ (b \in dirty \/ b \notin valid) /\ dirty \subseteq valid /\ block[b] \in Blocks
      /\ pc[o] \in InOwner /\ \A q \in Procs \ {o} : pc[q] \in InOwner => buf[q] # b
  <2>1. (b \in dirty \/ b \notin valid) /\ dirty \subseteq valid
    BY <1>1, <1>5, QueuedFacts, Zenon DEF BufInv
  <2>2. pc[o] \in InOwner
    BY <1>6, Zenon DEF InOwner
  <2> QED BY <1>6, <2>1, <2>2, OwnerFacts
<1>8. device = idestart(b) /\ data[b] \in Values
  BY <1>1, <1>3, Zenon DEF QueueInv, TypeOK
<1>9. UNCHANGED <<lru, block, refcnt, owner, buf, want, last>>
  BY Zenon DEF ideintr, listVars
<1>10. /\ idequeue' = Tail(idequeue) /\ pc' = wakeup_disk(b) /\ device' = start_next(Tail(idequeue))
       /\ valid' = valid \cup {b} /\ dirty' = dirty \ {b}
       /\ disk' = IF device # Read THEN [disk EXCEPT ![block[b]] = device] ELSE disk
       /\ data' = IF b \notin dirty THEN [data EXCEPT ![b] = disk[block[b]]] ELSE data
  BY <1>3, Zenon DEF ideintr
<1>11. /\ b \in dirty => disk' = [disk EXCEPT ![block[b]] = data[b]] /\ data' = data
       /\ b \notin dirty => disk' = disk /\ data' = [data EXCEPT ![b] = disk[block[b]]]
  BY <1>8, <1>10, Distinctness, Zenon DEF idestart
<1>12. \A q \in Procs : pc'[q] = IF pc[q] = "disk" /\ buf[q] = b THEN "woken" ELSE pc[q]
  BY <1>10, Zenon DEF wakeup_disk
<1>13. \A c \in Bufs \ {b} : data'[c] = data[c] /\ (c \in dirty' <=> c \in dirty)
                            /\ (c \in valid' <=> c \in valid) /\ idestart(c) = IF c \in dirty' THEN data'[c] ELSE Read
  BY <1>1, <1>10, <1>11, Zenon DEF TypeOK, idestart
<1> HIDE DEF n
<1>14. \A i \in 1..n : i # 1 => idequeue[i] # b
  BY <1>1, <1>4, Zenon DEF QueueInv, n
<1>15. \A c \in Bufs : Queued(c)' <=> Queued(c) /\ c # b
  <2> TAKE c \in Bufs
  <2>1. Queued(c)' <=> \E i \in 1..(n - 1) : Tail(idequeue)[i] = c
    BY <1>2, <1>10, Zenon DEF Queued
  <2>2. Queued(c) <=> \E i \in 1..n : idequeue[i] = c
    BY Zenon DEF Queued, n
  <2>3. ASSUME Queued(c)' PROVE Queued(c) /\ c # b
    <3>1. PICK i \in 1..(n - 1) : Tail(idequeue)[i] = c
      BY <2>1, <2>3, Zenon
    <3>2. i + 1 \in 1..n /\ idequeue[i + 1] = c /\ i + 1 # 1
      BY <1>2, <3>1
    <3> QED BY <1>14, <2>2, <3>2, Zenon
  <2>4. ASSUME Queued(c), c # b PROVE Queued(c)'
    <3>1. PICK i \in 1..n : idequeue[i] = c
      BY <2>2, <2>4, Zenon
    <3>2. i # 1
      BY <1>4, <2>4, <3>1, Zenon
    <3>3. i - 1 \in 1..(n - 1) /\ (i - 1) + 1 = i
      BY <1>2, <3>2
    <3>4. Tail(idequeue)[i - 1] = c
      BY <1>2, <3>1, <3>3, Zenon
    <3> QED BY <2>1, <3>3, <3>4, Zenon
  <2> QED BY <2>3, <2>4, Zenon
<1>16. TypeOK'
  <2>1. pc' \in [Procs -> Places]
    BY <1>1, <1>10, Zenon DEF TypeOK, Places, wakeup_disk
  <2>2. data' \in [Bufs -> Values] /\ disk' \in [Blocks -> Values]
    <3>1. CASE b \in dirty
      BY <1>1, <1>7, <1>8, <1>11, <3>1, Zenon DEF TypeOK
    <3>2. CASE b \notin dirty
      BY <1>1, <1>7, <1>11, <3>2, Zenon DEF TypeOK
    <3> QED BY <3>1, <3>2, Zenon
  <2>3. \A c \in Bufs : idestart(c) \in Values \cup {Read}
    BY <1>1, Zenon DEF TypeOK, idestart
  <2>4. device' \in Values \cup {Read, Idle}
    BY <1>1, <1>2, <1>10, <2>3 DEF start_next, TypeOK
  <2>5. valid' \subseteq Bufs /\ dirty' \subseteq Bufs /\ idequeue' \in Seq(Bufs)
    BY <1>1, <1>2, <1>10, Zenon DEF TypeOK
  <2> QED BY <1>1, <1>9, <2>1, <2>2, <2>4, <2>5, Zenon DEF TypeOK
<1>17. ProcInv'
  <2>1. \A q \in Procs : pc[q] \in {"disk", "woken", "rw"} => pc[q] \in InOwner /\ pc[q] \notin {"idle", "panic"}
    BY Zenon DEF InOwner
  <2>2. \A c \in Bufs : Synced(c)' <=> Synced(c) \/ c = b
    BY <1>10, Zenon DEF Synced
  <2>3. ASSUME NEW q \in Procs
        PROVE  /\ pc'[q] = "rw" => buf[q] \in dirty' \/ buf[q] \notin valid'
               /\ pc'[q] \in {"disk", "woken"} => (Queued(buf[q])' <=> ~Synced(buf[q])')
               /\ pc'[q] = "disk" => Queued(buf[q])'
    <3>1. CASE pc[q] \in {"disk", "woken"}
      <4>1. PICK c \in Bufs : c = buf[q]
        BY <2>1, <3>1, UserFacts, Zenon
      <4>2. (Queued(c) <=> ~Synced(c)) /\ (pc[q] = "disk" => Queued(c))
        BY <3>1, <4>1, Zenon DEF CacheInv, ProcInv
      <4>3. (Queued(c)' <=> ~Synced(c)') /\ (pc'[q] = "disk" => Queued(c)') /\ pc'[q] # "rw"
        BY <1>12, <1>15, <2>2, <3>1, <4>1, <4>2, Zenon
      <4>4. c = buf'[q]
        BY <1>9, <4>1, Zenon
      <4> QED BY <4>1, <4>3, <4>4, Zenon
    <3>2. CASE pc[q] = "rw"
      <4>1. q # o /\ buf[q] # b /\ buf[q] \in Bufs
        BY <1>6, <1>7, <2>1, <3>2, UserFacts, Zenon
      <4>2. buf[q] \in dirty \/ buf[q] \notin valid
        BY <3>2, Zenon DEF CacheInv, ProcInv
      <4> QED BY <1>12, <1>13, <3>2, <4>1, <4>2, Zenon
    <3> QED BY <1>12, <3>1, <3>2, Zenon
  <2>4. ASSUME NEW q \in Procs
        PROVE  /\ buf'[q] = None <=> pc'[q] \in {"idle", "panic"}
               /\ buf'[q] # None => block'[buf'[q]] = want'[q] /\ want'[q] # None
               /\ pc'[q] \in InOwner => owner'[buf'[q]] = q
               /\ pc'[q] = "waits" => owner'[buf'[q]] # None
               /\ pc'[q] = "hold" => buf'[q] \in valid'
    <3>1. pc'[q] = pc[q] \/ (pc[q] = "disk" /\ pc'[q] = "woken")
      BY <1>12, Zenon
    <3>2. pc'[q] \in InOwner <=> pc[q] \in InOwner
      BY <3>1, Zenon DEF InOwner
    <3>3. valid \subseteq valid'
      BY <1>10, Zenon
    <3> QED BY <1>9, <3>1, <3>2, <3>3, Zenon DEF CacheInv, ProcInv
  <2> QED BY <1>9, <2>3, <2>4, Zenon DEF ProcInv
<1>18. BufInv'
  <2>1. \A q \in Procs : pc[q] \in InOwner => pc'[q] \in InOwner
    BY <1>12, Zenon DEF InOwner
  <2>2. \A c \in Bufs : owner'[c] # None => buf[owner'[c]] = c /\ pc'[owner'[c]] \in InOwner
    BY <1>1, <1>9, <2>1, OwnersStay, Zenon
  <2> QED BY <1>1, <1>7, <1>9, <1>10, <2>2, BufFrame, Zenon
<1>19. QueueInv'
  <2> DEFINE t == Tail(idequeue)
  <2>1. \A i \in 1..Len(t) : t[i] = idequeue[i + 1] /\ i + 1 \in 1..n /\ i \in Nat
    BY <1>2
  <2>2. ASSUME NEW i \in 1..Len(t), NEW j \in 1..Len(t), t[i] = t[j] PROVE i = j
    <3>1. i + 1 = j + 1
      BY <1>1, <2>1, <2>2 DEF QueueInv, n
    <3> QED BY <2>1, <3>1
  <2>3. ASSUME NEW i \in 1..Len(t)
        PROVE  owner'[t[i]] # None /\ pc'[owner'[t[i]]] \in {"disk", "woken"}
    <3>1. PICK c \in Bufs : c = t[i] /\ Queued(c)
      BY <1>1, <2>1 DEF Queued, n
    <3>2. owner[c] \in Procs /\ pc[owner[c]] \in {"disk", "woken"}
      BY <3>1, QueuedFacts, Zenon
    <3> QED BY <1>9, <1>12, <3>1, <3>2, Distinctness, Zenon
  <2>4. t # << >> => idestart(Head(t)) = IF Head(t) \in dirty' THEN data'[Head(t)] ELSE Read
    <3>1. t # << >> => Head(t) \in Bufs \ {b}
      BY <1>1, <1>2, <1>14 DEF n
    <3> QED BY <1>13, <3>1, Zenon
  <2>5. device' = IF t = << >> THEN Idle ELSE IF Head(t) \in dirty' THEN data'[Head(t)] ELSE Read
    BY <1>10, <2>4, Zenon DEF start_next
  <2> HIDE DEF t
  <2>6. idequeue' = t
    BY <1>10, Zenon DEF t
  <2> QED BY <2>2, <2>3, <2>5, <2>6 DEF QueueInv, idestart
<1>20. DataInv'
  <2>0. /\ \A c \in Bufs : c \in valid /\ block[c] # None => data[c] = last[block[c]]
        /\ \A blk \in Blocks : (\A c \in dirty : block[c] # blk) => disk[blk] = last[blk]
        /\ \A c, d \in Bufs : block[c] = block[d] /\ block[c] # None => c = d
        /\ block[b] # None /\ dirty \subseteq Bufs
    BY <1>1, <1>7, Distinctness, Zenon DEF DataInv, BufInv, TypeOK
  <2>1. data'[b] = last[block[b]]
    <3>1. CASE b \in dirty
      BY <1>7, <1>11, <2>0, <3>1, Zenon
    <3>2. CASE b \notin dirty
      <4>1. \A c \in dirty : block[c] # block[b]
        BY <2>0, <3>2, Zenon
      <4>2. disk[block[b]] = last[block[b]]
        BY <1>7, <2>0, <4>1, Zenon
      <4> QED BY <1>1, <1>11, <3>2, <4>2, Zenon DEF TypeOK
    <3> QED BY <3>1, <3>2, Zenon
  <2>2. \A c \in Bufs : c \in valid' /\ block[c] # None => data'[c] = last[block[c]]
    BY <1>13, <2>0, <2>1, Zenon
  <2>3. ASSUME NEW blk \in Blocks, \A c \in dirty' : block[c] # blk PROVE disk'[blk] = last[blk]
    <3>1. CASE b \notin dirty
      BY <1>10, <1>11, <2>0, <2>3, <3>1, Zenon
    <3>2. CASE b \in dirty /\ blk = block[b]
      BY <1>1, <1>7, <1>11, <2>0, <3>2, Zenon DEF TypeOK
    <3>3. CASE b \in dirty /\ blk # block[b]
      <4>1. \A c \in dirty : block[c] # blk
        BY <1>10, <2>3, <3>3, Zenon
      <4>2. disk'[blk] = disk[blk]
        BY <1>1, <1>11, <3>3, Zenon DEF TypeOK
      <4> QED BY <2>0, <4>1, <4>2, Zenon
    <3> QED BY <3>1, <3>2, <3>3, Zenon
  <2> QED BY <1>9, <2>2, <2>3, Zenon DEF DataInv
<1> QED BY <1>16, <1>17, <1>18, <1>19, <1>20, Zenon DEF CacheInv

-----------------------------------------------------------------------------
(* The theorems *)

\* binit() puts every buffer on the list.
LEMMA AllListed ==
  ASSUME lru \in [1..Cardinality(Bufs) -> Bufs], \A i, j \in DOMAIN lru : lru[i] = lru[j] => i = j
  PROVE  lru \in Seq(Bufs) /\ \A b \in Bufs : \E i \in 1..Len(lru) : lru[i] = b
<1> DEFINE n == Cardinality(Bufs)
<1>1. IsFiniteSet(Bufs) /\ n \in Nat
  BY CacheAssumption, FS_CardinalityType, Zenon DEF CacheAssumption
<1>2. Cardinality(1..n) = n
  BY <1>1, FS_Interval
<1>3. lru \in Injection(1..n, Bufs)
  BY Zenon DEF Injection, IsInjective
<1>4. lru \in Surjection(1..n, Bufs)
  BY <1>1, <1>2, <1>3, FS_Injection, Zenon
<1>5. \A b \in Bufs : \E i \in 1..n : lru[i] = b
  BY <1>4, Zenon DEF Surjection
<1>6. lru \in Seq(Bufs) /\ Len(lru) = n
  BY <1>1, SeqOf, Zenon
<1> QED BY <1>5, <1>6, Zenon

LEMMA InitInv == Init => CacheInv
<1> SUFFICES ASSUME Init PROVE CacheInv
  BY Zenon
<1>1. lru \in Seq(Bufs) /\ \A b \in Bufs : \E i \in 1..Len(lru) : lru[i] = b
  BY AllListed, Zenon DEF Init
<1>2. TypeOK
  BY <1>1 DEF Init, TypeOK, Places
<1>3. ProcInv
  BY Zenon DEF Init, ProcInv, InOwner
<1>4. BufInv
  <2>1. \A b \in Bufs : Users(b) = {}
    BY Distinctness, Zenon DEF Init, Users
  <2>2. Cardinality({}) = 0
    BY FS_EmptySet, Zenon
  <2>3. \A b \in Bufs : refcnt[b] = Cardinality(Users(b))
    BY <2>1, <2>2, Zenon DEF Init
  <2> QED BY <1>1, <2>3, Zenon DEF Init, BufInv
<1>5. QueueInv
  BY DEF Init, QueueInv
<1>6. DataInv
  BY Zenon DEF Init, DataInv
<1> QED BY <1>2, <1>3, <1>4, <1>5, <1>6, Zenon DEF CacheInv

LEMMA NextInv ==
  ASSUME ReadOk \subseteq {TRUE}, CacheInv, [Next]_vars
  PROVE  CacheInv'
<1>1. CASE UNCHANGED vars
  <2>1. TypeOK' /\ ProcInv' /\ BufInv' /\ QueueInv' /\ DataInv'
    <3> USE <1>1 DEF vars, CacheInv
    <3>1. TypeOK'
      BY Zenon DEF TypeOK
    <3>2. \A b : Queued(b)' = Queued(b) /\ Synced(b)' = Synced(b) /\ Users(b)' = Users(b)
                 /\ idestart(b)' = idestart(b)
      BY Zenon DEF Queued, Synced, Users, idestart
    <3>3. ProcInv'
      BY <3>2, Zenon DEF ProcInv
    <3>4. BufInv'
      BY <3>2, Zenon DEF BufInv
    <3>5. QueueInv'
      BY <3>2, Zenon DEF QueueInv
    <3>6. DataInv'
      BY Zenon DEF DataInv
    <3> QED BY <3>1, <3>3, <3>4, <3>5, <3>6, Zenon
  <2> QED BY <2>1, Zenon DEF CacheInv
<1>2. ASSUME NEW ok \in ReadOk, ideintr(ok) PROVE CacheInv'
  <2>1. ideintr(TRUE)
    BY <1>2, Zenon
  <2> QED BY <2>1, ideintrInv, Zenon
<1>3. CASE \E p \in Procs : \/ acquiresleep(p) \/ releasesleep(p) \/ brelse(p)
                            \/ iderw(p) \/ iderw_loop(p) \/ kill(p)
  BY <1>3, acquiresleepInv, releasesleepInv, brelseInv, iderwInv, iderw_loopInv, killInv, Zenon
<1>4. CASE \E p \in Procs : \E blk \in Blocks : bget(p, blk)
  BY <1>4, bgetInv, Zenon
<1>5. CASE \E p \in Procs : \E v \in Values : bwrite(p, v) \/ log_write(p, v)
  BY <1>5, WriterInv, Zenon
<1> QED BY <1>1, <1>2, <1>3, <1>4, <1>5, Zenon DEF Next

\* References, owners, flags, the list, the disk queue and the contents of the
\* buffers agree at every step of bget(), brelse(), bwrite(), iderw() and
\* ideintr(), as long as the disk reports no read error.
THEOREM CacheCorrect ==
  ASSUME ReadOk \subseteq {TRUE}
  PROVE  Spec => []CacheInv
BY InitInv, NextInv, PTL DEF Spec

\* What bread() returns is the block asked for, with what was last written to
\* it, for any number of processes, buffers and blocks.
THEOREM BreadCoherent ==
  ASSUME ReadOk \subseteq {TRUE}
  PROVE  Spec => []Coherent
<1>1. CacheInv => Coherent
  <2> SUFFICES ASSUME CacheInv, NEW p \in Procs, pc[p] = "hold"
               PROVE  block[buf[p]] = want[p] /\ data[buf[p]] = last[want[p]]
    BY Zenon DEF Coherent
  <2>1. buf[p] \in Bufs /\ block[buf[p]] = want[p] /\ want[p] \in Blocks
    BY UserFacts, Zenon
  <2>2. buf[p] \in valid
    BY Zenon DEF CacheInv, ProcInv
  <2> QED BY <2>1, <2>2, Distinctness, Zenon DEF CacheInv, DataInv
<1> QED BY <1>1, CacheCorrect, PTL

\* One process at a time has a block's buffer after bread(), and a block never
\* has two buffers.
THEOREM OneUserPerBlock ==
  ASSUME ReadOk \subseteq {TRUE}
  PROVE  Spec => []Exclusive
<1>1. CacheInv => Exclusive
  <2> SUFFICES ASSUME CacheInv PROVE Exclusive
    BY Zenon
  <2>1. \A b, c \in Bufs : block[b] = block[c] /\ block[b] # None => b = c
    BY Zenon DEF CacheInv, BufInv
  <2>2. ASSUME NEW p \in Procs, NEW q \in Procs, pc[p] = "hold", pc[q] = "hold", want[p] = want[q]
        PROVE  p = q
    <3>1. /\ buf[p] \in Bufs /\ block[buf[p]] = want[p] /\ want[p] # None
          /\ buf[q] \in Bufs /\ block[buf[q]] = want[q]
      BY <2>2, UserFacts, Distinctness, Zenon
    <3>2. buf[p] = buf[q]
      BY <2>1, <2>2, <3>1, Zenon
    <3>3. owner[buf[p]] = p /\ owner[buf[q]] = q
      BY <2>2, Zenon DEF CacheInv, ProcInv, InOwner
    <3> QED BY <3>2, <3>3, Zenon
  <2> QED BY <2>1, <2>2, Zenon DEF Exclusive
<1> QED BY <1>1, CacheCorrect, PTL

\* The panics of bwrite(), brelse() and iderw() are not reached.
THEOREM NeverIoPanic ==
  ASSUME ReadOk \subseteq {TRUE}
  PROVE  Spec => []NoIoPanic
<1>1. CacheInv => NoIoPanic
  BY Zenon DEF CacheInv, ProcInv, InOwner, NoIoPanic
<1> QED BY <1>1, CacheCorrect, PTL

\* Whoever sleeps in acquiresleep() or iderw() waits for an owner, or for a
\* request the disk will serve.
THEOREM NoSleeperForgotten ==
  ASSUME ReadOk \subseteq {TRUE}
  PROVE  Spec => []SleepersWait
<1>1. CacheInv => SleepersWait
  <2> SUFFICES ASSUME CacheInv PROVE SleepersWait
    BY Zenon
  <2>1. idequeue # << >> => device # Idle
    <3> SUFFICES ASSUME idequeue # << >> PROVE device # Idle
      BY Zenon
    <3>1. device = idestart(Head(idequeue)) /\ Head(idequeue) \in Bufs
      BY DEF CacheInv, QueueInv, TypeOK
    <3> QED BY <3>1, Distinctness DEF CacheInv, TypeOK, idestart
  <2> QED BY <2>1, Zenon DEF CacheInv, ProcInv, Queued, SleepersWait
<1> QED BY <1>1, CacheCorrect, PTL
=============================================================================
