-------------------------- MODULE ComponentProofs ---------------------------
(***************************************************************************)
(* Proofs about three components. The executor connection, for any number  *)
(* of callers and of calls: a caller that has its reply has nothing        *)
(* running on its behalf. The sandbox pool, for any number of spares,      *)
(* launches, replenishments and restarts: no spare is leaked, and none     *)
(* that is being deleted is put to use. Lifecycle reports, for any number  *)
(* of sessions, however reports are lost, delayed and reordered and stores *)
(* fail: the usage updates converge and the quota of active actors holds.  *)
(***************************************************************************)
EXTENDS SparePool, Executor, Lifecycle, FiniteSetTheorems, TLAPS

-----------------------------------------------------------------------------
(* The executor connection.                                                *)

(* database_ids and connection_lookup_ids hold every caller with a call    *)
(* under way, and none has two of a kind.                                  *)
Tracked ==
    /\ exchange \in [Caller -> [command : Command,
                                state : {"idle", "queued", "pending", "replied", "failed"}]]
    /\ calling \in [Caller -> {0, 1}]
    /\ looking \in [Caller -> {0, 1}]
    /\ \A c \in Caller : (calling[c] = 1 => c \in database) /\ (looking[c] = 1 => c \in lookup)

ConnectionInv == Tracked /\ RepliedIsQuiet

(* The end of the driver aborts the calls and fails who waits.             *)
LEMMA EndKeeps == ConnectionInv /\ End => ConnectionInv'
  BY DEF ConnectionInv, Tracked, RepliedIsQuiet, End

(* A new connection is idle.                                               *)
LEMMA ConnectionInit == ExecutorInit => ConnectionInv
  BY DEF ExecutorInit, ConnectionInv, Tracked, RepliedIsQuiet, Command

(* Every step of the driver, of the callers and of the actor's process     *)
(* keeps track of the calls.                                               *)
LEMMA ConnectionNext == ConnectionInv /\ [ExecutorNext]_executorVars => ConnectionInv'
<1> SUFFICES ASSUME ConnectionInv, [ExecutorNext]_executorVars
             PROVE  ConnectionInv'
  OBVIOUS
<1>1. CASE UNCHANGED executorVars
  BY <1>1 DEF executorVars, ConnectionInv, Tracked, RepliedIsQuiet
<1>2. CASE Attach
  BY <1>2 DEF Attach, ConnectionInv, Tracked, RepliedIsQuiet
<1>3. CASE ProcessGone
  BY <1>3, EndKeeps DEF ProcessGone
<1>4. ASSUME NEW c \in Caller, NEW command \in Command, Exchange(c, command)
      PROVE  ConnectionInv'
  BY <1>4 DEF Exchange, ConnectionInv, Tracked, RepliedIsQuiet
<1>5. ASSUME NEW c \in Caller, Enqueue(c)
      PROVE  ConnectionInv'
  BY <1>5 DEF Enqueue, Becomes, ConnectionInv, Tracked, RepliedIsQuiet
<1>6. ASSUME NEW c \in Caller, AllowNextInvocation(c)
      PROVE  ConnectionInv'
  BY <1>6, EndKeeps DEF AllowNextInvocation, ConnectionInv, Tracked, RepliedIsQuiet
<1>7. ASSUME NEW c \in Caller, CallDatabase(c)
      PROVE  ConnectionInv'
  BY <1>7, EndKeeps DEF CallDatabase, Pending, ConnectionInv, Tracked, RepliedIsQuiet
<1>8. ASSUME NEW c \in Caller, DatabaseCalled(c)
      PROVE  ConnectionInv'
  BY <1>8 DEF DatabaseCalled, ConnectionInv, Tracked, RepliedIsQuiet
<1>9. ASSUME NEW c \in Caller, LoadConnections(c)
      PROVE  ConnectionInv'
  BY <1>9, EndKeeps DEF LoadConnections, Pending, ConnectionInv, Tracked, RepliedIsQuiet
<1>10. ASSUME NEW c \in Caller, ConnectionsLoaded(c)
       PROVE  ConnectionInv'
  BY <1>10 DEF ConnectionsLoaded, ConnectionInv, Tracked, RepliedIsQuiet
<1>11. ASSUME NEW c \in Caller, PublishEffects(c)
       PROVE  ConnectionInv'
  BY <1>11, EndKeeps DEF PublishEffects
<1>12. ASSUME NEW c \in Caller, DeliverReply(c)
       PROVE  ConnectionInv'
  BY <1>12, EndKeeps DEF DeliverReply, Becomes, ConnectionInv, Tracked, RepliedIsQuiet
<1> QED
  BY <1>1, <1>2, <1>3, <1>4, <1>5, <1>6, <1>7, <1>8, <1>9, <1>10, <1>11, <1>12 DEF ExecutorNext

(* deliver ends the connection rather than hand over a reply too early, so *)
(* that a caller with its reply has no database call or lookup running.    *)
THEOREM RepliesAreQuiet == ExecutorSpec => []RepliedIsQuiet
<1>1. ExecutorSpec => []ConnectionInv
  BY ConnectionInit, ConnectionNext, PTL DEF ExecutorSpec
<1> QED
  BY <1>1, PTL DEF ConnectionInv

-----------------------------------------------------------------------------
(* The sandbox pool.                                                       *)

PoolType ==
    /\ spares \in [Name -> Rows \cup {Absent}]
    /\ pod \in [Name -> {"none", "pending", "ready", "assigned"}]
    /\ making \in [Name -> {"none", "create", "wait", "made", "failed", "done"}]
    /\ launch \in [Launch -> [pc : {"claim", "create", "assign", "remember", "failed", "done"},
                              name : Name \cup {Absent}]]
    /\ \A l \in Launch : launch[l].pc \in {"create", "assign", "remember"} => launch[l].name \in Name
    /\ cleaning \subseteq Name

(* What holds of every name. A row that cleanup is about to delete is      *)
(* retiring; a launch that has reserved nothing has no row of its own; a   *)
(* spare that was not built yet has nothing; the reservation of a spare    *)
(* outlives the call that creates it; and no spare is leaked.              *)
Kept(n) ==
    /\ n \in cleaning /\ spares[n] # Absent => spares[n].status = "retiring"
    /\ n \in Launch /\ launch[n].pc = "claim" => spares[n] = Absent /\ n \notin cleaning
    /\ n \in Spare =>
         /\ making[n] = "none" => spares[n] = Absent /\ n \notin cleaning /\ pod[n] = "none"
         /\ making[n] \in {"create", "wait", "failed"} =>
              /\ spares[n] # Absent
              /\ spares[n].status = "starting"
              /\ ~spares[n].expired
              /\ spares[n].host = Absent
         /\ pod[n] \in {"pending", "ready"} => spares[n] # Absent

PoolInv == PoolType /\ \A n \in Name : Kept(n)

-----------------------------------------------------------------------------
(* Row makes a row.                                                        *)
LEMMA RowType ==
    ASSUME NEW status \in {"starting", "ready", "claimed", "active", "retiring"},
           NEW handle \in BOOLEAN, NEW h \in Launch \cup {Absent}
    PROVE  /\ Row(status, handle, h) \in Rows
           /\ Row(status, handle, h) # Absent
           /\ Row(status, handle, h).status = status
           /\ Row(status, handle, h).host = h
           /\ Row(status, handle, h).expired = FALSE
<1>1. Row(status, handle, h) \in Rows
  BY DEF Row, Rows
<1> QED
  BY <1>1, PoolConstants DEF Row

(* Retiring marks the rows of a set and leaves the others.                 *)
LEMMA RetiringKeeps ==
    ASSUME PoolType, NEW S
    PROVE  /\ Retiring(S) \in [Name -> Rows \cup {Absent}]
           /\ \A n \in Name : (Retiring(S)[n] = Absent) <=> (spares[n] = Absent)
           /\ \A n \in Name \ S : Retiring(S)[n] = spares[n]
           /\ \A n \in Name : spares[n] # Absent /\ (n \in S \/ spares[n].status = "retiring")
                => Retiring(S)[n].status = "retiring"
<1>1. ASSUME NEW n \in Name, n \in S, spares[n] # Absent
      PROVE  LET r == [spares[n] EXCEPT !.status = "retiring", !.expired = FALSE]
             IN  r \in Rows /\ r # Absent /\ r.status = "retiring"
  BY <1>1, PoolConstants DEF PoolType, Rows
<1>2. ASSUME NEW n \in Name
      PROVE  Retiring(S)[n] = IF n \in S /\ spares[n] # Absent
               THEN [spares[n] EXCEPT !.status = "retiring", !.expired = FALSE] ELSE spares[n]
  BY DEF Retiring
<1>3. Retiring(S) \in [Name -> Rows \cup {Absent}]
  BY <1>1, <1>2 DEF Retiring, PoolType
<1> QED
  BY <1>1, <1>2, <1>3, Zenon

(* A pod appears only while the reservation of its row stands.             *)
LEMMA CreatePodKeeps == ASSUME PoolInv, NEW x \in Name, CreatePod(x) PROVE PoolInv'
<1>1. PoolType'
  BY DEF CreatePod, PoolInv, PoolType, Name
<1>2. ASSUME NEW n \in Name PROVE Kept(n)'
  BY DEF CreatePod, PoolInv, PoolType, Kept, Name
<1> QED
  BY <1>1, <1>2 DEF PoolInv

(* A pod that becomes ready has its row already.                           *)
LEMMA PodReadyKeeps == ASSUME PoolInv, NEW x \in Name, PodReady(x) PROVE PoolInv'
<1>1. PoolType'
  BY DEF PodReady, PoolInv, PoolType, Name
<1>2. ASSUME NEW n \in Name PROVE Kept(n)'
  BY DEF PodReady, PoolInv, PoolType, Kept, Name
<1> QED
  BY <1>1, <1>2 DEF PoolInv

(* A pod that is gone needs no row.                                        *)
LEMMA PodFinishesKeeps == ASSUME PoolInv, NEW x \in Name, PodFinishes(x) PROVE PoolInv'
<1>1. PoolType'
  BY DEF PodFinishes, Deleted, PoolInv, PoolType, Name
<1>2. ASSUME NEW n \in Name PROVE Kept(n)'
  BY DEF PodFinishes, Deleted, PoolInv, PoolType, Kept, Name
<1> QED
  BY <1>1, <1>2 DEF PoolInv

(* The end of the creation leaves row and pod alone.                       *)
LEMMA MadeKeeps == ASSUME PoolInv, NEW x \in Name, Made(x) PROVE PoolInv'
<1>1. PoolType'
  BY DEF Made, PoolInv, PoolType, Name
<1>2. ASSUME NEW n \in Name PROVE Kept(n)'
  BY DEF Made, PoolInv, PoolType, Kept, Name
<1> QED
  BY <1>1, <1>2 DEF PoolInv

(* A failed creation may leave a pod, whose row is still starting.         *)
LEMMA MakingFailsKeeps == ASSUME PoolInv, NEW x \in Name, MakingFails(x) PROVE PoolInv'
<1>1. PoolType'
  BY DEF MakingFails, Deleted, PoolInv, PoolType, Name
<1>2. ASSUME NEW n \in Name PROVE Kept(n)'
  BY DEF MakingFails, Deleted, PoolInv, PoolType, Kept, Name
<1> QED
  BY <1>1, <1>2 DEF PoolInv

(* publish offers the spare, or leaves a row that has expired.             *)
LEMMA PublishSpareKeeps == ASSUME PoolInv, NEW x \in Name, PublishSpare(x) PROVE PoolInv'
<1> DEFINE r == Row("ready", TRUE, Absent)
<1>1. r \in Rows /\ r # Absent /\ r.status = "ready" /\ r.host = Absent /\ r.expired = FALSE
  <2>1. r \in Rows
    BY DEF Row, Rows
  <2> QED
    BY <2>1, PoolConstants DEF Row
<1>2. \/ Has(x, "starting") /\ spares' = [spares EXCEPT ![x] = r] /\ pod' = pod
      \/ spares' = spares /\ pod' \in {pod, [pod EXCEPT ![x] = "none"]}
  BY DEF PublishSpare, Holding, Has, Deleted
<1> HIDE DEF r
<1>3. PoolType'
  BY <1>1, <1>2 DEF PublishSpare, Holding, Has, Deleted, PoolInv, PoolType, Name
<1>4. ASSUME NEW n \in Name PROVE Kept(n)'
  BY <1>1, <1>2, PoolConstants DEF PublishSpare, Holding, Has, Deleted, PoolInv, PoolType, Kept, Name
<1> QED
  BY <1>3, <1>4 DEF PoolInv

(* build_failed keeps the row of the spare, for cleanup.                   *)
LEMMA BuildFailedKeeps == ASSUME PoolInv, NEW x \in Name, BuildFailed(x) PROVE PoolInv'
<1>a. spares' = spares \/ spares' = Retiring({x} \cap RowsIn("starting"))
  BY Zenon DEF BuildFailed
<1>1. PoolType'
  <2>1. CASE spares' = spares
    BY <2>1 DEF BuildFailed, PoolInv, PoolType
  <2>2. CASE spares' = Retiring({x} \cap RowsIn("starting"))
    BY <2>2, RetiringKeeps DEF BuildFailed, RowsIn, Has, PoolInv, PoolType, Name
  <2> QED
    BY <1>a, <2>1, <2>2
<1>2. ASSUME NEW n \in Name PROVE Kept(n)'
  <2>1. CASE spares' = spares
    BY <2>1 DEF BuildFailed, PoolInv, PoolType, Kept, Name
  <2>2. CASE spares' = Retiring({x} \cap RowsIn("starting"))
    BY <2>2, RetiringKeeps DEF BuildFailed, RowsIn, Has, PoolInv, PoolType, Kept, Name
  <2> QED
    BY <1>a, <2>1, <2>2
<1> QED
  BY <1>1, <1>2 DEF PoolInv

(* A reservation expires only after the call that creates the pod.         *)
LEMMA RowExpiresKeeps == ASSUME PoolInv, NEW x \in Name, RowExpires(x) PROVE PoolInv'
<1> DEFINE r == [spares[x] EXCEPT !.expired = TRUE]
<1>0. /\ spares[x] # Absent /\ spares[x].status \in {"starting", "ready", "claimed"}
      /\ spares[x].status = "starting" => making[x] \in {"made", "done"}
  BY Zenon DEF RowExpires, Holding, Has
<1>a. spares[x] \in Rows
  BY <1>0 DEF PoolInv, PoolType
<1>1. r \in Rows /\ r # Absent /\ r.status = spares[x].status
  BY <1>a, PoolConstants DEF Rows
<1>2. spares' = [spares EXCEPT ![x] = r]
  BY DEF RowExpires
<1> HIDE DEF r
<1>3. PoolType'
  BY <1>0, <1>1, <1>2 DEF RowExpires, PoolInv, PoolType
<1>4. ASSUME NEW n \in Name PROVE Kept(n)'
  <2>1. /\ Kept(n)
        /\ n # x => spares'[n] = spares[n]
        /\ n = x => spares'[n] = r
    BY <1>2, <1>4, Zenon DEF PoolInv, PoolType
  <2>2. UNCHANGED <<pod, making, launch, cleaning>>
    BY DEF RowExpires
  <2>3. n = x /\ n \in Spare => making[n] \notin {"create", "wait", "failed"}
    <3>1. n \in Spare /\ making[n] \in {"create", "wait", "failed"} => spares[n].status = "starting"
      BY <2>1, Zenon DEF Kept
    <3> QED
      BY <1>0, <3>1
  <2>4. CASE n # x
    BY <2>1, <2>2, <2>4, Zenon DEF Kept
  <2>5. CASE n = x
    BY <1>0, <1>1, <2>1, <2>2, <2>3, <2>5, ZenonT(30) DEF Kept
  <2> QED
    BY <2>4, <2>5
<1> QED
  BY <1>3, <1>4 DEF PoolInv

(* retire deletes the pod before the row.                                  *)
LEMMA RetireKeeps == ASSUME PoolInv, NEW x \in Name, Retire(x) PROVE PoolInv'
<1>1. PoolType'
  BY DEF Retire, Has, Deleted, PoolInv, PoolType, Name
<1>2. ASSUME NEW n \in Name PROVE Kept(n)'
  BY DEF Retire, Has, Deleted, PoolInv, PoolType, Kept, Name
<1> QED
  BY <1>1, <1>2 DEF PoolInv

(* A deletion that fails leaves the row.                                   *)
LEMMA RetireFailsKeeps == ASSUME PoolInv, NEW x \in Name, RetireFails(x) PROVE PoolInv'
<1>1. PoolType'
  BY DEF RetireFails, Deleted, PoolInv, PoolType, Name
<1>2. ASSUME NEW n \in Name PROVE Kept(n)'
  BY DEF RetireFails, Deleted, PoolInv, PoolType, Kept, Name
<1> QED
  BY <1>1, <1>2 DEF PoolInv

(* claim takes a ready row, which cleanup has not listed.                  *)
LEMMA ClaimKeeps == ASSUME PoolInv, NEW l \in Launch, Claim(l) PROVE PoolInv'
<1> DEFINE r == Row("claimed", TRUE, l)
<1>1. r \in Rows /\ r # Absent /\ r.status = "claimed"
  <2>1. r \in Rows
    BY DEF Row, Rows
  <2> QED
    BY <2>1, PoolConstants DEF Row
<1>2. PICK m \in Name :
        /\ spares[m] # Absent /\ spares[m].status = "ready"
        /\ spares' = [spares EXCEPT ![m] = r]
        /\ launch' = [launch EXCEPT ![l] = [pc |-> "assign", name |-> m]]
  BY DEF Claim, Holding, Has
<1> HIDE DEF r
<1>3. PoolType'
  BY <1>1, <1>2 DEF Claim, PoolInv, PoolType
<1>4. ASSUME NEW n \in Name PROVE Kept(n)'
  <2>1. /\ Kept(n)
        /\ n # m => spares'[n] = spares[n]
        /\ n = m => spares'[n] = r
    BY <1>2, <1>4, Zenon DEF PoolInv, PoolType
  <2>2. UNCHANGED <<pod, making, cleaning>>
    BY DEF Claim
  <2>3. n \in Launch =>
          \/ n # l /\ launch'[n] = launch[n]
          \/ launch'[n].pc = "assign"
    BY <1>2 DEF PoolInv, PoolType
  <2> QED
    <3>1. n \in Launch /\ launch'[n].pc = "claim" => launch[n].pc = "claim"
      BY <2>3
    <3>2. CASE n # m
      BY <2>1, <2>2, <3>1, <3>2, Zenon DEF Kept
    <3>3. CASE n = m
      <4>1. spares[n] # Absent /\ spares[n].status = "ready"
        BY <1>2, <3>3
      <4>2. /\ n \notin cleaning
            /\ n \in Spare => making[n] \notin {"none", "create", "wait", "failed"}
        BY <2>1, <4>1 DEF Kept
      <4>3. ~(n \in Launch /\ launch'[n].pc = "claim") /\ spares'[n] # Absent
        BY <1>1, <2>1, <3>1, <3>3, <4>1, Zenon DEF Kept
      <4> QED
        BY <2>2, <4>2, <4>3 DEF Kept
    <3> QED
      BY <3>2, <3>3
<1> QED
  BY <1>3, <1>4 DEF PoolInv

(* reserve_host writes the row of a name nobody has listed.                *)
LEMMA ReserveHostKeeps == ASSUME PoolInv, NEW l \in Launch, ReserveHost(l) PROVE PoolInv'
<1> DEFINE r == Row("claimed", FALSE, l)
           w == [pc |-> "create", name |-> l]
<1>1. r \in Rows /\ r # Absent /\ r.status = "claimed"
  BY RowType
<1>2. /\ spares' = [spares EXCEPT ![l] = r] /\ launch[l].pc = "claim"
      /\ launch' = [launch EXCEPT ![l] = w]
      /\ making' = [making EXCEPT ![l] = "create"]
      /\ UNCHANGED <<pod, cleaning>>
  BY DEF ReserveHost, AtL
<1>3. l \in Name /\ l \notin Spare
  BY PoolConstants DEF Name
<1>4. /\ w \in [pc : {"claim", "create", "assign", "remember", "failed", "done"},
                 name : Name \cup {Absent}]
      /\ w.name \in Name /\ w.pc = "create"
  BY <1>3
<1> HIDE DEF r, w
<1>5. PoolType'
  BY <1>1, <1>2, <1>3, <1>4 DEF PoolInv, PoolType
<1>6. ASSUME NEW n \in Name PROVE Kept(n)'
  BY <1>1, <1>2, <1>3, <1>4 DEF PoolInv, PoolType, Kept
<1> QED
  BY <1>5, <1>6 DEF PoolInv

(* The end of ensure_host touches no row.                                  *)
LEMMA HostCreatedKeeps == ASSUME PoolInv, NEW l \in Launch, HostCreated(l) PROVE PoolInv'
<1>1. PoolType'
  BY PoolConstants DEF HostCreated, AtL, GoesL, PoolInv, PoolType, Name
<1>2. ASSUME NEW n \in Name PROVE Kept(n)'
  BY PoolConstants DEF HostCreated, AtL, GoesL, PoolInv, PoolType, Kept, Name
<1> QED
  BY <1>1, <1>2 DEF PoolInv

(* assign turns a ready pod into a host.                                   *)
LEMMA AssignKeeps == ASSUME PoolInv, NEW l \in Launch, Assign(l) PROVE PoolInv'
<1>1. PoolType'
  BY PoolConstants DEF Assign, AtL, GoesL, PoolInv, PoolType, Name
<1>2. ASSUME NEW n \in Name PROVE Kept(n)'
  BY PoolConstants DEF Assign, AtL, GoesL, PoolInv, PoolType, Kept, Name
<1> QED
  BY <1>1, <1>2 DEF PoolInv

(* A failed assignment deletes the pod, assigns it or leaves it.           *)
LEMMA AssignFailsKeeps == ASSUME PoolInv, NEW l \in Launch, AssignFails(l) PROVE PoolInv'
<1>1. PoolType'
  BY PoolConstants DEF AssignFails, AtL, GoesL, Deleted, PoolInv, PoolType, Name
<1>2. ASSUME NEW n \in Name PROVE Kept(n)'
  BY PoolConstants DEF AssignFails, AtL, GoesL, Deleted, PoolInv, PoolType, Kept, Name
<1> QED
  BY <1>1, <1>2 DEF PoolInv

(* remember touches a claimed row only, never one that is retiring.        *)
LEMMA RememberHostKeeps == ASSUME PoolInv, NEW l \in Launch, RememberHost(l) PROVE PoolInv'
<1> DEFINE m == launch[l].name
           r == Row("active", TRUE, l)
<1>1. r \in Rows /\ r # Absent /\ r.status = "active"
  BY RowType
<1>2. m \in Name
  BY DEF RememberHost, AtL, PoolInv, PoolType
<1>3. /\ \/ /\ spares[m] # Absent /\ spares[m].status = "claimed"
            /\ spares' = [spares EXCEPT ![m] = r]
         \/ spares' = spares
      /\ \E pc \in {"done", "failed"} : launch' = [launch EXCEPT ![l].pc = pc]
  BY DEF RememberHost, GoesL, Holding, Has
<1> HIDE DEF r, m
<1>4. PoolType'
  BY <1>1, <1>2, <1>3 DEF RememberHost, PoolInv, PoolType
<1>5. ASSUME NEW n \in Name PROVE Kept(n)'
  BY <1>1, <1>2, <1>3 DEF RememberHost, PoolInv, PoolType, Kept
<1> QED
  BY <1>4, <1>5 DEF PoolInv

(* failed retires the rows of its host.                                    *)
LEMMA FailedKeeps == ASSUME PoolInv, NEW l \in Launch, Failed(l) PROVE PoolInv'
<1>1. PoolType'
  BY RetiringKeeps, PoolConstants DEF Failed, AtL, GoesL, PoolInv, PoolType, Name
<1>2. ASSUME NEW n \in Name PROVE Kept(n)'
  BY RetiringKeeps, PoolConstants DEF Failed, AtL, GoesL, PoolInv, PoolType, Kept, Name
<1> QED
  BY <1>1, <1>2 DEF PoolInv

(* A launch that is lost may leave the pod of its own sandbox.             *)
LEMMA LaunchLostKeeps == ASSUME PoolInv, NEW l \in Launch, LaunchLost(l) PROVE PoolInv'
<1>1. PoolType'
  BY PoolConstants DEF LaunchLost, GoesL, PoolInv, PoolType, Name
<1>2. ASSUME NEW n \in Name PROVE Kept(n)'
  BY PoolConstants DEF LaunchLost, GoesL, PoolInv, PoolType, Kept, Name
<1> QED
  BY <1>1, <1>2 DEF PoolInv

(* replenish retires ready rows and reserves names never used.             *)
LEMMA ReplenishKeeps == ASSUME PoolInv, Replenish PROVE PoolInv'
<1> DEFINE r == Row("starting", FALSE, Absent)
<1>1. r \in Rows /\ r # Absent /\ r.status = "starting" /\ r.host = Absent /\ r.expired = FALSE
  <2>1. r \in Rows
    BY DEF Row, Rows
  <2> QED
    BY <2>1, PoolConstants DEF Row
<1>2. PICK trimmed \in SUBSET RowsIn("ready"), new \in SUBSET {n \in Spare : making[n] = "none"} :
        /\ spares' = [n \in Name |-> IF n \in new THEN r ELSE Retiring(trimmed)[n]]
        /\ making' = [n \in Name |-> IF n \in new THEN "create" ELSE making[n]]
  BY Zenon DEF Replenish
<1> HIDE DEF r
<1>3. PoolType
  BY DEF PoolInv
<1>4. ASSUME NEW n \in Name, n \notin new
      PROVE  /\ spares'[n] \in Rows \cup {Absent}
             /\ spares'[n] = Absent <=> spares[n] = Absent
             /\ ~(Has(n, "ready") \/ Has(n, "retiring")) => spares'[n] = spares[n]
             /\ Has(n, "retiring") => spares'[n].status = "retiring"
             /\ making'[n] = making[n]
  <2>1. spares'[n] = Retiring(trimmed)[n] /\ making'[n] = making[n]
    BY <1>2, <1>4
  <2>2. n \in trimmed => Has(n, "ready")
    BY DEF RowsIn
  <2> QED
    BY <1>3, <2>1, <2>2, RetiringKeeps, Zenon DEF Has
<1>5. ASSUME NEW n \in new
      PROVE  spares'[n] = r /\ making'[n] = "create" /\ n \in Spare /\ making[n] = "none"
  BY <1>2 DEF Name
<1>6. UNCHANGED <<pod, launch, cleaning>>
  BY DEF Replenish
<1>7. PoolType'
  <2>1. spares' \in [Name -> Rows \cup {Absent}]
    BY <1>1, <1>2, <1>4, <1>5
  <2>2. making' \in [Name -> {"none", "create", "wait", "made", "failed", "done"}]
    BY <1>2, <1>3 DEF PoolType
  <2> QED
    BY <1>3, <1>6, <2>1, <2>2 DEF PoolType
<1>8. ASSUME NEW n \in Name PROVE Kept(n)'
  <2>1. CASE n \in new
    BY <1>1, <1>5, <1>6, <2>1, PoolConstants DEF PoolInv, Kept
  <2>2. CASE n \notin new
    BY <1>4, <1>6, <2>2 DEF PoolInv, Kept, Has
  <2> QED
    BY <2>1, <2>2
<1> QED
  BY <1>7, <1>8 DEF PoolInv

(* retire_unwanted turns rows into retiring ones.                          *)
LEMMA RetireUnwantedKeeps == ASSUME PoolInv, RetireUnwanted PROVE PoolInv'
<1>1. PoolType'
  BY RetiringKeeps DEF RetireUnwanted, Unwanted, RowsIn, Has, PoolInv, PoolType, Name
<1>2. ASSUME NEW n \in Name PROVE Kept(n)'
  BY RetiringKeeps, SMTT(60) DEF RetireUnwanted, Unwanted, RowsIn, Has, PoolInv, PoolType, Kept, Name
<1> QED
  BY <1>1, <1>2 DEF PoolInv

(* cleanup lists retiring rows.                                            *)
LEMMA StartCleanupKeeps == ASSUME PoolInv, StartCleanup PROVE PoolInv'
<1>1. PoolType'
  BY DEF StartCleanup, RowsIn, Has, PoolInv, PoolType, Name
<1>2. ASSUME NEW n \in Name PROVE Kept(n)'
  BY DEF StartCleanup, RowsIn, Has, PoolInv, PoolType, Kept, Name
<1> QED
  BY <1>1, <1>2 DEF PoolInv

(* Listing the hosts changes no row.                                       *)
LEMMA ListHostsKeeps == ASSUME PoolInv, ListHosts PROVE PoolInv'
<1>1. PoolType'
  BY DEF ListHosts, PoolInv, PoolType, Name
<1>2. ASSUME NEW n \in Name PROVE Kept(n)'
  BY DEF ListHosts, PoolInv, PoolType, Kept, Name
<1> QED
  BY <1>1, <1>2 DEF PoolInv

(* forget_stopped removes the rows of pods that are gone.                  *)
LEMMA ForgetStoppedKeeps == ASSUME PoolInv, ForgetStopped PROVE PoolInv'
<1>1. PoolType'
  BY DEF ForgetStopped, Alive, Has, PoolInv, PoolType, Name
<1>2. ASSUME NEW n \in Name PROVE Kept(n)'
  BY DEF ForgetStopped, Alive, Has, PoolInv, PoolType, Kept, Name
<1> QED
  BY <1>1, <1>2 DEF PoolInv

(* A restart may leave a pod behind, whose row is still starting.          *)
LEMMA RestartManagerKeeps == ASSUME PoolInv, RestartManager PROVE PoolInv'
<1>1. PoolType'
  BY DEF RestartManager, PoolInv, PoolType, Name
<1>2. ASSUME NEW n \in Name PROVE Kept(n)'
  BY DEF RestartManager, PoolInv, PoolType, Kept, Name
<1> QED
  BY <1>1, <1>2 DEF PoolInv

(* retire_config turns rows into retiring ones.                            *)
LEMMA RetireConfigKeeps == ASSUME PoolInv, RetireConfig PROVE PoolInv'
<1>1. PoolType'
  BY RetiringKeeps DEF RetireConfig, PoolInv, PoolType, Name
<1>2. ASSUME NEW n \in Name PROVE Kept(n)'
  BY RetiringKeeps DEF RetireConfig, PoolInv, PoolType, Kept, Name
<1> QED
  BY <1>1, <1>2 DEF PoolInv

-----------------------------------------------------------------------------
(* The invariant holds of the empty pool.                                  *)
LEMMA PoolInitially == PoolInit => PoolInv
<1> SUFFICES ASSUME PoolInit PROVE PoolInv
  OBVIOUS
<1>1. PoolType
  BY DEF PoolInit, PoolType
<1>2. ASSUME NEW n \in Name PROVE Kept(n)
  BY DEF PoolInit, Kept
<1> QED
  BY <1>1, <1>2 DEF PoolInv

(* Every step of the pods, the manager and the launches preserves it.      *)
LEMMA PoolInductive == PoolInv /\ [PoolNext]_poolVars => PoolInv'
<1> SUFFICES ASSUME PoolInv, [PoolNext]_poolVars PROVE PoolInv'
  OBVIOUS
<1>1. ASSUME NEW n \in Name, PodStep(n) PROVE PoolInv'
  BY <1>1, CreatePodKeeps, PodReadyKeeps, PodFinishesKeeps, MadeKeeps, MakingFailsKeeps, Zenon
     DEF PodStep
<1>2. CASE ManagerStep
  <2>1. ASSUME NEW n \in Name,
               PublishSpare(n) \/ BuildFailed(n) \/ RowExpires(n) \/ Retire(n) \/ RetireFails(n)
        PROVE  PoolInv'
    BY <2>1, PublishSpareKeeps, BuildFailedKeeps, RowExpiresKeeps, RetireKeeps, RetireFailsKeeps,
       Zenon
  <2> QED
    BY <1>2, <2>1, ReplenishKeeps, RetireUnwantedKeeps, StartCleanupKeeps, ListHostsKeeps,
       ForgetStoppedKeeps, RestartManagerKeeps, Zenon DEF ManagerStep
<1>3. ASSUME NEW l \in Launch, LaunchStep(l) PROVE PoolInv'
  BY <1>3, ClaimKeeps, ReserveHostKeeps, HostCreatedKeeps, AssignKeeps, AssignFailsKeeps,
     RememberHostKeeps, FailedKeeps, LaunchLostKeeps, Zenon DEF LaunchStep
<1>4. CASE UNCHANGED poolVars
  <2>1. PoolType'
    BY <1>4 DEF PoolInv, PoolType, poolVars
  <2>2. ASSUME NEW n \in Name PROVE Kept(n)'
    BY <1>4 DEF PoolInv, Kept, poolVars
  <2> QED
    BY <2>1, <2>2 DEF PoolInv
<1> QED
  BY <1>1, <1>2, <1>3, <1>4, RetireConfigKeeps, Zenon DEF PoolNext

(* A pod the pool built and nobody was assigned to has a row that leads    *)
(* cleanup to it, whatever fails, times out or restarts (build,            *)
(* build_failed, retire, forget_stopped).                                  *)
THEOREM NoSpareIsLeaked == PoolSpec => []NoOrphan
<1>1. PoolInv => NoOrphan
  BY DEF PoolInv, Kept, NoOrphan, Name
<1> QED
  BY <1>1, PoolInitially, PoolInductive, PTL DEF PoolSpec

(* What cleanup has listed and is about to delete is never put to use      *)
(* (remember, retire).                                                     *)
THEOREM DeletedIsUnused == PoolSpec => []NoActiveDeleted
<1>1. PoolInv => NoActiveDeleted
  BY DEF PoolInv, PoolType, Kept, NoActiveDeleted, Has
<1> QED
  BY <1>1, PoolInitially, PoolInductive, PTL DEF PoolSpec

-----------------------------------------------------------------------------
(* Lifecycle reports.                                                      *)

Report == [session : Session, kind : ReportKind, sequence : Nat]

LifecycleType ==
    /\ stage \in [Session -> {"unborn", "launching", "up", "down"}]
    /\ reporter \in [Session -> [kind : ReportKind \cup {"none"}, sequence : Nat]]
    /\ mail \subseteq Report
    /\ usage \in [Session -> UsageSession \cup {Never}]
    /\ updates \subseteq
         [session : Session, revision : Nat, estimated : BOOLEAN, ended : BOOLEAN]
    /\ landed \subseteq updates
    /\ noted \subseteq Report

(* Some report under way, record or update says that the n-th report of s  *)
(* was its stop (if stop), or was not.                                     *)
Said(s, n, stop) ==
    \/ \E m \in mail \cup noted :
         m.session = s /\ m.sequence = n /\ ((m.kind = "stopped") <=> stop)
    \/ usage[s] # Never /\ usage[s].sequence = n /\ ((usage[s].kind = "stopped") <=> stop)
    \/ \E u \in updates :
         u.session = s /\ ~u.estimated /\ u.revision = 2 * n /\ (u.ended <=> stop)

(* What is said agrees; the stop is the last report.                       *)
SaidInv ==
    \A s \in Session, n \in Nat :
        /\ \A stop \in BOOLEAN : Said(s, n, stop) => n <= reporter[s].sequence
        /\ Said(s, n, TRUE) => stage[s] = "down" /\ n = reporter[s].sequence
        /\ ~(Said(s, n, TRUE) /\ Said(s, n, FALSE))

(* An estimate is the latest word on its session, or was corrected.        *)
Corrected(u) ==
    \E v \in updates : v.session = u.session /\ ~v.estimated /\ v.revision > u.revision

Estimate(u) ==
    /\ u.ended
    /\ usage[u.session] # Never
    /\ \E k \in Nat : u.revision = 2 * k + 1 /\ k <= usage[u.session].sequence
    /\ \/ /\ u.revision = 2 * usage[u.session].sequence + 1
          /\ usage[u.session].estimated
       \/ Corrected(u)

UpdatesInv ==
    \A u \in updates : IF u.estimated THEN Estimate(u) ELSE \E k \in Nat : u.revision = 2 * k

(* Nothing later than the record was noted; a real stop is not estimated.  *)
RecordInv ==
    /\ \A m \in noted : usage[m.session] # Never /\ m.sequence <= usage[m.session].sequence
    /\ \A s \in Session :
         usage[s] # Never /\ usage[s].estimated => usage[s].kind # "stopped"

IsTop(u) == \A v \in landed : v.session = u.session => v.revision <= u.revision

TopInv == \A w \in landed : \E u \in landed : u.session = w.session /\ IsTop(u)

UsageInv == LifecycleType /\ SaidInv /\ UpdatesInv /\ RecordInv /\ TopInv

-----------------------------------------------------------------------------
LEMMA NeverIsNoRecord ==
    Never \notin UsageSession
  BY LifecycleConstants

LEMMA BooleansEqual ==
    ASSUME NEW a \in BOOLEAN, NEW b \in BOOLEAN, a <=> b
    PROVE  a = b
  OBVIOUS

(* The invariant says what is claimed. *)
LEMMA InvConverges ==
    ASSUME UsageInv
    PROVE  UsageConverges
<1> SUFFICES ASSUME NEW s \in Session, NEW w \in landed, w.session = s
             PROVE  /\ \A u, v \in landed :
                         u.session = s /\ v.session = s /\ u.revision = v.revision => u = v
                    /\ (\E u \in landed : u.session = s /\ u.ended /\ ~u.estimated)
                         => Top(s).ended /\ ~Top(s).estimated
                    /\ Top(s).estimated =>
                         \A m \in noted : m.session = s =>
                             \/ 2 * m.sequence <= Top(s).revision
                             \/ \E u \in updates \ landed :
                                  u.session = s /\ ~u.estimated /\ u.revision > Top(s).revision
  BY Zenon DEF UsageConverges
<1>0. landed \subseteq updates
  BY Zenon DEF UsageInv, LifecycleType
<1> DEFINE t == Top(s)
<1>1. /\ t \in landed /\ t \in updates /\ t.session = s
      /\ \A v \in landed : v.session = s => v.revision <= t.revision
  <2>1. \E u \in landed :
          u.session = s /\ \A v \in landed : v.session = s => v.revision <= u.revision
    BY Zenon DEF UsageInv, TopInv, IsTop
  <2> QED
    BY <1>0, <2>1, Zenon DEF Top
<1>2. ASSUME NEW u \in updates
      PROVE  /\ u.revision \in Nat /\ u.estimated \in BOOLEAN /\ u.ended \in BOOLEAN
             /\ u.session \in Session
             /\ u = [session |-> u.session, revision |-> u.revision,
                     estimated |-> u.estimated, ended |-> u.ended]
  BY DEF UsageInv, LifecycleType
<1>3. ASSUME NEW u \in updates, ~u.estimated, u.session = s
      PROVE  \E k \in Nat : /\ u.revision = 2 * k
                            /\ Said(s, k, u.ended)
                            /\ k <= reporter[s].sequence
                            /\ u.ended => k = reporter[s].sequence
  <2>1. PICK k \in Nat : u.revision = 2 * k
    BY <1>3, Zenon DEF UsageInv, UpdatesInv
  <2>2. Said(s, k, u.ended)
    BY <1>3, <2>1, Zenon DEF Said
  <2>3. k <= reporter[s].sequence
    BY <1>2, <2>2, Zenon DEF UsageInv, SaidInv
  <2>4. CASE u.ended
    <3>1. Said(s, k, TRUE)
      BY <1>3, <2>1, <2>4, Zenon DEF Said
    <3>2. k = reporter[s].sequence
      BY <3>1, Zenon DEF UsageInv, SaidInv
    <3> QED
      BY <2>1, <2>2, <2>3, <3>2, Zenon
  <2> QED
    BY <2>1, <2>2, <2>3, <2>4, Zenon
<1>4. ASSUME NEW u \in updates, u.estimated, u.session = s
      PROVE  /\ u.ended /\ usage[s] # Never
             /\ \E k \in Nat : u.revision = 2 * k + 1 /\ k <= usage[s].sequence
             /\ \/ u.revision = 2 * usage[s].sequence + 1 /\ usage[s].estimated
                \/ Corrected(u)
  BY <1>4, Zenon DEF UsageInv, UpdatesInv, Estimate
\* Each revision says one thing.
<1>5. ASSUME NEW u \in updates, NEW v \in updates, u.session = s, v.session = s,
             u.revision = v.revision
      PROVE  u = v
  <2>1. CASE u.estimated /\ v.estimated
    <3>1. u.ended /\ v.ended
      BY <1>4, <1>5, <2>1, Zenon
    <3> QED
      BY <1>2, <1>5, <2>1, <3>1
  <2>2. CASE ~u.estimated /\ ~v.estimated
    <3>1. PICK k \in Nat : u.revision = 2 * k /\ Said(s, k, u.ended)
      BY <1>3, <1>5, <2>2, Zenon
    <3>2. PICK j \in Nat : v.revision = 2 * j /\ Said(s, j, v.ended)
      BY <1>3, <1>5, <2>2, Zenon
    <3>3. k = j
      <4>1. 2 * k = 2 * j
        BY <1>5, <3>1, <3>2, Zenon
      <4> QED
        BY <4>1
    <3>4. u.ended = v.ended
      <4>1. u.ended \in BOOLEAN /\ v.ended \in BOOLEAN
        BY <1>2
      <4>2. ~(Said(s, k, TRUE) /\ Said(s, k, FALSE))
        BY Zenon DEF UsageInv, SaidInv
      <4>3. u.ended => Said(s, k, TRUE)
        BY <3>1, Zenon DEF Said
      <4>4. ~u.ended => Said(s, k, FALSE)
        BY <3>1, Zenon DEF Said
      <4>5. v.ended => Said(s, k, TRUE)
        BY <3>2, <3>3, Zenon DEF Said
      <4>6. ~v.ended => Said(s, k, FALSE)
        BY <3>2, <3>3, Zenon DEF Said
      <4>7. u.ended <=> v.ended
        BY <4>2, <4>3, <4>4, <4>5, <4>6, Zenon
      <4> QED
        BY <4>1, <4>7, BooleansEqual, Zenon
    <3> QED
      BY <1>2, <1>5, <2>2, <3>4
  <2>3. CASE u.estimated /\ ~v.estimated
    <3>1. PICK k \in Nat : u.revision = 2 * k + 1
      BY <1>4, <1>5, <2>3, Zenon
    <3>2. PICK j \in Nat : v.revision = 2 * j
      BY <1>3, <1>5, <2>3, Zenon
    <3>3. 2 * k + 1 = 2 * j
      BY <1>5, <3>1, <3>2, Zenon
    <3> QED
      BY <3>3
  <2>4. CASE ~u.estimated /\ v.estimated
    <3>1. PICK k \in Nat : v.revision = 2 * k + 1
      BY <1>4, <1>5, <2>4, Zenon
    <3>2. PICK j \in Nat : u.revision = 2 * j
      BY <1>3, <1>5, <2>4, Zenon
    <3>3. 2 * k + 1 = 2 * j
      BY <1>5, <3>1, <3>2, Zenon
    <3> QED
      BY <3>3
  <2> QED
    BY <2>1, <2>2, <2>3, <2>4, Zenon
\* Only a correction that is not published goes beyond the top.
<1>6. ASSUME NEW v \in updates, v.session = s, v.revision > t.revision
      PROVE  v \notin landed
  <2>1. v.revision \in Nat /\ t.revision \in Nat
    BY <1>1, <1>2, <1>6
  <2>2. ~(v.revision <= t.revision)
    BY <1>6, <2>1
  <2> QED
    BY <1>1, <1>6, <2>2, Zenon
<1>7. usage[s] # Never => usage[s].sequence \in Nat
  BY DEF UsageInv, LifecycleType, UsageSession
<1>8. reporter[s].sequence \in Nat
  BY DEF UsageInv, LifecycleType
\* The real stop stands.
<1>9. ASSUME NEW u \in landed, u.session = s, u.ended, ~u.estimated
      PROVE  t.ended /\ ~t.estimated
  <2>1. PICK n \in Nat : u.revision = 2 * n /\ n = reporter[s].sequence /\ Said(s, n, u.ended)
    BY <1>0, <1>3, <1>9, Zenon
  <2>2. Said(s, n, TRUE)
    BY <1>9, <2>1, Zenon DEF Said
  <2>3. ~Said(s, n, FALSE)
    BY <2>2, Zenon DEF UsageInv, SaidInv
  <2>4. u.revision <= t.revision /\ t.revision \in Nat
    BY <1>1, <1>2, <1>9
  <2>5. ~t.estimated
    <3> SUFFICES ASSUME t.estimated
                 PROVE  FALSE
      BY Zenon
    <3>1. PICK k \in Nat : t.revision = 2 * k + 1 /\ k <= usage[s].sequence /\ usage[s] # Never
      BY <1>1, <1>4, Zenon
    <3>2. usage[s].sequence <= n
      <4>1. Said(s, usage[s].sequence, TRUE) \/ Said(s, usage[s].sequence, FALSE)
        BY <3>1, Zenon DEF Said
      <4> QED
        BY <1>7, <2>1, <3>1, <4>1, Zenon DEF UsageInv, SaidInv
    <3>3. k = n /\ usage[s].sequence = n
      BY <1>7, <2>1, <2>4, <3>1, <3>2
    <3>4. ~Corrected(t)
      <4> SUFFICES ASSUME NEW v \in updates, v.session = s, ~v.estimated, v.revision > t.revision
                   PROVE  FALSE
        BY <1>1, Zenon DEF Corrected
      <4>1. PICK j \in Nat : v.revision = 2 * j /\ j <= n
        BY <1>3, <2>1, Zenon
      <4>2. 2 * j > 2 * n + 1
        BY <3>1, <3>3, <4>1, Zenon
      <4> QED
        BY <4>1, <4>2
    <3>5. usage[s].estimated
      BY <1>1, <1>4, <3>4, Zenon
    <3>6. usage[s].kind # "stopped"
      BY <3>1, <3>5, Zenon DEF UsageInv, RecordInv
    <3>7. Said(s, n, FALSE)
      BY <3>1, <3>3, <3>6, Zenon DEF Said
    <3> QED
      BY <2>3, <3>7, Zenon
  <2>6. PICK k \in Nat : t.revision = 2 * k /\ Said(s, k, t.ended) /\ k <= reporter[s].sequence
    BY <1>1, <1>3, <2>5, Zenon
  <2>7. k = n
    BY <1>8, <2>1, <2>4, <2>6
  <2>8. t.ended
    <3>1. t.ended \in BOOLEAN
      BY <1>1, <1>2, Zenon
    <3> QED
      BY <2>3, <2>6, <2>7, <3>1, Zenon
  <2> QED
    BY <2>5, <2>8
\* An estimated stop stands only while no correction of it is published.
<1>10. ASSUME t.estimated, NEW m \in noted, m.session = s
       PROVE  \/ 2 * m.sequence <= t.revision
              \/ \E u \in updates \ landed :
                   u.session = s /\ ~u.estimated /\ u.revision > t.revision
  <2>1. CASE Corrected(t)
    <3>1. PICK v \in updates : v.session = s /\ ~v.estimated /\ v.revision > t.revision
      BY <1>1, <2>1, Zenon DEF Corrected
    <3> QED
      BY <1>6, <3>1, Zenon
  <2>2. CASE ~Corrected(t)
    <3>1. m.sequence <= usage[s].sequence /\ m.sequence \in Nat
      BY <1>10 DEF UsageInv, RecordInv, LifecycleType, Report
    <3>2. t.revision = 2 * usage[s].sequence + 1 /\ usage[s] # Never
      BY <1>1, <1>4, <1>10, <2>2, Zenon
    <3>3. 2 * m.sequence <= t.revision
      BY <1>7, <3>1, <3>2
    <3> QED
      BY <3>3, Zenon
  <2> QED
    BY <2>1, <2>2, Zenon
<1> HIDE DEF t
<1> QED
  BY <1>0, <1>5, <1>9, <1>10, Zenon DEF t

-----------------------------------------------------------------------------
(* The steps. *)

LEMMA UsageInit ==
    LifecycleInit => UsageInv
<1> SUFFICES ASSUME LifecycleInit
             PROVE  UsageInv
  OBVIOUS
<1>1. /\ stage = [s \in Session |-> IF s \in Session THEN "unborn" ELSE "down"]
      /\ reporter = [s \in Session |-> [kind |-> "none", sequence |-> 0]]
      /\ mail = {} /\ usage = [s \in Session |-> Never] /\ updates = {} /\ noted = {}
      /\ landed = {}
  BY DEF LifecycleInit, LifecycleStart
<1>2. LifecycleType
  BY <1>1 DEF LifecycleType
<1>3. SaidInv
  BY <1>1 DEF SaidInv, Said
<1>4. UpdatesInv /\ RecordInv /\ TopInv
  BY <1>1 DEF UpdatesInv, RecordInv, TopInv
<1> QED
  BY <1>2, <1>3, <1>4 DEF UsageInv

(* A step by which nothing new is said.                                    *)
LEMMA SaidKept ==
    ASSUME SaidInv, reporter' = reporter,
           \A s \in Session : stage[s] = "down" => stage'[s] = "down",
           \A s \in Session, n \in Nat, stop \in BOOLEAN : Said(s, n, stop)' => Said(s, n, stop)
    PROVE  SaidInv'
<1> SUFFICES ASSUME NEW s \in Session, NEW n \in Nat
             PROVE  /\ \A stop \in BOOLEAN : Said(s, n, stop)' => n <= reporter'[s].sequence
                    /\ Said(s, n, TRUE)' => stage'[s] = "down" /\ n = reporter'[s].sequence
                    /\ ~(Said(s, n, TRUE)' /\ Said(s, n, FALSE)')
  BY Zenon DEF SaidInv
<1>1. Said(s, n, TRUE)' => Said(s, n, TRUE)
  BY Zenon
<1>2. Said(s, n, FALSE)' => Said(s, n, FALSE)
  BY Zenon
<1> QED
  BY <1>1, <1>2, Zenon DEF SaidInv

(* Launches, losses and slots: no record and no update changes.            *)
LEMMA QuietPreserves ==
    ASSUME UsageInv, UNCHANGED <<reporter, usage, updates, landed, noted>>, mail' \subseteq mail,
           stage' \in [Session -> {"unborn", "launching", "up", "down"}],
           \A s \in Session : stage[s] = "down" => stage'[s] = "down"
    PROVE  UsageInv'
<1>1. LifecycleType'
  BY Zenon DEF UsageInv, LifecycleType
<1>2. \A s \in Session, n \in Nat, stop \in BOOLEAN : Said(s, n, stop)' => Said(s, n, stop)
  BY ZenonT(60) DEF Said
<1>3. SaidInv'
  BY <1>2, SaidKept, Zenon DEF UsageInv
<1>4. UpdatesInv' /\ RecordInv' /\ TopInv'
  BY Zenon DEF UsageInv, UpdatesInv, Estimate, Corrected, RecordInv, TopInv, IsTop
<1> QED
  BY <1>1, <1>3, <1>4, Zenon DEF UsageInv

(* A host that has not said its stop says something new, its stop only     *)
(* when it goes down.                                                      *)
LEMMA SendPreserves ==
    ASSUME UsageInv, NEW s \in Session, NEW kind \in ReportKind, SendReport(s, kind),
           stage[s] # "down",
           stage' = stage \/ stage' = [stage EXCEPT ![s] = "up"]
             \/ stage' = [stage EXCEPT ![s] = "down"],
           kind = "stopped" => stage' = [stage EXCEPT ![s] = "down"]
    PROVE  UsageInv'
<1> DEFINE n0 == reporter[s].sequence + 1
           m0 == [session |-> s, kind |-> kind, sequence |-> n0]
<1>1. /\ reporter' = [reporter EXCEPT ![s] = [kind |-> kind, sequence |-> n0]]
      /\ mail' = mail \cup {m0}
      /\ usage' = usage /\ updates' = updates /\ landed' = landed /\ noted' = noted
  BY DEF SendReport
<1>2. /\ reporter \in [Session -> [kind : ReportKind \cup {"none"}, sequence : Nat]]
      /\ stage \in [Session -> {"unborn", "launching", "up", "down"}]
      /\ mail \subseteq Report
  BY DEF UsageInv, LifecycleType
<1>3. n0 \in Nat /\ m0 \in Report /\ reporter[s].sequence \in Nat
  BY <1>2 DEF Report
<1>4. LifecycleType'
  <2>1. reporter' \in [Session -> [kind : ReportKind \cup {"none"}, sequence : Nat]]
    BY <1>1, <1>2, <1>3
  <2>2. stage' \in [Session -> {"unborn", "launching", "up", "down"}]
    BY <1>2
  <2> HIDE DEF m0
  <2>3. mail' \subseteq Report
    BY <1>1, <1>2, <1>3
  <2> QED
    BY <1>1, <2>1, <2>2, <2>3, Zenon DEF UsageInv, LifecycleType
<1>5. ASSUME NEW r \in Session, NEW n \in Nat, NEW stop \in BOOLEAN, Said(r, n, stop)'
      PROVE  \/ Said(r, n, stop)
             \/ r = s /\ n = n0 /\ ((kind = "stopped") <=> stop)
  <2>1. m0.session = s /\ m0.sequence = n0 /\ m0.kind = kind
    OBVIOUS
  <2> HIDE DEF m0
  <2> QED
    BY <1>1, <1>5, <2>1, Zenon DEF Said
<1>6. ASSUME NEW stop \in BOOLEAN
      PROVE  ~Said(s, n0, stop)
  <2>1. ~(n0 <= reporter[s].sequence)
    BY <1>3
  <2> QED
    BY <1>3, <2>1, Zenon DEF UsageInv, SaidInv
<1>7. SaidInv'
  <2> SUFFICES ASSUME NEW r \in Session, NEW n \in Nat
               PROVE  /\ \A stop \in BOOLEAN : Said(r, n, stop)' => n <= reporter'[r].sequence
                      /\ Said(r, n, TRUE)' => stage'[r] = "down" /\ n = reporter'[r].sequence
                      /\ ~(Said(r, n, TRUE)' /\ Said(r, n, FALSE)')
    BY Zenon DEF SaidInv
  <2>1. CASE r # s
    <3>1. reporter'[r] = reporter[r] /\ stage'[r] = stage[r]
      BY <1>1, <1>2, <2>1
    <3>2. \A stop \in BOOLEAN : Said(r, n, stop)' => Said(r, n, stop)
      BY <1>5, <2>1, Zenon
    <3>3. (Said(r, n, TRUE)' => Said(r, n, TRUE)) /\ (Said(r, n, FALSE)' => Said(r, n, FALSE))
      BY <3>2, Zenon
    <3> QED
      BY <3>1, <3>2, <3>3, Zenon DEF UsageInv, SaidInv
  <2>2. CASE r = s
    <3>1. reporter'[s].sequence = n0
      BY <1>1, <1>2
    <3>2. ~Said(s, n, TRUE)
      BY Zenon DEF UsageInv, SaidInv
    <3>3. ASSUME NEW stop \in BOOLEAN, Said(s, n, stop)'
          PROVE  n <= n0
      <4>1. n = n0 \/ n <= reporter[s].sequence
        BY <1>5, <3>3, Zenon DEF UsageInv, SaidInv
      <4> QED
        BY <1>3, <4>1
    <3>4. Said(s, n, TRUE)' => n = n0 /\ kind = "stopped"
      BY <1>5, <3>2, Zenon
    <3>5. Said(s, n, FALSE)' => n # n0 \/ kind # "stopped"
      BY <1>5, <1>6, Zenon
    <3>6. kind = "stopped" => stage'[s] = "down"
      BY <1>2
    <3> QED
      BY <2>2, <3>1, <3>3, <3>4, <3>5, <3>6, Zenon
  <2> QED
    BY <2>1, <2>2, Zenon
<1>8. UpdatesInv' /\ RecordInv' /\ TopInv'
  BY <1>1, Zenon DEF UsageInv, UpdatesInv, Estimate, Corrected, RecordInv, TopInv, IsTop
<1> QED
  BY <1>4, <1>7, <1>8, Zenon DEF UsageInv

(* A further publication leaves a top.                                     *)
LEMMA TopKept ==
    ASSUME TopInv, NEW w, landed' = landed \cup {w},
           \A v \in landed \cup {w} : v.revision \in Nat
    PROVE  TopInv'
<1> SUFFICES ASSUME NEW x \in landed \cup {w}
             PROVE  \E u \in landed \cup {w} : u.session = x.session
                      /\ \A v \in landed \cup {w} : v.session = u.session => v.revision <= u.revision
  BY Zenon DEF TopInv, IsTop
<1>1. w.revision <= w.revision
  <2>1. w.revision \in Nat
    BY Zenon
  <2> QED
    BY <2>1
<1>2. CASE \E y \in landed : y.session = x.session
  <2>1. PICK u \in landed : u.session = x.session
                             /\ \A v \in landed : v.session = u.session => v.revision <= u.revision
    BY <1>2, Zenon DEF TopInv, IsTop
  <2>2. CASE w.session # x.session \/ w.revision <= u.revision
    BY <2>1, <2>2, Zenon
  <2>3. CASE w.session = x.session /\ ~(w.revision <= u.revision)
    <3>1. ASSUME NEW v \in landed, v.session = w.session
          PROVE  v.revision <= w.revision
      <4>1. v.revision <= u.revision
        BY <2>1, <2>3, <3>1, Zenon
      <4>2. v.revision \in Nat /\ u.revision \in Nat /\ w.revision \in Nat
        BY Zenon
      <4>3. ~(w.revision <= u.revision)
        BY <2>3
      <4> QED
        BY <4>1, <4>2, <4>3
    <3> QED
      BY <1>1, <2>3, <3>1, Zenon
  <2> QED
    BY <2>2, <2>3, Zenon
<1>3. CASE ~\E y \in landed : y.session = x.session
  BY <1>1, <1>3, Zenon
<1> QED
  BY <1>2, <1>3, Zenon

(* A report that is recorded says nothing that it did not say before.      *)
LEMMA RecordedSaid ==
    ASSUME UsageInv, NEW m \in mail, mail' \subseteq mail, noted' \subseteq noted \cup {m},
           reporter' = reporter, stage' = stage,
           usage' = usage \/ usage' = [usage EXCEPT ![m.session] =
               [sequence |-> m.sequence, kind |-> m.kind, estimated |-> FALSE]],
           updates \subseteq updates', updates' \subseteq updates \cup {UpdateOf(m, FALSE)},
           landed' = landed
    PROVE  LifecycleType' /\ SaidInv'
<1>1. PICK w : w = UpdateOf(m, FALSE)
  BY Zenon
<1>2. m \in Report /\ m.session \in Session /\ m.sequence \in Nat /\ m.kind \in ReportKind
  BY DEF UsageInv, LifecycleType, Report
<1>3. /\ w.session = m.session /\ w.revision = 2 * m.sequence /\ ~w.estimated
      /\ w.ended <=> m.kind = "stopped"
  <2>1. w = [session |-> m.session, revision |-> 2 * m.sequence + 0, estimated |-> FALSE,
             ended |-> FALSE \/ m.kind = "stopped"]
    BY <1>1 DEF UpdateOf, Revision
  <2>2. w.session = m.session /\ w.revision = 2 * m.sequence
    BY <1>2, <2>1
  <2>3. ~w.estimated /\ (w.ended <=> m.kind = "stopped")
    BY <2>1, Zenon
  <2> QED
    BY <2>2, <2>3, Zenon
<1>4. w \in [session : Session, revision : Nat, estimated : BOOLEAN, ended : BOOLEAN]
  BY <1>1, <1>2 DEF UpdateOf, Revision
<1>5. usage \in [Session -> UsageSession \cup {Never}]
  BY Zenon DEF UsageInv, LifecycleType
<1>6. LifecycleType'
  <2>1. usage' \in [Session -> UsageSession \cup {Never}]
    <3>1. [sequence |-> m.sequence, kind |-> m.kind, estimated |-> FALSE] \in UsageSession
      BY <1>2 DEF UsageSession
    <3> QED
      BY <1>2, <1>5, <3>1
  <2> QED
    BY <1>1, <1>2, <1>4, <2>1, Zenon DEF UsageInv, LifecycleType
<1>7. ASSUME NEW s \in Session, NEW n \in Nat, NEW stop \in BOOLEAN, Said(s, n, stop)'
      PROVE  Said(s, n, stop)
  <2>1. CASE \E q \in mail' \cup noted' :
               q.session = s /\ q.sequence = n /\ ((q.kind = "stopped") <=> stop)
    BY <2>1, Zenon DEF Said
  <2>2. CASE usage'[s] # Never /\ usage'[s].sequence = n /\ ((usage'[s].kind = "stopped") <=> stop)
    <3>1. CASE usage'[s] = usage[s]
      BY <2>2, <3>1, Zenon DEF Said
    <3>2. CASE usage'[s] # usage[s]
      <4>1. s = m.session /\ usage'[s].sequence = m.sequence /\ usage'[s].kind = m.kind
        BY <1>2, <1>5, <3>2
      <4> QED
        BY <2>2, <4>1, Zenon DEF Said
    <3> QED
      BY <3>1, <3>2, Zenon
  <2>3. CASE \E u \in updates' :
               u.session = s /\ ~u.estimated /\ u.revision = 2 * n /\ (u.ended <=> stop)
    <3>1. PICK u \in updates' :
            u.session = s /\ ~u.estimated /\ u.revision = 2 * n /\ (u.ended <=> stop)
      BY <2>3, Zenon
    <3>2. CASE u \in updates
      BY <3>1, <3>2, Zenon DEF Said
    <3>3. CASE u = w
      <4>1. 2 * m.sequence = 2 * n
        BY <1>3, <3>1, <3>3, Zenon
      <4>2. m.sequence = n
        BY <1>2, <4>1
      <4> QED
        BY <1>3, <3>1, <3>3, <4>2, Zenon DEF Said
    <3> QED
      BY <1>1, <3>1, <3>2, <3>3, Zenon
  <2> QED
    BY <1>7, <2>1, <2>2, <2>3, Zenon DEF Said
<1>8. SaidInv'
  BY <1>7, SaidKept, Zenon DEF UsageInv
<1> QED
  BY <1>6, <1>8, Zenon

(* An update besides an unchanged record.                                  *)
LEMMA PublishedPreserves ==
    ASSUME UsageInv, NEW m \in mail, usage' = usage, landed' = landed,
           updates' = updates \/ updates' = updates \cup {UpdateOf(m, FALSE)}
    PROVE  UpdatesInv' /\ TopInv'
<1>1. PICK w : w = UpdateOf(m, FALSE)
  BY Zenon
<1>2. m.sequence \in Nat
  BY DEF UsageInv, LifecycleType, Report
<1>3. w.revision = 2 * m.sequence /\ ~w.estimated
  BY <1>1, <1>2 DEF UpdateOf, Revision
<1>4. ASSUME NEW u \in updates', u.estimated
      PROVE  Estimate(u)'
  BY <1>1, <1>3, <1>4, Zenon DEF UsageInv, UpdatesInv, Estimate, Corrected
<1>5. ASSUME NEW u \in updates', ~u.estimated
      PROVE  \E k \in Nat : u.revision = 2 * k
  BY <1>1, <1>2, <1>3, <1>5, Zenon DEF UsageInv, UpdatesInv
<1>6. UpdatesInv'
  BY <1>4, <1>5, Zenon DEF UpdatesInv
<1>7. TopInv'
  BY Zenon DEF UsageInv, TopInv, IsTop
<1> QED
  BY <1>6, <1>7, Zenon

(* A report that UsageSessions takes for new: an estimate made before it   *)
(* is corrected.                                                           *)
LEMMA ObservedPreserves ==
    ASSUME UsageInv, NEW m \in mail, ~Stale(m), landed' = landed,
           usage' = [usage EXCEPT ![m.session] =
               [sequence |-> m.sequence, kind |-> m.kind, estimated |-> FALSE]],
           updates' = updates \/ updates' = updates \cup {UpdateOf(m, FALSE)},
           usage[m.session] # Never /\ usage[m.session].estimated
             => updates' = updates \cup {UpdateOf(m, FALSE)},
           noted' = noted \cup {m}
    PROVE  UpdatesInv' /\ RecordInv' /\ TopInv'
<1> DEFINE s == m.session
<1>1. PICK w : w = UpdateOf(m, FALSE)
  BY Zenon
<1>2. s \in Session /\ m.sequence \in Nat
  BY DEF UsageInv, LifecycleType, Report
<1>3. w.session = s /\ w.revision = 2 * m.sequence /\ ~w.estimated
  BY <1>1, <1>2, SMTT(60) DEF UpdateOf, Revision
<1>4. usage \in [Session -> UsageSession \cup {Never}]
  BY Zenon DEF UsageInv, LifecycleType
<1>5. /\ usage'[s].sequence = m.sequence /\ ~usage'[s].estimated
      /\ \A r \in Session : r # s => usage'[r] = usage[r]
  BY <1>2, <1>4
<1>6. usage'[s] # Never
  <2>1. m.kind \in ReportKind
    BY DEF UsageInv, LifecycleType, Report
  <2>2. [sequence |-> m.sequence, kind |-> m.kind, estimated |-> FALSE] \in UsageSession
    BY <1>2, <2>1 DEF UsageSession
  <2>3. usage'[s] = [sequence |-> m.sequence, kind |-> m.kind, estimated |-> FALSE]
    BY <1>2, <1>4
  <2> QED
    BY <2>2, <2>3, NeverIsNoRecord, Zenon
<1>7. ASSUME usage[s] # Never
      PROVE  usage[s].sequence \in Nat /\ ~(m.sequence <= usage[s].sequence)
  <2>1. usage[s].sequence \in Nat
    BY <1>2, <1>4, <1>7 DEF UsageSession
  <2> QED
    BY <1>7, <2>1, Zenon DEF Stale
<1>8. ASSUME NEW u \in updates, u.estimated
      PROVE  Estimate(u)'
  <2>1. Estimate(u) /\ u.session \in Session
    BY <1>8 DEF UsageInv, UpdatesInv, LifecycleType
  <2>2. CASE u.session # s
    BY <1>5, <2>1, <2>2, Zenon DEF Estimate, Corrected
  <2>3. CASE u.session = s
    <3>1. PICK k \in Nat : u.revision = 2 * k + 1 /\ k <= usage[s].sequence
      BY <2>1, <2>3, Zenon DEF Estimate
    <3>2. usage[s] # Never
      BY <2>1, <2>3, Zenon DEF Estimate
    <3>3. k <= m.sequence /\ 2 * m.sequence > 2 * k + 1
      BY <1>2, <1>7, <3>1, <3>2
    <3>4. Corrected(u)'
      <4>1. CASE Corrected(u)
        BY <4>1, Zenon DEF Corrected
      <4>2. CASE usage[s].estimated
        <5>1. w \in updates'
          BY <1>1, <3>2, <4>2, Zenon
        <5> QED
          BY <1>3, <2>3, <3>1, <3>3, <5>1, Zenon DEF Corrected
      <4> QED
        BY <2>1, <2>3, <4>1, <4>2, Zenon DEF Estimate
    <3> QED
      BY <1>5, <1>6, <2>1, <2>3, <3>1, <3>3, <3>4, Zenon DEF Estimate
  <2> QED
    BY <2>2, <2>3, Zenon
<1>9. UpdatesInv'
  <2>1. ASSUME NEW u \in updates', u.estimated
        PROVE  Estimate(u)'
    BY <1>1, <1>3, <1>8, <2>1, Zenon
  <2>2. ASSUME NEW u \in updates', ~u.estimated
        PROVE  \E k \in Nat : u.revision = 2 * k
    BY <1>1, <1>2, <1>3, <2>2, Zenon DEF UsageInv, UpdatesInv
  <2> QED
    BY <2>1, <2>2, Zenon DEF UpdatesInv
<1>10. RecordInv'
  <2>1. ASSUME NEW q \in noted'
        PROVE  usage'[q.session] # Never /\ q.sequence <= usage'[q.session].sequence
    <3>1. CASE q = m
      BY <1>2, <1>5, <1>6, <3>1
    <3>2. CASE q \in noted /\ q.session = s
      <4>1. usage[s] # Never /\ q.sequence <= usage[s].sequence
        BY <3>2, Zenon DEF UsageInv, RecordInv
      <4>2. q.sequence \in Nat
        BY <3>2 DEF UsageInv, LifecycleType, Report
      <4>3. q.sequence <= m.sequence
        BY <1>2, <1>7, <4>1, <4>2
      <4> QED
        BY <1>5, <1>6, <3>2, <4>3, Zenon
    <3>3. CASE q \in noted /\ q.session # s
      <4>1. q.session \in Session
        BY <3>3 DEF UsageInv, LifecycleType, Report
      <4> QED
        BY <1>5, <3>3, <4>1, Zenon DEF UsageInv, RecordInv
    <3> QED
      BY <3>1, <3>2, <3>3, Zenon
  <2>2. ASSUME NEW r \in Session, usage'[r] # Never, usage'[r].estimated
        PROVE  usage'[r].kind # "stopped"
    BY <1>5, <2>2, Zenon DEF UsageInv, RecordInv
  <2> QED
    BY <2>1, <2>2, Zenon DEF RecordInv
<1>11. TopInv'
  BY Zenon DEF UsageInv, TopInv, IsTop
<1> QED
  BY <1>9, <1>10, <1>11, Zenon

(* A stale report is no later than the record: it is older, or the record  *)
(* is the stop, after which nothing was sent.                              *)
LEMMA StaleIsOlder ==
    ASSUME UsageInv, NEW m \in mail, Stale(m)
    PROVE  usage[m.session] # Never /\ m.sequence <= usage[m.session].sequence
<1> DEFINE s == m.session
<1>1. usage[s] # Never /\ (m.sequence <= usage[s].sequence \/ usage[s].kind = "stopped")
  BY Zenon DEF Stale
<1>2. s \in Session /\ m.sequence \in Nat
  BY DEF UsageInv, LifecycleType, Report
<1>3. usage[s].sequence \in Nat
  BY <1>1, <1>2 DEF UsageInv, LifecycleType, UsageSession
<1>4. CASE usage[s].kind = "stopped"
  <2>1. Said(s, usage[s].sequence, TRUE)
    BY <1>1, <1>4, Zenon DEF Said
  <2>2. usage[s].sequence = reporter[s].sequence
    BY <1>2, <1>3, <2>1, Zenon DEF UsageInv, SaidInv
  <2>3. Said(s, m.sequence, TRUE) \/ Said(s, m.sequence, FALSE)
    BY Zenon DEF Said
  <2>4. m.sequence <= reporter[s].sequence
    BY <1>2, <2>3, Zenon DEF UsageInv, SaidInv
  <2> QED
    BY <1>1, <2>2, <2>4, Zenon
<1> QED
  BY <1>1, <1>4, Zenon

LEMMA RecordPreserves ==
    ASSUME UsageInv, NEW m \in mail, Record(m)
    PROVE  UsageInv'
<1>1. mail' \subseteq mail /\ reporter' = reporter /\ stage' = stage /\ landed' = landed
  BY DEF Record
<1>2. stage \in [Session -> {"unborn", "launching", "up", "down"}]
  BY Zenon DEF UsageInv, LifecycleType
<1> DEFINE rec == [sequence |-> m.sequence, kind |-> m.kind, estimated |-> FALSE]
           w == UpdateOf(m, FALSE)
           boundary == m.kind \in {"started", "stopped"}
           corrects == ~Stale(m) /\ usage[m.session] # Never /\ usage[m.session].estimated
<1>3. CASE UNCHANGED <<usage, updates, noted>>
  BY <1>1, <1>2, <1>3, QuietPreserves, Zenon
<1>4. CASE /\ usage' = IF Stale(m) THEN usage ELSE [usage EXCEPT ![m.session] = rec]
           /\ updates' = updates \cup (IF boundary \/ corrects THEN {w} ELSE {})
           /\ noted' = noted \cup {m}
  <2>1. updates' = updates \/ updates' = updates \cup {w}
    BY <1>4
  <2>2. LifecycleType' /\ SaidInv'
    BY <1>1, <1>4, <2>1, RecordedSaid, Zenon
  <2>3. CASE Stale(m)
    <3>1. usage' = usage
      BY <1>4, <2>3, Zenon
    <3>2. UpdatesInv' /\ TopInv'
      BY <1>1, <2>1, <3>1, PublishedPreserves, Zenon
    <3>3. RecordInv'
      BY <1>4, <2>3, <3>1, StaleIsOlder, Zenon DEF UsageInv, RecordInv
    <3> QED
      BY <2>2, <3>2, <3>3, Zenon DEF UsageInv
  <2>4. CASE ~Stale(m)
    <3>1. usage' = [usage EXCEPT ![m.session] = rec]
      BY <1>4, <2>4, Zenon
    <3>2. usage[m.session] # Never /\ usage[m.session].estimated => updates' = updates \cup {w}
      BY <1>4, <2>4, Zenon
    <3>3. UpdatesInv' /\ RecordInv' /\ TopInv'
      BY <1>1, <1>4, <2>1, <2>4, <3>1, <3>2, ObservedPreserves, Zenon
    <3> QED
      BY <2>2, <3>3, Zenon DEF UsageInv
  <2> QED
    BY <2>3, <2>4, Zenon
<1>5. CASE /\ updates' = updates \cup (IF boundary THEN {w} ELSE {})
           /\ UNCHANGED <<usage, noted>>
  <2>1. updates' = updates \/ updates' = updates \cup {w}
    BY <1>5
  <2>2. LifecycleType' /\ SaidInv'
    BY <1>1, <1>5, <2>1, RecordedSaid, Zenon
  <2>3. UpdatesInv' /\ TopInv'
    BY <1>1, <1>5, <2>1, PublishedPreserves, Zenon
  <2>4. RecordInv'
    BY <1>5, Zenon DEF UsageInv, RecordInv
  <2> QED
    BY <2>2, <2>3, <2>4, Zenon DEF UsageInv
<1> QED
  BY <1>3, <1>4, <1>5, Zenon DEF Record, RecordUsage

(* reconcile: the record stays, with an estimate above everything noted.   *)
LEMMA EstimatePreserves ==
    ASSUME UsageInv, NEW s \in Session, EstimateStop(s)
    PROVE  UsageInv'
<1>1. PICK w : w = UpdateOf([session |-> s, sequence |-> usage[s].sequence,
                             kind |-> usage[s].kind], TRUE)
  BY Zenon
<1>2. /\ usage[s] # Never /\ ~usage[s].estimated /\ usage[s].kind # "stopped"
      /\ usage' = [usage EXCEPT ![s].estimated = TRUE]
      /\ updates' = updates \cup {w}
      /\ UNCHANGED <<stage, reporter, mail, landed, noted>>
  BY <1>1 DEF EstimateStop
<1>3. usage \in [Session -> UsageSession \cup {Never}] /\ usage[s] \in UsageSession
  BY <1>2 DEF UsageInv, LifecycleType
<1>4. usage[s].sequence \in Nat /\ usage[s].kind \in ReportKind
  BY <1>3 DEF UsageSession
<1>5. w = [session |-> s, revision |-> 2 * usage[s].sequence + 1, estimated |-> TRUE,
           ended |-> TRUE]
  BY <1>1 DEF UpdateOf, Revision
<1>6. /\ usage'[s] = [sequence |-> usage[s].sequence, kind |-> usage[s].kind, estimated |-> TRUE]
      /\ \A r \in Session : r # s => usage'[r] = usage[r]
  BY <1>2, <1>3 DEF UsageSession
<1>7. usage'[s] \in UsageSession
  BY <1>4, <1>6 DEF UsageSession
<1>8. /\ usage'[s].sequence = usage[s].sequence /\ usage'[s].kind = usage[s].kind
      /\ usage'[s].estimated /\ usage'[s] # Never
  <2>1. /\ usage'[s].sequence = usage[s].sequence /\ usage'[s].kind = usage[s].kind
        /\ usage'[s].estimated = TRUE
    BY <1>6
  <2>2. usage'[s] # Never
    BY <1>7, NeverIsNoRecord, Zenon
  <2> QED
    BY <2>1, <2>2, Zenon
<1>9. /\ w.session = s /\ w.revision = 2 * usage[s].sequence + 1
      /\ w.estimated /\ w.ended
  BY <1>5, Zenon
<1>10. LifecycleType'
  <2>1. usage' \in [Session -> UsageSession \cup {Never}]
    BY <1>2, <1>3, <1>7
  <2>2. w \in [session : Session, revision : Nat, estimated : BOOLEAN, ended : BOOLEAN]
    BY <1>4, <1>5
  <2> QED
    BY <1>2, <2>1, <2>2, Zenon DEF UsageInv, LifecycleType
<1>11. \A r \in Session, n \in Nat, stop \in BOOLEAN : Said(r, n, stop)' => Said(r, n, stop)
  <2> SUFFICES ASSUME NEW r \in Session, NEW n \in Nat, NEW stop \in BOOLEAN, Said(r, n, stop)'
               PROVE  Said(r, n, stop)
    BY Zenon
  <2>1. CASE r = s
    BY <1>2, <1>8, <1>9, <2>1, Zenon DEF Said
  <2>2. CASE r # s
    BY <1>2, <1>6, <1>9, <2>2, Zenon DEF Said
  <2> QED
    BY <2>1, <2>2, Zenon
<1>12. SaidInv'
  BY <1>2, <1>11, SaidKept, Zenon DEF UsageInv
<1>13. UpdatesInv'
  <2>1. Estimate(w)'
    <3>1. usage[s].sequence <= usage[s].sequence
      BY <1>4
    <3> QED
      BY <1>4, <1>8, <1>9, <3>1, Zenon DEF Estimate
  <2>2. ASSUME NEW u \in updates, u.estimated
        PROVE  Estimate(u)'
    <3>1. Estimate(u) /\ u.session \in Session
      BY <2>2 DEF UsageInv, UpdatesInv, LifecycleType
    <3>2. CASE u.session = s
      BY <1>2, <1>8, <3>1, <3>2, Zenon DEF Estimate, Corrected
    <3>3. CASE u.session # s
      BY <1>2, <1>6, <3>1, <3>3, Zenon DEF Estimate, Corrected
    <3> QED
      BY <3>2, <3>3, Zenon
  <2>3. ASSUME NEW u \in updates, ~u.estimated
        PROVE  \E k \in Nat : u.revision = 2 * k
    BY <2>3, Zenon DEF UsageInv, UpdatesInv
  <2> QED
    BY <1>2, <1>9, <2>1, <2>2, <2>3, Zenon DEF UpdatesInv
<1>14. RecordInv'
  <2>1. ASSUME NEW q \in noted
        PROVE  usage'[q.session] # Never /\ q.sequence <= usage'[q.session].sequence
    <3>1. q.session \in Session
      BY DEF UsageInv, LifecycleType, Report
    <3> QED
      BY <1>6, <1>8, <3>1, Zenon DEF UsageInv, RecordInv
  <2>2. ASSUME NEW r \in Session, usage'[r] # Never, usage'[r].estimated
        PROVE  usage'[r].kind # "stopped"
    BY <1>2, <1>6, <1>8, <2>2, Zenon DEF UsageInv, RecordInv
  <2> QED
    BY <1>2, <2>1, <2>2, Zenon DEF RecordInv
<1>15. TopInv'
  BY <1>2, Zenon DEF UsageInv, TopInv, IsTop
<1> QED
  BY <1>10, <1>12, <1>13, <1>14, <1>15, Zenon DEF UsageInv

(* Publications come in any order.                                         *)
LEMMA PublishPreserves ==
    ASSUME UsageInv, NEW u \in updates, PublishUsage(u)
    PROVE  UsageInv'
<1>1. /\ landed' = landed \cup {u}
      /\ UNCHANGED <<stage, reporter, mail, usage, updates, noted>>
  BY Zenon DEF PublishUsage
<1>2. LifecycleType'
  BY <1>1, Zenon DEF UsageInv, LifecycleType
<1>3. \A s \in Session, n \in Nat, stop \in BOOLEAN : Said(s, n, stop)' => Said(s, n, stop)
  BY <1>1, ZenonT(60) DEF Said
<1>4. SaidInv'
  BY <1>1, <1>3, SaidKept, Zenon DEF UsageInv
<1>5. UpdatesInv' /\ RecordInv'
  BY <1>1, Zenon DEF UsageInv, UpdatesInv, Estimate, Corrected, RecordInv
<1>6. TopInv'
  <2>1. \A v \in updates : v.revision \in Nat
    BY DEF UsageInv, LifecycleType
  <2>2. \A v \in landed \cup {u} : v.revision \in Nat
    BY <2>1, Zenon DEF UsageInv, LifecycleType
  <2> QED
    BY <1>1, <2>2, TopKept, Zenon DEF UsageInv
<1> QED
  BY <1>2, <1>4, <1>5, <1>6, Zenon DEF UsageInv

LEMMA UsageNext ==
    ASSUME UsageInv, LifecycleNext
    PROVE  UsageInv'
<1>1. stage \in [Session -> {"unborn", "launching", "up", "down"}]
  BY Zenon DEF UsageInv, LifecycleType
<1>2. ASSUME NEW s \in Session, LaunchSession(s) \/ Release(s) \/ Crash(s) \/ SlotExpires(s)
      PROVE  UsageInv'
  <2>1. UNCHANGED <<reporter, mail, usage, updates, landed, noted>>
    BY <1>2 DEF LaunchSession, Release, Crash, SlotExpires
  <2>2. /\ stage' \in [Session -> {"unborn", "launching", "up", "down"}]
        /\ \A r \in Session : stage[r] = "down" => stage'[r] = "down"
    BY <1>1, <1>2 DEF LaunchSession, Release, Crash, SlotExpires
  <2> QED
    BY <2>1, <2>2, QuietPreserves, Zenon
<1>3. ASSUME NEW s \in Session, StartSession(s) \/ Heartbeat(s) \/ Draining(s) \/ Stopped(s)
      PROVE  UsageInv'
  <2>1. CASE StartSession(s)
    <3>1. /\ SendReport(s, "started") /\ stage[s] # "down"
          /\ stage' = [stage EXCEPT ![s] = "up"]
      BY <2>1 DEF StartSession
    <3>2. "started" \in ReportKind /\ "started" # "stopped"
      BY DEF ReportKind
    <3> QED
      BY <3>1, <3>2, SendPreserves, Zenon
  <2>2. CASE Heartbeat(s)
    <3>1. SendReport(s, "heartbeat") /\ stage[s] # "down" /\ stage' = stage
      BY <2>2 DEF Heartbeat
    <3>2. "heartbeat" \in ReportKind /\ "heartbeat" # "stopped"
      BY DEF ReportKind
    <3> QED
      BY <3>1, <3>2, SendPreserves, Zenon
  <2>3. CASE Draining(s)
    <3>1. SendReport(s, "draining") /\ stage[s] # "down" /\ stage' = stage
      BY <2>3 DEF Draining
    <3>2. "draining" \in ReportKind /\ "draining" # "stopped"
      BY DEF ReportKind
    <3> QED
      BY <3>1, <3>2, SendPreserves, Zenon
  <2>4. CASE Stopped(s)
    <3>1. /\ SendReport(s, "stopped") /\ stage[s] # "down"
          /\ stage' = [stage EXCEPT ![s] = "down"]
      BY <2>4 DEF Stopped
    <3>2. "stopped" \in ReportKind
      BY DEF ReportKind
    <3> QED
      BY <3>1, <3>2, SendPreserves, Zenon
  <2> QED
    BY <1>3, <2>1, <2>2, <2>3, <2>4, Zenon
<1>4. ASSUME NEW m \in mail, LoseReport(m)
      PROVE  UsageInv'
  <2>1. UNCHANGED <<stage, reporter, usage, updates, landed, noted>> /\ mail' \subseteq mail
    BY <1>4 DEF LoseReport
  <2> QED
    BY <1>1, <2>1, QuietPreserves, Zenon
<1>5. CASE Refill
  <2>1. UNCHANGED <<stage, reporter, mail, usage, updates, landed, noted>>
    BY <1>5 DEF Refill
  <2> QED
    BY <1>1, <2>1, QuietPreserves, Zenon
<1> QED
  BY <1>2, <1>3, <1>4, <1>5, EstimatePreserves, RecordPreserves, PublishPreserves, Zenon
     DEF LifecycleNext, HostSessionStep

LEMMA UsageStutter ==
    ASSUME UsageInv, UNCHANGED lifecycleVars
    PROVE  UsageInv'
<1>1. UNCHANGED <<stage, reporter, mail, usage, updates, landed, noted>>
  BY DEF lifecycleVars
<1>2. stage \in [Session -> {"unborn", "launching", "up", "down"}]
  BY Zenon DEF UsageInv, LifecycleType
<1> QED
  BY <1>1, <1>2, QuietPreserves, Zenon

(* For any number of sessions and reports: whoever keeps the highest       *)
(* revision of the usage updates, in whatever order they and the reports   *)
(* behind them arrived, learns the real stop once it was published, and    *)
(* believes an estimated one that a later recorded report belies only      *)
(* while the correction is not published, or when it was lost              *)
(* (record_usage, UsageSessions::observe, reconcile, publish_usage).       *)
THEOREM PublishedUsageConverges ==
    LifecycleSpec => []UsageConverges
<1>1. LifecycleInit => UsageInv
  BY UsageInit
<1>2. UsageInv /\ [LifecycleNext]_lifecycleVars => UsageInv'
  BY UsageNext, UsageStutter, Zenon
<1>3. UsageInv => UsageConverges
  BY InvConverges
<1> QED
  BY <1>1, <1>2, <1>3, PTL DEF LifecycleSpec

-----------------------------------------------------------------------------
(* The quota.                                                              *)

QuotaInv == IsFiniteSet(slots) /\ QuotaHeld

(* A step by which nobody gets a slot who did not report late.             *)
LEMMA QuotaKept ==
    ASSUME QuotaInv, IsFiniteSet(slots'), slots' \ lapsed' \subseteq slots \ lapsed
    PROVE  QuotaInv'
<1> DEFINE S == slots \ lapsed
           T == slots' \ lapsed'
<1>1. IsFiniteSet(S)
  BY FS_Subset, Zenon DEF QuotaInv
<1>2. IsFiniteSet(T) /\ Cardinality(T) <= Cardinality(S)
  BY <1>1, FS_Subset, Zenon
<1>3. Cardinality(S) \in Nat /\ Cardinality(T) \in Nat
  BY <1>1, <1>2, FS_CardinalityType, Zenon
<1>4. Cardinality(S) <= MaxActive /\ MaxActive \in Nat
  BY LifecycleConstants DEF QuotaInv, QuotaHeld
<1>5. Cardinality(T) <= MaxActive
  <2> HIDE DEF S, T
  <2> QED
    BY <1>2, <1>3, <1>4
<1> QED
  BY <1>5, Zenon DEF QuotaInv, QuotaHeld

LEMMA ReservePreserves ==
    ASSUME QuotaInv, NEW s, Reserve(s), lapsed' = lapsed
    PROVE  QuotaInv'
<1>1. Cardinality(slots) < MaxActive /\ slots' = slots \cup {s}
  BY DEF Reserve
<1>2. IsFiniteSet(slots) /\ Cardinality(slots) \in Nat
  BY FS_CardinalityType, Zenon DEF QuotaInv
<1>3. /\ IsFiniteSet(slots \cup {s})
      /\ Cardinality(slots \cup {s}) = Cardinality(slots)
           \/ Cardinality(slots \cup {s}) = Cardinality(slots) + 1
  BY <1>2, FS_AddElement, Zenon
<1> DEFINE T == slots' \ lapsed'
<1>4. IsFiniteSet(T) /\ Cardinality(T) <= Cardinality(slots \cup {s})
  BY <1>1, <1>3, FS_Subset, Zenon
<1>5. Cardinality(T) \in Nat
  BY <1>4, FS_CardinalityType, Zenon
<1>6. MaxActive \in Nat
  BY LifecycleConstants
<1>7. Cardinality(T) <= MaxActive
  <2> HIDE DEF T
  <2> QED
    BY <1>1, <1>2, <1>3, <1>4, <1>5, <1>6
<1> QED
  BY <1>1, <1>3, <1>7, Zenon DEF QuotaInv, QuotaHeld

LEMMA ObserveKeepsQuota ==
    ASSUME QuotaInv, NEW m, Observe(m)
    PROVE  QuotaInv'
<1> DEFINE s == m.session
<1>1. IsFiniteSet(slots \cup {s}) /\ IsFiniteSet(slots)
  BY FS_AddElement, Zenon DEF QuotaInv
<1>2. slots' \subseteq slots \cup {s} /\ slots' \ lapsed' \subseteq slots \ lapsed
  BY DEF Observe
<1>3. IsFiniteSet(slots')
  BY <1>1, <1>2, FS_Subset, Zenon
<1> QED
  BY <1>2, <1>3, QuotaKept, Zenon

LEMMA QuotaNext ==
    ASSUME QuotaInv, [LifecycleNext]_lifecycleVars
    PROVE  QuotaInv'
<1>1. ASSUME slots' \subseteq slots, lapsed' = lapsed
      PROVE  QuotaInv'
  <2>1. IsFiniteSet(slots')
    BY <1>1, FS_Subset, Zenon DEF QuotaInv
  <2> QED
    BY <1>1, <2>1, QuotaKept, Zenon
<1>2. ASSUME NEW s \in Session, LaunchSession(s)
      PROVE  QuotaInv'
  <2>1. lapsed' = lapsed /\ (slots' = slots \/ Reserve(s))
    BY <1>2 DEF LaunchSession
  <2> QED
    BY <1>1, <2>1, ReservePreserves, Zenon
<1>3. ASSUME NEW s \in Session,
             Release(s) \/ StartSession(s) \/ Heartbeat(s) \/ Draining(s) \/ Stopped(s)
               \/ Crash(s) \/ SlotExpires(s) \/ EstimateStop(s)
      PROVE  QuotaInv'
  <2>1. slots' \subseteq slots /\ lapsed' = lapsed
    BY <1>3 DEF Release, StartSession, Heartbeat, Draining, Stopped, SendReport, Crash,
       SlotExpires, EstimateStop
  <2> QED
    BY <1>1, <2>1, Zenon
<1>4. ASSUME NEW m \in mail, Record(m)
      PROVE  QuotaInv'
  <2>1. Observe(m) \/ (slots' = slots /\ lapsed' = lapsed)
    BY <1>4 DEF Record
  <2> QED
    BY <1>1, <2>1, ObserveKeepsQuota, Zenon
<1>5. ASSUME \/ \E m \in mail : LoseReport(m)
             \/ \E u \in updates : PublishUsage(u)
             \/ Refill \/ UNCHANGED lifecycleVars
      PROVE  QuotaInv'
  <2>1. slots' = slots /\ lapsed' = lapsed
    BY <1>5 DEF LoseReport, PublishUsage, Refill, lifecycleVars
  <2> QED
    BY <1>1, <2>1, Zenon
<1> QED
  BY <1>2, <1>3, <1>4, <1>5, Zenon DEF LifecycleNext, HostSessionStep

(* However late reports come and slots expire, the sessions that hold a    *)
(* slot and did not take it again after losing it are never more than      *)
(* max_active_actors (reserve, prune, ReservationStore::observe).          *)
THEOREM ActiveActorsWithinQuota ==
    LifecycleSpec => []QuotaHeld
<1>1. LifecycleInit => QuotaInv
  <2> SUFFICES ASSUME LifecycleInit
               PROVE  QuotaInv
    OBVIOUS
  <2>1. slots = {} /\ slots \ lapsed = {}
    BY DEF LifecycleInit, LifecycleStart
  <2>2. IsFiniteSet({}) /\ Cardinality({}) = 0
    BY FS_EmptySet
  <2>3. 0 <= MaxActive
    BY LifecycleConstants
  <2> QED
    BY <2>1, <2>2, <2>3, Zenon DEF QuotaInv, QuotaHeld
<1>2. QuotaInv /\ [LifecycleNext]_lifecycleVars => QuotaInv'
  BY QuotaNext
<1>3. QuotaInv => QuotaHeld
  BY DEF QuotaInv
<1> QED
  BY <1>1, <1>2, <1>3, PTL DEF LifecycleSpec
=============================================================================
