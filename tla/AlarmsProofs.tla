---------------------------- MODULE AlarmsProofs ----------------------------
(***************************************************************************)
(* Proofs about the alarm scheduler: for any number of actors, replicas    *)
(* and slots and any timing that satisfies AlarmTiming, no revision of an  *)
(* alarm is delivered twice at a time, and an alarm is cleared only when   *)
(* its handler was run or all its attempts were made.                      *)
(*                                                                         *)
(* The invariant is a time budget: the age of a claim and what its         *)
(* delivery may still take add up to less than QUEUED_TIMEOUT, so that no  *)
(* replica, whatever its clock, takes a claim with a live delivery for     *)
(* expired.                                                                *)
(***************************************************************************)
EXTENDS Alarms, TLAPS

(* n further rounds of a pause and an attempt.                             *)
Rounds(n) == n * (AttemptTimeout + RetryDelay)

(* The longest that a live delivery may still take.                        *)
Remaining(t) ==
    IF t.phase = "pause"
    THEN t.left + AttemptTimeout + Rounds(MaxAttempts - t.made - 1)
    ELSE t.left + Rounds(MaxAttempts - t.made)

Alarm == [revision : Nat, due : Int \cup {Idle}, age : Int \cup {Idle}]

AlarmsType ==
    /\ Scheduler # {}
    /\ alarms \in [AlarmActor -> Alarm]
    /\ sampled \in [Scheduler -> 0..ClaimDelay \cup {Idle}]
    /\ tasks \in [Scheduler -> [Slot -> Delivery \cup {Idle}]]
    /\ offset \in [Scheduler -> 0..MaxOffset]
    /\ table \in {"postgres", "sqlite"}
    /\ tried \in [AlarmActor -> 0..MaxAttempts]

(* A delivery of what is still the alarm's revision.                       *)
Current(t) == t.revision = alarms[t.actor].revision

IsLive(t) == t.phase \in {"attempt", "pause"}

(* What is known of a delivery t.                                          *)
DeliveryInv(t) ==
    /\ t.revision <= alarms[t.actor].revision
    /\ t.made \in 1..MaxAttempts
    /\ t.phase = "pause" => t.made < MaxAttempts
    /\ t.phase = "finish" => <<t.actor, t.revision>> \in ran \/ t.made = MaxAttempts
    /\ Current(t) => t.made <= tried[t.actor]
    /\ Current(t) /\ IsLive(t) /\ alarms[t.actor].due # Idle =>
         /\ alarms[t.actor].age # Idle
         /\ alarms[t.actor].age + Remaining(t) <= DeliveryTime + ClaimDelay

AlarmsInv ==
    /\ AlarmsType
    /\ \A p \in Scheduler, k \in Slot :
         tasks[p][k] # Idle => p \in Replicas /\ DeliveryInv(tasks[p][k])
    /\ OneDelivery

-----------------------------------------------------------------------------
(* Arithmetic of the time budget. *)

LEMMA Constants ==
    /\ AttemptTimeout \in Nat /\ RetryDelay \in Nat /\ MaxAttempts \in Nat
    /\ QueuedTimeout \in Nat /\ ClaimDelay \in Nat /\ MaxOffset \in Nat
    /\ MaxAhead \in Nat /\ MaxAttempts > 0
  BY AlarmTiming

LEMMA RoundsNat ==
    ASSUME NEW n \in Nat
    PROVE  /\ Rounds(n) \in Nat
           /\ Rounds(n + 1) = Rounds(n) + AttemptTimeout + RetryDelay
<1> DEFINE C == AttemptTimeout + RetryDelay
<1>1. C \in Nat
  BY Constants
<1>2. n * C \in Nat /\ (n + 1) * C = n * C + C
  <2> HIDE DEF C
  <2> QED
    BY <1>1
<1> QED
  BY <1>1, <1>2, Constants DEF Rounds

(* A delivery that begins may take DeliveryTime.                           *)
LEMMA DeliveryTimeIs ==
    /\ DeliveryTime \in Nat
    /\ DeliveryTime = AttemptTimeout + Rounds(MaxAttempts - 1)
<1> DEFINE m == MaxAttempts - 1
           A == AttemptTimeout
           R == RetryDelay
<1>1. m \in Nat /\ A \in Nat /\ R \in Nat /\ MaxAttempts = m + 1
  BY Constants
<1>2. DeliveryTime = (m + 1) * A + m * R
  BY <1>1 DEF DeliveryTime
<1>3. Rounds(m) = m * (A + R)
  BY DEF Rounds
<1>4. (m + 1) * A + m * R = A + m * (A + R) /\ A + m * (A + R) \in Nat
  <2> HIDE DEF m, A, R
  <2> QED
    BY <1>1
<1> QED
  BY <1>2, <1>3, <1>4

LEMMA RemainingNat ==
    ASSUME NEW t \in Delivery, t.made \in 1..MaxAttempts,
           t.phase = "pause" => t.made < MaxAttempts
    PROVE  Remaining(t) \in Nat
<1>1. t.left \in Nat /\ MaxAttempts - t.made \in Nat
  BY Constants DEF Delivery
<1>2. CASE t.phase = "pause"
  <2>1. MaxAttempts - t.made - 1 \in Nat
    BY <1>1, <1>2, Constants
  <2> QED
    BY <2>1, <1>1, <1>2, RoundsNat, Constants DEF Remaining
<1>3. CASE t.phase # "pause"
  BY <1>1, <1>3, RoundsNat DEF Remaining
<1> QED
  BY <1>2, <1>3

-----------------------------------------------------------------------------
(* The steps. *)

(* Same(t, u): t and u deliver the same revision of the same alarm.        *)
Same(t, u) == t.actor = u.actor /\ t.revision = u.revision

LEMMA ReplicasAre ==
    ASSUME AlarmsType
    PROVE  /\ Replicas \subseteq Scheduler
           /\ table # "postgres" => \A p, q \in Replicas : p = q
<1>1. CASE table = "postgres"
  BY <1>1 DEF Replicas
<1>2. CASE table = "sqlite"
  BY <1>2 DEF Replicas, AlarmsType
<1> QED
  BY <1>1, <1>2 DEF AlarmsType

(* A step that begins no delivery preserves the invariant if what it       *)
(* leaves of each delivery is as the invariant says.                       *)
LEMMA NothingBegins ==
    ASSUME AlarmsInv, AlarmsType', table' = table,
           \A p \in Scheduler, k \in Slot : tasks'[p][k] # Idle =>
             /\ tasks[p][k] # Idle
             /\ DeliveryInv(tasks[p][k])'
             /\ Same(tasks'[p][k], tasks[p][k])
             /\ IsLive(tasks'[p][k]) => IsLive(tasks[p][k])
    PROVE  AlarmsInv'
<1>1. Replicas' = Replicas
  BY DEF Replicas
<1>2. \A p \in Scheduler, k \in Slot :
        tasks'[p][k] # Idle => p \in Replicas' /\ DeliveryInv(tasks[p][k])'
  BY <1>1 DEF AlarmsInv
<1>3. OneDelivery'
  <2> SUFFICES ASSUME NEW a \in AlarmActor,
                      NEW x \in Scheduler \X Slot, NEW y \in Scheduler \X Slot,
                      Live(x[1], x[2], a)', Live(y[1], y[2], a)',
                      tasks'[x[1]][x[2]].revision = tasks'[y[1]][y[2]].revision
               PROVE  x = y
    BY Zenon DEF OneDelivery
  <2>1. x[1] \in Scheduler /\ x[2] \in Slot /\ y[1] \in Scheduler /\ y[2] \in Slot
    OBVIOUS
  <2>2. Live(x[1], x[2], a)
    BY <2>1, Zenon DEF Live, Same, IsLive
  <2>3. Live(y[1], y[2], a)
    BY <2>1, Zenon DEF Live, Same, IsLive
  <2>4. tasks[x[1]][x[2]].revision = tasks[y[1]][y[2]].revision
    BY <2>1, Zenon DEF Live, Same
  <2> QED
    BY <2>2, <2>3, <2>4, Zenon DEF AlarmsInv, OneDelivery
<1> QED
  BY <1>2, <1>3, Zenon DEF AlarmsInv

LEMMA TaskFacts ==
    ASSUME AlarmsInv, NEW p \in Scheduler, NEW k \in Slot, tasks[p][k] # Idle
    PROVE  /\ tasks[p][k] \in Delivery
           /\ DeliveryInv(tasks[p][k])
           /\ p \in Replicas
  BY DEF AlarmsInv, AlarmsType

(* What a delivery is known by does not change with steps that leave its   *)
(* alarm, or only grow the histories.                                      *)
LEMMA DeliveryKept ==
    ASSUME NEW t \in Delivery, DeliveryInv(t), AlarmsType, AlarmsType',
           alarms'[t.actor] = alarms[t.actor], ran \subseteq ran',
           tried[t.actor] <= tried'[t.actor]
    PROVE  DeliveryInv(t)'
<1>1. t.made \in Nat /\ t.actor \in AlarmActor
  BY DEF Delivery
<1>2. tried[t.actor] \in Nat /\ tried'[t.actor] \in Nat
  BY <1>1 DEF AlarmsType
<1>3. Current(t)' = Current(t)
  BY DEF Current
<1>4. Current(t)' => t.made <= tried'[t.actor]
  BY <1>1, <1>2, <1>3 DEF DeliveryInv
<1> QED
  BY <1>3, <1>4, Zenon DEF DeliveryInv

LEMMA InitInv ==
    AlarmsStart({"postgres", "sqlite"}) => AlarmsInv
<1> SUFFICES ASSUME AlarmsStart({"postgres", "sqlite"})
             PROVE  AlarmsInv
  OBVIOUS
<1>1. AlarmsType
  BY Constants DEF AlarmsStart, AlarmsType, Alarm
<1>2. \A p \in Scheduler, k \in Slot : tasks[p][k] = Idle
  BY DEF AlarmsStart
<1>3. OneDelivery
  BY <1>2 DEF OneDelivery, Live
<1> QED
  BY <1>1, <1>2, <1>3 DEF AlarmsInv

(* A step that leaves alarms, deliveries and histories as they are.        *)
LEMMA OthersPreserve ==
    ASSUME AlarmsInv, UNCHANGED <<alarms, tasks, offset, table, ran, tried>>,
           sampled' \in [Scheduler -> 0..ClaimDelay \cup {Idle}]
    PROVE  AlarmsInv'
<1>1. AlarmsType'
  BY Zenon DEF AlarmsInv, AlarmsType
<1>2. Replicas' = Replicas
  BY Zenon DEF Replicas
<1>3. OneDelivery'
  BY Zenon DEF AlarmsInv, OneDelivery, Live
<1>4. ASSUME NEW t, DeliveryInv(t)
      PROVE  DeliveryInv(t)'
  BY <1>4, Zenon DEF DeliveryInv, Current
<1> QED
  BY <1>1, <1>2, <1>3, <1>4, Zenon DEF AlarmsInv

LEMMA UpdatePreserves ==
    ASSUME AlarmsInv, NEW a \in AlarmActor, NEW due \in 0..MaxAhead \cup {Idle},
           UpdateAlarm(a, due)
    PROVE  AlarmsInv'
<1>1. AlarmsType'
  BY Constants DEF AlarmsInv, AlarmsType, UpdateAlarm, Alarm
<1>2. ASSUME NEW t \in Delivery, DeliveryInv(t)
      PROVE  DeliveryInv(t)'
  <2>1. CASE t.actor = a
    <3>1. t.revision \in Nat /\ alarms[a].revision \in Nat
      BY <2>1 DEF AlarmsInv, AlarmsType, Alarm, Delivery
    <3>2. alarms'[a].revision = alarms[a].revision + 1
      BY DEF AlarmsInv, AlarmsType, UpdateAlarm
    <3>3. t.revision <= alarms'[t.actor].revision /\ ~Current(t)'
      BY <2>1, <3>1, <3>2, <1>2 DEF Current, DeliveryInv
    <3> QED
      BY <3>3, <1>2, Zenon DEF DeliveryInv, UpdateAlarm
  <2>2. CASE t.actor # a
    <3>1. t.actor \in AlarmActor
      BY DEF Delivery
    <3>2. alarms'[t.actor] = alarms[t.actor] /\ tried'[t.actor] = tried[t.actor] /\ ran' = ran
      BY <2>2, <3>1 DEF AlarmsInv, AlarmsType, UpdateAlarm
    <3>3. tried[t.actor] \in Nat
      BY <3>1 DEF AlarmsInv, AlarmsType
    <3> QED
      BY <1>1, <1>2, <3>2, <3>3, DeliveryKept DEF AlarmsInv
  <2> QED
    BY <2>1, <2>2
<1>3. tasks' = tasks /\ table' = table
  BY DEF UpdateAlarm
<1>4. ASSUME NEW p \in Scheduler, NEW k \in Slot, tasks'[p][k] # Idle
      PROVE  /\ tasks[p][k] # Idle
             /\ DeliveryInv(tasks[p][k])'
             /\ Same(tasks'[p][k], tasks[p][k])
             /\ IsLive(tasks'[p][k]) => IsLive(tasks[p][k])
  <2>1. PICK t : t = tasks[p][k] /\ t = tasks'[p][k]
    BY <1>3, Zenon
  <2>2. t # Idle /\ t \in Delivery /\ DeliveryInv(t)
    BY <1>4, <2>1, TaskFacts, Zenon
  <2>3. DeliveryInv(t)'
    BY <1>2, <2>2, Zenon
  <2>4. DeliveryInv(tasks[p][k])'
    BY <2>1, <2>3, Zenon DEF DeliveryInv, Current
  <2> QED
    BY <2>1, <2>2, <2>4, Zenon DEF Same
<1> QED
  BY <1>1, <1>3, <1>4, NothingBegins, Zenon

(* One delivery moves on from t to u, or ends.                             *)
LEMMA SlotMoves ==
    ASSUME AlarmsInv, AlarmsType', table' = table,
           NEW p \in Scheduler, NEW k \in Slot, tasks[p][k] # Idle, NEW u,
           tasks' = [tasks EXCEPT ![p][k] = u],
           u # Idle => /\ DeliveryInv(u)'
                       /\ Same(u, tasks[p][k])
                       /\ IsLive(u) => IsLive(tasks[p][k]),
           \A t \in Delivery : DeliveryInv(t) => DeliveryInv(t)'
    PROVE  AlarmsInv'
<1>1. ASSUME NEW q \in Scheduler, NEW j \in Slot
      PROVE  tasks'[q][j] = IF q = p /\ j = k THEN u ELSE tasks[q][j]
  BY DEF AlarmsInv, AlarmsType
<1>2. ASSUME NEW q \in Scheduler, NEW j \in Slot, tasks'[q][j] # Idle
      PROVE  /\ tasks[q][j] # Idle
             /\ DeliveryInv(tasks[q][j])'
             /\ Same(tasks'[q][j], tasks[q][j])
             /\ IsLive(tasks'[q][j]) => IsLive(tasks[q][j])
  <2>1. CASE q = p /\ j = k
    <3>1. tasks'[q][j] = u
      BY <1>1, <2>1, Zenon
    <3>2. DeliveryInv(tasks[q][j])'
      BY <3>1, <1>2, Zenon DEF DeliveryInv, Current, Remaining, IsLive
    <3> QED
      BY <1>2, <2>1, <3>1, <3>2, Zenon
  <2>2. CASE ~(q = p /\ j = k)
    <3>1. tasks'[q][j] = tasks[q][j]
      BY <1>1, <2>2, Zenon
    <3>2. tasks[q][j] \in Delivery /\ DeliveryInv(tasks[q][j])
      BY <1>2, <3>1, TaskFacts, Zenon
    <3>3. DeliveryInv(tasks[q][j])'
      BY <3>1, <3>2, Zenon DEF DeliveryInv, Current, Remaining, IsLive
    <3> QED
      BY <1>2, <3>1, <3>3, Zenon DEF Same
  <2> QED
    BY <2>1, <2>2, Zenon
<1> QED
  BY <1>2, NothingBegins, Zenon

LEMMA AttemptDonePreserves ==
    ASSUME AlarmsInv, NEW p \in Scheduler, NEW k \in Slot, AttemptDone(p, k)
    PROVE  AlarmsInv'
<1>t. PICK t : t = tasks[p][k]
  OBVIOUS
<1>u. PICK u : u = [t EXCEPT !.phase = "finish", !.left = 0]
  OBVIOUS
<1>1. t # Idle /\ t \in Delivery /\ DeliveryInv(t)
  BY <1>t, TaskFacts DEF AttemptDone, Attempting
<1>2. /\ u \in Delivery /\ Same(u, t) /\ ~IsLive(u) /\ u.made = t.made
      /\ u.phase = "finish"
  BY <1>u, <1>1 DEF Delivery, Same, IsLive
<1>3. tasks' = [tasks EXCEPT ![p][k] = u]
  BY <1>t, <1>u DEF AttemptDone, AlarmsInv, AlarmsType
<1>4. AlarmsType' /\ table' = table
  BY <1>2, <1>3 DEF AttemptDone, AlarmsInv, AlarmsType
<1>5. \A v \in Delivery : DeliveryInv(v) => DeliveryInv(v)'
  BY Zenon DEF AttemptDone, DeliveryInv, Current
<1>6. DeliveryInv(u)'
  BY <1>t, <1>1, <1>2, Zenon DEF AttemptDone, DeliveryInv, Current, Same
<1> QED
  BY <1>t, <1>1, <1>2, <1>3, <1>4, <1>5, <1>6, SlotMoves, Zenon

LEMMA AttemptFailsPreserves ==
    ASSUME AlarmsInv, NEW p \in Scheduler, NEW k \in Slot, AttemptFails(p, k)
    PROVE  AlarmsInv'
<1>t. PICK t : t = tasks[p][k]
  OBVIOUS
<1>d. PICK done : done = [t EXCEPT !.phase = "finish", !.left = 0]
  OBVIOUS
<1>w. PICK wait : wait = [t EXCEPT !.phase = "pause", !.left = RetryDelay]
  OBVIOUS
<1>1. t # Idle /\ t \in Delivery /\ DeliveryInv(t) /\ t.phase = "attempt"
  BY <1>t, TaskFacts DEF AttemptFails, Attempting
<1>2. table' = table /\ alarms' = alarms /\ tried' = tried /\ ran \subseteq ran'
  BY DEF AttemptFails
<1>3. \A v \in Delivery : DeliveryInv(v) => DeliveryInv(v)'
  BY <1>2, Zenon DEF DeliveryInv, Current
<1>4. CASE t.made = MaxAttempts
  <2>1. /\ done \in Delivery /\ Same(done, t) /\ ~IsLive(done) /\ done.made = t.made
        /\ done.phase = "finish"
    BY <1>d, <1>1 DEF Delivery, Same, IsLive
  <2>2. tasks' = [tasks EXCEPT ![p][k] = done]
    BY <1>t, <1>d, <1>4 DEF AttemptFails, AlarmsInv, AlarmsType
  <2>3. AlarmsType'
    BY <1>2, <2>1, <2>2 DEF AttemptFails, AlarmsInv, AlarmsType
  <2>4. DeliveryInv(done)'
    BY <1>1, <1>2, <1>4, <2>1, Zenon DEF DeliveryInv, Current, Same
  <2> QED
    BY <1>t, <1>1, <1>2, <1>3, <2>1, <2>2, <2>3, <2>4, SlotMoves, Zenon
<1>5. CASE t.made # MaxAttempts
  <2>1. /\ wait \in Delivery /\ Same(wait, t) /\ wait.made = t.made /\ IsLive(t)
        /\ wait.phase = "pause" /\ wait.left = RetryDelay
    BY <1>w, <1>1, Constants DEF Delivery, Same, IsLive
  <2>2. tasks' = [tasks EXCEPT ![p][k] = wait]
    BY <1>t, <1>w, <1>5 DEF AttemptFails, AlarmsInv, AlarmsType
  <2>3. AlarmsType'
    BY <1>2, <2>1, <2>2 DEF AttemptFails, AlarmsInv, AlarmsType
  <2>4. Remaining(wait) <= Remaining(t) /\ Remaining(wait) \in Nat /\ Remaining(t) \in Nat
        /\ t.made < MaxAttempts
    <3>1. t.made \in Nat /\ t.left \in Nat /\ t.made \in 1..MaxAttempts
      BY <1>1 DEF Delivery, DeliveryInv
    <3>2. MaxAttempts - t.made - 1 \in Nat
          /\ MaxAttempts - t.made = (MaxAttempts - t.made - 1) + 1
          /\ t.made < MaxAttempts
      BY <1>5, <3>1, Constants
    <3>3. Rounds(MaxAttempts - t.made)
            = Rounds(MaxAttempts - t.made - 1) + AttemptTimeout + RetryDelay
      BY <3>2, RoundsNat
    <3>4. Remaining(t) = t.left + Rounds(MaxAttempts - t.made)
      BY <1>1 DEF Remaining
    <3>5. Remaining(wait) = RetryDelay + AttemptTimeout + Rounds(MaxAttempts - t.made - 1)
      BY <2>1 DEF Remaining
    <3>6. Rounds(MaxAttempts - t.made - 1) \in Nat
      BY <3>2, RoundsNat
    <3> QED
      BY <3>1, <3>2, <3>3, <3>4, <3>5, <3>6, Constants
  <2>5. alarms[t.actor].age # Idle => alarms[t.actor].age \in Int
    BY <1>1 DEF AlarmsInv, AlarmsType, Alarm, Delivery
  <2>6. DeliveryTime + ClaimDelay \in Nat
    BY DeliveryTimeIs, Constants
  <2>7. DeliveryInv(wait)'
    <3>1. Current(wait)' = Current(t) /\ alarms'[wait.actor] = alarms[t.actor]
      BY <1>2, <2>1, Zenon DEF Current, Same
    <3>2. Current(t) /\ alarms[t.actor].due # Idle =>
            /\ alarms[t.actor].age # Idle
            /\ alarms[t.actor].age + Remaining(wait) <= DeliveryTime + ClaimDelay
      BY <1>1, <2>1, <2>4, <2>5, <2>6 DEF DeliveryInv
    <3> QED
      BY <1>1, <1>2, <2>1, <2>4, <3>1, <3>2, Zenon DEF DeliveryInv, Same
  <2> QED
    BY <1>t, <1>1, <1>2, <1>3, <2>1, <2>2, <2>3, <2>7, SlotMoves, Zenon
<1> QED
  BY <1>4, <1>5

LEMMA RetryPreserves ==
    ASSUME AlarmsInv, NEW p \in Scheduler, NEW k \in Slot, Retry(p, k)
    PROVE  AlarmsInv'
<1>t. PICK t : t = tasks[p][k]
  OBVIOUS
<1>u. PICK u : u = [t EXCEPT !.phase = "attempt", !.made = t.made + 1, !.left = AttemptTimeout]
  OBVIOUS
<1>1. t # Idle /\ t \in Delivery /\ DeliveryInv(t) /\ t.phase = "pause"
  BY <1>t, TaskFacts DEF Retry
<1>2. t.made \in Nat /\ t.left \in Nat /\ t.made \in 1..MaxAttempts /\ t.made < MaxAttempts
      /\ t.actor \in AlarmActor
  BY <1>1 DEF Delivery, DeliveryInv
<1>3. table' = table /\ alarms' = alarms /\ ran' = ran /\ offset' = offset /\ sampled' = sampled
  BY DEF Retry
<1>4. /\ u \in Delivery /\ Same(u, t) /\ u.made = t.made + 1 /\ IsLive(t)
      /\ u.phase = "attempt" /\ u.left = AttemptTimeout /\ u.made \in 1..MaxAttempts
  <2>1. /\ u.made = t.made + 1 /\ u.phase = "attempt" /\ u.left = AttemptTimeout
        /\ u.actor = t.actor /\ u.revision = t.revision
        /\ u = [actor |-> t.actor, revision |-> t.revision, phase |-> "attempt",
                made |-> t.made + 1, left |-> AttemptTimeout]
    BY <1>u, <1>1 DEF Delivery
  <2>2. t.made + 1 \in Nat /\ t.made + 1 \in 1..MaxAttempts
    BY <1>2, Constants
  <2>3. u \in Delivery
    BY <1>1, <2>1, <2>2, Constants DEF Delivery
  <2> QED
    BY <1>1, <2>1, <2>2, <2>3 DEF Same, IsLive
<1>5. tasks' = [tasks EXCEPT ![p][k] = u]
  BY <1>t, <1>u, Zenon DEF Retry
<1>6. tried \in [AlarmActor -> 0..MaxAttempts]
  BY DEF AlarmsInv, AlarmsType
<1>7. AtLeast(t.actor, t.made + 1) \in 0..MaxAttempts
      /\ AtLeast(t.actor, t.made + 1) >= t.made + 1
      /\ AtLeast(t.actor, t.made + 1) >= tried[t.actor]
  BY <1>2, <1>6, Constants DEF AtLeast
<1>8. /\ tried' \in [AlarmActor -> 0..MaxAttempts]
      /\ \A a \in AlarmActor : tried[a] <= tried'[a]
      /\ Current(t) => tried'[t.actor] >= t.made + 1
  <2>1. CASE Current(t)
    <3>1. tried' = [tried EXCEPT ![t.actor] = AtLeast(t.actor, t.made + 1)]
      BY <2>1, <1>t, Zenon DEF Retry, Current
    <3> QED
      BY <3>1, <1>2, <1>6, <1>7
  <2>2. CASE ~Current(t)
    <3>1. tried' = tried
      BY <2>2, <1>t, Zenon DEF Retry, Current
    <3> QED
      BY <3>1, <2>2, <1>6
  <2> QED
    BY <2>1, <2>2
<1>9. AlarmsType'
  BY <1>3, <1>4, <1>5, <1>8 DEF AlarmsInv, AlarmsType
<1>10. ASSUME NEW v \in Delivery, DeliveryInv(v)
       PROVE  DeliveryInv(v)'
  <2>1. v.actor \in AlarmActor
    BY DEF Delivery
  <2> QED
    BY <2>1, <1>3, <1>8, <1>9, <1>10, DeliveryKept, Zenon DEF AlarmsInv
<1>11. Remaining(u) <= Remaining(t) /\ Remaining(u) \in Nat /\ Remaining(t) \in Nat
  <2>1. MaxAttempts - t.made - 1 \in Nat
        /\ MaxAttempts - (t.made + 1) = MaxAttempts - t.made - 1
    BY <1>2, Constants
  <2>2. Remaining(t) = t.left + AttemptTimeout + Rounds(MaxAttempts - t.made - 1)
    BY <1>1 DEF Remaining
  <2>3. Remaining(u) = AttemptTimeout + Rounds(MaxAttempts - t.made - 1)
    BY <1>4, <2>1 DEF Remaining
  <2>4. Rounds(MaxAttempts - t.made - 1) \in Nat
    BY <2>1, RoundsNat
  <2> QED
    BY <1>2, <2>2, <2>3, <2>4, Constants
<1>12. DeliveryInv(u)'
  <2>1. Current(u)' = Current(t) /\ alarms'[u.actor] = alarms[t.actor] /\ u.actor = t.actor
    BY <1>3, <1>4, Zenon DEF Current, Same
  <2>2. alarms[t.actor].age # Idle => alarms[t.actor].age \in Int
    BY <1>2 DEF AlarmsInv, AlarmsType, Alarm
  <2>3. DeliveryTime + ClaimDelay \in Nat
    BY DeliveryTimeIs, Constants
  <2>4. Current(t) /\ alarms[t.actor].due # Idle =>
          /\ alarms[t.actor].age # Idle
          /\ alarms[t.actor].age + Remaining(u) <= DeliveryTime + ClaimDelay
    <3> QED
      BY <1>1, <1>4, <1>11, <2>2, <2>3 DEF DeliveryInv
  <2>5. Current(t) => u.made <= tried'[u.actor]
    BY <1>2, <1>4, <1>6, <1>8, <2>1
  <2>6. u.phase # "pause" /\ u.phase # "finish"
    BY <1>4
  <2> QED
    BY <1>1, <1>3, <1>4, <2>1, <2>4, <2>5, <2>6, Zenon DEF DeliveryInv, Same
<1> QED
  BY <1>t, <1>1, <1>3, <1>4, <1>5, <1>9, <1>10, <1>12, SlotMoves, Zenon

(* AttemptRefused and FinishFails end a delivery and leave its alarm.      *)
LEMMA EndPreserves ==
    ASSUME AlarmsInv, NEW p \in Scheduler, NEW k \in Slot, tasks[p][k] # Idle,
           tasks' = [tasks EXCEPT ![p][k] = Idle],
           UNCHANGED <<alarms, sampled, offset, table, ran, tried>>
    PROVE  AlarmsInv'
<1>1. AlarmsType'
  BY DEF AlarmsInv, AlarmsType
<1>2. \A v \in Delivery : DeliveryInv(v) => DeliveryInv(v)'
  BY Zenon DEF DeliveryInv, Current
<1> QED
  BY <1>1, <1>2, SlotMoves, Zenon

LEMMA FinishPreserves ==
    ASSUME AlarmsInv, NEW p \in Scheduler, NEW k \in Slot, Finish(p, k)
    PROVE  AlarmsInv'
<1> DEFINE t == tasks[p][k]
<1>1. t # Idle /\ t \in Delivery
  BY TaskFacts DEF Finish
<1>2. /\ tasks' = [tasks EXCEPT ![p][k] = Idle]
      /\ UNCHANGED <<sampled, offset, table, ran, tried>>
  BY DEF Finish
<1>3. t.actor \in AlarmActor
  BY <1>1 DEF Delivery
<1>4. \/ alarms' = alarms
      \/ alarms' = [alarms EXCEPT ![t.actor] = [@ EXCEPT !.due = Idle, !.age = Idle]]
  BY Zenon DEF Finish
<1>c. PICK c : c = [alarms[t.actor] EXCEPT !.due = Idle, !.age = Idle]
  OBVIOUS
<1>8. alarms \in [AlarmActor -> Alarm]
  BY DEF AlarmsInv, AlarmsType
<1>9. c \in Alarm /\ c.revision = alarms[t.actor].revision /\ c.due = Idle
  BY <1>c, <1>3, <1>8 DEF Alarm
<1>10. alarms' = alarms \/ alarms' = [alarms EXCEPT ![t.actor] = c]
  BY <1>4, <1>c, Zenon
<1>5. AlarmsType'
  <2>1. alarms' \in [AlarmActor -> Alarm]
    BY <1>3, <1>8, <1>9, <1>10
  <2>2. tasks' \in [Scheduler -> [Slot -> Delivery \cup {Idle}]]
    BY <1>2 DEF AlarmsInv, AlarmsType
  <2> QED
    BY <1>2, <2>1, <2>2, Zenon DEF AlarmsInv, AlarmsType
<1>6. ASSUME NEW a \in AlarmActor
      PROVE  /\ alarms'[a].revision = alarms[a].revision
             /\ alarms'[a] = alarms[a] \/ alarms'[a].due = Idle
  BY <1>3, <1>8, <1>9, <1>10
<1>7. ASSUME NEW v \in Delivery, DeliveryInv(v)
      PROVE  DeliveryInv(v)'
  <2>1. v.actor \in AlarmActor
    BY DEF Delivery
  <2> QED
    BY <1>2, <1>6, <1>7, <2>1, Zenon DEF DeliveryInv, Current
<1> QED
  BY <1>1, <1>2, <1>5, <1>7, SlotMoves, Zenon

LEMMA CrashPreserves ==
    ASSUME AlarmsInv, NEW p \in Replicas, CrashScheduler(p)
    PROVE  AlarmsInv'
<1>1. p \in Scheduler
  BY ReplicasAre DEF AlarmsInv
<1>2. AlarmsType'
  <2>1. alarms' \in [AlarmActor -> Alarm]
    BY DEF CrashScheduler, AlarmsInv, AlarmsType, Alarm
  <2> QED
    BY <1>1, <2>1 DEF CrashScheduler, AlarmsInv, AlarmsType
<1>3. ASSUME NEW q \in Scheduler, NEW j \in Slot
      PROVE  tasks'[q][j] = IF q = p THEN Idle ELSE tasks[q][j]
  BY DEF CrashScheduler, AlarmsInv, AlarmsType
<1>4. table' = table /\ ran' = ran /\ tried' = tried
  BY DEF CrashScheduler
<1>5. ASSUME NEW q \in Scheduler, NEW j \in Slot, tasks'[q][j] # Idle
      PROVE  /\ tasks[q][j] # Idle
             /\ DeliveryInv(tasks[q][j])'
             /\ Same(tasks'[q][j], tasks[q][j])
             /\ IsLive(tasks'[q][j]) => IsLive(tasks[q][j])
  <2>1. q # p /\ tasks'[q][j] = tasks[q][j]
    BY <1>3, <1>5
  <2>2. tasks[q][j] \in Delivery /\ DeliveryInv(tasks[q][j]) /\ q \in Replicas
    BY <1>5, <2>1, TaskFacts, Zenon
  <2>3. table = "postgres"
    BY <2>1, <2>2, ReplicasAre, Zenon DEF AlarmsInv
  <2>4. alarms' = alarms
    BY <2>3, Zenon DEF CrashScheduler
  <2>5. DeliveryInv(tasks[q][j])'
    BY <1>4, <2>1, <2>2, <2>4, Zenon DEF DeliveryInv, Current
  <2> QED
    BY <1>5, <2>1, <2>5, Zenon DEF Same
<1> QED
  BY <1>2, <1>4, <1>5, NothingBegins, Zenon

LEMMA TickPreserves ==
    ASSUME AlarmsInv, AlarmTick
    PROVE  AlarmsInv'
<1>1. table' = table /\ ran' = ran /\ tried' = tried /\ offset' = offset
  BY DEF AlarmTick
<1>2. ASSUME NEW a \in AlarmActor
      PROVE  /\ alarms'[a] \in Alarm
             /\ alarms'[a].revision = alarms[a].revision
             /\ (alarms'[a].due = Idle) = (alarms[a].due = Idle)
             /\ alarms[a].age # Idle =>
                  /\ alarms'[a].age # Idle
                  /\ alarms[a].age \in Int /\ alarms'[a].age \in Int
                  /\ alarms'[a].age <= alarms[a].age + 1
  <2>1. alarms[a] \in Alarm
    BY DEF AlarmsInv, AlarmsType
  <2>2. alarms'[a] = [alarms[a] EXCEPT
          !.due = IF @ \in {Idle, -ClaimDelay} THEN @ ELSE @ - 1,
          !.age = IF @ \in {Idle, OldestAge} THEN @ ELSE @ + 1]
    BY DEF AlarmTick
  <2>3. /\ alarms'[a].revision = alarms[a].revision
        /\ alarms'[a].due = IF alarms[a].due \in {Idle, -ClaimDelay} THEN alarms[a].due
                            ELSE alarms[a].due - 1
        /\ alarms'[a].age = IF alarms[a].age \in {Idle, OldestAge} THEN alarms[a].age
                            ELSE alarms[a].age + 1
        /\ alarms'[a] = [revision |-> alarms'[a].revision, due |-> alarms'[a].due,
                         age |-> alarms'[a].age]
    BY <2>1, <2>2 DEF Alarm
  <2>4. /\ alarms[a].due # Idle => alarms[a].due \in Int /\ alarms[a].due - 1 \in Int
        /\ alarms[a].age # Idle => alarms[a].age \in Int /\ alarms[a].age + 1 \in Int
        /\ alarms[a].revision \in Nat
    BY <2>1 DEF Alarm
  <2>5. (alarms'[a].due = Idle) = (alarms[a].due = Idle) /\ alarms'[a].due \in Int \cup {Idle}
    BY <2>3, <2>4, IdleIsNothing
  <2>6. alarms[a].age # Idle =>
          /\ alarms'[a].age # Idle
          /\ alarms[a].age \in Int /\ alarms'[a].age \in Int
          /\ alarms'[a].age <= alarms[a].age + 1
    BY <2>3, <2>4, IdleIsNothing
  <2>7. alarms[a].age = Idle => alarms'[a].age = Idle
    BY <2>3
  <2>8. alarms'[a] \in Alarm
    BY <2>3, <2>4, <2>5, <2>6, <2>7 DEF Alarm
  <2> QED
    BY <2>3, <2>5, <2>6, <2>8
<1>3. ASSUME NEW p \in Scheduler, NEW k \in Slot
      PROVE  tasks'[p][k] = IF tasks[p][k] = Idle \/ tasks[p][k].left = 0 THEN tasks[p][k]
                            ELSE [tasks[p][k] EXCEPT !.left = @ - 1]
  BY DEF AlarmTick
<1>4. ASSUME NEW p \in Scheduler, NEW k \in Slot, tasks[p][k] # Idle
      PROVE  LET t == tasks[p][k]
                 u == tasks'[p][k]
             IN  /\ t \in Delivery /\ u \in Delivery /\ DeliveryInv(t) /\ Same(u, t)
                 /\ u.phase = t.phase /\ u.made = t.made
                 /\ IsLive(t) => t.left \in Nat /\ u.left = t.left - 1
  <2>1. tasks[p][k] \in Delivery /\ DeliveryInv(tasks[p][k])
    BY <1>4, TaskFacts
  <2>2. tasks[p][k].left \in Nat
    BY <2>1 DEF Delivery
  <2>3. IsLive(tasks[p][k]) => tasks[p][k].left > 0
    BY <1>4 DEF AlarmTick, IsLive
  <2>4. CASE tasks[p][k].left = 0
    <3>1. tasks'[p][k] = tasks[p][k]
      BY <1>3, <2>4, Zenon
    <3>2. ~IsLive(tasks[p][k])
      BY <2>3, <2>4
    <3> QED
      BY <2>1, <3>1, <3>2, Zenon DEF Same
  <2>5. CASE tasks[p][k].left # 0
    <3>1. tasks'[p][k] = [tasks[p][k] EXCEPT !.left = @ - 1]
      BY <1>3, <1>4, <2>5, Zenon
    <3>2. tasks[p][k].left - 1 \in Nat
      BY <2>2, <2>5
    <3> QED
      BY <2>1, <2>2, <3>1, <3>2 DEF Delivery, Same
  <2> QED
    BY <2>4, <2>5
<1>5. ASSUME NEW p \in Scheduler, NEW k \in Slot, tasks[p][k] # Idle
      PROVE  DeliveryInv(tasks[p][k])'
  <2> DEFINE t == tasks[p][k]
             u == tasks'[p][k]
  <2>1. /\ t \in Delivery /\ u \in Delivery /\ DeliveryInv(t) /\ Same(u, t)
        /\ u.phase = t.phase /\ u.made = t.made
        /\ IsLive(t) => t.left \in Nat /\ u.left = t.left - 1
    BY <1>4, <1>5, Zenon
  <2>2. t.actor \in AlarmActor /\ u.actor = t.actor /\ u.revision = t.revision
    BY <2>1 DEF Delivery, Same
  <2>3. Current(t)' = Current(t) /\ IsLive(u) = IsLive(t)
    BY <1>2, <2>1, <2>2, Zenon DEF Current, IsLive
  <2>4. IsLive(t) => Remaining(u) = Remaining(t) - 1 /\ Remaining(t) \in Nat
    <3>1. Remaining(t) \in Nat
      BY <2>1, RemainingNat, Zenon DEF DeliveryInv
    <3>2. t.made \in Nat /\ MaxAttempts - t.made \in Nat
          /\ (t.phase = "pause" => MaxAttempts - t.made - 1 \in Nat)
      BY <2>1, Constants DEF DeliveryInv, Delivery
    <3>3. Rounds(MaxAttempts - t.made) \in Nat
      BY <3>2, RoundsNat
    <3>4. t.phase = "pause" => Rounds(MaxAttempts - t.made - 1) \in Nat
      BY <3>2, RoundsNat
    <3>5. CASE t.phase = "pause"
      <4>1. Remaining(u) = u.left + AttemptTimeout + Rounds(MaxAttempts - t.made - 1)
        BY <2>1, <3>5, Zenon DEF Remaining
      <4>2. Remaining(t) = t.left + AttemptTimeout + Rounds(MaxAttempts - t.made - 1)
        BY <3>5, Zenon DEF Remaining
      <4> HIDE DEF t, u
      <4> QED
        BY <2>1, <3>1, <3>4, <3>5, <4>1, <4>2, Constants
    <3>6. CASE t.phase # "pause"
      <4>1. Remaining(u) = u.left + Rounds(MaxAttempts - t.made)
        BY <2>1, <3>6, Zenon DEF Remaining
      <4>2. Remaining(t) = t.left + Rounds(MaxAttempts - t.made)
        BY <3>6, Zenon DEF Remaining
      <4> HIDE DEF t, u
      <4> QED
        BY <2>1, <3>1, <3>3, <4>1, <4>2
    <3> QED
      BY <3>5, <3>6
  <2>5. DeliveryTime + ClaimDelay \in Nat
    BY DeliveryTimeIs, Constants
  <2>6. Current(t) /\ IsLive(t) /\ alarms'[t.actor].due # Idle =>
          /\ alarms'[t.actor].age # Idle
          /\ alarms'[t.actor].age + Remaining(u) <= DeliveryTime + ClaimDelay
    <3> HIDE DEF t, u
    <3> QED
      BY <1>2, <2>1, <2>2, <2>4, <2>5 DEF DeliveryInv
  <2>7. DeliveryInv(t)
    BY <2>1
  <2>8. t.revision <= alarms'[t.actor].revision
    BY <1>2, <2>2, <2>7, Zenon DEF DeliveryInv
  <2> QED
    BY <1>1, <2>1, <2>2, <2>3, <2>6, <2>7, <2>8, Zenon DEF DeliveryInv
<1>6. sampled' \in [Scheduler -> 0..ClaimDelay \cup {Idle}]
  <2>1. ASSUME NEW p \in Scheduler, sampled[p] # Idle
        PROVE  sampled[p] + 1 \in 0..ClaimDelay
    <3>1. sampled[p] \in 0..ClaimDelay /\ sampled[p] < ClaimDelay
      BY <2>1 DEF AlarmTick, AlarmsInv, AlarmsType
    <3> QED
      BY <3>1, Constants
  <2>2. sampled' = [p \in Scheduler |-> IF sampled[p] = Idle THEN Idle ELSE sampled[p] + 1]
    BY DEF AlarmTick
  <2> QED
    BY <2>1, <2>2
<1>7. AlarmsType'
  <2>1. alarms' \in [AlarmActor -> Alarm]
    BY <1>2 DEF AlarmTick
  <2>2. tasks' \in [Scheduler -> [Slot -> Delivery \cup {Idle}]]
    <3>1. ASSUME NEW p \in Scheduler, NEW k \in Slot
          PROVE  tasks'[p][k] \in Delivery \cup {Idle}
      BY <1>3, <1>4, Zenon
    <3> QED
      BY <3>1 DEF AlarmTick
  <2> QED
    BY <1>1, <1>6, <2>1, <2>2, Zenon DEF AlarmsInv, AlarmsType
<1>8. ASSUME NEW p \in Scheduler, NEW k \in Slot, tasks'[p][k] # Idle
      PROVE  /\ tasks[p][k] # Idle
             /\ DeliveryInv(tasks[p][k])'
             /\ Same(tasks'[p][k], tasks[p][k])
             /\ IsLive(tasks'[p][k]) => IsLive(tasks[p][k])
  <2>1. tasks[p][k] # Idle
    BY <1>3, <1>8, Zenon
  <2> QED
    BY <1>4, <1>5, <2>1, Zenon DEF IsLive
<1> QED
  BY <1>1, <1>7, <1>8, NothingBegins, Zenon

(* No replica takes a claim for expired while its delivery is live.        *)
LEMMA NotDue ==
    ASSUME AlarmsInv, NEW p \in Scheduler, sampled[p] # Idle,
           NEW q \in Scheduler, NEW k \in Slot, tasks[q][k] # Idle,
           IsLive(tasks[q][k]), Current(tasks[q][k])
    PROVE  ~IsDue(p, tasks[q][k].actor)
<1> DEFINE t == tasks[q][k]
<1>1. t \in Delivery /\ DeliveryInv(t)
  BY TaskFacts
<1>2. t.actor \in AlarmActor
  BY <1>1 DEF Delivery
<1>3. Remaining(t) \in Nat
  BY <1>1, RemainingNat, Zenon DEF DeliveryInv
<1>4. Reading(p) \in Int /\ Reading(p) <= MaxOffset
  BY Constants DEF Reading, AlarmsInv, AlarmsType
<1>5. SUFFICES ASSUME IsDue(p, t.actor)
               PROVE  FALSE
  OBVIOUS
<1>6. alarms[t.actor].age # Idle
      /\ alarms[t.actor].age + Remaining(t) <= DeliveryTime + ClaimDelay
  BY <1>1, <1>5, Zenon DEF DeliveryInv, IsDue
<1>7. alarms[t.actor].age \in Int
  BY <1>2, <1>6 DEF AlarmsInv, AlarmsType, Alarm
<1>8. alarms[t.actor].age + Reading(p) >= QueuedTimeout
  BY <1>5, <1>6, Zenon DEF IsDue
<1>9. QueuedTimeout > DeliveryTime + ClaimDelay + MaxOffset /\ DeliveryTime \in Nat
  BY AlarmTiming, DeliveryTimeIs
<1> HIDE DEF t
<1> QED
  BY <1>3, <1>4, <1>6, <1>7, <1>8, <1>9, Constants

LEMMA ClaimPreserves ==
    ASSUME AlarmsInv, NEW p \in Replicas, ClaimDue(p)
    PROVE  AlarmsInv'
<1>1. p \in Scheduler
  BY ReplicasAre DEF AlarmsInv
<1>2. PICK due \in Batches(p) : \E slot \in Injection(due, FreeSlots(p)) :
         /\ alarms' = [a \in AlarmActor |->
              IF a \in due THEN [alarms[a] EXCEPT !.age = -Reading(p)] ELSE alarms[a]]
         /\ tasks' = [tasks EXCEPT ![p] = [k \in Slot |->
              IF \E a \in due : slot[a] = k
              THEN StartTask(CHOOSE a \in due : slot[a] = k) ELSE @[k]]]
         /\ tried' = [a \in AlarmActor |->
              IF a \in due THEN AtLeast(a, 1) ELSE tried[a]]
  BY Zenon DEF ClaimDue
<1>3. PICK slot \in Injection(due, FreeSlots(p)) :
         /\ alarms' = [a \in AlarmActor |->
              IF a \in due THEN [alarms[a] EXCEPT !.age = -Reading(p)] ELSE alarms[a]]
         /\ tasks' = [tasks EXCEPT ![p] = [k \in Slot |->
              IF \E a \in due : slot[a] = k
              THEN StartTask(CHOOSE a \in due : slot[a] = k) ELSE @[k]]]
         /\ tried' = [a \in AlarmActor |->
              IF a \in due THEN AtLeast(a, 1) ELSE tried[a]]
  BY <1>2, Zenon
<1>4. /\ sampled[p] # Idle /\ sampled' = [sampled EXCEPT ![p] = Idle]
      /\ table' = table /\ offset' = offset /\ ran' = ran
  BY DEF ClaimDue
<1>5. due \subseteq AlarmActor /\ \A a \in due : IsDue(p, a)
  BY DEF Batches
<1>6. /\ slot \in [due -> FreeSlots(p)]
      /\ \A a, b \in due : slot[a] = slot[b] => a = b
  <2>1. slot \in [due -> FreeSlots(p)] /\ IsInjective(slot)
    BY DEF Injection
  <2> QED
    BY <2>1 DEF IsInjective
<1>7. \A a \in due : slot[a] \in Slot /\ tasks[p][slot[a]] = Idle
  BY <1>6 DEF FreeSlots
\* What is new, and what is as it was.
<1>8. ASSUME NEW k \in Slot
      PROVE  \/ \E a \in due : slot[a] = k /\ tasks'[p][k] = StartTask(a)
             \/ tasks'[p][k] = tasks[p][k]
  <2>1. tasks'[p][k] = IF \E a \in due : slot[a] = k
                       THEN StartTask(CHOOSE a \in due : slot[a] = k) ELSE tasks[p][k]
    BY <1>1, <1>3 DEF AlarmsInv, AlarmsType
  <2>2. CASE \E a \in due : slot[a] = k
    <3>1. PICK a \in due : slot[a] = k
      BY <2>2
    <3>2. (CHOOSE b \in due : slot[b] = k) \in due /\ slot[CHOOSE b \in due : slot[b] = k] = k
      BY <2>2, Zenon
    <3>3. (CHOOSE b \in due : slot[b] = k) = a
      BY <1>6, <3>1, <3>2, Zenon
    <3> QED
      BY <2>1, <2>2, <3>1, <3>3, Zenon
  <2> QED
    BY <2>1, <2>2, Zenon
<1>9. ASSUME NEW q \in Scheduler, q # p
      PROVE  tasks'[q] = tasks[q]
  BY <1>3, <1>9 DEF AlarmsInv, AlarmsType
<1>10. Reading(p) \in Int /\ -Reading(p) \in Int /\ -Reading(p) <= ClaimDelay
  BY <1>1, <1>4, Constants DEF Reading, AlarmsInv, AlarmsType
<1>11. ASSUME NEW a \in AlarmActor
       PROVE  /\ alarms'[a] \in Alarm
              /\ alarms'[a].revision = alarms[a].revision
              /\ alarms'[a].due = alarms[a].due
              /\ a \in due => alarms'[a].age = -Reading(p)
              /\ a \notin due => alarms'[a] = alarms[a]
              /\ tried'[a] \in 0..MaxAttempts
              /\ tried[a] \in Nat /\ tried[a] <= tried'[a]
              /\ a \in due => 1 <= tried'[a]
  <2>1. alarms[a] \in Alarm /\ tried[a] \in 0..MaxAttempts
    BY DEF AlarmsInv, AlarmsType
  <2>2. CASE a \in due
    <3>1. alarms'[a] = [alarms[a] EXCEPT !.age = -Reading(p)] /\ tried'[a] = AtLeast(a, 1)
      BY <1>3, <2>2
    <3>2. /\ alarms'[a] \in Alarm
          /\ alarms'[a].revision = alarms[a].revision
          /\ alarms'[a].due = alarms[a].due
          /\ alarms'[a].age = -Reading(p)
      BY <1>10, <2>1, <3>1 DEF Alarm
    <3>3. /\ tried'[a] \in 0..MaxAttempts /\ 1 <= tried'[a]
          /\ tried[a] \in Nat /\ tried[a] <= tried'[a]
      BY <2>1, <3>1, Constants DEF AtLeast
    <3> QED
      BY <2>2, <3>2, <3>3
  <2>3. CASE a \notin due
    <3>1. alarms'[a] = alarms[a] /\ tried'[a] = tried[a]
      BY <1>3, <2>3
    <3> QED
      BY <2>1, <2>3, <3>1
  <2> QED
    BY <2>2, <2>3
<1>12. ASSUME NEW a \in due
       PROVE  /\ StartTask(a) \in Delivery
              /\ StartTask(a).actor = a
              /\ StartTask(a).revision = alarms[a].revision
              /\ StartTask(a).phase = "attempt" /\ StartTask(a).made = 1
              /\ Remaining(StartTask(a)) = DeliveryTime
  <2>1. alarms[a].revision \in Nat /\ a \in AlarmActor
    BY <1>5 DEF AlarmsInv, AlarmsType, Alarm
  <2>2. StartTask(a) = [actor |-> a, revision |-> alarms[a].revision, phase |-> "attempt",
                        made |-> 1, left |-> AttemptTimeout]
    BY DEF StartTask
  <2>3. /\ StartTask(a).phase = "attempt" /\ StartTask(a).made = 1
        /\ StartTask(a).left = AttemptTimeout
        /\ StartTask(a).actor = a /\ StartTask(a).revision = alarms[a].revision
    BY <2>2
  <2>4. StartTask(a) \in Delivery
    BY <2>1, <2>2, Constants DEF Delivery
  <2>5. Remaining(StartTask(a)) = DeliveryTime
    BY <2>3, DeliveryTimeIs DEF Remaining
  <2> QED
    BY <2>3, <2>4, <2>5
<1>13. AlarmsType'
  <2>1. alarms' \in [AlarmActor -> Alarm]
    BY <1>3, <1>11
  <2>2. tried' \in [AlarmActor -> 0..MaxAttempts]
    BY <1>3, <1>11
  <2>3. tasks' \in [Scheduler -> [Slot -> Delivery \cup {Idle}]]
    <3>1. ASSUME NEW k \in Slot
          PROVE  tasks'[p][k] \in Delivery \cup {Idle}
      BY <1>1, <1>8, <1>12 DEF AlarmsInv, AlarmsType
    <3>2. tasks'[p] \in [Slot -> Delivery \cup {Idle}]
      <4>1. tasks'[p] = [k \in Slot |-> tasks'[p][k]]
        BY <1>1, <1>3 DEF AlarmsInv, AlarmsType
      <4> QED
        BY <3>1, <4>1
    <3>3. tasks' = [tasks EXCEPT ![p] = tasks'[p]]
      BY <1>1, <1>3 DEF AlarmsInv, AlarmsType
    <3> QED
      BY <3>2, <3>3 DEF AlarmsInv, AlarmsType
  <2>4. sampled' \in [Scheduler -> 0..ClaimDelay \cup {Idle}]
    BY <1>4 DEF AlarmsInv, AlarmsType
  <2> QED
    BY <1>4, <2>1, <2>2, <2>3, <2>4, Zenon DEF AlarmsInv, AlarmsType
\* A delivery under way is not of a due alarm, or is no longer current or live.
<1>14. ASSUME NEW q \in Scheduler, NEW k \in Slot, tasks[q][k] # Idle,
              IsLive(tasks[q][k]), Current(tasks[q][k])
       PROVE  tasks[q][k].actor \notin due
  BY <1>1, <1>4, <1>5, <1>14, NotDue, Zenon
<1>15. ASSUME NEW q \in Scheduler, NEW k \in Slot, tasks[q][k] # Idle,
              tasks'[q][k] = tasks[q][k]
       PROVE  DeliveryInv(tasks[q][k])'
  <2> DEFINE t == tasks[q][k]
  <2>1. t \in Delivery /\ DeliveryInv(t)
    BY <1>15, TaskFacts, Zenon
  <2>2. t.actor \in AlarmActor /\ t.made \in Nat
    BY <2>1 DEF Delivery
  <2>3. Current(t)' = Current(t)
    BY <1>11, <1>15, <2>2, Zenon DEF Current
  <2>4. Current(t) => t.made <= tried'[t.actor]
    BY <1>11, <2>1, <2>2, SMTT(60) DEF DeliveryInv
  <2>5. Current(t) /\ IsLive(t) => alarms'[t.actor] = alarms[t.actor]
    BY <1>11, <1>14, <1>15, <2>2, Zenon
  <2>6. t.revision <= alarms'[t.actor].revision
    BY <1>11, <2>1, <2>2, Zenon DEF DeliveryInv
  <2> QED
    BY <1>4, <1>15, <2>1, <2>3, <2>4, <2>5, <2>6, Zenon DEF DeliveryInv
<1>16. ASSUME NEW k \in Slot, NEW a \in due, tasks'[p][k] = StartTask(a)
       PROVE  DeliveryInv(tasks[p][k])'
  <2> DEFINE t == StartTask(a)
  <2>1. /\ t.actor = a /\ t.revision = alarms[a].revision /\ t.phase = "attempt" /\ t.made = 1
        /\ Remaining(t) = DeliveryTime
    BY <1>12
  <2>2. a \in AlarmActor /\ alarms'[a].revision = alarms[a].revision
        /\ alarms'[a].age = -Reading(p) /\ 1 <= tried'[a] /\ alarms[a].revision \in Nat
    BY <1>5, <1>11 DEF AlarmsInv, AlarmsType, Alarm
  <2>3. /\ alarms'[a].age # Idle
        /\ alarms'[a].age + DeliveryTime <= DeliveryTime + ClaimDelay
    BY <1>10, <2>2, IdleIsNothing, DeliveryTimeIs, Constants
  <2>4. 1 \in 1..MaxAttempts /\ t.phase # "pause" /\ t.phase # "finish"
    BY <2>1, Constants
  <2>5. t.revision <= alarms'[a].revision
    BY <2>1, <2>2
  <2> HIDE DEF t
  <2> QED
    BY <1>16, <2>1, <2>2, <2>3, <2>4, <2>5, Zenon DEF DeliveryInv, t
<1>17. ASSUME NEW q \in Scheduler, NEW k \in Slot, tasks'[q][k] # Idle
       PROVE  q \in Replicas' /\ DeliveryInv(tasks[q][k])'
  <2>1. Replicas' = Replicas
    BY <1>4 DEF Replicas
  <2>2. CASE tasks'[q][k] = tasks[q][k]
    BY <1>15, <1>17, <2>1, <2>2, TaskFacts, Zenon
  <2>3. CASE q = p /\ \E a \in due : slot[a] = k /\ tasks'[p][k] = StartTask(a)
    BY <1>16, <2>1, <2>3, Zenon
  <2> QED
    BY <1>8, <1>9, <2>2, <2>3, Zenon
<1>18. OneDelivery'
  <2> SUFFICES ASSUME NEW a \in AlarmActor,
                      NEW x \in Scheduler \X Slot, NEW y \in Scheduler \X Slot,
                      Live(x[1], x[2], a)', Live(y[1], y[2], a)',
                      tasks'[x[1]][x[2]].revision = tasks'[y[1]][y[2]].revision
               PROVE  x = y
    BY Zenon DEF OneDelivery
  <2>1. /\ x[1] \in Scheduler /\ x[2] \in Slot /\ y[1] \in Scheduler /\ y[2] \in Slot
        /\ x = <<x[1], x[2]>> /\ y = <<y[1], y[2]>>
    OBVIOUS
  <2> DEFINE New(z) == z[1] = p /\ \E b \in due : slot[b] = z[2] /\ tasks'[p][z[2]] = StartTask(b)
             Old(z) == tasks'[z[1]][z[2]] = tasks[z[1]][z[2]]
  <2>2. (New(x) \/ Old(x)) /\ (New(y) \/ Old(y))
    BY <1>8, <1>9, <2>1, Zenon
  <2>3. ASSUME NEW z \in Scheduler \X Slot, Live(z[1], z[2], a)', New(z)
        PROVE  /\ a \in due /\ slot[a] = z[2] /\ z[1] = p
               /\ tasks'[z[1]][z[2]].revision = alarms[a].revision
    <3>1. PICK b \in due : slot[b] = z[2] /\ tasks'[p][z[2]] = StartTask(b) /\ z[1] = p
      BY <2>3, Zenon
    <3>2. tasks'[z[1]][z[2]] = StartTask(b)
      BY <3>1, Zenon
    <3>3. b = a
      BY <1>12, <2>3, <3>2, Zenon DEF Live
    <3> QED
      BY <1>12, <3>1, <3>2, <3>3, Zenon
  <2>4. ASSUME NEW z \in Scheduler \X Slot, Live(z[1], z[2], a)', Old(z),
               tasks'[z[1]][z[2]].revision = alarms[a].revision
        PROVE  a \notin due
    <3>1. z[1] \in Scheduler /\ z[2] \in Slot
      OBVIOUS
    <3> QED
      BY <1>14, <2>4, <3>1, Zenon DEF Live, IsLive, Current
  <2>5. CASE Old(x) /\ Old(y)
    BY <2>1, <2>5, Zenon DEF Live, AlarmsInv, OneDelivery
  <2>6. CASE New(x) /\ New(y)
    BY <2>1, <2>3, <2>6, Zenon
  <2>7. CASE New(x) /\ Old(y)
    <3>1. a \in due /\ tasks'[x[1]][x[2]].revision = alarms[a].revision
      BY <2>3, <2>7, Zenon
    <3> QED
      BY <2>4, <2>7, <3>1, Zenon
  <2>8. CASE Old(x) /\ New(y)
    <3>1. a \in due /\ tasks'[y[1]][y[2]].revision = alarms[a].revision
      BY <2>3, <2>8, Zenon
    <3> QED
      BY <2>4, <2>8, <3>1, Zenon
  <2> QED
    BY <2>2, <2>5, <2>6, <2>7, <2>8, Zenon
<1> QED
  BY <1>13, <1>17, <1>18, Zenon DEF AlarmsInv

LEMMA NextPreserves ==
    ASSUME AlarmsInv, [AlarmsNext]_alarmVars
    PROVE  AlarmsInv'
<1>1. Replicas \subseteq Scheduler
  BY ReplicasAre DEF AlarmsInv
<1>2. sampled \in [Scheduler -> 0..ClaimDelay \cup {Idle}] /\ 0 \in 0..ClaimDelay
  BY Constants DEF AlarmsInv, AlarmsType
<1>3. ASSUME NEW a \in AlarmActor, NEW due \in 0..MaxAhead \cup {Idle}, UpdateAlarm(a, due)
      PROVE  AlarmsInv'
  BY <1>3, UpdatePreserves, Zenon
<1>4. ASSUME NEW p \in Replicas, StartPoll(p)
      PROVE  AlarmsInv'
  <2>1. sampled' \in [Scheduler -> 0..ClaimDelay \cup {Idle}]
    BY <1>1, <1>2, <1>4 DEF StartPoll
  <2> QED
    BY <1>4, <2>1, OthersPreserve, Zenon DEF StartPoll
<1>5. ASSUME NEW p \in Replicas, ClaimFails(p)
      PROVE  AlarmsInv'
  <2>1. sampled' \in [Scheduler -> 0..ClaimDelay \cup {Idle}]
    BY <1>1, <1>2, <1>5 DEF ClaimFails
  <2> QED
    BY <1>5, <2>1, OthersPreserve, Zenon DEF ClaimFails
<1>6. ASSUME NEW p \in Replicas, ClaimDue(p)
      PROVE  AlarmsInv'
  BY <1>6, ClaimPreserves, Zenon
<1>7. ASSUME NEW p \in Replicas, CrashScheduler(p)
      PROVE  AlarmsInv'
  BY <1>7, CrashPreserves, Zenon
<1>8. ASSUME NEW p \in Replicas, NEW k \in Slot, TaskStep(p, k)
      PROVE  AlarmsInv'
  <2>1. p \in Scheduler
    BY <1>1
  <2>2. CASE AttemptDone(p, k)
    BY <2>1, <2>2, AttemptDonePreserves, Zenon
  <2>3. CASE AttemptFails(p, k)
    BY <2>1, <2>3, AttemptFailsPreserves, Zenon
  <2>4. CASE AttemptRefused(p, k)
    BY <2>1, <2>4, EndPreserves, Zenon DEF AttemptRefused, Attempting
  <2>5. CASE Retry(p, k)
    BY <2>1, <2>5, RetryPreserves, Zenon
  <2>6. CASE Finish(p, k)
    BY <2>1, <2>6, FinishPreserves, Zenon
  <2>7. CASE FinishFails(p, k)
    BY <2>1, <2>7, EndPreserves, Zenon DEF FinishFails
  <2> QED
    BY <1>8, <2>2, <2>3, <2>4, <2>5, <2>6, <2>7, Zenon DEF TaskStep
<1>9. CASE SetSuspended
  BY <1>2, <1>9, OthersPreserve, Zenon DEF SetSuspended
<1>10. CASE AlarmTick
  BY <1>10, TickPreserves, Zenon
<1>11. CASE UNCHANGED alarmVars
  BY <1>2, <1>11, OthersPreserve, Zenon DEF alarmVars
<1> QED
  BY <1>3, <1>4, <1>5, <1>6, <1>7, <1>8, <1>9, <1>10, <1>11, Zenon DEF AlarmsNext, PollStep

LEMMA AlarmsInvariance ==
    AlarmsSpec => []AlarmsInv
  BY InitInv, NextPreserves, PTL DEF AlarmsSpec

(* No two slots of any replicas deliver the same revision of an alarm,     *)
(* whatever the replicas' clocks (within MaxOffset), crashes and failed    *)
(* queries do: QUEUED_TIMEOUT covers MAX_ATTEMPTS attempts.                *)
THEOREM DeliveredOnceAtATime ==
    AlarmsSpec => []OneDelivery
<1>1. AlarmsInv => OneDelivery
  BY DEF AlarmsInv
<1> QED
  BY <1>1, AlarmsInvariance, PTL

(* finish never clears an alarm that was neither handled nor tried         *)
(* MAX_ATTEMPTS times, in particular not one that was set anew meanwhile.  *)
THEOREM ClearedAfterHandled ==
    AlarmsSpec => OnlyHandledIsCleared
<1> DEFINE Handled(a) ==
      alarms[a].due # Idle /\ alarms'[a].due = Idle
           /\ alarms'[a].revision = alarms[a].revision
         => \/ <<a, alarms[a].revision>> \in ran
            \/ tried[a] = MaxAttempts
<1>1. ASSUME AlarmsInv, AlarmsNext, NEW a \in AlarmActor
      PROVE  Handled(a)
  <2> SUFFICES ASSUME alarms[a].due # Idle, alarms'[a].due = Idle,
                      alarms'[a].revision = alarms[a].revision
               PROVE  <<a, alarms[a].revision>> \in ran \/ tried[a] = MaxAttempts
    BY Zenon
  <2>1. alarms[a] \in Alarm /\ alarms \in [AlarmActor -> Alarm] /\ Replicas \subseteq Scheduler
    BY <1>1, ReplicasAre DEF AlarmsInv, AlarmsType
  <2>2. alarms'[a] # alarms[a]
    BY Zenon
  <2>3. ASSUME NEW b \in AlarmActor, NEW due, UpdateAlarm(b, due)
        PROVE  FALSE
    BY <2>1, <2>2, <2>3, SMTT(60) DEF UpdateAlarm, Alarm
  <2>4. ASSUME NEW p, PollStep(p)
        PROVE  FALSE
    <3>1. ClaimDue(p)
      BY <2>2, <2>4, Zenon DEF PollStep, StartPoll, ClaimFails
    <3>2. alarms'[a].due = alarms[a].due
      BY <2>1, <3>1 DEF ClaimDue, Alarm
    <3> QED
      BY <3>2, Zenon
  <2>5. ASSUME NEW p, CrashScheduler(p)
        PROVE  FALSE
    BY <2>1, <2>2, <2>5 DEF CrashScheduler, Alarm
  <2>6. ASSUME AlarmTick
        PROVE  FALSE
    <3>1. alarms'[a].due = IF alarms[a].due \in {Idle, -ClaimDelay} THEN alarms[a].due
                           ELSE alarms[a].due - 1
      <4>1. alarms'[a] = [alarms[a] EXCEPT
              !.due = IF @ \in {Idle, -ClaimDelay} THEN @ ELSE @ - 1,
              !.age = IF @ \in {Idle, OldestAge} THEN @ ELSE @ + 1]
        BY <2>6 DEF AlarmTick
      <4> QED
        BY <2>1, <4>1 DEF Alarm
    <3>2. alarms[a].due \in Int
      BY <2>1 DEF Alarm
    <3> QED
      BY <3>1, <3>2, IdleIsNothing
  <2>7. ASSUME NEW p \in Replicas, NEW k \in Slot, TaskStep(p, k)
        PROVE  <<a, alarms[a].revision>> \in ran \/ tried[a] = MaxAttempts
    <3> DEFINE t == tasks[p][k]
    <3>1. Finish(p, k)
      BY <2>2, <2>7, Zenon DEF TaskStep, AttemptDone, AttemptFails, AttemptRefused, Retry,
         FinishFails
    <3>2. p \in Scheduler /\ t # Idle /\ t.phase = "finish"
      BY <2>1, <3>1 DEF Finish
    <3>3. t \in Delivery /\ DeliveryInv(t)
      BY <1>1, <3>2, TaskFacts, Zenon
    <3>4. Current(t) /\ alarms' = [alarms EXCEPT ![t.actor] = [@ EXCEPT !.due = Idle, !.age = Idle]]
      BY <2>2, <3>1, Zenon DEF Finish, Current
    <3>5. t.actor = a
      BY <2>1, <2>2, <3>4
    <3>6. tried[a] \in 0..MaxAttempts /\ t.made \in Nat
      BY <1>1, <3>3 DEF AlarmsInv, AlarmsType, Delivery
    <3>7. t.made = MaxAttempts => tried[a] = MaxAttempts
      BY <3>3, <3>4, <3>5, <3>6, Constants DEF DeliveryInv
    <3> QED
      BY <3>2, <3>3, <3>4, <3>5, <3>7, Zenon DEF DeliveryInv, Current
  <2>8. ASSUME SetSuspended
        PROVE  FALSE
    BY <2>2, <2>8, Zenon DEF SetSuspended
  <2> QED
    BY <1>1, <2>3, <2>4, <2>5, <2>6, <2>7, <2>8, Zenon DEF AlarmsNext
<1>2. AlarmsInv /\ [AlarmsNext]_alarmVars => [\A a \in AlarmActor : Handled(a)]_alarmVars
  BY <1>1, Zenon
<1>3. AlarmsSpec => [][\A a \in AlarmActor : Handled(a)]_alarmVars
  BY <1>2, AlarmsInvariance, PTL DEF AlarmsSpec
<1> QED
  BY <1>3, Zenon DEF OnlyHandledIsCleared
=============================================================================
