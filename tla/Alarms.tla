------------------------------- MODULE Alarms -------------------------------
(***************************************************************************)
(* The alarm scheduler of the control plane (control_plane/alarms.rs):     *)
(* actors set and clear alarms, every replica polls the shared table,      *)
(* claims the due ones, delivers each with retries and then clears it.     *)
(*                                                                         *)
(* All times are relative to the present, so time never has to stop: an    *)
(* alarm's "due" counts down, a claim's "age" counts up, and a task's      *)
(* "left" is what remains of its timeout or delay.  A replica's clock is   *)
(* ahead of true time by offset[p].                                        *)
(***************************************************************************)
EXTENDS Integers, FiniteSets, Functions

CONSTANTS
    AlarmActor,        \* actors that have an alarm
    Scheduler,         \* control-plane replicas running the scheduler
    Slot,              \* MAX_IN_FLIGHT delivery slots of a replica
    AttemptTimeout,    \* ATTEMPT_TIMEOUT
    RetryDelay,        \* the longest pause of the exponential back-off
    MaxAttempts,       \* MAX_ATTEMPTS
    QueuedTimeout,     \* QUEUED_TIMEOUT: how long a claim holds
    ClaimDelay,        \* bound on a claim query after the clock was read
    MaxOffset,         \* bound on how far replica clocks are apart
    MaxRevision,       \* bound on the updates of an alarm
    MaxAhead,          \* bound on how far ahead an alarm is set
    MaxCrashes,        \* bound on replica crashes
    Idle               \* no time, no sample, no task

(* A live delivery takes at most its attempts and the pauses between them.  *)
DeliveryTime == MaxAttempts * AttemptTimeout + (MaxAttempts - 1) * RetryDelay

(* A claim outlasts its delivery, the delay of the claiming queries and the *)
(* distance between two replica clocks.                                     *)
ASSUME AlarmTiming ==
    /\ {AttemptTimeout, RetryDelay, MaxAttempts, QueuedTimeout, ClaimDelay,
        MaxOffset, MaxRevision, MaxAhead, MaxCrashes} \subseteq Nat
    /\ MaxAttempts > 0
    /\ QueuedTimeout > DeliveryTime + ClaimDelay + MaxOffset

(* deliver: what a task of the scheduler carries. *)
Delivery ==
    [actor : AlarmActor, revision : Nat, phase : {"attempt", "pause", "finish"},
     made : Nat, left : Nat]

ASSUME IdleIsNothing == Idle \notin Int /\ Idle \notin Delivery

VARIABLES
    alarms,     \* the table: revision, due (timestamp_ms), age (of queued_at_ms)
    sampled,    \* sampled[p]: age of the clock reading of a poll under way
    tasks,      \* tasks[p][k]: the delivery in a slot
    offset,     \* offset[p]: how far p's clock is ahead
    suspended,  \* the actors' organization may not run
    table,      \* where it is: in Postgres, in a local SQLite file, or no scheduler runs
    crashes,
    ran,        \* history: the <<actor, revision>> whose handler was run
    tried       \* history: most attempts one delivery of the current revision made

alarmVars ==
    <<alarms, sampled, tasks, offset, suspended, table, crashes, ran, tried>>

AlarmsStart(tables) ==
    /\ alarms = [a \in AlarmActor |-> [revision |-> 0, due |-> Idle, age |-> Idle]]
    /\ sampled = [p \in Scheduler |-> Idle]
    /\ tasks = [p \in Scheduler |-> [k \in Slot |-> Idle]]
    /\ table \in tables
    /\ offset \in [Scheduler -> 0..MaxOffset]
    /\ \E p \in Scheduler : offset[p] = 0
    /\ table = "none" => \A p \in Scheduler : offset[p] = 0
    /\ suspended = FALSE
    /\ crashes = 0
    /\ ran = {}
    /\ tried = [a \in AlarmActor |-> 0]

-----------------------------------------------------------------------------
(* The actor sets (or clears) its alarm: a new revision, unclaimed. *)
UpdateAlarm(a, due) ==
    /\ alarms[a].revision < MaxRevision
    /\ alarms' = [alarms EXCEPT ![a] =
         [revision |-> @.revision + 1, due |-> due, age |-> Idle]]
    /\ tried' = [tried EXCEPT ![a] = 0]
    /\ UNCHANGED <<sampled, tasks, offset, suspended, table, crashes, ran>>

(* The local data directory is locked: one replica runs on the SQLite file. *)
Replicas ==
    CASE table = "postgres" -> Scheduler
      [] table = "sqlite" -> {CHOOSE p \in Scheduler : TRUE}
      [] OTHER -> {}

FreeSlots(p) == {k \in Slot : tasks[p][k] = Idle}

(* Every poll interval: read the clock, then claim what is due. *)
StartPoll(p) ==
    /\ sampled[p] = Idle
    /\ FreeSlots(p) # {}
    /\ sampled' = [sampled EXCEPT ![p] = 0]
    /\ UNCHANGED <<alarms, tasks, offset, suspended, table, crashes, ran, tried>>

(* p's reading of its clock, relative to the present. *)
Reading(p) == offset[p] - sampled[p]

(* A claim that is taken for expired one attempt too early. *)
IsDueEarly(p, a) ==
    /\ alarms[a].due # Idle
    /\ alarms[a].due <= Reading(p)
    /\ alarms[a].age = Idle \/ alarms[a].age + Reading(p) >= QueuedTimeout - AttemptTimeout
    /\ table = "postgres" => ~suspended

(* Claims that never expire. *)
IsDueUnclaimed(p, a) ==
    /\ alarms[a].due # Idle
    /\ alarms[a].due <= Reading(p)
    /\ alarms[a].age = Idle
    /\ table = "postgres" => ~suspended

(* timestamp_ms <= now AND (queued_at_ms IS NULL OR queued_at_ms <= expired). *)
IsDue(p, a) ==
    /\ alarms[a].due # Idle
    /\ alarms[a].due <= Reading(p)
    /\ alarms[a].age = Idle \/ alarms[a].age + Reading(p) >= QueuedTimeout
    /\ table = "postgres" => ~suspended

(* ORDER BY timestamp_ms LIMIT free: an earlier alarm is never passed over. *)
Batches(p) ==
    {due \in SUBSET {a \in AlarmActor : IsDue(p, a)} :
        /\ Cardinality(due) <= Cardinality(FreeSlots(p))
        /\ \A a \in due, b \in AlarmActor \ due :
               IsDue(p, b) => alarms[a].due <= alarms[b].due
        /\ Cardinality(due) < Cardinality(FreeSlots(p)) =>
               \A b \in AlarmActor : IsDue(p, b) => b \in due}

AtLeast(a, n) == IF tried[a] < n THEN n ELSE tried[a]

StartTask(a) ==
    [actor |-> a, revision |-> alarms[a].revision, phase |-> "attempt",
     made |-> 1, left |-> AttemptTimeout]

ClaimDue(p) ==
    /\ sampled[p] # Idle
    /\ \E due \in Batches(p) : \E slot \in Injection(due, FreeSlots(p)) :
         /\ alarms' = [a \in AlarmActor |->
              IF a \in due THEN [alarms[a] EXCEPT !.age = -Reading(p)] ELSE alarms[a]]
         /\ tasks' = [tasks EXCEPT ![p] = [k \in Slot |->
              IF \E a \in due : slot[a] = k
              THEN StartTask(CHOOSE a \in due : slot[a] = k) ELSE @[k]]]
         /\ tried' = [a \in AlarmActor |->
              IF a \in due THEN AtLeast(a, 1) ELSE tried[a]]
    /\ sampled' = [sampled EXCEPT ![p] = Idle]
    /\ UNCHANGED <<offset, suspended, table, crashes, ran>>

(* The claiming query failed: the poll is over, nothing was claimed. (What a *)
(* claim leaves whose answer is lost is left by CrashScheduler, too.)       *)
ClaimFails(p) ==
    /\ sampled[p] # Idle
    /\ sampled' = [sampled EXCEPT ![p] = Idle]
    /\ UNCHANGED <<alarms, tasks, offset, suspended, table, crashes, ran, tried>>

(* attempt_with_retries: the next attempt of the delivery in slot k of p.   *)
Attempting(p, k) == tasks[p][k] # Idle /\ tasks[p][k].phase = "attempt"

(* The host answered "completed" or "failed": the handler was run. *)
AttemptDone(p, k) ==
    /\ Attempting(p, k)
    /\ tasks' = [tasks EXCEPT ![p][k] = [@ EXCEPT !.phase = "finish", !.left = 0]]
    /\ ran' = ran \cup {<<tasks[p][k].actor, tasks[p][k].revision>>}
    /\ UNCHANGED <<alarms, sampled, offset, suspended, table, crashes, tried>>

(* No route, not executed, an unknown outcome or the attempt's timeout; the *)
(* handler may have run. After the last attempt the alarm is abandoned.     *)
AttemptFails(p, k) ==
    /\ Attempting(p, k)
    /\ tasks' = [tasks EXCEPT ![p][k] =
         IF @.made = MaxAttempts THEN [@ EXCEPT !.phase = "finish", !.left = 0]
         ELSE [@ EXCEPT !.phase = "pause", !.left = RetryDelay]]
    /\ \/ UNCHANGED ran
       \/ ran' = ran \cup {<<tasks[p][k].actor, tasks[p][k].revision>>}
    /\ UNCHANGED <<alarms, sampled, offset, suspended, table, crashes, tried>>

(* AccessDisabled is not retried and leaves the claim to expire. *)
AttemptRefused(p, k) ==
    /\ Attempting(p, k)
    /\ suspended
    /\ tasks' = [tasks EXCEPT ![p][k] = Idle]
    /\ UNCHANGED <<alarms, sampled, offset, suspended, table, crashes, ran, tried>>

Retry(p, k) ==
    /\ tasks[p][k] # Idle
    /\ tasks[p][k].phase = "pause"
    /\ tasks' = [tasks EXCEPT ![p][k] =
         [@ EXCEPT !.phase = "attempt", !.made = tasks[p][k].made + 1,
                   !.left = AttemptTimeout]]
    /\ tried' = LET t == tasks[p][k] IN
         IF alarms[t.actor].revision = t.revision
         THEN [tried EXCEPT ![t.actor] = AtLeast(t.actor, t.made + 1)] ELSE tried
    /\ UNCHANGED <<alarms, sampled, offset, suspended, table, crashes, ran>>

FinishAnyRevision(p, k) ==
    /\ tasks[p][k] # Idle
    /\ tasks[p][k].phase = "finish"
    /\ alarms' = [alarms EXCEPT ![tasks[p][k].actor] = [@ EXCEPT !.due = Idle, !.age = Idle]]
    /\ tasks' = [tasks EXCEPT ![p][k] = Idle]
    /\ UNCHANGED <<sampled, offset, suspended, table, crashes, ran, tried>>

(* finish: clears the alarm, unless it was updated since it was claimed.    *)
Finish(p, k) ==
    /\ tasks[p][k] # Idle
    /\ tasks[p][k].phase = "finish"
    /\ alarms' = LET t == tasks[p][k] IN
         IF alarms[t.actor].revision = t.revision
         THEN [alarms EXCEPT ![t.actor] = [@ EXCEPT !.due = Idle, !.age = Idle]]
         ELSE alarms
    /\ tasks' = [tasks EXCEPT ![p][k] = Idle]
    /\ UNCHANGED <<sampled, offset, suspended, table, crashes, ran, tried>>

(* The store could not be reached: the claim is left to expire. *)
FinishFails(p, k) ==
    /\ tasks[p][k] # Idle
    /\ tasks[p][k].phase = "finish"
    /\ tasks' = [tasks EXCEPT ![p][k] = Idle]
    /\ UNCHANGED <<alarms, sampled, offset, suspended, table, crashes, ran, tried>>

(* A replica dies with its deliveries; reopening the SQLite file releases   *)
(* every claim, in Postgres they expire.                                    *)
CrashScheduler(p) ==
    /\ crashes < MaxCrashes
    /\ crashes' = crashes + 1
    /\ sampled' = [sampled EXCEPT ![p] = Idle]
    /\ tasks' = [tasks EXCEPT ![p] = [k \in Slot |-> Idle]]
    /\ alarms' = IF table = "postgres" THEN alarms
                 ELSE [a \in AlarmActor |-> [alarms[a] EXCEPT !.age = Idle]]
    /\ UNCHANGED <<offset, suspended, table, ran, tried>>

SetSuspended ==
    /\ suspended' = ~suspended
    /\ UNCHANGED <<alarms, sampled, tasks, offset, table, crashes, ran, tried>>

(* Time passes. Timeouts and pauses end when their time is up, a claiming   *)
(* query ends within ClaimDelay; "finish" has no bound.                     *)
OldestAge == QueuedTimeout + ClaimDelay

AlarmTick ==
    /\ \A p \in Scheduler : sampled[p] # Idle => sampled[p] < ClaimDelay
    /\ \A p \in Scheduler, k \in Slot :
         tasks[p][k] # Idle => tasks[p][k].left > 0 \/ tasks[p][k].phase = "finish"
    /\ sampled' = [p \in Scheduler |-> IF sampled[p] = Idle THEN Idle ELSE sampled[p] + 1]
    /\ tasks' = [p \in Scheduler |-> [k \in Slot |->
         IF tasks[p][k] = Idle \/ tasks[p][k].left = 0 THEN tasks[p][k]
         ELSE [tasks[p][k] EXCEPT !.left = @ - 1]]]
    /\ alarms' = [a \in AlarmActor |->
         [alarms[a] EXCEPT !.due = IF @ \in {Idle, -ClaimDelay} THEN @ ELSE @ - 1,
                           !.age = IF @ \in {Idle, OldestAge} THEN @ ELSE @ + 1]]
    /\ UNCHANGED <<offset, suspended, table, crashes, ran, tried>>

PollStep(p) == StartPoll(p) \/ ClaimDue(p) \/ ClaimFails(p)

TaskStep(p, k) ==
    \/ AttemptDone(p, k) \/ AttemptFails(p, k) \/ AttemptRefused(p, k)
    \/ Retry(p, k) \/ Finish(p, k) \/ FinishFails(p, k)

AlarmsNext ==
    \/ \E a \in AlarmActor, due \in 0..MaxAhead \cup {Idle} : UpdateAlarm(a, due)
    \/ \E p \in Replicas : PollStep(p) \/ CrashScheduler(p)
    \/ \E p \in Replicas, k \in Slot : TaskStep(p, k)
    \/ SetSuspended
    \/ AlarmTick

AlarmsSpec == AlarmsStart({"postgres", "sqlite"}) /\ [][AlarmsNext]_alarmVars

(* The scheduler polls for ever, its timers fire, and a store or a host     *)
(* that keeps being tried answers in the end.                                *)
AlarmsFairness ==
    /\ WF_alarmVars(AlarmTick)
    /\ \A p \in Scheduler :
         /\ WF_alarmVars(p \in Replicas /\ StartPoll(p))
         /\ SF_alarmVars(p \in Replicas /\ ClaimDue(p))
    /\ \A p \in Scheduler, k \in Slot :
         /\ WF_alarmVars(p \in Replicas /\ TaskStep(p, k))
         /\ SF_alarmVars(p \in Replicas /\ Finish(p, k))

-----------------------------------------------------------------------------
Live(p, k, a) ==
    /\ tasks[p][k] # Idle
    /\ tasks[p][k].actor = a
    /\ tasks[p][k].phase \in {"attempt", "pause"}

(* "A live delivery must finish before its claim expires, or another poll   *)
(* delivers it concurrently" (alarms.rs:24): no two slots of any replicas   *)
(* are delivering the same revision of an alarm.                            *)
OneDelivery ==
    \A a \in AlarmActor : \A x, y \in Scheduler \X Slot :
        /\ Live(x[1], x[2], a)
        /\ Live(y[1], y[2], a)
        /\ tasks[x[1]][x[2]].revision = tasks[y[1]][y[2]].revision
        => x = y

(* A step that clears an alarm without the actor's doing clears the very    *)
(* revision whose handler was run, or one that was given all its attempts:  *)
(* an alarm set again while its delivery is under way survives the finish   *)
(* of that delivery (the revision test of finish).                          *)
OnlyHandledIsCleared ==
    [][\A a \in AlarmActor :
         alarms[a].due # Idle /\ alarms'[a].due = Idle
           /\ alarms'[a].revision = alarms[a].revision
         => \/ <<a, alarms[a].revision>> \in ran
            \/ tried[a] = MaxAttempts]_alarmVars

(* Every alarm is settled: it is cleared in the end, once the actor sets it *)
(* no more, unless the organization is suspended. Crashed replicas, failed  *)
(* claims and failed finishes are made up for by the expiry of claims.      *)
AlarmsSettle ==
    \A a \in AlarmActor :
        (alarms[a].due # Idle) ~> (alarms[a].due = Idle \/ suspended)
=============================================================================
