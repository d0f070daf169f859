------------------------------ MODULE SparePool ------------------------------
(***************************************************************************)
(* The pool of sandboxes: the rows of durable_actors_spares (pool.rs,      *)
(* pool/replenishment.rs, pool/cleanup.rs), the pods they stand for        *)
(* (gke/kubernetes.rs), the pool manager that builds, trims, retires and   *)
(* forgets them, and the launches that claim a spare or create a sandbox   *)
(* of their own (service.rs, remote.rs).                                   *)
(*                                                                         *)
(* One pool key. Time is a flag on each row that says it has expired.      *)
(***************************************************************************)
EXTENDS Integers, FiniteSets

CONSTANTS
    Spare,         \* names of the sandboxes the pool may build
    Launch,        \* launches; a launch without a spare names its sandbox itself
    IdleSpares,    \* PoolConfig.idle
    FleetMaximum,  \* PoolConfig.fleet_maximum
    MaxStarting,   \* PoolConfig.max_starting
    MaxRestarts,   \* bound on the restarts of the pool manager
    Absent

Name == Spare \cup Launch

(* The rows of durable_actors_spares. *)
Rows == [status : {"starting", "ready", "claimed", "active", "retiring"}, handle : BOOLEAN,
         host : Launch \cup {Absent}, expired : BOOLEAN]

ASSUME PoolConstants ==
    /\ Spare \cap Launch = {}
    /\ Absent \notin Name \cup Rows
    /\ {IdleSpares, FleetMaximum, MaxStarting, MaxRestarts} \subseteq Nat

VARIABLES
    spares,    \* the row of each name, or Absent
    pod,       \* what became of the pod of that name
    making,    \* the call that creates it
    launch,    \* each launch: where it is and the sandbox it has
    cleaning,  \* the rows cleanup has listed and not dealt with
    checked,   \* the rows forget_stopped has listed, or Absent
    restarts

poolVars == <<spares, pod, making, launch, cleaning, checked, restarts>>

PoolInit ==
    /\ spares = [n \in Name |-> Absent]
    /\ pod = [n \in Name |-> "none"]
    /\ making = [n \in Name |-> "none"]
    /\ launch = [l \in Launch |-> [pc |-> "claim", name |-> Absent]]
    /\ cleaning = {}
    /\ checked = Absent
    /\ restarts = 0

Row(status, handle, h) == [status |-> status, handle |-> handle, host |-> h, expired |-> FALSE]

Has(n, status) == spares[n] # Absent /\ spares[n].status = status

Holding(n, status) == Has(n, status) /\ ~spares[n].expired

Retiring(S) == [n \in Name |->
    IF n \in S /\ spares[n] # Absent THEN [spares[n] EXCEPT !.status = "retiring", !.expired = FALSE]
    ELSE spares[n]]

(* delete_pod, which does not mind a pod that is not there; a pod that has  *)
(* finished is as good as gone (reap_finished).                             *)
Deleted(n) == [pod EXCEPT ![n] = "none"]

Alive(n) == pod[n] # "none"

-----------------------------------------------------------------------------
(* Pods, and the call that creates one. *)

(* The request to create the pod is carried out.                            *)
CreatePod(n) ==
    /\ making[n] = "create"
    /\ pod' = [pod EXCEPT ![n] = "pending"]
    /\ making' = [making EXCEPT ![n] = "wait"]
    /\ UNCHANGED <<spares, launch, cleaning, checked, restarts>>

PodReady(n) ==
    /\ pod[n] = "pending"
    /\ pod' = [pod EXCEPT ![n] = "ready"]
    /\ UNCHANGED <<spares, making, launch, cleaning, checked, restarts>>

(* Evicted, crashed, or the host in it has stopped.                         *)
PodFinishes(n) ==
    /\ Alive(n)
    /\ pod' = Deleted(n)
    /\ UNCHANGED <<spares, making, launch, cleaning, checked, restarts>>

(* settled: the watch shows the pod ready, and it is no longer deleted when *)
(* the call ends.                                                           *)
Made(n) ==
    /\ making[n] = "wait"
    /\ pod[n] = "ready"
    /\ making' = [making EXCEPT ![n] = "made"]
    /\ UNCHANGED <<spares, pod, launch, cleaning, checked, restarts>>

(* The call fails or times out. PodCleanup deletes the pod, or fails to; a  *)
(* request that was cancelled may have created one.                         *)
MakingFails(n) ==
    /\ \/ making[n] = "create" /\ pod' \in {pod, [pod EXCEPT ![n] = "pending"]}
       \/ making[n] = "wait" /\ pod' \in {pod, Deleted(n)}
    /\ making' = [making EXCEPT ![n] = "failed"]
    /\ UNCHANGED <<spares, launch, cleaning, checked, restarts>>

-----------------------------------------------------------------------------
(* The pool manager. *)

RowsIn(status) == {n \in Name : Has(n, status)}

(* The rows that occupy the fleet. *)
Fleet ==
    RowsIn("ready") \cup RowsIn("starting")
        \cup {n \in RowsIn("retiring") : spares[n].host = Absent /\ spares[n].handle}

Beyond(S, limit) == IF Cardinality(S) > limit THEN Cardinality(S) - limit ELSE 0

Least(S) == CHOOSE x \in S : \A y \in S : x <= y

(* capacity: with a fresh ready spare counted as available, an old one not. *)
Capacity(fresh) ==
    LET available == {n \in RowsIn("starting") : ~spares[n].expired} \cup fresh
        remaining(limit, S) == IF Cardinality(S) > limit THEN 0 ELSE limit - Cardinality(S)
    IN  Least({remaining(IdleSpares, available), remaining(2 * IdleSpares, Fleet),
               remaining(FleetMaximum, Fleet), remaining(MaxStarting, RowsIn("starting"))})

(* replenish, one transaction: ready spares beyond the target are retired,  *)
(* then rows for new ones reserved, unless the pool is backing off. The     *)
(* manager starts to build at once.                                         *)
Replenish ==
    /\ \E trimmed \in SUBSET RowsIn("ready") :
         /\ Cardinality(trimmed) = Beyond(RowsIn("ready"), IdleSpares)
         /\ \E fresh \in SUBSET {n \in RowsIn("ready") \ trimmed : ~spares[n].expired},
               new \in SUBSET {n \in Spare : making[n] = "none"} :
              /\ Cardinality(new) <= Capacity(fresh)
              /\ trimmed \cup new # {}
              /\ spares' = [n \in Name |->
                   IF n \in new THEN Row("starting", FALSE, Absent) ELSE Retiring(trimmed)[n]]
              /\ making' = [n \in Name |-> IF n \in new THEN "create" ELSE making[n]]
    /\ UNCHANGED <<pod, launch, cleaning, checked, restarts>>

(* publish: the spare is offered, unless its reservation has expired.       *)
PublishSpare(n) ==
    /\ n \in Spare
    /\ making[n] = "made"
    /\ IF Holding(n, "starting")
       THEN /\ spares' = [spares EXCEPT ![n] = Row("ready", TRUE, Absent)]
            /\ UNCHANGED pod
       ELSE pod' \in {pod, Deleted(n)} /\ UNCHANGED spares
    /\ making' = [making EXCEPT ![n] = "done"]
    /\ UNCHANGED <<launch, cleaning, checked, restarts>>

BuildForgotten(n) ==
    /\ n \in Spare
    /\ making[n] = "failed"
    /\ spares' = [spares EXCEPT ![n] = IF Has(n, "starting") THEN Absent ELSE @]
    /\ making' = [making EXCEPT ![n] = "done"]
    /\ UNCHANGED <<pod, launch, cleaning, checked, restarts>>

(* build_failed: the row is left for cleanup, or for its expiry when the    *)
(* statement fails or retire_unwanted has deleted the pool's backoff.       *)
BuildFailed(n) ==
    /\ n \in Spare
    /\ making[n] = "failed"
    /\ spares' \in {spares, Retiring({n} \cap RowsIn("starting"))}
    /\ making' = [making EXCEPT ![n] = "done"]
    /\ UNCHANGED <<pod, launch, cleaning, checked, restarts>>

(* A row's time is up. A creation is given up after 110 seconds, its row    *)
(* after 120, while the spare is warmed perhaps and not yet published; the  *)
(* request to create a pod is answered within 120 seconds.                  *)
RowExpires(n) ==
    /\ Holding(n, "starting") \/ Holding(n, "ready") \/ Holding(n, "claimed")
    /\ making[n] # "create"
    /\ spares[n].status = "starting" => making[n] \in {"made", "done"}
    /\ spares' = [spares EXCEPT ![n].expired = TRUE]
    /\ UNCHANGED <<pod, making, launch, cleaning, checked, restarts>>

(* What retire_unwanted takes for expired. *)
Unwanted(n) == spares[n] # Absent /\ spares[n].status # "active"

(* retire_unwanted, with the pool's images still in use or not.             *)
RetireUnwanted ==
    /\ \E unused \in {{}, RowsIn("ready")} :
         /\ spares' = Retiring({n \in Name : Unwanted(n) /\ spares[n].expired} \cup unused)
         /\ spares' # spares
    /\ UNCHANGED <<pod, making, launch, cleaning, checked, restarts>>

(* cleanup lists the retiring rows, one pass at a time.                     *)
StartCleanup ==
    /\ cleaning = {}
    /\ cleaning' = RowsIn("retiring")
    /\ cleaning' # {}
    /\ UNCHANGED <<spares, pod, making, launch, checked, restarts>>

(* retire: the pod first, by its identity or by its name; then the row.     *)
Retire(n) ==
    /\ n \in cleaning
    /\ pod' = Deleted(n)
    /\ spares' = [spares EXCEPT ![n] = IF Has(n, "retiring") THEN Absent ELSE @]
    /\ cleaning' = cleaning \ {n}
    /\ UNCHANGED <<making, launch, checked, restarts>>

(* The provider fails, after it deleted the pod or before.                  *)
RetireFails(n) ==
    /\ n \in cleaning
    /\ pod' \in {pod, Deleted(n)}
    /\ cleaning' = cleaning \ {n}
    /\ UNCHANGED <<spares, making, launch, checked, restarts>>

(* forget_stopped: the rows are listed first ...                            *)
ListHosts ==
    /\ checked = Absent
    /\ checked' = RowsIn("ready") \cup RowsIn("active")
    /\ checked' # {}
    /\ UNCHANGED <<spares, pod, making, launch, cleaning, restarts>>

(* ... then those whose pods are seen to have stopped are forgotten: the    *)
(* watch may be late to show it, but never shows it early.                  *)
ForgetStopped ==
    /\ checked # Absent
    /\ \E stopped \in SUBSET {n \in checked : ~Alive(n)} :
         spares' = [n \in Name |->
           IF n \in stopped /\ (Has(n, "ready") \/ Has(n, "active")) THEN Absent ELSE spares[n]]
    /\ checked' = Absent
    /\ UNCHANGED <<pod, making, launch, cleaning, restarts>>

(* The manager stops: what it was doing is lost, also the deletions.        *)
RestartManager ==
    /\ restarts < MaxRestarts
    /\ restarts' = restarts + 1
    /\ making' = [n \in Name |->
         IF n \in Spare /\ making[n] # "none" THEN "done" ELSE making[n]]
    /\ pod' \in {pod, [n \in Name |->
         IF n \in Spare /\ making[n] = "create" THEN "pending" ELSE pod[n]]}
    /\ cleaning' = {}
    /\ checked' = Absent
    /\ UNCHANGED <<spares, launch>>

-----------------------------------------------------------------------------
(* Launches. *)

AtL(l, pc) == launch[l].pc = pc

GoesL(l, pc) == launch' = [launch EXCEPT ![l].pc = pc]

(* claim: a ready spare, for this launch alone.                             *)
Claim(l) ==
    /\ AtL(l, "claim")
    /\ \E n \in Name :
         /\ Holding(n, "ready")
         /\ spares' = [spares EXCEPT ![n] = Row("claimed", TRUE, l)]
         /\ launch' = [launch EXCEPT ![l] = [pc |-> "assign", name |-> n]]
    /\ UNCHANGED <<pod, making, cleaning, checked, restarts>>

(* reserve_host, when there is none that fits; then ensure_host creates it. *)
ReserveHost(l) ==
    /\ AtL(l, "claim")
    /\ spares' = [spares EXCEPT ![l] = Row("claimed", FALSE, l)]
    /\ making' = [making EXCEPT ![l] = "create"]
    /\ launch' = [launch EXCEPT ![l] = [pc |-> "create", name |-> l]]
    /\ UNCHANGED <<pod, cleaning, checked, restarts>>

HostCreated(l) ==
    /\ AtL(l, "create")
    /\ making[l] \in {"made", "failed"}
    /\ GoesL(l, IF making[l] = "made" THEN "assign" ELSE "failed")
    /\ making' = [making EXCEPT ![l] = "done"]
    /\ UNCHANGED <<spares, pod, cleaning, checked, restarts>>

(* assign: the spare becomes the host, once.                                *)
Assign(l) ==
    /\ AtL(l, "assign")
    /\ pod[launch[l].name] = "ready"
    /\ pod' = [pod EXCEPT ![launch[l].name] = "assigned"]
    /\ GoesL(l, "remember")
    /\ UNCHANGED <<spares, making, cleaning, checked, restarts>>

(* Declined, lost or answered with the wrong identity: ensure_host retires  *)
(* the sandbox, or fails to.                                                *)
AssignFails(l) ==
    LET n == launch[l].name IN
    /\ AtL(l, "assign") \/ AtL(l, "remember")
    /\ pod' \in {pod, Deleted(n)} \cup
         (IF pod[n] = "ready" THEN {[pod EXCEPT ![n] = "assigned"]} ELSE {})
    /\ GoesL(l, "failed")
    /\ UNCHANGED <<spares, making, cleaning, checked, restarts>>

RememberAgain(l) ==
    LET n == launch[l].name IN
    /\ AtL(l, "remember")
    /\ IF spares[n] # Absent /\ ~spares[n].expired
       THEN spares' = [spares EXCEPT ![n] = Row("active", TRUE, l)] /\ GoesL(l, "done")
       ELSE UNCHANGED spares /\ GoesL(l, "failed")
    /\ UNCHANGED <<pod, making, cleaning, checked, restarts>>

(* remember: only what is still claimed becomes active.                     *)
RememberHost(l) ==
    LET n == launch[l].name IN
    /\ AtL(l, "remember")
    /\ IF Holding(n, "claimed") /\ spares[n].host = l
       THEN spares' = [spares EXCEPT ![n] = Row("active", TRUE, l)] /\ GoesL(l, "done")
       ELSE UNCHANGED spares /\ GoesL(l, "failed")
    /\ UNCHANGED <<pod, making, cleaning, checked, restarts>>

(* failed: the host's row is retired, if the store can be reached.          *)
Failed(l) ==
    /\ AtL(l, "failed")
    /\ spares' \in {spares, Retiring({n \in Name : spares[n] # Absent /\ spares[n].host = l})}
    /\ GoesL(l, "done")
    /\ UNCHANGED <<pod, making, cleaning, checked, restarts>>

(* The caller goes away, or the control plane does, in the middle.          *)
LaunchLost(l) ==
    /\ launch[l].pc \notin {"claim", "done"}
    /\ GoesL(l, "done")
    /\ making' = [making EXCEPT ![l] = IF @ = "none" THEN @ ELSE "done"]
    /\ pod' \in {pod} \cup (IF making[l] = "create" THEN {[pod EXCEPT ![l] = "pending"]} ELSE {})
    /\ UNCHANGED <<spares, cleaning, checked, restarts>>

(* retire_config: a deployment retires all its hosts.                       *)
RetireConfig ==
    /\ \E n \in Name : spares[n] # Absent /\ spares[n].host # Absent /\ spares[n].status # "retiring"
    /\ spares' = Retiring({n \in Name : spares[n] # Absent /\ spares[n].host # Absent})
    /\ UNCHANGED <<pod, making, launch, cleaning, checked, restarts>>

-----------------------------------------------------------------------------
PodStep(n) ==
    \/ CreatePod(n) \/ PodReady(n) \/ PodFinishes(n)
    \/ Made(n) \/ MakingFails(n)

ManagerStep ==
    \/ Replenish \/ RetireUnwanted \/ StartCleanup \/ ListHosts \/ ForgetStopped
    \/ RestartManager
    \/ \E n \in Name :
         PublishSpare(n) \/ BuildFailed(n) \/ RowExpires(n) \/ Retire(n) \/ RetireFails(n)

LaunchStep(l) ==
    \/ Claim(l) \/ ReserveHost(l) \/ HostCreated(l) \/ Assign(l) \/ AssignFails(l)
    \/ RememberHost(l) \/ Failed(l) \/ LaunchLost(l)

PoolNext ==
    \/ \E n \in Name : PodStep(n)
    \/ ManagerStep
    \/ \E l \in Launch : LaunchStep(l)
    \/ RetireConfig

PoolSpec == PoolInit /\ [][PoolNext]_poolVars

-----------------------------------------------------------------------------
(* No spare is leaked: a pod the pool built and nobody was assigned to has  *)
(* a row that leads cleanup to it, at every moment and whatever fails,      *)
(* times out or restarts (build, build_failed, retire, forget_stopped).     *)
NoOrphan == \A n \in Spare : pod[n] \in {"pending", "ready"} => spares[n] # Absent

(* What cleanup is about to delete was not put to use since it was listed:  *)
(* a sandbox that is being retired does not become active (remember).       *)
NoActiveDeleted == \A n \in cleaning : spares[n] # Absent => Has(n, "retiring")
=============================================================================
