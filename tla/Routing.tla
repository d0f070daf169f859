------------------------------- MODULE Routing -------------------------------
(***************************************************************************)
(* How the control plane finds the host of one actor and runs a request    *)
(* there: the route cache (routes.rs), the resolution of a target and the  *)
(* launch of a host (service.rs), the dispatch (invocation.rs), the host's *)
(* start and shutdown as seen from outside (host/process.rs, spare.rs,     *)
(* assignment.rs) and the deployments and suspensions that run against     *)
(* them.                                                                   *)
(*                                                                         *)
(* Ownership is abstracted to what module Ownership proves of it: at most  *)
(* one host holds a live lease, and only that host runs the actor.         *)
(***************************************************************************)
EXTENDS Integers, FiniteSets

CONSTANTS
    Request,       \* invocations
    Alarm,         \* those sent by the alarm scheduler: no initial operation
    Hosts,         \* bound on the hosts that are launched
    Config,        \* host configurations (host_config_key)
    Regions,       \* bound on the eligible regions of the deployment
    Retries,       \* bound on the refusals settle gets past before its deadline
    MaxOps,        \* bound on deployments, deletions and changes of access
    None

Host == 1..Hosts

ASSUME RoutingConstants ==
    /\ Alarm \subseteq Request
    /\ {Hosts, Regions, Retries, MaxOps} \subseteq Nat
    /\ None \notin Config \cup Request \cup Host

(* RouteEntry: an entry of the route store.                                 *)
Route == [state : {"active", "draining", "stopped"}, host : Host, gen : Nat]

(* ObjectPlacement: the owner, and its lease.                               *)
Lease == [host : Host, lease : {"live", "released", "expired"}]

(* What holds the deployment lock, and how far it got.                      *)
Operation ==
    [kind : {"deploy", "delete", "stop"}, config : Config \cup {None},
     step : {"bump", "terminate", "register", "registered"}]

ASSUME NoneIsNothing ==
    /\ None \notin Nat /\ None \notin {"completed", "not_executed", "ready", "declined"}
    /\ None \notin Route /\ None \notin Lease /\ None \notin Operation

VARIABLES
    regions,   \* how many regions are eligible for an actor without a placement
    spec,      \* the registered deployment's configuration, or None
    access,    \* the organization is enabled
    op,        \* the deployment, deletion or stop that holds the lock, or None
    ops,       \* how many were started
    gen,       \* the route store's generation
    entry,     \* the actor's entry in the route store, or None
    owner,     \* the placement: host and lease, or None
    host,      \* what each host is doing
    row,       \* the sandbox pool's row of each host
    reports,   \* lifecycle reports under way
    lapsed,    \* the hosts whose lease ran out
    reported,  \* history: hosts whose shutdown the route store was told of
    stopped,   \* history: the suspended deployment's routes were dropped
    missed,    \* history: the routes were not dropped after the last change
    req,       \* the control plane's work on each request
    executed   \* history: how often a request was executed

routingVars == <<regions, spec, access, op, ops, gen, entry, owner, host, row,
                 reports, lapsed, reported, stopped, missed, req, executed>>

deployVars == <<regions, spec, access, op, ops, gen, stopped, missed>>
hostVars == <<owner, host, row, reports, lapsed>>

Fresh ==
    [pc |-> "resolve", gen |-> None, config |-> None, cur |-> None, again |-> FALSE,
     regions |-> 0, target |-> None, reply |-> None, retries |-> 0]

Unused == [phase |-> "unused", config |-> None, req |-> None, epoch |-> 0,
           reply |-> None, outcome |-> None]

(* The requests in made are to come, tries times; n operations are done. *)
RoutingStart(made, tries, n) ==
    /\ regions \in 1..Regions
    /\ spec \in Config
    /\ access = TRUE
    /\ op = None
    /\ ops = n
    /\ gen = 0
    /\ entry = None
    /\ owner = None
    /\ host = [h \in Host |-> Unused]
    /\ row = [h \in Host |-> None]
    /\ reports = {}
    /\ lapsed = {}
    /\ reported = {}
    /\ stopped = FALSE
    /\ missed = FALSE
    /\ req = [r \in Request |-> IF r \in made THEN [Fresh EXCEPT !.retries = tries]
                              ELSE [Fresh EXCEPT !.pc = "refused"]]
    /\ executed = [r \in Request |-> 0]

RoutingInit == RoutingStart(Request, Retries, 0)

-----------------------------------------------------------------------------
(* The route store. RedisRoutes::run only logs a command that fails: what   *)
(* was not read counts as absent, and what was not written is left as it    *)
(* was.                                                                     *)

Rank(state) == CASE state = "active" -> 0 [] state = "draining" -> 1 [] OTHER -> 2

(* Active routes of an earlier generation are not seen any more. *)
Visible(e) == e # None /\ (e.gen = gen \/ e.state # "active")

Current == IF Visible(entry) THEN entry ELSE None

SupersedesUnranked(state, h, e) == host[h].epoch >= host[e.host].epoch

Supersedes(state, h, e) ==
    IF e.host = h THEN Rank(state) >= Rank(e.state) ELSE host[h].epoch > host[e.host].epoch

WrittenLate(state, h, observed) ==
    IF Visible(entry) /\ ~Supersedes(state, h, entry) THEN entry
    ELSE [state |-> state, host |-> h, gen |-> gen]

(* write: what the entry becomes. *)
Written(state, h, observed) ==
    IF \/ observed # None /\ observed # gen
       \/ Visible(entry) /\ ~Supersedes(state, h, entry)
    THEN entry ELSE [state |-> state, host |-> h, gen |-> gen]

(* remove: only the very route that was found wanting. *)
Removed(h) ==
    IF entry # None /\ entry.state = "active" /\ entry.host = h THEN None ELSE entry

Owns(h) == owner # None /\ owner.host = h /\ owner.lease = "live"

(* A request that has read h but not yet written its route.                 *)
Holds(r, h) ==
    /\ h \in {req[r].cur, req[r].target}
    /\ req[r].pc \in {"check", "ready", "assign", "remember"}

(* The surroundings matter as long as a request is being worked on.         *)
Answer == {"completed", "failed", "not_executed", "unavailable", "refused", "unknown"}

Busy == \E r \in Request : req[r].pc \notin Answer

(* An active route expires at any time. SHUTDOWN_RETENTION outlasts the     *)
(* lease of a host that reported its shutdown, and the requests that read   *)
(* it.                                                                      *)
RouteExpires ==
    /\ Busy
    /\ entry # None
    /\ entry.state # "active" =>
         ~Owns(entry.host) /\ \A r \in Request : ~Holds(r, entry.host)
    /\ entry' = None
    /\ UNCHANGED <<deployVars, hostVars, reported, req, executed>>

(* follow_host_route: heartbeats only put expiry off; the reports of a      *)
(* shutdown are written whenever they arrive, if they do and if the store   *)
(* can be reached then.                                                     *)
Report(m) ==
    /\ Busy
    /\ m \in reports
    /\ reports' = reports \ {m}
    /\ entry' = Written(m[2], m[1], None)
    /\ reported' = reported \cup {m[1]}
    /\ UNCHANGED <<deployVars, owner, host, row, lapsed, req, executed>>

-----------------------------------------------------------------------------
(* The control plane's work on request r. *)

At(r, pc) == req[r].pc = pc

Goes(r, pc) == req' = [req EXCEPT ![r].pc = pc]

(* An answer to the caller. *)
Answers(r, answer) == req' = [req EXCEPT ![r] = [Fresh EXCEPT !.pc = answer]]

(* resolve_actor_route: an active route in the cache is used as it is. One  *)
(* that cannot be read is as good as none.                                  *)
Resolve(r) ==
    /\ At(r, "resolve")
    /\ \/ /\ Current # None /\ Current.state = "active"
          /\ req' = [req EXCEPT ![r].pc = "sent", ![r].target = Current.host]
       \/ Goes(r, "generation")
    /\ UNCHANGED <<deployVars, hostVars, entry, reported, executed>>

(* route_actor reads the generation first. If it could not, the route is    *)
(* not remembered in the end, as when it could not be written (Remember).   *)
ReadGeneration(r) ==
    /\ At(r, "generation")
    /\ req' = [req EXCEPT ![r].pc = "spec", ![r].gen = gen]
    /\ UNCHANGED <<deployVars, hostVars, entry, reported, executed>>

ReadSpecOnly(r) ==
    /\ At(r, "spec")
    /\ IF spec = None THEN Answers(r, "refused")
       ELSE req' = [req EXCEPT ![r].pc = "placement", ![r].config = spec]
    /\ UNCHANGED <<deployVars, hostVars, entry, reported, executed>>

(* runtime_deployment: the deployment and the organization's access.        *)
ReadSpec(r) ==
    /\ At(r, "spec")
    /\ IF spec = None \/ ~access THEN Answers(r, "refused")
       ELSE req' = [req EXCEPT ![r].pc = "placement", ![r].config = spec]
    /\ UNCHANGED <<deployVars, hostVars, entry, reported, executed>>

(* get_owner: the placement and whether its lease looks alive.              *)
Placement == IF owner # None /\ owner.lease = "live" THEN owner.host ELSE None

ReadPlacement(r) ==
    /\ At(r, "placement")
    /\ req' = [req EXCEPT ![r].pc = "check", ![r].cur = Placement, ![r].again = FALSE,
                          ![r].regions = IF owner # None THEN 1 ELSE regions]
    /\ UNCHANGED <<deployVars, hostVars, entry, reported, executed>>

(* Whether the lease that was read is past expires_at: not as long as it is *)
(* held, and surely once it ran out. One that was given up early may look   *)
(* valid for a while, even when another host has taken over.                *)
Expired(h) == {late \in BOOLEAN : (Owns(h) => ~late) /\ (h \in lapsed => late)}

ShuttingDown(h) == Current # None /\ Current.state # "active" /\ Current.host = h

(* active_target: the owner has this configuration, a lease and is not      *)
(* known to be shutting down. Otherwise a host is launched, or, after a     *)
(* failed launch, the error returned.                                       *)
Usable(h, config, late) == h # None /\ host[h].config = config /\ ~late

CheckTarget(r) ==
    /\ At(r, "check")
    /\ \E late \in Expired(req[r].cur) : \E known \in {FALSE, ShuttingDown(req[r].cur)} :
         IF Usable(req[r].cur, req[r].config, late)
         THEN Goes(r, IF known THEN "wait" ELSE "ready")
         ELSE IF req[r].again THEN Answers(r, "unavailable") ELSE Goes(r, "launch")
    /\ UNCHANGED <<deployVars, hostVars, entry, reported, executed>>

(* wait_ready: the host's row becomes active, or is not waited for.         *)
WaitReady(r) ==
    /\ At(r, "ready")
    /\ \/ /\ row[req[r].cur] = "active"
          /\ req' = [req EXCEPT ![r].pc = "remember", ![r].target = req[r].cur]
       \/ /\ row[req[r].cur] # "active"
          /\ Answers(r, "unavailable")
    /\ UNCHANGED <<deployVars, hostVars, entry, reported, executed>>

(* wait_for_shutdown, then the route is looked for anew: when the lease is  *)
(* past, the route is not draining, or it cannot be read, so at any time.   *)
ShutdownOver(r) ==
    /\ At(r, "wait")
    /\ Goes(r, "generation")
    /\ UNCHANGED <<deployVars, hostVars, entry, reported, executed>>

ShutdownTimesOut(r) ==
    /\ At(r, "wait")
    /\ Answers(r, "unavailable")
    /\ UNCHANGED <<deployVars, hostVars, entry, reported, executed>>

(* launch, provision: a sandbox is claimed or reserved for a new host, and  *)
(* the host is assigned to it together with the request.                    *)
LaunchHost(r) ==
    /\ At(r, "launch")
    /\ \E h \in Host :
         /\ host[h] = Unused /\ \A k \in 1..(h - 1) : host[k] # Unused
         /\ host' = [host EXCEPT ![h] = [@ EXCEPT
              !.phase = "assigned", !.config = req[r].config,
              !.req = IF r \in Alarm THEN None ELSE r]]
         /\ row' = [row EXCEPT ![h] = "claimed"]
         /\ req' = [req EXCEPT ![r].pc = "assign", ![r].target = h]
    /\ UNCHANGED <<deployVars, owner, reports, lapsed, entry, reported, executed>>

(* No sandbox, no credentials, no admission, or nobody to connect to.       *)
LaunchFails(r) ==
    /\ At(r, "launch")
    /\ \/ Goes(r, "relaunch")
       \/ Answers(r, "refused")
    /\ UNCHANGED <<deployVars, hostVars, entry, reported, executed>>

(* A host whose launch failed: its row is retired, and its sandbox deleted  *)
(* at once or later (Die), so that it may run on for a while.               *)
GivenUp(h) ==
    /\ row' = [row EXCEPT ![h] = IF @ = None THEN None ELSE "retiring"]
    /\ UNCHANGED <<owner, reports, lapsed>>

UnconfirmedRelaunch(r) == Goes(r, "relaunch")

Unconfirmed(r) == IF r \in Alarm THEN Goes(r, "relaunch") ELSE Answers(r, "unknown")

(* The host answered: the pool remembers it as active, unless the claim has *)
(* expired or was retired.                                                  *)
Assigned(r) ==
    LET h == req[r].target IN
    /\ At(r, "assign")
    /\ host[h].reply = "ready"
    /\ \/ /\ row[h] = "claimed"
          /\ row' = [row EXCEPT ![h] = "active"]
          /\ req' = [req EXCEPT ![r].pc = "remember",
                                ![r].reply = host[h].outcome]
          /\ UNCHANGED <<owner, reports, lapsed>>
       \/ /\ GivenUp(h)
          /\ Unconfirmed(r)
    /\ UNCHANGED <<deployVars, host, entry, reported, executed>>

(* The spare declined before it ran anything.                               *)
Declined(r) ==
    /\ At(r, "assign")
    /\ host[req[r].target].reply = "declined"
    /\ GivenUp(req[r].target)
    /\ Goes(r, "relaunch")
    /\ UNCHANGED <<deployVars, host, entry, reported, executed>>

(* The answer is lost or late: with an operation on board the outcome is    *)
(* unknown.                                                                 *)
AssignmentLost(r) ==
    /\ At(r, "assign")
    /\ GivenUp(req[r].target)
    /\ Unconfirmed(r)
    /\ UNCHANGED <<deployVars, host, entry, reported, executed>>

(* provision_in_regions after a failure: the owner is read again. If there  *)
(* is one it is used or the error returned, else the next region is tried.  *)
Relaunch(r) ==
    /\ At(r, "relaunch")
    /\ IF owner # None
       THEN req' = [req EXCEPT ![r].pc = "check", ![r].cur = Placement,
                              ![r].again = TRUE, ![r].target = None]
       ELSE IF req[r].regions > 1
       THEN req' = [req EXCEPT ![r].pc = "launch", ![r].regions = @ - 1, ![r].target = None]
       ELSE Answers(r, "unavailable")
    /\ UNCHANGED <<deployVars, hostVars, entry, reported, executed>>

Remember(r) ==
    /\ At(r, "remember")
    /\ entry' \in {entry, Written("active", req[r].target, req[r].gen)}
    /\ Goes(r, IF req[r].reply = None THEN "sent" ELSE "replied")
    /\ UNCHANGED <<deployVars, hostVars, reported, executed>>

(* Nobody can be connected to, or the credential is refused.                *)
NotReached(r) ==
    /\ At(r, "sent")
    /\ req' = [req EXCEPT ![r].pc = "replied", ![r].reply = "not_executed"]
    /\ UNCHANGED <<deployVars, hostVars, entry, reported, executed>>

(* The connection broke, or the answer made no sense: the route is dropped, *)
(* the outcome unknown.                                                     *)
ReplyLost(r) ==
    /\ At(r, "sent") \/ At(r, "replied")
    /\ entry' \in {entry, Removed(req[r].target)}
    /\ Answers(r, "unknown")
    /\ UNCHANGED <<deployVars, hostVars, reported, executed>>

(* settle: a refusal drops the route; the request is resolved again unless  *)
(* the deadline has passed.                                                 *)
Settle(r) ==
    /\ At(r, "replied")
    /\ IF req[r].reply = "not_executed"
       THEN /\ entry' \in {entry, Removed(req[r].target)}
            /\ \/ Answers(r, "not_executed")
               \/ /\ req[r].retries > 0 /\ r \notin Alarm
                  /\ req' = [req EXCEPT ![r] =
                       [Fresh EXCEPT !.retries = req[r].retries - 1]]
       ELSE Answers(r, req[r].reply) /\ UNCHANGED entry
    /\ UNCHANGED <<deployVars, hostVars, reported, executed>>

-----------------------------------------------------------------------------
(* The hosts. *)

(* register_activation: the host takes the actor over, if nobody holds it.  *)
Activate(h) ==
    /\ host[h].phase = "assigned"
    /\ Placement = None
    /\ owner' = [host |-> h, lease |-> "live"]
    /\ host' = [host EXCEPT ![h].phase = "active", ![h].epoch =
         1 + Cardinality({k \in Host : host[k].epoch > 0})]
    /\ UNCHANGED <<deployVars, row, reports, lapsed, entry, reported, req, executed>>

(* The start fails before the operation is begun: the assignment is         *)
(* declined, the lease released if there is one, the process ends.          *)
StartFails(h) ==
    /\ host[h].phase \in {"assigned", "active"}
    /\ host' = [host EXCEPT ![h].phase = "dead", ![h].reply = "declined"]
    /\ owner' \in {owner, IF Owns(h) THEN [owner EXCEPT !.lease = "released"] ELSE owner}
    /\ UNCHANGED <<deployVars, row, reports, lapsed, entry, reported, req, executed>>

(* execute_initial, then readiness is announced. A host that lost its lease *)
(* refuses; one that cannot say so any more ends without an answer.         *)
StartUp(h) ==
    LET r == host[h].req IN
    /\ host[h].phase = "active"
    /\ \/ /\ r = None
          /\ Owns(h)
          /\ host' = [host EXCEPT ![h].phase = "serving", ![h].reply = "ready"]
          /\ UNCHANGED executed
       \/ /\ r # None
          /\ Owns(h)
          /\ host' = [host EXCEPT ![h].phase = "serving", ![h].reply = "ready",
                                  ![h].outcome = "completed"]
          /\ executed' = [executed EXCEPT ![r] = @ + 1]
       \/ /\ r # None
          /\ host' = [host EXCEPT ![h].phase = "serving", ![h].reply = "ready",
                                  ![h].outcome = "not_executed"]
          /\ UNCHANGED executed
       \/ /\ r # None
          /\ Owns(h)
          /\ host' = [host EXCEPT ![h].phase = "dead"]
          /\ executed' = [executed EXCEPT ![r] = @ + 1]
    /\ UNCHANGED <<deployVars, owner, row, reports, lapsed, entry, reported, req>>

(* The host answers a request: it runs it, if it serves and holds the lease, *)
(* or refuses it.                                                           *)
Handle(r) ==
    LET h == req[r].target IN
    /\ At(r, "sent")
    /\ \/ /\ host[h].phase = "serving"
          /\ Owns(h)
          /\ executed' = [executed EXCEPT ![r] = @ + 1]
          /\ req' = [req EXCEPT ![r].pc = "replied", ![r].reply = "completed"]
       \/ /\ host[h].phase \in {"serving", "draining"}
          /\ req' = [req EXCEPT ![r].pc = "replied", ![r].reply = "not_executed"]
          /\ UNCHANGED executed
    /\ UNCHANGED <<deployVars, hostVars, entry, reported>>

(* wait_for_host_stop: idle, told to, lease lost or executor gone.          *)
Drain(h) ==
    /\ Busy
    /\ host[h].phase = "serving"
    /\ host' = [host EXCEPT ![h].phase = "draining"]
    /\ reports' = reports \cup {<<h, "draining">>}
    /\ UNCHANGED <<deployVars, owner, row, lapsed, entry, reported, req, executed>>

(* storage.finish releases the lease, or fails to; then the stop is told.   *)
Stop(h) ==
    /\ Busy
    /\ host[h].phase = "draining"
    /\ owner' \in {owner, IF Owns(h) THEN [owner EXCEPT !.lease = "released"] ELSE owner}
    /\ host' = [host EXCEPT ![h].phase = "stopped"]
    /\ reports' = reports \cup {<<h, "stopped">>}
    /\ UNCHANGED <<deployVars, row, lapsed, entry, reported, req, executed>>

(* A sandbox dies, or is retired by the pool's maintenance.                 *)
Die(h) ==
    /\ Busy
    /\ host[h].phase \notin {"unused", "dead", "stopped"}
    /\ host' = [host EXCEPT ![h].phase = "dead"]
    /\ UNCHANGED <<deployVars, owner, row, reports, lapsed, entry, reported, req, executed>>

(* A lease that is not renewed any more: its host is dead or stopped, or    *)
(* cannot renew, as when its storage access is not refreshed because the    *)
(* deployment changed (RefreshStorageAccess).                               *)
LeaseExpires ==
    /\ Busy
    /\ owner # None /\ owner.lease = "live"
    /\ owner' = [owner EXCEPT !.lease = "expired"]
    /\ lapsed' = lapsed \cup {owner.host}
    /\ UNCHANGED <<deployVars, host, row, reports, entry, reported, req, executed>>

-----------------------------------------------------------------------------
(* Deployments, deletions and the stop of a suspended deployment, one at a  *)
(* time under the deployment lock.                                          *)

Begin(kind, config) ==
    /\ Busy
    /\ op = None
    /\ kind = "stop" \/ ops < MaxOps
    /\ ops' = IF kind = "stop" THEN ops ELSE ops + 1
    /\ op' = [kind |-> kind, config |-> config,
              step |-> IF spec = None THEN "register" ELSE "bump"]
    /\ UNCHANGED <<regions, spec, access, gen, stopped, missed, hostVars, entry, reported, req,
                   executed>>

Deploy(c) == access /\ Begin("deploy", c)

Delete == spec # None /\ Begin("delete", None)

(* stop_disabled_deployment: access is looked at again under the lock. It   *)
(* is tried every RECONCILE_INTERVAL; once the routes are dropped, another  *)
(* round changes nothing.                                                   *)
StopDisabled == spec # None /\ ~access /\ ~stopped /\ Begin("stop", None)

(* set_organization_access *)
SetOrganizationAccess ==
    /\ Busy
    /\ ops < MaxOps
    /\ ops' = ops + 1
    /\ access' = ~access
    /\ stopped' = FALSE
    /\ UNCHANGED <<regions, spec, op, gen, missed, hostVars, entry, reported, req, executed>>

(* remove_project: the generation is counted up, unless the store fails,    *)
(* and then nobody is told.                                                 *)
RemoveProject ==
    \/ gen' = gen + 1 /\ missed' = FALSE
    \/ gen' = gen /\ missed' = (missed \/ op.step = "registered")

(* terminate_deployment_hosts: the routes go first, then the hosts.         *)
DropRoutes ==
    /\ op # None /\ op.step = "bump"
    /\ RemoveProject
    /\ stopped' = (stopped \/ (op.kind = "stop" /\ ~access /\ gen' # gen))
    /\ op' = [op EXCEPT !.step = "terminate"]
    /\ UNCHANGED <<regions, spec, access, ops, hostVars, entry, reported, req, executed>>

(* retire_config marks the rows of the deployment's hosts. *)
TerminateHosts ==
    /\ op # None /\ op.step = "terminate"
    /\ row' = [h \in Host |->
         IF row[h] # None /\ host[h].config = spec THEN "retiring" ELSE row[h]]
    /\ op' = IF op.kind = "stop" THEN None ELSE [op EXCEPT !.step = "register"]
    /\ UNCHANGED <<regions, spec, access, ops, gen, stopped, missed, owner, host, reports, lapsed,
                   entry, reported, req, executed>>

(* An error of the pool or of the database, or a crash: the operation ends  *)
(* where it is, to be retried. Once the change is registered, the routes    *)
(* are not dropped again.                                                   *)
OperationFails ==
    /\ op # None
    /\ op' = None
    /\ missed' = (missed \/ op.step = "registered")
    /\ UNCHANGED <<regions, spec, access, ops, gen, stopped, hostVars, entry, reported, req,
                    executed>>

Register ==
    /\ op # None /\ op.step = "register"
    /\ spec' = op.config
    /\ op' = [op EXCEPT !.step = "registered"]
    /\ UNCHANGED <<regions, access, ops, gen, stopped, missed, hostVars, entry, reported, req,
                   executed>>

(* Routes that were found under the old deployment go as well. *)
DropRoutesAgain ==
    /\ op # None /\ op.step = "registered"
    /\ RemoveProject
    /\ op' = None
    /\ UNCHANGED <<regions, spec, access, ops, stopped, hostVars, entry, reported, req, executed>>

-----------------------------------------------------------------------------
RequestStep(r) ==
    \/ Resolve(r) \/ ReadGeneration(r) \/ ReadSpec(r) \/ ReadPlacement(r)
    \/ CheckTarget(r) \/ WaitReady(r) \/ ShutdownOver(r) \/ ShutdownTimesOut(r)
    \/ LaunchHost(r) \/ LaunchFails(r) \/ Assigned(r) \/ Declined(r) \/ AssignmentLost(r)
    \/ Relaunch(r) \/ Remember(r) \/ NotReached(r) \/ ReplyLost(r)
    \/ Settle(r) \/ Handle(r)

HostStep(h) ==
    Activate(h) \/ StartFails(h) \/ StartUp(h) \/ Drain(h) \/ Stop(h) \/ Die(h)

DeploymentStep ==
    \/ \E c \in Config : Deploy(c)
    \/ Delete \/ StopDisabled \/ SetOrganizationAccess
    \/ DropRoutes \/ TerminateHosts \/ OperationFails \/ Register \/ DropRoutesAgain

RoutingNext ==
    \/ \E r \in Request : RequestStep(r)
    \/ \E h \in Host : HostStep(h)
    \/ \E m \in reports : Report(m)
    \/ RouteExpires \/ LeaseExpires
    \/ DeploymentStep

RoutingSpec == RoutingInit /\ [][RoutingNext]_routingVars

-----------------------------------------------------------------------------
(* A request is executed at most once, whatever is launched, refused, tried *)
(* in another region and sent again for it; and its answer is true: what is *)
(* reported as completed was run, what is reported as refused, unavailable  *)
(* or not executed was not run and never will be.                           *)
OutcomeTruthful ==
    \A r \in Request :
        /\ executed[r] <= 1
        /\ req[r].pc = "completed" => executed[r] = 1
        /\ req[r].pc \in {"not_executed", "unavailable", "refused"} => executed[r] = 0

(* remember "drops a route resolved before the project's latest deployment  *)
(* change" (routes.rs:24): outside a deployment, every route that is served *)
(* from the cache leads to a host of the registered deployment, unless the  *)
(* last change could not drop the routes; and the next operation whose      *)
(* remove_project succeeds makes up for that.                               *)
NoStaleRoute ==
    op = None /\ ~missed /\ Current # None /\ Current.state = "active"
        => host[Current.host].config = spec

(* Once a suspended organization's routes were dropped, no route to its     *)
(* hosts is served from the cache until it is enabled again.                *)
NoSuspendedRoute ==
    stopped => ~(Current # None /\ Current.state = "active")

(* The shutdown of the latest owner is not forgotten: no late writer brings *)
(* a route back to a host whose report to be draining or stopped reached    *)
(* the store, unless another host has taken the actor over since            *)
(* (supersedes, SHUTDOWN_RETENTION).                                        *)
NoRevivedRoute ==
    Current # None /\ Current.state = "active" /\ Current.host \in reported
        => owner.host # Current.host
=============================================================================
