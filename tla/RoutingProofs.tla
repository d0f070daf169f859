--------------------------- MODULE RoutingProofs ----------------------------
(***************************************************************************)
(* Proofs about routes: for any number of requests, hosts, regions and     *)
(* deployments, a request runs at most once and its answer is true, and    *)
(* the cache leads to no host of an earlier or suspended deployment and    *)
(* forgets no shutdown.                                                    *)
(***************************************************************************)
EXTENDS Routing, FiniteSetTheorems, TLAPS

Early == {"resolve", "generation", "spec", "placement", "check", "ready", "wait", "launch"}

(* Where a request has read the deployment and may still write a route.    *)
Informed ==
    {"placement", "check", "ready", "wait", "launch", "relaunch", "assign", "remember"}

Pc == Early \cup {"assign", "relaunch", "remember", "sent", "replied"} \cup Answer

Outcome == {None, "completed", "not_executed"}

Work ==
    [pc : Pc, gen : Nat \cup {None}, config : Config \cup {None}, cur : Host \cup {None},
     again : BOOLEAN, regions : Nat, target : Host \cup {None}, reply : Outcome, retries : Nat]

Machine ==
    [phase : {"unused", "assigned", "active", "serving", "draining", "stopped", "dead"},
     config : Config \cup {None}, req : Request \cup {None}, epoch : Nat,
     reply : {None, "ready", "declined"}, outcome : Outcome]

RoutingType ==
    /\ regions \in Nat /\ spec \in Config \cup {None} /\ access \in BOOLEAN
    /\ op \in Operation \cup {None} /\ gen \in Nat /\ stopped \in BOOLEAN
    /\ entry \in Route \cup {None} /\ owner \in Lease \cup {None}
    /\ host \in [Host -> Machine]
    /\ reports \subseteq Host \X {"draining", "stopped"} /\ reported \subseteq Host
    /\ req \in [Request -> Work] /\ executed \in [Request -> Nat]

-----------------------------------------------------------------------------
(* What the requests and the hosts know.                                   *)

Starting(h) == host[h].phase \in {"assigned", "active"}

(* Where the host of an assignment has not run the request.                *)
Declines(r, h) ==
    \/ r \in Alarm
    \/ Starting(h)
    \/ host[h].reply = "declined"
    \/ host[h].reply = "ready" /\ host[h].outcome # "completed"

(* What was run for a request, by how far it has got.                      *)
RanInv(r) ==
    /\ executed[r] <= 1
    /\ req[r].pc \in Early \cup {"relaunch", "sent"} => executed[r] = 0
    /\ req[r].pc \in Early \cup {"relaunch", "assign"} => req[r].reply = None
    /\ req[r].pc = "assign" =>
         /\ host[req[r].target].req = IF r \in Alarm THEN None ELSE r
         /\ Declines(r, req[r].target) => executed[r] = 0
         /\ host[req[r].target].reply = "ready" /\ host[req[r].target].outcome = "completed" =>
              executed[r] = 1
    /\ req[r].pc \in {"remember", "replied"} =>
         executed[r] = IF req[r].reply = "completed" THEN 1 ELSE 0
    /\ req[r].pc = "replied" => req[r].reply # None
    /\ req[r].pc = "completed" => executed[r] = 1
    /\ req[r].pc \in {"not_executed", "unavailable", "refused"} => executed[r] = 0

(* The host a request is about to use was launched, or owned the actor.    *)
TargetInv(r) ==
    /\ req[r].pc \in Early => req[r].target = None
    /\ req[r].pc \in {"check", "ready"} /\ req[r].cur # None => host[req[r].cur].epoch > 0
    /\ req[r].pc = "ready" =>
         req[r].cur # None /\ host[req[r].cur].config = req[r].config
    /\ req[r].pc \in {"assign", "remember"} =>
         /\ req[r].target # None
         /\ host[req[r].target].phase # "unused"
         /\ host[req[r].target].config = req[r].config
    /\ req[r].pc = "remember" => host[req[r].target].epoch > 0

Changing == missed \/ (op # None /\ op.step = "registered")

(* What a request knows of the deployment is true, or its generation old.  *)
InformedInv(r) ==
    /\ req[r].pc \in Informed \cup {"spec"} => req[r].gen # None /\ req[r].gen <= gen
    /\ req[r].pc \in Informed /\ req[r].gen = gen =>
         (req[r].config = spec \/ Changing) /\ ~stopped

(* A host that may still run a request is the only one, and the request    *)
(* waits for it or was given up.                                           *)
HostInv(h) ==
    /\ host[h].phase \in {"unused", "assigned"} => host[h].epoch = 0
    /\ host[h].phase \in {"active", "serving", "draining", "stopped"} => host[h].epoch > 0
    /\ host[h].reply = "ready" =>
         host[h].epoch > 0 /\ host[h].phase \in {"serving", "draining", "stopped", "dead"}
    /\ host[h].reply = "declined" => host[h].phase = "dead"
    /\ host[h].outcome # None => host[h].reply = "ready"
    /\ Starting(h) /\ host[h].req # None =>
         /\ executed[host[h].req] = 0
         /\ \/ req[host[h].req].pc = "unknown"
            \/ req[host[h].req].pc = "assign" /\ req[host[h].req].target = h
         /\ \A k \in Host : Starting(k) /\ host[k].req = host[h].req => k = h
    /\ h \in reported \/ (\E m \in reports : m[1] = h) =>
         host[h].phase \in {"draining", "stopped", "dead"} /\ host[h].epoch > 0

-----------------------------------------------------------------------------
(* The owner is the host of the greatest epoch.                            *)
EpochInv ==
    /\ \A k \in Host : /\ host[k].epoch <= Cardinality({j \in Host : host[j].epoch > 0})
                       /\ host[k].epoch > 0 => owner # None
    /\ owner # None =>
         /\ host[owner.host].epoch > 0
         /\ \A k \in Host : k # owner.host => host[k].epoch < host[owner.host].epoch

(* The cache.                                                              *)
RouteInv ==
    /\ stopped => ~access
    /\ entry # None =>
         /\ host[entry.host].epoch > 0
         /\ entry.gen <= gen
         /\ entry.state = "active" /\ entry.gen = gen =>
              (host[entry.host].config = spec \/ Changing) /\ ~stopped

(* A request that may write a route to h.                                  *)
Uses(r, h) ==
    \/ req[r].pc \in {"check", "ready"} /\ req[r].cur = h
    \/ req[r].pc \in {"assign", "remember"} /\ req[r].target = h

(* The shutdown of the owner is in the store, or nobody finds it any more. *)
ShutdownInv ==
    owner # None /\ owner.host \in reported =>
        \/ entry # None /\ entry.host = owner.host /\ entry.state # "active"
        \/ /\ owner.lease # "live"
           /\ \A r \in Request : ~Uses(r, owner.host)
           /\ entry # None => entry.host # owner.host

RoutingInv ==
    /\ RoutingType
    /\ \A r \in Request : RanInv(r) /\ TargetInv(r) /\ InformedInv(r)
    /\ \A h \in Host : HostInv(h)
    /\ EpochInv /\ RouteInv /\ ShutdownInv

-----------------------------------------------------------------------------
(* Deployments.                                                            *)

(* A deployment drops every route, or has changed nothing yet, or has yet  *)
(* to drop what was found under the old one.                               *)
LEMMA DeploymentFrame ==
    ASSUME RoutingInv,
           UNCHANGED <<regions, entry, owner, host, reports, reported, req, executed>>,
           spec' \in Config \cup {None}, access' \in BOOLEAN, gen' \in Nat,
           op' \in Operation \cup {None}, stopped' \in BOOLEAN, stopped' => ~access',
           \/ gen < gen'
           \/ gen' = gen /\ (stopped' => stopped) /\ (Changing' \/ (spec' = spec /\ ~Changing))
    PROVE  RoutingInv'
<1>1. RoutingType'
  BY DEF RoutingInv, RoutingType
<1>2. ASSUME NEW r \in Request PROVE RanInv(r)' /\ TargetInv(r)'
  BY <1>2, Zenon DEF RoutingInv, RanInv, Declines, TargetInv, Starting
<1>3. ASSUME NEW r \in Request PROVE InformedInv(r)'
  <2>1. InformedInv(r) /\ req[r].gen \in Nat \cup {None} /\ gen \in Nat
    BY <1>3 DEF RoutingInv, RoutingType, Work
  <2> QED
    BY <2>1 DEF InformedInv
<1>4. ASSUME NEW h \in Host PROVE HostInv(h)'
  BY <1>4, Zenon DEF RoutingInv, HostInv, Starting
<1>5. EpochInv' /\ ShutdownInv'
  BY Zenon DEF RoutingInv, EpochInv, ShutdownInv, Uses
<1>6. RouteInv'
  <2>1. entry # None => entry.gen \in Nat
    BY DEF RoutingInv, RoutingType, Route
  <2> QED
    BY <2>1 DEF RoutingInv, RoutingType, RouteInv
<1> QED
  BY <1>1, <1>2, <1>3, <1>4, <1>5, <1>6, Zenon DEF RoutingInv

LEMMA DeploymentStepKeeps == ASSUME RoutingInv, DeploymentStep PROVE RoutingInv'
<1> USE NoneIsNothing
<1>1. /\ spec \in Config \cup {None} /\ access \in BOOLEAN /\ gen \in Nat /\ gen < gen + 1
      /\ op \in Operation \cup {None} /\ stopped \in BOOLEAN /\ (stopped => ~access)
  BY DEF RoutingInv, RoutingType, RouteInv
<1>2. ASSUME op # None, NEW s \in {"terminate", "register", "registered"}
      PROVE  /\ [op EXCEPT !.step = s] \in Operation /\ [op EXCEPT !.step = s].step = s
             /\ [op EXCEPT !.step = s] # None /\ op.config \in Config \cup {None}
  BY <1>1, <1>2 DEF Operation
<1>3. ASSUME NEW kind \in {"deploy", "delete", "stop"}, NEW c \in Config \cup {None},
             Begin(kind, c)
      PROVE  RoutingInv'
  <2>1. op' \in Operation /\ op = None
    BY <1>3 DEF Begin, Operation
  <2> QED
    <3>1. Changing' \/ ~Changing
      BY <1>3, <2>1, Zenon DEF Begin, Changing
    <3> QED
      BY <1>1, <1>3, <2>1, <3>1, DeploymentFrame, Zenon DEF Begin, hostVars
<1>4. CASE \E c \in Config : Deploy(c)
  BY <1>3, <1>4 DEF Deploy
<1>5. CASE Delete \/ StopDisabled
  BY <1>3, <1>5 DEF Delete, StopDisabled
<1>6. CASE SetOrganizationAccess
  <2>1. /\ access' \in BOOLEAN /\ stopped' \in BOOLEAN /\ ~stopped'
        /\ gen' = gen /\ spec' = spec /\ op' = op
    BY <1>6, Zenon DEF SetOrganizationAccess
  <2>2. Changing' \/ ~Changing
    BY <1>6, Zenon DEF SetOrganizationAccess, Changing
  <2> QED
    BY <1>1, <1>6, <2>1, <2>2, DeploymentFrame, Zenon DEF SetOrganizationAccess, hostVars
<1>7. CASE DropRoutes
  <2>1. op' \in Operation
    BY <1>2, <1>7 DEF DropRoutes
  <2>2. /\ gen' \in Nat /\ stopped' \in BOOLEAN /\ (stopped' => ~access')
        /\ \/ gen < gen'
           \/ gen' = gen /\ (stopped' => stopped) /\ (Changing' \/ (spec' = spec /\ ~Changing))
    <3>1. /\ op # None /\ op.step = "bump" /\ spec' = spec /\ access' = access
          /\ stopped' = (stopped \/ (op.kind = "stop" /\ ~access /\ gen' # gen))
          /\ gen' = gen + 1 \/ (gen' = gen /\ missed' = (missed \/ op.step = "registered"))
      BY <1>7, Zenon DEF DropRoutes, RemoveProject
    <3>2. "bump" # "registered"
      OBVIOUS
    <3>3. gen' = gen + 1 \/ Changing' \/ ~Changing
      BY <3>1, <3>2, Zenon DEF Changing
    <3>4. gen' = gen => (stopped' => stopped)
      BY <3>1, Zenon
    <3>5. stopped' \in BOOLEAN /\ (stopped' => ~access')
      BY <1>1, <3>1, Zenon
    <3>6. gen' \in Nat /\ (gen < gen' \/ (gen' = gen /\ gen' # gen + 1))
      BY <1>1, <3>1
    <3> QED
      BY <3>1, <3>3, <3>4, <3>5, <3>6, Zenon
  <2> QED
    BY <1>1, <1>7, <2>1, <2>2, DeploymentFrame, Zenon DEF DropRoutes, hostVars
<1>8. CASE TerminateHosts
  <2>1. op' \in Operation \cup {None}
    BY <1>2, <1>8 DEF TerminateHosts
  <2> QED
    BY <1>1, <1>8, <2>1, DeploymentFrame DEF TerminateHosts, Changing
<1>9. CASE OperationFails
  <2>1. op' \in Operation \cup {None} /\ spec' = spec /\ gen' = gen
    BY <1>9, Zenon DEF OperationFails
  <2>2. Changing' \/ ~Changing
    BY <1>9, Zenon DEF OperationFails, Changing
  <2> QED
    BY <1>1, <1>9, <2>1, <2>2, DeploymentFrame, Zenon DEF OperationFails, hostVars
<1>10. CASE Register
  <2>1. op' \in Operation /\ op' # None /\ op'.step = "registered" /\ spec' \in Config \cup {None}
    BY <1>2, <1>10 DEF Register
  <2> QED
    BY <1>1, <1>10, <2>1, DeploymentFrame DEF Register, hostVars, Changing
<1>11. CASE DropRoutesAgain
  <2>1. /\ gen' \in Nat
        /\ gen < gen' \/ (gen' = gen /\ Changing')
    <3>1. /\ op # None /\ op.step = "registered"
          /\ gen' = gen + 1 \/ (gen' = gen /\ missed' = (missed \/ op.step = "registered"))
      BY <1>11, Zenon DEF DropRoutesAgain, RemoveProject
    <3>2. gen' = gen => Changing' \/ gen' = gen + 1
      BY <3>1, Zenon DEF Changing
    <3> QED
      BY <1>1, <3>1, <3>2
  <2> QED
    BY <1>1, <1>11, <2>1, DeploymentFrame DEF DropRoutesAgain, hostVars
<1> QED
  BY <1>4, <1>5, <1>6, <1>7, <1>8, <1>9, <1>10, <1>11 DEF DeploymentStep

-----------------------------------------------------------------------------
(* The work on a request.                                                  *)

RequestVars == <<regions, spec, access, op, gen, stopped, missed, owner, host, reports, reported>>

(* An active route may be dropped.                                         *)
Dropped == entry' = entry \/ (entry' = None /\ entry # None /\ entry.state = "active")

(* A step of one request, whatever it writes to the cache: no host that    *)
(* may still run it is left out of sight.                                  *)
LEMMA RequestFrame ==
    ASSUME RoutingInv, NEW r \in Request, UNCHANGED RequestVars,
           req' \in [Request -> Work], \A q \in Request \ {r} : req'[q] = req[q],
           executed' \in [Request -> Nat],
           \A q \in Request \ {r} : executed'[q] = executed[q],
           entry' \in Route \cup {None},
           RanInv(r)', TargetInv(r)', InformedInv(r)',
           \A h \in Host : Starting(h) /\ host[h].req = r =>
               /\ executed'[r] = 0
               /\ \/ req'[r].pc = "unknown"
                  \/ req'[r].pc = "assign" /\ req'[r].target = h
    PROVE  /\ RoutingType' /\ EpochInv'
           /\ \A q \in Request : RanInv(q)' /\ TargetInv(q)' /\ InformedInv(q)'
           /\ \A h \in Host : HostInv(h)'
<1>1. RoutingType' /\ EpochInv'
  BY Zenon DEF RoutingInv, RoutingType, EpochInv, RequestVars
<1>2. ASSUME NEW q \in Request \ {r} PROVE RanInv(q)' /\ TargetInv(q)' /\ InformedInv(q)'
  <2>1. RanInv(q) /\ TargetInv(q) /\ InformedInv(q)
    BY <1>2, Zenon DEF RoutingInv
  <2>2. req'[q] = req[q] /\ executed'[q] = executed[q] /\ host' = host /\ gen' = gen /\ spec' = spec
        /\ op' = op /\ stopped' = stopped /\ missed' = missed
    BY <1>2, Zenon DEF RequestVars
  <2>3. RanInv(q)'
    BY <2>1, <2>2, Zenon DEF RanInv, Declines, Starting
  <2>4. TargetInv(q)'
    BY <2>1, <2>2, Zenon DEF TargetInv
  <2>5. InformedInv(q)'
    BY <2>1, <2>2, Zenon DEF InformedInv, Changing
  <2> QED
    BY <2>3, <2>4, <2>5, Zenon
<1>3. ASSUME NEW h \in Host PROVE HostInv(h)'
  <2>1. HostInv(h) /\ host' = host /\ reports' = reports /\ reported' = reported
    BY <1>3, Zenon DEF RoutingInv, RequestVars
  <2>2. CASE host[h].req = r
    BY <1>3, <2>1, <2>2, Zenon DEF HostInv, Starting
  <2>3. CASE host[h].req # r /\ host[h].req # None
    <3>1. host[h].req \in Request \ {r}
      BY <1>3, <2>3 DEF RoutingInv, RoutingType, Machine
    <3> QED
      BY <2>1, <3>1, Zenon DEF HostInv, Starting
  <2>4. CASE host[h].req = None
    BY <2>1, <2>4, Zenon DEF HostInv, Starting
  <2> QED
    BY <2>2, <2>3, <2>4
<1> QED
  BY <1>1, <1>2, <1>3, Zenon

(* A step that at most drops a route, and finds no host but the owner.     *)
LEMMA RequestOnly ==
    ASSUME RoutingInv, NEW r \in Request, UNCHANGED RequestVars, Dropped,
           req' \in [Request -> Work], \A q \in Request \ {r} : req'[q] = req[q],
           executed' \in [Request -> Nat],
           \A q \in Request \ {r} : executed'[q] = executed[q],
           RanInv(r)', TargetInv(r)', InformedInv(r)',
           \A h \in Host : Starting(h) /\ host[h].req = r =>
               /\ executed'[r] = 0
               /\ \/ req'[r].pc = "unknown"
                  \/ req'[r].pc = "assign" /\ req'[r].target = h,
           \A h \in Host : Uses(r, h)' => Uses(r, h) \/ Owns(h)
    PROVE  RoutingInv'
<1>1. /\ RoutingType' /\ EpochInv'
      /\ \A q \in Request : RanInv(q)' /\ TargetInv(q)' /\ InformedInv(q)'
      /\ \A h \in Host : HostInv(h)'
  <2>1. entry' \in Route \cup {None}
    BY Zenon DEF RoutingInv, RoutingType, Dropped
  <2> QED
    BY <2>1, RequestFrame, Zenon
<1>2. RouteInv'
  BY Zenon DEF RoutingInv, RouteInv, Changing, RequestVars, Dropped
<1>3. ShutdownInv'
  <2>1. owner # None => owner.host \in Host
    BY DEF RoutingInv, RoutingType, Lease
  <2> QED
    BY <2>1, ZenonT(60) DEF RoutingInv, ShutdownInv, Uses, Owns, RequestVars, Dropped
<1> QED
  BY <1>1, <1>2, <1>3, Zenon DEF RoutingInv

(* The caller is answered.                                                 *)
LEMMA AnswerType ==
    ASSUME RoutingInv, NEW r \in Request, NEW a \in Answer, Answers(r, a)
    PROVE  /\ req' \in [Request -> Work] /\ req'[r].pc = a
           /\ \A q \in Request \ {r} : req'[q] = req[q]
<1>1. [Fresh EXCEPT !.pc = a] \in Work /\ [Fresh EXCEPT !.pc = a].pc = a
  BY DEF Fresh, Work, Pc, Outcome
<1> QED
  BY <1>1 DEF RoutingInv, RoutingType, Answers

(* A request that was not run, or whose outcome is not claimed to be known,*)
(* is answered.                                                            *)
LEMMA AnswerKeeps ==
    ASSUME RoutingInv, NEW r \in Request, NEW a \in Answer, Answers(r, a),
           UNCHANGED <<RequestVars, executed>>,
           \/ a = "unknown"
           \/ a = "completed" /\ executed[r] = 1 /\ req[r].pc # "assign"
           \/ a \in {"not_executed", "unavailable", "refused"} /\ executed[r] = 0
              /\ req[r].pc # "assign",
           req[r].pc \notin Answer
    PROVE  /\ Dropped => RoutingInv'
           /\ entry' \in Route \cup {None} =>
                /\ RoutingType' /\ EpochInv'
                /\ \A q \in Request : RanInv(q)' /\ TargetInv(q)' /\ InformedInv(q)'
                /\ \A h \in Host : HostInv(h)'
<1>1. /\ req' \in [Request -> Work] /\ req'[r].pc = a
      /\ \A q \in Request \ {r} : req'[q] = req[q]
  BY AnswerType, Zenon
<1>2. executed' = executed /\ executed \in [Request -> Nat] /\ RanInv(r)
  BY Zenon DEF RoutingInv, RoutingType
<1>3. a \notin Informed \cup {"spec"} \cup Early \cup {"assign", "relaunch", "sent", "remember", "replied"}
  BY DEF Answer, Informed, Early
<1>4. RanInv(r)' /\ TargetInv(r)' /\ InformedInv(r)'
  <2>1. RanInv(r)'
    BY <1>1, <1>2, <1>3 DEF RanInv
  <2>2. TargetInv(r)' /\ InformedInv(r)'
    BY <1>1, <1>3, Zenon DEF TargetInv, InformedInv
  <2> QED
    BY <2>1, <2>2
<1>5. ASSUME NEW h \in Host, Starting(h), host[h].req = r
      PROVE  executed'[r] = 0 /\ req'[r].pc = "unknown"
  <2>1. r # None
    BY RoutingConstants
  <2>2. executed[r] = 0 /\ (req[r].pc = "unknown" \/ req[r].pc = "assign")
    BY <1>5, <2>1, Zenon DEF RoutingInv, HostInv
  <2> QED
    BY <1>1, <1>2, <2>2 DEF Answer
<1>6. \A h \in Host : ~Uses(r, h)'
  BY <1>1, <1>3 DEF Uses
<1> QED
  BY <1>1, <1>2, <1>4, <1>5, <1>6, RequestFrame, RequestOnly, Zenon DEF RequestVars

(* None is no word of the protocol.                                        *)
LEMMA NoWord ==
    None \notin {"completed", "not_executed", "ready", "declined"}
  BY NoneIsNothing

(* Arithmetic of the counts.                                               *)
LEMMA Once ==
    ASSUME NEW a, NEW b, a = 0
    PROVE  /\ b \in {a, a + 1} => b <= 1
           /\ b = a + 1 => b = 1
           /\ b = 0 \/ b = 1 => b <= 1
  OBVIOUS

LEMMA Counts == 0 # 1 /\ 0 <= 1 /\ 1 <= 1 /\ ~(0 > 0) /\ 1 > 0
  OBVIOUS

(* What the invariant asks of how often a request ran, by its state.       *)
LEMMA RanUnknown ==
    ASSUME NEW q \in Request, req'[q].pc = "unknown", executed'[q] <= 1
    PROVE  RanInv(q)'
  BY DEF RanInv, Early

LEMMA RanAssigned ==
    ASSUME NEW q \in Request, NEW h \in Host, req'[q].pc = "assign", req'[q].target = h,
           executed'[q] <= 1, req'[q].reply = None,
           host'[h].req = IF q \in Alarm THEN None ELSE q,
           Declines(q, h)' => executed'[q] = 0,
           host'[h].reply = "ready" /\ host'[h].outcome = "completed" => executed'[q] = 1
    PROVE  RanInv(q)'
  BY DEF RanInv, Early

LEMMA RanReplied ==
    ASSUME NEW q \in Request, req'[q].pc = "replied", req'[q].reply # None,
           executed'[q] = IF req'[q].reply = "completed" THEN 1 ELSE 0
    PROVE  RanInv(q)'
  BY DEF RanInv, Early

(* A host that was the owner, and the owner.                               *)
LEMMA HostUsed ==
    ASSUME RoutingInv, NEW h \in Host, host[h].epoch > 0 PROVE host[h].phase # "unused"
<1>1. HostInv(h)
  BY Zenon DEF RoutingInv
<1> QED
  BY <1>1, Counts, Zenon DEF HostInv

LEMMA OwnerUsed ==
    ASSUME RoutingInv, owner # None PROVE owner.host \in Host /\ host[owner.host].epoch > 0
<1>1. owner \in Lease
  BY Zenon DEF RoutingInv, RoutingType
<1>2. owner.host \in Host
  BY <1>1 DEF Lease
<1> QED
  BY <1>2, Zenon DEF RoutingInv, EpochInv

LEMMA RouteOf ==
    ASSUME NEW h \in Host, NEW g \in Nat
    PROVE  LET e == [state |-> "active", host |-> h, gen |-> g]
           IN  e \in Route /\ e.state = "active" /\ e.host = h /\ e.gen = g /\ g <= g
  BY DEF Route

(* What the invariant says of one request.                                 *)
LEMMA RequestKnown ==
    ASSUME RoutingInv, NEW r \in Request
    PROVE  /\ RanInv(r) /\ TargetInv(r) /\ InformedInv(r)
           /\ req[r] \in Work /\ executed[r] \in Nat /\ gen \in Nat /\ r # None
           /\ req[r].pc \notin {"assign", "unknown"} =>
                \A h \in Host : ~(Starting(h) /\ host[h].req = r)
<1>1. RanInv(r) /\ TargetInv(r) /\ InformedInv(r)
  BY Zenon DEF RoutingInv
<1>2. req[r] \in Work /\ executed[r] \in Nat /\ gen \in Nat
  BY Zenon DEF RoutingInv, RoutingType
<1>3. r # None
  BY RoutingConstants
<1>4. ASSUME req[r].pc \notin {"assign", "unknown"}, NEW h \in Host, Starting(h), host[h].req = r
      PROVE  FALSE
  BY <1>3, <1>4, Zenon DEF RoutingInv, HostInv
<1> QED
  BY <1>1, <1>2, <1>3, <1>4, Zenon

LEMMA Updated ==
    ASSUME RoutingInv, NEW r \in Request, NEW w \in Work, req' = [req EXCEPT ![r] = w]
    PROVE  /\ req' \in [Request -> Work] /\ req'[r] = w
           /\ \A q \in Request \ {r} : req'[q] = req[q]
  BY Zenon DEF RoutingInv, RoutingType

(* A request for which nothing has run, and nothing will unless it is      *)
(* launched or sent anew.                                                  *)
LEMMA EarlyKeeps ==
    ASSUME RoutingInv, NEW r \in Request, NEW w \in Work, req' = [req EXCEPT ![r] = w],
           UNCHANGED <<RequestVars, executed>> /\ Dropped,
           executed[r] = 0, \A h \in Host : ~(Starting(h) /\ host[h].req = r),
           w.pc \in Early \cup {"relaunch"}, w.reply = None, w.pc \in Early => w.target = None,
           w.pc \in {"check", "ready"} =>
             w.cur \in {None, Placement} \/ (req[r].pc = "check" /\ w.cur = req[r].cur),
           w.pc = "ready" => w.cur # None /\ host[w.cur].config = w.config,
           w.pc \in Informed \cup {"spec"} =>
             w.gen = gen \/ (req[r].pc \in Informed \cup {"spec"} /\ w.gen = req[r].gen),
           w.pc \in Informed =>
             \/ w.config = spec /\ access
             \/ req[r].pc \in Informed /\ w.gen = req[r].gen /\ w.config = req[r].config
    PROVE  RoutingInv'
<1>1. /\ req' \in [Request -> Work] /\ req'[r] = w
      /\ \A q \in Request \ {r} : req'[q] = req[q]
  BY Updated, Zenon
<1>2. /\ RanInv(r) /\ TargetInv(r) /\ InformedInv(r) /\ executed \in [Request -> Nat]
      /\ gen \in Nat /\ (stopped => ~access)
  BY RequestKnown, Zenon DEF RoutingInv, RoutingType, RouteInv
<1>3. w.pc \notin {"assign", "sent", "remember", "replied"} \cup Answer
  BY DEF Early, Answer
<1>4. /\ host' = host /\ gen' = gen /\ op' = op /\ spec' = spec /\ stopped' = stopped /\ missed' = missed
      /\ executed' = executed /\ owner' = owner
  BY Zenon DEF RequestVars
<1>5. RanInv(r)'
  BY <1>1, <1>3, <1>4 DEF RanInv, Answer
<1>6. TargetInv(r)'
  <2>1. ASSUME w.pc \in {"check", "ready"}, w.cur # None PROVE host[w.cur].epoch > 0
    <3>1. CASE w.cur = Placement
      BY <2>1, <3>1, Zenon DEF Placement, RoutingInv, EpochInv
    <3>2. CASE req[r].pc = "check" /\ w.cur = req[r].cur
      BY <1>2, <2>1, <3>2, Zenon DEF TargetInv
    <3> QED
      BY <2>1, <3>1, <3>2
  <2> QED
    BY <1>1, <1>3, <1>4, <2>1, Zenon DEF TargetInv
<1>7. InformedInv(r)'
  <2>1. w.pc \in Informed \cup {"spec"} => w.gen # None /\ w.gen <= gen
    BY <1>2, NoneIsNothing DEF InformedInv
  <2>2. w.pc \in Informed /\ w.gen = gen => (w.config = spec \/ Changing) /\ ~stopped
    BY <1>2, Zenon DEF InformedInv
  <2> QED
    BY <1>1, <1>4, <2>1, <2>2, Zenon DEF InformedInv, Changing
<1>8. ASSUME NEW h \in Host, Uses(r, h)' PROVE Uses(r, h) \/ Owns(h)
  <2>1. w.pc \in {"check", "ready"} /\ w.cur = h /\ h # None
    BY <1>1, <1>3, <1>8, RoutingConstants DEF Uses
  <2> QED
    BY <2>1, Zenon DEF Uses, Owns, Placement
<1> QED
  BY <1>1, <1>2, <1>4, <1>5, <1>6, <1>7, <1>8, RequestOnly, Zenon

(* The fields that a step changes.                                         *)
LEMMA GoesType ==
    ASSUME RoutingInv, NEW r \in Request, NEW pc \in Pc, Goes(r, pc)
    PROVE  \E w \in Work : /\ req' = [req EXCEPT ![r] = w] /\ w.pc = pc
                           /\ w.gen = req[r].gen /\ w.config = req[r].config
                           /\ w.cur = req[r].cur /\ w.target = req[r].target
                           /\ w.reply = req[r].reply
<1> DEFINE w == [req[r] EXCEPT !.pc = pc]
<1>1. req[r] \in Work
  BY RequestKnown, Zenon
<1>2. w \in Work /\ req' = [req EXCEPT ![r] = w]
  BY <1>1 DEF Work, Goes
<1>3. /\ w.pc = pc /\ w.gen = req[r].gen /\ w.config = req[r].config
      /\ w.cur = req[r].cur /\ w.target = req[r].target /\ w.reply = req[r].reply
  BY <1>1 DEF Work
<1> QED
  BY <1>2, <1>3

(* The early steps, up to the launch.                                      *)
LEMMA FirstStepsKeep ==
    ASSUME RoutingInv, NEW r \in Request,
           ReadGeneration(r) \/ ReadSpec(r) \/ ReadPlacement(r)
    PROVE  RoutingInv'
<1>1. /\ RanInv(r) /\ TargetInv(r) /\ InformedInv(r) /\ req[r] \in Work
      /\ req[r].pc \notin {"assign", "unknown"} =>
           \A h \in Host : ~(Starting(h) /\ host[h].req = r)
  BY RequestKnown, Zenon
<1>2. /\ gen \in Nat /\ spec \in Config \cup {None} /\ regions \in Nat
      /\ Placement \in Host \cup {None}
  BY DEF RoutingInv, RoutingType, Placement, Lease
<1>3. UNCHANGED <<RequestVars, executed>> /\ Dropped
  BY DEF ReadGeneration, ReadSpec, ReadPlacement, RequestVars, deployVars, hostVars, Dropped
<1>4. CASE ReadGeneration(r)
  <2> DEFINE w == [req[r] EXCEPT !.pc = "spec", !.gen = gen]
  <2>1. req' = [req EXCEPT ![r] = w] /\ req[r].pc = "generation"
    BY <1>4 DEF ReadGeneration, At
  <2>2. w \in Work
    BY <1>1, <1>2 DEF Work, Pc, Early
  <2>3. w.pc = "spec" /\ w.gen = gen /\ w.target = req[r].target /\ w.reply = req[r].reply
    BY <1>1 DEF Work
  <2> HIDE DEF w
  <2>4. req[r].target = None /\ req[r].reply = None /\ executed[r] = 0
    BY <1>1, <2>1 DEF RanInv, TargetInv, Early
  <2> QED
    BY <1>1, <1>3, <2>1, <2>2, <2>3, <2>4, EarlyKeeps DEF Early, Informed
<1>5. CASE ReadSpec(r) /\ (spec = None \/ ~access)
  <2>1. Answers(r, "refused") /\ req[r].pc = "spec"
    BY <1>5 DEF ReadSpec, At
  <2>2. executed[r] = 0
    BY <1>1, <2>1 DEF RanInv, Early
  <2> QED
    BY <1>3, <2>1, <2>2, AnswerKeeps DEF Answer
<1>6. CASE ReadSpec(r) /\ ~(spec = None \/ ~access)
  <2> DEFINE w == [req[r] EXCEPT !.pc = "placement", !.config = spec]
  <2>1. req' = [req EXCEPT ![r] = w] /\ req[r].pc = "spec" /\ access
    BY <1>6 DEF ReadSpec, At
  <2>2. w \in Work
    BY <1>1, <1>2 DEF Work, Pc, Early
  <2>3. /\ w.pc = "placement" /\ w.gen = req[r].gen /\ w.config = spec
        /\ w.target = req[r].target /\ w.reply = req[r].reply
    BY <1>1 DEF Work
  <2> HIDE DEF w
  <2>4. req[r].target = None /\ req[r].reply = None /\ executed[r] = 0
    BY <1>1, <2>1 DEF RanInv, TargetInv, Early
  <2> QED
    BY <1>1, <1>3, <2>1, <2>2, <2>3, <2>4, EarlyKeeps DEF Early, Informed
<1>7. CASE ReadPlacement(r)
  <2> DEFINE w == [req[r] EXCEPT !.pc = "check", !.cur = Placement, !.again = FALSE,
                                 !.regions = IF owner # None THEN 1 ELSE regions]
  <2>1. req' = [req EXCEPT ![r] = w] /\ req[r].pc = "placement"
    BY <1>7 DEF ReadPlacement, At
  <2>2. w \in Work
    <3>1. (IF owner # None THEN 1 ELSE regions) \in Nat /\ "check" \in Pc
      BY <1>2 DEF Pc, Early
    <3> QED
      BY <1>1, <1>2, <3>1 DEF Work
  <2>3. /\ w.pc = "check" /\ w.gen = req[r].gen /\ w.config = req[r].config
        /\ w.cur = Placement /\ w.target = req[r].target /\ w.reply = req[r].reply
    BY <1>1 DEF Work
  <2> HIDE DEF w
  <2>4. req[r].target = None /\ req[r].reply = None /\ executed[r] = 0
    BY <1>1, <2>1 DEF RanInv, TargetInv, Early
  <2> QED
    BY <1>1, <1>3, <2>1, <2>2, <2>3, <2>4, EarlyKeeps DEF Early, Informed
<1> QED
  BY <1>4, <1>5, <1>6, <1>7

(* The cache is asked, and the owner looked at.                            *)
LEMMA ResolveKeeps ==
    ASSUME RoutingInv, NEW r \in Request, Resolve(r) PROVE RoutingInv'
<1>1. /\ RanInv(r) /\ TargetInv(r) /\ InformedInv(r) /\ req[r] \in Work
      /\ req[r].pc = "resolve" /\ \A h \in Host : ~(Starting(h) /\ host[h].req = r)
  BY RequestKnown DEF Resolve, At
<1>2. /\ req[r].target = None /\ req[r].reply = None /\ executed[r] = 0
      /\ executed \in [Request -> Nat]
  BY <1>1 DEF RanInv, TargetInv, Early, RoutingInv, RoutingType
<1>3. UNCHANGED <<RequestVars, executed>> /\ Dropped
  BY DEF Resolve, RequestVars, deployVars, hostVars, Dropped
<1>4. CASE Goes(r, "generation")
  <2>1. PICK w \in Work :
          /\ req' = [req EXCEPT ![r] = w] /\ w.pc = "generation"
          /\ w.target = req[r].target /\ w.reply = req[r].reply
    BY <1>4, GoesType DEF Pc, Early
  <2> QED
    BY <1>1, <1>2, <1>3, <2>1, EarlyKeeps DEF Early, Informed
<1>5. CASE req' = [req EXCEPT ![r].pc = "sent", ![r].target = Current.host] /\ Current # None
  <2> DEFINE w == [req[r] EXCEPT !.pc = "sent", !.target = Current.host]
  <2>1. Current.host \in Host
    BY <1>5 DEF Current, Visible, RoutingInv, RoutingType, Route
  <2>2. req' = [req EXCEPT ![r] = w] /\ w \in Work
    BY <1>1, <1>5, <2>1 DEF Work, Pc
  <2>3. w.pc = "sent"
    BY <1>1 DEF Work
  <2> HIDE DEF w
  <2>4. /\ req' \in [Request -> Work] /\ req'[r].pc = "sent"
        /\ \A q \in Request \ {r} : req'[q] = req[q]
    BY <2>2, <2>3, Updated, Zenon
  <2>5. RanInv(r)' /\ TargetInv(r)' /\ InformedInv(r)'
    BY <1>2, <1>3, <2>4 DEF RanInv, TargetInv, InformedInv, Early, Informed
  <2>6. \A h \in Host : ~Uses(r, h)'
    BY <2>4 DEF Uses
  <2> QED
    BY <1>1, <1>2, <1>3, <2>4, <2>5, <2>6, RequestOnly, Zenon
<1> QED
  BY <1>4, <1>5 DEF Resolve

LEMMA CheckTargetKeeps ==
    ASSUME RoutingInv, NEW r \in Request, CheckTarget(r) PROVE RoutingInv'
<1>1. /\ RanInv(r) /\ TargetInv(r) /\ InformedInv(r) /\ req[r] \in Work
      /\ req[r].pc = "check" /\ \A h \in Host : ~(Starting(h) /\ host[h].req = r)
  BY RequestKnown DEF CheckTarget, At
<1>2. req[r].target = None /\ req[r].reply = None /\ executed[r] = 0
  BY <1>1 DEF RanInv, TargetInv, Early
<1>3. UNCHANGED <<RequestVars, executed>> /\ Dropped
  BY DEF CheckTarget, RequestVars, deployVars, hostVars, Dropped
<1>4. ASSUME NEW pc \in {"ready", "wait", "launch"}, Goes(r, pc),
             pc = "ready" => \E late \in BOOLEAN : Usable(req[r].cur, req[r].config, late)
      PROVE  RoutingInv'
  <2>1. PICK w \in Work :
          /\ req' = [req EXCEPT ![r] = w] /\ w.pc = pc
          /\ w.gen = req[r].gen /\ w.config = req[r].config /\ w.cur = req[r].cur
          /\ w.target = req[r].target /\ w.reply = req[r].reply
    BY <1>4, GoesType DEF Pc, Early
  <2> QED
    BY <1>1, <1>2, <1>3, <1>4, <2>1, EarlyKeeps DEF Early, Informed, Usable
<1>5. CASE Answers(r, "unavailable")
  BY <1>1, <1>2, <1>3, <1>5, AnswerKeeps DEF Answer
<1>6. PICK late \in BOOLEAN, known \in BOOLEAN :
        IF Usable(req[r].cur, req[r].config, late)
        THEN Goes(r, IF known THEN "wait" ELSE "ready")
        ELSE IF req[r].again THEN Answers(r, "unavailable") ELSE Goes(r, "launch")
  <2>1. Expired(req[r].cur) \subseteq BOOLEAN /\ {FALSE, ShuttingDown(req[r].cur)} \subseteq BOOLEAN
    BY Zenon DEF Expired, ShuttingDown
  <2> QED
    BY <2>1, Zenon DEF CheckTarget
<1> QED
  BY <1>4, <1>5, <1>6

(* The owner is ready, or not waited for.                                  *)
LEMMA WaitReadyKeeps ==
    ASSUME RoutingInv, NEW r \in Request, WaitReady(r) PROVE RoutingInv'
<1>1. /\ RanInv(r) /\ TargetInv(r) /\ InformedInv(r) /\ req[r] \in Work
      /\ req[r].pc = "ready" /\ \A h \in Host : ~(Starting(h) /\ host[h].req = r)
  BY RequestKnown DEF WaitReady, At
<1>2. /\ req[r].reply = None /\ executed[r] = 0 /\ executed \in [Request -> Nat]
      /\ req[r].cur \in Host /\ req[r].cur # None /\ host[req[r].cur].epoch > 0
      /\ host[req[r].cur].config = req[r].config
  BY <1>1 DEF RanInv, TargetInv, Early, RoutingInv, RoutingType, Work
<1>3. UNCHANGED <<RequestVars, executed>> /\ Dropped
  BY DEF WaitReady, RequestVars, deployVars, hostVars, Dropped
<1>4. CASE Answers(r, "unavailable")
  BY <1>1, <1>2, <1>3, <1>4, AnswerKeeps DEF Answer
<1>5. CASE req' = [req EXCEPT ![r].pc = "remember", ![r].target = req[r].cur]
  <2> DEFINE w == [req[r] EXCEPT !.pc = "remember", !.target = req[r].cur]
  <2>1. req' = [req EXCEPT ![r] = w] /\ w \in Work
    BY <1>1, <1>2, <1>5 DEF Work, Pc
  <2>2. /\ w.pc = "remember" /\ w.target = req[r].cur /\ w.config = req[r].config
        /\ w.gen = req[r].gen /\ w.reply = None
    BY <1>1, <1>2 DEF Work
  <2> HIDE DEF w
  <2>3. /\ req' \in [Request -> Work] /\ req'[r] = w
        /\ \A q \in Request \ {r} : req'[q] = req[q]
    BY <2>1, Updated, Zenon
  <2>4. /\ host' = host /\ gen' = gen /\ op' = op /\ spec' = spec /\ stopped' = stopped /\ missed' = missed
        /\ executed' = executed
    BY <1>3, Zenon DEF RequestVars
  <2>5. RanInv(r)'
    BY <1>2, <2>2, <2>3, <2>4, NoWord DEF RanInv, Early
  <2>6. TargetInv(r)'
    <3>1. host[req[r].cur].phase # "unused"
      BY <1>2, HostUsed, Zenon
    <3> QED
      BY <1>2, <2>2, <2>3, <2>4, <3>1 DEF TargetInv, Early
  <2>7. InformedInv(r)'
    BY <1>1, <2>2, <2>3, <2>4 DEF InformedInv, Informed, Changing
  <2>8. \A h \in Host : Uses(r, h)' => Uses(r, h)
    BY <1>1, <2>2, <2>3 DEF Uses
  <2> QED
    BY <1>1, <1>2, <1>3, <2>3, <2>5, <2>6, <2>7, <2>8, RequestOnly, Zenon
<1> QED
  BY <1>4, <1>5 DEF WaitReady

(* The wait for a shutdown ends; a launch fails.                           *)
LEMMA GivingUpKeeps ==
    ASSUME RoutingInv, NEW r \in Request,
           ShutdownOver(r) \/ ShutdownTimesOut(r) \/ LaunchFails(r)
    PROVE  RoutingInv'
<1>1. /\ RanInv(r) /\ TargetInv(r) /\ InformedInv(r) /\ req[r] \in Work
      /\ req[r].pc \in {"wait", "launch"}
      /\ \A h \in Host : ~(Starting(h) /\ host[h].req = r)
  BY RequestKnown DEF ShutdownOver, ShutdownTimesOut, LaunchFails, At
<1>2. req[r].target = None /\ req[r].reply = None /\ executed[r] = 0
  BY <1>1 DEF RanInv, TargetInv, Early
<1>3. UNCHANGED <<RequestVars, executed>> /\ Dropped
  BY DEF ShutdownOver, ShutdownTimesOut, LaunchFails, RequestVars, deployVars, hostVars, Dropped
<1>4. ASSUME NEW pc \in {"generation", "relaunch"}, Goes(r, pc)
      PROVE  RoutingInv'
  <2>1. PICK w \in Work :
          /\ req' = [req EXCEPT ![r] = w] /\ w.pc = pc
          /\ w.gen = req[r].gen /\ w.config = req[r].config /\ w.cur = req[r].cur
          /\ w.target = req[r].target /\ w.reply = req[r].reply
    BY <1>4, GoesType DEF Pc, Early
  <2> QED
    BY <1>1, <1>2, <1>3, <1>4, <2>1, EarlyKeeps DEF Early, Informed
<1>5. ASSUME NEW a \in {"unavailable", "refused"}, Answers(r, a) PROVE RoutingInv'
  BY <1>1, <1>2, <1>3, <1>5, AnswerKeeps DEF Answer
<1> QED
  BY <1>4, <1>5 DEF ShutdownOver, ShutdownTimesOut, LaunchFails

(* An assignment: the host that may run the request is its target.         *)
LEMMA AssignKnown ==
    ASSUME RoutingInv, NEW r \in Request, At(r, "assign")
    PROVE  /\ RanInv(r) /\ TargetInv(r) /\ InformedInv(r) /\ req[r] \in Work
           /\ req[r].pc = "assign" /\ req[r].reply = None /\ req[r].target \in Host
           /\ \A h \in Host : Starting(h) /\ host[h].req = r => h = req[r].target /\ r \notin Alarm
<1>1. /\ RanInv(r) /\ TargetInv(r) /\ InformedInv(r) /\ req[r] \in Work /\ r # None
      /\ req[r].pc = "assign"
  BY RequestKnown, Zenon DEF At
<1>2. req[r].reply = None /\ req[r].target \in Host
  BY <1>1 DEF RanInv, TargetInv, Work
<1>3. ASSUME NEW h \in Host, Starting(h), host[h].req = r
      PROVE  h = req[r].target /\ r \notin Alarm
  <2>1. h = req[r].target
    BY <1>1, <1>3 DEF RoutingInv, HostInv
  <2> QED
    BY <1>1, <1>3, <2>1 DEF RanInv
<1> QED
  BY <1>1, <1>2, <1>3, Zenon

(* Back to the regions, when it is certain that the request did not run.   *)
LEMMA RelaunchAgain ==
    ASSUME RoutingInv, NEW r \in Request, At(r, "assign"), Goes(r, "relaunch"),
           executed[r] = 0, \A h \in Host : ~(Starting(h) /\ host[h].req = r),
           UNCHANGED <<RequestVars, executed>> /\ Dropped
    PROVE  RoutingInv'
<1>1. PICK w \in Work :
        /\ req' = [req EXCEPT ![r] = w] /\ w.pc = "relaunch"
        /\ w.gen = req[r].gen /\ w.config = req[r].config /\ w.cur = req[r].cur
        /\ w.target = req[r].target /\ w.reply = req[r].reply
  BY GoesType DEF Pc
<1>2. req[r].pc = "assign" /\ req[r].reply = None
  BY AssignKnown, Zenon
<1> QED
  BY <1>1, <1>2, EarlyKeeps DEF Early, Informed

LEMMA UnconfirmedKeeps ==
    ASSUME RoutingInv, NEW r \in Request, At(r, "assign"), Unconfirmed(r),
           UNCHANGED <<RequestVars, executed>> /\ Dropped
    PROVE  RoutingInv'
<1>1. CASE r \in Alarm
  <2>1. executed[r] = 0 /\ \A h \in Host : ~(Starting(h) /\ host[h].req = r)
    BY <1>1, AssignKnown DEF RanInv, Declines
  <2> QED
    BY <1>1, <2>1, RelaunchAgain DEF Unconfirmed
<1>2. CASE r \notin Alarm
  <2>1. req[r].pc \notin Answer /\ "unknown" \in Answer /\ Answers(r, "unknown")
    BY <1>2 DEF At, Answer, Unconfirmed
  <2> QED
    BY <2>1, AnswerKeeps
<1> QED
  BY <1>1, <1>2

LEMMA AssignedKeeps ==
    ASSUME RoutingInv, NEW r \in Request, Assigned(r) PROVE RoutingInv'
<1> DEFINE h == req[r].target
<1>1. /\ RanInv(r) /\ TargetInv(r) /\ InformedInv(r) /\ req[r] \in Work /\ At(r, "assign")
      /\ req[r].pc = "assign" /\ req[r].reply = None /\ h \in Host
      /\ \A k \in Host : Starting(k) /\ host[k].req = r => k = h
  BY AssignKnown DEF Assigned
<1>2. UNCHANGED <<RequestVars, executed>> /\ Dropped
  BY DEF Assigned, GivenUp, RequestVars, deployVars, Dropped
<1>3. CASE Unconfirmed(r)
  BY <1>1, <1>2, <1>3, UnconfirmedKeeps, Zenon
<1>4. CASE req' = [req EXCEPT ![r].pc = "remember", ![r].reply = host[h].outcome]
  <2> DEFINE w == [req[r] EXCEPT !.pc = "remember", !.reply = host[h].outcome]
  <2>1. host[h].reply = "ready" /\ host[h].outcome \in Outcome
    BY <1>1 DEF Assigned, RoutingInv, RoutingType, Machine
  <2>2. req' = [req EXCEPT ![r] = w] /\ w \in Work
    BY <1>1, <1>4, <2>1 DEF Work, Pc
  <2>3. /\ w.pc = "remember" /\ w.target = h /\ w.config = req[r].config
        /\ w.gen = req[r].gen /\ w.reply = host[h].outcome
    BY <1>1 DEF Work
  <2> HIDE DEF w
  <2>4. /\ req' \in [Request -> Work] /\ req'[r] = w
        /\ \A q \in Request \ {r} : req'[q] = req[q]
    BY <2>2, Updated, Zenon
  <2>5. /\ host' = host /\ gen' = gen /\ op' = op /\ spec' = spec /\ stopped' = stopped /\ missed' = missed
        /\ executed' = executed /\ executed \in [Request -> Nat]
    BY <1>2, Zenon DEF RequestVars, RoutingInv, RoutingType
  <2>6. HostInv(h) /\ host[h].epoch > 0 /\ ~Starting(h)
    BY <1>1, <2>1 DEF RoutingInv, HostInv, Starting
  <2>7. RanInv(r)'
    <3>1. executed[r] = IF host[h].outcome = "completed" THEN 1 ELSE 0
      BY <1>1, <2>1 DEF RanInv, Declines
    <3>2. executed[r] <= 1
      BY <1>1 DEF RanInv
    <3> QED
      BY <2>3, <2>4, <2>5, <3>1, <3>2 DEF RanInv, Early
  <2>8. TargetInv(r)'
    BY <1>1, <2>3, <2>4, <2>5, <2>6 DEF TargetInv, Early
  <2>9. InformedInv(r)'
    BY <1>1, <2>3, <2>4, <2>5 DEF InformedInv, Informed, Changing
  <2>10. \A k \in Host : Uses(r, k)' => Uses(r, k)
    BY <1>1, <2>3, <2>4 DEF Uses
  <2> QED
    BY <1>1, <1>2, <2>4, <2>5, <2>6, <2>7, <2>8, <2>9, <2>10, RequestOnly, Zenon
<1> QED
  BY <1>3, <1>4 DEF Assigned

LEMMA NotAssignedKeeps ==
    ASSUME RoutingInv, NEW r \in Request, Declined(r) \/ AssignmentLost(r) PROVE RoutingInv'
<1>1. UNCHANGED <<RequestVars, executed>> /\ Dropped
  BY DEF Declined, AssignmentLost, GivenUp, RequestVars, deployVars, Dropped
<1>2. CASE AssignmentLost(r)
  BY <1>1, <1>2, UnconfirmedKeeps DEF AssignmentLost
<1>3. CASE Declined(r)
  <2>1. /\ At(r, "assign") /\ Goes(r, "relaunch") /\ RanInv(r) /\ req[r].pc = "assign"
        /\ req[r].target \in Host /\ host[req[r].target].reply = "declined"
        /\ \A h \in Host : Starting(h) /\ host[h].req = r => h = req[r].target
    BY <1>3, AssignKnown DEF Declined
  <2>2. executed[r] = 0 /\ ~Starting(req[r].target)
    BY <2>1 DEF RanInv, Declines, RoutingInv, HostInv, Starting
  <2> QED
    BY <1>1, <2>1, <2>2, RelaunchAgain
<1> QED
  BY <1>2, <1>3

LEMMA RelaunchKeeps ==
    ASSUME RoutingInv, NEW r \in Request, Relaunch(r) PROVE RoutingInv'
<1>1. /\ RanInv(r) /\ InformedInv(r) /\ req[r] \in Work
      /\ req[r].pc = "relaunch" /\ \A h \in Host : ~(Starting(h) /\ host[h].req = r)
  BY RequestKnown DEF Relaunch, At
<1>2. req[r].reply = None /\ executed[r] = 0 /\ Placement \in Host \cup {None}
  BY <1>1 DEF RanInv, Placement, RoutingInv, RoutingType, Lease
<1>3. UNCHANGED <<RequestVars, executed>> /\ Dropped
  BY DEF Relaunch, RequestVars, deployVars, hostVars, Dropped
<1>4. CASE Answers(r, "unavailable")
  BY <1>1, <1>2, <1>3, <1>4, AnswerKeeps DEF Answer
<1>5. CASE req' = [req EXCEPT ![r].pc = "check", ![r].cur = Placement,
                             ![r].again = TRUE, ![r].target = None]
  <2> DEFINE w == [req[r] EXCEPT !.pc = "check", !.cur = Placement, !.again = TRUE, !.target = None]
  <2>1. req' = [req EXCEPT ![r] = w]
    BY <1>5
  <2>2. w \in Work
    <3>1. "check" \in Pc
      BY DEF Pc, Early
    <3> QED
      BY <1>1, <1>2, <3>1 DEF Work
  <2>3. /\ w.pc = "check" /\ w.cur = Placement /\ w.target = None /\ w.gen = req[r].gen
        /\ w.config = req[r].config /\ w.reply = None
    BY <1>1, <1>2 DEF Work
  <2> HIDE DEF w
  <2> QED
    BY <1>1, <1>2, <1>3, <2>1, <2>2, <2>3, EarlyKeeps DEF Early, Informed
<1>6. CASE /\ req[r].regions > 1
           /\ req' = [req EXCEPT ![r].pc = "launch", ![r].regions = @ - 1, ![r].target = None]
  <2> DEFINE w == [req[r] EXCEPT !.pc = "launch", !.regions = req[r].regions - 1, !.target = None]
  <2>0. req[r].regions - 1 \in Nat
    BY <1>1, <1>6 DEF Work
  <2>1. req' = [req EXCEPT ![r] = w] /\ w \in Work
    BY <1>1, <1>6, <2>0 DEF Work, Pc, Early
  <2>2. /\ w.pc = "launch" /\ w.target = None /\ w.gen = req[r].gen
        /\ w.config = req[r].config /\ w.reply = None
    BY <1>1, <1>2 DEF Work
  <2> HIDE DEF w
  <2> QED
    BY <1>1, <1>2, <1>3, <2>1, <2>2, EarlyKeeps DEF Early, Informed
<1> QED
  BY <1>4, <1>5, <1>6 DEF Relaunch

(* An answer, or a refusal.                                                *)
LEMMA RepliedKeeps ==
    ASSUME RoutingInv, NEW r \in Request, Handle(r) \/ NotReached(r) PROVE RoutingInv'
<1>1. /\ RanInv(r) /\ req[r] \in Work /\ req[r].pc = "sent"
      /\ \A h \in Host : ~(Starting(h) /\ host[h].req = r)
  BY RequestKnown DEF Handle, NotReached, At
<1>2. executed[r] = 0 /\ executed \in [Request -> Nat]
  BY <1>1 DEF RanInv, RoutingInv, RoutingType
<1>3. UNCHANGED RequestVars /\ Dropped
  BY DEF Handle, NotReached, RequestVars, deployVars, hostVars, Dropped
<1>4. PICK reply \in {"completed", "not_executed"} :
        /\ req' = [req EXCEPT ![r].pc = "replied", ![r].reply = reply]
        /\ executed' = IF reply = "completed" THEN [executed EXCEPT ![r] = @ + 1] ELSE executed
  BY DEF Handle, NotReached
<1> DEFINE w == [req[r] EXCEPT !.pc = "replied", !.reply = reply]
<1>5. req' = [req EXCEPT ![r] = w] /\ w \in Work
  BY <1>1, <1>4 DEF Work, Pc, Outcome
<1>6. w.pc = "replied" /\ w.reply = reply
  BY <1>1 DEF Work
<1> HIDE DEF w
<1>7. /\ req' \in [Request -> Work] /\ req'[r] = w
      /\ \A q \in Request \ {r} : req'[q] = req[q]
  BY <1>5, Updated, Zenon
<1>8. /\ executed' \in [Request -> Nat]
      /\ \A q \in Request \ {r} : executed'[q] = executed[q]
      /\ executed'[r] = IF reply = "completed" THEN 1 ELSE 0
  BY <1>2, <1>4
<1>9. RanInv(r)' /\ TargetInv(r)' /\ InformedInv(r)'
  <2>1. RanInv(r)'
    <3>1. /\ req'[r].pc = "replied" /\ req'[r].reply # None
          /\ executed'[r] = IF req'[r].reply = "completed" THEN 1 ELSE 0
      BY <1>4, <1>6, <1>7, <1>8, NoWord, Zenon
    <3> QED
      BY <3>1, RanReplied, Zenon
  <2>2. TargetInv(r)' /\ InformedInv(r)'
    BY <1>6, <1>7 DEF TargetInv, InformedInv, Early, Informed
  <2> QED
    BY <2>1, <2>2
<1>10. \A h \in Host : ~Uses(r, h)'
  BY <1>6, <1>7 DEF Uses
<1> QED
  BY <1>1, <1>3, <1>7, <1>8, <1>9, <1>10, RequestOnly, Zenon

LEMMA LostOrSettledKeeps ==
    ASSUME RoutingInv, NEW r \in Request, ReplyLost(r) \/ Settle(r) PROVE RoutingInv'
<1>1. /\ RanInv(r) /\ req[r] \in Work /\ req[r].pc \in {"sent", "replied"}
      /\ \A h \in Host : ~(Starting(h) /\ host[h].req = r)
  BY RequestKnown DEF ReplyLost, Settle, At
<1>2. UNCHANGED <<RequestVars, executed>> /\ Dropped
  BY DEF ReplyLost, Settle, RequestVars, deployVars, hostVars, Removed, Dropped
<1>3. CASE Answers(r, "unknown")
  BY <1>1, <1>2, <1>3, AnswerKeeps DEF Answer
<1>4. CASE req[r].pc = "replied" /\ Answers(r, req[r].reply)
  <2>1. \/ req[r].reply = "completed" /\ executed[r] = 1
        \/ req[r].reply = "not_executed" /\ executed[r] = 0
    BY <1>1, <1>4 DEF RanInv, Work, Outcome
  <2> QED
    BY <1>1, <1>2, <1>4, <2>1, AnswerKeeps DEF Answer
<1>5. CASE /\ req[r].pc = "replied" /\ req[r].reply = "not_executed" /\ req[r].retries > 0
           /\ req' = [req EXCEPT ![r] = [Fresh EXCEPT !.retries = req[r].retries - 1]]
  <2> DEFINE w == [Fresh EXCEPT !.retries = req[r].retries - 1]
  <2>1. req[r].retries - 1 \in Nat
    BY <1>1, <1>5 DEF Work
  <2>2. w \in Work
    BY <2>1 DEF Fresh, Work, Pc, Early, Outcome
  <2>3. w.pc = "resolve" /\ w.target = None /\ w.reply = None
    BY DEF Fresh
  <2>4. executed[r] = 0
    BY <1>1, <1>5 DEF RanInv
  <2> HIDE DEF w
  <2>5. req' = [req EXCEPT ![r] = w]
    BY <1>5 DEF w
  <2> QED
    BY <1>1, <1>2, <2>2, <2>3, <2>4, <2>5, EarlyKeeps DEF Early, Informed
<1> QED
  BY <1>3, <1>4, <1>5 DEF ReplyLost, Settle, At

(* A route is written in the generation it was found in, and no route to   *)
(* the owner replaces its shutdown.                                        *)
LEMMA Shutdowns == \A s \in {"draining", "stopped"} : ~(Rank("active") >= Rank(s))
  BY DEF Rank

LEMMA RememberKeeps ==
    ASSUME RoutingInv, NEW r \in Request, Remember(r) PROVE RoutingInv'
<1> DEFINE h == req[r].target
<1>1. /\ RanInv(r) /\ TargetInv(r) /\ InformedInv(r) /\ req[r] \in Work /\ gen \in Nat
      /\ req[r].pc = "remember" /\ \A k \in Host : ~(Starting(k) /\ host[k].req = r)
  BY RequestKnown DEF Remember, At
<1>2. /\ executed[r] = IF req[r].reply = "completed" THEN 1 ELSE 0
      /\ executed[r] <= 1 /\ executed \in [Request -> Nat]
      /\ h \in Host /\ host[h].epoch > 0 /\ host[h].config = req[r].config
      /\ req[r].gen # None
  BY <1>1 DEF RanInv, TargetInv, InformedInv, Informed, RoutingInv, RoutingType, Work
<1>3. UNCHANGED <<RequestVars, executed>>
  BY DEF Remember, RequestVars, deployVars, hostVars
<1>4. PICK w \in Work :
        /\ req' = [req EXCEPT ![r] = w]
        /\ w.pc = IF req[r].reply = None THEN "sent" ELSE "replied"
        /\ w.reply = req[r].reply
  BY GoesType DEF Remember, Pc
<1>5. /\ req' \in [Request -> Work] /\ req'[r] = w
      /\ \A q \in Request \ {r} : req'[q] = req[q]
  BY <1>4, Updated, Zenon
<1>6. RanInv(r)' /\ TargetInv(r)' /\ InformedInv(r)'
  <2>1. RanInv(r)'
    BY <1>2, <1>3, <1>4, <1>5, NoWord DEF RanInv, Early
  <2>2. TargetInv(r)' /\ InformedInv(r)'
    BY <1>4, <1>5 DEF TargetInv, InformedInv, Early, Informed
  <2> QED
    BY <2>1, <2>2
<1>7. \/ entry' = entry
      \/ /\ entry' = [state |-> "active", host |-> h, gen |-> gen]
         /\ req[r].gen = gen /\ ~(Visible(entry) /\ ~Supersedes("active", h, entry))
  BY <1>2, Zenon DEF Remember, Written
<1>8. [state |-> "active", host |-> h, gen |-> gen] \in Route /\ entry' \in Route \cup {None}
  <2>1. [state |-> "active", host |-> h, gen |-> gen] \in Route
    BY <1>1, <1>2, RouteOf, Zenon
  <2> QED
    BY <1>7, <2>1, Zenon DEF RoutingInv, RoutingType
<1>9. /\ RoutingType' /\ EpochInv'
      /\ \A q \in Request : RanInv(q)' /\ TargetInv(q)' /\ InformedInv(q)'
      /\ \A k \in Host : HostInv(k)'
  BY <1>1, <1>2, <1>3, <1>5, <1>6, <1>8, RequestFrame, Zenon
<1>10. RouteInv'
  <2>1. CASE entry' = entry
    BY <1>3, <2>1, Zenon DEF RoutingInv, RouteInv, Changing, RequestVars
  <2>2. CASE entry' = [state |-> "active", host |-> h, gen |-> gen] /\ req[r].gen = gen
    <3>1. (req[r].config = spec \/ Changing) /\ ~stopped
      BY <1>1, <2>2 DEF InformedInv, Informed
    <3>2. entry'.state = "active" /\ entry'.host = h /\ entry'.gen = gen /\ gen <= gen
      BY <1>1, <1>2, <2>2, RouteOf, Zenon
    <3>3. /\ host' = host /\ gen' = gen /\ op' = op /\ spec' = spec /\ stopped' = stopped /\ missed' = missed
          /\ access' = access /\ ~stopped'
      BY <1>3, <3>1, Zenon DEF RequestVars
    <3> QED
      BY <1>2, <3>1, <3>2, <3>3, Zenon DEF RouteInv, Changing
  <2> QED
    BY <1>7, <2>1, <2>2
<1>11. ShutdownInv'
  <2>1. SUFFICES ASSUME owner # None, owner.host \in reported PROVE ShutdownInv'
    BY <1>3, Zenon DEF ShutdownInv, RequestVars
  <2>2. owner' = owner /\ reported' = reported /\ owner.host \in Host
    BY <1>3, <2>1 DEF RequestVars, RoutingInv, RoutingType
  <2>3. \A q \in Request : Uses(q, owner.host)' => Uses(q, owner.host)
    BY <1>4, <1>5, <2>2 DEF Uses
  <2>4. CASE entry # None /\ entry.host = owner.host /\ entry.state # "active"
    <3>1. entry.state \in {"draining", "stopped"}
      BY <2>4 DEF RoutingInv, RoutingType, Route
    <3>2. h # owner.host => host[h].epoch < host[owner.host].epoch
      BY <1>2, <2>1 DEF RoutingInv, EpochInv
    <3>3. host[h].epoch \in Nat /\ host[owner.host].epoch \in Nat
      BY <1>2, <2>2 DEF RoutingInv, RoutingType, Machine
    <3>4. ~(host[h].epoch < host[owner.host].epoch) \/ ~(host[h].epoch > host[owner.host].epoch)
      BY <3>3
    <3>5. ~Supersedes("active", h, entry)
      BY <2>4, <3>1, <3>2, <3>4, Shutdowns, Zenon DEF Supersedes
    <3>6. entry' = entry
      BY <1>7, <2>4, <3>5, Zenon DEF Visible
    <3> QED
      BY <2>2, <2>4, <3>6, Zenon DEF ShutdownInv
  <2>5. CASE /\ owner.lease # "live"
             /\ \A q \in Request : ~Uses(q, owner.host)
             /\ entry # None => entry.host # owner.host
    <3>1. h # owner.host
      BY <1>1, <2>5 DEF Uses
    <3>2. entry' # None => entry'.host # owner.host
      <4>1. [state |-> "active", host |-> h, gen |-> gen].host = h
        BY <1>1, <1>2, RouteOf, Zenon
      <4> QED
        BY <1>7, <2>5, <3>1, <4>1, Zenon
    <3> QED
      BY <2>2, <2>3, <2>5, <3>2, Zenon DEF ShutdownInv
  <2> QED
    BY <2>1, <2>4, <2>5, Zenon DEF RoutingInv, ShutdownInv
<1> QED
  BY <1>9, <1>10, <1>11, Zenon DEF RoutingInv

(* A host is launched for a request that no host may run.                  *)
LEMMA LaunchHostKeeps ==
    ASSUME RoutingInv, NEW r \in Request, LaunchHost(r) PROVE RoutingInv'
<1>1. /\ RanInv(r) /\ InformedInv(r) /\ req[r] \in Work /\ r # None
      /\ req[r].pc = "launch" /\ \A k \in Host : ~(Starting(k) /\ host[k].req = r)
  BY RequestKnown DEF LaunchHost, At
<1>2. PICK h \in Host :
        /\ host[h] = Unused
        /\ host' = [host EXCEPT ![h] = [@ EXCEPT
              !.phase = "assigned", !.config = req[r].config,
              !.req = IF r \in Alarm THEN None ELSE r]]
        /\ req' = [req EXCEPT ![r].pc = "assign", ![r].target = h]
  BY Zenon DEF LaunchHost
<1>3. PICK m : m = [Unused EXCEPT !.phase = "assigned", !.config = req[r].config,
                                  !.req = IF r \in Alarm THEN None ELSE r]
  OBVIOUS
<1>4. /\ m \in Machine /\ m.phase = "assigned" /\ m.config = req[r].config /\ m.epoch = 0
      /\ m.req = (IF r \in Alarm THEN None ELSE r) /\ m.reply = None /\ m.outcome = None
  <2>1. req[r].config \in Config \cup {None}
    BY <1>1 DEF Work
  <2> QED
    BY <1>3, <2>1 DEF Unused, Machine, Outcome
<1>5. /\ host' \in [Host -> Machine] /\ host'[h] = m
      /\ \A k \in Host \ {h} : host'[k] = host[k]
  BY <1>2, <1>3, <1>4 DEF RoutingInv, RoutingType
<1>6. PICK w : w = [req[r] EXCEPT !.pc = "assign", !.target = h]
  OBVIOUS
<1>7. /\ w \in Work /\ w.pc = "assign" /\ w.target = h /\ w.config = req[r].config
      /\ w.gen = req[r].gen /\ w.reply = req[r].reply
  BY <1>1, <1>6 DEF Work, Pc
<1>8. /\ req' \in [Request -> Work] /\ req'[r] = w
      /\ \A q \in Request \ {r} : req'[q] = req[q]
  <2>1. req' = [req EXCEPT ![r] = w]
    BY <1>2, <1>6
  <2> QED
    BY <1>7, <2>1, Updated, Zenon
<1>9. host[h].phase = "unused" /\ host[h].epoch = 0 /\ h # None
  BY <1>2, RoutingConstants DEF Unused
<1>10. UNCHANGED <<regions, spec, access, op, gen, stopped, missed, owner, reports, reported, entry, executed>>
  BY DEF LaunchHost, deployVars
<1>11. RoutingType'
  BY <1>5, <1>8, <1>10, Zenon DEF RoutingInv, RoutingType
<1>12. ASSUME NEW q \in Request PROVE RanInv(q)' /\ TargetInv(q)' /\ InformedInv(q)'
  <2>1. CASE q = r
    <3>1. executed[r] = 0 /\ req[r].reply = None
      BY <1>1 DEF RanInv, Early
    <3>2. RanInv(r)'
      <4>1. /\ req'[r].pc = "assign" /\ req'[r].target = h /\ req'[r].reply = None
            /\ host'[h].req = (IF r \in Alarm THEN None ELSE r)
            /\ executed'[r] = 0 /\ host'[h].reply # "ready"
        BY <1>4, <1>5, <1>7, <1>8, <1>10, <3>1, NoWord, Zenon
      <4> QED
        BY <4>1, Once, RanAssigned, Zenon
    <3>3. TargetInv(r)'
      BY <1>4, <1>5, <1>7, <1>8, <1>9 DEF TargetInv, Early
    <3>4. InformedInv(r)'
      BY <1>1, <1>7, <1>8, <1>10 DEF InformedInv, Informed, Changing
    <3> QED
      BY <2>1, <3>2, <3>3, <3>4
  <2>2. CASE q # r
    <3>1. /\ req'[q] = req[q] /\ RanInv(q) /\ TargetInv(q) /\ InformedInv(q)
          /\ req[q].cur \in Host \cup {None} /\ req[q].target \in Host \cup {None}
      BY <1>8, <1>12, <2>2, RequestKnown DEF Work
    <3>2. /\ req[q].pc \in {"check", "ready"} /\ req[q].cur # None => req[q].cur \in Host \ {h}
          /\ req[q].pc \in {"assign", "remember"} => req[q].target \in Host \ {h}
      BY <1>9, <3>1, Counts, Zenon DEF TargetInv
    <3>3. RanInv(q)'
      BY <1>5, <1>10, <3>1, <3>2 DEF RanInv, Declines, Starting
    <3>4. TargetInv(q)'
      BY <1>5, <1>10, <3>1, <3>2 DEF TargetInv
    <3>5. InformedInv(q)'
      BY <1>10, <3>1 DEF InformedInv, Changing
    <3> QED
      BY <3>3, <3>4, <3>5
  <2> QED
    BY <2>1, <2>2
<1>13. ASSUME NEW k \in Host PROVE HostInv(k)'
  <2>1. CASE k = h
    <3>1. h \notin reported /\ ~(\E x \in reports : x[1] = h)
      BY <1>9 DEF RoutingInv, HostInv
    <3>2. executed[r] = 0
      BY <1>1 DEF RanInv, Early
    <3>3. \A j \in Host : Starting(j)' /\ host'[j].req = r => j = h
      BY <1>1, <1>5, Zenon DEF Starting
    <3>4. m.req # None => m.req = r
      BY <1>4
    <3> QED
      BY <1>4, <1>5, <1>7, <1>8, <1>10, <2>1, <3>1, <3>2, <3>3, <3>4, NoWord
      DEF HostInv, Starting
  <2>2. CASE k # h
    <3>1. HostInv(k) /\ host'[k] = host[k] /\ reports' = reports /\ reported' = reported
      BY <1>5, <1>10, <1>13, <2>2, Zenon DEF RoutingInv
    <3>2. ASSUME Starting(k), host[k].req # None
          PROVE  /\ executed'[host[k].req] = 0 /\ host[k].req \in Request \ {r}
                 /\ req'[host[k].req] = req[host[k].req]
      <4>1. host[k].req # r /\ host[k].req \in Request
        BY <1>1, <1>13, <3>2 DEF RoutingInv, RoutingType, Machine
      <4> QED
        BY <1>8, <1>10, <3>1, <3>2, <4>1, Zenon DEF HostInv
    <3>3. ASSUME NEW j \in Host, Starting(k), host[k].req # None,
                 Starting(j)', host'[j].req = host[k].req
          PROVE  j = k
      <4>1. j # h
        BY <1>4, <1>5, <3>2, <3>3
      <4> QED
        BY <1>5, <3>1, <3>3, <4>1, Zenon DEF HostInv, Starting
    <3> QED
      BY <3>1, <3>2, <3>3, Zenon DEF HostInv, Starting
  <2> QED
    BY <2>1, <2>2
<1>14. \A k \in Host : host'[k].epoch = host[k].epoch
  BY <1>4, <1>5, <1>9
<1>15. EpochInv'
  <2>1. {j \in Host : host'[j].epoch > 0} = {j \in Host : host[j].epoch > 0}
    BY <1>14
  <2>2. owner # None => owner.host \in Host
    BY DEF RoutingInv, RoutingType, Lease
  <2> QED
    BY <1>10, <1>14, <2>1, <2>2, Zenon DEF RoutingInv, EpochInv
<1>16. RouteInv'
  <2>1. entry # None => entry.host \in Host \ {h}
    BY <1>9 DEF RoutingInv, RoutingType, RouteInv, Route
  <2> QED
    BY <1>5, <1>10, <2>1, Zenon DEF RoutingInv, RouteInv, Changing
<1>17. ShutdownInv'
  <2>1. owner # None => owner.host \in Host \ {h}
    <3>1. owner # None => owner.host \in Host /\ host[owner.host].epoch > 0
      BY OwnerUsed, Zenon
    <3> QED
      BY <1>9, <3>1, Counts, Zenon
  <2>2. ASSUME NEW k \in Host \ {h}, NEW q \in Request, Uses(q, k)' PROVE Uses(q, k)
    BY <1>7, <1>8, <2>2 DEF Uses
  <2> QED
    BY <1>10, <2>1, <2>2, Zenon DEF RoutingInv, ShutdownInv
<1> QED
  BY <1>11, <1>12, <1>13, <1>15, <1>16, <1>17, Zenon DEF RoutingInv

LEMMA RequestStepKeeps ==
    ASSUME RoutingInv, NEW r \in Request, RequestStep(r) PROVE RoutingInv'
  BY FirstStepsKeep, ResolveKeeps, CheckTargetKeeps, WaitReadyKeeps, GivingUpKeeps,
     AssignedKeeps, NotAssignedKeeps, RelaunchKeeps, RepliedKeeps, LostOrSettledKeeps,
     RememberKeeps, LaunchHostKeeps, Zenon
  DEF RequestStep

-----------------------------------------------------------------------------
(* The hosts.                                                              *)

HostFixed == <<regions, spec, access, op, gen, stopped, missed, entry, reported, req>>

(* A host that starts no more: its configuration and its epoch stay, the   *)
(* lease is at most given up, and only its own request is run.             *)
LEMMA HostFrame ==
    ASSUME RoutingInv, NEW h \in Host, NEW m \in Machine, host' = [host EXCEPT ![h] = m],
           host[h].phase # "unused", m.phase \notin {"unused", "assigned", "active"},
           m.config = host[h].config, m.req = host[h].req, m.epoch = host[h].epoch,
           UNCHANGED HostFixed,
           \/ owner' = owner
           \/ /\ owner # None /\ owner' \in Lease
              /\ owner'.host = owner.host /\ owner'.lease # "live",
           reports' \subseteq Host \X {"draining", "stopped"},
           \A x \in reports' : x \in reports \/ x[1] = h,
           executed' \in [Request -> Nat],
           \A q \in Request : q # host[h].req => executed'[q] = executed[q],
           executed' # executed => Starting(h),
           \A q \in Request : RanInv(q)',
           HostInv(h)'
    PROVE  RoutingInv'
<1>1. /\ host' \in [Host -> Machine] /\ host'[h] = m
      /\ \A k \in Host \ {h} : host'[k] = host[k]
  BY Zenon DEF RoutingInv, RoutingType
<1>2. \A k \in Host : /\ host'[k].config = host[k].config /\ host'[k].epoch = host[k].epoch
                      /\ host[k].phase # "unused" => host'[k].phase # "unused"
  BY <1>1
<1>3. RoutingType'
  BY <1>1, Zenon DEF RoutingInv, RoutingType, HostFixed
<1>4. ASSUME NEW q \in Request PROVE TargetInv(q)' /\ InformedInv(q)'
  <2>1. /\ TargetInv(q) /\ InformedInv(q) /\ req[q].cur \in Host \cup {None}
        /\ req[q].target \in Host \cup {None} /\ req'[q] = req[q]
    BY <1>4, RequestKnown DEF Work, HostFixed
  <2>2. TargetInv(q)'
    <3>1. req[q].cur # None =>
            /\ host'[req[q].cur].epoch = host[req[q].cur].epoch
            /\ host'[req[q].cur].config = host[req[q].cur].config
      BY <1>2, <2>1, Zenon
    <3>2. req[q].target # None =>
            /\ host'[req[q].target].epoch = host[req[q].target].epoch
            /\ host'[req[q].target].config = host[req[q].target].config
            /\ host[req[q].target].phase # "unused" => host'[req[q].target].phase # "unused"
      BY <1>2, <2>1, Zenon
    <3> QED
      BY <2>1, <3>1, <3>2, ZenonT(30) DEF TargetInv
  <2>3. InformedInv(q)'
    BY <2>1, Zenon DEF InformedInv, Changing, HostFixed
  <2> QED
    BY <2>2, <2>3
<1>5. ASSUME NEW k \in Host, k # h PROVE HostInv(k)'
  <2>1. HostInv(k) /\ host'[k] = host[k] /\ reported' = reported /\ req' = req
    BY <1>1, <1>5, Zenon DEF RoutingInv, HostFixed
  <2>2. (\E x \in reports' : x[1] = k) => (\E x \in reports : x[1] = k)
    BY <1>5, Zenon
  <2>3. ASSUME Starting(k), host[k].req # None PROVE executed'[host[k].req] = 0
    <3>1. host[k].req \in Request /\ executed[host[k].req] = 0
      BY <1>5, <2>1, <2>3 DEF HostInv, RoutingInv, RoutingType, Machine
    <3>2. CASE executed' = executed
      BY <3>1, <3>2
    <3>3. CASE Starting(h)
      BY <1>5, <2>1, <2>3, <3>1, <3>3, Zenon DEF HostInv
    <3> QED
      BY <3>2, <3>3
  <2>4. \A j \in Host : Starting(j)' => Starting(j) /\ host'[j] = host[j]
    BY <1>1 DEF Starting
  <2> QED
    BY <1>5, <2>1, <2>2, <2>3, <2>4, ZenonT(60) DEF HostInv
<1>6. EpochInv'
  <2>1. {j \in Host : host'[j].epoch > 0} = {j \in Host : host[j].epoch > 0}
    BY <1>2
  <2>2. owner # None => owner.host \in Host
    BY DEF RoutingInv, RoutingType, Lease
  <2>3. /\ owner' # None => owner # None /\ owner'.host = owner.host
        /\ owner # None => owner' # None
    BY NoneIsNothing
  <2> QED
    BY <1>2, <2>1, <2>2, <2>3, Zenon DEF RoutingInv, EpochInv
<1>7. RouteInv'
  <2>1. entry # None => entry.host \in Host
    BY DEF RoutingInv, RoutingType, Route
  <2> QED
    BY <1>2, <2>1, Zenon DEF RoutingInv, RouteInv, Changing, HostFixed
<1>8. ShutdownInv'
  <2>1. owner' # None => /\ owner # None /\ owner'.host = owner.host
                         /\ owner.lease # "live" => owner'.lease # "live"
    BY Zenon
  <2> QED
    BY <2>1, Zenon DEF RoutingInv, ShutdownInv, Uses, HostFixed
<1> QED
  BY <1>3, <1>4, <1>5, <1>6, <1>7, <1>8, Zenon DEF RoutingInv

(* What the invariant says of one host.                                    *)
LEMMA HostKnown ==
    ASSUME RoutingInv, NEW h \in Host
    PROVE  /\ HostInv(h) /\ host[h] \in Machine /\ h # None
           /\ reports \subseteq Host \X {"draining", "stopped"}
           /\ executed \in [Request -> Nat] /\ owner \in Lease \cup {None}
           /\ host[h].req # None => host[h].req \in Request
           /\ Starting(h) => host[h].reply = None /\ host[h].outcome = None
<1>1. /\ HostInv(h) /\ host[h] \in Machine /\ reports \subseteq Host \X {"draining", "stopped"}
      /\ executed \in [Request -> Nat] /\ owner \in Lease \cup {None}
  BY Zenon DEF RoutingInv, RoutingType
<1>2. h # None
  BY RoutingConstants
<1>3. host[h].req # None => host[h].req \in Request
  BY <1>1 DEF Machine
<1>4. Starting(h) => host[h].reply = None /\ host[h].outcome = None
  BY <1>1 DEF HostInv, Machine, Starting
<1> QED
  BY <1>1, <1>2, <1>3, <1>4

(* The lease is given up, or not.                                          *)
LEMMA Release ==
    ASSUME RoutingInv, NEW h \in Host,
           owner' \in {owner, IF Owns(h) THEN [owner EXCEPT !.lease = "released"] ELSE owner}
    PROVE  \/ owner' = owner
           \/ /\ owner # None /\ owner' \in Lease
              /\ owner'.host = owner.host /\ owner'.lease # "live"
<1>1. owner \in Lease \cup {None}
  BY Zenon DEF RoutingInv, RoutingType
<1>2. CASE owner' = owner
  BY <1>2
<1>3. CASE Owns(h) /\ owner' = [owner EXCEPT !.lease = "released"]
  <2>1. owner # None /\ owner \in Lease
    BY <1>1, <1>3 DEF Owns
  <2> QED
    BY <1>3, <2>1 DEF Lease
<1> QED
  BY <1>2, <1>3

(* A host drains, stops or dies.                                           *)
LEMMA EndKeeps ==
    ASSUME RoutingInv, NEW h \in Host, Drain(h) \/ Stop(h) \/ Die(h) PROVE RoutingInv'
<1>1. /\ HostInv(h) /\ host[h] \in Machine
      /\ reports \subseteq Host \X {"draining", "stopped"} /\ executed \in [Request -> Nat]
  BY HostKnown, Zenon
<1>2. PICK phase \in {"draining", "stopped", "dead"} :
        /\ host' = [host EXCEPT ![h].phase = phase]
        /\ reports' = IF phase = "dead" THEN reports ELSE reports \cup {<<h, phase>>}
        /\ phase = "draining" => host[h].phase = "serving"
        /\ phase = "stopped" => host[h].phase = "draining"
        /\ phase = "dead" => host[h].phase \notin {"unused", "dead", "stopped"}
  BY DEF Drain, Stop, Die
<1>3. PICK m : m = [host[h] EXCEPT !.phase = phase]
  OBVIOUS
<1>4. /\ m \in Machine /\ m.phase = phase /\ m.config = host[h].config /\ m.req = host[h].req
      /\ m.epoch = host[h].epoch /\ m.reply = host[h].reply /\ m.outcome = host[h].outcome
  BY <1>1, <1>3 DEF Machine
<1>5. host' = [host EXCEPT ![h] = m]
  BY <1>2, <1>3
<1>6. host'[h] = m /\ \A k \in Host \ {h} : host'[k] = host[k]
  BY <1>5, Zenon DEF RoutingInv, RoutingType
<1>7. UNCHANGED HostFixed /\ executed' = executed
  BY DEF Drain, Stop, Die, HostFixed, deployVars
<1>8. \/ owner' = owner
      \/ /\ owner # None /\ owner' \in Lease
         /\ owner'.host = owner.host /\ owner'.lease # "live"
  BY Release DEF Drain, Stop, Die
<1>9. /\ reports' \subseteq Host \X {"draining", "stopped"}
      /\ \A x \in reports' : x \in reports \/ x[1] = h
      /\ host[h].phase # "unused" /\ m.phase \notin {"unused", "assigned", "active"}
  BY <1>1, <1>2, <1>4
<1>10. ASSUME NEW q \in Request PROVE RanInv(q)'
  <2>1. RanInv(q) /\ req' = req /\ (req[q].pc = "assign" => req[q].target \in Host)
    BY <1>7, <1>10, RequestKnown DEF HostFixed, TargetInv, Work
  <2>2. \A k \in Host : /\ host'[k].req = host[k].req /\ host'[k].reply = host[k].reply
                        /\ host'[k].outcome = host[k].outcome
                        /\ Starting(k)' => Starting(k)
    BY <1>4, <1>6, <1>9 DEF Starting
  <2> QED
    BY <1>7, <2>1, <2>2, Zenon DEF RanInv, Declines
<1>11. HostInv(h)'
  <2>1. /\ ~Starting(h)' /\ m.phase \in {"draining", "stopped", "dead"}
        /\ m.phase \in {"draining", "stopped"} => m.epoch > 0
    BY <1>1, <1>2, <1>4, <1>6 DEF HostInv, Starting
  <2>2. m.reply = "declined" => m.phase = "dead"
    BY <1>1, <1>2, <1>4 DEF HostInv
  <2>3. h \in reported \/ (\E x \in reports' : x[1] = h) => m.epoch > 0
    BY <1>1, <1>2, <1>4, <2>1 DEF HostInv
  <2> QED
    BY <1>1, <1>4, <1>6, <1>7, <2>1, <2>2, <2>3 DEF HostInv, HostFixed
<1> QED
  BY <1>1, <1>4, <1>5, <1>7, <1>8, <1>9, <1>10, <1>11, HostFrame

(* A start fails before the operation, or the operation runs or is         *)
(* refused.                                                                *)
LEMMA StartKeeps ==
    ASSUME RoutingInv, NEW h \in Host, NEW m \in Machine, host' = [host EXCEPT ![h] = m],
           Starting(h), m.phase \in {"serving", "dead"}, m.phase = "serving" => host[h].epoch > 0,
           m.config = host[h].config, m.req = host[h].req, m.epoch = host[h].epoch,
           UNCHANGED <<HostFixed, reports>>,
           \/ owner' = owner
           \/ /\ owner # None /\ owner' \in Lease
              /\ owner'.host = owner.host /\ owner'.lease # "live",
           executed' \in [Request -> Nat],
           \A q \in Request : q # host[h].req => executed'[q] = executed[q],
           host[h].req \in Request =>
             executed'[host[h].req] \in {executed[host[h].req], executed[host[h].req] + 1},
           m.reply = "ready" => host[h].epoch > 0, m.reply = "declined" => m.phase = "dead",
           m.outcome # None => m.reply = "ready",
           m.reply = "ready" /\ m.outcome = "completed" =>
             host[h].req \in Request /\ executed'[host[h].req] = executed[host[h].req] + 1,
           m.reply = "declined" \/ (m.reply = "ready" /\ m.outcome # "completed") =>
             executed' = executed
    PROVE  RoutingInv'
<1>1. /\ HostInv(h) /\ host[h] \in Machine /\ executed \in [Request -> Nat]
      /\ reports \subseteq Host \X {"draining", "stopped"}
      /\ host[h].req # None => host[h].req \in Request
  BY HostKnown, Zenon
<1>2. host'[h] = m /\ \A k \in Host \ {h} : host'[k] = host[k]
  BY Zenon DEF RoutingInv, RoutingType
<1>3. req' = req /\ reports' = reports /\ reported' = reported
  BY Zenon DEF HostFixed
<1>4. ASSUME NEW q \in Request, q = host[h].req PROVE RanInv(q)'
  <2>1. /\ RanInv(q) /\ q # None /\ executed[q] = 0
        /\ req[q].pc = "unknown" \/ (req[q].pc = "assign" /\ req[q].target = h)
    BY <1>1, <1>4, RequestKnown DEF HostInv
  <2>2. executed'[q] \in {executed[q], executed[q] + 1}
    BY <1>4, Zenon
  <2>3. executed'[q] <= 1
    BY <2>1, <2>2, Once, Zenon
  <2>4. CASE req[q].pc = "unknown"
    BY <1>3, <2>3, <2>4, RanUnknown, Zenon
  <2>5. CASE req[q].pc = "assign" /\ req[q].target = h
    <3>1. q \notin Alarm /\ req[q].reply = None
      BY <1>4, <2>1, <2>5 DEF RanInv
    <3>2. m.reply = "ready" /\ m.outcome = "completed" => executed'[q] = 1
      <4>1. m.reply = "ready" /\ m.outcome = "completed" => executed'[q] = executed[q] + 1
        BY <1>4, Zenon
      <4> QED
        BY <2>1, <4>1, Once, Zenon
    <3>3. m.reply = "declined" \/ (m.reply = "ready" /\ m.outcome # "completed") =>
            executed'[q] = 0
      BY <2>1, Zenon
    <3>4. Declines(q, h)' => executed'[q] = 0
      BY <1>2, <3>1, <3>3 DEF Declines, Starting
    <3>5. host'[h].req = IF q \in Alarm THEN None ELSE q
      BY <1>2, <1>4, <3>1, Zenon
    <3> QED
      <4>1. /\ req'[q].pc = "assign" /\ req'[q].target = h /\ req'[q].reply = None
            /\ host'[h].reply = "ready" /\ host'[h].outcome = "completed" => executed'[q] = 1
        BY <1>2, <1>3, <2>5, <3>1, <3>2, Zenon
      <4> QED
        BY <2>3, <3>1, <3>4, <3>5, <4>1, RanAssigned, Zenon
  <2> QED
    BY <2>1, <2>4, <2>5
<1>5. ASSUME NEW q \in Request, q # host[h].req PROVE RanInv(q)'
  <2>1. /\ RanInv(q) /\ executed'[q] = executed[q] /\ req'[q] = req[q] /\ q # None
        /\ req[q].pc = "assign" => req[q].target \in Host
    BY <1>3, <1>5, RequestKnown DEF TargetInv, Work
  <2>2. CASE req[q].pc = "assign" /\ req[q].target = h
    <3>1. q \in Alarm /\ host[h].req = None /\ executed[q] = 0
      BY <1>5, <2>1, <2>2 DEF RanInv, Declines
    <3>2. ~(m.reply = "ready" /\ m.outcome = "completed")
      BY <3>1, RoutingConstants
    <3> QED
      BY <1>2, <2>1, <2>2, <3>1, <3>2, ZenonT(30) DEF RanInv, Early
  <2>3. CASE ~(req[q].pc = "assign" /\ req[q].target = h)
    <3>1. req[q].pc = "assign" => host'[req[q].target] = host[req[q].target]
      BY <1>2, <2>1, <2>3, Zenon
    <3> QED
      BY <2>1, <3>1, Zenon DEF RanInv, Declines, Starting
  <2> QED
    BY <2>2, <2>3
<1>6. HostInv(h)'
  <2>1. ~(h \in reported) /\ ~(\E x \in reports : x[1] = h)
    BY <1>1 DEF HostInv, Starting
  <2> QED
    BY <1>1, <1>2, <1>3, <2>1 DEF HostInv, Starting
<1>7. \A q \in Request : RanInv(q)'
  BY <1>4, <1>5, Zenon
<1>8. /\ host[h].phase # "unused" /\ m.phase \notin {"unused", "assigned", "active"}
      /\ reports' \subseteq Host \X {"draining", "stopped"}
      /\ \A x \in reports' : x \in reports \/ x[1] = h
  BY <1>1, <1>3 DEF Starting
<1> QED
  BY <1>6, <1>7, <1>8, HostFrame, Zenon

LEMMA StartFailsKeeps ==
    ASSUME RoutingInv, NEW h \in Host, StartFails(h) PROVE RoutingInv'
<1>1. /\ HostInv(h) /\ host[h] \in Machine /\ executed \in [Request -> Nat] /\ Starting(h)
      /\ host[h].outcome = None
  BY HostKnown DEF StartFails, Starting
<1>2. PICK m : m = [host[h] EXCEPT !.phase = "dead", !.reply = "declined"]
  OBVIOUS
<1>3. /\ m \in Machine /\ m.phase = "dead" /\ m.config = host[h].config /\ m.req = host[h].req
      /\ m.epoch = host[h].epoch /\ m.reply = "declined" /\ m.outcome = None
  BY <1>1, <1>2 DEF Machine
<1>4. host' = [host EXCEPT ![h] = m]
  BY <1>2 DEF StartFails
<1>5. UNCHANGED <<HostFixed, reports>> /\ executed' = executed
  BY DEF StartFails, HostFixed, deployVars
<1>6. \/ owner' = owner
      \/ /\ owner # None /\ owner' \in Lease
         /\ owner'.host = owner.host /\ owner'.lease # "live"
  BY Release DEF StartFails
<1> QED
  BY <1>1, <1>3, <1>4, <1>5, <1>6, StartKeeps

LEMMA StartUpKeeps ==
    ASSUME RoutingInv, NEW h \in Host, StartUp(h) PROVE RoutingInv'
<1>1. /\ HostInv(h) /\ host[h] \in Machine /\ executed \in [Request -> Nat] /\ Starting(h)
      /\ host[h].outcome = None /\ host[h].reply = None /\ host[h].epoch > 0
      /\ host[h].req # None => host[h].req \in Request
  BY HostKnown DEF StartUp, Starting, HostInv
<1>2. UNCHANGED <<HostFixed, reports>> /\ owner' = owner
  BY DEF StartUp, HostFixed, deployVars
<1>3. CASE /\ host' = [host EXCEPT ![h].phase = "serving", ![h].reply = "ready"]
           /\ UNCHANGED executed
  <2>1. PICK m : m = [host[h] EXCEPT !.phase = "serving", !.reply = "ready"]
    OBVIOUS
  <2>2. /\ m \in Machine /\ m.phase = "serving" /\ m.config = host[h].config
        /\ m.req = host[h].req /\ m.epoch = host[h].epoch /\ m.reply = "ready"
        /\ m.outcome = None
    BY <1>1, <2>1 DEF Machine
  <2>3. host' = [host EXCEPT ![h] = m]
    BY <1>3, <2>1
  <2> QED
    BY <1>1, <1>2, <1>3, <2>2, <2>3, NoWord, StartKeeps
<1>4. ASSUME NEW o \in {"completed", "not_executed"}, host[h].req # None,
             host' = [host EXCEPT ![h].phase = "serving", ![h].reply = "ready", ![h].outcome = o],
             executed' = IF o = "completed" THEN [executed EXCEPT ![host[h].req] = @ + 1]
                         ELSE executed
      PROVE  RoutingInv'
  <2>1. PICK m : m = [host[h] EXCEPT !.phase = "serving", !.reply = "ready", !.outcome = o]
    OBVIOUS
  <2>2. /\ m \in Machine /\ m.phase = "serving" /\ m.config = host[h].config
        /\ m.req = host[h].req /\ m.epoch = host[h].epoch /\ m.reply = "ready"
        /\ m.outcome = o
    BY <1>1, <2>1 DEF Machine, Outcome
  <2>3. host' = [host EXCEPT ![h] = m]
    BY <1>4, <2>1
  <2>4. /\ executed' \in [Request -> Nat]
        /\ \A q \in Request : q # host[h].req => executed'[q] = executed[q]
        /\ executed'[host[h].req] \in {executed[host[h].req], executed[host[h].req] + 1}
        /\ o = "completed" => executed'[host[h].req] = executed[host[h].req] + 1
        /\ o # "completed" => executed' = executed
    BY <1>1, <1>4
  <2> QED
    BY <1>1, <1>2, <1>4, <2>2, <2>3, <2>4, StartKeeps
<1>5. CASE /\ host[h].req # None /\ host' = [host EXCEPT ![h].phase = "dead"]
           /\ executed' = [executed EXCEPT ![host[h].req] = @ + 1]
  <2>1. PICK m : m = [host[h] EXCEPT !.phase = "dead"]
    OBVIOUS
  <2>2. /\ m \in Machine /\ m.phase = "dead" /\ m.config = host[h].config
        /\ m.req = host[h].req /\ m.epoch = host[h].epoch /\ m.reply = None
        /\ m.outcome = None
    BY <1>1, <2>1 DEF Machine
  <2>3. host' = [host EXCEPT ![h] = m]
    BY <1>5, <2>1
  <2>4. /\ executed' \in [Request -> Nat]
        /\ \A q \in Request : q # host[h].req => executed'[q] = executed[q]
        /\ executed'[host[h].req] \in {executed[host[h].req], executed[host[h].req] + 1}
    BY <1>1, <1>5
  <2> QED
    BY <1>1, <1>2, <2>2, <2>3, <2>4, NoWord, StartKeeps
<1> QED
  BY <1>3, <1>4, <1>5 DEF StartUp

(* A new owner has an epoch greater than all others, and is not known to   *)
(* shut down.                                                              *)
LEMMA PositiveEpoch ==
    ASSUME NEW c \in Nat
    PROVE  /\ 1 + c > 0 /\ 1 + c <= c + 1
           /\ \A e \in Nat : e <= c => e < 1 + c /\ e <= c + 1
  OBVIOUS

LEMMA ActivateKeeps ==
    ASSUME RoutingInv, NEW h \in Host, Activate(h) PROVE RoutingInv'
<1> DEFINE A == {k \in Host : host[k].epoch > 0}
<1>1. /\ HostInv(h) /\ host[h] \in Machine /\ h # None /\ host[h].phase = "assigned"
      /\ host[h].epoch = 0
  BY HostKnown DEF Activate, HostInv
<1>2. IsFiniteSet(A) /\ Cardinality(A) \in Nat /\ h \notin A
  <2>1. IsFiniteSet(Host)
    BY RoutingConstants, FS_Interval DEF Host
  <2> QED
    BY <1>1, <2>1, Counts, FS_Subset, FS_CardinalityType, Zenon
<1>3. PICK m : m = [host[h] EXCEPT !.phase = "active", !.epoch = 1 + Cardinality(A)]
  OBVIOUS
<1>4. /\ m \in Machine /\ m.phase = "active" /\ m.config = host[h].config /\ m.req = host[h].req
      /\ m.epoch = 1 + Cardinality(A) /\ m.reply = host[h].reply /\ m.outcome = host[h].outcome
  <2>0. 1 + Cardinality(A) \in Nat
    BY <1>2
  <2>1. PICK e \in Nat : e = 1 + Cardinality(A)
    BY <2>0, Zenon
  <2> HIDE DEF A
  <2> QED
    BY <1>1, <1>3, <2>1 DEF Machine
<1>5. host' = [host EXCEPT ![h] = m]
  BY <1>3 DEF Activate
<1>6. /\ host' \in [Host -> Machine] /\ host'[h] = m
      /\ \A k \in Host \ {h} : host'[k] = host[k]
  BY <1>4, <1>5, Zenon DEF RoutingInv, RoutingType
<1>7. UNCHANGED <<HostFixed, reports, executed>>
  BY DEF Activate, HostFixed, deployVars
<1>8. owner' \in Lease /\ owner'.host = h /\ owner' # None
  <2>1. owner' = [host |-> h, lease |-> "live"]
    BY DEF Activate
  <2>2. owner' \in Lease /\ owner'.host = h
    BY <2>1 DEF Lease
  <2> QED
    BY <2>2, NoneIsNothing
<1>9. \A k \in Host :
        /\ host[k].epoch \in Nat /\ host[k].epoch <= Cardinality(A)
        /\ host'[k].epoch = IF k = h THEN 1 + Cardinality(A) ELSE host[k].epoch
        /\ host[k].epoch > 0 => host'[k].epoch > 0
        /\ host'[k].config = host[k].config /\ host'[k].req = host[k].req
        /\ host'[k].reply = host[k].reply /\ host'[k].outcome = host[k].outcome
        /\ Starting(k)' = Starting(k)
        /\ host[k].phase # "unused" => host'[k].phase # "unused"
  <2>1. \A k \in Host : host[k].epoch \in Nat /\ host[k].epoch <= Cardinality(A)
    BY DEF RoutingInv, RoutingType, EpochInv, Machine
  <2>2. \A k \in Host \ {h} : host'[k] = host[k] /\ Starting(k)' = Starting(k)
    BY <1>6 DEF Starting
  <2>3. Starting(h)' = Starting(h)
    BY <1>1, <1>4, <1>6 DEF Starting
  <2> QED
    BY <1>1, <1>2, <1>4, <1>6, <2>1, <2>2, <2>3
<1>10. RoutingType'
  BY <1>6, <1>7, <1>8, Zenon DEF RoutingInv, RoutingType, HostFixed
<1>11. ASSUME NEW q \in Request PROVE RanInv(q)' /\ TargetInv(q)' /\ InformedInv(q)'
  <2>1. /\ RanInv(q) /\ TargetInv(q) /\ InformedInv(q) /\ req[q].cur \in Host \cup {None}
        /\ req[q].target \in Host \cup {None} /\ req' = req /\ executed' = executed
    BY <1>7, <1>11, RequestKnown DEF Work, HostFixed
  <2>2. RanInv(q)'
    <3>1. req[q].pc = "assign" => req[q].target \in Host
      BY <2>1 DEF TargetInv
    <3> QED
      BY <1>9, <2>1, <3>1, Zenon DEF RanInv, Declines
  <2>3. TargetInv(q)'
    BY <1>9, <2>1 DEF TargetInv
  <2>4. InformedInv(q)'
    BY <1>7, <2>1, Zenon DEF InformedInv, Changing, HostFixed
  <2> QED
    BY <2>2, <2>3, <2>4
<1>12. ASSUME NEW k \in Host PROVE HostInv(k)'
  <2>1. HostInv(k) /\ reported' = reported /\ reports' = reports /\ req' = req /\ executed' = executed
    BY <1>7, <1>12, Zenon DEF RoutingInv, HostFixed
  <2>2. CASE k = h
    <3>1. ~(h \in reported) /\ ~(\E x \in reports : x[1] = h)
      BY <1>1 DEF HostInv
    <3>2. host[h].reply # "ready" /\ host[h].reply # "declined" /\ host[h].outcome = None
      BY <1>1 DEF HostInv
    <3>3. m.epoch > 0
      BY <1>2, <1>4, PositiveEpoch, Zenon
    <3>4. Starting(h)
      BY <1>1 DEF Starting
    <3> QED
      BY <1>4, <1>6, <1>9, <2>1, <2>2, <3>1, <3>2, <3>3, <3>4 DEF HostInv
  <2>3. CASE k # h
    <3>1. host'[k] = host[k]
      BY <1>6, <1>12, <2>3, Zenon
    <3> QED
      BY <1>9, <1>12, <2>1, <3>1, Zenon DEF HostInv
  <2> QED
    BY <2>2, <2>3
<1>13. EpochInv'
  <2>0. \A k \in Host : host'[k].epoch > 0 <=> host[k].epoch > 0 \/ k = h
    BY <1>2, <1>9, PositiveEpoch, Zenon
  <2>1. {k \in Host : host'[k].epoch > 0} = A \cup {h}
    BY <2>0, Zenon
  <2>2. Cardinality(A \cup {h}) = Cardinality(A) + 1
    BY <1>2, FS_AddElement
  <2>3. \A k \in Host : /\ host'[k].epoch <= Cardinality(A) + 1
                        /\ k # h => host'[k].epoch < host'[h].epoch
    BY <1>2, <1>9, PositiveEpoch, Zenon
  <2>4. host'[h].epoch > 0
    BY <1>2, <1>9, PositiveEpoch, Zenon
  <2> QED
    BY <1>8, <2>1, <2>2, <2>3, <2>4, Zenon DEF EpochInv
<1>14. RouteInv'
  <2>1. entry # None => entry.host \in Host
    BY DEF RoutingInv, RoutingType, Route
  <2> QED
    BY <1>7, <1>9, <2>1, Zenon DEF RoutingInv, RouteInv, Changing, HostFixed
<1>15. ShutdownInv'
  <2>1. h \notin reported
    BY <1>1 DEF HostInv
  <2> QED
    BY <1>7, <1>8, <2>1, Zenon DEF ShutdownInv, HostFixed
<1> QED
  BY <1>10, <1>11, <1>12, <1>13, <1>14, <1>15, Zenon DEF RoutingInv

-----------------------------------------------------------------------------
(* The route store, on its own.                                            *)

StoreFixed == <<regions, spec, access, op, gen, stopped, missed, host, req, executed>>

LEMMA Below ==
    ASSUME NEW a \in Nat, NEW b \in Nat, a < b PROVE ~(a > b) /\ b > a
  OBVIOUS

LEMMA StoreFrame ==
    ASSUME RoutingInv, UNCHANGED StoreFixed,
           reports' \subseteq reports, reported' \subseteq reported \cup {x[1] : x \in reports},
           entry' \in Route \cup {None}, owner' \in Lease \cup {None},
           \/ owner' = owner
           \/ owner # None /\ owner' # None /\ owner'.host = owner.host,
           RouteInv', ShutdownInv'
    PROVE  RoutingInv'
<1>1. RoutingType'
  <2>1. reports \subseteq Host \X {"draining", "stopped"} /\ reported \subseteq Host
    BY Zenon DEF RoutingInv, RoutingType
  <2>2. reports' \subseteq Host \X {"draining", "stopped"} /\ reported' \subseteq Host
    BY <2>1
  <2> QED
    BY <2>2, Zenon DEF RoutingInv, RoutingType, StoreFixed
<1>2. ASSUME NEW q \in Request PROVE RanInv(q)' /\ TargetInv(q)' /\ InformedInv(q)'
  BY <1>2, Zenon
  DEF RoutingInv, RanInv, Declines, Starting, TargetInv, InformedInv, Changing, StoreFixed
<1>3. ASSUME NEW h \in Host PROVE HostInv(h)'
  <2>1. h \in reported' \/ (\E x \in reports' : x[1] = h) =>
          h \in reported \/ (\E x \in reports : x[1] = h)
    BY Zenon
  <2> QED
    BY <1>3, <2>1, Zenon DEF RoutingInv, HostInv, Starting, StoreFixed
<1>4. EpochInv'
  BY Zenon DEF RoutingInv, EpochInv, StoreFixed
<1> QED
  BY <1>1, <1>2, <1>3, <1>4, Zenon DEF RoutingInv

LEMMA ExpiryKeeps ==
    ASSUME RoutingInv, RouteExpires \/ LeaseExpires PROVE RoutingInv'
<1>1. /\ UNCHANGED StoreFixed /\ reports' = reports /\ reported' = reported
      /\ entry \in Route \cup {None} /\ owner \in Lease \cup {None}
  BY DEF RouteExpires, LeaseExpires, StoreFixed, deployVars, hostVars, RoutingInv, RoutingType
<1>2. CASE RouteExpires
  <2>1. entry' = None /\ owner' = owner
    BY <1>2 DEF RouteExpires, hostVars
  <2>2. RouteInv'
    BY <1>1, <2>1, Zenon DEF RoutingInv, RouteInv, StoreFixed
  <2>3. ShutdownInv'
    <3>1. CASE owner # None /\ entry.host = owner.host /\ entry.state # "active"
      <4>1. owner.lease # "live" /\ \A r \in Request : ~Holds(r, owner.host)
        BY <1>2, <3>1, Zenon DEF RouteExpires, Owns
      <4>2. \A r \in Request : ~Uses(r, owner.host)
        BY <4>1 DEF Holds, Uses
      <4> QED
        BY <1>1, <2>1, <4>1, <4>2, Zenon DEF ShutdownInv, Uses, StoreFixed
    <3>2. CASE ~(owner # None /\ entry.host = owner.host /\ entry.state # "active")
      BY <1>1, <2>1, <3>2, Zenon DEF RoutingInv, ShutdownInv, Uses, StoreFixed
    <3> QED
      BY <3>1, <3>2
  <2> QED
    BY <1>1, <2>1, <2>2, <2>3, StoreFrame
<1>3. CASE LeaseExpires
  <2>1. /\ entry' = entry /\ owner # None /\ owner.lease = "live"
        /\ owner' = [owner EXCEPT !.lease = "expired"]
    BY <1>3 DEF LeaseExpires
  <2>2. owner' \in Lease /\ owner'.host = owner.host /\ owner' # None
    BY <1>1, <2>1, NoneIsNothing DEF Lease
  <2>3. RouteInv'
    BY <1>1, <2>1, Zenon DEF RoutingInv, RouteInv, Changing, StoreFixed
  <2>4. ShutdownInv'
    <3>1. owner.host \in reported =>
            entry # None /\ entry.host = owner.host /\ entry.state # "active"
      BY <2>1, Zenon DEF RoutingInv, ShutdownInv
    <3> QED
      BY <1>1, <2>1, <2>2, <3>1 DEF ShutdownInv
  <2> QED
    BY <1>1, <2>1, <2>2, <2>3, <2>4, StoreFrame
<1> QED
  BY <1>2, <1>3

(* A report of a shutdown is written unless a later one is there already.  *)
LEMMA ReportRanks ==
    \A s, e \in {"active", "draining", "stopped"} :
        s # "active" /\ ~(Rank(s) >= Rank(e)) => e # "active"
  BY DEF Rank

LEMMA ReportKeeps ==
    ASSUME RoutingInv, NEW x \in reports, Report(x) PROVE RoutingInv'
<1>1. PICK h, s : h = x[1] /\ s = x[2]
  OBVIOUS
<1>2. /\ h \in Host /\ s \in {"draining", "stopped"} /\ gen \in Nat
      /\ entry \in Route \cup {None} /\ owner \in Lease \cup {None}
  BY <1>1 DEF RoutingInv, RoutingType
<1>3. HostInv(h) /\ host[h].epoch > 0
  BY <1>1, <1>2, Zenon DEF RoutingInv, HostInv
<1>4. /\ UNCHANGED StoreFixed /\ owner' = owner /\ reports' = reports \ {x}
      /\ reported' = reported \cup {h}
  BY <1>1 DEF Report, StoreFixed, deployVars
<1>5. \/ entry' = entry /\ Visible(entry) /\ ~Supersedes(s, h, entry)
      \/ /\ entry' = [state |-> s, host |-> h, gen |-> gen]
         /\ ~(Visible(entry) /\ ~Supersedes(s, h, entry))
  BY <1>1, Zenon DEF Report, Written
<1>6. entry' \in Route \cup {None}
  <2>1. [state |-> s, host |-> h, gen |-> gen] \in Route
    BY <1>2 DEF Route
  <2> QED
    BY <1>2, <1>5, <2>1, Zenon
<1>7. RouteInv'
  <2>1. CASE entry' = entry
    BY <1>4, <2>1, Zenon DEF RoutingInv, RouteInv, Changing, StoreFixed
  <2>2. CASE entry' = [state |-> s, host |-> h, gen |-> gen]
    <3>1. entry'.state # "active" /\ entry'.host = h /\ entry'.gen = gen /\ gen <= gen
      BY <1>2, <2>2
    <3>2. host' = host /\ gen' = gen /\ stopped' = stopped /\ access' = access
      BY <1>4, Zenon DEF StoreFixed
    <3> QED
      BY <1>3, <3>1, <3>2, Zenon DEF RoutingInv, RouteInv
  <2> QED
    BY <1>5, <2>1, <2>2
<1>8. ShutdownInv'
  <2>1. SUFFICES ASSUME owner # None, owner.host \in reported \cup {h} PROVE ShutdownInv'
    BY <1>4, Zenon DEF ShutdownInv
  <2>2. /\ owner.host \in Host
        /\ \A k \in Host : k # owner.host => ~(host[k].epoch > host[owner.host].epoch)
        /\ \A k \in Host : k # owner.host => host[owner.host].epoch > host[k].epoch
    <3>1. owner.host \in Host
      BY <1>2, <2>1 DEF Lease
    <3>2. \A k \in Host : host[k].epoch \in Nat
      BY DEF RoutingInv, RoutingType, Machine
    <3> QED
      <4>1. \A k \in Host : k # owner.host => host[k].epoch < host[owner.host].epoch
        BY <2>1, Zenon DEF RoutingInv, EpochInv
      <4> QED
        BY <3>1, <3>2, <4>1, Below, Zenon
  <2>3. entry # None => entry.host \in Host /\ entry.state \in {"active", "draining", "stopped"}
    BY <1>2 DEF Route
  <2>4. CASE h = owner.host
    <3>1. entry' # None /\ entry'.host = h /\ entry'.state # "active"
      <4>1. CASE entry' = [state |-> s, host |-> h, gen |-> gen]
        <5>1. entry' \in Route /\ entry'.host = h /\ entry'.state # "active"
          BY <1>2, <4>1 DEF Route
        <5> QED
          BY <5>1, NoneIsNothing
      <4>2. CASE entry' = entry /\ Visible(entry) /\ ~Supersedes(s, h, entry)
        <5>1. entry # None /\ entry.host = h
          BY <2>2, <2>3, <2>4, <4>2, Zenon DEF Visible, Supersedes
        <5>2. ~(Rank(s) >= Rank(entry.state))
          BY <4>2, <5>1, Zenon DEF Supersedes
        <5> QED
          BY <1>2, <2>3, <4>2, <5>1, <5>2, ReportRanks
      <4> QED
        BY <1>5, <4>1, <4>2
    <3> QED
      BY <1>4, <2>4, <3>1, Zenon DEF ShutdownInv
  <2>5. CASE h # owner.host
    <3>1. CASE entry # None /\ entry.host = owner.host /\ entry.state # "active"
      <4>1. ~Supersedes(s, h, entry) /\ Visible(entry)
        BY <1>2, <2>2, <2>5, <3>1, Zenon DEF Supersedes, Visible
      <4> QED
        BY <1>4, <1>5, <3>1, <4>1, Zenon DEF ShutdownInv
    <3>2. CASE /\ owner.lease # "live"
               /\ \A r \in Request : ~Uses(r, owner.host)
               /\ entry # None => entry.host # owner.host
      <4>1. entry' # None => entry'.host # owner.host
        BY <1>5, <2>5, <3>2
      <4> QED
        BY <1>4, <3>2, <4>1, Zenon DEF ShutdownInv, Uses, StoreFixed
    <3> QED
      BY <2>1, <2>5, <3>1, <3>2, Zenon DEF RoutingInv, ShutdownInv
  <2> QED
    BY <2>4, <2>5
<1> QED
  BY <1>1, <1>2, <1>4, <1>6, <1>7, <1>8, StoreFrame

-----------------------------------------------------------------------------
(* All steps.                                                              *)

LEMMA RoutingInitially == RoutingInit => RoutingInv
<1> SUFFICES ASSUME RoutingInit PROVE RoutingInv
  OBVIOUS
<1> DEFINE w == [Fresh EXCEPT !.retries = Retries]
<1>1. /\ w \in Work /\ w.pc = "resolve" /\ w.target = None /\ w.reply = None
      /\ Unused \in Machine /\ Unused.phase = "unused" /\ Unused.epoch = 0
      /\ Unused.reply = None /\ Unused.outcome = None
  BY RoutingConstants DEF Fresh, Work, Pc, Early, Outcome, Unused, Machine
<1> HIDE DEF w
<1>2. /\ regions \in Nat /\ spec \in Config /\ access = TRUE /\ op = None /\ gen = 0
      /\ entry = None /\ owner = None /\ host = [h \in Host |-> Unused]
      /\ reports = {} /\ reported = {} /\ stopped = FALSE
      /\ req = [r \in Request |-> w] /\ executed = [r \in Request |-> 0]
  <2>1. req = [r \in Request |-> w]
    BY DEF RoutingInit, RoutingStart, w
  <2> QED
    BY <2>1, RoutingConstants DEF RoutingInit, RoutingStart
<1>3. RoutingType
  BY <1>1, <1>2 DEF RoutingType
<1>4. ASSUME NEW r \in Request PROVE RanInv(r) /\ TargetInv(r) /\ InformedInv(r)
  <2>1. req[r] = w /\ executed[r] = 0
    BY <1>2, <1>4
  <2>2. req[r].pc = "resolve" /\ req[r].target = None /\ req[r].reply = None
    BY <1>1, <2>1, Zenon
  <2>3. RanInv(r)
    BY <2>1, <2>2 DEF RanInv, Early
  <2>4. TargetInv(r) /\ InformedInv(r)
    BY <2>2 DEF TargetInv, InformedInv, Informed
  <2> QED
    BY <2>3, <2>4
<1>5. ASSUME NEW h \in Host PROVE HostInv(h)
  <2>1. host[h] = Unused
    BY <1>2, <1>5
  <2> QED
    BY <1>1, <1>2, <2>1, NoWord DEF HostInv, Starting
<1>6. EpochInv
  <2>1. \A k \in Host : host[k].epoch = 0
    BY <1>1, <1>2
  <2>2. {j \in Host : host[j].epoch > 0} = {}
    BY <2>1
  <2> QED
    BY <1>2, <2>1, <2>2, FS_EmptySet DEF EpochInv
<1>7. RouteInv /\ ShutdownInv
  BY <1>2 DEF RouteInv, ShutdownInv
<1> QED
  BY <1>3, <1>4, <1>5, <1>6, <1>7 DEF RoutingInv

LEMMA RoutingInductive == RoutingInv /\ [RoutingNext]_routingVars => RoutingInv'
<1> SUFFICES ASSUME RoutingInv, [RoutingNext]_routingVars PROVE RoutingInv'
  OBVIOUS
<1>1. CASE RoutingNext
  <2>1. ASSUME NEW h \in Host, HostStep(h) PROVE RoutingInv'
    BY <2>1, ActivateKeeps, StartFailsKeeps, StartUpKeeps, EndKeeps, Zenon DEF HostStep
  <2> QED
    BY <1>1, <2>1, RequestStepKeeps, ReportKeeps, ExpiryKeeps, DeploymentStepKeeps, Zenon
    DEF RoutingNext
<1>2. CASE UNCHANGED routingVars
  <2>1. UNCHANGED StoreFixed /\ UNCHANGED <<owner, entry, reports, reported>>
    BY <1>2 DEF routingVars, StoreFixed
  <2>2. RouteInv' /\ ShutdownInv' /\ entry' \in Route \cup {None} /\ owner' \in Lease \cup {None}
    BY <2>1, Zenon
    DEF RoutingInv, RoutingType, RouteInv, ShutdownInv, Uses, Changing, StoreFixed
  <2> QED
    BY <2>1, <2>2, StoreFrame
<1> QED
  BY <1>1, <1>2

LEMMA RoutingAlways == RoutingSpec => []RoutingInv
  BY RoutingInitially, RoutingInductive, PTL DEF RoutingSpec

(* A request is executed at most once, whatever hosts are launched for it  *)
(* in however many regions and however often it is sent again, and its     *)
(* answer is true (service.rs, invocation.rs).                             *)
THEOREM AnswersAreTrue == RoutingSpec => []OutcomeTruthful
<1>1. RoutingInv => OutcomeTruthful
  BY Zenon DEF RoutingInv, RanInv, OutcomeTruthful
<1> QED
  BY <1>1, RoutingAlways, PTL

(* Outside a deployment, and unless the last change could not drop the     *)
(* routes, the cache leads to hosts of the registered deployment only,     *)
(* however many deployments, deletions and failures of them race with      *)
(* however many requests (routes.rs:24).                                   *)
THEOREM RoutesAreOfTheDeployment == RoutingSpec => []NoStaleRoute
<1>1. RoutingInv => NoStaleRoute
  BY DEF RoutingInv, RouteInv, NoStaleRoute, Current, Visible, Changing
<1> QED
  BY <1>1, RoutingAlways, PTL

(* Once the routes of a suspended deployment were dropped, none to its     *)
(* hosts is served until the organization is enabled again.                *)
THEOREM SuspendedIsNotRouted == RoutingSpec => []NoSuspendedRoute
<1>1. RoutingInv => NoSuspendedRoute
  BY DEF RoutingInv, RouteInv, NoSuspendedRoute, Current, Visible
<1> QED
  BY <1>1, RoutingAlways, PTL

(* No late writer replaces the shutdown the latest owner has reported      *)
(* (supersedes).                                                           *)
THEOREM ShutdownsAreRemembered == RoutingSpec => []NoRevivedRoute
<1>1. RoutingInv => NoRevivedRoute
  <2> SUFFICES ASSUME RoutingInv, Current # None, Current.state = "active",
                      Current.host \in reported
               PROVE  owner.host # Current.host
    BY DEF NoRevivedRoute
  <2>1. Current = entry /\ entry # None
    BY DEF Current
  <2>2. entry.host \in Host
    BY <2>1 DEF RoutingInv, RoutingType, Route
  <2>3. owner # None
    BY <2>1, <2>2 DEF RoutingInv, RouteInv, EpochInv
  <2> QED
    BY <2>1, <2>3 DEF RoutingInv, ShutdownInv
<1> QED
  BY <1>1, RoutingAlways, PTL
=============================================================================
