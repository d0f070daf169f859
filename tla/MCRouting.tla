------------------------------ MODULE MCRouting ------------------------------
(* Either one request while a deployment, deletion or suspension goes on, or *)
(* all requests, which race one another, without one.                       *)
EXTENDS Routing, TLC

One == CHOOSE r \in Request \ Alarm : TRUE

MCInit ==
    \/ RoutingStart({One}, Retries, 0) /\ regions = Regions
    \/ RoutingStart(Request, 0, MaxOps) /\ regions = 1

MCSpec == MCInit /\ [][RoutingNext]_routingVars

(* What the surroundings do. Where requests race one another, no route       *)
(* expires, since whoever reads it may miss it anyway, and one host at a     *)
(* time has reports under way. Next to an operation, a route expires just    *)
(* before another is remembered, one report is under way, and a lease ends   *)
(* when its host is gone or of another deployment.                           *)
Asked ==
    IF regions = 1
    THEN /\ entry # None /\ entry' = None => req' # req
         /\ Cardinality({m[1] : m \in reports'}) <= 1
    ELSE /\ entry # None /\ entry' = None /\ req' = req => \E r \in Request : At(r, "remember")
         /\ Cardinality(reports') <= 1
         /\ lapsed' # lapsed => \/ host[owner.host].phase \in {"dead", "stopped"}
                               \/ host[owner.host].config # spec

(* Configurations are only compared with one another. *)
Symmetry == Permutations(Config)
=============================================================================
