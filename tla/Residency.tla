------------------------------ MODULE Residency -------------------------------
(***************************************************************************)
(* What an administrator is told of where an actor has been: the reports   *)
(* its successive hosts make of it (host/lifecycle.rs), which arrive in    *)
(* any order or not at all, the store that keeps them                      *)
(* (MemoryLifecyclePersistence), the status it derives from the latest     *)
(* (residency) and the periods it derives from all of them                 *)
(* (actor_lifecycle/residency.rs).                                         *)
(*                                                                         *)
(* Hosts and control plane read one clock. A host that lost the actor may  *)
(* go on reporting beside its successor. What the caches of the store      *)
(* forget when they are full is not modelled.                              *)
(***************************************************************************)
EXTENDS Integers, Sequences, FiniteSets, SequencesExt

CONSTANTS
    Answers,       \* what resident() may answer: live, dormant, unknown
    StaleAfter,   \* STALE_AFTER_MS
    EventLimit,   \* EVENT_LIMIT: the most reports a history is made of
    MaxEpoch,     \* bound on the hosts of the actor
    MaxReports,   \* bound on the reports of all hosts
    MaxTime       \* bound on the clock

ASSUME ResidencyConstants ==
    /\ Answers \subseteq {"live", "dormant", "unknown"}
    /\ {StaleAfter, EventLimit, MaxEpoch, MaxReports, MaxTime} \subseteq Nat

VARIABLES
    clock,
    hosts,    \* by owner epoch: each host's stage and the number of its last report
    transit,  \* reports under way
    events,   \* the reports the store keeps
    latest    \* the one it keeps as the actor's latest: a set of at most one

residencyVars == <<clock, hosts, transit, events, latest>>

ResidencyInit ==
    /\ clock = 0
    /\ hosts = <<>>
    /\ transit = {} /\ events = {} /\ latest = {}

-----------------------------------------------------------------------------
(* Reports.                                                                 *)

Sent == FoldLeft(LAMBDA n, h : n + h.sequence, 0, hosts)

\* Reporter::send. resident() may have no answer; a host that stopped holds no actor.
Report(e, n, kind, resident) ==
    transit' = transit \cup
        {[epoch |-> e, sequence |-> n, kind |-> kind, occurred |-> clock,
          resident |-> IF kind = "stopped" THEN "dormant" ELSE resident]}

\* HostLifecycle::start: the reporter's first report is that it started.
HostStarts(resident) ==
    /\ Len(hosts) < MaxEpoch /\ Sent < MaxReports
    /\ hosts' = Append(hosts, [stage |-> "up", sequence |-> 1])
    /\ Report(Len(hosts) + 1, 1, "started", resident)
    /\ UNCHANGED <<clock, events, latest>>

\* Reporter::run: a heartbeat, also when the residency or the status changes, until the
\* host drains, and a last report when it stops.
HostReports(e, kind, resident) ==
    /\ hosts[e].stage = "up" \/ (hosts[e].stage = "draining" /\ kind = "stopped")
    /\ Sent < MaxReports
    /\ hosts' = [hosts EXCEPT ![e] =
                   [sequence |-> @.sequence + 1,
                    stage |-> CASE kind = "draining" -> "draining"
                                [] kind = "stopped" -> "gone"
                                [] OTHER -> "up"]]
    /\ Report(e, hosts[e].sequence + 1, kind, resident)
    /\ UNCHANGED <<clock, events, latest>>

\* A host that dies reports nothing: HostReports is not taken again.

TimePasses ==
    /\ clock < MaxTime
    /\ clock' = clock + 1
    /\ UNCHANGED <<hosts, transit, events, latest>>

-----------------------------------------------------------------------------
(* The store.                                                               *)

Precedes(r, q) ==
    r.epoch < q.epoch \/ (r.epoch = q.epoch /\ r.sequence < q.sequence)

\* Mutant: the report that came last is the latest.
KeepLatestArrived(r) == latest' = {r}

\* MemoryLifecyclePersistence::record: the latest is the one of the greatest epoch and,
\* in it, sequence.
KeepLatest(r) ==
    latest' = IF \A q \in latest : Precedes(q, r) THEN {r} ELSE latest

\* ControlPlaneCommand::Lifecycle, record.
ReportArrives(r) ==
    LET event == r @@ [received |-> clock] IN
    /\ transit' = transit \ {r}
    /\ events' = events \cup {event}
    /\ KeepLatest(event)
    /\ UNCHANGED <<clock, hosts>>

ResidencyNext ==
    \/ \E resident \in Answers :
          \/ HostStarts(resident)
          \/ \E e \in DOMAIN hosts, kind \in {"heartbeat", "draining", "stopped"} :
                HostReports(e, kind, resident)
    \/ TimePasses
    \/ \E r \in transit : ReportArrives(r)

ResidencySpec == ResidencyInit /\ [][ResidencyNext]_residencyVars

-----------------------------------------------------------------------------
(* What is derived.                                                         *)

\* residency: the status in the inventory.
Residency(r, now) ==
    CASE r.kind = "stopped" -> "dormant"
      [] r.kind # "stopped" /\ now - r.received > StaleAfter -> "unknown"
      [] OTHER -> r.resident

\* actor_inventory: what it says of the actor, if that ever reported.
Inventory == {Residency(r, clock) : r \in latest}

\* MemoryLifecyclePersistence::history: the reports of the window and, of those before it,
\* the last.
Window(from, to) ==
    LET before == {r \in events : r.occurred < from}
    IN {r \in events : r.occurred \in from .. to}
         \cup {r \in before : \A q \in before : q # r => Precedes(q, r)}

\* The newest of them, up to the limit: which of those of one instant, their names decide.
Truncations(S) ==
    IF Cardinality(S) <= EventLimit THEN {S}
    ELSE {K \in kSubset(EventLimit, S) : \A r \in K, q \in S \ K : q.occurred <= r.occurred}

\* By epoch and sequence.
Sorted(S) ==
    [i \in 1 .. Cardinality(S) |->
        CHOOSE r \in S : Cardinality({q \in S : Precedes(q, r)}) = i - 1]

\* Mutant: a report is kept though a host before it has reported later.
InSequenceAll(S) == Sorted(S)

\* In the order of epochs and sequences, without those a clock puts before their predecessor.
InSequence(S) ==
    Sorted({r \in S : \A q \in S : Precedes(q, r) => q.occurred <= r.occurred})

\* push: a period, one with the period before it if that has the same status.
Push(periods, status, from, to) ==
    LET n == Len(periods) IN
    CASE from >= to -> periods
      [] from < to /\ n > 0 /\ periods[n].status = status /\ periods[n].to = from ->
           [periods EXCEPT ![n].to = to]
      [] OTHER -> Append(periods, [status |-> status, from |-> from, to |-> to])

\* residency::history
Periods(K, from, to) ==
    LET reports == InSequence(K)
        Extend(periods, i) ==
            LET r == reports[i]
                start == Max({r.occurred, from})
                end == IF i = Len(reports) THEN to
                       ELSE Min({reports[i + 1].occurred, to})
                known == IF r.kind = "stopped" THEN end
                         ELSE Min({r.occurred + StaleAfter, end})
            IN Push(Push(periods, r.resident, start, known),
                    "unknown", Max({start, known}), end)
        upto[i \in 0 .. Len(reports)] == IF i = 0 THEN <<>> ELSE Extend(upto[i - 1], i)
    IN upto[Len(reports)]

-----------------------------------------------------------------------------
\* What the periods say of an instant.
At(periods, t) == {p.status : p \in {p \in ToSet(periods) : p.from <= t /\ t < p.to}}

\* What the reports say of it: the last report made by then counts while it is not stale.
Told(t) ==
    {IF r.kind = "stopped" \/ t < r.occurred + StaleAfter THEN r.resident ELSE "unknown" :
       r \in {r \in events : /\ r.occurred <= t
                             /\ \A q \in events : q.occurred <= t /\ q # r => Precedes(q, r)}}

\* No host reported after its successor had.
InOrder == \A r, q \in events : Precedes(r, q) => r.occurred <= q.occurred

(* Whatever part of the history is asked for, its periods do not overlap,   *)
(* and each instant has the status the last report made by then gives it,   *)
(* until that is stale, though the reports came in any order and hosts may  *)
(* overlap. Where the limit cut the history, the instants of its oldest     *)
(* report are not told (residency::history).                                *)
PeriodsAsReported ==
    \A from \in 0 .. clock : \A to \in from + 1 .. clock + 1 :
        LET S == Window(from, to) IN
        \A K \in Truncations(S) :
            LET periods == Periods(K, from, to)
                oldest == {r \in K : \A q \in K : r.occurred <= q.occurred}
                sure == IF K = S THEN from .. to - 1
                        ELSE UNION {r.occurred .. to - 1 : r \in K \ oldest}
            IN /\ \A i \in 2 .. Len(periods) : periods[i - 1].to <= periods[i].from
               /\ InOrder => \A t \in sure \cap from .. to - 1 : At(periods, t) = Told(t)

(* The inventory and a history that was not cut never contradict each       *)
(* other: where the history still knows the actor's status, the inventory   *)
(* gives the same (actor_inventory, residency_history).                     *)
ViewsAgree ==
    LET S == Window(0, clock) IN
    InOrder /\ S \in Truncations(S) =>
        \A status \in Inventory :
            At(Periods(S, 0, clock + 1), clock) \subseteq {"unknown", status}
==============================================================================
