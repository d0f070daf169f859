------------------------------ MODULE Lifecycle ------------------------------
(***************************************************************************)
(* The lifecycle reports of an organization's host sessions                *)
(* (host/lifecycle.rs), which reach the control plane late, out of order   *)
(* or not at all, and what is made of them: the usage that is published    *)
(* (actor_lifecycle.rs, actor_lifecycle/reconciliation.rs) and the slots   *)
(* that limit how many actors are active (organization_limits.rs and its   *)
(* stores).                                                                *)
(*                                                                         *)
(* Time passes between any two steps, so that what may expire may expire   *)
(* at any time.                                                            *)
(***************************************************************************)
EXTENDS Integers, FiniteSets

CONSTANTS
    Session,     \* host sessions, each of one actor and one ownership epoch
    MaxActive,   \* OrganizationLimits.max_active_actors
    Burst,       \* OrganizationLimits.start_burst
    MaxSequence, \* bound on the reports of a session
    Never

ReportKind == {"started", "heartbeat", "draining", "stopped"}

(* Session: the last report of a session, and whether it was taken          *)
(* for stopped since.                                                       *)
UsageSession == [sequence : Nat, kind : ReportKind, estimated : BOOLEAN]

ASSUME LifecycleConstants ==
    /\ Never \notin Session
    /\ Never \notin UsageSession
    /\ {MaxActive, Burst, MaxSequence} \subseteq Nat

VARIABLES
    wired,     \* whether usage is published and whether slots are limited
    stage,     \* of each session's host: unborn, launching, up, down
    reporter,  \* of each host: sequence and kind of its last report
    mail,      \* reports under way
    usage,     \* UsageSessions: last report and whether a stop was estimated
    updates,   \* usage updates that were made
    landed,    \* those that were published
    noted,     \* history: the reports that UsageSessions recorded
    slots,     \* Usage.active: sessions that hold a slot
    known,     \* Usage.sessions: what is known of each session
    tokens,    \* Usage.tokens
    lapsed     \* history: sessions that lost their slot and reported again

lifecycleVars == <<wired, stage, reporter, mail, usage, updates, landed, noted, slots,
                   known, tokens, lapsed>>

(* Sessions outside S are never launched. *)
LifecycleStart(S, parts) ==
    /\ wired = parts
    /\ stage = [s \in Session |-> IF s \in S THEN "unborn" ELSE "down"]
    /\ reporter = [s \in Session |-> [kind |-> "none", sequence |-> 0]]
    /\ mail = {}
    /\ usage = [s \in Session |-> Never]
    /\ updates = {}
    /\ landed = {}
    /\ noted = {}
    /\ slots = {}
    /\ known = [s \in Session |-> Never]
    /\ tokens = Burst
    /\ lapsed = {}

LifecycleInit == \E parts \in SUBSET {"usage", "limits"} : LifecycleStart(Session, parts)

-----------------------------------------------------------------------------
(* Launches and their slots. *)

ReserveLate(s) ==
    /\ Cardinality(slots) <= MaxActive
    /\ tokens >= 1
    /\ tokens' = tokens - 1
    /\ slots' = slots \cup {s}
    /\ known' = [known EXCEPT ![s] = [sequence |-> 0, stopped |-> FALSE]]

(* reserve: a slot, if there is one left, and a start.                      *)
Reserve(s) ==
    /\ Cardinality(slots) < MaxActive
    /\ tokens >= 1
    /\ tokens' = tokens - 1
    /\ slots' = slots \cup {s}
    /\ known' = [known EXCEPT ![s] = [sequence |-> 0, stopped |-> FALSE]]

(* launch *)
LaunchSession(s) ==
    /\ stage[s] = "unborn"
    /\ stage' = [stage EXCEPT ![s] = "launching"]
    /\ IF "limits" \in wired THEN Reserve(s) ELSE UNCHANGED <<slots, known, tokens>>
    /\ UNCHANGED <<wired, reporter, mail, usage, updates, landed, noted, lapsed>>

(* consume: the bucket fills up again. *)
Refill ==
    /\ tokens < Burst
    /\ tokens' = tokens + 1
    /\ UNCHANGED <<wired, stage, reporter, mail, usage, updates, landed, noted, slots, known,
                   lapsed>>

(* The launch failed, or is taken to have failed, however much the host has *)
(* reported by then: its slot is released.                                  *)
Release(s) ==
    /\ stage[s] \in {"launching", "up", "down"}
    /\ s \in slots \/ known[s] # Never
    /\ slots' = slots \ {s}
    /\ known' = [known EXCEPT ![s] = Never]
    /\ stage' = IF stage[s] = "launching" THEN [stage EXCEPT ![s] = "down"] ELSE stage
    /\ UNCHANGED <<wired, reporter, mail, usage, updates, landed, noted, tokens, lapsed>>

(* prune: LAUNCH_LEASE_MS after the launch, REPORT_LEASE_MS after a report. *)
SlotExpires(s) ==
    /\ s \in slots
    /\ slots' = slots \ {s}
    /\ UNCHANGED <<wired, stage, reporter, mail, usage, updates, landed, noted, known, tokens,
                   lapsed>>

-----------------------------------------------------------------------------
(* The host. *)

(* Reporter::send: numbered as they are made; sent once, to be lost or late. *)
SendReport(s, kind) ==
    LET n == reporter[s].sequence + 1 IN
    /\ reporter[s].sequence < MaxSequence
    /\ reporter' = [reporter EXCEPT ![s] = [kind |-> kind, sequence |-> n]]
    /\ mail' = mail \cup {[session |-> s, kind |-> kind, sequence |-> n]}
    /\ UNCHANGED <<wired, usage, updates, landed, noted, slots, known, tokens, lapsed>>

StartSession(s) ==
    /\ stage[s] = "launching"
    /\ stage' = [stage EXCEPT ![s] = "up"]
    /\ SendReport(s, "started")

(* Reporter::run: heartbeats until the host drains.                         *)
Heartbeat(s) ==
    /\ stage[s] = "up"
    /\ reporter[s].kind # "draining"
    /\ reporter[s].sequence + 1 < MaxSequence
    /\ SendReport(s, "heartbeat")
    /\ UNCHANGED stage

Draining(s) ==
    /\ stage[s] = "up"
    /\ reporter[s].kind # "draining"
    /\ reporter[s].sequence + 1 < MaxSequence
    /\ SendReport(s, "draining")
    /\ UNCHANGED stage

Stopped(s) ==
    /\ stage[s] = "up"
    /\ stage' = [stage EXCEPT ![s] = "down"]
    /\ SendReport(s, "stopped")

(* The host dies, during its launch or later, and reports nothing.          *)
Crash(s) ==
    /\ stage[s] \in {"launching", "up"}
    /\ stage' = [stage EXCEPT ![s] = "down"]
    /\ UNCHANGED <<wired, reporter, mail, usage, updates, landed, noted, slots, known, tokens,
                   lapsed>>

LoseReport(m) ==
    /\ m \in mail
    /\ mail' = mail \ {m}
    /\ UNCHANGED <<wired, stage, reporter, usage, updates, landed, noted, slots, known, tokens,
                   lapsed>>

-----------------------------------------------------------------------------
(* LifecycleStore::record: usage and admission see the report side by side. *)

RevisionPlain(m, estimated) == m.sequence + (IF estimated THEN 1 ELSE 0)

(* An estimate lies between the report it is based on and the next one.     *)
Revision(m, estimated) == 2 * m.sequence + (IF estimated THEN 1 ELSE 0)

UpdateOf(m, estimated) ==
    [session |-> m.session, revision |-> Revision(m, estimated), estimated |-> estimated,
     ended |-> estimated \/ m.kind = "stopped"]

(* UsageSessions::observe ignores what is old and what follows a stop.      *)
Stale(m) ==
    usage[m.session] # Never /\
        (m.sequence <= usage[m.session].sequence \/ usage[m.session].kind = "stopped")

(* record_usage: starts and stops always make an update, other reports when *)
(* they correct an estimate. (If the store has recorded a report and its    *)
(* answer is lost, the correction is as good as lost.)                      *)
RecordUsage(m) ==
    LET boundary == m.kind \in {"started", "stopped"}
        corrects == ~Stale(m) /\ usage[m.session] # Never /\ usage[m.session].estimated
    IN  \/ /\ usage' = IF Stale(m) THEN usage ELSE [usage EXCEPT ![m.session] =
                 [sequence |-> m.sequence, kind |-> m.kind, estimated |-> FALSE]]
           /\ updates' = updates \cup (IF boundary \/ corrects THEN {UpdateOf(m, FALSE)} ELSE {})
           /\ noted' = noted \cup {m}
        \/ \* the session store fails
           /\ updates' = updates \cup (IF boundary THEN {UpdateOf(m, FALSE)} ELSE {})
           /\ UNCHANGED <<usage, noted>>

(* ReservationStore::observe: a report renews the slot, or takes it again.  *)
Observe(m) ==
    LET s == m.session IN
    IF known[s] # Never /\ (known[s].stopped \/ m.sequence <= known[s].sequence)
    THEN UNCHANGED <<slots, known, lapsed>>
    ELSE /\ known' = [known EXCEPT ![s] =
              [sequence |-> m.sequence, stopped |-> m.kind = "stopped"]]
         /\ slots' = IF m.kind = "stopped" THEN slots \ {s} ELSE slots \cup {s}
         /\ lapsed' = IF s \in slots THEN lapsed ELSE lapsed \cup {s}

Record(m) ==
    /\ m \in mail
    /\ mail' = mail \ {m}
    /\ IF "usage" \in wired THEN RecordUsage(m) ELSE UNCHANGED <<usage, updates, noted>>
    /\ \/ "limits" \in wired /\ Observe(m)
       \/ \* no limits, or their store fails
          UNCHANGED <<slots, known, lapsed>>
    /\ UNCHANGED <<wired, stage, reporter, landed, tokens>>

(* reconcile, expire: a session that was silent for STALE_AFTER_MS.         *)
EstimateStop(s) ==
    /\ usage[s] # Never
    /\ ~usage[s].estimated
    /\ usage[s].kind # "stopped"
    /\ usage' = [usage EXCEPT ![s].estimated = TRUE]
    /\ updates' = updates \cup
         {UpdateOf([session |-> s, sequence |-> usage[s].sequence, kind |-> usage[s].kind], TRUE)}
    /\ UNCHANGED <<wired, stage, reporter, mail, landed, noted, slots, known, tokens, lapsed>>

(* publish_usage: each update has a task of its own, which takes its time,  *)
(* or fails: then the update is never published.                            *)
PublishUsage(u) ==
    /\ u \in updates \ landed
    /\ landed' = landed \cup {u}
    /\ UNCHANGED <<wired, stage, reporter, mail, usage, updates, noted, slots, known, tokens,
                   lapsed>>

-----------------------------------------------------------------------------
HostSessionStep(s) ==
    \/ LaunchSession(s) \/ Release(s) \/ StartSession(s) \/ Heartbeat(s) \/ Draining(s)
    \/ Stopped(s) \/ Crash(s) \/ SlotExpires(s) \/ EstimateStop(s)

LifecycleNext ==
    \/ \E s \in Session : HostSessionStep(s)
    \/ \E m \in mail : Record(m) \/ LoseReport(m)
    \/ \E u \in updates : PublishUsage(u)
    \/ Refill

LifecycleSpec == LifecycleInit /\ [][LifecycleNext]_lifecycleVars

-----------------------------------------------------------------------------
Top(s) == CHOOSE u \in landed :
    u.session = s /\ \A v \in landed : v.session = s => v.revision <= u.revision

(* Whoever reads the published usage in whatever order and keeps the        *)
(* highest revision learns the truth: each revision says one thing; the     *)
(* real stop, once published, stands; and a later report of the session was *)
(* recorded against an estimated stop only if its correction is still to be *)
(* published, or was lost.                                                  *)
UsageConverges ==
    \A s \in Session : (\E u \in landed : u.session = s) =>
        /\ \A u, v \in landed :
             u.session = s /\ v.session = s /\ u.revision = v.revision => u = v
        /\ (\E u \in landed : u.session = s /\ u.ended /\ ~u.estimated)
             => Top(s).ended /\ ~Top(s).estimated
        /\ Top(s).estimated =>
             \A m \in noted : m.session = s =>
                 \/ 2 * m.sequence <= Top(s).revision
                 \/ \E u \in updates \ landed :
                      u.session = s /\ ~u.estimated /\ u.revision > Top(s).revision

(* The quota: sessions that were admitted and never silent for longer than  *)
(* their lease never hold more than max_active_actors slots together.       *)
QuotaHeld == Cardinality(slots \ lapsed) <= MaxActive

=============================================================================
