----------------------------- MODULE Ownership -----------------------------
(***************************************************************************)
(* Who may write the state of one actor, and which state the next owner    *)
(* starts from.                                                            *)
(*                                                                         *)
(* A host session claims the actor by replacing one ownership record       *)
(* (compare-and-swap on the object's generation), keeps the claim alive by *)
(* renewing the lease in that record, writes immutable snapshots under the *)
(* prefix of its epoch, and releases the record when it stops, sealed with *)
(* the last snapshot when the shutdown was clean.  Sessions run on         *)
(* different machines: every compare-and-swap, read and snapshot write is  *)
(* a step of its own, time passes between any two of them, and a session   *)
(* may die at any point.                                                   *)
(*                                                                         *)
(* Abstractions.  A SnapshotRef holds a digest of the object it names, so  *)
(* it stands for the snapshot itself.  The state in a snapshot is the set  *)
(* of writes it contains; a write is its <<epoch, version>>.  "No          *)
(* snapshot" is the snapshot at position <<0, 0>>, and "no record" the     *)
(* record of generation 0: activation treats an absent record like a       *)
(* sealed one with an empty base.  An error reply after the effect took    *)
(* place (replace() re-reads, then gives up) is the lost reply of a        *)
(* renewal, and Crash everywhere else, where the caller gives up too.      *)
(***************************************************************************)
EXTENDS Integers, FiniteSets

CONSTANTS
    Session,        \* host sessions; a session activates at most once
    NoSession,      \* owner of the record before the first activation
    Duration,       \* lease duration
    Margin,         \* the fence gives up this long before the lease does
    MaxSkew,        \* hosts' clocks are 0 .. MaxSkew ahead of the slowest one
    LogFences,      \* TRUE: recovery fences the old log (Rapid); FALSE: bucket
    DrainCompletes, \* TRUE: no write starts once the host's drain is over
    MaxTime,        \* bound on the clock
    MaxGen,         \* bound on the generation of a record that is renewed
    MaxVersion      \* bound on the state version

ASSUME SessionAssumption == NoSession \notin Session
ASSUME TimingAssumption ==
    /\ Duration \in Nat /\ Margin \in Nat /\ MaxSkew \in Nat
    /\ MaxTime \in Nat /\ MaxGen \in Nat /\ MaxVersion \in Nat
    /\ Margin <= Duration
ASSUME FlagAssumption == LogFences \in BOOLEAN /\ DrainCompletes \in BOOLEAN
\* A store that does not fence relies on clocks that agree up to the margin.
ASSUME SkewAssumption == LogFences \/ MaxSkew <= Margin

VARIABLES
    now, skew,                    \* the slowest clock, each host's offset from it
    authority, store, fenced,     \* ownership record, snapshots, fenced epochs
    pc, hinted, seen,             \* activation: where it is, what it read
    own, state,                   \* RuntimeStorage.owned, the resident state
    started, deadline, cut, stop, \* LeaseFence and the host's stop token
    wr, wsnap,                    \* the write in progress
    rn, rgen, rexp, rstart,       \* the renewal in progress
    seal, chk, relgen, tries,     \* the release in progress
    acked                         \* history: acknowledged writes

shared == <<authority, store, fenced>>
activation == <<pc, hinted, seen, own, state, started>>
fence == <<deadline, cut, stop>>
writing == <<wr, wsnap>>
renewing == <<rn, rgen, rexp, rstart>>
releasing == <<seal, chk, relgen, tries>>
vars == <<now, skew, shared, activation, fence, writing, renewing, releasing, acked>>

Position == Nat \X Nat
Snapshot == [epoch : Nat, version : Nat, writes : SUBSET Position]
NoSnapshot == [epoch |-> 0, version |-> 0, writes |-> {}]
Record == [gen : Nat, epoch : Nat, owner : Session \cup {NoSession},
           expires : Nat, sealed : BOOLEAN, base : Snapshot]
NoRecord == [gen |-> 0, epoch |-> 0, owner |-> NoSession,
             expires |-> 0, sealed |-> TRUE, base |-> NoSnapshot]
PCs == {"idle", "assigned", "retry", "loaded", "recovered", "unrecovered", "claimed",
        "unloaded", "active", "draining", "drained", "releasing", "releaseCas",
        "released", "failed"}

TypeOK ==
    /\ now \in Nat /\ skew \in [Session -> 0..MaxSkew]
    /\ authority \in Record /\ store \subseteq Snapshot /\ fenced \subseteq Nat
    /\ pc \in [Session -> PCs] /\ hinted \in [Session -> BOOLEAN]
    /\ seen \in [Session -> Record] /\ own \in [Session -> Record]
    /\ state \in [Session -> Snapshot] /\ started \in [Session -> Nat]
    /\ deadline \in [Session -> Nat] /\ cut \in [Session -> BOOLEAN]
    /\ stop \in [Session -> BOOLEAN]
    /\ wr \in [Session -> {"idle", "sent", "landed", "failed", "reloading"}]
    /\ wsnap \in [Session -> Snapshot]
    /\ rn \in [Session -> {"idle", "cas", "reply"}] /\ rgen \in [Session -> Nat]
    /\ rexp \in [Session -> Nat] /\ rstart \in [Session -> Nat]
    /\ seal \in [Session -> BOOLEAN] /\ chk \in [Session -> Snapshot]
    /\ relgen \in [Session -> Nat] /\ tries \in [Session -> Nat]
    /\ acked \subseteq Position

Init ==
    /\ now = 1 /\ skew \in [Session -> 0..MaxSkew] /\ \E s \in Session : skew[s] = 0
    /\ authority = NoRecord /\ store = {} /\ fenced = {}
    /\ pc = [s \in Session |-> "idle"] /\ hinted = [s \in Session |-> FALSE]
    /\ seen = [s \in Session |-> NoRecord] /\ own = [s \in Session |-> NoRecord]
    /\ state = [s \in Session |-> NoSnapshot] /\ started = [s \in Session |-> 0]
    /\ deadline = [s \in Session |-> 0] /\ cut = [s \in Session |-> FALSE]
    /\ stop = [s \in Session |-> FALSE]
    /\ wr = [s \in Session |-> "idle"] /\ wsnap = [s \in Session |-> NoSnapshot]
    /\ rn = [s \in Session |-> "idle"] /\ rgen = [s \in Session |-> 0]
    /\ rexp = [s \in Session |-> 0] /\ rstart = [s \in Session |-> 0]
    /\ seal = [s \in Session |-> FALSE] /\ chk = [s \in Session |-> NoSnapshot]
    /\ relgen = [s \in Session |-> 0] /\ tries = [s \in Session |-> 0]
    /\ acked = {}

-----------------------------------------------------------------------------
(* Helpers                                                                 *)

\* The clock session s stamps and compares leases with.
Clock(s) == now + skew[s]

\* snapshot_position orders by epoch, then by version.
Newer(a, b) ==
    \/ a.epoch > b.epoch
    \/ a.epoch = b.epoch /\ a.version > b.version

\* SnapshotStore::latest under the prefix of the record's epoch, and load_latest: the
\* newest of those snapshots and the record's base.
Newest(S) == CHOOSE x \in S : \A y \in S : ~Newer(y, x)
Candidates(snapshots, rec) == {x \in snapshots : x.epoch = rec.epoch} \cup {rec.base}
Latest(rec) == Newest(Candidates(store, rec))

\* load_latest: otherwise "acknowledged snapshot is unavailable".
Readable(x) == x \in store \cup {NoSnapshot}

\* ensure_authority: not stopped, and the fence's deadline has not passed.
HasAuthority(s) == ~stop[s] /\ ~cut[s] /\ deadline[s] > now

\* ensure_write_owner: the locally owned lease has not expired.
OwnsWrite(s) == own[s].expires > Clock(s)

\* A session that is over forgets what it knew; requests it already sent remain.
Forget(s) ==
    /\ hinted' = [hinted EXCEPT ![s] = FALSE]
    /\ seen' = [seen EXCEPT ![s] = NoRecord]
    /\ own' = [own EXCEPT ![s] = NoRecord]
    /\ state' = [state EXCEPT ![s] = NoSnapshot]
    /\ started' = [started EXCEPT ![s] = 0]
    /\ deadline' = [deadline EXCEPT ![s] = 0]
    /\ cut' = [cut EXCEPT ![s] = TRUE]
    /\ seal' = [seal EXCEPT ![s] = FALSE]
    /\ chk' = [chk EXCEPT ![s] = NoSnapshot]
    /\ relgen' = [relgen EXCEPT ![s] = 0]
    /\ tries' = [tries EXCEPT ![s] = 0]

-----------------------------------------------------------------------------
(* Activation                                                              *)

\* The control plane reads the record while routing and assigns a fresh session
\* to the actor, with that record as its hint (or as "new actor" when absent).
Assign(s) ==
    /\ pc[s] = "idle"
    /\ pc' = [pc EXCEPT ![s] = "assigned"]
    /\ seen' = [seen EXCEPT ![s] = authority]
    /\ UNCHANGED <<now, skew, shared, hinted, own, state, started, fence, writing,
                    renewing, releasing, acked>>

\* Only a sealed, expired hint is used; a new actor needs no read either.
HintUsable(s) == seen[s].gen > 0 /\ seen[s].sealed /\ seen[s].expires <= Clock(s)

\* register_activation on the hint, or on "no record" for a new actor.
UseHint(s) ==
    /\ pc[s] = "assigned"
    /\ seen[s].gen = 0 \/ HintUsable(s)
    /\ pc' = [pc EXCEPT ![s] = "loaded"]
    /\ hinted' = [hinted EXCEPT ![s] = seen[s].gen > 0]
    /\ started' = [started EXCEPT ![s] = now]
    /\ UNCHANGED <<now, skew, shared, seen, own, state, fence, writing, renewing,
                    releasing, acked>>

\* register_activation on the record itself...
LoadOwner(s) ==
    /\ pc[s] = "assigned" /\ seen[s].gen > 0 /\ ~HintUsable(s)
    /\ pc' = [pc EXCEPT ![s] = "loaded"]
    /\ seen' = [seen EXCEPT ![s] = authority]
    /\ started' = [started EXCEPT ![s] = now]
    /\ UNCHANGED <<now, skew, shared, hinted, own, state, fence, writing, renewing, releasing,
                    acked>>

\* ...or in the second round, after the hint proved stale.
ReloadAfterHint(s) ==
    /\ pc[s] = "retry"
    /\ pc' = [pc EXCEPT ![s] = "loaded"]
    /\ hinted' = [hinted EXCEPT ![s] = FALSE]
    /\ seen' = [seen EXCEPT ![s] = authority]
    /\ UNCHANGED <<now, skew, shared, own, state, started, fence, writing, renewing, releasing,
                    acked>>

\* validate_activation: the previous lease has expired on this host's clock.
CanActivate(s) == seen[s].expires <= Clock(s)

\* activation_record: the next epoch, stamped with this host's clock.
ActivationRecord(s, base) ==
    [gen |-> seen[s].gen + 1, epoch |-> seen[s].epoch + 1, owner |-> s,
     expires |-> Clock(s) + Duration, sealed |-> FALSE, base |-> base]

\* recover_activation of a sealed (or absent) record: its base is read while the
\* claim is under way...
RecoverSealed(s) ==
    /\ pc[s] = "loaded" /\ CanActivate(s) /\ seen[s].sealed
    /\ Readable(seen[s].base)
    /\ own' = [own EXCEPT ![s] = ActivationRecord(s, seen[s].base)]
    /\ state' = [state EXCEPT ![s] = seen[s].base]
    /\ pc' = [pc EXCEPT ![s] = "recovered"]
    /\ UNCHANGED <<now, skew, shared, hinted, seen, started, fence, writing, renewing,
                    releasing, acked>>

\* ...and the read may fail.
RecoverFails(s) ==
    /\ pc[s] = "loaded" /\ CanActivate(s) /\ seen[s].sealed
    /\ seen[s].base # NoSnapshot
    /\ own' = [own EXCEPT ![s] = ActivationRecord(s, seen[s].base)]
    /\ pc' = [pc EXCEPT ![s] = "unrecovered"]
    /\ UNCHANGED <<now, skew, shared, hinted, seen, state, started, fence, writing, renewing,
                    releasing, acked>>

\* Mutant of RecoverUnsealed: the old log is read but not fenced.
RecoverUnsealedUnfenced(s) ==
    /\ pc[s] = "loaded" /\ CanActivate(s) /\ ~seen[s].sealed
    /\ Readable(Latest(seen[s]))
    /\ own' = [own EXCEPT ![s] = ActivationRecord(s, Latest(seen[s]))]
    /\ state' = [state EXCEPT ![s] = Latest(seen[s])]
    /\ pc' = [pc EXCEPT ![s] = "recovered"]
    /\ UNCHANGED <<now, skew, shared, hinted, seen, started, fence, writing, renewing,
                    releasing, acked>>

\* recover_activation of an unsealed record, before the claim: the old stream is
\* fenced when the store can, and the newest snapshot becomes the base.
RecoverUnsealed(s) ==
    /\ pc[s] = "loaded" /\ CanActivate(s) /\ ~seen[s].sealed
    /\ fenced' = IF LogFences THEN fenced \cup {seen[s].epoch} ELSE fenced
    /\ Readable(Latest(seen[s]))
    /\ own' = [own EXCEPT ![s] = ActivationRecord(s, Latest(seen[s]))]
    /\ state' = [state EXCEPT ![s] = Latest(seen[s])]
    /\ pc' = [pc EXCEPT ![s] = "recovered"]
    /\ UNCHANGED <<now, skew, authority, store, hinted, seen, started, fence, writing,
                    renewing, releasing, acked>>

\* "previous owner lease is still active"
RefuseActivation(s) ==
    /\ pc[s] = "loaded" /\ ~CanActivate(s)
    /\ pc' = [pc EXCEPT ![s] = "failed"]
    /\ Forget(s)
    /\ UNCHANGED <<now, skew, shared, stop, writing, renewing, acked>>

\* claim_activation: the compare-and-swap.
Claim(s) ==
    /\ pc[s] \in {"recovered", "unrecovered"} /\ authority.gen = seen[s].gen
    /\ authority' = own[s]
    /\ pc' = [pc EXCEPT ![s] = IF pc[s] = "recovered" THEN "claimed" ELSE "unloaded"]
    /\ seen' = [seen EXCEPT ![s] = NoRecord]
    /\ UNCHANGED <<now, skew, store, fenced, hinted, own, state, started, fence, writing,
                    renewing, releasing, acked>>

\* Only a stale hint is tried again, on the record itself...
ClaimStale(s) ==
    /\ pc[s] \in {"recovered", "unrecovered"} /\ authority.gen # seen[s].gen
    /\ hinted[s]
    /\ pc' = [pc EXCEPT ![s] = "retry"]
    /\ UNCHANGED <<now, skew, shared, hinted, seen, own, state, started, fence, writing,
                    renewing, releasing, acked>>

\* ...otherwise "actor activation changed concurrently".
ClaimLost(s) ==
    /\ pc[s] \in {"recovered", "unrecovered"} /\ authority.gen # seen[s].gen
    /\ ~hinted[s]
    /\ pc' = [pc EXCEPT ![s] = "failed"]
    /\ Forget(s)
    /\ UNCHANGED <<now, skew, shared, stop, writing, renewing, acked>>

\* The claim won but its base could not be read: give the record back, sealed.
AbandonClaim(s) ==
    /\ pc[s] = "unloaded"
    /\ pc' = [pc EXCEPT ![s] = "releasing"]
    /\ seal' = [seal EXCEPT ![s] = TRUE]
    /\ chk' = [chk EXCEPT ![s] = own[s].base]
    /\ UNCHANGED <<now, skew, shared, hinted, seen, own, state, started, fence, writing,
                    renewing, relgen, tries, acked>>

\* Mutant of Window: the fence is as long as the lease.
WindowUnsafe(start) == start + Duration

\* LeaseFence::confirm: the window runs from before the request was sent.
Window(start) == start + (Duration - Margin)

\* The stream is open and the record remembered: the lease is confirmed...
Confirm(s) ==
    /\ pc[s] = "claimed" /\ Window(started[s]) > now
    /\ pc' = [pc EXCEPT ![s] = "active"]
    /\ deadline' = [deadline EXCEPT ![s] = Window(started[s])]
    /\ started' = [started EXCEPT ![s] = 0]
    /\ hinted' = [hinted EXCEPT ![s] = FALSE]
    /\ UNCHANGED <<now, skew, shared, seen, own, state, cut, stop, writing, renewing,
                    releasing, acked>>

\* ...unless the safe window is already over.
ConfirmLate(s) ==
    /\ pc[s] = "claimed" /\ Window(started[s]) <= now
    /\ pc' = [pc EXCEPT ![s] = "failed"]
    /\ Forget(s)
    /\ UNCHANGED <<now, skew, shared, stop, writing, renewing, acked>>

-----------------------------------------------------------------------------
(* Lease renewal                                                           *)

Registered == {"active", "draining", "drained"}

\* Mutant of RenewLoad: renewals go on after finish() has closed the fence.
RenewLoadUnfenced(s) ==
    /\ pc[s] \in Registered \cup {"releasing", "releaseCas"} /\ rn[s] = "idle"
    /\ authority.owner = s /\ authority.expires > Clock(s) /\ authority.gen < MaxGen
    /\ rn' = [rn EXCEPT ![s] = "cas"]
    /\ rgen' = [rgen EXCEPT ![s] = authority.gen]
    /\ rexp' = [rexp EXCEPT ![s] = Clock(s) + Duration]
    /\ rstart' = [rstart EXCEPT ![s] = now]
    /\ UNCHANGED <<now, skew, shared, activation, fence, writing, releasing, acked>>

\* register after the first time: LeaseFence::begin, then renew_activation up to
\* its compare-and-swap.
RenewLoad(s) ==
    /\ pc[s] \in Registered /\ rn[s] = "idle"
    /\ ~cut[s] /\ deadline[s] > now
    /\ authority.owner = s /\ authority.expires > Clock(s) /\ authority.gen < MaxGen
    /\ rn' = [rn EXCEPT ![s] = "cas"]
    /\ rgen' = [rgen EXCEPT ![s] = authority.gen]
    /\ rexp' = [rexp EXCEPT ![s] = Clock(s) + Duration]
    /\ rstart' = [rstart EXCEPT ![s] = now]
    /\ UNCHANGED <<now, skew, shared, activation, fence, writing, releasing, acked>>

RenewEnds(s) ==
    /\ rn' = [rn EXCEPT ![s] = "idle"]
    /\ rgen' = [rgen EXCEPT ![s] = 0]
    /\ rexp' = [rexp EXCEPT ![s] = 0]
    /\ rstart' = [rstart EXCEPT ![s] = 0]

\* Mutant of RenewCas: the lease is stored whatever the generation is.
RenewPut(s) ==
    /\ rn[s] = "cas"
    /\ authority' = [authority EXCEPT !.gen = @ + 1, !.expires = rexp[s]]
    /\ rn' = [rn EXCEPT ![s] = "reply"]
    /\ rgen' = [rgen EXCEPT ![s] = 0]
    /\ UNCHANGED <<now, skew, store, fenced, activation, fence, writing, rexp, rstart,
                    releasing, acked>>

\* save_activation: an unchanged generation means an unchanged record, so only the
\* lease differs from what is stored.
RenewCas(s) ==
    /\ rn[s] = "cas" /\ authority.gen = rgen[s]
    /\ authority' = [authority EXCEPT !.gen = @ + 1, !.expires = rexp[s]]
    /\ rn' = [rn EXCEPT ![s] = "reply"]
    /\ rgen' = [rgen EXCEPT ![s] = 0]
    /\ UNCHANGED <<now, skew, store, fenced, activation, fence, writing, rexp, rstart,
                    releasing, acked>>

RenewConflict(s) ==
    /\ rn[s] = "cas" /\ authority.gen # rgen[s]
    /\ RenewEnds(s)
    /\ UNCHANGED <<now, skew, shared, activation, fence, writing, releasing, acked>>

\* register after the first time, second half: the owned record is updated and the
\* fence confirmed.  Once finish() has closed the fence nothing reads either.
RenewReply(s) ==
    /\ rn[s] = "reply" /\ pc[s] \in Registered
    /\ ~cut[s] /\ deadline[s] > now /\ Window(rstart[s]) > now
    /\ RenewEnds(s)
    /\ own' = [own EXCEPT ![s].expires = rexp[s]]
    /\ deadline' = [deadline EXCEPT ![s] = Window(rstart[s])]
    /\ UNCHANGED <<now, skew, shared, pc, hinted, seen, state, started, cut, stop, writing,
                    releasing, acked>>

\* A window that closed before, or while the reply travelled, fences the session for
\* good.
RenewLate(s) ==
    /\ rn[s] = "reply" /\ pc[s] \in Registered
    /\ deadline[s] <= now \/ Window(rstart[s]) <= now
    /\ RenewEnds(s)
    /\ own' = [own EXCEPT ![s].expires = rexp[s]]
    /\ cut' = [cut EXCEPT ![s] = TRUE]
    /\ UNCHANGED <<now, skew, shared, pc, hinted, seen, state, started, deadline, stop,
                    writing, releasing, acked>>

\* The renewal was stored but its reply never came back, or is no longer read.
RenewLost(s) ==
    /\ rn[s] = "reply"
    /\ RenewEnds(s)
    /\ UNCHANGED <<now, skew, shared, activation, fence, writing, releasing, acked>>

-----------------------------------------------------------------------------
(* Writing state                                                           *)

\* Requests run while the host is active; when the drain timed out they still run
\* until the log stream is closed.
Serving(s) ==
    \/ pc[s] = "active"
    \/ ~DrainCompletes /\ pc[s] \in {"draining", "drained"}
       /\ ~(LogFences /\ pc[s] = "drained" /\ seal[s])

Written(s) == <<own[s].epoch, state[s].version + 1>>

\* ActorPersistence::write_snapshot up to the put: authority and ownership are
\* checked, the upload is counted as started.
StartWrite(s) ==
    /\ Serving(s) /\ wr[s] = "idle"
    /\ HasAuthority(s) /\ OwnsWrite(s)
    /\ state[s].version < MaxVersion
    /\ wr' = [wr EXCEPT ![s] = "sent"]
    /\ wsnap' = [wsnap EXCEPT ![s] =
                    [epoch |-> own[s].epoch, version |-> state[s].version + 1,
                     writes |-> state[s].writes \cup {Written(s)}]]
    /\ UNCHANGED <<now, skew, shared, activation, fence, renewing, releasing, acked>>

\* The store makes the snapshot durable; a fenced log refuses.
Land(s) ==
    /\ wr[s] = "sent"
    /\ wsnap[s].epoch \notin fenced
    /\ store' = store \cup {wsnap[s]}
    /\ wr' = [wr EXCEPT ![s] = "landed"]
    /\ UNCHANGED <<now, skew, authority, fenced, activation, fence, wsnap, renewing, releasing,
                    acked>>

\* The put succeeded and ownership still holds: the upload counts as completed, and
\* the write is acknowledged...
Acknowledge(s) ==
    /\ wr[s] = "landed" /\ pc[s] # "failed" /\ OwnsWrite(s)
    /\ HasAuthority(s)
    /\ wr' = [wr EXCEPT ![s] = "idle"]
    /\ wsnap' = [wsnap EXCEPT ![s] = NoSnapshot]
    /\ state' = [state EXCEPT ![s] = wsnap[s]]
    /\ acked' = acked \cup {<<wsnap[s].epoch, wsnap[s].version>>}
    /\ UNCHANGED <<now, skew, shared, pc, hinted, seen, own, started, fence, renewing,
                    releasing>>

\* ...unless the fence closed meanwhile, which stops the host.
FenceWrite(s) ==
    /\ wr[s] = "landed" /\ pc[s] # "failed" /\ OwnsWrite(s)
    /\ ~HasAuthority(s)
    /\ wr' = [wr EXCEPT ![s] = "idle"]
    /\ wsnap' = [wsnap EXCEPT ![s] = NoSnapshot]
    /\ state' = [state EXCEPT ![s] = wsnap[s]]
    /\ stop' = [stop EXCEPT ![s] = TRUE]
    /\ UNCHANGED <<now, skew, shared, pc, hinted, seen, own, started, deadline, cut, renewing,
                    releasing, acked>>

\* The put failed, its reply was lost, or ownership lapsed: started stays ahead of
\* completed, and the drop guard stops the host.
FailWrite(s) ==
    /\ wr[s] \in {"sent", "landed"}
    /\ wr' = [wr EXCEPT ![s] = "failed"]
    /\ wsnap' = [wsnap EXCEPT ![s] = NoSnapshot]
    /\ stop' = [stop EXCEPT ![s] = TRUE]
    /\ UNCHANGED <<now, skew, shared, activation, deadline, cut, renewing, releasing, acked>>

\* load_actor_state after the resident database was dropped: the record is read...
ReloadOwner(s) ==
    /\ Serving(s) /\ wr[s] = "idle" /\ HasAuthority(s)
    /\ authority.owner = s /\ authority.epoch = own[s].epoch
    /\ wr' = [wr EXCEPT ![s] = "reloading"]
    /\ seen' = [seen EXCEPT ![s] = authority]
    /\ UNCHANGED <<now, skew, shared, pc, hinted, own, state, started, fence, wsnap, renewing,
                    releasing, acked>>

\* ...and then its newest snapshot; remember() keeps both.
ReloadState(s) ==
    /\ wr[s] = "reloading" /\ pc[s] \notin {"released", "failed"} /\ Readable(Latest(seen[s]))
    /\ wr' = [wr EXCEPT ![s] = "idle"]
    /\ own' = [own EXCEPT ![s] = seen[s]]
    /\ state' = [state EXCEPT ![s] = Latest(seen[s])]
    /\ seen' = [seen EXCEPT ![s] = NoRecord]
    /\ UNCHANGED <<now, skew, shared, pc, hinted, started, fence, wsnap, renewing, releasing,
                    acked>>

-----------------------------------------------------------------------------
(* Shutdown                                                                *)

\* Mutant of Drain: the checkpoint is taken while an upload is in progress.
DrainEarly(s) ==
    /\ pc[s] = "active"
    /\ pc' = [pc EXCEPT ![s] = "draining"]
    /\ seal' = [seal EXCEPT ![s] = TRUE]
    /\ chk' = [chk EXCEPT ![s] = state[s]]
    /\ UNCHANGED <<now, skew, shared, hinted, seen, own, state, started, fence, writing,
                    renewing, relgen, tries, acked>>

\* drain_activation, first half: upload_checkpoint takes the newest uploaded snapshot.
Drain(s) ==
    /\ pc[s] = "active" /\ wr[s] \in {"idle", "reloading"}
    /\ pc' = [pc EXCEPT ![s] = "draining"]
    /\ seal' = [seal EXCEPT ![s] = TRUE]
    /\ chk' = [chk EXCEPT ![s] = state[s]]
    /\ UNCHANGED <<now, skew, shared, hinted, seen, own, state, started, fence, writing,
                    renewing, relgen, tries, acked>>

\* "snapshot uploads did not complete successfully": left to recovery.
DrainFails(s) ==
    /\ pc[s] = "active" /\ wr[s] \notin {"idle", "reloading"}
    /\ pc' = [pc EXCEPT ![s] = "drained"]
    /\ UNCHANGED <<now, skew, shared, hinted, seen, own, state, started, fence, writing,
                    renewing, releasing, acked>>

\* drain_activation, second half: SnapshotStore::finish.  A log waits for the put
\* that holds its session; a bucket has nothing to do.
FinishStore(s) ==
    /\ pc[s] = "draining" /\ (LogFences => wr[s] # "sent")
    /\ pc' = [pc EXCEPT ![s] = "drained"]
    /\ UNCHANGED <<now, skew, shared, hinted, seen, own, state, started, fence, writing,
                    renewing, releasing, acked>>

\* Closing the log failed or ran out of time: "clean session shutdown deferred to
\* recovery".
FinishFails(s) ==
    /\ pc[s] = "draining" /\ LogFences
    /\ pc' = [pc EXCEPT ![s] = "drained"]
    /\ seal' = [seal EXCEPT ![s] = FALSE]
    /\ UNCHANGED <<now, skew, shared, hinted, seen, own, state, started, fence, writing,
                    renewing, chk, relgen, tries, acked>>

\* finish closes the fence before it gives the record back.
CloseFence(s) ==
    /\ pc[s] = "drained"
    /\ pc' = [pc EXCEPT ![s] = "releasing"]
    /\ cut' = [cut EXCEPT ![s] = TRUE]
    /\ UNCHANGED <<now, skew, shared, hinted, seen, own, state, started, deadline, stop,
                    writing, renewing, releasing, acked>>

\* release_with_checkpoint.  After three attempts it gives up, which
\* ReleaseTriesSuffice shows never happens.
ReleaseLoad(s) ==
    /\ pc[s] = "releasing" /\ tries[s] < 3
    /\ authority.owner = s /\ authority.expires # 0
    /\ pc' = [pc EXCEPT ![s] = "releaseCas"]
    /\ relgen' = [relgen EXCEPT ![s] = authority.gen]
    /\ UNCHANGED <<now, skew, shared, hinted, seen, own, state, started, fence, writing,
                    renewing, seal, chk, tries, acked>>

\* Nothing to do: the record is no longer ours.
ReleaseMoot(s) ==
    /\ pc[s] = "releasing" /\ tries[s] < 3
    /\ authority.owner # s \/ authority.expires = 0
    /\ pc' = [pc EXCEPT ![s] = "released"]
    /\ Forget(s)
    /\ UNCHANGED <<now, skew, shared, stop, writing, renewing, acked>>

Released(s) ==
    [authority EXCEPT !.gen = @ + 1, !.expires = 0,
                      !.base = IF seal[s] THEN chk[s] ELSE @,
                      !.sealed = @ \/ seal[s]]

ReleaseCas(s) ==
    /\ pc[s] = "releaseCas" /\ authority.gen = relgen[s]
    /\ authority' = Released(s)
    /\ pc' = [pc EXCEPT ![s] = "released"]
    /\ Forget(s)
    /\ UNCHANGED <<now, skew, store, fenced, stop, writing, renewing, acked>>

ReleaseConflict(s) ==
    /\ pc[s] = "releaseCas" /\ authority.gen # relgen[s]
    /\ pc' = [pc EXCEPT ![s] = "releasing"]
    /\ tries' = [tries EXCEPT ![s] = @ + 1]
    /\ relgen' = [relgen EXCEPT ![s] = 0]
    /\ UNCHANGED <<now, skew, shared, hinted, seen, own, state, started, fence, writing,
                    renewing, seal, chk, acked>>

\* The process dies, or a storage error ends it.  Requests it already sent (a put, a
\* renewal) may still take effect: Land and RenewCas do not ask for a live sender.
Crash(s) ==
    /\ pc[s] \notin {"idle", "released", "failed"}
    /\ pc' = [pc EXCEPT ![s] = "failed"]
    /\ stop' = [stop EXCEPT ![s] = TRUE]
    /\ Forget(s)
    /\ UNCHANGED <<now, skew, shared, writing, renewing, acked>>

Tick ==
    /\ now < MaxTime
    /\ now' = now + 1
    /\ UNCHANGED <<skew, shared, activation, fence, writing, renewing, releasing, acked>>

Activate(s) ==
    \/ Assign(s) \/ UseHint(s) \/ LoadOwner(s) \/ ReloadAfterHint(s)
    \/ RecoverSealed(s) \/ RecoverFails(s) \/ RecoverUnsealed(s) \/ RefuseActivation(s)
    \/ Claim(s) \/ ClaimStale(s) \/ ClaimLost(s) \/ AbandonClaim(s)
    \/ Confirm(s) \/ ConfirmLate(s)

Renew(s) ==
    \/ RenewLoad(s) \/ RenewCas(s) \/ RenewConflict(s)
    \/ RenewReply(s) \/ RenewLate(s) \/ RenewLost(s)

Write(s) ==
    \/ StartWrite(s) \/ Land(s) \/ Acknowledge(s) \/ FenceWrite(s) \/ FailWrite(s)
    \/ ReloadOwner(s) \/ ReloadState(s)

Shutdown(s) ==
    \/ FinishStore(s) \/ FinishFails(s) \/ CloseFence(s)
    \/ ReleaseLoad(s) \/ ReleaseMoot(s) \/ ReleaseCas(s) \/ ReleaseConflict(s)

Next ==
    \/ Tick
    \/ \E s \in Session : Activate(s) \/ Renew(s) \/ Write(s) \/ Drain(s)
                           \/ DrainFails(s) \/ Shutdown(s) \/ Crash(s)

Spec == Init /\ [][Next]_vars

-----------------------------------------------------------------------------
(* Properties                                                              *)

\* What a session that starts from this record recovers.
Recoverable(rec) == IF rec.sealed THEN rec.base ELSE Latest(rec)

\* Every acknowledged write is in the state the next owner starts from.
\* (write_snapshot, recover_activation, release_with_checkpoint)
AckedSurvives == acked \subseteq Recoverable(authority).writes

\* Two owners never acknowledge two different writes of one version: there is one
\* history, whatever the interleaving of claims, expiries and late writes.
OneHistory == \A a, b \in acked : a[2] = b[2] => a = b

\* Without log fencing the lease alone separates owners: while a session passes
\* ensure_authority, no other session holds the record.
ExclusiveAuthority ==
    \A s \in Session :
        ~LogFences /\ pc[s] \in Registered /\ HasAuthority(s) => authority.owner = s

\* release_with_checkpoint never uses up its three attempts: only one renewal can
\* be in flight, and a new owner ends the loop.
ReleaseTriesSuffice == \A s \in Session : tries[s] < 3

\* "Ownership CAS prevents an in-flight renewal from reviving the released lease."
ReleasedNotRevived ==
    [][authority.gen > 0 /\ authority.expires = 0 /\ authority'.owner = authority.owner
        => authority'.expires = 0]_vars

\* With log fencing, the state a reader of the record sees never loses a write, not
\* even one whose outcome its owner never learned.  (For a log with one replica; what
\* a read of several, some of them unavailable, returns is RapidLog's subject.)
VisibleGrows ==
    [][LogFences => Recoverable(authority).writes \subseteq Recoverable(authority)'.writes]_vars

=============================================================================
