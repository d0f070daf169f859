------------------------------ MODULE RapidLog ------------------------------
(***************************************************************************)
(* One segment of a Rapid log: the writer that appends frames to every     *)
(* replica, the archiver that copies acknowledged frames to Standard       *)
(* storage and retires the segment, the recoveries that fence it, and the  *)
(* sweeper that finishes retired segments and deletes their replicas.      *)
(*                                                                         *)
(* The frames of a segment are one sequence written by one session, so a   *)
(* copy of it is a length: frames 1 .. n.  Archived batches are immutable, *)
(* start where an earlier batch ended and may overlap, so the archive is a *)
(* length too.  The markers "closed" and "replicated" are create-only      *)
(* objects that hold a length; creating one again with the same content    *)
(* succeeds.  A set with at most one member stands for a marker.           *)
(***************************************************************************)
EXTENDS Naturals, FiniteSets, FiniteSetsExt

CONSTANTS
    Zone,       \* the zones of the segment's replicas
    Recoverer,  \* hosts that activate the actor and recover the segment
    MaxFrames   \* bound on the frames of the segment

ASSUME ZoneAssumption == Zone # {} /\ IsFiniteSet(Zone)
ASSUME FramesAssumption == MaxFrames \in Nat

VARIABLES
    len, fenced, gone,                 \* per zone: frames persisted, fenced, deleted
    arch, closed, replicated, cleaned, \* Standard: archived frames and markers
    wpc, pend, flushed, acked,         \* the writer
    apc, through,                      \* its archiver
    rpc, mark, base, best, tried, got, \* each recovery
    spc, sweep,                        \* the sweeper
    recovered                          \* history: results of recoveries

replicas == <<len, fenced, gone>>
archive == <<arch, closed, replicated, cleaned>>
writer == <<wpc, pend, flushed, acked>>
archiver == <<apc, through>>
recovery == <<rpc, mark, base, best, tried, got>>
sweeper == <<spc, sweep>>
vars == <<replicas, archive, writer, archiver, recovery, sweeper, recovered>>

Frames == 0..MaxFrames
Init ==
    /\ len = [z \in Zone |-> 0] /\ fenced = [z \in Zone |-> FALSE]
    /\ gone = [z \in Zone |-> FALSE]
    /\ arch = 0 /\ closed = {} /\ replicated = {} /\ cleaned = FALSE
    /\ wpc = "healthy" /\ pend = {} /\ flushed = {} /\ acked = 0
    /\ apc = "run" /\ through = 0
    /\ rpc = [r \in Recoverer |-> "start"] /\ mark = [r \in Recoverer |-> {}]
    /\ base = [r \in Recoverer |-> 0] /\ best = [r \in Recoverer |-> 0]
    /\ tried = [r \in Recoverer |-> {}] /\ got = [r \in Recoverer |-> FALSE]
    /\ spc = "idle" /\ sweep = 0
    /\ recovered = {}

-----------------------------------------------------------------------------
(* Objects of the archive                                                  *)

\* replace() of an object that must not exist: fine when it holds the same content.
MayCreate(marker, n) == marker \subseteq {n}

\* ClosedSegment::validate against what was read: "incomplete replicated segment".
Complete(marker, n) == marker = {n}

\* put_batch of frames up to n.
PutBatch(n) == arch' = Max({arch, n})

-----------------------------------------------------------------------------
(* The writer: Session::put and Segment::append                            *)

\* The frame goes to every replica; until all have flushed it the session is not
\* healthy.
Append ==
    /\ wpc = "healthy" /\ acked < MaxFrames
    /\ wpc' = "flushing" /\ pend' = Zone /\ flushed' = {}
    /\ UNCHANGED <<replicas, archive, acked, archiver, recovery, sweeper, recovered>>

\* A replica persists the frame; one that has been reopened or deleted refuses.  The
\* writer need not be waiting any more.
Flush(z) ==
    /\ z \in pend /\ ~fenced[z] /\ ~gone[z]
    /\ len' = [len EXCEPT ![z] = acked + 1]
    /\ pend' = pend \ {z}
    /\ flushed' = IF wpc = "flushing" THEN flushed \cup {z} ELSE flushed
    /\ UNCHANGED <<fenced, gone, archive, wpc, acked, archiver, recovery, sweeper, recovered>>

\* Mutant of Acknowledge: one flushed replica is enough.
AcknowledgeEarly ==
    /\ wpc = "flushing" /\ flushed # {}
    /\ wpc' = "healthy" /\ flushed' = {} /\ acked' = acked + 1
    /\ UNCHANGED <<replicas, archive, pend, archiver, recovery, sweeper, recovered>>

\* Every replica reported the expected offset: the write is acknowledged and handed
\* to the archiver.
Acknowledge ==
    /\ wpc = "flushing" /\ flushed = Zone
    /\ wpc' = "healthy" /\ flushed' = {} /\ acked' = acked + 1
    /\ UNCHANGED <<replicas, archive, pend, archiver, recovery, sweeper, recovered>>

\* A flush failed, its reply was lost or the append timed out: "uncertain write
\* requires activation recovery".  What was sent may still arrive.
AppendFails ==
    /\ wpc = "flushing"
    /\ wpc' = "unhealthy" /\ flushed' = {}
    /\ UNCHANGED <<replicas, archive, pend, acked, archiver, recovery, sweeper, recovered>>

\* rotate() or finish(): a healthy session closes the segment to further frames.
Retire ==
    /\ wpc = "healthy" /\ apc = "run"
    /\ wpc' = "retired" /\ apc' = "close"
    /\ UNCHANGED <<replicas, archive, pend, flushed, acked, through, recovery, sweeper,
                    recovered>>

-----------------------------------------------------------------------------
(* The archiver: run() of rapid/archive.rs                                 *)

\* close_segment
ArchiverCloses ==
    /\ apc = "close" /\ MayCreate(closed, acked)
    /\ closed' = {acked} /\ apc' = "drain"
    /\ UNCHANGED <<replicas, arch, replicated, cleaned, writer, through, recovery,
                    sweeper, recovered>>

\* "conflicting closed segment", "conflicting replication coverage", or the task is
\* dropped with its session.
ArchiverFails ==
    /\ apc \in {"run", "close", "drain", "cleanup"}
    /\ apc' = "failed"
    /\ UNCHANGED <<replicas, archive, writer, through, recovery, sweeper, recovered>>

\* upload() of some of the frames handed over, from the cache or from a replica.
ArchiverUploads ==
    /\ apc \in {"run", "drain"} /\ through < acked
    /\ \E n \in through + 1..acked : PutBatch(n) /\ through' = n
    /\ UNCHANGED <<replicas, closed, replicated, cleaned, writer, apc, recovery,
                    sweeper, recovered>>

\* Mutant of ArchiverReplicates: the marker does not wait for the uploads.
ArchiverReplicatesEarly ==
    /\ apc = "drain" /\ MayCreate(replicated, acked)
    /\ replicated' = {acked} /\ apc' = "cleanup"
    /\ UNCHANGED <<replicas, arch, closed, cleaned, writer, through, recovery,
                    sweeper, recovered>>

\* mark_replicated once everything is archived.
ArchiverReplicates ==
    /\ apc = "drain" /\ through = acked /\ MayCreate(replicated, acked)
    /\ replicated' = {acked} /\ apc' = "cleanup"
    /\ UNCHANGED <<replicas, arch, closed, cleaned, writer, through, recovery,
                    sweeper, recovered>>

\* Mutant of DeleteReplica: a closed segment is cleaned before it is replicated.
DeleteReplicaClosed(z) ==
    /\ apc \in {"drain", "cleanup"} \/ spc = "cleanup"
    /\ closed # {} /\ ~gone[z]
    /\ gone' = [gone EXCEPT ![z] = TRUE]
    /\ UNCHANGED <<len, fenced, archive, writer, archiver, recovery, sweeper, recovered>>

\* cleanup_segment: one replica after another...
DeleteReplica(z) ==
    /\ apc = "cleanup" \/ spc = "cleanup"
    /\ replicated # {} /\ ~gone[z]
    /\ gone' = [gone EXCEPT ![z] = TRUE]
    /\ UNCHANGED <<len, fenced, archive, writer, archiver, recovery, sweeper, recovered>>

\* ...then the cleaned marker.
ArchiverCleans ==
    /\ apc = "cleanup" /\ \A z \in Zone : gone[z]
    /\ apc' = "done" /\ cleaned' = TRUE
    /\ UNCHANGED <<replicas, arch, closed, replicated, writer, through, recovery,
                    sweeper, recovered>>

-----------------------------------------------------------------------------
(* Recovery: recover() of rapid.rs, recover_segment and read_segment       *)

\* The attempt ends with an error or with the host; the next one starts over.
Restart(r) ==
    /\ rpc' = [rpc EXCEPT ![r] = "start"] /\ mark' = [mark EXCEPT ![r] = {}]
    /\ base' = [base EXCEPT ![r] = 0] /\ best' = [best EXCEPT ![r] = 0]
    /\ tried' = [tried EXCEPT ![r] = {}] /\ got' = [got EXCEPT ![r] = FALSE]

RecoveryFails(r) ==
    /\ rpc[r] # "start"
    /\ Restart(r)
    /\ UNCHANGED <<replicas, archive, writer, archiver, sweeper, recovered>>

Goto(r, at) == rpc' = [rpc EXCEPT ![r] = at]

\* read_segment: the replicated marker...
ReadReplicated(r) ==
    /\ rpc[r] = "start"
    /\ Goto(r, "archived") /\ mark' = [mark EXCEPT ![r] = replicated]
    /\ UNCHANGED <<replicas, archive, writer, archiver, base, best, tried, got, sweeper,
                    recovered>>

\* ...and archived().  With a marker the archive alone must be complete.
ReadArchive(r) ==
    /\ rpc[r] = "archived"
    /\ \/ mark[r] = {} /\ Goto(r, "replicas")
       \/ Complete(mark[r], arch) /\ Goto(r, "recheck")
    /\ mark' = [mark EXCEPT ![r] = {}] /\ best' = [best EXCEPT ![r] = arch]
    /\ UNCHANGED <<replicas, archive, writer, archiver, base, tried, got, sweeper, recovered>>

\* read_replicas with fence: reopening a replica fences its writer, then it is read.
ReadReplica(r, z) ==
    /\ rpc[r] = "replicas" /\ z \notin tried[r] /\ ~gone[z]
    /\ fenced' = [fenced EXCEPT ![z] = TRUE] /\ pend' = pend \ {z}
    /\ best' = [best EXCEPT ![r] = Max({@, len[z]})]
    /\ tried' = [tried EXCEPT ![r] = @ \cup {z}] /\ got' = [got EXCEPT ![r] = TRUE]
    /\ UNCHANGED <<len, gone, archive, wpc, flushed, acked, archiver, rpc, mark, base, sweeper,
                    recovered>>

\* "Rapid log replica unavailable during read"
SkipReplica(r, z) ==
    /\ rpc[r] = "replicas" /\ z \notin tried[r]
    /\ tried' = [tried EXCEPT ![r] = @ \cup {z}]
    /\ UNCHANGED <<replicas, archive, writer, archiver, rpc, mark, base, best, got, sweeper,
                    recovered>>

\* One readable replica is enough; with none the archive must have become complete.
ReplicasRead(r) ==
    /\ rpc[r] = "replicas" /\ tried[r] = Zone
    /\ Goto(r, IF got[r] THEN "recheck" ELSE "unread")
    /\ tried' = [tried EXCEPT ![r] = {}] /\ got' = [got EXCEPT ![r] = FALSE]
    /\ UNCHANGED <<replicas, archive, writer, archiver, mark, base, best, sweeper, recovered>>

\* "acknowledged log is unavailable in all configured zones", unless the segment has
\* been replicated meanwhile: read_segment starts over with the marker.
RetryReplicated(r) ==
    /\ rpc[r] = "unread" /\ replicated # {}
    /\ Goto(r, "archived") /\ mark' = [mark EXCEPT ![r] = replicated]
    /\ UNCHANGED <<replicas, archive, writer, archiver, base, best, tried, got, sweeper,
                    recovered>>

\* recover_segment: done when the segment is replicated.
RecheckReplicated(r) ==
    /\ rpc[r] = "recheck"
    /\ \/ replicated # {} /\ Goto(r, "latest") /\ best' = [best EXCEPT ![r] = 0]
       \/ replicated = {} /\ Goto(r, "reread") /\ best' = best
    /\ UNCHANGED <<replicas, archive, writer, archiver, mark, base, tried, got, sweeper,
                    recovered>>

RereadArchive(r) ==
    /\ rpc[r] = "reread"
    /\ Goto(r, "closed") /\ base' = [base EXCEPT ![r] = arch]
    /\ UNCHANGED <<replicas, archive, writer, archiver, mark, best, tried, got, sweeper,
                    recovered>>

\* A closed marker must describe exactly what was read.
ReadClosed(r) ==
    /\ rpc[r] = "closed"
    /\ closed = {} \/ Complete(closed, best[r])
    /\ Goto(r, "batch")
    /\ UNCHANGED <<replicas, archive, writer, archiver, mark, base, best, tried, got, sweeper,
                    recovered>>

\* The missing tail goes to Standard, batch by batch...
PutTail(r) ==
    /\ rpc[r] = "batch" /\ base[r] < best[r]
    /\ \E n \in base[r] + 1..best[r] : PutBatch(n) /\ base' = [base EXCEPT ![r] = n]
    /\ UNCHANGED <<replicas, closed, replicated, cleaned, writer, archiver, rpc, mark,
                    best, tried, got, sweeper, recovered>>

\* ...and a missing closed marker is noticed...
TailDone(r) ==
    /\ rpc[r] = "batch" /\ base[r] >= best[r]
    /\ Goto(r, IF closed = {} THEN "close" ELSE "mark") /\ base' = [base EXCEPT ![r] = 0]
    /\ UNCHANGED <<replicas, archive, writer, archiver, mark, best, tried, got, sweeper,
                    recovered>>

\* ...and created.
CloseSegment(r) ==
    /\ rpc[r] = "close" /\ MayCreate(closed, best[r])
    /\ Goto(r, "mark") /\ closed' = {best[r]}
    /\ UNCHANGED <<replicas, arch, replicated, cleaned, writer, archiver, mark, base,
                    best, tried, got, sweeper, recovered>>

MarkReplicated(r) ==
    /\ rpc[r] = "mark" /\ MayCreate(replicated, best[r])
    /\ Goto(r, "latest") /\ replicated' = {best[r]} /\ best' = [best EXCEPT ![r] = 0]
    /\ UNCHANGED <<replicas, arch, closed, cleaned, writer, archiver, mark, base,
                    tried, got, sweeper, recovered>>

\* latest() without fence: the marker is there by now, so the archive is read...
LatestMarker(r) ==
    /\ rpc[r] = "latest"
    /\ Goto(r, "final") /\ mark' = [mark EXCEPT ![r] = replicated]
    /\ UNCHANGED <<replicas, archive, writer, archiver, base, best, tried, got, sweeper,
                    recovered>>

\* ...and the newest of it and of the snapshots stored whole is the result, which
\* is then stored whole.  Earlier results are the whole snapshots that can be newer.
LatestArchive(r) ==
    /\ rpc[r] = "final" /\ Complete(mark[r], arch)
    /\ recovered' = recovered \cup {Max(recovered \cup {arch})}
    /\ Restart(r)
    /\ UNCHANGED <<replicas, archive, writer, archiver, sweeper>>

-----------------------------------------------------------------------------
(* The sweeper of a later (or the same) session: sweep_segment             *)

SweepStart ==
    /\ spc = "idle" /\ closed # {} /\ ~cleaned
    /\ spc' = "closed"
    /\ UNCHANGED <<replicas, archive, writer, archiver, recovery, sweep, recovered>>

\* A replicated segment only needs its replicas deleted; otherwise archived() first:
\* "archive exceeds closed segment".
SweepReplicated ==
    /\ spc = "closed"
    /\ \/ replicated # {} /\ spc' = "cleanup" /\ sweep' = sweep
       \/ /\ replicated = {} /\ \A n \in closed : arch <= n
          /\ spc' = "complete" /\ sweep' = arch
    /\ UNCHANGED <<replicas, archive, writer, archiver, recovery, recovered>>

\* complete_segment: upload() from a replica that holds the range. (When none does,
\* what another worker has archived meanwhile counts, and the archive stays as it is.)
SweepUploads ==
    /\ spc = "complete"
    /\ \E n \in Frames, z \in Zone :
         /\ sweep < n /\ \A m \in closed : n <= m
         /\ ~gone[z] /\ n <= len[z]
         /\ PutBatch(n) /\ sweep' = n
    /\ UNCHANGED <<replicas, closed, replicated, cleaned, writer, archiver, recovery,
                    spc, recovered>>

\* The archive is read again and must match the closed marker...
SweepCompletes ==
    /\ spc = "complete" /\ closed = {sweep} /\ Complete(closed, arch)
    /\ spc' = "mark"
    /\ UNCHANGED <<replicas, archive, writer, archiver, recovery, sweep, recovered>>

\* ...before the segment counts as replicated.
SweepMarks ==
    /\ spc = "mark" /\ MayCreate(replicated, sweep)
    /\ spc' = "cleanup" /\ replicated' = {sweep} /\ sweep' = 0
    /\ UNCHANGED <<replicas, arch, closed, cleaned, writer, archiver, recovery,
                    recovered>>

\* After cleanup_segment, or on any error ("Rapid segment cleanup deferred").
SweepEnds ==
    /\ spc # "idle"
    /\ cleaned' = (cleaned \/ (spc = "cleanup" /\ \A z \in Zone : gone[z]))
    /\ spc' = "idle" /\ sweep' = 0
    /\ UNCHANGED <<replicas, arch, closed, replicated, writer, archiver, recovery,
                    recovered>>

-----------------------------------------------------------------------------
Write == Append \/ Acknowledge \/ AppendFails \/ Retire \/ \E z \in Zone : Flush(z)

Archive ==
    \/ ArchiverCloses \/ ArchiverFails \/ ArchiverUploads \/ ArchiverReplicates
    \/ ArchiverCleans \/ \E z \in Zone : DeleteReplica(z)

Recover(r) ==
    \/ RecoveryFails(r) \/ ReadReplicated(r) \/ ReadArchive(r) \/ ReplicasRead(r)
    \/ RetryReplicated(r) \/ RecheckReplicated(r) \/ RereadArchive(r) \/ ReadClosed(r)
    \/ PutTail(r) \/ TailDone(r) \/ CloseSegment(r) \/ MarkReplicated(r)
    \/ LatestMarker(r) \/ LatestArchive(r)
    \/ \E z \in Zone : ReadReplica(r, z) \/ SkipReplica(r, z)

Sweep ==
    \/ SweepStart \/ SweepReplicated \/ SweepUploads \/ SweepCompletes \/ SweepMarks
    \/ SweepEnds

Next == Write \/ Archive \/ Sweep \/ \E r \in Recoverer : Recover(r)

Spec == Init /\ [][Next]_vars

-----------------------------------------------------------------------------
(* Properties                                                              *)

\* The log keeps what the ownership protocol relies on: a recovery returns every
\* acknowledged write, nothing beyond it is acknowledged later, and all recoveries
\* agree, whichever replicas each of them could read.
Promise == INSTANCE LogPromise WITH acked <- acked, recovered <- recovered
KeepsPromise == Promise!Spec

\* A replica is deleted only when Standard holds every acknowledged frame.
\* ("cannot delete unreplicated segment")
DeletedIsArchived == (\E z \in Zone : gone[z]) => acked <= arch /\ replicated # {}

\* What the markers say is archived: a replicated marker is never ahead of the archive
\* and covers every acknowledged frame.
ReplicatedCovers == \A n \in replicated : acked <= n /\ n <= arch

\* A partially flushed segment remains recoverable: no step ever leaves the archive
\* longer than the replicated marker says, which every later read refuses
\* ("incomplete replicated segment").
RemainsRecoverable == \A n \in replicated : arch = n
=============================================================================
