--------------------------- MODULE RapidLogProofs ---------------------------
(* For any number of zones, frames and recoveries: a replicated segment     *)
(* keeps what LogPromise says of a log, a replicated marker covers every    *)
(* acknowledged frame, and replicas are deleted only once Standard has them.*)
EXTENDS RapidLog, TLAPS

TypeOK ==
    /\ len \in [Zone -> Nat] /\ fenced \in [Zone -> BOOLEAN] /\ gone \in [Zone -> BOOLEAN]
    /\ arch \in Nat /\ closed \subseteq Nat /\ replicated \subseteq Nat
    /\ wpc \in {"healthy", "flushing", "unhealthy", "retired"}
    /\ flushed \subseteq Zone /\ acked \in Nat
    /\ apc \in {"run", "close", "drain", "cleanup", "failed", "done"} /\ through \in Nat
    /\ rpc \in [Recoverer -> {"start", "archived", "replicas", "unread", "recheck", "reread",
                              "closed", "batch", "close", "mark", "latest", "final"}]
    /\ mark \in [Recoverer -> SUBSET Nat] /\ got \in [Recoverer -> BOOLEAN]
    /\ base \in [Recoverer -> Nat] /\ best \in [Recoverer -> Nat]
    /\ spc \in {"idle", "closed", "complete", "mark", "cleanup"} /\ sweep \in Nat

(* No frame beyond the first n is acknowledged any more: a replica that     *)
(* does not hold it is fenced, or the writer has retired the segment.       *)
Seals(n) ==
    \/ \E z \in Zone : fenced[z] /\ len[z] <= n
    \/ wpc = "retired" /\ acked <= n

(* Every replica holds what is acknowledged, and the next frame too when it *)
(* has flushed it.                                                          *)
WriterInv ==
    /\ \A z \in Zone : acked <= len[z]
    /\ wpc = "flushing" => \A z \in flushed : acked < len[z]

(* A marker is only made for a length that seals the segment; a replicated  *)
(* one is unique and archived, every result of a recovery is its length,    *)
(* and it comes before the first deletion.                                  *)
MarkerInv ==
    /\ \A n \in closed : Seals(n)
    /\ \A n \in replicated : Seals(n) /\ n <= arch
    /\ \A m, n \in replicated : m = n
    /\ recovered \subseteq replicated
    /\ \A z \in Zone : gone[z] => replicated # {}

ArchiverInv ==
    /\ through <= arch
    /\ apc \in {"close", "drain"} => wpc = "retired"

(* What a recovery has read seals the segment from the first replica on,    *)
(* and is archived before it is marked.                                     *)
RecoveryInv(r) ==
    /\ rpc[r] \in {"archived", "final"} => mark[r] \subseteq replicated
    /\ got[r] => rpc[r] = "replicas" /\ Seals(best[r])
    /\ rpc[r] \in {"recheck", "reread", "closed", "batch", "close", "mark"} => Seals(best[r])
    /\ rpc[r] \in {"closed", "batch"} => base[r] <= arch
    /\ rpc[r] \in {"close", "mark"} => best[r] <= arch

SweeperInv == spc = "mark" => Seals(sweep) /\ sweep <= arch

IInv ==
    /\ TypeOK /\ WriterInv /\ MarkerInv /\ ArchiverInv /\ SweeperInv
    /\ \A r \in Recoverer : RecoveryInv(r)

-----------------------------------------------------------------------------
(* The larger of two lengths.                                               *)
LEMMA MaxOfTwo ==
    ASSUME NEW m \in Nat, NEW n \in Nat
    PROVE  Max({m, n}) \in {m, n} /\ m <= Max({m, n}) /\ n <= Max({m, n})
<1>1. \E x \in {m, n} : \A y \in {m, n} : x >= y
  OBVIOUS
<1> QED
  BY <1>1 DEF Max

(* put_batch never shortens the archive.                                    *)
LEMMA BatchGrows ==
    ASSUME NEW n \in Nat, arch \in Nat, PutBatch(n)
    PROVE  arch' \in Nat /\ arch <= arch' /\ n <= arch'
BY MaxOfTwo DEF PutBatch

(* What every step respects: a sealed length stays sealed, and neither the  *)
(* archive nor the replicated marker shrinks.                               *)
Grows ==
    /\ \A n \in Nat : Seals(n) => Seals(n)'
    /\ arch' \in Nat /\ arch <= arch' /\ replicated \subseteq replicated'

(* The parts of the invariant whose own variables a step leaves alone.      *)
LEMMA Frame ==
    ASSUME IInv, Grows
    PROVE  /\ UNCHANGED <<len, wpc, flushed, acked>> => WriterInv'
           /\ UNCHANGED <<closed, replicated, recovered, gone>> => MarkerInv'
           /\ UNCHANGED <<wpc, apc, through>> => ArchiverInv'
           /\ UNCHANGED <<spc, sweep>> => SweeperInv'
           /\ \A r \in Recoverer :
                UNCHANGED <<rpc[r], mark[r], got[r], best[r], base[r]>> => RecoveryInv(r)'
<1>1. UNCHANGED <<len, wpc, flushed, acked>> => WriterInv'
  BY DEF IInv, WriterInv
<1>2. UNCHANGED <<closed, replicated, recovered, gone>> => MarkerInv'
  BY DEF IInv, TypeOK, MarkerInv, Grows
<1>3. UNCHANGED <<wpc, apc, through>> => ArchiverInv'
  BY DEF IInv, TypeOK, ArchiverInv, Grows
<1>4. UNCHANGED <<spc, sweep>> => SweeperInv'
  BY DEF IInv, TypeOK, SweeperInv, Grows
<1>5. ASSUME NEW r \in Recoverer, UNCHANGED <<rpc[r], mark[r], got[r], best[r], base[r]>>
      PROVE  RecoveryInv(r)'
  BY <1>5 DEF IInv, TypeOK, RecoveryInv, Grows
<1> QED
  BY <1>1, <1>2, <1>3, <1>4, <1>5

(* The writer keeps the invariant.                                          *)
LEMMA WriteKeeps == ASSUME IInv, Write PROVE IInv'
<1> USE DEF replicas, archive, writer, archiver, recovery, sweeper
<1>1. CASE Append
  <2>1. Grows
    BY <1>1 DEF Append, IInv, TypeOK, Grows, Seals
  <2>2. TypeOK'
    BY <1>1 DEF Append, IInv, TypeOK
  <2>3. WriterInv'
    BY <1>1, <2>1 DEF Append, IInv, TypeOK, WriterInv, Grows
  <2>4. ArchiverInv'
    BY <1>1, <2>1 DEF Append, IInv, TypeOK, ArchiverInv, Grows
  <2> QED
    BY <1>1, <2>1, <2>2, <2>3, <2>4, Frame DEF Append, IInv, TypeOK
<1>2. CASE Acknowledge
  <2>1. Grows
    BY <1>2 DEF Acknowledge, IInv, TypeOK, Grows, Seals
  <2>2. TypeOK'
    BY <1>2 DEF Acknowledge, IInv, TypeOK
  <2>3. WriterInv'
    BY <1>2, <2>1 DEF Acknowledge, IInv, TypeOK, WriterInv, Grows
  <2>4. ArchiverInv'
    BY <1>2, <2>1 DEF Acknowledge, IInv, TypeOK, ArchiverInv, Grows
  <2> QED
    BY <1>2, <2>1, <2>2, <2>3, <2>4, Frame DEF Acknowledge, IInv, TypeOK
<1>3. CASE AppendFails
  <2>1. Grows
    BY <1>3 DEF AppendFails, IInv, TypeOK, Grows, Seals
  <2>2. TypeOK'
    BY <1>3 DEF AppendFails, IInv, TypeOK
  <2>3. WriterInv'
    BY <1>3, <2>1 DEF AppendFails, IInv, TypeOK, WriterInv, Grows
  <2>4. ArchiverInv'
    BY <1>3, <2>1 DEF AppendFails, IInv, TypeOK, ArchiverInv, Grows
  <2> QED
    BY <1>3, <2>1, <2>2, <2>3, <2>4, Frame DEF AppendFails, IInv, TypeOK
<1>4. CASE Retire
  <2>1. Grows
    BY <1>4 DEF Retire, IInv, TypeOK, Grows, Seals
  <2>2. TypeOK'
    BY <1>4 DEF Retire, IInv, TypeOK
  <2>3. WriterInv'
    BY <1>4, <2>1 DEF Retire, IInv, TypeOK, WriterInv, Grows
  <2>4. ArchiverInv'
    BY <1>4, <2>1 DEF Retire, IInv, TypeOK, ArchiverInv, Grows
  <2> QED
    BY <1>4, <2>1, <2>2, <2>3, <2>4, Frame DEF Retire, IInv, TypeOK
<1>5. ASSUME NEW z \in Zone, Flush(z) PROVE IInv'
  <2>1. Grows
    BY <1>5 DEF Flush, IInv, TypeOK, Grows, Seals
  <2>2. TypeOK'
    BY <1>5 DEF Flush, IInv, TypeOK
  <2>3. WriterInv'
    BY <1>5, <2>1 DEF Flush, IInv, TypeOK, WriterInv, Grows
  <2> QED
    BY <1>5, <2>1, <2>2, <2>3, Frame DEF Flush, IInv, TypeOK
<1> QED
  BY <1>1, <1>2, <1>3, <1>4, <1>5 DEF Write

(* So do the archiver and the deletion of replicas.                         *)
LEMMA ArchiveKeeps == ASSUME IInv, Archive PROVE IInv'
<1> USE DEF replicas, archive, writer, archiver, recovery, sweeper
<1>1. CASE ArchiverCloses
  <2>1. Grows
    BY <1>1 DEF ArchiverCloses, MayCreate, IInv, TypeOK, Grows, Seals
  <2>2. TypeOK'
    BY <1>1 DEF ArchiverCloses, MayCreate, IInv, TypeOK
  <2>3. MarkerInv'
    <3>1. \A n \in Nat : n = acked => Seals(n)'
      BY <1>1 DEF ArchiverCloses, Seals, IInv, TypeOK, ArchiverInv
    <3> QED
      BY <1>1, <2>1, <3>1 DEF ArchiverCloses, MayCreate, IInv, TypeOK, MarkerInv, ArchiverInv, Grows
  <2>4. ArchiverInv'
    BY <1>1, <2>1 DEF ArchiverCloses, MayCreate, IInv, TypeOK, ArchiverInv, Grows
  <2> QED
    BY <1>1, <2>1, <2>2, <2>3, <2>4, Frame DEF ArchiverCloses, MayCreate, IInv, TypeOK
<1>2. CASE ArchiverFails
  <2>1. Grows
    BY <1>2 DEF ArchiverFails, IInv, TypeOK, Grows, Seals
  <2>2. TypeOK'
    BY <1>2 DEF ArchiverFails, IInv, TypeOK
  <2>3. ArchiverInv'
    BY <1>2, <2>1 DEF ArchiverFails, IInv, TypeOK, ArchiverInv, Grows
  <2> QED
    BY <1>2, <2>1, <2>2, <2>3, Frame DEF ArchiverFails, IInv, TypeOK
<1>3. CASE ArchiverUploads
  <2>1. Grows
    BY <1>3, BatchGrows DEF ArchiverUploads, IInv, TypeOK, Grows, Seals
  <2>2. TypeOK'
    BY <1>3, BatchGrows DEF ArchiverUploads, IInv, TypeOK
  <2>3. ArchiverInv'
    BY <1>3, BatchGrows, <2>1 DEF ArchiverUploads, IInv, TypeOK, ArchiverInv, Grows
  <2> QED
    BY <1>3, <2>1, <2>2, <2>3, Frame DEF ArchiverUploads, IInv, TypeOK
<1>4. CASE ArchiverReplicates
  <2>1. Grows
    BY <1>4 DEF ArchiverReplicates, MayCreate, IInv, TypeOK, Grows, Seals
  <2>2. TypeOK'
    BY <1>4 DEF ArchiverReplicates, MayCreate, IInv, TypeOK
  <2>3. MarkerInv'
    <3>1. \A n \in Nat : n = acked => Seals(n)'
      BY <1>4 DEF ArchiverReplicates, Seals, IInv, TypeOK, ArchiverInv
    <3> QED
      BY <1>4, <2>1, <3>1 DEF ArchiverReplicates, MayCreate, IInv, TypeOK, MarkerInv, ArchiverInv, Grows
  <2>4. ArchiverInv'
    BY <1>4, <2>1 DEF ArchiverReplicates, MayCreate, IInv, TypeOK, ArchiverInv, Grows
  <2> QED
    BY <1>4, <2>1, <2>2, <2>3, <2>4, Frame DEF ArchiverReplicates, MayCreate, IInv, TypeOK
<1>5. CASE ArchiverCleans
  <2>1. Grows
    BY <1>5 DEF ArchiverCleans, IInv, TypeOK, Grows, Seals
  <2>2. TypeOK'
    BY <1>5 DEF ArchiverCleans, IInv, TypeOK
  <2>3. ArchiverInv'
    BY <1>5, <2>1 DEF ArchiverCleans, IInv, TypeOK, ArchiverInv, Grows
  <2> QED
    BY <1>5, <2>1, <2>2, <2>3, Frame DEF ArchiverCleans, IInv, TypeOK
<1>6. ASSUME NEW z \in Zone, DeleteReplica(z) PROVE IInv'
  <2>1. Grows
    BY <1>6 DEF DeleteReplica, IInv, TypeOK, Grows, Seals
  <2>2. TypeOK'
    BY <1>6 DEF DeleteReplica, IInv, TypeOK
  <2>3. MarkerInv'
    BY <1>6, <2>1 DEF DeleteReplica, IInv, TypeOK, MarkerInv, Grows
  <2> QED
    BY <1>6, <2>1, <2>2, <2>3, Frame DEF DeleteReplica, IInv, TypeOK
<1> QED
  BY <1>1, <1>2, <1>3, <1>4, <1>5, <1>6 DEF Archive

(* So does every step of a recovery.                                        *)
LEMMA RecoverKeeps == ASSUME IInv, NEW r \in Recoverer, Recover(r) PROVE IInv'
<1> USE DEF replicas, archive, writer, archiver, recovery, sweeper
<1>1. CASE RecoveryFails(r)
  <2>1. Grows
    BY <1>1 DEF RecoveryFails, Restart, IInv, TypeOK, Grows, Seals
  <2>2. TypeOK'
    BY <1>1 DEF RecoveryFails, Restart, IInv, TypeOK
  <2>3. RecoveryInv(r)'
    BY <1>1, <2>1 DEF RecoveryFails, Restart, IInv, TypeOK, RecoveryInv, Grows
  <2> QED
    BY <1>1, <2>1, <2>2, <2>3, Frame DEF RecoveryFails, Restart, IInv, TypeOK
<1>2. CASE ReadReplicated(r)
  <2>1. Grows
    BY <1>2 DEF ReadReplicated, Goto, IInv, TypeOK, Grows, Seals
  <2>2. TypeOK'
    BY <1>2 DEF ReadReplicated, Goto, IInv, TypeOK
  <2>3. RecoveryInv(r)'
    BY <1>2, <2>1 DEF ReadReplicated, Goto, IInv, TypeOK, RecoveryInv, Grows
  <2> QED
    BY <1>2, <2>1, <2>2, <2>3, Frame DEF ReadReplicated, Goto, IInv, TypeOK
<1>3. CASE ReadArchive(r)
  <2>1. Grows
    BY <1>3 DEF ReadArchive, Goto, Complete, IInv, TypeOK, Grows, Seals
  <2>2. TypeOK'
    BY <1>3 DEF ReadArchive, Goto, Complete, IInv, TypeOK
  <2>3. RecoveryInv(r)'
    <3>1. mark[r] # {} => Seals(arch)
      BY <1>3 DEF ReadArchive, Complete, IInv, TypeOK, MarkerInv, RecoveryInv
    <3> QED
      BY <1>3, <2>1, <3>1 DEF ReadArchive, Goto, Complete, IInv, TypeOK, RecoveryInv, Grows
  <2> QED
    BY <1>3, <2>1, <2>2, <2>3, Frame DEF ReadArchive, Goto, Complete, IInv, TypeOK
<1>4. CASE ReplicasRead(r)
  <2>1. Grows
    BY <1>4 DEF ReplicasRead, Goto, IInv, TypeOK, Grows, Seals
  <2>2. TypeOK'
    BY <1>4 DEF ReplicasRead, Goto, IInv, TypeOK
  <2>3. RecoveryInv(r)'
    BY <1>4, <2>1 DEF ReplicasRead, Goto, IInv, TypeOK, RecoveryInv, Grows
  <2> QED
    BY <1>4, <2>1, <2>2, <2>3, Frame DEF ReplicasRead, Goto, IInv, TypeOK
<1>5. CASE RetryReplicated(r)
  <2>1. Grows
    BY <1>5 DEF RetryReplicated, Goto, IInv, TypeOK, Grows, Seals
  <2>2. TypeOK'
    BY <1>5 DEF RetryReplicated, Goto, IInv, TypeOK
  <2>3. RecoveryInv(r)'
    BY <1>5, <2>1 DEF RetryReplicated, Goto, IInv, TypeOK, RecoveryInv, Grows
  <2> QED
    BY <1>5, <2>1, <2>2, <2>3, Frame DEF RetryReplicated, Goto, IInv, TypeOK
<1>6. CASE RecheckReplicated(r)
  <2>1. Grows
    BY <1>6 DEF RecheckReplicated, Goto, IInv, TypeOK, Grows, Seals
  <2>2. TypeOK'
    BY <1>6 DEF RecheckReplicated, Goto, IInv, TypeOK
  <2>3. RecoveryInv(r)'
    BY <1>6, <2>1 DEF RecheckReplicated, Goto, IInv, TypeOK, RecoveryInv, Grows
  <2> QED
    BY <1>6, <2>1, <2>2, <2>3, Frame DEF RecheckReplicated, Goto, IInv, TypeOK
<1>7. CASE RereadArchive(r)
  <2>1. Grows
    BY <1>7 DEF RereadArchive, Goto, IInv, TypeOK, Grows, Seals
  <2>2. TypeOK'
    BY <1>7 DEF RereadArchive, Goto, IInv, TypeOK
  <2>3. RecoveryInv(r)'
    BY <1>7, <2>1 DEF RereadArchive, Goto, IInv, TypeOK, RecoveryInv, Grows
  <2> QED
    BY <1>7, <2>1, <2>2, <2>3, Frame DEF RereadArchive, Goto, IInv, TypeOK
<1>8. CASE ReadClosed(r)
  <2>1. Grows
    BY <1>8 DEF ReadClosed, Goto, IInv, TypeOK, Grows, Seals
  <2>2. TypeOK'
    BY <1>8 DEF ReadClosed, Goto, IInv, TypeOK
  <2>3. RecoveryInv(r)'
    BY <1>8, <2>1 DEF ReadClosed, Goto, IInv, TypeOK, RecoveryInv, Grows
  <2> QED
    BY <1>8, <2>1, <2>2, <2>3, Frame DEF ReadClosed, Goto, IInv, TypeOK
<1>9. CASE PutTail(r)
  <2>1. Grows
    BY <1>9, BatchGrows DEF PutTail, IInv, TypeOK, Grows, Seals
  <2>2. TypeOK'
    BY <1>9, BatchGrows DEF PutTail, IInv, TypeOK
  <2>3. RecoveryInv(r)'
    BY <1>9, BatchGrows, <2>1 DEF PutTail, IInv, TypeOK, RecoveryInv, Grows
  <2> QED
    BY <1>9, <2>1, <2>2, <2>3, Frame DEF PutTail, IInv, TypeOK
<1>10. CASE TailDone(r)
  <2>1. Grows
    BY <1>10 DEF TailDone, Goto, IInv, TypeOK, Grows, Seals
  <2>2. TypeOK'
    BY <1>10 DEF TailDone, Goto, IInv, TypeOK
  <2>3. RecoveryInv(r)'
    BY <1>10, <2>1 DEF TailDone, Goto, IInv, TypeOK, RecoveryInv, Grows
  <2> QED
    BY <1>10, <2>1, <2>2, <2>3, Frame DEF TailDone, Goto, IInv, TypeOK
<1>11. CASE CloseSegment(r)
  <2>1. Grows
    BY <1>11 DEF CloseSegment, Goto, MayCreate, IInv, TypeOK, Grows, Seals
  <2>2. TypeOK'
    BY <1>11 DEF CloseSegment, Goto, MayCreate, IInv, TypeOK
  <2>3. MarkerInv'
    <3>1. \A n \in Nat : n = best[r] => Seals(n)'
      BY <1>11, <2>1 DEF CloseSegment, IInv, TypeOK, RecoveryInv, Grows
    <3> QED
      BY <1>11, <2>1, <3>1 DEF CloseSegment, MayCreate, IInv, TypeOK, MarkerInv, RecoveryInv, Grows
  <2>4. RecoveryInv(r)'
    BY <1>11, <2>1 DEF CloseSegment, Goto, MayCreate, IInv, TypeOK, RecoveryInv, Grows
  <2> QED
    BY <1>11, <2>1, <2>2, <2>3, <2>4, Frame DEF CloseSegment, Goto, MayCreate, IInv, TypeOK
<1>12. CASE MarkReplicated(r)
  <2>1. Grows
    BY <1>12 DEF MarkReplicated, Goto, MayCreate, IInv, TypeOK, Grows, Seals
  <2>2. TypeOK'
    BY <1>12 DEF MarkReplicated, Goto, MayCreate, IInv, TypeOK
  <2>3. MarkerInv'
    <3>1. \A n \in Nat : n = best[r] => Seals(n)'
      BY <1>12, <2>1 DEF MarkReplicated, IInv, TypeOK, RecoveryInv, Grows
    <3> QED
      BY <1>12, <2>1, <3>1 DEF MarkReplicated, MayCreate, IInv, TypeOK, MarkerInv, RecoveryInv, Grows
  <2>4. RecoveryInv(r)'
    BY <1>12, <2>1 DEF MarkReplicated, Goto, MayCreate, IInv, TypeOK, RecoveryInv, Grows
  <2> QED
    BY <1>12, <2>1, <2>2, <2>3, <2>4, Frame DEF MarkReplicated, Goto, MayCreate, IInv, TypeOK
<1>13. CASE LatestMarker(r)
  <2>1. Grows
    BY <1>13 DEF LatestMarker, Goto, IInv, TypeOK, Grows, Seals
  <2>2. TypeOK'
    BY <1>13 DEF LatestMarker, Goto, IInv, TypeOK
  <2>3. RecoveryInv(r)'
    BY <1>13, <2>1 DEF LatestMarker, Goto, IInv, TypeOK, RecoveryInv, Grows
  <2> QED
    BY <1>13, <2>1, <2>2, <2>3, Frame DEF LatestMarker, Goto, IInv, TypeOK
<1>14. CASE LatestArchive(r)
  <2>1. Grows
    BY <1>14 DEF LatestArchive, Restart, Complete, IInv, TypeOK, Grows, Seals
  <2>2. TypeOK'
    BY <1>14 DEF LatestArchive, Restart, Complete, IInv, TypeOK
  <2>3. MarkerInv'
    <3>0. arch \in replicated
      BY <1>14 DEF LatestArchive, Complete, IInv, RecoveryInv
    <3>1. arch \in replicated /\ recovered \cup {arch} = {arch}
      BY <3>0 DEF IInv, MarkerInv
    <3>2. Max({arch, arch}) = arch /\ {arch, arch} = {arch}
      BY MaxOfTwo DEF IInv, TypeOK
    <3>3. recovered' = {arch}
      BY <1>14, <3>1, <3>2 DEF LatestArchive
    <3> QED
      BY <1>14, <2>1, <3>1, <3>3 DEF LatestArchive, Restart, IInv, TypeOK, MarkerInv, Grows
  <2>4. RecoveryInv(r)'
    BY <1>14, <2>1 DEF LatestArchive, Restart, Complete, IInv, TypeOK, RecoveryInv, Grows
  <2> QED
    BY <1>14, <2>1, <2>2, <2>3, <2>4, Frame DEF LatestArchive, Restart, Complete, IInv, TypeOK
<1>15. ASSUME NEW z \in Zone, ReadReplica(r, z) PROVE IInv'
  <2>1. Grows
    BY <1>15, MaxOfTwo DEF ReadReplica, IInv, TypeOK, Grows, Seals
  <2>2. TypeOK'
    BY <1>15, MaxOfTwo DEF ReadReplica, IInv, TypeOK
  <2>3. RecoveryInv(r)'
    <3>1. best'[r] \in Nat /\ len[z] <= best'[r]
      BY <1>15, MaxOfTwo DEF ReadReplica, IInv, TypeOK
    <3>2. Seals(best[r])'
      BY <1>15, <3>1 DEF ReadReplica, Seals, IInv, TypeOK
    <3> QED
      BY <1>15, <2>1, <3>2 DEF ReadReplica, IInv, TypeOK, RecoveryInv, Grows
  <2> QED
    BY <1>15, <2>1, <2>2, <2>3, Frame DEF ReadReplica, IInv, TypeOK
<1>16. ASSUME NEW z \in Zone, SkipReplica(r, z) PROVE IInv'
  <2>1. Grows
    BY <1>16 DEF SkipReplica, IInv, TypeOK, Grows, Seals
  <2>2. TypeOK'
    BY <1>16 DEF SkipReplica, IInv, TypeOK
  <2>3. RecoveryInv(r)'
    BY <1>16, <2>1 DEF SkipReplica, IInv, TypeOK, RecoveryInv, Grows
  <2> QED
    BY <1>16, <2>1, <2>2, <2>3, Frame DEF SkipReplica, IInv, TypeOK
<1> QED
  BY <1>1, <1>2, <1>3, <1>4, <1>5, <1>6, <1>7, <1>8, <1>9, <1>10, <1>11, <1>12, <1>13, <1>14, <1>15, <1>16 DEF Recover

(* And the sweeper.                                                         *)
LEMMA SweepKeeps == ASSUME IInv, Sweep PROVE IInv'
<1> USE DEF replicas, archive, writer, archiver, recovery, sweeper
<1>1. CASE SweepStart
  <2>1. Grows
    BY <1>1 DEF SweepStart, IInv, TypeOK, Grows, Seals
  <2>2. TypeOK'
    BY <1>1 DEF SweepStart, IInv, TypeOK
  <2>3. SweeperInv'
    BY <1>1, <2>1 DEF SweepStart, IInv, TypeOK, SweeperInv, Grows
  <2> QED
    BY <1>1, <2>1, <2>2, <2>3, Frame DEF SweepStart, IInv, TypeOK
<1>2. CASE SweepReplicated
  <2>1. Grows
    BY <1>2 DEF SweepReplicated, IInv, TypeOK, Grows, Seals
  <2>2. TypeOK'
    BY <1>2 DEF SweepReplicated, IInv, TypeOK
  <2>3. SweeperInv'
    BY <1>2, <2>1 DEF SweepReplicated, IInv, TypeOK, SweeperInv, Grows
  <2> QED
    BY <1>2, <2>1, <2>2, <2>3, Frame DEF SweepReplicated, IInv, TypeOK
<1>3. CASE SweepUploads
  <2>1. Grows
    <3>1. PICK n \in Frames : PutBatch(n) /\ sweep' = n
      BY <1>3 DEF SweepUploads
    <3>2. n \in Nat
      BY FramesAssumption DEF Frames
    <3> QED
      BY <1>3, <3>1, <3>2, BatchGrows DEF SweepUploads, IInv, TypeOK, Grows, Seals
  <2>2. TypeOK'
    <3>1. PICK n \in Frames : PutBatch(n) /\ sweep' = n
      BY <1>3 DEF SweepUploads
    <3>2. n \in Nat
      BY FramesAssumption DEF Frames
    <3> QED
      BY <1>3, <3>1, <3>2, BatchGrows DEF SweepUploads, IInv, TypeOK
  <2>3. SweeperInv'
    BY <1>3, BatchGrows, FramesAssumption, <2>1 DEF SweepUploads, IInv, TypeOK, SweeperInv, Grows
  <2> QED
    BY <1>3, <2>1, <2>2, <2>3, Frame DEF SweepUploads, IInv, TypeOK
<1>4. CASE SweepCompletes
  <2>1. Grows
    BY <1>4 DEF SweepCompletes, Complete, IInv, TypeOK, Grows, Seals
  <2>2. TypeOK'
    BY <1>4 DEF SweepCompletes, Complete, IInv, TypeOK
  <2>3. SweeperInv'
    <3>1. Seals(sweep) /\ sweep = arch
      BY <1>4 DEF SweepCompletes, Complete, IInv, MarkerInv
    <3> QED
      BY <1>4, <2>1, <3>1 DEF SweepCompletes, IInv, TypeOK, SweeperInv, Grows
  <2> QED
    BY <1>4, <2>1, <2>2, <2>3, Frame DEF SweepCompletes, Complete, IInv, TypeOK
<1>5. CASE SweepMarks
  <2>1. Grows
    BY <1>5 DEF SweepMarks, MayCreate, IInv, TypeOK, Grows, Seals
  <2>2. TypeOK'
    BY <1>5 DEF SweepMarks, MayCreate, IInv, TypeOK
  <2>3. MarkerInv'
    <3>1. \A n \in Nat : n = sweep => Seals(n)'
      BY <1>5, <2>1 DEF SweepMarks, IInv, TypeOK, SweeperInv, Grows
    <3> QED
      BY <1>5, <2>1, <3>1 DEF SweepMarks, MayCreate, IInv, TypeOK, MarkerInv, SweeperInv, Grows
  <2>4. SweeperInv'
    BY <1>5, <2>1 DEF SweepMarks, MayCreate, IInv, TypeOK, SweeperInv, Grows
  <2> QED
    BY <1>5, <2>1, <2>2, <2>3, <2>4, Frame DEF SweepMarks, MayCreate, IInv, TypeOK
<1>6. CASE SweepEnds
  <2>1. Grows
    BY <1>6 DEF SweepEnds, IInv, TypeOK, Grows, Seals
  <2>2. TypeOK'
    BY <1>6 DEF SweepEnds, IInv, TypeOK
  <2>3. SweeperInv'
    BY <1>6, <2>1 DEF SweepEnds, IInv, TypeOK, SweeperInv, Grows
  <2> QED
    BY <1>6, <2>1, <2>2, <2>3, Frame DEF SweepEnds, IInv, TypeOK
<1> QED
  BY <1>1, <1>2, <1>3, <1>4, <1>5, <1>6 DEF Sweep

-----------------------------------------------------------------------------
(* A new segment satisfies the invariant.                                   *)
LEMMA Initially == Init => IInv
BY DEF Init, IInv, TypeOK, WriterInv, MarkerInv, ArchiverInv, SweeperInv, RecoveryInv

(* Every step preserves it.                                                 *)
LEMMA Inductive == IInv /\ [Next]_vars => IInv'
<1> SUFFICES ASSUME IInv, [Next]_vars PROVE IInv'
  OBVIOUS
<1>1. CASE UNCHANGED vars
  BY <1>1 DEF vars, replicas, archive, writer, archiver, recovery, sweeper, IInv, TypeOK, WriterInv,
     MarkerInv, ArchiverInv, SweeperInv, RecoveryInv, Seals
<1> QED
  BY <1>1, WriteKeeps, ArchiveKeeps, RecoverKeeps, SweepKeeps DEF Next

(* What seals a length is at least as long as what is acknowledged.         *)
LEMMA SealedCovers ==
    ASSUME IInv, NEW n \in Nat, Seals(n)
    PROVE  acked <= n
BY DEF IInv, TypeOK, WriterInv, Seals

(* mark_replicated: a replicated marker is never ahead of the archive and   *)
(* covers every acknowledged frame.                                         *)
THEOREM MarkersCover == Spec => []ReplicatedCovers
<1>1. IInv => ReplicatedCovers
  BY SealedCovers DEF IInv, TypeOK, MarkerInv, ReplicatedCovers
<1> QED
  BY <1>1, Initially, Inductive, PTL DEF Spec

(* cleanup_segment: a replica is deleted only when Standard holds every     *)
(* acknowledged frame.                                                      *)
THEOREM DeletionIsSafe == Spec => []DeletedIsArchived
<1>1. IInv => DeletedIsArchived
  <2> SUFFICES ASSUME IInv, NEW z \in Zone, gone[z] PROVE acked <= arch /\ replicated # {}
    BY DEF DeletedIsArchived
  <2>1. PICK n \in replicated : n \in Nat /\ Seals(n) /\ n <= arch
    BY DEF IInv, TypeOK, MarkerInv
  <2> QED
    BY <2>1, SealedCovers DEF IInv, TypeOK
<1> QED
  BY <1>1, Initially, Inductive, PTL DEF Spec

(* The refinement: a segment is a log as the ownership protocol relies on   *)
(* it.  An acknowledged frame is held by every replica, so no result of a   *)
(* recovery ends before it; and a recovery returns what the one replicated  *)
(* marker says, whatever replicas were readable.                            *)
THEOREM SegmentKeepsPromise == Spec => KeepsPromise
<1>1. Init => Promise!Init
  BY DEF Init, Promise!Init
<1>2. ASSUME IInv, Acknowledge PROVE Promise!Acknowledge
  <2>1. ASSUME NEW n \in recovered PROVE acked < n
    <3>1. n \in Nat /\ Seals(n)
      BY <1>2 DEF IInv, TypeOK, MarkerInv
    <3>2. PICK z \in Zone : len[z] <= n
      BY <1>2, <3>1 DEF Acknowledge, Seals
    <3> QED
      BY <1>2, <3>1, <3>2 DEF Acknowledge, IInv, TypeOK, WriterInv
  <2> QED
    BY <1>2, <2>1 DEF Acknowledge, Promise!Acknowledge
<1>3. ASSUME IInv, NEW r \in Recoverer, LatestArchive(r) PROVE Promise!Recover
  <2>1. IInv'
    BY <1>3, RecoverKeeps DEF Recover
  <2>2. recovered' # {} /\ recovered \subseteq recovered' /\ UNCHANGED acked
    BY <1>3 DEF LatestArchive, writer
  <2>3. \A m, n \in recovered' : m = n
    BY <2>1 DEF IInv, MarkerInv
  <2>4. \A n \in recovered' : acked' <= n
    <3>1. \A n \in recovered' : n \in Nat /\ Seals(n)'
      BY <2>1 DEF IInv, TypeOK, MarkerInv
    <3> QED
      BY <2>1, <3>1 DEF IInv, TypeOK, WriterInv, Seals
  <2> QED
    BY <2>2, <2>3, <2>4 DEF Promise!Recover
<1>4. ASSUME Next, ~Acknowledge, \A r \in Recoverer : ~LatestArchive(r)
      PROVE  UNCHANGED <<acked, recovered>>
  <2> USE DEF replicas, archive, writer, archiver, recovery, sweeper
  <2>1. CASE Write
    BY <1>4, <2>1 DEF Write, Append, AppendFails, Retire, Flush
  <2>2. CASE Archive
    BY <2>2 DEF Archive, ArchiverCloses, ArchiverFails, ArchiverUploads, ArchiverReplicates,
       ArchiverCleans, DeleteReplica
  <2>3. CASE Sweep
    BY <2>3 DEF Sweep, SweepStart, SweepReplicated, SweepUploads, SweepCompletes, SweepMarks,
       SweepEnds
  <2>4. ASSUME NEW r \in Recoverer, Recover(r) PROVE UNCHANGED <<acked, recovered>>
    BY <1>4, <2>4 DEF Recover, RecoveryFails, ReadReplicated, ReadArchive, ReplicasRead,
       RetryReplicated, RecheckReplicated, RereadArchive, ReadClosed, PutTail, TailDone,
       CloseSegment, MarkReplicated, LatestMarker, ReadReplica, SkipReplica
  <2> QED
    BY <1>4, <2>1, <2>2, <2>3, <2>4 DEF Next
<1>5. IInv /\ [Next]_vars => [Promise!Next]_<<acked, recovered>>
  BY <1>2, <1>3, <1>4 DEF vars, writer, Promise!Next
<1> QED
  BY <1>1, <1>5, Initially, Inductive, PTL DEF Spec, KeepsPromise, Promise!Spec
=============================================================================
