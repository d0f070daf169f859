-------------------------- MODULE OwnershipProofs ---------------------------
(***************************************************************************)
(* Type correctness of Ownership, and the facts the safety proof rests on: *)
(* what Newest returns, the parts of the inductive invariant a step of one *)
(* session leaves alone (Untouched), and the reduction of a step that      *)
(* changes nothing shared to the invariant of its session (LocalStep).     *)
(***************************************************************************)
EXTENDS OwnershipInv, TLAPS

USE SessionAssumption, TimingAssumption, FlagAssumption

\* The constants have their types.
LEMMA Constants == NoSnapshot \in Snapshot /\ NoRecord \in Record
  BY DEF NoRecord, Record, NoSnapshot, Snapshot, Position

\* Renewing a record yields a record.
LEMMA RecordRenewed ==
    ASSUME NEW r \in Record, NEW g \in Nat, NEW x \in Nat
    PROVE  [r EXCEPT !.expires = x] \in Record /\ [r EXCEPT !.gen = g, !.expires = x] \in Record
  BY DEF Record

\* Releasing a record yields a record.
LEMMA RecordReleased ==
    ASSUME NEW r \in Record, NEW g \in Nat, NEW x \in Nat, NEW b \in Snapshot, NEW z \in BOOLEAN
    PROVE  [r EXCEPT !.gen = g, !.expires = x, !.base = b, !.sealed = z] \in Record
  BY DEF Record

\* The fields of a record.
LEMMA RecordFields ==
    ASSUME NEW r \in Record
    PROVE  /\ r.gen \in Nat /\ r.epoch \in Nat /\ r.expires \in Nat
           /\ r.sealed \in BOOLEAN /\ r.base \in Snapshot
           /\ r.owner \in Session \cup {NoSession}
  BY DEF Record

\* The initial state is well typed.
LEMMA TypeInit == Init => TypeOK
  BY Constants DEF Init, TypeOK, PCs

\* Every step keeps the state well typed.
LEMMA TypeNext == TypeOK /\ [Next]_vars => TypeOK'
<1> SUFFICES ASSUME TypeOK, [Next]_vars PROVE TypeOK'
  OBVIOUS
<1> USE Constants DEF TypeOK, PCs, shared, activation, fence, writing, renewing, releasing
<1>1. CASE UNCHANGED vars
  BY <1>1 DEF vars
<1>2. CASE Tick
  BY <1>2 DEF Tick
<1>3. ASSUME NEW s \in Session, Assign(s) PROVE TypeOK'
  BY <1>3 DEF Assign
<1>4. ASSUME NEW s \in Session, UseHint(s) PROVE TypeOK'
  BY <1>4 DEF UseHint
<1>5. ASSUME NEW s \in Session, LoadOwner(s) PROVE TypeOK'
  BY <1>5 DEF LoadOwner
<1>6. ASSUME NEW s \in Session, ReloadAfterHint(s) PROVE TypeOK'
  BY <1>6 DEF ReloadAfterHint
<1>7. ASSUME NEW s \in Session, RecoverSealed(s) PROVE TypeOK'
  BY <1>7 DEF RecoverSealed, ActivationRecord, Clock, Record
<1>8. ASSUME NEW s \in Session, RecoverFails(s) PROVE TypeOK'
  BY <1>8 DEF RecoverFails, ActivationRecord, Clock, Record
<1>9. ASSUME NEW s \in Session, RecoverUnsealed(s) PROVE TypeOK'
  <2>1. Latest(seen[s]) \in Snapshot
    BY <1>9 DEF RecoverUnsealed, Readable
  <2>2. ActivationRecord(s, Latest(seen[s])) \in Record
    BY <2>1 DEF ActivationRecord, Clock, Record
  <2>3. seen[s].epoch \in Nat
    BY RecordFields
  <2> QED
    BY <1>9, <2>1, <2>2, <2>3 DEF RecoverUnsealed
<1>10. ASSUME NEW s \in Session, RefuseActivation(s) PROVE TypeOK'
  BY <1>10 DEF RefuseActivation, Forget
<1>11. ASSUME NEW s \in Session, Claim(s) PROVE TypeOK'
  BY <1>11 DEF Claim
<1>12. ASSUME NEW s \in Session, ClaimStale(s) PROVE TypeOK'
  BY <1>12 DEF ClaimStale
<1>13. ASSUME NEW s \in Session, ClaimLost(s) PROVE TypeOK'
  BY <1>13 DEF ClaimLost, Forget
<1>14. ASSUME NEW s \in Session, AbandonClaim(s) PROVE TypeOK'
  BY <1>14 DEF AbandonClaim, Record
<1>15. ASSUME NEW s \in Session, Confirm(s) PROVE TypeOK'
  BY <1>15 DEF Confirm, Window
<1>16. ASSUME NEW s \in Session, ConfirmLate(s) PROVE TypeOK'
  BY <1>16 DEF ConfirmLate, Forget
<1>17. ASSUME NEW s \in Session, RenewLoad(s) PROVE TypeOK'
  BY <1>17 DEF RenewLoad, Clock, Record
<1>18. ASSUME NEW s \in Session, RenewCas(s) PROVE TypeOK'
  <2>1. authority.gen + 1 \in Nat
    BY RecordFields
  <2>2. authority' \in Record
    BY <1>18, <2>1, RecordRenewed DEF RenewCas
  <2> QED
    BY <1>18, <2>2 DEF RenewCas
<1>19. ASSUME NEW s \in Session, RenewConflict(s) PROVE TypeOK'
  BY <1>19 DEF RenewConflict, RenewEnds
<1>20. ASSUME NEW s \in Session, RenewReply(s) PROVE TypeOK'
  <2>1. [own[s] EXCEPT !.expires = rexp[s]] \in Record
    BY RecordRenewed
  <2>2. Window(rstart[s]) \in Nat
    BY DEF Window
  <2> QED
    BY <1>20, <2>1, <2>2 DEF RenewReply, RenewEnds
<1>21. ASSUME NEW s \in Session, RenewLate(s) PROVE TypeOK'
  <2>1. [own[s] EXCEPT !.expires = rexp[s]] \in Record
    BY RecordRenewed
  <2> QED
    BY <1>21, <2>1 DEF RenewLate, RenewEnds
<1>22. ASSUME NEW s \in Session, RenewLost(s) PROVE TypeOK'
  BY <1>22 DEF RenewLost, RenewEnds
<1>23. ASSUME NEW s \in Session, StartWrite(s) PROVE TypeOK'
  BY <1>23 DEF StartWrite, Written, Record, Snapshot, Position
<1>24. ASSUME NEW s \in Session, Land(s) PROVE TypeOK'
  BY <1>24 DEF Land
<1>25. ASSUME NEW s \in Session, Acknowledge(s) PROVE TypeOK'
  BY <1>25 DEF Acknowledge, Snapshot, Position
<1>26. ASSUME NEW s \in Session, FenceWrite(s) PROVE TypeOK'
  BY <1>26 DEF FenceWrite
<1>27. ASSUME NEW s \in Session, FailWrite(s) PROVE TypeOK'
  BY <1>27 DEF FailWrite
<1>28. ASSUME NEW s \in Session, ReloadOwner(s) PROVE TypeOK'
  BY <1>28 DEF ReloadOwner
<1>29. ASSUME NEW s \in Session, ReloadState(s) PROVE TypeOK'
  BY <1>29 DEF ReloadState, Readable
<1>30. ASSUME NEW s \in Session, Drain(s) PROVE TypeOK'
  BY <1>30 DEF Drain
<1>31. ASSUME NEW s \in Session, DrainFails(s) PROVE TypeOK'
  BY <1>31 DEF DrainFails
<1>32. ASSUME NEW s \in Session, FinishStore(s) PROVE TypeOK'
  BY <1>32 DEF FinishStore
<1>33. ASSUME NEW s \in Session, FinishFails(s) PROVE TypeOK'
  BY <1>33 DEF FinishFails
<1>34. ASSUME NEW s \in Session, CloseFence(s) PROVE TypeOK'
  BY <1>34 DEF CloseFence
<1>35. ASSUME NEW s \in Session, ReleaseLoad(s) PROVE TypeOK'
  BY <1>35 DEF ReleaseLoad, Record
<1>36. ASSUME NEW s \in Session, ReleaseMoot(s) PROVE TypeOK'
  BY <1>36 DEF ReleaseMoot, Forget
<1>37. ASSUME NEW s \in Session, ReleaseCas(s) PROVE TypeOK'
  <2>1. /\ authority.gen + 1 \in Nat
        /\ (IF seal[s] THEN chk[s] ELSE authority.base) \in Snapshot
        /\ (authority.sealed \/ seal[s]) \in BOOLEAN
    BY RecordFields
  <2>2. Released(s) \in Record
    BY <2>1, RecordReleased DEF Released
  <2> QED
    BY <1>37, <2>2 DEF ReleaseCas, Forget
<1>38. ASSUME NEW s \in Session, ReleaseConflict(s) PROVE TypeOK'
  BY <1>38 DEF ReleaseConflict
<1>39. ASSUME NEW s \in Session, Crash(s) PROVE TypeOK'
  BY <1>39 DEF Crash, Forget
<1> QED
  BY <1>1, <1>2, <1>3, <1>4, <1>5, <1>6, <1>7, <1>8, <1>9, <1>10, <1>11, <1>12, <1>13, <1>14,
     <1>15, <1>16, <1>17, <1>18, <1>19, <1>20, <1>21, <1>22, <1>23, <1>24, <1>25, <1>26, <1>27,
     <1>28, <1>29, <1>30, <1>31, <1>32, <1>33, <1>34, <1>35, <1>36, <1>37, <1>38, <1>39 DEF
     Next, Activate, Renew, Write, Shutdown

\* TypeOK holds in every reachable state: the ownership record, the fences and what
\* each session holds keep their types under every interleaving of Next.
THEOREM TypeCorrect == Spec => []TypeOK
  BY TypeInit, TypeNext, PTL DEF Spec
-----------------------------------------------------------------------------
(* Facts about snapshots                                                   *)

\* The fields of a snapshot.
LEMMA SnapshotFields ==
    ASSUME NEW x \in Snapshot
    PROVE  x.epoch \in Nat /\ x.version \in Nat /\ x.writes \in SUBSET Position
  BY DEF Snapshot

\* A snapshot newer than all others is the one Newest returns.
LEMMA NewestIs ==
    ASSUME NEW S, S \subseteq Snapshot, NEW x, Top(S, x)
    PROVE  Newest(S) = x
<1>1. x \in S /\ \A y \in S : ~Newer(y, x)
  BY SnapshotFields DEF Top, Newer
<1>2. \A z \in S : (\A y \in S : ~Newer(y, z)) => z = x
  BY DEF Top
<1> QED
  BY <1>1, <1>2 DEF Newest

\* What load_latest chooses from are snapshots.
LEMMA CandidatesAreSnapshots ==
    ASSUME NEW S, S \subseteq Snapshot, NEW r, r.base \in Snapshot
    PROVE  Candidates(S, r) \subseteq Snapshot
  BY DEF Candidates

\* load_latest returns the newest candidate.
LEMMA LatestIs ==
    ASSUME TypeOK, NEW r \in Record, NEW x, Top(Candidates(store, r), x)
    PROVE  Latest(r) = x
  BY NewestIs, CandidatesAreSnapshots, RecordFields DEF Latest, TypeOK

\* The empty snapshot and the absent record.
LEMMA Empty ==
    /\ NoSnapshot.epoch = 0 /\ NoSnapshot.version = 0 /\ NoSnapshot.writes = {}
    /\ NoRecord.gen = 0 /\ NoRecord.epoch = 0 /\ NoRecord.owner = NoSession
    /\ NoRecord.expires = 0 /\ NoRecord.sealed = TRUE /\ NoRecord.base = NoSnapshot
    /\ Linear(NoSnapshot)
  BY DEF NoSnapshot, NoRecord, Linear

\* A snapshot that adds the next version to a linear one is linear.
LEMMA LinearExtended ==
    ASSUME NEW x \in Snapshot, NEW y \in Snapshot, Linear(x), NEW e \in Nat,
           y.version = x.version + 1, y.writes = x.writes \cup {<<e, x.version + 1>>}
    PROVE  Linear(y)
<1>1. x.version \in Nat /\ \A a \in x.writes : a[2] \in Nat
  BY SnapshotFields DEF Position
<1>2. \A a \in y.writes : a \in x.writes \/ a = <<e, x.version + 1>>
  OBVIOUS
<1>3. \A a \in y.writes : a[2] <= y.version
  BY <1>1, <1>2 DEF Linear
<1>4. \A a, b \in y.writes : a[2] = b[2] => a = b
  BY <1>1, <1>2 DEF Linear
<1> QED
  BY <1>3, <1>4 DEF Linear

\* The types of what one session holds.
Typed(t) ==
    /\ now \in Nat /\ skew[t] \in Nat /\ skew[t] <= MaxSkew
    /\ authority.gen \in Nat /\ authority.epoch \in Nat /\ authority.expires \in Nat
    /\ authority.base.epoch \in Nat
    /\ pc[t] \in PCs /\ wr[t] \in {"idle", "sent", "landed", "failed", "reloading"}
    /\ seen[t].gen \in Nat /\ seen[t].epoch \in Nat /\ seen[t].expires \in Nat
    /\ own[t].gen \in Nat /\ own[t].epoch \in Nat /\ own[t].expires \in Nat
    /\ own[t].base.epoch \in Nat /\ state[t].version \in Nat /\ state[t].epoch \in Nat
    /\ wsnap[t].epoch \in Nat /\ wsnap[t].version \in Nat
    /\ started[t] \in Nat /\ deadline[t] \in Nat /\ rstart[t] \in Nat
    /\ rexp[t] \in Nat /\ rgen[t] \in Nat /\ relgen[t] \in Nat

\* In a well-typed state the fields of a session's record and snapshots have types.
LEMMA Fields ==
    ASSUME TypeOK, NEW t \in Session
    PROVE  Typed(t)
<1>1. /\ now \in Nat /\ skew[t] \in 0..MaxSkew /\ authority \in Record
      /\ pc[t] \in PCs /\ wr[t] \in {"idle", "sent", "landed", "failed", "reloading"}
      /\ seen[t] \in Record /\ own[t] \in Record
      /\ state[t] \in Snapshot /\ wsnap[t] \in Snapshot
      /\ started[t] \in Nat /\ deadline[t] \in Nat /\ rstart[t] \in Nat
      /\ rexp[t] \in Nat /\ rgen[t] \in Nat /\ relgen[t] \in Nat
  BY DEF TypeOK
<1> QED
  BY <1>1, RecordFields, SnapshotFields DEF Typed

\* What a session holds are functions on Session.
Functions ==
    /\ DOMAIN pc = Session /\ DOMAIN seen = Session /\ DOMAIN own = Session
    /\ DOMAIN state = Session /\ DOMAIN started = Session /\ DOMAIN deadline = Session
    /\ DOMAIN cut = Session /\ DOMAIN stop = Session /\ DOMAIN wr = Session
    /\ DOMAIN wsnap = Session /\ DOMAIN rn = Session /\ DOMAIN rgen = Session
    /\ DOMAIN rexp = Session /\ DOMAIN rstart = Session /\ DOMAIN seal = Session
    /\ DOMAIN chk = Session /\ DOMAIN relgen = Session

\* In a well-typed state every per-session variable is a function on Session.
LEMMA FunctionsOnSession == TypeOK => Functions
  BY DEF TypeOK, Functions

-----------------------------------------------------------------------------
(* Steps of one session that leave the shared state alone                  *)

SameFence(t) == deadline'[t] = deadline[t] /\ cut'[t] = cut[t]
SameWrite(t) == wr'[t] = wr[t] /\ wsnap'[t] = wsnap[t]
SameRenewal(t) ==
    rn'[t] = rn[t] /\ rgen'[t] = rgen[t] /\ rexp'[t] = rexp[t] /\ rstart'[t] = rstart[t]
SameRelease(t) == seal'[t] = seal[t] /\ chk'[t] = chk[t] /\ relgen'[t] = relgen[t]
SameOwned(t) == own'[t] = own[t] /\ state'[t] = state[t]

Same(t) ==
    /\ pc'[t] = pc[t] /\ seen'[t] = seen[t] /\ started'[t] = started[t] /\ stop'[t] = stop[t]
    /\ SameFence(t) /\ SameWrite(t) /\ SameRenewal(t) /\ SameRelease(t) /\ SameOwned(t)

SameShared == UNCHANGED <<now, skew, authority, store, fenced, acked>>

\* Nothing shared changes, but for epochs that are fenced.
Grows == UNCHANGED <<now, skew, authority, store, acked>> /\ fenced \subseteq fenced'

\* With log fencing no write that could be recovered is lost.
KeepsVisible ==
    LogFences => Recoverable(authority).writes \subseteq Recoverable(authority)'.writes

\* The step of u takes no new epoch.
NoNewEpoch(u) ==
    /\ pc'[u] \in Owning => pc[u] \in Owning /\ own'[u].epoch = own[u].epoch
    /\ InFlight(u)' =>
         \/ InFlight(u) /\ wsnap'[u].epoch = wsnap[u].epoch
         \/ pc[u] \in Owning /\ wsnap'[u].epoch = own[u].epoch

\* What no step of another session touches stays as it is.
LEMMA Untouched ==
    ASSUME NEW t \in Session, LocalInv(t), Same(t), Grows
    PROVE  LocalInv(t)'
<1> USE DEF Same, Grows, SameFence, SameWrite, SameRenewal, SameRelease, SameOwned, LocalInv
<1>1. EpochInv(t)'
  BY DEF EpochInv, InFlight
<1>2. CasInv(t)'
  BY DEF CasInv
<1>3. RecoverInv(t)'
  BY DEF RecoverInv
<1>4. ResidentInv(t)'
  BY DEF ResidentInv
<1>5. WriteInv(t)'
  BY DEF WriteInv, InFlight, HasAuthority, Recoverable, Latest
<1>6. LinearInv(t)'
  BY DEF LinearInv
<1>7. TimeInv(t)'
  BY DEF TimeInv
<1> QED
  BY <1>1, <1>2, <1>3, <1>4, <1>5, <1>6, <1>7

\* Two sessions keep apart when neither takes a new epoch.
LEMMA StaysDistinct ==
    ASSUME NEW s \in Session, NEW t \in Session, Distinct(s, t),
           NoNewEpoch(s), NoNewEpoch(t)
    PROVE  Distinct(s, t)'
  BY DEF Distinct, NoNewEpoch, InFlight

\* A session that does nothing takes no new epoch.
LEMMA SameNoNewEpoch ==
    ASSUME NEW t \in Session, Same(t)
    PROVE  NoNewEpoch(t)
  BY DEF Same, NoNewEpoch, InFlight, SameWrite, SameOwned

\* A step of u that changes nothing shared preserves the invariant if it preserves
\* u's own part of it.
LEMMA LocalStep ==
    ASSUME Inv, TypeOK', NEW u \in Session, Grows,
           \A t \in Session \ {u} : Same(t), NoNewEpoch(u), LocalInv(u)'
    PROVE  Inv'
<1>1. SharedInv' /\ AckedSurvives'
  BY DEF Inv, SharedInv, AckedSurvives, Grows, Recoverable, Latest
<1>2. \A t \in Session : LocalInv(t)'
  BY Untouched DEF Inv
<1>3. \A t \in Session : NoNewEpoch(t)
  BY SameNoNewEpoch
<1>4. \A s, t \in Session : s # t => Distinct(s, t)'
  BY <1>3, StaysDistinct DEF Inv
<1> QED
  BY <1>1, <1>2, <1>4 DEF Inv
=============================================================================
