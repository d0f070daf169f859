-------------------------- MODULE OwnershipSafety ---------------------------
(***************************************************************************)
(* Inv is inductive for hosts whose drain completes, so acknowledged       *)
(* writes survive every change of owner and form one history, for any      *)
(* number of sessions and any lease, margin and skew that                  *)
(* SkewAssumption allows.                                                  *)
(***************************************************************************)
EXTENDS OwnershipActivation

-----------------------------------------------------------------------------
(* Renewal and shutdown.                                                   *)

\* The record is read for a renewal.
LEMMA RenewLoadPreserves ==
    ASSUME Inv, DrainCompletes, TypeOK', NEW u \in Session, RenewLoad(u)
    PROVE  Inv'
<1>0. TypeOK /\ Functions
  BY FunctionsOnSession, Zenon DEF Inv
<1>1. SameShared /\ \A t \in Session \ {u} : Same(t)
  BY <1>0, Zenon DEF Functions, RenewLoad, Clock, SameShared, Same, SameFence, SameWrite,
     SameRenewal, SameRelease, SameOwned, shared, activation, fence, writing, renewing, releasing
<1>2. /\ pc[u] \in Registered /\ authority.owner = u /\ rn'[u] = "cas"
      /\ rgen'[u] = authority.gen /\ rexp'[u] = now + skew[u] + Duration
      /\ rstart'[u] = now /\ pc'[u] = pc[u] /\ seen'[u] = seen[u]
      /\ started'[u] = started[u] /\ stop'[u] = stop[u] /\ SameFence(u) /\ SameWrite(u)
      /\ SameRelease(u) /\ SameOwned(u)
  BY <1>0, Zenon DEF Functions, RenewLoad, Clock, SameFence, SameWrite, SameRenewal, SameRelease,
     SameOwned, shared, activation, fence, writing, renewing, releasing
<1>3. /\ EpochInv(u) /\ CasInv(u) /\ RecoverInv(u) /\ ResidentInv(u) /\ WriteInv(u)
      /\ LinearInv(u) /\ TimeInv(u) /\ SharedInv /\ Typed(u)
  BY <1>0, Fields, Zenon DEF Inv, LocalInv
<1>a. now <= now /\ 0 <= now /\ 0 <= authority.gen /\ authority.gen <= authority.gen
  BY <1>3 DEF Typed
<1>b. now + skew[u] + Duration = now + Duration + skew[u]
  BY <1>3, TimingAssumption DEF Typed
<1>4. NoNewEpoch(u)
  BY <1>2, <1>3, Zenon DEF NoNewEpoch, Owning, InFlight, SameWrite, SameOwned
<1>5. EpochInv(u)'
  BY <1>1, <1>2, <1>3, Zenon DEF EpochInv, InFlight, PreClaim, Owning, Registered, SameShared,
     SameFence, SameWrite, SameRenewal, SameRelease, SameOwned, Registered
<1>6. CasInv(u)'
  BY <1>1, <1>2, <1>3, <1>a, Zenon DEF CasInv, PreClaim, SameShared, SameFence, SameWrite,
     SameRenewal, SameRelease, SameOwned
<1>7. RecoverInv(u)'
  BY <1>1, <1>2, <1>3, ZenonT(60) DEF RecoverInv, Recovering, SameShared, SameFence, SameWrite,
     SameRenewal, SameRelease, SameOwned
<1>8. ResidentInv(u)'
  BY <1>1, <1>2, <1>3, Zenon DEF ResidentInv, Owning, Resident, SameShared, SameFence, SameWrite,
     SameRenewal, SameRelease, SameOwned
<1>9. WriteInv(u)'
  BY <1>1, <1>2, <1>3, Zenon DEF WriteInv, InFlight, HasAuthority, Owning, Recoverable, Latest,
     SameShared, SameFence, SameWrite, SameRenewal, SameRelease, SameOwned
<1>10. LinearInv(u)'
  BY <1>1, <1>2, <1>3, Zenon DEF LinearInv, SameShared, SameFence, SameWrite, SameRenewal,
     SameRelease, SameOwned
<1>11. TimeInv(u)'
  BY <1>1, <1>2, <1>3, <1>a, <1>b, Zenon DEF TimeInv, Registered, Recovering, SameShared, SameFence,
     SameWrite, SameRenewal, SameRelease, SameOwned
<1> QED
  BY <1>1, <1>4, <1>5, <1>6, <1>7, <1>8, <1>9, <1>10, <1>11, LocalStep, Zenon DEF LocalInv,
     SameShared, Grows

\* The renewal lost its race.
LEMMA RenewConflictPreserves ==
    ASSUME Inv, DrainCompletes, TypeOK', NEW u \in Session, RenewConflict(u)
    PROVE  Inv'
<1>0. TypeOK /\ Functions
  BY FunctionsOnSession, Zenon DEF Inv
<1>1. SameShared /\ \A t \in Session \ {u} : Same(t)
  BY <1>0, Zenon DEF Functions, RenewConflict, RenewEnds, SameShared, Same, SameFence, SameWrite,
     SameRenewal, SameRelease, SameOwned, shared, activation, fence, writing, renewing, releasing
<1>2. /\ rn[u] = "cas" /\ rn'[u] = "idle" /\ rgen'[u] = 0 /\ rexp'[u] = 0
      /\ rstart'[u] = 0 /\ pc'[u] = pc[u] /\ seen'[u] = seen[u]
      /\ started'[u] = started[u] /\ stop'[u] = stop[u] /\ SameFence(u) /\ SameWrite(u)
      /\ SameRelease(u) /\ SameOwned(u)
  BY <1>0, Zenon DEF Functions, RenewConflict, RenewEnds, SameFence, SameWrite, SameRenewal,
     SameRelease, SameOwned, shared, activation, fence, writing, renewing, releasing
<1>3. /\ EpochInv(u) /\ CasInv(u) /\ RecoverInv(u) /\ ResidentInv(u) /\ WriteInv(u)
      /\ LinearInv(u) /\ TimeInv(u) /\ SharedInv /\ Typed(u)
  BY <1>0, Fields, Zenon DEF Inv, LocalInv
<1>a. now <= now /\ 0 <= now /\ 0 <= authority.gen /\ authority.gen <= authority.gen
  BY <1>3 DEF Typed
<1>4. NoNewEpoch(u)
  BY <1>2, <1>3, Zenon DEF NoNewEpoch, Owning, InFlight, SameWrite, SameOwned
<1>5. EpochInv(u)'
  BY <1>1, <1>2, <1>3, Zenon DEF EpochInv, InFlight, PreClaim, Owning, Registered, SameShared,
     SameFence, SameWrite, SameRenewal, SameRelease, SameOwned
<1>6. CasInv(u)'
  BY <1>1, <1>2, <1>3, <1>a, Zenon DEF CasInv, PreClaim, SameShared, SameFence, SameWrite,
     SameRenewal, SameRelease, SameOwned
<1>7. RecoverInv(u)'
  BY <1>1, <1>2, <1>3, Zenon DEF RecoverInv, Recovering, SameShared, SameFence, SameWrite,
     SameRenewal, SameRelease, SameOwned
<1>8. ResidentInv(u)'
  BY <1>1, <1>2, <1>3, Zenon DEF ResidentInv, Owning, Resident, SameShared, SameFence, SameWrite,
     SameRenewal, SameRelease, SameOwned
<1>9. WriteInv(u)'
  BY <1>1, <1>2, <1>3, Zenon DEF WriteInv, InFlight, HasAuthority, Owning, Recoverable, Latest,
     SameShared, SameFence, SameWrite, SameRenewal, SameRelease, SameOwned
<1>10. LinearInv(u)'
  BY <1>1, <1>2, <1>3, Zenon DEF LinearInv, SameShared, SameFence, SameWrite, SameRenewal,
     SameRelease, SameOwned
<1>11. TimeInv(u)'
  BY <1>1, <1>2, <1>3, <1>a, Zenon DEF TimeInv, Registered, Recovering, SameShared, SameFence,
     SameWrite, SameRenewal, SameRelease, SameOwned
<1> QED
  BY <1>1, <1>4, <1>5, <1>6, <1>7, <1>8, <1>9, <1>10, <1>11, LocalStep, Zenon DEF LocalInv,
     SameShared, Grows

\* The reply of a renewal is lost.
LEMMA RenewLostPreserves ==
    ASSUME Inv, DrainCompletes, TypeOK', NEW u \in Session, RenewLost(u)
    PROVE  Inv'
<1>0. TypeOK /\ Functions
  BY FunctionsOnSession, Zenon DEF Inv
<1>1. SameShared /\ \A t \in Session \ {u} : Same(t)
  BY <1>0, Zenon DEF Functions, RenewLost, RenewEnds, SameShared, Same, SameFence, SameWrite,
     SameRenewal, SameRelease, SameOwned, shared, activation, fence, writing, renewing, releasing
<1>2. /\ rn[u] = "reply" /\ rn'[u] = "idle" /\ rgen'[u] = 0 /\ rexp'[u] = 0
      /\ rstart'[u] = 0 /\ pc'[u] = pc[u] /\ seen'[u] = seen[u]
      /\ started'[u] = started[u] /\ stop'[u] = stop[u] /\ SameFence(u) /\ SameWrite(u)
      /\ SameRelease(u) /\ SameOwned(u)
  BY <1>0, Zenon DEF Functions, RenewLost, RenewEnds, SameFence, SameWrite, SameRenewal,
     SameRelease, SameOwned, shared, activation, fence, writing, renewing, releasing
<1>3. /\ EpochInv(u) /\ CasInv(u) /\ RecoverInv(u) /\ ResidentInv(u) /\ WriteInv(u)
      /\ LinearInv(u) /\ TimeInv(u) /\ SharedInv /\ Typed(u)
  BY <1>0, Fields, Zenon DEF Inv, LocalInv
<1>a. now <= now /\ 0 <= now /\ 0 <= authority.gen /\ authority.gen <= authority.gen
  BY <1>3 DEF Typed
<1>4. NoNewEpoch(u)
  BY <1>2, <1>3, Zenon DEF NoNewEpoch, Owning, InFlight, SameWrite, SameOwned
<1>5. EpochInv(u)'
  BY <1>1, <1>2, <1>3, Zenon DEF EpochInv, InFlight, PreClaim, Owning, Registered, SameShared,
     SameFence, SameWrite, SameRenewal, SameRelease, SameOwned
<1>6. CasInv(u)'
  BY <1>1, <1>2, <1>3, <1>a, Zenon DEF CasInv, PreClaim, SameShared, SameFence, SameWrite,
     SameRenewal, SameRelease, SameOwned
<1>7. RecoverInv(u)'
  BY <1>1, <1>2, <1>3, Zenon DEF RecoverInv, Recovering, SameShared, SameFence, SameWrite,
     SameRenewal, SameRelease, SameOwned
<1>8. ResidentInv(u)'
  BY <1>1, <1>2, <1>3, Zenon DEF ResidentInv, Owning, Resident, SameShared, SameFence, SameWrite,
     SameRenewal, SameRelease, SameOwned
<1>9. WriteInv(u)'
  BY <1>1, <1>2, <1>3, Zenon DEF WriteInv, InFlight, HasAuthority, Owning, Recoverable, Latest,
     SameShared, SameFence, SameWrite, SameRenewal, SameRelease, SameOwned
<1>10. LinearInv(u)'
  BY <1>1, <1>2, <1>3, Zenon DEF LinearInv, SameShared, SameFence, SameWrite, SameRenewal,
     SameRelease, SameOwned
<1>11. TimeInv(u)'
  BY <1>1, <1>2, <1>3, <1>a, Zenon DEF TimeInv, Registered, Recovering, SameShared, SameFence,
     SameWrite, SameRenewal, SameRelease, SameOwned
<1> QED
  BY <1>1, <1>4, <1>5, <1>6, <1>7, <1>8, <1>9, <1>10, <1>11, LocalStep, Zenon DEF LocalInv,
     SameShared, Grows

\* A renewal is confirmed.
LEMMA RenewReplyPreserves ==
    ASSUME Inv, DrainCompletes, TypeOK', NEW u \in Session, RenewReply(u)
    PROVE  Inv'
<1>0. TypeOK /\ Functions
  BY FunctionsOnSession, Zenon DEF Inv
<1>1. SameShared /\ \A t \in Session \ {u} : Same(t)
  BY <1>0, Zenon DEF Functions, RenewReply, RenewEnds, SameShared, Same, SameFence, SameWrite,
     SameRenewal, SameRelease, SameOwned, shared, activation, fence, writing, renewing, releasing
<1>2. /\ rn[u] = "reply" /\ pc[u] \in Registered /\ ~cut[u] /\ deadline[u] > now
      /\ deadline'[u] = Window(rstart[u]) /\ rn'[u] = "idle" /\ rgen'[u] = 0
      /\ rexp'[u] = 0 /\ rstart'[u] = 0 /\ own'[u] = [own[u] EXCEPT !.expires = rexp[u]]
      /\ pc'[u] = pc[u] /\ seen'[u] = seen[u] /\ started'[u] = started[u]
      /\ stop'[u] = stop[u] /\ cut'[u] = cut[u] /\ SameWrite(u) /\ SameRelease(u)
      /\ state'[u] = state[u]
  BY <1>0, Zenon DEF Functions, RenewReply, RenewEnds, SameFence, SameWrite, SameRenewal,
     SameRelease, SameOwned, shared, activation, fence, writing, renewing, releasing
<1>3. /\ EpochInv(u) /\ CasInv(u) /\ RecoverInv(u) /\ ResidentInv(u) /\ WriteInv(u)
      /\ LinearInv(u) /\ TimeInv(u) /\ SharedInv /\ Typed(u)
  BY <1>0, Fields, Zenon DEF Inv, LocalInv
<1>a. now <= now /\ 0 <= now /\ 0 <= authority.gen /\ authority.gen <= authority.gen
  BY <1>3 DEF Typed
<1>b. ~LogFences => Window(rstart[u]) + Margin + skew[u] = rexp[u]
  BY <1>2, <1>3, TimingAssumption DEF TimeInv, Typed, Window
<1>c. ~(deadline[u] <= now)
  BY <1>2, <1>3 DEF Typed
<1>d. /\ own'[u].epoch = own[u].epoch /\ own'[u].base = own[u].base
      /\ Candidates(store, own'[u]) = Candidates(store, own[u])
  BY <1>0, <1>2 DEF TypeOK, Record, Candidates
<1>4. NoNewEpoch(u)
  BY <1>2, <1>3, <1>d, Zenon DEF NoNewEpoch, Owning, InFlight, SameWrite, SameOwned
<1>5. EpochInv(u)'
  BY <1>1, <1>2, <1>3, <1>d, Zenon DEF EpochInv, InFlight, PreClaim, Owning, Registered, SameShared,
     SameFence, SameWrite, SameRenewal, SameRelease, SameOwned
<1>6. CasInv(u)'
  BY <1>1, <1>2, <1>3, <1>a, Zenon DEF CasInv, PreClaim, SameShared, SameFence, SameWrite,
     SameRenewal, SameRelease, SameOwned
<1>7. RecoverInv(u)'
  BY <1>1, <1>2, <1>3 DEF RecoverInv, Recovering, SameShared, SameFence, SameWrite, SameRenewal,
     SameRelease, SameOwned
<1>8. ResidentInv(u)'
  BY <1>1, <1>2, <1>3, <1>d, Zenon DEF ResidentInv, Owning, Resident, SameShared, SameFence,
     SameWrite, SameRenewal, SameRelease, SameOwned
<1>9. WriteInv(u)'
  BY <1>1, <1>2, <1>3, <1>d, Zenon DEF WriteInv, InFlight, HasAuthority, Owning, Recoverable,
     Latest, SameShared, SameFence, SameWrite, SameRenewal, SameRelease, SameOwned
<1>10. LinearInv(u)'
  BY <1>1, <1>2, <1>3, <1>d, Zenon DEF LinearInv, SameShared, SameFence, SameWrite, SameRenewal,
     SameRelease, SameOwned
<1>11. TimeInv(u)'
  BY <1>1, <1>2, <1>3, <1>a, <1>b, <1>c, Zenon DEF TimeInv, Registered, Recovering, SameShared,
     SameFence, SameWrite, SameRenewal, SameRelease, SameOwned
<1> QED
  BY <1>1, <1>4, <1>5, <1>6, <1>7, <1>8, <1>9, <1>10, <1>11, LocalStep, Zenon DEF LocalInv,
     SameShared, Grows

\* A renewal came back too late.
LEMMA RenewLatePreserves ==
    ASSUME Inv, DrainCompletes, TypeOK', NEW u \in Session, RenewLate(u)
    PROVE  Inv'
<1>0. TypeOK /\ Functions
  BY FunctionsOnSession, Zenon DEF Inv
<1>1. SameShared /\ \A t \in Session \ {u} : Same(t)
  BY <1>0, Zenon DEF Functions, RenewLate, RenewEnds, SameShared, Same, SameFence, SameWrite,
     SameRenewal, SameRelease, SameOwned, shared, activation, fence, writing, renewing, releasing
<1>2. /\ rn[u] = "reply" /\ pc[u] \in Registered /\ cut'[u] = TRUE /\ rn'[u] = "idle"
      /\ rgen'[u] = 0 /\ rexp'[u] = 0 /\ rstart'[u] = 0
      /\ own'[u] = [own[u] EXCEPT !.expires = rexp[u]] /\ pc'[u] = pc[u]
      /\ seen'[u] = seen[u] /\ started'[u] = started[u] /\ stop'[u] = stop[u]
      /\ deadline'[u] = deadline[u] /\ SameWrite(u) /\ SameRelease(u)
      /\ state'[u] = state[u]
  BY <1>0, Zenon DEF Functions, RenewLate, RenewEnds, SameFence, SameWrite, SameRenewal,
     SameRelease, SameOwned, shared, activation, fence, writing, renewing, releasing
<1>3. /\ EpochInv(u) /\ CasInv(u) /\ RecoverInv(u) /\ ResidentInv(u) /\ WriteInv(u)
      /\ LinearInv(u) /\ TimeInv(u) /\ SharedInv /\ Typed(u)
  BY <1>0, Fields, Zenon DEF Inv, LocalInv
<1>a. now <= now /\ 0 <= now /\ 0 <= authority.gen /\ authority.gen <= authority.gen
  BY <1>3 DEF Typed
<1>d. /\ own'[u].epoch = own[u].epoch /\ own'[u].base = own[u].base
      /\ Candidates(store, own'[u]) = Candidates(store, own[u])
  BY <1>0, <1>2 DEF TypeOK, Record, Candidates
<1>4. NoNewEpoch(u)
  BY <1>2, <1>3, <1>d, Zenon DEF NoNewEpoch, Owning, InFlight, SameWrite, SameOwned
<1>5. EpochInv(u)'
  BY <1>1, <1>2, <1>3, <1>d, ZenonT(40) DEF EpochInv, InFlight, PreClaim, Owning, Registered,
     SameShared, SameWrite, SameRelease
<1>6. CasInv(u)'
  BY <1>1, <1>2, <1>3, <1>a, Zenon DEF CasInv, PreClaim, SameShared, SameFence, SameWrite,
     SameRenewal, SameRelease, SameOwned
<1>7. RecoverInv(u)'
  BY <1>1, <1>2, <1>3 DEF RecoverInv, Recovering, SameShared, SameFence, SameWrite, SameRenewal,
     SameRelease, SameOwned
<1>8. ResidentInv(u)'
  BY <1>1, <1>2, <1>3, <1>d, ZenonT(60) DEF ResidentInv, Owning, Resident, SameShared, SameFence,
     SameWrite, SameRenewal, SameRelease, SameOwned
<1>9. WriteInv(u)'
  BY <1>1, <1>2, <1>3, <1>d, Zenon DEF WriteInv, InFlight, HasAuthority, Owning, Recoverable,
     Latest, SameShared, SameFence, SameWrite, SameRenewal, SameRelease, SameOwned
<1>10. LinearInv(u)'
  BY <1>1, <1>2, <1>3, <1>d, Zenon DEF LinearInv, SameShared, SameFence, SameWrite, SameRenewal,
     SameRelease, SameOwned
<1>11. TimeInv(u)'
  BY <1>1, <1>2, <1>3, <1>a, Zenon DEF TimeInv, Registered, Recovering, SameShared, SameFence,
     SameWrite, SameRenewal, SameRelease, SameOwned
<1> QED
  BY <1>1, <1>4, <1>5, <1>6, <1>7, <1>8, <1>9, <1>10, <1>11, LocalStep, Zenon DEF LocalInv,
     SameShared, Grows
-----------------------------------------------------------------------------
\* When the owner replaces its own record, the other sessions keep their part of the
\* invariant as long as the record stands for the same state.
LEMMA OthersKeep ==
    ASSUME NEW u \in Session, NEW t \in Session, t # u, LocalInv(t), Typed(t), Same(t),
           UNCHANGED <<now, skew, store, fenced, acked>>,
           authority.owner = u, authority'.owner = u, authority'.gen = authority.gen + 1,
           authority'.epoch = authority.epoch, Recoverable(authority)' = Recoverable(authority)
    PROVE  LocalInv(t)'
<1>1. /\ EpochInv(t) /\ CasInv(t) /\ RecoverInv(t) /\ ResidentInv(t) /\ WriteInv(t)
      /\ LinearInv(t) /\ TimeInv(t)
  BY Zenon DEF LocalInv
<1>2. /\ seen[t].gen <= authority'.gen /\ seen[t].gen # authority'.gen
      /\ rn[t] = "cas" => rgen[t] <= authority'.gen /\ rgen[t] # authority'.gen
      /\ pc[t] = "releaseCas" => relgen[t] <= authority'.gen /\ relgen[t] # authority'.gen
  BY <1>1 DEF CasInv, Typed
<1>3. EpochInv(t)'
  BY <1>1, Zenon DEF EpochInv, InFlight, Same, SameFence, SameWrite, SameRenewal, SameRelease,
     SameOwned
<1>4. CasInv(t)'
  BY <1>2, Zenon DEF CasInv, Same, SameRenewal, SameRelease
<1>5. RecoverInv(t)'
  BY <1>1, <1>2, Zenon DEF RecoverInv, Same, SameOwned
<1>6. ResidentInv(t)'
  BY <1>1, Zenon DEF ResidentInv, Same, SameWrite, SameRelease, SameOwned
<1>7. WriteInv(t)'
  <2>1. InFlight(t)' = InFlight(t) /\ HasAuthority(t)' = HasAuthority(t)
    BY Zenon DEF InFlight, HasAuthority, Same, SameFence, SameWrite
  <2>2. InFlight(t) => wsnap[t].epoch # authority.epoch
    BY <1>1, Zenon DEF EpochInv
  <2> QED
    BY <1>1, <2>1, <2>2, Zenon DEF WriteInv, Same, SameWrite, SameOwned
<1>8. LinearInv(t)'
  BY <1>1, Zenon DEF LinearInv, Same, SameWrite, SameRelease, SameOwned
<1>9. TimeInv(t)'
  BY <1>1, <1>2, Zenon DEF TimeInv, Same, SameFence, SameRenewal, SameOwned
<1> QED
  BY <1>3, <1>4, <1>5, <1>6, <1>7, <1>8, <1>9, Zenon DEF LocalInv

\* The renewal is stored: only the generation and the lease of the record change.
LEMMA RenewCasPreserves ==
    ASSUME Inv, DrainCompletes, TypeOK', NEW u \in Session, RenewCas(u)
    PROVE  Inv' /\ KeepsVisible
<1>0. TypeOK /\ Functions
  BY FunctionsOnSession, Zenon DEF Inv
<1>1. /\ UNCHANGED <<now, skew, store, fenced, acked>>
      /\ \A t \in Session \ {u} : Same(t)
  BY <1>0, Zenon DEF Functions, RenewCas, Same, SameFence, SameWrite, SameRenewal, SameRelease,
     SameOwned, activation, fence, writing, releasing
<1>2. /\ rn[u] = "cas" /\ authority.gen = rgen[u] /\ rn'[u] = "reply" /\ pc'[u] = pc[u]
      /\ seen'[u] = seen[u] /\ started'[u] = started[u] /\ stop'[u] = stop[u]
      /\ rexp'[u] = rexp[u] /\ rstart'[u] = rstart[u]
      /\ SameFence(u) /\ SameWrite(u) /\ SameRelease(u) /\ SameOwned(u)
  BY <1>0, Zenon DEF Functions, RenewCas, SameFence, SameWrite, SameRelease, SameOwned, activation,
     fence, writing, releasing
<1>3. /\ EpochInv(u) /\ CasInv(u) /\ RecoverInv(u) /\ ResidentInv(u) /\ WriteInv(u)
      /\ LinearInv(u) /\ TimeInv(u) /\ SharedInv /\ AckedSurvives /\ Typed(u)
  BY <1>0, Fields, Zenon DEF Inv, LocalInv
<1>a. /\ authority'.gen = authority.gen + 1 /\ authority'.expires = rexp[u]
      /\ authority'.epoch = authority.epoch /\ authority'.owner = authority.owner
      /\ authority'.sealed = authority.sealed /\ authority'.base = authority.base
  BY <1>0, Zenon DEF RenewCas, TypeOK, Record
<1>b. authority.owner = u /\ pc[u] \notin PreClaim \cup {"claimed", "unloaded"}
  BY <1>2, <1>3, Zenon DEF CasInv, EpochInv
<1>c. /\ Candidates(store, authority)' = Candidates(store, authority)
      /\ Latest(authority)' = Latest(authority)
      /\ Recoverable(authority)' = Recoverable(authority)
  BY <1>1, <1>a, Zenon DEF Candidates, Latest, Recoverable
<1>d. /\ authority'.gen # 0 /\ seen[u].gen <= authority'.gen
      /\ pc[u] = "releaseCas" => relgen[u] <= authority'.gen /\ relgen[u] # authority'.gen
  BY <1>3, <1>a DEF CasInv, Typed
<1>e. ~LogFences =>
        /\ rexp[u] <= now + skew[u] + Duration /\ rexp[u] <= rexp[u]
        /\ pc[u] \in Registered /\ ~cut[u] => deadline[u] + Margin + skew[u] <= rexp[u]
  <2> SUFFICES ASSUME ~LogFences
               PROVE  /\ rexp[u] <= now + skew[u] + Duration /\ rexp[u] <= rexp[u]
                      /\ pc[u] \in Registered /\ ~cut[u] =>
                           deadline[u] + Margin + skew[u] <= rexp[u]
    OBVIOUS
  <2>1. /\ rexp[u] = rstart[u] + Duration + skew[u] /\ rstart[u] <= now
        /\ authority.expires <= rexp[u]
        /\ pc[u] \in Registered /\ ~cut[u] =>
             deadline[u] + Margin + skew[u] <= authority.expires
    BY <1>2, <1>3, <1>b, Zenon DEF TimeInv
  <2> QED
    BY <1>3, <2>1, TimingAssumption DEF Typed
<1>4. SharedInv' /\ AckedSurvives'
  <2>1. SharedInv'
    BY <1>1, <1>3, <1>a, <1>b, <1>c, <1>d, SessionAssumption, Zenon DEF SharedInv
  <2> QED
    BY <1>1, <1>3, <1>c, <2>1, Zenon DEF AckedSurvives
<1>5. LocalInv(u)'
  <2>1. EpochInv(u)'
    BY <1>2, <1>3, <1>a, <1>b, Zenon DEF EpochInv, InFlight, SameFence, SameWrite, SameRelease,
       SameOwned
  <2>2. CasInv(u)'
    BY <1>2, <1>b, <1>d, Zenon DEF CasInv, SameRelease
  <2>3. RecoverInv(u)'
    BY <1>2, <1>b, Zenon DEF RecoverInv, Recovering, PreClaim
  <2>4. ResidentInv(u)'
    BY <1>1, <1>2, <1>3, <1>a, Zenon DEF ResidentInv, SameWrite, SameRelease, SameOwned
  <2>5. WriteInv(u)'
    BY <1>1, <1>2, <1>3, <1>a, <1>c, Zenon DEF WriteInv, InFlight, HasAuthority, SameFence,
       SameWrite, SameOwned
  <2>6. LinearInv(u)'
    BY <1>2, <1>3, Zenon DEF LinearInv, SameWrite, SameRelease, SameOwned
  <2>7. TimeInv(u)'
    BY <1>1, <1>2, <1>3, <1>a, <1>b, <1>e, Zenon DEF TimeInv, SameFence, PreClaim, Recovering
  <2> QED
    BY <2>1, <2>2, <2>3, <2>4, <2>5, <2>6, <2>7, Zenon DEF LocalInv
<1>6. \A t \in Session \ {u} : LocalInv(t)'
  BY <1>0, <1>1, <1>a, <1>b, <1>c, Fields, OthersKeep, Zenon DEF Inv
<1>7. NoNewEpoch(u)
  BY <1>2, Zenon DEF NoNewEpoch, InFlight, SameWrite, SameOwned
<1>8. \A s, t \in Session : s # t => Distinct(s, t)'
  BY <1>1, <1>7, SameNoNewEpoch, StaysDistinct, Zenon DEF Inv
<1>9. KeepsVisible
  BY <1>c, Zenon DEF KeepsVisible
<1> QED
  BY <1>4, <1>5, <1>6, <1>8, <1>9, Zenon DEF Inv

-----------------------------------------------------------------------------
\* The newest uploaded snapshot becomes the checkpoint.
LEMMA DrainPreserves ==
    ASSUME Inv, DrainCompletes, TypeOK', NEW u \in Session, Drain(u)
    PROVE  Inv'
<1>0. TypeOK /\ Functions
  BY FunctionsOnSession, Zenon DEF Inv
<1>1. SameShared /\ \A t \in Session \ {u} : Same(t)
  BY <1>0, Zenon DEF Functions, Drain, SameShared, Same, SameFence, SameWrite, SameRenewal,
     SameRelease, SameOwned, shared, activation, fence, writing, renewing, releasing
<1>2. /\ pc[u] = "active" /\ wr[u] \in {"idle", "reloading"} /\ pc'[u] = "draining"
      /\ seal'[u] = TRUE /\ chk'[u] = state[u] /\ seen'[u] = seen[u]
      /\ started'[u] = started[u] /\ stop'[u] = stop[u] /\ SameFence(u) /\ SameWrite(u)
      /\ SameRenewal(u) /\ relgen'[u] = relgen[u] /\ SameOwned(u)
  BY <1>0, Zenon DEF Functions, Drain, SameFence, SameWrite, SameRenewal, SameRelease, SameOwned,
     shared, activation, fence, writing, renewing, releasing
<1>3. /\ EpochInv(u) /\ CasInv(u) /\ RecoverInv(u) /\ ResidentInv(u) /\ WriteInv(u)
      /\ LinearInv(u) /\ TimeInv(u) /\ SharedInv /\ Typed(u)
  BY <1>0, Fields, Zenon DEF Inv, LocalInv
<1>a. now <= now /\ 0 <= now /\ 0 <= authority.gen /\ authority.gen <= authority.gen
  BY <1>3 DEF Typed
<1>4. NoNewEpoch(u)
  BY <1>2, <1>3, Zenon DEF NoNewEpoch, Owning, InFlight, SameWrite, SameOwned
<1>5. EpochInv(u)'
  BY <1>1, <1>2, <1>3, Zenon DEF EpochInv, InFlight, PreClaim, Owning, Registered, SameShared,
     SameFence, SameWrite, SameRenewal, SameRelease, SameOwned
<1>6. CasInv(u)'
  BY <1>1, <1>2, <1>3, <1>a, Zenon DEF CasInv, PreClaim, SameShared, SameFence, SameWrite,
     SameRenewal, SameRelease, SameOwned
<1>7. RecoverInv(u)'
  BY <1>1, <1>2, <1>3, Zenon DEF RecoverInv, Recovering, SameShared, SameFence, SameWrite,
     SameRenewal, SameRelease, SameOwned
<1>8. ResidentInv(u)'
  BY <1>1, <1>2, <1>3, Zenon DEF ResidentInv, Owning, Resident, SameShared, SameFence, SameWrite,
     SameRenewal, SameRelease, SameOwned
<1>9. WriteInv(u)'
  BY <1>1, <1>2, <1>3, Zenon DEF WriteInv, InFlight, HasAuthority, Owning, Recoverable, Latest,
     SameShared, SameFence, SameWrite, SameRenewal, SameRelease, SameOwned
<1>10. LinearInv(u)'
  BY <1>1, <1>2, <1>3, Zenon DEF LinearInv, SameShared, SameFence, SameWrite, SameRenewal,
     SameRelease, SameOwned
<1>11. TimeInv(u)'
  BY <1>1, <1>2, <1>3, <1>a, Zenon DEF TimeInv, Registered, Recovering, SameShared, SameFence,
     SameWrite, SameRenewal, SameRelease, SameOwned
<1> QED
  BY <1>1, <1>4, <1>5, <1>6, <1>7, <1>8, <1>9, <1>10, <1>11, LocalStep, Zenon DEF LocalInv,
     SameShared, Grows

\* An unfinished upload leaves the record to recovery.
LEMMA DrainFailsPreserves ==
    ASSUME Inv, DrainCompletes, TypeOK', NEW u \in Session, DrainFails(u)
    PROVE  Inv'
<1>0. TypeOK /\ Functions
  BY FunctionsOnSession, Zenon DEF Inv
<1>1. SameShared /\ \A t \in Session \ {u} : Same(t)
  BY <1>0, Zenon DEF Functions, DrainFails, SameShared, Same, SameFence, SameWrite, SameRenewal,
     SameRelease, SameOwned, shared, activation, fence, writing, renewing, releasing
<1>2. /\ pc[u] = "active" /\ pc'[u] = "drained" /\ seen'[u] = seen[u]
      /\ started'[u] = started[u] /\ stop'[u] = stop[u] /\ SameFence(u) /\ SameWrite(u)
      /\ SameRenewal(u) /\ SameRelease(u) /\ SameOwned(u)
  BY <1>0, Zenon DEF Functions, DrainFails, SameFence, SameWrite, SameRenewal, SameRelease,
     SameOwned, shared, activation, fence, writing, renewing, releasing
<1>3. /\ EpochInv(u) /\ CasInv(u) /\ RecoverInv(u) /\ ResidentInv(u) /\ WriteInv(u)
      /\ LinearInv(u) /\ TimeInv(u) /\ SharedInv /\ Typed(u)
  BY <1>0, Fields, Zenon DEF Inv, LocalInv
<1>a. now <= now /\ 0 <= now /\ 0 <= authority.gen /\ authority.gen <= authority.gen
  BY <1>3 DEF Typed
<1>4. NoNewEpoch(u)
  BY <1>2, <1>3, Zenon DEF NoNewEpoch, Owning, InFlight, SameWrite, SameOwned
<1>5. EpochInv(u)'
  BY <1>1, <1>2, <1>3, Zenon DEF EpochInv, InFlight, PreClaim, Owning, Registered, SameShared,
     SameFence, SameWrite, SameRenewal, SameRelease, SameOwned
<1>6. CasInv(u)'
  BY <1>1, <1>2, <1>3, <1>a, Zenon DEF CasInv, PreClaim, SameShared, SameFence, SameWrite,
     SameRenewal, SameRelease, SameOwned
<1>7. RecoverInv(u)'
  BY <1>1, <1>2, <1>3, Zenon DEF RecoverInv, Recovering, SameShared, SameFence, SameWrite,
     SameRenewal, SameRelease, SameOwned
<1>8. ResidentInv(u)'
  BY <1>1, <1>2, <1>3, Zenon DEF ResidentInv, Owning, Resident, SameShared, SameFence, SameWrite,
     SameRenewal, SameRelease, SameOwned
<1>9. WriteInv(u)'
  BY <1>1, <1>2, <1>3, Zenon DEF WriteInv, InFlight, HasAuthority, Owning, Recoverable, Latest,
     SameShared, SameFence, SameWrite, SameRenewal, SameRelease, SameOwned
<1>10. LinearInv(u)'
  BY <1>1, <1>2, <1>3, Zenon DEF LinearInv, SameShared, SameFence, SameWrite, SameRenewal,
     SameRelease, SameOwned
<1>11. TimeInv(u)'
  BY <1>1, <1>2, <1>3, <1>a, Zenon DEF TimeInv, Registered, Recovering, SameShared, SameFence,
     SameWrite, SameRenewal, SameRelease, SameOwned
<1> QED
  BY <1>1, <1>4, <1>5, <1>6, <1>7, <1>8, <1>9, <1>10, <1>11, LocalStep, Zenon DEF LocalInv,
     SameShared, Grows

\* The store is closed.
LEMMA FinishStorePreserves ==
    ASSUME Inv, DrainCompletes, TypeOK', NEW u \in Session, FinishStore(u)
    PROVE  Inv'
<1>0. TypeOK /\ Functions
  BY FunctionsOnSession, Zenon DEF Inv
<1>1. SameShared /\ \A t \in Session \ {u} : Same(t)
  BY <1>0, Zenon DEF Functions, FinishStore, SameShared, Same, SameFence, SameWrite, SameRenewal,
     SameRelease, SameOwned, shared, activation, fence, writing, renewing, releasing
<1>2. /\ pc[u] = "draining" /\ pc'[u] = "drained" /\ seen'[u] = seen[u]
      /\ started'[u] = started[u] /\ stop'[u] = stop[u] /\ SameFence(u) /\ SameWrite(u)
      /\ SameRenewal(u) /\ SameRelease(u) /\ SameOwned(u)
  BY <1>0, Zenon DEF Functions, FinishStore, SameFence, SameWrite, SameRenewal, SameRelease,
     SameOwned, shared, activation, fence, writing, renewing, releasing
<1>3. /\ EpochInv(u) /\ CasInv(u) /\ RecoverInv(u) /\ ResidentInv(u) /\ WriteInv(u)
      /\ LinearInv(u) /\ TimeInv(u) /\ SharedInv /\ Typed(u)
  BY <1>0, Fields, Zenon DEF Inv, LocalInv
<1>a. now <= now /\ 0 <= now /\ 0 <= authority.gen /\ authority.gen <= authority.gen
  BY <1>3 DEF Typed
<1>4. NoNewEpoch(u)
  BY <1>2, <1>3, Zenon DEF NoNewEpoch, Owning, InFlight, SameWrite, SameOwned
<1>5. EpochInv(u)'
  BY <1>1, <1>2, <1>3, Zenon DEF EpochInv, InFlight, PreClaim, Owning, Registered, SameShared,
     SameFence, SameWrite, SameRenewal, SameRelease, SameOwned
<1>6. CasInv(u)'
  BY <1>1, <1>2, <1>3, <1>a, Zenon DEF CasInv, PreClaim, SameShared, SameFence, SameWrite,
     SameRenewal, SameRelease, SameOwned
<1>7. RecoverInv(u)'
  BY <1>1, <1>2, <1>3, Zenon DEF RecoverInv, Recovering, SameShared, SameFence, SameWrite,
     SameRenewal, SameRelease, SameOwned
<1>8. ResidentInv(u)'
  BY <1>1, <1>2, <1>3, Zenon DEF ResidentInv, Owning, Resident, SameShared, SameFence, SameWrite,
     SameRenewal, SameRelease, SameOwned
<1>9. WriteInv(u)'
  BY <1>1, <1>2, <1>3, Zenon DEF WriteInv, InFlight, HasAuthority, Owning, Recoverable, Latest,
     SameShared, SameFence, SameWrite, SameRenewal, SameRelease, SameOwned
<1>10. LinearInv(u)'
  BY <1>1, <1>2, <1>3, Zenon DEF LinearInv, SameShared, SameFence, SameWrite, SameRenewal,
     SameRelease, SameOwned
<1>11. TimeInv(u)'
  BY <1>1, <1>2, <1>3, <1>a, Zenon DEF TimeInv, Registered, Recovering, SameShared, SameFence,
     SameWrite, SameRenewal, SameRelease, SameOwned
<1> QED
  BY <1>1, <1>4, <1>5, <1>6, <1>7, <1>8, <1>9, <1>10, <1>11, LocalStep, Zenon DEF LocalInv,
     SameShared, Grows

\* The store could not be closed.
LEMMA FinishFailsPreserves ==
    ASSUME Inv, DrainCompletes, TypeOK', NEW u \in Session, FinishFails(u)
    PROVE  Inv'
<1>0. TypeOK /\ Functions
  BY FunctionsOnSession, Zenon DEF Inv
<1>1. SameShared /\ \A t \in Session \ {u} : Same(t)
  BY <1>0, Zenon DEF Functions, FinishFails, SameShared, Same, SameFence, SameWrite, SameRenewal,
     SameRelease, SameOwned, shared, activation, fence, writing, renewing, releasing
<1>2. /\ pc[u] = "draining" /\ pc'[u] = "drained" /\ seal'[u] = FALSE
      /\ seen'[u] = seen[u] /\ started'[u] = started[u] /\ stop'[u] = stop[u]
      /\ SameFence(u) /\ SameWrite(u) /\ SameRenewal(u) /\ chk'[u] = chk[u]
      /\ relgen'[u] = relgen[u] /\ SameOwned(u)
  BY <1>0, Zenon DEF Functions, FinishFails, SameFence, SameWrite, SameRenewal, SameRelease,
     SameOwned, shared, activation, fence, writing, renewing, releasing
<1>3. /\ EpochInv(u) /\ CasInv(u) /\ RecoverInv(u) /\ ResidentInv(u) /\ WriteInv(u)
      /\ LinearInv(u) /\ TimeInv(u) /\ SharedInv /\ Typed(u)
  BY <1>0, Fields, Zenon DEF Inv, LocalInv
<1>a. now <= now /\ 0 <= now /\ 0 <= authority.gen /\ authority.gen <= authority.gen
  BY <1>3 DEF Typed
<1>4. NoNewEpoch(u)
  BY <1>2, <1>3, Zenon DEF NoNewEpoch, Owning, InFlight, SameWrite, SameOwned
<1>5. EpochInv(u)'
  BY <1>1, <1>2, <1>3, Zenon DEF EpochInv, InFlight, PreClaim, Owning, Registered, SameShared,
     SameFence, SameWrite, SameRenewal, SameRelease, SameOwned
<1>6. CasInv(u)'
  BY <1>1, <1>2, <1>3, <1>a, Zenon DEF CasInv, PreClaim, SameShared, SameFence, SameWrite,
     SameRenewal, SameRelease, SameOwned
<1>7. RecoverInv(u)'
  BY <1>1, <1>2, <1>3, Zenon DEF RecoverInv, Recovering, SameShared, SameFence, SameWrite,
     SameRenewal, SameRelease, SameOwned
<1>8. ResidentInv(u)'
  BY <1>1, <1>2, <1>3, Zenon DEF ResidentInv, Owning, Resident, SameShared, SameFence, SameWrite,
     SameRenewal, SameRelease, SameOwned
<1>9. WriteInv(u)'
  BY <1>1, <1>2, <1>3, Zenon DEF WriteInv, InFlight, HasAuthority, Owning, Recoverable, Latest,
     SameShared, SameFence, SameWrite, SameRenewal, SameRelease, SameOwned
<1>10. LinearInv(u)'
  BY <1>1, <1>2, <1>3, Zenon DEF LinearInv, SameShared, SameFence, SameWrite, SameRenewal,
     SameRelease, SameOwned
<1>11. TimeInv(u)'
  BY <1>1, <1>2, <1>3, <1>a, Zenon DEF TimeInv, Registered, Recovering, SameShared, SameFence,
     SameWrite, SameRenewal, SameRelease, SameOwned
<1> QED
  BY <1>1, <1>4, <1>5, <1>6, <1>7, <1>8, <1>9, <1>10, <1>11, LocalStep, Zenon DEF LocalInv,
     SameShared, Grows

\* The fence is closed.
LEMMA CloseFencePreserves ==
    ASSUME Inv, DrainCompletes, TypeOK', NEW u \in Session, CloseFence(u)
    PROVE  Inv'
<1>0. TypeOK /\ Functions
  BY FunctionsOnSession, Zenon DEF Inv
<1>1. SameShared /\ \A t \in Session \ {u} : Same(t)
  BY <1>0, Zenon DEF Functions, CloseFence, SameShared, Same, SameFence, SameWrite, SameRenewal,
     SameRelease, SameOwned, shared, activation, fence, writing, renewing, releasing
<1>2. /\ pc[u] = "drained" /\ pc'[u] = "releasing" /\ cut'[u] = TRUE /\ seen'[u] = seen[u]
      /\ started'[u] = started[u] /\ stop'[u] = stop[u] /\ deadline'[u] = deadline[u]
      /\ SameWrite(u) /\ SameRenewal(u) /\ SameRelease(u) /\ SameOwned(u)
  BY <1>0, Zenon DEF Functions, CloseFence, SameFence, SameWrite, SameRenewal, SameRelease,
     SameOwned, shared, activation, fence, writing, renewing, releasing
<1>3. /\ EpochInv(u) /\ CasInv(u) /\ RecoverInv(u) /\ ResidentInv(u) /\ WriteInv(u)
      /\ LinearInv(u) /\ TimeInv(u) /\ SharedInv /\ Typed(u)
  BY <1>0, Fields, Zenon DEF Inv, LocalInv
<1>a. now <= now /\ 0 <= now /\ 0 <= authority.gen /\ authority.gen <= authority.gen
  BY <1>3 DEF Typed
<1>4. NoNewEpoch(u)
  BY <1>2, <1>3, Zenon DEF NoNewEpoch, Owning, InFlight, SameWrite, SameOwned
<1>5. EpochInv(u)'
  BY <1>1, <1>2, <1>3, Zenon DEF EpochInv, InFlight, PreClaim, Owning, Registered, SameShared,
     SameFence, SameWrite, SameRenewal, SameRelease, SameOwned
<1>6. CasInv(u)'
  BY <1>1, <1>2, <1>3, <1>a, Zenon DEF CasInv, PreClaim, SameShared, SameFence, SameWrite,
     SameRenewal, SameRelease, SameOwned
<1>7. RecoverInv(u)'
  BY <1>1, <1>2, <1>3, Zenon DEF RecoverInv, Recovering, SameShared, SameFence, SameWrite,
     SameRenewal, SameRelease, SameOwned
<1>8. ResidentInv(u)'
  BY <1>1, <1>2, <1>3, Zenon DEF ResidentInv, Owning, Resident, SameShared, SameFence, SameWrite,
     SameRenewal, SameRelease, SameOwned
<1>9. WriteInv(u)'
  BY <1>1, <1>2, <1>3, Zenon DEF WriteInv, InFlight, HasAuthority, Owning, Recoverable, Latest,
     SameShared, SameFence, SameWrite, SameRenewal, SameRelease, SameOwned
<1>10. LinearInv(u)'
  BY <1>1, <1>2, <1>3, Zenon DEF LinearInv, SameShared, SameFence, SameWrite, SameRenewal,
     SameRelease, SameOwned
<1>11. TimeInv(u)'
  BY <1>1, <1>2, <1>3, <1>a, Zenon DEF TimeInv, Registered, Recovering, SameShared, SameFence,
     SameWrite, SameRenewal, SameRelease, SameOwned
<1> QED
  BY <1>1, <1>4, <1>5, <1>6, <1>7, <1>8, <1>9, <1>10, <1>11, LocalStep, Zenon DEF LocalInv,
     SameShared, Grows

\* The record is read for the release.
LEMMA ReleaseLoadPreserves ==
    ASSUME Inv, DrainCompletes, TypeOK', NEW u \in Session, ReleaseLoad(u)
    PROVE  Inv'
<1>0. TypeOK /\ Functions
  BY FunctionsOnSession, Zenon DEF Inv
<1>1. SameShared /\ \A t \in Session \ {u} : Same(t)
  BY <1>0, Zenon DEF Functions, ReleaseLoad, SameShared, Same, SameFence, SameWrite, SameRenewal,
     SameRelease, SameOwned, shared, activation, fence, writing, renewing, releasing
<1>2. /\ pc[u] = "releasing" /\ authority.owner = u /\ pc'[u] = "releaseCas"
      /\ relgen'[u] = authority.gen /\ seen'[u] = seen[u] /\ started'[u] = started[u]
      /\ stop'[u] = stop[u] /\ SameFence(u) /\ SameWrite(u) /\ SameRenewal(u)
      /\ seal'[u] = seal[u] /\ chk'[u] = chk[u] /\ SameOwned(u)
  BY <1>0, Zenon DEF Functions, ReleaseLoad, SameFence, SameWrite, SameRenewal, SameRelease,
     SameOwned, shared, activation, fence, writing, renewing, releasing
<1>3. /\ EpochInv(u) /\ CasInv(u) /\ RecoverInv(u) /\ ResidentInv(u) /\ WriteInv(u)
      /\ LinearInv(u) /\ TimeInv(u) /\ SharedInv /\ Typed(u)
  BY <1>0, Fields, Zenon DEF Inv, LocalInv
<1>a. now <= now /\ 0 <= now /\ 0 <= authority.gen /\ authority.gen <= authority.gen
  BY <1>3 DEF Typed
<1>4. NoNewEpoch(u)
  BY <1>2, <1>3, Zenon DEF NoNewEpoch, Owning, InFlight, SameWrite, SameOwned
<1>5. EpochInv(u)'
  BY <1>1, <1>2, <1>3, Zenon DEF EpochInv, InFlight, PreClaim, Owning, Registered, SameShared,
     SameFence, SameWrite, SameRenewal, SameRelease, SameOwned
<1>6. CasInv(u)'
  BY <1>1, <1>2, <1>3, <1>a, Zenon DEF CasInv, PreClaim, SameShared, SameFence, SameWrite,
     SameRenewal, SameRelease, SameOwned
<1>7. RecoverInv(u)'
  BY <1>1, <1>2, <1>3, Zenon DEF RecoverInv, Recovering, SameShared, SameFence, SameWrite,
     SameRenewal, SameRelease, SameOwned
<1>8. ResidentInv(u)'
  BY <1>1, <1>2, <1>3, Zenon DEF ResidentInv, Owning, Resident, SameShared, SameFence, SameWrite,
     SameRenewal, SameRelease, SameOwned
<1>9. WriteInv(u)'
  BY <1>1, <1>2, <1>3, Zenon DEF WriteInv, InFlight, HasAuthority, Owning, Recoverable, Latest,
     SameShared, SameFence, SameWrite, SameRenewal, SameRelease, SameOwned
<1>10. LinearInv(u)'
  BY <1>1, <1>2, <1>3, Zenon DEF LinearInv, SameShared, SameFence, SameWrite, SameRenewal,
     SameRelease, SameOwned
<1>11. TimeInv(u)'
  BY <1>1, <1>2, <1>3, <1>a, Zenon DEF TimeInv, Registered, Recovering, SameShared, SameFence,
     SameWrite, SameRenewal, SameRelease, SameOwned
<1> QED
  BY <1>1, <1>4, <1>5, <1>6, <1>7, <1>8, <1>9, <1>10, <1>11, LocalStep, Zenon DEF LocalInv,
     SameShared, Grows

\* The release lost its race.
LEMMA ReleaseConflictPreserves ==
    ASSUME Inv, DrainCompletes, TypeOK', NEW u \in Session, ReleaseConflict(u)
    PROVE  Inv'
<1>0. TypeOK /\ Functions
  BY FunctionsOnSession, Zenon DEF Inv
<1>1. SameShared /\ \A t \in Session \ {u} : Same(t)
  BY <1>0, Zenon DEF Functions, ReleaseConflict, SameShared, Same, SameFence, SameWrite,
     SameRenewal, SameRelease, SameOwned, shared, activation, fence, writing, renewing, releasing
<1>2. /\ pc[u] = "releaseCas" /\ pc'[u] = "releasing" /\ relgen'[u] = 0
      /\ seen'[u] = seen[u] /\ started'[u] = started[u] /\ stop'[u] = stop[u]
      /\ SameFence(u) /\ SameWrite(u) /\ SameRenewal(u) /\ seal'[u] = seal[u]
      /\ chk'[u] = chk[u] /\ SameOwned(u)
  BY <1>0, Zenon DEF Functions, ReleaseConflict, SameFence, SameWrite, SameRenewal, SameRelease,
     SameOwned, shared, activation, fence, writing, renewing, releasing
<1>3. /\ EpochInv(u) /\ CasInv(u) /\ RecoverInv(u) /\ ResidentInv(u) /\ WriteInv(u)
      /\ LinearInv(u) /\ TimeInv(u) /\ SharedInv /\ Typed(u)
  BY <1>0, Fields, Zenon DEF Inv, LocalInv
<1>a. now <= now /\ 0 <= now /\ 0 <= authority.gen /\ authority.gen <= authority.gen
  BY <1>3 DEF Typed
<1>4. NoNewEpoch(u)
  BY <1>2, <1>3, Zenon DEF NoNewEpoch, Owning, InFlight, SameWrite, SameOwned
<1>5. EpochInv(u)'
  BY <1>1, <1>2, <1>3, Zenon DEF EpochInv, InFlight, PreClaim, Owning, Registered, SameShared,
     SameFence, SameWrite, SameRenewal, SameRelease, SameOwned
<1>6. CasInv(u)'
  BY <1>1, <1>2, <1>3, <1>a, Zenon DEF CasInv, PreClaim, SameShared, SameFence, SameWrite,
     SameRenewal, SameRelease, SameOwned
<1>7. RecoverInv(u)'
  BY <1>1, <1>2, <1>3, Zenon DEF RecoverInv, Recovering, SameShared, SameFence, SameWrite,
     SameRenewal, SameRelease, SameOwned
<1>8. ResidentInv(u)'
  BY <1>1, <1>2, <1>3, Zenon DEF ResidentInv, Owning, Resident, SameShared, SameFence, SameWrite,
     SameRenewal, SameRelease, SameOwned
<1>9. WriteInv(u)'
  BY <1>1, <1>2, <1>3, Zenon DEF WriteInv, InFlight, HasAuthority, Owning, Recoverable, Latest,
     SameShared, SameFence, SameWrite, SameRenewal, SameRelease, SameOwned
<1>10. LinearInv(u)'
  BY <1>1, <1>2, <1>3, Zenon DEF LinearInv, SameShared, SameFence, SameWrite, SameRenewal,
     SameRelease, SameOwned
<1>11. TimeInv(u)'
  BY <1>1, <1>2, <1>3, <1>a, Zenon DEF TimeInv, Registered, Recovering, SameShared, SameFence,
     SameWrite, SameRenewal, SameRelease, SameOwned
<1> QED
  BY <1>1, <1>4, <1>5, <1>6, <1>7, <1>8, <1>9, <1>10, <1>11, LocalStep, Zenon DEF LocalInv,
     SameShared, Grows
-----------------------------------------------------------------------------
\* The record is given back, sealed with the checkpoint after a clean shutdown.
LEMMA ReleaseCasPreserves ==
    ASSUME Inv, DrainCompletes, TypeOK', NEW u \in Session, ReleaseCas(u)
    PROVE  Inv' /\ KeepsVisible
<1>0. TypeOK /\ Functions
  BY FunctionsOnSession, Zenon DEF Inv
<1>1. /\ UNCHANGED <<now, skew, store, fenced, acked>>
      /\ \A t \in Session \ {u} : Same(t)
  BY <1>0, Zenon DEF Functions, ReleaseCas, Forget, Same, SameFence, SameWrite, SameRenewal,
     SameRelease, SameOwned, writing, renewing
<1>2. /\ pc[u] = "releaseCas" /\ authority.gen = relgen[u] /\ pc'[u] = "released"
      /\ seen'[u] = NoRecord /\ own'[u] = NoRecord /\ state'[u] = NoSnapshot
      /\ chk'[u] = NoSnapshot /\ started'[u] = 0 /\ cut'[u] = TRUE /\ seal'[u] = FALSE
      /\ stop'[u] = stop[u] /\ SameWrite(u) /\ SameRenewal(u)
  BY <1>0, Zenon DEF Functions, ReleaseCas, Forget, SameWrite, SameRenewal, writing, renewing
<1>3. /\ EpochInv(u) /\ CasInv(u) /\ ResidentInv(u) /\ WriteInv(u)
      /\ LinearInv(u) /\ TimeInv(u) /\ SharedInv /\ AckedSurvives /\ Typed(u)
  BY <1>0, Fields, Zenon DEF Inv, LocalInv
<1>a. /\ authority'.gen = authority.gen + 1 /\ authority'.expires = 0
      /\ authority'.epoch = authority.epoch /\ authority'.owner = authority.owner
      /\ authority'.sealed = (authority.sealed \/ seal[u])
      /\ authority'.base = IF seal[u] THEN chk[u] ELSE authority.base
  BY <1>0, Zenon DEF ReleaseCas, Released, TypeOK, Record
<1>b. /\ authority.owner = u /\ own[u].epoch = authority.epoch /\ own[u].base = authority.base
      /\ ~authority.sealed
      /\ seal[u] => wr[u] \in {"idle", "reloading"} /\ Top(Candidates(store, own[u]), chk[u])
  BY <1>2, <1>3, Zenon DEF CasInv, EpochInv, ResidentInv, Owning
<1>c. Candidates(store, own[u]) = Candidates(store, authority)
  BY <1>b, Zenon DEF Candidates
<1>d. seal[u] => Latest(authority) = chk[u]
  BY <1>0, <1>b, <1>c, LatestIs, Zenon DEF TypeOK
<1>e. ~seal[u] => /\ Candidates(store, authority)' = Candidates(store, authority)
                  /\ Latest(authority)' = Latest(authority)
  BY <1>1, <1>a, Zenon DEF Candidates, Latest
<1>f. Recoverable(authority)' = Recoverable(authority)
  BY <1>a, <1>b, <1>d, <1>e, Zenon DEF Recoverable
<1>g. seal[u] => chk[u].epoch <= authority.epoch
  <2>1. authority.base.epoch <= authority.epoch /\ authority.epoch <= authority.epoch
    BY <1>3 DEF SharedInv, Typed
  <2> QED
    BY <1>b, <1>c, <2>1, Zenon DEF Top, Candidates
<1>h. /\ authority'.gen # 0 /\ 0 <= authority'.gen /\ 0 <= now
      /\ rn[u] = "cas" => rgen[u] <= authority'.gen /\ rgen[u] # authority'.gen
      /\ 0 <= now + skew[u] + Duration
  BY <1>3, <1>a, TimingAssumption DEF CasInv, Typed
<1>4. SharedInv' /\ AckedSurvives'
  <2>1. Linear(chk[u])
    BY <1>3, Zenon DEF LinearInv
  <2>2. ASSUME seal[u] PROVE SharedInv'
    BY <1>1, <1>3, <1>a, <1>b, <1>g, <1>h, <2>1, <2>2, SessionAssumption, Zenon DEF SharedInv
  <2>3. ASSUME ~seal[u] PROVE SharedInv'
    BY <1>1, <1>3, <1>a, <1>b, <1>e, <1>h, <2>3, SessionAssumption, Zenon DEF SharedInv
  <2> QED
    BY <1>1, <1>3, <1>f, <2>2, <2>3, Zenon DEF AckedSurvives
<1>5. LocalInv(u)'
  <2>1. EpochInv(u)'
    BY <1>2, <1>3, <1>a, Zenon DEF EpochInv, InFlight, PreClaim, Owning, Registered, SameWrite
  <2>2. CasInv(u)'
    BY <1>2, <1>h, Empty, Zenon DEF CasInv, PreClaim, SameRenewal
  <2>3. RecoverInv(u)' /\ ResidentInv(u)'
    BY <1>2, Zenon DEF RecoverInv, ResidentInv, Recovering, Owning
  <2>4. WriteInv(u)'
    <3>1. InFlight(u)' = InFlight(u) /\ ~HasAuthority(u)' /\ pc'[u] \notin Owning
      BY <1>2, Zenon DEF InFlight, HasAuthority, SameWrite, Owning
    <3>2. InFlight(u) => ~seal[u]
      BY <1>b, Zenon DEF InFlight
    <3> QED
      BY <1>1, <1>2, <1>3, <1>a, <1>b, <1>e, <3>1, <3>2, ZenonT(60) DEF WriteInv, SameWrite
  <2>5. LinearInv(u)'
    BY <1>2, <1>3, Empty, Zenon DEF LinearInv, SameWrite
  <2>6. TimeInv(u)'
    BY <1>1, <1>2, <1>3, <1>a, <1>h, Zenon DEF TimeInv, Registered, Recovering, SameRenewal
  <2> QED
    BY <2>1, <2>2, <2>3, <2>4, <2>5, <2>6, Zenon DEF LocalInv
<1>6. \A t \in Session \ {u} : LocalInv(t)'
  BY <1>0, <1>1, <1>a, <1>b, <1>f, Fields, OthersKeep, Zenon DEF Inv
<1>7. NoNewEpoch(u)
  BY <1>2, Zenon DEF NoNewEpoch, InFlight, SameWrite, Owning
<1>8. \A s, t \in Session : s # t => Distinct(s, t)'
  BY <1>1, <1>7, SameNoNewEpoch, StaysDistinct, Zenon DEF Inv
<1>9. KeepsVisible
  BY <1>f, Zenon DEF KeepsVisible
<1> QED
  BY <1>4, <1>5, <1>6, <1>8, <1>9, Zenon DEF Inv

-----------------------------------------------------------------------------
(* Writing.                                                                *)

\* A write is sent.
LEMMA StartWritePreserves ==
    ASSUME Inv, DrainCompletes, TypeOK', NEW u \in Session, StartWrite(u)
    PROVE  Inv'
<1>0. TypeOK /\ Functions
  BY FunctionsOnSession, Zenon DEF Inv
<1>1. SameShared /\ \A t \in Session \ {u} : Same(t)
  BY <1>0, Zenon DEF Functions, StartWrite, Serving, HasAuthority, SameShared, Same, SameFence,
     SameWrite, SameRenewal, SameRelease, SameOwned, shared, activation, fence, writing, renewing,
     releasing
<1>2. /\ pc[u] = "active" /\ wr[u] = "idle" /\ HasAuthority(u) /\ wr'[u] = "sent"
      /\ wsnap'[u] = [epoch |-> own[u].epoch, version |-> state[u].version + 1,
                      writes |-> state[u].writes \cup {Written(u)}]
      /\ pc'[u] = pc[u] /\ seen'[u] = seen[u] /\ started'[u] = started[u]
      /\ stop'[u] = stop[u] /\ SameFence(u) /\ SameRenewal(u) /\ SameRelease(u)
      /\ SameOwned(u)
  BY <1>0, Zenon DEF Functions, StartWrite, Serving, HasAuthority, SameFence, SameWrite,
     SameRenewal, SameRelease, SameOwned, shared, activation, fence, writing, renewing, releasing
<1>3. /\ EpochInv(u) /\ CasInv(u) /\ RecoverInv(u) /\ ResidentInv(u) /\ WriteInv(u)
      /\ LinearInv(u) /\ TimeInv(u) /\ SharedInv /\ Typed(u)
  BY <1>0, Fields, Zenon DEF Inv, LocalInv
<1>a. now <= now /\ 0 <= now /\ 0 <= authority.gen /\ authority.gen <= authority.gen
  BY <1>3 DEF Typed
<1>b. wsnap'[u].epoch = own[u].epoch /\ wsnap'[u].version = state[u].version + 1
      /\ wsnap'[u].writes = state[u].writes \cup {<<own[u].epoch, state[u].version + 1>>}
  BY <1>2 DEF Written
<1>c. \A x \in store : x.epoch = own[u].epoch => x.version < state[u].version + 1
  <2>1. Top(Candidates(store, own[u]), state[u]) /\ own[u].base.epoch < own[u].epoch
    BY <1>2, <1>3, Zenon DEF ResidentInv, Owning, Resident
  <2>2. state[u].epoch <= own[u].epoch
    BY <1>3, <2>1 DEF Top, Candidates, Typed
  <2> SUFFICES ASSUME NEW x \in store, x.epoch = own[u].epoch
               PROVE  x.version < state[u].version + 1
    OBVIOUS
  <2>3. x = state[u] \/ Newer(state[u], x)
    BY <2>1, Zenon DEF Top, Candidates
  <2>4. x.version \in Nat
    BY <1>0, SnapshotFields, Zenon DEF TypeOK
  <2> QED
    BY <1>3, <2>2, <2>3, <2>4 DEF Newer, Typed
<1>d. own[u].epoch = authority.epoch => ~authority.sealed /\ Latest(authority) = state[u]
  <2> SUFFICES ASSUME own[u].epoch = authority.epoch
               PROVE  ~authority.sealed /\ Latest(authority) = state[u]
    OBVIOUS
  <2>1. authority.owner = u
    BY <1>2, <1>3, Zenon DEF EpochInv, Owning
  <2>2. own[u].base = authority.base /\ ~authority.sealed
    BY <1>2, <1>3, <2>1, Zenon DEF ResidentInv, Owning
  <2>3. Top(Candidates(store, own[u]), state[u])
    BY <1>2, <1>3, Zenon DEF ResidentInv, Owning, Resident
  <2>4. Top(Candidates(store, authority), state[u])
    BY <2>2, <2>3, Zenon DEF Candidates
  <2>5. Latest(authority) = state[u]
    BY <1>0, <2>4, LatestIs, Zenon DEF TypeOK
  <2> QED
    BY <2>2, <2>5, Zenon
<1>e. own[u].epoch < authority.epoch => LogFences /\ own[u].epoch \in fenced
  <2> SUFFICES ASSUME own[u].epoch < authority.epoch
               PROVE  LogFences /\ own[u].epoch \in fenced
    OBVIOUS
  <2>0. own[u].epoch # authority.epoch
    BY <1>3 DEF Typed
  <2>1. authority.owner # u
    BY <1>2, <1>3, <2>0, Zenon DEF EpochInv, Owning
  <2>2a. deadline[u] > now /\ ~cut[u]
    BY <1>2, Zenon DEF HasAuthority
  <2>2. ~(deadline[u] <= now) /\ ~cut[u]
    BY <1>3, <2>2a DEF Typed
  <2>3. LogFences
    BY <1>2, <1>3, <2>1, <2>2, Zenon DEF TimeInv, Registered
  <2> QED
    BY <1>2, <1>3, <2>3, Zenon DEF WriteInv, Owning
<1>f. Linear(wsnap'[u])
  <2>1. state[u] \in Snapshot /\ wsnap'[u] \in Snapshot
    BY <1>0, Zenon DEF TypeOK
  <2>2. own[u].epoch \in Nat /\ Linear(state[u])
    BY <1>3, Zenon DEF Typed, LinearInv
  <2> QED
    BY <1>b, <2>1, <2>2, LinearExtended, Zenon
<1>4. NoNewEpoch(u)
  BY <1>2, <1>3, <1>b, Zenon DEF NoNewEpoch, Owning, InFlight, SameWrite, SameOwned
<1>5. EpochInv(u)'
  BY <1>1, <1>2, <1>3, <1>b, Zenon DEF EpochInv, InFlight, PreClaim, Owning, Registered, SameShared,
     SameFence, SameWrite, SameRenewal, SameRelease, SameOwned
<1>6. CasInv(u)'
  BY <1>1, <1>2, <1>3, <1>a, Zenon DEF CasInv, PreClaim, SameShared, SameFence, SameWrite,
     SameRenewal, SameRelease, SameOwned
<1>7. RecoverInv(u)'
  BY <1>1, <1>2, <1>3, Zenon DEF RecoverInv, Recovering, SameShared, SameFence, SameWrite,
     SameRenewal, SameRelease, SameOwned
<1>8. ResidentInv(u)'
  BY <1>1, <1>2, <1>3, Zenon DEF ResidentInv, Owning, Resident, SameShared, SameFence, SameWrite,
     SameRenewal, SameRelease, SameOwned
<1>9. WriteInv(u)'

  <2>1. InFlight(u)' /\ pc'[u] \in Owning
    BY <1>2, Zenon DEF InFlight, Owning
  <2>2. <<wsnap'[u].epoch, wsnap'[u].version>> \in wsnap'[u].writes
    BY <1>b, Zenon
  <2>3. \A x \in store' : x.epoch = wsnap'[u].epoch => x.version < wsnap'[u].version
    BY <1>1, <1>b, <1>c, Zenon DEF SameShared
  <2>4. wsnap'[u].epoch = authority'.epoch =>
          ~authority'.sealed /\ Latest(authority)'.writes \subseteq wsnap'[u].writes
    BY <1>1, <1>b, <1>d, Zenon DEF SameShared, Latest
  <2>5. wsnap'[u].epoch < authority'.epoch => LogFences /\ wsnap'[u].epoch \in fenced'
    BY <1>1, <1>b, <1>e, Zenon DEF SameShared
  <2>6. own'[u].epoch < authority'.epoch => wsnap'[u].epoch < authority'.epoch
    BY <1>2, <1>b, Zenon DEF SameOwned
  <2> QED
    BY <1>2, <1>b, <2>1, <2>2, <2>3, <2>4, <2>5, <2>6, Zenon DEF WriteInv, SameOwned
<1>10. LinearInv(u)'
  BY <1>1, <1>2, <1>3, <1>f, Zenon DEF LinearInv, SameShared, SameFence, SameWrite, SameRenewal,
     SameRelease, SameOwned
<1>11. TimeInv(u)'
  BY <1>1, <1>2, <1>3, <1>a, Zenon DEF TimeInv, Registered, Recovering, SameShared, SameFence,
     SameWrite, SameRenewal, SameRelease, SameOwned
<1> QED
  BY <1>1, <1>4, <1>5, <1>6, <1>7, <1>8, <1>9, <1>10, <1>11, LocalStep, Zenon DEF LocalInv,
     SameShared, Grows

\* A landed write is not acknowledged once the fence is closed.
LEMMA FenceWritePreserves ==
    ASSUME Inv, DrainCompletes, TypeOK', NEW u \in Session, FenceWrite(u)
    PROVE  Inv'
<1>0. TypeOK /\ Functions
  BY FunctionsOnSession, Zenon DEF Inv
<1>1. SameShared /\ \A t \in Session \ {u} : Same(t)
  BY <1>0, Zenon DEF Functions, FenceWrite, SameShared, Same, SameFence, SameWrite, SameRenewal,
     SameRelease, SameOwned, shared, activation, fence, writing, renewing, releasing
<1>2. /\ wr[u] = "landed" /\ pc[u] # "failed" /\ stop'[u] = TRUE /\ wr'[u] = "idle"
      /\ wsnap'[u] = NoSnapshot /\ state'[u] = wsnap[u] /\ pc'[u] = pc[u]
      /\ seen'[u] = seen[u] /\ started'[u] = started[u] /\ SameFence(u) /\ SameRenewal(u)
      /\ SameRelease(u) /\ own'[u] = own[u]
  BY <1>0, Zenon DEF Functions, FenceWrite, SameFence, SameWrite, SameRenewal, SameRelease,
     SameOwned, shared, activation, fence, writing, renewing, releasing
<1>3. /\ EpochInv(u) /\ CasInv(u) /\ RecoverInv(u) /\ ResidentInv(u) /\ WriteInv(u)
      /\ LinearInv(u) /\ TimeInv(u) /\ SharedInv /\ Typed(u)
  BY <1>0, Fields, Zenon DEF Inv, LocalInv
<1>a. now <= now /\ 0 <= now /\ 0 <= authority.gen /\ authority.gen <= authority.gen
  BY <1>3 DEF Typed
<1>4. NoNewEpoch(u)
  BY <1>2, <1>3, Zenon DEF NoNewEpoch, Owning, InFlight, SameWrite, SameOwned
<1>5. EpochInv(u)'
  BY <1>1, <1>2, <1>3, Empty, Zenon DEF EpochInv, InFlight, PreClaim, Owning, Registered,
     SameShared, SameFence, SameWrite, SameRenewal, SameRelease, SameOwned
<1>6. CasInv(u)'
  BY <1>1, <1>2, <1>3, <1>a, Empty, Zenon DEF CasInv, PreClaim, SameShared, SameFence, SameWrite,
     SameRenewal, SameRelease, SameOwned
<1>7. RecoverInv(u)'
  BY <1>1, <1>2, <1>3, Empty, Zenon DEF RecoverInv, Recovering, SameShared, SameFence, SameWrite,
     SameRenewal, SameRelease, SameOwned, EpochInv, PreClaim
<1>8. ResidentInv(u)'
  BY <1>1, <1>2, <1>3, Empty, Zenon DEF ResidentInv, Owning, Resident, SameShared, SameFence,
     SameWrite, SameRenewal, SameRelease, SameOwned
<1>9. WriteInv(u)'
  BY <1>1, <1>2, <1>3, Empty, Zenon DEF WriteInv, InFlight, HasAuthority, Owning, Recoverable,
     Latest, SameShared, SameFence, SameWrite, SameRenewal, SameRelease, SameOwned
<1>10. LinearInv(u)'
  BY <1>1, <1>2, <1>3, Empty, Zenon DEF LinearInv, SameShared, SameFence, SameWrite, SameRenewal,
     SameRelease, SameOwned
<1>11. TimeInv(u)'
  BY <1>1, <1>2, <1>3, <1>a, Empty, Zenon DEF TimeInv, Registered, Recovering, SameShared,
     SameFence, SameWrite, SameRenewal, SameRelease, SameOwned
<1> QED
  BY <1>1, <1>4, <1>5, <1>6, <1>7, <1>8, <1>9, <1>10, <1>11, LocalStep, Zenon DEF LocalInv,
     SameShared, Grows

\* A write fails.
LEMMA FailWritePreserves ==
    ASSUME Inv, DrainCompletes, TypeOK', NEW u \in Session, FailWrite(u)
    PROVE  Inv'
<1>0. TypeOK /\ Functions
  BY FunctionsOnSession, Zenon DEF Inv
<1>1. SameShared /\ \A t \in Session \ {u} : Same(t)
  BY <1>0, Zenon DEF Functions, FailWrite, SameShared, Same, SameFence, SameWrite, SameRenewal,
     SameRelease, SameOwned, shared, activation, fence, writing, renewing, releasing
<1>2. /\ wr[u] \in {"sent", "landed"} /\ stop'[u] = TRUE /\ wr'[u] = "failed"
      /\ wsnap'[u] = NoSnapshot /\ pc'[u] = pc[u] /\ seen'[u] = seen[u]
      /\ started'[u] = started[u] /\ SameFence(u) /\ SameRenewal(u) /\ SameRelease(u)
      /\ SameOwned(u)
  BY <1>0, Zenon DEF Functions, FailWrite, SameFence, SameWrite, SameRenewal, SameRelease,
     SameOwned, shared, activation, fence, writing, renewing, releasing
<1>3. /\ EpochInv(u) /\ CasInv(u) /\ RecoverInv(u) /\ ResidentInv(u) /\ WriteInv(u)
      /\ LinearInv(u) /\ TimeInv(u) /\ SharedInv /\ Typed(u)
  BY <1>0, Fields, Zenon DEF Inv, LocalInv
<1>a. now <= now /\ 0 <= now /\ 0 <= authority.gen /\ authority.gen <= authority.gen
  BY <1>3 DEF Typed
<1>4. NoNewEpoch(u)
  BY <1>2, <1>3, Zenon DEF NoNewEpoch, Owning, InFlight, SameWrite, SameOwned
<1>5. EpochInv(u)'
  BY <1>1, <1>2, <1>3, Empty, Zenon DEF EpochInv, InFlight, PreClaim, Owning, Registered,
     SameShared, SameFence, SameWrite, SameRenewal, SameRelease, SameOwned
<1>6. CasInv(u)'
  BY <1>1, <1>2, <1>3, <1>a, Empty, Zenon DEF CasInv, PreClaim, SameShared, SameFence, SameWrite,
     SameRenewal, SameRelease, SameOwned
<1>7. RecoverInv(u)'
  BY <1>1, <1>2, <1>3, Empty, Zenon DEF RecoverInv, Recovering, SameShared, SameFence, SameWrite,
     SameRenewal, SameRelease, SameOwned
<1>8. ResidentInv(u)'
  BY <1>1, <1>2, <1>3, Empty, Zenon DEF ResidentInv, Owning, Resident, SameShared, SameFence,
     SameWrite, SameRenewal, SameRelease, SameOwned
<1>9. WriteInv(u)'
  BY <1>1, <1>2, <1>3, Empty, Zenon DEF WriteInv, InFlight, HasAuthority, Owning, Recoverable,
     Latest, SameShared, SameFence, SameWrite, SameRenewal, SameRelease, SameOwned
<1>10. LinearInv(u)'
  BY <1>1, <1>2, <1>3, Empty, Zenon DEF LinearInv, SameShared, SameFence, SameWrite, SameRenewal,
     SameRelease, SameOwned
<1>11. TimeInv(u)'
  BY <1>1, <1>2, <1>3, <1>a, Empty, Zenon DEF TimeInv, Registered, Recovering, SameShared,
     SameFence, SameWrite, SameRenewal, SameRelease, SameOwned
<1> QED
  BY <1>1, <1>4, <1>5, <1>6, <1>7, <1>8, <1>9, <1>10, <1>11, LocalStep, Zenon DEF LocalInv,
     SameShared, Grows

\* The owner reads its record again.
LEMMA ReloadOwnerPreserves ==
    ASSUME Inv, DrainCompletes, TypeOK', NEW u \in Session, ReloadOwner(u)
    PROVE  Inv'
<1>0. TypeOK /\ Functions
  BY FunctionsOnSession, Zenon DEF Inv
<1>1. SameShared /\ \A t \in Session \ {u} : Same(t)
  BY <1>0, Zenon DEF Functions, ReloadOwner, Serving, SameShared, Same, SameFence, SameWrite,
     SameRenewal, SameRelease, SameOwned, shared, activation, fence, writing, renewing, releasing
<1>2. /\ pc[u] = "active" /\ wr[u] = "idle" /\ authority.owner = u
      /\ authority.epoch = own[u].epoch /\ seen'[u] = authority /\ wr'[u] = "reloading"
      /\ pc'[u] = pc[u] /\ started'[u] = started[u] /\ stop'[u] = stop[u] /\ SameFence(u)
      /\ wsnap'[u] = wsnap[u] /\ SameRenewal(u) /\ SameRelease(u) /\ SameOwned(u)
  BY <1>0, Zenon DEF Functions, ReloadOwner, Serving, SameFence, SameWrite, SameRenewal,
     SameRelease, SameOwned, shared, activation, fence, writing, renewing, releasing
<1>3. /\ EpochInv(u) /\ CasInv(u) /\ RecoverInv(u) /\ ResidentInv(u) /\ WriteInv(u)
      /\ LinearInv(u) /\ TimeInv(u) /\ SharedInv /\ Typed(u)
  BY <1>0, Fields, Zenon DEF Inv, LocalInv
<1>a. now <= now /\ 0 <= now /\ 0 <= authority.gen /\ authority.gen <= authority.gen
  BY <1>3 DEF Typed
<1>4. NoNewEpoch(u)
  BY <1>2, <1>3, Zenon DEF NoNewEpoch, Owning, InFlight, SameWrite, SameOwned
<1>5. EpochInv(u)'
  BY <1>1, <1>2, <1>3, Zenon DEF EpochInv, InFlight, PreClaim, Owning, Registered, SameShared,
     SameFence, SameWrite, SameRenewal, SameRelease, SameOwned
<1>6. CasInv(u)'
  BY <1>1, <1>2, <1>3, <1>a, Zenon DEF CasInv, PreClaim, SameShared, SameFence, SameWrite,
     SameRenewal, SameRelease, SameOwned
<1>7. RecoverInv(u)'
  BY <1>1, <1>2, <1>3, Zenon DEF RecoverInv, Recovering, SameShared, SameFence, SameWrite,
     SameRenewal, SameRelease, SameOwned
<1>8. ResidentInv(u)'
  BY <1>1, <1>2, <1>3, Zenon DEF ResidentInv, Owning, Resident, SameShared, SameFence, SameWrite,
     SameRenewal, SameRelease, SameOwned
<1>9. WriteInv(u)'
  BY <1>1, <1>2, <1>3, Zenon DEF WriteInv, InFlight, HasAuthority, Owning, Recoverable, Latest,
     SameShared, SameFence, SameWrite, SameRenewal, SameRelease, SameOwned
<1>10. LinearInv(u)'
  BY <1>1, <1>2, <1>3, Zenon DEF LinearInv, SameShared, SameFence, SameWrite, SameRenewal,
     SameRelease, SameOwned, SharedInv
<1>11. TimeInv(u)'
  BY <1>1, <1>2, <1>3, <1>a, Zenon DEF TimeInv, Registered, Recovering, SameShared, SameFence,
     SameWrite, SameRenewal, SameRelease, SameOwned
<1> QED
  BY <1>1, <1>4, <1>5, <1>6, <1>7, <1>8, <1>9, <1>10, <1>11, LocalStep, Zenon DEF LocalInv,
     SameShared, Grows

\* The owner reloads its newest snapshot.
LEMMA ReloadStatePreserves ==
    ASSUME Inv, DrainCompletes, TypeOK', NEW u \in Session, ReloadState(u)
    PROVE  Inv'
<1>0. TypeOK /\ Functions
  BY FunctionsOnSession, Zenon DEF Inv
<1>1. SameShared /\ \A t \in Session \ {u} : Same(t)
  BY <1>0, Zenon DEF Functions, ReloadState, SameShared, Same, SameFence, SameWrite, SameRenewal,
     SameRelease, SameOwned, shared, activation, fence, writing, renewing, releasing
<1>2. /\ wr[u] = "reloading" /\ pc[u] \notin {"released", "failed"} /\ seen'[u] = NoRecord
      /\ wr'[u] = "idle" /\ own'[u] = seen[u] /\ state'[u] = Latest(seen[u])
      /\ pc'[u] = pc[u] /\ started'[u] = started[u] /\ stop'[u] = stop[u] /\ SameFence(u)
      /\ wsnap'[u] = wsnap[u] /\ SameRenewal(u) /\ SameRelease(u)
  BY <1>0, Zenon DEF Functions, ReloadState, SameFence, SameWrite, SameRenewal, SameRelease,
     SameOwned, shared, activation, fence, writing, renewing, releasing
<1>3. /\ EpochInv(u) /\ CasInv(u) /\ RecoverInv(u) /\ ResidentInv(u) /\ WriteInv(u)
      /\ LinearInv(u) /\ TimeInv(u) /\ SharedInv /\ Typed(u)
  BY <1>0, Fields, Zenon DEF Inv, LocalInv
<1>a. now <= now /\ 0 <= now /\ 0 <= authority.gen /\ authority.gen <= authority.gen
  BY <1>3 DEF Typed
<1>b. pc[u] \in Owning
  BY <1>2, <1>3, Zenon DEF EpochInv, PreClaim, Owning, Typed, PCs
<1>c. seen[u].epoch = own[u].epoch /\ seen[u].base = own[u].base
  BY <1>2, <1>3, <1>b, Zenon DEF ResidentInv
<1>d. Candidates(store, seen[u]) = Candidates(store, own[u])
  BY <1>c, Zenon DEF Candidates
<1>e. pc[u] \in Resident => Latest(seen[u]) = state[u]
  BY <1>0, <1>2, <1>3, <1>b, <1>d, LatestIs, Zenon DEF ResidentInv, TypeOK
<1>f. Linear(Latest(seen[u]))
  BY <1>3, Empty, Zenon DEF ReloadState, Readable, SharedInv
<1>4. NoNewEpoch(u)
  BY <1>2, <1>3, <1>b, <1>c, Zenon DEF NoNewEpoch, Owning, InFlight, SameWrite, SameOwned
<1>5. EpochInv(u)'
  <2>1. /\ pc[u] \notin PreClaim \cup {"claimed", "unloaded"} /\ ~InFlight(u)'
        /\ pc[u] \notin Registered => cut[u] \/ deadline[u] = 0
        /\ 0 < own[u].epoch /\ own[u].epoch <= authority.epoch
        /\ own[u].epoch = authority.epoch <=> authority.owner = u
    BY <1>2, <1>3, <1>b, Zenon DEF EpochInv, InFlight
  <2> QED
    BY <1>1, <1>2, <1>c, <2>1, Zenon DEF EpochInv, SameShared, SameFence
<1>6. CasInv(u)'
  BY <1>1, <1>2, <1>3, <1>a, <1>b, Empty, Zenon DEF CasInv, PreClaim, SameShared, SameFence,
     SameWrite, SameRenewal, SameRelease, SameOwned, Owning
<1>7. RecoverInv(u)'
  BY <1>1, <1>2, <1>3, <1>b, Empty, Zenon DEF RecoverInv, Recovering, SameShared, SameFence,
     SameWrite, SameRenewal, SameRelease, SameOwned, Owning
<1>8. ResidentInv(u)'
  BY <1>1, <1>2, <1>3, <1>b, <1>c, <1>d, <1>e, Empty, ZenonT(60) DEF ResidentInv, Owning, Resident,
     SameShared, SameFence, SameWrite, SameRenewal, SameRelease, SameOwned
<1>9. WriteInv(u)'
  BY <1>1, <1>2, <1>3, <1>c, Empty, Zenon DEF WriteInv, InFlight, HasAuthority, Owning, Recoverable,
     Latest, SameShared, SameFence, SameWrite, SameRenewal, SameRelease, SameOwned
<1>10. LinearInv(u)'
  BY <1>1, <1>2, <1>3, <1>f, Empty, Zenon DEF LinearInv, SameShared, SameFence, SameWrite,
     SameRenewal, SameRelease, SameOwned
<1>11. TimeInv(u)'
  BY <1>1, <1>2, <1>3, <1>a, <1>b, Empty, Zenon DEF TimeInv, Registered, Recovering, SameShared,
     SameFence, SameWrite, SameRenewal, SameRelease, SameOwned, Owning
<1> QED
  BY <1>1, <1>4, <1>5, <1>6, <1>7, <1>8, <1>9, <1>10, <1>11, LocalStep, Zenon DEF LocalInv,
     SameShared, Grows
-----------------------------------------------------------------------------
\* A snapshot reaches the store: it is the newest of its stream.
LEMMA LandPreserves ==
    ASSUME Inv, DrainCompletes, TypeOK', NEW u \in Session, Land(u)
    PROVE  Inv' /\ KeepsVisible
<1>0. TypeOK /\ Functions
  BY FunctionsOnSession, Zenon DEF Inv
<1> DEFINE w == wsnap[u]
<1>1. /\ UNCHANGED <<now, skew, authority, fenced, acked>>
      /\ \A t \in Session \ {u} : Same(t)
  BY <1>0, Zenon DEF Functions, Land, Same, SameFence, SameWrite, SameRenewal, SameRelease,
     SameOwned, activation, fence, renewing, releasing
<1>2. /\ wr[u] = "sent" /\ w.epoch \notin fenced /\ store' = store \cup {w}
      /\ wr'[u] = "landed" /\ wsnap'[u] = w /\ pc'[u] = pc[u] /\ seen'[u] = seen[u]
      /\ started'[u] = started[u] /\ stop'[u] = stop[u]
      /\ SameFence(u) /\ SameRenewal(u) /\ SameRelease(u) /\ SameOwned(u)
  BY <1>0, Zenon DEF Functions, Land, SameFence, SameRenewal, SameRelease, SameOwned, activation,
     fence, renewing, releasing
<1>3. /\ EpochInv(u) /\ CasInv(u) /\ RecoverInv(u) /\ ResidentInv(u) /\ WriteInv(u)
      /\ LinearInv(u) /\ TimeInv(u) /\ SharedInv /\ AckedSurvives /\ Typed(u)
  BY <1>0, Fields, Zenon DEF Inv, LocalInv
<1>a. /\ 0 < w.epoch /\ w.epoch <= authority.epoch
      /\ w.epoch = authority.epoch <=> authority.owner = u
      /\ pc[u] \in Owning => w.epoch = own[u].epoch /\ ~seal[u]
      /\ pc[u] \notin PreClaim \cup {"claimed", "unloaded"}
  BY <1>2, <1>3, Zenon DEF EpochInv, ResidentInv, InFlight
<1>b. /\ <<w.epoch, w.version>> \in w.writes
      /\ \A x \in store : x.epoch = w.epoch => x.version < w.version
      /\ w.epoch = authority.epoch =>
           ~authority.sealed /\ Latest(authority).writes \subseteq w.writes
      /\ ~(w.epoch < authority.epoch /\ HasAuthority(u))
  BY <1>2, <1>3, Zenon DEF WriteInv, InFlight
<1>c. ASSUME NEW r, r.epoch = w.epoch, r.base \in Snapshot, r.base.epoch < r.epoch
      PROVE  Top(Candidates(store', r), w)
  <2>1. \A y \in Candidates(store', r) : y = w \/ y = r.base \/ (y \in store /\ y.epoch = w.epoch)
    BY <1>2, <1>c, Zenon DEF Candidates
  <2>2. w \in Candidates(store', r)
    BY <1>2, <1>c, Zenon DEF Candidates
  <2>3. Newer(w, r.base)
    BY <1>3, <1>c, SnapshotFields, Zenon DEF Newer, Typed
  <2>4. \A y \in store : y.epoch = w.epoch => Newer(w, y)
    <3>1. \A y \in store : y.version \in Nat
      BY <1>0, SnapshotFields, Zenon DEF TypeOK
    <3> QED
      BY <1>3, <1>b, <3>1, Zenon DEF Newer, Typed
  <2> QED
    BY <2>1, <2>2, <2>3, <2>4, Zenon DEF Top
<1>d. \A r : r.epoch # w.epoch => Candidates(store', r) = Candidates(store, r)
  BY <1>2, Zenon DEF Candidates
<1>e. w.epoch = authority.epoch =>
        /\ ~authority.sealed /\ Top(Candidates(store, authority)', w)
        /\ Latest(authority)' = w
  <2> SUFFICES ASSUME w.epoch = authority.epoch
               PROVE  /\ ~authority.sealed /\ Top(Candidates(store, authority)', w)
                      /\ Latest(authority)' = w
    OBVIOUS
  <2>1. authority.base \in Snapshot /\ authority.base.epoch < authority.epoch /\ ~authority.sealed
    BY <1>0, <1>3, <1>b, RecordFields, Zenon DEF SharedInv, TypeOK
  <2>2. Top(Candidates(store', authority), w)
    BY <1>c, <2>1, Zenon
  <2>3. Candidates(store', authority) \subseteq Snapshot
    BY <2>1, CandidatesAreSnapshots, Zenon DEF TypeOK
  <2>4. Newest(Candidates(store', authority)) = w
    BY <2>2, <2>3, NewestIs, Zenon
  <2> QED
    BY <1>1, <2>1, <2>2, <2>4, Zenon DEF Latest, Candidates
<1>f. w.epoch # authority.epoch =>
        /\ Candidates(store, authority)' = Candidates(store, authority)
        /\ Latest(authority)' = Latest(authority)
        /\ Recoverable(authority)' = Recoverable(authority)
  BY <1>1, <1>d, Zenon DEF Candidates, Latest, Recoverable
<1>g. Recoverable(authority).writes \subseteq Recoverable(authority)'.writes
  BY <1>1, <1>b, <1>e, <1>f, Zenon DEF Recoverable
<1>4. SharedInv' /\ AckedSurvives'
  <2>1. Linear(w)
    BY <1>3, Zenon DEF LinearInv
  <2>2. ~authority.sealed => Top(Candidates(store, authority)', Latest(authority)')
    BY <1>3, <1>e, <1>f, Zenon DEF SharedInv
  <2>3. \A x \in store' : 0 < x.epoch /\ x.epoch <= authority.epoch /\ Linear(x)
    BY <1>2, <1>3, <1>a, <2>1, Zenon DEF SharedInv
  <2>4. SharedInv'
    BY <1>1, <1>3, <2>2, <2>3, Zenon DEF SharedInv
  <2> QED
    BY <1>1, <1>3, <1>g, <2>4, Zenon DEF AckedSurvives
<1>5. LocalInv(u)'
  <2>1. EpochInv(u)'
    BY <1>1, <1>2, <1>3, <1>a, Zenon DEF EpochInv, InFlight, SameFence, SameRenewal, SameRelease,
       SameOwned
  <2>2. CasInv(u)'
    BY <1>1, <1>2, <1>3, Zenon DEF CasInv, SameRenewal, SameRelease
  <2>3. RecoverInv(u)'
    BY <1>2, <1>a, Zenon DEF RecoverInv, Recovering, PreClaim
  <2>4. ResidentInv(u)'
    <3>1. pc[u] \in Owning => Top(Candidates(store', own[u]), w)
      BY <1>0, <1>3, <1>a, <1>c, RecordFields, Zenon DEF ResidentInv, TypeOK
    <3> QED
      BY <1>1, <1>2, <1>3, <1>a, <3>1, Zenon DEF ResidentInv, SameRelease, SameOwned
  <2>5. WriteInv(u)'
    <3>1. HasAuthority(u)' = HasAuthority(u)
      BY <1>1, <1>2, Zenon DEF HasAuthority, SameFence
    <3>2. LogFences /\ pc[u] \in Owning /\ own[u].epoch < authority.epoch =>
            own[u].epoch \in fenced
      BY <1>3, Zenon DEF WriteInv
    <3> QED
      BY <1>1, <1>2, <1>b, <1>e, <3>1, <3>2, Zenon DEF WriteInv, SameOwned
  <2>6. LinearInv(u)'
    BY <1>2, <1>3, Zenon DEF LinearInv, SameRelease, SameOwned
  <2>7. TimeInv(u)'
    BY <1>1, <1>2, <1>3, Zenon DEF TimeInv, SameFence, SameRenewal, SameOwned
  <2> QED
    BY <2>1, <2>2, <2>3, <2>4, <2>5, <2>6, <2>7, Zenon DEF LocalInv
<1>6. ASSUME NEW t \in Session, t # u
      PROVE  LocalInv(t)'
  <2>0. Same(t)
    BY <1>1, <1>6, Zenon
  <2>1. /\ EpochInv(t) /\ CasInv(t) /\ RecoverInv(t) /\ ResidentInv(t) /\ WriteInv(t)
        /\ LinearInv(t) /\ TimeInv(t) /\ Distinct(u, t)
    BY <1>6, Zenon DEF Inv, LocalInv
  <2>2. /\ pc[t] \in Owning => own[t].epoch # w.epoch
        /\ InFlight(t) => wsnap[t].epoch # w.epoch
    BY <1>2, <2>1, Zenon DEF Distinct, InFlight
  <2>3. EpochInv(t)'
    BY <1>1, <2>0, <2>1, Zenon DEF EpochInv, InFlight, Same, SameFence, SameWrite, SameRenewal,
       SameRelease, SameOwned
  <2>4. CasInv(t)'
    BY <1>1, <2>0, <2>1, Zenon DEF CasInv, Same, SameRenewal, SameRelease
  <2>5. RecoverInv(t)'
    <3>1. pc[t] \in Recovering /\ ~seen[t].sealed /\ seen[t].gen = authority.gen /\ LogFences =>
            w.epoch # authority.epoch
      BY <1>2, <2>1, Zenon DEF RecoverInv, CasInv, Recovering, PreClaim
    <3>2. pc[t] \in Recovering /\ ~seen[t].sealed /\ seen[t].gen = authority.gen /\ LogFences =>
            Top(Candidates(store, authority)', own[t].base)
      BY <1>f, <2>1, <3>1, Zenon DEF RecoverInv
    <3> QED
      BY <1>1, <2>0, <2>1, <3>2, Zenon DEF RecoverInv, Same, SameOwned
  <2>6. ResidentInv(t)'
    <3>1. pc[t] \in Owning => Candidates(store', own[t]) = Candidates(store, own[t])
      BY <1>d, <2>2, Zenon
    <3> QED
      BY <1>1, <2>0, <2>1, <3>1, Zenon DEF ResidentInv, Same, SameWrite, SameRelease, SameOwned
  <2>7. WriteInv(t)'
    <3>1. InFlight(t)' = InFlight(t) /\ HasAuthority(t)' = HasAuthority(t)
      BY <1>1, <2>0, Zenon DEF InFlight, HasAuthority, Same, SameFence, SameWrite
    <3>2. InFlight(t) /\ wr[t] = "sent" =>
            \A x \in store' : x.epoch = wsnap[t].epoch => x.version < wsnap[t].version
      BY <1>2, <2>1, <2>2, Zenon DEF WriteInv
    <3>3. InFlight(t) /\ wsnap[t].epoch = authority.epoch =>
            /\ Candidates(store, authority)' = Candidates(store, authority)
            /\ Latest(authority)' = Latest(authority)
      BY <1>f, <2>2, Zenon
    <3> QED
      BY <1>1, <1>g, <2>0, <2>1, <3>1, <3>2, <3>3, Zenon DEF WriteInv, Same, SameWrite, SameOwned
  <2>8. LinearInv(t)'
    BY <2>0, <2>1, Zenon DEF LinearInv, Same, SameWrite, SameRelease, SameOwned
  <2>9. TimeInv(t)'
    BY <1>1, <2>0, <2>1, Zenon DEF TimeInv, Same, SameFence, SameRenewal, SameOwned
  <2> QED
    BY <2>3, <2>4, <2>5, <2>6, <2>7, <2>8, <2>9, Zenon DEF LocalInv
<1>7. NoNewEpoch(u)
  BY <1>2, Zenon DEF NoNewEpoch, InFlight, SameOwned
<1>8. \A s, t \in Session : s # t => Distinct(s, t)'
  BY <1>1, <1>7, SameNoNewEpoch, StaysDistinct, Zenon DEF Inv
<1>9. KeepsVisible
  BY <1>g, Zenon DEF KeepsVisible
<1> QED
  BY <1>4, <1>5, <1>6, <1>8, <1>9, Zenon DEF Inv

-----------------------------------------------------------------------------
\* A write is acknowledged: whoever may claim next has it.
LEMMA AcknowledgePreserves ==
    ASSUME Inv, DrainCompletes, TypeOK', NEW u \in Session, Acknowledge(u)
    PROVE  Inv'
<1>0. TypeOK /\ Functions
  BY FunctionsOnSession, Zenon DEF Inv
<1> DEFINE w == wsnap[u]
           p == <<w.epoch, w.version>>
<1>1. /\ UNCHANGED <<now, skew, authority, store, fenced>> /\ acked' = acked \cup {p}
      /\ \A t \in Session \ {u} : Same(t)
  BY <1>0, Zenon DEF Functions, Acknowledge, Same, SameFence, SameWrite, SameRenewal, SameRelease,
     SameOwned, shared, fence, renewing, releasing
<1>2. /\ wr[u] = "landed" /\ HasAuthority(u) /\ wr'[u] = "idle" /\ wsnap'[u] = NoSnapshot
      /\ state'[u] = w /\ own'[u] = own[u] /\ pc'[u] = pc[u] /\ seen'[u] = seen[u]
      /\ started'[u] = started[u] /\ stop'[u] = stop[u]
      /\ SameFence(u) /\ SameRenewal(u) /\ SameRelease(u)
  BY <1>0, Zenon DEF Functions, Acknowledge, SameFence, SameRenewal, SameRelease, fence, renewing,
     releasing
<1>3. /\ EpochInv(u) /\ CasInv(u) /\ RecoverInv(u) /\ ResidentInv(u) /\ WriteInv(u)
      /\ LinearInv(u) /\ TimeInv(u) /\ SharedInv /\ AckedSurvives /\ Typed(u)
  BY <1>0, Fields, Zenon DEF Inv, LocalInv
<1>a. pc[u] \in Registered /\ ~cut[u] /\ ~(deadline[u] <= now)
  BY <1>2, <1>3 DEF HasAuthority, EpochInv, Typed
<1>b. w.epoch = authority.epoch \/ w.epoch < authority.epoch
  BY <1>2, <1>3 DEF EpochInv, InFlight, Typed
<1>c. p \in Recoverable(authority).writes
  <2>1. CASE w.epoch = authority.epoch
    <3>1. p \in w.writes /\ ~authority.sealed /\ Top(Candidates(store, authority), w)
      BY <1>2, <1>3, <2>1, Zenon DEF WriteInv, InFlight
    <3>2. Latest(authority) = w
      BY <1>0, <3>1, LatestIs, Zenon DEF TypeOK
    <3> QED
      BY <3>1, <3>2, Zenon DEF Recoverable
  <2>2. CASE w.epoch < authority.epoch
    BY <1>2, <1>3, <2>2, Zenon DEF WriteInv, InFlight
  <2> QED
    BY <1>b, <2>1, <2>2, Zenon
<1>d. Latest(authority)' = Latest(authority) /\ Recoverable(authority)' = Recoverable(authority)
  BY <1>1, Zenon DEF Latest, Recoverable
<1>4. SharedInv' /\ AckedSurvives'
  BY <1>1, <1>3, <1>c, <1>d, Zenon DEF SharedInv, AckedSurvives
<1>5. LocalInv(u)'
  <2>1. EpochInv(u)'
    BY <1>1, <1>2, <1>3, Zenon DEF EpochInv, InFlight, SameFence, SameRenewal, SameRelease
  <2>2. CasInv(u)'
    BY <1>1, <1>2, <1>3, Zenon DEF CasInv, SameRenewal, SameRelease
  <2>3. RecoverInv(u)'
    BY <1>2, <1>a, Zenon DEF RecoverInv, Recovering, Registered
  <2>4. ResidentInv(u)'
    BY <1>1, <1>2, <1>3, <1>a, Zenon DEF ResidentInv, SameRelease, Registered
  <2>5. WriteInv(u)'
    BY <1>1, <1>2, <1>3, Zenon DEF WriteInv, InFlight
  <2>6. LinearInv(u)'
    BY <1>2, <1>3, Empty, Zenon DEF LinearInv, SameRelease
  <2>7. TimeInv(u)'
    BY <1>1, <1>2, <1>3, Zenon DEF TimeInv, SameFence, SameRenewal
  <2> QED
    BY <2>1, <2>2, <2>3, <2>4, <2>5, <2>6, <2>7, Zenon DEF LocalInv
<1>6. ASSUME NEW t \in Session, t # u
      PROVE  LocalInv(t)'
  <2>0. Same(t)
    BY <1>1, <1>6, Zenon
  <2>1. /\ EpochInv(t) /\ CasInv(t) /\ RecoverInv(t) /\ ResidentInv(t) /\ WriteInv(t)
        /\ LinearInv(t) /\ TimeInv(t) /\ Typed(t)
    BY <1>0, Fields, Zenon DEF Inv, LocalInv
  <2>2. pc[t] \in Recovering /\ ~seen[t].sealed /\ seen[t].gen = authority.gen =>
          p \in own[t].base.writes
    <3> SUFFICES ASSUME pc[t] \in Recovering, ~seen[t].sealed, seen[t].gen = authority.gen
                 PROVE  p \in own[t].base.writes
      OBVIOUS
    <3>1. seen[t] = authority
      BY <2>1, Zenon DEF CasInv, Recovering, PreClaim
    <3>2. CASE LogFences
      <4>1. Top(Candidates(store, authority), own[t].base)
        BY <2>1, <3>2, Zenon DEF RecoverInv
      <4>2. Latest(authority) = own[t].base
        BY <1>0, <4>1, LatestIs, Zenon DEF TypeOK
      <4> QED
        BY <1>c, <3>1, <4>2, Zenon DEF Recoverable
    \* Without log fencing the claimant waited for the lease, which outlasts u's window.
    <3>3. CASE ~LogFences
      <4>1. authority.expires <= now + Margin
        <5>1. authority.expires <= now + skew[t]
          BY <2>1, <3>1, <3>3, Zenon DEF RecoverInv
        <5> QED
          BY <2>1, <3>3, <5>1, SkewAssumption, TimingAssumption DEF Typed
      <4>2. authority.owner = u => deadline[u] + Margin + skew[u] <= authority.expires
        BY <1>3, <1>a, <3>3, Zenon DEF TimeInv
      <4>3. authority.owner = u => deadline[u] <= now
        BY <1>3, <4>1, <4>2, TimingAssumption DEF Typed
      <4>4. authority.owner # u => deadline[u] <= now
        BY <1>3, <1>a, <3>3, Zenon DEF TimeInv
      <4> QED
        BY <1>a, <4>3, <4>4, Zenon
    <3> QED
      BY <3>2, <3>3, Zenon
  <2>3. EpochInv(t)'
    BY <1>1, <2>0, <2>1, Zenon DEF EpochInv, InFlight, Same, SameFence, SameWrite, SameRenewal,
       SameRelease, SameOwned
  <2>4. CasInv(t)'
    BY <1>1, <2>0, <2>1, Zenon DEF CasInv, Same, SameRenewal, SameRelease
  <2>5. RecoverInv(t)'
    BY <1>1, <2>0, <2>1, <2>2, Zenon DEF RecoverInv, Same, SameOwned
  <2>6. ResidentInv(t)'
    BY <1>1, <2>0, <2>1, Zenon DEF ResidentInv, Same, SameWrite, SameRelease, SameOwned
  <2>7. WriteInv(t)'
    BY <1>1, <1>d, <2>0, <2>1, Zenon DEF WriteInv, InFlight, HasAuthority, Same, SameFence,
       SameWrite, SameOwned
  <2>8. LinearInv(t)'
    BY <2>0, <2>1, Zenon DEF LinearInv, Same, SameWrite, SameRelease, SameOwned
  <2>9. TimeInv(t)'
    BY <1>1, <2>0, <2>1, Zenon DEF TimeInv, Same, SameFence, SameRenewal, SameOwned
  <2> QED
    BY <2>3, <2>4, <2>5, <2>6, <2>7, <2>8, <2>9, Zenon DEF LocalInv
<1>7. NoNewEpoch(u)
  BY <1>2, Zenon DEF NoNewEpoch, InFlight
<1>8. \A s, t \in Session : s # t => Distinct(s, t)'
  BY <1>1, <1>7, SameNoNewEpoch, StaysDistinct, Zenon DEF Inv
<1> QED
  BY <1>4, <1>5, <1>6, <1>8, Zenon DEF Inv

-----------------------------------------------------------------------------
(* The invariant is inductive.                                             *)

\* The initial state satisfies the invariant.
LEMMA InvInit == Init => Inv
<1> SUFFICES ASSUME Init PROVE Inv
  OBVIOUS
<1>1. TypeOK
  BY TypeInit, Zenon
<1>2. authority = NoRecord /\ store = {} /\ fenced = {} /\ acked = {} /\ now = 1
  BY Zenon DEF Init
<1>3. SharedInv /\ AckedSurvives
  <2>1. 0 <= 0
    OBVIOUS
  <2> QED
    BY <1>2, <2>1, Empty, Zenon DEF SharedInv, AckedSurvives
<1>4. ASSUME NEW s \in Session
      PROVE  LocalInv(s) /\ pc[s] \notin Owning /\ ~InFlight(s)
  <2>1. /\ pc[s] = "idle" /\ seen[s] = NoRecord /\ own[s] = NoRecord /\ state[s] = NoSnapshot
        /\ started[s] = 0 /\ deadline[s] = 0 /\ wr[s] = "idle" /\ wsnap[s] = NoSnapshot
        /\ rn[s] = "idle" /\ ~seal[s] /\ chk[s] = NoSnapshot
    BY Zenon DEF Init
  <2>2. 0 <= 0 /\ 0 <= 1
    OBVIOUS
  <2>3. NoSession # s
    BY SessionAssumption, Zenon
  <2>4. EpochInv(s) /\ CasInv(s)
    BY <1>2, <2>1, <2>2, <2>3, Empty, Zenon DEF EpochInv, CasInv, InFlight, Owning
  <2>5. RecoverInv(s) /\ ResidentInv(s) /\ WriteInv(s)
    BY <2>1, Zenon DEF RecoverInv, ResidentInv, WriteInv, InFlight, Owning, Recovering
  <2>6. LinearInv(s) /\ TimeInv(s)
    BY <1>2, <2>1, <2>2, <2>3, Empty, Zenon DEF LinearInv, TimeInv, Recovering, Registered
  <2> QED
    BY <2>1, <2>4, <2>5, <2>6, Zenon DEF LocalInv, InFlight, Owning
<1> QED
  BY <1>1, <1>3, <1>4, Zenon DEF Inv, Distinct

\* Time only ends leases and windows.
LEMMA TickPreserves ==
    ASSUME Inv, TypeOK', Tick
    PROVE  Inv'
<1>0. TypeOK /\ SharedInv /\ AckedSurvives
  BY Zenon DEF Inv
<1>1. /\ UNCHANGED <<skew, authority, store, fenced, acked>> /\ now' = now + 1
      /\ \A t \in Session : Same(t)
  BY Zenon DEF Tick, Same, SameFence, SameWrite, SameRenewal, SameRelease, SameOwned, shared,
     activation, fence, writing, renewing, releasing
<1>2. SharedInv' /\ AckedSurvives'
  BY <1>0, <1>1, Zenon DEF SharedInv, AckedSurvives, Recoverable, Latest
<1>3. ASSUME NEW t \in Session
      PROVE  LocalInv(t)'
  <2>1. /\ EpochInv(t) /\ CasInv(t) /\ RecoverInv(t) /\ ResidentInv(t) /\ WriteInv(t)
        /\ LinearInv(t) /\ TimeInv(t) /\ Typed(t) /\ Same(t)
    BY <1>0, <1>1, Fields, Zenon DEF Inv, LocalInv
  <2>2. /\ \A x \in Nat : x <= now => x <= now'
        /\ \A x \in Nat : x <= now + skew[t] => x <= now' + skew[t]
        /\ \A x \in Nat : x <= now + skew[t] + Duration => x <= now' + skew[t] + Duration
        /\ deadline[t] > now' => deadline[t] > now
        /\ Window(started[t]) \in Nat
    BY <1>1, <2>1, TimingAssumption DEF Typed, Window
  <2>3. EpochInv(t)'
    BY <1>1, <2>1, Zenon DEF EpochInv, InFlight, Same, SameFence, SameWrite, SameRenewal,
       SameRelease, SameOwned
  <2>4. CasInv(t)'
    BY <1>1, <2>1, Zenon DEF CasInv, Same, SameRenewal, SameRelease
  <2>5. RecoverInv(t)'
    <3>1. seen[t].expires <= now + skew[t] => seen[t].expires <= now' + skew[t]
      BY <2>1, <2>2, Zenon DEF Typed
    <3> QED
      BY <1>1, <2>1, <3>1, Zenon DEF RecoverInv, Same, SameOwned
  <2>6. ResidentInv(t)'
    BY <1>1, <2>1, Zenon DEF ResidentInv, Same, SameWrite, SameRelease, SameOwned
  <2>7. WriteInv(t)'
    <3>1. InFlight(t)' = InFlight(t) /\ (HasAuthority(t)' => HasAuthority(t))
      BY <1>1, <2>1, <2>2, Zenon DEF InFlight, HasAuthority, Same, SameFence, SameWrite
    <3>2. /\ Candidates(store, authority)' = Candidates(store, authority)
          /\ Latest(authority)' = Latest(authority)
          /\ Recoverable(authority)' = Recoverable(authority)
      BY <1>1, Zenon DEF Candidates, Latest, Recoverable
    <3> QED
      BY <1>1, <2>1, <3>1, <3>2, Zenon DEF WriteInv, Same, SameWrite, SameOwned
  <2>8. LinearInv(t)'
    BY <2>1, Zenon DEF LinearInv, Same, SameWrite, SameRelease, SameOwned
  <2>9. TimeInv(t)'
    <3>1. /\ started[t] <= now => started[t] <= now'
          /\ own[t].expires <= now + skew[t] + Duration =>
               own[t].expires <= now' + skew[t] + Duration
          /\ Window(started[t]) <= now => Window(started[t]) <= now'
          /\ deadline[t] <= now => deadline[t] <= now'
          /\ rstart[t] <= now => rstart[t] <= now'
          /\ authority.expires <= now + skew[t] + Duration =>
               authority.expires <= now' + skew[t] + Duration
      BY <2>1, <2>2, Zenon DEF Typed
    <3> QED
      BY <1>1, <2>1, <3>1, Zenon DEF TimeInv, Same, SameFence, SameRenewal, SameOwned
  <2> QED
    BY <2>3, <2>4, <2>5, <2>6, <2>7, <2>8, <2>9, Zenon DEF LocalInv
<1>4. \A s, t \in Session : s # t => Distinct(s, t)'
  BY <1>1, SameNoNewEpoch, StaysDistinct, Zenon DEF Inv
<1> QED
  BY <1>2, <1>3, <1>4, Zenon DEF Inv

\* Every step preserves the invariant.
LEMMA InvNext ==
    ASSUME DrainCompletes, Inv, [Next]_vars
    PROVE  Inv'
<1>0. TypeOK'
  BY TypeNext, Zenon DEF Inv
<1>1. CASE UNCHANGED vars
  <2>1. Grows /\ \A t \in Session : Same(t)
    BY <1>1, Zenon DEF vars, shared, activation, fence, writing, renewing, releasing, Grows, Same,
       SameFence, SameWrite, SameRenewal, SameRelease, SameOwned
  <2>2. SharedInv' /\ AckedSurvives'
    BY <2>1, Zenon DEF Inv, SharedInv, AckedSurvives, Grows, Recoverable, Latest
  <2> QED
    BY <1>0, <2>1, <2>2, Untouched, SameNoNewEpoch, StaysDistinct, Zenon DEF Inv
<1>2. CASE Tick
  BY <1>0, <1>2, TickPreserves, Zenon
<1>3. ASSUME NEW s \in Session, Activate(s)
      PROVE  Inv'
  BY <1>0, <1>3, AssignPreserves, UseHintPreserves, LoadOwnerPreserves, ReloadAfterHintPreserves,
     RecoverSealedPreserves, RecoverFailsPreserves, RecoverUnsealedPreserves,
     RefuseActivationPreserves, ClaimPreserves, ClaimStalePreserves, ClaimLostPreserves,
     AbandonClaimPreserves, ConfirmPreserves, ConfirmLatePreserves, Zenon DEF Activate
<1>4. ASSUME NEW s \in Session, Renew(s)
      PROVE  Inv'
  BY <1>0, <1>4, RenewLoadPreserves, RenewCasPreserves, RenewConflictPreserves, RenewReplyPreserves,
     RenewLatePreserves, RenewLostPreserves, Zenon DEF Renew
<1>5. ASSUME NEW s \in Session, Write(s)
      PROVE  Inv'
  BY <1>0, <1>5, StartWritePreserves, LandPreserves, AcknowledgePreserves, FenceWritePreserves,
     FailWritePreserves, ReloadOwnerPreserves, ReloadStatePreserves, Zenon DEF Write
<1>6. ASSUME NEW s \in Session, Shutdown(s)
      PROVE  Inv'
  BY <1>0, <1>6, FinishStorePreserves, FinishFailsPreserves, CloseFencePreserves,
     ReleaseLoadPreserves, ReleaseMootPreserves, ReleaseCasPreserves, ReleaseConflictPreserves,
     Zenon DEF Shutdown
<1>7. ASSUME NEW s \in Session, Drain(s) \/ DrainFails(s) \/ Crash(s)
      PROVE  Inv'
  BY <1>0, <1>7, DrainPreserves, DrainFailsPreserves, CrashPreserves, Zenon
<1> QED
  BY <1>1, <1>2, <1>3, <1>4, <1>5, <1>6, <1>7, Zenon DEF Next

\* The invariant gives one history, and without log fencing exclusive authority.
LEMMA InvImplies == Inv => OneHistory /\ ExclusiveAuthority
<1> SUFFICES ASSUME Inv PROVE OneHistory /\ ExclusiveAuthority
  OBVIOUS
<1>1. TypeOK /\ SharedInv /\ AckedSurvives
  BY Zenon DEF Inv
<1>2. Linear(Recoverable(authority))
  BY <1>1, Zenon DEF SharedInv, Recoverable, Top, Candidates
<1>3. OneHistory
  BY <1>1, <1>2, Zenon DEF AckedSurvives, OneHistory, Linear
<1>4. ASSUME NEW s \in Session, ~LogFences, pc[s] \in Registered, HasAuthority(s)
      PROVE  authority.owner = s
  <2>1. TimeInv(s) /\ Typed(s)
    BY <1>1, Fields, Zenon DEF Inv, LocalInv
  <2>2. ~cut[s] /\ ~(deadline[s] <= now)
    BY <1>4, <2>1 DEF HasAuthority, Typed
  <2> QED
    BY <1>4, <2>1, <2>2, Zenon DEF TimeInv
<1> QED
  BY <1>3, <1>4, Zenon DEF ExclusiveAuthority

\* Inv is an invariant of a system whose drains complete.
THEOREM Invariance ==
    ASSUME DrainCompletes
    PROVE  Spec => []Inv
<1>1. Inv /\ [Next]_vars => Inv'
  BY InvNext, Zenon
<1> QED
  BY <1>1, InvInit, PTL DEF Spec

\* AckedSurvives: whatever claims, expiries, crashes, late writes and releases happen,
\* the state the next owner starts from holds every write that was acknowledged.
THEOREM AcknowledgedWritesSurvive ==
    ASSUME DrainCompletes
    PROVE  Spec => []AckedSurvives
<1>1. Inv => AckedSurvives
  BY Zenon DEF Inv
<1> QED
  BY <1>1, Invariance, PTL

\* OneHistory: no two owners acknowledge different writes of one version.
THEOREM AcknowledgedWritesAgree ==
    ASSUME DrainCompletes
    PROVE  Spec => []OneHistory
<1>1. Inv => OneHistory
  BY InvImplies, Zenon
<1> QED
  BY <1>1, Invariance, PTL

\* ExclusiveAuthority: without log fencing, a session that passes ensure_authority is
\* the owner in the record; clocks may differ by up to the margin.
THEOREM AuthorityIsExclusive ==
    ASSUME DrainCompletes
    PROVE  Spec => []ExclusiveAuthority
<1>1. Inv => ExclusiveAuthority
  BY InvImplies, Zenon
<1> QED
  BY <1>1, Invariance, PTL

\* VisibleGrows: with log fencing, what the next reader of the record would recover
\* never loses a write.  Only a put that lands, a claim, a renewal and a release change
\* the record or the store.
THEOREM VisibleStateGrows ==
    ASSUME DrainCompletes
    PROVE  Spec => VisibleGrows
<1>1. ASSUME Inv, [Next]_vars
      PROVE  KeepsVisible
  <2>0. TypeOK'
    BY <1>1, TypeNext, Zenon DEF Inv
  <2>1. (authority' = authority /\ store' = store) => KeepsVisible
    BY Zenon DEF KeepsVisible, Recoverable, Latest
  <2>2. ASSUME NEW u \in Session, Claim(u) \/ RenewCas(u) \/ ReleaseCas(u) \/ Land(u)
        PROVE  KeepsVisible
    BY <1>1, <2>0, <2>2, ClaimPreserves, RenewCasPreserves, ReleaseCasPreserves, LandPreserves,
       Zenon
  <2>3. CASE UNCHANGED vars \/ Tick
    BY <2>1, <2>3, Zenon DEF vars, Tick, shared
  <2>4. ASSUME NEW u \in Session, Activate(u)
        PROVE  KeepsVisible
    BY <2>1, <2>2, <2>4, Zenon DEF Activate, Assign, UseHint, LoadOwner, ReloadAfterHint,
       RecoverSealed, RecoverFails, RecoverUnsealed, RefuseActivation, ClaimStale, ClaimLost,
       AbandonClaim, Confirm, ConfirmLate, shared
  <2>5. ASSUME NEW u \in Session, Renew(u)
        PROVE  KeepsVisible
    BY <2>1, <2>2, <2>5, Zenon DEF Renew, RenewLoad, RenewConflict, RenewReply, RenewLate,
       RenewLost, shared
  <2>6. ASSUME NEW u \in Session, Write(u)
        PROVE  KeepsVisible
    BY <2>1, <2>2, <2>6, Zenon DEF Write, StartWrite, Acknowledge, FenceWrite, FailWrite,
       ReloadOwner, ReloadState, shared
  <2>7. ASSUME NEW u \in Session, Drain(u) \/ DrainFails(u) \/ Shutdown(u) \/ Crash(u)
        PROVE  KeepsVisible
    BY <2>1, <2>2, <2>7, Zenon DEF Drain, DrainFails, Shutdown, FinishStore, FinishFails,
       CloseFence, ReleaseLoad, ReleaseMoot, ReleaseConflict, Crash, shared
  <2> QED
    BY <1>1, <2>3, <2>4, <2>5, <2>6, <2>7, Zenon DEF Next
<1>2. Inv /\ [Next]_vars => [KeepsVisible]_vars
  BY <1>1, Zenon
<1> QED
  BY <1>2, Invariance, PTL DEF Spec, VisibleGrows, KeepsVisible

-----------------------------------------------------------------------------
(* Giving the record back.                                                 *)

Releases == TypeOK /\ \A s \in Session : ReleaseInv(s)

\* What ReleaseInv says of t is not touched.
Kept(t) ==
    /\ pc'[t] = pc[t] /\ own'[t] = own[t] /\ seen'[t] = seen[t] /\ wr'[t] = wr[t]
    /\ rn'[t] = rn[t] /\ rgen'[t] = rgen[t] /\ relgen'[t] = relgen[t] /\ tries'[t] = tries[t]

\* A step that leaves t and the record alone.
LEMMA ReleaseKept ==
    ASSUME NEW t \in Session, ReleaseInv(t), Kept(t), authority' = authority
    PROVE  ReleaseInv(t)'
  BY Zenon DEF ReleaseInv, Kept

\* A request of another session changes the record, which is not t's afterwards.
LEMMA ReleaseOvertaken ==
    ASSUME TypeOK, NEW t \in Session, ReleaseInv(t), Kept(t),
           authority'.gen = authority.gen + 1, authority'.owner # t
    PROVE  ReleaseInv(t)'
<1>1. Typed(t) /\ tries[t] \in Nat
  BY Fields, Zenon DEF TypeOK
<1>2. /\ rn[t] = "cas" => rgen[t] <= authority'.gen /\ rgen[t] # authority'.gen
      /\ pc[t] = "releaseCas" => relgen[t] <= authority'.gen /\ relgen[t] # authority'.gen
  BY <1>1 DEF ReleaseInv, Typed
<1> QED
  BY <1>2, Zenon DEF ReleaseInv, Kept

\* A step of u that leaves the record alone keeps ReleaseInv if it keeps u's part.
Quiet(u) ==
    /\ authority' = authority /\ \A t \in Session \ {u} : Kept(t)
    /\ rn'[u] = rn[u] /\ rgen'[u] = rgen[u]

\* What the steps of a release and a renewal need of numbers.
LEMMA Reflexive == \A n \in Nat : n <= n
  OBVIOUS

LEMMA OneMore ==
    ASSUME NEW n \in Nat, NEW m, m = n + 1
    PROVE  /\ n <= 1 => m <= 2
           /\ n = 0 => m <= 1
           /\ \A k \in Nat : k <= n => k <= m /\ k # m
  OBVIOUS

LEMMA PositiveIsNotZero == \A n \in Nat : n > 0 => n # 0
  OBVIOUS

LEMMA LaterThanZero == \A e, m, n \in Nat : e > m + n => e > 0
  OBVIOUS

LEMMA ActivationFields ==
    ASSUME NEW u, NEW b
    PROVE  ActivationRecord(u, b).owner = u /\ ActivationRecord(u, b).gen = seen[u].gen + 1
  BY DEF ActivationRecord

\* A session that ends, and one that has not yet claimed.
LEMMA ReleaseOutside ==
    ASSUME TypeOK, NEW u \in Session, ReleaseInv(u),
           \/ RefuseActivation(u) \/ ClaimLost(u) \/ ConfirmLate(u) \/ ReleaseMoot(u) \/ Crash(u)
           \/ Assign(u) \/ UseHint(u) \/ LoadOwner(u) \/ ReloadAfterHint(u) \/ ClaimStale(u)
           \/ RecoverSealed(u) \/ RecoverFails(u) \/ RecoverUnsealed(u)
    PROVE  Quiet(u) /\ ReleaseInv(u)'
<1>0. Functions /\ DOMAIN tries = Session
  BY FunctionsOnSession, Zenon DEF TypeOK
<1> USE DEF Functions, Quiet, Kept, shared, activation, fence, writing, renewing, releasing
<1>1. CASE RefuseActivation(u) \/ ClaimLost(u) \/ ConfirmLate(u) \/ ReleaseMoot(u) \/ Crash(u)
  <2>1. Quiet(u) /\ pc'[u] \in {"failed", "released"} /\ tries'[u] = 0
    BY <1>0, <1>1, ZenonT(60) DEF RefuseActivation, ClaimLost, ConfirmLate, ReleaseMoot, Crash, Forget
  <2> QED
    BY <2>1, Zenon DEF ReleaseInv, PreClaim, Recovering
<1>2. CASE Assign(u) \/ UseHint(u) \/ LoadOwner(u) \/ ReloadAfterHint(u) \/ ClaimStale(u)
  <2>1. /\ Quiet(u) /\ pc[u] \in PreClaim /\ pc'[u] \in PreClaim \ Recovering
        /\ wr'[u] = wr[u] /\ tries'[u] = tries[u]
    BY <1>0, <1>2, Zenon DEF Assign, UseHint, LoadOwner, ReloadAfterHint, ClaimStale, PreClaim,
       Recovering
  <2> QED
    BY <2>1, Zenon DEF ReleaseInv, PreClaim
<1>3. CASE RecoverSealed(u) \/ RecoverFails(u) \/ RecoverUnsealed(u)
  <2>1. /\ Quiet(u) /\ pc[u] \in PreClaim /\ pc'[u] \in Recovering /\ seen'[u] = seen[u]
        /\ wr'[u] = wr[u] /\ tries'[u] = tries[u]
        /\ \/ own'[u] = ActivationRecord(u, seen[u].base)
           \/ own'[u] = ActivationRecord(u, Latest(seen[u]))
    BY <1>0, <1>3, Zenon DEF RecoverSealed, RecoverFails, RecoverUnsealed, PreClaim, Recovering
  <2>2. own'[u].owner = u /\ own'[u].gen = seen[u].gen + 1
    <3>1. PICK b : own'[u] = ActivationRecord(u, b)
      BY <2>1, Zenon
    <3> QED
      BY <3>1, ActivationFields, Zenon
  <2> QED
    BY <2>1, <2>2, Zenon DEF ReleaseInv, PreClaim, Recovering
<1> QED
  BY <1>1, <1>2, <1>3, Zenon

\* The steps of an owner that do not renew or release.
LEMMA ReleaseOwned ==
    ASSUME TypeOK, NEW u \in Session, ReleaseInv(u),
           \/ StartWrite(u) \/ Land(u) \/ Acknowledge(u) \/ FenceWrite(u) \/ FailWrite(u)
           \/ ReloadOwner(u) \/ ReloadState(u)
           \/ AbandonClaim(u) \/ Confirm(u) \/ Drain(u) \/ DrainFails(u) \/ FinishStore(u)
           \/ FinishFails(u) \/ CloseFence(u)
    PROVE  Quiet(u) /\ ReleaseInv(u)'
<1>0. Functions /\ DOMAIN tries = Session
  BY FunctionsOnSession, Zenon DEF TypeOK
<1> USE DEF Functions, Quiet, Kept, shared, activation, fence, writing, renewing, releasing
<1>1. CASE \/ StartWrite(u) \/ Land(u) \/ Acknowledge(u) \/ FenceWrite(u) \/ FailWrite(u)
           \/ ReloadOwner(u) \/ ReloadState(u)
  <2>1. /\ Quiet(u) /\ pc'[u] = pc[u] /\ relgen'[u] = relgen[u] /\ tries'[u] = tries[u]
        /\ Serving(u) \/ wr[u] # "idle"
    BY <1>0, <1>1, ZenonT(60) DEF StartWrite, Land, Acknowledge, FenceWrite, FailWrite, ReloadOwner,
       ReloadState
  <2>2. pc[u] \notin PreClaim \cup {"claimed", "unloaded"}
    BY <2>1, Zenon DEF ReleaseInv, Serving, PreClaim
  <2> QED
    BY <2>1, <2>2, Zenon DEF ReleaseInv, PreClaim, Recovering
<1>2. CASE \/ AbandonClaim(u) \/ Confirm(u) \/ Drain(u) \/ DrainFails(u) \/ FinishStore(u)
           \/ FinishFails(u) \/ CloseFence(u)
  <2>1. /\ Quiet(u) /\ pc[u] \notin {"releasing", "releaseCas"} /\ tries'[u] = tries[u]
        /\ pc'[u] \in Registered \cup {"releasing"}
    BY <1>0, <1>2, Zenon DEF AbandonClaim, Confirm, Drain, DrainFails, FinishStore, FinishFails,
       CloseFence, Registered
  <2>2. 0 <= 1 /\ 0 <= 2
    OBVIOUS
  <2> QED
    BY <2>1, <2>2, Zenon DEF ReleaseInv, PreClaim, Recovering, Registered
<1> QED
  BY <1>1, <1>2, Zenon

\* The steps of a renewal that leave the record alone.
LEMMA ReleaseRenewing ==
    ASSUME TypeOK, NEW u \in Session, ReleaseInv(u),
           \/ RenewLoad(u) \/ RenewConflict(u) \/ RenewReply(u) \/ RenewLate(u) \/ RenewLost(u)
    PROVE  /\ authority' = authority /\ \A t \in Session \ {u} : Kept(t)
           /\ ReleaseInv(u)'
<1>0. Functions /\ DOMAIN tries = Session /\ Typed(u)
  BY FunctionsOnSession, Fields, Zenon DEF TypeOK
<1> USE DEF Functions, Kept, shared, activation, fence, writing, renewing, releasing
<1>1. CASE RenewLoad(u)
  <2>1. /\ authority' = authority /\ \A t \in Session \ {u} : Kept(t)
        /\ pc[u] \in Registered /\ authority.owner = u /\ authority.expires > now + skew[u]
        /\ pc'[u] = pc[u] /\ rn'[u] = "cas" /\ rgen'[u] = authority.gen /\ tries'[u] = tries[u]
    BY <1>0, <1>1, Zenon DEF RenewLoad, Clock
  <2>2. authority.expires > 0 /\ authority.gen <= authority.gen
    BY <1>0, <2>1, Reflexive, LaterThanZero, Zenon DEF Typed
  <2> QED
    BY <2>1, <2>2, Zenon DEF ReleaseInv, Registered, PreClaim, Recovering
<1>2. CASE RenewConflict(u) \/ RenewReply(u) \/ RenewLate(u) \/ RenewLost(u)
  <2>1. /\ authority' = authority /\ \A t \in Session \ {u} : Kept(t)
        /\ pc'[u] = pc[u] /\ rn[u] # "idle" /\ rn'[u] = "idle"
        /\ relgen'[u] = relgen[u] /\ tries'[u] = tries[u]
    BY <1>0, <1>2, Zenon DEF RenewConflict, RenewReply, RenewLate, RenewLost, RenewEnds
  <2> QED
    BY <2>1, Zenon DEF ReleaseInv, PreClaim, Recovering
<1> QED
  BY <1>1, <1>2, Zenon

\* The steps of release_with_checkpoint that leave the record alone.
LEMMA ReleaseTrying ==
    ASSUME TypeOK, NEW u \in Session, ReleaseInv(u), ReleaseLoad(u) \/ ReleaseConflict(u)
    PROVE  Quiet(u) /\ ReleaseInv(u)'
<1>0. Functions /\ DOMAIN tries = Session /\ Typed(u) /\ tries[u] \in Nat
  BY FunctionsOnSession, Fields, Zenon DEF TypeOK
<1> USE DEF Functions, Quiet, Kept, shared, activation, fence, writing, renewing
<1>1. CASE ReleaseLoad(u)
  <2>1. /\ Quiet(u) /\ pc[u] = "releasing" /\ pc'[u] = "releaseCas" /\ authority.owner = u
        /\ relgen'[u] = authority.gen /\ tries'[u] = tries[u]
    BY <1>0, <1>1, Zenon DEF ReleaseLoad
  <2>2. authority.gen <= authority.gen
    BY <1>0, Reflexive, Zenon DEF Typed
  <2> QED
    BY <2>1, <2>2, Zenon DEF ReleaseInv, PreClaim, Recovering
<1>2. CASE ReleaseConflict(u)
  <2>1. /\ Quiet(u) /\ pc[u] = "releaseCas" /\ pc'[u] = "releasing"
        /\ authority.gen # relgen[u] /\ tries'[u] = tries[u] + 1
    BY <1>0, <1>2, Zenon DEF ReleaseConflict
  <2>2. tries[u] <= 1 /\ (authority.owner = u => tries[u] = 0 /\ rn[u] # "cas")
    BY <2>1, Zenon DEF ReleaseInv
  <2>3. tries'[u] <= 2 /\ (authority.owner = u => tries'[u] <= 1)
    <3>1. tries[u] \in Nat /\ tries'[u] = tries[u] + 1
      BY <1>0, <2>1, Zenon
    <3>2. (tries[u] <= 1 => tries'[u] <= 2) /\ (tries[u] = 0 => tries'[u] <= 1)
      BY <3>1, OneMore, Zenon
    <3> QED
      BY <2>2, <3>2, Zenon
  <2> QED
    BY <2>1, <2>2, <2>3, Zenon DEF ReleaseInv, PreClaim, Recovering
<1> QED
  BY <1>1, <1>2, Zenon

\* The three requests that change the record: afterwards it is no one's but u's, and a
\* released lease stays released unless the record has a new owner.
LEMMA ReleaseChanges ==
    ASSUME TypeOK, NEW u \in Session, ReleaseInv(u), Claim(u) \/ RenewCas(u) \/ ReleaseCas(u)
    PROVE  /\ authority'.gen = authority.gen + 1 /\ authority'.owner = u
           /\ \A t \in Session \ {u} : Kept(t)
           /\ ReleaseInv(u)'
           /\ authority.expires = 0 /\ authority'.owner = authority.owner =>
                authority'.expires = 0
<1>0. Functions /\ DOMAIN tries = Session /\ Typed(u) /\ authority \in Record
  BY FunctionsOnSession, Fields, Zenon DEF TypeOK
<1> USE DEF Functions, Kept, shared, activation, fence, writing, renewing
<1>1. CASE Claim(u)
  <2>1. /\ pc[u] \in Recovering /\ authority.gen = seen[u].gen /\ authority' = own[u]
        /\ \A t \in Session \ {u} : Kept(t)
        /\ pc'[u] \in {"claimed", "unloaded"} /\ wr'[u] = wr[u] /\ rn'[u] = rn[u]
        /\ tries'[u] = tries[u]
    BY <1>0, <1>1, Zenon DEF Claim, Recovering, releasing
  <2>2. /\ own[u].owner = u /\ own[u].gen = authority.gen + 1 /\ authority.owner # u
        /\ rn[u] = "idle" /\ wr[u] = "idle" /\ tries[u] = 0
    BY <2>1, Zenon DEF ReleaseInv, PreClaim, Recovering
  <2> QED
    BY <2>1, <2>2, Zenon DEF ReleaseInv, PreClaim, Recovering
<1>2. CASE RenewCas(u)
  <2>1. /\ authority'.gen = authority.gen + 1 /\ authority'.owner = authority.owner
        /\ rn[u] = "cas" /\ authority.gen = rgen[u]
    BY <1>0, <1>2, Zenon DEF RenewCas, Record
  <2>2. /\ \A t \in Session \ {u} : Kept(t)
        /\ pc'[u] = pc[u] /\ own'[u] = own[u] /\ seen'[u] = seen[u] /\ wr'[u] = wr[u]
        /\ rn'[u] = "reply" /\ relgen'[u] = relgen[u] /\ tries'[u] = tries[u]
    BY <1>0, <1>2, Zenon DEF RenewCas, releasing
  <2>3. authority.owner = u /\ authority.expires > 0 /\ pc[u] \notin PreClaim \cup {"claimed", "unloaded"}
    BY <2>1, Zenon DEF ReleaseInv
  <2>4. /\ authority.expires # 0
        /\ pc[u] = "releaseCas" => relgen[u] <= authority'.gen /\ relgen[u] # authority'.gen
    <3>1. authority.gen \in Nat /\ authority.expires \in Nat /\ relgen[u] \in Nat
      BY <1>0, Zenon DEF Typed
    <3>2. \A k \in Nat : k <= authority.gen => k <= authority'.gen /\ k # authority'.gen
      BY <2>1, <3>1, OneMore, Zenon
    <3>3. pc[u] = "releaseCas" => relgen[u] <= authority.gen
      BY Zenon DEF ReleaseInv
    <3> QED
      BY <2>3, <3>1, <3>2, <3>3, PositiveIsNotZero, Zenon
  <2>5. pc[u] = "releaseCas" => tries[u] = 0
    BY <2>1, <2>3, Zenon DEF ReleaseInv
  <2> QED
    BY <2>1, <2>2, <2>3, <2>4, <2>5, Zenon DEF ReleaseInv, PreClaim, Recovering
<1>3. CASE ReleaseCas(u)
  <2>1. /\ authority'.gen = authority.gen + 1 /\ authority'.owner = authority.owner
        /\ authority'.expires = 0
        /\ pc[u] = "releaseCas" /\ authority.gen = relgen[u]
    BY <1>0, <1>3, Zenon DEF ReleaseCas, Released, Record
  <2>2. /\ \A t \in Session \ {u} : Kept(t)
        /\ pc'[u] = "released" /\ rn'[u] = rn[u] /\ rgen'[u] = rgen[u] /\ tries'[u] = 0
    BY <1>0, <1>3, Zenon DEF ReleaseCas, Forget
  <2>3. authority.owner = u
    BY <2>1, Zenon DEF ReleaseInv
  <2>4. rn[u] = "cas" => rgen[u] <= authority'.gen /\ rgen[u] # authority'.gen
    <3>1. authority.gen \in Nat /\ rgen[u] \in Nat
      BY <1>0, Zenon DEF Typed
    <3>2. \A k \in Nat : k <= authority.gen => k <= authority'.gen /\ k # authority'.gen
      BY <2>1, <3>1, OneMore, Zenon
    <3>3. rn[u] = "cas" => rgen[u] <= authority.gen
      BY Zenon DEF ReleaseInv
    <3> QED
      BY <3>1, <3>2, <3>3, Zenon
  <2> QED
    BY <2>1, <2>2, <2>3, <2>4, Zenon DEF ReleaseInv, PreClaim, Recovering
<1> QED
  BY <1>1, <1>2, <1>3, Zenon

\* A released lease is not revived for the same owner.
StaysReleased ==
    authority.gen > 0 /\ authority.expires = 0 /\ authority'.owner = authority.owner
        => authority'.expires = 0

\* Every step keeps ReleaseInv and revives no released lease.
LEMMA ReleaseNext ==
    ASSUME Releases, [Next]_vars
    PROVE  Releases' /\ StaysReleased
<1>0. TypeOK /\ TypeOK'
  BY TypeNext, Zenon DEF Releases
<1>1. ASSUME NEW u \in Session, authority' = authority, \A t \in Session \ {u} : Kept(t),
             ReleaseInv(u)'
      PROVE  Releases' /\ StaysReleased
  BY <1>0, <1>1, ReleaseKept, Zenon DEF Releases, StaysReleased
<1>2. ASSUME NEW u \in Session, Claim(u) \/ RenewCas(u) \/ ReleaseCas(u)
      PROVE  Releases' /\ StaysReleased
  BY <1>0, <1>2, ReleaseChanges, ReleaseOvertaken, Zenon DEF Releases, StaysReleased
<1>3. ASSUME UNCHANGED vars \/ Tick
      PROVE  Releases' /\ StaysReleased
  <2>1. authority' = authority /\ \A t \in Session : Kept(t)
    BY <1>3, Zenon DEF Tick, vars, shared, activation, writing, renewing, releasing, Kept
  <2> QED
    BY <1>0, <2>1, ReleaseKept, Zenon DEF Releases, StaysReleased
<1>4. ASSUME NEW u \in Session, Activate(u)
      PROVE  Releases' /\ StaysReleased
  BY <1>0, <1>1, <1>2, <1>4, ReleaseOutside, ReleaseOwned, Zenon DEF Activate, Releases, Quiet
<1>5. ASSUME NEW u \in Session, Renew(u)
      PROVE  Releases' /\ StaysReleased
  BY <1>0, <1>1, <1>2, <1>5, ReleaseRenewing, Zenon DEF Renew, Releases
<1>6. ASSUME NEW u \in Session, Write(u) \/ Drain(u) \/ DrainFails(u)
      PROVE  Releases' /\ StaysReleased
  BY <1>0, <1>1, <1>6, ReleaseOwned, Zenon DEF Write, Releases, Quiet
<1>7. ASSUME NEW u \in Session, Shutdown(u) \/ Crash(u)
      PROVE  Releases' /\ StaysReleased
  BY <1>0, <1>1, <1>2, <1>7, ReleaseOutside, ReleaseOwned, ReleaseTrying, Zenon DEF Shutdown,
     Releases, Quiet
<1> QED
  BY <1>3, <1>4, <1>5, <1>6, <1>7, Zenon DEF Next

\* ReleaseInv holds whether or not drains complete.
LEMMA ReleaseInvariance == Spec => []Releases
<1>1. Init => Releases
  <2>1. SUFFICES ASSUME Init PROVE Releases
    OBVIOUS
  <2>2. ASSUME NEW s \in Session PROVE ReleaseInv(s)
    <3>1. /\ authority = NoRecord /\ pc[s] = "idle" /\ wr[s] = "idle" /\ rn[s] = "idle"
          /\ tries[s] = 0 /\ NoSession # s
      BY <2>1, SessionAssumption, Zenon DEF Init
    <3> QED
      BY <3>1, Empty, Zenon DEF ReleaseInv, Recovering
  <2> QED
    BY <2>1, <2>2, TypeInit, Zenon DEF Releases
<1>2. Releases /\ [Next]_vars => Releases'
  BY ReleaseNext, Zenon
<1> QED
  BY <1>1, <1>2, PTL DEF Spec

\* ReleaseTriesSuffice: release_with_checkpoint never runs out of attempts, because the
\* only requests that can overtake it are one renewal already sent and one new owner's
\* claim.
THEOREM ReleaseSucceedsInTime == Spec => []ReleaseTriesSuffice
<1>1. Releases => ReleaseTriesSuffice
  <2>1. SUFFICES ASSUME Releases, NEW s \in Session PROVE tries[s] < 3
    BY Zenon DEF ReleaseTriesSuffice
  <2>2. ReleaseInv(s) /\ tries[s] \in Nat
    BY <2>1, Zenon DEF Releases, TypeOK
  <2>3. tries[s] = 0 \/ tries[s] <= 1 \/ tries[s] <= 2
    BY <2>2, Zenon DEF ReleaseInv
  <2> QED
    BY <2>2, <2>3
<1> QED
  BY <1>1, ReleaseInvariance, PTL

\* ReleasedNotRevived: an in-flight renewal cannot extend a lease that was given back,
\* since giving it back changes the generation its compare-and-swap expects.
THEOREM ReleaseIsFinal == Spec => ReleasedNotRevived
<1>1. Releases /\ [Next]_vars => [StaysReleased]_vars
  BY ReleaseNext, Zenon
<1> QED
  BY <1>1, ReleaseInvariance, PTL DEF Spec, ReleasedNotRevived, StaysReleased
=============================================================================
