------------------------ MODULE OwnershipActivation -------------------------
(***************************************************************************)
(* The steps of activation preserve the inductive invariant.               *)
(***************************************************************************)
EXTENDS OwnershipProofs

\* A session that is assigned knows the current record.
LEMMA AssignPreserves ==
    ASSUME Inv, DrainCompletes, TypeOK', NEW u \in Session, Assign(u)
    PROVE  Inv'
<1>0. TypeOK /\ Functions
  BY FunctionsOnSession, Zenon DEF Inv
<1>1. SameShared /\ \A t \in Session \ {u} : Same(t)
  BY <1>0, Zenon DEF Functions, Assign, SameShared, Same, SameFence, SameWrite, SameRenewal,
     SameRelease, SameOwned, shared, activation, fence, writing, renewing, releasing
<1>2. /\ pc[u] = "idle" /\ pc'[u] = "assigned" /\ seen'[u] = authority
      /\ started'[u] = started[u] /\ stop'[u] = stop[u] /\ SameFence(u) /\ SameWrite(u)
      /\ SameRenewal(u) /\ SameRelease(u) /\ SameOwned(u)
  BY <1>0, Zenon DEF Functions, Assign, SameFence, SameWrite, SameRenewal, SameRelease, SameOwned,
     shared, activation, fence, writing, renewing, releasing
<1>3. /\ EpochInv(u) /\ CasInv(u) /\ RecoverInv(u) /\ ResidentInv(u) /\ WriteInv(u)
      /\ LinearInv(u) /\ TimeInv(u) /\ SharedInv /\ Typed(u)
  BY <1>0, Fields, Zenon DEF Inv, LocalInv
<1>a. now <= now /\ 0 <= now /\ 0 <= authority.gen /\ authority.gen <= authority.gen
  BY <1>3 DEF Typed
<1>4. NoNewEpoch(u)
  BY <1>2, <1>3, Zenon DEF NoNewEpoch, Owning, InFlight, SameWrite, SameOwned
<1>5. EpochInv(u)'
  BY <1>1, <1>2, <1>3, Zenon DEF EpochInv, InFlight, PreClaim, Owning, Registered, SameShared,
     SameFence, SameWrite, SameRenewal, SameRelease, SameOwned
<1>6. CasInv(u)'
  BY <1>1, <1>2, <1>3, <1>a, Zenon DEF CasInv, PreClaim, SameShared, SameFence, SameWrite,
     SameRenewal, SameRelease, SameOwned
<1>7. RecoverInv(u)'
  BY <1>1, <1>2, <1>3, Zenon DEF RecoverInv, Recovering, SameShared, SameFence, SameWrite,
     SameRenewal, SameRelease, SameOwned
<1>8. ResidentInv(u)'
  BY <1>1, <1>2, <1>3, Zenon DEF ResidentInv, Owning, Resident, SameShared, SameFence, SameWrite,
     SameRenewal, SameRelease, SameOwned
<1>9. WriteInv(u)'
  BY <1>1, <1>2, <1>3, Zenon DEF WriteInv, InFlight, HasAuthority, Owning, Recoverable, Latest,
     SameShared, SameFence, SameWrite, SameRenewal, SameRelease, SameOwned
<1>10. LinearInv(u)'
  BY <1>1, <1>2, <1>3, Zenon DEF LinearInv, SameShared, SameFence, SameWrite, SameRenewal,
     SameRelease, SameOwned, SharedInv
<1>11. TimeInv(u)'
  BY <1>1, <1>2, <1>3, <1>a, Zenon DEF TimeInv, Registered, Recovering, SameShared, SameFence,
     SameWrite, SameRenewal, SameRelease, SameOwned
<1> QED
  BY <1>1, <1>4, <1>5, <1>6, <1>7, <1>8, <1>9, <1>10, <1>11, LocalStep, Zenon DEF LocalInv,
     SameShared, Grows

\* A usable hint counts as loaded.
LEMMA UseHintPreserves ==
    ASSUME Inv, DrainCompletes, TypeOK', NEW u \in Session, UseHint(u)
    PROVE  Inv'
<1>0. TypeOK /\ Functions
  BY FunctionsOnSession, Zenon DEF Inv
<1>1. SameShared /\ \A t \in Session \ {u} : Same(t)
  BY <1>0, Zenon DEF Functions, UseHint, SameShared, Same, SameFence, SameWrite, SameRenewal,
     SameRelease, SameOwned, shared, activation, fence, writing, renewing, releasing
<1>2. /\ pc[u] = "assigned" /\ pc'[u] = "loaded" /\ started'[u] = now
      /\ seen'[u] = seen[u] /\ stop'[u] = stop[u] /\ SameFence(u) /\ SameWrite(u)
      /\ SameRenewal(u) /\ SameRelease(u) /\ SameOwned(u)
  BY <1>0, Zenon DEF Functions, UseHint, SameFence, SameWrite, SameRenewal, SameRelease, SameOwned,
     shared, activation, fence, writing, renewing, releasing
<1>3. /\ EpochInv(u) /\ CasInv(u) /\ RecoverInv(u) /\ ResidentInv(u) /\ WriteInv(u)
      /\ LinearInv(u) /\ TimeInv(u) /\ SharedInv /\ Typed(u)
  BY <1>0, Fields, Zenon DEF Inv, LocalInv
<1>a. now <= now /\ 0 <= now /\ 0 <= authority.gen /\ authority.gen <= authority.gen
  BY <1>3 DEF Typed
<1>4. NoNewEpoch(u)
  BY <1>2, <1>3, Zenon DEF NoNewEpoch, Owning, InFlight, SameWrite, SameOwned
<1>5. EpochInv(u)'
  BY <1>1, <1>2, <1>3, Zenon DEF EpochInv, InFlight, PreClaim, Owning, Registered, SameShared,
     SameFence, SameWrite, SameRenewal, SameRelease, SameOwned
<1>6. CasInv(u)'
  BY <1>1, <1>2, <1>3, <1>a, Zenon DEF CasInv, PreClaim, SameShared, SameFence, SameWrite,
     SameRenewal, SameRelease, SameOwned
<1>7. RecoverInv(u)'
  BY <1>1, <1>2, <1>3, Zenon DEF RecoverInv, Recovering, SameShared, SameFence, SameWrite,
     SameRenewal, SameRelease, SameOwned
<1>8. ResidentInv(u)'
  BY <1>1, <1>2, <1>3, Zenon DEF ResidentInv, Owning, Resident, SameShared, SameFence, SameWrite,
     SameRenewal, SameRelease, SameOwned
<1>9. WriteInv(u)'
  BY <1>1, <1>2, <1>3, Zenon DEF WriteInv, InFlight, HasAuthority, Owning, Recoverable, Latest,
     SameShared, SameFence, SameWrite, SameRenewal, SameRelease, SameOwned
<1>10. LinearInv(u)'
  BY <1>1, <1>2, <1>3, Zenon DEF LinearInv, SameShared, SameFence, SameWrite, SameRenewal,
     SameRelease, SameOwned
<1>11. TimeInv(u)'
  BY <1>1, <1>2, <1>3, <1>a, Zenon DEF TimeInv, Registered, Recovering, SameShared, SameFence,
     SameWrite, SameRenewal, SameRelease, SameOwned
<1> QED
  BY <1>1, <1>4, <1>5, <1>6, <1>7, <1>8, <1>9, <1>10, <1>11, LocalStep, Zenon DEF LocalInv,
     SameShared, Grows

\* The record is loaded.
LEMMA LoadOwnerPreserves ==
    ASSUME Inv, DrainCompletes, TypeOK', NEW u \in Session, LoadOwner(u)
    PROVE  Inv'
<1>0. TypeOK /\ Functions
  BY FunctionsOnSession, Zenon DEF Inv
<1>1. SameShared /\ \A t \in Session \ {u} : Same(t)
  BY <1>0, Zenon DEF Functions, LoadOwner, SameShared, Same, SameFence, SameWrite, SameRenewal,
     SameRelease, SameOwned, shared, activation, fence, writing, renewing, releasing
<1>2. /\ pc[u] = "assigned" /\ pc'[u] = "loaded" /\ seen'[u] = authority
      /\ started'[u] = now /\ stop'[u] = stop[u] /\ SameFence(u) /\ SameWrite(u)
      /\ SameRenewal(u) /\ SameRelease(u) /\ SameOwned(u)
  BY <1>0, Zenon DEF Functions, LoadOwner, SameFence, SameWrite, SameRenewal, SameRelease,
     SameOwned, shared, activation, fence, writing, renewing, releasing
<1>3. /\ EpochInv(u) /\ CasInv(u) /\ RecoverInv(u) /\ ResidentInv(u) /\ WriteInv(u)
      /\ LinearInv(u) /\ TimeInv(u) /\ SharedInv /\ Typed(u)
  BY <1>0, Fields, Zenon DEF Inv, LocalInv
<1>a. now <= now /\ 0 <= now /\ 0 <= authority.gen /\ authority.gen <= authority.gen
  BY <1>3 DEF Typed
<1>4. NoNewEpoch(u)
  BY <1>2, <1>3, Zenon DEF NoNewEpoch, Owning, InFlight, SameWrite, SameOwned
<1>5. EpochInv(u)'
  BY <1>1, <1>2, <1>3, Zenon DEF EpochInv, InFlight, PreClaim, Owning, Registered, SameShared,
     SameFence, SameWrite, SameRenewal, SameRelease, SameOwned
<1>6. CasInv(u)'
  BY <1>1, <1>2, <1>3, <1>a, Zenon DEF CasInv, PreClaim, SameShared, SameFence, SameWrite,
     SameRenewal, SameRelease, SameOwned
<1>7. RecoverInv(u)'
  BY <1>1, <1>2, <1>3, Zenon DEF RecoverInv, Recovering, SameShared, SameFence, SameWrite,
     SameRenewal, SameRelease, SameOwned
<1>8. ResidentInv(u)'
  BY <1>1, <1>2, <1>3, Zenon DEF ResidentInv, Owning, Resident, SameShared, SameFence, SameWrite,
     SameRenewal, SameRelease, SameOwned
<1>9. WriteInv(u)'
  BY <1>1, <1>2, <1>3, Zenon DEF WriteInv, InFlight, HasAuthority, Owning, Recoverable, Latest,
     SameShared, SameFence, SameWrite, SameRenewal, SameRelease, SameOwned
<1>10. LinearInv(u)'
  BY <1>1, <1>2, <1>3, Zenon DEF LinearInv, SameShared, SameFence, SameWrite, SameRenewal,
     SameRelease, SameOwned, SharedInv
<1>11. TimeInv(u)'
  BY <1>1, <1>2, <1>3, <1>a, Zenon DEF TimeInv, Registered, Recovering, SameShared, SameFence,
     SameWrite, SameRenewal, SameRelease, SameOwned
<1> QED
  BY <1>1, <1>4, <1>5, <1>6, <1>7, <1>8, <1>9, <1>10, <1>11, LocalStep, Zenon DEF LocalInv,
     SameShared, Grows

\* The record is loaded again after a stale hint.
LEMMA ReloadAfterHintPreserves ==
    ASSUME Inv, DrainCompletes, TypeOK', NEW u \in Session, ReloadAfterHint(u)
    PROVE  Inv'
<1>0. TypeOK /\ Functions
  BY FunctionsOnSession, Zenon DEF Inv
<1>1. SameShared /\ \A t \in Session \ {u} : Same(t)
  BY <1>0, Zenon DEF Functions, ReloadAfterHint, SameShared, Same, SameFence, SameWrite,
     SameRenewal, SameRelease, SameOwned, shared, activation, fence, writing, renewing, releasing
<1>2. /\ pc[u] = "retry" /\ pc'[u] = "loaded" /\ seen'[u] = authority
      /\ started'[u] = started[u] /\ stop'[u] = stop[u] /\ SameFence(u) /\ SameWrite(u)
      /\ SameRenewal(u) /\ SameRelease(u) /\ SameOwned(u)
  BY <1>0, Zenon DEF Functions, ReloadAfterHint, SameFence, SameWrite, SameRenewal, SameRelease,
     SameOwned, shared, activation, fence, writing, renewing, releasing
<1>3. /\ EpochInv(u) /\ CasInv(u) /\ RecoverInv(u) /\ ResidentInv(u) /\ WriteInv(u)
      /\ LinearInv(u) /\ TimeInv(u) /\ SharedInv /\ Typed(u)
  BY <1>0, Fields, Zenon DEF Inv, LocalInv
<1>a. now <= now /\ 0 <= now /\ 0 <= authority.gen /\ authority.gen <= authority.gen
  BY <1>3 DEF Typed
<1>4. NoNewEpoch(u)
  BY <1>2, <1>3, Zenon DEF NoNewEpoch, Owning, InFlight, SameWrite, SameOwned
<1>5. EpochInv(u)'
  BY <1>1, <1>2, <1>3, Zenon DEF EpochInv, InFlight, PreClaim, Owning, Registered, SameShared,
     SameFence, SameWrite, SameRenewal, SameRelease, SameOwned
<1>6. CasInv(u)'
  BY <1>1, <1>2, <1>3, <1>a, Zenon DEF CasInv, PreClaim, SameShared, SameFence, SameWrite,
     SameRenewal, SameRelease, SameOwned
<1>7. RecoverInv(u)'
  BY <1>1, <1>2, <1>3, Zenon DEF RecoverInv, Recovering, SameShared, SameFence, SameWrite,
     SameRenewal, SameRelease, SameOwned
<1>8. ResidentInv(u)'
  BY <1>1, <1>2, <1>3, Zenon DEF ResidentInv, Owning, Resident, SameShared, SameFence, SameWrite,
     SameRenewal, SameRelease, SameOwned
<1>9. WriteInv(u)'
  BY <1>1, <1>2, <1>3, Zenon DEF WriteInv, InFlight, HasAuthority, Owning, Recoverable, Latest,
     SameShared, SameFence, SameWrite, SameRenewal, SameRelease, SameOwned
<1>10. LinearInv(u)'
  BY <1>1, <1>2, <1>3, Zenon DEF LinearInv, SameShared, SameFence, SameWrite, SameRenewal,
     SameRelease, SameOwned, SharedInv
<1>11. TimeInv(u)'
  BY <1>1, <1>2, <1>3, <1>a, Zenon DEF TimeInv, Registered, Recovering, SameShared, SameFence,
     SameWrite, SameRenewal, SameRelease, SameOwned
<1> QED
  BY <1>1, <1>4, <1>5, <1>6, <1>7, <1>8, <1>9, <1>10, <1>11, LocalStep, Zenon DEF LocalInv,
     SameShared, Grows

\* A sealed base is recovered.
LEMMA RecoverSealedPreserves ==
    ASSUME Inv, DrainCompletes, TypeOK', NEW u \in Session, RecoverSealed(u)
    PROVE  Inv'
<1>0. TypeOK /\ Functions
  BY FunctionsOnSession, Zenon DEF Inv
<1>1. SameShared /\ \A t \in Session \ {u} : Same(t)
  BY <1>0, Zenon DEF Functions, RecoverSealed, SameShared, Same, SameFence, SameWrite, SameRenewal,
     SameRelease, SameOwned, shared, activation, fence, writing, renewing, releasing
<1>2. /\ pc[u] = "loaded" /\ seen[u].sealed /\ pc'[u] = "recovered"
      /\ own'[u] = ActivationRecord(u, seen[u].base) /\ state'[u] = seen[u].base
      /\ seen'[u] = seen[u] /\ started'[u] = started[u] /\ stop'[u] = stop[u]
      /\ SameFence(u) /\ SameWrite(u) /\ SameRenewal(u) /\ SameRelease(u)
  BY <1>0, Zenon DEF Functions, RecoverSealed, SameFence, SameWrite, SameRenewal, SameRelease,
     SameOwned, shared, activation, fence, writing, renewing, releasing
<1>3. /\ EpochInv(u) /\ CasInv(u) /\ RecoverInv(u) /\ ResidentInv(u) /\ WriteInv(u)
      /\ LinearInv(u) /\ TimeInv(u) /\ SharedInv /\ Typed(u)
  BY <1>0, Fields, Zenon DEF Inv, LocalInv
<1>a. now <= now /\ 0 <= now /\ 0 <= authority.gen /\ authority.gen <= authority.gen
  BY <1>3 DEF Typed
<1>b. own'[u].gen = seen[u].gen + 1 /\ own'[u].epoch = seen[u].epoch + 1 /\ own'[u].owner = u
      /\ own'[u].sealed = FALSE /\ own'[u].base = seen[u].base /\ own'[u].expires = now +
            skew[u] + Duration
  BY <1>2 DEF ActivationRecord, Clock
<1>c. ~LogFences => started[u] + Duration + skew[u] <= own'[u].expires
                  /\ own'[u].expires <= now + skew[u] + Duration
  BY <1>3, <1>b, TimingAssumption DEF TimeInv, Typed
<1>4. NoNewEpoch(u)
  BY <1>2, <1>3, Zenon DEF NoNewEpoch, Owning, InFlight, SameWrite, SameOwned
<1>5. EpochInv(u)'
  BY <1>1, <1>2, <1>3, Zenon DEF EpochInv, InFlight, PreClaim, Owning, Registered, SameShared,
     SameFence, SameWrite, SameRenewal, SameRelease, SameOwned
<1>6. CasInv(u)'
  BY <1>1, <1>2, <1>3, <1>a, Zenon DEF CasInv, PreClaim, SameShared, SameFence, SameWrite,
     SameRenewal, SameRelease, SameOwned
<1>7. RecoverInv(u)'
  BY <1>1, <1>2, <1>3, <1>b, Zenon DEF RecoverInv, Recovering, SameShared, SameFence, SameWrite,
     SameRenewal, SameRelease, SameOwned
<1>8. ResidentInv(u)'
  BY <1>1, <1>2, <1>3, Zenon DEF ResidentInv, Owning, Resident, SameShared, SameFence, SameWrite,
     SameRenewal, SameRelease, SameOwned
<1>9. WriteInv(u)'
  BY <1>1, <1>2, <1>3, Zenon DEF WriteInv, InFlight, HasAuthority, Owning, Recoverable, Latest,
     SameShared, SameFence, SameWrite, SameRenewal, SameRelease, SameOwned
<1>10. LinearInv(u)'
  BY <1>1, <1>2, <1>3, <1>b, Zenon DEF LinearInv, SameShared, SameFence, SameWrite, SameRenewal,
     SameRelease, SameOwned
<1>11. TimeInv(u)'
  BY <1>1, <1>2, <1>3, <1>a, <1>c, Zenon DEF TimeInv, Registered, Recovering, SameShared, SameFence,
     SameWrite, SameRenewal, SameRelease, SameOwned
<1> QED
  BY <1>1, <1>4, <1>5, <1>6, <1>7, <1>8, <1>9, <1>10, <1>11, LocalStep, Zenon DEF LocalInv,
     SameShared, Grows

\* A sealed base cannot be read.
LEMMA RecoverFailsPreserves ==
    ASSUME Inv, DrainCompletes, TypeOK', NEW u \in Session, RecoverFails(u)
    PROVE  Inv'
<1>0. TypeOK /\ Functions
  BY FunctionsOnSession, Zenon DEF Inv
<1>1. SameShared /\ \A t \in Session \ {u} : Same(t)
  BY <1>0, Zenon DEF Functions, RecoverFails, SameShared, Same, SameFence, SameWrite, SameRenewal,
     SameRelease, SameOwned, shared, activation, fence, writing, renewing, releasing
<1>2. /\ pc[u] = "loaded" /\ seen[u].sealed /\ pc'[u] = "unrecovered"
      /\ own'[u] = ActivationRecord(u, seen[u].base) /\ seen'[u] = seen[u]
      /\ started'[u] = started[u] /\ stop'[u] = stop[u] /\ SameFence(u) /\ SameWrite(u)
      /\ SameRenewal(u) /\ SameRelease(u) /\ state'[u] = state[u]
  BY <1>0, Zenon DEF Functions, RecoverFails, SameFence, SameWrite, SameRenewal, SameRelease,
     SameOwned, shared, activation, fence, writing, renewing, releasing
<1>3. /\ EpochInv(u) /\ CasInv(u) /\ RecoverInv(u) /\ ResidentInv(u) /\ WriteInv(u)
      /\ LinearInv(u) /\ TimeInv(u) /\ SharedInv /\ Typed(u)
  BY <1>0, Fields, Zenon DEF Inv, LocalInv
<1>a. now <= now /\ 0 <= now /\ 0 <= authority.gen /\ authority.gen <= authority.gen
  BY <1>3 DEF Typed
<1>b. own'[u].gen = seen[u].gen + 1 /\ own'[u].epoch = seen[u].epoch + 1 /\ own'[u].owner = u
      /\ own'[u].sealed = FALSE /\ own'[u].base = seen[u].base /\ own'[u].expires = now +
            skew[u] + Duration
  BY <1>2 DEF ActivationRecord, Clock
<1>c. ~LogFences => started[u] + Duration + skew[u] <= own'[u].expires
                  /\ own'[u].expires <= now + skew[u] + Duration
  BY <1>3, <1>b, TimingAssumption DEF TimeInv, Typed
<1>4. NoNewEpoch(u)
  BY <1>2, <1>3, Zenon DEF NoNewEpoch, Owning, InFlight, SameWrite, SameOwned
<1>5. EpochInv(u)'
  BY <1>1, <1>2, <1>3, Zenon DEF EpochInv, InFlight, PreClaim, Owning, Registered, SameShared,
     SameFence, SameWrite, SameRenewal, SameRelease, SameOwned
<1>6. CasInv(u)'
  BY <1>1, <1>2, <1>3, <1>a, Zenon DEF CasInv, PreClaim, SameShared, SameFence, SameWrite,
     SameRenewal, SameRelease, SameOwned
<1>7. RecoverInv(u)'
  BY <1>1, <1>2, <1>3, <1>b, Zenon DEF RecoverInv, Recovering, SameShared, SameFence, SameWrite,
     SameRenewal, SameRelease, SameOwned
<1>8. ResidentInv(u)'
  BY <1>1, <1>2, <1>3, Zenon DEF ResidentInv, Owning, Resident, SameShared, SameFence, SameWrite,
     SameRenewal, SameRelease, SameOwned
<1>9. WriteInv(u)'
  BY <1>1, <1>2, <1>3, Zenon DEF WriteInv, InFlight, HasAuthority, Owning, Recoverable, Latest,
     SameShared, SameFence, SameWrite, SameRenewal, SameRelease, SameOwned
<1>10. LinearInv(u)'
  BY <1>1, <1>2, <1>3, <1>b, Zenon DEF LinearInv, SameShared, SameFence, SameWrite, SameRenewal,
     SameRelease, SameOwned
<1>11. TimeInv(u)'
  BY <1>1, <1>2, <1>3, <1>a, <1>c, Zenon DEF TimeInv, Registered, Recovering, SameShared, SameFence,
     SameWrite, SameRenewal, SameRelease, SameOwned
<1> QED
  BY <1>1, <1>4, <1>5, <1>6, <1>7, <1>8, <1>9, <1>10, <1>11, LocalStep, Zenon DEF LocalInv,
     SameShared, Grows

\* A stale hint is tried again.
LEMMA ClaimStalePreserves ==
    ASSUME Inv, DrainCompletes, TypeOK', NEW u \in Session, ClaimStale(u)
    PROVE  Inv'
<1>0. TypeOK /\ Functions
  BY FunctionsOnSession, Zenon DEF Inv
<1>1. SameShared /\ \A t \in Session \ {u} : Same(t)
  BY <1>0, Zenon DEF Functions, ClaimStale, Recovering, SameShared, Same, SameFence, SameWrite,
     SameRenewal, SameRelease, SameOwned, shared, activation, fence, writing, renewing, releasing
<1>2. /\ pc[u] \in Recovering /\ pc'[u] = "retry" /\ seen'[u] = seen[u]
      /\ started'[u] = started[u] /\ stop'[u] = stop[u] /\ SameFence(u) /\ SameWrite(u)
      /\ SameRenewal(u) /\ SameRelease(u) /\ SameOwned(u)
  BY <1>0, Zenon DEF Functions, ClaimStale, Recovering, SameFence, SameWrite, SameRenewal,
     SameRelease, SameOwned, shared, activation, fence, writing, renewing, releasing
<1>3. /\ EpochInv(u) /\ CasInv(u) /\ RecoverInv(u) /\ ResidentInv(u) /\ WriteInv(u)
      /\ LinearInv(u) /\ TimeInv(u) /\ SharedInv /\ Typed(u)
  BY <1>0, Fields, Zenon DEF Inv, LocalInv
<1>a. now <= now /\ 0 <= now /\ 0 <= authority.gen /\ authority.gen <= authority.gen
  BY <1>3 DEF Typed
<1>4. NoNewEpoch(u)
  BY <1>2, <1>3, Zenon DEF NoNewEpoch, Owning, InFlight, SameWrite, SameOwned
<1>5. EpochInv(u)'
  BY <1>1, <1>2, <1>3, Zenon DEF EpochInv, InFlight, PreClaim, Owning, Registered, SameShared,
     SameFence, SameWrite, SameRenewal, SameRelease, SameOwned, Recovering
<1>6. CasInv(u)'
  BY <1>1, <1>2, <1>3, <1>a, Zenon DEF CasInv, PreClaim, SameShared, SameFence, SameWrite,
     SameRenewal, SameRelease, SameOwned, Recovering
<1>7. RecoverInv(u)'
  BY <1>1, <1>2, <1>3, Zenon DEF RecoverInv, Recovering, SameShared, SameFence, SameWrite,
     SameRenewal, SameRelease, SameOwned
<1>8. ResidentInv(u)'
  BY <1>1, <1>2, <1>3, Zenon DEF ResidentInv, Owning, Resident, SameShared, SameFence, SameWrite,
     SameRenewal, SameRelease, SameOwned
<1>9. WriteInv(u)'
  BY <1>1, <1>2, <1>3, Zenon DEF WriteInv, InFlight, HasAuthority, Owning, Recoverable, Latest,
     SameShared, SameFence, SameWrite, SameRenewal, SameRelease, SameOwned
<1>10. LinearInv(u)'
  BY <1>1, <1>2, <1>3, Zenon DEF LinearInv, SameShared, SameFence, SameWrite, SameRenewal,
     SameRelease, SameOwned
<1>11. TimeInv(u)'
  BY <1>1, <1>2, <1>3, <1>a, Zenon DEF TimeInv, Registered, Recovering, SameShared, SameFence,
     SameWrite, SameRenewal, SameRelease, SameOwned
<1> QED
  BY <1>1, <1>4, <1>5, <1>6, <1>7, <1>8, <1>9, <1>10, <1>11, LocalStep, Zenon DEF LocalInv,
     SameShared, Grows

\* A claim without a readable base is given back with that base.
LEMMA AbandonClaimPreserves ==
    ASSUME Inv, DrainCompletes, TypeOK', NEW u \in Session, AbandonClaim(u)
    PROVE  Inv'
<1>0. TypeOK /\ Functions
  BY FunctionsOnSession, Zenon DEF Inv
<1>1. SameShared /\ \A t \in Session \ {u} : Same(t)
  BY <1>0, Zenon DEF Functions, AbandonClaim, SameShared, Same, SameFence, SameWrite, SameRenewal,
     SameRelease, SameOwned, shared, activation, fence, writing, renewing, releasing
<1>2. /\ pc[u] = "unloaded" /\ pc'[u] = "releasing" /\ seal'[u] = TRUE
      /\ chk'[u] = own[u].base /\ seen'[u] = seen[u] /\ started'[u] = started[u]
      /\ stop'[u] = stop[u] /\ SameFence(u) /\ SameWrite(u) /\ SameRenewal(u)
      /\ relgen'[u] = relgen[u] /\ SameOwned(u)
  BY <1>0, Zenon DEF Functions, AbandonClaim, SameFence, SameWrite, SameRenewal, SameRelease,
     SameOwned, shared, activation, fence, writing, renewing, releasing
<1>3. /\ EpochInv(u) /\ CasInv(u) /\ RecoverInv(u) /\ ResidentInv(u) /\ WriteInv(u)
      /\ LinearInv(u) /\ TimeInv(u) /\ SharedInv /\ Typed(u)
  BY <1>0, Fields, Zenon DEF Inv, LocalInv
<1>a. now <= now /\ 0 <= now /\ 0 <= authority.gen /\ authority.gen <= authority.gen
  BY <1>3 DEF Typed
<1>4. NoNewEpoch(u)
  BY <1>2, <1>3, Zenon DEF NoNewEpoch, Owning, InFlight, SameWrite, SameOwned
<1>5. EpochInv(u)'
  BY <1>1, <1>2, <1>3, Zenon DEF EpochInv, InFlight, PreClaim, Owning, Registered, SameShared,
     SameFence, SameWrite, SameRenewal, SameRelease, SameOwned
<1>6. CasInv(u)'
  BY <1>1, <1>2, <1>3, <1>a, Zenon DEF CasInv, PreClaim, SameShared, SameFence, SameWrite,
     SameRenewal, SameRelease, SameOwned
<1>7. RecoverInv(u)'
  BY <1>1, <1>2, <1>3, Zenon DEF RecoverInv, Recovering, SameShared, SameFence, SameWrite,
     SameRenewal, SameRelease, SameOwned
<1>8. ResidentInv(u)'
  BY <1>1, <1>2, <1>3, Zenon DEF ResidentInv, Owning, Resident, SameShared, SameFence, SameWrite,
     SameRenewal, SameRelease, SameOwned, EpochInv
<1>9. WriteInv(u)'
  BY <1>1, <1>2, <1>3, Zenon DEF WriteInv, InFlight, HasAuthority, Owning, Recoverable, Latest,
     SameShared, SameFence, SameWrite, SameRenewal, SameRelease, SameOwned
<1>10. LinearInv(u)'
  BY <1>1, <1>2, <1>3, Zenon DEF LinearInv, SameShared, SameFence, SameWrite, SameRenewal,
     SameRelease, SameOwned
<1>11. TimeInv(u)'
  BY <1>1, <1>2, <1>3, <1>a, Zenon DEF TimeInv, Registered, Recovering, SameShared, SameFence,
     SameWrite, SameRenewal, SameRelease, SameOwned
<1> QED
  BY <1>1, <1>4, <1>5, <1>6, <1>7, <1>8, <1>9, <1>10, <1>11, LocalStep, Zenon DEF LocalInv,
     SameShared, Grows

\* The first lease is confirmed.
LEMMA ConfirmPreserves ==
    ASSUME Inv, DrainCompletes, TypeOK', NEW u \in Session, Confirm(u)
    PROVE  Inv'
<1>0. TypeOK /\ Functions
  BY FunctionsOnSession, Zenon DEF Inv
<1>1. SameShared /\ \A t \in Session \ {u} : Same(t)
  BY <1>0, Zenon DEF Functions, Confirm, SameShared, Same, SameFence, SameWrite, SameRenewal,
     SameRelease, SameOwned, shared, activation, fence, writing, renewing, releasing
<1>2. /\ pc[u] = "claimed" /\ Window(started[u]) > now /\ pc'[u] = "active"
      /\ started'[u] = 0 /\ deadline'[u] = Window(started[u]) /\ seen'[u] = seen[u]
      /\ stop'[u] = stop[u] /\ cut'[u] = cut[u] /\ SameWrite(u) /\ SameRenewal(u)
      /\ SameRelease(u) /\ SameOwned(u)
  BY <1>0, Zenon DEF Functions, Confirm, SameFence, SameWrite, SameRenewal, SameRelease, SameOwned,
     shared, activation, fence, writing, renewing, releasing
<1>3. /\ EpochInv(u) /\ CasInv(u) /\ RecoverInv(u) /\ ResidentInv(u) /\ WriteInv(u)
      /\ LinearInv(u) /\ TimeInv(u) /\ SharedInv /\ Typed(u)
  BY <1>0, Fields, Zenon DEF Inv, LocalInv
<1>a. now <= now /\ 0 <= now /\ 0 <= authority.gen /\ authority.gen <= authority.gen
  BY <1>3 DEF Typed
<1>b. ~LogFences => Window(started[u]) + Margin + skew[u] = started[u] + Duration + skew[u]
  BY <1>3, TimingAssumption DEF Typed, Window
<1>c. ~(Window(started[u]) <= now)
  BY <1>2, <1>3, TimingAssumption DEF Typed, Window
<1>4. NoNewEpoch(u)
  BY <1>2, <1>3, Zenon DEF NoNewEpoch, Owning, InFlight, SameWrite, SameOwned
<1>5. EpochInv(u)'
  BY <1>1, <1>2, <1>3, Zenon DEF EpochInv, InFlight, PreClaim, Owning, Registered, SameShared,
     SameFence, SameWrite, SameRenewal, SameRelease, SameOwned
<1>6. CasInv(u)'
  BY <1>1, <1>2, <1>3, <1>a, Zenon DEF CasInv, PreClaim, SameShared, SameFence, SameWrite,
     SameRenewal, SameRelease, SameOwned
<1>7. RecoverInv(u)'
  BY <1>1, <1>2, <1>3, Zenon DEF RecoverInv, Recovering, SameShared, SameFence, SameWrite,
     SameRenewal, SameRelease, SameOwned
<1>8. ResidentInv(u)'
  BY <1>1, <1>2, <1>3, Zenon DEF ResidentInv, Owning, Resident, SameShared, SameFence, SameWrite,
     SameRenewal, SameRelease, SameOwned, EpochInv
<1>9. WriteInv(u)'
  BY <1>1, <1>2, <1>3, Zenon DEF WriteInv, InFlight, HasAuthority, Owning, Recoverable, Latest,
     SameShared, SameFence, SameWrite, SameRenewal, SameRelease, SameOwned, EpochInv
<1>10. LinearInv(u)'
  BY <1>1, <1>2, <1>3, Zenon DEF LinearInv, SameShared, SameFence, SameWrite, SameRenewal,
     SameRelease, SameOwned
<1>11. TimeInv(u)'
  BY <1>1, <1>2, <1>3, <1>a, <1>b, <1>c, Zenon DEF TimeInv, Registered, Recovering, SameShared,
     SameFence, SameWrite, SameRenewal, SameRelease, SameOwned, EpochInv
<1> QED
  BY <1>1, <1>4, <1>5, <1>6, <1>7, <1>8, <1>9, <1>10, <1>11, LocalStep, Zenon DEF LocalInv,
     SameShared, Grows

\* Activation is refused.
LEMMA RefuseActivationPreserves ==
    ASSUME Inv, DrainCompletes, TypeOK', NEW u \in Session, RefuseActivation(u)
    PROVE  Inv'
<1>0. TypeOK /\ Functions
  BY FunctionsOnSession, Zenon DEF Inv
<1>1. SameShared /\ \A t \in Session \ {u} : Same(t)
  BY <1>0, Zenon DEF Functions, RefuseActivation, Forget, SameShared, Same, SameFence, SameWrite,
     SameRenewal, SameRelease, SameOwned, shared, activation, fence, writing, renewing, releasing
<1>2. /\ pc[u] = "loaded" /\ pc'[u] = "failed" /\ seen'[u] = NoRecord /\ started'[u] = 0
      /\ deadline'[u] = 0 /\ cut'[u] = TRUE /\ seal'[u] = FALSE /\ chk'[u] = NoSnapshot
      /\ relgen'[u] = 0 /\ own'[u] = NoRecord /\ state'[u] = NoSnapshot
      /\ stop'[u] = stop[u] /\ SameWrite(u) /\ SameRenewal(u)
  BY <1>0, Zenon DEF Functions, RefuseActivation, Forget, SameFence, SameWrite, SameRenewal,
     SameRelease, SameOwned, shared, activation, fence, writing, renewing, releasing
<1>3. /\ EpochInv(u) /\ CasInv(u) /\ RecoverInv(u) /\ ResidentInv(u) /\ WriteInv(u)
      /\ LinearInv(u) /\ TimeInv(u) /\ SharedInv /\ Typed(u)
  BY <1>0, Fields, Zenon DEF Inv, LocalInv
<1>a. now <= now /\ 0 <= now /\ 0 <= authority.gen /\ authority.gen <= authority.gen
  BY <1>3 DEF Typed
<1>4. NoNewEpoch(u)
  BY <1>2, <1>3, Zenon DEF NoNewEpoch, Owning, InFlight, SameWrite, SameOwned
<1>5. EpochInv(u)'
  BY <1>1, <1>2, <1>3, Empty, Zenon DEF EpochInv, InFlight, PreClaim, Owning, Registered,
     SameShared, SameFence, SameWrite, SameRenewal, SameRelease, SameOwned
<1>6. CasInv(u)'
  BY <1>1, <1>2, <1>3, <1>a, Empty, Zenon DEF CasInv, PreClaim, SameShared, SameFence, SameWrite,
     SameRenewal, SameRelease, SameOwned
<1>7. RecoverInv(u)'
  BY <1>1, <1>2, <1>3, Empty, Zenon DEF RecoverInv, Recovering, SameShared, SameFence, SameWrite,
     SameRenewal, SameRelease, SameOwned
<1>8. ResidentInv(u)'
  BY <1>1, <1>2, <1>3, Empty, Zenon DEF ResidentInv, Owning, Resident, SameShared, SameFence,
     SameWrite, SameRenewal, SameRelease, SameOwned
<1>9. WriteInv(u)'
  BY <1>1, <1>2, <1>3, Empty, Zenon DEF WriteInv, InFlight, HasAuthority, Owning, Recoverable,
     Latest, SameShared, SameFence, SameWrite, SameRenewal, SameRelease, SameOwned
<1>10. LinearInv(u)'
  BY <1>1, <1>2, <1>3, Empty, Zenon DEF LinearInv, SameShared, SameFence, SameWrite, SameRenewal,
     SameRelease, SameOwned
<1>11. TimeInv(u)'
  BY <1>1, <1>2, <1>3, <1>a, Empty, Zenon DEF TimeInv, Registered, Recovering, SameShared,
     SameFence, SameWrite, SameRenewal, SameRelease, SameOwned
<1> QED
  BY <1>1, <1>4, <1>5, <1>6, <1>7, <1>8, <1>9, <1>10, <1>11, LocalStep, Zenon DEF LocalInv,
     SameShared, Grows

\* The claim is lost.
LEMMA ClaimLostPreserves ==
    ASSUME Inv, DrainCompletes, TypeOK', NEW u \in Session, ClaimLost(u)
    PROVE  Inv'
<1>0. TypeOK /\ Functions
  BY FunctionsOnSession, Zenon DEF Inv
<1>1. SameShared /\ \A t \in Session \ {u} : Same(t)
  BY <1>0, Zenon DEF Functions, ClaimLost, Forget, SameShared, Same, SameFence, SameWrite,
     SameRenewal, SameRelease, SameOwned, shared, activation, fence, writing, renewing, releasing
<1>2. /\ pc[u] \in {"recovered", "unrecovered"} /\ pc'[u] = "failed"
      /\ seen'[u] = NoRecord /\ started'[u] = 0 /\ deadline'[u] = 0 /\ cut'[u] = TRUE
      /\ seal'[u] = FALSE /\ chk'[u] = NoSnapshot /\ relgen'[u] = 0 /\ own'[u] = NoRecord
      /\ state'[u] = NoSnapshot /\ stop'[u] = stop[u] /\ SameWrite(u) /\ SameRenewal(u)
  BY <1>0, Zenon DEF Functions, ClaimLost, Forget, SameFence, SameWrite, SameRenewal, SameRelease,
     SameOwned, shared, activation, fence, writing, renewing, releasing
<1>3. /\ EpochInv(u) /\ CasInv(u) /\ RecoverInv(u) /\ ResidentInv(u) /\ WriteInv(u)
      /\ LinearInv(u) /\ TimeInv(u) /\ SharedInv /\ Typed(u)
  BY <1>0, Fields, Zenon DEF Inv, LocalInv
<1>a. now <= now /\ 0 <= now /\ 0 <= authority.gen /\ authority.gen <= authority.gen
  BY <1>3 DEF Typed
<1>4. NoNewEpoch(u)
  BY <1>2, <1>3, Zenon DEF NoNewEpoch, Owning, InFlight, SameWrite, SameOwned
<1>5. EpochInv(u)'
  BY <1>1, <1>2, <1>3, Empty, Zenon DEF EpochInv, InFlight, PreClaim, Owning, Registered,
     SameShared, SameFence, SameWrite, SameRenewal, SameRelease, SameOwned
<1>6. CasInv(u)'
  BY <1>1, <1>2, <1>3, <1>a, Empty, Zenon DEF CasInv, PreClaim, SameShared, SameFence, SameWrite,
     SameRenewal, SameRelease, SameOwned
<1>7. RecoverInv(u)'
  BY <1>1, <1>2, <1>3, Empty, Zenon DEF RecoverInv, Recovering, SameShared, SameFence, SameWrite,
     SameRenewal, SameRelease, SameOwned
<1>8. ResidentInv(u)'
  BY <1>1, <1>2, <1>3, Empty, Zenon DEF ResidentInv, Owning, Resident, SameShared, SameFence,
     SameWrite, SameRenewal, SameRelease, SameOwned
<1>9. WriteInv(u)'
  BY <1>1, <1>2, <1>3, Empty, Zenon DEF WriteInv, InFlight, HasAuthority, Owning, Recoverable,
     Latest, SameShared, SameFence, SameWrite, SameRenewal, SameRelease, SameOwned
<1>10. LinearInv(u)'
  BY <1>1, <1>2, <1>3, Empty, Zenon DEF LinearInv, SameShared, SameFence, SameWrite, SameRenewal,
     SameRelease, SameOwned
<1>11. TimeInv(u)'
  BY <1>1, <1>2, <1>3, <1>a, Empty, Zenon DEF TimeInv, Registered, Recovering, SameShared,
     SameFence, SameWrite, SameRenewal, SameRelease, SameOwned
<1> QED
  BY <1>1, <1>4, <1>5, <1>6, <1>7, <1>8, <1>9, <1>10, <1>11, LocalStep, Zenon DEF LocalInv,
     SameShared, Grows

\* The first window closed before it was confirmed.
LEMMA ConfirmLatePreserves ==
    ASSUME Inv, DrainCompletes, TypeOK', NEW u \in Session, ConfirmLate(u)
    PROVE  Inv'
<1>0. TypeOK /\ Functions
  BY FunctionsOnSession, Zenon DEF Inv
<1>1. SameShared /\ \A t \in Session \ {u} : Same(t)
  BY <1>0, Zenon DEF Functions, ConfirmLate, Forget, SameShared, Same, SameFence, SameWrite,
     SameRenewal, SameRelease, SameOwned, shared, activation, fence, writing, renewing, releasing
<1>2. /\ pc[u] = "claimed" /\ pc'[u] = "failed" /\ seen'[u] = NoRecord /\ started'[u] = 0
      /\ deadline'[u] = 0 /\ cut'[u] = TRUE /\ seal'[u] = FALSE /\ chk'[u] = NoSnapshot
      /\ relgen'[u] = 0 /\ own'[u] = NoRecord /\ state'[u] = NoSnapshot
      /\ stop'[u] = stop[u] /\ SameWrite(u) /\ SameRenewal(u)
  BY <1>0, Zenon DEF Functions, ConfirmLate, Forget, SameFence, SameWrite, SameRenewal, SameRelease,
     SameOwned, shared, activation, fence, writing, renewing, releasing
<1>3. /\ EpochInv(u) /\ CasInv(u) /\ RecoverInv(u) /\ ResidentInv(u) /\ WriteInv(u)
      /\ LinearInv(u) /\ TimeInv(u) /\ SharedInv /\ Typed(u)
  BY <1>0, Fields, Zenon DEF Inv, LocalInv
<1>a. now <= now /\ 0 <= now /\ 0 <= authority.gen /\ authority.gen <= authority.gen
  BY <1>3 DEF Typed
<1>4. NoNewEpoch(u)
  BY <1>2, <1>3, Zenon DEF NoNewEpoch, Owning, InFlight, SameWrite, SameOwned
<1>5. EpochInv(u)'
  BY <1>1, <1>2, <1>3, Empty, Zenon DEF EpochInv, InFlight, PreClaim, Owning, Registered,
     SameShared, SameFence, SameWrite, SameRenewal, SameRelease, SameOwned
<1>6. CasInv(u)'
  BY <1>1, <1>2, <1>3, <1>a, Empty, Zenon DEF CasInv, PreClaim, SameShared, SameFence, SameWrite,
     SameRenewal, SameRelease, SameOwned
<1>7. RecoverInv(u)'
  BY <1>1, <1>2, <1>3, Empty, Zenon DEF RecoverInv, Recovering, SameShared, SameFence, SameWrite,
     SameRenewal, SameRelease, SameOwned
<1>8. ResidentInv(u)'
  BY <1>1, <1>2, <1>3, Empty, Zenon DEF ResidentInv, Owning, Resident, SameShared, SameFence,
     SameWrite, SameRenewal, SameRelease, SameOwned
<1>9. WriteInv(u)'
  BY <1>1, <1>2, <1>3, Empty, Zenon DEF WriteInv, InFlight, HasAuthority, Owning, Recoverable,
     Latest, SameShared, SameFence, SameWrite, SameRenewal, SameRelease, SameOwned
<1>10. LinearInv(u)'
  BY <1>1, <1>2, <1>3, Empty, Zenon DEF LinearInv, SameShared, SameFence, SameWrite, SameRenewal,
     SameRelease, SameOwned
<1>11. TimeInv(u)'
  BY <1>1, <1>2, <1>3, <1>a, Empty, Zenon DEF TimeInv, Registered, Recovering, SameShared,
     SameFence, SameWrite, SameRenewal, SameRelease, SameOwned
<1> QED
  BY <1>1, <1>4, <1>5, <1>6, <1>7, <1>8, <1>9, <1>10, <1>11, LocalStep, Zenon DEF LocalInv,
     SameShared, Grows

\* There is nothing to release.
LEMMA ReleaseMootPreserves ==
    ASSUME Inv, DrainCompletes, TypeOK', NEW u \in Session, ReleaseMoot(u)
    PROVE  Inv'
<1>0. TypeOK /\ Functions
  BY FunctionsOnSession, Zenon DEF Inv
<1>1. SameShared /\ \A t \in Session \ {u} : Same(t)
  BY <1>0, Zenon DEF Functions, ReleaseMoot, Forget, SameShared, Same, SameFence, SameWrite,
     SameRenewal, SameRelease, SameOwned, shared, activation, fence, writing, renewing, releasing
<1>2. /\ pc[u] = "releasing" /\ pc'[u] = "released" /\ seen'[u] = NoRecord
      /\ started'[u] = 0 /\ deadline'[u] = 0 /\ cut'[u] = TRUE /\ seal'[u] = FALSE
      /\ chk'[u] = NoSnapshot /\ relgen'[u] = 0 /\ own'[u] = NoRecord
      /\ state'[u] = NoSnapshot /\ stop'[u] = stop[u] /\ SameWrite(u) /\ SameRenewal(u)
  BY <1>0, Zenon DEF Functions, ReleaseMoot, Forget, SameFence, SameWrite, SameRenewal, SameRelease,
     SameOwned, shared, activation, fence, writing, renewing, releasing
<1>3. /\ EpochInv(u) /\ CasInv(u) /\ RecoverInv(u) /\ ResidentInv(u) /\ WriteInv(u)
      /\ LinearInv(u) /\ TimeInv(u) /\ SharedInv /\ Typed(u)
  BY <1>0, Fields, Zenon DEF Inv, LocalInv
<1>a. now <= now /\ 0 <= now /\ 0 <= authority.gen /\ authority.gen <= authority.gen
  BY <1>3 DEF Typed
<1>4. NoNewEpoch(u)
  BY <1>2, <1>3, Zenon DEF NoNewEpoch, Owning, InFlight, SameWrite, SameOwned
<1>5. EpochInv(u)'
  BY <1>1, <1>2, <1>3, Empty, Zenon DEF EpochInv, InFlight, PreClaim, Owning, Registered,
     SameShared, SameFence, SameWrite, SameRenewal, SameRelease, SameOwned
<1>6. CasInv(u)'
  BY <1>1, <1>2, <1>3, <1>a, Empty, Zenon DEF CasInv, PreClaim, SameShared, SameFence, SameWrite,
     SameRenewal, SameRelease, SameOwned
<1>7. RecoverInv(u)'
  BY <1>1, <1>2, <1>3, Empty, Zenon DEF RecoverInv, Recovering, SameShared, SameFence, SameWrite,
     SameRenewal, SameRelease, SameOwned
<1>8. ResidentInv(u)'
  BY <1>1, <1>2, <1>3, Empty, Zenon DEF ResidentInv, Owning, Resident, SameShared, SameFence,
     SameWrite, SameRenewal, SameRelease, SameOwned
<1>9. WriteInv(u)'
  BY <1>1, <1>2, <1>3, Empty, Zenon DEF WriteInv, InFlight, HasAuthority, Owning, Recoverable,
     Latest, SameShared, SameFence, SameWrite, SameRenewal, SameRelease, SameOwned
<1>10. LinearInv(u)'
  BY <1>1, <1>2, <1>3, Empty, Zenon DEF LinearInv, SameShared, SameFence, SameWrite, SameRenewal,
     SameRelease, SameOwned
<1>11. TimeInv(u)'
  BY <1>1, <1>2, <1>3, <1>a, Empty, Zenon DEF TimeInv, Registered, Recovering, SameShared,
     SameFence, SameWrite, SameRenewal, SameRelease, SameOwned
<1> QED
  BY <1>1, <1>4, <1>5, <1>6, <1>7, <1>8, <1>9, <1>10, <1>11, LocalStep, Zenon DEF LocalInv,
     SameShared, Grows

\* The process dies.
LEMMA CrashPreserves ==
    ASSUME Inv, DrainCompletes, TypeOK', NEW u \in Session, Crash(u)
    PROVE  Inv'
<1>0. TypeOK /\ Functions
  BY FunctionsOnSession, Zenon DEF Inv
<1>1. SameShared /\ \A t \in Session \ {u} : Same(t)
  BY <1>0, Zenon DEF Functions, Crash, Forget, SameShared, Same, SameFence, SameWrite, SameRenewal,
     SameRelease, SameOwned, shared, activation, fence, writing, renewing, releasing
<1>2. /\ pc[u] # "idle" /\ pc'[u] = "failed" /\ seen'[u] = NoRecord /\ started'[u] = 0
      /\ stop'[u] = TRUE /\ deadline'[u] = 0 /\ cut'[u] = TRUE /\ seal'[u] = FALSE
      /\ chk'[u] = NoSnapshot /\ relgen'[u] = 0 /\ own'[u] = NoRecord
      /\ state'[u] = NoSnapshot /\ SameWrite(u) /\ SameRenewal(u)
  BY <1>0, Zenon DEF Functions, Crash, Forget, SameFence, SameWrite, SameRenewal, SameRelease,
     SameOwned, shared, activation, fence, writing, renewing, releasing
<1>3. /\ EpochInv(u) /\ CasInv(u) /\ RecoverInv(u) /\ ResidentInv(u) /\ WriteInv(u)
      /\ LinearInv(u) /\ TimeInv(u) /\ SharedInv /\ Typed(u)
  BY <1>0, Fields, Zenon DEF Inv, LocalInv
<1>a. now <= now /\ 0 <= now /\ 0 <= authority.gen /\ authority.gen <= authority.gen
  BY <1>3 DEF Typed
<1>4. NoNewEpoch(u)
  BY <1>2, <1>3, Zenon DEF NoNewEpoch, Owning, InFlight, SameWrite, SameOwned
<1>5. EpochInv(u)'
  BY <1>1, <1>2, <1>3, Empty, Zenon DEF EpochInv, InFlight, PreClaim, Owning, Registered,
     SameShared, SameFence, SameWrite, SameRenewal, SameRelease, SameOwned
<1>6. CasInv(u)'
  BY <1>1, <1>2, <1>3, <1>a, Empty, Zenon DEF CasInv, PreClaim, SameShared, SameFence, SameWrite,
     SameRenewal, SameRelease, SameOwned
<1>7. RecoverInv(u)'
  BY <1>1, <1>2, <1>3, Empty, Zenon DEF RecoverInv, Recovering, SameShared, SameFence, SameWrite,
     SameRenewal, SameRelease, SameOwned
<1>8. ResidentInv(u)'
  BY <1>1, <1>2, <1>3, Empty, Zenon DEF ResidentInv, Owning, Resident, SameShared, SameFence,
     SameWrite, SameRenewal, SameRelease, SameOwned
<1>9. WriteInv(u)'
  BY <1>1, <1>2, <1>3, Empty, Zenon DEF WriteInv, InFlight, HasAuthority, Owning, Recoverable,
     Latest, SameShared, SameFence, SameWrite, SameRenewal, SameRelease, SameOwned
<1>10. LinearInv(u)'
  BY <1>1, <1>2, <1>3, Empty, Zenon DEF LinearInv, SameShared, SameFence, SameWrite, SameRenewal,
     SameRelease, SameOwned
<1>11. TimeInv(u)'
  BY <1>1, <1>2, <1>3, <1>a, Empty, Zenon DEF TimeInv, Registered, Recovering, SameShared,
     SameFence, SameWrite, SameRenewal, SameRelease, SameOwned
<1> QED
  BY <1>1, <1>4, <1>5, <1>6, <1>7, <1>8, <1>9, <1>10, <1>11, LocalStep, Zenon DEF LocalInv,
     SameShared, Grows
-----------------------------------------------------------------------------
\* The newest snapshot of an unsealed record is recovered, after its log was fenced.
LEMMA RecoverUnsealedPreserves ==
    ASSUME Inv, DrainCompletes, TypeOK', NEW u \in Session, RecoverUnsealed(u)
    PROVE  Inv'
<1>0. TypeOK /\ Functions
  BY FunctionsOnSession, Zenon DEF Inv
<1>1. Grows /\ \A t \in Session \ {u} : Same(t)
  BY <1>0, Zenon DEF Functions, RecoverUnsealed, Grows, Same, SameFence, SameWrite, SameRenewal,
     SameRelease, SameOwned, fence, writing, renewing, releasing
<1>2. /\ pc[u] = "loaded" /\ ~seen[u].sealed /\ seen[u].expires <= now + skew[u]
      /\ LogFences => seen[u].epoch \in fenced'
      /\ pc'[u] = "recovered" /\ own'[u] = ActivationRecord(u, Latest(seen[u]))
      /\ state'[u] = Latest(seen[u]) /\ seen'[u] = seen[u] /\ started'[u] = started[u]
      /\ stop'[u] = stop[u] /\ SameFence(u) /\ SameWrite(u) /\ SameRenewal(u) /\ SameRelease(u)
  BY <1>0, Zenon DEF Functions, RecoverUnsealed, CanActivate, Clock, SameFence, SameWrite,
     SameRenewal, SameRelease, fence, writing, renewing, releasing
<1>3. /\ EpochInv(u) /\ CasInv(u) /\ RecoverInv(u) /\ ResidentInv(u) /\ WriteInv(u)
      /\ LinearInv(u) /\ TimeInv(u) /\ SharedInv /\ AckedSurvives /\ Typed(u)
  BY <1>0, Fields, Zenon DEF Inv, LocalInv
<1>a. /\ own'[u].gen = seen[u].gen + 1 /\ own'[u].epoch = seen[u].epoch + 1
      /\ own'[u].owner = u /\ own'[u].sealed = FALSE /\ own'[u].base = Latest(seen[u])
      /\ own'[u].expires = now + skew[u] + Duration
  BY <1>2 DEF ActivationRecord, Clock
<1>b. ~LogFences => started[u] + Duration + skew[u] <= own'[u].expires
                  /\ own'[u].expires <= now + skew[u] + Duration
  BY <1>3, <1>a, TimingAssumption DEF TimeInv, Typed
<1>c. seen[u].gen = authority.gen => seen[u] = authority
  BY <1>2, <1>3, Zenon DEF CasInv, PreClaim
<1>d. ~authority.sealed =>
        /\ Top(Candidates(store, authority), Latest(authority))
        /\ acked \subseteq Latest(authority).writes
        /\ Latest(authority).epoch <= authority.epoch
  <2> SUFFICES ASSUME ~authority.sealed
               PROVE  /\ Top(Candidates(store, authority), Latest(authority))
                      /\ acked \subseteq Latest(authority).writes
                      /\ Latest(authority).epoch <= authority.epoch
    OBVIOUS
  <2>1. Top(Candidates(store, authority), Latest(authority))
    BY <1>3, Zenon DEF SharedInv
  <2>2. acked \subseteq Latest(authority).writes
    BY <1>3, Zenon DEF AckedSurvives, Recoverable
  <2>3. authority.base.epoch <= authority.epoch /\ authority.epoch <= authority.epoch
    BY <1>3 DEF SharedInv, Typed
  <2>4. Latest(authority).epoch <= authority.epoch
    BY <2>1, <2>3, Zenon DEF Top, Candidates
  <2> QED
    BY <2>1, <2>2, <2>4, Zenon
<1>e. Linear(Latest(seen[u]))
  BY <1>3, Empty, Zenon DEF RecoverUnsealed, Readable, SharedInv
<1>4. NoNewEpoch(u)
  BY <1>2, <1>3, Zenon DEF NoNewEpoch, Owning, InFlight, SameWrite
<1>5. EpochInv(u)'
  BY <1>1, <1>2, <1>3, Zenon DEF EpochInv, InFlight, PreClaim, Owning, Registered, Grows, SameFence,
     SameWrite, SameRenewal, SameRelease
<1>6. CasInv(u)'
  BY <1>1, <1>2, <1>3, Zenon DEF CasInv, PreClaim, Grows, SameRenewal, SameRelease
<1>7. RecoverInv(u)'
  BY <1>1, <1>2, <1>a, <1>c, <1>d, Zenon DEF RecoverInv, Grows
<1>8. ResidentInv(u)'
  BY <1>2, Zenon DEF ResidentInv, Owning
<1>9. WriteInv(u)'
  BY <1>2, <1>3, Zenon DEF WriteInv, EpochInv, PreClaim, InFlight, Owning, SameWrite
<1>10. LinearInv(u)'
  BY <1>2, <1>3, <1>a, <1>e, Zenon DEF LinearInv, SameWrite, SameRelease
<1>11. TimeInv(u)'
  BY <1>1, <1>2, <1>3, <1>b, Zenon DEF TimeInv, Registered, Recovering, Grows, SameFence,
     SameRenewal
<1> QED
  BY <1>1, <1>4, <1>5, <1>6, <1>7, <1>8, <1>9, <1>10, <1>11, LocalStep, Zenon DEF LocalInv

-----------------------------------------------------------------------------
\* The claim wins: the record names u, with the base it recovered.
LEMMA ClaimPreserves ==
    ASSUME Inv, DrainCompletes, TypeOK', NEW u \in Session, Claim(u)
    PROVE  Inv' /\ KeepsVisible
<1>0. TypeOK /\ Functions
  BY FunctionsOnSession, Zenon DEF Inv
<1>1. \A t \in Session \ {u} : Same(t)
  BY <1>0, Zenon DEF Functions, Claim, Same, SameFence, SameWrite, SameRenewal, SameRelease,
     SameOwned, fence, writing, renewing, releasing
<1>2. /\ pc[u] \in Recovering /\ authority.gen = seen[u].gen /\ authority' = own[u]
      /\ now' = now /\ skew' = skew /\ store' = store /\ fenced' = fenced /\ acked' = acked
      /\ pc'[u] = (IF pc[u] = "recovered" THEN "claimed" ELSE "unloaded")
      /\ seen'[u] = NoRecord /\ started'[u] = started[u]
      /\ SameFence(u) /\ SameWrite(u) /\ SameRenewal(u) /\ SameRelease(u) /\ SameOwned(u)
  BY <1>0, Zenon DEF Functions, Claim, Recovering, SameFence, SameWrite, SameRenewal, SameRelease,
     SameOwned, fence, writing, renewing, releasing
<1>3. /\ EpochInv(u) /\ CasInv(u) /\ RecoverInv(u) /\ ResidentInv(u) /\ WriteInv(u)
      /\ LinearInv(u) /\ TimeInv(u) /\ SharedInv /\ AckedSurvives /\ Typed(u)
  BY <1>0, Fields, Zenon DEF Inv, LocalInv
<1>a. seen[u] = authority /\ authority.owner # u
  BY <1>2, <1>3, Zenon DEF CasInv, EpochInv, PreClaim, Recovering
<1>b. /\ own[u].gen = authority.gen + 1 /\ own[u].epoch = authority.epoch + 1
      /\ own[u].owner = u /\ ~own[u].sealed
      /\ pc[u] = "recovered" => state[u] = own[u].base
      /\ authority.sealed => own[u].base = authority.base
      /\ ~authority.sealed =>
           /\ LogFences => authority.epoch \in fenced
           /\ ~LogFences => authority.expires <= now + skew[u]
           /\ acked \subseteq own[u].base.writes
           /\ own[u].base.epoch <= authority.epoch
           /\ LogFences => Top(Candidates(store, authority), own[u].base)
  BY <1>2, <1>3, <1>a, Zenon DEF RecoverInv
<1>c. own[u].base.epoch <= authority.epoch
  BY <1>3, <1>b, Zenon DEF SharedInv
<1>d. /\ authority.gen < own[u].gen /\ authority.epoch < own[u].epoch /\ 0 < own[u].epoch
      /\ own[u].base.epoch < own[u].epoch /\ own[u].base.epoch <= own[u].epoch
  BY <1>3, <1>b, <1>c DEF Typed
<1>e. Candidates(store, own[u]) = {own[u].base}
  <2>1. \A x \in store : x.epoch <= authority.epoch /\ x.epoch \in Nat
    BY <1>0, <1>3, SnapshotFields, Zenon DEF SharedInv, TypeOK
  <2>2. \A x \in store : x.epoch # own[u].epoch
    BY <1>3, <1>d, <2>1 DEF Typed
  <2> QED
    BY <2>2, Zenon DEF Candidates
<1>f. Top(Candidates(store, own[u]), own[u].base)
  BY <1>e, Zenon DEF Top
<1>g. Latest(own[u]) = own[u].base
  BY <1>0, <1>f, LatestIs, Zenon DEF TypeOK
<1>h. acked \subseteq own[u].base.writes
  BY <1>3, <1>b, Zenon DEF AckedSurvives, Recoverable
<1>i. Latest(authority)' = own[u].base /\ Recoverable(authority)' = own[u].base
  BY <1>2, <1>b, <1>g, Zenon DEF Latest, Recoverable
<1>j. ~authority.sealed /\ LogFences => Latest(authority) = own[u].base
  BY <1>0, <1>b, LatestIs, Zenon DEF TypeOK
<1>4. SharedInv' /\ AckedSurvives'
  <2>1. authority'.gen # 0 /\ authority'.owner # NoSession
    BY <1>2, <1>3, <1>b, SessionAssumption DEF Typed
  <2>2. \A x \in store : 0 < x.epoch /\ x.epoch <= authority.epoch /\ Linear(x) /\ x.epoch \in Nat
    BY <1>0, <1>3, SnapshotFields, Zenon DEF SharedInv, TypeOK
  <2>3. \A x \in store : 0 < x.epoch /\ x.epoch <= own[u].epoch /\ Linear(x)
    BY <1>3, <1>d, <2>2 DEF Typed
  <2>4. Linear(own[u].base)
    BY <1>3, Zenon DEF LinearInv
  <2>5. SharedInv'
    BY <1>2, <1>d, <1>f, <1>i, <2>1, <2>3, <2>4, Zenon DEF SharedInv
  <2>6. AckedSurvives'
    BY <1>2, <1>h, <1>i, Zenon DEF AckedSurvives
  <2> QED
    BY <2>5, <2>6, Zenon
<1>5. LocalInv(u)'
  <2>1. EpochInv(u)'
    <3>1. wr[u] = "idle" /\ rn[u] = "idle" /\ ~seal[u] /\ (cut[u] \/ deadline[u] = 0)
      BY <1>2, <1>3, Zenon DEF EpochInv, PreClaim, Recovering, Registered
    <3>2. own[u].epoch <= own[u].epoch
      BY <1>3 DEF Typed
    <3> QED
      BY <1>2, <1>b, <1>d, <3>1, <3>2, Zenon DEF EpochInv, InFlight, PreClaim, Owning, Registered,
         SameFence, SameWrite, SameRenewal, SameRelease, SameOwned
  <2>2. CasInv(u)'
    <3>1. rn[u] = "idle"
      BY <1>2, <1>3, Zenon DEF EpochInv, PreClaim, Recovering
    <3>2. 0 <= own[u].gen
      BY <1>3 DEF Typed
    <3> QED
      BY <1>2, <3>1, <3>2, Empty, Zenon DEF CasInv, PreClaim, SameRenewal
  <2>3. RecoverInv(u)'
    BY <1>2, Zenon DEF RecoverInv, Recovering
  <2>4. ResidentInv(u)'
    <3>1. wr[u] = "idle" /\ ~seal[u]
      BY <1>2, <1>3, Zenon DEF EpochInv, PreClaim, Recovering
    <3> QED
      BY <1>2, <1>b, <1>d, <1>f, <3>1, Zenon DEF ResidentInv, Owning, Resident, Recovering,
         SameWrite, SameRelease, SameOwned
  <2>5. WriteInv(u)'
    <3>1. wr[u] = "idle" /\ ~(own[u].epoch < own[u].epoch)
      BY <1>2, <1>3 DEF EpochInv, PreClaim, Recovering, Typed
    <3> QED
      BY <1>2, <3>1, Zenon DEF WriteInv, InFlight, SameWrite, SameOwned
  <2>6. LinearInv(u)'
    BY <1>2, <1>3, Empty, Zenon DEF LinearInv, SameWrite, SameRelease, SameOwned
  <2>7. TimeInv(u)'
    <3>1. rn[u] = "idle"
      BY <1>2, <1>3, Zenon DEF EpochInv, PreClaim, Recovering
    <3> QED
      BY <1>2, <1>3, <1>b, <3>1, Zenon DEF TimeInv, Recovering, Registered, SameRenewal, SameOwned
  <2> QED
    BY <2>1, <2>2, <2>3, <2>4, <2>5, <2>6, <2>7, Zenon DEF LocalInv
<1>6. ASSUME NEW t \in Session, t # u
      PROVE  LocalInv(t)' /\ Distinct(u, t)' /\ Distinct(t, u)'
  <2>0. Same(t)
    BY <1>1, <1>6, Zenon
  <2>1. /\ EpochInv(t) /\ CasInv(t) /\ RecoverInv(t) /\ ResidentInv(t) /\ WriteInv(t)
        /\ LinearInv(t) /\ TimeInv(t) /\ Typed(t)
    BY <1>0, Fields, Zenon DEF Inv, LocalInv
  <2> USE DEF Same
  <2>2. /\ pc[t] \in Owning => own[t].epoch < own[u].epoch
        /\ InFlight(t) => wsnap[t].epoch < own[u].epoch
    <3>1. pc[t] \in Owning => own[t].epoch <= authority.epoch
      BY <2>1, Zenon DEF EpochInv
    <3>2. InFlight(t) => wsnap[t].epoch <= authority.epoch
      BY <2>1, Zenon DEF EpochInv
    <3> QED
      BY <1>3, <1>d, <2>1, <3>1, <3>2 DEF Typed
  <2>3. /\ pc[t] \in Owning => own[t].epoch <= own[u].epoch /\ own[t].epoch # own[u].epoch
        /\ InFlight(t) => wsnap[t].epoch <= own[u].epoch /\ wsnap[t].epoch # own[u].epoch
    BY <1>3, <2>1, <2>2 DEF Typed
  <2>4. /\ seen[t].gen <= own[u].gen /\ seen[t].gen # own[u].gen
        /\ rn[t] = "cas" => rgen[t] <= own[u].gen /\ rgen[t] # own[u].gen
        /\ pc[t] = "releaseCas" => relgen[t] <= own[u].gen /\ relgen[t] # own[u].gen
    BY <1>3, <1>d, <2>1 DEF CasInv, Typed
  \* The lease of the superseded owner is over on every clock.
  <2>5. ~LogFences /\ ~authority.sealed => authority.expires <= now + Margin
    <3>1. ~LogFences /\ ~authority.sealed => authority.expires <= now + skew[u]
      BY <1>b, Zenon
    <3> QED
      BY <1>3, <3>1, SkewAssumption, TimingAssumption DEF Typed
  <2>6. HasAuthority(t) => pc[t] \in Registered /\ ~cut[t] /\ ~(deadline[t] <= now)
    <3>1. HasAuthority(t) => ~cut[t] /\ deadline[t] > now
      BY Zenon DEF HasAuthority
    <3>2. deadline[t] > now => deadline[t] # 0 /\ ~(deadline[t] <= now)
      BY <2>1 DEF Typed
    <3> QED
      BY <2>1, <3>1, <3>2, Zenon DEF EpochInv
  <2>7. ~LogFences /\ ~authority.sealed /\ authority.owner = t =>
          /\ pc[t] = "claimed" => Window(started[t]) <= now
          /\ pc[t] \in Registered /\ ~cut[t] => deadline[t] <= now
    <3> SUFFICES ASSUME ~LogFences, ~authority.sealed, authority.owner = t
                 PROVE  /\ pc[t] = "claimed" => Window(started[t]) <= now
                        /\ pc[t] \in Registered /\ ~cut[t] => deadline[t] <= now
      OBVIOUS
    <3>1. pc[t] = "claimed" => started[t] + Duration + skew[t] <= authority.expires
      BY <2>1, Zenon DEF TimeInv
    <3>2. pc[t] \in Registered /\ ~cut[t] => deadline[t] + Margin + skew[t] <= authority.expires
      BY <2>1, Zenon DEF TimeInv
    <3>3. pc[t] = "claimed" => Window(started[t]) <= now
      BY <2>1, <2>5, <3>1, TimingAssumption DEF Window, Typed
    <3>4. pc[t] \in Registered /\ ~cut[t] => deadline[t] <= now
      BY <2>1, <2>5, <3>2, TimingAssumption DEF Typed
    <3> QED
      BY <3>3, <3>4, Zenon
  <2>8. EpochInv(t)'
    BY <1>2, <1>6, <1>b, <2>0, <2>1, <2>3, Zenon DEF EpochInv, InFlight, PreClaim, SameFence,
       SameWrite, SameRenewal, SameRelease, SameOwned
  <2>9. CasInv(t)'
    BY <1>2, <2>0, <2>4, Zenon DEF CasInv, SameRenewal, SameRelease
  <2>10. RecoverInv(t)'
    BY <1>2, <2>0, <2>1, <2>4, Zenon DEF RecoverInv, SameOwned
  <2>11. ResidentInv(t)'
    BY <1>2, <1>6, <1>b, <2>0, <2>1, Zenon DEF ResidentInv, SameWrite, SameRelease, SameOwned
  <2>12. WriteInv(t)'
    <3>1. InFlight(t)' = InFlight(t) /\ HasAuthority(t)' = HasAuthority(t)
      BY <1>2, <2>0, Zenon DEF InFlight, HasAuthority, SameFence, SameWrite
    <3>2. InFlight(t) /\ wsnap[t].epoch = authority.epoch =>
            /\ authority.owner = t /\ ~authority.sealed
            /\ wr[t] = "landed" => Top(Candidates(store, authority), wsnap[t])
            /\ <<wsnap[t].epoch, wsnap[t].version>> \in wsnap[t].writes
      BY <2>1, Zenon DEF EpochInv, WriteInv
    <3>3. InFlight(t) /\ HasAuthority(t) /\ wsnap[t].epoch = authority.epoch => LogFences
      BY <2>6, <2>7, <3>2, Zenon
    <3>4. InFlight(t) /\ HasAuthority(t) /\ wsnap[t].epoch = authority.epoch =>
            /\ wsnap[t].epoch \in fenced
            /\ wr[t] = "landed" => wsnap[t] = own[u].base
      <4> SUFFICES ASSUME InFlight(t), HasAuthority(t), wsnap[t].epoch = authority.epoch
                   PROVE  wsnap[t].epoch \in fenced /\ (wr[t] = "landed" => wsnap[t] =
                   own[u].base)
        OBVIOUS
      <4>1. wsnap[t].epoch \in fenced
        BY <1>b, <3>2, <3>3, Zenon
      <4>2. wr[t] = "landed" => Latest(authority) = wsnap[t]
        BY <1>0, <3>2, LatestIs, Zenon DEF TypeOK
      <4> QED
        BY <1>j, <3>2, <3>3, <4>1, <4>2, Zenon
    <3>5. wsnap[t].epoch < own[u].epoch =>
            wsnap[t].epoch < authority.epoch \/ wsnap[t].epoch = authority.epoch
      BY <1>3, <1>b, <2>1 DEF Typed
    <3>6. InFlight(t) /\ wsnap[t].epoch < authority.epoch /\ HasAuthority(t) =>
            /\ LogFences
            /\ wr[t] = "sent" => wsnap[t].epoch \in fenced
            /\ wr[t] = "landed" =>
                 <<wsnap[t].epoch, wsnap[t].version>> \in Recoverable(authority).writes
      BY <2>1, Zenon DEF WriteInv
    <3>7. LogFences => Recoverable(authority) = own[u].base
      BY <1>b, <1>j, Zenon DEF Recoverable
    <3>8. InFlight(t) /\ HasAuthority(t) =>
            /\ LogFences
            /\ wr[t] = "sent" => wsnap[t].epoch \in fenced
            /\ wr[t] = "landed" =>
                 <<wsnap[t].epoch, wsnap[t].version>> \in own[u].base.writes
      BY <2>2, <3>2, <3>3, <3>4, <3>5, <3>6, <3>7, Zenon
    <3>9. LogFences /\ pc[t] \in Owning => own[t].epoch \in fenced
      <4> SUFFICES ASSUME LogFences, pc[t] \in Owning PROVE own[t].epoch \in fenced
        OBVIOUS
      <4>1. CASE own[t].epoch = authority.epoch
        BY <1>b, <2>1, <4>1, Zenon DEF EpochInv, ResidentInv
      <4>2. CASE own[t].epoch # authority.epoch
        <5>1. own[t].epoch <= authority.epoch
          BY <2>1, Zenon DEF EpochInv
        <5>2. own[t].epoch < authority.epoch
          BY <2>1, <4>2, <5>1 DEF Typed
        <5> QED
          BY <2>1, <5>2, Zenon DEF WriteInv
      <4> QED
        BY <4>1, <4>2, Zenon
    <3>10. InFlight(t) =>
            /\ <<wsnap[t].epoch, wsnap[t].version>> \in wsnap[t].writes
            /\ wr[t] = "sent" =>
                 \A x \in store : x.epoch = wsnap[t].epoch => x.version < wsnap[t].version
      BY <2>1, Zenon DEF WriteInv
    <3> QED
      BY <1>2, <1>i, <2>0, <2>3, <3>1, <3>8, <3>9, <3>10, Zenon DEF WriteInv, SameWrite, SameOwned
  <2>13. LinearInv(t)'
    BY <2>0, <2>1, Zenon DEF LinearInv, SameWrite, SameRelease, SameOwned
  <2>14. TimeInv(t)'
    <3>1. authority.owner = t /\ (pc[t] = "claimed" \/ pc[t] \in Registered) => ~authority.sealed
      BY <2>1, Zenon DEF ResidentInv, Owning, Registered
    <3> QED
      BY <1>2, <1>6, <1>b, <2>0, <2>1, <2>4, <2>7, <3>1, Zenon DEF TimeInv, SameFence, SameRenewal,
         SameOwned
  <2>15. Distinct(u, t)' /\ Distinct(t, u)'
    <3>1. ~InFlight(u)' /\ InFlight(t)' = InFlight(t)
      BY <1>2, <1>3, <2>0, Zenon DEF InFlight, SameWrite, EpochInv, PreClaim, Recovering
    <3> QED
      BY <1>2, <2>0, <2>3, <3>1, Zenon DEF Distinct, SameWrite, SameOwned
  <2> QED
    BY <2>8, <2>9, <2>10, <2>11, <2>12, <2>13, <2>14, <2>15, Zenon DEF LocalInv
<1>7. \A s, t \in Session : s # t => Distinct(s, t)'
  <2> SUFFICES ASSUME NEW s \in Session, NEW t \in Session, s # t PROVE Distinct(s, t)'
    OBVIOUS
  <2>1. CASE s = u \/ t = u
    BY <1>6, <2>1, Zenon
  <2>2. CASE s # u /\ t # u
    BY <1>1, <2>2, SameNoNewEpoch, StaysDistinct, Zenon DEF Inv
  <2> QED
    BY <2>1, <2>2, Zenon
<1>k. KeepsVisible
  BY <1>b, <1>i, <1>j, Zenon DEF KeepsVisible, Recoverable
<1> QED
  BY <1>4, <1>5, <1>6, <1>7, <1>k, Zenon DEF Inv

=============================================================================
