---------------------------- MODULE OwnershipInv ----------------------------
(***************************************************************************)
(* The inductive invariant behind the safety of Ownership, for hosts whose *)
(* drain completes.  It says who may still act under which epoch, what a   *)
(* session that is about to claim has recovered, that the resident state   *)
(* of an owner is the newest snapshot of its stream, and how the lease in  *)
(* the record bounds every fence window that depends on it.                *)
(***************************************************************************)
EXTENDS Ownership

PreClaim == {"idle", "assigned", "retry", "loaded", "recovered", "unrecovered"}
Recovering == {"recovered", "unrecovered"}
Owning == {"claimed", "unloaded", "active", "draining", "drained", "releasing", "releaseCas"}
Resident == {"claimed", "active", "draining", "drained"}
InFlight(s) == wr[s] \in {"sent", "landed"}

\* x is newer than every other member of S.
Top(S, x) == x \in S /\ \A y \in S \ {x} : Newer(x, y)

\* Within one snapshot a version is written once.
Linear(x) ==
    /\ \A a \in x.writes : a[2] <= x.version
    /\ \A a, b \in x.writes : a[2] = b[2] => a = b

\* The record and the store.
SharedInv ==
    /\ authority.gen = 0 => authority = NoRecord
    /\ authority.owner = NoSession => authority.gen = 0
    /\ authority.base.epoch <= authority.epoch
    /\ ~authority.sealed => authority.base.epoch < authority.epoch
    /\ ~authority.sealed => Top(Candidates(store, authority), Latest(authority))
    /\ Linear(authority.base)
    /\ \A x \in store : 0 < x.epoch /\ x.epoch <= authority.epoch /\ Linear(x)

\* The current epoch is the one of the owner in the record.
EpochInv(s) ==
    /\ pc[s] \in PreClaim => authority.owner # s
    /\ pc[s] \in PreClaim \cup {"claimed", "unloaded"} =>
         wr[s] = "idle" /\ rn[s] = "idle" /\ ~seal[s]
    /\ pc[s] \notin Registered => cut[s] \/ deadline[s] = 0
    /\ pc[s] \in Owning =>
         /\ 0 < own[s].epoch /\ own[s].epoch <= authority.epoch
         /\ own[s].epoch = authority.epoch <=> authority.owner = s
    /\ InFlight(s) =>
         /\ 0 < wsnap[s].epoch /\ wsnap[s].epoch <= authority.epoch
         /\ wsnap[s].epoch = authority.epoch <=> authority.owner = s
    /\ pc[s] \in Owning /\ InFlight(s) => wsnap[s].epoch = own[s].epoch

\* No two sessions can still act under one epoch.
Distinct(s, t) ==
    /\ pc[s] \in Owning /\ pc[t] \in Owning => own[s].epoch # own[t].epoch
    /\ pc[s] \in Owning /\ InFlight(t) => own[s].epoch # wsnap[t].epoch
    /\ InFlight(s) /\ pc[t] \in Owning => wsnap[s].epoch # own[t].epoch
    /\ InFlight(s) /\ InFlight(t) => wsnap[s].epoch # wsnap[t].epoch

\* A generation that still matches names the record that was read.
CasInv(s) ==
    /\ seen[s].gen <= authority.gen
    /\ pc[s] \in PreClaim \ {"idle"} /\ seen[s].gen = authority.gen => seen[s] = authority
    /\ rn[s] = "cas" => rgen[s] <= authority.gen
    /\ rn[s] = "cas" /\ rgen[s] = authority.gen => authority.owner = s
    /\ pc[s] = "releaseCas" => relgen[s] <= authority.gen
    /\ pc[s] = "releaseCas" /\ relgen[s] = authority.gen => authority.owner = s

\* What the session that can still win the claim has recovered.
RecoverInv(s) ==
    pc[s] \in Recovering =>
        /\ own[s].gen = seen[s].gen + 1 /\ own[s].epoch = seen[s].epoch + 1
        /\ own[s].owner = s /\ ~own[s].sealed
        /\ pc[s] = "recovered" => state[s] = own[s].base
        /\ seen[s].sealed => own[s].base = seen[s].base
        /\ ~seen[s].sealed =>
             /\ pc[s] = "recovered"
             /\ LogFences => seen[s].epoch \in fenced
             /\ ~LogFences => seen[s].expires <= now + skew[s]
        /\ ~seen[s].sealed /\ seen[s].gen = authority.gen =>
             /\ acked \subseteq own[s].base.writes
             /\ own[s].base.epoch <= authority.epoch
             /\ LogFences => Top(Candidates(store, authority), own[s].base)

\* The owner's resident state is the newest of its stream, and what it seals.
ResidentInv(s) ==
    pc[s] \in Owning =>
        /\ own[s].base.epoch < own[s].epoch
        /\ authority.owner = s => own[s].base = authority.base /\ ~authority.sealed
        /\ pc[s] \in Resident /\ wr[s] \in {"idle", "reloading", "sent"} =>
             Top(Candidates(store, own[s]), state[s])
        /\ wr[s] = "landed" => Top(Candidates(store, own[s]), wsnap[s])
        /\ pc[s] = "unloaded" => Top(Candidates(store, own[s]), own[s].base)
        /\ seal[s] => wr[s] \in {"idle", "reloading"} /\ Top(Candidates(store, own[s]), chk[s])
        /\ pc[s] = "active" => ~seal[s]
        /\ pc[s] = "draining" => seal[s]
        /\ wr[s] = "reloading" =>
             seen[s].epoch = own[s].epoch /\ seen[s].base = own[s].base /\ seen[s].owner = s

\* A put on its way extends the newest state, and cannot be acknowledged once its
\* epoch is over unless the next owner has recovered it.
WriteInv(s) ==
    /\ InFlight(s) =>
         /\ <<wsnap[s].epoch, wsnap[s].version>> \in wsnap[s].writes
         /\ wr[s] = "sent" =>
              \A x \in store : x.epoch = wsnap[s].epoch => x.version < wsnap[s].version
         /\ wsnap[s].epoch = authority.epoch =>
              /\ ~authority.sealed
              /\ wr[s] = "sent" => Latest(authority).writes \subseteq wsnap[s].writes
              /\ wr[s] = "landed" => Top(Candidates(store, authority), wsnap[s])
         /\ wsnap[s].epoch < authority.epoch /\ HasAuthority(s) =>
              /\ LogFences
              /\ wr[s] = "sent" => wsnap[s].epoch \in fenced
              /\ wr[s] = "landed" =>
                   <<wsnap[s].epoch, wsnap[s].version>> \in Recoverable(authority).writes
    /\ LogFences /\ pc[s] \in Owning /\ own[s].epoch < authority.epoch =>
         own[s].epoch \in fenced

LinearInv(s) ==
    /\ Linear(seen[s].base) /\ Linear(own[s].base) /\ Linear(state[s])
    /\ Linear(wsnap[s]) /\ Linear(chk[s])

\* Without log fencing: the stored lease outlasts, on any clock, every window that
\* the owner has confirmed or may still confirm; a superseded window is over.
TimeInv(s) ==
    ~LogFences =>
        /\ started[s] <= now
        /\ pc[s] \in Recovering =>
             /\ started[s] + Duration + skew[s] <= own[s].expires
             /\ own[s].expires <= now + skew[s] + Duration
        /\ pc[s] = "claimed" /\ authority.owner = s =>
             started[s] + Duration + skew[s] <= authority.expires
        /\ pc[s] = "claimed" /\ authority.owner # s => Window(started[s]) <= now
        /\ pc[s] \in Registered /\ ~cut[s] /\ authority.owner = s =>
             deadline[s] + Margin + skew[s] <= authority.expires
        /\ pc[s] \in Registered /\ ~cut[s] /\ authority.owner # s => deadline[s] <= now
        /\ rn[s] # "idle" => rexp[s] = rstart[s] + Duration + skew[s] /\ rstart[s] <= now
        /\ rn[s] = "cas" /\ rgen[s] = authority.gen => authority.expires <= rexp[s]
        /\ rn[s] = "reply" /\ pc[s] \in Registered /\ ~cut[s] /\ authority.owner = s =>
             rexp[s] <= authority.expires
        /\ authority.owner = s => authority.expires <= now + skew[s] + Duration

LocalInv(s) ==
    /\ EpochInv(s) /\ CasInv(s) /\ RecoverInv(s) /\ ResidentInv(s) /\ WriteInv(s)
    /\ LinearInv(s) /\ TimeInv(s)

\* The lease of a session that is giving its record back: a request that still matches
\* the generation finds a lease that has not been released, and attempts are only lost
\* to the one renewal in flight and to a new owner.
ReleaseInv(s) ==
    /\ pc[s] \in PreClaim => authority.owner # s
    /\ pc[s] \in PreClaim \cup {"claimed", "unloaded"} => wr[s] = "idle" /\ rn[s] = "idle"
    /\ pc[s] \in Recovering => own[s].owner = s /\ own[s].gen = seen[s].gen + 1
    /\ rn[s] = "cas" => rgen[s] <= authority.gen
    /\ rn[s] = "cas" /\ rgen[s] = authority.gen => authority.owner = s /\ authority.expires > 0
    /\ pc[s] \notin {"releasing", "releaseCas"} => tries[s] = 0
    /\ pc[s] = "releasing" =>
         /\ tries[s] <= 2
         /\ authority.owner = s => tries[s] <= 1
         /\ authority.owner = s /\ rn[s] = "cas" => tries[s] = 0
    /\ pc[s] = "releaseCas" =>
         /\ relgen[s] <= authority.gen /\ tries[s] <= 1
         /\ relgen[s] = authority.gen => authority.owner = s
         /\ relgen[s] = authority.gen /\ rn[s] = "cas" => tries[s] = 0
         /\ relgen[s] # authority.gen /\ authority.owner = s => rn[s] # "cas" /\ tries[s] = 0

Inv ==
    /\ TypeOK /\ SharedInv /\ AckedSurvives
    /\ \A s \in Session : LocalInv(s)
    /\ \A s, t \in Session : s # t => Distinct(s, t)
=============================================================================
