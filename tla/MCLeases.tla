------------------------------ MODULE MCLeases ------------------------------
(* Three questions about leases on one small instance of Ownership, side by *)
(* side: writes of two sessions under clocks that differ, with few          *)
(* renewals; renewals that race releases, with clocks that agree and no     *)
(* writes; and a third session, which can make the hint of another stale,   *)
(* with releases but no renewals and no time passing. The clocks tell the   *)
(* questions apart: those of the two differ for the writes, and agree       *)
(* otherwise; the third's is behind theirs where it takes part.             *)
EXTENDS OwnershipInv, TLC

CONSTANT Third   \* the session that only takes part in the handoffs

Symmetry == Permutations(Session \ {Third})

Handoffs == skew[Third] = 0 /\ \A s \in Session \ {Third} : skew[s] = 1
Writes == skew[Third] = 0 /\ ~Handoffs
Releases == skew[Third] = 1

LeasesInit ==
    /\ Init
    /\ Writes => \E s \in Session : skew[s] = 1
    /\ Releases => \A s \in Session \ {Third} : skew[s] = 0

LeasesSpec == LeasesInit /\ [][Next]_vars

RenewalBegins(s) == rn[s] = "idle" /\ rn'[s] = "cas"

(* The steps that a question is about.                                      *)
Asked ==
    /\ ~Handoffs => pc'[Third] = "idle"
    /\ Handoffs => rn' = rn /\ now' = now
    /\ Writes => \A s \in Session : RenewalBegins(s) => authority.gen < 2
    /\ Releases => wr' = wr
=============================================================================
