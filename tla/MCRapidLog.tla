----------------------------- MODULE MCRapidLog -----------------------------
(* Small instances of RapidLog. *)
EXTENDS RapidLog, TLC

(* While the sweeper is at work, at most one recovery is.                   *)
Contenders == spc' # "idle" => \E r \in Recoverer : rpc'[r] = "start"

Symmetry == Permutations(Zone) \cup Permutations(Recoverer)
=============================================================================
