----------------------------- MODULE LogPromise -----------------------------
(***************************************************************************)
(* What a session's log promises to the ownership protocol: a recovery     *)
(* returns a prefix of the session's writes that holds every write         *)
(* acknowledged so far, and no write beyond it is acknowledged afterwards. *)
(* Any number of recoveries may run, and they all return the same prefix.  *)
(***************************************************************************)
EXTENDS Naturals

VARIABLES
    acked,      \* number of acknowledged writes; they are the first ones
    recovered   \* lengths returned by completed recoveries

Init == acked = 0 /\ recovered = {}

Acknowledge ==
    /\ \A n \in recovered : acked < n
    /\ acked' = acked + 1
    /\ UNCHANGED recovered

Recover ==
    /\ recovered' # {} /\ recovered \subseteq recovered'
    /\ \A m, n \in recovered' : m = n
    /\ \A n \in recovered' : acked <= n
    /\ UNCHANGED acked

Next == Acknowledge \/ Recover

Spec == Init /\ [][Next]_<<acked, recovered>>
=============================================================================
