-------------------------- MODULE ActorHostProofs ---------------------------
(***************************************************************************)
(* For any number of requests, request ids, hosts and transactions: a      *)
(* request reported as unavailable never ran, invocations overlap only     *)
(* where one has let the other start, an invocation runs on an instance    *)
(* whose database is the resident one, nothing is published after a drain, *)
(* a serial actor's retry does not commit again, and what a caller is told *)
(* to be completed is in the newest snapshot.                              *)
(***************************************************************************)
EXTENDS ActorHost, Integers, TLAPS

-----------------------------------------------------------------------------
(* The inductive invariant: what a request may have done at each stage,    *)
(* who keeps the next one from starting, what outlives a mailbox, and      *)
(* which completion the resident database carries.                         *)

State == {"new", "queued", "prepare", "execute", "killed", "complete", "done", "orphan",
          "answered"}
Busy == {"prepare", "execute", "killed", "complete", "done"}
Waiting == {"new", "queued", "prepare"}
Result == {"error", "unavailable", "completed", "failed", "unknown"}
Outcome == [res : Result, rec : {"keep", "evict", "reset", "stop"},
            code : {"none", "user", "lookup", "fatal"}]
Ids == Requests \cup {NoId}
Database ==
    {db \in [here : BOOLEAN, log : Seq(Writers), pub : Nat, last : Ids] : db.pub <= Len(db.log)}

TypeOK ==
    /\ rid \in [Attempt -> Ids]
    /\ st \in [Attempt -> State] /\ ans \in [Attempt -> Result \cup {"none"}]
    /\ out \in [Attempt -> Outcome] /\ granted \in [Attempt -> BOOLEAN]
    /\ seq \in [Attempt -> Nat] /\ view \in [Attempt -> Seq(Writers)]
    /\ mb \in {"run", "evicting", "stopped"} /\ draining \in BOOLEAN
    /\ pending \in Seq(Attempt) /\ blocked \in Writers
    /\ interleaved \in BOOLEAN /\ grant \in BOOLEAN
    /\ svc \in {"up", "down"} /\ auth \in BOOLEAN /\ cached \in Database
    /\ ready \subseteq Attempt
    /\ inst \in {"none", "live", "stale"} /\ lastseq \in Nat
    /\ durable \in [log : Seq(Writers), last : Ids]
    /\ ran \subseteq Attempt /\ drained \in BOOLEAN

(* A request that waits has not run, has let nobody start and is not        *)
(* answered; one answered as unavailable, or about to be, never ran.        *)
AttemptInv(a) ==
    /\ st[a] \in Waiting => a \notin ran /\ ~granted[a]
    /\ st[a] \notin {"answered", "orphan"} => ans[a] = "none"
    /\ st[a] = "done" /\ out[a].res = "unavailable" => a \notin ran
    /\ ans[a] = "unavailable" => a \notin ran

(* What is pending is queued, once.                                         *)
PendingInv ==
    /\ \A i \in 1..Len(pending) : st[pending[i]] = "queued"
    /\ \A i, j \in 1..Len(pending) : pending[i] = pending[j] => i = j

(* A request that runs blocks the next one until it has let it start.       *)
BlockInv ==
    /\ \A a \in Attempt : st[a] \in Busy /\ ~granted[a] => blocked = a
    /\ blocked # NoAttempt => st[blocked] \in Busy
    /\ grant /\ blocked # NoAttempt => granted[blocked]
    /\ mode # "interleaving" => \A a \in Attempt : ~granted[a]

(* A mailbox that has stopped runs nothing; completions outlive it only     *)
(* without a drain.                                                         *)
StopInv ==
    /\ mb # "run" => pending = <<>> /\ \A a \in Attempt : st[a] \notin Busy
    /\ mb = "stopped" => inst = "none"
    /\ \A a \in Attempt : st[a] = "orphan" => mb = "stopped"
    /\ drained => mb = "stopped" /\ \A a \in Attempt : ~Completing(a)

(* The completions of a serial actor come one at a time and without a       *)
(* number, those of an interleaving one are numbered.                       *)
CompletingInv ==
    /\ \A a \in ready : Completing(a)
    /\ mode # "interleaving" =>
         \A a, b \in Attempt : Completing(a) /\ Completing(b) => a = b
    /\ mode = "interleaving" => \A a \in Attempt : Completing(a) => seq[a] # 0

(* While the service is up, an instance whose database was dropped belongs  *)
(* to a serial actor whose request is about to have it evicted.             *)
StaleInv ==
    inst = "stale" /\ svc = "up" =>
        /\ mode # "interleaving" /\ blocked # NoAttempt
        /\ st[blocked] = "done" /\ out[blocked].rec = "evict"

(* The completion of the resident database is the newest one, and is not    *)
(* that of a method that runs.                                              *)
LastInv ==
    /\ auth /\ cached.here => cached.last = durable.last
    /\ mode # "interleaving" /\ auth =>
         \A a \in Attempt :
            st[a] \in {"execute", "complete", "orphan"} /\ rid[a] # NoId => durable.last # rid[a]

IInv ==
    /\ TypeOK /\ \A a \in Attempt : AttemptInv(a)
    /\ PendingInv /\ BlockInv /\ StopInv /\ CompletingInv /\ StaleInv /\ LastInv
    /\ InstanceMatchesDatabase

-----------------------------------------------------------------------------
(* What is used of sequences.                                               *)
LEMMA EmptySeq ==
    ASSUME NEW S
    PROVE  <<>> \in Seq(S) /\ Len(<<>>) = 0
  OBVIOUS

LEMMA AppendProperties ==
    ASSUME NEW S, NEW q \in Seq(S), NEW e \in S
    PROVE  /\ Append(q, e) \in Seq(S) /\ Len(Append(q, e)) = Len(q) + 1
           /\ \A i \in 1..Len(q) : Append(q, e)[i] = q[i]
           /\ Append(q, e)[Len(q) + 1] = e
  OBVIOUS

LEMMA SubSeqProperties ==
    ASSUME NEW S, NEW q, NEW m \in Int, NEW k \in Int, \A i \in m..k : q[i] \in S
    PROVE  /\ SubSeq(q, m, k) \in Seq(S)
           /\ Len(SubSeq(q, m, k)) = IF m <= k THEN k - m + 1 ELSE 0
           /\ \A i \in 1..k - m + 1 : SubSeq(q, m, k)[i] = q[m + i - 1]
  OBVIOUS

(* What the mailbox may find at the top of its loop: p is pending, s and n  *)
(* are the requests and their answers, b blocks.                            *)
Admissible(p, s, n, b) ==
    /\ p \in Seq(Attempt) /\ s \in [Attempt -> State] /\ b \in Writers
    /\ n \in [Attempt -> Result \cup {"none"}]
    /\ \A i \in 1..Len(p) : s[p[i]] = "queued"
    /\ \A i, j \in 1..Len(p) : p[i] = p[j] => i = j
    /\ \A a \in Attempt :
         /\ s[a] \in Waiting => a \notin ran /\ ~granted[a]
         /\ s[a] # "answered" => n[a] = "none"
         /\ s[a] = "done" /\ out[a].res = "unavailable" => a \notin ran
         /\ n[a] = "unavailable" => a \notin ran
         /\ s[a] \in Busy /\ ~granted[a] => b = a
         /\ s[a] # "orphan" /\ (s[a] = "complete" <=> st[a] = "complete")
    /\ b # NoAttempt => s[b] \in Busy
    /\ grant /\ b # NoAttempt => granted[b]

(* What the top of the loop does with it: it answers the requests in over   *)
(* and starts those in new.                                                 *)
Settled(s, n, b, over, new) ==
    /\ \A a \in over \cup new : s[a] = "queued"
    /\ over \cap new = {}
    /\ st' = [a \in Attempt |-> IF a \in over THEN "answered"
                                ELSE IF a \in new THEN "prepare" ELSE s[a]]
    /\ ans' = [a \in Attempt |-> IF a \in over THEN "unavailable" ELSE n[a]]
    /\ Forget(st')
    /\ pending' \in Seq(Attempt)
    /\ \A i \in 1..Len(pending') : st'[pending'[i]] = "queued"
    /\ \A i, j \in 1..Len(pending') : pending'[i] = pending'[j] => i = j
    /\ \/ new = {} /\ blocked' = b
       \/ b = NoAttempt /\ blocked' \in Attempt /\ new = {blocked'}
    /\ grant' \in BOOLEAN /\ (grant' => grant /\ blocked' = b /\ b # NoAttempt)
    /\ mb' \in {"run", "evicting"}
    /\ mb' = "evicting" => pending' = <<>> /\ Running(st') = {}

(* start_ready and the end of a drain.                                      *)
LEMMA SettleSettles ==
    ASSUME NEW p, NEW s, NEW n, NEW b, NEW d \in BOOLEAN, grant \in BOOLEAN,
           Admissible(p, s, n, b), Settle(p, s, n, b, d)
    PROVE  draining' = d /\ \E over, new \in SUBSET Attempt : Settled(s, n, b, over, new)
<1>0. p \in Seq(Attempt) /\ Len(p) \in Nat /\ \A i \in 1..Len(p) : p[i] \in Attempt
  <2>1. p \in Seq(Attempt)
    BY Zenon DEF Admissible
  <2> QED
    BY <2>1
<1>1. PICK taken \in 0..Len(p) :
        LET skip  == IF b # NoAttempt THEN 0 ELSE IF taken = 0 THEN Len(p) ELSE taken - 1
            over  == {p[i] : i \in 1..skip}
            start == IF taken = 0 THEN <<>> ELSE <<p[taken]>>
            rest  == SubSeq(p, skip + Len(start) + 1, Len(p))
        IN  /\ taken # 0 => b = NoAttempt
            /\ st' = [a \in Attempt |-> IF a \in over THEN "answered"
                                        ELSE IF start = <<a>> THEN "prepare" ELSE s[a]]
            /\ ans' = [a \in Attempt |-> IF a \in over THEN "unavailable" ELSE n[a]]
            /\ Forget(st') /\ pending' = rest
            /\ blocked' = (IF taken = 0 THEN b ELSE p[taken])
            /\ grant' = (grant /\ taken = 0 /\ b # NoAttempt)
            /\ draining' = d
            /\ mb' = IF d /\ Running(st') = {} /\ rest = <<>> THEN "evicting" ELSE "run"
  BY Zenon DEF Settle, Takes
<1> DEFINE skip  == IF b # NoAttempt THEN 0 ELSE IF taken = 0 THEN Len(p) ELSE taken - 1
           over  == {p[i] : i \in 1..skip}
           start == IF taken = 0 THEN <<>> ELSE <<p[taken]>>
           new   == IF taken = 0 THEN {} ELSE {p[taken]}
           rest  == SubSeq(p, skip + Len(start) + 1, Len(p))
           from  == skip + (IF taken = 0 THEN 0 ELSE 1)
<1>2. /\ taken # 0 => b = NoAttempt
      /\ st' = [a \in Attempt |-> IF a \in over THEN "answered"
                                  ELSE IF start = <<a>> THEN "prepare" ELSE s[a]]
      /\ ans' = [a \in Attempt |-> IF a \in over THEN "unavailable" ELSE n[a]]
      /\ Forget(st') /\ pending' = rest
      /\ blocked' = (IF taken = 0 THEN b ELSE p[taken])
      /\ grant' = (grant /\ taken = 0 /\ b # NoAttempt)
      /\ draining' = d
      /\ mb' = IF d /\ Running(st') = {} /\ rest = <<>> THEN "evicting" ELSE "run"
  BY <1>1, Zenon
<1>3. /\ taken \in 0..Len(p) /\ skip \in 0..Len(p) /\ from \in 0..Len(p)
      /\ Len(start) = (IF taken = 0 THEN 0 ELSE 1) /\ (taken # 0 => taken = from /\ skip = taken - 1)
      /\ (taken # 0 => b = NoAttempt) /\ skip <= from
  <2> DEFINE k == Len(p)
  <2>1. taken \in 0..k /\ k \in Nat
    BY <1>0, Zenon
  <2> HIDE DEF k
  <2>2. taken \in 0..k
    BY <2>1
  <2>3. Len(start) = IF taken = 0 THEN 0 ELSE 1
    OBVIOUS
  <2>4. skip = IF b # NoAttempt THEN 0 ELSE IF taken = 0 THEN k ELSE taken - 1
    BY Zenon DEF k
  <2>5. taken # 0 => b = NoAttempt
    BY <1>2, Zenon
  <2>6. from = skip + (IF taken = 0 THEN 0 ELSE 1)
    OBVIOUS
  <2> HIDE DEF skip, from, start
  <2>7. CASE b # NoAttempt
    BY <2>1, <2>2, <2>3, <2>4, <2>5, <2>6, <2>7 DEF k
  <2>8. CASE b = NoAttempt /\ taken = 0
    BY <2>1, <2>2, <2>3, <2>4, <2>5, <2>6, <2>8 DEF k
  <2>9. CASE b = NoAttempt /\ taken # 0
    BY <2>1, <2>2, <2>3, <2>4, <2>5, <2>6, <2>9 DEF k
  <2> QED
    BY <2>7, <2>8, <2>9, Zenon
<1>4. \A a \in Attempt : start = <<a>> <=> a \in new
  OBVIOUS
<1>5. rest = SubSeq(p, from + 1, Len(p))
  BY <1>3, Zenon
<1>a. over = {p[i] : i \in 1..skip} /\ new = IF taken = 0 THEN {} ELSE {p[taken]}
  OBVIOUS
<1> HIDE DEF skip, over, start, new, rest, from
<1>6. /\ rest \in Seq(Attempt) /\ Len(rest) = Len(p) - from
      /\ \A i \in 1..Len(rest) : rest[i] = p[from + i] /\ from + i \in 1..Len(p)
  <2>1. \A i \in from + 1..Len(p) : p[i] \in Attempt
    BY <1>0, <1>3
  <2> DEFINE m == from + 1
             k == Len(p)
  <2>2. m \in Int /\ k \in Int /\ \A i \in m..k : p[i] \in Attempt
    BY <1>0, <1>3, <2>1
  <2> HIDE DEF m, k
  <2>3. /\ SubSeq(p, m, k) \in Seq(Attempt)
        /\ Len(SubSeq(p, m, k)) = IF m <= k THEN k - m + 1 ELSE 0
        /\ \A i \in 1..k - m + 1 : SubSeq(p, m, k)[i] = p[m + i - 1]
    BY <2>2, SubSeqProperties
  <2> QED
    BY <1>0, <1>3, <1>5, <2>3 DEF m, k
<1>7. over \subseteq Attempt /\ new \subseteq Attempt
  BY <1>0, <1>3, <1>a
<1>8. \A a \in over \cup new : s[a] = "queued"
  <2>1. (\A i \in 1..skip : i \in 1..Len(p)) /\ (taken # 0 => taken \in 1..Len(p))
    BY <1>0, <1>3
  <2>2. \A i \in 1..Len(p) : s[p[i]] = "queued"
    BY Zenon DEF Admissible
  <2> QED
    BY <1>a, <2>1, <2>2, Zenon
<1>9. over \cap new = {}
  BY <1>0, <1>3, <1>a DEF Admissible
<1>b. \A i, j \in 1..Len(p) : p[i] = p[j] => i = j
  BY Zenon DEF Admissible
<1>10. ASSUME NEW i \in 1..Len(rest)
       PROVE  rest[i] \in Attempt /\ rest[i] \notin over /\ rest[i] \notin new
              /\ s[rest[i]] = "queued"
  <2> DEFINE k == from + i
  <2>1. rest[i] = p[k] /\ k \in 1..Len(p)
    BY <1>6, Zenon
  <2>2. \A j \in 1..skip : j \in 1..Len(p) /\ j # k
    BY <1>0, <1>3, <1>6
  <2>3. taken # 0 => taken \in 1..Len(p) /\ taken # k
    BY <1>0, <1>3, <1>6
  <2> HIDE DEF k
  <2>4. p[k] \notin over
    BY <1>a, <1>b, <2>1, <2>2, Zenon
  <2>5. p[k] \notin new
    BY <1>a, <1>b, <2>1, <2>3, Zenon
  <2> QED
    BY <1>0, <2>1, <2>4, <2>5 DEF Admissible
<1>11. ASSUME NEW i \in 1..Len(rest), NEW j \in 1..Len(rest), rest[i] = rest[j] PROVE i = j
  <2>1. from + i = from + j
    BY <1>b, <1>6, <1>11, Zenon
  <2> QED
    BY <1>0, <1>3, <1>6, <2>1
<1>12. st' = [a \in Attempt |-> IF a \in over THEN "answered"
                                ELSE IF a \in new THEN "prepare" ELSE s[a]]
  BY <1>2, <1>4, Zenon
<1>13. \/ new = {} /\ blocked' = b
       \/ b = NoAttempt /\ blocked' \in Attempt /\ new = {blocked'}
  BY <1>0, <1>2, <1>3, <1>a
<1>14. grant' \in BOOLEAN /\ (grant' => grant /\ blocked' = b /\ b # NoAttempt)
  BY <1>2, Zenon
<1>15. \A i \in 1..Len(rest) : st'[rest[i]] = "queued"
  BY <1>10, <1>12, Zenon
<1>16. Settled(s, n, b, over, new)
  BY <1>2, <1>6, <1>8, <1>9, <1>11, <1>12, <1>13, <1>14, <1>15, Zenon DEF Settled
<1> QED
  BY <1>2, <1>7, <1>16, Zenon

(* The parts of the invariant that speak of the mailbox, after a step.      *)
MailboxTypeOK ==
    /\ st \in [Attempt -> State] /\ ans \in [Attempt -> Result \cup {"none"}]
    /\ out \in [Attempt -> Outcome] /\ granted \in [Attempt -> BOOLEAN]
    /\ seq \in [Attempt -> Nat]
    /\ mb \in {"run", "evicting", "stopped"} /\ pending \in Seq(Attempt)
    /\ blocked \in Writers /\ grant \in BOOLEAN

MailboxInv ==
    /\ MailboxTypeOK /\ \A a \in Attempt : AttemptInv(a)
    /\ PendingInv /\ BlockInv /\ StopInv /\ CompletingInv

(* What is forgotten of answered requests.                                  *)
LEMMA Forgotten ==
    ASSUME TypeOK, NEW s \in [Attempt -> State], Forget(s)
    PROVE  /\ out' \in [Attempt -> Outcome] /\ granted' \in [Attempt -> BOOLEAN]
           /\ seq' \in [Attempt -> Nat]
           /\ \A a \in Attempt :
                /\ s[a] # "answered" =>
                     out'[a] = out[a] /\ granted'[a] = granted[a] /\ seq'[a] = seq[a]
                /\ granted'[a] => granted[a]
<1>1. NoCompletion \in Outcome
  BY Zenon DEF NoCompletion, Completion, Outcome, Result
<1> QED
  BY <1>1, Zenon DEF Forget, TypeOK

(* The top of the loop keeps the mailbox consistent.                        *)
LEMMA SettleKeeps ==
    ASSUME IInv, mb = "run", NEW p, NEW s, NEW n, NEW b, Admissible(p, s, n, b),
           NEW over \in SUBSET Attempt, NEW new \in SUBSET Attempt, Settled(s, n, b, over, new),
           UNCHANGED <<fixed, ran, drained, ready>>
    PROVE  MailboxInv'
<1>1. TypeOK /\ StopInv /\ BlockInv /\ CompletingInv /\ ~drained
  BY Zenon DEF IInv, StopInv
<1>2. /\ s \in [Attempt -> State] /\ b \in Writers /\ n \in [Attempt -> Result \cup {"none"}]
      /\ \A a \in Attempt : s[a] # "orphan" /\ (s[a] = "complete" <=> st[a] = "complete")
      /\ b # NoAttempt => s[b] \in Busy
  BY Zenon DEF Admissible
<1>3. /\ \A a \in over \cup new : s[a] = "queued"
      /\ over \cap new = {}
      /\ st' = [a \in Attempt |-> IF a \in over THEN "answered"
                                  ELSE IF a \in new THEN "prepare" ELSE s[a]]
      /\ ans' = [a \in Attempt |-> IF a \in over THEN "unavailable" ELSE n[a]]
      /\ Forget(st')
      /\ \/ new = {} /\ blocked' = b
         \/ b = NoAttempt /\ blocked' \in Attempt /\ new = {blocked'}
      /\ grant' \in BOOLEAN /\ (grant' => grant /\ blocked' = b /\ b # NoAttempt)
  BY Zenon DEF Settled
<1>4. st' \in [Attempt -> State] /\ ans' \in [Attempt -> Result \cup {"none"}]
  BY <1>2, <1>3, Zenon DEF State, Result
<1>5. /\ out' \in [Attempt -> Outcome] /\ granted' \in [Attempt -> BOOLEAN]
      /\ seq' \in [Attempt -> Nat]
      /\ \A a \in Attempt :
           /\ st'[a] # "answered" =>
                out'[a] = out[a] /\ granted'[a] = granted[a] /\ seq'[a] = seq[a]
           /\ granted'[a] => granted[a]
  BY <1>1, <1>3, <1>4, Forgotten, Zenon
<1>6. MailboxTypeOK'
  BY <1>1, <1>2, <1>3, <1>4, <1>5, ZenonT(60) DEF MailboxTypeOK, Settled, Writers
<1>7. ASSUME NEW a \in Attempt PROVE AttemptInv(a)'
  <2>1. /\ s[a] \in Waiting => a \notin ran /\ ~granted[a]
        /\ s[a] # "answered" => n[a] = "none"
        /\ s[a] = "done" /\ out[a].res = "unavailable" => a \notin ran
        /\ n[a] = "unavailable" => a \notin ran
    BY Zenon DEF Admissible
  <2>2. CASE a \in over
    BY <1>3, <2>1, <2>2, Zenon DEF AttemptInv, Waiting
  <2>3. CASE a \in new
    BY <1>3, <1>5, <2>1, <2>3, Zenon DEF AttemptInv, Waiting
  <2>4. CASE a \notin over /\ a \notin new
    BY <1>2, <1>3, <1>5, <2>1, <2>4, Zenon DEF AttemptInv, Waiting
  <2> QED
    BY <2>2, <2>3, <2>4, Zenon
<1>8. PendingInv'
  BY Zenon DEF PendingInv, Settled
<1>9. BlockInv'
  <2>1. ASSUME NEW a \in Attempt, st'[a] \in Busy, ~granted'[a] PROVE blocked' = a
    <3>1. CASE a \in new
      BY <1>3, <3>1
    <3>2. CASE a \notin new
      <4>1. s[a] \in Busy /\ ~granted[a]
        BY <1>3, <1>5, <2>1, <3>2, Zenon DEF Busy
      <4>2. b = a
        BY <4>1, Zenon DEF Admissible
      <4> QED
        BY <1>3, <4>2, NoAttemptAssumption, Zenon
    <3> QED
      BY <3>1, <3>2, Zenon
  <2>2. blocked' # NoAttempt => st'[blocked'] \in Busy
    <3>1. CASE new = {} /\ blocked' = b
      BY <1>2, <1>3, <3>1, Zenon DEF Busy, Writers
    <3>2. CASE new = {blocked'}
      BY <1>3, <3>2, Zenon DEF Busy
    <3> QED
      BY <1>3, <3>1, <3>2, Zenon
  <2>3. grant' /\ blocked' # NoAttempt => granted'[blocked']
    <3>1. grant' => b \in Attempt /\ blocked' = b /\ granted[b] /\ st'[b] \in Busy
      BY <1>2, <1>3, <2>2, Zenon DEF Admissible, Writers
    <3> QED
      BY <1>5, <3>1, Zenon DEF Busy
  <2>4. mode' # "interleaving" => \A a \in Attempt : ~granted'[a]
    BY <1>1, <1>5, Zenon DEF BlockInv, fixed
  <2> QED
    BY <2>1, <2>2, <2>3, <2>4, Zenon DEF BlockInv
<1>10. StopInv'
  <2>1. mb' \in {"run", "evicting"} /\ (mb' = "evicting" => pending' = <<>> /\ Running(st') = {})
    BY Zenon DEF Settled
  <2>2. \A a \in Attempt : st'[a] \in Busy => a \in Running(st')
    BY Zenon DEF Running, Busy
  <2>3. \A a \in Attempt : st'[a] # "orphan"
    BY <1>2, <1>3, Zenon
  <2> QED
    BY <1>1, <2>1, <2>2, <2>3, Zenon DEF StopInv
<1>11. CompletingInv'
  <2>1. \A a \in Attempt : st'[a] = "complete" <=> st[a] = "complete"
    BY <1>2, <1>3, Zenon
  <2>2. \A a \in Attempt : st'[a] # "orphan" /\ st[a] # "orphan"
    BY <1>1, <1>2, <1>3, Zenon DEF StopInv
  <2> QED
    BY <1>1, <1>5, <2>1, <2>2, Zenon DEF CompletingInv, Completing, TypeOK, fixed
<1> QED
  BY <1>6, <1>7, <1>8, <1>9, <1>10, <1>11, Zenon DEF MailboxInv

(* So does its end.                                                         *)
LEMMA HaltKeeps ==
    ASSUME IInv, mb = "run", NEW p, NEW s, NEW n, NEW b, Admissible(p, s, n, b),
           Halt(s, n), inst' = "none", UNCHANGED <<fixed, ran, drained, ready>>
    PROVE  MailboxInv'
<1>1. TypeOK /\ StopInv /\ BlockInv /\ CompletingInv /\ ~drained
  BY Zenon DEF IInv, StopInv
<1>2. /\ s \in [Attempt -> State] /\ n \in [Attempt -> Result \cup {"none"}]
      /\ \A a \in Attempt : s[a] # "orphan" /\ (s[a] = "complete" <=> st[a] = "complete")
  BY Zenon DEF Admissible
<1>3. /\ mb' = "stopped" /\ pending' = <<>> /\ blocked' = NoAttempt /\ grant' = FALSE
      /\ st' = [a \in Attempt |-> IF s[a] = "complete" THEN "orphan"
                                  ELSE IF s[a] = "new" THEN "new" ELSE "answered"]
      /\ ans' = [a \in Attempt |-> IF s[a] = "queued" THEN "unavailable"
                                   ELSE IF a \in Running(s) THEN "unknown" ELSE n[a]]
      /\ Forget(st')
  BY Zenon DEF Halt, Dropped
<1>4. st' \in [Attempt -> State] /\ ans' \in [Attempt -> Result \cup {"none"}]
  BY <1>2, <1>3, Zenon DEF State, Result
<1>5. /\ out' \in [Attempt -> Outcome] /\ granted' \in [Attempt -> BOOLEAN]
      /\ seq' \in [Attempt -> Nat]
      /\ \A a \in Attempt :
           /\ st'[a] # "answered" =>
                out'[a] = out[a] /\ granted'[a] = granted[a] /\ seq'[a] = seq[a]
           /\ granted'[a] => granted[a]
  BY <1>1, <1>3, <1>4, Forgotten, Zenon
<1>6. MailboxTypeOK'
  BY <1>1, <1>3, <1>4, <1>5, EmptySeq, Zenon DEF MailboxTypeOK, Writers
<1>7. ASSUME NEW a \in Attempt PROVE AttemptInv(a)'
  <2>1. CASE s[a] = "new"
    BY <1>2, <1>3, <1>5, <2>1, Zenon DEF AttemptInv, Admissible, Waiting, Running
  <2>2. CASE s[a] # "new"
    BY <1>2, <1>3, <1>5, <2>2, Zenon DEF AttemptInv, Admissible, Waiting, Running, State
  <2> QED
    BY <2>1, <2>2, Zenon
<1>8. PendingInv'
  BY <1>3 DEF PendingInv
<1>9. BlockInv'
  BY <1>1, <1>3, <1>5, Zenon DEF BlockInv, Busy, fixed
<1>10. StopInv'
  BY <1>1, <1>3, Zenon DEF StopInv, Busy
<1>11. CompletingInv'
  <2>1. \A a \in Attempt : Completing(a)' <=> Completing(a)
    BY <1>1, <1>2, <1>3, Zenon DEF Completing, StopInv
  <2> QED
    BY <1>1, <1>3, <1>5, <2>1, ZenonT(60) DEF CompletingInv, Completing, TypeOK, fixed
<1> QED
  BY <1>6, <1>7, <1>8, <1>9, <1>10, <1>11, Zenon DEF MailboxInv

-----------------------------------------------------------------------------
(* Where the loop is entered again, its state is admissible: as it is...    *)
LEMMA AdmitsAsIs ==
    ASSUME IInv, mb = "run"
    PROVE  Admissible(pending, st, ans, blocked)
<1>1. \A a \in Attempt : st[a] # "orphan"
  BY Zenon DEF IInv, StopInv
<1> QED
  BY <1>1, Zenon DEF IInv, TypeOK, Admissible, AttemptInv, PendingInv, BlockInv

(* ...with a new request at its end...                                      *)
LEMMA AdmitsSubmitted ==
    ASSUME IInv, mb = "run", NEW a \in Attempt, st[a] = "new"
    PROVE  Admissible(Append(pending, a), [st EXCEPT ![a] = "queued"], ans, blocked)
<1> DEFINE p == Append(pending, a)
           s == [st EXCEPT ![a] = "queued"]
<1>1. TypeOK /\ Admissible(pending, st, ans, blocked)
  BY AdmitsAsIs, Zenon DEF IInv
<1>2. /\ p \in Seq(Attempt) /\ Len(p) = Len(pending) + 1 /\ Len(pending) \in Nat
      /\ \A i \in 1..Len(pending) : p[i] = pending[i] /\ pending[i] \in Attempt
      /\ p[Len(pending) + 1] = a
  BY <1>1, AppendProperties DEF TypeOK
<1>3. s \in [Attempt -> State] /\ s[a] = "queued" /\ \A b \in Attempt \ {a} : s[b] = st[b]
  BY <1>1, Zenon DEF TypeOK, State
<1> HIDE DEF p, s
<1>4. \A i \in 1..Len(p) : i \in 1..Len(pending) \/ i = Len(pending) + 1
  BY <1>2
<1>5. \A i \in 1..Len(pending) : pending[i] # a /\ st[pending[i]] = "queued"
  BY <1>1, <1>2, Zenon DEF Admissible
<1>6. \A i \in 1..Len(p) : s[p[i]] = "queued"
  BY <1>2, <1>3, <1>4, <1>5
<1>7. \A i, j \in 1..Len(p) : p[i] = p[j] => i = j
  BY <1>1, <1>2, <1>4, <1>5 DEF Admissible
<1>8. \A b \in Attempt :
        /\ s[b] \in Waiting => b \notin ran /\ ~granted[b]
        /\ s[b] # "answered" => ans[b] = "none"
        /\ s[b] = "done" /\ out[b].res = "unavailable" => b \notin ran
        /\ ans[b] = "unavailable" => b \notin ran
        /\ s[b] \in Busy /\ ~granted[b] => blocked = b
        /\ s[b] # "orphan" /\ (s[b] = "complete" <=> st[b] = "complete")
  BY <1>1, <1>3, ZenonT(60) DEF Admissible, Waiting, Busy
<1>9. blocked # NoAttempt => s[blocked] \in Busy
  BY <1>1, <1>3, Zenon DEF Admissible, Busy, Writers
<1>10. Admissible(p, s, ans, blocked)
  BY <1>1, <1>2, <1>3, <1>6, <1>7, <1>8, <1>9, Zenon DEF Admissible
<1> QED
  BY <1>10, Zenon DEF p, s

(* ...or with a request answered, and its actor's worker ended or not.      *)
LEMMA AdmitsAnswered ==
    ASSUME IInv, mb = "run", NEW a \in Attempt, st[a] = "done", NEW r \in Result,
           r = "unavailable" => out[a].res = "unavailable", NEW s,
           s \in {[st EXCEPT ![a] = "answered"], Evicted([st EXCEPT ![a] = "answered"])}
    PROVE  Admissible(pending, s, [ans EXCEPT ![a] = r],
                      IF blocked = a THEN NoAttempt ELSE blocked)
<1> DEFINE n == [ans EXCEPT ![a] = r]
           b == IF blocked = a THEN NoAttempt ELSE blocked
<1>1. TypeOK /\ Admissible(pending, st, ans, blocked) /\ AttemptInv(a)
  BY AdmitsAsIs, Zenon DEF IInv
<1>2. /\ s \in [Attempt -> State] /\ s[a] = "answered"
      /\ \A c \in Attempt \ {a} : s[c] = st[c] \/ (st[c] = "execute" /\ s[c] = "killed")
  <2> DEFINE d == [st EXCEPT ![a] = "answered"]
  <2>1. /\ d \in [Attempt -> State] /\ d[a] = "answered"
        /\ \A c \in Attempt \ {a} : d[c] = st[c]
    BY <1>1, Zenon DEF TypeOK, State
  <2>2. s = d \/ s = [c \in Attempt |-> IF d[c] = "execute" THEN "killed" ELSE d[c]]
    BY Zenon DEF Evicted
  <2> HIDE DEF d
  <2>3. \A c \in Attempt : s[c] = d[c] \/ (d[c] = "execute" /\ s[c] = "killed")
    BY <2>2, Zenon
  <2>4. s \in [Attempt -> State]
    BY <2>1, <2>2, Zenon DEF State
  <2> QED
    BY <2>1, <2>3, <2>4, Zenon
<1>3. n \in [Attempt -> Result \cup {"none"}] /\ n[a] = r /\ \A c \in Attempt \ {a} : n[c] = ans[c]
  BY <1>1, Zenon DEF TypeOK
<1>4. b \in Writers /\ (b # NoAttempt => b = blocked /\ b # a /\ b \in Attempt)
  BY <1>1, Zenon DEF TypeOK, Writers
<1>5. \A c \in Attempt \ {a} : st[c] \in Busy /\ ~granted[c] => b = c
  BY <1>1, Zenon DEF Admissible
<1> HIDE DEF n, b
<1>6. \A i \in 1..Len(pending) : pending[i] \in Attempt /\ st[pending[i]] = "queued"
  BY <1>1 DEF Admissible
<1>7. \A i \in 1..Len(pending) : s[pending[i]] = "queued"
  BY <1>2, <1>6, Zenon
<1>8. ASSUME NEW c \in Attempt
      PROVE  /\ s[c] \in Waiting => c \notin ran /\ ~granted[c]
             /\ s[c] # "answered" => n[c] = "none"
             /\ s[c] = "done" /\ out[c].res = "unavailable" => c \notin ran
             /\ n[c] = "unavailable" => c \notin ran
             /\ s[c] \in Busy /\ ~granted[c] => b = c
             /\ s[c] # "orphan" /\ (s[c] = "complete" <=> st[c] = "complete")
  <2>1. CASE c = a
    BY <1>1, <1>2, <1>3, <2>1, Zenon DEF AttemptInv, Waiting, Busy
  <2>2. CASE c # a
    BY <1>1, <1>2, <1>3, <1>5, <2>2 DEF Admissible, Waiting, Busy
  <2> QED
    BY <2>1, <2>2, Zenon
<1>9. b # NoAttempt => s[b] \in Busy
  BY <1>1, <1>2, <1>4 DEF Admissible, Busy
<1>10. grant /\ b # NoAttempt => granted[b]
  BY <1>1, <1>4, Zenon DEF Admissible
<1>11. Admissible(pending, s, n, b)
  BY <1>1, <1>2, <1>3, <1>4, <1>7, <1>8, <1>9, <1>10, Zenon DEF Admissible
<1> QED
  BY <1>11, Zenon DEF n, b

(* The parts of the invariant whose variables a step leaves alone.          *)
LEMMA Frame ==
    ASSUME IInv, UNCHANGED fixed
    PROVE  /\ UNCHANGED <<st, ans, out, granted, ran>> => \A a \in Attempt : AttemptInv(a)'
           /\ UNCHANGED <<st, pending>> => PendingInv'
           /\ UNCHANGED <<st, granted, blocked, grant>> => BlockInv'
           /\ UNCHANGED <<st, mb, pending, inst, drained>> => StopInv'
           /\ UNCHANGED <<st, ready, seq>> => CompletingInv'
           /\ UNCHANGED <<st, out, blocked, inst, svc>> => StaleInv'
           /\ UNCHANGED <<st, auth, cached, durable>> => LastInv'
           /\ UNCHANGED <<st, svc, cached, inst>> => InstanceMatchesDatabase'
<1> USE DEF fixed
<1>1. UNCHANGED <<st, ans, out, granted, ran>> => \A a \in Attempt : AttemptInv(a)'
  BY Zenon DEF IInv, AttemptInv
<1>2. UNCHANGED <<st, pending>> => PendingInv'
  BY Zenon DEF IInv, PendingInv
<1>3. UNCHANGED <<st, granted, blocked, grant>> => BlockInv'
  BY DEF IInv, BlockInv
<1>4. UNCHANGED <<st, mb, pending, inst, drained>> => StopInv'
  BY DEF IInv, StopInv, Completing
<1>5. UNCHANGED <<st, ready, seq>> => CompletingInv'
  BY Zenon DEF IInv, CompletingInv, Completing
<1>6. UNCHANGED <<st, out, blocked, inst, svc>> => StaleInv'
  BY Zenon DEF IInv, StaleInv
<1>7. UNCHANGED <<st, auth, cached, durable>> => LastInv'
  BY DEF IInv, LastInv
<1>8. UNCHANGED <<st, svc, cached, inst>> => InstanceMatchesDatabase'
  BY Zenon DEF IInv, InstanceMatchesDatabase
<1> QED
  BY <1>1, <1>2, <1>3, <1>4, <1>5, <1>6, <1>7, <1>8, Zenon

-----------------------------------------------------------------------------
(* The types that are not the mailbox's.                                    *)
ServiceTypeOK ==
    /\ rid \in [Attempt -> Ids] /\ view \in [Attempt -> Seq(Writers)]
    /\ draining \in BOOLEAN /\ interleaved \in BOOLEAN
    /\ svc \in {"up", "down"} /\ auth \in BOOLEAN /\ cached \in Database
    /\ ready \subseteq Attempt
    /\ inst \in {"none", "live", "stale"} /\ lastseq \in Nat
    /\ durable \in [log : Seq(Writers), last : Ids]
    /\ ran \subseteq Attempt /\ drained \in BOOLEAN

(* The invariant, put together from its parts after a step.                 *)
LEMMA Assembled ==
    ASSUME MailboxInv', ServiceTypeOK', StaleInv', LastInv', InstanceMatchesDatabase'
    PROVE  IInv'
BY Zenon DEF MailboxInv, MailboxTypeOK, ServiceTypeOK, TypeOK, IInv

(* A mailbox that goes on without a new database or instance.               *)
LEMMA GoesOn ==
    ASSUME IInv, NEW s, NEW n, NEW b, NEW over, NEW new, Settled(s, n, b, over, new),
           \A a \in Attempt : s[a] \in {"execute", "complete", "orphan"} => st[a] = s[a],
           UNCHANGED <<fixed, svc, auth, cached, inst, durable>>
    PROVE  LastInv' /\ InstanceMatchesDatabase'
<1>1. ASSUME NEW a \in Attempt, st'[a] \in {"execute", "complete", "orphan"} PROVE st[a] = st'[a]
  BY <1>1, Zenon DEF Settled
<1>2. LastInv'
  BY <1>1, Zenon DEF IInv, LastInv, fixed
<1>3. InstanceMatchesDatabase'
  BY <1>1, Zenon DEF IInv, InstanceMatchesDatabase
<1> QED
  BY <1>2, <1>3, Zenon

(* submit.                                                                  *)
LEMMA SubmitKeeps == ASSUME IInv, NEW a \in Attempt, Submit(a) PROVE IInv'
<1> DEFINE s == [st EXCEPT ![a] = "queued"]
<1>1. /\ TypeOK /\ mb = "run" /\ st[a] = "new"
      /\ Settle(Append(pending, a), s, ans, blocked, draining)
      /\ UNCHANGED <<fixed, view, interleaved, svc, auth, cached, ready, next, executor, durable,
                      history>>
  BY Zenon DEF IInv, Submit
<1>2. Admissible(Append(pending, a), s, ans, blocked)
  BY <1>1, AdmitsSubmitted, Zenon
<1>3. s[a] = "queued" /\ \A c \in Attempt \ {a} : s[c] = st[c]
  BY <1>1, Zenon DEF TypeOK
<1> HIDE DEF s
<1>4. draining' = draining
      /\ \E over, new \in SUBSET Attempt : Settled(s, ans, blocked, over, new)
  BY <1>1, <1>2, SettleSettles, Zenon DEF TypeOK
<1>5. PICK over \in SUBSET Attempt, new \in SUBSET Attempt : Settled(s, ans, blocked, over, new)
  BY <1>4, Zenon
<1>6. MailboxInv'
  BY <1>1, <1>2, <1>5, SettleKeeps, Zenon DEF history
<1>7. ServiceTypeOK'
  BY <1>1, <1>4, Zenon DEF TypeOK, ServiceTypeOK, fixed, executor, history
<1>8. LastInv' /\ InstanceMatchesDatabase'
  BY <1>1, <1>3, <1>5, GoesOn, Zenon DEF executor
<1>9. StaleInv'
  <2> SUFFICES ASSUME inst = "stale", svc = "up" PROVE StaleInv'
    BY <1>1, Zenon DEF StaleInv, executor
  <2>1. /\ mode # "interleaving" /\ blocked \in Attempt /\ st[blocked] = "done"
        /\ out[blocked].rec = "evict"
    BY <1>1, Zenon DEF IInv, TypeOK, StaleInv, Writers
  <2>2. blocked' = blocked /\ st'[blocked] = "done" /\ Forget(st')
    BY <1>1, <1>3, <1>5, <2>1, NoAttemptAssumption, Zenon DEF Settled
  <2>3. out'[blocked] = out[blocked]
    BY <2>1, <2>2, Zenon DEF Forget
  <2> QED
    BY <1>1, <2>1, <2>2, <2>3, NoAttemptAssumption, Zenon DEF StaleInv, fixed
<1> QED
  BY <1>6, <1>7, <1>8, <1>9, Assembled, Zenon

(* A drain begins.                                                          *)
LEMMA DrainKeeps == ASSUME IInv, Drain PROVE IInv'
<1>1. /\ TypeOK /\ mb = "run" /\ Settle(pending, st, ans, blocked, TRUE)
      /\ UNCHANGED <<fixed, view, interleaved, svc, auth, cached, ready, next, executor, durable,
                      history>>
  BY Zenon DEF IInv, Drain
<1>2. Admissible(pending, st, ans, blocked)
  BY <1>1, AdmitsAsIs, Zenon
<1>4. draining' = TRUE
      /\ \E over, new \in SUBSET Attempt : Settled(st, ans, blocked, over, new)
  BY <1>1, <1>2, SettleSettles, Zenon DEF TypeOK
<1>5. PICK over \in SUBSET Attempt, new \in SUBSET Attempt : Settled(st, ans, blocked, over, new)
  BY <1>4, Zenon
<1>6. MailboxInv'
  BY <1>1, <1>2, <1>5, SettleKeeps, Zenon DEF history
<1>7. ServiceTypeOK'
  BY <1>1, <1>4, Zenon DEF TypeOK, ServiceTypeOK, fixed, executor, history
<1>8. LastInv' /\ InstanceMatchesDatabase'
  BY <1>1, <1>5, GoesOn, Zenon DEF executor
<1>9. StaleInv'
  <2> SUFFICES ASSUME inst = "stale", svc = "up" PROVE StaleInv'
    BY <1>1, Zenon DEF StaleInv, executor
  <2>1. /\ mode # "interleaving" /\ blocked \in Attempt /\ st[blocked] = "done"
        /\ out[blocked].rec = "evict"
    BY <1>1, Zenon DEF IInv, TypeOK, StaleInv, Writers
  <2>2. blocked' = blocked /\ st'[blocked] = "done" /\ Forget(st')
    BY <1>1, <1>5, <2>1, NoAttemptAssumption, Zenon DEF Settled
  <2>3. out'[blocked] = out[blocked]
    BY <2>1, <2>2, Zenon DEF Forget
  <2> QED
    BY <1>1, <2>1, <2>2, <2>3, NoAttemptAssumption, Zenon DEF StaleInv, fixed
<1> QED
  BY <1>6, <1>7, <1>8, <1>9, Assembled, Zenon

(* The running invocation lets the next one start.                          *)
LEMMA AdmitNextKeeps == ASSUME IInv, AdmitNext PROVE IInv'
<1>1. /\ TypeOK /\ mb = "run" /\ grant /\ blocked # NoAttempt /\ interleaved' = TRUE
      /\ Settle(pending, st, ans, NoAttempt, draining)
      /\ UNCHANGED <<fixed, view, svc, auth, cached, ready, next, executor, durable, history>>
  BY Zenon DEF IInv, AdmitNext
<1>2. blocked \in Attempt /\ granted[blocked]
  BY <1>1, Zenon DEF IInv, TypeOK, BlockInv, Writers
<1>3. Admissible(pending, st, ans, NoAttempt)
  <2>1. Admissible(pending, st, ans, blocked)
    BY <1>1, AdmitsAsIs, Zenon
  <2> QED
    BY <1>2, <2>1, Zenon DEF Admissible, Writers
<1>4. draining' = draining
      /\ \E over, new \in SUBSET Attempt : Settled(st, ans, NoAttempt, over, new)
  BY <1>1, <1>3, SettleSettles, Zenon DEF TypeOK
<1>5. PICK over \in SUBSET Attempt, new \in SUBSET Attempt : Settled(st, ans, NoAttempt, over, new)
  BY <1>4, Zenon
<1>6. MailboxInv'
  BY <1>1, <1>3, <1>5, SettleKeeps, Zenon DEF history
<1>7. ServiceTypeOK'
  BY <1>1, <1>4, Zenon DEF TypeOK, ServiceTypeOK, fixed, executor, history
<1>8. LastInv' /\ InstanceMatchesDatabase'
  BY <1>1, <1>5, GoesOn, Zenon DEF executor
<1>9. ~(inst = "stale" /\ svc = "up")
  BY <1>2, Zenon DEF IInv, BlockInv, StaleInv
<1>10. StaleInv'
  BY <1>1, <1>9, Zenon DEF StaleInv, executor
<1> QED
  BY <1>6, <1>7, <1>8, <1>10, Assembled, Zenon

(* executed(): the recovery goes before the answer.                         *)
LEMMA ExecutedKeeps == ASSUME IInv, NEW a \in Attempt, Executed(a) PROVE IInv'
<1> DEFINE d == [st EXCEPT ![a] = "answered"]
           keep == Recovery(a) = "keep"
           s == IF keep THEN d ELSE Evicted(d)
           n == [ans EXCEPT ![a] = out[a].res]
           b == IF blocked = a THEN NoAttempt ELSE blocked
<1>1. /\ TypeOK /\ mb = "run" /\ st[a] = "done" /\ Recovery(a) # "stop"
      /\ interleaved' = (interleaved \/ seq[a] # 0)
      /\ inst' = (IF keep THEN inst ELSE "none")
      /\ cached' = (IF Recovery(a) = "reset" THEN NoDatabase ELSE cached)
      /\ Settle(pending, s, n, b, draining)
      /\ UNCHANGED <<fixed, view, svc, auth, ready, next, lastseq, durable, history>>
  BY Zenon DEF IInv, Executed
<1>2. out[a].res \in Result /\ s \in {d, Evicted(d)}
  BY <1>1, Zenon DEF TypeOK, Outcome
<1>3. Admissible(pending, s, n, b)
  BY <1>1, <1>2, AdmitsAnswered, Zenon
<1>4. /\ \A c \in Attempt : s[c] \in {"execute", "complete", "orphan"} => st[c] = s[c]
      /\ keep \/ \A c \in Attempt : s[c] # "execute"
  <2>1. d[a] = "answered" /\ \A c \in Attempt \ {a} : d[c] = st[c]
    BY <1>1, Zenon DEF TypeOK
  <2>2. \A c \in Attempt : Evicted(d)[c] = IF d[c] = "execute" THEN "killed" ELSE d[c]
    BY Zenon DEF Evicted
  <2> HIDE DEF d
  <2> QED
    BY <2>1, <2>2, Zenon
<1>5. inst = "stale" /\ svc = "up" => ~keep
  <2> SUFFICES ASSUME inst = "stale", svc = "up" PROVE ~keep
    OBVIOUS
  <2>1. mode # "interleaving" /\ ~granted[a] /\ out[blocked].rec = "evict"
    BY Zenon DEF IInv, BlockInv, StaleInv
  <2>2. blocked = a
    BY <1>1, <2>1, Zenon DEF IInv, BlockInv, Busy
  <2> QED
    BY <1>1, <2>1, <2>2, Zenon DEF Recovery
<1> HIDE DEF d, keep, s, n, b
<1>6. draining' = draining /\ \E over, new \in SUBSET Attempt : Settled(s, n, b, over, new)
  BY <1>1, <1>3, SettleSettles, Zenon DEF TypeOK
<1>7. PICK over \in SUBSET Attempt, new \in SUBSET Attempt : Settled(s, n, b, over, new)
  BY <1>6, Zenon
<1>8. MailboxInv'
  BY <1>1, <1>3, <1>7, SettleKeeps, Zenon DEF history
<1>9. NoDatabase \in Database /\ ~NoDatabase.here
  BY EmptySeq DEF NoDatabase, Database, Ids
<1>10. cached' \in Database /\ inst' \in {"none", "live", "stale"}
  BY <1>1, <1>9, Zenon DEF TypeOK
<1>11. ServiceTypeOK'
  BY <1>1, <1>6, <1>10, Zenon DEF TypeOK, ServiceTypeOK, fixed, history
<1>12. ASSUME NEW c \in Attempt, st'[c] \in {"execute", "complete", "orphan"}
       PROVE  st[c] = st'[c] /\ s[c] = st'[c]
  BY <1>4, <1>7, <1>12, Zenon DEF Settled
<1>13. LastInv'
  BY <1>1, <1>9, <1>12, Zenon DEF IInv, LastInv, fixed
<1>14. InstanceMatchesDatabase'
  <2> SUFFICES ASSUME NEW c \in Attempt, svc = "up", st'[c] = "execute"
               PROVE  cached'.here /\ inst' = "live"
    BY <1>1, Zenon DEF InstanceMatchesDatabase
  <2>1. st[c] = "execute" /\ keep
    BY <1>4, <1>12, Zenon
  <2> QED
    BY <1>1, <2>1, Zenon DEF IInv, InstanceMatchesDatabase, keep
<1>15. StaleInv'
  BY <1>1, <1>5, Zenon DEF StaleInv
<1> QED
  BY <1>8, <1>11, <1>13, <1>14, <1>15, Assembled, Zenon

(* The loop returns.                                                        *)
LEMMA HaltStops ==
    ASSUME IInv, mb = "run", NEW p, NEW s, NEW n, NEW b, Admissible(p, s, n, b), Halt(s, n),
           inst' = "none",
           UNCHANGED <<fixed, view, interleaved, svc, auth, cached, ready, next, lastseq, durable,
                       history>>
    PROVE  IInv'
<1>1. MailboxInv'
  BY HaltKeeps, Zenon DEF history
<1>2. ServiceTypeOK'
  BY Zenon DEF IInv, TypeOK, ServiceTypeOK, Halt, fixed, history
<1>3. \A a \in Attempt : st'[a] # "execute" /\ st'[a] # "complete"
                         /\ (st'[a] = "orphan" => st[a] = "complete")
  BY Zenon DEF Halt, Admissible
<1>4. LastInv'
  BY <1>3, Zenon DEF IInv, LastInv, fixed
<1>5. StaleInv' /\ InstanceMatchesDatabase'
  BY <1>3, Zenon DEF StaleInv, InstanceMatchesDatabase
<1> QED
  BY <1>1, <1>2, <1>4, <1>5, Assembled, Zenon

(* ...because a request asks for it...                                      *)
LEMMA ExecutedStopKeeps == ASSUME IInv, NEW a \in Attempt, ExecutedStop(a) PROVE IInv'
<1> DEFINE s == [st EXCEPT ![a] = "answered"]
           n == [ans EXCEPT ![a] = "unknown"]
<1>1. /\ mb = "run" /\ st[a] = "done" /\ inst' = "none" /\ Halt(s, n)
      /\ UNCHANGED <<fixed, view, interleaved, svc, auth, cached, ready, next, lastseq, durable,
                      history>>
  BY Zenon DEF ExecutedStop
<1>2. Admissible(pending, s, n, IF blocked = a THEN NoAttempt ELSE blocked)
  BY <1>1, AdmitsAnswered, Zenon DEF Result
<1> QED
  BY <1>1, <1>2, HaltStops, Zenon

(* ...or because the database service has stopped.                          *)
LEMMA StoppedKeeps == ASSUME IInv, Stopped PROVE IInv'
BY AdmitsAsIs, HaltStops, Zenon DEF Stopped

(* A drained actor is evicted.                                              *)
LEMMA EvictDrainedKeeps == ASSUME IInv, EvictDrained PROVE IInv'
<1> USE DEF EvictDrained, fixed, marks, service
<1>1. TypeOK'
  BY Zenon DEF IInv, TypeOK
<1>2. StopInv'
  BY Zenon DEF IInv, StopInv, Completing, Busy
<1>3. StaleInv'
  BY Zenon DEF StaleInv
<1>4. InstanceMatchesDatabase'
  BY Zenon DEF IInv, StopInv, InstanceMatchesDatabase, Busy
<1> QED
  BY <1>1, <1>2, <1>3, <1>4, Frame, Zenon DEF IInv

(* A request is refused at the door.                                        *)
LEMMA SubmitRefusedKeeps == ASSUME IInv, NEW a \in Attempt, SubmitRefused(a) PROVE IInv'
<1>1. /\ TypeOK /\ st[a] = "new" /\ st' = [st EXCEPT ![a] = "answered"]
      /\ ans' = [ans EXCEPT ![a] = "unavailable"]
      /\ UNCHANGED <<fixed, marks, mailbox, service, executor, durable, history>>
  BY Zenon DEF IInv, SubmitRefused
<1>2. st'[a] = "answered" /\ \A c \in Attempt \ {a} : st'[c] = st[c] /\ ans'[c] = ans[c]
  BY <1>1, Zenon DEF TypeOK
<1> USE DEF fixed, marks, mailbox, service, executor, history
<1>3. TypeOK'
  BY <1>1, Zenon DEF TypeOK, State, Result
<1>4. ASSUME NEW c \in Attempt PROVE AttemptInv(c)'
  BY <1>1, <1>2, Zenon DEF IInv, AttemptInv, Waiting
<1>5. PendingInv'
  <2>1. \A i \in 1..Len(pending) : pending[i] \in Attempt /\ st[pending[i]] = "queued"
    BY <1>1 DEF IInv, TypeOK, PendingInv
  <2>2. \A i \in 1..Len(pending) : st'[pending[i]] = "queued"
    BY <1>1, <1>2, <2>1, Zenon
  <2> QED
    BY <1>1, <2>2, Zenon DEF IInv, PendingInv
<1>6. BlockInv'
  BY <1>1, <1>2, Zenon DEF IInv, TypeOK, BlockInv, Busy, Writers
<1>7. StopInv'
  BY <1>1, <1>2, Zenon DEF IInv, StopInv, Busy, Completing
<1>8. CompletingInv'
  BY <1>1, <1>2, Zenon DEF IInv, TypeOK, CompletingInv, Completing
<1>9. StaleInv'
  BY <1>1, <1>2, Zenon DEF IInv, TypeOK, StaleInv, Writers
<1>10. LastInv' /\ InstanceMatchesDatabase'
  BY <1>1, <1>2, Zenon DEF IInv, LastInv, InstanceMatchesDatabase
<1> QED
  BY <1>3, <1>4, <1>5, <1>6, <1>7, <1>8, <1>9, <1>10, Zenon DEF IInv

-----------------------------------------------------------------------------
(* The database service.                                                   *)

(* The steps of the database service that settle requests: those in lost    *)
(* were completing and are over, with the outcome err.                      *)
LEMMA CompletionsSettle ==
    ASSUME IInv, NEW lost \in SUBSET Attempt, \A b \in lost : Completing(b),
           NEW err \in Outcome, err.res # "unavailable",
           st' = [b \in Attempt |-> IF b \notin lost THEN st[b]
                                    ELSE IF st[b] = "orphan" THEN "answered" ELSE "done"],
           out' = [b \in Attempt |-> IF b \in lost THEN err ELSE out[b]],
           ready' = ready \ lost, inst' = inst \/ inst = "live",
           UNCHANGED <<fixed, ans, granted, seq, mailbox, history>>
    PROVE  MailboxInv'
<1>1. TypeOK /\ PendingInv /\ BlockInv /\ StopInv /\ CompletingInv
  BY Zenon DEF IInv
<1>2. \A b \in Attempt : b \notin lost => st'[b] = st[b] /\ out'[b] = out[b]
  OBVIOUS
<1>3. \A b \in lost : /\ b \in Attempt /\ st[b] \in {"complete", "orphan"} /\ out'[b] = err
                      /\ st[b] = "complete" => st'[b] = "done"
                      /\ st[b] = "orphan" => st'[b] = "answered"
  BY Zenon DEF Completing
<1>4. st' \in [Attempt -> State] /\ out' \in [Attempt -> Outcome]
  BY <1>1, Zenon DEF TypeOK, State
<1> USE DEF fixed, mailbox, history
<1>5. MailboxTypeOK'
  BY <1>1, <1>4, Zenon DEF TypeOK, MailboxTypeOK
<1>6. ASSUME NEW c \in Attempt PROVE AttemptInv(c)'
  <2>1. AttemptInv(c)
    BY Zenon DEF IInv
  <2>2. CASE c \in lost
    BY <1>3, <2>1, <2>2, Zenon DEF AttemptInv, Waiting
  <2>3. CASE c \notin lost
    BY <1>2, <2>1, <2>3, Zenon DEF AttemptInv
  <2> QED
    BY <2>2, <2>3, Zenon
<1>7. PendingInv'
  <2>1. \A i \in 1..Len(pending) : pending[i] \in Attempt /\ st[pending[i]] = "queued"
    BY <1>1 DEF TypeOK, PendingInv
  <2>2. \A i \in 1..Len(pending) : st'[pending[i]] = "queued"
    BY <1>2, <1>3, <2>1, Zenon
  <2> QED
    BY <1>1, <2>2, Zenon DEF PendingInv
<1>8. BlockInv'
  BY <1>1, <1>2, <1>3, Zenon DEF TypeOK, BlockInv, Busy, Writers
<1>9. \A c \in Attempt : Completing(c)' => Completing(c) /\ c \notin lost /\ st'[c] = st[c]
  BY <1>2, <1>3, Zenon DEF Completing
<1>10. StopInv'
  <2>1. mb # "run" => \A c \in Attempt : st'[c] \notin Busy
    BY <1>1, <1>2, <1>3, Zenon DEF StopInv, Busy
  <2>2. mb = "stopped" => inst' = "none"
    BY <1>1, Zenon DEF StopInv
  <2>3. \A c \in Attempt : st'[c] = "orphan" => mb = "stopped"
    BY <1>1, <1>9, Zenon DEF StopInv, Completing
  <2> QED
    BY <1>1, <1>9, <2>1, <2>2, <2>3, Zenon DEF StopInv
<1>11. CompletingInv'
  <2>1. \A c \in ready' : Completing(c)'
    BY <1>1, <1>2, Zenon DEF CompletingInv, Completing, TypeOK
  <2> QED
    BY <1>1, <1>9, <2>1, Zenon DEF CompletingInv
<1> QED
  BY <1>5, <1>6, <1>7, <1>8, <1>10, <1>11, Zenon DEF MailboxInv

(* For a serial actor nothing else runs or completes meanwhile.             *)
LEMMA SerialAlone ==
    ASSUME IInv, mode # "interleaving", NEW a \in Attempt, Completing(a), NEW c \in Attempt, c # a
    PROVE  st[c] \notin Busy /\ ~Completing(c) /\ (st[a] = "complete" => blocked = a)
<1>1. st[a] = "complete" => blocked = a
  BY Zenon DEF IInv, BlockInv, Busy
<1>2. ~Completing(c)
  BY Zenon DEF IInv, CompletingInv
<1>3. st[c] \in Busy => blocked = c /\ mb = "run"
  BY Zenon DEF IInv, TypeOK, BlockInv, StopInv
<1>4. st[a] = "orphan" => mb = "stopped"
  BY Zenon DEF IInv, StopInv
<1> QED
  BY <1>1, <1>2, <1>3, <1>4, Zenon DEF Completing

(* One completion is over.                                                  *)
LEMMA FinishSettles ==
    ASSUME TypeOK, NEW a \in Attempt, Completing(a), NEW c, Finish(a, c)
    PROVE  /\ st' = [b \in Attempt |-> IF b \notin {a} THEN st[b]
                                       ELSE IF st[b] = "orphan" THEN "answered" ELSE "done"]
           /\ out' = [b \in Attempt |-> IF b \in {a} THEN c ELSE out[b]]
BY Zenon DEF TypeOK, Finish

(* What is published is a snapshot of the resident database.                *)
LEMMA PublishedType ==
    ASSUME TypeOK, NEW a \in Attempt, Capturable(a)
    PROVE  /\ Published(a) \in [log : Seq(Writers), last : Ids] /\ AfterPublish(a) \in Database
           /\ AfterPublish(a).here = cached.here
           /\ cached.last = durable.last => AfterPublish(a).last = Published(a).last
           /\ Published(a) # durable => Publishes(a) /\ Published(a).last = rid[a]
<1>1. /\ view[a] \in Seq(Writers) /\ Len(view[a]) \in Nat /\ rid[a] \in Ids
      /\ cached \in Database /\ durable \in [log : Seq(Writers), last : Ids]
      /\ cached.log \in Seq(Writers) /\ Len(cached.log) \in Nat
  BY DEF TypeOK, Database
<1> DEFINE k == Len(view[a])
<1>2. k \in Nat /\ k <= Len(cached.log) /\ \A i \in 1..k : cached.log[i] \in Writers
  BY <1>1 DEF Capturable
<1>3. SubSeq(cached.log, 1, k) \in Seq(Writers)
  <2> HIDE DEF k
  <2> QED
    BY <1>2, SubSeqProperties
<1>4. [log |-> SubSeq(cached.log, 1, k), last |-> rid[a]] \in [log : Seq(Writers), last : Ids]
  BY <1>1, <1>3, Zenon
<1>5. /\ [cached EXCEPT !.pub = k, !.last = rid[a]] \in Database
      /\ [cached EXCEPT !.pub = k, !.last = rid[a]].here = cached.here
      /\ [cached EXCEPT !.pub = k, !.last = rid[a]].last = rid[a]
  BY <1>1, <1>2, Zenon DEF Database
<1> QED
  BY <1>1, <1>4, <1>5, Zenon DEF Published, AfterPublish

(* complete(): the answer or the late error.                                *)
LEMMA ConfirmedKeeps ==
    ASSUME IInv, NEW a \in Attempt, NEW c \in Outcome, c.res # "unavailable", Confirmed(a),
           Finish(a, c), auth' \in {auth, FALSE}
    PROVE  IInv'
<1>1. /\ TypeOK /\ Completing(a) /\ auth /\ cached.here /\ Capturable(a)
      /\ cached' = AfterPublish(a) /\ durable' = Published(a) /\ ready' = ready \ {a}
      /\ UNCHANGED <<fixed, ans, granted, seq, view, mailbox, svc, executor, history>>
  BY Zenon DEF IInv, Confirmed, Turn
<1>2. /\ st' = [b \in Attempt |-> IF b \notin {a} THEN st[b]
                                  ELSE IF st[b] = "orphan" THEN "answered" ELSE "done"]
      /\ out' = [b \in Attempt |-> IF b \in {a} THEN c ELSE out[b]]
  BY <1>1, FinishSettles, Zenon
<1>3. MailboxInv'
  BY <1>1, <1>2, CompletionsSettle, Zenon DEF executor
<1>4. /\ durable' \in [log : Seq(Writers), last : Ids] /\ cached' \in Database
      /\ cached'.here = cached.here
      /\ cached.last = durable.last => cached'.last = durable'.last
      /\ durable' # durable => durable'.last = rid[a]
  BY <1>1, PublishedType, Zenon
<1>5. ServiceTypeOK'
  BY <1>1, <1>4, Zenon DEF TypeOK, ServiceTypeOK, fixed, mailbox, executor, history
<1>6. \A b \in Attempt : st'[b] \in {"execute", "complete", "orphan"} => b # a /\ st'[b] = st[b]
  BY <1>1, <1>2, Zenon DEF Completing
<1>7. LastInv'
  <2>1. auth' /\ cached'.here => cached'.last = durable'.last
    BY <1>1, <1>4, Zenon DEF IInv, LastInv
  <2>2. ASSUME mode # "interleaving", NEW b \in Attempt,
               st'[b] \in {"execute", "complete", "orphan"}
        PROVE  FALSE
    BY <1>1, <1>6, <2>2, SerialAlone, Zenon DEF Busy, Completing
  <2> QED
    BY <1>1, <2>1, <2>2, Zenon DEF LastInv, fixed
<1>8. InstanceMatchesDatabase'
  BY <1>1, <1>4, <1>6, Zenon DEF IInv, InstanceMatchesDatabase, executor
<1>9. StaleInv'
  <2> SUFFICES ASSUME inst = "stale", svc = "up" PROVE FALSE
    BY <1>1, Zenon DEF StaleInv, executor
  <2>1. mode # "interleaving" /\ blocked \in Attempt /\ st[blocked] = "done"
    BY <1>1, Zenon DEF IInv, TypeOK, StaleInv, Writers
  <2> QED
    BY <1>1, <2>1, SerialAlone, Zenon DEF Busy, Completing
<1> QED
  BY <1>3, <1>5, <1>7, <1>8, <1>9, Assembled, Zenon

(* Outcomes of the service.                                                 *)
LEMMA Outcomes ==
    /\ Completion("completed", "keep", "none") \in Outcome
    /\ Completion("error", "keep", "none") \in Outcome
    /\ Completion("error", "stop", "none") \in Outcome
    /\ Completion("unknown", "evict", "none") \in Outcome
    /\ Completion("unavailable", "keep", "none") \in Outcome
    /\ Completion("completed", "keep", "none").res = "completed"
    /\ Completion("error", "keep", "none").res = "error"
    /\ Completion("error", "stop", "none").res = "error"
    /\ Completion("unknown", "evict", "none").res = "unknown"
    /\ Completion("unknown", "evict", "none").rec = "evict"
BY Zenon DEF Completion, Outcome, Result

(* A failed completion takes those that wait behind it along.               *)
LEMMA CompleteErrorSettles ==
    ASSUME IInv, NEW a \in Attempt, Completing(a), NEW c \in Outcome, c.res # "unavailable",
           CompleteError(a, c), inst' = inst \/ inst = "live",
           UNCHANGED <<fixed, ans, granted, seq, mailbox, history>>
    PROVE  /\ MailboxInv' /\ ready' \subseteq Attempt /\ svc' \in {"up", "down"}
           /\ mode = "interleaving" => svc' = "down"
           /\ st[a] = "complete" => st'[a] = "done"
           /\ seq[a] = 0 => out'[a] = c
           /\ svc' = "up" => seq[a] = 0
           /\ \A b \in Attempt : st'[b] \in {"execute", "complete", "orphan"} =>
                                   b # a /\ st'[b] = st[b]
<1> DEFINE lost == {a} \cup (IF seq[a] = 0 THEN {} ELSE ready)
           err  == IF seq[a] = 0 THEN c ELSE Completion("unknown", "evict", "none")
<1>1. /\ svc' = (IF seq[a] = 0 THEN "up" ELSE "down") /\ ready' = ready \ lost
      /\ st' = [b \in Attempt |-> IF b \notin lost THEN st[b]
                                  ELSE IF st[b] = "orphan" THEN "answered" ELSE "done"]
      /\ out' = [b \in Attempt |-> IF b \in lost THEN err ELSE out[b]]
  BY Zenon DEF CompleteError
<1>2. lost \in SUBSET Attempt /\ a \in lost /\ \A b \in lost : Completing(b)
  BY Zenon DEF IInv, TypeOK, CompletingInv
<1>3. err \in Outcome /\ err.res # "unavailable" /\ (seq[a] = 0 => err = c)
  BY Outcomes, Zenon
<1>4. mode = "interleaving" => seq[a] # 0
  BY Zenon DEF IInv, CompletingInv
<1> HIDE DEF lost, err
<1>5. MailboxInv'
  BY <1>1, <1>2, <1>3, CompletionsSettle, Zenon
<1> QED
  BY <1>1, <1>2, <1>3, <1>4, <1>5, Zenon DEF IInv, TypeOK, Completing

(* Publication could not be confirmed.                                      *)
LEMMA CompleteUnconfirmedKeeps ==
    ASSUME IInv, NEW a \in Attempt, CompleteUnconfirmed(a)
    PROVE  IInv'
<1> DEFINE c == Completion("unknown", "evict", "none")
<1>1. /\ TypeOK /\ Completing(a) /\ cached.here /\ CompleteError(a, c)
      /\ UNCHANGED <<fixed, ans, granted, seq, view, mailbox, next, lastseq, history>>
      /\ \/ /\ cached' = NoDatabase /\ inst' = (IF inst = "live" THEN "stale" ELSE inst)
            /\ durable' = durable /\ auth' \in {auth, FALSE}
         \/ /\ Capturable(a) /\ auth' = FALSE
            /\ durable' = durable \/ (auth /\ durable' = Published(a))
            /\ UNCHANGED <<cached, inst>>
  BY Zenon DEF IInv, CompleteUnconfirmed, Turn
<1>2. c \in Outcome /\ c.res # "unavailable" /\ c.rec = "evict"
  BY Outcomes, Zenon
<1> HIDE DEF c
<1>3. /\ MailboxInv' /\ ready' \subseteq Attempt /\ svc' \in {"up", "down"}
      /\ mode = "interleaving" => svc' = "down"
      /\ st[a] = "complete" => st'[a] = "done"
      /\ seq[a] = 0 => out'[a] = c
      /\ svc' = "up" => seq[a] = 0
      /\ \A b \in Attempt : st'[b] \in {"execute", "complete", "orphan"} =>
                              b # a /\ st'[b] = st[b]
  BY <1>1, <1>2, CompleteErrorSettles, Zenon
<1>4. NoDatabase \in Database /\ ~NoDatabase.here
  BY EmptySeq DEF NoDatabase, Database, Ids
<1>5. /\ cached' \in Database /\ durable' \in [log : Seq(Writers), last : Ids]
      /\ inst' \in {"none", "live", "stale"} /\ auth' \in BOOLEAN
  BY <1>1, <1>4, PublishedType, Zenon DEF TypeOK
<1>6. ServiceTypeOK'
  BY <1>1, <1>3, <1>5, Zenon DEF TypeOK, ServiceTypeOK, fixed, mailbox, history
<1>7. LastInv'
  <2>1. CASE auth' = FALSE
    BY <2>1, Zenon DEF LastInv
  <2>2. CASE auth' # FALSE
    <3>1. cached' = NoDatabase /\ durable' = durable /\ auth' = auth /\ UNCHANGED <<rid, mode>>
      BY <1>1, <2>2, Zenon DEF fixed
    <3>2. ~cached'.here
      BY <1>4, <3>1, Zenon
    <3> QED
      BY <1>3, <3>1, <3>2, Zenon DEF IInv, LastInv
  <2> QED
    BY <2>1, <2>2, Zenon
<1>8. svc' = "up" => \A b \in Attempt : st'[b] # "execute"
  BY <1>1, <1>3, SerialAlone, Zenon DEF Busy
<1>9. InstanceMatchesDatabase'
  BY <1>8, Zenon DEF InstanceMatchesDatabase
<1>10. StaleInv'
  <2> SUFFICES ASSUME inst' = "stale", svc' = "up" PROVE StaleInv'
    BY Zenon DEF StaleInv
  <2>1. mode # "interleaving" /\ seq[a] = 0 /\ out'[a].rec = "evict"
    BY <1>2, <1>3, Zenon
  <2>2. mb # "stopped"
    BY <1>1, Zenon DEF IInv, StopInv
  <2>3. st[a] = "complete"
    BY <1>1, <2>2, Zenon DEF IInv, StopInv, Completing
  <2>4. blocked' = a
    BY <1>1, <2>1, <2>3, Zenon DEF IInv, BlockInv, Busy, mailbox
  <2> QED
    BY <1>1, <1>3, <2>1, <2>3, <2>4, NoAttemptAssumption, Zenon DEF StaleInv, fixed
<1> QED
  BY <1>3, <1>6, <1>7, <1>9, <1>10, Assembled, Zenon

(* complete() is refused.                                                   *)
LEMMA CompleteRefusedKeeps == ASSUME IInv, NEW a \in Attempt, CompleteRefused(a) PROVE IInv'
<1> DEFINE c == Completion("error", "keep", "none")
<1>1. /\ TypeOK /\ Completing(a) /\ svc = "up" /\ CompleteError(a, c)
      /\ UNCHANGED <<fixed, ans, granted, seq, view, mailbox, next, executor, history>>
      /\ \/ ~cached.here /\ UNCHANGED <<auth, cached, durable>>
         \/ /\ cached.here /\ Capturable(a) /\ auth' = FALSE
            /\ cached' = AfterPublish(a) /\ durable' = Published(a)
  BY Zenon DEF IInv, CompleteRefused, Turn
<1>2. c \in Outcome /\ c.res # "unavailable"
  BY Outcomes, Zenon
<1> HIDE DEF c
<1>3. /\ MailboxInv' /\ ready' \subseteq Attempt /\ svc' \in {"up", "down"}
      /\ \A b \in Attempt : st'[b] \in {"execute", "complete", "orphan"} =>
                              b # a /\ st'[b] = st[b]
  BY <1>1, <1>2, CompleteErrorSettles, Zenon DEF executor
<1>4. /\ cached' \in Database /\ durable' \in [log : Seq(Writers), last : Ids]
      /\ cached'.here = cached.here /\ auth' \in BOOLEAN
  <2>1. CASE ~cached.here /\ UNCHANGED <<auth, cached, durable>>
    BY <1>1, <2>1, Zenon DEF TypeOK
  <2>2. CASE /\ Capturable(a) /\ auth' = FALSE
             /\ cached' = AfterPublish(a) /\ durable' = Published(a)
    BY <1>1, <2>2, PublishedType, Zenon
  <2> QED
    BY <1>1, <2>1, <2>2, Zenon
<1>5. ServiceTypeOK'
  BY <1>1, <1>3, <1>4, Zenon DEF TypeOK, ServiceTypeOK, fixed, mailbox, executor, history
<1>6. LastInv'
  BY <1>1, <1>3 DEF IInv, LastInv, fixed
<1>7. InstanceMatchesDatabase'
  BY <1>1, <1>3, <1>4, Zenon DEF IInv, InstanceMatchesDatabase, executor
<1>8. StaleInv'
  <2> SUFFICES ASSUME inst = "stale" PROVE FALSE
    BY <1>1, Zenon DEF StaleInv, executor
  <2>1. mode # "interleaving" /\ blocked \in Attempt /\ st[blocked] = "done"
    BY <1>1, Zenon DEF IInv, TypeOK, StaleInv, Writers
  <2> QED
    BY <1>1, <2>1, SerialAlone, Zenon DEF Busy, Completing
<1> QED
  BY <1>3, <1>5, <1>6, <1>7, <1>8, Assembled, Zenon

(* The service stopped before a completion.                                 *)
LEMMA CompleteStoppedKeeps == ASSUME IInv, NEW a \in Attempt, CompleteStopped(a) PROVE IInv'
<1> DEFINE c == IF seq[a] = 0 THEN NoCompletion ELSE Completion("unknown", "evict", "none")
<1>1. /\ TypeOK /\ Completing(a) /\ svc = "down" /\ ready' = ready \ {a} /\ Finish(a, c)
      /\ UNCHANGED <<fixed, ans, granted, seq, view, mailbox, svc, auth, cached, next, executor,
                      durable, history>>
  BY Zenon DEF IInv, CompleteStopped
<1>2. c \in Outcome /\ c.res # "unavailable"
  BY Outcomes, Zenon DEF NoCompletion
<1> HIDE DEF c
<1>3. /\ st' = [b \in Attempt |-> IF b \notin {a} THEN st[b]
                                  ELSE IF st[b] = "orphan" THEN "answered" ELSE "done"]
      /\ out' = [b \in Attempt |-> IF b \in {a} THEN c ELSE out[b]]
  BY <1>1, FinishSettles, Zenon
<1>4. MailboxInv'
  BY <1>1, <1>2, <1>3, CompletionsSettle, Zenon DEF executor
<1>5. ServiceTypeOK'
  BY <1>1, Zenon DEF TypeOK, ServiceTypeOK, fixed, mailbox, executor, history
<1>6. \A b \in Attempt : st'[b] \in {"execute", "complete", "orphan"} => st'[b] = st[b]
  BY <1>3, Zenon
<1>7. LastInv' /\ StaleInv' /\ InstanceMatchesDatabase'
  BY <1>1, <1>6, Zenon DEF IInv, LastInv, StaleInv, InstanceMatchesDatabase, fixed
<1> QED
  BY <1>4, <1>5, <1>7, Assembled, Zenon

(* A sequenced completion waits for its turn.                               *)
LEMMA ReceiveKeeps == ASSUME IInv, NEW a \in Attempt, Receive(a) PROVE IInv'
<1> USE DEF Receive, fixed, marks, mailbox, executor, history
<1>1. TypeOK'
  BY Zenon DEF IInv, TypeOK
<1>2. CompletingInv'
  BY Zenon DEF IInv, CompletingInv, Completing
<1> QED
  BY <1>1, <1>2, Frame, Zenon DEF IInv

-----------------------------------------------------------------------------
(* A request whose Prepare is in the channel moves on; nobody else does.    *)
LEMMA PreparedMoves ==
    ASSUME IInv, NEW a \in Attempt, st[a] = "prepare", NEW x \in {"execute", "done"},
           st' = [st EXCEPT ![a] = x], NEW c \in Outcome,
           out' = out \/ out' = [out EXCEPT ![a] = c],
           ran' = ran \/ (ran' = ran \cup {a} /\ x = "execute"),
           UNCHANGED <<fixed, ans, granted, seq, mailbox, ready, drained>>, inst' = inst \/ mb = "run"
    PROVE  /\ MailboxInv' /\ mb = "run"
           /\ \A b \in Attempt \ {a} : st'[b] = st[b]
           /\ st'[a] = x
           /\ mode # "interleaving" => blocked = a
<1>1. TypeOK /\ PendingInv /\ BlockInv /\ StopInv /\ CompletingInv /\ mb = "run" /\ ~drained
  BY Zenon DEF IInv, TypeOK, StopInv, Busy
<1>2. st'[a] = x /\ \A b \in Attempt \ {a} : st'[b] = st[b] /\ out'[b] = out[b]
  BY <1>1, Zenon DEF TypeOK
<1>3. st' \in [Attempt -> State] /\ out' \in [Attempt -> Outcome]
  <2>1. st \in [Attempt -> State] /\ out \in [Attempt -> Outcome]
    BY <1>1, Zenon DEF TypeOK
  <2>2. st' \in [Attempt -> State]
    BY <2>1 DEF State
  <2>3. CASE out' = out
    BY <2>1, <2>2, <2>3, Zenon
  <2>4. CASE out' = [out EXCEPT ![a] = c]
    BY <2>1, <2>2, <2>4
  <2> QED
    BY <2>3, <2>4, Zenon
<1> USE DEF fixed, mailbox
<1>4. MailboxTypeOK'
  BY <1>1, <1>3, Zenon DEF TypeOK, MailboxTypeOK
<1>5. ASSUME NEW b \in Attempt PROVE AttemptInv(b)'
  <2>1. AttemptInv(b) /\ AttemptInv(a)
    BY Zenon DEF IInv
  <2>2. CASE b = a
    BY <1>2, <2>1, <2>2, Zenon DEF AttemptInv, Waiting
  <2>3. CASE b # a
    BY <1>2, <2>1, <2>3, Zenon DEF AttemptInv
  <2> QED
    BY <2>2, <2>3, Zenon
<1>6. PendingInv'
  <2>1. \A i \in 1..Len(pending) : pending[i] \in Attempt /\ st[pending[i]] = "queued"
    BY <1>1 DEF TypeOK, PendingInv
  <2>2. \A i \in 1..Len(pending) : st'[pending[i]] = "queued"
    BY <1>2, <2>1, Zenon
  <2> QED
    BY <1>1, <2>2, Zenon DEF PendingInv
<1>7. BlockInv'
  BY <1>1, <1>2, Zenon DEF TypeOK, BlockInv, Busy, Writers
<1>8. StopInv'
  BY <1>1, <1>2, Zenon DEF StopInv
<1>9. CompletingInv'
  BY <1>1, <1>2, Zenon DEF TypeOK, CompletingInv, Completing
<1> QED
  BY <1>1, <1>2, <1>4, <1>5, <1>6, <1>7, <1>8, <1>9, Zenon DEF MailboxInv, BlockInv, Busy

(* prepare_invocation ends without an execution...                          *)
LEMMA PrepareFailsKeeps == ASSUME IInv, NEW a \in Attempt, PrepareFails(a) PROVE IInv'
<1>1. /\ TypeOK /\ st[a] = "prepare"
      /\ UNCHANGED <<fixed, ans, granted, seq, view, mailbox, svc, auth, cached, ready, next,
                      executor, durable, history>>
  BY Zenon DEF IInv, PrepareFails
<1>2. PICK c \in Outcome : Finish(a, c)
  BY Outcomes, Zenon DEF PrepareFails
<1>3. st' = [st EXCEPT ![a] = "done"] /\ out' = [out EXCEPT ![a] = c]
  BY <1>1, <1>2, Zenon DEF Finish
<1>4. /\ MailboxInv' /\ \A b \in Attempt \ {a} : st'[b] = st[b]
      /\ st'[a] = "done" /\ (mode # "interleaving" => blocked = a)
  BY <1>1, <1>3, PreparedMoves, Zenon DEF executor, history
<1>5. ServiceTypeOK'
  BY <1>1, Zenon DEF TypeOK, ServiceTypeOK, fixed, mailbox, executor, history
<1>6. LastInv' /\ InstanceMatchesDatabase'
  BY <1>1, <1>4, Zenon DEF IInv, LastInv, InstanceMatchesDatabase, fixed, executor
<1>7. ~(inst = "stale" /\ svc = "up")
  BY <1>1, <1>4, Zenon DEF IInv, StaleInv
<1>8. StaleInv'
  BY <1>1, <1>7, Zenon DEF StaleInv, executor
<1> QED
  BY <1>4, <1>5, <1>6, <1>8, Assembled, Zenon

(* A database that is loaded carries the newest completion.                 *)
LEMMA ResidentType ==
    ASSUME IInv, auth
    PROVE  Resident \in Database /\ Resident.here /\ Resident.last = durable.last
<1>1. /\ cached \in Database /\ durable.log \in Seq(Writers) /\ durable.last \in Ids
      /\ Len(durable.log) \in Nat
  BY DEF IInv, TypeOK
<1>2. Loaded \in Database /\ Loaded.here /\ Loaded.last = durable.last
  BY <1>1 DEF Loaded, Database
<1> QED
  BY <1>1, <1>2, Zenon DEF Resident, IInv, LastInv

(* The defaults of a new instance leave the completion alone.               *)
LEMMA HydratedType ==
    ASSUME NEW db \in Database, NEW d \in Hydrated(db)
    PROVE  d \in Database /\ d.here = db.here /\ d.last = db.last
<1>1. db.log \in Seq(Writers) /\ NoAttempt \in Writers
  BY Zenon DEF Database, Writers
<1>2. /\ Append(db.log, NoAttempt) \in Seq(Writers) /\ Len(db.log) \in Nat
      /\ Len(Append(db.log, NoAttempt)) = Len(db.log) + 1
  BY <1>1, AppendProperties
<1>3. d = db \/ d = [db EXCEPT !.log = Append(@, NoAttempt)]
  BY Zenon DEF Hydrated
<1> QED
  BY <1>2, <1>3 DEF Database

(* ...with the completion of an earlier attempt...                          *)
LEMMA ReplayKeeps == ASSUME IInv, NEW a \in Attempt, Replay(a) PROVE IInv'
<1> DEFINE c == Completion("completed", "keep", "none")
<1>1. /\ TypeOK /\ st[a] = "prepare" /\ auth /\ Finish(a, c) /\ cached' = Resident
      /\ view' = [view EXCEPT ![a] = SubSeq(Resident.log, 1, Resident.pub)]
      /\ UNCHANGED <<fixed, ans, granted, seq, mailbox, svc, auth, ready, next, executor, durable,
                      history>>
  BY Zenon DEF IInv, Replay
<1>2. c \in Outcome
  BY Outcomes, Zenon
<1> HIDE DEF c
<1>3. st' = [st EXCEPT ![a] = "done"] /\ out' = [out EXCEPT ![a] = c]
  BY <1>1, Zenon DEF Finish
<1>4. /\ MailboxInv' /\ \A b \in Attempt \ {a} : st'[b] = st[b]
      /\ st'[a] = "done" /\ (mode # "interleaving" => blocked = a)
  BY <1>1, <1>2, <1>3, PreparedMoves, Zenon DEF executor, history
<1>5. Resident \in Database /\ Resident.here /\ Resident.last = durable.last
  BY <1>1, ResidentType, Zenon
<1>6. ServiceTypeOK'
  <2> DEFINE log == Resident.log
             pub == Resident.pub
  <2>1. log \in Seq(Writers) /\ pub \in Nat /\ pub <= Len(log)
    BY <1>5, Zenon DEF Database
  <2>2. 1 \in Int /\ pub \in Int /\ \A i \in 1..pub : log[i] \in Writers
    BY <2>1
  <2> HIDE DEF log, pub
  <2>3. SubSeq(log, 1, pub) \in Seq(Writers)
    BY <2>2, SubSeqProperties, Zenon
  <2>4. view' \in [Attempt -> Seq(Writers)]
    BY <1>1, <2>3, Zenon DEF TypeOK, log, pub
  <2> QED
    BY <1>1, <1>5, <2>4, Zenon DEF TypeOK, ServiceTypeOK, fixed, mailbox, executor, history
<1>7. LastInv' /\ InstanceMatchesDatabase'
  BY <1>1, <1>4, <1>5, Zenon DEF IInv, LastInv, InstanceMatchesDatabase, fixed, executor
<1>8. ~(inst = "stale" /\ svc = "up")
  BY <1>1, <1>4, Zenon DEF IInv, StaleInv
<1>9. StaleInv'
  BY <1>1, <1>8, Zenon DEF StaleInv, executor
<1> QED
  BY <1>4, <1>6, <1>7, <1>9, Assembled, Zenon

(* ...or the method runs.                                                   *)
LEMMA ExecuteKeeps == ASSUME IInv, NEW a \in Attempt, Execute(a) PROVE IInv'
<1>1. /\ TypeOK /\ st[a] = "prepare" /\ svc = "up" /\ auth /\ ~Replayable(a)
      /\ st' = [st EXCEPT ![a] = "execute"] /\ ran' = ran \cup {a}
      /\ cached' \in (IF inst = "none" THEN Hydrated(Resident) ELSE {Resident})
      /\ inst' = (IF inst = "none" THEN "live" ELSE inst)
      /\ UNCHANGED <<fixed, ans, marks, mailbox, svc, auth, ready, next, lastseq, durable, hosts,
                      drained>>
  BY Zenon DEF IInv, Execute, Free
<1>2. mb = "run"
  BY <1>1, Zenon DEF IInv, TypeOK, StopInv, Busy
<1>3. /\ MailboxInv' /\ \A b \in Attempt \ {a} : st'[b] = st[b]
      /\ st'[a] = "execute" /\ (mode # "interleaving" => blocked = a)
  BY <1>1, <1>2, Outcomes, PreparedMoves, Zenon DEF marks
<1>4. Resident \in Database /\ Resident.here /\ Resident.last = durable.last
  BY <1>1, ResidentType, Zenon
<1>5. cached' \in Database /\ cached'.here /\ cached'.last = durable.last
  BY <1>1, <1>4, HydratedType, Zenon
<1>6. inst # "stale" /\ inst' = "live"
  BY <1>1, <1>3, Zenon DEF IInv, TypeOK, StaleInv
<1>7. ServiceTypeOK'
  BY <1>1, <1>5, <1>6, Zenon DEF TypeOK, ServiceTypeOK, fixed, marks, mailbox
<1>8. rid[a] # NoId => durable.last # rid[a]
  BY <1>1, <1>4, Zenon DEF Replayable
<1>9. LastInv'
  BY <1>1, <1>3, <1>5, <1>8, Zenon DEF IInv, LastInv, fixed
<1>10. StaleInv' /\ InstanceMatchesDatabase'
  BY <1>5, <1>6, Zenon DEF StaleInv, InstanceMatchesDatabase
<1> QED
  BY <1>3, <1>7, <1>9, <1>10, Assembled, Zenon

-----------------------------------------------------------------------------
(* A longer log of the resident database.                                   *)
LEMMA LogGrows ==
    ASSUME TypeOK, NEW w \in Writers
    PROVE  /\ Append(cached.log, w) \in Seq(Writers) /\ Len(Append(cached.log, w)) \in Nat
           /\ [cached EXCEPT !.log = Append(cached.log, w)] \in Database
           /\ [cached EXCEPT !.log = Append(cached.log, w)].here = cached.here
           /\ [cached EXCEPT !.log = Append(cached.log, w)].last = cached.last
<1>1. cached \in Database /\ cached.log \in Seq(Writers) /\ Len(cached.log) \in Nat
  BY DEF TypeOK, Database
<1> DEFINE log == Append(cached.log, w)
<1>2. log \in Seq(Writers) /\ Len(log) = Len(cached.log) + 1
  BY <1>1, AppendProperties
<1> HIDE DEF log
<1>3. /\ [cached EXCEPT !.log = log] \in Database
      /\ [cached EXCEPT !.log = log].here = cached.here
      /\ [cached EXCEPT !.log = log].last = cached.last
  BY <1>1, <1>2 DEF Database
<1> QED
  BY <1>1, <1>2, <1>3 DEF log

(* An immediate write...                                                    *)
LEMMA ImmediateWriteKeeps == ASSUME IInv, NEW w \in Writers, ImmediateWrite(w) PROVE IInv'
<1> DEFINE log == Append(cached.log, w)
           n   == Len(log)
           db  == [cached EXCEPT !.log = log, !.pub = n, !.last = NoId]
           R   == [here : BOOLEAN, log : Seq(Writers), pub : Nat, last : Ids]
<1>1. /\ TypeOK /\ cached' = db /\ durable' = [log |-> log, last |-> NoId]
      /\ UNCHANGED <<fixed, st, ans, marks, mailbox, svc, auth, queue, ready, next, executor,
                      history>>
  BY Zenon DEF IInv, ImmediateWrite
<1>2. log \in Seq(Writers) /\ n \in Nat /\ n <= Len(log)
  <2>1. log \in Seq(Writers) /\ Len(log) \in Nat
    BY <1>1, LogGrows, Zenon
  <2> QED
    BY <2>1
<1> HIDE DEF log, n
<1>3. db \in Database /\ db.here = cached.here /\ db.last = NoId
  <2>1. cached \in R /\ NoId \in Ids
    BY <1>1, Zenon DEF TypeOK, Database, Ids
  <2>2. db \in R
    BY <1>2, <2>1, Zenon
  <2>3. db.here = cached.here /\ db.log = log /\ db.pub = n /\ db.last = NoId
    BY <2>1, Zenon
  <2> QED
    BY <1>2, <2>2, <2>3, Zenon DEF Database
<1>4. [log |-> log, last |-> NoId] \in [log : Seq(Writers), last : Ids]
  BY <1>2, Zenon DEF Ids
<1> HIDE DEF db
<1> USE DEF fixed, marks, mailbox, executor, history
<1>5. TypeOK'
  BY <1>1, <1>3, <1>4, ZenonT(60) DEF TypeOK
<1>6. LastInv'
  BY <1>1, <1>3, Zenon DEF LastInv
<1>7. InstanceMatchesDatabase'
  BY <1>1, <1>3, Zenon DEF IInv, InstanceMatchesDatabase
<1> QED
  BY <1>1, <1>5, <1>6, <1>7, Frame, Zenon DEF IInv

(* ...that is confirmed or stops the service.                               *)
LEMMA ImmediateWriteFailsKeeps ==
    ASSUME IInv, NEW w \in Writers, ImmediateWriteFails(w)
    PROVE  IInv'
<1> DEFINE log == Append(cached.log, w)
           db  == [cached EXCEPT !.log = log]
<1>1. /\ TypeOK /\ cached' = db /\ svc' = "down"
      /\ \/ durable' = durable /\ auth' \in {auth, FALSE}
         \/ auth /\ durable' = [log |-> log, last |-> NoId] /\ auth' = FALSE
      /\ UNCHANGED <<fixed, st, ans, marks, mailbox, queue, ready, next, executor, history>>
  BY Zenon DEF IInv, ImmediateWriteFails
<1>2. log \in Seq(Writers) /\ db \in Database /\ db.here = cached.here /\ db.last = cached.last
  BY <1>1, LogGrows, Zenon
<1> HIDE DEF log, db
<1>3. [log |-> log, last |-> NoId] \in [log : Seq(Writers), last : Ids]
  BY <1>2, Zenon DEF Ids
<1> USE DEF fixed, marks, mailbox, executor, history
<1>4. TypeOK'
  <2>1. cached' \in Database /\ svc' \in {"up", "down"} /\ auth' \in BOOLEAN
    BY <1>1, <1>2, Zenon DEF TypeOK
  <2>2. durable' \in [log : Seq(Writers), last : Ids]
    BY <1>1, <1>3, Zenon DEF TypeOK
  <2> QED
    BY <1>1, <2>1, <2>2, Zenon DEF TypeOK
<1>5. LastInv'
  <2>1. CASE auth' = FALSE
    BY <2>1, Zenon DEF LastInv
  <2>2. CASE auth' # FALSE
    <3>1. durable' = durable /\ auth' = auth
      BY <1>1, <2>2, Zenon
    <3>2. /\ st' = st /\ rid' = rid /\ mode' = mode /\ cached'.last = cached.last
          /\ cached'.here = cached.here
      BY <1>1, <1>2, Zenon
    <3> QED
      BY <3>1, <3>2, Zenon DEF IInv, LastInv
  <2> QED
    BY <2>1, <2>2, Zenon
<1>6. StaleInv' /\ InstanceMatchesDatabase'
  BY <1>1, Zenon DEF StaleInv, InstanceMatchesDatabase
<1> QED
  BY <1>1, <1>4, <1>5, <1>6, Frame, Zenon DEF IInv

(* An invocation lets the next one start.                                   *)
LEMMA GrantKeeps == ASSUME IInv, NEW a \in Attempt, Grant(a) PROVE IInv'
<1>1. /\ TypeOK /\ mode = "interleaving" /\ st[a] = "execute" /\ ~granted[a]
      /\ granted' = [granted EXCEPT ![a] = TRUE] /\ grant' = TRUE
      /\ UNCHANGED <<fixed, st, ans, out, seq, view, mb, draining, pending, blocked, interleaved,
                      service, executor, durable, history>>
  BY Zenon DEF IInv, Grant
<1> USE DEF fixed, service, executor, history
<1>2. granted'[a] /\ \A b \in Attempt \ {a} : granted'[b] = granted[b]
  BY <1>1, Zenon DEF TypeOK
<1>3. TypeOK'
  BY <1>1, Zenon DEF TypeOK
<1>4. \A b \in Attempt : AttemptInv(b)'
  BY <1>1, <1>2, Zenon DEF IInv, AttemptInv, Waiting
<1>5. blocked = a
  BY <1>1, Zenon DEF IInv, BlockInv, Busy
<1>6. BlockInv'
  BY <1>1, <1>2, <1>5, Zenon DEF IInv, BlockInv
<1> QED
  BY <1>1, <1>3, <1>4, <1>6, Frame, Zenon DEF IInv

(* Authority ends.                                                          *)
LEMMA LoseAuthorityKeeps == ASSUME IInv, LoseAuthority PROVE IInv'
<1> USE DEF LoseAuthority, fixed, marks, mailbox, executor, history
<1>1. TypeOK'
  BY Zenon DEF IInv, TypeOK
<1>2. LastInv'
  BY Zenon DEF LastInv
<1> QED
  BY <1>1, <1>2, Frame, Zenon DEF IInv

(* An invocation is over; nobody else moves.                                *)
LEMMA RunningMoves ==
    ASSUME IInv, NEW a \in Attempt, st[a] \in {"execute", "killed"},
           NEW x \in {"complete", "done"}, st' = [st EXCEPT ![a] = x],
           NEW c \in Outcome, c.res # "unavailable",
           \/ x = "done" /\ out' = [out EXCEPT ![a] = c]
           \/ x = "complete" /\ out' = out,
           seq' \in [Attempt -> Nat], \A b \in Attempt \ {a} : seq'[b] = seq[b],
           mode = "interleaving" /\ x = "complete" => seq'[a] # 0,
           UNCHANGED <<fixed, ans, granted, mailbox, ready, inst, history>>
    PROVE  /\ MailboxInv'
           /\ \A b \in Attempt \ {a} : st'[b] = st[b]
           /\ st'[a] = x
           /\ ~(inst = "stale" /\ svc = "up")
<1>1. TypeOK /\ PendingInv /\ BlockInv /\ StopInv /\ CompletingInv /\ mb = "run" /\ ~drained
  BY Zenon DEF IInv, TypeOK, StopInv, Busy
<1>2. st'[a] = x /\ \A b \in Attempt \ {a} : st'[b] = st[b] /\ out'[b] = out[b]
  BY <1>1, Zenon DEF TypeOK
<1>3. st' \in [Attempt -> State] /\ out' \in [Attempt -> Outcome]
  <2>1. x \in State /\ st \in [Attempt -> State] /\ out \in [Attempt -> Outcome]
    BY <1>1, Zenon DEF TypeOK, State
  <2> QED
    BY <2>1, Zenon
<1> USE DEF fixed, mailbox, history
<1>4. MailboxTypeOK'
  BY <1>1, <1>3, Zenon DEF TypeOK, MailboxTypeOK
<1>5. ASSUME NEW b \in Attempt PROVE AttemptInv(b)'
  <2>1. AttemptInv(b)
    BY Zenon DEF IInv
  <2>2. CASE b = a
    <3>1. x = "done" => out'[a].res # "unavailable"
      BY <1>1, Zenon DEF TypeOK
    <3> QED
      BY <1>2, <2>1, <2>2, <3>1, Zenon DEF AttemptInv, Waiting
  <2>3. CASE b # a
    BY <1>2, <2>1, <2>3, Zenon DEF AttemptInv
  <2> QED
    BY <2>2, <2>3, Zenon
<1>6. PendingInv'
  <2>0. pending \in Seq(Attempt) /\ \A i \in 1..Len(pending) : st[pending[i]] = "queued"
    BY <1>1, Zenon DEF TypeOK, PendingInv
  <2>1. \A i \in 1..Len(pending) : pending[i] \in Attempt /\ st[pending[i]] = "queued"
    BY <2>0
  <2>2. \A i \in 1..Len(pending) : st'[pending[i]] = "queued"
    BY <1>2, <2>1, Zenon
  <2> QED
    BY <1>1, <2>2, Zenon DEF PendingInv
<1>7. BlockInv'
  BY <1>1, <1>2, Zenon DEF TypeOK, BlockInv, Busy, Writers
<1>8. StopInv'
  BY <1>1, <1>2, Zenon DEF StopInv
<1>9. mode # "interleaving" => blocked = a /\ \A b \in Attempt \ {a} : st[b] \notin Busy
  BY <1>1, Zenon DEF BlockInv, Busy
<1>10. CompletingInv'
  <2>1. \A b \in ready : Completing(b)'
    BY <1>1, <1>2, Zenon DEF TypeOK, CompletingInv, Completing
  <2>2. \A b \in Attempt : Completing(b)' => b = a \/ st[b] = "complete"
    BY <1>1, <1>2, Zenon DEF Completing, StopInv
  <2>3. mode # "interleaving" => \A b \in Attempt : Completing(b)' => b = a
    BY <1>9, <2>2, Zenon DEF Busy
  <2>4. mode = "interleaving" => \A b \in Attempt : Completing(b)' => seq'[b] # 0
    BY <1>1, <1>2, <2>2, Zenon DEF CompletingInv, Completing
  <2> QED
    BY <2>1, <2>3, <2>4, Zenon DEF CompletingInv
<1>11. ~(inst = "stale" /\ svc = "up")
  BY <1>9, Zenon DEF IInv, StaleInv
<1> QED
  BY <1>2, <1>4, <1>5, <1>6, <1>7, <1>8, <1>10, <1>11, Zenon DEF MailboxInv

(* A method returned: its commit is known, its completion to be published.  *)
LEMMA ReturnKeeps == ASSUME IInv, NEW a \in Attempt, Return(a) PROVE IInv'
<1> DEFINE c == Completion("failed", "reset", "none")
<1>1. /\ TypeOK /\ st[a] = "execute" /\ cached.here
      /\ cached' = cached \/ cached' = [cached EXCEPT !.log = Append(cached.log, a)]
      /\ view' = [view EXCEPT ![a] = cached'.log]
      /\ \/ mode = "interleaving" /\ lastseq' = lastseq + 1 /\ seq' = [seq EXCEPT ![a] = lastseq']
         \/ mode # "interleaving" /\ UNCHANGED <<lastseq, seq>>
      /\ \/ st' = [st EXCEPT ![a] = "complete"] /\ out' = out
         \/ Finish(a, c)
      /\ UNCHANGED <<fixed, ans, granted, mailbox, svc, auth, ready, next, inst, durable, history>>
  BY Zenon DEF IInv, Return
<1>2. c \in Outcome /\ c.res # "unavailable"
  BY Zenon DEF Completion, Outcome, Result
<1> HIDE DEF c
<1>3. PICK x \in {"complete", "done"} :
        /\ st' = [st EXCEPT ![a] = x]
        /\ \/ x = "done" /\ out' = [out EXCEPT ![a] = c]
           \/ x = "complete" /\ out' = out
  BY <1>1, Zenon DEF Finish
<1>4. /\ seq' \in [Attempt -> Nat] /\ lastseq' \in Nat
      /\ \A b \in Attempt \ {a} : seq'[b] = seq[b]
      /\ mode = "interleaving" => seq'[a] # 0
  <2>1. seq \in [Attempt -> Nat] /\ lastseq \in Nat
    BY <1>1, Zenon DEF TypeOK
  <2>2. CASE mode = "interleaving"
    <3>1. lastseq' = lastseq + 1 /\ seq' = [seq EXCEPT ![a] = lastseq']
      BY <1>1, <2>2, Zenon
    <3>2. lastseq' \in Nat /\ lastseq' # 0
      BY <2>1, <3>1
    <3> QED
      BY <2>1, <3>1, <3>2, Zenon
  <2>3. CASE mode # "interleaving"
    BY <1>1, <2>1, <2>3, Zenon
  <2> QED
    BY <2>2, <2>3, Zenon
<1>5. /\ MailboxInv' /\ \A b \in Attempt \ {a} : st'[b] = st[b]
      /\ st'[a] = x /\ ~(inst = "stale" /\ svc = "up")
  BY <1>1, <1>2, <1>3, <1>4, RunningMoves, ZenonT(60)
<1>6. cached' \in Database /\ cached'.here = cached.here /\ cached'.last = cached.last
  <2>1. a \in Writers /\ cached \in Database
    BY <1>1, Zenon DEF TypeOK, Writers
  <2>2. CASE cached' = cached
    BY <2>1, <2>2, Zenon
  <2>3. CASE cached' = [cached EXCEPT !.log = Append(cached.log, a)]
    BY <1>1, <2>1, <2>3, LogGrows, Zenon
  <2> QED
    BY <1>1, <2>2, <2>3, Zenon
<1>7. view' \in [Attempt -> Seq(Writers)]
  BY <1>1, <1>6, Zenon DEF TypeOK, Database
<1>8. ServiceTypeOK'
  BY <1>1, <1>4, <1>6, <1>7, Zenon DEF TypeOK, ServiceTypeOK, fixed, mailbox, history
<1>9. LastInv'
  BY <1>1, <1>5, <1>6, Zenon DEF IInv, LastInv, fixed
<1>10. InstanceMatchesDatabase'
  BY <1>1, <1>5, <1>6, Zenon DEF IInv, InstanceMatchesDatabase
<1>11. StaleInv'
  BY <1>1, <1>5, Zenon DEF StaleInv
<1> QED
  BY <1>5, <1>8, <1>9, <1>10, <1>11, Assembled, Zenon

(* A method failed, or its worker did.                                      *)
LEMMA FailKeeps == ASSUME IInv, NEW a \in Attempt, Fail(a) PROVE IInv'
<1>1. /\ TypeOK /\ st[a] \in {"execute", "killed"}
      /\ UNCHANGED <<fixed, ans, granted, seq, view, mailbox, service, executor, durable, history>>
  BY Zenon DEF IInv, Fail
<1>2. /\ \A v \in {"keep", "reset"}, k \in {"user", "lookup", "fatal"} :
           Completion("failed", v, k) \in Outcome /\ Completion("failed", v, k).res # "unavailable"
  BY Zenon DEF Completion, Outcome, Result
<1>3. PICK c \in Outcome : c.res # "unavailable" /\ Finish(a, c)
  BY <1>2, Zenon DEF Fail
<1>4. st' = [st EXCEPT ![a] = "done"] /\ out' = [out EXCEPT ![a] = c]
  BY <1>1, <1>3, Zenon DEF Finish
<1>5. /\ MailboxInv' /\ \A b \in Attempt \ {a} : st'[b] = st[b]
      /\ st'[a] = "done" /\ ~(inst = "stale" /\ svc = "up")
  BY <1>1, <1>3, <1>4, RunningMoves, Zenon DEF TypeOK, service, executor
<1>6. ServiceTypeOK'
  BY <1>1, Zenon DEF TypeOK, ServiceTypeOK, fixed, mailbox, service, executor, history
<1>7. LastInv' /\ InstanceMatchesDatabase'
  BY <1>1, <1>5, Zenon DEF IInv, LastInv, InstanceMatchesDatabase, fixed, service, executor
<1>8. StaleInv'
  BY <1>1, <1>5, Zenon DEF StaleInv, service, executor
<1> QED
  BY <1>5, <1>6, <1>7, <1>8, Assembled, Zenon

(* The next host activates the actor.                                       *)
LEMMA ActivateKeeps == ASSUME IInv, Activate PROVE IInv'
<1>1. /\ TypeOK /\ mb = "stopped" /\ mb' = "run" /\ draining' = FALSE /\ interleaved' = FALSE
      /\ drained' = FALSE /\ svc' = "up" /\ auth' = TRUE /\ ready' = {}
      /\ cached' \in Hydrated(Loaded) /\ inst' = "live" /\ lastseq' = 0
      /\ st' = [a \in Attempt |-> IF st[a] = "orphan" THEN "answered" ELSE st[a]]
      /\ Forget(st') /\ UNCHANGED <<fixed, ans, view, pending, blocked, grant, durable, ran>>
  BY Zenon DEF IInv, Activate
<1>2. /\ pending = <<>> /\ blocked = NoAttempt
      /\ \A a \in Attempt : st[a] \notin Busy
  BY <1>1, Zenon DEF IInv, TypeOK, StopInv, BlockInv, Writers
<1>3. \A a \in Attempt : st'[a] \notin Busy /\ st'[a] # "orphan"
                         /\ (st'[a] = st[a] \/ st'[a] = "answered")
  BY <1>1, <1>2, Zenon DEF Busy
<1>4. st' \in [Attempt -> State]
  BY <1>1, Zenon DEF TypeOK, State
<1>5. /\ out' \in [Attempt -> Outcome] /\ granted' \in [Attempt -> BOOLEAN]
      /\ seq' \in [Attempt -> Nat]
      /\ \A a \in Attempt : granted'[a] => granted[a]
  BY <1>1, <1>4, Forgotten, Zenon
<1>6. MailboxInv'
  <2>1. MailboxTypeOK'
    BY <1>1, <1>4, <1>5, Zenon DEF TypeOK, MailboxTypeOK
  <2>2. ASSUME NEW a \in Attempt PROVE AttemptInv(a)'
    BY <1>1, <1>3, <1>5, Zenon DEF IInv, AttemptInv, Waiting, Busy
  <2>3. PendingInv'
    BY <1>1, <1>2 DEF PendingInv
  <2>4. BlockInv'
    BY <1>1, <1>2, <1>3, <1>5, Zenon DEF IInv, BlockInv, fixed
  <2>5. StopInv'
    BY <1>1, <1>3, Zenon DEF StopInv
  <2>6. CompletingInv'
    BY <1>1, <1>3, Zenon DEF CompletingInv, Completing, Busy
  <2> QED
    BY <2>1, <2>2, <2>3, <2>4, <2>5, <2>6, Zenon DEF MailboxInv
<1>7. Loaded \in Database /\ Loaded.last = durable.last
  <2>1. durable.log \in Seq(Writers) /\ Len(durable.log) \in Nat /\ durable.last \in Ids
    BY <1>1 DEF TypeOK
  <2> QED
    BY <2>1 DEF Loaded, Database
<1>8. cached' \in Database /\ cached'.last = durable.last
  BY <1>1, <1>7, HydratedType, Zenon
<1>9. ServiceTypeOK'
  BY <1>1, <1>8, Zenon DEF TypeOK, ServiceTypeOK, fixed
<1>10. LastInv'
  BY <1>1, <1>3, <1>8, Zenon DEF LastInv, Busy
<1>11. StaleInv' /\ InstanceMatchesDatabase'
  BY <1>1, <1>3, Zenon DEF StaleInv, InstanceMatchesDatabase, Busy
<1> QED
  BY <1>6, <1>9, <1>10, <1>11, Assembled, Zenon

-----------------------------------------------------------------------------
(* The invariant is inductive.                                              *)

(* No host has the actor: nothing runs.                                     *)
LEMMA Initially == ASSUME Init PROVE IInv
<1> USE DEF Init
<1>1. NoCompletion \in Outcome
  BY Outcomes, Zenon DEF NoCompletion
<1>2. NoDatabase \in Database /\ ~NoDatabase.here
  BY EmptySeq DEF NoDatabase, Database, Ids
<1>3. [log |-> <<>>, last |-> NoId] \in [log : Seq(Writers), last : Ids]
  BY EmptySeq, Zenon DEF Ids
<1>4. /\ rid \in [Attempt -> Ids] /\ pending \in Seq(Attempt) /\ blocked \in Writers
      /\ view \in [Attempt -> Seq(Writers)] /\ st \in [Attempt -> State]
  BY EmptySeq, Zenon DEF Ids, Writers, State
<1>5. ans \in [Attempt -> Result \cup {"none"}] /\ out \in [Attempt -> Outcome]
  BY <1>1, Zenon
<1>6. granted \in [Attempt -> BOOLEAN] /\ seq \in [Attempt -> Nat]
  OBVIOUS
<1>7. /\ mb \in {"run", "evicting", "stopped"} /\ draining \in BOOLEAN /\ interleaved \in BOOLEAN
      /\ grant \in BOOLEAN /\ svc \in {"up", "down"} /\ auth \in BOOLEAN /\ ready \subseteq Attempt
      /\ inst \in {"none", "live", "stale"} /\ ran \subseteq Attempt /\ drained \in BOOLEAN
  BY Zenon
<1>8. TypeOK
  BY <1>2, <1>3, <1>4, <1>5, <1>6, <1>7, Zenon DEF TypeOK
<1>9. \A a \in Attempt : st[a] = "new" /\ ans[a] = "none" /\ ~granted[a] /\ a \notin ran
  BY Zenon
<1>10. \A a \in Attempt : AttemptInv(a)
  BY <1>9, Zenon DEF AttemptInv, Waiting
<1>11. PendingInv
  BY DEF PendingInv
<1>12. BlockInv /\ StopInv /\ CompletingInv
  BY <1>9, Zenon DEF BlockInv, StopInv, CompletingInv, Completing, Busy
<1>13. StaleInv /\ LastInv /\ InstanceMatchesDatabase
  BY <1>9, Zenon DEF StaleInv, LastInv, InstanceMatchesDatabase
<1> QED
  BY <1>8, <1>10, <1>11, <1>12, <1>13, Zenon DEF IInv

LEMMA SettlementKeeps == ASSUME IInv, NEW a \in Attempt, Settlement(a) PROVE IInv'
<1>1. CASE Receive(a)
  BY <1>1, ReceiveKeeps, Zenon
<1>2. CASE Complete(a)
  <2>1. "completed" # "unavailable" /\ auth' = auth
    BY <1>2, Zenon DEF Complete
  <2> QED
    BY <1>2, <2>1, ConfirmedKeeps, Outcomes, Zenon DEF Complete
<1>3. CASE CompleteLate(a)
  <2>1. "error" # "unavailable" /\ auth' = FALSE
    BY <1>3, Zenon DEF CompleteLate
  <2> QED
    BY <1>3, <2>1, ConfirmedKeeps, Outcomes, Zenon DEF CompleteLate
<1>4. CASE CompleteUnconfirmed(a)
  BY <1>4, CompleteUnconfirmedKeeps, Zenon
<1>5. CASE CompleteRefused(a)
  BY <1>5, CompleteRefusedKeeps, Zenon
<1>6. CASE CompleteStopped(a)
  BY <1>6, CompleteStoppedKeeps, Zenon
<1> QED
  BY <1>1, <1>2, <1>3, <1>4, <1>5, <1>6, Zenon DEF Settlement

LEMMA StutterKeeps == ASSUME IInv, UNCHANGED vars PROVE IInv'
<1> USE DEF vars, fixed, marks, mailbox, service, executor, history
<1>1. TypeOK'
  BY Zenon DEF IInv, TypeOK
<1> QED
  BY <1>1, Frame, Zenon DEF IInv

LEMMA Inductive == ASSUME IInv, [Next]_vars PROVE IInv'
<1>1. CASE Drain
  BY <1>1, DrainKeeps, Zenon
<1>2. CASE AdmitNext
  BY <1>2, AdmitNextKeeps, Zenon
<1>3. CASE Stopped
  BY <1>3, StoppedKeeps, Zenon
<1>4. CASE EvictDrained
  BY <1>4, EvictDrainedKeeps, Zenon
<1>5. CASE LoseAuthority
  BY <1>5, LoseAuthorityKeeps, Zenon
<1>6. CASE Activate
  BY <1>6, ActivateKeeps, Zenon
<1>7. ASSUME NEW a \in Attempt,
             \/ SubmitRefused(a) \/ Submit(a) \/ Prepare(a) \/ Settlement(a)
             \/ Grant(a) \/ Return(a) \/ Fail(a) \/ Executed(a) \/ ExecutedStop(a)
      PROVE  IInv'
  <2>1. CASE SubmitRefused(a) \/ Submit(a)
    BY <2>1, SubmitRefusedKeeps, SubmitKeeps, Zenon
  <2>2. CASE Prepare(a)
    BY <2>2, PrepareFailsKeeps, ReplayKeeps, ExecuteKeeps, Zenon DEF Prepare
  <2>3. CASE Settlement(a)
    BY <2>3, SettlementKeeps, Zenon
  <2>4. CASE Grant(a) \/ Return(a) \/ Fail(a)
    BY <2>4, GrantKeeps, ReturnKeeps, FailKeeps, Zenon
  <2>5. CASE Executed(a) \/ ExecutedStop(a)
    BY <2>5, ExecutedKeeps, ExecutedStopKeeps, Zenon
  <2> QED
    BY <1>7, <2>1, <2>2, <2>3, <2>4, <2>5, Zenon
<1>8. ASSUME NEW w \in Writers, ImmediateWrite(w) \/ ImmediateWriteFails(w) PROVE IInv'
  BY <1>8, ImmediateWriteKeeps, ImmediateWriteFailsKeeps, Zenon
<1>9. CASE UNCHANGED vars
  BY <1>9, StutterKeeps, Zenon
<1> QED
  BY <1>1, <1>2, <1>3, <1>4, <1>5, <1>6, <1>7, <1>8, <1>9, Zenon DEF Next

(* The newest snapshot changes by an immediate write, which answers no      *)
(* request, or by a completion under authority, which records its request.  *)
LEMMA DurableMoves ==
    ASSUME IInv, Next, durable' # durable
    PROVE  \/ \E w \in Writers : Calling(w) /\ durable'.last = NoId
           \/ \E a \in Attempt : Completing(a) /\ auth /\ durable'.last = rid[a]
<1> DEFINE Goal == \/ \E w \in Writers : Calling(w) /\ durable'.last = NoId
                   \/ \E a \in Attempt : Completing(a) /\ auth /\ durable'.last = rid[a]
<1>1. ~(Drain \/ AdmitNext \/ Stopped \/ EvictDrained \/ LoseAuthority \/ Activate)
  BY Zenon DEF Drain, AdmitNext, Stopped, EvictDrained, LoseAuthority, Activate
<1>2. ASSUME NEW a \in Attempt
      PROVE  ~(\/ SubmitRefused(a) \/ Submit(a) \/ Prepare(a) \/ Grant(a) \/ Return(a) \/ Fail(a)
               \/ Executed(a) \/ ExecutedStop(a) \/ Receive(a) \/ CompleteStopped(a))
  <2>1. ~(SubmitRefused(a) \/ Submit(a) \/ Prepare(a))
    BY Zenon DEF SubmitRefused, Submit, Prepare, PrepareFails, Replay, Execute
  <2>2. ~(Grant(a) \/ Return(a) \/ Fail(a) \/ Executed(a) \/ ExecutedStop(a))
    BY Zenon DEF Grant, Return, Fail, Executed, ExecutedStop
  <2>3. ~(Receive(a) \/ CompleteStopped(a))
    BY Zenon DEF Receive, CompleteStopped
  <2> QED
    BY <2>1, <2>2, <2>3, Zenon
<1>3. ASSUME NEW w \in Writers, ImmediateWrite(w) \/ ImmediateWriteFails(w) PROVE Goal
  <2>1. Calling(w) /\ durable' = [log |-> Append(cached.log, w), last |-> NoId]
    BY <1>3, Zenon DEF ImmediateWrite, ImmediateWriteFails
  <2> QED
    BY <2>1, Zenon
<1>4. ASSUME NEW a \in Attempt,
             Complete(a) \/ CompleteLate(a) \/ CompleteUnconfirmed(a) \/ CompleteRefused(a)
      PROVE  Goal
  <2>1. /\ Completing(a) /\ Capturable(a) /\ durable' = Published(a)
        /\ auth \/ ~Publishes(a)
    <3>1. CASE Complete(a) \/ CompleteLate(a)
      BY <3>1, Zenon DEF Complete, CompleteLate, Confirmed, Turn
    <3>2. CASE CompleteUnconfirmed(a)
      BY <3>2, Zenon DEF CompleteUnconfirmed, Turn
    <3>3. CASE CompleteRefused(a)
      BY <3>3, Zenon DEF CompleteRefused, Turn
    <3> QED
      BY <1>4, <3>1, <3>2, <3>3, Zenon
  <2>2. Publishes(a) /\ durable'.last = rid[a]
    BY <2>1, PublishedType, Zenon DEF IInv
  <2> QED
    BY <2>1, <2>2, Zenon
<1> QED
  BY <1>1, <1>2, <1>3, <1>4, Zenon DEF Next, Settlement

-----------------------------------------------------------------------------
(* A request answered as unavailable was never given to the executor, on    *)
(* any host: the control plane may send it elsewhere.                       *)
THEOREM UnavailableIsRetryable == Spec => []UnavailableNeverRan
<1>1. IInv => UnavailableNeverRan
  BY Zenon DEF IInv, AttemptInv, UnavailableNeverRan
<1> QED
  BY <1>1, Initially, Inductive, PTL DEF Spec

(* Of two invocations that run at once, one has let the other start.        *)
THEOREM ExecutionIsSerial == Spec => []SerialUnlessGranted
<1>1. IInv => SerialUnlessGranted
  BY Zenon DEF IInv, BlockInv, SerialUnlessGranted, Busy
<1> QED
  BY <1>1, Initially, Inductive, PTL DEF Spec

(* While the service is up, an invocation runs on the instance that was     *)
(* hydrated from the resident database.                                     *)
THEOREM InstanceIsCurrent == Spec => []InstanceMatchesDatabase
<1>1. IInv => InstanceMatchesDatabase
  BY Zenon DEF IInv
<1> QED
  BY <1>1, Initially, Inductive, PTL DEF Spec

(* Once an actor was drained, nothing of it is published until a host       *)
(* activates it again.                                                      *)
THEOREM DrainIsFinal == Spec => DrainedIsQuiet
<1>1. ASSUME IInv, [Next]_vars PROVE [drained => durable' = durable]_vars
  <2>1. CASE Next
    <3>1. SUFFICES ASSUME drained, durable' # durable PROVE FALSE
      BY Zenon
    <3>2. /\ mb = "stopped" /\ \A a \in Attempt : ~Completing(a) /\ st[a] \notin Busy
      BY <1>1, <3>1, Zenon DEF IInv, StopInv
    <3>3. \A w \in Writers : ~Calling(w)
      BY <3>2, Zenon DEF Calling, Writers, Busy
    <3> QED
      BY <1>1, <2>1, <3>1, <3>2, <3>3, DurableMoves, Zenon
  <2>2. CASE UNCHANGED vars
    BY <2>2, Zenon
  <2> QED
    BY <1>1, <2>1, <2>2, Zenon
<1> QED
  BY <1>1, Initially, Inductive, PTL DEF Spec, DrainedIsQuiet

(* A serial actor does not commit a request again while the snapshot of its *)
(* first attempt is the newest.                                             *)
THEOREM RetryCommitsOnce == Spec => CompletedOnce
<1>1. ASSUME IInv, [Next]_vars
      PROVE  [mode = "serial" /\ durable' # durable /\ durable'.last # NoId
                => durable'.last # durable.last]_vars
  <2>1. CASE Next
    <3>1. SUFFICES ASSUME mode = "serial", durable' # durable, durable'.last # NoId
                   PROVE  durable'.last # durable.last
      BY Zenon
    <3>2. PICK a \in Attempt : Completing(a) /\ auth /\ durable'.last = rid[a]
      BY <1>1, <2>1, <3>1, DurableMoves, Zenon
    <3>3. st[a] \in {"execute", "complete", "orphan"} /\ mode # "interleaving"
      BY <3>1, <3>2, Zenon DEF Completing
    <3> QED
      BY <1>1, <3>1, <3>2, <3>3, Zenon DEF IInv, LastInv
  <2>2. CASE UNCHANGED vars
    BY <2>2, Zenon
  <2> QED
    BY <1>1, <2>1, <2>2, Zenon
<1> QED
  BY <1>1, Initially, Inductive, PTL DEF Spec, CompletedOnce

-----------------------------------------------------------------------------
(* What a caller is told to be completed is in the newest snapshot.         *)
(*                                                                          *)
(* The difficult part is a database that is dropped while completions of an *)
(* interleaving actor wait for their predecessors, and loaded again from    *)
(* the newest snapshot.  Completions that saw the dropped one must not be   *)
(* confirmed against the loaded one: they never get their turn, as a number *)
(* below theirs is missing.  The invariant is a second one, preserved by    *)
(* the steps from states that satisfy IInv.                                 *)

Prefix(p, q) == Len(p) <= Len(q) /\ \A i \in 1..Len(p) : p[i] = q[i]

(* A completion that never gets its turn: a number below its own is missing.*)
Missing(n) == \A b \in Attempt : Completing(b) => seq[b] # n
Stuck(a) == \E n \in next..(seq[a] - 1) : Missing(n)

(* What a host with authority has loaded continues the newest snapshot.     *)
ResidentInv ==
    auth /\ cached.here =>
        /\ cached.pub = Len(durable.log)
        /\ \A i \in 1..cached.pub : cached.log[i] = durable.log[i]

(* A completion that gets its turn saw a part of the resident database.     *)
SeenInv ==
    svc = "up" /\ auth /\ cached.here =>
        \A a \in Attempt : Completing(a) /\ ~Stuck(a) => Prefix(view[a], cached.log)

(* What is reported as completed, or about to be, is in the snapshot.       *)
Told(a) == ans[a] = "completed" \/ (st[a] = "done" /\ out[a].res = "completed")
ToldInv == \A a \in Attempt : Told(a) => Prefix(view[a], durable.log)

(* The numbers of the completions.                                          *)
NumberInv ==
    /\ next \in Nat /\ 0 < next /\ next <= lastseq + 1
    /\ mode # "interleaving" => \A a \in Attempt : seq[a] = 0
    /\ \A a \in Attempt : Completing(a) => seq[a] <= lastseq
    /\ \A a \in Attempt : Completing(a) /\ svc = "up" /\ seq[a] # 0 => next <= seq[a]
    /\ \A a, b \in Attempt :
         Completing(a) /\ Completing(b) /\ seq[a] # 0 /\ seq[a] = seq[b] => a = b

(* The order of the commands.  Without a resident database no completion is *)
(* behind a request to prepare.                                             *)
QueueInv ==
    /\ queue \in [Attempt -> SUBSET Attempt]
    /\ \A a, b \in Attempt : b \in queue[a] /\ Completing(a) => st[b] = "prepare"
    /\ \A a, b \in Attempt :
         st[a] = "prepare" /\ Completing(b) /\ b \notin ready => b \in queue[a] \/ a \in queue[b]
    /\ svc = "up" /\ ~cached.here => \A a \in Attempt : Completing(a) => queue[a] = {}

(* Who may have the database reset has nobody behind it, or stops the host. *)
Resets(a) ==
    \/ ~granted[a]
    \/ seq[a] # 0 /\ out[a].res # "completed"
    \/ a \in ran /\ seq[a] = 0 /\ out[a].code = "fatal"

ResetInv ==
    /\ \A a \in Attempt : st[a] \in Busy /\ blocked # a => interleaved
    /\ \A a \in Attempt : st[a] \in {"execute", "killed"} => a \in ran
    /\ \A a \in Attempt : st[a] = "done" /\ out[a].rec = "reset" => Resets(a)

DurableInv == ResidentInv /\ SeenInv /\ ToldInv /\ NumberInv /\ QueueInv /\ ResetInv

-----------------------------------------------------------------------------
LEMMA PrefixOfItself == ASSUME NEW p \in Seq(Writers) PROVE Prefix(p, p)
BY DEF Prefix

LEMMA PrefixOfPrefix ==
    ASSUME NEW p \in Seq(Writers), NEW q \in Seq(Writers), NEW r \in Seq(Writers),
           Prefix(p, q), Prefix(q, r)
    PROVE  Prefix(p, r)
<1>1. Len(p) \in Nat /\ Len(q) \in Nat /\ Len(r) \in Nat
  OBVIOUS
<1> QED
  BY <1>1 DEF Prefix

LEMMA PrefixOfAppend ==
    ASSUME NEW q \in Seq(Writers), NEW w \in Writers
    PROVE  Prefix(q, Append(q, w))
<1> DEFINE r == Append(q, w)
<1>1. r \in Seq(Writers) /\ Len(r) = Len(q) + 1 /\ \A i \in 1..Len(q) : r[i] = q[i]
  BY AppendProperties
<1>2. Len(q) \in Nat
  OBVIOUS
<1> HIDE DEF r
<1>3. Prefix(q, r)
  BY <1>1, <1>2 DEF Prefix
<1> QED
  BY <1>3 DEF r

(* What a step does to the databases: the newest snapshot only grows, and   *)
(* so does the resident database unless it is loaded again.                 *)
Continued ==
    /\ ResidentInv' /\ Prefix(durable.log, durable'.log)
    /\ svc' = "up" /\ auth' /\ cached'.here =>
         /\ svc = "up" /\ auth
         /\ \/ cached.here /\ Prefix(cached.log, cached'.log)
            \/ \A b \in Attempt : Completing(b) => Stuck(b)

(* What a step does to the completions: those that remain are as before.    *)
Turned ==
    \/ next' = next
    \/ \E a \in Attempt : Completing(a) /\ seq[a] = next /\ ~Completing(a)' /\ next' = next + 1

Remain ==
    \A b \in Attempt : Completing(b)' => Completing(b) /\ view'[b] = view[b] /\ seq'[b] = seq[b]

LEMMA StuckStays ==
    ASSUME IInv, NumberInv, Remain, Turned, NEW b \in Attempt, Completing(b)', Stuck(b)
    PROVE  Stuck(b)'
<1>1. PICK n \in next..(seq[b] - 1) : Missing(n)
  BY Zenon DEF Stuck
<1>2. next \in Nat /\ seq[b] \in Nat /\ seq'[b] = seq[b]
  BY Zenon DEF IInv, TypeOK, NumberInv, Remain
<1>3. Missing(n)'
  BY <1>1, Zenon DEF Missing, Remain
<1>4. next' = next \/ (next' = next + 1 /\ n # next)
  BY <1>1, Zenon DEF Turned, Missing
<1>5. n \in next'..(seq'[b] - 1)
  BY <1>1, <1>2, <1>4
<1> QED
  BY <1>3, <1>5, Zenon DEF Stuck

LEMMA SeenStays ==
    ASSUME IInv, IInv', SeenInv, NumberInv, Continued, Remain, Turned
    PROVE  SeenInv'
<1> SUFFICES ASSUME svc' = "up", auth', cached'.here,
                    NEW b \in Attempt, Completing(b)', ~Stuck(b)'
             PROVE  Prefix(view[b], cached'.log) /\ view'[b] = view[b]
  BY Zenon DEF SeenInv
<1>1. Completing(b) /\ view'[b] = view[b] /\ ~Stuck(b)
  BY StuckStays, Zenon DEF Remain
<1>2. svc = "up" /\ auth /\ cached.here /\ Prefix(cached.log, cached'.log)
  BY <1>1, Zenon DEF Continued
<1>3. Prefix(view[b], cached.log)
  BY <1>1, <1>2, Zenon DEF SeenInv
<1>4. view[b] \in Seq(Writers) /\ cached.log \in Seq(Writers) /\ cached'.log \in Seq(Writers)
  BY Zenon DEF IInv, TypeOK, Database
<1> QED
  BY <1>1, <1>2, <1>3, <1>4, PrefixOfPrefix, Zenon

(* What a step does to the answers.                                         *)
Tells ==
    \A b \in Attempt : Told(b)' =>
        (Told(b) /\ view'[b] = view[b]) \/ Prefix(view'[b], durable'.log)

LEMMA ToldStays ==
    ASSUME IInv, IInv', ToldInv, Prefix(durable.log, durable'.log), Tells
    PROVE  ToldInv'
<1> SUFFICES ASSUME NEW b \in Attempt, Told(b)' PROVE Prefix(view'[b], durable'.log)
  BY Zenon DEF ToldInv
<1>1. CASE Told(b) /\ view'[b] = view[b]
  <2>1. Prefix(view[b], durable.log)
    BY <1>1, Zenon DEF ToldInv
  <2>2. view[b] \in Seq(Writers) /\ durable.log \in Seq(Writers) /\ durable'.log \in Seq(Writers)
    BY Zenon DEF IInv, TypeOK
  <2> QED
    BY <1>1, <2>1, <2>2, PrefixOfPrefix, Zenon
<1> QED
  BY <1>1, Zenon DEF Tells

LEMMA NumbersStay ==
    ASSUME IInv, IInv', NumberInv, Remain, Turned, UNCHANGED <<mode, lastseq>>,
           svc' = "up" => svc = "up",
           \A b \in Attempt : seq'[b] = seq[b] \/ seq'[b] = 0
    PROVE  NumberInv'
<1>1. next \in Nat /\ 0 < next /\ next <= lastseq + 1 /\ lastseq \in Nat
      /\ \A b \in Attempt : seq[b] \in Nat
  BY Zenon DEF IInv, TypeOK, NumberInv
<1>2. next' \in Nat /\ 0 < next' /\ next' <= lastseq + 1
  <2>1. CASE next' = next
    BY <1>1, <2>1
  <2>2. CASE next' # next
    <3>1. PICK a \in Attempt : Completing(a) /\ seq[a] = next /\ next' = next + 1
      BY <2>2, Zenon DEF Turned
    <3>2. seq[a] <= lastseq
      BY <3>1, Zenon DEF NumberInv
    <3> QED
      BY <1>1, <3>1, <3>2
  <2> QED
    BY <2>1, <2>2, Zenon
<1>3. mode' # "interleaving" => \A b \in Attempt : seq'[b] = 0
  BY Zenon DEF NumberInv
<1>4. \A b \in Attempt : Completing(b)' => seq'[b] <= lastseq'
  BY Zenon DEF NumberInv, Remain
<1>5. ASSUME NEW b \in Attempt, Completing(b)', svc' = "up", seq'[b] # 0 PROVE next' <= seq'[b]
  <2>1. Completing(b) /\ seq'[b] = seq[b] /\ seq[b] # 0 /\ next <= seq[b]
    BY <1>5, Zenon DEF NumberInv, Remain
  <2>2. CASE next' = next
    BY <2>1, <2>2
  <2>3. CASE next' # next
    <3>1. PICK a \in Attempt : Completing(a) /\ seq[a] = next /\ next' = next + 1 /\ ~Completing(a)'
      BY <2>3, Zenon DEF Turned
    <3>2. seq[b] # next
      BY <1>5, <2>1, <3>1, Zenon DEF NumberInv
    <3> QED
      BY <1>1, <2>1, <3>1, <3>2
  <2> QED
    BY <2>2, <2>3, Zenon
<1>6. \A a, b \in Attempt :
         Completing(a)' /\ Completing(b)' /\ seq'[a] # 0 /\ seq'[a] = seq'[b] => a = b
  BY Zenon DEF NumberInv, Remain
<1> QED
  BY <1>2, <1>3, <1>4, <1>5, <1>6, Zenon DEF NumberInv

(* What a step does to the commands on their way: those of gone arrive.     *)
Taken(gone) ==
    /\ queue' \in [Attempt -> SUBSET Attempt]
    /\ \A c, d \in Attempt : d \in queue'[c] <=> c \notin gone /\ d \in queue[c] /\ d \notin gone
    /\ \A c \in Attempt :
         /\ st'[c] = "prepare" <=> st[c] = "prepare" /\ c \notin gone
         /\ Completing(c)' /\ c \notin ready' => c \notin ready /\ c \notin gone
    /\ svc' = "up" /\ ~cached'.here =>
         \/ svc = "up" /\ ~cached.here
         \/ \A c, d \in Attempt : Completing(c)' => st[d] # "prepare"

LEMMA QueueStays ==
    ASSUME QueueInv, Remain, NEW gone \in SUBSET Attempt, Taken(gone)
    PROVE  QueueInv'
<1>1. queue' \in [Attempt -> SUBSET Attempt]
  BY Zenon DEF Taken
<1>3. \A c, d \in Attempt : d \in queue'[c] <=> c \notin gone /\ d \in queue[c] /\ d \notin gone
  BY Zenon DEF Taken
<1>4. \A c \in Attempt : st'[c] = "prepare" <=> st[c] = "prepare" /\ c \notin gone
  BY Zenon DEF Taken
<1>5. \A c, d \in Attempt : d \in queue'[c] /\ Completing(c)' => st'[d] = "prepare"
  BY <1>3, <1>4, Zenon DEF QueueInv, Remain
<1>6. ASSUME NEW c \in Attempt, NEW d \in Attempt,
             st'[c] = "prepare", Completing(d)', d \notin ready'
      PROVE  d \in queue'[c] \/ c \in queue'[d]
  <2>1. st[c] = "prepare" /\ c \notin gone /\ d \notin gone /\ d \notin ready /\ Completing(d)
    BY <1>4, <1>6, Zenon DEF Remain, Taken
  <2>2. d \in queue[c] \/ c \in queue[d]
    BY <2>1, Zenon DEF QueueInv
  <2> QED
    BY <1>3, <2>1, <2>2, Zenon
<1>7. ASSUME svc' = "up", ~cached'.here, NEW c \in Attempt, Completing(c)' PROVE queue'[c] = {}
  <2>1. queue[c] \subseteq Attempt /\ Completing(c) /\ queue'[c] \subseteq queue[c]
    BY <1>1, <1>3, <1>7, Zenon DEF QueueInv, Remain
  <2>2. CASE svc = "up" /\ ~cached.here
    BY <2>1, <2>2, Zenon DEF QueueInv
  <2>3. CASE \A d \in Attempt : st[d] # "prepare"
    BY <2>1, <2>3, Zenon DEF QueueInv
  <2> QED
    BY <1>7, <2>2, <2>3, Zenon DEF Taken
<1> QED
  BY <1>1, <1>5, <1>6, <1>7, Zenon DEF QueueInv

(* What a step does to the requests that run.                               *)
Runs ==
    /\ UNCHANGED <<blocked, interleaved>> /\ ran \subseteq ran'
    /\ \A c \in Attempt :
         /\ st'[c] \in Busy => st[c] \in Busy
         /\ st'[c] \in {"execute", "killed"} => st[c] \in {"execute", "killed"} \/ c \in ran'
         /\ st'[c] = "done" /\ out'[c].rec = "reset" =>
              \/ /\ st[c] = "done" /\ out'[c] = out[c] /\ granted'[c] = granted[c]
                 /\ seq'[c] = seq[c]
              \/ Resets(c)'

LEMMA ResetStays == ASSUME ResetInv, Runs PROVE ResetInv'
<1> USE DEF Runs
<1>1. \A c \in Attempt : st'[c] \in Busy /\ blocked' # c => interleaved'
  BY Zenon DEF ResetInv
<1>2. \A c \in Attempt : st'[c] \in {"execute", "killed"} => c \in ran'
  BY Zenon DEF ResetInv
<1>3. \A c \in Attempt : st'[c] = "done" /\ out'[c].rec = "reset" => Resets(c)'
  BY Zenon DEF ResetInv, Resets
<1> QED
  BY <1>1, <1>2, <1>3, Zenon DEF ResetInv

(* The mailbox starts what it takes from its queue: its command is behind   *)
(* all that were sent before.                                               *)
Starts(s, n, b) ==
    /\ queue' \in [Attempt -> SUBSET Attempt] /\ Forget(st')
    /\ \A c \in Attempt :
         \/ s[c] = "queued" /\ st'[c] = "answered" /\ ans'[c] = "unavailable"
         \/ /\ s[c] = "queued" /\ st'[c] = "prepare" /\ ans'[c] \in {"unavailable", n[c]}
            /\ queue'[c] = Sent /\ blocked' = c
         \/ st'[c] = s[c] /\ ans'[c] = n[c] /\ queue'[c] = queue[c]
    /\ blocked' = b \/ b = NoAttempt

LEMMA SettleSends ==
    ASSUME NEW p, NEW s, NEW n, NEW b, NEW d, Admissible(p, s, n, b),
           queue \in [Attempt -> SUBSET Attempt], Settle(p, s, n, b, d)
    PROVE  Starts(s, n, b)
<1>0. /\ p \in Seq(Attempt) /\ Len(p) \in Nat /\ \A i \in 1..Len(p) : p[i] \in Attempt
      /\ \A i \in 1..Len(p) : s[p[i]] = "queued"
  <2>1. p \in Seq(Attempt) /\ \A i \in 1..Len(p) : s[p[i]] = "queued"
    BY Zenon DEF Admissible
  <2> QED
    BY <2>1
<1>1. PICK taken \in 0..Len(p) :
        LET skip  == IF b # NoAttempt THEN 0 ELSE IF taken = 0 THEN Len(p) ELSE taken - 1
            over  == {p[i] : i \in 1..skip}
            start == IF taken = 0 THEN <<>> ELSE <<p[taken]>>
        IN  /\ taken # 0 => b = NoAttempt
            /\ st' = [a \in Attempt |-> IF a \in over THEN "answered"
                                        ELSE IF start = <<a>> THEN "prepare" ELSE s[a]]
            /\ ans' = [a \in Attempt |-> IF a \in over THEN "unavailable" ELSE n[a]]
            /\ Forget(st')
            /\ queue' = [a \in Attempt |-> IF start = <<a>> THEN Sent ELSE queue[a]]
            /\ blocked' = (IF taken = 0 THEN b ELSE p[taken])
  BY Zenon DEF Settle, Takes
<1> DEFINE skip  == IF b # NoAttempt THEN 0 ELSE IF taken = 0 THEN Len(p) ELSE taken - 1
           over  == {p[i] : i \in 1..skip}
           start == IF taken = 0 THEN <<>> ELSE <<p[taken]>>
<1>2. /\ taken # 0 => b = NoAttempt
      /\ st' = [a \in Attempt |-> IF a \in over THEN "answered"
                                  ELSE IF start = <<a>> THEN "prepare" ELSE s[a]]
      /\ ans' = [a \in Attempt |-> IF a \in over THEN "unavailable" ELSE n[a]]
      /\ Forget(st')
      /\ queue' = [a \in Attempt |-> IF start = <<a>> THEN Sent ELSE queue[a]]
      /\ blocked' = (IF taken = 0 THEN b ELSE p[taken])
  BY <1>1, Zenon
<1>3. \A a \in Attempt : start = <<a>> <=> taken # 0 /\ a = p[taken]
  OBVIOUS
<1>4. \A i \in 1..skip : i \in 1..Len(p)
  <2> DEFINE k == Len(p)
  <2>1. k \in Nat /\ taken \in 0..k
    BY <1>0
  <2> HIDE DEF k
  <2>2. skip \in 0..k
    <3>1. skip = IF b # NoAttempt THEN 0 ELSE IF taken = 0 THEN k ELSE taken - 1
      BY Zenon DEF k
    <3> HIDE DEF skip
    <3> QED
      BY <2>1, <3>1
  <2> HIDE DEF skip
  <2> QED
    BY <2>1, <2>2 DEF k
<1>5. taken # 0 => taken \in 1..Len(p)
  BY <1>0
<1>6. \A a \in over : s[a] = "queued"
  BY <1>0, <1>4, Zenon
<1>7. taken # 0 => s[p[taken]] = "queued" /\ p[taken] \in Attempt
  BY <1>0, <1>5, Zenon
<1>8. Sent \subseteq Attempt
  BY Zenon DEF Sent
<1> HIDE DEF skip, over, start
<1>9. queue' \in [Attempt -> SUBSET Attempt]
  BY <1>2, <1>8, Zenon
<1>10. ASSUME NEW c \in Attempt
       PROVE  \/ s[c] = "queued" /\ st'[c] = "answered" /\ ans'[c] = "unavailable"
              \/ /\ s[c] = "queued" /\ st'[c] = "prepare" /\ ans'[c] \in {"unavailable", n[c]}
                 /\ queue'[c] = Sent /\ blocked' = c
              \/ st'[c] = s[c] /\ ans'[c] = n[c] /\ queue'[c] = queue[c]
  BY <1>2, <1>3, <1>6, <1>7, Zenon
<1> QED
  BY <1>2, <1>9, <1>10, Zenon DEF Starts

(* The mailbox at the top of its loop, with the requests s and the answers  *)
(* n; the database may have been reset before.                              *)
Carried(s, n, b) ==
    \A c \in Attempt :
        /\ s[c] \in {"complete", "done"} => st[c] = s[c]
        /\ s[c] = "prepare" <=> st[c] = "prepare"
        /\ s[c] \in {"execute", "killed"} => st[c] \in {"execute", "killed"}
        /\ s[c] \in Busy /\ b # c => interleaved'
        /\ n[c] = "completed" => Told(c)

LEMMA SettlingKeeps ==
    ASSUME IInv, IInv', DurableInv, NEW p, NEW s, NEW n, NEW b, NEW d,
           Admissible(p, s, n, b), Settle(p, s, n, b, d),
           UNCHANGED <<fixed, view, svc, auth, ready, next, lastseq, durable, ran>>,
           \/ cached' = cached
           \/ cached' = NoDatabase /\ \A c \in Attempt : st[c] # "prepare",
           Carried(s, n, b)
    PROVE  DurableInv'
<1>0. \A c \in Attempt :
        /\ s[c] \in {"complete", "done"} => st[c] = s[c]
        /\ s[c] = "prepare" <=> st[c] = "prepare"
        /\ s[c] \in {"execute", "killed"} => st[c] \in {"execute", "killed"}
        /\ s[c] \in Busy /\ b # c => interleaved'
        /\ n[c] = "completed" => Told(c)
  BY Zenon DEF Carried
<1>1. /\ p \in Seq(Attempt) /\ s \in [Attempt -> State] /\ b \in Writers
      /\ \A i \in 1..Len(p) : s[p[i]] = "queued"
      /\ \A c \in Attempt : s[c] # "orphan" /\ (s[c] = "complete" <=> st[c] = "complete")
  BY Zenon DEF Admissible
<1>2. queue \in [Attempt -> SUBSET Attempt]
  BY Zenon DEF DurableInv, QueueInv
<1>3. /\ queue' \in [Attempt -> SUBSET Attempt] /\ Forget(st')
      /\ \A c \in Attempt :
           \/ s[c] = "queued" /\ st'[c] = "answered" /\ ans'[c] = "unavailable"
           \/ /\ s[c] = "queued" /\ st'[c] = "prepare" /\ ans'[c] \in {"unavailable", n[c]}
              /\ queue'[c] = Sent /\ blocked' = c
           \/ st'[c] = s[c] /\ ans'[c] = n[c] /\ queue'[c] = queue[c]
      /\ blocked' = b \/ b = NoAttempt
  <2>1. Starts(s, n, b)
    BY <1>2, SettleSends, Zenon
  <2> QED
    BY <2>1, Zenon DEF Starts
<1>4. \A c \in Attempt : st'[c] # "answered" =>
        out'[c] = out[c] /\ granted'[c] = granted[c] /\ seq'[c] = seq[c]
  BY <1>3, Zenon DEF Forget
<1>5. \A c \in Attempt : seq'[c] = seq[c] \/ seq'[c] = 0
  BY <1>3, Zenon DEF Forget
<1>6. ASSUME NEW c \in Attempt, Completing(c)'
      PROVE  Completing(c) /\ st'[c] = s[c] /\ queue'[c] = queue[c]
  <2>1. st'[c] \in {"complete", "orphan"}
    BY <1>6, Zenon DEF Completing
  <2>2. st'[c] = s[c] /\ queue'[c] = queue[c]
    BY <1>3, <2>1, Zenon
  <2> QED
    BY <1>0, <1>1, <2>1, <2>2, Zenon DEF Completing
<1>7. Remain /\ Turned
  BY <1>4, <1>6, Zenon DEF Remain, Turned, Completing
<1>8. ~NoDatabase.here
  BY DEF NoDatabase
<1>9. durable.log \in Seq(Writers) /\ cached.log \in Seq(Writers)
  BY Zenon DEF IInv, TypeOK, Database
<1>10. Continued
  <2>1. ResidentInv'
    BY <1>8 DEF DurableInv, ResidentInv
  <2> QED
    BY <1>8, <1>9, <2>1, PrefixOfItself, Zenon DEF Continued
<1>11. SeenInv'
  BY <1>7, <1>10, SeenStays, Zenon DEF DurableInv
<1>12. ToldInv'
  <2>1. \A c \in Attempt : Told(c)' => Told(c)
    BY <1>0, <1>3, <1>4, Zenon DEF Told
  <2> QED
    BY <1>10, <2>1, ToldStays, Zenon DEF DurableInv, Continued, Tells
<1>13. NumberInv'
  BY <1>5, <1>7, NumbersStay, Zenon DEF DurableInv, fixed
<1>14. QueueInv'
  <2>1. \A c \in Attempt : st[c] = "prepare" => st'[c] = "prepare" /\ queue'[c] = queue[c]
    BY <1>0, <1>3, Zenon
  <2>2. \A c \in Attempt : st'[c] = "prepare" =>
          queue'[c] = Sent \/ (st[c] = "prepare" /\ queue'[c] = queue[c])
    BY <1>0, <1>3, Zenon
  <2>3. \A c \in Attempt : Completing(c) /\ c \notin ready => c \in Sent
    BY Zenon DEF Sent
  <2>4. \A c, e \in Attempt : e \in queue'[c] /\ Completing(c)' => st'[e] = "prepare"
    BY <1>6, <2>1, Zenon DEF DurableInv, QueueInv
  <2>5. ASSUME NEW c \in Attempt, NEW e \in Attempt,
               st'[c] = "prepare", Completing(e)', e \notin ready'
        PROVE  e \in queue'[c] \/ c \in queue'[e]
    BY <1>6, <2>2, <2>3, <2>5, Zenon DEF DurableInv, QueueInv
  <2>6. ASSUME svc' = "up", ~cached'.here, NEW c \in Attempt, Completing(c)' PROVE queue'[c] = {}
    <3>1. Completing(c) /\ queue'[c] = queue[c] /\ queue[c] \subseteq Attempt
      BY <1>2, <1>6, <2>6, Zenon
    <3>2. CASE cached' = cached
      BY <2>6, <3>1, <3>2, Zenon DEF DurableInv, QueueInv
    <3>3. CASE \A e \in Attempt : st[e] # "prepare"
      BY <3>1, <3>3, Zenon DEF DurableInv, QueueInv
    <3> QED
      BY <3>2, <3>3, Zenon
  <2> QED
    BY <1>3, <2>4, <2>5, <2>6, Zenon DEF QueueInv
<1>15. ResetInv'
  <2>1. ASSUME NEW c \in Attempt, st'[c] \in Busy, blocked' # c PROVE interleaved'
    <3>1. st'[c] = s[c]
      BY <1>3, <2>1, Zenon DEF Busy
    <3>2. b # c
      BY <1>3, <2>1, NoAttemptAssumption, Zenon
    <3> QED
      BY <1>0, <2>1, <3>1, <3>2, Zenon
  <2>2. \A c \in Attempt : st'[c] \in {"execute", "killed"} => c \in ran'
    BY <1>0, <1>3, Zenon DEF DurableInv, ResetInv
  <2>3. ASSUME NEW c \in Attempt, st'[c] = "done", out'[c].rec = "reset" PROVE Resets(c)'
    <3>1. /\ st[c] = "done" /\ out'[c] = out[c] /\ granted'[c] = granted[c] /\ seq'[c] = seq[c]
      BY <1>0, <1>3, <1>4, <2>3, Zenon
    <3> QED
      BY <2>3, <3>1, Zenon DEF DurableInv, ResetInv, Resets
  <2> QED
    BY <2>1, <2>2, <2>3, Zenon DEF ResetInv
<1> QED
  BY <1>10, <1>11, <1>12, <1>13, <1>14, <1>15, Zenon DEF DurableInv, Continued

LEMMA SubmitTells == ASSUME IInv, IInv', DurableInv, NEW a \in Attempt, Submit(a) PROVE DurableInv'
<1> DEFINE s == [st EXCEPT ![a] = "queued"]
<1>1. /\ TypeOK /\ mb = "run" /\ st[a] = "new"
      /\ Settle(Append(pending, a), s, ans, blocked, draining)
      /\ UNCHANGED <<fixed, view, interleaved, svc, auth, cached, ready, next, executor, durable,
                      history>>
  BY Zenon DEF IInv, Submit
<1>2. Admissible(Append(pending, a), s, ans, blocked)
  BY <1>1, AdmitsSubmitted, Zenon
<1>3. s[a] = "queued" /\ \A c \in Attempt \ {a} : s[c] = st[c]
  BY <1>1, Zenon DEF TypeOK
<1> HIDE DEF s
<1>4. Carried(s, ans, blocked)
  BY <1>1, <1>3, Zenon DEF DurableInv, ResetInv, Carried, Told, Busy
<1>5. UNCHANGED <<fixed, view, svc, auth, ready, next, lastseq, durable, ran>> /\ cached' = cached
  BY <1>1, Zenon DEF executor, history
<1> QED
  BY <1>1, <1>2, <1>4, <1>5, SettlingKeeps, Zenon

LEMMA DrainTells == ASSUME IInv, IInv', DurableInv, Drain PROVE DurableInv'
<1>1. /\ TypeOK /\ mb = "run" /\ Settle(pending, st, ans, blocked, TRUE)
      /\ UNCHANGED <<fixed, view, interleaved, svc, auth, cached, ready, next, executor, durable,
                      history>>
  BY Zenon DEF IInv, Drain
<1>2. Admissible(pending, st, ans, blocked)
  BY <1>1, AdmitsAsIs, Zenon
<1>3. Carried(st, ans, blocked)
  BY <1>1, Zenon DEF DurableInv, ResetInv, Carried, Told
<1> QED
  BY <1>1, <1>2, <1>3, SettlingKeeps, Zenon DEF executor, history

LEMMA AdmitNextTells == ASSUME IInv, IInv', DurableInv, AdmitNext PROVE DurableInv'
<1>1. /\ TypeOK /\ mb = "run" /\ grant /\ blocked # NoAttempt /\ interleaved' = TRUE
      /\ Settle(pending, st, ans, NoAttempt, draining)
      /\ UNCHANGED <<fixed, view, svc, auth, cached, ready, next, executor, durable, history>>
  BY Zenon DEF IInv, AdmitNext
<1>2. blocked \in Attempt /\ granted[blocked]
  BY <1>1, Zenon DEF IInv, TypeOK, BlockInv, Writers
<1>3. Admissible(pending, st, ans, NoAttempt)
  <2>1. Admissible(pending, st, ans, blocked)
    BY <1>1, AdmitsAsIs, Zenon
  <2> QED
    BY <1>2, <2>1, Zenon DEF Admissible, Writers
<1>4. Carried(st, ans, NoAttempt)
  BY <1>1, Zenon DEF Carried, Told
<1> QED
  BY <1>1, <1>3, <1>4, SettlingKeeps, Zenon DEF executor, history

(* Recovery resets the database only when nothing is about to prepare.      *)
LEMMA NothingPrepares ==
    ASSUME IInv, ResetInv, NEW a \in Attempt, st[a] = "done", Recovery(a) = "reset",
           NEW c \in Attempt
    PROVE  st[c] # "prepare"
<1> SUFFICES ASSUME st[c] = "prepare" PROVE FALSE
  OBVIOUS
<1>1. ~granted[c]
  BY Zenon DEF IInv, AttemptInv, Waiting
<1>2. blocked = c /\ c # a
  BY <1>1, Zenon DEF IInv, BlockInv, Busy
<1>3. interleaved /\ granted[a]
  BY <1>2, Zenon DEF IInv, BlockInv, ResetInv, Busy
<1>4. /\ out[a].rec = "reset"
      /\ ~(a \in ran /\ interleaved /\ seq[a] = 0 /\ out[a].code \in {"none", "fatal"})
      /\ ~(seq[a] # 0 /\ out[a].res # "completed")
  BY Zenon DEF Recovery
<1>5. Resets(a)
  BY <1>4, Zenon DEF ResetInv
<1> QED
  BY <1>3, <1>4, <1>5, Zenon DEF Resets

LEMMA ExecutedTells ==
    ASSUME IInv, IInv', DurableInv, NEW a \in Attempt, Executed(a)
    PROVE  DurableInv'
<1> DEFINE d == [st EXCEPT ![a] = "answered"]
           keep == Recovery(a) = "keep"
           s == IF keep THEN d ELSE Evicted(d)
           n == [ans EXCEPT ![a] = out[a].res]
           b == IF blocked = a THEN NoAttempt ELSE blocked
<1>1. /\ TypeOK /\ mb = "run" /\ st[a] = "done" /\ Recovery(a) # "stop"
      /\ interleaved' = (interleaved \/ seq[a] # 0)
      /\ cached' = (IF Recovery(a) = "reset" THEN NoDatabase ELSE cached)
      /\ Settle(pending, s, n, b, draining)
      /\ UNCHANGED <<fixed, view, svc, auth, ready, next, lastseq, durable, history>>
  BY Zenon DEF IInv, Executed
<1>2. out[a].res \in Result /\ s \in {d, Evicted(d)}
  BY <1>1, Zenon DEF TypeOK, Outcome
<1>3. Admissible(pending, s, n, b)
  BY <1>1, <1>2, AdmitsAnswered, Zenon
<1>4. \A c \in Attempt : s[c] = IF c = a THEN "answered"
                                ELSE IF ~keep /\ st[c] = "execute" THEN "killed" ELSE st[c]
  <2>1. d[a] = "answered" /\ \A c \in Attempt \ {a} : d[c] = st[c]
    BY <1>1, Zenon DEF TypeOK
  <2>2. \A c \in Attempt : Evicted(d)[c] = IF d[c] = "execute" THEN "killed" ELSE d[c]
    BY Zenon DEF Evicted
  <2> HIDE DEF d
  <2> QED
    BY <2>1, <2>2, Zenon
<1>5. n[a] = out[a].res /\ \A c \in Attempt \ {a} : n[c] = ans[c]
  BY <1>1, Zenon DEF TypeOK
<1>6. \A c \in Attempt : b # c /\ c # a => blocked # c
  BY Zenon
<1> HIDE DEF d, keep, s, n, b
<1>7. Carried(s, n, b)
  <2>1. ASSUME NEW c \in Attempt, n[c] = "completed" PROVE Told(c)
    BY <1>1, <1>5, <2>1, Zenon DEF Told
  <2>2. ASSUME NEW c \in Attempt, s[c] \in Busy, b # c PROVE interleaved'
    <3>1. c # a /\ st[c] \in Busy
      BY <1>4, <2>2, Zenon DEF Busy
    <3> QED
      BY <1>1, <1>6, <2>2, <3>1, Zenon DEF DurableInv, ResetInv
  <2> QED
    BY <1>1, <1>4, <2>1, <2>2, Zenon DEF Carried
<1>8. \/ cached' = cached
      \/ cached' = NoDatabase /\ \A c \in Attempt : st[c] # "prepare"
  BY <1>1, NothingPrepares, Zenon DEF DurableInv
<1>9. UNCHANGED <<fixed, view, svc, auth, ready, next, lastseq, durable, ran>>
  BY <1>1, Zenon DEF history
<1> QED
  BY <1>1, <1>3, <1>7, <1>8, <1>9, SettlingKeeps, Zenon

(* The loop returns: only completions remain.                               *)
LEMMA HaltTells ==
    ASSUME IInv, IInv', DurableInv, NEW p, NEW s, NEW n, NEW b, Admissible(p, s, n, b),
           Halt(s, n), \A c \in Attempt : n[c] = "completed" => Told(c),
           UNCHANGED <<fixed, view, interleaved, svc, auth, cached, ready, next, lastseq, durable,
                       history>>
    PROVE  DurableInv'
<1>1. \A c \in Attempt : s[c] # "orphan" /\ (s[c] = "complete" <=> st[c] = "complete")
  BY Zenon DEF Admissible
<1>2. /\ st' = [a \in Attempt |-> IF s[a] = "complete" THEN "orphan"
                                  ELSE IF s[a] = "new" THEN "new" ELSE "answered"]
      /\ ans' = Dropped(s, n) /\ Forget(st') /\ queue' = [a \in Attempt |-> {}]
  BY Zenon DEF Halt
<1>3. \A c \in Attempt : /\ st'[c] \in {"orphan", "new", "answered"}
                         /\ st'[c] = "orphan" => st[c] = "complete"
                         /\ ans'[c] = "completed" => n[c] = "completed"
  BY <1>1, <1>2, Zenon DEF Dropped
<1>4. \A c \in Attempt : /\ st'[c] # "answered" => seq'[c] = seq[c]
                         /\ seq'[c] = seq[c] \/ seq'[c] = 0
  BY <1>2, Zenon DEF Forget
<1>5. Remain /\ Turned
  BY <1>3, <1>4, Zenon DEF Remain, Turned, Completing
<1>6. durable.log \in Seq(Writers) /\ cached.log \in Seq(Writers)
  BY Zenon DEF IInv, TypeOK, Database
<1>7. Continued
  <2>1. ResidentInv'
    BY DEF DurableInv, ResidentInv
  <2> QED
    BY <1>6, <2>1, PrefixOfItself, Zenon DEF Continued
<1>8. SeenInv'
  BY <1>5, <1>7, SeenStays, Zenon DEF DurableInv
<1>9. ToldInv'
  <2>1. \A c \in Attempt : Told(c)' => Told(c)
    BY <1>3, Zenon DEF Told
  <2> QED
    BY <1>7, <2>1, ToldStays, Zenon DEF DurableInv, Continued, Tells
<1>10. NumberInv'
  BY <1>4, <1>5, NumbersStay, Zenon DEF DurableInv, fixed
<1>11. QueueInv'
  BY <1>2, <1>3, Zenon DEF QueueInv
<1>12. ResetInv'
  BY <1>3, Zenon DEF ResetInv, Busy
<1> QED
  BY <1>7, <1>8, <1>9, <1>10, <1>11, <1>12, Zenon DEF DurableInv, Continued

LEMMA ExecutedStopTells ==
    ASSUME IInv, IInv', DurableInv, NEW a \in Attempt, ExecutedStop(a)
    PROVE  DurableInv'
<1> DEFINE s == [st EXCEPT ![a] = "answered"]
           n == [ans EXCEPT ![a] = "unknown"]
<1>1. /\ mb = "run" /\ st[a] = "done" /\ Halt(s, n)
      /\ UNCHANGED <<fixed, view, interleaved, svc, auth, cached, ready, next, lastseq, durable,
                      history>>
  BY Zenon DEF ExecutedStop
<1>2. Admissible(pending, s, n, IF blocked = a THEN NoAttempt ELSE blocked)
  BY <1>1, AdmitsAnswered, Zenon DEF Result
<1>3. \A c \in Attempt : n[c] = "completed" => Told(c)
  BY Zenon DEF IInv, TypeOK, Told
<1> HIDE DEF s, n
<1> QED
  BY <1>1, <1>2, <1>3, HaltTells, Zenon

LEMMA StoppedTells == ASSUME IInv, IInv', DurableInv, Stopped PROVE DurableInv'
<1>1. Admissible(pending, st, ans, blocked)
  BY AdmitsAsIs, Zenon DEF Stopped
<1>2. \A c \in Attempt : ans[c] = "completed" => Told(c)
  BY Zenon DEF Told
<1> QED
  BY <1>1, <1>2, HaltTells, Zenon DEF Stopped

-----------------------------------------------------------------------------
(* The steps between two rounds of the loop.                                *)
LEMMA StepKeeps ==
    ASSUME IInv, IInv', DurableInv, Continued, Remain, Turned, Tells, Runs,
           NEW gone \in SUBSET Attempt, Taken(gone),
           UNCHANGED <<mode, seq, lastseq>>, svc' = "up" => svc = "up"
    PROVE  DurableInv'
<1>1. SeenInv'
  BY SeenStays, Zenon DEF DurableInv
<1>2. ToldInv'
  BY ToldStays, Zenon DEF DurableInv, Continued
<1>3. NumberInv'
  BY NumbersStay, Zenon DEF DurableInv
<1>4. QueueInv'
  BY QueueStays, Zenon DEF DurableInv
<1>5. ResetInv'
  BY ResetStays, Zenon DEF DurableInv
<1> QED
  BY <1>1, <1>2, <1>3, <1>4, <1>5, Zenon DEF DurableInv, Continued

LEMMA SameDatabase ==
    ASSUME IInv, ResidentInv, UNCHANGED <<cached, durable>>, auth' => auth,
           svc' = "up" => svc = "up"
    PROVE  Continued
<1>1. durable.log \in Seq(Writers) /\ cached.log \in Seq(Writers)
  BY Zenon DEF IInv, TypeOK, Database
<1>2. ResidentInv'
  BY DEF ResidentInv
<1> QED
  BY <1>1, <1>2, PrefixOfItself, Zenon DEF Continued

(* No command arrives, or that of a does.                                   *)
LEMMA NoneTaken ==
    ASSUME QueueInv, UNCHANGED <<queue, ready>>, Remain, svc' = "up" => svc = "up",
           cached'.here = cached.here,
           \A c \in Attempt : st'[c] = "prepare" <=> st[c] = "prepare"
    PROVE  Taken({})
<1>1. queue' \in [Attempt -> SUBSET Attempt]
  BY Zenon DEF QueueInv
<1> QED
  BY <1>1, Zenon DEF Taken

LEMMA OneTaken ==
    ASSUME QueueInv, NEW a \in Attempt, queue' = Without(a),
           \A c \in Attempt : st'[c] = "prepare" <=> st[c] = "prepare" /\ c # a,
           \A c \in Attempt : Completing(c)' /\ c \notin ready' => c \notin ready /\ c # a,
           svc' = "up" /\ ~cached'.here =>
             \/ svc = "up" /\ ~cached.here
             \/ \A c, d \in Attempt : Completing(c)' => st[d] # "prepare"
    PROVE  Taken({a})
<1>1. queue \in [Attempt -> SUBSET Attempt]
  BY Zenon DEF QueueInv
<1>2. queue' \in [Attempt -> SUBSET Attempt]
  BY <1>1, Zenon DEF Without
<1>3. \A c, d \in Attempt : d \in queue'[c] <=> c \notin {a} /\ d \in queue[c] /\ d \notin {a}
  BY <1>1, Zenon DEF Without
<1> QED
  BY <1>2, <1>3, Zenon DEF Taken

LEMMA SubmitRefusedTells ==
    ASSUME IInv, IInv', DurableInv, NEW a \in Attempt, SubmitRefused(a)
    PROVE  DurableInv'
<1> USE DEF SubmitRefused, fixed, marks, mailbox, service, executor, history
<1>1. /\ st[a] = "new" /\ st'[a] = "answered" /\ ans'[a] = "unavailable"
      /\ \A c \in Attempt \ {a} : st'[c] = st[c] /\ ans'[c] = ans[c]
  BY Zenon DEF IInv, TypeOK
<1>2. \A c \in Attempt : st'[c] \in Busy \cup {"orphan"} => st'[c] = st[c]
  BY <1>1, Zenon DEF Busy
<1>3. Remain /\ Turned /\ Tells
  BY <1>1, <1>2, Zenon DEF Remain, Turned, Tells, Told, Completing, Busy
<1>4. Runs
  BY <1>2, Zenon DEF Runs, Busy
<1>5. Continued
  BY SameDatabase, Zenon DEF DurableInv
<1>6. Taken({})
  BY <1>1, <1>3, NoneTaken, Zenon DEF DurableInv
<1> QED
  BY <1>3, <1>4, <1>5, <1>6, StepKeeps, Zenon

LEMMA QuietTells ==
    ASSUME IInv, IInv', DurableInv, EvictDrained \/ LoseAuthority \/ UNCHANGED vars
    PROVE  DurableInv'
<1>1. /\ UNCHANGED <<fixed, st, ans, marks, blocked, interleaved, svc, cached, queue, ready, next,
                      lastseq, durable, ran>>
      /\ auth' => auth
  <2>1. CASE EvictDrained
    BY <2>1, Zenon DEF EvictDrained, service
  <2>2. CASE LoseAuthority
    BY <2>2, Zenon DEF LoseAuthority, mailbox, executor, history
  <2>3. CASE UNCHANGED vars
    BY <2>3, Zenon DEF vars, mailbox, service, executor, history
  <2> QED
    BY <2>1, <2>2, <2>3, Zenon
<1> USE DEF fixed, marks
<1>2. Remain /\ Turned /\ Tells /\ Runs
  BY <1>1, Zenon DEF Remain, Turned, Tells, Runs, Told, Completing
<1>3. Continued
  BY <1>1, SameDatabase, Zenon DEF DurableInv
<1>4. Taken({})
  BY <1>1, <1>2, NoneTaken, Zenon DEF DurableInv
<1> QED
  BY <1>1, <1>2, <1>3, <1>4, StepKeeps, Zenon

LEMMA GrantTells == ASSUME IInv, IInv', DurableInv, NEW a \in Attempt, Grant(a) PROVE DurableInv'
<1>1. /\ st[a] = "execute" /\ granted' = [granted EXCEPT ![a] = TRUE]
      /\ UNCHANGED <<fixed, st, ans, out, seq, view, blocked, interleaved, service, lastseq, durable,
                      ran>>
  BY Zenon DEF Grant, executor, history
<1>2. \A c \in Attempt \ {a} : granted'[c] = granted[c]
  BY <1>1, Zenon DEF IInv, TypeOK
<1> USE DEF fixed, service
<1>3. Remain /\ Turned /\ Tells
  BY <1>1, Zenon DEF Remain, Turned, Tells, Told, Completing
<1>4. Runs
  BY <1>1, <1>2, Zenon DEF Runs
<1>5. Continued
  BY <1>1, SameDatabase, Zenon DEF DurableInv
<1>6. Taken({})
  BY <1>1, <1>3, NoneTaken, Zenon DEF DurableInv
<1> QED
  BY <1>1, <1>3, <1>4, <1>5, <1>6, StepKeeps, Zenon

LEMMA FailTells == ASSUME IInv, IInv', DurableInv, NEW a \in Attempt, Fail(a) PROVE DurableInv'
<1> DEFINE user == Completion("failed", "keep", "user")
           lookup == Completion("failed", "reset", "lookup")
           fatal == Completion("failed", "reset", "fatal")
<1>1. /\ st[a] \in {"execute", "killed"}
      /\ Finish(a, user) \/ (~granted[a] /\ Finish(a, lookup)) \/ Finish(a, fatal)
      /\ UNCHANGED <<fixed, ans, granted, seq, view, blocked, interleaved, service, lastseq, durable,
                      ran>>
  BY Zenon DEF Fail, mailbox, executor, history
<1>2. /\ user.res = "failed" /\ user.rec = "keep"
      /\ lookup.res = "failed" /\ fatal.res = "failed" /\ fatal.code = "fatal"
  BY DEF Completion
<1> HIDE DEF user, lookup, fatal
<1>3. /\ st'[a] = "done"
      /\ out'[a] = user \/ (~granted[a] /\ out'[a] = lookup) \/ out'[a] = fatal
      /\ \A c \in Attempt \ {a} : st'[c] = st[c] /\ out'[c] = out[c]
  BY <1>1, ZenonT(60) DEF IInv, TypeOK, Finish
<1> USE DEF fixed, service
<1>4. Remain /\ Turned
  BY <1>1, <1>3, Zenon DEF Remain, Turned, Completing
<1>5. Tells
  BY <1>1, <1>2, <1>3, Zenon DEF IInv, AttemptInv, Tells, Told
<1>6. a \in ran
  BY <1>1, Zenon DEF DurableInv, ResetInv
<1>7. out'[a].rec = "reset" => Resets(a)'
  BY <1>1, <1>2, <1>3, <1>6, Zenon DEF Resets
<1>8. Runs
  BY <1>1, <1>3, <1>7, Zenon DEF Runs, Busy
<1>9. Continued
  BY <1>1, SameDatabase, Zenon DEF DurableInv
<1>10. Taken({})
  BY <1>1, <1>3, <1>4, NoneTaken, Zenon DEF DurableInv
<1> QED
  BY <1>1, <1>4, <1>5, <1>8, <1>9, <1>10, StepKeeps, Zenon

(* A command arrives and its request is over, but not reported as completed.*)
Ends(over) ==
    /\ \A c \in over :
         /\ st'[c] \in {"done", "answered"} /\ out'[c].rec # "reset"
         /\ st'[c] = "done" /\ out'[c].res = "completed" => Prefix(view'[c], durable'.log)
         /\ st[c] = "orphan" => st'[c] = "answered"
         /\ ans[c] = "completed" => view'[c] = view[c]
    /\ \A c \in Attempt \ over : st'[c] = st[c] /\ out'[c] = out[c] /\ view'[c] = view[c]
    /\ ready' = ready \ over

LEMMA ArrivalTells ==
    ASSUME IInv, IInv', DurableInv, NEW a \in Attempt, Continued, Turned, queue' = Without(a),
           Completing(a) \/ st[a] = "prepare", NEW over \in SUBSET Attempt, a \in over,
           \A c \in over \ {a} : Completing(c), Ends(over),
           UNCHANGED <<fixed, ans, granted, seq, blocked, interleaved, lastseq, ran>>,
           svc' = "up" => svc = "up",
           svc' = "up" /\ ~cached'.here =>
             \/ svc = "up" /\ ~cached.here
             \/ \A c, d \in Attempt : Completing(c)' => st[d] # "prepare"
    PROVE  DurableInv'
<1> USE DEF Ends
<1>1. \A c \in Attempt : st'[c] \in Busy => st[c] \in Busy
  BY Zenon DEF Busy, Completing
<1>2. \A c \in Attempt : Completing(c)' => Completing(c) /\ c \notin over
  BY Zenon DEF Completing
<1>3. Remain
  BY <1>2, Zenon DEF Remain
<1>4. Tells
  BY Zenon DEF Tells, Told
<1>5. Runs
  BY <1>1, Zenon DEF Runs
<1>6. Taken({a})
  <2>1. \A c \in Attempt : st'[c] = "prepare" <=> st[c] = "prepare" /\ c # a
    BY Zenon DEF Completing
  <2>2. \A c \in Attempt : Completing(c)' /\ c \notin ready' => c \notin ready /\ c # a
    BY <1>2, Zenon
  <2> QED
    BY <2>1, <2>2, OneTaken, Zenon DEF DurableInv
<1> QED
  BY <1>3, <1>4, <1>5, <1>6, StepKeeps, Zenon DEF fixed

LEMMA PrepareFailsTells ==
    ASSUME IInv, IInv', DurableInv, NEW a \in Attempt, PrepareFails(a)
    PROVE  DurableInv'
<1> DEFINE away == Completion("unavailable", "keep", "none")
           stop == Completion("error", "stop", "none")
<1>1. /\ st[a] = "prepare" /\ queue' = Without(a) /\ (Finish(a, away) \/ Finish(a, stop))
      /\ UNCHANGED <<fixed, ans, granted, seq, view, blocked, interleaved, svc, auth, cached, ready,
                      next, lastseq, durable, ran>>
  BY Zenon DEF PrepareFails, mailbox, executor, history
<1>2. away.res # "completed" /\ away.rec # "reset" /\ stop.res # "completed" /\ stop.rec # "reset"
  BY DEF Completion
<1> HIDE DEF away, stop
<1>3. /\ st'[a] = "done" /\ (out'[a] = away \/ out'[a] = stop)
      /\ \A c \in Attempt \ {a} : st'[c] = st[c] /\ out'[c] = out[c]
  BY <1>1, Zenon DEF IInv, TypeOK, Finish
<1>4. a \notin ready
  BY <1>1, Zenon DEF IInv, CompletingInv, Completing
<1>5. Continued /\ Turned
  BY <1>1, SameDatabase, Zenon DEF DurableInv, Turned
<1>6. Ends({a})
  BY <1>1, <1>2, <1>3, <1>4, Zenon DEF Ends
<1> QED
  BY <1>1, <1>5, <1>6, ArrivalTells, Zenon

(* ...and waits for its predecessors.                                       *)
LEMMA ReceiveTells ==
    ASSUME IInv, IInv', DurableInv, NEW a \in Attempt, Receive(a)
    PROVE  DurableInv'
<1>1. /\ Completing(a) /\ queue' = Without(a) /\ ready' = ready \cup {a}
      /\ UNCHANGED <<fixed, st, ans, marks, blocked, interleaved, svc, auth, cached, next, lastseq,
                      durable, ran>>
  BY Zenon DEF Receive, mailbox, executor, history
<1> USE DEF fixed, marks
<1>2. Remain /\ Turned /\ Tells /\ Runs
  BY <1>1, Zenon DEF Remain, Turned, Tells, Told, Runs, Completing
<1>3. Continued
  BY <1>1, SameDatabase, Zenon DEF DurableInv
<1>4. Taken({a})
  <2>1. \A c \in Attempt : st'[c] = "prepare" <=> st[c] = "prepare" /\ c # a
    BY <1>1, Zenon DEF Completing
  <2>2. \A c \in Attempt : Completing(c)' /\ c \notin ready' => c \notin ready /\ c # a
    BY <1>1, Zenon
  <2> QED
    BY <1>1, <2>1, <2>2, OneTaken, Zenon DEF DurableInv
<1> QED
  BY <1>1, <1>2, <1>3, <1>4, StepKeeps, Zenon

(* One completion is over, with an error or because what it saw is durable. *)
LEMMA FinishEnds ==
    ASSUME TypeOK, NEW a \in Attempt, Completing(a), NEW c, Finish(a, c), c.rec # "reset",
           UNCHANGED view, ready' = ready \ {a},
           c.res = "completed" => Prefix(view[a], durable'.log)
    PROVE  Ends({a}) /\ ~Completing(a)'
<1>1. /\ st' = [b \in Attempt |-> IF b \notin {a} THEN st[b]
                                  ELSE IF st[b] = "orphan" THEN "answered" ELSE "done"]
      /\ out' = [b \in Attempt |-> IF b \in {a} THEN c ELSE out[b]]
  BY FinishSettles, Zenon
<1> QED
  BY <1>1, Zenon DEF Ends, Completing

LEMMA CompleteStoppedTells ==
    ASSUME IInv, IInv', DurableInv, NEW a \in Attempt, CompleteStopped(a)
    PROVE  DurableInv'
<1>1. PICK c : c = IF seq[a] = 0 THEN NoCompletion ELSE Completion("unknown", "evict", "none")
  OBVIOUS
<1>2. /\ svc = "down" /\ Completing(a) /\ queue' = Without(a) /\ ready' = ready \ {a} /\ Finish(a, c)
      /\ UNCHANGED <<fixed, ans, granted, seq, view, blocked, interleaved, svc, auth, cached, next,
                      lastseq, durable, ran>>
  BY <1>1, Zenon DEF CompleteStopped, mailbox, executor, history
<1>3. c.rec # "reset" /\ c.res # "completed"
  BY <1>1 DEF NoCompletion, Completion
<1>4. Ends({a})
  BY <1>2, <1>3, FinishEnds, Zenon DEF IInv
<1>5. Continued /\ Turned
  BY <1>2, SameDatabase, Zenon DEF DurableInv, Turned
<1> QED
  BY <1>2, <1>4, <1>5, ArrivalTells, Zenon

(* What is published continues the snapshot before it.                      *)
LEMMA PublishedContinues ==
    ASSUME IInv, ResidentInv, auth, cached.here, NEW a \in Attempt, Capturable(a)
    PROVE  /\ Prefix(durable.log, Published(a).log)
           /\ AfterPublish(a).log = cached.log
           /\ AfterPublish(a).pub = Len(Published(a).log)
           /\ \A i \in 1..AfterPublish(a).pub : AfterPublish(a).log[i] = Published(a).log[i]
<1>1. /\ view[a] \in Seq(Writers) /\ Len(view[a]) \in Nat /\ cached \in Database
      /\ cached.log \in Seq(Writers) /\ Len(cached.log) \in Nat /\ cached.pub \in Nat
      /\ durable.log \in Seq(Writers)
  BY DEF IInv, TypeOK, Database
<1>2. /\ cached.pub = Len(durable.log)
      /\ \A i \in 1..cached.pub : cached.log[i] = durable.log[i]
  BY Zenon DEF ResidentInv
<1>3. CASE ~Publishes(a)
  <2>1. Published(a) = durable /\ AfterPublish(a) = cached
    BY <1>3, Zenon DEF Published, AfterPublish
  <2> QED
    BY <1>1, <1>2, <2>1, PrefixOfItself, Zenon
<1>4. CASE Publishes(a)
  <2> DEFINE k == Len(view[a])
             log == SubSeq(cached.log, 1, k)
  <2>1. /\ k \in Nat /\ k <= Len(cached.log) /\ k > cached.pub
        /\ \A i \in 1..k : cached.log[i] \in Writers
    BY <1>1, <1>4 DEF Capturable, Publishes
  <2>2. /\ Published(a) = [log |-> log, last |-> rid[a]]
        /\ AfterPublish(a) = [cached EXCEPT !.pub = k, !.last = rid[a]]
    BY <1>4, Zenon DEF Published, AfterPublish
  <2> HIDE DEF k
  <2>3. /\ SubSeq(cached.log, 1, k) \in Seq(Writers)
        /\ Len(SubSeq(cached.log, 1, k)) = IF 1 <= k THEN k - 1 + 1 ELSE 0
        /\ \A i \in 1..k - 1 + 1 : SubSeq(cached.log, 1, k)[i] = cached.log[1 + i - 1]
    BY <2>1, SubSeqProperties
  <2>4. Len(log) = k /\ \A i \in 1..k : log[i] = cached.log[i]
    BY <2>1, <2>3
  <2> HIDE DEF log
  <2>5. Published(a).log = log
    BY <2>2
  <2>6. AfterPublish(a).log = cached.log /\ AfterPublish(a).pub = k
    BY <1>1, <2>2 DEF Database
  <2>7. Prefix(durable.log, log)
    BY <1>1, <1>2, <2>1, <2>4 DEF Prefix
  <2> QED
    BY <2>4, <2>5, <2>6, <2>7, Zenon
<1> QED
  BY <1>3, <1>4, Zenon

(* Whose turn it is waits for nobody.                                       *)
LEMMA NotStuck ==
    ASSUME IInv, NumberInv, NEW a \in Attempt, Turn(a)
    PROVE  ~Stuck(a)
<1>1. next \in Nat /\ 0 < next /\ (seq[a] = 0 \/ seq[a] = next)
  BY Zenon DEF NumberInv, Turn
<1>2. ~\E n \in next..(seq[a] - 1) : TRUE
  BY <1>1
<1> QED
  BY <1>2, Zenon DEF Stuck

(* complete(): what its invocation saw is durable.                          *)
LEMMA ConfirmedTells ==
    ASSUME IInv, IInv', DurableInv, NEW a \in Attempt, NEW c, c.rec # "reset", Confirmed(a),
           Finish(a, c), auth' \in {auth, FALSE}
    PROVE  DurableInv'
<1>1. /\ Turn(a) /\ Completing(a) /\ svc = "up" /\ auth /\ cached.here /\ Capturable(a)
      /\ cached' = AfterPublish(a) /\ durable' = Published(a)
      /\ queue' = Without(a) /\ ready' = ready \ {a}
      /\ next' = (IF seq[a] = 0 THEN next ELSE next + 1)
      /\ UNCHANGED <<fixed, ans, granted, seq, view, blocked, interleaved, svc, lastseq, ran>>
  BY Zenon DEF Confirmed, Turn, mailbox, executor, history
<1>2. /\ Prefix(durable.log, durable'.log) /\ cached'.log = cached.log
      /\ cached'.pub = Len(durable'.log)
      /\ \A i \in 1..cached'.pub : cached'.log[i] = durable'.log[i]
  BY <1>1, PublishedContinues, Zenon DEF DurableInv
<1>3. cached'.here
  BY <1>1, PublishedType, Zenon DEF IInv
<1>4. cached.log \in Seq(Writers) /\ durable.log \in Seq(Writers) /\ durable'.log \in Seq(Writers)
      /\ view[a] \in Seq(Writers)
  BY Zenon DEF IInv, TypeOK, Database
<1>5. Continued
  BY <1>1, <1>2, <1>4, PrefixOfItself, Zenon DEF Continued, ResidentInv
<1>6. Prefix(view[a], durable'.log)
  <2>1. Prefix(view[a], cached.log)
    BY <1>1, NotStuck, Zenon DEF DurableInv, SeenInv
  <2>2. Len(view[a]) <= cached'.pub
    <3>1. CASE Publishes(a)
      <4>1. cached' = [cached EXCEPT !.pub = Len(view[a]), !.last = rid[a]]
        BY <1>1, <3>1, Zenon DEF AfterPublish
      <4>2. cached \in Database /\ Len(view[a]) \in Nat
        BY <1>4 DEF IInv, TypeOK
      <4> QED
        BY <4>1, <4>2 DEF Database
    <3>2. CASE ~Publishes(a)
      <4>1. cached' = cached
        BY <1>1, <3>2, Zenon DEF AfterPublish
      <4>2. cached.pub \in Nat /\ Len(view[a]) \in Nat
        BY <1>4 DEF IInv, TypeOK, Database
      <4> QED
        BY <3>2, <4>1, <4>2 DEF Publishes
    <3> QED
      BY <3>1, <3>2, Zenon
  <2> QED
    BY <1>2, <1>4, <2>1, <2>2 DEF Prefix
<1>7. Ends({a}) /\ ~Completing(a)'
  BY <1>1, <1>6, FinishEnds, Zenon DEF IInv
<1>8. Turned
  BY <1>1, <1>7, Zenon DEF Turned, Turn
<1> QED
  BY <1>1, <1>3, <1>5, <1>7, <1>8, ArrivalTells, Zenon

LEMMA CompleteTells ==
    ASSUME IInv, IInv', DurableInv, NEW a \in Attempt, Complete(a) \/ CompleteLate(a)
    PROVE  DurableInv'
<1>1. PICK c : /\ c \in {Completion("completed", "keep", "none"), Completion("error", "keep", "none")}
               /\ Confirmed(a) /\ Finish(a, c) /\ auth' \in {auth, FALSE}
  BY Zenon DEF Complete, CompleteLate
<1>2. c.rec # "reset"
  BY <1>1 DEF Completion
<1> QED
  BY <1>1, <1>2, ConfirmedTells, Zenon

(* The failure of a completion.                                             *)
LEMMA CompleteErrorTells ==
    ASSUME IInv, IInv', DurableInv, NEW a \in Attempt, Turn(a), NEW c,
           c.rec # "reset", c.res # "completed", CompleteError(a, c), Continued,
           UNCHANGED <<fixed, ans, granted, seq, view, blocked, interleaved, next, lastseq, ran>>
    PROVE  DurableInv'
<1> DEFINE lost == {a} \cup (IF seq[a] = 0 THEN {} ELSE ready)
           err  == IF seq[a] = 0 THEN c ELSE Completion("unknown", "evict", "none")
<1>1. /\ svc' = (IF seq[a] = 0 THEN "up" ELSE "down") /\ ready' = ready \ lost
      /\ queue' = Without(a)
      /\ st' = [b \in Attempt |-> IF b \notin lost THEN st[b]
                                  ELSE IF st[b] = "orphan" THEN "answered" ELSE "done"]
      /\ out' = [b \in Attempt |-> IF b \in lost THEN err ELSE out[b]]
  BY Zenon DEF CompleteError
<1>2. lost \in SUBSET Attempt /\ a \in lost /\ Completing(a) /\ \A b \in lost : Completing(b)
  <2>1. Completing(a) /\ ready \subseteq Attempt /\ \A b \in ready : Completing(b)
    BY Zenon DEF IInv, TypeOK, CompletingInv, Turn
  <2> QED
    BY <2>1, Zenon
<1>3. err.rec # "reset" /\ err.res # "completed"
  <2>1. /\ Completion("unknown", "evict", "none").rec # "reset"
        /\ Completion("unknown", "evict", "none").res # "completed"
    BY DEF Completion
  <2> QED
    BY <2>1, Zenon
<1> HIDE DEF lost, err
<1>4. Ends(lost)
  BY <1>1, <1>2, <1>3, Zenon DEF Ends
<1>5. \A b \in Attempt : Completing(b)' => Completing(b) /\ b # a
  BY <1>1, <1>2, Zenon DEF Completing
<1>6. svc' = "up" => svc = "up" /\ \A b \in Attempt : ~Completing(b)'
  BY <1>1, <1>2, <1>5, Zenon DEF IInv, CompletingInv, Turn
<1>7. Turned
  BY Zenon DEF Turned
<1> QED
  BY <1>1, <1>2, <1>4, <1>6, <1>7, ArrivalTells, Zenon

LEMMA CompleteUnconfirmedTells ==
    ASSUME IInv, IInv', DurableInv, NEW a \in Attempt, CompleteUnconfirmed(a)
    PROVE  DurableInv'
<1>1. PICK c : c = Completion("unknown", "evict", "none")
  OBVIOUS
<1>2. /\ Turn(a) /\ cached.here /\ CompleteError(a, c)
      /\ \/ cached' = NoDatabase /\ durable' = durable
         \/ /\ Capturable(a) /\ auth' = FALSE
            /\ durable' = durable \/ (auth /\ durable' = Published(a))
      /\ UNCHANGED <<fixed, ans, granted, seq, view, blocked, interleaved, next, lastseq, ran>>
  BY <1>1, Zenon DEF CompleteUnconfirmed, mailbox, history
<1>3. c.rec # "reset" /\ c.res # "completed"
  BY <1>1 DEF Completion
<1>4. Prefix(durable.log, durable'.log)
  <2>1. durable.log \in Seq(Writers)
    BY Zenon DEF IInv, TypeOK
  <2> QED
    BY <1>2, <2>1, PrefixOfItself, PublishedContinues, Zenon DEF DurableInv
<1>5. ~(auth' /\ cached'.here)
  <2>1. ~NoDatabase.here
    BY DEF NoDatabase
  <2> QED
    BY <1>2, <2>1, Zenon
<1>6. Continued
  BY <1>4, <1>5, Zenon DEF Continued, ResidentInv
<1> QED
  BY <1>2, <1>3, <1>6, CompleteErrorTells, Zenon

LEMMA CompleteRefusedTells ==
    ASSUME IInv, IInv', DurableInv, NEW a \in Attempt, CompleteRefused(a)
    PROVE  DurableInv'
<1>1. PICK c : c = Completion("error", "keep", "none")
  OBVIOUS
<1>2. /\ Turn(a) /\ svc = "up" /\ CompleteError(a, c)
      /\ \/ UNCHANGED <<auth, cached, durable>>
         \/ /\ cached.here /\ Capturable(a) /\ (auth \/ ~Publishes(a)) /\ auth' = FALSE
            /\ durable' = Published(a)
      /\ UNCHANGED <<fixed, ans, granted, seq, view, blocked, interleaved, next, lastseq, ran>>
  BY <1>1, Zenon DEF CompleteRefused, Turn, mailbox, executor, history
<1>3. c.rec # "reset" /\ c.res # "completed"
  BY <1>1 DEF Completion
<1>4. Continued
  <2>1. CASE UNCHANGED <<auth, cached, durable>>
    BY <1>2, <2>1, SameDatabase, Zenon DEF DurableInv
  <2>2. CASE cached.here /\ Capturable(a) /\ auth /\ auth' = FALSE /\ durable' = Published(a)
    <3>1. Prefix(durable.log, durable'.log)
      BY <2>2, PublishedContinues, Zenon DEF DurableInv
    <3> QED
      BY <2>2, <3>1, Zenon DEF Continued, ResidentInv
  <2>3. CASE ~Publishes(a) /\ auth' = FALSE /\ durable' = Published(a)
    <3>1. durable' = durable /\ durable.log \in Seq(Writers)
      BY <2>3, Zenon DEF Published, IInv, TypeOK
    <3> QED
      BY <2>3, <3>1, PrefixOfItself, Zenon DEF Continued, ResidentInv
  <2> QED
    BY <1>2, <2>1, <2>2, <2>3, Zenon
<1> QED
  BY <1>2, <1>3, <1>4, CompleteErrorTells, Zenon

-----------------------------------------------------------------------------
(* A database that is loaded again is not that of the completions that      *)
(* wait: none of them gets its turn.                                        *)
LEMMA AllStuck ==
    ASSUME IInv, DurableInv, NEW a \in Attempt, st[a] = "prepare", Free, Arrives(a), ~cached.here,
           NEW b \in Attempt, Completing(b)
    PROVE  Stuck(b)
<1>1. svc = "up" /\ queue[a] = {} /\ \A c \in ready : seq[c] # next
  BY Zenon DEF Free, Arrives
<1>2. mode = "interleaving"
  <2>1. a # b
    BY Zenon DEF Completing
  <2> QED
    BY <2>1, SerialAlone, Zenon DEF Busy
<1>3. \A c \in Attempt : Completing(c) => c \in ready
  BY <1>1, Zenon DEF DurableInv, QueueInv
<1>4. Missing(next)
  BY <1>1, <1>3, Zenon DEF Missing
<1>5. seq[b] \in Nat /\ seq[b] # 0 /\ next \in Nat /\ next <= seq[b] /\ seq[b] # next
  BY <1>1, <1>2, <1>3, Zenon DEF IInv, TypeOK, CompletingInv, DurableInv, NumberInv
<1>6. next \in next..(seq[b] - 1)
  BY <1>5
<1> QED
  BY <1>4, <1>6, Zenon DEF Stuck

LEMMA ResidentContinues ==
    ASSUME IInv, ResidentInv, auth
    PROVE  /\ Resident \in Database /\ Resident.pub = Len(durable.log)
           /\ \A i \in 1..Resident.pub : Resident.log[i] = durable.log[i]
           /\ cached.here => Resident = cached
<1>1. Resident \in Database
  BY ResidentType, Zenon
<1>2. Loaded.pub = Len(durable.log) /\ Loaded.log = durable.log
  BY DEF Loaded
<1> QED
  BY <1>1, <1>2, Zenon DEF Resident, ResidentInv

LEMMA HydratedContinues ==
    ASSUME NEW db \in Database, NEW d \in Hydrated(db)
    PROVE  d.pub = db.pub /\ Prefix(db.log, d.log) /\ \A i \in 1..d.pub : d.log[i] = db.log[i]
<1>1. db.log \in Seq(Writers) /\ NoAttempt \in Writers /\ db.pub \in Nat /\ db.pub <= Len(db.log)
  BY Zenon DEF Database, Writers
<1>2. d = db \/ d = [db EXCEPT !.log = Append(@, NoAttempt)]
  BY Zenon DEF Hydrated
<1>3. d.pub = db.pub /\ (d.log = db.log \/ d.log = Append(db.log, NoAttempt))
  BY <1>2 DEF Database
<1>4. Prefix(db.log, d.log)
  BY <1>1, <1>3, PrefixOfItself, PrefixOfAppend, Zenon
<1>5. Len(db.log) \in Nat
  BY <1>1
<1>6. \A i \in 1..db.pub : i \in 1..Len(db.log)
  BY <1>1, <1>5
<1> QED
  BY <1>3, <1>4, <1>6, Zenon DEF Prefix

LEMMA ReplayTells == ASSUME IInv, IInv', DurableInv, NEW a \in Attempt, Replay(a) PROVE DurableInv'
<1>1. PICK c : c = Completion("completed", "keep", "none")
  OBVIOUS
<1>2. /\ st[a] = "prepare" /\ Free /\ Arrives(a) /\ auth /\ Finish(a, c) /\ cached' = Resident
      /\ queue' = Without(a)
      /\ view' = [view EXCEPT ![a] = SubSeq(Resident.log, 1, Resident.pub)]
      /\ UNCHANGED <<fixed, ans, granted, seq, blocked, interleaved, svc, auth, ready, next, lastseq,
                      durable, ran>>
  BY <1>1, Zenon DEF Replay, mailbox, executor, history
<1>3. c.rec # "reset"
  BY <1>1 DEF Completion
<1>4. /\ Resident \in Database /\ Resident.pub = Len(durable.log)
      /\ \A i \in 1..Resident.pub : Resident.log[i] = durable.log[i]
      /\ cached.here => Resident = cached
  BY <1>2, ResidentContinues, Zenon DEF DurableInv
<1>5. cached'.here
  BY <1>2, ResidentType, Zenon
<1>6. cached.log \in Seq(Writers) /\ durable.log \in Seq(Writers)
  BY Zenon DEF IInv, TypeOK, Database
<1>7. Continued
  <2>1. ResidentInv'
    BY <1>2, <1>4, Zenon DEF ResidentInv
  <2>2. svc = "up"
    BY <1>2, Zenon DEF Free
  <2> QED
    BY <1>2, <1>4, <1>6, <2>1, <2>2, AllStuck, PrefixOfItself, Zenon DEF Continued
<1>8. Prefix(view'[a], durable.log)
  <2> DEFINE log == Resident.log
             pub == Resident.pub
             seen == SubSeq(log, 1, pub)
  <2>1. log \in Seq(Writers) /\ pub \in Nat /\ pub <= Len(log)
    BY <1>4, Zenon DEF Database
  <2>2. 1 \in Int /\ pub \in Int /\ \A i \in 1..pub : log[i] \in Writers
    BY <2>1
  <2>3. view'[a] = seen
    BY <1>2, Zenon DEF IInv, TypeOK
  <2>4. pub = Len(durable.log) /\ \A i \in 1..pub : log[i] = durable.log[i]
    BY <1>4, Zenon
  <2> HIDE DEF log, pub
  <2>5. /\ Len(SubSeq(log, 1, pub)) = IF 1 <= pub THEN pub - 1 + 1 ELSE 0
        /\ \A i \in 1..pub - 1 + 1 : SubSeq(log, 1, pub)[i] = log[1 + i - 1]
    BY <2>2, SubSeqProperties
  <2>6. Len(seen) = pub /\ \A i \in 1..pub : seen[i] = log[i]
    BY <2>1, <2>5
  <2> HIDE DEF seen
  <2>7. Prefix(seen, durable.log)
    BY <2>1, <2>4, <2>6 DEF Prefix
  <2> QED
    BY <2>3, <2>7, Zenon
<1>9. /\ st'[a] = "done" /\ out'[a] = c /\ ans[a] = "none" /\ a \notin ready
      /\ \A b \in Attempt \ {a} : st'[b] = st[b] /\ out'[b] = out[b] /\ view'[b] = view[b]
  <2>1. ans[a] = "none" /\ a \notin ready
    BY <1>2, Zenon DEF IInv, AttemptInv, CompletingInv, Completing
  <2>2. st' = [st EXCEPT ![a] = "done"] /\ out' = [out EXCEPT ![a] = c]
    BY <1>2, Zenon DEF Finish
  <2> QED
    BY <1>2, <2>1, <2>2, Zenon DEF IInv, TypeOK
<1>10. Ends({a})
  BY <1>2, <1>3, <1>8, <1>9, Zenon DEF Ends
<1>11. Turned
  BY <1>2, Zenon DEF Turned
<1> QED
  BY <1>2, <1>5, <1>7, <1>10, <1>11, ArrivalTells, Zenon

LEMMA ExecuteTells == ASSUME IInv, IInv', DurableInv, NEW a \in Attempt, Execute(a) PROVE DurableInv'
<1>1. /\ st[a] = "prepare" /\ Free /\ Arrives(a) /\ auth /\ svc = "up"
      /\ st' = [st EXCEPT ![a] = "execute"] /\ ran' = ran \cup {a} /\ queue' = Without(a)
      /\ cached' = Resident \/ cached' \in Hydrated(Resident)
      /\ UNCHANGED <<fixed, ans, marks, blocked, interleaved, svc, auth, ready, next, lastseq,
                      durable>>
  BY Zenon DEF Execute, Free, mailbox
<1>2. /\ Resident \in Database /\ Resident.pub = Len(durable.log)
      /\ \A i \in 1..Resident.pub : Resident.log[i] = durable.log[i]
      /\ cached.here => Resident = cached
  BY <1>1, ResidentContinues, Zenon DEF DurableInv
<1>3. Resident.here /\ Resident.log \in Seq(Writers) /\ durable.log \in Seq(Writers)
  BY <1>1, <1>2, ResidentType, Zenon DEF IInv, TypeOK, Database
<1>4. /\ cached'.here /\ cached'.pub = Resident.pub /\ Prefix(Resident.log, cached'.log)
      /\ \A i \in 1..cached'.pub : cached'.log[i] = Resident.log[i]
  BY <1>1, <1>2, <1>3, HydratedType, HydratedContinues, PrefixOfItself, Zenon
<1>5. Continued
  <2>1. ResidentInv'
    BY <1>1, <1>2, <1>4, Zenon DEF ResidentInv
  <2> QED
    BY <1>1, <1>2, <1>3, <1>4, <2>1, AllStuck, PrefixOfItself, Zenon DEF Continued
<1>6. st'[a] = "execute" /\ \A c \in Attempt \ {a} : st'[c] = st[c]
  BY <1>1, Zenon DEF IInv, TypeOK
<1> USE DEF fixed, marks
<1>7. Remain /\ Turned /\ Tells
  BY <1>1, <1>6, Zenon DEF Remain, Turned, Tells, Told, Completing
<1>8. Runs
  BY <1>1, <1>6, Zenon DEF Runs, Busy
<1>9. Taken({a})
  <2>1. \A c \in Attempt : st'[c] = "prepare" <=> st[c] = "prepare" /\ c # a
    BY <1>6, Zenon
  <2>2. \A c \in Attempt : Completing(c)' /\ c \notin ready' => c \notin ready /\ c # a
    BY <1>1, <1>6, Zenon DEF Completing
  <2> QED
    BY <1>1, <1>4, <2>1, <2>2, OneTaken, Zenon DEF DurableInv
<1> QED
  BY <1>1, <1>5, <1>7, <1>8, <1>9, StepKeeps, Zenon

(* A database that grew continues the snapshot that it continued.           *)
LEMMA GrownContinues ==
    ASSUME IInv, ResidentInv, auth, cached.here, NEW w \in Writers
    PROVE  /\ Append(cached.log, w) \in Seq(Writers)
           /\ Prefix(cached.log, Append(cached.log, w))
           /\ Prefix(durable.log, Append(cached.log, w))
           /\ \A i \in 1..cached.pub : Append(cached.log, w)[i] = durable.log[i]
<1> DEFINE log == Append(cached.log, w)
<1>1. /\ cached.log \in Seq(Writers) /\ durable.log \in Seq(Writers) /\ cached.pub \in Nat
      /\ cached.pub <= Len(cached.log) /\ cached.pub = Len(durable.log)
      /\ \A i \in 1..cached.pub : cached.log[i] = durable.log[i]
  BY Zenon DEF IInv, TypeOK, Database, ResidentInv
<1>2. log \in Seq(Writers) /\ Prefix(cached.log, log)
  BY <1>1, AppendProperties, PrefixOfAppend, Zenon
<1>3. Len(cached.log) \in Nat /\ Len(log) \in Nat
  BY <1>1, <1>2
<1> HIDE DEF log
<1>4. Prefix(durable.log, log) /\ \A i \in 1..cached.pub : log[i] = durable.log[i]
  BY <1>1, <1>2, <1>3 DEF Prefix
<1> QED
  BY <1>2, <1>4, Zenon DEF log

LEMMA ImmediateWriteTells ==
    ASSUME IInv, IInv', DurableInv, NEW w \in Writers, ImmediateWrite(w)
    PROVE  DurableInv'
<1> DEFINE log == Append(cached.log, w)
<1>1. /\ svc = "up" /\ cached.here /\ auth /\ durable' = [log |-> log, last |-> NoId]
      /\ cached' = [cached EXCEPT !.log = log, !.pub = Len(log), !.last = NoId]
      /\ UNCHANGED <<fixed, st, ans, marks, blocked, interleaved, svc, auth, queue, ready, next,
                      lastseq, ran>>
  BY Zenon DEF ImmediateWrite, Calling, Free, mailbox, executor, history
<1>2. log \in Seq(Writers) /\ Prefix(cached.log, log) /\ Prefix(durable.log, log)
  BY <1>1, GrownContinues, Zenon DEF DurableInv
<1> HIDE DEF log
<1>3. /\ cached'.here /\ cached'.log = log /\ cached'.pub = Len(log) /\ durable'.log = log
  <2>1. cached \in Database
    BY Zenon DEF IInv, TypeOK
  <2> QED
    BY <1>1, <2>1 DEF Database
<1>4. Continued
  BY <1>1, <1>2, <1>3, Zenon DEF Continued, ResidentInv
<1> USE DEF fixed, marks
<1>5. Remain /\ Turned /\ Tells /\ Runs
  BY <1>1, Zenon DEF Remain, Turned, Tells, Told, Runs, Completing
<1>6. Taken({})
  BY <1>1, <1>3, <1>5, NoneTaken, Zenon DEF DurableInv
<1> QED
  BY <1>1, <1>4, <1>5, <1>6, StepKeeps, Zenon

LEMMA ImmediateWriteFailsTells ==
    ASSUME IInv, IInv', DurableInv, NEW w \in Writers, ImmediateWriteFails(w)
    PROVE  DurableInv'
<1> DEFINE log == Append(cached.log, w)
<1>1. /\ cached.here /\ cached' = [cached EXCEPT !.log = log] /\ svc' = "down"
      /\ \/ durable' = durable /\ auth' \in {auth, FALSE}
         \/ auth /\ durable' = [log |-> log, last |-> NoId] /\ auth' = FALSE
      /\ UNCHANGED <<fixed, st, ans, marks, blocked, interleaved, queue, ready, next, lastseq, ran>>
  BY Zenon DEF ImmediateWriteFails, Calling, mailbox, executor, history
<1>2. auth => /\ Prefix(durable.log, log)
              /\ \A i \in 1..cached.pub : log[i] = durable.log[i]
  BY <1>1, GrownContinues, Zenon DEF DurableInv
<1> HIDE DEF log
<1>3. cached'.here = cached.here /\ cached'.log = log /\ cached'.pub = cached.pub
  <2>1. cached \in Database
    BY Zenon DEF IInv, TypeOK
  <2> QED
    BY <1>1, <2>1 DEF Database
<1>4. Prefix(durable.log, durable'.log)
  <2>1. durable.log \in Seq(Writers) /\ [log |-> log, last |-> NoId].log = log
    BY DEF IInv, TypeOK
  <2> QED
    BY <1>1, <1>2, <2>1, PrefixOfItself, Zenon
<1>5. ResidentInv'
  BY <1>1, <1>2, <1>3, Zenon DEF DurableInv, ResidentInv
<1>6. Continued
  BY <1>1, <1>4, <1>5, Zenon DEF Continued
<1> USE DEF fixed, marks
<1>7. Remain /\ Turned /\ Tells /\ Runs
  BY <1>1, Zenon DEF Remain, Turned, Tells, Told, Runs, Completing
<1>8. Taken({})
  BY <1>1, <1>3, <1>7, NoneTaken, Zenon DEF DurableInv
<1> QED
  BY <1>1, <1>6, <1>7, <1>8, StepKeeps, Zenon

(* The method returned; what it saw is the whole resident database.         *)
LEMMA ReturnTells == ASSUME IInv, IInv', DurableInv, NEW a \in Attempt, Return(a) PROVE DurableInv'
<1> DEFINE failed == Completion("failed", "reset", "none")
<1>1. /\ st[a] = "execute" /\ Free /\ svc = "up" /\ cached.here
      /\ cached' = cached \/ cached' = [cached EXCEPT !.log = Append(@, a)]
      /\ view' = [view EXCEPT ![a] = cached'.log]
      /\ IF mode = "interleaving" THEN lastseq' = lastseq + 1 /\ seq' = [seq EXCEPT ![a] = lastseq']
         ELSE UNCHANGED <<lastseq, seq>>
      /\ \/ /\ st' = [st EXCEPT ![a] = "complete"] /\ out' = out
            /\ queue' = [queue EXCEPT ![a] = {b \in Attempt : st[b] = "prepare"}]
         \/ Finish(a, failed) /\ queue' = queue
      /\ UNCHANGED <<fixed, ans, granted, blocked, interleaved, svc, auth, ready, next, durable, ran>>
  BY Zenon DEF Return, Free, mailbox, history
<1>2. failed.res = "failed"
  BY DEF Completion
<1> HIDE DEF failed
<1>3. cached \in Database /\ cached.log \in Seq(Writers) /\ durable.log \in Seq(Writers)
      /\ a \in Writers /\ cached'.log \in Seq(Writers)
  BY Zenon DEF IInv, TypeOK, Database, Writers
<1>4. /\ cached'.here /\ cached'.pub = cached.pub /\ Prefix(cached.log, cached'.log)
      /\ auth => \A i \in 1..cached.pub : cached'.log[i] = durable.log[i]
  <2>1. CASE cached' = cached
    BY <1>1, <1>3, <2>1, PrefixOfItself, Zenon DEF DurableInv, ResidentInv
  <2>2. CASE cached' = [cached EXCEPT !.log = Append(@, a)]
    <3>1. cached'.here = cached.here /\ cached'.pub = cached.pub
          /\ cached'.log = Append(cached.log, a)
      BY <1>3, <2>2 DEF Database
    <3> QED
      BY <1>1, <1>3, <3>1, PrefixOfAppend, GrownContinues, Zenon DEF DurableInv
  <2> QED
    BY <1>1, <2>1, <2>2, Zenon
<1>5. Continued
  <2>1. ResidentInv'
    BY <1>1, <1>4, Zenon DEF DurableInv, ResidentInv
  <2> QED
    BY <1>1, <1>3, <1>4, <2>1, PrefixOfItself, Zenon DEF Continued
<1>6. /\ view'[a] = cached'.log
      /\ \/ st'[a] = "complete" /\ queue'[a] = {b \in Attempt : st[b] = "prepare"}
         \/ st'[a] = "done" /\ out'[a] = failed
      /\ \A c \in Attempt \ {a} : /\ st'[c] = st[c] /\ out'[c] = out[c] /\ view'[c] = view[c]
                                  /\ seq'[c] = seq[c]
  <2>1. view'[a] = cached'.log /\ \A c \in Attempt \ {a} : view'[c] = view[c]
    BY <1>1, Zenon DEF IInv, TypeOK
  <2>2. \A c \in Attempt \ {a} : seq'[c] = seq[c]
    BY <1>1, Zenon DEF IInv, TypeOK
  <2>3. CASE /\ st' = [st EXCEPT ![a] = "complete"] /\ out' = out
             /\ queue' = [queue EXCEPT ![a] = {b \in Attempt : st[b] = "prepare"}]
    <3>1. queue'[a] = {b \in Attempt : st[b] = "prepare"}
      BY <2>3, Zenon DEF DurableInv, QueueInv
    <3>2. st'[a] = "complete" /\ \A c \in Attempt \ {a} : st'[c] = st[c] /\ out'[c] = out[c]
      BY <2>3, Zenon DEF IInv, TypeOK
    <3> QED
      BY <2>1, <2>2, <3>1, <3>2, Zenon
  <2>4. CASE Finish(a, failed)
    BY <1>1, <2>1, <2>2, <2>4, Zenon DEF IInv, TypeOK, Finish
  <2> QED
    BY <1>1, <2>3, <2>4, Zenon
<1>7. \/ mode = "interleaving" /\ lastseq' = lastseq + 1 /\ seq'[a] = lastseq + 1
      \/ mode # "interleaving" /\ lastseq' = lastseq /\ seq'[a] = 0 /\ \A c \in Attempt : seq[c] = 0
  BY <1>1, Zenon DEF IInv, TypeOK, DurableInv, NumberInv
<1>8. /\ next \in Nat /\ 0 < next /\ next <= lastseq + 1 /\ lastseq \in Nat
      /\ \A c \in Attempt : seq[c] \in Nat /\ (Completing(c) => seq[c] <= lastseq)
  BY Zenon DEF IInv, TypeOK, DurableInv, NumberInv
<1>9. \A c \in Attempt \ {a} : Completing(c)' <=> Completing(c)
  BY <1>6, Zenon DEF Completing
<1>10. SeenInv'
  <2> SUFFICES ASSUME svc' = "up", auth', cached'.here,
                      NEW b \in Attempt, Completing(b)', ~Stuck(b)'
               PROVE  Prefix(view'[b], cached'.log)
    BY Zenon DEF SeenInv
  <2>1. CASE b = a
    BY <1>3, <1>6, <2>1, PrefixOfItself, Zenon
  <2>2. CASE b # a
    <3>1. Completing(b) /\ view'[b] = view[b] /\ seq'[b] = seq[b] /\ view[b] \in Seq(Writers)
      BY <1>6, <1>9, <2>2, Zenon DEF IInv, TypeOK
    <3>2. ~Stuck(b)
      <4> SUFFICES ASSUME NEW n \in next..(seq[b] - 1), Missing(n) PROVE FALSE
        BY Zenon DEF Stuck
      <4>1. n # seq'[a]
        BY <1>7, <1>8, <3>1
      <4>2. Missing(n)'
        BY <1>6, <1>9, <4>1, Zenon DEF Missing
      <4> QED
        BY <1>1, <3>1, <4>2, Zenon DEF Stuck
    <3>3. Prefix(view[b], cached.log)
      BY <1>1, <3>1, <3>2, Zenon DEF DurableInv, SeenInv
    <3> QED
      BY <1>3, <1>4, <3>1, <3>3, PrefixOfPrefix, Zenon
  <2> QED
    BY <2>1, <2>2, Zenon
<1>11. ToldInv'
  <2>1. Tells
    BY <1>1, <1>2, <1>6, Zenon DEF IInv, AttemptInv, Tells, Told
  <2> QED
    BY <1>5, <2>1, ToldStays, Zenon DEF DurableInv, Continued
<1>12. NumberInv'
  <2>1. next' \in Nat /\ 0 < next' /\ next' <= lastseq' + 1
    BY <1>1, <1>7, <1>8
  <2>2. mode' # "interleaving" => \A c \in Attempt : seq'[c] = 0
    BY <1>1, <1>7, Zenon DEF fixed
  <2>3. ASSUME NEW c \in Attempt, Completing(c)' PROVE seq'[c] <= lastseq'
    <3>1. CASE c = a
      BY <1>7, <1>8, <3>1
    <3>2. CASE c # a
      BY <1>6, <1>7, <1>8, <1>9, <2>3, <3>2, SMTT(60)
    <3> QED
      BY <3>1, <3>2, Zenon
  <2>4. ASSUME NEW c \in Attempt, Completing(c)', seq'[c] # 0 PROVE next' <= seq'[c]
    <3>1. CASE c = a
      BY <1>1, <1>7, <1>8, <2>4, <3>1
    <3>2. CASE c # a
      BY <1>1, <1>6, <1>9, <2>4, <3>2, Zenon DEF DurableInv, NumberInv
    <3> QED
      BY <3>1, <3>2, Zenon
  <2>5. ASSUME NEW c \in Attempt \ {a}, Completing(c)', seq'[c] # 0 PROVE seq'[c] # seq'[a]
    BY <1>6, <1>7, <1>8, <1>9, <2>5
  <2>6. ASSUME NEW b \in Attempt, NEW c \in Attempt, Completing(b)', Completing(c)',
               seq'[b] # 0, seq'[b] = seq'[c]
        PROVE  b = c
    BY <1>6, <1>9, <2>5, <2>6, Zenon DEF DurableInv, NumberInv
  <2> QED
    BY <2>1, <2>2, <2>3, <2>4, <2>6, Zenon DEF NumberInv
<1>13. QueueInv'
  <2>1. queue' \in [Attempt -> SUBSET Attempt] /\ \A c \in Attempt \ {a} : queue'[c] = queue[c]
    <3>1. PICK e \in SUBSET Attempt : e = {b \in Attempt : st[b] = "prepare"}
      OBVIOUS
    <3>2. queue \in [Attempt -> SUBSET Attempt] /\ (queue' = [queue EXCEPT ![a] = e] \/ queue' = queue)
      BY <1>1, <3>1, Zenon DEF DurableInv, QueueInv
    <3> QED
      BY <3>2, Zenon
  <2>2. \A c \in Attempt : st'[c] = "prepare" <=> st[c] = "prepare"
    BY <1>1, <1>6, Zenon
  <2>3. Completing(a)' => queue'[a] = {b \in Attempt : st[b] = "prepare"}
    BY <1>6, Zenon DEF Completing
  <2>4. \A c, d \in Attempt : d \in queue'[c] /\ Completing(c)' => st'[d] = "prepare"
    BY <1>9, <2>1, <2>2, <2>3, Zenon DEF DurableInv, QueueInv
  <2>5. ASSUME NEW c \in Attempt, NEW d \in Attempt,
               st'[c] = "prepare", Completing(d)', d \notin ready'
        PROVE  d \in queue'[c] \/ c \in queue'[d]
    <3>1. c # a /\ st[c] = "prepare" /\ queue'[c] = queue[c]
      BY <1>1, <2>1, <2>2, <2>5, Zenon
    <3>2. CASE d = a
      BY <2>3, <2>5, <3>1, <3>2, Zenon
    <3>3. CASE d # a
      BY <1>1, <1>9, <2>1, <2>5, <3>1, <3>3, Zenon DEF DurableInv, QueueInv
    <3> QED
      BY <3>2, <3>3, Zenon
  <2> QED
    BY <1>4, <2>1, <2>4, <2>5, Zenon DEF QueueInv
<1>14. Runs
  <2>1. st'[a] = "done" => Resets(a)'
    <3>1. CASE mode = "interleaving"
      <4>1. seq'[a] # 0
        BY <1>7, <1>8, <3>1
      <4> QED
        BY <1>2, <1>6, <4>1, Zenon DEF Resets
    <3>2. CASE mode # "interleaving"
      BY <1>1, <3>2, Zenon DEF IInv, BlockInv, Resets
    <3> QED
      BY <3>1, <3>2, Zenon
  <2> QED
    BY <1>1, <1>6, <2>1, Zenon DEF Runs, Busy
<1>15. ResetInv'
  BY <1>14, ResetStays, Zenon DEF DurableInv
<1> QED
  BY <1>5, <1>10, <1>11, <1>12, <1>13, <1>15, Zenon DEF DurableInv, Continued

(* The next host starts from the newest snapshot, without completions.      *)
LEMMA ActivateTells == ASSUME IInv, IInv', DurableInv, Activate PROVE DurableInv'
<1>1. /\ mb = "stopped" /\ queue' = [a \in Attempt |-> {}] /\ ready' = {} /\ next' = 1
      /\ cached' \in Hydrated(Loaded) /\ lastseq' = 0
      /\ st' = [a \in Attempt |-> IF st[a] = "orphan" THEN "answered" ELSE st[a]]
      /\ Forget(st') /\ UNCHANGED <<fixed, ans, view, durable>>
  BY Zenon DEF Activate
<1>2. \A c \in Attempt : st'[c] \notin Busy /\ ~Completing(c)'
  <2>1. \A c \in Attempt : st[c] \notin Busy
    BY <1>1, Zenon DEF IInv, StopInv
  <2> QED
    BY <1>1, <2>1, Zenon DEF Busy, Completing
<1>3. durable.log \in Seq(Writers) /\ Len(durable.log) \in Nat /\ durable.last \in Ids
  BY DEF IInv, TypeOK
<1>4. Loaded \in Database /\ Loaded.pub = Len(durable.log) /\ Loaded.log = durable.log
  BY <1>3, SMTT(60) DEF Loaded, Database
<1>5. ResidentInv'
  <2>1. cached'.pub = Loaded.pub /\ \A i \in 1..cached'.pub : cached'.log[i] = Loaded.log[i]
    BY <1>1, <1>4, HydratedContinues, Zenon
  <2> QED
    BY <1>1, <1>4, <2>1, Zenon DEF ResidentInv
<1>6. SeenInv'
  BY <1>2, Zenon DEF SeenInv
<1>7. ToldInv'
  BY <1>1, <1>2, Zenon DEF DurableInv, ToldInv, Told, Busy
<1>8. NumberInv'
  <2>1. next' \in Nat /\ 0 < next' /\ next' <= lastseq' + 1
    BY <1>1
  <2>2. mode' # "interleaving" => \A c \in Attempt : seq'[c] = 0
    BY <1>1, Zenon DEF DurableInv, NumberInv, Forget, fixed
  <2> QED
    BY <1>2, <2>1, <2>2, Zenon DEF NumberInv
<1>9. QueueInv'
  BY <1>1, <1>2, Zenon DEF QueueInv
<1>10. ResetInv'
  BY <1>2, Zenon DEF ResetInv, Busy
<1> QED
  BY <1>5, <1>6, <1>7, <1>8, <1>9, <1>10, Zenon DEF DurableInv

-----------------------------------------------------------------------------
LEMMA DurableInitially == ASSUME Init PROVE DurableInv
<1>1. /\ st = [a \in Attempt |-> "new"] /\ ans = [a \in Attempt |-> "none"]
      /\ seq = [a \in Attempt |-> 0] /\ svc = "down" /\ auth = FALSE
      /\ queue = [a \in Attempt |-> {}] /\ next = 1 /\ lastseq = 0
  BY Zenon DEF Init
<1>2. \A a \in Attempt : st[a] = "new" /\ ans[a] = "none" /\ ~Completing(a) /\ seq[a] = 0
  BY <1>1, Zenon DEF Completing
<1>3. NumberInv
  <2>1. next \in Nat /\ 0 < next /\ next <= lastseq + 1
    BY <1>1
  <2> QED
    BY <1>2, <2>1, Zenon DEF NumberInv
<1>4. ResidentInv /\ SeenInv /\ ToldInv
  BY <1>1, <1>2, Zenon DEF ResidentInv, SeenInv, ToldInv, Told
<1>5. QueueInv /\ ResetInv
  BY <1>1, <1>2, Zenon DEF QueueInv, ResetInv, Busy
<1> QED
  BY <1>3, <1>4, <1>5, Zenon DEF DurableInv

LEMMA DurableInductive == ASSUME IInv, IInv', DurableInv, [Next]_vars PROVE DurableInv'
<1>1. CASE Drain \/ AdmitNext \/ Stopped
  BY <1>1, DrainTells, AdmitNextTells, StoppedTells, Zenon
<1>2. CASE EvictDrained \/ LoseAuthority \/ UNCHANGED vars
  BY <1>2, QuietTells, Zenon
<1>3. CASE Activate
  BY <1>3, ActivateTells, Zenon
<1>4. ASSUME NEW a \in Attempt,
             \/ SubmitRefused(a) \/ Submit(a) \/ Prepare(a) \/ Settlement(a)
             \/ Grant(a) \/ Return(a) \/ Fail(a) \/ Executed(a) \/ ExecutedStop(a)
      PROVE  DurableInv'
  <2>1. CASE SubmitRefused(a) \/ Submit(a)
    BY <2>1, SubmitRefusedTells, SubmitTells, Zenon
  <2>2. CASE Prepare(a)
    BY <2>2, PrepareFailsTells, ReplayTells, ExecuteTells, Zenon DEF Prepare
  <2>3. CASE Settlement(a)
    BY <2>3, ReceiveTells, CompleteTells, CompleteUnconfirmedTells, CompleteRefusedTells,
       CompleteStoppedTells, Zenon DEF Settlement
  <2>4. CASE Grant(a) \/ Return(a) \/ Fail(a)
    BY <2>4, GrantTells, ReturnTells, FailTells, Zenon
  <2>5. CASE Executed(a) \/ ExecutedStop(a)
    BY <2>5, ExecutedTells, ExecutedStopTells, Zenon
  <2> QED
    BY <1>4, <2>1, <2>2, <2>3, <2>4, <2>5, Zenon
<1>5. ASSUME NEW w \in Writers, ImmediateWrite(w) \/ ImmediateWriteFails(w) PROVE DurableInv'
  BY <1>5, ImmediateWriteTells, ImmediateWriteFailsTells, Zenon
<1> QED
  BY <1>1, <1>2, <1>3, <1>4, <1>5, Zenon DEF Next

(* A prefix in the sense used here is one in that of the property.          *)
LEMMA PrefixIsSubSeq ==
    ASSUME NEW p \in Seq(Writers), NEW q \in Seq(Writers), Prefix(p, q)
    PROVE  \E n \in 0..Len(q) : p = SubSeq(q, 1, n)
<1> DEFINE k == Len(p)
<1>1. /\ k \in Nat /\ Len(q) \in Nat /\ k <= Len(q)
      /\ \A i \in 1..k : p[i] = q[i] /\ q[i] \in Writers
  BY DEF Prefix
<1>2. k \in 0..Len(q)
  BY <1>1
<1>3. p = SubSeq(q, 1, k)
  <2> HIDE DEF k
  <2>1. /\ SubSeq(q, 1, k) \in Seq(Writers)
        /\ Len(SubSeq(q, 1, k)) = IF 1 <= k THEN k - 1 + 1 ELSE 0
        /\ \A i \in 1..k - 1 + 1 : SubSeq(q, 1, k)[i] = q[1 + i - 1]
    BY <1>1, SubSeqProperties
  <2>2. Len(SubSeq(q, 1, k)) = k /\ \A i \in 1..k : SubSeq(q, 1, k)[i] = p[i]
    BY <1>1, <2>1
  <2> QED
    BY <2>1, <2>2 DEF k
<1> QED
  BY <1>2, <1>3, Zenon

(* A caller told "completed" can rely on it: what its invocation committed  *)
(* or read is in the newest snapshot, whatever happens to the host          *)
(* afterwards (commit_outcome answers after DatabaseSession::complete).     *)
THEOREM CompletedStaysDurable == Spec => []CompletedIsDurable
<1>1. IInv /\ DurableInv => CompletedIsDurable
  <2> SUFFICES ASSUME IInv, DurableInv, NEW a \in Attempt, ans[a] = "completed"
               PROVE  \E n \in 0..Len(durable.log) : view[a] = SubSeq(durable.log, 1, n)
    BY Zenon DEF CompletedIsDurable
  <2>1. Prefix(view[a], durable.log)
    BY Zenon DEF DurableInv, ToldInv, Told
  <2>2. view[a] \in Seq(Writers) /\ durable.log \in Seq(Writers)
    BY Zenon DEF IInv, TypeOK
  <2> QED
    BY <2>1, <2>2, PrefixIsSubSeq, Zenon
<1> QED
  BY <1>1, Initially, Inductive, DurableInitially, DurableInductive, PTL DEF Spec
=============================================================================
