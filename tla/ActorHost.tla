----------------------------- MODULE ActorHost -----------------------------
(***************************************************************************)
(* One actor on its host: the mailbox that admits requests one after the   *)
(* other, the executor that runs them, and the database service that owns  *)
(* the resident SQLite database and publishes its commits as snapshots.    *)
(*                                                                         *)
(* An attempt is one request received by a host; attempts with one request *)
(* id are retries.  The database is the sequence of its transactions, each *)
(* named by the attempt that made it.  Storage is what Ownership shows it  *)
(* to be: the newest snapshot survives the host and the next one starts    *)
(* from it.  Authority, once lost, does not come back.                     *)
(*                                                                         *)
(* The database service handles one command at a time and nobody else      *)
(* touches its session, so a command is one step with one of its outcomes. *)
(* The requests are futures of one task, polled in the order in which they *)
(* wake: a request started after another one's reply sends its Prepare     *)
(* after that one's Complete (queue).  Requests carry the epoch of their   *)
(* host (others are refused before they reach it), and a put that fails    *)
(* ends the host's authority, so the commit left pending by one is never   *)
(* resolved by a later prepare.                                            *)
(***************************************************************************)
EXTENDS Naturals, Sequences

CONSTANTS
    Attempt,    \* requests as hosts receive them
    NoAttempt,  \* no attempt; as a writer: work outside any invocation
    Requests,   \* request ids of methods, or
    NoId,       \* of a disconnect, which has none to replay
    Modes,      \* "serial" and "interleaving" actor classes
    MaxLog,     \* bound on committed transactions
    MaxHosts    \* bound on hosts that take the actor over

ASSUME NoAttemptAssumption == NoAttempt \notin Attempt

VARIABLES
    rid, mode,                  \* the request id of each attempt; the class of the actor
    st, ans,                    \* where it is, and what its caller was told
    out, granted, seq, view,    \* its Completion, admission, sequence and commit seen
    mb, draining, pending,      \* the mailbox
    blocked, interleaved, grant,
    svc, auth, cached,          \* the database service
    queue, ready, next,
    inst, lastseq,              \* the executor: instance, last sequence
    durable,                    \* the newest snapshot
    hosts, ran, drained         \* hosts so far; history: executed, gracefully stopped

fixed == <<rid, mode>>
marks == <<out, granted, seq, view>>
mailbox == <<mb, draining, pending, blocked, interleaved, grant>>
service == <<svc, auth, cached, queue, ready, next>>
executor == <<inst, lastseq>>
history == <<hosts, ran, drained>>
vars == <<fixed, st, ans, marks, mailbox, service, executor, durable, history>>

Completion(r, v, c) == [res |-> r, rec |-> v, code |-> c]
NoCompletion == Completion("error", "keep", "none")
NoDatabase == [here |-> FALSE, log |-> <<>>, pub |-> 0, last |-> NoId]
Writers == Attempt \cup {NoAttempt}

\* No host has the actor yet.
Init ==
    /\ rid \in [Attempt -> Requests] /\ mode \in Modes
    /\ st = [a \in Attempt |-> "new"] /\ ans = [a \in Attempt |-> "none"]
    /\ out = [a \in Attempt |-> NoCompletion] /\ granted = [a \in Attempt |-> FALSE]
    /\ seq = [a \in Attempt |-> 0] /\ view = [a \in Attempt |-> <<>>]
    /\ mb = "stopped" /\ draining = FALSE /\ pending = <<>>
    /\ blocked = NoAttempt /\ interleaved = FALSE /\ grant = FALSE
    /\ svc = "down" /\ auth = FALSE /\ cached = NoDatabase
    /\ queue = [a \in Attempt |-> {}] /\ ready = {} /\ next = 1
    /\ inst = "none" /\ lastseq = 0
    /\ durable = [log |-> <<>>, last |-> NoId]
    /\ hosts = 0 /\ ran = {} /\ drained = FALSE

-----------------------------------------------------------------------------
(* The mailbox loop                                                        *)

\* Mutant of Running: a drain that only waits for what the executor runs.
RunningExecuting(s) == {a \in Attempt : s[a] \in {"prepare", "execute", "killed"}}

Running(s) == {a \in Attempt : s[a] \in {"prepare", "execute", "killed", "complete", "done"}}

\* rejection(): a draining host only takes disconnects.
Rejected(a, d) == d /\ rid[a] # NoId

\* What is answered needs no Completion, admission or sequence any more.
Forget(s) ==
    LET Fresh(f, d) == [a \in Attempt |-> IF s[a] = "answered" THEN d ELSE f[a]]
    IN  /\ out' = Fresh(out, NoCompletion) /\ granted' = Fresh(granted, FALSE)
        /\ seq' = Fresh(seq, 0)

Completing(a) == st[a] \in {"complete", "orphan"}

\* The requests whose command is on its way to the database service.
Sent == {a \in Attempt : st[a] = "prepare" \/ (Completing(a) /\ a \notin ready)}

\* start_ready takes the first queued request that is not rejected, unless one blocks
\* it; 0 stands for none.
Takes(i, p, b, d) ==
    IF i = 0 THEN b # NoAttempt \/ \A j \in 1..Len(p) : Rejected(p[j], d)
    ELSE b = NoAttempt /\ ~Rejected(p[i], d) /\ \A j \in 1..(i - 1) : Rejected(p[j], d)

\* The top of the loop: what is rejected is answered, what is taken starts, and a
\* drained mailbox goes on to evict.
Settle(p, s, n, b, d) ==
  \E taken \in 0..Len(p) :
    LET skip  == IF b # NoAttempt THEN 0 ELSE IF taken = 0 THEN Len(p) ELSE taken - 1
        over  == {p[i] : i \in 1..skip}
        start == IF taken = 0 THEN <<>> ELSE <<p[taken]>>
        rest  == SubSeq(p, skip + Len(start) + 1, Len(p))
    IN  /\ Takes(taken, p, b, d)
        /\ st' = [a \in Attempt |-> IF a \in over THEN "answered"
                                    ELSE IF start = <<a>> THEN "prepare" ELSE s[a]]
        /\ ans' = [a \in Attempt |-> IF a \in over THEN "unavailable" ELSE n[a]]
        /\ Forget(st')
        /\ pending' = rest
        /\ queue' = [a \in Attempt |-> IF start = <<a>> THEN Sent ELSE queue[a]]
        /\ blocked' = IF taken = 0 THEN b ELSE p[taken]
        /\ grant' = (grant /\ taken = 0 /\ b # NoAttempt)
        /\ draining' = d
        /\ mb' = IF d /\ Running(st') = {} /\ rest = <<>> THEN "evicting" ELSE "run"

\* What the callers of a stopped mailbox are told: queued requests never ran, and
\* dropping a running one leaves its outcome unknown.
\* Mutants: one answer for both; no answer from Drop.
DroppedUnavailable(s, n) ==
    [a \in Attempt |-> IF s[a] = "queued" \/ a \in Running(s) THEN "unavailable" ELSE n[a]]
DroppedSilently(s, n) == [a \in Attempt |-> IF a \in Running(s) THEN "unknown" ELSE n[a]]

Dropped(s, n) ==
    [a \in Attempt |-> IF s[a] = "queued" THEN "unavailable"
                       ELSE IF a \in Running(s) THEN "unknown" ELSE n[a]]

\* The loop returns.  A completion already handed to the database service stays there.
Halt(s, n) ==
    /\ mb' = "stopped" /\ pending' = <<>> /\ blocked' = NoAttempt /\ grant' = FALSE
    /\ st' = [a \in Attempt |-> IF s[a] = "complete" THEN "orphan"
                                ELSE IF s[a] = "new" THEN "new" ELSE "answered"]
    /\ ans' = Dropped(s, n)
    /\ Forget(st')
    /\ queue' = [a \in Attempt |-> {}]
    /\ UNCHANGED draining

\* submit: to a mailbox that is gone, to one that drains, or into the queue.
SubmitRefused(a) ==
    /\ st[a] = "new" /\ hosts > 0
    /\ mb # "run" \/ Rejected(a, draining)
    /\ st' = [st EXCEPT ![a] = "answered"] /\ ans' = [ans EXCEPT ![a] = "unavailable"]
    /\ UNCHANGED <<fixed, marks, mailbox, service, executor, durable, history>>

Submit(a) ==
    /\ st[a] = "new" /\ mb = "run" /\ ~Rejected(a, draining)
    /\ Settle(Append(pending, a), [st EXCEPT ![a] = "queued"], ans, blocked, draining)
    /\ UNCHANGED <<fixed, view, interleaved, svc, auth, cached, ready, next, executor, durable,
                    history>>

Drain ==
    /\ mb = "run" /\ ~draining
    /\ Settle(pending, st, ans, blocked, TRUE)
    /\ UNCHANGED <<fixed, view, interleaved, svc, auth, cached, ready, next, executor, durable,
                    history>>

\* Mutant of AdmitNext: the next one starts without being let in.
AdmitNextEarly ==
    /\ mb = "run" /\ blocked # NoAttempt
    /\ interleaved' = TRUE
    /\ Settle(pending, st, ans, NoAttempt, draining)
    /\ UNCHANGED <<fixed, view, svc, auth, cached, ready, next, executor, durable, history>>

\* The running invocation lets the next one start. (The channel does not close before the
\* mailbox ends: the executor it holds keeps the sender.)
AdmitNext ==
    /\ mb = "run" /\ grant /\ blocked # NoAttempt
    /\ interleaved' = TRUE
    /\ Settle(pending, st, ans, NoAttempt, draining)
    /\ UNCHANGED <<fixed, view, svc, auth, cached, ready, next, executor, durable, history>>

\* recovery(): what the completion itself asks for, or Stop.
Recovery(a) ==
    LET unexpected == a \in ran /\ interleaved /\ seq[a] = 0
                        /\ out[a].code \in {"none", "fatal"}
        interleavingFailed == seq[a] # 0 /\ out[a].res # "completed"
    IN  IF unexpected \/ interleavingFailed \/ svc = "down" THEN "stop" ELSE out[a].rec

\* Mutant of Evicted: the worker goes on after its database was reset.
EvictedRunsOn(s) == s

\* Evicting the actor ends its worker: what still runs there can only fail.
Evicted(s) == [a \in Attempt |-> IF s[a] = "execute" THEN "killed" ELSE s[a]]

\* executed(): recover, then answer and go on...
Executed(a) ==
    LET s == [st EXCEPT ![a] = "answered"]
    IN  /\ mb = "run" /\ st[a] = "done" /\ Recovery(a) # "stop"
        /\ interleaved' = (interleaved \/ seq[a] # 0)
        /\ inst' = IF Recovery(a) = "keep" THEN inst ELSE "none"
        /\ cached' = IF Recovery(a) = "reset" THEN NoDatabase ELSE cached
        /\ Settle(pending, IF Recovery(a) = "keep" THEN s ELSE Evicted(s),
                  [ans EXCEPT ![a] = out[a].res],
                  IF blocked = a THEN NoAttempt ELSE blocked, draining)
        /\ UNCHANGED <<fixed, view, svc, auth, ready, next, lastseq, durable, history>>

\* ...or evict, answer that the outcome is unknown, and stop.
ExecutedStop(a) ==
    /\ mb = "run" /\ st[a] = "done" /\ Recovery(a) = "stop"
    /\ inst' = "none"
    /\ Halt([st EXCEPT ![a] = "answered"], [ans EXCEPT ![a] = "unknown"])
    /\ UNCHANGED <<fixed, view, interleaved, svc, auth, cached, ready, next, lastseq, durable,
                    history>>

\* The database service stopped.
Stopped ==
    /\ mb = "run" /\ svc = "down"
    /\ inst' = "none"
    /\ Halt(st, ans)
    /\ UNCHANGED <<fixed, view, interleaved, svc, auth, cached, ready, next, lastseq, durable,
                    history>>

\* evict(true) at the end of a drain, after whatever the actor's shutdown hook wrote; an
\* error of the hook is only logged.
EvictDrained ==
    /\ mb = "evicting"
    /\ mb' = "stopped" /\ inst' = "none" /\ drained' = TRUE
    /\ UNCHANGED <<fixed, st, ans, marks, draining, pending, blocked, interleaved, grant, service,
                    lastseq, durable, hosts, ran>>

-----------------------------------------------------------------------------
(* The database service                                                    *)

\* One command at a time; a completion publishes its successors before the next one.
Free == svc = "up" /\ ~\E a \in ready : seq[a] = next

\* Mutant of Arrives: a Prepare may overtake an earlier Complete.
ArrivesAnyOrder(a) == TRUE

\* Commands arrive in the order in which they were sent, but completions among
\* themselves in any.
Arrives(a) == queue[a] = {}

\* The queue once the command of a has been taken from it.
Without(a) == [b \in Attempt |-> IF b = a THEN {} ELSE queue[b] \ {a}]

Finish(a, c) ==
    /\ st' = [st EXCEPT ![a] = IF @ = "orphan" THEN "answered" ELSE "done"]
    /\ out' = [out EXCEPT ![a] = c]

\* Mutant of Loaded: the completion is not restored.
LoadedAnonymous ==
    [here |-> TRUE, log |-> durable.log, pub |-> Len(durable.log), last |-> NoId]
\* A newly loaded database, and what stays resident.
Loaded == [here |-> TRUE, log |-> durable.log, pub |-> Len(durable.log), last |-> durable.last]
Resident == IF cached.here THEN cached ELSE Loaded

\* A new instance may store the defaults of its fields, without publishing them.
Hydrated(db) ==
    {db} \cup {d \in {[db EXCEPT !.log = Append(@, NoAttempt)]} : Len(d.log) <= MaxLog}

\* prepare_invocation is over without an execution: no authority, no service, no state...
PrepareFails(a) ==
    /\ st[a] = "prepare" /\ queue' = Without(a)
    /\ \/ Free /\ Arrives(a) /\ ~auth /\ Finish(a, Completion("unavailable", "keep", "none"))
       \/ Free /\ Arrives(a) /\ auth /\ ~cached.here
          /\ Finish(a, Completion("error", "stop", "none"))
       \/ svc = "down" /\ Finish(a, Completion("error", "stop", "none"))
    /\ UNCHANGED <<fixed, ans, granted, seq, view, mailbox, svc, auth, cached, ready, next, executor,
                    durable, history>>

\* ...or it is a method whose id the newest completion carries...
Replayable(a) == rid[a] # NoId /\ Resident.last = rid[a]

Replay(a) ==
    /\ st[a] = "prepare" /\ Free /\ Arrives(a) /\ auth /\ Replayable(a)
    /\ Finish(a, Completion("completed", "keep", "none")) /\ queue' = Without(a)
    /\ cached' = Resident
    /\ view' = [view EXCEPT ![a] = SubSeq(Resident.log, 1, Resident.pub)]
    /\ UNCHANGED <<fixed, ans, granted, seq, mailbox, svc, auth, ready, next, executor, durable,
                    history>>

\* ...or it executes, on the resident instance or on a new one.
Execute(a) ==
    /\ st[a] = "prepare" /\ Free /\ Arrives(a) /\ auth /\ ~Replayable(a)
    /\ st' = [st EXCEPT ![a] = "execute"] /\ ran' = ran \cup {a} /\ queue' = Without(a)
    /\ cached' \in IF inst = "none" THEN Hydrated(Resident) ELSE {Resident}
    /\ inst' = IF inst = "none" THEN "live" ELSE inst
    /\ UNCHANGED <<fixed, ans, marks, mailbox, svc, auth, ready, next, lastseq, durable, hosts,
                    drained>>

\* An immediate write of invocation w, or of work outside any (NoAttempt): committed,
\* synced and published before the actor goes on...
Calling(w) ==
    /\ Free /\ cached.here /\ Len(cached.log) < MaxLog
    /\ IF w = NoAttempt THEN inst = "live" /\ mb # "stopped" ELSE st[w] = "execute"

ImmediateWrite(w) ==
    /\ Calling(w) /\ auth
    /\ LET log == Append(cached.log, w)
       IN  /\ cached' = [cached EXCEPT !.log = log, !.pub = Len(log), !.last = NoId]
           /\ durable' = [log |-> log, last |-> NoId]
    /\ UNCHANGED <<fixed, st, ans, marks, mailbox, svc, auth, queue, ready, next, executor, history>>

\* ...or the write cannot be confirmed, and the service stops.
ImmediateWriteFails(w) ==
    /\ Calling(w)
    /\ LET log == Append(cached.log, w)
       IN  /\ cached' = [cached EXCEPT !.log = log]
           /\ \/ durable' = durable /\ auth' \in {auth, FALSE}
              \/ auth /\ durable' = [log |-> log, last |-> NoId] /\ auth' = FALSE
    /\ svc' = "down"
    /\ UNCHANGED <<fixed, st, ans, marks, mailbox, queue, ready, next, executor, history>>

-----------------------------------------------------------------------------
(* The executor                                                            *)

\* An interleaving method lets the next invocation start, at most once.
Grant(a) ==
    /\ mode = "interleaving" /\ st[a] = "execute" /\ ~granted[a]
    /\ granted' = [granted EXCEPT ![a] = TRUE] /\ grant' = TRUE
    /\ UNCHANGED <<fixed, st, ans, out, seq, view, mb, draining, pending, blocked, interleaved,
                    service, executor, durable, history>>

\* The method returned: Commit ends its open transaction and records how far the
\* database is, an interleaving actor numbers its completions, and the reply's
\* effects may be refused.
Return(a) ==
    /\ st[a] = "execute" /\ Free /\ cached.here
    /\ \/ cached' = cached
       \/ Len(cached.log) < MaxLog /\ cached' = [cached EXCEPT !.log = Append(@, a)]
    /\ view' = [view EXCEPT ![a] = cached'.log]
    /\ IF mode = "interleaving"
       THEN lastseq' = lastseq + 1 /\ seq' = [seq EXCEPT ![a] = lastseq']
       ELSE UNCHANGED <<lastseq, seq>>
    /\ \/ /\ st' = [st EXCEPT ![a] = "complete"] /\ out' = out
          /\ queue' = [queue EXCEPT ![a] = {b \in Attempt : st[b] = "prepare"}]
       \/ Finish(a, Completion("failed", "reset", "none")) /\ queue' = queue
    /\ UNCHANGED <<fixed, ans, granted, mailbox, svc, auth, ready, next, inst, durable, history>>

\* The method failed; there is no such method, found out before it lets others start;
\* or its worker or the executor broke down.
Fail(a) ==
    /\ \/ st[a] = "execute" /\ Finish(a, Completion("failed", "keep", "user"))
       \/ st[a] = "execute" /\ ~granted[a] /\ Finish(a, Completion("failed", "reset", "lookup"))
       \/ st[a] \in {"execute", "killed"} /\ Finish(a, Completion("failed", "reset", "fatal"))
    /\ UNCHANGED <<fixed, ans, granted, seq, view, mailbox, service, executor, durable, history>>

-----------------------------------------------------------------------------
(* Completions                                                             *)

\* unpublished(): the commit is newer than the newest snapshot.
Publishes(a) == Len(view[a]) > cached.pub
\* Mutant of Published: the answer does not wait for the put.
PublishedLater(a) == durable
Published(a) ==
    IF Publishes(a) THEN [log |-> SubSeq(cached.log, 1, Len(view[a])), last |-> rid[a]]
    ELSE durable
AfterPublish(a) ==
    IF Publishes(a) THEN [cached EXCEPT !.pub = Len(view[a]), !.last = rid[a]] ELSE cached
\* collect_ltx_files finds every transaction up to the commit.
Capturable(a) == Len(view[a]) <= Len(cached.log)

\* A sequenced completion waits for its predecessors.
Receive(a) ==
    /\ Free /\ Completing(a) /\ a \notin ready /\ Arrives(a) /\ seq[a] # 0
    /\ queue' = Without(a) /\ ready' = ready \cup {a}
    /\ UNCHANGED <<fixed, st, ans, marks, mailbox, svc, auth, cached, next, executor, durable,
                    history>>

Turn(a) ==
    /\ svc = "up" /\ Completing(a)
    /\ IF seq[a] = 0 THEN Free /\ Arrives(a) ELSE a \in ready /\ seq[a] = next

\* complete(): what is unpublished is published, and authority still holds.
Confirmed(a) ==
    /\ Turn(a) /\ auth /\ cached.here /\ Capturable(a)
    /\ cached' = AfterPublish(a) /\ durable' = Published(a)
    /\ queue' = Without(a) /\ ready' = ready \ {a}
    /\ next' = IF seq[a] = 0 THEN next ELSE next + 1
    /\ UNCHANGED <<fixed, ans, granted, seq, view, mailbox, svc, executor, history>>

Complete(a) ==
    /\ Confirmed(a) /\ UNCHANGED auth
    /\ Finish(a, Completion("completed", "keep", "none"))

\* Authority ends before complete_with_state looks at it again.
CompleteLate(a) ==
    /\ Confirmed(a) /\ auth' = FALSE
    /\ Finish(a, Completion("error", "keep", "none"))

\* The failure of a sequenced completion ends the service and those waiting behind it.
CompleteError(a, c) ==
    LET lost == {a} \cup (IF seq[a] = 0 THEN {} ELSE ready)
        err  == IF seq[a] = 0 THEN c ELSE Completion("unknown", "evict", "none")
    IN  /\ svc' = IF seq[a] = 0 THEN "up" ELSE "down"
        /\ queue' = Without(a) /\ ready' = ready \ lost
        /\ st' = [b \in Attempt |-> IF b \notin lost THEN st[b]
                                    ELSE IF st[b] = "orphan" THEN "answered" ELSE "done"]
        /\ out' = [b \in Attempt |-> IF b \in lost THEN err ELSE out[b]]

\* Publication could not be confirmed: before the put, which drops the resident
\* database, or by the put, which ends the host's authority.
CompleteUnconfirmed(a) ==
    /\ Turn(a) /\ cached.here /\ Publishes(a)
    /\ \/ /\ cached' = NoDatabase /\ inst' = IF inst = "live" THEN "stale" ELSE inst
          /\ durable' = durable /\ auth' \in {auth, FALSE}
       \/ /\ Capturable(a) /\ auth' = FALSE
          /\ durable' = durable \/ (auth /\ durable' = Published(a))
          /\ UNCHANGED <<cached, inst>>
    /\ CompleteError(a, Completion("unknown", "evict", "none"))
    /\ UNCHANGED <<fixed, ans, granted, seq, view, mailbox, next, lastseq, history>>

\* The resident database was reset, or authority ended before complete returned.
CompleteRefused(a) ==
    /\ Turn(a)
    /\ \/ ~cached.here /\ UNCHANGED <<auth, cached, durable>>
       \/ /\ cached.here /\ Capturable(a) /\ (auth \/ ~Publishes(a)) /\ auth' = FALSE
          /\ cached' = AfterPublish(a) /\ durable' = Published(a)
    /\ CompleteError(a, Completion("error", "keep", "none"))
    /\ UNCHANGED <<fixed, ans, granted, seq, view, mailbox, next, executor, history>>

\* "database service stopped before durable completion"
CompleteStopped(a) ==
    /\ svc = "down" /\ Completing(a)
    /\ queue' = Without(a) /\ ready' = ready \ {a}
    /\ Finish(a, IF seq[a] = 0 THEN NoCompletion ELSE Completion("unknown", "evict", "none"))
    /\ UNCHANGED <<fixed, ans, granted, seq, view, mailbox, svc, auth, cached, next, executor,
                    durable, history>>

-----------------------------------------------------------------------------
(* Hosts                                                                   *)

\* A lease that is not renewed, a fence, the end of the process.
LoseAuthority ==
    /\ auth
    /\ auth' = FALSE
    /\ UNCHANGED <<fixed, st, ans, marks, mailbox, svc, cached, queue, ready, next, executor, durable,
                    history>>

\* A host takes the actor over and activates it: prepare_activation, hydrate and
\* finish_activation.  What an earlier host still had to publish is fenced.
Activate ==
    /\ mb = "stopped" /\ hosts < MaxHosts
    /\ hosts' = hosts + 1 /\ drained' = FALSE
    /\ mb' = "run" /\ draining' = FALSE /\ interleaved' = FALSE
    /\ svc' = "up" /\ auth' = TRUE /\ queue' = [a \in Attempt |-> {}] /\ ready' = {} /\ next' = 1
    /\ cached' \in Hydrated(Loaded)
    /\ inst' = "live" /\ lastseq' = 0
    /\ st' = [a \in Attempt |-> IF st[a] = "orphan" THEN "answered" ELSE st[a]]
    /\ Forget(st')
    /\ UNCHANGED <<fixed, ans, view, pending, blocked, grant, durable, ran>>

Prepare(a) == PrepareFails(a) \/ Replay(a) \/ Execute(a)

Settlement(a) ==
    \/ Receive(a) \/ Complete(a) \/ CompleteUnconfirmed(a) \/ CompleteRefused(a)
    \/ CompleteLate(a) \/ CompleteStopped(a)

Next ==
    \/ Drain \/ AdmitNext \/ Stopped \/ EvictDrained \/ LoseAuthority \/ Activate
    \/ \E a \in Attempt :
         \/ SubmitRefused(a) \/ Submit(a) \/ Prepare(a) \/ Settlement(a)
         \/ Grant(a) \/ Return(a) \/ Fail(a) \/ Executed(a) \/ ExecutedStop(a)
    \/ \E w \in Writers : ImmediateWrite(w) \/ ImmediateWriteFails(w)

Spec == Init /\ [][Next]_vars

\* The tasks of the host are scheduled, and the actor's methods return or fail.
Fairness ==
    /\ WF_vars(AdmitNext) /\ WF_vars(Stopped) /\ WF_vars(EvictDrained)
    /\ \A a \in Attempt :
         /\ WF_vars(Executed(a) \/ ExecutedStop(a)) /\ WF_vars(Prepare(a))
         /\ WF_vars(Settlement(a)) /\ WF_vars(Return(a) \/ Fail(a))

LiveSpec == Spec /\ Fairness

-----------------------------------------------------------------------------
(* Properties                                                              *)

\* A caller told "completed" can rely on it: everything its invocation had committed
\* or read is in the newest snapshot, whatever happens to the host afterwards
\* (commit_outcome answers only after DatabaseSession::complete).
CompletedIsDurable ==
    \A a \in Attempt : ans[a] = "completed" =>
        \E n \in 0..Len(durable.log) : view[a] = SubSeq(durable.log, 1, n)

\* A request answered HostUnavailable was not executed, so that the control plane may
\* send it to another host: "The invocation did not execute and cannot execute later
\* from a queue" (host/http.rs).
UnavailableNeverRan == \A a \in Attempt : ans[a] = "unavailable" => a \notin ran

\* Execution is serialized by the mailbox: of two invocations that run together, one
\* has let the other start.
SerialUnlessGranted ==
    \A a, b \in Attempt :
        a # b /\ st[a] = "execute" /\ st[b] = "execute" => granted[a] \/ granted[b]

\* An invocation never runs on an instance whose database was dropped under it: the
\* recovery of a failed request evicts the instance before the next one starts.
InstanceMatchesDatabase ==
    \A a \in Attempt : svc = "up" /\ st[a] = "execute" => cached.here /\ inst = "live"

\* A drain that succeeded is over: nothing is published afterwards, so the checkpoint
\* taken next is the last state (what Ownership assumes as DrainCompletes).
DrainedIsQuiet == [][drained => durable' = durable]_vars

\* A retry whose predecessor's snapshot is still the newest does not commit again, on
\* this host or on the next (a method that committed nothing does run again).
CompletedOnce ==
    [][mode = "serial" /\ durable' # durable /\ durable'.last # NoId
         => durable'.last # durable.last]_vars

\* Every request is answered, whatever fails.
EveryRequestAnswered == \A a \in Attempt : st[a] # "new" ~> ans[a] # "none"
=============================================================================
