------------------------------- MODULE Executor -------------------------------
(***************************************************************************)
(* The connection of a host to the process that runs the actor's code      *)
(* (actor/executor_connection.rs): one driver task writes the commands of  *)
(* the host's callers, serves the calls the actor makes while it handles   *)
(* one, and hands its reply to the caller. The process runs customer code, *)
(* so any message may come at any time; one that breaks the protocol ends  *)
(* the connection.                                                         *)
(***************************************************************************)
EXTENDS Naturals

CONSTANTS
    Caller,    \* callers of the host: each makes one exchange
    MaxCalls   \* bound on the calls the actor makes

ASSUME ExecutorConstants == MaxCalls \in Nat

Command == {"invoke", "connect", "hydrate", "evict"}

VARIABLES
    driver,     \* the connection: "listening" for the process, "warm", "loading" the
                \* actor's code, "up", or "ended"
    exchange,   \* each caller: its command and how far it has got
    admitted,   \* callers whose invocation has admitted another
    database,   \* database_ids: callers with a database call
    lookup,     \* connection_lookup_ids: callers with a connection lookup
    calling,    \* number of database calls running for each caller
    looking,    \* number of lookups running for each caller
    made        \* number of calls made

executorVars == <<driver, exchange, admitted, database, lookup, calling, looking, made>>

ExecutorInit ==
    /\ driver = "listening"
    /\ exchange = [c \in Caller |-> [command |-> "invoke", state |-> "idle"]]
    /\ admitted = {}
    /\ database = {}
    /\ lookup = {}
    /\ calling = [c \in Caller |-> 0]
    /\ looking = [c \in Caller |-> 0]
    /\ made = 0

Pending(c) == exchange[c].state = "pending"

Becomes(c, state) == exchange' = [exchange EXCEPT ![c].state = state]

(* The driver returns and is dropped: so are the senders of all replies,    *)
(* queued commands included, and the tasks that serve calls are aborted.    *)
End ==
    /\ driver' = "ended"
    /\ exchange' = [c \in Caller |->
          IF exchange[c].state \in {"queued", "pending"}
          THEN [exchange[c] EXCEPT !.state = "failed"] ELSE exchange[c]]
    /\ calling' = [c \in Caller |-> 0]
    /\ looking' = [c \in Caller |-> 0]
    /\ UNCHANGED <<admitted, database, lookup, made>>

-----------------------------------------------------------------------------
(* A spare's process says it is warm and is told what to load; another      *)
(* comes with its code. Both attach with the names of their actors before   *)
(* there is a driver; the listener takes one connection.                    *)
Attach ==
    /\ \/ driver = "listening" /\ driver' \in {"warm", "up", "ended"}
       \/ driver = "warm" /\ driver' \in {"loading", "ended"}
       \/ driver = "loading" /\ driver' \in {"up", "ended"}
    /\ UNCHANGED <<exchange, admitted, database, lookup, calling, looking, made>>

(* JsActorExecutor::exchange.                                               *)
Exchange(c, command) ==
    /\ driver \in {"up", "ended"}
    /\ exchange[c].state = "idle"
    /\ exchange' = [exchange EXCEPT ![c] =
          [command |-> command, state |-> IF driver = "up" THEN "queued" ELSE "failed"]]
    /\ UNCHANGED <<driver, admitted, database, lookup, calling, looking, made>>

(* The command gets its message id and is written, or cannot be encoded.    *)
Enqueue(c) ==
    /\ driver = "up"
    /\ exchange[c].state = "queued"
    /\ \E state \in {"pending", "failed"} : Becomes(c, state)
    /\ UNCHANGED <<driver, admitted, database, lookup, calling, looking, made>>

-----------------------------------------------------------------------------
(* Messages from the actor's process. A message names the command it        *)
(* belongs to by its id: the caller c.                                      *)

AllowNextInvocation(c) ==
    /\ driver = "up"
    /\ IF Pending(c) /\ exchange[c].command \in {"invoke", "connect"} /\ c \notin admitted
       THEN /\ admitted' = admitted \cup {c}
            /\ UNCHANGED <<driver, exchange, database, lookup, calling, looking, made>>
       ELSE End

(* As CallDatabase, but a second call of an invocation is served as well.   *)
CallDatabaseConcurrently(c) ==
    /\ driver = "up"
    /\ made < MaxCalls
    /\ Pending(c)
    /\ database' = database \cup {c}
    /\ calling' = [calling EXCEPT ![c] = @ + 1]
    /\ made' = made + 1
    /\ UNCHANGED <<driver, exchange, admitted, lookup, looking>>

(* A call for an invocation that is no longer pending runs on the actor's   *)
(* own database and is not tracked.                                         *)
CallDatabase(c) ==
    /\ driver = "up"
    /\ made < MaxCalls
    /\ Pending(c)
    /\ IF c \in database
       THEN End
       ELSE /\ database' = database \cup {c}
            /\ calling' = [calling EXCEPT ![c] = @ + 1]
            /\ made' = made + 1
            /\ UNCHANGED <<driver, exchange, admitted, lookup, looking>>

DatabaseCalled(c) ==
    /\ driver = "up"
    /\ calling[c] > 0
    /\ calling' = [calling EXCEPT ![c] = @ - 1]
    /\ database' = database \ {c}
    /\ UNCHANGED <<driver, exchange, admitted, lookup, looking, made>>

LoadConnections(c) ==
    /\ driver = "up"
    /\ made < MaxCalls
    /\ IF ~Pending(c) \/ exchange[c].command = "evict" \/ c \in lookup
       THEN End
       ELSE /\ lookup' = lookup \cup {c}
            /\ looking' = [looking EXCEPT ![c] = @ + 1]
            /\ made' = made + 1
            /\ UNCHANGED <<driver, exchange, admitted, database, calling>>

ConnectionsLoaded(c) ==
    /\ driver = "up"
    /\ looking[c] > 0
    /\ looking' = [looking EXCEPT ![c] = @ - 1]
    /\ lookup' = lookup \ {c}
    /\ UNCHANGED <<driver, exchange, admitted, database, calling, made>>

(* Socket output of an invocation is published by a task of its own, and    *)
(* dropped while a connection is being accepted; nothing waits for it.      *)
PublishEffects(c) ==
    /\ driver = "up"
    /\ ~Pending(c)
    /\ End

DeliverReply(c) ==
    /\ driver = "up"
    /\ IF c \in database \/ c \in lookup \/ ~Pending(c)
       THEN End
       ELSE /\ Becomes(c, "replied")
            /\ UNCHANGED <<driver, admitted, database, lookup, calling, looking, made>>

(* The process is gone, sends what cannot be read, attaches again, or no    *)
(* longer takes what is written to it; or the host shuts down.              *)
ProcessGone == driver = "up" /\ End

-----------------------------------------------------------------------------
ExecutorNext ==
    \/ Attach
    \/ ProcessGone
    \/ \E c \in Caller :
          \/ \E command \in Command : Exchange(c, command)
          \/ Enqueue(c)
          \/ AllowNextInvocation(c)
          \/ CallDatabase(c)
          \/ DatabaseCalled(c)
          \/ LoadConnections(c)
          \/ ConnectionsLoaded(c)
          \/ PublishEffects(c)
          \/ DeliverReply(c)

ExecutorSpec == ExecutorInit /\ [][ExecutorNext]_executorVars

-----------------------------------------------------------------------------
(* A caller that has its reply has none of its database calls or lookups    *)
(* still running: what the actor did for it is complete, and the host may   *)
(* confirm the database's writes and let the next invocation in.            *)
RepliedIsQuiet ==
    \A c \in Caller :
        exchange[c].state = "replied" => calling[c] = 0 /\ looking[c] = 0

=============================================================================
