------------------------------- MODULE Sockets -------------------------------
(***************************************************************************)
(* The browser sockets of one actor. Every control-plane process that      *)
(* accepts sockets is a gateway: it keeps the sockets in a registry        *)
(* (sockets/mod.rs), runs a session for each (sockets/browser.rs), hands   *)
(* their events to the actor's host (socket_gateway.rs) and learns from    *)
(* Redis what the actor publishes to them (socket_bus.rs).                 *)
(*                                                                         *)
(* An effect published for the actor is a numbered broadcast, the closing  *)
(* of one socket or a new automatic response; texts, tags, metadata and    *)
(* state documents are left out. Redis delivers to a subscribed            *)
(* connection in order, and loses what is under way when it breaks.        *)
(***************************************************************************)
EXTENDS Integers, Sequences, FiniteSets

CONSTANTS
    Gateway,         \* processes that accept sockets
    Socket,          \* browser connections
    MaxConnections,  \* SocketRegistry.max_connections of each gateway
    Response,        \* automatic responses
    Budget,          \* bounds on what the outside does: initial values of "left"
    Unset

VARIABLES
    bus,        \* each gateway's bus: its Redis subscription and its listener
    sock,       \* each socket: its session, its registry entry and its client
    published,  \* number of broadcasts published
    stored,     \* the automatic response stored in Redis, and its number
    setting,    \* the changes of it that are stored and not yet published
    announced,  \* the number of the change published last
    question,   \* the latest question to the gateways
    answering,  \* tasks that answer one
    apart,      \* why the response of a gateway may differ from the stored one
    left        \* what remains of the budget

others == <<published, stored, setting, announced, question, answering, apart>>

socketVars == <<bus, sock, others, left>>

Count(n) == [kind |-> "broadcast", n |-> n]
CloseFor(s) == [kind |-> "close", to |-> s]
AutoFor(v) == [kind |-> "auto", to |-> v]
AskFor(id) == [kind |-> "ask", n |-> id]

(* The gateways G are up and the sockets S are to come.                     *)
SocketsStart(G, S, budgets) ==
    /\ bus = [g \in Gateway |->
          [linked |-> g \in G, subscribed |-> FALSE, inbox |-> <<>>, listener |-> IF g \in G THEN "idle" ELSE "down",
           connected |-> g \in G, generation |-> 1, watched |-> 0, commands |-> <<>>,
           auto |-> Unset, stopped |-> g \notin G]]
    /\ sock = [s \in Socket |->
          [stage |-> IF s \in S THEN "none" ELSE "gone", at |-> Unset, generation |-> 0, loaded |-> "waiting",
           handler |-> "none", event |-> "connect", waiting |-> 0,
           open |-> FALSE, outbound |-> <<>>, received |-> <<>>, since |-> 0]]
    /\ published = 0
    /\ stored = [n |-> 0, to |-> Unset]
    /\ setting = {}
    /\ announced = 0
    /\ question = [id |-> 0, asker |-> Unset, state |-> "none", need |-> 0, have |-> 0,
                   who |-> {}, cover |-> {}]
    /\ answering = {}
    /\ apart = {}
    /\ left \in budgets

SocketsInit == SocketsStart(Gateway, Socket, Budget)

Spend(what) == left[what] > 0 /\ left' = [left EXCEPT ![what] = @ - 1]

(* Sockets in the registry of g, and those of them that are open.           *)
Registered(g) == {s \in Socket : sock[s].at = g /\ sock[s].stage \in {"live", "closing"}}

Open(g) == {s \in Registered(g) : sock[s].open}

(* SocketGateway::generation, and ensure_delivery for the generation that   *)
(* the socket's upgrade has captured.                                       *)
Authority(s) ==
    LET b == bus[sock[s].at]
    IN  ~b.stopped /\ b.connected /\ b.generation = sock[s].generation

Set(s, stage) == [sock EXCEPT ![s].stage = stage]

-----------------------------------------------------------------------------
(* What is published: Redis hands it to every connection subscribed to the  *)
(* actor's channel.                                                         *)

Deliver(G, m) == [g \in Gateway |->
    IF g \in G THEN [bus[g] EXCEPT !.inbox = Append(@, m)] ELSE bus[g]]

Subscribers == {g \in Gateway : bus[g].linked /\ bus[g].subscribed}

Publish ==
    \/ /\ Spend("broadcasts")
       /\ published' = published + 1
       /\ bus' = Deliver(Subscribers, Count(published + 1))
       /\ UNCHANGED <<sock, stored, setting, announced, question, answering, apart>>
    \/ \E s \in Socket :
          /\ Spend("closes")
          /\ bus' = Deliver(Subscribers, CloseFor(s))
          /\ UNCHANGED <<sock, others>>

(* A change of the automatic response is stored before it is published, so  *)
(* that a gateway that subscribes in between finds it. Each change has a    *)
(* task of its own: they may be published in another order.                 *)
StoreAutoResponse ==
    /\ Spend("changes")
    /\ \E v \in Response \cup {Unset} : stored' = [n |-> stored.n + 1, to |-> v]
    /\ setting' = setting \cup {stored'}
    /\ UNCHANGED <<bus, sock, published, announced, question, answering, apart>>

PublishAutoResponse(c) ==
    /\ setting' = setting \ {c}
    /\ \/ bus' = Deliver(Subscribers, AutoFor(c.to)) /\ announced' = c.n /\ UNCHANGED left
       \/ Spend("failures") /\ UNCHANGED <<bus, announced>>
    /\ UNCHANGED <<sock, published, stored, question, answering, apart>>

-----------------------------------------------------------------------------
(* The listener of a bus.                                                   *)

(* close_all: every registered socket finds a Close in its queue.           *)
CloseAll(g) == [s \in Socket |->
    IF s \in Registered(g) THEN [sock[s] EXCEPT !.outbound = Append(@, CloseFor(s))]
    ELSE sock[s]]

(* close_project, for a project whose organization lost its access.         *)
CloseDisabled(g) ==
    /\ Spend("closes")
    /\ sock' = CloseAll(g)
    /\ UNCHANGED <<bus, others>>

Ended(b) == [b EXCEPT !.linked = FALSE, !.subscribed = FALSE, !.inbox = <<>>,
                      !.connected = FALSE, !.listener = "down"]

(* As SessionEnds, but without telling the sockets.                         *)
EndsQuietly(g) ==
    /\ bus' = [bus EXCEPT ![g] = Ended(@)]
    /\ UNCHANGED sock

(* The session of the listener has failed.                                  *)
SessionEnds(g) ==
    /\ bus' = [bus EXCEPT ![g] = Ended(@)]
    /\ sock' = CloseAll(g)

(* Sockets no question has to report any more.                              *)
Uncover(S) == [question EXCEPT !.cover = @ \ S]

(* The connection to Redis breaks; a part of what it held can still be read.*)
CutLink(g) ==
    /\ Spend("cuts")
    /\ bus[g].linked
    /\ \E k \in 0..Len(bus[g].inbox) :
          bus' = [bus EXCEPT ![g].linked = FALSE, ![g].inbox = SubSeq(@, 1, k)]
    /\ question' = Uncover(Open(g))
    /\ UNCHANGED <<sock, published, stored, setting, announced, answering, apart>>

NoticeCut(g) ==
    /\ bus[g].listener = "idle"
    /\ ~bus[g].linked
    /\ bus[g].inbox = <<>>
    /\ SessionEnds(g)
    /\ UNCHANGED <<others, left>>

Joined(b) == [b EXCEPT !.connected = TRUE, !.generation = @ + 1, !.listener = "idle"]

(* As Reconnect, but the response is not loaded again.                      *)
ReconnectOnly(g) ==
    /\ bus[g].listener = "down"
    /\ ~bus[g].stopped
    /\ bus' = [bus EXCEPT ![g] = Joined([@ EXCEPT !.linked = TRUE,
                                                  !.subscribed = bus[g].watched > 0])]
    /\ UNCHANGED <<sock, others, left>>

(* A new session subscribes again to the actor, if it is still watched.     *)
Reconnect(g) ==
    /\ bus[g].listener = "down"
    /\ ~bus[g].stopped
    /\ LET b == [bus[g] EXCEPT !.linked = TRUE, !.subscribed = bus[g].watched > 0]
       IN  bus' = [bus EXCEPT ![g] = IF b.subscribed THEN [b EXCEPT !.listener = "reloading"]
                                     ELSE Joined(b)]
    /\ UNCHANGED <<sock, others, left>>

(* load_auto_response of the resubscription: a failure ends the session.    *)
Reload(g) ==
    /\ bus[g].listener = "reloading"
    /\ \/ /\ bus' = [bus EXCEPT ![g] = Joined([@ EXCEPT !.auto = stored.to])]
          /\ UNCHANGED <<sock, left>>
       \/ Spend("failures") /\ SessionEnds(g)
    /\ UNCHANGED others

(* SocketRegistry::apply_one: who gets what in its queue.                   *)
Queued(g, m) == [s \in Socket |->
    IF \/ m.kind = "broadcast" /\ s \in Open(g)
       \/ m.kind = "close" /\ s \in Registered(g) /\ s = m.to
    THEN [sock[s] EXCEPT !.outbound = Append(@, m)]
    ELSE sock[s]]

(* "pending" still has the question's id.                                   *)
Awaited(m) == m.kind = "answer" /\ question.state = "open" /\ m.n = question.id

(* Shared::receive: effects are applied here, questions in a task.          *)
Receive(g) ==
    /\ bus[g].listener = "idle"
    /\ bus[g].inbox # <<>>
    /\ LET m == Head(bus[g].inbox)
           b == [bus[g] EXCEPT !.inbox = Tail(@)]
       IN  /\ bus' = [bus EXCEPT ![g] =
                        IF m.kind = "auto" THEN [b EXCEPT !.auto = m.to] ELSE b]
           /\ sock' = Queued(g, m)
           /\ answering' = IF m.kind = "ask" THEN answering \cup {<<g, m.n>>} ELSE answering
           /\ question' = IF Awaited(m) THEN [question EXCEPT !.have = @ + 1, !.who = @ \cup m.who]
                          ELSE question
    /\ UNCHANGED <<published, stored, setting, announced, apart, left>>

(* The next command of the queue.                                           *)
RunCommand(g) ==
    /\ bus[g].listener = "idle"
    /\ bus[g].commands # <<>>
    /\ LET c == Head(bus[g].commands)
           b == [bus[g] EXCEPT !.commands = Tail(@)]
           loaded == [sock EXCEPT ![c.for].loaded = "ready"]
       IN  IF ~b.linked
           THEN /\ bus' = [bus EXCEPT ![g] = Ended(b)]
                /\ sock' = IF c.kind = "subscribe"
                           THEN [CloseAll(g) EXCEPT ![c.for].loaded = "failed"] ELSE CloseAll(g)
           ELSE IF c.kind = "unsubscribe"
           THEN bus' = [bus EXCEPT ![g] = [b EXCEPT !.subscribed = FALSE]] /\ UNCHANGED sock
           ELSE /\ bus' = [bus EXCEPT ![g] =
                     [b EXCEPT !.subscribed = TRUE, !.listener = IF c.load THEN "loading" ELSE "idle",
                               !.commands = IF c.load THEN bus[g].commands ELSE @]]
                /\ sock' = IF c.load THEN sock ELSE loaded
    /\ apart' = IF /\ Head(bus[g].commands).kind = "subscribe"
                   /\ ~bus[g].subscribed
                   /\ \E k \in 1..Len(bus[g].inbox) : bus[g].inbox[k].kind = "auto"
                THEN apart \cup {"unread"} ELSE apart
    /\ UNCHANGED <<published, stored, setting, announced, question, answering, left>>

(* load_auto_response of the first watch: a failure fails that watch only.  *)
Load(g) ==
    /\ bus[g].listener = "loading"
    /\ LET s == Head(bus[g].commands).for
           b == [bus[g] EXCEPT !.commands = Tail(@), !.listener = "idle"]
       IN  \/ /\ bus' = [bus EXCEPT ![g] = [b EXCEPT !.auto = stored.to]]
              /\ sock' = [sock EXCEPT ![s].loaded = "ready"]
              /\ UNCHANGED <<apart, left>>
           \/ /\ Spend("failures")
              /\ bus' = [bus EXCEPT ![g] = b]
              /\ sock' = [sock EXCEPT ![s].loaded = "failed"]
              /\ apart' = apart \cup {"failed"}
    /\ UNCHANGED <<published, stored, setting, announced, question, answering>>

(* The process is told to stop: its listener returns, its sockets close.    *)
Stop(g) ==
    /\ Spend("stops")
    /\ ~bus[g].stopped
    /\ bus' = [bus EXCEPT ![g] = [Ended(@) EXCEPT !.stopped = TRUE]]
    /\ question' = Uncover(Open(g))
    /\ UNCHANGED <<sock, published, stored, setting, announced, answering, apart>>

-----------------------------------------------------------------------------
(* Questions about the actor's sockets, or about all of them.               *)

Ask(a, channel) ==
    /\ question.state # "open"
    /\ Spend("questions")
    /\ bus[a].connected
    /\ LET G == IF channel = "actor" THEN Subscribers ELSE {g \in Gateway : bus[g].linked}
       IN  /\ question' = [id |-> question.id + 1, asker |-> a, state |-> "open",
                           need |-> Cardinality(G), have |-> 0, who |-> {},
                           cover |-> UNION {Open(g) : g \in {h \in Gateway : bus[h].linked}}]
           /\ bus' = Deliver(G, AskFor(question.id + 1))
    /\ UNCHANGED <<sock, published, stored, setting, announced, answering, apart>>

(* The answer goes to the asker's channel, if it still listens there.       *)
Answer(g, id) ==
    /\ <<g, id>> \in answering
    /\ answering' = answering \ {<<g, id>>}
    /\ bus' = Deliver({a \in {question.asker} : bus[a].linked},
                      [kind |-> "answer", n |-> id, who |-> Open(g)])
    /\ UNCHANGED <<sock, published, stored, setting, announced, question, apart, left>>

(* As AskEnds, but the timeout is not told from the last answer.            *)
AskEndsEarly ==
    /\ question.state = "open"
    /\ question' = [question EXCEPT !.state = "complete"]
    /\ UNCHANGED <<bus, sock, published, stored, setting, announced, answering, apart, left>>

(* ask_partial has as many answers as its question had receivers, or        *)
(* ANSWER_TIMEOUT has passed.                                               *)
AskEnds ==
    /\ question.state = "open"
    /\ question' = [question EXCEPT !.state = IF question.have = question.need THEN "complete"
                                                 ELSE "partial"]
    /\ UNCHANGED <<bus, sock, published, stored, setting, announced, answering, apart, left>>

-----------------------------------------------------------------------------
(* The upgrade of a connection and its watch on the actor.                  *)

Connect(s, g) ==
    /\ sock[s].stage = "none"
    /\ bus[g].connected
    /\ sock' = [sock EXCEPT ![s].stage = "upgraded", ![s].at = g,
                            ![s].generation = bus[g].generation]
    /\ UNCHANGED <<bus, others, left>>

Subscribe(s, load) == [kind |-> "subscribe", for |-> s, load |-> load]

(* The count changes and the command is queued under one lock.              *)
WatchedBy(s, b) ==
    [b EXCEPT !.watched = @ + 1, !.commands = Append(@, Subscribe(s, b.watched = 0))]

(* As Watch, but only the first watch of the actor waits for its subscribe. *)
WatchFirst(s) ==
    /\ sock[s].stage = "upgraded"
    /\ bus[sock[s].at].connected
    /\ bus' = [bus EXCEPT ![sock[s].at] = WatchedBy(s, @)]
    /\ sock' = [Set(s, "watching") EXCEPT
                  ![s].loaded = IF bus[sock[s].at].watched > 0 THEN "ready" ELSE "waiting"]
    /\ UNCHANGED <<others, left>>

Watch(s) ==
    /\ sock[s].stage = "upgraded"
    /\ LET g == sock[s].at
       IN  IF bus[g].connected
           THEN /\ bus' = [bus EXCEPT ![g] = WatchedBy(s, @)]
                /\ sock' = Set(s, "watching")
           ELSE sock' = Set(s, "gone") /\ UNCHANGED bus
    /\ UNCHANGED <<others, left>>

Unwatched(b) ==
    [b EXCEPT !.watched = @ - 1,
              !.commands = IF b.watched = 1 THEN Append(@, [kind |-> "unsubscribe"]) ELSE @]

Unwatch(s) == bus' = [bus EXCEPT ![sock[s].at] = Unwatched(@)]

(* The subscription failed, or did not come within SUBSCRIBE_TIMEOUT.       *)
WatchFails(s) ==
    /\ sock[s].stage = "watching"
    /\ sock[s].loaded # "ready"
    /\ Unwatch(s)
    /\ sock' = Set(s, "gone")
    /\ UNCHANGED <<others, left>>

Started(s, event) == [sock[s] EXCEPT !.handler = "ready", !.event = event]

(* browser::run: the socket enters the registry unless it is full.          *)
Run(s) ==
    /\ sock[s].stage = "watching"
    /\ sock[s].loaded = "ready"
    /\ IF Cardinality(Registered(sock[s].at)) >= MaxConnections[sock[s].at]
       THEN sock' = Set(s, "gone") /\ Unwatch(s)
       ELSE sock' = [sock EXCEPT ![s] = [Started(s, "connect") EXCEPT !.stage = "live"]]
            /\ UNCHANGED bus
    /\ UNCHANGED <<others, left>>

-----------------------------------------------------------------------------
(* The task that hands an event to the actor's host.                        *)

Handler(s, phase) == [sock EXCEPT ![s].handler = phase]

HandlerBegins(s) ==
    /\ sock[s].handler = "ready"
    /\ sock' = Handler(s, IF Authority(s) THEN "sending" ELSE "failed")
    /\ UNCHANGED <<bus, others, left>>

(* A host that cannot be reached, refuses the token or answers NotExecuted  *)
(* is tried again; this is the attempt that reaches the actor.              *)
HostRuns(s) ==
    /\ sock[s].handler = "sending"
    /\ sock' = [sock EXCEPT ![s].handler = "executed"]
    /\ UNCHANGED <<bus, others, left>>

HostReplies(s) ==
    /\ sock[s].handler = "executed"
    /\ sock' = Handler(s, IF Authority(s) THEN "replied" ELSE "failed")
    /\ UNCHANGED <<bus, others, left>>

(* The handler failed, no host came up in time, or the reply was lost: the  *)
(* event is not replayed.                                                   *)
Unanswered(s) ==
    /\ sock[s].handler \in {"sending", "executed"}
    /\ Spend("failures")
    /\ sock' = Handler(s, "failed")
    /\ UNCHANGED <<bus, others>>

(* A connection the actor does not reject is activated. The effects of the  *)
(* event are published by a task of their own: Publish.                     *)
HandlerEnds(s) ==
    /\ sock[s].handler = "replied"
    /\ \E accepted \in BOOLEAN :
          sock' = IF accepted /\ sock[s].event = "connect" /\ sock[s].stage \in {"live", "closing"}
                  THEN [sock EXCEPT ![s].handler = "done", ![s].open = TRUE,
                                    ![s].since = published]
                  ELSE Handler(s, "done")
    /\ UNCHANGED <<bus, others, left>>

-----------------------------------------------------------------------------
(* The session's loop.                                                      *)

HandlerReturns(s) ==
    /\ sock[s].stage = "live"
    /\ \/ sock[s].handler = "failed" /\ sock' = Set(s, "closing")
       \/ /\ sock[s].handler = "done"
          /\ sock' = IF sock[s].waiting > 0
                     THEN [sock EXCEPT ![s] = [Started(s, "message") EXCEPT !.waiting = @ - 1]]
                     ELSE Handler(s, "none")
    /\ UNCHANGED <<bus, others, left>>

(* A text from the browser: answered automatically, handled, or made to     *)
(* wait for the handler of the one before.                                  *)
ClientSends(s) ==
    /\ Spend("messages")
    /\ sock[s].stage = "live"
    /\ \/ /\ bus[sock[s].at].auto # Unset
          /\ sock' = IF Authority(s) THEN sock ELSE Set(s, "closing")
       \/ sock' = [sock EXCEPT ![s] = IF sock[s].handler = "none" THEN Started(s, "message")
                                      ELSE [@ EXCEPT !.waiting = @ + 1]]
    /\ UNCHANGED <<bus, others>>

(* The browser closes, its transport breaks, or it sends what is not text.  *)
ClientLeaves(s) ==
    /\ Spend("leaves")
    /\ sock[s].stage = "live"
    /\ sock' = Set(s, "closing")
    /\ UNCHANGED <<bus, others>>

SendOutbound(s) ==
    /\ sock[s].stage = "live"
    /\ sock[s].outbound # <<>>
    /\ LET m == Head(sock[s].outbound)
       IN  sock' = IF m.kind = "broadcast" /\ Authority(s)
                   THEN [sock EXCEPT ![s].outbound = Tail(@), ![s].received = Append(@, m.n)]
                   ELSE Set(s, "closing")
    /\ UNCHANGED <<bus, others, left>>

SeesStop(s) ==
    /\ sock[s].stage = "live"
    /\ bus[sock[s].at].stopped
    /\ sock' = Set(s, "closing")
    /\ UNCHANGED <<bus, others, left>>

(* close and the first half of disconnect: the entry leaves the registry.   *)
Deregister(s) ==
    /\ sock[s].stage = "closing"
    /\ sock' = [sock EXCEPT ![s].stage = "removed", ![s].open = FALSE, ![s].waiting = 0,
                            ![s].outbound = <<>>]
    /\ question' = Uncover({s})
    /\ UNCHANGED <<bus, published, stored, setting, announced, answering, apart, left>>

(* The rest: the Disconnect event goes out when the handler has ended or    *)
(* after 5 s without it, and the watch ends.                                *)
Disconnect(s) ==
    /\ sock[s].stage = "removed"
    /\ Unwatch(s)
    /\ sock' = Set(s, "gone")
    /\ UNCHANGED <<others, left>>

-----------------------------------------------------------------------------
GatewayStep(g) ==
    \/ NoticeCut(g)
    \/ Reconnect(g)
    \/ Reload(g)
    \/ Receive(g)
    \/ RunCommand(g)
    \/ Load(g)
    \/ \E id \in 1..question.id : Answer(g, id)

SessionStep(s) ==
    \/ Watch(s)
    \/ WatchFails(s)
    \/ Run(s)
    \/ HandlerBegins(s)
    \/ HostRuns(s)
    \/ HostReplies(s)
    \/ HandlerEnds(s)
    \/ HandlerReturns(s)
    \/ SendOutbound(s)
    \/ SeesStop(s)
    \/ Deregister(s)
    \/ Disconnect(s)

SocketsNext ==
    \/ Publish
    \/ StoreAutoResponse
    \/ \E c \in setting : PublishAutoResponse(c)
    \/ AskEnds
    \/ \E g \in Gateway : \/ GatewayStep(g)
                          \/ CutLink(g)
                          \/ Stop(g)
                          \/ CloseDisabled(g)
                          \/ \E channel \in {"actor", "gateways"} : Ask(g, channel)
    \/ \E s \in Socket : \/ SessionStep(s)
                         \/ Unanswered(s)
                         \/ ClientSends(s)
                         \/ ClientLeaves(s)
                         \/ \E g \in Gateway : Connect(s, g)

SocketsSpec == SocketsInit /\ [][SocketsNext]_socketVars

(* The listeners and the sessions are tasks the runtime keeps running.      *)
SocketsFairness ==
    /\ \A g \in Gateway : WF_socketVars(GatewayStep(g))
    /\ \A s \in Socket : WF_socketVars(SessionStep(s))

-----------------------------------------------------------------------------
(* The broadcasts from the first number to the last.                        *)
Span(first, last) == [k \in 1..(last - first + 1) |-> first + k - 1]

(* The broadcasts a socket will find in a queue before it is closed.        *)
Heard(q, s) ==
    LET closing == {k \in 1..Len(q) : q[k] = CloseFor(s)}
        last == CHOOSE k \in 0..Len(q) : /\ closing \cap 1..k = {}
                                         /\ k = Len(q) \/ k + 1 \in closing
        heard == SelectSeq(SubSeq(q, 1, last), LAMBDA m : m.kind = "broadcast")
    IN  [k \in 1..Len(heard) |-> heard[k].n]

(* A browser receives the broadcasts of its actor in the order they were    *)
(* published, and misses none that came after its socket opened: what it    *)
(* has received, what waits in its queue and what its gateway has yet to    *)
(* read are together all of those. So a gateway that may have missed a      *)
(* publish gives up its sockets, and a socket opens only once its gateway   *)
(* is subscribed, however its watch met other watches and unwatches.        *)
NoGap ==
    \A s \in Socket :
        LET q == sock[s].outbound \o bus[sock[s].at].inbox
            told == \E k \in 1..Len(q) : q[k] = CloseFor(s)
            Later(numbers) == SelectSeq(numbers, LAMBDA n : n > sock[s].since)
            all == Later(sock[s].received \o Heard(q, s))
            got == sock[s].received
        IN  /\ \A k \in 2..Len(got) : got[k - 1] < got[k]
            /\ Later(got) = Span(sock[s].since + 1, sock[s].since + Len(Later(got)))
            /\ sock[s].stage = "live" /\ sock[s].open /\ Authority(s) =>
                  /\ all = Span(sock[s].since + 1, sock[s].since + Len(all))
                  /\ bus[sock[s].at].linked /\ ~told => sock[s].since + Len(all) = published

(* A complete answer about the sockets contains every one that was open,    *)
(* at a gateway Redis could reach, from the question to the answer; it does *)
(* not count the late answers of an earlier question (ask_partial).         *)
AnswerCovers == question.state = "complete" => question.cover \subseteq question.who

(* The gateway has read what was published, and answers for the actor.      *)
UpToDate(g) ==
    /\ bus[g].linked
    /\ \E s \in Open(g) : Authority(s)
    /\ \A k \in 1..Len(bus[g].inbox) : bus[g].inbox[k].kind # "auto"

(* A gateway with an open socket answers with the response that was stored  *)
(* last, once it has read what was published, if that was also published    *)
(* last: a response that changes while the gateway subscribes, or while it  *)
(* is cut off, is not missed, and a change that was published late, or not  *)
(* at all, is made good by the next. Except when a load failed half way, or *)
(* a change published under an earlier subscription was still unread as the *)
(* next one was made.                                                       *)
AutoResponseFresh ==
    announced = stored.n /\ apart = {} => \A g \in Gateway : UpToDate(g) => bus[g].auto = stored.to

(* "redis_auto_responses_cleared_while_unwatched_do_not_return"             *)
(* (tests/unit/control_plane/socket_bus.rs): the same without the second    *)
(* exception. The listener takes commands and messages in any order, so a   *)
(* change it has not read when it unsubscribes can overwrite, after the     *)
(* next subscription, the newer response that load_auto_response found.     *)
ClearedDoesNotReturn ==
    announced = stored.n /\ "failed" \notin apart =>
        \A g \in Gateway : UpToDate(g) => bus[g].auto = stored.to

(* The gateway does not vouch for this socket any more.                     *)
Lingers(s) == sock[s].stage \notin {"none", "gone"} /\ ~Authority(s)

(* A socket whose gateway lost its subscription, or stops, does not linger: *)
(* it leaves the registry and its watch ends, also when it was about to     *)
(* enter the registry as the others were told to close. (In the end all of  *)
(* them are gone: a socket connects once.)                                  *)
SocketsLeave == (\E s \in Socket : Lingers(s)) ~> (\A s \in Socket : ~Lingers(s))
=============================================================================
