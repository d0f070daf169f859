---------------------------- MODULE MCComponents ----------------------------
(* Small instances of components, side by side: a behaviour is one of one  *)
(* of them, and the others stay as they begin.                             *)
EXTENDS SparePool, Lifecycle, Sockets, Executor, History, Residency, TLC

VARIABLE part

(* The names of the spares are interchangeable.                            *)
Symmetry == Permutations(Spare)

-----------------------------------------------------------------------------
(* Usage of one session, or slots of all.                                  *)
NoLifecycle == LifecycleStart({}, {})

LifecycleParts ==
    \/ LifecycleStart({CHOOSE s \in Session : TRUE}, {"usage"})
    \/ LifecycleStart(Session, {"limits"})

-----------------------------------------------------------------------------
(* Sockets: broadcasts, questions, auto-responses, events and cuts.        *)
NoEvents ==
    [broadcasts |-> 0, closes |-> 0, changes |-> 0, failures |-> 0, cuts |-> 0, stops |-> 0,
     questions |-> 0, messages |-> 0, leaves |-> 0]

OneGateway == {CHOOSE g \in Gateway : TRUE}
OneSocket == {CHOOSE s \in Socket : TRUE}

\* One gateway has room for both sockets, the other for one.
Connections == [g \in Gateway |-> IF g \in OneGateway THEN 2 ELSE 1]

NoSockets == SocketsStart({}, {}, {NoEvents})

SocketsParts ==
    \/ SocketsStart(OneGateway, Socket,
         {[NoEvents EXCEPT !.broadcasts = 1, !.cuts = 1],
          [NoEvents EXCEPT !.broadcasts = 2, !.leaves = 1],
          [NoEvents EXCEPT !.changes = 1, !.cuts = 1],
          [NoEvents EXCEPT !.messages = 1, !.closes = 1, !.stops = 1, !.failures = 1]})
    \/ SocketsStart(OneGateway, OneSocket,
         {[NoEvents EXCEPT !.changes = 2, !.cuts = 1, !.failures = 1],
          [NoEvents EXCEPT !.changes = 1, !.messages = 1, !.cuts = 1]})
    \/ SocketsStart(Gateway, OneSocket,
         {[NoEvents EXCEPT !.questions = 2],
          [NoEvents EXCEPT !.questions = 1, !.cuts = 1]})

-----------------------------------------------------------------------------
(* History: with rotations, crashes, failures and inspections in turn.     *)
NoChanges ==
    [epochs |-> 0, writes |-> 0, crashes |-> 0, failures |-> 0, looks |-> 0, rotations |-> 0]

NoHistory == HistoryStart({TRUE}, {NoChanges})

HistoryParts ==
    \/ HistoryStart({TRUE},
         {[NoChanges EXCEPT !.epochs = 2, !.writes = 3, !.rotations = 1],
          [NoChanges EXCEPT !.epochs = 2, !.writes = 2, !.crashes = 1, !.rotations = 1],
          [NoChanges EXCEPT !.epochs = 2, !.writes = 2, !.failures = 1, !.rotations = 1],
          [NoChanges EXCEPT !.epochs = 2, !.writes = 2, !.looks = 1]})
    \/ HistoryStart({FALSE},
         {[NoChanges EXCEPT !.epochs = 3, !.writes = 3, !.crashes = 2],
          [NoChanges EXCEPT !.epochs = 2, !.writes = 2, !.crashes = 1, !.failures = 1],
          [NoChanges EXCEPT !.epochs = 3, !.writes = 2, !.crashes = 2, !.looks = 1]})

-----------------------------------------------------------------------------
(* Few reports: two of residency under way at once, and of two hosts only  *)
(* one sends the longest series.                                           *)
FewReports ==
    /\ Cardinality(transit') <= 2
    /\ \A s, t \in Session : s # t => reporter'[s].sequence + reporter'[t].sequence < 2 * MaxSequence - 1

-----------------------------------------------------------------------------
MCInit ==
    /\ part \in {"pool", "lifecycle", "sockets", "executor", "history", "residency"}
    /\ PoolInit /\ ExecutorInit /\ ResidencyInit
    /\ IF part = "lifecycle" THEN LifecycleParts ELSE NoLifecycle
    /\ IF part = "sockets" THEN SocketsParts ELSE NoSockets
    /\ IF part = "history" THEN HistoryParts ELSE NoHistory

MCNext ==
    /\ UNCHANGED part
    /\ \/ /\ part = "pool" /\ PoolNext
          /\ UNCHANGED <<lifecycleVars, socketVars, executorVars, historyVars, residencyVars>>
       \/ /\ part = "lifecycle" /\ LifecycleNext
          /\ UNCHANGED <<poolVars, socketVars, executorVars, historyVars, residencyVars>>
       \/ /\ part = "sockets" /\ SocketsNext
          /\ UNCHANGED <<poolVars, lifecycleVars, executorVars, historyVars, residencyVars>>
       \/ /\ part = "executor" /\ ExecutorNext
          /\ UNCHANGED <<poolVars, lifecycleVars, socketVars, historyVars, residencyVars>>
       \/ /\ part = "history" /\ HistoryNext
          /\ UNCHANGED <<poolVars, lifecycleVars, socketVars, executorVars, residencyVars>>
       \/ /\ part = "residency" /\ ResidencyNext
          /\ UNCHANGED <<poolVars, lifecycleVars, socketVars, executorVars, historyVars>>

MCVars == <<part, poolVars, lifecycleVars, socketVars, executorVars, historyVars, residencyVars>>
MCSpec == MCInit /\ [][MCNext]_MCVars
=============================================================================
