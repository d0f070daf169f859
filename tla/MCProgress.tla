----------------------------- MODULE MCProgress -----------------------------
(* Small instances of the components whose work has to come to an end, side *)
(* by side: a behaviour is one of one of them, and the others stay as they  *)
(* begin.                                                                   *)
EXTENDS Alarms, Sockets, History

VARIABLE part

Connections == [g \in Gateway |-> 1]

\* One gateway, with room for one socket, that is cut off or stopped.
NoEvents ==
    [broadcasts |-> 0, closes |-> 0, changes |-> 0, failures |-> 0, cuts |-> 0, stops |-> 0,
     questions |-> 0, messages |-> 0, leaves |-> 0]

NoSockets == SocketsStart({}, {}, {NoEvents})

SocketsPart ==
    SocketsStart({CHOOSE g \in Gateway : TRUE}, Socket,
        {[NoEvents EXCEPT !.cuts = 1, !.leaves = 1], [NoEvents EXCEPT !.cuts = 1, !.stops = 1]})

\* One host, whose checkpoints fail or that is reset.
NoChanges ==
    [epochs |-> 0, writes |-> 0, crashes |-> 0, failures |-> 0, looks |-> 0, rotations |-> 0]

NoHistory == HistoryStart({TRUE}, {NoChanges})

HistoryPart ==
    HistoryStart({TRUE}, {[NoChanges EXCEPT !.epochs = 1, !.writes = 3, !.failures = 1],
                          [NoChanges EXCEPT !.epochs = 1, !.writes = 2, !.failures = 2]})

-----------------------------------------------------------------------------
\* Two replicas, of which one has the store's clock and the other's is ahead.
MCInit ==
    /\ part \in {"alarms", "sockets", "history"}
    /\ AlarmsStart(IF part = "alarms" THEN {"postgres", "sqlite"} ELSE {"none"})
    /\ part = "alarms" =>
         offset = [p \in Scheduler |-> IF p = (CHOOSE q \in Scheduler : TRUE) THEN 0 ELSE MaxOffset]
    /\ IF part = "sockets" THEN SocketsPart ELSE NoSockets
    /\ IF part = "history" THEN HistoryPart ELSE NoHistory

MCNext ==
    /\ UNCHANGED part
    /\ \/ part = "alarms" /\ AlarmsNext /\ UNCHANGED <<socketVars, historyVars>>
       \/ part = "sockets" /\ SocketsNext /\ UNCHANGED <<alarmVars, historyVars>>
       \/ part = "history" /\ HistoryNext /\ UNCHANGED <<alarmVars, socketVars>>

\* A component that stays as it begins has nothing to do.
MCFairness == AlarmsFairness /\ SocketsFairness /\ HistoryFairness

MCVars == <<part, alarmVars, socketVars, historyVars>>
MCSpec == MCInit /\ [][MCNext]_MCVars /\ MCFairness
=============================================================================
