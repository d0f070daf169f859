------------------------------ MODULE MCSockets ------------------------------
(* One gateway whose sockets come and go while the actor changes its        *)
(* automatic response twice.                                                *)
EXTENDS Sockets

Connections == [g \in Gateway |-> 2]

MCInit ==
    SocketsStart(Gateway, Socket,
        {[broadcasts |-> 0, closes |-> 0, changes |-> 2, failures |-> 0, cuts |-> 0, stops |-> 0,
          questions |-> 0, messages |-> 0, leaves |-> 0]})

MCSpec == MCInit /\ [][SocketsNext]_socketVars
==============================================================================
