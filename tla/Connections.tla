----------------------------- MODULE Connections ----------------------------
(***************************************************************************)
(* What CATcpServer promises to the servers derived from it (CServerAMX,    *)
(* CServerAuth, CServerDevice, CServerMeeting, ...), which know a client    *)
(* only by its descriptor: while a handler of a connection runs, the        *)
(* descriptor it was called with belongs to that connection.  A descriptor  *)
(* is closed, and so given to a later connection, only when no handler of   *)
(* its connection runs any more.                                            *)
(*                                                                          *)
(* The promise holds until a message of the server strikes a connection it  *)
(* was not sent about; nothing is promised from then on.                    *)
(***************************************************************************)
EXTENDS Naturals

CONSTANT Fd     \* descriptors

VARIABLES
    conn,       \* the connection each descriptor belongs to, 0: none
    born,       \* connections so far; they are numbered from 1
    running,    \* <<descriptor, connection>> of the handlers that run
    kept        \* the promise still binds

connectionVars == <<conn, born, running, kept>>

NothingYet ==
    /\ conn = [f \in Fd |-> 0]
    /\ born = 0
    /\ running = {}
    /\ kept = TRUE

Opens(f) ==
    /\ conn[f] = 0
    /\ born' = born + 1
    /\ conn' = [conn EXCEPT ![f] = born + 1]
    /\ UNCHANGED running

Enters(f) ==
    /\ conn[f] # 0
    /\ running' = running \cup {<<f, conn[f]>>}
    /\ UNCHANGED <<conn, born>>

Leaves(h) ==
    /\ running' = running \ {h}
    /\ UNCHANGED <<conn, born>>

Closes(f) ==
    /\ \A h \in running : h[1] # f
    /\ conn' = [conn EXCEPT ![f] = 0]
    /\ UNCHANGED <<born, running>>

Serves ==
    \/ \E f \in Fd : Opens(f) \/ Enters(f) \/ Closes(f)
    \/ \E h \in running : Leaves(h)

Promise == NothingYet /\ [][kept' => kept /\ Serves]_connectionVars

=============================================================================
