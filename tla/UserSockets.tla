---------------------------- MODULE UserSockets ----------------------------
(***************************************************************************)
(* The two Unix datagram sockets between the user interface and the        *)
(* communication task (SK_SOCK_COMM_PATH and SK_UI_PATH in                 *)
(* beaglebone_green/main.h).  A datagram is a request or a response; only  *)
(* their numbers are kept.  A send to a socket that is not bound fails, a  *)
(* send to a full one blocks.                                              *)
(***************************************************************************)
EXTENDS Naturals

CONSTANT SocketSize  \* datagrams a socket can hold
ASSUME UserSocketsAssumption == SocketSize \in Nat \ {0}

VARIABLES
    bound,   \* the sockets that are bound
    inbox    \* datagrams waiting at each socket

socketVars == <<bound, inbox>>

Sockets == {"comm", "ui"}

SocketTypeOK ==
    /\ bound \subseteq Sockets
    /\ inbox \in [Sockets -> 0..SocketSize]

SocketInit == bound = {} /\ inbox = [s \in Sockets |-> 0]

Bind(s) == bound' = bound \cup {s} /\ UNCHANGED inbox

\* sendto that delivers; it fails at once if s is not bound.
SendTo(s) ==
    /\ s \in bound /\ inbox[s] < SocketSize
    /\ inbox' = [inbox EXCEPT ![s] = @ + 1]
    /\ UNCHANGED bound

SendToFails(s) == s \notin bound /\ UNCHANGED socketVars

ReceiveFrom(s) ==
    /\ inbox[s] > 0
    /\ inbox' = [inbox EXCEPT ![s] = @ - 1]
    /\ UNCHANGED bound
=============================================================================
