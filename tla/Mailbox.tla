------------------------------- MODULE Mailbox -------------------------------
(***************************************************************************)
(* What a client may rely on for the status messages it is sent, without   *)
(* lists, handlers or posted functions.  One message travels at a time;    *)
(* the next to travel is the newest of those that wait, so a slow client   *)
(* gets the present state first and the past later.  No message is lost or *)
(* sent twice.  Once the connection fails nothing travels any more.        *)
(***************************************************************************)
EXTENDS Naturals

CONSTANT Message     \* message numbers from 1, greater is newer

VARIABLES
    travelling,  \* the message on its way, 0 when there is none
    waiting,     \* the messages behind it
    arrived,     \* the messages the client has in full
    broken       \* the connection has failed

vars == <<travelling, waiting, arrived, broken>>

Init == travelling = 0 /\ waiting = {} /\ arrived = {} /\ broken = FALSE

Submit ==
    \E m \in Message :
        /\ m # travelling /\ m \notin waiting \cup arrived
        /\ IF travelling = 0 /\ ~broken
           THEN travelling' = m /\ UNCHANGED waiting
           ELSE waiting' = waiting \cup {m} /\ UNCHANGED travelling
        /\ UNCHANGED <<arrived, broken>>

Arrive ==
    /\ travelling # 0
    /\ arrived' = arrived \cup {travelling}
    /\ IF waiting = {}
       THEN travelling' = 0 /\ UNCHANGED waiting
       ELSE \E m \in waiting :
              /\ \A k \in waiting : k <= m
              /\ travelling' = m /\ waiting' = waiting \ {m}
    /\ UNCHANGED broken

Break ==
    /\ travelling # 0
    /\ travelling' = 0 /\ waiting' = waiting \cup {travelling} /\ broken' = TRUE
    /\ UNCHANGED arrived

Next == Submit \/ Arrive \/ Break

Spec == Init /\ [][Next]_vars
===============================================================================
