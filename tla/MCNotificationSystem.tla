-------------------------- MODULE MCNotificationSystem --------------------------
(* Small instances of NotificationSystem: all messages and all requests are  *)
(* about one event.                                                          *)
EXTENDS NotificationSystem

CONSTANTS w1, m1, q1, e1

EventsOfMsgs == [m \in Msgs |-> e1]
SourcesOfRequests == [q \in Requests |-> e1]
=============================================================================
