--------------------------- MODULE MCNotificationApi ---------------------------
(* Small instances of NotificationApi: the source_event_id of each request.  *)
EXTENDS NotificationApi, TLC

CONSTANTS q1, q2, q3, e1, n1

Mixed        == (q1 :> e1) @@ (q2 :> NoSource) @@ (q3 :> NoSource)
SourcedAlone == (q1 :> e1)
=============================================================================
