-------------------------- MODULE MCDeliveryWorker --------------------------
(* Model values for DeliveryWorker.  Four messages against a message queue   *)
(* of one: enough for a batch of two, which only a put-back can build, to be *)
(* put back in front of a refilled queue, and for drops before and after a    *)
(* report.  An attachment adds a kind served before the messages.            *)
EXTENDS DeliveryWorker

WorkLimit == [k \in Kind |-> CASE k = "message" -> 4
                               [] k = "attached" -> 1
                               [] OTHER -> 0]

(* For the worker that is stopped while it waits.                            *)
StopLimit == [k \in Kind |-> CASE k = "message" -> 2
                               [] k = "status" -> 1
                               [] k = "attached" -> 1
                               [] OTHER -> 0]
=============================================================================
