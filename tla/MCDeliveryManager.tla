-------------------------- MODULE MCDeliveryManager -------------------------
(* Model values for DeliveryManager are given in the configurations: one or  *)
(* two endpoint URLs and client threads, and two workers, enough to register *)
(* again under the same URL, or to have two endpoints at once.               *)
EXTENDS DeliveryManager

(* State constraint of manager_calls: its properties say nothing about the   *)
(* behaviours in which two calls have overlapped.                            *)
NotOverlapped == ~overlapped
=============================================================================
