-------------------------- MODULE MCRemoteDelivery --------------------------
(* A small instance of RemoteDelivery for TLC.                              *)
EXTENDS RemoteDelivery
=============================================================================
