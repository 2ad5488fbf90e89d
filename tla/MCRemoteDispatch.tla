-------------------------- MODULE MCRemoteDispatch --------------------------
(* Two replicas, two dispatches of one conversation.                       *)
EXTENDS RemoteDispatch
=============================================================================
