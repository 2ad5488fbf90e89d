-------------------------- MODULE MCApprovalInbox ---------------------------
(* Two approvals of one conversation.                                      *)
EXTENDS ApprovalInbox
=============================================================================
