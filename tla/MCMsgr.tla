------------------------------ MODULE MCMsgr ------------------------------
(***************************************************************************)
(* Instances of MsgrSession for TLC.                                        *)
(***************************************************************************)
EXTENDS MsgrSession

\* What happens to a connection that its owner leaves open.
SessionEvents == Events \ {"close", "revoke", "revoke_in", "reject", "tagclose"}

\* What the owner does to it, and peers that refuse or end it.  An authorizer that
\* fails after the owner closed the connection is left to MsgrClosed.cfg.
CallEvents == Events \ {"authfail"}
===========================================================================
