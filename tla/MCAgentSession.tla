---------------------------- MODULE MCAgentSession ----------------------------
(* Streams over one session.                                               *)
EXTENDS AgentSession

=============================================================================
