----------------------------- MODULE MCAgentRPC -----------------------------
(* Small instances of AgentRPC for TLC. *)
EXTENDS AgentRPC

CONSTANT u1

NoUser == {}
OneUser == {u1}

AllEvents == {"crash", "break", "exit"}
OnlyExit == {"exit"}
=============================================================================
