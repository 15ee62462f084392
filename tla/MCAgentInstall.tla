--------------------------- MODULE MCAgentInstall ---------------------------
(* Two providers of two releases, of which the name of one begins with the *)
(* name of the other (version/version.go has v0.0.20).                     *)
EXTENDS AgentInstall

CONSTANTS p1, p2

Two == {p1, p2}
Releases == {"v0.0.2", "v0.0.20"}
Begins == {<<v, v>> : v \in Releases} \cup {<<"v0.0.2", "v0.0.20">>}
=============================================================================
