--------------------------- MODULE MCServiceChain ---------------------------
(* Small instances of ServiceChain for TLC. *)
EXTENDS ServiceChain

Program(ensure, text, serviceEnsure, enabled, action) ==
  [ line |-> [line |-> text, ensure |-> ensure, create |-> TRUE, triggers |-> Unset],
    service |-> [ensure |-> serviceEnsure, enabled |-> enabled, refreshAction |-> action] ]

\* A line or another one, with a service that restarts or reloads; a program
\* that wants no such line and the service stopped; and, to drop those of its
\* properties that others set, one that only enables the service.
Postgresql ==
  { Program(Unset, "x", "started", TRUE, Unset),
    Program("present", "y", "started", TRUE, "reload"),
    Program("absent", "x", "stopped", FALSE, Unset),
    Program(Unset, "x", Unset, TRUE, "keep") }

\* The program of the acceptance test, with one line or the other.
TwoLines == {Program(Unset, l, "started", TRUE, Unset) : l \in Lines}

AnyLoss == {"ok", "unreachable", "failed", "lost"}
=============================================================================
