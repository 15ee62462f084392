------------------------------ MODULE Triggers ------------------------------
(***************************************************************************)
(* What every Diff compares: the inputs (pkg/pdiff) and the triggers of a  *)
(* resource (provider/midtypes/triggers.go, diff.go).  A                   *)
(* program gives a resource a value for "refresh" and one for "replace"    *)
(* (a list; here one opaque value); the provider remembers both beside the *)
(* time of the resource's last change, which programs feed into the        *)
(* triggers of other resources.                                            *)
(***************************************************************************)
EXTENDS Naturals

CONSTANT Unset \* a nil pointer: the program does not set the property

\* pdiff.DiffAllAttributesExcept: a property that the inputs do not set makes
\* no difference, whatever the state has for it.
Differs(news, olds, except) ==
  \E p \in DOMAIN news \ (except \cup {"triggers"}) :
    news[p] # Unset /\ news[p] # olds[p]

\* TriggersOutput{}: 0 is the empty LastChanged.
NoTriggers == [refresh |-> Unset, replace |-> Unset, lastChanged |-> 0]

\* DiffTriggers: which of the two lists differ.  A program that stops setting
\* triggers altogether causes no difference.
DiffTriggers(olds, news) ==
  [ refresh |-> news # Unset /\ olds.refresh # news.refresh,
    replace |-> news # Unset /\ olds.replace # news.replace ]

UpdateTriggerState(outs, ins, changed, now) ==
  [ refresh     |-> IF ins = Unset THEN outs.refresh ELSE ins.refresh,
    replace     |-> IF ins = Unset THEN outs.replace ELSE ins.replace,
    lastChanged |-> IF changed THEN now ELSE outs.lastChanged ]
=============================================================================
