--------------------------- MODULE MCTaskWorkflow ---------------------------
(* Small instances of the workflow for TLC. *)
EXTENDS TaskWorkflow, TLC

CONSTANTS a1, a2, a3

\* Every agent can do either role, and no pool restricts the choice.
AllRoles == [a \in Agents |-> Roles]
\* a1 is the only agent that implements.
OneCoder == [a \in Agents |-> IF a = a1 THEN Roles ELSE {"reviewer"}]
AnyAgent == [r \in Roles |-> {}]

\* Workers are interchangeable; so are agents when all can do everything.
Symmetry == Permutations(Workers) \cup Permutations(Agents)
=============================================================================
