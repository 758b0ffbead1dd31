--------------------------- MODULE MCEnsureAgent ----------------------------
(***************************************************************************)
(* Small instances of EnsureAgent: two logins, which share the fixed       *)
(* socket sockA, and one path of another program.                          *)
(***************************************************************************)
EXTENDS AgentRefinement, TLC

CONSTANTS sockA, other, l1, l2

SharedFixed == [l \in Login |-> sockA]

Budgeted(limits) == [k \in FaultKind |-> IF k \in DOMAIN limits THEN limits[k] ELSE 0]

\* An agent stalls, dies or appears: what was read is stale when used.
HarmBudget == Budgeted([stall |-> 1, foreign |-> 1, agentCrash |-> 1])
\* Logins take turns; agents die, and one system call fails.
OrderlyBudget == Budgeted([agentCrash |-> 1, io |-> 1])
\* A login dies, or a signal comes late; a login works without the lock.
EndsBudget == Budgeted([loginCrash |-> 1, lateExit |-> 1, lockTimeout |-> 1])
NoFaults == Budgeted(<<>>)
LateExitBudget == Budgeted([lateExit |-> 1])

LoginSymmetry == Permutations(Login)
=============================================================================
