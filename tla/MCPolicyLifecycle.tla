--------------------------- MODULE MCPolicyLifecycle ---------------------------
(* Instances of PolicyLifecycle for TLC: every policy starts in the first     *)
(* month, has a premium of 1 and matures in the third.                        *)
EXTENDS PolicyLifecycle

CONSTANTS p1, h1, h2

MCBook == [p \in Policies |-> [commencement |-> 1, maturity |-> 3, premium |-> 1]]
================================================================================
