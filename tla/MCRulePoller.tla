--------------------------- MODULE MCRulePoller ----------------------------
(* RulePoller on small instances: two documents, of which one defines a rule *)
(* less, and an edit back to the first one.                                  *)
EXTENDS RulePoller

CONSTANTS d1, d2, n1, n2, u1, w1

DocumentRules == [d \in Documents |-> IF d = d1 THEN {n1, n2} ELSE {n1}]
=============================================================================
