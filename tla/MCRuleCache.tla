---------------------------- MODULE MCRuleCache ----------------------------
(* RuleCache on small instances: two instances of RLS, two rules. *)
EXTENDS RuleCache

CONSTANTS i1, i2, w1, w2, r1, r2, s1, s2

\* Both rules on one shard, or each on its own.
OneShard == [r \in Rules |-> s1]
TwoShards == [r \in Rules |-> IF r = r1 THEN s1 ELSE s2]

\* The writers are of one instance.
SameInstance == [w \in Writers |-> i1]
=============================================================================
