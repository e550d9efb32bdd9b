------------------------------ MODULE MCRouter -----------------------------
(* Router on small instances. *)
EXTENDS Router, TLC

CONSTANTS g1, g2

R(id, match, methods, client, priority) ==
  [id |-> id, enabled |-> TRUE, match |-> match, methods |-> methods, client |-> client,
   priority |-> priority]

exact   == R(1, <<"/", "a">>, {}, "", 5)
again   == R(2, <<"/", "a">>, {"GET"}, "", 5)
root    == R(3, <<"/", "*">>, {}, "", 5)
node    == R(4, <<"/", "a", "*">>, {"*"}, "user", 9)
all     == R(5, <<"*">>, {}, "", 5)
nothing == R(6, <<>>, {"POST"}, "api_key", 1)
blank   == R(8, <<"/", "*">>, {}, "blank", 9)
off     == [all EXCEPT !.id = 7, !.enabled = FALSE]

\* Rules of one priority whose order only their identifiers decide, two rules of one
\* path, two prefixes of which one is a prefix of the other, all kinds of filters,
\* a rule that is off and one for nobody.
MCRuleMaps == {{exact, root, all}, {exact, again, node, nothing}, {root, node, off}, {blank}, {}}

MCRequests ==
  [path : {<<>>, <<"/">>, <<"/", "a">>, <<"/", "a", "b">>}, method : {"GET", "POST"},
   user : {TRUE}, apiKey : {FALSE}]
  \cup [path : {<<"/", "a">>}, method : {"POST"}, user : BOOLEAN, apiKey : {TRUE}]

GoroutineSymmetry == Permutations(Goroutines)
=============================================================================
