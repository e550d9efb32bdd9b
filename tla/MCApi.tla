------------------------------- MODULE MCApi -------------------------------
(* Api, and in it Engine, on small instances. *)
EXTENDS Api

CONSTANTS q1, q2

R(id, enabled, algo, dims) == [id |-> id, enabled |-> enabled, algo |-> algo, dims |-> dims]

a    == R("a", TRUE, "", <<"ip", "route">>)
aOff == R("a", FALSE, "", <<"ip", "route">>)
b    == R("b", TRUE, "leaky_bucket", <<"user">>)
odd  == R("odd", TRUE, "unknown", <<>>)

MCRules == {a, aOff, b, odd}

\* Lists of none, one, two and three rules, with a disabled rule alone, first and in
\* the middle, and a rule whose algorithm nobody knows.
MCLists == {<<>>, <<aOff>>, <<odd, b>>, <<a, aOff, b>>, <<aOff, b, a>>}

Dims(ip, route) == [n \in {"ip", "route"} |-> IF n = "ip" THEN ip ELSE route]

MCRemote == Dims(<<"x">>, <<"y", "z">>)

\* Three routes and addresses, two of them the same words once joined; the third request
\* also names its user.
MCInputs == {MCRemote, Dims(<<"x", "y">>, <<"z">>),
             [n \in {"ip", "route", "user"} |-> CASE n = "ip"    -> <<"x">>
                                                  [] n = "route" -> <<"z", "z">>
                                                  [] n = "user"  -> <<"u">>]}
=============================================================================
