------------------------------- MODULE Arith -------------------------------
(* math.min and math.max of two integers, as the Lua scripts and the Go      *)
(* code use them.                                                            *)
EXTENDS Integers

LesserOf(a, b) == IF a <= b THEN a ELSE b

GreaterOf(a, b) == IF a >= b THEN a ELSE b
=============================================================================
