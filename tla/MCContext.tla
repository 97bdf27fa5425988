----------------------------- MODULE MCContext -----------------------------
(* Small clients of the context, for TLC. *)
EXTENDS Context

CONSTANTS t1, t2, n1, n2, v1, o1, x1, x2, p1, m1, m2

NoMistakes == {}

NoFailures == {}

EveryFailure == {"context", "chainOpts", "chainman"}

TextFree == {"plain", "validation"}
=============================================================================
