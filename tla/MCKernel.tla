------------------------------ MODULE MCKernel ------------------------------
(* Two kernels and two threads, for TLC. *)
EXTENDS Kernel

CONSTANTS k1, k2, t1, t2

NoFailures == {}

ChainmanFails == {"chainman"}

TextFree == {"plain", "validation"}

WithText == {"text"}
=============================================================================
