------------------------------- MODULE MCKernel -------------------------------
(***************************************************************************)
(* The idle thread and three threads of two priorities, with one queue of    *)
(* two messages: one message from the threads, one from an interrupt.        *)
(***************************************************************************)
EXTENDS Kernel, TLC

CONSTANTS t1, t2, t3, idle, long

MCCount == [q \in Queues |-> 2]

Interchangeable == Permutations({t1, t2, t3})

=============================================================================
