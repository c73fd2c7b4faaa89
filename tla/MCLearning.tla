------------------------------ MODULE MCLearning ------------------------------
(***************************************************************************)
(* Small instance of Learning: readings of two variables that can be       *)
(* constant, proportional or independent, and a memory that wraps within   *)
(* the samples of one process, so that three different readings have been  *)
(* learnt before a new one is.  420 is a multiple of n and of n * (n - 1)  *)
(* for every n up to 7.                                                    *)
(***************************************************************************)
EXTENDS Learning

MCReading == (0 .. 1) \X (0 .. 1)

=============================================================================
