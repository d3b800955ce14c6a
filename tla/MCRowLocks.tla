------------------------------ MODULE MCRowLocks -------------------------------
(* Three requests of two workers: the first and the last share one.         *)
EXTENDS RowLocks, TLC

CONSTANTS w1, w2, s1, s2, s3

TwoShareAWorker == (s1 :> w1) @@ (s2 :> w2) @@ (s3 :> w1)
===============================================================================
