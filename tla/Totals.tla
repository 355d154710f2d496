-------------------------------- MODULE Totals ---------------------------------
(***************************************************************************)
(* The sum of a sequence of numbers, as a recursive function: the byte     *)
(* counts of the recorders' queues are compared with it.                   *)
(***************************************************************************)
EXTENDS Naturals, Sequences

Total(numbers) ==
  LET sum[i \in 0 .. Len(numbers)] == IF i = 0 THEN 0 ELSE sum[i - 1] + numbers[i]
  IN  sum[Len(numbers)]
================================================================================
