---------------------------- MODULE Accumulators ----------------------------
(***************************************************************************)
(* What the accumulators of the hft-statistics crate are to a tracker: a   *)
(* WelfordAccumulator reports the number of its samples and their mean,    *)
(* and so is known by its count and its sum.  A StreamingDistribution or a *)
(* WelfordAccumulator of prices nothing is said about is modelled by the   *)
(* number of samples it was given.  An IntradayCurveAccumulator keeps one  *)
(* accumulator per minute of the session; all events of the model are of   *)
(* one minute, and the curve is the accumulator of that minute.            *)
(*                                                                         *)
(* A value of a report that comes of a division is kept as a fraction; a   *)
(* float that is not finite is written as null, the fraction 0 / 0.        *)
(***************************************************************************)
EXTENDS Naturals

Welford == [count : Nat, sum : Nat]

EmptyWelford == [count |-> 0, sum |-> 0]

update(accumulator, sample) ==
  [count |-> accumulator.count + 1, sum |-> accumulator.sum + sample]

(* 1 if the condition holds, for counters that some events leave alone.    *)
one_if(condition) == IF condition THEN 1 ELSE 0

null == [num |-> 0, den |-> 0]

(* Fault: divides by whatever the whole is                                 *)
rate_unguarded(part, whole) == IF whole > 0 THEN [num |-> part, den |-> whole] ELSE null

(* A part of a whole: 0 of nothing is 0.                                   *)
rate(part, whole) ==
  IF whole > 0 THEN [num |-> part, den |-> whole] ELSE [num |-> 0, den |-> 1]

(* A quotient that does not exist without its denominator.                 *)
quotient(n, d) == IF d > 0 THEN [num |-> n, den |-> d] ELSE null

mean(accumulator) == quotient(accumulator.sum, accumulator.count)
=============================================================================
