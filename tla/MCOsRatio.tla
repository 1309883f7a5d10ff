------------------------------ MODULE MCOsRatio ------------------------------
(* A small instance of OsRatio: four dates of which the window sees two.   *)
EXTENDS OsRatio

entry(d, v) == [date |-> d, volume |-> v]

(* Every date; one without volume; one missing; one twice; the fallback     *)
(* prices, which have no volume.  A lot has two shares.                    *)
MCEquitySeries ==
  { <<entry(1, 1), entry(2, 3), entry(3, 2), entry(4, 1)>>,
    <<entry(1, 1), entry(2, 0), entry(3, 2), entry(4, 3)>>,
    <<entry(1, 3), entry(2, 1), entry(4, 1)>>,
    <<entry(1, 1), entry(2, 0), entry(2, 2), entry(3, 1), entry(4, 2)>>,
    <<entry(1, 0), entry(2, 0), entry(3, 0), entry(4, 0)>> }
=============================================================================
