------------------------------- MODULE MCSglSrc -------------------------------
\* Two sites with two candidates each and two periods.  In the second period
\* nothing is made through the lower site, and the upper one has one candidate.
EXTENDS SglSrc

TwoSites   == {"part", "bom"}
TwoCands   == [s \in TwoSites |-> 2]
TwoPeriods == {0, 1}
Heights    == [s \in TwoSites |-> IF s = "part" THEN 3 ELSE 2]

SomeEligible ==
  [x \in TwoSites \X TwoPeriods |->
     IF x[2] = 0 THEN {1, 2} ELSE IF x[1] = "part" THEN {1} ELSE {}]
=============================================================================
