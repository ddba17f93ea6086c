------------------------------ MODULE MCImplode ------------------------------
\* Three demands and three periods: "a" may be shipped late by one period, "b"
\* by two, "c" not at all.
EXTENDS HeurImplode

Vec(x, y, z) == [t \in Periods |-> IF t = 0 THEN x ELSE IF t = 1 THEN y ELSE z]

McMappingIndex == [a |-> 0, b |-> 1, c |-> 2]
McShipLateUB == [a |-> Vec(1, 1, 1), b |-> Vec(2, 2, 2), c |-> Vec(2, 2, 2)]
McSearchInc  == [a |-> 1, b |-> 2, c |-> 1]

McDemandVols ==
  {[a |-> Vec(3, 1, 2), b |-> Vec(4, 0, 1), c |-> Vec(2, 2, 1)],
   [a |-> Vec(2, 0, 2), b |-> Vec(2, 3, 0), c |-> Vec(3, 0, 2)]}

\* All equal; changing from period to period and back; with zeros.
McPriorities ==
  {[a |-> Vec(1, 1, 1), b |-> Vec(1, 1, 1), c |-> Vec(1, 1, 1)],
   [a |-> Vec(2, 1, 2), b |-> Vec(1, 2, 1), c |-> Vec(1, 1, 1)],
   [a |-> Vec(0, 1, 1), b |-> Vec(2, 0, 0), c |-> Vec(2, 1, 1)]}

\* Short of what is demanded, and more than it.
McSupplies == {Vec(3, 2, 1), Vec(6, 5, 6)}

McUserStarts ==
  {[a |-> Vec(1, 0, 0), b |-> Vec(0, 1, 0), c |-> Vec(1, 0, 1)],
   [a |-> Vec(0, 2, 0), b |-> Vec(1, 0, 1), c |-> Vec(0, 0, 0)]}

Target(d, t, v) == [demand |-> d, per |-> t, vol |-> v]

\* A demand twice, in an order that is not that of the periods; a target that
\* is not significant.
McLists ==
  {<<Target("b", 1, 3), Target("a", 0, 3), Target("b", 0, 2)>>,
   <<Target("c", 1, 5), Target("a", 1, 0)>>}
==============================================================================
