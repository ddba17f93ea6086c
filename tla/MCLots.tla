-------------------------------- MODULE MCLots --------------------------------
(***************************************************************************)
(* An instance with lot sizes, execution bounds, search increments of two, *)
(* negative consumption and a substitute whose rate is negative:           *)
(*                                                                         *)
(*   makeP:  1 C, 1 X (or its substitute, a by-product W)  ->  1 P         *)
(*   makeC:  1 A, and one W comes out by negative consumption  ->  1 C     *)
(*                                                                         *)
(* makeP has two-level lot sizes and makeC simple ones; a requirement may  *)
(* be made in excess, and what is left over serves later calls.            *)
(***************************************************************************)
EXTENDS MCHeur, HeurModifier

McSortedParts == <<"A", "X", "W", "C", "P">>
McSortedOpns  == <<"makeC", "makeP">>

McBom  == [makeC |-> <<"cA", "cW">>, makeP |-> <<"pX", "pC">>]
McSubs == [cA |-> <<>>, cW |-> <<>>, pC |-> <<>>, pX |-> <<"subX", "subW">>]
McBop  == [makeC |-> <<"outC">>, makeP |-> <<"outP">>]

McOpnOf == [cA |-> "makeC", cW |-> "makeC", outC |-> "makeC",
            pX |-> "makeP", pC |-> "makeP", subX |-> "makeP",
            subW |-> "makeP", outP |-> "makeP"]
McPartOf == [cA |-> "A", cW |-> "W", outC |-> "C", pX |-> "X", pC |-> "C",
             subX |-> "C", subW |-> "W", outP |-> "P"]

\* makeC cannot be executed in the last period.
McImpact ==
  [e \in Entries |-> IF e = "subX" THEN Within(1, 1)
                     ELSE IF OpnOf[e] = "makeC" THEN Within(0, 0) ELSE SamePer]
McExecutable == (Operations \X Periods) \ {<<"makeC", 1>>}
McChanges    == {-1, 2}
McRate == [e \in Entries |-> IF e \in {"cW", "subW"} THEN -1 ELSE 1]

McProducing == [A |-> <<>>, X |-> <<>>, W |-> <<>>, C |-> <<"outC">>,
                P |-> <<"outP">>]

McDemandedPart == [dP |-> "P", dW |-> "W"]
McSearchInc    == [dP |-> 2, dW |-> 1]
McExecUB       == [makeC |-> 5, makeP |-> 5]
McLotSizes ==
  [makeC |-> [NoLots EXCEPT !.min = 1, !.inc = 2],
   makeP |-> [min |-> 1, inc |-> 2, thresh2 |-> 3, min2 |-> 4, inc2 |-> 2]]

\* Stock to be kept of two materials, in one period each.
McStockSLB == [A |-> Zeros, X |-> Zeros, W |-> Vec(<<0, 1>>),
               C |-> Vec(<<2, 0>>), P |-> Zeros]

McSupplies ==
  {[A |-> Vec(x[1]), X |-> Vec(x[2]), W |-> Zeros, C |-> Vec(<<0, 1>>),
    P |-> Zeros] : x \in {<<<<6, 2>>, <<2, 1>>>>, <<<<3, 3>>, <<0, 1>>>>}}
McDemandVols == {[dP |-> Vec(<<3, 4>>), dW |-> Vec(<<1, 2>>)]}
=============================================================================
