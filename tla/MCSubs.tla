-------------------------------- MODULE MCSubs --------------------------------
(***************************************************************************)
(* An instance with a capacity, a substitute that is netted, a by-product  *)
(* that another operation uses as a substitute, and a lead time:           *)
(*                                                                         *)
(*   makeP:  1 K, 1 C (or 1 S instead)  ->  1 P                            *)
(*   makeC:  1 A, one period earlier    ->  1 C and 1 S                    *)
(*                                                                         *)
(* In the last period makeP can also do without C: what it uses instead    *)
(* leaves one S behind (a substitute with a negative rate).                *)
(***************************************************************************)
EXTENDS MCHeur

McSortedParts == <<"K", "A", "S", "C", "P">>
McSortedOpns  == <<"makeC", "makeP">>

McBom  == [makeC |-> <<"cA">>, makeP |-> <<"pK", "pC">>]
McSubs == [cA |-> <<>>, pK |-> <<>>, pC |-> <<"pS", "pN">>]
McBop  == [makeC |-> <<"outC", "outS">>, makeP |-> <<"outP">>]

McOpnOf == [cA |-> "makeC", outC |-> "makeC", outS |-> "makeC",
            pK |-> "makeP", pC |-> "makeP", pS |-> "makeP", pN |-> "makeP",
            outP |-> "makeP"]
McPartOf == [cA |-> "A", outC |-> "C", outS |-> "S",
             pK |-> "K", pC |-> "C", pS |-> "S", pN |-> "S", outP |-> "P"]

McImpact == [cA |-> [t \in Periods |-> t - 1],
             outC |-> Within(1, 2), outS |-> Within(1, 2),
             pK |-> SamePer, pC |-> SamePer, pS |-> SamePer,
             pN |-> Within(2, 2), outP |-> SamePer]
McRate == [e \in Entries |-> IF e = "pN" THEN -1 ELSE 1]

McProducing == [K |-> <<>>, A |-> <<>>, S |-> <<>>, C |-> <<"outC">>,
                P |-> <<"outP">>]

McDemandedPart == [dP |-> "P", dC |-> "C"]
McSearchInc    == [dP |-> 1, dC |-> 1]

\* Stock to be kept, and build-ahead by demand: dP is served from the latest
\* period back, dC from the earliest on.
McStockSLB     == [A |-> Zeros, S |-> Zeros, C |-> Zeros,
                   P |-> Vec(<<0, 1, 0>>)]
McBuildAheadUB == [dP |-> Vec(<<0, 1, 2>>), dC |-> Vec(<<0, 1, 1>>)]

McSupplies ==
  {[K |-> Vec(<<1, k, 2>>), A |-> Vec(<<1, 1, 0>>), S |-> Vec(<<0, s, 0>>),
    C |-> Zeros, P |-> Zeros] : k \in {1, 2}, s \in {0, 1}}
McDemandVols == {[dP |-> Vec(<<1>>), dC |-> Vec(<<0, 1, 1>>)]}
=============================================================================
