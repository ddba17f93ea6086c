------------------------------ MODULE MCRealloc ------------------------------
(***************************************************************************)
(* An instance with unconditional stock reallocation of both products, an  *)
(* engineering change and a gap in the periods in which C can be made:     *)
(*                                                                         *)
(*   makeP:  1 O in period 0 (mandatory EC), 1 C from period 1  ->  1 P    *)
(*   makeC:  1 A and 1 K, in periods 0 and 1 only               ->  1 C    *)
(*                                                                         *)
(* P made in period 0 may not be kept, C needed in period 2 is made        *)
(* earlier, and stock that a later requirement depends on is given to an   *)
(* earlier one.                                                            *)
(***************************************************************************)
EXTENDS MCHeur

McSortedParts == <<"K", "A", "O", "C", "P">>
McSortedOpns  == <<"makeC", "makeP">>

McBom  == [makeC |-> <<"cA", "cK">>, makeP |-> <<"pO", "pC">>]
McSubs == [b \in BomEntries |-> <<>>]
McBop  == [makeC |-> <<"outC">>, makeP |-> <<"outP">>]

McOpnOf == [cA |-> "makeC", cK |-> "makeC", outC |-> "makeC",
            pO |-> "makeP", pC |-> "makeP", outP |-> "makeP"]
McPartOf == [cA |-> "A", cK |-> "K", outC |-> "C",
             pO |-> "O", pC |-> "C", outP |-> "P"]

McImpact == [cA |-> Within(0, 1), cK |-> Within(0, 1), outC |-> Within(0, 1),
             pO |-> Within(0, 0), pC |-> Within(1, 3), outP |-> SamePer]
McRate == [e \in Entries |-> 1]
McEarliest == [cA |-> 0, cK |-> 0, pO |-> 0, pC |-> 1]
McLatest   == [cA |-> 3, cK |-> 3, pO |-> 0, pC |-> 3]

McProducing == [K |-> <<>>, A |-> <<>>, O |-> <<>>, C |-> <<"outC">>,
                P |-> <<"outP">>]

McDemandedPart == [dP |-> "P", dC |-> "C"]
McSearchInc    == [dP |-> 1, dC |-> 1]

McSupplies ==
  {[K |-> Vec(<<1, 2, 0>>), A |-> Vec(<<1, 1, 0>>), O |-> Vec(<<1, 0>>),
    C |-> Vec(c), P |-> Vec(p)] : c \in {<<2, 0>>, <<0, 1, 0>>},
                                  p \in {<<1, 0>>, <<0, 1, 0>>}}
McDemandVols == {[dP |-> Vec(<<1, 1, 1, 0>>), dC |-> Vec(<<1, 0, 1, 1>>)]}
=============================================================================
