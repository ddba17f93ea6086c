------------------------------- MODULE MCMandECs -------------------------------
(***************************************************************************)
(* Four operations, one of which can use a substitute, with lead times:    *)
(*                                                                         *)
(*   makeB:  1 A  ->  1 B                                                  *)
(*   makeN:  1 A  ->  1 N                                                  *)
(*   makeC:  1 B (or 1 N instead), one period earlier  ->  1 C             *)
(*   makeP:  1 C, not in period 2  ->  1 P                                 *)
(*                                                                         *)
(* The entries of A and of B may have a mandatory EC, with any window.     *)
(***************************************************************************)
EXTENDS FindMandECs

McSortedParts == <<"A", "B", "N", "C", "P">>
McSortedOpns  == <<"makeB", "makeN", "makeC", "makeP">>

McBom == [makeB |-> <<"bA">>, makeN |-> <<"nA">>, makeC |-> <<"cB">>,
          makeP |-> <<"pC">>]
McSubs == [bA |-> <<>>, nA |-> <<>>, cB |-> <<"cN">>, pC |-> <<>>]
McBop == [makeB |-> <<"outB">>, makeN |-> <<"outN">>, makeC |-> <<"outC">>,
          makeP |-> <<"outP">>]

McOpnOf == [bA |-> "makeB", outB |-> "makeB", nA |-> "makeN", outN |-> "makeN",
            cB |-> "makeC", cN |-> "makeC", outC |-> "makeC",
            pC |-> "makeP", outP |-> "makeP"]
McPartOf == [bA |-> "A", outB |-> "B", nA |-> "A", outN |-> "N", cB |-> "B",
             cN |-> "N", outC |-> "C", pC |-> "C", outP |-> "P"]

Same    == [t \in 0..(NPeriods - 1) |-> t]
Earlier == [t \in 0..(NPeriods - 1) |-> t - 1]
NotIn0  == [Same EXCEPT ![0] = -1]
NotIn2  == [Same EXCEPT ![2] = -1]

McRawImpact ==
  [bA |-> Same, outB |-> Same, nA |-> Same, outN |-> Same, cB |-> Earlier,
   cN |-> Earlier, outC |-> NotIn0, pC |-> NotIn2, outP |-> NotIn2]
McRate == [e \in BomEntries \cup SubEntries \cup BopEntries |-> 1]
McProducing == [A |-> <<>>, B |-> <<"outB">>, N |-> <<"outN">>,
                C |-> <<"outC">>, P |-> <<"outP">>]

\* The hypotheses of the theorem ObsoleteStockIsPrevented.
ASSUME NetworkIsOrderly == SortedBills /\ MonotoneImpacts
=============================================================================
