------------------------------ MODULE FindMandECs ------------------------------
(***************************************************************************)
(* WitPreprocessor::findMandECs (Pre.C): the three passes that decide in   *)
(* which periods a mandatory engineering change (EC) forbids to keep a     *)
(* material in stock.  BomNetwork has their result for one network; here   *)
(* they are steps, for every choice of the changes, so that what is marked *)
(* can be compared with what the comment before findMandECs defines.       *)
(*                                                                         *)
(* The windows of the entries with a mandatory EC are chosen initially; an *)
(* entry is in effect within its window only.  No earliestPeriod lies      *)
(* beyond the last period (such an entry is never in effect).              *)
(***************************************************************************)
EXTENDS Integers, Sequences, SequencesExt

CONSTANTS
  NPeriods, Materials, Capacities, SortedParts, Operations, SortedOpns,
  BomEntries, SubEntries, BopEntries, Bom, Subs, Bop, OpnOf, PartOf, Rate,
  ExpAllowed, NetAllowed, Producing, EcEntries,
  RawImpact   \* impact periods, but for the windows of EcEntries

ASSUME ListsAssumption ==
  /\ NPeriods \in Nat \ {0}
  /\ SortedOpns \in Seq(Operations) /\ ToSet(SortedOpns) = Operations
  /\ Bom \in [Operations -> Seq(BomEntries)]
  /\ Bop \in [Operations -> Seq(BopEntries)]
  /\ Subs \in [BomEntries -> Seq(SubEntries)]
  /\ RawImpact \in [BomEntries \cup SubEntries \cup BopEntries ->
                      [0..(NPeriods - 1) -> -1..(NPeriods - 1)]]
  /\ EcEntries \subseteq BomEntries

\* An entry is in the list of what it belongs to, and in no other: its
\* constructor inserts it there.
ASSUME OwnersAssumption ==
  /\ \A o \in Operations : \A e \in ToSet(Bom[o]) \cup ToSet(Bop[o]) : OpnOf[e] = o
  /\ \A b \in BomEntries : /\ OpnOf[b] \in Operations
                            /\ b \in ToSet(Bom[OpnOf[b]])
                            /\ \A s \in ToSet(Subs[b]) : OpnOf[s] = OpnOf[b]
  /\ \A s \in SubEntries : \E b \in BomEntries : s \in ToSet(Subs[b])

VARIABLES
  window,  \* window[b]: earliestPeriod and latestPeriod of an entry with mandEC
  marks,   \* the pairs <<material, period>> with mandEC
  pass,    \* "direct", "bom", "sub" or "done"
  idx      \* the entries of the pass that have been scanned

vars == <<window, marks, pass, idx>>

From(b) == IF b \in EcEntries THEN window[b].from ELSE 0
To(b)   == IF b \in EcEntries THEN window[b].to   ELSE NPeriods - 1

\* An entry is in effect within its window, and a substitute only when its
\* BOM entry is.
ReplacedBy(e) == {b \in BomEntries : e \in ToSet(Subs[b])}

Impact ==
  [e \in BomEntries \cup SubEntries \cup BopEntries |->
    [t \in 0..(NPeriods - 1) |->
       IF \E b \in EcEntries \cap ({e} \cup ReplacedBy(e)) : t \notin From(b)..To(b)
       THEN -1 ELSE RawImpact[e][t]]]

INSTANCE BomNetwork WITH
  Earliest <- [b \in BomEntries |-> From(b)],
  Latest   <- [b \in BomEntries |-> To(b)]

Init ==
  /\ window \in [EcEntries -> [from : Periods, to : Periods]]
  /\ marks = {}
  /\ pass = "direct"
  /\ idx = 0

\* The end of a scan of one entry of the sequence order.
Scan(order, found, nextPass) ==
  /\ idx < Len(order)
  /\ marks' = marks \cup found
  /\ IF idx + 1 = Len(order) THEN idx' = 0 /\ pass' = nextPass
                             ELSE idx' = idx + 1 /\ pass' = pass
  /\ UNCHANGED window

SetDirectMandECs(b) ==
  /\ pass = "direct"
  /\ b = BomOrder[idx + 1]
  /\ Scan(BomOrder, IF b \in EcEntries THEN DirectMarks(b) ELSE {}, "bom")

PropBomMandECs(b) ==
  /\ pass = "bom"
  /\ b = BomOrder[idx + 1]
  /\ Scan(BomOrder, PropMarks(b, marks), "sub")

PropSubMandECs(s) ==
  /\ pass = "sub"
  /\ idx < Len(SubOrder)
  /\ s = SubOrder[idx + 1]
  /\ Scan(SubOrder, PropMarks(s, marks), "done")

Next == \/ \E b \in BomEntries : SetDirectMandECs(b) \/ PropBomMandECs(b)
        \/ \E s \in SubEntries : PropSubMandECs(s)

Spec == Init /\ [][Next]_vars

------------------------------------------------------------------------------
(***************************************************************************)
(* What the propagation relies on.                                         *)
(***************************************************************************)

\* The operations are sorted when findMandECs scans them: no entry makes what
\* an entry scanned before it, or itself, has consumed.  (Sorting follows the
\* explosion of a part into what it is made from; a by-product that is not
\* expAllowed may break it.)
SortedBills ==
  /\ \A j \in DOMAIN BomOrder : \A e \in ToSet(Bop[OpnOf[BomOrder[j]]]), i \in 1..j :
        PartOf[e] # PartOf[BomOrder[i]]
  /\ \A j \in DOMAIN SubOrder : \A e \in ToSet(Bop[OpnOf[SubOrder[j]]]), i \in 1..j :
        PartOf[e] # PartOf[SubOrder[i]]

\* "The propagation logic implicitly assumes that the impact periods of the
\* BopEntries are a non-decreasing function of the exec periods."
MonotoneImpacts ==
  \A e \in BopEntries, t, u \in Periods :
     t <= u /\ RawImpact[e][t] >= 0 /\ RawImpact[e][u] >= 0
     => RawImpact[e][t] <= RawImpact[e][u]

------------------------------------------------------------------------------
(***************************************************************************)
(* What the comment before findMandECs says.                               *)
(***************************************************************************)

ConsOf(o) == LET boms == ToSet(Bom[o])
             IN  boms \cup UNION {ToSet(Subs[b]) : b \in boms}

\* The direct case: a BOM entry of operation o has a mandatory EC.
DirectlyIncurs(o, u) ==
  /\ u # NPeriods - 1
  /\ \E b \in ToSet(Bom[o]) \cap EcEntries : u = From(b) - 1 \/ u = To(b)

\* The last period in which entry c can consume by period t; -1 if none.
LastExec(c, t) ==
  Max({-1} \cup {u \in Periods : InEffect(c, u) /\ Impact[c][u] <= t})

\* The propagated case: operation o consumes a material with an EC.
IncursFrom(cons, o, u) ==
  \E c \in cons \cap ConsOf(o), t \in Periods :
     <<PartOf[c], t>> \in marks /\ u = LastExec(c, t)

Incurs(o, u) == DirectlyIncurs(o, u) \/ IncursFrom(BomEntries \cup SubEntries, o, u)

\* No material is marked without a reason: some operation that makes it
\* incurs an EC in the period in which it makes it.
MarksAreJustified ==
  \A mark \in marks :
    \E e \in BopEntries, u \in Periods :
       /\ PartOf[e] = mark[1]
       /\ Impact[e][u] = mark[2]
       /\ Incurs(OpnOf[e], u)

\* The comment's "iff": in the end every operation that incurs an EC has
\* marked what it makes (the last period, from which nothing is carried over,
\* set aside).
MarksAreComplete ==
  pass = "done" =>
    \A o \in Operations, u \in 0..(NPeriods - 2) :
       Incurs(o, u) => MarksOf(o, u) \subseteq marks

\* What the propagation is for: material that is obsolete after period t is
\* not kept beyond t by making a product of it early.  A product that may
\* have been made of it cannot be kept past the last period in which it can
\* be made of it.
NotStockedVia(cons) ==
  \A c \in cons, t \in Periods :
    <<PartOf[c], t>> \in marks /\ LastExec(c, t) >= 0 =>
      \A e \in ToSet(Bop[OpnOf[c]]), u \in 0..LastExec(c, t) :
         /\ PartOf[e] \in Materials
         /\ InEffect(e, LastExec(c, t))
         /\ InEffect(c, u) /\ InEffect(e, u)
         => \E v \in Impact[e][u]..Impact[e][LastExec(c, t)] :
               <<PartOf[e], v>> \in marks

\* This holds of the BOM entries when they have been scanned, and of the
\* substitutes in the end.
NoObsoleteStock ==
  /\ pass = "sub" /\ idx = 0 => NotStockedVia(BomEntries)
  /\ pass = "done"           => NotStockedVia(SubEntries)
=============================================================================
