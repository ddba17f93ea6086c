------------------------------ MODULE BomNetwork ------------------------------
(***************************************************************************)
(* The production network of a problem, as heuristic allocation sees it    *)
(* after WitPreprocessor::preprocess: parts (materials, which can be kept  *)
(* in stock from one period to the next, and capacities, which cannot),    *)
(* operations that make parts from parts, the entries of their bills, and  *)
(* the tables that the preprocessor derives from them.                     *)
(*                                                                         *)
(* Input data are constants; derived tables are definitions.  An entry is  *)
(* in effect in an execution period iff its impact period is not -1.       *)
(***************************************************************************)
EXTENDS Integers, Sequences, SequencesExt

CONSTANTS
  NPeriods,    \* nPeriods ()
  Materials,
  Capacities,
  SortedParts, \* all parts, in the order of sortedPartIndex: a part comes
               \* after every part that it can be made from
  Operations,
  SortedOpns,  \* the operations in the order of forEachOperation
  BomEntries,
  SubEntries,  \* substitutes for BOM entries
  BopEntries,
  Bom,         \* Bom[o]: the BOM entries of operation o, in order
  Subs,        \* Subs[b]: the substitutes of BOM entry b, in order
  Bop,         \* Bop[o]: the BOP entries of operation o, in order
  OpnOf,       \* the operation of an entry
  PartOf,      \* the part consumed or produced by an entry
  Impact,      \* Impact[e][t]: impactPeriod ()[t] of entry e
  Rate,        \* effConsRate or effProdRate of an entry
  ExpAllowed,  \* the BOP entries with expAllowed
  NetAllowed,  \* the substitutes with netAllowed
  Producing,   \* Producing[p]: producingBopEntries (), sorted by aversion
  EcEntries,   \* the BOM entries with mandEC
  Earliest,    \* earliestPeriod () of a BOM entry
  Latest       \* latestPeriod () of a BOM entry

Parts   == Materials \cup Capacities
Periods == 0..(NPeriods - 1)
Entries == BomEntries \cup SubEntries \cup BopEntries

ASSUME PeriodsAssumption == NPeriods \in Nat \ {0}

ASSUME PartsAssumption ==
  /\ Materials \cap Capacities = {}
  /\ SortedParts \in Seq(Parts)
  /\ ToSet(SortedParts) = Parts

ASSUME BillsAssumption ==
  /\ Bom \in [Operations -> Seq(BomEntries)]
  /\ Bop \in [Operations -> Seq(BopEntries)]
  /\ Subs \in [BomEntries -> Seq(SubEntries)]
  /\ OpnOf \in [Entries -> Operations]
  /\ PartOf \in [Entries -> Parts]
  /\ Impact \in [Entries -> [Periods -> Periods \cup {-1}]]
  /\ Rate \in [Entries -> Int]
  /\ Producing \in [Parts -> Seq(BopEntries)]
  /\ ExpAllowed \subseteq BopEntries
  /\ NetAllowed \subseteq SubEntries
  /\ EcEntries \subseteq BomEntries
  /\ Earliest \in [BomEntries -> 0..NPeriods]
  /\ Latest \in [BomEntries -> 0..(NPeriods - 1)]

\* WitBopEntry: an entry is inserted into both the operation and the part.
ASSUME ProducersAssumption ==
  \A p \in Parts : \A e \in ToSet(Producing[p]) :
     PartOf[e] = p /\ e \in ToSet(Bop[OpnOf[e]])

\* The constructors of the entries: an entry is of one kind and is in the
\* list of what it belongs to, once, and in no other.  The setter of
\* productRate refuses negative values.
ASSUME EntriesAssumption ==
  /\ IsFiniteSet(Entries)
  /\ BomEntries \cap SubEntries = {} /\ (BomEntries \cup SubEntries) \cap BopEntries = {}
  /\ \A b \in BomEntries : b \in ToSet(Bom[OpnOf[b]])
  /\ \A e \in BopEntries : e \in ToSet(Bop[OpnOf[e]]) /\ Rate[e] >= 0
  /\ \A o \in Operations :
       /\ IsInjective(Bom[o]) /\ IsInjective(Bop[o])
       /\ \A e \in ToSet(Bom[o]) \cup ToSet(Bop[o]) : OpnOf[e] = o
  /\ \A b \in BomEntries :
       /\ IsInjective(Subs[b])
       /\ \A s \in ToSet(Subs[b]) : OpnOf[s] = OpnOf[b]
       /\ \A c \in BomEntries : c # b => ToSet(Subs[b]) \cap ToSet(Subs[c]) = {}

\* No operation produces what it consumes: propMandECs may then read the
\* marks of the consumed material once for the whole scan.
ASSUME NoSelfFeedAssumption ==
  \A c \in BomEntries \cup SubEntries :
     \A e \in ToSet(Bop[OpnOf[c]]) : PartOf[e] # PartOf[c]

\* The parts that a part may be made from, by entries with expAllowed.
MadeFrom(p) ==
  LET opns == {OpnOf[e] : e \in ToSet(Producing[p]) \cap ExpAllowed}
      boms == UNION {ToSet(Bom[o]) : o \in opns}
      cons == boms \cup UNION {ToSet(Subs[b]) : b \in boms}
  IN  {PartOf[c] : c \in cons}

\* WitNodeSorter: every part is listed once, after what it is made from.
ASSUME OrderAssumption ==
  \A i, j \in DOMAIN SortedParts :
     /\ SortedParts[i] = SortedParts[j] => i = j
     /\ SortedParts[j] \in MadeFrom(SortedParts[i]) => j < i

InEffect(e, t) == Impact[e][t] >= 0

HasSubsToNet(b) == \E i \in DOMAIN Subs[b] : Subs[b][i] \in NetAllowed

------------------------------------------------------------------------------
(***************************************************************************)
(* Which BOP entry is exploded to make a part, and when.                   *)
(***************************************************************************)

\* expExecPeriod ()[t]: the last period in which the operation of an
\* explodeable BOP entry is executed to produce in period t; -1 if none.
ExpExecPeriod ==
  [e \in BopEntries |->
    [t \in Periods |->
       LET execPers == {u \in Periods : e \in ExpAllowed /\ Impact[e][u] = t
                                        /\ Rate[e] > 0}
       IN  IF execPers = {} THEN -1 ELSE Max(execPers)]]

NoEntry == "none"   \* a null pointer

ASSUME NoEntryAssumption == NoEntry \notin BopEntries

\* expBopEntry ()[t]: the least averse producing entry that can be used.
ExpBopEntry ==
  [p \in Parts |->
    [t \in Periods |->
       LET usable == {i \in DOMAIN Producing[p] :
                        ExpExecPeriod[Producing[p][i]][t] >= 0}
       IN  IF usable = {} THEN NoEntry ELSE Producing[p][Min(usable)]]]

Explodeable(p, t) == ExpBopEntry[p][t] # NoEntry

------------------------------------------------------------------------------
(***************************************************************************)
(* Mandatory engineering changes (findMandECs): the periods in which a     *)
(* material may not be carried over to the next period.  The table is      *)
(* built in three passes over the bills; each pass reads what the passes   *)
(* before it, and its own earlier steps, have marked.                      *)
(***************************************************************************)

\* The marks that an EC of operation o in period t puts on its products.
MarksOf(o, t) ==
  {<<PartOf[e], Impact[e][t]>> :
     e \in {f \in ToSet(Bop[o]) : PartOf[f] \in Materials /\ InEffect(f, t)}}

\* Mutant: the first period of the window is marked, not the last before it.
DirectMarksLate(b) ==
  LET before == IF Earliest[b] > 0 THEN {Earliest[b]} ELSE {}
      after  == IF Latest[b] < NPeriods - 1 THEN {Latest[b]} ELSE {}
  IN  UNION {MarksOf(OpnOf[b], t) : t \in (before \cup after) \cap Periods}

\* setDirectMandECs, for an entry that has a mandEC.
DirectMarks(b) ==
  LET before == IF Earliest[b] > 0 THEN {Earliest[b] - 1} ELSE {}
      after  == IF Latest[b] < NPeriods - 1 THEN {Latest[b]} ELSE {}
  IN  UNION {MarksOf(OpnOf[b], t) : t \in before \cup after}

\* Mutant: consumption in the marked period itself is passed over.
PropMarksBefore(c, marks) ==
  LET m == PartOf[c]
      hit(t) == {u \in Periods : InEffect(c, u) /\ Impact[c][u] < t}
      last == {<<t, Max(hit(t))>> : t \in {u \in Periods : <<m, u>> \in marks
                                                          /\ hit(u) # {}}}
  IN  UNION {MarksOf(OpnOf[c], x[2]) : x \in last}

\* propMandECs: for each marked period of the consumed material, latest
\* first, the scan "for (; execPer >= 0; -- execPer)" goes on from where it
\* stopped, to the last period in which that material can be consumed.
PropMarks(c, marks) ==
  LET m == PartOf[c]
      hit(t) == {u \in Periods : InEffect(c, u) /\ Impact[c][u] <= t}
      from[t \in Periods] ==    \* execPer after the iteration for period t
        LET start == IF t = NPeriods - 1 THEN NPeriods - 1 ELSE from[t + 1]
            found == {u \in hit(t) : u <= start}
        IN  IF <<m, t>> \notin marks THEN start
            ELSE IF found = {} THEN -1 ELSE Max(found)
  IN  IF m \notin Materials THEN {}
      ELSE UNION {MarksOf(OpnOf[c], from[t]) :
                    t \in {u \in Periods : <<m, u>> \in marks /\ from[u] >= 0}}

\* The order of forEachBomEntry and forEachSubEntry.
BomOrder == FlattenSeq([i \in DOMAIN SortedOpns |-> Bom[SortedOpns[i]]])
SubOrder == FlattenSeq([i \in DOMAIN BomOrder |-> Subs[BomOrder[i]]])

MandECMarks ==
  LET direct == UNION {DirectMarks(b) : b \in EcEntries}
      order  == BomOrder \o SubOrder
      after[i \in 0..Len(order)] ==
        IF i = 0 THEN direct
        ELSE after[i - 1] \cup PropMarks(order[i], after[i - 1])
  IN  after[Len(order)]

MandEC == [m \in Materials |-> [t \in Periods |-> <<m, t>> \in MandECMarks]]

CanStock(p, t) == p \in Materials /\ ~MandEC[p][t]

------------------------------------------------------------------------------
(***************************************************************************)
(* The period in which a part is exploded to fill a requirement in fillPer *)
(* and the parts that may be required below a part.                        *)
(***************************************************************************)

ExpPerGaps(p) ==
  /\ p \in Materials
  /\ \E t \in 1..(NPeriods - 1) : /\ ~Explodeable(p, t)
                                  /\ Explodeable(p, t - 1)
                                  /\ CanStock(p, t - 1)

\* Material::findExplosionPeriod: the nearest explodeable period, at or
\* before fillPer, from which the part can be kept until fillPer.
ExplosionPeriod ==
  [p \in Parts |->
    [fillPer \in Periods |->
       LET reach == {t \in 0..fillPer :
                       /\ Explodeable(p, t)
                       /\ \A u \in t..(fillPer - 1) : CanStock(p, u)}
       IN  IF ExpPerGaps(p) /\ reach # {} THEN Max(reach) ELSE fillPer]]

\* BelowLister::buildBelow: the part itself and whatever the explosion of
\* its producing entries may require, consumers before what they consume.
Below ==
  LET below[i \in 0..Len(SortedParts)] ==
        IF i = 0 THEN <<>>
        ELSE LET p == SortedParts[i]
                 listOf(q) == UNION {below[i - 1][j] :
                                j \in {k \in 1..(i - 1) : SortedParts[k] = q}}
             IN  Append(below[i - 1],
                        {p} \cup UNION {listOf(q) : q \in MadeFrom(p)})
  IN  [p \in Parts |-> below[Len(SortedParts)]
                         [CHOOSE i \in DOMAIN SortedParts : SortedParts[i] = p]]

\* Mutant: the order is that of sortedPartIndex, not its reverse.
BelowListUpward ==
  [p \in Parts |->
     LET upTo[i \in 0..Len(SortedParts)] ==
           IF i = 0 THEN <<>>
           ELSE IF SortedParts[i] \in Below[p]
                THEN Append(upTo[i - 1], SortedParts[i]) ELSE upTo[i - 1]
     IN  upTo[Len(SortedParts)]]

\* The list of a part, sorted by decreasing sortedPartIndex.
BelowList ==
  [p \in Parts |->
     LET upTo[i \in 0..Len(SortedParts)] ==
           IF i = 0 THEN <<>>
           ELSE IF SortedParts[i] \in Below[p]
                THEN <<SortedParts[i]>> \o upTo[i - 1] ELSE upTo[i - 1]
     IN  upTo[Len(SortedParts)]]
=============================================================================
