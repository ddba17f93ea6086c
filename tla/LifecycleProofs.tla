---------------------------- MODULE LifecycleProofs ----------------------------
(***************************************************************************)
(* Proofs about Lifecycle, for every set of API functions that an          *)
(* application uses and every sequence of calls.                           *)
(*                                                                         *)
(* The calls between the parts of the problem are operators on the state   *)
(* of the run.  A lemma on each of them says what it makes of the fields   *)
(* that it changes and that it leaves the others alone; the lemmas on the  *)
(* API functions follow from these, without looking into the operators.    *)
(***************************************************************************)
EXTENDS Lifecycle, TLAPS

Fields ==
  {"preprocessed", "tables", "postprocessed", "results", "pip", "fss",
   "variant", "author", "heur", "mods", "pegs", "eqActive",
   "op", "accelerated", "init", "extOptActive", "extOptMgr",
   "optInitMethod", "accAfterOptImp", "accAfterSoftLB", "gap",
   "modHeurAlloc", "perfPegging", "ok"}

\* v is w but for the fields that are named.
Same(v, w, changed) == \A f \in Fields \ changed : v[f] = w[f]

AtorFields    == {"heur", "mods", "pegs", "eqActive"}
SolnFields    == AtorFields \cup {"postprocessed", "pip", "fss", "variant"}
TableFields   == {"preprocessed", "tables"}
OptimumFields == {"op", "accelerated", "optInitMethod"}

\* Nothing rests on a solution.
Cleared(w) ==
  ~w.heur /\ ~w.eqActive /\ ~w.postprocessed /\ ~w.pip /\ ~w.fss

\* What rests on an allocation or on postprocessing goes with it.
Tidy(w) == (w.pip \/ w.fss => w.postprocessed) /\ (w.eqActive => w.heur)

\* The tables of v are present if those of w were, when there are any.
TablesKept(v, w) == v.preprocessed /\ ((w.preprocessed => w.tables) => v.tables)

-------------------------------------------------------------------------------
\* The calls between the parts of the problem.

LEMMA HeurResetFacts ==
  ASSUME NEW w \in RunRec, w.eqActive => w.heur
  PROVE  /\ HeurReset(w) \in RunRec
         /\ ~HeurReset(w).heur /\ ~HeurReset(w).eqActive
         /\ Same(HeurReset(w), w, AtorFields)
<1> DEFINE v == [w EXCEPT !.heur = FALSE, !.mods = FALSE, !.pegs = FALSE,
                          !.eqActive = FALSE]
<1>1. v \in RunRec
  BY DEF RunRec
<1>2. ~v.heur /\ ~v.eqActive
  BY DEF RunRec
<1>3. Same(v, w, AtorFields)
  BY DEF RunRec, Same, Fields, AtorFields
<1>4. CASE w.heur
  BY <1>1, <1>2, <1>3, <1>4 DEF HeurReset
<1>5. CASE ~w.heur
  BY <1>5 DEF HeurReset, Same
<1> QED
  BY <1>4, <1>5

LEMMA UnpostprocessFacts ==
  ASSUME NEW w \in RunRec, w.pip \/ w.fss => w.postprocessed
  PROVE  /\ Unpostprocess(w) \in RunRec
         /\ ~Unpostprocess(w).postprocessed
         /\ ~Unpostprocess(w).pip /\ ~Unpostprocess(w).fss
         /\ Same(Unpostprocess(w), w, {"postprocessed", "pip", "fss"})
<1> DEFINE v == [w EXCEPT !.postprocessed = FALSE, !.pip = FALSE, !.fss = FALSE]
<1>1. v \in RunRec
  BY DEF RunRec
<1>2. ~v.postprocessed /\ ~v.pip /\ ~v.fss
  BY DEF RunRec
<1>3. Same(v, w, {"postprocessed", "pip", "fss"})
  BY DEF RunRec, Same, Fields
<1>4. CASE w.postprocessed
  BY <1>1, <1>2, <1>3, <1>4 DEF Unpostprocess
<1>5. CASE ~w.postprocessed
  BY <1>5 DEF Unpostprocess, Same
<1> QED
  BY <1>4, <1>5

\* An assignment to the variant.
LEMMA VariantFacts ==
  ASSUME NEW w \in RunRec, NEW x \in Variants
  PROVE  /\ [w EXCEPT !.variant = x] \in RunRec
         /\ [w EXCEPT !.variant = x].variant = x
         /\ Same([w EXCEPT !.variant = x], w, {"variant"})
<1>1. [w EXCEPT !.variant = x] \in RunRec
  BY DEF RunRec
<1>2. [w EXCEPT !.variant = x].variant = x
  BY DEF RunRec
<1>3. Same([w EXCEPT !.variant = x], w, {"variant"})
  BY DEF RunRec, Same, Fields
<1> QED
  BY <1>1, <1>2, <1>3

LEMMA ResetSolnFacts ==
  ASSUME NEW w \in RunRec, Tidy(w)
  PROVE  /\ ResetSoln(w) \in RunRec
         /\ Cleared(ResetSoln(w))
         /\ ResetSoln(w).variant = "input"
         /\ Same(ResetSoln(w), w, SolnFields)
<1> DEFINE a == [w EXCEPT !.variant = "input"]
           b == Unpostprocess(a)
           c == HeurReset(b)
<1>1. a \in RunRec /\ a.variant = "input" /\ Same(a, w, {"variant"})
  BY VariantFacts DEF Variants
<1>2. ResetSoln(w) = c
  BY DEF ResetSoln
<1> HIDE DEF a
<1>3. a.pip \/ a.fss => a.postprocessed
  BY <1>1 DEF Tidy, Same, Fields
<1>4. /\ b \in RunRec /\ ~b.postprocessed /\ ~b.pip /\ ~b.fss
      /\ Same(b, a, {"postprocessed", "pip", "fss"})
  BY <1>1, <1>3, UnpostprocessFacts
<1> HIDE DEF b
<1>5. b.eqActive => b.heur
  BY <1>1, <1>4 DEF Tidy, Same, Fields
<1>6. /\ c \in RunRec /\ ~c.heur /\ ~c.eqActive
      /\ Same(c, b, AtorFields)
  BY <1>4, <1>5, HeurResetFacts
<1> HIDE DEF c
<1>7. Cleared(c) /\ c.variant = "input"
  BY <1>1, <1>4, <1>6 DEF Cleared, Same, Fields, AtorFields
<1>8. Same(c, w, SolnFields)
  BY <1>1, <1>4, <1>6 DEF Same, Fields, AtorFields, SolnFields
<1> QED
  BY <1>2, <1>6, <1>7, <1>8

LEMMA MakeCurrentFacts ==
  ASSUME NEW w \in RunRec, Tidy(w), NEW x \in Variants
  PROVE  /\ MakeCurrent(w, x) \in RunRec
         /\ Cleared(MakeCurrent(w, x))
         /\ MakeCurrent(w, x).variant = x
         /\ Same(MakeCurrent(w, x), w, SolnFields)
<1> DEFINE a == ResetSoln(w)
           b == [a EXCEPT !.variant = x]
<1>1. MakeCurrent(w, x) = b
  BY DEF MakeCurrent
<1>2. a \in RunRec /\ Cleared(a) /\ Same(a, w, SolnFields)
  BY ResetSolnFacts
<1> HIDE DEF a
<1>3. b \in RunRec /\ b.variant = x /\ Same(b, a, {"variant"})
  BY <1>2, VariantFacts
<1> HIDE DEF b
<1>4. Cleared(b)
  BY <1>2, <1>3 DEF Cleared, Same, Fields
<1>5. Same(b, w, SolnFields)
  BY <1>2, <1>3 DEF Same, Fields, AtorFields, SolnFields
<1> QED
  BY <1>1, <1>3, <1>4, <1>5

LEMMA AssertFacts ==
  ASSUME NEW w \in RunRec, NEW holds
  PROVE  /\ Assert(w, holds) \in RunRec
         /\ Assert(w, holds).ok <=> w.ok /\ holds
         /\ Same(Assert(w, holds), w, {"ok"})
<1> DEFINE b == w.ok /\ holds
           v == [w EXCEPT !.ok = b]
<1>1. b \in BOOLEAN
  OBVIOUS
<1>2. Assert(w, holds) = v
  BY DEF Assert
<1>3. b <=> w.ok /\ holds
  OBVIOUS
<1> HIDE DEF b
<1>4. v \in RunRec
  BY <1>1 DEF RunRec
<1>5. v.ok = b
  BY DEF RunRec
<1>6. Same(v, w, {"ok"})
  BY DEF RunRec, Same, Fields
<1> QED
  BY <1>2, <1>3, <1>4, <1>5, <1>6

LEMMA ChooseFacts ==
  ASSUME NEW w \in RunRec, NEW x \in Starters
  PROVE  /\ Choose(w, x) \in RunRec
         /\ Choose(w, x).optInitMethod = x
         /\ Choose(w, x).ok <=> w.ok /\ ((x = "accelerated") <=> w.accelerated)
         /\ Same(Choose(w, x), w, {"optInitMethod", "ok"})
<1> DEFINE a == Assert(w, (x = "accelerated") <=> w.accelerated)
           b == [a EXCEPT !.optInitMethod = x]
<1>1. Choose(w, x) = b
  BY DEF Choose
<1>2. /\ a \in RunRec /\ Same(a, w, {"ok"})
      /\ a.ok <=> w.ok /\ ((x = "accelerated") <=> w.accelerated)
  BY AssertFacts
<1> HIDE DEF a
<1>3. b \in RunRec
  BY <1>2 DEF RunRec
<1>4. b.optInitMethod = x /\ b.ok = a.ok
  BY <1>2 DEF RunRec
<1>5. Same(b, a, {"optInitMethod"})
  BY <1>2 DEF RunRec, Same, Fields
<1> HIDE DEF b
<1>6. Same(b, w, {"optInitMethod", "ok"})
  BY <1>2, <1>5 DEF Same, Fields
<1> QED
  BY <1>1, <1>2, <1>3, <1>4, <1>6

\* An assignment to the state of the optimization problem.
LEMMA OpFacts ==
  ASSUME NEW w \in RunRec, NEW x \in {"none", "plain", "slbv"}
  PROVE  /\ [w EXCEPT !.op = x] \in RunRec
         /\ [w EXCEPT !.op = x].op = x
         /\ Same([w EXCEPT !.op = x], w, {"op"})
<1>1. [w EXCEPT !.op = x] \in RunRec
  BY DEF RunRec
<1>2. [w EXCEPT !.op = x].op = x
  BY DEF RunRec
<1>3. Same([w EXCEPT !.op = x], w, {"op"})
  BY DEF RunRec, Same, Fields
<1> QED
  BY <1>1, <1>2, <1>3

\* The optimization problem goes, and the accelerated state with it.
LEMMA ShutDownFacts ==
  ASSUME NEW w \in RunRec, w.accelerated => w.op # "none"
  PROVE  /\ ShutDown(w) \in RunRec
         /\ ShutDown(w).op = "none" /\ ~ShutDown(w).accelerated
         /\ ShutDown(w).optInitMethod =
              IF w.accelerated THEN "crash" ELSE w.optInitMethod
         /\ Same(ShutDown(w), w, OptimumFields)
<1> DEFINE a == [w EXCEPT !.accelerated = FALSE]
           b == Choose(a, "crash")
           c == Unaccelerate(w)
           d == [c EXCEPT !.op = "none"]
<1>1. a \in RunRec /\ ~a.accelerated /\ Same(a, w, {"accelerated"})
  <2>1. a \in RunRec
    BY DEF RunRec
  <2>2. ~a.accelerated
    BY DEF RunRec
  <2>3. Same(a, w, {"accelerated"})
    BY DEF RunRec, Same, Fields
  <2> QED
    BY <2>1, <2>2, <2>3
<1>2. c = IF w.accelerated THEN b ELSE w
  BY DEF Unaccelerate
<1> HIDE DEF a
<1>3. /\ b \in RunRec /\ b.optInitMethod = "crash" /\ (b.ok <=> a.ok)
      /\ Same(b, a, {"optInitMethod", "ok"})
  BY <1>1, ChooseFacts DEF Starters
<1> HIDE DEF b
<1>4. b.ok = a.ok
  BY <1>1, <1>3 DEF RunRec
<1>5. Same(b, w, {"accelerated", "optInitMethod"})
  BY <1>1, <1>3, <1>4 DEF Same, Fields
<1>6. ~b.accelerated
  BY <1>1, <1>3 DEF Same, Fields
<1>7. /\ c \in RunRec /\ ~c.accelerated
      /\ c.optInitMethod = IF w.accelerated THEN "crash" ELSE w.optInitMethod
      /\ Same(c, w, {"accelerated", "optInitMethod"})
  <2>1. CASE w.accelerated
    BY <2>1, <1>2, <1>3, <1>5, <1>6
  <2>2. CASE ~w.accelerated
    BY <2>2, <1>2 DEF Same
  <2> QED
    BY <2>1, <2>2
<1>8. ShutDown(w) = IF w.op = "none" THEN w ELSE d
  BY DEF ShutDown
<1> HIDE DEF c
<1>9. d \in RunRec /\ d.op = "none" /\ Same(d, c, {"op"})
  BY <1>7, OpFacts
<1> HIDE DEF d
<1>10. /\ ~d.accelerated /\ d.optInitMethod = c.optInitMethod
       /\ Same(d, w, OptimumFields)
  BY <1>7, <1>9 DEF Same, Fields, OptimumFields
<1>11. CASE w.op = "none"
  BY <1>8, <1>11 DEF Same
<1>12. CASE w.op # "none"
  BY <1>7, <1>8, <1>9, <1>10, <1>12
<1> QED
  BY <1>11, <1>12

LEMMA PreprocessFacts ==
  ASSUME NEW w \in RunRec
  PROVE  /\ Preprocess(w) \in RunRec
         /\ TablesKept(Preprocess(w), w)
         /\ Same(Preprocess(w), w, TableFields)
<1> DEFINE v == [w EXCEPT !.preprocessed = TRUE, !.tables = TRUE]
<1>1. v \in RunRec
  BY DEF RunRec
<1>2. v.preprocessed /\ v.tables
  BY DEF RunRec
<1>3. Same(v, w, TableFields)
  BY DEF RunRec, Same, Fields, TableFields
<1>4. CASE w.preprocessed
  BY <1>4 DEF Preprocess, Same, TablesKept
<1>5. CASE ~w.preprocessed
  BY <1>1, <1>2, <1>3, <1>5 DEF Preprocess, TablesKept
<1> QED
  BY <1>4, <1>5

LEMMA GetExpCycleFacts ==
  ASSUME NEW w \in RunRec
  PROVE  /\ GetExpCycle(w) \in RunRec
         /\ GetExpCycle(w).preprocessed
         /\ Same(GetExpCycle(w), w, TableFields)
<1> DEFINE v == [w EXCEPT !.preprocessed = TRUE]
<1>1. v \in RunRec
  BY DEF RunRec
<1>2. v.preprocessed
  BY DEF RunRec
<1>3. Same(v, w, TableFields)
  BY DEF RunRec, Same, Fields, TableFields
<1>4. CASE w.preprocessed
  BY <1>4 DEF GetExpCycle, Same
<1>5. CASE ~w.preprocessed
  BY <1>1, <1>2, <1>3, <1>5 DEF GetExpCycle
<1> QED
  BY <1>4, <1>5

LEMMA NoTablesFacts ==
  ASSUME NEW w \in RunRec
  PROVE  LET v == [w EXCEPT !.preprocessed = FALSE, !.tables = FALSE]
         IN  v \in RunRec /\ ~v.preprocessed /\ Same(v, w, TableFields)
<1> DEFINE v == [w EXCEPT !.preprocessed = FALSE, !.tables = FALSE]
<1>1. v \in RunRec
  BY DEF RunRec
<1>2. ~v.preprocessed
  BY DEF RunRec
<1>3. Same(v, w, TableFields)
  BY DEF RunRec, Same, Fields, TableFields
<1> QED
  BY <1>1, <1>2, <1>3

\* After unpreprocess nothing derived is left of a preprocessed run.
LEMMA UnpreprocessFacts ==
  ASSUME NEW w \in RunRec, Tidy(w), w.accelerated => w.op # "none",
         w.preprocessed
  PROVE  /\ Unpreprocess(w) \in RunRec
         /\ Cleared(Unpreprocess(w))
         /\ Unpreprocess(w).variant = "input"
         /\ Unpreprocess(w).op = "none" /\ ~Unpreprocess(w).accelerated
         /\ Unpreprocess(w).optInitMethod = "crash"
         /\ ~Unpreprocess(w).preprocessed
         /\ Same(Unpreprocess(w), w, SolnFields \cup OptimumFields \cup TableFields)
<1> DEFINE a == ResetSoln(w)
           b == ShutDown(a)
           c == Choose(b, "crash")
           d == [c EXCEPT !.preprocessed = FALSE, !.tables = FALSE]
<1>1. Unpreprocess(w) = d
  BY DEF Unpreprocess
<1>2. /\ a \in RunRec /\ Cleared(a) /\ a.variant = "input"
      /\ Same(a, w, SolnFields)
  BY ResetSolnFacts
<1> HIDE DEF a
<1>3. a.accelerated => a.op # "none"
  BY <1>2 DEF Same, Fields, SolnFields, AtorFields
<1>4. /\ b \in RunRec /\ b.op = "none" /\ ~b.accelerated
      /\ Same(b, a, OptimumFields)
  BY <1>2, <1>3, ShutDownFacts
<1> HIDE DEF b
<1>5. /\ c \in RunRec /\ c.optInitMethod = "crash" /\ (c.ok <=> b.ok)
      /\ Same(c, b, {"optInitMethod", "ok"})
  BY <1>4, ChooseFacts DEF Starters
<1> HIDE DEF c
<1>6. c.ok = b.ok
  BY <1>4, <1>5 DEF RunRec
<1>9. d \in RunRec /\ ~d.preprocessed /\ Same(d, c, TableFields)
  BY <1>5, NoTablesFacts
<1> HIDE DEF d
<1>10. Same(d, a, OptimumFields \cup TableFields)
  BY <1>4, <1>5, <1>6, <1>9 DEF Same, Fields, OptimumFields, TableFields
<1>11. Same(d, w, SolnFields \cup OptimumFields \cup TableFields)
  BY <1>2, <1>10 DEF Same, Fields, SolnFields, AtorFields, OptimumFields, TableFields
<1>12. Cleared(d) /\ d.variant = "input"
  BY <1>2, <1>10 DEF Cleared, Same, Fields, OptimumFields, TableFields
<1>13. d.op = "none" /\ ~d.accelerated /\ d.optInitMethod = "crash"
  BY <1>4, <1>5, <1>9 DEF Same, Fields, TableFields
<1> QED
  BY <1>1, <1>9, <1>11, <1>12, <1>13

LEMMA PostprocessFacts ==
  ASSUME NEW w \in RunRec,
         w.postprocessed => w.preprocessed /\ ~w.heur /\ w.results,
         w.eqActive => w.heur
  PROVE  /\ Postprocess(w) \in RunRec
         /\ Postprocess(w).postprocessed /\ Postprocess(w).results
         /\ ~Postprocess(w).heur /\ ~Postprocess(w).eqActive
         /\ TablesKept(Postprocess(w), w)
         /\ Same(Postprocess(w), w, AtorFields \cup TableFields
                                      \cup {"postprocessed", "results"})
<1> DEFINE a == HeurReset(w)
           b == Preprocess(a)
           c == [b EXCEPT !.postprocessed = TRUE, !.results = TRUE]
<1>1. Postprocess(w) = IF w.postprocessed THEN w ELSE c
  BY DEF Postprocess
<1>2. /\ a \in RunRec /\ ~a.heur /\ ~a.eqActive
      /\ Same(a, w, AtorFields)
  BY HeurResetFacts
<1> HIDE DEF a
<1>3. b \in RunRec /\ TablesKept(b, a) /\ Same(b, a, TableFields)
  BY <1>2, PreprocessFacts
<1> HIDE DEF b
<1>4. c \in RunRec
  BY <1>3 DEF RunRec
<1>5. c.postprocessed /\ c.results
  BY <1>3 DEF RunRec
<1>6. Same(c, b, {"postprocessed", "results"})
  BY <1>3 DEF RunRec, Same, Fields
<1> HIDE DEF c
<1>7. ~c.heur /\ ~c.eqActive
  BY <1>2, <1>3, <1>6 DEF Same, Fields, TableFields
<1>8. TablesKept(c, w)
  BY <1>2, <1>3, <1>6 DEF TablesKept, Same, Fields, AtorFields
<1>9. Same(c, w, AtorFields \cup TableFields \cup {"postprocessed", "results"})
  BY <1>2, <1>3, <1>6 DEF Same, Fields, AtorFields, TableFields
<1>10. CASE w.postprocessed
  BY <1>1, <1>10 DEF Same, TablesKept
<1>11. CASE ~w.postprocessed
  BY <1>1, <1>4, <1>5, <1>7, <1>8, <1>9, <1>11
<1> QED
  BY <1>10, <1>11

-------------------------------------------------------------------------------
\* Heuristic allocation and implosion.

HeurFields == SolnFields \cup TableFields \cup {"author", "results"}

\* What the properties of the solution, and of what is derived from it, rest on.
SolnInv(w) ==
  /\ w.heur => /\ w.preprocessed /\ w.variant = "heur"
               /\ w.mods = w.modHeurAlloc /\ w.pegs = w.perfPegging
  /\ w.eqActive => w.heur
  /\ w.postprocessed => w.preprocessed /\ ~w.heur /\ w.results
  /\ w.pip \/ w.fss => w.postprocessed
  /\ w.fss => w.variant # "input"
  /\ w.variant # "input" => w.variant = w.author

LEMMA NewHeurAtorFacts ==
  ASSUME NEW w \in RunRec, NEW forOpt \in BOOLEAN
  PROVE  /\ NewHeurAtor(w, forOpt) \in RunRec
         /\ NewHeurAtor(w, forOpt).heur
         /\ NewHeurAtor(w, forOpt).mods = w.modHeurAlloc
         /\ ~forOpt => NewHeurAtor(w, forOpt).pegs = w.perfPegging
         /\ NewHeurAtor(w, forOpt).author = w.variant
         /\ Same(NewHeurAtor(w, forOpt), w,
                 {"heur", "mods", "pegs", "author", "results"})
<1> DEFINE p == ~forOpt /\ w.perfPegging
           v == [w EXCEPT !.heur = TRUE, !.mods = w.modHeurAlloc, !.pegs = p,
                          !.author = w.variant, !.results = FALSE]
<1>1. NewHeurAtor(w, forOpt) = v
  BY DEF NewHeurAtor
<1>2. p \in BOOLEAN /\ (~forOpt => p = w.perfPegging)
  BY DEF RunRec
<1> HIDE DEF p
<1>3. v \in RunRec
  BY <1>2 DEF RunRec
<1>4. v.heur /\ v.mods = w.modHeurAlloc /\ v.pegs = p /\ v.author = w.variant
  BY DEF RunRec
<1>5. Same(v, w, {"heur", "mods", "pegs", "author", "results"})
  BY DEF RunRec, Same, Fields
<1> QED
  BY <1>1, <1>2, <1>3, <1>4, <1>5

LEMMA StartHeurFacts ==
  ASSUME NEW w \in RunRec, Tidy(w), NEW forOpt \in BOOLEAN
  PROVE  LET r == StartHeur(w, forOpt)
         IN  /\ r \in RunRec
             /\ r.heur /\ ~r.eqActive
             /\ ~r.postprocessed /\ ~r.pip /\ ~r.fss
             /\ r.mods = r.modHeurAlloc
             /\ ~forOpt => r.pegs = r.perfPegging
             /\ r.variant = IF forOpt THEN "heurOpt" ELSE "heur"
             /\ r.author = r.variant
             /\ TablesKept(r, w)
             /\ Same(r, w, HeurFields)
<1> DEFINE x == IF forOpt THEN "heurOpt" ELSE "heur"
           a == ResetSoln(w)
           b == MakeCurrent(a, x)
           c == Preprocess(b)
           d == NewHeurAtor(c, forOpt)
<1>1. StartHeur(w, forOpt) = d
  BY DEF StartHeur
<1>2. x \in Variants
  BY DEF Variants
<1>3. a \in RunRec /\ Cleared(a) /\ Same(a, w, SolnFields)
  BY ResetSolnFacts
<1> HIDE DEF a
<1>4. Tidy(a)
  BY <1>3 DEF Tidy, Cleared
<1> HIDE DEF x
<1>5. /\ b \in RunRec /\ Cleared(b) /\ b.variant = x
      /\ Same(b, a, SolnFields)
  BY <1>2, <1>3, <1>4, MakeCurrentFacts
<1> HIDE DEF b
<1>6. c \in RunRec /\ TablesKept(c, b) /\ Same(c, b, TableFields)
  BY <1>5, PreprocessFacts
<1> HIDE DEF c
<1>7. /\ d \in RunRec /\ d.heur /\ d.mods = c.modHeurAlloc
      /\ ~forOpt => d.pegs = c.perfPegging
      /\ d.author = c.variant
      /\ Same(d, c, {"heur", "mods", "pegs", "author", "results"})
  BY <1>6, NewHeurAtorFacts
<1> HIDE DEF d
<1>8. Same(b, w, SolnFields)
  BY <1>3, <1>5 DEF Same
<1>9. Same(d, b, {"heur", "mods", "pegs", "author", "results"} \cup TableFields)
  BY <1>6, <1>7 DEF Same, Fields, TableFields
<1>10. Same(d, w, HeurFields)
  BY <1>8, <1>9 DEF Same, Fields, HeurFields, SolnFields, AtorFields, TableFields
<1>11. ~d.eqActive /\ ~d.postprocessed /\ ~d.pip /\ ~d.fss /\ d.variant = x
  BY <1>5, <1>9 DEF Cleared, Same, Fields, TableFields
<1>12. d.author = d.variant /\ d.mods = d.modHeurAlloc
       /\ (~forOpt => d.pegs = d.perfPegging)
  BY <1>7 DEF Same, Fields
<1>13. TablesKept(d, w)
  BY <1>6, <1>7, <1>8 DEF TablesKept, Same, Fields, SolnFields, AtorFields
<1> QED
  BY <1>1, <1>7, <1>10, <1>11, <1>12, <1>13 DEF x

LEMMA ActivateEqFacts ==
  ASSUME NEW w \in RunRec, w.heur
  PROVE  /\ ActivateEq(w) \in RunRec
         /\ Same(ActivateEq(w), w, {"eqActive"})
<1> DEFINE a == Assert(w, w.heur)
           b == [a EXCEPT !.eqActive = TRUE]
<1>1. ActivateEq(w) = IF w.eqActive THEN w ELSE b
  BY DEF ActivateEq
<1>2. a \in RunRec /\ (a.ok <=> w.ok) /\ Same(a, w, {"ok"})
  BY AssertFacts
<1> HIDE DEF a
<1>3. b \in RunRec
  BY <1>2 DEF RunRec
<1>4. Same(b, a, {"eqActive"})
  BY <1>2 DEF RunRec, Same, Fields
<1>5. a.ok = w.ok
  BY <1>2 DEF RunRec
<1> HIDE DEF b
<1>6. Same(b, w, {"eqActive"})
  BY <1>2, <1>4, <1>5 DEF Same, Fields
<1> QED
  BY <1>1, <1>3, <1>6 DEF Same

LEMMA HeurImplodeFacts ==
  ASSUME NEW w \in RunRec, Tidy(w), NEW forOpt \in BOOLEAN
  PROVE  LET r == HeurImplode(w, forOpt)
         IN  /\ r \in RunRec
             /\ SolnInv(r)
             /\ TablesKept(r, w)
             /\ Same(r, w, HeurFields)
<1> DEFINE a == Preprocess(w)
           b == StartHeur(a, forOpt)
           c == ActivateEq(b)
           d == Postprocess(c)
<1>1. HeurImplode(w, forOpt) = d
  BY DEF HeurImplode
<1>2. a \in RunRec /\ TablesKept(a, w) /\ Same(a, w, TableFields)
  BY PreprocessFacts
<1> HIDE DEF a
<1>3. Tidy(a)
  BY <1>2 DEF Tidy, Same, Fields, TableFields
<1>4. /\ b \in RunRec /\ b.heur /\ ~b.postprocessed /\ ~b.pip /\ ~b.fss
      /\ b.author = b.variant
      /\ TablesKept(b, a) /\ Same(b, a, HeurFields)
  BY <1>2, <1>3, StartHeurFacts
<1> HIDE DEF b
<1>5. c \in RunRec /\ Same(c, b, {"eqActive"})
  BY <1>4, ActivateEqFacts
<1> HIDE DEF c
<1>6. c.heur /\ ~c.postprocessed /\ ~c.pip /\ ~c.fss /\ c.author = c.variant
  BY <1>4, <1>5 DEF Same, Fields
<1>7. /\ d \in RunRec /\ d.postprocessed /\ d.results /\ ~d.heur /\ ~d.eqActive
      /\ TablesKept(d, c)
      /\ Same(d, c, AtorFields \cup TableFields \cup {"postprocessed", "results"})
  BY <1>5, <1>6, PostprocessFacts
<1> HIDE DEF d
<1>8. ~d.pip /\ ~d.fss /\ d.author = d.variant
  BY <1>6, <1>7 DEF Same, Fields, AtorFields, TableFields
<1>9. SolnInv(d)
  BY <1>7, <1>8 DEF SolnInv, TablesKept
<1>10. TablesKept(d, w)
  BY <1>2, <1>4, <1>5, <1>7 DEF TablesKept, Same, Fields
<1>11. Same(c, w, HeurFields)
  BY <1>2, <1>4, <1>5 DEF Same, Fields, HeurFields, SolnFields, AtorFields, TableFields
<1>12. Same(d, w, HeurFields)
  BY <1>7, <1>11 DEF Same, Fields, HeurFields, SolnFields, AtorFields, TableFields
<1> QED
  BY <1>1, <1>7, <1>9, <1>10, <1>12

-------------------------------------------------------------------------------
\* Optimizing implosion.

ImplodeFields == HeurFields \cup {"init"}

\* The starting method fits the acceleration.
Fits(w) == w.accelerated <=> w.optInitMethod = "accelerated"

LEMMA TidyFromSolnInv == ASSUME NEW w, SolnInv(w) PROVE Tidy(w)
  BY DEF SolnInv, Tidy

LEMMA ClearedIsTidy == ASSUME NEW w, Cleared(w) PROVE Tidy(w)
  BY DEF Cleared, Tidy

\* A run without a solution satisfies all that is said of solutions.
LEMMA ClearedSolnInv ==
  ASSUME NEW w, Cleared(w), w.variant = "input"
  PROVE  SolnInv(w)
  BY DEF Cleared, SolnInv

LEMMA InitFacts ==
  ASSUME NEW w \in RunRec, NEW x \in Starters \cup {"none"}
  PROVE  /\ [w EXCEPT !.init = x] \in RunRec
         /\ [w EXCEPT !.init = x].init = x
         /\ Same([w EXCEPT !.init = x], w, {"init"})
<1>1. [w EXCEPT !.init = x] \in RunRec
  BY DEF RunRec
<1>2. [w EXCEPT !.init = x].init = x
  BY DEF RunRec
<1>3. Same([w EXCEPT !.init = x], w, {"init"})
  BY DEF RunRec, Same, Fields
<1> QED
  BY <1>1, <1>2, <1>3

LEMMA CompInitSolnFacts ==
  ASSUME NEW w \in RunRec, Cleared(w), w.variant = "input", w.preprocessed,
         Fits(w)
  PROVE  LET r == CompInitSoln(w)
         IN  /\ r \in RunRec
             /\ SolnInv(r)
             /\ r.init = w.optInitMethod
             /\ TablesKept(r, w)
             /\ Same(r, w, ImplodeFields)
<1> DEFINE s == [w EXCEPT !.init = w.optInitMethod]
           r == CompInitSoln(w)
<1>1. /\ s \in RunRec /\ s.init = w.optInitMethod /\ Same(s, w, {"init"})
  <2>1. w.optInitMethod \in Starters \cup {"none"}
    BY DEF RunRec
  <2> QED
    BY <2>1, InitFacts
<1>2. r = IF w.optInitMethod = "heuristic" THEN HeurImplode(s, TRUE)
          ELSE IF w.optInitMethod = "accelerated" THEN Assert(s, w.accelerated)
          ELSE IF w.optInitMethod = "schedule" THEN Postprocess(s)
          ELSE s
  BY DEF CompInitSoln
<1> HIDE DEF s, r
<1>3. Cleared(s) /\ s.variant = "input" /\ s.preprocessed
  BY <1>1 DEF Cleared, Same, Fields
<1>4. Tidy(s) /\ SolnInv(s)
  BY <1>3, ClearedIsTidy, ClearedSolnInv
<1>5. TablesKept(s, w)
  BY <1>1, <1>3 DEF TablesKept, Same, Fields
<1>6. Same(s, w, ImplodeFields)
  BY <1>1 DEF Same, ImplodeFields
<1>7. CASE w.optInitMethod = "heuristic"
  <2>1. /\ r \in RunRec /\ SolnInv(r) /\ TablesKept(r, s) /\ Same(r, s, HeurFields)
    BY <1>1, <1>2, <1>4, <1>7, HeurImplodeFacts
  <2>2. TablesKept(r, w)
    BY <2>1, <1>5 DEF TablesKept
  <2>3. r.init = s.init
    BY <2>1 DEF Same, Fields, HeurFields, SolnFields, AtorFields, TableFields
  <2>4. Same(r, w, ImplodeFields)
    BY <2>1, <1>1 DEF Same, ImplodeFields
  <2> QED
    BY <2>1, <2>2, <2>3, <2>4, <1>1 DEF r
<1>8. CASE w.optInitMethod = "accelerated"
  <2>1. r = Assert(s, w.accelerated) /\ w.accelerated
    BY <1>2, <1>8 DEF Fits
  <2>2. r \in RunRec /\ (r.ok <=> s.ok) /\ Same(r, s, {"ok"})
    BY <2>1, <1>1, AssertFacts
  <2>3. r.ok = s.ok
    BY <2>2, <1>1 DEF RunRec
  <2>4. Same(r, s, {})
    BY <2>2, <2>3 DEF Same
  <2>5. SolnInv(r)
    BY <2>4, <1>3, ClearedSolnInv DEF Cleared, Same, Fields
  <2>6. TablesKept(r, w) /\ r.init = s.init
    BY <2>4, <1>5 DEF TablesKept, Same, Fields
  <2>7. Same(r, w, ImplodeFields)
    BY <2>4, <1>6 DEF Same
  <2> QED
    BY <2>2, <2>5, <2>6, <2>7, <1>1 DEF r
<1>9. CASE w.optInitMethod = "schedule"
  <2>1. /\ r \in RunRec /\ r.postprocessed /\ r.results
        /\ ~r.heur /\ ~r.eqActive /\ TablesKept(r, s)
        /\ Same(r, s, AtorFields \cup TableFields \cup {"postprocessed", "results"})
    BY <1>1, <1>2, <1>3, <1>9, PostprocessFacts DEF Cleared
  <2>2. ~r.pip /\ ~r.fss /\ r.variant = "input" /\ r.init = s.init
    BY <2>1, <1>3 DEF Cleared, Same, Fields, AtorFields, TableFields
  <2>3. SolnInv(r)
    BY <2>1, <2>2 DEF SolnInv, TablesKept
  <2>4. TablesKept(r, w)
    BY <2>1, <1>5 DEF TablesKept
  <2>5. Same(r, w, ImplodeFields)
    BY <2>1, <1>6 DEF Same, ImplodeFields, HeurFields, SolnFields
  <2> QED
    BY <2>1, <2>2, <2>3, <2>4, <2>5, <1>1 DEF r
<1>10. CASE w.optInitMethod \notin {"heuristic", "accelerated", "schedule"}
  <2>1. r = s
    BY <1>2, <1>10
  <2> QED
    BY <2>1, <1>1, <1>4, <1>5, <1>6 DEF r
<1> QED
  BY <1>7, <1>8, <1>9, <1>10

LEMMA SetUpFacts ==
  ASSUME NEW w \in RunRec
  PROVE  LET r == SetUpOptProblem(w)
         IN  /\ r \in RunRec
             /\ r.op # "none"
             /\ w.op # "none" => r.op = w.op
             /\ w.op = "none" /\ NeedsSlbvVar(w) => r.op = "slbv"
             /\ Same(r, w, {"op"})
<1> DEFINE x == IF NeedsSlbvVar(w) THEN "slbv" ELSE "plain"
           v == [w EXCEPT !.op = x]
<1>1. SetUpOptProblem(w) = IF w.op # "none" THEN w ELSE v
  BY DEF SetUpOptProblem
<1>2. x \in {"none", "plain", "slbv"} /\ x # "none" /\ (NeedsSlbvVar(w) => x = "slbv")
  OBVIOUS
<1> HIDE DEF x
<1>3. v \in RunRec /\ v.op = x /\ Same(v, w, {"op"})
  BY <1>2, OpFacts
<1> HIDE DEF v
<1>4. CASE w.op # "none"
  BY <1>1, <1>4 DEF Same
<1>5. CASE w.op = "none"
  BY <1>1, <1>2, <1>3, <1>5
<1> QED
  BY <1>4, <1>5

\* The preparation of an optimizing implosion: the optimization problem
\* that there is stays.
LEMMA StartOptImpFacts ==
  ASSUME NEW w \in RunRec, Tidy(w), Fits(w)
  PROVE  LET r == StartOptImp(w)
         IN  /\ r \in RunRec
             /\ SolnInv(r)
             /\ TablesKept(r, w)
             /\ r.op # "none"
             /\ w.op # "none" => r.op = w.op
             /\ w.op = "none" /\ NeedsSlbvVar(w) => r.op = "slbv"
             /\ ~w.extOptActive => r.init = w.optInitMethod
             /\ Same(r, w, ImplodeFields \cup {"op"})
<1> DEFINE a == [w EXCEPT !.init = "none"]
           b == ResetSoln(a)
           p == Preprocess(b)
           c == IF p.extOptActive THEN p ELSE CompInitSoln(p)
           r == SetUpOptProblem(c)
<1>1. StartOptImp(w) = r
  BY DEF StartOptImp
<1>2. a \in RunRec /\ Same(a, w, {"init"})
  BY InitFacts
<1> HIDE DEF a
<1>3. Tidy(a)
  BY <1>2 DEF Tidy, Same, Fields
<1>4. b \in RunRec /\ Cleared(b) /\ b.variant = "input" /\ Same(b, a, SolnFields)
  BY <1>2, <1>3, ResetSolnFacts
<1> HIDE DEF b
<1>5. p \in RunRec /\ TablesKept(p, b) /\ Same(p, b, TableFields)
  BY <1>4, PreprocessFacts
<1> HIDE DEF p
<1>6. Cleared(p) /\ p.variant = "input" /\ p.preprocessed
  BY <1>4, <1>5 DEF Cleared, TablesKept, Same, Fields, TableFields
<1>7. Same(p, w, SolnFields \cup TableFields \cup {"init"})
  BY <1>2, <1>4, <1>5 DEF Same
<1>8. Fits(p)
  BY <1>7 DEF Fits, Same, Fields, SolnFields, AtorFields, TableFields
<1>9. /\ p.optInitMethod = w.optInitMethod /\ p.extOptActive = w.extOptActive
      /\ p.op = w.op /\ NeedsSlbvVar(p) = NeedsSlbvVar(w)
  BY <1>7 DEF NeedsSlbvVar, Same, Fields, SolnFields, AtorFields, TableFields
<1>10. TablesKept(p, w)
  BY <1>2, <1>4, <1>5 DEF TablesKept, Same, Fields, SolnFields, AtorFields
<1>11. /\ c \in RunRec /\ SolnInv(c) /\ TablesKept(c, p)
       /\ Same(c, p, ImplodeFields)
       /\ ~p.extOptActive => c.init = p.optInitMethod
  <2>1. CASE p.extOptActive
    <3>1. c = p
      BY <2>1
    <3> QED
      BY <3>1, <2>1, <1>5, <1>6, ClearedSolnInv DEF TablesKept, Same
  <2>2. CASE ~p.extOptActive
    <3>1. c = CompInitSoln(p)
      BY <2>2
    <3> QED
      BY <3>1, <2>2, <1>5, <1>6, <1>8, CompInitSolnFacts
  <2> QED
    BY <2>1, <2>2
<1> HIDE DEF c
<1>12. c.op = p.op /\ NeedsSlbvVar(c) = NeedsSlbvVar(p)
  BY <1>11 DEF NeedsSlbvVar, Same, Fields, ImplodeFields, HeurFields, SolnFields,
     AtorFields, TableFields
<1>13. /\ r \in RunRec /\ r.op # "none"
       /\ c.op # "none" => r.op = c.op
       /\ c.op = "none" /\ NeedsSlbvVar(c) => r.op = "slbv"
       /\ Same(r, c, {"op"})
  BY <1>11, SetUpFacts
<1> HIDE DEF r
<1>14. SolnInv(r)
  BY <1>11, <1>13 DEF SolnInv, Same, Fields
<1>15. TablesKept(r, w)
  BY <1>10, <1>11, <1>13 DEF TablesKept, Same, Fields
<1>16. r.init = c.init
  BY <1>13 DEF Same, Fields
<1>17. Same(r, w, ImplodeFields \cup {"op"})
  BY <1>7, <1>11, <1>13 DEF Same, ImplodeFields, HeurFields
<1> QED
  BY <1>1, <1>9, <1>11, <1>12, <1>13, <1>14, <1>15, <1>16, <1>17

\* What is finished becomes the present solution, and is postprocessed; the
\* optimization problem stays if the run is to be accelerated.
LEMMA FinishOptImpFacts ==
  ASSUME NEW w \in RunRec, Cleared(w), Fits(w), w.op # "none", w.preprocessed
  PROVE  LET r == FinishOptImp(w)
         IN  /\ r \in RunRec
             /\ SolnInv(r)
             /\ TablesKept(r, w)
             /\ Fits(r)
             /\ r.accelerated = w.accAfterOptImp
             /\ r.op = IF w.accAfterOptImp THEN w.op ELSE "none"
             /\ r.ok = w.ok
             /\ Same(r, w, HeurFields \cup OptimumFields)
<1> DEFINE u == [w EXCEPT !.author = w.variant, !.results = FALSE]
           a == [u EXCEPT !.accelerated = TRUE]
           b == Choose(a, "accelerated")
           c == ShutDown(u)
           d == IF w.accAfterOptImp THEN b ELSE c
           r == Postprocess(d)
<1>1. FinishOptImp(w) = r
  BY DEF FinishOptImp
<1>2. u \in RunRec /\ u.author = w.variant /\ Same(u, w, {"author", "results"})
  <2>1. u \in RunRec
    BY DEF RunRec
  <2>2. u.author = w.variant
    BY DEF RunRec
  <2>3. Same(u, w, {"author", "results"})
    BY DEF RunRec, Same, Fields
  <2> QED
    BY <2>1, <2>2, <2>3
<1> HIDE DEF u
<1>3. a \in RunRec /\ a.accelerated /\ Same(a, u, {"accelerated"})
  <2>1. a \in RunRec
    BY <1>2 DEF RunRec
  <2>2. a.accelerated
    BY <1>2 DEF RunRec
  <2>3. Same(a, u, {"accelerated"})
    BY <1>2 DEF RunRec, Same, Fields
  <2> QED
    BY <2>1, <2>2, <2>3
<1> HIDE DEF a
<1>4. /\ b \in RunRec /\ b.optInitMethod = "accelerated" /\ (b.ok <=> a.ok)
      /\ Same(b, a, {"optInitMethod", "ok"})
  BY <1>3, ChooseFacts DEF Starters
<1> HIDE DEF b
<1>5. b.ok = a.ok
  BY <1>3, <1>4 DEF RunRec
<1>6. Same(b, u, {"accelerated", "optInitMethod"}) /\ b.accelerated
  BY <1>3, <1>4, <1>5 DEF Same, Fields
<1>7. u.accelerated => u.op # "none"
  BY <1>2 DEF Same, Fields
<1>8. /\ c \in RunRec /\ c.op = "none" /\ ~c.accelerated
      /\ c.optInitMethod = IF u.accelerated THEN "crash" ELSE u.optInitMethod
      /\ Same(c, u, OptimumFields)
  BY <1>2, <1>7, ShutDownFacts
<1> HIDE DEF c
<1>9. Fits(c)
  BY <1>2, <1>8 DEF Fits, Same, Fields
<1>10. /\ d \in RunRec /\ Fits(d) /\ d.accelerated = w.accAfterOptImp
       /\ d.op = IF w.accAfterOptImp THEN w.op ELSE "none"
       /\ Same(d, u, OptimumFields)
  <2>1. CASE w.accAfterOptImp
    <3>1. d = b
      BY <2>1
    <3>2. b.op = w.op
      BY <1>2, <1>6 DEF Same, Fields
    <3>3. b.accelerated = TRUE /\ w.accAfterOptImp = TRUE
      BY <2>1, <1>4, <1>6 DEF RunRec
    <3> QED
      BY <2>1, <3>1, <3>2, <3>3, <1>4, <1>6 DEF Fits, Same, OptimumFields
  <2>2. CASE ~w.accAfterOptImp
    <3>1. d = c
      BY <2>2
    <3>2. c.accelerated = FALSE /\ w.accAfterOptImp = FALSE
      BY <2>2, <1>8 DEF RunRec
    <3> QED
      BY <2>2, <3>1, <3>2, <1>8, <1>9
  <2> QED
    BY <2>1, <2>2
<1> HIDE DEF d
<1>11. Same(d, w, OptimumFields \cup {"author", "results"})
  BY <1>2, <1>10 DEF Same
<1>12. Cleared(d) /\ d.preprocessed /\ d.author = d.variant
  BY <1>2, <1>10, <1>11 DEF Cleared, Same, Fields, OptimumFields
<1>13. /\ r \in RunRec /\ r.postprocessed /\ r.results /\ ~r.heur /\ ~r.eqActive
       /\ TablesKept(r, d)
       /\ Same(r, d, AtorFields \cup TableFields \cup {"postprocessed", "results"})
  BY <1>10, <1>12, PostprocessFacts DEF Cleared
<1> HIDE DEF r
<1>14. /\ ~r.pip /\ ~r.fss /\ r.author = r.variant /\ r.ok = w.ok /\ r.op = d.op
       /\ r.accelerated = d.accelerated /\ r.optInitMethod = d.optInitMethod
  BY <1>11, <1>12, <1>13 DEF Cleared, Same, Fields, AtorFields, TableFields, OptimumFields
<1>15. SolnInv(r)
  BY <1>13, <1>14 DEF SolnInv, TablesKept
<1>16. TablesKept(r, w)
  BY <1>11, <1>13 DEF TablesKept, Same, Fields, OptimumFields
<1>17. Same(r, w, HeurFields \cup OptimumFields)
  BY <1>11, <1>13 DEF Same, HeurFields, SolnFields
<1>18. Fits(r)
  BY <1>10, <1>14 DEF Fits
<1> QED
  BY <1>1, <1>10, <1>13, <1>14, <1>15, <1>16, <1>17, <1>18

-------------------------------------------------------------------------------
\* The inductive invariant.

\* An accelerated run has a problem to start from, a problem stands on derived
\* tables, and the manager of external optimization has a problem to solve.
OptInv(w) ==
  /\ Fits(w)
  /\ w.accelerated => w.op # "none" /\ w.accAfterOptImp
  /\ w.op # "none" => w.preprocessed
  /\ w.extOptMgr # "none" => /\ w.extOptActive /\ w.op # "none"
                             /\ ~w.accAfterOptImp

\* What each of the three functions that break a promise would break: derived
\* tables, the end of external optimization, and that a problem is only kept
\* for acceleration or for external optimization.
UsedInv(w, u) ==
  /\ "GetExpCycle" \notin u => (w.preprocessed => w.tables)
  /\ "ShutDownExtOpt" \notin u => w.ok /\ (w.extOptActive => w.extOptMgr # "none")
  /\ "EvalObjectives" \notin u =>
       (w.op # "none" => w.accelerated \/ w.extOptMgr # "none")

\* The variables of a problem that is kept are those that are needed, if no
\* gap between the bounds is too small to count.
SoftInv(w, u) ==
  Tiny \notin Gaps /\ "EvalObjectives" \notin u =>
    (NeedsSlbvVar(w) /\ w.op # "none" => w.op = "slbv")

Inv(w, u) ==
  w \in RunRec /\ SolnInv(w) /\ OptInv(w) /\ UsedInv(w, u) /\ SoftInv(w, u)

\* A call keeps the invariant if what it makes of the run satisfies it unless
\* an assertion fails on the way.
LEMMA DoesInv ==
  ASSUME Inv(run, used), NEW w, Does(w),
         w.ok \/ "ShutDownExtOpt" \notin used => Inv(w, used)
  PROVE  Inv(run', used')
<1>1. used' = used
  BY DEF Does
<1>2. CASE w.ok
  BY <1>1, <1>2 DEF Does
<1>3. CASE ~w.ok
  <2>1. "ShutDownExtOpt" \in used
    BY <1>3 DEF Inv, UsedInv
  <2>2. run' = [run EXCEPT !.ok = FALSE]
    BY <1>3 DEF Does
  <2>3. run \in RunRec
    BY DEF Inv
  <2>4. run' \in RunRec
    BY <2>2, <2>3 DEF RunRec
  <2>5. Same(run', run, {"ok"})
    BY <2>2, <2>3 DEF RunRec, Same, Fields
  <2>6. SolnInv(run')
    BY <2>5 DEF Inv, SolnInv, Same, Fields
  <2>7. OptInv(run')
    BY <2>5 DEF Inv, OptInv, Fits, Same, Fields
  <2>8. UsedInv(run', used)
    BY <2>1, <2>5 DEF Inv, UsedInv, Same, Fields
  <2>9. SoftInv(run', used)
    BY <2>5 DEF Inv, SoftInv, NeedsSlbvVar, Same, Fields
  <2> QED
    BY <1>1, <2>4, <2>6, <2>7, <2>8, <2>9 DEF Inv
<1> QED
  BY <1>2, <1>3

-------------------------------------------------------------------------------
\* The API functions.

FreeFields == ImplodeFields \cup {"modHeurAlloc", "perfPegging"}

\* Nothing that has to do with optimization depends on the solution.
LEMMA OptKept ==
  ASSUME NEW u, NEW w, NEW v, OptInv(w), UsedInv(w, u), SoftInv(w, u),
         Same(v, w, FreeFields),
         TablesKept(v, w) \/ (v.preprocessed = w.preprocessed /\ v.tables = w.tables)
  PROVE  OptInv(v) /\ UsedInv(v, u) /\ SoftInv(v, u)
<1>1. /\ v.op = w.op /\ v.accelerated = w.accelerated
      /\ v.optInitMethod = w.optInitMethod /\ v.accAfterOptImp = w.accAfterOptImp
      /\ v.extOptMgr = w.extOptMgr /\ v.extOptActive = w.extOptActive
      /\ v.ok = w.ok /\ v.gap = w.gap /\ v.accAfterSoftLB = w.accAfterSoftLB
  BY DEF Same, Fields, FreeFields, ImplodeFields, HeurFields, SolnFields,
     AtorFields, TableFields
<1>2. OptInv(v)
  BY <1>1 DEF OptInv, Fits, TablesKept
<1>3. UsedInv(v, u)
  BY <1>1 DEF UsedInv, TablesKept
<1>4. SoftInv(v, u)
  BY <1>1 DEF SoftInv, NeedsSlbvVar
<1> QED
  BY <1>2, <1>3, <1>4

LEMMA PreprocessInv ==
  ASSUME NEW u, NEW w, Inv(w, u)
  PROVE  Inv(Preprocess(w), u)
<1> DEFINE r == Preprocess(w)
<1>1. r \in RunRec /\ TablesKept(r, w) /\ Same(r, w, TableFields)
  BY PreprocessFacts DEF Inv
<1> HIDE DEF r
<1>2. SolnInv(r)
  BY <1>1 DEF Inv, SolnInv, TablesKept, Same, Fields, TableFields
<1>3. Same(r, w, FreeFields)
  BY <1>1 DEF Same, FreeFields, ImplodeFields, HeurFields
<1> QED
  BY <1>1, <1>2, <1>3, OptKept DEF Inv, r

LEMMA GetExpCycleInv ==
  ASSUME NEW u, NEW w, Inv(w, u), "GetExpCycle" \in u
  PROVE  Inv(GetExpCycle(w), u)
<1> DEFINE r == GetExpCycle(w)
<1>1. r \in RunRec /\ r.preprocessed /\ Same(r, w, TableFields)
  BY GetExpCycleFacts DEF Inv
<1> HIDE DEF r
<1>2. SolnInv(r)
  BY <1>1 DEF Inv, SolnInv, Same, Fields, TableFields
<1>3. OptInv(r)
  BY <1>1 DEF Inv, OptInv, Fits, Same, Fields, TableFields
<1>4. UsedInv(r, u)
  BY <1>1 DEF Inv, UsedInv, Same, Fields, TableFields
<1>5. SoftInv(r, u)
  BY <1>1 DEF Inv, SoftInv, NeedsSlbvVar, Same, Fields, TableFields
<1> QED
  BY <1>1, <1>2, <1>3, <1>4, <1>5 DEF Inv, r

LEMMA PostprocessInv ==
  ASSUME NEW u, NEW w, Inv(w, u)
  PROVE  Inv(Postprocess(w), u)
<1> DEFINE r == Postprocess(w)
<1>1. /\ r \in RunRec /\ r.postprocessed /\ r.results
      /\ ~r.heur /\ ~r.eqActive /\ TablesKept(r, w)
      /\ Same(r, w, AtorFields \cup TableFields \cup {"postprocessed", "results"})
  BY PostprocessFacts DEF Inv, SolnInv
<1> HIDE DEF r
<1>2. r.fss = w.fss /\ r.variant = w.variant /\ r.author = w.author
  BY <1>1 DEF Same, Fields, AtorFields, TableFields
<1>3. SolnInv(r)
  BY <1>1, <1>2 DEF Inv, SolnInv, TablesKept
<1>4. Same(r, w, FreeFields)
  BY <1>1 DEF Same, FreeFields, ImplodeFields, HeurFields, SolnFields
<1> QED
  BY <1>1, <1>3, <1>4, OptKept DEF Inv, r

LEMMA HeurImplodeInv ==
  ASSUME NEW u, NEW w, Inv(w, u)
  PROVE  Inv(HeurImplode(w, FALSE), u)
<1> DEFINE r == HeurImplode(w, FALSE)
<1>1. /\ r \in RunRec /\ SolnInv(r) /\ TablesKept(r, w) /\ Same(r, w, HeurFields)
  BY HeurImplodeFacts, TidyFromSolnInv DEF Inv
<1> HIDE DEF r
<1>2. Same(r, w, FreeFields)
  BY <1>1 DEF Same, FreeFields, ImplodeFields
<1> QED
  BY <1>1, <1>2, OptKept DEF Inv, r

LEMMA StartHeurInv ==
  ASSUME NEW u, NEW w, Inv(w, u)
  PROVE  Inv(StartHeur(w, FALSE), u)
<1> DEFINE r == StartHeur(w, FALSE)
<1>1. /\ r \in RunRec /\ r.heur /\ ~r.eqActive
      /\ ~r.postprocessed /\ ~r.pip /\ ~r.fss
      /\ r.mods = r.modHeurAlloc /\ r.pegs = r.perfPegging
      /\ r.variant = "heur" /\ r.author = r.variant
      /\ TablesKept(r, w) /\ Same(r, w, HeurFields)
  BY StartHeurFacts, TidyFromSolnInv DEF Inv
<1> HIDE DEF r
<1>2. SolnInv(r)
  BY <1>1 DEF SolnInv, TablesKept
<1>3. Same(r, w, FreeFields)
  BY <1>1 DEF Same, FreeFields, ImplodeFields
<1> QED
  BY <1>1, <1>2, <1>3, OptKept DEF Inv, r

LEMMA ActivateEqInv ==
  ASSUME NEW u, NEW w, Inv(w, u), w.heur
  PROVE  Inv(ActivateEq(w), u)
<1> DEFINE r == ActivateEq(w)
<1>1. r \in RunRec /\ Same(r, w, {"eqActive"})
  BY ActivateEqFacts DEF Inv
<1> HIDE DEF r
<1>2. SolnInv(r)
  BY <1>1 DEF Inv, SolnInv, Same, Fields
<1>3. Same(r, w, FreeFields) /\ r.preprocessed = w.preprocessed /\ r.tables = w.tables
  BY <1>1 DEF Same, Fields, FreeFields, ImplodeFields, HeurFields, SolnFields, AtorFields
<1> QED
  BY <1>1, <1>2, <1>3, OptKept DEF Inv, r

LEMMA HeurResetInv ==
  ASSUME NEW u, NEW w, Inv(w, u)
  PROVE  Inv(HeurReset(w), u)
<1> DEFINE r == HeurReset(w)
<1>1. r \in RunRec /\ ~r.heur /\ ~r.eqActive /\ Same(r, w, AtorFields)
  BY HeurResetFacts DEF Inv, SolnInv
<1> HIDE DEF r
<1>2. SolnInv(r)
  BY <1>1 DEF Inv, SolnInv, Same, Fields, AtorFields
<1>3. Same(r, w, FreeFields) /\ r.preprocessed = w.preprocessed /\ r.tables = w.tables
  BY <1>1 DEF Same, Fields, FreeFields, ImplodeFields, HeurFields, SolnFields, AtorFields
<1> QED
  BY <1>1, <1>2, <1>3, OptKept DEF Inv, r

\* A PIP or a shortage schedule is built for a postprocessed run.
LEMMA BuildPipInv ==
  ASSUME NEW u, NEW w, Inv(w, u), w.postprocessed
  PROVE  Inv([w EXCEPT !.pip = TRUE], u)
<1> DEFINE r == [w EXCEPT !.pip = TRUE]
<1>1. w \in RunRec
  BY DEF Inv
<1>2. r \in RunRec
  BY <1>1 DEF RunRec
<1>3. Same(r, w, {"pip"})
  BY <1>1 DEF RunRec, Same, Fields
<1> HIDE DEF r
<1>4. SolnInv(r)
  BY <1>3 DEF Inv, SolnInv, Same, Fields
<1>5. Same(r, w, FreeFields) /\ r.preprocessed = w.preprocessed /\ r.tables = w.tables
  BY <1>3 DEF Same, Fields, FreeFields, ImplodeFields, HeurFields, SolnFields
<1> QED
  BY <1>2, <1>4, <1>5, OptKept DEF Inv, r

LEMMA GetFssInv ==
  ASSUME NEW u, NEW w, Inv(w, u), w.postprocessed, w.variant # "input"
  PROVE  Inv([w EXCEPT !.fss = TRUE], u)
<1> DEFINE r == [w EXCEPT !.fss = TRUE]
<1>1. w \in RunRec
  BY DEF Inv
<1>2. r \in RunRec
  BY <1>1 DEF RunRec
<1>3. Same(r, w, {"fss"})
  BY <1>1 DEF RunRec, Same, Fields
<1> HIDE DEF r
<1>4. SolnInv(r)
  BY <1>3 DEF Inv, SolnInv, Same, Fields
<1>5. Same(r, w, FreeFields) /\ r.preprocessed = w.preprocessed /\ r.tables = w.tables
  BY <1>3 DEF Same, Fields, FreeFields, ImplodeFields, HeurFields, SolnFields
<1> QED
  BY <1>2, <1>4, <1>5, OptKept DEF Inv, r

\* With no manager of external optimization the run is not in external
\* optimization, so that an optimizing implosion starts as it is asked to.
LEMMA OptImplodeInv ==
  ASSUME NEW u, NEW w, Inv(w, u), w.extOptMgr = "none"
  PROVE  /\ Inv(OptImplode(w), u)
         /\ "ShutDownExtOpt" \notin u => OptImplode(w).init = w.optInitMethod
<1> DEFINE a == StartOptImp(w)
           b == MakeCurrent(a, "opt")
           r == FinishOptImp(b)
<1>1. OptImplode(w) = r
  BY DEF OptImplode
<1>2. Tidy(w) /\ Fits(w) /\ w \in RunRec
  BY TidyFromSolnInv DEF Inv, OptInv
<1>3. /\ a \in RunRec /\ SolnInv(a) /\ TablesKept(a, w) /\ a.op # "none"
      /\ ~w.extOptActive => a.init = w.optInitMethod
      /\ Same(a, w, ImplodeFields \cup {"op"})
  BY <1>2, StartOptImpFacts
<1> HIDE DEF a
<1>4. b \in RunRec /\ Cleared(b) /\ Same(b, a, SolnFields)
  BY <1>3, TidyFromSolnInv, MakeCurrentFacts DEF Variants
<1> HIDE DEF b
<1>5. Same(b, w, ImplodeFields \cup {"op"})
  BY <1>3, <1>4 DEF Same, ImplodeFields, HeurFields
<1>6. b.op # "none" /\ b.preprocessed /\ TablesKept(b, w)
  BY <1>3, <1>4 DEF TablesKept, Same, Fields, SolnFields, AtorFields
<1>7. Fits(b)
  BY <1>2, <1>5 DEF Fits, Same, Fields, ImplodeFields, HeurFields, SolnFields,
     AtorFields, TableFields
<1>8. /\ r \in RunRec /\ SolnInv(r) /\ TablesKept(r, b) /\ Fits(r)
      /\ r.accelerated = b.accAfterOptImp
      /\ r.op = IF b.accAfterOptImp THEN b.op ELSE "none"
      /\ r.ok = b.ok
      /\ Same(r, b, HeurFields \cup OptimumFields)
  BY <1>4, <1>6, <1>7, FinishOptImpFacts
<1> HIDE DEF r
<1>9. Same(r, w, ImplodeFields \cup OptimumFields)
  BY <1>5, <1>8 DEF Same, ImplodeFields, OptimumFields
<1>10. /\ r.accAfterOptImp = w.accAfterOptImp /\ b.accAfterOptImp = w.accAfterOptImp
       /\ r.extOptMgr = "none" /\ r.extOptActive = w.extOptActive
       /\ r.ok = w.ok /\ r.gap = w.gap /\ r.accAfterSoftLB = w.accAfterSoftLB
  BY <1>5, <1>9 DEF Same, Fields, ImplodeFields, HeurFields, SolnFields,
     AtorFields, TableFields, OptimumFields
<1>11. TablesKept(r, w)
  BY <1>6, <1>8 DEF TablesKept
<1>12. OptInv(r)
  BY <1>6, <1>8, <1>10, <1>11 DEF OptInv, TablesKept
<1>13. UsedInv(r, u)
  BY <1>8, <1>10, <1>11 DEF Inv, UsedInv, TablesKept
<1>14. SoftInv(r, u)
  <2>1. w.op # "none" => a.op = w.op
    BY <1>2, StartOptImpFacts DEF a
  <2>2. w.op = "none" /\ NeedsSlbvVar(w) => a.op = "slbv"
    BY <1>2, StartOptImpFacts DEF a
  <2>3. b.op = a.op /\ NeedsSlbvVar(r) = NeedsSlbvVar(w)
    BY <1>4, <1>10 DEF NeedsSlbvVar, Same, Fields, SolnFields, AtorFields
  <2> QED
    BY <2>1, <2>2, <2>3, <1>8 DEF Inv, SoftInv
<1>15. "ShutDownExtOpt" \notin u => r.init = w.optInitMethod
  <2>1. r.init = a.init
    BY <1>4, <1>8 DEF Same, Fields, HeurFields, SolnFields, AtorFields,
       TableFields, OptimumFields
  <2> QED
    BY <2>1, <1>3 DEF Inv, UsedInv
<1> QED
  BY <1>1, <1>8, <1>12, <1>13, <1>14, <1>15 DEF Inv

LEMMA EvalObjectivesInv ==
  ASSUME NEW u, NEW w, Inv(w, u), "EvalObjectives" \in u
  PROVE  Inv(EvalObjectives(w), u)
<1> DEFINE a == MakeCurrent(w, "input")
           b == Preprocess(a)
           c == SetUpOptProblem(b)
           r == Postprocess(c)
<1>1. EvalObjectives(w) = r
  BY DEF EvalObjectives
<1>2. /\ a \in RunRec /\ Cleared(a) /\ a.variant = "input"
      /\ Same(a, w, SolnFields)
  BY MakeCurrentFacts, TidyFromSolnInv DEF Inv, Variants
<1> HIDE DEF a
<1>3. b \in RunRec /\ TablesKept(b, a) /\ Same(b, a, TableFields)
  BY <1>2, PreprocessFacts
<1> HIDE DEF b
<1>4. c \in RunRec /\ c.op # "none" /\ Same(c, b, {"op"})
  BY <1>3, SetUpFacts
<1> HIDE DEF c
<1>5. Same(c, a, TableFields \cup {"op"})
  BY <1>3, <1>4 DEF Same
<1>6. Cleared(c) /\ c.variant = "input"
  BY <1>2, <1>5 DEF Cleared, Same, Fields, TableFields
<1>7. /\ r \in RunRec /\ r.postprocessed /\ r.results
      /\ ~r.heur /\ ~r.eqActive /\ TablesKept(r, c)
      /\ Same(r, c, AtorFields \cup TableFields \cup {"postprocessed", "results"})
  BY <1>4, <1>6, PostprocessFacts DEF Cleared
<1> HIDE DEF r
<1>8. ~r.pip /\ ~r.fss /\ r.variant = "input" /\ r.op # "none"
  BY <1>4, <1>6, <1>7 DEF Cleared, Same, Fields, AtorFields, TableFields
<1>9. SolnInv(r)
  BY <1>7, <1>8 DEF SolnInv, TablesKept
<1>10. TablesKept(r, w)
  BY <1>2, <1>3, <1>4, <1>7 DEF TablesKept, Same, Fields, SolnFields, AtorFields
<1>11. Same(r, w, HeurFields \cup {"op"})
  BY <1>2, <1>5, <1>7 DEF Same, HeurFields, SolnFields
<1>12. OptInv(r)
  BY <1>8, <1>10, <1>11 DEF Inv, OptInv, Fits, TablesKept, Same, Fields, HeurFields,
     SolnFields, AtorFields, TableFields
<1>13. UsedInv(r, u)
  BY <1>10, <1>11 DEF Inv, UsedInv, TablesKept, Same, Fields, HeurFields,
     SolnFields, AtorFields, TableFields
<1> QED
  BY <1>1, <1>7, <1>9, <1>12, <1>13 DEF Inv, SoftInv

LEMMA StartExtOptInv ==
  ASSUME NEW u, NEW w, Inv(w, u), w.extOptMgr = "none", ~w.accAfterOptImp
  PROVE  Inv(StartExtOpt(w), u)
<1> DEFINE a == Assert(w, ~w.accAfterOptImp /\ ~w.extOptActive)
           b == [a EXCEPT !.extOptActive = TRUE]
           c == StartOptImp(b)
           r == [c EXCEPT !.extOptMgr = "created"]
<1>1. StartExtOpt(w) = r
  BY DEF StartExtOpt
<1>2. /\ a \in RunRec /\ Same(a, w, {"ok"})
      /\ a.ok <=> w.ok /\ (~w.accAfterOptImp /\ ~w.extOptActive)
  BY AssertFacts DEF Inv
<1> HIDE DEF a
<1>3. b \in RunRec
  BY <1>2 DEF RunRec
<1>4. b.extOptActive /\ Same(b, a, {"extOptActive"})
  BY <1>2 DEF RunRec, Same, Fields
<1> HIDE DEF b
<1>5. Same(b, w, {"ok", "extOptActive"}) /\ b.ok = a.ok
  BY <1>2, <1>4 DEF Same, Fields
<1>6. Tidy(b) /\ Fits(b)
  <2>1. Tidy(w) /\ Fits(w)
    BY TidyFromSolnInv DEF Inv, OptInv
  <2> QED
    BY <2>1, <1>5 DEF Tidy, Fits, Same, Fields
<1>7. /\ c \in RunRec /\ SolnInv(c) /\ TablesKept(c, b) /\ c.op # "none"
      /\ b.op # "none" => c.op = b.op
      /\ b.op = "none" /\ NeedsSlbvVar(b) => c.op = "slbv"
      /\ Same(c, b, ImplodeFields \cup {"op"})
  BY <1>3, <1>6, StartOptImpFacts
<1> HIDE DEF c
<1>8. c \in RunRec
  BY <1>7
<1>9. r \in RunRec
  BY <1>8 DEF RunRec
<1>10. r.extOptMgr = "created" /\ Same(r, c, {"extOptMgr"})
  BY <1>8 DEF RunRec, Same, Fields
<1> HIDE DEF r
<1>11. SolnInv(r)
  BY <1>7, <1>10 DEF SolnInv, Same, Fields
<1>12. TablesKept(r, w)
  BY <1>5, <1>7, <1>10 DEF TablesKept, Same, Fields
<1>13. Same(r, w, ImplodeFields \cup {"op", "ok", "extOptActive", "extOptMgr"})
  BY <1>5, <1>7, <1>10 DEF Same
<1>14. /\ r.accelerated = w.accelerated /\ r.optInitMethod = w.optInitMethod
       /\ r.accAfterOptImp = w.accAfterOptImp
       /\ r.gap = w.gap /\ r.accAfterSoftLB = w.accAfterSoftLB
  BY <1>13 DEF Same, Fields, ImplodeFields, HeurFields, SolnFields,
     AtorFields, TableFields
<1>15. r.op = c.op /\ r.ok = a.ok /\ r.extOptActive
  BY <1>4, <1>5, <1>7, <1>10 DEF Same, Fields, ImplodeFields, HeurFields,
     SolnFields, AtorFields, TableFields
<1>16. OptInv(r)
  BY <1>7, <1>12, <1>14, <1>15 DEF Inv, OptInv, Fits, TablesKept
<1>17. UsedInv(r, u)
  BY <1>2, <1>10, <1>12, <1>15 DEF Inv, UsedInv, TablesKept
<1>18. SoftInv(r, u)
  <2>1. b.op = w.op /\ NeedsSlbvVar(b) = NeedsSlbvVar(w) /\ NeedsSlbvVar(r) = NeedsSlbvVar(w)
    BY <1>5, <1>14 DEF NeedsSlbvVar, Same, Fields
  <2> QED
    BY <2>1, <1>7, <1>15 DEF Inv, SoftInv
<1> QED
  BY <1>1, <1>9, <1>11, <1>16, <1>17, <1>18 DEF Inv

LEMMA ExtOptMgrFacts ==
  ASSUME NEW w \in RunRec, NEW x \in {"none", "created", "provided"}
  PROVE  /\ [w EXCEPT !.extOptMgr = x] \in RunRec
         /\ [w EXCEPT !.extOptMgr = x].extOptMgr = x
         /\ Same([w EXCEPT !.extOptMgr = x], w, {"extOptMgr"})
<1>1. [w EXCEPT !.extOptMgr = x] \in RunRec
  BY DEF RunRec
<1>2. [w EXCEPT !.extOptMgr = x].extOptMgr = x
  BY DEF RunRec
<1>3. Same([w EXCEPT !.extOptMgr = x], w, {"extOptMgr"})
  BY DEF RunRec, Same, Fields
<1> QED
  BY <1>1, <1>2, <1>3

LEMMA SetExtOptSolnInv ==
  ASSUME NEW u, NEW w, Inv(w, u), w.extOptMgr # "none"
  PROVE  Inv([w EXCEPT !.extOptMgr = "provided"], u)
<1> DEFINE r == [w EXCEPT !.extOptMgr = "provided"]
<1>1. r \in RunRec /\ r.extOptMgr = "provided" /\ Same(r, w, {"extOptMgr"})
  BY ExtOptMgrFacts DEF Inv
<1> HIDE DEF r
<1>2. SolnInv(r)
  BY <1>1 DEF Inv, SolnInv, Same, Fields
<1>3. OptInv(r)
  BY <1>1 DEF Inv, OptInv, Fits, Same, Fields
<1>4. UsedInv(r, u)
  BY <1>1 DEF Inv, UsedInv, Same, Fields
<1>5. SoftInv(r, u)
  BY <1>1 DEF Inv, SoftInv, NeedsSlbvVar, Same, Fields
<1> QED
  BY <1>1, <1>2, <1>3, <1>4, <1>5 DEF Inv, r

\* External optimization ends: its problem goes with it.
LEMMA FinishExtOptInv ==
  ASSUME NEW u, NEW w, Inv(w, u), w.extOptMgr # "none"
  PROVE  Inv(FinishExtOpt(w), u)
<1> DEFINE a == Assert(w, w.extOptActive)
           b == [a EXCEPT !.extOptMgr = "none"]
           c == MakeCurrent(b, "extOpt")
           d == FinishOptImp(c)
           r == [d EXCEPT !.extOptActive = FALSE]
<1>1. FinishExtOpt(w) = r
  BY DEF FinishExtOpt
<1>2. a \in RunRec /\ Same(a, w, {"ok"}) /\ (a.ok <=> w.ok)
  BY AssertFacts DEF Inv, OptInv
<1> HIDE DEF a
<1>3. a.ok = w.ok
  BY <1>2 DEF Inv, RunRec
<1>4. b \in RunRec /\ b.extOptMgr = "none" /\ Same(b, a, {"extOptMgr"})
  BY <1>2, ExtOptMgrFacts
<1> HIDE DEF b
<1>5. Same(b, w, {"extOptMgr"})
  BY <1>2, <1>3, <1>4 DEF Same
<1>6. Tidy(b) /\ Fits(b) /\ b.op # "none" /\ ~b.accAfterOptImp /\ b.preprocessed
  <2>1. Tidy(w)
    BY TidyFromSolnInv DEF Inv
  <2> QED
    BY <2>1, <1>5 DEF Inv, OptInv, Tidy, Fits, Same, Fields
<1>7. c \in RunRec /\ Cleared(c) /\ Same(c, b, SolnFields)
  BY <1>4, <1>6, MakeCurrentFacts DEF Variants
<1> HIDE DEF c
<1>8. Fits(c) /\ c.op # "none" /\ ~c.accAfterOptImp /\ c.preprocessed
  BY <1>6, <1>7 DEF Fits, Same, Fields, SolnFields, AtorFields
<1>9. /\ d \in RunRec /\ SolnInv(d) /\ TablesKept(d, c) /\ Fits(d)
      /\ d.accelerated = c.accAfterOptImp /\ d.op = "none"
      /\ d.ok = c.ok /\ Same(d, c, HeurFields \cup OptimumFields)
  BY <1>7, <1>8, FinishOptImpFacts
<1> HIDE DEF d
<1>10. d \in RunRec
  BY <1>9
<1>11. r \in RunRec
  BY <1>10 DEF RunRec
<1>12. ~r.extOptActive /\ Same(r, d, {"extOptActive"})
  BY <1>10 DEF RunRec, Same, Fields
<1> HIDE DEF r
<1>13. SolnInv(r)
  BY <1>9, <1>12 DEF SolnInv, Same, Fields
<1>14. /\ r.extOptMgr = "none" /\ r.ok = w.ok /\ Fits(r) /\ r.op = "none"
       /\ ~r.accelerated
  BY <1>4, <1>5, <1>7, <1>8, <1>9, <1>12 DEF Fits, Same, Fields, HeurFields,
     SolnFields, AtorFields, TableFields, OptimumFields
<1>15. TablesKept(r, w)
  BY <1>5, <1>7, <1>9, <1>12 DEF TablesKept, Same, Fields, SolnFields, AtorFields
<1>16. OptInv(r)
  BY <1>14 DEF OptInv
<1>17. UsedInv(r, u)
  BY <1>12, <1>14, <1>15 DEF Inv, UsedInv, TablesKept
<1>18. SoftInv(r, u)
  BY <1>14 DEF SoftInv
<1> QED
  BY <1>1, <1>11, <1>13, <1>16, <1>17, <1>18 DEF Inv

\* When the optimization problem goes, the rest stays as it is.
LEMMA ShutDownInv ==
  ASSUME NEW u, NEW w, Inv(w, u), w.extOptMgr = "none"
  PROVE  /\ Inv(ShutDown(w), u)
         /\ ShutDown(w).op = "none" /\ ~ShutDown(w).accelerated
         /\ ShutDown(w).ok = w.ok
         /\ Same(ShutDown(w), w, OptimumFields)
<1> DEFINE r == ShutDown(w)
<1>1. /\ r \in RunRec /\ r.op = "none" /\ ~r.accelerated
      /\ r.optInitMethod = IF w.accelerated THEN "crash" ELSE w.optInitMethod
      /\ Same(r, w, OptimumFields)
  BY ShutDownFacts DEF Inv, OptInv
<1> HIDE DEF r
<1>2. SolnInv(r)
  BY <1>1 DEF Inv, SolnInv, Same, Fields, OptimumFields
<1>3. OptInv(r)
  BY <1>1 DEF Inv, OptInv, Fits, Same, Fields, OptimumFields
<1>4. UsedInv(r, u)
  BY <1>1 DEF Inv, UsedInv, Same, Fields, OptimumFields
<1>5. SoftInv(r, u) /\ r.ok = w.ok
  BY <1>1 DEF SoftInv, Same, Fields, OptimumFields
<1> QED
  BY <1>1, <1>2, <1>3, <1>4, <1>5 DEF Inv, r

\* witShutDownExtOpt leaves external optimization active without a manager.
LEMMA ShutDownExtOptInv ==
  ASSUME NEW u, NEW w, Inv(w, u), w.extOptMgr # "none", "ShutDownExtOpt" \in u
  PROVE  Inv(ShutDownExtOpt(w), u)
<1> DEFINE a == Assert(w, w.extOptActive)
           b == [a EXCEPT !.extOptMgr = "none"]
           r == ShutDown(b)
<1>1. ShutDownExtOpt(w) = r
  BY DEF ShutDownExtOpt
<1>2. a \in RunRec /\ Same(a, w, {"ok"}) /\ (a.ok <=> w.ok)
  BY AssertFacts DEF Inv, OptInv
<1> HIDE DEF a
<1>3. a.ok = w.ok
  BY <1>2 DEF Inv, RunRec
<1>4. b \in RunRec /\ b.extOptMgr = "none" /\ Same(b, a, {"extOptMgr"})
  BY <1>2, ExtOptMgrFacts
<1> HIDE DEF b
<1>5. Same(b, w, {"extOptMgr"})
  BY <1>2, <1>3, <1>4 DEF Same
<1>6. b.accelerated => b.op # "none"
  BY <1>5 DEF Inv, OptInv, Same, Fields
<1>7. /\ r \in RunRec /\ r.op = "none" /\ ~r.accelerated
      /\ r.optInitMethod = IF b.accelerated THEN "crash" ELSE b.optInitMethod
      /\ Same(r, b, OptimumFields)
  BY <1>4, <1>6, ShutDownFacts
<1> HIDE DEF r
<1>8. Same(r, w, OptimumFields \cup {"extOptMgr"})
  BY <1>5, <1>7 DEF Same
<1>9. SolnInv(r)
  BY <1>8 DEF Inv, SolnInv, Same, Fields, OptimumFields
<1>10. r.extOptMgr = "none" /\ Fits(r)
  BY <1>4, <1>5, <1>7 DEF Inv, OptInv, Fits, Same, Fields, OptimumFields
<1>11. OptInv(r) /\ SoftInv(r, u)
  BY <1>7, <1>10 DEF OptInv, SoftInv
<1>12. UsedInv(r, u)
  BY <1>7, <1>8 DEF Inv, UsedInv, Same, Fields, OptimumFields
<1> QED
  BY <1>1, <1>7, <1>9, <1>11, <1>12 DEF Inv

LEMMA ResetSolnInv ==
  ASSUME NEW u, NEW w, Inv(w, u)
  PROVE  Inv(ResetSoln(w), u)
<1> DEFINE r == ResetSoln(w)
<1>1. r \in RunRec /\ Cleared(r) /\ r.variant = "input" /\ Same(r, w, SolnFields)
  BY ResetSolnFacts, TidyFromSolnInv DEF Inv
<1> HIDE DEF r
<1>2. SolnInv(r)
  BY <1>1, ClearedSolnInv
<1>3. Same(r, w, FreeFields) /\ r.preprocessed = w.preprocessed /\ r.tables = w.tables
  BY <1>1 DEF Same, Fields, FreeFields, ImplodeFields, HeurFields, SolnFields, AtorFields
<1> QED
  BY <1>1, <1>2, <1>3, OptKept DEF Inv, r

LEMMA ResultsFacts ==
  ASSUME NEW w \in RunRec
  PROVE  /\ [w EXCEPT !.results = FALSE] \in RunRec
         /\ Same([w EXCEPT !.results = FALSE], w, {"results"})
<1>1. [w EXCEPT !.results = FALSE] \in RunRec
  BY DEF RunRec
<1>2. Same([w EXCEPT !.results = FALSE], w, {"results"})
  BY DEF RunRec, Same, Fields
<1> QED
  BY <1>1, <1>2

\* The results are out of date for a run that is not postprocessed.
LEMMA ResultsInv ==
  ASSUME NEW u, NEW w, Inv(w, u), ~w.postprocessed
  PROVE  Inv([w EXCEPT !.results = FALSE], u)
<1> DEFINE r == [w EXCEPT !.results = FALSE]
<1>1. r \in RunRec /\ Same(r, w, {"results"})
  BY ResultsFacts DEF Inv
<1> HIDE DEF r
<1>2. SolnInv(r)
  BY <1>1 DEF Inv, SolnInv, Same, Fields
<1>3. Same(r, w, FreeFields) /\ r.preprocessed = w.preprocessed /\ r.tables = w.tables
  BY <1>1 DEF Same, Fields, FreeFields, ImplodeFields, HeurFields
<1> QED
  BY <1>1, <1>2, <1>3, OptKept DEF Inv, r

LEMMA SetUnpostAttrInv ==
  ASSUME NEW u, NEW w, Inv(w, u)
  PROVE  Inv(SetUnpostAttr(w), u)
<1>1. Inv(ResetSoln(w), u) /\ ~ResetSoln(w).postprocessed
  BY ResetSolnInv, ResetSolnFacts, TidyFromSolnInv DEF Inv, Cleared
<1> QED
  BY <1>1, ResultsInv DEF SetUnpostAttr

\* A run that is not preprocessed has nothing that rests on tables.
LEMMA UnpreprocessInv ==
  ASSUME NEW u, NEW w, Inv(w, u), w.extOptMgr = "none"
  PROVE  /\ Inv(Unpreprocess(w), u)
         /\ ~Unpreprocess(w).preprocessed /\ ~Unpreprocess(w).postprocessed
<1> DEFINE r == Unpreprocess(w)
<1>1. CASE ~w.preprocessed
  BY <1>1 DEF Unpreprocess, Inv, SolnInv
<1>2. CASE w.preprocessed
  <2>1. /\ r \in RunRec /\ Cleared(r) /\ r.variant = "input"
        /\ r.op = "none" /\ ~r.accelerated /\ r.optInitMethod = "crash"
        /\ ~r.preprocessed
        /\ Same(r, w, SolnFields \cup OptimumFields \cup TableFields)
    BY <1>2, UnpreprocessFacts, TidyFromSolnInv DEF Inv, OptInv
  <2> HIDE DEF r
  <2>2. r.extOptMgr = "none" /\ r.ok = w.ok /\ r.extOptActive = w.extOptActive
    BY <2>1 DEF Same, Fields, SolnFields, AtorFields, OptimumFields, TableFields
  <2>3. SolnInv(r)
    BY <2>1, ClearedSolnInv
  <2>4. OptInv(r) /\ SoftInv(r, u)
    BY <2>1, <2>2 DEF OptInv, Fits, SoftInv
  <2>5. UsedInv(r, u)
    BY <2>1, <2>2 DEF Inv, UsedInv
  <2> QED
    BY <2>1, <2>3, <2>4, <2>5 DEF Inv, Cleared, r
<1> QED
  BY <1>1, <1>2

LEMMA SetUnpreAttrInv ==
  ASSUME NEW u, NEW w, Inv(w, u), w.extOptMgr = "none"
  PROVE  Inv(SetUnpreAttr(w), u)
<1> DEFINE a == Unpreprocess(w)
           r == [a EXCEPT !.tables = FALSE, !.results = FALSE]
<1>1. Inv(a, u) /\ ~a.preprocessed /\ ~a.postprocessed
  BY UnpreprocessInv
<1>2. SetUnpreAttr(w) = r
  BY DEF SetUnpreAttr
<1> HIDE DEF a
<1>3. a \in RunRec
  BY <1>1 DEF Inv
<1>4. r \in RunRec
  BY <1>3 DEF RunRec
<1>5. Same(r, a, {"tables", "results"})
  BY <1>3 DEF RunRec, Same, Fields
<1> HIDE DEF r
<1>6. SolnInv(r)
  BY <1>1, <1>5 DEF Inv, SolnInv, Same, Fields
<1>7. OptInv(r)
  BY <1>1, <1>5 DEF Inv, OptInv, Fits, Same, Fields
<1>8. UsedInv(r, u)
  BY <1>1, <1>5 DEF Inv, UsedInv, Same, Fields
<1>9. SoftInv(r, u)
  BY <1>1, <1>5 DEF Inv, SoftInv, NeedsSlbvVar, Same, Fields
<1> QED
  BY <1>2, <1>4, <1>6, <1>7, <1>8, <1>9 DEF Inv

\* A run that is not accelerated may be given any other starting method.
LEMMA ChooseInv ==
  ASSUME NEW u, NEW w, Inv(w, u), ~w.accelerated,
         NEW x \in Starters \ {"accelerated"}
  PROVE  /\ Inv(Choose(w, x), u)
         /\ Same(Choose(w, x), w, {"optInitMethod"})
<1> DEFINE r == Choose(w, x)
<1>1. /\ r \in RunRec /\ r.optInitMethod = x /\ (r.ok <=> w.ok)
      /\ Same(r, w, {"optInitMethod", "ok"})
  BY ChooseFacts DEF Inv
<1> HIDE DEF r
<1>2. r.ok = w.ok
  BY <1>1 DEF Inv, RunRec
<1>3. Same(r, w, {"optInitMethod"})
  BY <1>1, <1>2 DEF Same
<1>4. SolnInv(r)
  BY <1>3 DEF Inv, SolnInv, Same, Fields
<1>5. OptInv(r)
  BY <1>1, <1>3 DEF Inv, OptInv, Fits, Same, Fields
<1>6. UsedInv(r, u)
  BY <1>3 DEF Inv, UsedInv, Same, Fields
<1>7. SoftInv(r, u)
  BY <1>3 DEF Inv, SoftInv, NeedsSlbvVar, Same, Fields
<1> QED
  BY <1>1, <1>3, <1>4, <1>5, <1>6, <1>7 DEF Inv, r

LEMMA SetOptInitMethodInv ==
  ASSUME NEW u, NEW w, Inv(w, u), w.extOptMgr = "none",
         NEW x \in Starters \ {"accelerated"}
  PROVE  Inv(SetOptInitMethod(w, x), u)
<1>1. Inv(ShutDown(w), u) /\ ~ShutDown(w).accelerated
  BY ShutDownInv
<1> QED
  BY <1>1, ChooseInv DEF SetOptInitMethod

\* A volume that the user sets modifies an allocation that can be modified,
\* and replaces any other solution.
LEMMA SetVolInv ==
  ASSUME NEW u, NEW w, Inv(w, u), w.extOptMgr = "none"
  PROVE  Inv(SetVol(w), u)
<1> DEFINE a == Assert(w, w.mods)
           b == ShutDown(w)
           c == Choose(b, "schedule")
           d == ResetSoln(c)
           e == [d EXCEPT !.author = "input"]
           v == IF Modifiable(w) THEN a ELSE e
<1>1. SetVol(w) = [v EXCEPT !.results = FALSE]
  BY DEF SetVol
<1>2. CASE Modifiable(w)
  <2>1. w.heur /\ w.mods
    BY <1>2 DEF Modifiable, Inv, SolnInv
  <2>2. a \in RunRec /\ (a.ok <=> w.ok) /\ Same(a, w, {"ok"})
    BY <2>1, AssertFacts DEF Inv
  <2> HIDE DEF a
  <2>3. a.ok = w.ok
    BY <2>2 DEF Inv, RunRec
  <2>4. Same(a, w, {})
    BY <2>2, <2>3 DEF Same
  <2>5. SolnInv(a)
    BY <2>4 DEF Inv, SolnInv, Same, Fields
  <2>6. Same(a, w, FreeFields) /\ a.preprocessed = w.preprocessed /\ a.tables = w.tables
    BY <2>4 DEF Same, Fields
  <2>7. Inv(a, u)
    BY <2>2, <2>5, <2>6, OptKept DEF Inv
  <2>8. ~a.postprocessed
    BY <2>1, <2>4 DEF Inv, SolnInv, Same, Fields
  <2>9. Inv([a EXCEPT !.results = FALSE], u)
    BY <2>7, <2>8, ResultsInv
  <2>10. v = a
    BY <1>2
  <2> QED
    BY <1>1, <2>9, <2>10
<1>3. CASE ~Modifiable(w)
  <2>1. Inv(b, u) /\ ~b.accelerated
    BY ShutDownInv
  <2> HIDE DEF b
  <2>2. Inv(c, u)
    BY <2>1, ChooseInv DEF Starters
  <2> HIDE DEF c
  <2>3. Inv(d, u)
    BY <2>2, ResetSolnInv
  <2>4. Cleared(d) /\ d.variant = "input" /\ d \in RunRec
    BY <2>2, ResetSolnFacts, TidyFromSolnInv DEF Inv
  <2> HIDE DEF d
  <2>5. e \in RunRec
    <3>1. d \in RunRec /\ "input" \in Variants
      BY <2>4 DEF Variants
    <3> QED
      BY <3>1 DEF RunRec
  <2>6. Same(e, d, {"author"})
    BY <2>4 DEF RunRec, Same, Fields
  <2> HIDE DEF e
  <2>7. Cleared(e) /\ e.variant = "input"
    BY <2>4, <2>6 DEF Cleared, Same, Fields
  <2>8. Same(e, d, FreeFields) /\ e.preprocessed = d.preprocessed /\ e.tables = d.tables
    BY <2>6 DEF Same, Fields, FreeFields, ImplodeFields, HeurFields
  <2>9. Inv(e, u)
    BY <2>3, <2>5, <2>7, <2>8, ClearedSolnInv, OptKept DEF Inv
  <2>10. Inv([e EXCEPT !.results = FALSE], u)
    BY <2>7, <2>9, ResultsInv DEF Cleared
  <2>11. v = e
    BY <1>3
  <2> QED
    BY <1>1, <2>10, <2>11
<1> QED
  BY <1>2, <1>3

\* A problem that is not kept fits any bounds.  One that is kept is that of
\* an accelerated run: it either has the variables for violating soft lower
\* bounds already or stays without a need for them, or it goes.
LEMMA SetBoundsInv ==
  ASSUME NEW u, NEW w, Inv(w, u), w.extOptMgr = "none", NEW g \in Gaps
  PROVE  Inv(SetBounds(w, g), u)
<1> DEFINE a == ResetSoln(w)
           b == IF UnaccNeeded(a, g) THEN ShutDown(a) ELSE a
           r == [b EXCEPT !.gap = g, !.results = FALSE]
<1>1. SetBounds(w, g) = r
  BY DEF SetBounds
<1>2. Inv(a, u) /\ a.extOptMgr = "none" /\ Cleared(a) /\ a.variant = "input"
  <2>1. Inv(a, u)
    BY ResetSolnInv
  <2>2. Cleared(a) /\ a.variant = "input" /\ Same(a, w, SolnFields)
    BY ResetSolnFacts, TidyFromSolnInv DEF Inv
  <2> QED
    BY <2>1, <2>2 DEF Same, Fields, SolnFields, AtorFields
<1> HIDE DEF a
<1>3. /\ Inv(b, u) /\ b.extOptMgr = "none"
      /\ Same(b, a, OptimumFields)
      /\ ~UnaccNeeded(a, g) => b = a
      /\ UnaccNeeded(a, g) => b.op = "none"
  <2>1. CASE UnaccNeeded(a, g)
    BY <2>1, <1>2, ShutDownInv DEF Same, Fields, OptimumFields
  <2>2. CASE ~UnaccNeeded(a, g)
    BY <2>2, <1>2 DEF Same
  <2> QED
    BY <2>1, <2>2
<1> HIDE DEF b
<1>4. b \in RunRec
  BY <1>3 DEF Inv
<1>5. r \in RunRec
  BY <1>4 DEF RunRec
<1>6. Same(r, b, {"gap", "results"})
  BY <1>4 DEF RunRec, Same, Fields
<1>7. r.gap = g
  BY <1>4 DEF RunRec
<1> HIDE DEF r
<1>8. Cleared(r) /\ r.variant = "input"
  BY <1>2, <1>3, <1>6 DEF Cleared, Same, Fields, OptimumFields
<1>9. SolnInv(r)
  BY <1>8, ClearedSolnInv
<1>10. OptInv(r)
  BY <1>3, <1>6 DEF Inv, OptInv, Fits, Same, Fields
<1>11. UsedInv(r, u)
  BY <1>3, <1>6 DEF Inv, UsedInv, Same, Fields
<1>12. SoftInv(r, u)
  <2> SUFFICES ASSUME Tiny \notin Gaps, "EvalObjectives" \notin u,
                      NeedsSlbvVar(r), r.op # "none"
               PROVE  r.op = "slbv"
    BY DEF SoftInv
  <2>1. r.op = b.op /\ r.accAfterSoftLB = b.accAfterSoftLB
    BY <1>6 DEF Same, Fields
  <2>2. ~UnaccNeeded(a, g) /\ b = a
    BY <1>3, <2>1
  <2>3. a.accelerated
    BY <1>2, <2>1, <2>2 DEF Inv, UsedInv
  <2>4. a.accAfterSoftLB \/ a.gap # NoGap \/ ~(g > NoGap)
    BY <2>2, <2>3 DEF UnaccNeeded
  <2>5. a.accAfterSoftLB \/ g > Tiny
    BY <2>1, <2>2, <1>7 DEF NeedsSlbvVar
  <2>6. a.gap \in {NoGap, Wide} /\ g \in {NoGap, Wide}
    BY <1>2, GapsAssumption DEF Inv, RunRec
  <2>7. NeedsSlbvVar(a)
    BY <2>4, <2>5, <2>6 DEF NeedsSlbvVar, NoGap, Tiny, Wide
  <2> QED
    BY <2>1, <2>2, <2>7, <1>2 DEF Inv, SoftInv
<1> QED
  BY <1>1, <1>5, <1>9, <1>10, <1>11, <1>12 DEF Inv

LEMMA SetAccAfterOptImpInv ==
  ASSUME NEW u, NEW w, Inv(w, u), w.extOptMgr = "none", NEW x \in BOOLEAN
  PROVE  Inv(SetAccAfterOptImp(w, x), u)
<1> DEFINE a == IF x THEN w ELSE ShutDown(w)
           b == ResetSoln(a)
           r == [b EXCEPT !.accAfterOptImp = x]
<1>1. SetAccAfterOptImp(w, x) = r
  BY DEF SetAccAfterOptImp
<1>2. Inv(a, u) /\ (a.accelerated => x) /\ a.extOptMgr = "none"
  BY ShutDownInv DEF Same, Fields, OptimumFields
<1> HIDE DEF a
<1>3. /\ Inv(b, u) /\ Cleared(b) /\ b.variant = "input"
      /\ b.accelerated => x
      /\ b.extOptMgr = "none"
  <2>1. Inv(b, u)
    BY <1>2, ResetSolnInv
  <2>2. Cleared(b) /\ b.variant = "input" /\ Same(b, a, SolnFields)
    BY <1>2, ResetSolnFacts, TidyFromSolnInv DEF Inv
  <2> QED
    BY <2>1, <2>2, <1>2 DEF Same, Fields, SolnFields, AtorFields
<1> HIDE DEF b
<1>4. b \in RunRec
  BY <1>3 DEF Inv
<1>5. r \in RunRec
  BY <1>4 DEF RunRec
<1>6. Same(r, b, {"accAfterOptImp"})
  BY <1>4 DEF RunRec, Same, Fields
<1>7. r.accAfterOptImp = x
  BY <1>4 DEF RunRec
<1> HIDE DEF r
<1>8. SolnInv(r)
  BY <1>3, <1>6 DEF Inv, SolnInv, Same, Fields
<1>9. OptInv(r)
  BY <1>3, <1>6, <1>7 DEF Inv, OptInv, Fits, Same, Fields
<1>10. UsedInv(r, u)
  BY <1>3, <1>6 DEF Inv, UsedInv, Same, Fields
<1>11. SoftInv(r, u)
  BY <1>3, <1>6 DEF Inv, SoftInv, NeedsSlbvVar, Same, Fields
<1> QED
  BY <1>1, <1>5, <1>8, <1>9, <1>10, <1>11 DEF Inv

LEMMA SetAccAfterSoftLBInv ==
  ASSUME NEW u, NEW w, Inv(w, u), w.extOptMgr = "none", NEW x \in BOOLEAN
  PROVE  Inv(SetAccAfterSoftLB(w, x), u)
<1> DEFINE a == ResetSoln(w)
           b == IF x # a.accAfterSoftLB THEN ShutDown(a) ELSE a
           r == [b EXCEPT !.accAfterSoftLB = x]
<1>1. SetAccAfterSoftLB(w, x) = r
  BY DEF SetAccAfterSoftLB
<1>2. Inv(a, u) /\ a.extOptMgr = "none"
  <2>1. Same(a, w, SolnFields)
    BY ResetSolnFacts, TidyFromSolnInv DEF Inv
  <2> QED
    BY <2>1, ResetSolnInv DEF Same, Fields, SolnFields, AtorFields
<1> HIDE DEF a
<1>3. Inv(b, u) /\ (b.op # "none" => b.accAfterSoftLB = x)
  <2>1. CASE x # a.accAfterSoftLB
    <3>1. b = ShutDown(a)
      BY <2>1
    <3> QED
      BY <3>1, <1>2, ShutDownInv
  <2>2. CASE x = a.accAfterSoftLB
    BY <2>2, <1>2
  <2> QED
    BY <2>1, <2>2
<1> HIDE DEF b
<1>4. b \in RunRec
  BY <1>3 DEF Inv
<1>5. r \in RunRec
  BY <1>4 DEF RunRec
<1>6. Same(r, b, {"accAfterSoftLB"})
  BY <1>4 DEF RunRec, Same, Fields
<1>7. r.accAfterSoftLB = x
  BY <1>4 DEF RunRec
<1> HIDE DEF r
<1>8. SolnInv(r)
  BY <1>3, <1>6 DEF Inv, SolnInv, Same, Fields
<1>9. OptInv(r)
  BY <1>3, <1>6 DEF Inv, OptInv, Fits, Same, Fields
<1>10. UsedInv(r, u)
  BY <1>3, <1>6 DEF Inv, UsedInv, Same, Fields
<1>11. SoftInv(r, u)
  <2>1. r.op = b.op /\ r.gap = b.gap
    BY <1>6 DEF Same, Fields
  <2> QED
    BY <2>1, <1>3, <1>7 DEF Inv, SoftInv, NeedsSlbvVar
<1> QED
  BY <1>1, <1>5, <1>8, <1>9, <1>10, <1>11 DEF Inv

\* The attributes that the parts of an allocation are made by.
LEMMA SetModHeurAllocInv ==
  ASSUME NEW u, NEW w, Inv(w, u), NEW x \in BOOLEAN
  PROVE  Inv(SetModHeurAlloc(w, x), u)
<1> DEFINE a == ResetSoln(w)
           r == [a EXCEPT !.modHeurAlloc = x]
<1>1. SetModHeurAlloc(w, x) = r
  BY DEF SetModHeurAlloc
<1>2. Inv(a, u) /\ Cleared(a)
  BY ResetSolnInv, ResetSolnFacts, TidyFromSolnInv DEF Inv
<1> HIDE DEF a
<1>3. a \in RunRec
  BY <1>2 DEF Inv
<1>4. r \in RunRec
  BY <1>3 DEF RunRec
<1>5. Same(r, a, {"modHeurAlloc"})
  BY <1>3 DEF RunRec, Same, Fields
<1> HIDE DEF r
<1>6. SolnInv(r)
  BY <1>2, <1>5 DEF Inv, SolnInv, Cleared, Same, Fields
<1>7. Same(r, a, FreeFields) /\ r.preprocessed = a.preprocessed /\ r.tables = a.tables
  BY <1>5 DEF Same, Fields, FreeFields
<1> QED
  BY <1>1, <1>2, <1>4, <1>6, <1>7, OptKept DEF Inv

LEMMA SetPerfPeggingInv ==
  ASSUME NEW u, NEW w, Inv(w, u), NEW x \in BOOLEAN
  PROVE  Inv(SetPerfPegging(w, x), u)
<1> DEFINE a == ResetSoln(w)
           r == [a EXCEPT !.perfPegging = x]
<1>1. SetPerfPegging(w, x) = r
  BY DEF SetPerfPegging
<1>2. Inv(a, u) /\ Cleared(a)
  BY ResetSolnInv, ResetSolnFacts, TidyFromSolnInv DEF Inv
<1> HIDE DEF a
<1>3. a \in RunRec
  BY <1>2 DEF Inv
<1>4. r \in RunRec
  BY <1>3 DEF RunRec
<1>5. Same(r, a, {"perfPegging"})
  BY <1>3 DEF RunRec, Same, Fields
<1> HIDE DEF r
<1>6. SolnInv(r)
  BY <1>2, <1>5 DEF Inv, SolnInv, Cleared, Same, Fields
<1>7. Same(r, a, FreeFields) /\ r.preprocessed = a.preprocessed /\ r.tables = a.tables
  BY <1>5 DEF Same, Fields, FreeFields
<1> QED
  BY <1>1, <1>2, <1>4, <1>6, <1>7, OptKept DEF Inv

\* A new problem satisfies the invariant, if the old one left in order.
LEMMA FreshInv ==
  ASSUME NEW u, NEW r \in RunRec, Same(r, Fresh, {"ok"}),
         r.ok \/ "ShutDownExtOpt" \in u
  PROVE  Inv(r, u)
<1>1. /\ Cleared(r) /\ r.variant = "input" /\ Fits(r) /\ ~r.accelerated
      /\ r.op = "none" /\ r.extOptMgr = "none" /\ ~r.extOptActive
      /\ ~r.preprocessed
  BY DEF Same, Fields, Fresh, Cleared, Fits
<1>2. SolnInv(r)
  BY <1>1, ClearedSolnInv
<1>3. OptInv(r) /\ UsedInv(r, u) /\ SoftInv(r, u)
  BY <1>1 DEF OptInv, UsedInv, SoftInv
<1> QED
  BY <1>2, <1>3 DEF Inv

LEMMA FreshFacts == Fresh \in RunRec /\ Fresh.ok
<1>1. Fresh \in RunRec
  BY GapsAssumption DEF Fresh, RunRec, Variants, Starters
<1> QED
  BY <1>1 DEF Fresh

LEMMA InitializeInv ==
  ASSUME NEW u, NEW w, Inv(w, u)
  PROVE  Inv(Initialize(w), u)
<1>0. PICK x : x = Unpreprocess(w).ok
  OBVIOUS
<1>1. Initialize(w) = [Fresh EXCEPT !.ok = x]
  BY <1>0 DEF Initialize
<1>2. x = w.ok
  <2>1. CASE w.preprocessed
    <3>1. Same(Unpreprocess(w), w, SolnFields \cup OptimumFields \cup TableFields)
      BY <2>1, UnpreprocessFacts, TidyFromSolnInv DEF Inv, OptInv
    <3> QED
      BY <1>0, <3>1 DEF Same, Fields, SolnFields, AtorFields, OptimumFields, TableFields
  <2>2. CASE ~w.preprocessed
    BY <1>0, <2>2 DEF Unpreprocess
  <2> QED
    BY <2>1, <2>2
<1>3. x \in BOOLEAN /\ (x \/ "ShutDownExtOpt" \in u)
  BY <1>2 DEF Inv, UsedInv, RunRec
<1> DEFINE r == [Fresh EXCEPT !.ok = x]
<1>4. r \in RunRec
  BY <1>3, FreshFacts DEF RunRec
<1>5. r.ok = x
  BY FreshFacts DEF RunRec
<1>6. Same(r, Fresh, {"ok"})
  BY FreshFacts DEF RunRec, Same, Fields
<1> QED
  BY <1>1, <1>3, <1>4, <1>5, <1>6, FreshInv

-------------------------------------------------------------------------------
IInv == Inv(run, used)

LEMMA InitIInv == Init => IInv
  BY FreshFacts, FreshInv DEF Init, IInv, Same

LEMMA NextIInv == IInv /\ [Next]_vars => IInv'
<1> SUFFICES ASSUME Inv(run, used), [Next]_vars PROVE Inv(run', used')
  BY DEF IInv
<1>1. CASE witInitialize
  BY <1>1, InitializeInv, DoesInv DEF witInitialize
<1>2. CASE witPreprocess
  BY <1>2, PreprocessInv, DoesInv DEF witPreprocess
<1>3. CASE witPostprocess
  BY <1>3, PostprocessInv, DoesInv DEF witPostprocess
<1>4. CASE witGetExpCycle
  BY <1>4, GetExpCycleInv, DoesInv DEF witGetExpCycle, Calling
<1>5. CASE witHeurImplode
  BY <1>5, HeurImplodeInv, DoesInv DEF witHeurImplode
<1>6. CASE witStartHeurAlloc
  BY <1>6, StartHeurInv, DoesInv DEF witStartHeurAlloc
<1>7. CASE witEqHeurAlloc
  BY <1>7, ActivateEqInv, DoesInv DEF witEqHeurAlloc
<1>8. CASE witFinishHeurAlloc
  BY <1>8, PostprocessInv, DoesInv DEF witFinishHeurAlloc
<1>9. CASE witShutDownHeurAlloc
  BY <1>9, HeurResetInv, DoesInv DEF witShutDownHeurAlloc
<1>10. CASE witBuildPip
  BY <1>10, BuildPipInv, DoesInv DEF witBuildPip
<1>11. CASE witGetFss
  BY <1>11, GetFssInv, DoesInv DEF witGetFss
<1>12. CASE witOptImplode
  BY <1>12, OptImplodeInv, DoesInv DEF witOptImplode, Calling, ApiExtOptActive
<1>13. CASE witEvalObjectives
  BY <1>13, EvalObjectivesInv, DoesInv DEF witEvalObjectives, Calling
<1>14. CASE witStartExtOpt
  BY <1>14, StartExtOptInv, DoesInv DEF witStartExtOpt, Calling, ApiExtOptActive
<1>15. CASE witSetExtOptSoln
  BY <1>15, SetExtOptSolnInv, DoesInv DEF witSetExtOptSoln, ApiExtOptActive
<1>16. CASE witFinishExtOpt
  BY <1>16, FinishExtOptInv, DoesInv DEF witFinishExtOpt
<1>17. CASE witShutDownExtOpt
  BY <1>17, ShutDownExtOptInv, DoesInv DEF witShutDownExtOpt, ApiExtOptActive
<1>18. CASE witSetUnpreAttr
  BY <1>18, SetUnpreAttrInv, DoesInv DEF witSetUnpreAttr, Calling, ApiExtOptActive
<1>19. CASE witSetUnpostAttr
  BY <1>19, SetUnpostAttrInv, DoesInv DEF witSetUnpostAttr
<1>20. CASE witSetVol
  BY <1>20, SetVolInv, DoesInv DEF witSetVol, Calling, ApiExtOptActive
<1>21. CASE witSetBounds
  BY <1>21, SetBoundsInv, DoesInv DEF witSetBounds, Calling, ApiExtOptActive
<1>22. CASE witSetAccAfterOptImp
  BY <1>22, SetAccAfterOptImpInv, DoesInv
  DEF witSetAccAfterOptImp, Calling, ApiExtOptActive
<1>23. CASE witSetAccAfterSoftLB
  BY <1>23, SetAccAfterSoftLBInv, DoesInv
  DEF witSetAccAfterSoftLB, Calling, ApiExtOptActive
<1>24. CASE witSetModHeurAlloc
  BY <1>24, SetModHeurAllocInv, DoesInv DEF witSetModHeurAlloc
<1>25. CASE witSetPerfPegging
  BY <1>25, SetPerfPeggingInv, DoesInv DEF witSetPerfPegging
<1>26. CASE witSetOptInitMethod
  BY <1>26, SetOptInitMethodInv, DoesInv
  DEF witSetOptInitMethod, Calling, ApiExtOptActive
<1>27. CASE UNCHANGED vars
  BY <1>27 DEF vars
<1> QED
  BY <1>1, <1>2, <1>3, <1>4, <1>5, <1>6, <1>7, <1>8, <1>9, <1>10, <1>11, <1>12,
     <1>13, <1>14, <1>15, <1>16, <1>17, <1>18, <1>19, <1>20, <1>21, <1>22, <1>23,
     <1>24, <1>25, <1>26, <1>27 DEF Next

LEMMA AlwaysIInv == Spec => []IInv
  BY InitIInv, NextIInv, PTL DEF Spec

-------------------------------------------------------------------------------
\* Every part of the problem stays in one of its states.
THEOREM PartsKeepTheirType == Spec => []TypeOK
<1>1. IInv => TypeOK
  BY DEF IInv, Inv, TypeOK
<1> QED
  BY <1>1, AlwaysIInv, PTL

\* Without witShutDownExtOpt no assertion about the starting method, external
\* optimization, the equitable allocator, the modifier or the deletion of the
\* problem ever fails (AssertionsHold), whatever the application calls.
THEOREM NoLifecycleAssertionFails == Spec => []AssertionsHold
<1>1. IInv => AssertionsHold
  BY DEF IInv, Inv, UsedInv, AssertionsHold, NoAssertionFails
<1> QED
  BY <1>1, AlwaysIInv, PTL

\* Tables, postprocessed results, PIP, shortage schedule and variant are
\* always those of the present data and solution (DerivedDataIsCurrent).
THEOREM DerivedDataStaysCurrent == Spec => []DerivedDataIsCurrent
<1>1. IInv => DerivedDataIsCurrent
  <2> SUFFICES ASSUME IInv PROVE DerivedDataIsCurrent
    OBVIOUS
  <2>1. TablesAreCurrent
    BY DEF IInv, Inv, UsedInv, TablesAreCurrent, PreprocessedHasTables
  <2>2. ResultsAreCurrent /\ PostprocessedIsFinal /\ VariantIsAuthor
    BY DEF IInv, Inv, SolnInv, ResultsAreCurrent, PostprocessedIsFinal, VariantIsAuthor
  <2> QED
    BY <2>1, <2>2 DEF DerivedDataIsCurrent
<1> QED
  BY <1>1, AlwaysIInv, PTL

\* An allocation under way has the derived tables, the modifier and the
\* pegger that it uses (AllocationIsConsistent).
THEOREM AllocationStaysConsistent == Spec => []AllocationIsConsistent
<1>1. IInv => AllocationIsConsistent
  BY DEF IInv, Inv, SolnInv, AllocationIsConsistent
<1> QED
  BY <1>1, AlwaysIInv, PTL

\* The optimization problem, acceleration and external optimization exist
\* only with what they rest on (OptimizationIsSound).  A gap that is positive
\* but too small to count is the exception that the code makes: WitBoundSet
\* compares with zero where WitBoundedVar compares with FLOAT_EPSILON.
THEOREM OptimizationStaysSound ==
  ASSUME Tiny \notin Gaps
  PROVE  Spec => []OptimizationIsSound
<1>1. IInv => OptimizationIsSound
  <2> SUFFICES ASSUME IInv PROVE OptimizationIsSound
    OBVIOUS
  <2>1. AccelerationIsSound
    BY DEF IInv, Inv, OptInv, Fits, AccelerationIsSound
  <2>2. ExtOptIsConsistent
    BY DEF IInv, Inv, OptInv, UsedInv, ExtOptIsConsistent, ApiExtOptActive
  <2>3. SoftBoundsHaveVars
    BY DEF IInv, Inv, SoftInv, SoftBoundsHaveVars, SoftBoundsCanBeViolated
  <2> QED
    BY <2>1, <2>2, <2>3 DEF OptimizationIsSound
<1> QED
  BY <1>1, AlwaysIInv, PTL

\* Optimizing implosion starts from the solution that it is asked to start
\* from (StartsAsAsked).
THEOREM ImplosionStartsAsAsked == Spec => StartsAsAsked
<1>1. IInv /\ [Next]_vars =>
        [witOptImplode /\ "ShutDownExtOpt" \notin used =>
           run'.init = run.optInitMethod]_vars
  <2> SUFFICES ASSUME IInv, witOptImplode, "ShutDownExtOpt" \notin used
               PROVE  run'.init = run.optInitMethod
    OBVIOUS
  <2>1. /\ Inv(OptImplode(run), used)
        /\ OptImplode(run).init = run.optInitMethod
    BY OptImplodeInv DEF IInv, witOptImplode, Calling, ApiExtOptActive
  <2>2. run' = OptImplode(run)
    BY <2>1 DEF IInv, Inv, UsedInv, witOptImplode, Does
  <2> QED
    BY <2>1, <2>2
<1> QED
  BY <1>1, AlwaysIInv, PTL DEF Spec, StartsAsAsked
=============================================================================
