---------------------------- MODULE HeurAllocProofs ----------------------------
(***************************************************************************)
(* Theorems on heuristic allocation, for every network, every supply and   *)
(* demand and every sequence of calls.                                     *)
(*                                                                         *)
(* 1. Undo.  Temporary commits can be undone at every step and leave no    *)
(*    trace, and every commit starts with an empty requirements schedule,  *)
(*    whichever commits before it have failed and wherever.                *)
(* 2. The local variables of an explosion.                                 *)
(* 3. The availability schedule never promises more than there is: the     *)
(*    invariant Allocation, with what it needs of lists, of the local      *)
(*    variables, of the functions of WitAvailSched and of lot sizes.       *)
(* 4. What follows from it: no stock is allocated across a mandatory EC,   *)
(*    lastDecPer_ bounds the periods in which availability is negative,    *)
(*    types, and the order in which requirements are filled.               *)
(* 5. A permanent commit does what the last temporary commit that          *)
(*    succeeded has done, so it succeeds.                                  *)
(***************************************************************************)
EXTENDS HeurAllocProps, NumberFacts, SequenceTheorems, TLAPS

(***************************************************************************)
(* The data repository: saving before every assignment keeps the base      *)
(* values recoverable, each step of restore() keeps them recoverable, and  *)
(* when nothing is saved any more they are recovered.                      *)
(***************************************************************************)

IsStack(stack) == \E S : stack \in Seq(S)

\* The shape of a store, whatever the values of its variables.
StoreShape(s) ==
  /\ s = [mem |-> s.mem, log |-> s.log]
  /\ s.mem = [loc \in DOMAIN s.mem |-> s.mem[loc]]
  /\ s.log = [k \in Kinds |-> s.log[k]]
  /\ \A k \in Kinds :
       /\ IsStack(s.log[k])
       /\ \A i \in 1..Len(s.log[k]) : KindOf(s.log[k][i].loc) = k

\* The length of a stack, and its elements after a push and after a pop.
LEMMA StackPush ==
  ASSUME NEW stack, IsStack(stack), NEW e
  PROVE  /\ Len(stack) \in Nat
         /\ IsStack(Append(stack, e))
         /\ Len(Append(stack, e)) = Len(stack) + 1
         /\ \A i \in 1..Len(stack) : Append(stack, e)[i] = stack[i]
         /\ Append(stack, e)[Len(stack) + 1] = e
<1>1. PICK S : stack \in Seq(S)
  BY DEF IsStack
<1>2. stack \in Seq(S \cup {e})
  BY <1>1, SeqMonotonic
<1>3. Append(stack, e) \in Seq(S \cup {e})
  BY <1>2
<1>4. QED
  BY <1>2, <1>3 DEF IsStack

LEMMA StackPop ==
  ASSUME NEW stack, IsStack(stack), stack # <<>>
  PROVE  LET rest   == SubSeq(stack, 1, Len(stack) - 1)
         IN  /\ Len(stack) \in Nat \ {0}
             /\ IsStack(rest)
             /\ Len(rest) = Len(stack) - 1
             /\ \A i \in 1..Len(rest) : rest[i] = stack[i]
<1>1. PICK S : stack \in Seq(S)
  BY DEF IsStack
<1>2. Len(stack) \in Nat \ {0}
  BY <1>1, EmptySeq
<1>3. \A i \in 1..(Len(stack) - 1) : stack[i] \in S
  BY <1>1, <1>2
<1> DEFINE rest   == SubSeq(stack, 1, Len(stack) - 1)
<1>4. /\ rest \in Seq(S)
      /\ Len(rest) = IF 1 <= Len(stack) - 1 THEN Len(stack) - 1 - 1 + 1 ELSE 0
      /\ \A i \in 1..(Len(stack) - 1 - 1 + 1) : rest[i] = stack[1 + i - 1]
  BY <1>2, <1>3, SubSeqProperties
<1>5. Len(rest) = Len(stack) - 1
  <2> HIDE DEF rest
  <2>1. CASE Len(stack) = 1
    BY <2>1, <1>4
  <2>2. CASE Len(stack) > 1
    BY <2>2, <1>2, <1>4
  <2>3. QED
    BY SMTT(30), <2>1, <2>2, <1>2
<1>6. \A i \in 1..Len(rest) : rest[i] = stack[i]
  BY <1>2, <1>4, <1>5
<1>7. QED
  BY <1>2, <1>4, <1>5, <1>6 DEF IsStack

\* A new store has the shape of a store, and nothing is saved in it.
LEMMA NewStoreIsClean ==
  ASSUME NEW mem, mem = [loc \in DOMAIN mem |-> mem[loc]]
  PROVE  /\ StoreShape(NewStore(mem))
         /\ Clean(NewStore(mem))
         /\ NewStore(mem).mem = mem
<1>1. <<>> \in Seq({}) /\ Len(<<>>) = 0
  BY EmptySeq
<1>2. IsStack(<<>>)
  BY <1>1 DEF IsStack
<1>3. QED
  BY <1>1, <1>2 DEF StoreShape, NewStore, EmptyLog, Clean

\* An assignment that is not saved changes nothing but the value.
LEMMA AssignShape ==
  ASSUME NEW s, StoreShape(s), NEW loc, NEW val
  PROVE  /\ StoreShape(Assign(s, loc, val))
         /\ Assign(s, loc, val).log = s.log
         /\ DOMAIN Assign(s, loc, val).mem = DOMAIN s.mem
  BY DEF StoreShape, Assign

\* Saving first keeps the shape of the store.
LEMMA SaveShape ==
  ASSUME NEW s, StoreShape(s), NEW loc, KindOf(loc) \in Kinds, NEW val
  PROVE  /\ StoreShape(SaveAndAssign(s, loc, val))
         /\ DOMAIN SaveAndAssign(s, loc, val).mem = DOMAIN s.mem
<1> DEFINE t == SaveAndAssign(s, loc, val)
           k == KindOf(loc)
           pair == [loc |-> loc, val |-> s.mem[loc]]
<1>1. t.log = [s.log EXCEPT ![k] = Append(s.log[k], pair)]
  BY DEF SaveAndAssign, StoreShape
<1>2. ASSUME NEW j \in Kinds
      PROVE  /\ IsStack(t.log[j])
             /\ \A i \in 1..Len(t.log[j]) : KindOf(t.log[j][i].loc) = j
  <2>1. CASE j # k
    BY <2>1, <1>1 DEF StoreShape
  <2>2. CASE j = k
    <3>1. t.log[j] = Append(s.log[j], pair)
      BY <2>2, <1>1 DEF StoreShape
    <3>2. IsStack(s.log[j])
      BY DEF StoreShape
    <3>3. /\ Len(s.log[j]) \in Nat
          /\ IsStack(t.log[j])
          /\ Len(t.log[j]) = Len(s.log[j]) + 1
          /\ \A i \in 1..Len(s.log[j]) : t.log[j][i] = s.log[j][i]
          /\ t.log[j][Len(s.log[j]) + 1] = pair
      BY <3>1, <3>2, StackPush
    <3>4. ASSUME NEW i \in 1..Len(t.log[j])
          PROVE  KindOf(t.log[j][i].loc) = j
      <4>1. CASE i = Len(s.log[j]) + 1
        BY <4>1, <3>3, <2>2
      <4>2. CASE i \in 1..Len(s.log[j])
        BY <4>2, <3>3 DEF StoreShape
      <4>3. QED
        BY <4>1, <4>2, <3>3
    <3>5. QED
      BY <3>3, <3>4
  <2>3. QED
    BY <2>1, <2>2
<1>3. t = [mem |-> t.mem, log |-> t.log] /\ DOMAIN t.mem = DOMAIN s.mem
  BY DEF SaveAndAssign, StoreShape
<1>4. t.mem = [l \in DOMAIN t.mem |-> t.mem[l]]
  BY DEF SaveAndAssign, StoreShape
<1>5. t.log = [j \in Kinds |-> t.log[j]]
  BY <1>1 DEF StoreShape
<1>6. QED
  BY <1>2, <1>3, <1>4, <1>5 DEF StoreShape

------------------------------------------------------------------------------

\* What a push and a pop do to the oldest pair of a variable.
LEMMA PushKeeps ==
  ASSUME NEW stack, IsStack(stack), NEW e, NEW loc, NEW val
  PROVE  LET pushed == Append(stack, e)
         IN  /\ OldestIs(stack, loc, val) => OldestIs(pushed, loc, val)
             /\ NotSaved(stack, loc) /\ e.loc # loc => NotSaved(pushed, loc)
             /\ NotSaved(stack, loc) /\ e.loc = loc /\ e.val = val
                  => OldestIs(pushed, loc, val)
<1> DEFINE pushed == Append(stack, e)
<1>1. /\ Len(stack) \in Nat
      /\ Len(pushed) = Len(stack) + 1
      /\ \A i \in 1..Len(stack) : pushed[i] = stack[i]
      /\ pushed[Len(stack) + 1] = e
  BY StackPush
<1> HIDE DEF pushed
<1>2. ASSUME OldestIs(stack, loc, val)
      PROVE  OldestIs(pushed, loc, val)
  <2>1. PICK i \in 1..Len(stack) : /\ stack[i].loc = loc
                                  /\ stack[i].val = val
                                  /\ \A j \in 1..(i-1) : stack[j].loc # loc
    BY <1>2 DEF OldestIs
  <2>2. \A j \in 1..(i-1) : pushed[j].loc # loc
    BY <2>1, <1>1
  <2>3. i \in 1..Len(pushed) /\ pushed[i] = stack[i]
    BY <1>1
  <2>4. QED
    BY <2>1, <2>2, <2>3 DEF OldestIs
<1>3. ASSUME NotSaved(stack, loc), e.loc # loc
      PROVE  NotSaved(pushed, loc)
  BY <1>1, <1>3 DEF NotSaved
<1>4. ASSUME NotSaved(stack, loc), e.loc = loc, e.val = val
      PROVE  OldestIs(pushed, loc, val)
  BY <1>1, <1>4 DEF NotSaved, OldestIs
<1>5. QED
  BY <1>2, <1>3, <1>4 DEF pushed

LEMMA PopKeeps ==
  ASSUME NEW stack, IsStack(stack), stack # <<>>, NEW loc, NEW val
  PROVE  LET latest == stack[Len(stack)]
             rest   == SubSeq(stack, 1, Len(stack) - 1)
         IN  /\ NotSaved(stack, loc) => NotSaved(rest, loc) /\ latest.loc # loc
             /\ OldestIs(stack, loc, val) =>
                  \/ OldestIs(rest, loc, val)
                  \/ NotSaved(rest, loc) /\ latest.loc = loc /\ latest.val = val
<1> DEFINE latest == stack[Len(stack)]
           rest   == SubSeq(stack, 1, Len(stack) - 1)
<1>1. /\ Len(stack) \in Nat \ {0}
      /\ Len(rest) = Len(stack) - 1
      /\ \A i \in 1..Len(rest) : rest[i] = stack[i]
  BY StackPop
<1> HIDE DEF rest
<1>2. ASSUME NotSaved(stack, loc)
      PROVE  NotSaved(rest, loc) /\ latest.loc # loc
  BY <1>1, <1>2 DEF NotSaved
<1>3. ASSUME OldestIs(stack, loc, val)
      PROVE  \/ OldestIs(rest, loc, val)
             \/ NotSaved(rest, loc) /\ latest.loc = loc /\ latest.val = val
  <2>1. PICK i \in 1..Len(stack) : /\ stack[i].loc = loc
                                  /\ stack[i].val = val
                                  /\ \A j \in 1..(i-1) : stack[j].loc # loc
    BY <1>3 DEF OldestIs
  <2>2. CASE i = Len(stack)
    BY <2>1, <2>2, <1>1 DEF NotSaved
  <2>3. CASE i < Len(stack)
    <3>1. i \in 1..Len(rest) /\ rest[i] = stack[i]
      BY <2>3, <1>1
    <3>2. \A j \in 1..(i-1) : rest[j].loc # loc
      BY <2>1, <2>3, <1>1
    <3>3. QED
      BY <2>1, <3>1, <3>2 DEF OldestIs
  <2>4. QED
    BY <2>2, <2>3, <1>1
<1>4. QED
  BY <1>2, <1>3 DEF rest

------------------------------------------------------------------------------

\* Saving before an assignment keeps the base recoverable: saveVal.
LEMMA SaveRecovers ==
  ASSUME NEW s, StoreShape(s), NEW orig, Recovers(s, orig),
         \A l \in DOMAIN orig : KindOf(l) \in Kinds,
         NEW loc, KindOf(loc) \in Kinds, NEW val
  PROVE  Recovers(SaveAndAssign(s, loc, val), orig)
<1> DEFINE t == SaveAndAssign(s, loc, val)
           k == KindOf(loc)
           pair == [loc |-> loc, val |-> s.mem[loc]]
<1>1. /\ t.mem = [s.mem EXCEPT ![loc] = val]
      /\ t.log = [s.log EXCEPT ![k] = Append(s.log[k], pair)]
  BY DEF SaveAndAssign, StoreShape
<1>2. DOMAIN t.mem = DOMAIN orig /\ DOMAIN s.mem = DOMAIN orig
  BY <1>1 DEF Recovers
<1> HIDE DEF t
<1>3. ASSUME NEW l \in DOMAIN orig
      PROVE  \/ NotSaved(t.log[KindOf(l)], l) /\ t.mem[l] = orig[l]
             \/ OldestIs(t.log[KindOf(l)], l, orig[l])
  <2>1. \/ NotSaved(s.log[KindOf(l)], l) /\ s.mem[l] = orig[l]
        \/ OldestIs(s.log[KindOf(l)], l, orig[l])
    BY DEF Recovers
  <2>2. CASE KindOf(l) # k
    <3>1. t.log[KindOf(l)] = s.log[KindOf(l)]
      BY <2>2, <1>1 DEF StoreShape
    <3>2. t.mem[l] = s.mem[l]
      BY <2>2, <1>1, <1>2
    <3>3. QED
      BY <2>1, <3>1, <3>2
  <2>3. CASE KindOf(l) = k
    <3>1. t.log[k] = Append(s.log[k], pair) /\ IsStack(s.log[k])
      BY <1>1 DEF StoreShape
    <3>2. CASE OldestIs(s.log[k], l, orig[l])
      BY <2>3, <3>1, <3>2, PushKeeps
    <3>3. CASE NotSaved(s.log[k], l) /\ s.mem[l] = orig[l] /\ l = loc
      <4>1. pair.loc = l /\ pair.val = orig[l]
        BY <3>3
      <4>2. QED
        BY <2>3, <3>1, <3>3, <4>1, PushKeeps
    <3>4. CASE NotSaved(s.log[k], l) /\ s.mem[l] = orig[l] /\ l # loc
      <4>1. pair.loc # l
        BY <3>4
      <4>2. t.mem[l] = s.mem[l]
        BY <3>4, <1>1, <1>2
      <4>3. QED
        BY <2>3, <3>1, <3>4, <4>1, <4>2, PushKeeps
    <3>5. QED
      BY <2>1, <2>3, <3>2, <3>3, <3>4
  <2>4. QED
    BY <2>2, <2>3
<1>4. QED
  BY <1>2, <1>3 DEF Recovers, t

\* One iteration of restore() keeps the shape of the store and keeps the base
\* recoverable.
LEMMA PopShape ==
  ASSUME NEW s, StoreShape(s), NEW k \in Kinds, s.log[k] # <<>>
  PROVE  /\ StoreShape(PopKind(s, k))
         /\ DOMAIN PopKind(s, k).mem = DOMAIN s.mem
<1> DEFINE t == PopKind(s, k)
           stack == s.log[k]
           rest   == SubSeq(stack, 1, Len(stack) - 1)
<1>1. /\ t = [mem |-> t.mem, log |-> t.log]
      /\ t.mem = [l \in DOMAIN t.mem |-> t.mem[l]]
      /\ DOMAIN t.mem = DOMAIN s.mem
      /\ t.log = [s.log EXCEPT ![k] = rest]
  BY DEF PopKind, StoreShape
<1>2. /\ Len(stack) \in Nat \ {0}
      /\ IsStack(rest)
      /\ Len(rest) = Len(stack) - 1
      /\ \A i \in 1..Len(rest) : rest[i] = stack[i]
  BY StackPop DEF StoreShape
<1> HIDE DEF t, rest
<1>3. t.log = [j \in Kinds |-> t.log[j]]
  BY <1>1 DEF StoreShape
<1>4. ASSUME NEW j \in Kinds
      PROVE  /\ IsStack(t.log[j])
             /\ \A i \in 1..Len(t.log[j]) : KindOf(t.log[j][i].loc) = j
  <2>1. CASE j # k
    BY <2>1, <1>1 DEF StoreShape
  <2>2. CASE j = k
    <3>1. t.log[j] = rest
      BY <2>2, <1>1 DEF StoreShape
    <3>2. \A i \in 1..Len(rest) : KindOf(rest[i].loc) = k
      BY <1>2 DEF StoreShape
    <3>3. QED
      BY <2>2, <3>1, <3>2, <1>2
  <2>3. QED
    BY <2>1, <2>2
<1>5. QED
  BY <1>1, <1>3, <1>4 DEF StoreShape, t

LEMMA PopRecovers ==
  ASSUME NEW s, StoreShape(s), NEW orig, Recovers(s, orig),
         \A l \in DOMAIN orig : KindOf(l) \in Kinds,
         NEW k \in Kinds, s.log[k] # <<>>
  PROVE  Recovers(PopKind(s, k), orig)
<1> DEFINE t == PopKind(s, k)
           stack == s.log[k]
           latest == stack[Len(stack)]
           rest   == SubSeq(stack, 1, Len(stack) - 1)
<1>1. /\ t.mem = [s.mem EXCEPT ![latest.loc] = latest.val]
      /\ t.log = [s.log EXCEPT ![k] = rest]
  BY DEF PopKind, StoreShape
<1>2. IsStack(stack) /\ Len(stack) \in Nat \ {0}
  BY StackPop DEF StoreShape
<1>3. KindOf(latest.loc) = k
  BY <1>2 DEF StoreShape
<1>4. DOMAIN t.mem = DOMAIN orig /\ DOMAIN s.mem = DOMAIN orig
  BY <1>1 DEF Recovers
<1> HIDE DEF t
<1>5. ASSUME NEW l \in DOMAIN orig
      PROVE  \/ NotSaved(t.log[KindOf(l)], l) /\ t.mem[l] = orig[l]
             \/ OldestIs(t.log[KindOf(l)], l, orig[l])
  <2>1. \/ NotSaved(s.log[KindOf(l)], l) /\ s.mem[l] = orig[l]
        \/ OldestIs(s.log[KindOf(l)], l, orig[l])
    BY DEF Recovers
  <2>2. CASE KindOf(l) # k
    <3>1. t.log[KindOf(l)] = s.log[KindOf(l)]
      BY <2>2, <1>1 DEF StoreShape
    <3>2. t.mem[l] = s.mem[l]
      BY <2>2, <1>1, <1>3, <1>4
    <3>3. QED
      BY <2>1, <3>1, <3>2
  <2>3. CASE KindOf(l) = k
    <3>1. t.log[k] = rest
      BY <1>1 DEF StoreShape
    <3>2. CASE NotSaved(stack, l) /\ s.mem[l] = orig[l]
      <4>1. NotSaved(rest, l) /\ latest.loc # l
        BY <3>2, <1>2, PopKeeps
      <4>2. t.mem[l] = orig[l]
        BY <3>2, <4>1, <1>1, <1>4
      <4>3. QED
        BY <2>3, <3>1, <4>1, <4>2
    <3>3. CASE OldestIs(stack, l, orig[l])
      <4>1. \/ OldestIs(rest, l, orig[l])
            \/ NotSaved(rest, l) /\ latest.loc = l /\ latest.val = orig[l]
        BY <3>3, <1>2, PopKeeps
      <4>2. latest.loc = l /\ latest.val = orig[l] => t.mem[l] = orig[l]
        BY <1>1, <1>4
      <4>3. QED
        BY <2>3, <3>1, <4>1, <4>2
    <3>4. QED
      BY <2>1, <2>3, <3>2, <3>3
  <2>4. QED
    BY <2>2, <2>3
<1>6. QED
  BY <1>4, <1>5 DEF Recovers, t

\* restore() finds a stack that is not empty as long as there is one.
LEMMA RestoringIsFound ==
  ASSUME NEW s, StoreShape(s), ~Clean(s)
  PROVE  Restoring(s) \in Kinds /\ s.log[Restoring(s)] # <<>>
<1> DEFINE empty(i) == s.log[RestoreOrder[i]] = <<>>
           first(i) == ~empty(i) /\ \A j \in 1..(i-1) : empty(j)
<1>1. /\ RestoreOrder[1] = "int"  /\ RestoreOrder[2] = "dbl"
      /\ RestoreOrder[3] = "exec" /\ RestoreOrder[4] = "sub"
  BY DEF RestoreOrder
<1>2. ~empty(1) \/ ~empty(2) \/ ~empty(3) \/ ~empty(4)
  BY <1>1 DEF Clean, Kinds
<1> HIDE DEF empty
<1>3. \E i \in 1..4 : first(i)
  <2>1. CASE ~empty(1)
    BY <2>1
  <2>2. CASE empty(1) /\ ~empty(2)
    BY <2>2
  <2>3. CASE empty(1) /\ empty(2) /\ ~empty(3)
    <3>1. \A j \in 1..(3-1) : j = 1 \/ j = 2
      OBVIOUS
    <3>2. first(3)
      BY <2>3, <3>1
    <3>3. QED
      BY <3>2
  <2>4. CASE empty(1) /\ empty(2) /\ empty(3) /\ ~empty(4)
    <3>1. \A j \in 1..(4-1) : j = 1 \/ j = 2 \/ j = 3
      OBVIOUS
    <3>2. first(4)
      BY <2>4, <3>1
    <3>3. QED
      BY <3>2
  <2>5. QED
    BY <1>2, <2>1, <2>2, <2>3, <2>4
<1> DEFINE c == CHOOSE i \in 1..4 : first(i)
<1>4. c \in 1..4 /\ ~empty(c)
  BY <1>3
<1>5. Restoring(s) = RestoreOrder[c]
  BY DEF Restoring, empty
<1> HIDE DEF c
<1>6. QED
  BY <1>1, <1>4, <1>5 DEF empty, Kinds

LEMMA RestoreStepRecovers ==
  ASSUME NEW s, StoreShape(s), NEW orig, Recovers(s, orig),
         \A l \in DOMAIN orig : KindOf(l) \in Kinds,
         ~Clean(s)
  PROVE  StoreShape(RestoreStep(s)) /\ Recovers(RestoreStep(s), orig)
BY RestoringIsFound, PopShape, PopRecovers DEF RestoreStep

\* When nothing is saved any more, every variable has its base value; and
\* when nothing has been saved yet, the present values are recoverable.
LEMMA CleanIsRecovered ==
  ASSUME NEW s, StoreShape(s), NEW orig,
         orig = [l \in DOMAIN orig |-> orig[l]],
         \A l \in DOMAIN orig : KindOf(l) \in Kinds,
         Clean(s)
  PROVE  Recovers(s, orig) <=> s.mem = orig
<1>1. ASSUME NEW l \in DOMAIN orig
      PROVE  /\ NotSaved(s.log[KindOf(l)], l)
             /\ ~OldestIs(s.log[KindOf(l)], l, orig[l])
  <2>1. s.log[KindOf(l)] = <<>>
    BY DEF Clean
  <2>2. QED
    BY <2>1, EmptySeq DEF NotSaved, OldestIs
<1>2. ASSUME Recovers(s, orig)
      PROVE  s.mem = orig
  BY <1>1, <1>2 DEF Recovers, StoreShape
<1>3. ASSUME s.mem = orig
      PROVE  Recovers(s, orig)
  BY <1>1, <1>3 DEF Recovers
<1>4. QED
  BY <1>2, <1>3

(***************************************************************************)
(* 1. Undo.  All that the proof needs of the explosion is that it changes  *)
(* the solution by Put alone: the lemmas on the data repository do the     *)
(* rest.                                                                   *)
(***************************************************************************)

\* A store of the solution that may be written: while a temporary commit is
\* active the base can be recovered from it, otherwise nothing is saved.
Guarded(s) ==
  /\ StoreShape(s)
  /\ DOMAIN s.mem = SolnLocs
  /\ mode = "temp" => Recovers(s, base)
  /\ mode # "temp" => Clean(s)

\* The inductive invariant.
Rollback ==
  /\ base = [loc \in SolnLocs |-> base[loc]]
  /\ Guarded(soln)
  /\ mode # "temp" => soln.mem = base
  /\ pc = "return" => Clean(soln)
  /\ pc = "perm" => mode # "temp"

\* Every variable of the solution has a kind.
LEMMA SolnLocsHaveKinds == \A loc \in SolnLocs : KindOf(loc) \in Kinds
  BY DEF SolnLocs, AvailLoc, LastDecLoc, ExecLoc, SubLoc, KindOf, Kinds

------------------------------------------------------------------------------

\* Put, and with it AddAvail, keeps the solution guarded.
LEMMA PutGuarded ==
  ASSUME NEW s, Guarded(s), base = [loc \in SolnLocs |-> base[loc]],
         NEW loc, KindOf(loc) \in Kinds, NEW val
  PROVE  Guarded(Put(s, loc, val, mode = "temp"))
<1>1. CASE mode = "temp"
  <2>1. Put(s, loc, val, mode = "temp") = SaveAndAssign(s, loc, val)
    BY <1>1 DEF Put
  <2>2. DOMAIN base = SolnLocs
    OBVIOUS
  <2>3. Recovers(SaveAndAssign(s, loc, val), base)
    BY <1>1, <2>2, SaveRecovers, SolnLocsHaveKinds DEF Guarded
  <2>4. QED
    BY <1>1, <2>1, <2>3, SaveShape DEF Guarded
<1>2. CASE mode # "temp"
  <2>1. Put(s, loc, val, mode = "temp") = Assign(s, loc, val)
    BY <1>2 DEF Put
  <2>2. /\ StoreShape(Assign(s, loc, val))
        /\ Assign(s, loc, val).log = s.log
        /\ DOMAIN Assign(s, loc, val).mem = DOMAIN s.mem
    <3>1. StoreShape(s)
      BY DEF Guarded
    <3>2. QED
      BY <3>1, AssignShape
  <2>3. Clean(Assign(s, loc, val))
    BY <1>2, <2>2 DEF Guarded, Clean
  <2>4. QED
    BY <1>2, <2>1, <2>2, <2>3 DEF Guarded
<1>3. QED
  BY <1>1, <1>2

LEMMA AddAvailGuarded ==
  ASSUME NEW s, Guarded(s), base = [loc \in SolnLocs |-> base[loc]],
         NEW p, NEW t, NEW delta
  PROVE  Guarded(AddAvail(s, p, t, delta))
<1> DEFINE val   == IncAvailVol(s, p, t) + delta
           added == Put(s, AvailLoc(p, t), val, mode = "temp")
<1>1. KindOf(AvailLoc(p, t)) \in Kinds /\ KindOf(LastDecLoc(p)) \in Kinds
  BY DEF AvailLoc, LastDecLoc, KindOf, Kinds
<1>2. Guarded(added)
  BY <1>1, PutGuarded
<1>3. Guarded(Put(added, LastDecLoc(p), t, mode = "temp"))
  BY <1>1, <1>2, PutGuarded
<1>4. QED
  BY <1>2, <1>3 DEF AddAvail, AddToIncAvailVol

------------------------------------------------------------------------------

\* A step that writes the solution, and one that leaves it alone.
LEMMA WriteStep ==
  ASSUME Rollback, NEW s, Guarded(s), Write(s), mode' = mode,
         pc' \notin {"return", "perm"}
  PROVE  Rollback'
<1>1. CASE mode = "temp"
  BY <1>1 DEF Rollback, Guarded, Write
<1>2. CASE mode # "temp"
  <2>1. soln' = s /\ base' = s.mem
    BY <1>2 DEF Write
  <2>2. QED
    BY <1>2, <2>1 DEF Rollback, Guarded, StoreShape
<1>3. QED
  BY <1>1, <1>2

LEMMA KeepStep ==
  ASSUME Rollback, UNCHANGED <<soln, base, mode>>,
         pc' \notin {"return", "perm"}
  PROVE  Rollback'
BY DEF Rollback, Guarded

LEMMA InitRollback == Init => Rollback
<1> SUFFICES ASSUME Init PROVE Rollback
  OBVIOUS
<1>1. /\ InitMem(supplyVol) = [loc \in SolnLocs |-> InitMem(supplyVol)[loc]]
      /\ DOMAIN InitMem(supplyVol) = SolnLocs
  BY DEF InitMem
<1>2. /\ base = InitMem(supplyVol) /\ soln = NewStore(base)
      /\ mode = "none" /\ pc = "idle"
  BY DEF Init
<1>3. StoreShape(soln) /\ Clean(soln) /\ soln.mem = base
  BY <1>1, <1>2, NewStoreIsClean
<1>4. QED
  BY <1>1, <1>2, <1>3 DEF Rollback, Guarded

------------------------------------------------------------------------------

\* Every step of a call keeps the solution undoable.  Each lemma takes one
\* of the groups of actions that Next is made of.
LEMMA MaxQtyRollback == Rollback /\ MaxQtyStep => Rollback'
<1> SUFFICES ASSUME Rollback, MaxQtyStep
             PROVE  Rollback'
  OBVIOUS
<1>1. CASE SkipBlocked
  BY <1>1, KeepStep DEF SkipBlocked
<1>2. CASE CommitMaxQty
  BY <1>2, KeepStep DEF CommitMaxQty
<1>3. CASE TempCommit
  <2>1. mode' = "temp" /\ pc' = "fill" /\ UNCHANGED <<soln, base>> /\ pc = "try"
    BY <1>3 DEF TempCommit, StartCommit
  <2>2. Recovers(soln, base)
    BY SolnLocsHaveKinds, CleanIsRecovered DEF Rollback, Guarded
  <2>3. QED
    BY <2>1, <2>2 DEF Rollback, Guarded
<1>4. CASE PermCommit
  <2>1. mode' = "perm" /\ pc' = "fill" /\ UNCHANGED <<soln, base>> /\ pc = "perm"
    BY <1>4 DEF PermCommit, StartCommit
  <2>2. QED
    BY <2>1 DEF Rollback, Guarded
<1>5. CASE TempCommitReturns
  <2>1. /\ pc = "return" /\ mode = "temp" /\ mode' = "none"
        /\ UNCHANGED <<soln, base>> /\ pc' # "return"
    BY <1>5 DEF TempCommitReturns
  <2>2. Clean(soln) /\ soln.mem = base
    BY <2>1, SolnLocsHaveKinds, CleanIsRecovered DEF Rollback, Guarded
  <2>3. QED
    BY <2>1, <2>2 DEF Rollback, Guarded
<1>6. CASE PermCommitReturns
  <2>1. /\ mode = "perm" /\ mode' = "none" /\ UNCHANGED <<soln, base>>
        /\ pc' # "return"
    BY <1>6 DEF PermCommitReturns
  <2>2. QED
    BY <2>1 DEF Rollback, Guarded
<1>7. CASE CommitMaxQtyEnds
  BY <1>7, KeepStep DEF CommitMaxQtyEnds
<1>8. CASE PostIncHeurAlloc
  BY <1>8, KeepStep DEF PostIncHeurAlloc
<1>9. QED
  BY <1>1, <1>2, <1>3, <1>4, <1>5, <1>6, <1>7, <1>8 DEF MaxQtyStep

LEMMA FillRollback == Rollback /\ FillStep => Rollback'
<1> SUFFICES ASSUME Rollback, FillStep
             PROVE  Rollback'
  OBVIOUS
<1> USE DEF CommitUnchanged
<1>1. Guarded(soln) /\ base = [loc \in SolnLocs |-> base[loc]]
  BY DEF Rollback
<1>2. ASSUME NEW i, NEW t, NetReq(i, t)
      PROVE  Rollback'
  <2> DEFINE vol  == NetWoSRVol(soln, TopList[i], t, ReqVol(req, TopList[i], t))
             next == IF vol = 0 THEN soln
                                ELSE AddAvail(soln, TopList[i], t, -vol)
  <2>1. Write(next) /\ mode' = mode /\ pc' \notin {"return", "perm"}
    BY <1>2 DEF NetReq, Netted
  <2>2. Guarded(next)
    BY <1>1, AddAvailGuarded
  <2>3. QED
    BY <2>1, <2>2, WriteStep
<1>3. ASSUME NEW i, NEW t, NEW rollPer, NetAndRollReq(i, t, rollPer)
      PROVE  Rollback'
  <2> DEFINE p     == TopList[i]
             vol   == RollVol(soln, p, t, ReqVol(req, p, t))
             taken == AddAvail(soln, p, t, -vol)
             next  == IF vol = 0 THEN soln
                      ELSE IF rollPer < 0 THEN taken
                      ELSE AddAvail(taken, p, rollPer, vol)
  <2>1. Write(next) /\ mode' = mode /\ pc' \notin {"return", "perm"}
    BY <1>3 DEF NetAndRollReq, Netted
  <2>2. Guarded(taken)
    BY <1>1, AddAvailGuarded
  <2>3. Guarded(AddAvail(taken, p, rollPer, vol))
    BY <1>1, <2>2, AddAvailGuarded
  <2>4. Guarded(next)
    BY <1>1, <2>2, <2>3
  <2>5. QED
    BY <2>1, <2>4, WriteStep
<1>4. CASE AllFilled
  BY <1>4, KeepStep DEF AllFilled
<1>5. CASE CannotExplode
  BY <1>5, KeepStep DEF CannotExplode
<1>6. ASSUME NEW e, NEW t, ExplodeBopEnt(e, t)
      PROVE  Rollback'
  <2> DEFINE loc  == ExecLoc(OpnOf[e], t)
             next == Put(soln, loc, soln.mem[loc] + FrameDelta(OpnOf[e], t),
                         mode = "temp")
  <2>1. Write(next) /\ mode' = mode /\ pc' \notin {"return", "perm"}
    BY <1>6 DEF ExplodeBopEnt
  <2>2. KindOf(loc) \in Kinds
    BY DEF ExecLoc, KindOf, Kinds
  <2>3. Guarded(next)
    BY <1>1, <2>2, PutGuarded
  <2>4. QED
    BY SMTT(30), <2>1, <2>3, WriteStep
<1>7. QED
  BY <1>2, <1>3, <1>4, <1>5, <1>6 DEF FillStep

LEMMA ExplodeRollback == Rollback /\ ExplodeStep => Rollback'
<1> SUFFICES ASSUME Rollback, ExplodeStep
             PROVE  Rollback'
  OBVIOUS
<1> USE DEF CommitUnchanged
<1>1. Guarded(soln) /\ base = [loc \in SolnLocs |-> base[loc]]
  BY DEF Rollback
<1>2. CASE BomEntryNotInEffect
  BY <1>2, KeepStep DEF BomEntryNotInEffect
<1>3. CASE ExplodeBomEntry
  BY <1>3, KeepStep DEF ExplodeBomEntry
<1>4. CASE NetConsEntry
  <2> DEFINE c      == FrameCons
             t      == Impact[c][frame.execPer]
             vol    == NetWoSRVol(soln, PartOf[c], t, frame.net)
             netted == IF vol = 0 THEN soln
                                  ELSE AddAvail(soln, PartOf[c], t, -vol)
             loc    == SubLoc(c, frame.execPer)
             next   == IF c \in SubEntries /\ mode = "perm" /\ vol > 0
                       THEN Put(netted, loc, netted.mem[loc] + vol, mode = "temp")
                       ELSE netted
  <2>1. Write(next) /\ mode' = mode /\ pc' \notin {"return", "perm"}
    BY <1>4 DEF NetConsEntry, NettedTo
  <2>2. Guarded(netted)
    BY <1>1, AddAvailGuarded
  <2>3. KindOf(loc) \in Kinds
    BY DEF SubLoc, KindOf, Kinds
  <2> HIDE DEF netted, loc, vol
  <2>4. Guarded(next)
    BY <1>1, <2>2, <2>3, PutGuarded
  <2>5. QED
    BY <2>1, <2>4, WriteStep
<1>5. CASE NetByProductEntry
  <2> DEFINE c    == FrameCons
             t    == Impact[c][frame.execPer]
             out  == IF Rate[c] = 0 THEN soln
                     ELSE AddAvail(soln, PartOf[c], t,
                                   -ConsumedQty(c, frame.net))
             loc  == SubLoc(c, frame.execPer)
             next == IF c \in SubEntries /\ mode = "perm"
                     THEN Put(out, loc, out.mem[loc] + frame.net, mode = "temp")
                     ELSE out
  <2>1. Write(next) /\ mode' = mode /\ pc' \notin {"return", "perm"}
    BY <1>5 DEF NetByProductEntry, NettedTo
  <2>2. Guarded(out)
    BY <1>1, AddAvailGuarded
  <2>3. KindOf(loc) \in Kinds
    BY DEF SubLoc, KindOf, Kinds
  <2> HIDE DEF out, loc
  <2>4. Guarded(next)
    BY <1>1, <2>2, <2>3, PutGuarded
  <2>5. QED
    BY <2>1, <2>4, WriteStep
<1>6. CASE SkipSubEntry
  BY <1>6, KeepStep DEF SkipSubEntry, NettedTo
<1>7. CASE ExplodeConsEntry
  <2> DEFINE consumedQty == ConsumedQty(FrameBom, frame.net)
             given == AddAvail(soln, PartOf[FrameBom],
                               Impact[FrameBom][frame.execPer], -consumedQty)
             next  == IF consumedQty < 0 THEN given ELSE soln
  <2>1. Write(next) /\ mode' = mode /\ pc' \notin {"return", "perm"}
    BY <1>7 DEF ExplodeConsEntry
  <2>2. Guarded(given)
    BY <1>1, AddAvailGuarded
  <2>3. Guarded(next)
    BY <1>1, <2>2
  <2>4. QED
    BY <2>1, <2>3, WriteStep
<1>8. CASE BomEntriesExploded
  BY <1>8, KeepStep DEF BomEntriesExploded
<1>9. CASE ExplodeBopEntry
  <2> DEFINE e       == Bop[FrameOpn][frame.bopIdx]
             prodVol == IF InEffect(e, frame.execPer)
                        THEN frame.delta * Rate[e] ELSE 0
             made    == AddAvail(soln, PartOf[e], Impact[e][frame.execPer],
                                 prodVol)
             next    == IF prodVol > 0 THEN made ELSE soln
  <2>1. Write(next) /\ mode' = mode /\ pc' \notin {"return", "perm"}
    BY <1>9 DEF ExplodeBopEntry
  <2>2. Guarded(made)
    BY <1>1, AddAvailGuarded
  <2>3. Guarded(next)
    BY <1>1, <2>2
  <2>4. QED
    BY <2>1, <2>3, WriteStep
<1>10. CASE UseProduct
  <2> DEFINE next == AddAvail(soln, frame.part, frame.fillPer, -frame.qty)
  <2>1. Write(next) /\ mode' = mode /\ pc' \notin {"return", "perm"}
    BY <1>10 DEF UseProduct
  <2>2. Guarded(next)
    BY <1>1, AddAvailGuarded
  <2>3. QED
    BY <2>1, <2>2, WriteStep
<1>11. QED
  BY <1>2, <1>3, <1>4, <1>5, <1>6, <1>7, <1>8, <1>9, <1>10 DEF ExplodeStep

\* The restoration itself: the only step that writes without saving.
LEMMA UndoRollback == Rollback /\ UndoStep => Rollback'
<1> SUFFICES ASSUME Rollback, UndoStep
             PROVE  Rollback'
  OBVIOUS
<1> USE DEF CommitUnchanged
<1>1. CASE ClearReqSched
  BY <1>1, KeepStep DEF ClearReqSched
<1>2. CASE RestoreSoln
  <2>1. UNCHANGED <<base, mode>> /\ pc' # "perm"
    BY <1>2 DEF RestoreSoln
  <2>2. CASE Clean(soln)
    <3>1. soln' = soln
      BY <1>2, <2>2 DEF RestoreSoln
    <3>2. QED
      BY <2>1, <2>2, <3>1 DEF Rollback, Guarded
  <2>3. CASE ~Clean(soln)
    <3>1. soln' = RestoreStep(soln) /\ pc' # "return"
      BY <1>2, <2>3 DEF RestoreSoln
    <3>2. mode = "temp"
      BY <2>3 DEF Rollback, Guarded
    <3>3. StoreShape(soln') /\ Recovers(soln', base)
      BY <2>3, <3>1, <3>2, SolnLocsHaveKinds, RestoreStepRecovers
         DEF Rollback, Guarded
    <3>4. DOMAIN soln'.mem = SolnLocs
      BY <3>3 DEF Rollback, Recovers
    <3>5. QED
      BY <2>1, <3>1, <3>2, <3>3, <3>4 DEF Rollback, Guarded
  <2>4. QED
    BY <2>2, <2>3
<1>3. QED
  BY <1>1, <1>2 DEF UndoStep

LEMMA StockSLBRollback == Rollback /\ StockSLBStep => Rollback'
<1> SUFFICES ASSUME Rollback, StockSLBStep
             PROVE  Rollback'
  OBVIOUS
<1>1. Guarded(soln) /\ base = [loc \in SolnLocs |-> base[loc]]
  BY DEF Rollback
<1>2. ASSUME NEW m, NEW t, EnforceStockSLB(m, t)
      PROVE  Rollback'
  <2> DEFINE res   == AvailToNet(soln, m, t, StockSLB[m][t], 0)
             taken == AddAvail(soln, m, t, -res)
             next  == IF res <= 0 THEN soln ELSE KeepInStock(taken, m, t, res)
  <2>1. Write(next) /\ mode' = mode /\ pc' \notin {"return", "perm"}
    BY <1>2 DEF EnforceStockSLB
  <2>2. Guarded(taken)
    BY <1>1, AddAvailGuarded
  <2>3. Guarded(AddAvail(taken, m, t + 1, res))
    BY <1>1, <2>2, AddAvailGuarded
  <2>4. Guarded(next)
    BY <1>1, <2>2, <2>3 DEF KeepInStock
  <2>5. QED
    BY <2>1, <2>4, WriteStep
<1>3. ASSUME NEW m, NEW t, StockSLBEnforced(m, t)
      PROVE  Rollback'
  <2> DEFINE vol  == call.vol - netQty
             next == IF vol > 0 THEN KeepInStock(soln, m, t, vol) ELSE soln
  <2>1. Write(next) /\ mode' = mode /\ pc' \notin {"return", "perm"}
    BY <1>3 DEF StockSLBEnforced
  <2>2. Guarded(AddAvail(soln, m, t + 1, vol))
    BY <1>1, AddAvailGuarded
  <2>3. Guarded(next)
    BY <1>1, <2>2 DEF KeepInStock
  <2>4. QED
    BY <2>1, <2>3, WriteStep
<1>4. CASE StockSLBsEnforced
  BY <1>4, KeepStep DEF StockSLBsEnforced
<1>5. QED
  BY <1>2, <1>3, <1>4 DEF StockSLBStep

LEMMA CallRollback == Rollback /\ Call => Rollback'
<1> SUFFICES ASSUME Rollback, Call
             PROVE  Rollback'
  OBVIOUS
<1>1. ASSUME NEW d, NEW t, NEW v, IncHeurAlloc(d, t, v)
      PROVE  Rollback'
  BY <1>1, KeepStep DEF IncHeurAlloc
<1>2. CASE FinishHeurAlloc
  BY <1>2, KeepStep DEF FinishHeurAlloc
<1>3. CASE StartHeurAlloc
  <2> DEFINE mem == InitMem(supplyVol)
  <2>1. /\ mem = [loc \in SolnLocs |-> mem[loc]]
        /\ DOMAIN mem = SolnLocs
    BY DEF InitMem
  <2>2. /\ soln' = NewStore(mem) /\ base' = mem
        /\ mode' = mode /\ pc' = "idle"
    BY <1>3 DEF StartHeurAlloc
  <2> HIDE DEF mem
  <2>3. /\ StoreShape(NewStore(mem)) /\ Clean(NewStore(mem))
        /\ NewStore(mem).mem = mem
    BY <2>1, NewStoreIsClean
  <2>4. Recovers(NewStore(mem), mem)
    BY <2>1, <2>3, SolnLocsHaveKinds, CleanIsRecovered
  <2>5. QED
    BY <2>1, <2>2, <2>3, <2>4 DEF Rollback, Guarded
<1>4. QED
  BY <1>1, <1>2, <1>3 DEF Call

LEMMA NextRollback == Rollback /\ [Next]_vars => Rollback'
<1>1. Rollback /\ UNCHANGED vars => Rollback'
  BY DEF Rollback, Guarded, vars
<1>2. QED
  BY <1>1, MaxQtyRollback, FillRollback, ExplodeRollback, UndoRollback,
     StockSLBRollback, CallRollback DEF Next, Run

------------------------------------------------------------------------------

\* At each step of a temporary commit the solution can still be brought back
\* to what it was, and between temporary commits it is what the permanent
\* commits have made it, with nothing saved.
THEOREM TempCommitsAreUndone == Spec => []TempCommitsUndo
<1>1. Rollback => TempCommitsUndo
  BY DEF Rollback, Guarded, Undoable, NoTrace, TempCommitsUndo
<1>2. QED
  BY <1>1, InitRollback, NextRollback, PTL DEF Spec

------------------------------------------------------------------------------
(***************************************************************************)
(* The requirements schedule.  It is restored at the end of every commit,  *)
(* by the clear step, whether or not the solution is.                      *)
(***************************************************************************)


\* The program points between the start of a commit and its return.
CommitPoints == {"fill", "explode", "bom", "net", "cons", "bop", "clear",
                 "restore", "return"}

\* The inductive invariant: the repository of the requirements schedule can
\* bring it back to the empty schedule at every step, and has done so when
\* the commit goes on to restore the solution.
Reqs ==
  /\ StoreShape(req)
  /\ Recovers(req, NoReqs)
  /\ mode # "none" <=> pc \in CommitPoints
  /\ pc \notin CommitPoints \ {"restore", "return"} => Clean(req)

LEMMA ReqLocsHaveKinds == \A loc \in DOMAIN NoReqs : KindOf(loc) \in Kinds
  BY DEF NoReqs, ReqLocs, ReqLoc, FirstPerLoc, LastPerLoc, KindOf, Kinds

\* A requirement that is added can be taken back.
LEMMA AddToRecovers ==
  ASSUME NEW r, StoreShape(r), Recovers(r, NoReqs), NEW p, NEW t, NEW qty
  PROVE  StoreShape(AddTo(r, p, t, qty)) /\ Recovers(AddTo(r, p, t, qty), NoReqs)
<1> DEFINE vol   == SaveAndAssign(r, ReqLoc(p, t), ReqVol(r, p, t) + qty)
           first == IF t < FirstPer(vol, p)
                    THEN SaveAndAssign(vol, FirstPerLoc(p), t) ELSE vol
           last  == IF t > LastPer(first, p)
                    THEN SaveAndAssign(first, LastPerLoc(p), t) ELSE first
<1>1. /\ KindOf(ReqLoc(p, t)) \in Kinds
      /\ KindOf(FirstPerLoc(p)) \in Kinds
      /\ KindOf(LastPerLoc(p)) \in Kinds
  BY DEF ReqLoc, FirstPerLoc, LastPerLoc, KindOf, Kinds
<1>2. StoreShape(vol) /\ Recovers(vol, NoReqs)
  BY <1>1, ReqLocsHaveKinds, SaveShape, SaveRecovers
<1> HIDE DEF vol
<1>3. StoreShape(first) /\ Recovers(first, NoReqs)
  BY <1>1, <1>2, ReqLocsHaveKinds, SaveShape, SaveRecovers
<1> HIDE DEF first
<1>4. StoreShape(last) /\ Recovers(last, NoReqs)
  BY <1>1, <1>3, ReqLocsHaveKinds, SaveShape, SaveRecovers
<1>5. AddTo(r, p, t, qty) = last
  BY DEF AddTo, vol, first
<1>6. QED
  BY <1>4, <1>5

------------------------------------------------------------------------------

\* A step that leaves the requirements schedule alone, and one that adds to
\* it, both within a commit.
LEMMA KeepReqs ==
  ASSUME Reqs, UNCHANGED <<req, mode>>,
         pc \in CommitPoints <=> pc' \in CommitPoints,
         pc \in {"restore", "return"} <=> pc' \in {"restore", "return"}
  PROVE  Reqs'
BY DEF Reqs, CommitPoints

LEMMA AddReqs ==
  ASSUME Reqs, pc \in CommitPoints, UNCHANGED mode,
         pc' \in CommitPoints \ {"restore", "return"},
         NEW p, NEW t, NEW qty, req' = AddTo(req, p, t, qty)
  PROVE  Reqs'
BY AddToRecovers DEF Reqs

LEMMA InitReqs == Init => Reqs
<1> SUFFICES ASSUME Init PROVE Reqs
  OBVIOUS
<1>1. NoReqs = [loc \in DOMAIN NoReqs |-> NoReqs[loc]]
  BY DEF NoReqs
<1>2. req = NewStore(NoReqs) /\ mode = "none" /\ pc = "idle"
  BY DEF Init
<1>3. StoreShape(req) /\ Clean(req) /\ req.mem = NoReqs
  BY <1>1, <1>2, NewStoreIsClean
<1>4. Recovers(req, NoReqs)
  BY <1>1, <1>3, ReqLocsHaveKinds, CleanIsRecovered
<1>5. QED
  BY <1>2, <1>3, <1>4 DEF Reqs, CommitPoints

\* A commit starts from the empty schedule and returns with it.
LEMMA MaxQtyReqs == Reqs /\ MaxQtyStep => Reqs'
<1> SUFFICES ASSUME Reqs, MaxQtyStep
             PROVE  Reqs'
  OBVIOUS
<1> USE DEF CommitPoints
<1>1. CASE SkipBlocked
  BY <1>1, KeepReqs DEF SkipBlocked, commVars
<1>2. CASE CommitMaxQty
  BY <1>2, KeepReqs DEF CommitMaxQty, commVars
<1>3. ASSUME NEW theMode \in {"temp", "perm"}, StartCommit(theMode)
      PROVE  Reqs'
  BY <1>3, AddToRecovers DEF StartCommit, Reqs
<1>4. CASE TempCommitReturns \/ PermCommitReturns
  <2>1. /\ pc = "return" /\ mode' = "none" /\ req' = req
        /\ pc' \in {"perm", "cmqEnd", "try", "fatal"}
    BY <1>4 DEF TempCommitReturns, PermCommitReturns, commVars
  <2>2. QED
    BY <2>1 DEF Reqs
<1>5. CASE CommitMaxQtyEnds
  BY <1>5, KeepReqs DEF CommitMaxQtyEnds, commVars
<1>6. CASE PostIncHeurAlloc
  BY <1>6, KeepReqs DEF PostIncHeurAlloc, commVars
<1>7. QED
  BY <1>1, <1>2, <1>3, <1>4, <1>5, <1>6 DEF MaxQtyStep, TempCommit, PermCommit

\* The iteration adds requirements, for whatever part and period.
LEMMA FillReqs == Reqs /\ FillStep => Reqs'
<1> SUFFICES ASSUME Reqs, FillStep
             PROVE  Reqs'
  OBVIOUS
<1> USE DEF CommitPoints, CommitUnchanged
<1>1. ASSUME NEW i, NEW t, NetReq(i, t)
      PROVE  Reqs'
  BY <1>1, KeepReqs DEF NetReq, Netted
<1>2. ASSUME NEW i, NEW t, NEW rollPer, NetAndRollReq(i, t, rollPer)
      PROVE  Reqs'
  <2> DEFINE vol == RollVol(soln, TopList[i], t, ReqVol(req, TopList[i], t))
  <2>1. pc = "fill" /\ pc' \in {"fill", "explode"} /\ UNCHANGED mode
    BY <1>2 DEF NetAndRollReq, Netted
  <2>2. \/ req' = req
        \/ req' = AddTo(req, TopList[i], rollPer, vol)
    BY <1>2 DEF NetAndRollReq
  <2>3. QED
    BY <2>1, <2>2, KeepReqs, AddReqs
<1>3. CASE AllFilled
  BY <1>3, KeepReqs DEF AllFilled
<1>4. CASE CannotExplode
  BY SMTT(30), <1>4, KeepReqs DEF CannotExplode
<1>5. ASSUME NEW e, NEW t, ExplodeBopEnt(e, t)
      PROVE  Reqs'
  BY <1>5, KeepReqs DEF ExplodeBopEnt
<1>6. QED
  BY <1>1, <1>2, <1>3, <1>4, <1>5 DEF FillStep

LEMMA ExplodeReqs == Reqs /\ ExplodeStep => Reqs'
<1> SUFFICES ASSUME Reqs, ExplodeStep
             PROVE  Reqs'
  OBVIOUS
<1> USE DEF CommitPoints, CommitUnchanged
<1>1. CASE BomEntryNotInEffect \/ ExplodeBomEntry \/ SkipSubEntry
  BY <1>1, KeepReqs
     DEF BomEntryNotInEffect, ExplodeBomEntry, SkipSubEntry, NettedTo
<1>2. CASE NetConsEntry \/ NetByProductEntry
  BY <1>2, KeepReqs DEF NetConsEntry, NetByProductEntry, NettedTo
<1>3. CASE ExplodeConsEntry
  <2>1. pc = "cons" /\ pc' = "bom" /\ UNCHANGED mode
    BY <1>3 DEF ExplodeConsEntry
  <2>2. \/ req' = req
        \/ \E p, t, qty : req' = AddTo(req, p, t, qty)
    BY <1>3 DEF ExplodeConsEntry
  <2>3. QED
    BY <2>1, <2>2, KeepReqs, AddReqs
<1>4. CASE BomEntriesExploded \/ ExplodeBopEntry \/ UseProduct
  BY <1>4, KeepReqs DEF BomEntriesExploded, ExplodeBopEntry, UseProduct
<1>5. QED
  BY <1>1, <1>2, <1>3, <1>4 DEF ExplodeStep

\* clear () brings the empty schedule back, one saved value at a time.
LEMMA UndoReqs == Reqs /\ UndoStep => Reqs'
<1> SUFFICES ASSUME Reqs, UndoStep
             PROVE  Reqs'
  OBVIOUS
<1> USE DEF CommitPoints, CommitUnchanged
<1>1. CASE ClearReqSched
  <2>1. CASE Clean(req)
    BY <1>1, <2>1 DEF ClearReqSched, Reqs
  <2>2. CASE ~Clean(req)
    <3>1. /\ req' = RestoreStep(req) /\ UNCHANGED mode
          /\ pc = "clear" /\ pc' = "clear"
      BY <1>1, <2>2 DEF ClearReqSched
    <3>2. StoreShape(RestoreStep(req)) /\ Recovers(RestoreStep(req), NoReqs)
      BY <2>2, ReqLocsHaveKinds, RestoreStepRecovers DEF Reqs
    <3>3. QED
      BY <3>1, <3>2 DEF Reqs
  <2>3. QED
    BY <2>1, <2>2
<1>2. CASE RestoreSoln
  BY <1>2, KeepReqs DEF RestoreSoln, commVars
<1>3. QED
  BY <1>1, <1>2 DEF UndoStep

LEMMA OtherReqs == Reqs /\ (StockSLBStep \/ Call) => Reqs'
<1> SUFFICES ASSUME Reqs, StockSLBStep \/ Call
             PROVE  Reqs'
  OBVIOUS
<1> USE DEF CommitPoints, commVars
<1>1. ASSUME NEW m, NEW t, EnforceStockSLB(m, t) \/ StockSLBEnforced(m, t)
      PROVE  Reqs'
  BY <1>1, KeepReqs DEF EnforceStockSLB, StockSLBEnforced
<1>2. ASSUME NEW d, NEW t, NEW v, IncHeurAlloc(d, t, v)
      PROVE  Reqs'
  BY <1>2, KeepReqs DEF IncHeurAlloc
<1>3. CASE StockSLBsEnforced \/ FinishHeurAlloc \/ StartHeurAlloc
  BY <1>3, KeepReqs DEF StockSLBsEnforced, FinishHeurAlloc, StartHeurAlloc
<1>4. QED
  BY <1>1, <1>2, <1>3 DEF StockSLBStep, Call

LEMMA NextReqsInv == Reqs /\ [Next]_vars => Reqs'
<1>1. Reqs /\ UNCHANGED vars => Reqs'
  BY DEF Reqs, vars, commVars
<1>2. QED
  BY <1>1, MaxQtyReqs, FillReqs, ExplodeReqs, UndoReqs, OtherReqs DEF Next, Run

------------------------------------------------------------------------------

\* Between commits the requirements schedule is empty and its repository
\* too: a commit never fills a requirement of one that failed before it.
THEOREM CommitsStartClean == Spec => []ReqSchedCleared
<1>1. Reqs => ReqSchedCleared
  <2> SUFFICES ASSUME Reqs, mode = "none"
               PROVE  req.mem = NoReqs /\ Clean(req)
    BY DEF ReqSchedCleared
  <2>1. Clean(req)
    BY DEF Reqs, CommitPoints
  <2>2. NoReqs = [loc \in DOMAIN NoReqs |-> NoReqs[loc]]
    BY DEF NoReqs
  <2>3. req.mem = NoReqs
    BY <2>1, <2>2, ReqLocsHaveKinds, CleanIsRecovered DEF Reqs
  <2>4. QED
    BY <2>1, <2>3
<1>2. QED
  BY <1>1, InitReqs, NextReqsInv, PTL DEF Spec

------------------------------------------------------------------------------
(***************************************************************************)
(* 2. The local variables of an explosion, which the proofs below need to  *)
(* know that what it nets and fills are entries and periods of the network.*)
(***************************************************************************)

\* The local variables of an explosion, at the points where they are read.
FrameOK ==
  /\ frame = [f \in DOMAIN NoFrame |-> frame[f]]
  /\ pc \in {"explode", "bom", "net", "cons", "bop"} => frame.fillPer \in Periods
  /\ pc \in {"bom", "net", "cons", "bop"} =>
       frame.bop \in BopEntries /\ frame.execPer \in Periods
  /\ pc \in {"net", "cons"} => frame.bomIdx \in DOMAIN Bom[FrameOpn]
  /\ pc \in {"explode", "bom"} => frame.subIdx = 0
  /\ pc = "net" => frame.subIdx \in 0..Len(Subs[FrameBom])

\* The entries that an explosion reads are entries of the network.
LEMMA FrameEntries ==
  ASSUME FrameOK
  PROVE  /\ pc \in {"net", "cons"} => FrameBom \in BomEntries
         /\ pc = "net" => FrameCons \in BomEntries \cup SubEntries
         /\ pc = "bop" =>
              \A i \in DOMAIN Bop[FrameOpn] : Bop[FrameOpn][i] \in BopEntries
<1>1. ASSUME pc \in {"bom", "net", "cons", "bop"}
      PROVE  FrameOpn \in Operations
  BY <1>1, BillsAssumption DEF FrameOK, FrameOpn, Entries
<1>2. ASSUME NEW S, NEW q \in Seq(S), NEW i \in DOMAIN q
      PROVE  q[i] \in S
  BY <1>2
<1>3. ASSUME pc \in {"net", "cons"}
      PROVE  FrameBom \in BomEntries
  <2>1. Bom[FrameOpn] \in Seq(BomEntries)
    BY <1>1, <1>3, BillsAssumption
  <2>2. QED
    BY <1>2, <1>3, <2>1 DEF FrameOK, FrameBom
<1>4. ASSUME pc = "net"
      PROVE  FrameCons \in BomEntries \cup SubEntries
  <2>1. Subs[FrameBom] \in Seq(SubEntries)
    BY <1>3, <1>4, BillsAssumption
  <2>2. frame.subIdx \in 0..Len(Subs[FrameBom]) /\ Len(Subs[FrameBom]) \in Nat
    BY <1>4, <2>1 DEF FrameOK
  <2>3. frame.subIdx # 0 => Subs[FrameBom][frame.subIdx] \in SubEntries
    BY <2>1, <2>2
  <2>4. QED
    BY <1>3, <1>4, <2>3 DEF FrameCons
<1>5. ASSUME pc = "bop", NEW i \in DOMAIN Bop[FrameOpn]
      PROVE  Bop[FrameOpn][i] \in BopEntries
  <2>1. Bop[FrameOpn] \in Seq(BopEntries)
    BY <1>1, <1>5, BillsAssumption
  <2>2. QED
    BY <1>2, <1>5, <2>1
<1>6. QED
  BY <1>3, <1>4, <1>5

LEMMA NextReqsInPeriods == \A r \in NextReqs : r[2] \in Periods
  BY DEF NextReqs, PendingReqs

------------------------------------------------------------------------------

\* The explosion keeps its local variables in order.
LEMMA FrameInit == Init => FrameOK
  BY DEF Init, FrameOK, NoFrame

LEMMA FrameOfFill == FrameOK /\ FillStep => FrameOK'
<1> SUFFICES ASSUME FrameOK, FillStep
             PROVE  FrameOK'
  OBVIOUS
<1>1. ASSUME NEW i, NEW t \in Periods, NEW rest, Netted(i, t, rest)
      PROVE  FrameOK'
  BY <1>1 DEF Netted, FrameOK, NoFrame
<1>2. ASSUME NEW r \in NextReqs, NEW rollPer,
             NetReq(r[1], r[2]) \/ NetAndRollReq(r[1], r[2], rollPer)
      PROVE  FrameOK'
  <2>1. r[2] \in Periods
    BY NextReqsInPeriods
  <2>2. \E rest : Netted(r[1], r[2], rest)
    BY <1>2 DEF NetReq, NetAndRollReq
  <2>3. QED
    BY <1>1, <2>1, <2>2
<1>3. CASE AllFilled \/ CannotExplode
  BY SMTT(30), <1>3 DEF AllFilled, CannotExplode, FrameOK, NoFrame
<1>4. ASSUME NEW e \in ExpAllowed, NEW t \in Periods, ExplodeBopEnt(e, t)
      PROVE  FrameOK'
  <2>1. e \in BopEntries
    BY BillsAssumption
  <2>2. QED
    BY <1>4, <2>1 DEF ExplodeBopEnt, FrameOK, NoFrame
<1>5. QED
  BY <1>2, <1>3, <1>4 DEF FillStep

LEMMA FrameOfExplode == FrameOK /\ ExplodeStep => FrameOK'
<1> SUFFICES ASSUME FrameOK, ExplodeStep
             PROVE  FrameOK'
  OBVIOUS
<1>1. ASSUME pc \in {"bom", "net", "cons", "bop"}, frame' = NextBomEntry,
             pc' = "bom"
      PROVE  FrameOK'
  BY <1>1 DEF NextBomEntry, FrameOK, NoFrame
<1>2. ASSUME NEW net, pc = "net", NettedTo(net)
      PROVE  FrameOK'
  <2>1. CASE net = 0
    BY <1>1, <1>2, <2>1 DEF NettedTo
  <2>2. CASE net # 0 /\ frame.subIdx = Len(Subs[FrameBom])
    BY <1>2, <2>2 DEF NettedTo, FrameOK, NoFrame, FrameOpn
  <2>3. CASE net # 0 /\ frame.subIdx # Len(Subs[FrameBom])
    <3>1. /\ frame' = [frame EXCEPT !.net = net, !.subIdx = @ + 1]
          /\ pc' = "net"
      BY <1>2, <2>3 DEF NettedTo
    <3>2. Subs[FrameBom] \in Seq(SubEntries)
      BY <1>2, FrameEntries, BillsAssumption
    <3>3. frame.subIdx + 1 \in 0..Len(Subs[FrameBom])
      BY <1>2, <2>3, <3>2 DEF FrameOK
    <3>4. FrameBom' = FrameBom /\ FrameOpn' = FrameOpn
      BY <3>1 DEF FrameOK, NoFrame, FrameBom, FrameOpn
    <3>5. QED
      BY <1>2, <3>1, <3>3, <3>4 DEF FrameOK, NoFrame
  <2>4. QED
    BY <2>1, <2>2, <2>3
<1>3. CASE BomEntryNotInEffect \/ ExplodeConsEntry
  BY <1>1, <1>3 DEF BomEntryNotInEffect, ExplodeConsEntry
<1>4. CASE ExplodeBomEntry
  <2>1. /\ pc = "bom" /\ pc' \in {"net", "cons"}
        /\ frame.bomIdx \in DOMAIN Bom[FrameOpn]
        /\ frame' = [frame EXCEPT !.net = frame.delta]
    BY <1>4 DEF ExplodeBomEntry
  <2>2. FrameBom' = FrameBom /\ FrameOpn' = FrameOpn
    BY <2>1 DEF FrameOK, NoFrame, FrameBom, FrameOpn
  <2>3. Bom[FrameOpn] \in Seq(BomEntries)
    BY <2>1, BillsAssumption DEF FrameOK, FrameOpn, Entries
  <2>4. FrameBom \in BomEntries
    BY <2>1, <2>3 DEF FrameBom
  <2>5. 0 \in 0..Len(Subs[FrameBom])
    BY <2>4, BillsAssumption
  <2>6. QED
    BY <2>1, <2>2, <2>5 DEF FrameOK, NoFrame
<1>5. CASE NetConsEntry \/ NetByProductEntry \/ SkipSubEntry
  BY <1>2, <1>5 DEF NetConsEntry, NetByProductEntry, SkipSubEntry
<1>6. CASE BomEntriesExploded \/ ExplodeBopEntry \/ UseProduct
  BY <1>6 DEF BomEntriesExploded, ExplodeBopEntry, UseProduct, FrameOK, NoFrame
<1>7. QED
  BY <1>3, <1>4, <1>5, <1>6 DEF ExplodeStep

LEMMA FrameOfOthers ==
  FrameOK /\ (MaxQtyStep \/ UndoStep \/ StockSLBStep \/ Call) => FrameOK'
<1> SUFFICES ASSUME FrameOK, MaxQtyStep \/ UndoStep \/ StockSLBStep \/ Call
             PROVE  FrameOK'
  OBVIOUS
<1>1. ASSUME frame' = frame, pc' \notin {"explode", "bom", "net", "cons", "bop"}
      PROVE  FrameOK'
  BY <1>1 DEF FrameOK
<1>2. CASE MaxQtyStep
  BY <1>1, <1>2
     DEF MaxQtyStep, SkipBlocked, CommitMaxQty, TempCommit, PermCommit,
         StartCommit, TempCommitReturns, PermCommitReturns, CommitMaxQtyEnds,
         PostIncHeurAlloc, commVars
<1>3. CASE UndoStep
  BY <1>1, <1>3 DEF UndoStep, ClearReqSched, RestoreSoln, commVars
<1>4. CASE StockSLBStep
  BY <1>1, <1>4
     DEF StockSLBStep, EnforceStockSLB, StockSLBEnforced, StockSLBsEnforced,
         commVars
<1>5. CASE Call
  BY <1>1, <1>5 DEF Call, IncHeurAlloc, FinishHeurAlloc, StartHeurAlloc, commVars
<1>6. QED
  BY <1>2, <1>3, <1>4, <1>5

LEMMA FrameNext == FrameOK /\ [Next]_vars => FrameOK'
<1>1. FrameOK /\ UNCHANGED vars => FrameOK'
  BY SMTT(30) DEF FrameOK, FrameOpn, FrameBom, vars, commVars
<1>2. QED
  BY <1>1, FrameOfFill, FrameOfExplode, FrameOfOthers DEF Next, Run

\* The application's supply and demand do not change.
LEMMA InputsStay == [Next]_vars => UNCHANGED inputs
  BY DEF Next, Run, vars, inputs, CommitUnchanged, Call, IncHeurAlloc,
       FinishHeurAlloc, StartHeurAlloc, MaxQtyStep, SkipBlocked, CommitMaxQty,
       TempCommit, PermCommit, StartCommit, TempCommitReturns,
       PermCommitReturns, CommitMaxQtyEnds, PostIncHeurAlloc, FillStep, NetReq,
       NetAndRollReq, AllFilled, CannotExplode, ExplodeBopEnt, ExplodeStep,
       BomEntryNotInEffect, ExplodeBomEntry, NetConsEntry, NetByProductEntry,
       SkipSubEntry, ExplodeConsEntry, BomEntriesExploded, ExplodeBopEntry,
       UseProduct, UndoStep, ClearReqSched, RestoreSoln, StockSLBStep,
       EnforceStockSLB, StockSLBEnforced, StockSLBsEnforced

------------------------------------------------------------------------------
(***************************************************************************)
(* 3. The availability schedule.  A part is covered when, carrying over    *)
(* what can be stocked, enough is left of it in every period (Covered);    *)
(* Feasible says so of all parts.  Filling a requirement takes from the    *)
(* schedule what AvailToNet finds in it, which is no more than is left;    *)
(* what an explosion makes is added before it is used.  The lists of parts *)
(* matter because a requirement must be behind the part that it is filled  *)
(* for.                                                                    *)
(***************************************************************************)

\* The parts that may be required below a part are listed in the opposite of
\* the order of sortedPartIndex, each of them once.
Descends(list, n) ==
  /\ list \in Seq(Parts)
  /\ \A i \in DOMAIN list : \E a \in 1..n : list[i] = SortedParts[a]
  /\ \A i, j \in DOMAIN list : i < j =>
       \E a, b \in DOMAIN SortedParts :
          b < a /\ list[i] = SortedParts[a] /\ list[j] = SortedParts[b]

LEMMA DescendsConcat ==
  ASSUME NEW n \in Nat, n + 1 \in DOMAIN SortedParts, NEW list, Descends(list, n)
  PROVE  Descends(<<SortedParts[n + 1]>> \o list, n + 1)
<1> DEFINE p == SortedParts[n + 1]
           next == <<p>> \o list
<1>1. SortedParts \in Seq(Parts) /\ DOMAIN SortedParts = 1..Len(SortedParts)
      /\ Len(SortedParts) \in Nat
  BY PartsAssumption
<1>2. p \in Parts
  BY <1>1
<1>3. list \in Seq(Parts) /\ Len(list) \in Nat /\ DOMAIN list = 1..Len(list)
  BY DEF Descends
<1>4. <<p>> \in Seq(Parts) /\ Len(<<p>>) = 1 /\ <<p>>[1] = p
  BY <1>2
<1> HIDE DEF p
<1>5. next \in Seq(Parts) /\ Len(next) = 1 + Len(list)
      /\ \A i \in 1..Len(next) : next[i] = IF i <= 1 THEN <<p>>[i] ELSE list[i - 1]
  BY <1>3, <1>4, ConcatProperties
<1> HIDE DEF next
<1>6. next[1] = p
  BY <1>3, <1>4, <1>5
<1>7. \A i \in 2..Len(next) : next[i] = list[i - 1] /\ i - 1 \in DOMAIN list
  BY <1>3, <1>5
<1>8. DOMAIN next = 1..Len(next)
  BY <1>5
<1>9. ASSUME NEW i \in DOMAIN next
      PROVE  \E a \in 1..(n + 1) : next[i] = SortedParts[a]
  <2>1. CASE i = 1
    BY <1>6, <2>1 DEF p
  <2>2. CASE i # 1
    <3>1. i \in 2..Len(next)
      BY <1>5, <1>8, <2>2
    <3>2. PICK a \in 1..n : list[i - 1] = SortedParts[a]
      BY <1>7, <3>1 DEF Descends
    <3>3. QED
      BY <1>7, <3>1, <3>2
  <2>3. QED
    BY <2>1, <2>2
<1>10. ASSUME NEW i \in DOMAIN next, NEW j \in DOMAIN next, i < j
       PROVE  \E a, b \in DOMAIN SortedParts :
                b < a /\ next[i] = SortedParts[a] /\ next[j] = SortedParts[b]
  <2>1. j \in 2..Len(next) /\ i \in 1..Len(next)
    BY <1>3, <1>5, <1>8, <1>10
  <2>2. next[j] = list[j - 1] /\ j - 1 \in DOMAIN list
    BY <1>7, <2>1
  <2>3. CASE i = 1
    <3>1. PICK b \in 1..n : list[j - 1] = SortedParts[b]
      BY <2>2 DEF Descends
    <3>2. b \in DOMAIN SortedParts /\ b < n + 1
      BY <1>1, <3>1
    <3>3. QED
      BY <1>6, <2>2, <2>3, <3>1, <3>2 DEF p
  <2>4. CASE i # 1
    <3>1. i \in 2..Len(next)
      BY <2>1, <2>4
    <3>2. next[i] = list[i - 1] /\ i - 1 \in DOMAIN list
      BY <1>7, <3>1
    <3>3. i - 1 < j - 1
      BY <1>10, <2>1
    <3>4. QED
      BY <2>2, <3>2, <3>3 DEF Descends
  <2>5. QED
    BY <2>3, <2>4
<1>11. QED
  BY <1>5, <1>9, <1>10 DEF Descends, next, p

ListStep(p, i, rest) ==
  IF SortedParts[i] \in Below[p] THEN <<SortedParts[i]>> \o rest ELSE rest

ListSteps(p, f) ==
  [i \in 0..Len(SortedParts) |-> IF i = 0 THEN <<>> ELSE ListStep(p, i, f[i - 1])]

LEMMA BelowListSteps ==
  ASSUME NEW p \in Parts
  PROVE  BelowList[p] = (CHOOSE f : f = ListSteps(p, f))[Len(SortedParts)]
  BY DEF BelowList, ListSteps, ListStep

LEMMA BelowListDescends ==
  ASSUME NEW p \in Parts
  PROVE  Descends(BelowList[p], Len(SortedParts))
<1>1. PICK N : N = Len(SortedParts)
  OBVIOUS
<1>2. SortedParts \in Seq(Parts) /\ DOMAIN SortedParts = 1..N /\ N \in Nat
  BY <1>1, PartsAssumption
<1>3. ASSUME NEW i \in 1..N, NEW l, Descends(l, i - 1)
      PROVE  Descends(ListStep(p, i, l), i) /\ ListStep(p, i, l) \in Seq(Parts)
  <2>1. i - 1 \in Nat /\ i - 1 + 1 = i /\ i \in DOMAIN SortedParts
    BY <1>2
  <2>2. Descends(l, i)
    BY <1>3, <2>1 DEF Descends
  <2>3. Descends(<<SortedParts[i]>> \o l, i)
    BY <1>3, <2>1, DescendsConcat
  <2>4. Descends(ListStep(p, i, l), i)
    BY <2>2, <2>3 DEF ListStep
  <2>5. QED
    BY <2>4 DEF Descends
<1>4. PICK F : F = [x \in (1..N) \X Seq(Parts) |-> ListStep(p, x[1], x[2])]
  OBVIOUS
<1>5. \A i \in 1..N, l \in Seq(Parts) : F[<<i, l>>] = ListStep(p, i, l)
  BY <1>4
<1>6. ASSUME NEW i \in 1..N, NEW l \in Seq(Parts) PROVE ListStep(p, i, l) \in Seq(Parts)
  <2>1. SortedParts[i] \in Parts
    BY <1>2
  <2>2. <<SortedParts[i]>> \in Seq(Parts)
    BY <2>1
  <2>3. <<SortedParts[i]>> \o l \in Seq(Parts)
    BY <2>2, ConcatProperties
  <2>4. QED
    BY <2>3 DEF ListStep
<1>7. F \in [(1..N) \X Seq(Parts) -> Seq(Parts)]
  <2>1. \A x \in (1..N) \X Seq(Parts) : ListStep(p, x[1], x[2]) \in Seq(Parts)
    BY <1>6
  <2>2. QED
    BY <1>4, <2>1
<1>8. <<>> \in Seq(Parts)
  OBVIOUS
<1>9. PICK g : GoesUp(N, Seq(Parts), <<>>, F, g)
  BY <1>2, <1>7, <1>8, RecursionUp
<1>10. \A i \in 1..N : g[i] = ListStep(p, i, g[i - 1])
  <2>1. \A i \in 1..N : g[i - 1] \in Seq(Parts)
    BY <1>2, <1>9 DEF GoesUp
  <2>2. QED
    BY <1>5, <1>9, <2>1 DEF GoesUp
<1>11. g = ListSteps(p, g)
  BY <1>1, <1>2, <1>9, <1>10 DEF ListSteps, GoesUp
<1>12. PICK f : f = ListSteps(p, f) /\ BelowList[p] = f[N]
  BY <1>1, <1>11, BelowListSteps
<1>13. f[0] = <<>> /\ \A i \in 1..N : f[i] = ListStep(p, i, f[i - 1])
  BY <1>1, <1>2, <1>12 DEF ListSteps
<1> DEFINE bad == {i \in 0..N : ~Descends(f[i], i)}
<1>14. bad = {}
  <2> SUFFICES ASSUME bad # {} PROVE FALSE
    OBVIOUS
  <2>1. bad \in SUBSET Nat
    BY <1>2
  <2>2. PICK i \in bad : \A j \in bad : i <= j
    BY <2>1, NatMin
  <2>3. CASE i = 0
    <3>1. Descends(<<>>, 0)
      BY DEF Descends
    <3>2. QED
      BY <1>13, <2>2, <2>3, <3>1
  <2>4. CASE i # 0
    <3>1. i \in 1..N /\ i - 1 \in 0..N /\ ~(i <= i - 1)
      BY <1>2, <2>2, <2>4
    <3>2. Descends(f[i - 1], i - 1)
      BY <2>2, <3>1
    <3>3. QED
      BY <1>3, <1>13, <2>2, <3>1, <3>2
  <2>5. QED
    BY <2>3, <2>4
<1>15. N \notin bad
  BY <1>14
<1>16. QED
  BY <1>1, <1>2, <1>12, <1>15

------------------------------------------------------------------------------

LEMMA NumberOfPeriods ==
  /\ NPeriods - 1 \in Nat /\ NPeriods \in Nat /\ 0 \in Periods
  /\ \A t : t \in Periods <=> t \in Nat /\ t <= NPeriods - 1
  BY PeriodsAssumption DEF Periods

(***************************************************************************)
(* The local variables of a call: what it asks for, where its search       *)
(* stands and for which part and period.                                   *)
(***************************************************************************)

InCall == {"cmq", "try", "perm", "cmqEnd"} \cup CommitPoints
Trying == {"try", "perm"} \cup CommitPoints

CallType ==
  /\ call \in [kind : {"none", "inc", "slb"}, demand : Demands \cup {"none"},
               per : Periods, vol : Nat, todo : Seq(Periods)]
  /\ call.kind = "inc" => call.demand \in Demands
  /\ call.kind = "slb" => slbs[1].mat \in Materials
  /\ pc \in InCall => call.kind \in {"inc", "slb"}
  /\ pc \in {"idle", "slb", "done"} => call = NoCall
  /\ netQty \in 0..call.vol

TopType ==
  /\ top = NoTop \/ top \in [part : Parts, per : Periods]
  /\ pc \in Trying \cup {"cmqEnd"} => top \in [part : Parts, per : Periods]

Stages == {"none", "desOnly", "inc", "des", "bisect", "found", "foundDes"}

\* The least multiple that is known to fail, or that exceeds what is asked
\* for, is at most the first one that does.
SearchType ==
  /\ search \in [stage : Stages, des : Nat, okMult : Nat, failMult : Int]
  /\ pc \in Trying =>
       /\ search.des = netQty /\ netQty > 0
       /\ CurSearchInc \in Nat \ {0}
       /\ (search.failMult - 1) * CurSearchInc < netQty
       /\ search.okMult \in Nat \ {0}
       /\ search.stage \in {"inc", "des", "bisect", "found"} =>
             search.okMult < search.failMult
       /\ search.stage = "bisect" => IsOpen(search)
  /\ pc = "try" \/ mode = "temp" =>
       search.stage \in {"desOnly", "inc", "des", "bisect"}
  /\ pc = "perm" \/ mode = "perm" => search.stage \in {"found", "foundDes"}

Locals ==
  /\ CallType
  /\ TopType
  /\ SearchType
  /\ shipVol \in [Demands -> [Periods -> Nat]]
  /\ blocked \subseteq Parts \X Periods

\* The smallest number of increments that reach a quantity.
LEMMA Increments ==
  ASSUME NEW des \in Nat \ {0}, NEW inc \in Nat \ {0},
         NEW n, n = -((-des) \div inc)
  PROVE  n \in Int /\ (n - 1) * inc < des /\ des <= n * inc
<1>1. PICK q : q = (-des) \div inc
  OBVIOUS
<1>2. q \in Int /\ q * inc <= -des /\ -des < (q + 1) * inc
  BY <1>1, SMTT(30)
<1>3. n \in Int /\ n = -q
  BY <1>1, <1>2
<1>4. (n - 1) * inc = -((q + 1) * inc)
  BY <1>2, <1>3, SMTT(30)
<1>5. n * inc = -(q * inc)
  BY <1>2, <1>3, SMTT(30)
<1>6. (q + 1) * inc \in Int /\ q * inc \in Int
  BY <1>2
<1>7. QED
  BY <1>2, <1>3, <1>4, <1>5, <1>6

LEMMA Products ==
  ASSUME NEW a \in Int, NEW b \in Int, a <= b, NEW c \in Nat
  PROVE  a * c <= b * c /\ a * c \in Int /\ b * c \in Int
  BY SMTT(30)

\* What is tried is positive and at most what is asked for.
LEMMA TryQtyFits ==
  ASSUME SearchType, CallType, pc \in Trying, search.stage # "none"
  PROVE  TryQty \in 1..netQty
<1>1. PICK inc : inc = CurSearchInc
  OBVIOUS
<1>2. PICK ok1 : ok1 = search.okMult
  OBVIOUS
<1>3. PICK fail : fail = search.failMult
  OBVIOUS
<1>4. /\ inc \in Nat \ {0} /\ ok1 \in Nat \ {0} /\ fail \in Int
      /\ (fail - 1) * inc < netQty /\ netQty \in Nat /\ search.des = netQty
      /\ netQty > 0 /\ search.stage \in Stages
  BY <1>1, <1>2, <1>3 DEF SearchType, CallType
<1>5. ASSUME NEW m \in Nat \ {0}, m < fail
      PROVE  m * inc \in 1..netQty
  <2>1. m <= fail - 1
    BY <1>4, <1>5
  <2>2. m * inc <= (fail - 1) * inc /\ (fail - 1) * inc \in Int /\ m * inc \in Int
    BY <1>4, <2>1, Products
  <2>3. 1 * inc <= m * inc /\ 1 * inc = inc
    BY <1>4, Products
  <2>4. QED
    BY <1>4, <2>2, <2>3
<1>6. CASE search.stage \in {"desOnly", "des", "foundDes"}
  BY <1>4, <1>6 DEF TryQty
<1>7. CASE search.stage = "inc"
  <2>1. 1 < fail
    BY <1>2, <1>3, <1>4, <1>7 DEF SearchType
  <2>2. 1 * inc \in 1..netQty
    BY <1>5, <2>1
  <2>3. TryQty = inc
    BY <1>1, <1>7 DEF TryQty
  <2>4. QED
    BY <1>4, <2>2, <2>3
<1>8. CASE search.stage = "bisect"
  <2>1. fail > ok1 + 1
    BY <1>2, <1>3, <1>8 DEF SearchType, IsOpen
  <2>2. PICK mid : mid = (ok1 + fail) \div 2
    OBVIOUS
  <2>3. mid \in Nat \ {0} /\ mid < fail
    BY <1>4, <2>1, <2>2
  <2>4. TryQty = mid * inc
    BY <1>1, <1>2, <1>3, <1>8, <2>2 DEF TryQty, CurMult
  <2>5. QED
    BY <1>5, <2>3, <2>4
<1>9. CASE search.stage = "found"
  <2>1. ok1 < fail
    BY <1>2, <1>3, <1>9 DEF SearchType
  <2>2. TryQty = ok1 * inc
    BY <1>1, <1>2, <1>9 DEF TryQty
  <2>3. QED
    BY <1>4, <1>5, <2>1, <2>2
<1>10. QED
  BY <1>4, <1>6, <1>7, <1>8, <1>9 DEF Stages

------------------------------------------------------------------------------

\* A step of a commit, which leaves the local variables of the call alone.
LEMMA CommitLocals ==
  ASSUME Locals, UNCHANGED <<results, callVars, mode>>,
         pc \in CommitPoints, pc' \in CommitPoints
  PROVE  Locals'
<1>1. CallType'
  BY DEF Locals, CallType, results, callVars, InCall, CommitPoints
<1>2. TopType'
  BY DEF Locals, TopType, callVars, Trying, CommitPoints
<1>3. CurSearchInc' = CurSearchInc
  BY DEF CurSearchInc, callVars
<1>4. SearchType'
  BY <1>3 DEF Locals, SearchType, callVars, Trying, CommitPoints, IsOpen
<1>5. QED
  BY <1>1, <1>2, <1>4 DEF Locals, results

LEMMA LocalsOfCommit ==
  Locals /\ (FillStep \/ ExplodeStep \/ UndoStep) => Locals'
<1> SUFFICES ASSUME Locals, FillStep \/ ExplodeStep \/ UndoStep
             PROVE  Locals'
  BY SMTT(30)
<1> USE DEF CommitPoints
<1>1. CASE FillStep
  BY <1>1, CommitLocals DEF FillStep, NetReq, NetAndRollReq, Netted, AllFilled,
     CannotExplode, ExplodeBopEnt, CommitUnchanged
<1>2. CASE ExplodeStep
  BY <1>2, CommitLocals
     DEF ExplodeStep, BomEntryNotInEffect, ExplodeBomEntry, NetConsEntry,
         NetByProductEntry, SkipSubEntry, NettedTo, ExplodeConsEntry,
         BomEntriesExploded, ExplodeBopEntry, UseProduct, CommitUnchanged
<1>3. CASE UndoStep
  BY <1>3, CommitLocals DEF UndoStep, ClearReqSched, RestoreSoln, CommitUnchanged
<1>4. QED
  BY <1>1, <1>2, <1>3

------------------------------------------------------------------------------
(***************************************************************************)
(* What is left of a part in each period, when what is left of the period  *)
(* before is carried over if it can be.                                    *)
(***************************************************************************)

\* Every lastDecPer_ is a bound.
Bounded(mem) ==
  \A m \in Materials, t \in Periods :
     mem[AvailLoc(m, t)] < 0 => t <= mem[LastDecLoc(m)]

\* Values of the variables of the solution: numbers, with lastDecPer_ a
\* period, or -1, and a bound.
IntMem(mem) ==
  /\ DOMAIN mem = SolnLocs
  /\ \A loc \in SolnLocs : mem[loc] \in Int
  /\ \A m \in Materials : mem[LastDecLoc(m)] \in -1..(NPeriods - 1)
  /\ Bounded(mem)

\* What is carried over into period t when left is left in each period.
Carried(p, left, t) == IF t > 0 /\ CanStock(p, t - 1) THEN left[t - 1] ELSE 0

IsLeft(mem, p, left) ==
  /\ left \in [Periods -> Int]
  /\ \A t \in Periods : left[t] = Carried(p, left, t) + mem[AvailLoc(p, t)]

Nonneg(left) == \A t \in Periods : left[t] >= 0

Covered(mem, p) == \E left : IsLeft(mem, p, left) /\ Nonneg(left)

Feasible(mem) == \A p \in Parts : Covered(mem, p)

\* What is available in period t can be kept until period v.
Reaches(p, t, v) ==
  /\ t \in Periods /\ v \in Periods /\ t <= v
  /\ \A u \in t..(v - 1) : CanStock(p, u)

LEMMA ReachesNext ==
  ASSUME NEW p, NEW t \in Periods, NEW v \in Periods
  PROVE  Reaches(p, t, v) <=> \/ v = t
                              \/ v - 1 \in Periods /\ Reaches(p, t, v - 1) /\ CanStock(p, v - 1)
<1>1. t \in Nat /\ v \in Nat /\ t <= NPeriods - 1 /\ v <= NPeriods - 1 /\ NPeriods \in Nat
  BY NumberOfPeriods
<1>2. CASE v < t
  BY <1>1, <1>2 DEF Reaches
<1>3. CASE v = t
  BY <1>1, <1>3 DEF Reaches
<1>4. CASE v > t
  <2>1. v - 1 \in Periods /\ t <= v - 1
    BY <1>1, <1>4, NumberOfPeriods
  <2>2. t..(v - 1) = (t..(v - 1 - 1)) \cup {v - 1}
    BY <1>1, <1>4
  <2>3. QED
    BY <1>1, <1>4, <2>1, <2>2 DEF Reaches
<1>5. QED
  BY <1>1, <1>2, <1>3, <1>4

\* What is added in a period is added to what is left in the periods that it
\* can be kept until.
LeftPlus(p, left, t, delta) ==
  [v \in Periods |-> IF Reaches(p, t, v) THEN left[v] + delta ELSE left[v]]

LEMMA LeftOfSum ==
  ASSUME NEW mem, NEW next, NEW p, NEW left, IsLeft(mem, p, left),
         NEW t \in Periods, NEW delta \in Int,
         \A u \in Periods : mem[AvailLoc(p, u)] \in Int,
         \A u \in Periods : next[AvailLoc(p, u)] =
           IF u = t THEN mem[AvailLoc(p, u)] + delta ELSE mem[AvailLoc(p, u)]
  PROVE  IsLeft(next, p, LeftPlus(p, left, t, delta))
<1>1. PICK new : new = LeftPlus(p, left, t, delta)
  OBVIOUS
<1>2. \A v \in Periods : left[v] \in Int
  BY DEF IsLeft
<1>3. \A v \in Periods : new[v] = IF Reaches(p, t, v) THEN left[v] + delta ELSE left[v]
  BY <1>1 DEF LeftPlus
<1>4. new \in [Periods -> Int]
  BY <1>1, <1>2 DEF LeftPlus
<1>5. ASSUME NEW v \in Periods
      PROVE  new[v] = Carried(p, new, v) + next[AvailLoc(p, v)]
  <2>1. t \in Nat /\ v \in Nat /\ (v > 0 => v - 1 \in Periods) /\ (v - 1 \in Periods => v > 0)
    BY NumberOfPeriods
  <2>2. left[v] = Carried(p, left, v) + mem[AvailLoc(p, v)]
    BY DEF IsLeft
  <2>3. mem[AvailLoc(p, v)] \in Int
    OBVIOUS
  <2>4. CASE v = t
    <3>1. Reaches(p, t, v) /\ (v > 0 => ~Reaches(p, t, v - 1))
      BY <2>1, <2>4, ReachesNext DEF Reaches
    <3>2. Carried(p, new, v) = Carried(p, left, v)
      BY <1>3, <2>1, <3>1 DEF Carried
    <3>3. new[v] = left[v] + delta
      BY <1>3, <3>1
    <3>4. Carried(p, left, v) \in Int
      BY <1>2, <2>1 DEF Carried
    <3>5. QED
      BY <2>2, <2>3, <2>4, <3>2, <3>3, <3>4
  <2>5. CASE v # t /\ v > 0 /\ CanStock(p, v - 1)
    <3>1. Reaches(p, t, v) <=> Reaches(p, t, v - 1)
      BY <2>1, <2>5, ReachesNext
    <3>2. Carried(p, new, v) = new[v - 1] /\ Carried(p, left, v) = left[v - 1]
      BY <2>5 DEF Carried
    <3>3. /\ left[v] \in Int /\ left[v - 1] \in Int
          /\ new[v - 1] = IF Reaches(p, t, v - 1) THEN left[v - 1] + delta ELSE left[v - 1]
      BY <1>2, <1>3, <2>1, <2>5
    <3>4. next[AvailLoc(p, v)] = mem[AvailLoc(p, v)]
      BY <2>5
    <3>5. QED
      BY <1>3, <2>2, <2>3, <3>1, <3>2, <3>3, <3>4
  <2>6. CASE v # t /\ ~(v > 0 /\ CanStock(p, v - 1))
    <3>1. ~Reaches(p, t, v)
      BY <2>1, <2>6, ReachesNext
    <3>2. Carried(p, new, v) = 0 /\ Carried(p, left, v) = 0
      BY <2>6 DEF Carried
    <3>3. next[AvailLoc(p, v)] = mem[AvailLoc(p, v)]
      BY <2>6
    <3>4. QED
      BY <1>3, <2>2, <3>1, <3>2, <3>3
  <2>7. QED
    BY <2>4, <2>5, <2>6
<1>6. QED
  BY <1>1, <1>4, <1>5 DEF IsLeft

------------------------------------------------------------------------------

LEMMA NetMax ==
  ASSUME NEW x \in Int
  PROVE  Max({0, x}) \in Nat /\ Max({0, x}) = IF x <= 0 THEN 0 ELSE x
  BY MaxOfTwo

\* The recursion of allocedVol.
NeededStep(s, m, x) == Max({0, x[2] - IncAvailVol(s, m, x[1])})

Needed(s, m, t, needed) ==
  /\ needed \in [(t + 1)..(LastDecPer(s, m) + 1) -> Int]
  /\ needed[LastDecPer(s, m) + 1] = 0
  /\ \A u \in (t + 1)..LastDecPer(s, m) :
       /\ needed[u] >= 0 /\ needed[u] >= needed[u + 1] - IncAvailVol(s, m, u)
       /\ needed[u] = 0 \/ needed[u] = needed[u + 1] - IncAvailVol(s, m, u)

LEMMA AvailIsInt ==
  ASSUME NEW mem, IntMem(mem), NEW p \in Parts, NEW t \in Periods
  PROVE  mem[AvailLoc(p, t)] \in Int
  BY DEF IntMem, SolnLocs

LEMMA LastDecIsPer ==
  ASSUME NEW s, IntMem(s.mem), NEW m \in Materials
  PROVE  LastDecPer(s, m) \in Int /\ LastDecPer(s, m) <= NPeriods - 1
  BY NumberOfPeriods DEF IntMem, LastDecPer

NeededFun(s, m, t, f) ==
  [u \in (t + 1)..(LastDecPer(s, m) + 1) |->
     IF u = LastDecPer(s, m) + 1 THEN 0
     ELSE Max({0, f[u + 1] - IncAvailVol(s, m, u)})]

LEMMA AllocedVolDef ==
  ASSUME NEW s, NEW m, NEW t
  PROVE  AllocedVol(s, m, t) =
           IF LastDecPer(s, m) > t
           THEN (CHOOSE f : f = NeededFun(s, m, t, f))[t + 1] ELSE 0
  BY DEF AllocedVol, NeededFun

LEMMA AllocedVolIs ==
  ASSUME NEW s, IntMem(s.mem), NEW m \in Materials, NEW t \in Periods,
         LastDecPer(s, m) > t
  PROVE  \E needed : Needed(s, m, t, needed) /\ AllocedVol(s, m, t) = needed[t + 1]
<1>1. PICK last : last = LastDecPer(s, m)
  OBVIOUS
<1>2. /\ last \in Int /\ last <= NPeriods - 1 /\ t \in Nat /\ t < last
      /\ NPeriods \in Nat /\ m \in Parts
  BY <1>1, LastDecIsPer, NumberOfPeriods DEF Parts
<1>3. \A u \in (t + 1)..last : u \in Periods /\ IncAvailVol(s, m, u) \in Int
  <2>1. \A u \in (t + 1)..last : u \in Periods
    BY <1>2, NumberOfPeriods
  <2>2. QED
    BY <1>2, <2>1, AvailIsInt DEF IncAvailVol
<1>4. PICK F : F = [x \in ((t + 1)..(last + 1 - 1)) \X Int |-> NeededStep(s, m, x)]
  OBVIOUS
<1>5. last + 1 - 1 = last /\ t + 1 <= last + 1 /\ last + 1 \in Int /\ t + 1 \in Int
  BY <1>2
<1>6. ASSUME NEW u \in (t + 1)..last, NEW x \in Int
      PROVE  /\ F[<<u, x>>] \in Int
             /\ F[<<u, x>>] = Max({0, x - IncAvailVol(s, m, u)})
  <2>1. F[<<u, x>>] = Max({0, x - IncAvailVol(s, m, u)})
    BY <1>4, <1>5 DEF NeededStep
  <2>2. x - IncAvailVol(s, m, u) \in Int
    BY <1>3
  <2>3. QED
    BY <2>1, <2>2, NetMax
<1>7. F \in [((t + 1)..(last + 1 - 1)) \X Int -> Int]
  <2>1. ASSUME NEW x \in ((t + 1)..last) \X Int PROVE NeededStep(s, m, x) \in Int
    <3>1. x[1] \in (t + 1)..last /\ x[2] \in Int
      OBVIOUS
    <3>2. PICK y \in Int : y = x[2] - IncAvailVol(s, m, x[1])
      BY <1>3, <3>1
    <3>3. QED
      BY <3>2, NetMax DEF NeededStep
  <2>2. QED
    BY <1>4, <1>5, <2>1
<1>8. PICK g : GoesDown(t + 1, last + 1, Int, 0, F, g)
  <2>1. PICK lo, hi : lo = t + 1 /\ hi = last + 1
    OBVIOUS
  <2>2. lo \in Int /\ hi \in Int /\ lo <= hi /\ 0 \in Int
    BY <1>5, <2>1
  <2>3. F \in [(lo..(hi - 1)) \X Int -> Int]
    <3>1. lo..(hi - 1) = (t + 1)..(last + 1 - 1)
      BY <1>2, <2>1
    <3>2. QED
      BY <1>7, <3>1, Zenon
  <2>5. \E g : GoesDown(lo, hi, Int, 0, F, g)
    BY <2>2, <2>3, RecursionDown
  <2>4. QED
    BY <2>1, <2>5
<1>9. /\ g \in [(t + 1)..(last + 1) -> Int] /\ g[last + 1] = 0
      /\ \A u \in (t + 1)..last : g[u] = F[<<u, g[u + 1]>>]
  <2>1. PICK lo, hi : lo = t + 1 /\ hi = last + 1
    OBVIOUS
  <2>2. GoesDown(lo, hi, Int, 0, F, g)
    BY <1>8, <2>1, Zenon
  <2>5. hi - 1 = last
    BY <1>2, <2>1
  <2>3. g \in [lo..hi -> Int] /\ g[hi] = 0 /\ \A u \in lo..last : g[u] = F[<<u, g[u + 1]>>]
    BY <2>2, <2>5 DEF GoesDown
  <2>4. QED
    BY <2>1, <2>3
<1>10. \A u \in (t + 1)..last : g[u] = Max({0, g[u + 1] - IncAvailVol(s, m, u)})
  <2>1. \A u \in (t + 1)..last : g[u + 1] \in Int
    BY <1>2, <1>9
  <2>2. QED
    BY <1>6, <1>9, <2>1
<1>11. g = NeededFun(s, m, t, g)
  <2>1. \A u \in (t + 1)..(last + 1) : u = last + 1 \/ u \in (t + 1)..last
    BY <1>2
  <2>2. QED
    BY <1>1, <1>9, <1>10, <2>1 DEF NeededFun
<1>12. PICK f : f = NeededFun(s, m, t, f) /\ AllocedVol(s, m, t) = f[t + 1]
  BY <1>11, AllocedVolDef
<1>13. /\ DOMAIN f = (t + 1)..(last + 1) /\ f[last + 1] = 0
       /\ \A u \in (t + 1)..last : f[u] = Max({0, f[u + 1] - IncAvailVol(s, m, u)})
  <2>1. f = [u \in (t + 1)..(last + 1) |->
               IF u = last + 1 THEN 0 ELSE Max({0, f[u + 1] - IncAvailVol(s, m, u)})]
    BY <1>1, <1>12 DEF NeededFun
  <2>2. last + 1 \in (t + 1)..(last + 1)
    BY <1>2
  <2>3. \A u \in (t + 1)..last : u \in (t + 1)..(last + 1) /\ u # last + 1
    BY <1>2
  <2>4. DOMAIN f = (t + 1)..(last + 1)
    BY <2>1, Zenon
  <2>5. f[last + 1] = 0
    BY <2>1, <2>2, Zenon
  <2>6. ASSUME NEW u \in (t + 1)..last
        PROVE  f[u] = Max({0, f[u + 1] - IncAvailVol(s, m, u)})
    BY <2>1, <2>3, Zenon
  <2>7. QED
    BY <2>4, <2>5, <2>6
<1> DEFINE bad == {u \in (t + 1)..(last + 1) : f[u] \notin Int}
<1>14. bad = {}
  <2> SUFFICES ASSUME bad # {} PROVE FALSE
    OBVIOUS
  <2>1. bad \in SUBSET (0..(last + 1))
    BY <1>2
  <2>2. PICK u \in bad : \A v \in bad : u >= v
    <3>1. PICK n \in Nat : n = last + 1
      BY <1>2
    <3>2. bad \in SUBSET (0..n)
      BY <2>1, <3>1
    <3>3. QED
      BY <3>2, MaxUpTo
  <2>3. u \in (t + 1)..last
    BY <1>2, <1>13
  <2>4. u + 1 \in (t + 1)..(last + 1) /\ ~(u >= u + 1)
    BY <1>2, <2>3
  <2>5. f[u + 1] \in Int
    BY <2>2, <2>4
  <2>6. PICK x \in Int : x = f[u + 1] - IncAvailVol(s, m, u)
    BY <1>3, <2>3, <2>5
  <2>7. f[u] \in Int
    <3>1. f[u] = Max({0, x})
      BY <1>13, <2>3, <2>6
    <3>2. QED
      BY <3>1, NetMax
  <2>8. QED
    BY <2>2, <2>7
<1>15. \A u \in (t + 1)..(last + 1) : f[u] \in Int
  BY <1>14
<1>16. f \in [(t + 1)..(last + 1) -> Int]
  <2>1. f = [u \in (t + 1)..(last + 1) |-> f[u]]
    BY <1>1, <1>12 DEF NeededFun
  <2>2. QED
    BY <1>15, <2>1
<1>17. ASSUME NEW u \in (t + 1)..last
       PROVE  /\ f[u] >= 0 /\ f[u] >= f[u + 1] - IncAvailVol(s, m, u)
              /\ f[u] = 0 \/ f[u] = f[u + 1] - IncAvailVol(s, m, u)
  <2>1. f[u + 1] \in Int
    BY <1>2, <1>15
  <2>2. PICK x \in Int : x = f[u + 1] - IncAvailVol(s, m, u)
    BY <1>3, <2>1
  <2>3. f[u] = Max({0, x})
    BY <1>13, <2>2
  <2>4. QED
    BY <2>2, <2>3, NetMax
<1>18. QED
  BY <1>1, <1>12, <1>13, <1>16, <1>17 DEF Needed

------------------------------------------------------------------------------

\* What later periods depend on covers what they take from what is left.
LEMMA AllocedCovers ==
  ASSUME NEW s, IntMem(s.mem), NEW m \in Materials, NEW t \in Periods,
         NEW left, IsLeft(s.mem, m, left), Nonneg(left)
  PROVE  /\ AllocedVol(s, m, t) \in Nat
         /\ \A v \in Periods : Reaches(m, t, v) =>
              left[v] >= left[t] - AllocedVol(s, m, t)
<1>1. PICK last : last = LastDecPer(s, m)
  OBVIOUS
<1>2. PICK all : all = AllocedVol(s, m, t)
  OBVIOUS
<1>3. /\ last \in Int /\ last <= NPeriods - 1 /\ t \in Nat /\ t <= NPeriods - 1
      /\ NPeriods \in Nat /\ m \in Parts
  BY <1>1, LastDecIsPer, NumberOfPeriods DEF Parts
<1>4. \A v \in Periods : left[v] \in Int /\ left[v] >= 0
  BY DEF IsLeft, Nonneg
<1>5. \A v \in Periods : IncAvailVol(s, m, v) \in Int
                         /\ (v > last => IncAvailVol(s, m, v) >= 0)
  <2>1. ASSUME NEW v \in Periods, IncAvailVol(s, m, v) < 0 PROVE v <= last
    BY <1>1, <2>1 DEF IntMem, Bounded, IncAvailVol, LastDecPer
  <2>2. \A v \in Periods : IncAvailVol(s, m, v) \in Int
    BY <1>3, AvailIsInt DEF IncAvailVol
  <2>3. QED
    BY <1>3, <2>1, <2>2, NumberOfPeriods
<1>6. ASSUME NEW v \in Periods, Reaches(m, t, v), v # t
      PROVE  /\ v - 1 \in Periods /\ Reaches(m, t, v - 1)
             /\ left[v] = left[v - 1] + IncAvailVol(s, m, v)
  <2>1. v - 1 \in Periods /\ Reaches(m, t, v - 1) /\ CanStock(m, v - 1) /\ v > 0
    BY <1>6, ReachesNext, NumberOfPeriods
  <2>2. QED
    BY <2>1 DEF IsLeft, Carried, IncAvailVol
<1>7. CASE last <= t
  <2>1. all = 0
    BY <1>1, <1>2, <1>3, <1>7 DEF AllocedVol
  <2> DEFINE bad == {v \in Periods : Reaches(m, t, v) /\ ~(left[v] >= left[t])}
  <2>2. bad = {}
    <3> SUFFICES ASSUME bad # {} PROVE FALSE
      OBVIOUS
    <3>1. bad \in SUBSET Nat
      BY NumberOfPeriods
    <3>2. PICK v \in bad : \A w \in bad : v <= w
      BY <3>1, NatMin
    <3>3. v # t /\ v > t /\ v \in Nat
      BY <1>4, <3>1, NumberOfPeriods DEF Reaches
    <3>4. v - 1 \in Periods /\ Reaches(m, t, v - 1) /\ ~(v <= v - 1)
      BY <1>6, <3>3
    <3>5. left[v - 1] >= left[t]
      BY <3>2, <3>4
    <3>6. left[v] = left[v - 1] + IncAvailVol(s, m, v) /\ IncAvailVol(s, m, v) >= 0
          /\ IncAvailVol(s, m, v) \in Int
      BY <1>3, <1>5, <1>6, <1>7, <3>3
    <3>7. left[v - 1] \in Int /\ left[t] \in Int
      BY <1>4, <3>4
    <3>8. QED
      BY <3>5, <3>6, <3>7
  <2>3. ASSUME NEW v \in Periods, Reaches(m, t, v)
        PROVE  left[v] >= left[t] - all
    BY <1>4, <2>1, <2>2, <2>3
  <2>4. QED
    BY <1>2, <2>1, <2>3
<1>8. CASE last > t
  <2>1. PICK needed : Needed(s, m, t, needed) /\ all = needed[t + 1]
    BY <1>1, <1>2, <1>8, AllocedVolIs
  <2>2. /\ needed \in [(t + 1)..(last + 1) -> Int] /\ needed[last + 1] = 0
        /\ \A u \in (t + 1)..last :
             needed[u] >= 0 /\ needed[u] >= needed[u + 1] - IncAvailVol(s, m, u)
    BY <1>1, <2>1 DEF Needed
  <2>3. all \in Nat
    <3>1. t + 1 \in (t + 1)..last
      BY <1>3, <1>8
    <3>2. t + 1 \in (t + 1)..(last + 1)
      BY <1>3, <1>8
    <3>3. needed[t + 1] \in Int /\ needed[t + 1] >= 0
      BY <2>2, <3>1, <3>2
    <3>4. QED
      BY <2>1, <3>3
  \* What is needed in a period covers the drop from the period before.
  <2> DEFINE next(v) == IF v < last THEN v + 1 ELSE last + 1
             bad == {v \in Periods : Reaches(m, t, v)
                                     /\ ~(left[v] >= left[t] - all + needed[next(v)])}
  <2>4. \A v \in Periods : v >= t => next(v) \in (t + 1)..(last + 1)
    BY <1>3, <1>8, NumberOfPeriods
  <2>5. bad = {}
    <3> SUFFICES ASSUME bad # {} PROVE FALSE
      OBVIOUS
    <3>1. bad \in SUBSET Nat
      BY NumberOfPeriods
    <3>2. PICK v \in bad : \A w \in bad : v <= w
      BY <3>1, NatMin
    <3>3. v # t
      <4>1. next(t) = t + 1
        BY <1>8
      <4>2. left[t] >= left[t] - all + all
        BY <1>4, <2>3
      <4>3. left[t] >= left[t] - all + needed[next(t)]
        BY <2>1, <4>1, <4>2
      <4>4. QED
        BY <4>3
    <3>4. v \in Periods /\ v \in Nat /\ v > t
      BY <3>1, <3>3, NumberOfPeriods DEF Reaches
    <3>5. /\ v - 1 \in Periods /\ Reaches(m, t, v - 1) /\ ~(v <= v - 1)
          /\ left[v] = left[v - 1] + IncAvailVol(s, m, v)
      BY <1>6, <3>3, <3>4
    <3>6. left[v - 1] >= left[t] - all + needed[next(v - 1)]
      <4>1. v - 1 \notin bad
        BY <3>2, <3>5
      <4>2. QED
        BY <3>5, <4>1
    <3>7. v - 1 >= t
      BY <1>3, <3>4
    <3>8. PICK a, b, c, d, e, f : /\ a = left[v] /\ b = left[v - 1] /\ c = left[t]
                                  /\ d = needed[next(v)] /\ e = needed[next(v - 1)]
                                  /\ f = IncAvailVol(s, m, v)
      OBVIOUS
    <3>9. a \in Int /\ b \in Int /\ c \in Int /\ d \in Int /\ e \in Int /\ f \in Int
      <4>1. next(v) \in (t + 1)..(last + 1) /\ next(v - 1) \in (t + 1)..(last + 1)
        BY <1>3, <2>4, <3>4, <3>5, <3>7
      <4>2. d \in Int /\ e \in Int
        BY <2>2, <3>8, <4>1
      <4>3. QED
        BY <1>4, <1>5, <3>4, <3>5, <3>8, <4>2
    <3>10. a = b + f /\ b >= c - all + e
      BY <3>5, <3>6, <3>8
    <3>11. e >= d - f
      <4>1. CASE v <= last
        <5>1. next(v) = v + 1 /\ next(v - 1) = v /\ v \in (t + 1)..last
          BY <1>3, <3>4, <4>1
        <5>2. needed[v] >= needed[v + 1] - IncAvailVol(s, m, v)
          BY <2>2, <5>1
        <5>3. QED
          BY <3>8, <5>1, <5>2
      <4>2. CASE v > last
        <5>1. next(v) = last + 1 /\ next(v - 1) = last + 1
          BY <1>3, <3>4, <4>2
        <5>2. d = e /\ f >= 0
          BY <1>5, <3>4, <3>8, <4>2, <5>1
        <5>3. QED
          BY <3>9, <5>2
      <4>3. QED
        BY <1>3, <3>4, <4>1, <4>2
    <3>12. a >= c - all + d
      BY <2>3, <3>9, <3>10, <3>11
    <3>13. left[v] >= left[t] - all + needed[next(v)]
      BY <3>8, <3>12
    <3>14. QED
      BY <3>2, <3>13
  <2>6. ASSUME NEW v \in Periods, Reaches(m, t, v)
        PROVE  left[v] >= left[t] - all
    <3>1. left[v] >= left[t] - all + needed[next(v)]
      BY <2>5, <2>6
    <3>2. next(v) \in (t + 1)..(last + 1)
      BY <2>4, <2>6 DEF Reaches
    <3>3. next(v) = last + 1 \/ next(v) \in (t + 1)..last
      BY <1>3, <3>2
    <3>4. needed[next(v)] \in Int /\ needed[next(v)] >= 0
      BY <2>2, <3>2, <3>3
    <3>5. left[v] \in Int /\ left[t] \in Int
      BY <1>4, <2>6
    <3>6. PICK d \in Int : d = needed[next(v)]
      BY <3>4
    <3>7. QED
      BY <2>3, <3>1, <3>4, <3>5, <3>6
  <2>7. QED
    BY <1>2, <2>3, <2>6
<1>9. QED
  BY <1>3, <1>7, <1>8

\* No period beyond one that stock cannot be carried out of depends on it.
LEMMA NothingAllocedBeyond ==
  ASSUME NEW s, IntMem(s.mem), NEW m \in Materials, NEW t \in Periods,
         NEW left, IsLeft(s.mem, m, left), Nonneg(left), ~CanStock(m, t)
  PROVE  AllocedVol(s, m, t) = 0
<1>1. PICK last : last = LastDecPer(s, m)
  OBVIOUS
<1>2. /\ last \in Int /\ last <= NPeriods - 1 /\ t \in Nat /\ t <= NPeriods - 1
      /\ NPeriods \in Nat /\ m \in Parts
  BY <1>1, LastDecIsPer, NumberOfPeriods DEF Parts
<1>3. CASE last <= t
  BY <1>1, <1>2, <1>3 DEF AllocedVol
<1>4. CASE last > t
  <2>1. PICK needed : Needed(s, m, t, needed) /\ AllocedVol(s, m, t) = needed[t + 1]
    BY <1>1, <1>4, AllocedVolIs
  <2>2. /\ needed \in [(t + 1)..(last + 1) -> Int] /\ needed[last + 1] = 0
        /\ \A u \in (t + 1)..last :
             /\ needed[u] >= 0
             /\ needed[u] = 0 \/ needed[u] = needed[u + 1] - IncAvailVol(s, m, u)
    BY <1>1, <2>1 DEF Needed
  \* What is carried over covers what is needed.
  <2>3. PICK carried : carried = [u \in (t + 1)..(last + 1) |-> Carried(m, left, u)]
    OBVIOUS
  <2>4. ASSUME NEW u \in (t + 1)..(last + 1)
        PROVE  carried[u] \in Int /\ carried[u] >= 0
    <3>1. u - 1 \in Periods /\ u > 0
      BY <1>2, NumberOfPeriods
    <3>2. left[u - 1] \in Int /\ left[u - 1] >= 0
      BY <3>1 DEF IsLeft, Nonneg
    <3>3. QED
      BY <2>3, <3>2 DEF Carried
  <2> DEFINE bad == {u \in (t + 1)..(last + 1) : ~(needed[u] <= carried[u])}
  <2>5. bad = {}
    <3> SUFFICES ASSUME bad # {} PROVE FALSE
      OBVIOUS
    <3>1. PICK u \in bad : \A v \in bad : u >= v
      <4>1. PICK n \in Nat : n = last + 1
        BY <1>2, <1>4
      <4>2. bad \in SUBSET (0..n)
        BY <1>2, <4>1
      <4>3. QED
        BY <4>2, MaxUpTo
    <3>2. u # last + 1
      BY <2>2, <2>4
    <3>3. /\ u \in (t + 1)..last /\ u + 1 \in (t + 1)..(last + 1) /\ ~(u >= u + 1)
          /\ u \in Periods /\ u + 1 - 1 = u /\ u + 1 > 0
      BY <1>2, <3>2, NumberOfPeriods
    <3>4. needed[u + 1] <= carried[u + 1]
      BY <3>1, <3>3
    <3>5. carried[u + 1] = IF CanStock(m, u) THEN left[u] ELSE 0
      BY <2>3, <3>3 DEF Carried
    <3>6. left[u] = carried[u] + IncAvailVol(s, m, u)
      BY <2>3, <3>3 DEF IsLeft, IncAvailVol
    <3>7. left[u] \in Int /\ left[u] >= 0
      BY <3>3 DEF IsLeft, Nonneg
    <3>8. IncAvailVol(s, m, u) \in Int
      BY <1>2, <3>3, AvailIsInt DEF IncAvailVol
    <3>9. PICK a, b, c, d, f : /\ a = needed[u] /\ b = needed[u + 1] /\ c = carried[u]
                               /\ d = carried[u + 1] /\ f = IncAvailVol(s, m, u)
      OBVIOUS
    <3>10. a \in Int /\ b \in Int /\ c \in Int /\ d \in Int /\ f \in Int /\ c >= 0
      BY <2>2, <2>4, <3>3, <3>8, <3>9
    <3>11. (a = 0 \/ a = b - f) /\ b <= d /\ (d = 0 \/ d = c + f) /\ c + f >= 0
      BY <2>2, <3>3, <3>4, <3>5, <3>6, <3>7, <3>9
    <3>12. a <= c
      BY <3>10, <3>11
    <3>13. QED
      BY <3>9, <3>12
  <2>6. t + 1 \in (t + 1)..(last + 1) /\ t + 1 \in (t + 1)..last /\ t + 1 - 1 = t
    BY <1>2, <1>4
  <2>7. carried[t + 1] = 0
    <3>1. carried[t + 1] = Carried(m, left, t + 1)
      BY <2>3, <2>6, Zenon
    <3>2. ~CanStock(m, t + 1 - 1)
      BY <2>6
    <3>3. QED
      BY <1>2, <3>1, <3>2 DEF Carried
  <2>8. needed[t + 1] <= 0 /\ needed[t + 1] >= 0 /\ needed[t + 1] \in Int
    BY <2>2, <2>5, <2>6, <2>7
  <2>9. QED
    BY <2>1, <2>8
<1>5. QED
  BY <1>2, <1>3, <1>4

------------------------------------------------------------------------------

LEMMA MinusZero == -0 = 0
<1>1. \A x \in Int : -x = 0 - x
  OBVIOUS
<1>2. 0 \in Int
  OBVIOUS
<1>3. -0 = 0 - 0
  BY <1>1, <1>2, Zenon
<1>4. QED
  BY <1>3

\* The recursion of availToNet.
SumFun(s, m, t, allVol, f) ==
  [u \in 0..(t + 1) |->
     IF u = t + 1 THEN - allVol ELSE f[u + 1] + IncAvailVol(s, m, u)]

TheSum(s, m, t, allVol) == CHOOSE f : f = SumFun(s, m, t, allVol, f)

NetOfSum(sum, reach, reqVol) ==
  IF \E u \in reach : sum[u] >= reqVol THEN reqVol ELSE sum[Min(reach)]

LEMMA AvailToNetDef ==
  ASSUME NEW s, NEW m, NEW t, NEW reqVol, NEW allVol
  PROVE  AvailToNet(s, m, t, reqVol, allVol) =
           NetOfSum(TheSum(s, m, t, allVol), StockablePers(m, t), reqVol)
  BY DEF AvailToNet, SumFun, TheSum, NetOfSum

LEMMA SumIs ==
  ASSUME NEW s, IntMem(s.mem), NEW m \in Materials, NEW t \in Periods
  PROVE  \E sum : /\ sum = TheSum(s, m, t, 0)
                  /\ \A u \in 0..(t + 1) : sum[u] \in Int
                  /\ sum[t + 1] = 0
                  /\ \A u \in 0..t : sum[u] = sum[u + 1] + IncAvailVol(s, m, u)
<1>1. t \in Nat /\ m \in Parts /\ \A u \in 0..t : u \in Periods
  BY NumberOfPeriods DEF Parts
<1>2. \A u \in 0..t : IncAvailVol(s, m, u) \in Int
  BY <1>1, AvailIsInt DEF IncAvailVol
<1>3. PICK hi : hi = t + 1
  OBVIOUS
<1>4. hi \in Int /\ 0 \in Int /\ 0 <= hi /\ hi - 1 = t
  BY <1>1, <1>3
<1>5. PICK F : F = [x \in (0..(hi - 1)) \X Int |-> x[2] + IncAvailVol(s, m, x[1])]
  OBVIOUS
<1>6. F \in [(0..(hi - 1)) \X Int -> Int]
  <2>1. ASSUME NEW x \in (0..(hi - 1)) \X Int PROVE x[2] + IncAvailVol(s, m, x[1]) \in Int
    <3>1. x[1] \in 0..t /\ x[2] \in Int
      BY <1>4
    <3>2. QED
      BY <1>2, <3>1
  <2>2. QED
    BY <1>5, <2>1
<1>7. PICK g : GoesDown(0, hi, Int, 0, F, g)
  BY <1>4, <1>6, RecursionDown
<1>8. /\ g \in [0..(t + 1) -> Int] /\ g[t + 1] = 0
      /\ \A u \in 0..t : g[u] = F[<<u, g[u + 1]>>]
  <2>1. g \in [0..hi -> Int] /\ g[hi] = 0 /\ \A u \in 0..t : g[u] = F[<<u, g[u + 1]>>]
    BY <1>4, <1>7 DEF GoesDown
  <2>2. QED
    BY <1>3, <2>1
<1>9. \A u \in 0..t : g[u] = g[u + 1] + IncAvailVol(s, m, u)
  <2>1. ASSUME NEW u \in 0..t PROVE g[u] = g[u + 1] + IncAvailVol(s, m, u)
    <3>1. u + 1 \in 0..(t + 1)
      BY <1>1
    <3>2. g[u + 1] \in Int
      BY <1>8, <3>1
    <3>3. QED
      BY <1>4, <1>5, <1>8, <3>2
  <2>2. QED
    BY <2>1
<1>10. g = SumFun(s, m, t, 0, g)
  <2>1. \A u \in 0..(t + 1) : u = t + 1 \/ u \in 0..t
    BY <1>1
  <2>2. \A u \in 0..(t + 1) :
          g[u] = IF u = t + 1 THEN 0 ELSE g[u + 1] + IncAvailVol(s, m, u)
    BY <1>8, <1>9, <2>1
  <2>3. -0 = 0
    BY MinusZero
  <2>4. QED
    BY <1>8, <2>2, <2>3 DEF SumFun
<1>11. PICK f : f = TheSum(s, m, t, 0) /\ f = SumFun(s, m, t, 0, f)
  BY <1>10 DEF TheSum
<1>12. f = [u \in 0..(t + 1) |->
              IF u = t + 1 THEN - 0 ELSE f[u + 1] + IncAvailVol(s, m, u)]
  BY <1>11 DEF SumFun
<1>13. f[t + 1] = 0
  <2>1. t + 1 \in 0..(t + 1)
    BY <1>1
  <2>2. f[t + 1] = - 0
    BY <1>12, <2>1, Zenon
  <2>3. QED
    BY <2>2, MinusZero
<1>14. ASSUME NEW u \in 0..t PROVE f[u] = f[u + 1] + IncAvailVol(s, m, u)
  <2>1. u \in 0..(t + 1) /\ u # t + 1
    BY <1>1
  <2>2. QED
    BY <1>12, <2>1, Zenon
<1> DEFINE bad == {u \in 0..(t + 1) : f[u] \notin Int}
<1>15. bad = {}
  <2> SUFFICES ASSUME bad # {} PROVE FALSE
    OBVIOUS
  <2>1. PICK u \in bad : \A v \in bad : u >= v
    <3>1. PICK n \in Nat : n = t + 1
      BY <1>1
    <3>2. bad \in SUBSET (0..n)
      BY <3>1
    <3>3. QED
      BY <3>2, MaxUpTo
  <2>2. u # t + 1
    BY <1>13, <2>1
  <2>3. u \in 0..t /\ u + 1 \in 0..(t + 1) /\ ~(u >= u + 1)
    BY <1>1, <2>2
  <2>4. f[u + 1] \in Int
    BY <2>1, <2>3
  <2>5. f[u] \in Int
    BY <1>2, <1>14, <2>3, <2>4
  <2>6. QED
    BY <2>5
<1>16. QED
  BY <1>11, <1>13, <1>14, <1>15

\* What can be taken is no more than what is left, and no more than what is
\* asked for; it is less only if nothing is left.
LEMMA AvailToNetFits ==
  ASSUME NEW s, IntMem(s.mem), NEW m \in Materials, NEW t \in Periods,
         NEW left, IsLeft(s.mem, m, left), Nonneg(left), NEW reqVol \in Int
  PROVE  /\ AvailToNet(s, m, t, reqVol, 0) \in Int
         /\ AvailToNet(s, m, t, reqVol, 0) <= reqVol
         /\ AvailToNet(s, m, t, reqVol, 0) <= left[t]
<1>1. /\ t \in Nat /\ t <= NPeriods - 1 /\ m \in Parts
      /\ \A u \in 0..t : u \in Periods /\ u \in Nat
      /\ \A u \in Periods : CanStock(m, u) <=> ~MandEC[m][u]
  BY NumberOfPeriods DEF Parts, CanStock
<1>2. \A u \in Periods : left[u] \in Int /\ left[u] >= 0
  BY DEF IsLeft, Nonneg
<1>3. PICK sum : /\ sum = TheSum(s, m, t, 0)
                 /\ \A u \in 0..(t + 1) : sum[u] \in Int
                 /\ sum[t + 1] = 0
                 /\ \A u \in 0..t : sum[u] = sum[u + 1] + IncAvailVol(s, m, u)
  BY SumIs
<1>4. PICK reach : reach = StockablePers(m, t)
  OBVIOUS
<1>5. \A u : u \in reach <=> u \in 0..t /\ \A v \in u..(t - 1) : CanStock(m, v)
  <2>1. ASSUME NEW u \in 0..t, NEW v \in u..(t - 1)
        PROVE  v \in Periods
    BY <1>1, NumberOfPeriods
  <2>2. QED
    BY <1>1, <1>4, <2>1 DEF StockablePers
<1>6. t \in reach
  <2>1. t \in 0..t /\ t..(t - 1) = {}
    BY <1>1
  <2>2. QED
    BY <1>5, <2>1
<1>7. ASSUME NEW u \in reach
      PROVE  /\ u > 0 /\ CanStock(m, u - 1) => u - 1 \in reach
             /\ u # t => u + 1 \in reach /\ CanStock(m, u)
  <2>1. u \in 0..t /\ u \in Nat
    BY <1>1, <1>5
  <2>2. ASSUME u > 0, CanStock(m, u - 1) PROVE u - 1 \in reach
    <3>1. u - 1 \in 0..t /\ \A v \in (u - 1)..(t - 1) : v = u - 1 \/ v \in u..(t - 1)
      BY <1>1, <2>1, <2>2
    <3>2. QED
      BY <1>5, <2>2, <3>1
  <2>3. ASSUME u # t PROVE u + 1 \in reach /\ CanStock(m, u)
    <3>1. u + 1 \in 0..t /\ u \in u..(t - 1) /\ \A v \in (u + 1)..(t - 1) : v \in u..(t - 1)
      BY <1>1, <2>1, <2>3
    <3>2. QED
      BY <1>5, <3>1
  <2>4. QED
    BY <2>2, <2>3
\* The sum from u on is what is left but for what is carried over into u.
<1> DEFINE bad == {u \in reach : sum[u] # left[t] - Carried(m, left, u)}
<1>8. bad = {}
  <2> SUFFICES ASSUME bad # {} PROVE FALSE
    OBVIOUS
  <2>1. PICK u \in bad : \A v \in bad : u >= v
    <3>1. bad \in SUBSET (0..t)
      BY <1>5
    <3>2. QED
      BY <1>1, <3>1, MaxUpTo
  <2>2. u \in 0..t /\ u \in reach /\ u \in Periods /\ u \in Nat
    BY <1>1, <1>5
  <2>3. left[u] = Carried(m, left, u) + IncAvailVol(s, m, u)
    BY <2>2 DEF IsLeft, IncAvailVol
  <2>4. sum[u] = sum[u + 1] + IncAvailVol(s, m, u)
    BY <1>3, <2>2
  <2>5. IncAvailVol(s, m, u) \in Int
    BY <1>1, <2>2, AvailIsInt DEF IncAvailVol
  <2>6. Carried(m, left, u) \in Int
    <3>1. u > 0 => u - 1 \in Periods
      BY <1>1, <2>2
    <3>2. QED
      BY <1>2, <3>1 DEF Carried
  <2>7. CASE u = t
    <3>1. sum[u + 1] = 0
      BY <1>3, <2>7
    <3>2. QED
      BY <2>3, <2>4, <2>5, <2>6, <2>7, <3>1
  <2>8. CASE u # t
    <3>1. u + 1 \in reach /\ CanStock(m, u)
      BY <1>7, <2>2, <2>8
    <3>2. ~(u >= u + 1) /\ u + 1 > 0 /\ u + 1 - 1 = u
      BY <2>2
    <3>3. sum[u + 1] = left[t] - Carried(m, left, u + 1)
      BY <2>1, <3>1, <3>2
    <3>4. Carried(m, left, u + 1) = left[u]
      BY <2>2, <3>1, <3>2 DEF Carried
    <3>5. left[t] \in Int /\ left[u] \in Int
      BY <1>2, <2>2
    <3>6. PICK a, b, c, d, f : /\ a = left[u] /\ b = left[t] /\ c = Carried(m, left, u)
                               /\ d = IncAvailVol(s, m, u) /\ f = sum[u]
      OBVIOUS
    <3>7. f = b - a + d /\ a = c + d /\ a \in Int /\ b \in Int /\ c \in Int /\ d \in Int
      BY <2>3, <2>4, <2>5, <2>6, <3>3, <3>4, <3>5, <3>6
    <3>8. f = b - c
      BY <3>7
    <3>9. QED
      BY <3>6, <3>8
  <2>9. QED
    BY <2>7, <2>8
<1>9. ASSUME NEW u \in reach PROVE sum[u] \in Int /\ sum[u] <= left[t]
  <2>1. u \in 0..(t + 1) /\ (u > 0 => u - 1 \in Periods)
    BY <1>1, <1>5
  <2>2. Carried(m, left, u) \in Int /\ Carried(m, left, u) >= 0
    BY <1>2, <2>1 DEF Carried
  <2>3. sum[u] = left[t] - Carried(m, left, u)
    BY <1>8
  <2>4. QED
    BY <1>2, <2>2, <2>3
<1>10. AvailToNet(s, m, t, reqVol, 0) =
         IF \E u \in reach : sum[u] >= reqVol THEN reqVol ELSE sum[Min(reach)]
  BY <1>3, <1>4, AvailToNetDef DEF NetOfSum
<1>11. Min(reach) \in reach
  <2>1. reach \in SUBSET Nat /\ reach # {}
    BY <1>1, <1>5, <1>6
  <2>2. QED
    BY <2>1, MinOfNats
<1>12. CASE \E u \in reach : sum[u] >= reqVol
  <2>1. PICK u \in reach : sum[u] >= reqVol
    BY <1>12
  <2>2. sum[u] \in Int /\ sum[u] <= left[t] /\ left[t] \in Int
    BY <1>2, <1>9
  <2>3. QED
    BY <1>10, <1>12, <2>1, <2>2
<1>13. CASE ~\E u \in reach : sum[u] >= reqVol
  <2>1. sum[Min(reach)] \in Int /\ sum[Min(reach)] <= left[t]
        /\ ~(sum[Min(reach)] >= reqVol)
    BY <1>9, <1>11, <1>13
  <2>2. QED
    BY <1>10, <1>13, <2>1
<1>14. QED
  BY <1>12, <1>13

------------------------------------------------------------------------------

\* vol units can be taken in period t without leaving a later period short.
Offers(mem, p, t, vol) ==
  \E left : /\ IsLeft(mem, p, left) /\ Nonneg(left)
            /\ \A v \in Periods : Reaches(p, t, v) => left[v] >= vol

\* While nothing is short, what is left does not decrease.
LEMMA LeftRises ==
  ASSUME NEW mem, NEW p, NEW t \in Periods, NEW n \in Periods,
         NEW left, IsLeft(mem, p, left), Reaches(p, t, n),
         \A u \in Periods : mem[AvailLoc(p, u)] \in Int,
         \A u \in Periods : t < u /\ u <= n => mem[AvailLoc(p, u)] >= 0
  PROVE  left[n] >= left[t]
<1>1. \A u \in Periods : u \in Nat /\ left[u] \in Int
  BY NumberOfPeriods DEF IsLeft
<1> DEFINE bad == {v \in Periods : v <= n /\ Reaches(p, t, v) /\ ~(left[v] >= left[t])}
<1>2. bad = {}
  <2> SUFFICES ASSUME bad # {} PROVE FALSE
    OBVIOUS
  <2>1. bad \in SUBSET Nat
    BY <1>1
  <2>2. PICK v \in bad : \A w \in bad : v <= w
    BY <2>1, NatMin
  <2>3. v \in Periods /\ v \in Nat /\ v # t /\ v > t /\ n \in Nat /\ v <= n
    BY <1>1 DEF Reaches
  <2>4. /\ v - 1 \in Periods /\ Reaches(p, t, v - 1) /\ CanStock(p, v - 1)
        /\ v > 0 /\ ~(v <= v - 1) /\ v - 1 <= n
    BY <2>3, ReachesNext, NumberOfPeriods
  <2>5. left[v - 1] >= left[t]
    BY <2>2, <2>4
  <2>6. left[v] = left[v - 1] + mem[AvailLoc(p, v)]
    BY <2>3, <2>4 DEF IsLeft, Carried
  <2>7. mem[AvailLoc(p, v)] \in Int /\ mem[AvailLoc(p, v)] >= 0
    BY <2>3
  <2>8. left[v - 1] \in Int /\ left[t] \in Int
    BY <1>1, <2>4
  <2>9. left[v] >= left[t]
    BY <2>5, <2>6, <2>7, <2>8
  <2>10. QED
    BY <2>2, <2>9
<1>3. n \notin bad
  BY <1>2
<1>4. QED
  BY <1>1, <1>3

LEMMA CapacitiesDoNotCarry ==
  ASSUME NEW p \in Parts, p \notin Materials, NEW mem, NEW left, IsLeft(mem, p, left),
         \A u \in Periods : mem[AvailLoc(p, u)] \in Int
  PROVE  /\ \A t \in Periods : left[t] = mem[AvailLoc(p, t)]
         /\ \A t, v \in Periods : Reaches(p, t, v) => v = t
<1>1. \A t : ~CanStock(p, t)
  BY DEF CanStock
<1>2. ASSUME NEW t \in Periods, NEW v \in Periods, Reaches(p, t, v) PROVE v = t
  BY <1>1, <1>2, ReachesNext
<1>3. ASSUME NEW t \in Periods PROVE left[t] = mem[AvailLoc(p, t)]
  <2>1. Carried(p, left, t) = 0
    BY <1>1 DEF Carried
  <2>2. left[t] = Carried(p, left, t) + mem[AvailLoc(p, t)] /\ left[t] \in Int
    BY DEF IsLeft
  <2>3. QED
    BY <2>1, <2>2
<1>4. QED
  BY <1>2, <1>3

\* netWoSR takes no more than what is offered.
LEMMA NettingFits ==
  ASSUME NEW s, IntMem(s.mem), NEW p \in Parts, NEW t \in Periods,
         Covered(s.mem, p), NEW reqVol \in Nat
  PROVE  /\ NetWoSRVol(s, p, t, reqVol) \in 0..reqVol
         /\ Offers(s.mem, p, t, NetWoSRVol(s, p, t, reqVol))
<1>1. PICK left : IsLeft(s.mem, p, left) /\ Nonneg(left)
  BY DEF Covered
<1>2. \A v \in Periods : left[v] \in Int /\ left[v] >= 0
  BY <1>1 DEF IsLeft, Nonneg
<1>3. PICK vol : vol = NetWoSRVol(s, p, t, reqVol)
  OBVIOUS
<1>4. CASE p \in Materials
  <2>1. PICK all : all = AllocedVol(s, p, t)
    OBVIOUS
  <2>2. all \in Nat /\ \A v \in Periods : Reaches(p, t, v) => left[v] >= left[t] - all
    BY <1>1, <1>4, <2>1, AllocedCovers
  <2>3. PICK tot \in Int : tot = reqVol + all
    BY <2>2
  <2>4. PICK avail : avail = AvailToNet(s, p, t, tot, 0)
    OBVIOUS
  <2>5. avail \in Int /\ avail <= tot /\ avail <= left[t]
    BY <1>1, <1>4, <2>4, AvailToNetFits
  <2>6. vol = Max({0, IF avail = tot THEN reqVol ELSE avail - all})
    BY <1>3, <1>4, <2>1, <2>3, <2>4 DEF NetWoSRVol, NetMatWoSRVol
  <2>7. PICK delta \in Int : delta = IF avail = tot THEN reqVol ELSE avail - all
    BY <2>2, <2>5
  <2>8. delta = avail - all /\ delta <= reqVol
    BY <2>2, <2>3, <2>5, <2>7
  <2>9. vol = IF delta <= 0 THEN 0 ELSE delta
    BY <2>6, <2>7, NetMax
  <2>10. vol \in 0..reqVol
    BY <2>8, <2>9
  <2>11. ASSUME NEW v \in Periods, Reaches(p, t, v) PROVE left[v] >= vol
    <3>1. left[v] >= left[t] - all /\ left[v] \in Int /\ left[v] >= 0 /\ left[t] \in Int
      BY <1>2, <2>2, <2>11
    <3>2. QED
      BY <2>2, <2>5, <2>8, <2>9, <3>1
  <2>12. QED
    BY <1>1, <1>3, <2>10, <2>11 DEF Offers
<1>5. CASE p \notin Materials
  <2>1. PICK avail \in Int : avail = IncAvailVol(s, p, t)
    BY AvailIsInt DEF IncAvailVol
  <2>2. left[t] = avail /\ \A v \in Periods : Reaches(p, t, v) => v = t
    <3>1. \A u \in Periods : s.mem[AvailLoc(p, u)] \in Int
      BY AvailIsInt
    <3>2. QED
      BY <1>1, <1>5, <2>1, <3>1, CapacitiesDoNotCarry DEF IncAvailVol
  <2>3. vol = Max({0, Min({reqVol, avail})})
    BY <1>3, <1>5, <2>1 DEF NetWoSRVol, NetWithIncAvailVol
  <2>4. PICK x \in Int : x = Min({reqVol, avail}) /\ x = IF reqVol <= avail THEN reqVol ELSE avail
    BY MinOfTwo
  <2>5. vol = IF x <= 0 THEN 0 ELSE x
    BY <2>3, <2>4, NetMax
  <2>6. avail >= 0
    BY <1>2, <2>2
  <2>7. vol \in 0..reqVol /\ vol <= avail
    BY <2>4, <2>5, <2>6
  <2>8. QED
    BY <1>1, <1>3, <2>2, <2>7 DEF Offers
<1>6. QED
  BY <1>4, <1>5

\* netAndRoll takes no more than what is left before the period to which it
\* rolls the requirement.
Rolls(mem, m, t, vol, rollPer) ==
  \E left : /\ IsLeft(mem, m, left) /\ Nonneg(left)
            /\ \A v \in Periods : Reaches(m, t, v) /\ ~Reaches(m, rollPer, v)
                                    => left[v] >= vol

LEMMA RollingFits ==
  ASSUME NEW s, IntMem(s.mem), NEW m \in Materials, NEW t \in Periods,
         Covered(s.mem, m), NEW reqVol \in Nat
  PROVE  LET vol == RollVol(s, m, t, reqVol)
             rollPer == RollPeriod(s, m, t)
         IN  /\ vol \in 0..reqVol
             /\ rollPer = -1 => Offers(s.mem, m, t, vol)
             /\ rollPer # -1 => /\ rollPer \in Periods /\ t < rollPer
                                /\ Reaches(m, t, rollPer)
                                /\ Rolls(s.mem, m, t, vol, rollPer)
<1>1. PICK left : IsLeft(s.mem, m, left) /\ Nonneg(left)
  BY DEF Covered
<1>2. /\ \A v \in Periods : left[v] \in Int /\ left[v] >= 0
      /\ t \in Nat /\ t <= NPeriods - 1 /\ m \in Parts /\ NPeriods \in Nat
      /\ \A u \in Periods : CanStock(m, u) <=> ~MandEC[m][u]
  BY <1>1, NumberOfPeriods DEF IsLeft, Nonneg, Parts, CanStock
<1>3. PICK vol, rollPer : vol = RollVol(s, m, t, reqVol) /\ rollPer = RollPeriod(s, m, t)
  OBVIOUS
<1>4. PICK avail : avail = AvailToNet(s, m, t, reqVol, 0)
  OBVIOUS
<1>5. avail \in Int /\ avail <= reqVol /\ avail <= left[t]
  BY <1>1, <1>4, AvailToNetFits
<1>6. vol = IF avail <= 0 THEN 0 ELSE avail
  BY <1>3, <1>4, <1>5, NetMax DEF RollVol
<1>7. vol \in 0..reqVol /\ vol <= left[t]
  BY <1>2, <1>5, <1>6
<1>8. PICK short : short = {u \in (t + 1)..(NPeriods - 1) :
                              t \in StockablePers(m, u) /\ IncAvailVol(s, m, u) < 0}
  OBVIOUS
<1>9. rollPer = IF t < LastDecPer(s, m) /\ short # {} THEN Min(short) ELSE -1
  BY <1>3, <1>8 DEF RollPeriod
<1>10. \A u \in Periods : IncAvailVol(s, m, u) \in Int
                          /\ IncAvailVol(s, m, u) = s.mem[AvailLoc(m, u)]
  BY <1>2, AvailIsInt DEF IncAvailVol
<1>11. ASSUME NEW u \in (t + 1)..(NPeriods - 1)
       PROVE  t \in StockablePers(m, u) <=> Reaches(m, t, u)
  <2>1. u \in Periods /\ t \in 0..u /\ \A v \in t..(u - 1) : v \in Periods
    BY <1>2, NumberOfPeriods
  <2>2. QED
    BY <1>2, <2>1 DEF StockablePers, Reaches
<1>12. ASSUME NEW v \in Periods, Reaches(m, t, v),
              \A u \in Periods : t < u /\ u <= v => IncAvailVol(s, m, u) >= 0
       PROVE  left[v] >= vol
  <2>1. left[v] >= left[t]
    BY <1>1, <1>10, <1>12, LeftRises
  <2>2. QED
    BY <1>2, <1>7, <2>1
<1>13. ASSUME NEW v \in Periods, Reaches(m, t, v), NEW u \in Periods, t < u, u <= v
       PROVE  Reaches(m, t, u) /\ u \in (t + 1)..(NPeriods - 1)
  <2>1. \A w \in t..(u - 1) : w \in t..(v - 1)
    BY <1>2, <1>13, NumberOfPeriods
  <2>2. QED
    BY <1>2, <1>13, <2>1, NumberOfPeriods DEF Reaches
<1>14. CASE rollPer = -1
  <2>1. ASSUME NEW v \in Periods, Reaches(m, t, v), NEW u \in Periods, t < u, u <= v
        PROVE  IncAvailVol(s, m, u) >= 0
    <3>1. CASE t < LastDecPer(s, m)
      <4>1. short = {}
        <5>1. short # {} => Min(short) \in short
          <6>1. short \in SUBSET Nat
            BY <1>2, <1>8
          <6>2. QED
            BY <6>1, MinOfNats
        <5>2. \A x \in short : x # -1
          BY <1>2, <1>8
        <5>3. QED
          BY <1>9, <1>14, <3>1, <5>1, <5>2
      <4>2. QED
        BY <1>8, <1>10, <1>11, <1>13, <2>1, <4>1
    <3>2. CASE ~(t < LastDecPer(s, m))
      <4>1. IncAvailVol(s, m, u) < 0 => u <= LastDecPer(s, m)
        BY DEF IntMem, Bounded, IncAvailVol, LastDecPer
      <4>2. LastDecPer(s, m) \in Int /\ u \in Nat
        BY LastDecIsPer, NumberOfPeriods
      <4>3. QED
        BY <1>2, <1>10, <2>1, <3>2, <4>1, <4>2
    <3>3. QED
      BY <3>1, <3>2
  <2>2. \A v \in Periods : Reaches(m, t, v) => left[v] >= vol
    BY <1>12, <2>1
  <2>3. Offers(s.mem, m, t, vol)
    BY <1>1, <2>2 DEF Offers
  <2>4. QED
    BY <1>3, <1>7, <1>14, <2>3
<1>15. CASE rollPer # -1
  <2>1. short # {} /\ rollPer = Min(short)
    BY <1>9, <1>15
  <2>2. rollPer \in short /\ \A x \in short : rollPer <= x
    <3>1. short \in SUBSET Nat
      BY <1>2, <1>8
    <3>2. QED
      BY <2>1, <3>1, MinOfNats
  <2>3. /\ rollPer \in (t + 1)..(NPeriods - 1) /\ rollPer \in Periods /\ t < rollPer
        /\ Reaches(m, t, rollPer)
    BY <1>2, <1>8, <1>11, <2>2, NumberOfPeriods
  <2>4. ASSUME NEW v \in Periods, Reaches(m, t, v), ~Reaches(m, rollPer, v)
        PROVE  left[v] >= vol
    <3>1. v < rollPer
      <4>1. CASE rollPer <= v
        <5>1. \A w \in rollPer..(v - 1) : w \in t..(v - 1)
          BY <1>2, <2>3, NumberOfPeriods
        <5>2. Reaches(m, rollPer, v)
          BY <2>3, <2>4, <4>1, <5>1 DEF Reaches
        <5>3. QED
          BY <2>4, <5>2
      <4>2. QED
        BY <2>3, <4>1, NumberOfPeriods
    <3>2. ASSUME NEW u \in Periods, t < u, u <= v PROVE IncAvailVol(s, m, u) >= 0
      <4>1. Reaches(m, t, u) /\ u \in (t + 1)..(NPeriods - 1)
        BY <1>13, <2>4, <3>2
      <4>2. u \notin short
        BY <2>2, <2>3, <3>1, <3>2, NumberOfPeriods
      <4>3. QED
        BY <1>8, <1>10, <1>11, <4>1, <4>2
    <3>3. QED
      BY <1>12, <2>4, <3>2
  <2>5. Rolls(s.mem, m, t, vol, rollPer)
    BY <1>1, <2>4 DEF Rolls
  <2>6. QED
    BY <1>3, <1>7, <1>15, <2>3, <2>5
<1>16. QED
  BY <1>14, <1>15

------------------------------------------------------------------------------
(***************************************************************************)
(* What the writes of an explosion do to what is left of each part.        *)
(***************************************************************************)

LEMMA PutIs ==
  ASSUME NEW s, StoreShape(s), NEW loc, KindOf(loc) \in Kinds, NEW val
  PROVE  /\ StoreShape(Put(s, loc, val, mode = "temp"))
         /\ Put(s, loc, val, mode = "temp").mem = [s.mem EXCEPT ![loc] = val]
<1>1. CASE mode = "temp"
  BY <1>1, SaveShape DEF Put, SaveAndAssign
<1>2. CASE mode # "temp"
  BY <1>2, AssignShape DEF Put, Assign, StoreShape
<1>3. QED
  BY <1>1, <1>2

\* addToIncAvailVol changes what is available in one period, and lastDecPer_
\* so that it stays a bound.
AddsTo(s, p, t, delta, n) ==
  /\ StoreShape(n) /\ IntMem(n.mem)
  /\ n.mem[AvailLoc(p, t)] = s.mem[AvailLoc(p, t)] + delta
  /\ \A q \in Parts, u \in Periods :
       <<q, u>> # <<p, t>> => n.mem[AvailLoc(q, u)] = s.mem[AvailLoc(q, u)]
  /\ \A loc \in SolnLocs : loc[2] \in {"execVol", "subVol"} => n.mem[loc] = s.mem[loc]

LEMMA AddAvailAdds ==
  ASSUME NEW s, StoreShape(s), IntMem(s.mem), NEW p \in Parts, NEW t \in Periods,
         NEW delta \in Int
  PROVE  AddsTo(s, p, t, delta, AddAvail(s, p, t, delta))
<1> DEFINE val    == IncAvailVol(s, p, t) + delta
           added  == Put(s, AvailLoc(p, t), val, mode = "temp")
           moved  == Put(added, LastDecLoc(p), t, mode = "temp")
           isLate == /\ p \in Materials
                     /\ IncAvailVol(added, p, t) < 0
                     /\ t > LastDecPer(added, p)
           n      == AddAvail(s, p, t, delta)
<1>1. n = IF isLate THEN moved ELSE added
  BY DEF AddAvail, AddToIncAvailVol
<1> HIDE DEF n
<1>2. /\ KindOf(AvailLoc(p, t)) \in Kinds /\ KindOf(LastDecLoc(p)) \in Kinds
  BY DEF AvailLoc, LastDecLoc, KindOf, Kinds
<1>3. val \in Int /\ val = s.mem[AvailLoc(p, t)] + delta /\ t \in Int /\ t \in Nat
      /\ t <= NPeriods - 1 /\ NPeriods \in Nat
  BY AvailIsInt, NumberOfPeriods DEF IncAvailVol
<1> HIDE DEF val
<1>4. StoreShape(added) /\ added.mem = [s.mem EXCEPT ![AvailLoc(p, t)] = val]
  <2>1. PICK loc : loc = AvailLoc(p, t)
    OBVIOUS
  <2>2. KindOf(loc) \in Kinds
    BY <1>2, <2>1
  <2>3. QED
    BY <2>1, <2>2, PutIs
<1> HIDE DEF added
<1>5. StoreShape(moved) /\ moved.mem = [added.mem EXCEPT ![LastDecLoc(p)] = t]
  <2>1. PICK loc : loc = LastDecLoc(p)
    OBVIOUS
  <2>2. KindOf(loc) \in Kinds
    BY <1>2, <2>1
  <2>3. QED
    BY <1>4, <2>1, <2>2, PutIs
<1> HIDE DEF moved
<1>6. /\ \A m \in Materials : LastDecLoc(m) \in SolnLocs
      /\ \A q \in Parts, u \in Periods : AvailLoc(q, u) \in SolnLocs
  BY DEF SolnLocs
<1>7. /\ \A q, u, m : AvailLoc(q, u) # LastDecLoc(m)
      /\ \A m, q : LastDecLoc(m) = LastDecLoc(q) => m = q
      /\ \A q, u, r, v : AvailLoc(q, u) = AvailLoc(r, v) => q = r /\ u = v
      /\ \A q, u : AvailLoc(q, u)[2] = "incAvailVol"
      /\ \A m : LastDecLoc(m)[2] = "lastDecPer"
  BY DEF AvailLoc, LastDecLoc
<1>8. DOMAIN s.mem = SolnLocs /\ DOMAIN added.mem = SolnLocs
  BY <1>4 DEF IntMem
<1>9. /\ added.mem[AvailLoc(p, t)] = val
      /\ \A loc \in SolnLocs : loc # AvailLoc(p, t) => added.mem[loc] = s.mem[loc]
  BY <1>4, <1>6, <1>8
<1>10. \A loc \in SolnLocs : added.mem[loc] \in Int
  BY <1>3, <1>9 DEF IntMem
<1>11. \A m \in Materials : added.mem[LastDecLoc(m)] = s.mem[LastDecLoc(m)]
  BY <1>6, <1>7, <1>9
<1>12. \A q \in Parts, u \in Periods :
         <<q, u>> # <<p, t>> => added.mem[AvailLoc(q, u)] = s.mem[AvailLoc(q, u)]
  BY <1>6, <1>7, <1>9
<1>13. \A loc \in SolnLocs : loc[2] \in {"execVol", "subVol"} => added.mem[loc] = s.mem[loc]
  BY <1>7, <1>9
<1>14. Materials \subseteq Parts
  BY DEF Parts
<1>15. CASE isLate
  <2>1. DOMAIN moved.mem = SolnLocs /\ p \in Materials
    BY <1>5, <1>8, <1>15
  <2>2. /\ moved.mem[LastDecLoc(p)] = t
        /\ \A loc \in SolnLocs : loc # LastDecLoc(p) => moved.mem[loc] = added.mem[loc]
    BY <1>5, <1>6, <1>8, <2>1
  <2>3. \A loc \in SolnLocs : moved.mem[loc] \in Int
    BY <1>3, <1>10, <2>2
  <2>4. \A m \in Materials : m # p => moved.mem[LastDecLoc(m)] = s.mem[LastDecLoc(m)]
    BY <1>6, <1>7, <1>11, <2>2
  <2>5. \A q \in Parts, u \in Periods : moved.mem[AvailLoc(q, u)] = added.mem[AvailLoc(q, u)]
    BY <1>6, <1>7, <2>2
  <2>6. \A m \in Materials : moved.mem[LastDecLoc(m)] \in -1..(NPeriods - 1)
    <3>1. t \in -1..(NPeriods - 1)
      BY <1>3
    <3>2. QED
      BY <2>2, <2>4, <3>1 DEF IntMem
  <2>7. t > s.mem[LastDecLoc(p)]
    BY <1>11, <1>15 DEF LastDecPer
  <2>8. ASSUME NEW m \in Materials, NEW u \in Periods, moved.mem[AvailLoc(m, u)] < 0
        PROVE  u <= moved.mem[LastDecLoc(m)]
    <3>1. CASE m = p /\ u = t
      BY <1>3, <2>2, <3>1
    <3>2. CASE ~(m = p /\ u = t)
      <4>1. s.mem[AvailLoc(m, u)] < 0
        BY <1>12, <1>14, <2>5, <2>8, <3>2
      <4>2. u <= s.mem[LastDecLoc(m)] /\ s.mem[LastDecLoc(m)] \in Int /\ u \in Int
        BY <1>6, <4>1, NumberOfPeriods DEF IntMem, Bounded
      <4>3. QED
        BY <1>3, <2>2, <2>4, <2>7, <4>2
    <3>3. QED
      BY <3>1, <3>2
  <2>9. IntMem(moved.mem)
    BY <2>1, <2>3, <2>6, <2>8 DEF IntMem, Bounded
  <2>10. \A loc \in SolnLocs : loc[2] \in {"execVol", "subVol"} => moved.mem[loc] = s.mem[loc]
    BY <1>7, <1>13, <2>2
  <2>11. n = moved
    BY <1>1, <1>15
  <2>12. /\ moved.mem[AvailLoc(p, t)] = s.mem[AvailLoc(p, t)] + delta
         /\ \A q \in Parts, u \in Periods :
              <<q, u>> # <<p, t>> => moved.mem[AvailLoc(q, u)] = s.mem[AvailLoc(q, u)]
    BY <1>3, <1>9, <1>12, <2>5
  <2>13. AddsTo(s, p, t, delta, moved)
    BY <1>5, <2>9, <2>10, <2>12 DEF AddsTo
  <2>14. QED
    BY <2>11, <2>13 DEF n
<1>16. CASE ~isLate
  <2>1. ASSUME NEW m \in Materials, NEW u \in Periods, added.mem[AvailLoc(m, u)] < 0
        PROVE  u <= added.mem[LastDecLoc(m)]
    <3>1. CASE m = p /\ u = t
      <4>1. ~(t > added.mem[LastDecLoc(p)])
        BY <1>16, <2>1, <3>1 DEF IncAvailVol, LastDecPer
      <4>2. added.mem[LastDecLoc(p)] \in Int
        BY <1>6, <1>10, <3>1
      <4>3. QED
        BY <1>3, <3>1, <4>1, <4>2
    <3>2. CASE ~(m = p /\ u = t)
      BY <1>11, <1>12, <1>14, <2>1, <3>2 DEF IntMem, Bounded
    <3>3. QED
      BY <3>1, <3>2
  <2>2. \A m \in Materials : added.mem[LastDecLoc(m)] \in -1..(NPeriods - 1)
    BY <1>11 DEF IntMem
  <2>3. IntMem(added.mem)
    BY <1>8, <1>10, <2>1, <2>2 DEF IntMem, Bounded
  <2>4. n = added
    BY <1>1, <1>16
  <2>5. QED
    BY <1>3, <1>4, <1>9, <1>12, <1>13, <2>3, <2>4 DEF AddsTo, n
<1>17. QED
  BY <1>15, <1>16 DEF n

------------------------------------------------------------------------------

LEMMA LeftAfterAdd ==
  ASSUME NEW s, IntMem(s.mem), NEW p \in Parts, NEW t \in Periods, NEW delta \in Int,
         NEW n, AddsTo(s, p, t, delta, n), NEW left, IsLeft(s.mem, p, left)
  PROVE  IsLeft(n.mem, p, LeftPlus(p, left, t, delta))
<1>1. \A u \in Periods : s.mem[AvailLoc(p, u)] \in Int
  BY AvailIsInt
<1>2. \A u \in Periods : n.mem[AvailLoc(p, u)] =
         IF u = t THEN s.mem[AvailLoc(p, u)] + delta ELSE s.mem[AvailLoc(p, u)]
  BY DEF AddsTo
<1>3. PICK mem, next : mem = s.mem /\ next = n.mem
  OBVIOUS
<1>4. IsLeft(next, p, LeftPlus(p, left, t, delta))
  BY <1>1, <1>2, <1>3, LeftOfSum
<1>5. QED
  BY <1>3, <1>4

\* The other parts are not affected.
LEMMA OthersAfterAdd ==
  ASSUME NEW s, NEW p, NEW t, NEW delta, NEW n, AddsTo(s, p, t, delta, n),
         NEW q \in Parts, q # p
  PROVE  /\ \A left : IsLeft(n.mem, q, left) <=> IsLeft(s.mem, q, left)
         /\ Covered(n.mem, q) <=> Covered(s.mem, q)
         /\ \A u, vol : Offers(n.mem, q, u, vol) <=> Offers(s.mem, q, u, vol)
<1>1. \A u \in Periods : n.mem[AvailLoc(q, u)] = s.mem[AvailLoc(q, u)]
  BY DEF AddsTo
<1>2. \A left : IsLeft(n.mem, q, left) <=> IsLeft(s.mem, q, left)
  BY <1>1 DEF IsLeft
<1>3. QED
  BY <1>2 DEF Covered, Offers

LEMMA LeftPlusIs ==
  ASSUME NEW p, NEW left, NEW t, NEW delta, NEW v \in Periods
  PROVE  LeftPlus(p, left, t, delta)[v] =
           IF Reaches(p, t, v) THEN left[v] + delta ELSE left[v]
  BY DEF LeftPlus

\* What is offered may be taken.
LEMMA TakingIsFeasible ==
  ASSUME NEW s, IntMem(s.mem), Feasible(s.mem), NEW p \in Parts, NEW t \in Periods,
         NEW vol \in Int, Offers(s.mem, p, t, vol), NEW n, AddsTo(s, p, t, -vol, n)
  PROVE  Feasible(n.mem)
<1>1. PICK left : /\ IsLeft(s.mem, p, left) /\ Nonneg(left)
                  /\ \A v \in Periods : Reaches(p, t, v) => left[v] >= vol
  BY DEF Offers
<1>2. PICK new : new = LeftPlus(p, left, t, -vol)
  OBVIOUS
<1>3. IsLeft(n.mem, p, new)
  <2>1. PICK delta \in Int : delta = -vol
    OBVIOUS
  <2>2. AddsTo(s, p, t, delta, n)
    BY <2>1
  <2>3. IsLeft(n.mem, p, LeftPlus(p, left, t, delta))
    BY <1>1, <2>2, LeftAfterAdd
  <2>4. QED
    BY <1>2, <2>1, <2>3
<1>4. ASSUME NEW v \in Periods PROVE new[v] >= 0
  <2>1. left[v] \in Int /\ left[v] >= 0
    BY <1>1 DEF IsLeft, Nonneg
  <2>2. new[v] = IF Reaches(p, t, v) THEN left[v] + (-vol) ELSE left[v]
    BY <1>2, LeftPlusIs
  <2>3. QED
    BY <1>1, <2>1, <2>2
<1>5. Covered(n.mem, p)
  BY <1>3, <1>4 DEF Covered, Nonneg
<1>6. QED
  BY <1>5, OthersAfterAdd DEF Feasible

\* What is given is offered wherever it can be kept, and takes away nothing
\* that was offered.
LEMMA GivingIsFeasible ==
  ASSUME NEW s, IntMem(s.mem), Feasible(s.mem), NEW p \in Parts, NEW t \in Periods,
         NEW vol \in Nat, NEW n, AddsTo(s, p, t, vol, n)
  PROVE  /\ Feasible(n.mem)
         /\ \A u \in Periods : Reaches(p, t, u) => Offers(n.mem, p, u, vol)
         /\ \A q \in Parts, u \in Periods, x \in Int :
              Offers(s.mem, q, u, x) => Offers(n.mem, q, u, x)
<1>1. ASSUME NEW left, IsLeft(s.mem, p, left), Nonneg(left),
             NEW new, new = LeftPlus(p, left, t, vol)
      PROVE  /\ IsLeft(n.mem, p, new) /\ Nonneg(new)
             /\ \A v \in Periods : /\ new[v] >= left[v]
                                   /\ Reaches(p, t, v) => new[v] >= vol
  <2>1. IsLeft(n.mem, p, new)
    BY <1>1, LeftAfterAdd
  <2>2. ASSUME NEW v \in Periods
        PROVE  new[v] >= left[v] /\ new[v] >= 0 /\ (Reaches(p, t, v) => new[v] >= vol)
    <3>1. left[v] \in Int /\ left[v] >= 0
      BY <1>1 DEF IsLeft, Nonneg
    <3>2. new[v] = IF Reaches(p, t, v) THEN left[v] + vol ELSE left[v]
      BY <1>1, LeftPlusIs
    <3>3. QED
      BY <3>1, <3>2
  <2>3. QED
    BY <2>1, <2>2 DEF Nonneg
<1>2. Covered(s.mem, p)
  BY DEF Feasible
<1>3. PICK left : IsLeft(s.mem, p, left) /\ Nonneg(left)
  BY <1>2 DEF Covered
<1>4. PICK new : new = LeftPlus(p, left, t, vol)
  OBVIOUS
<1>5. /\ IsLeft(n.mem, p, new) /\ Nonneg(new)
      /\ \A v \in Periods : Reaches(p, t, v) => new[v] >= vol
  BY <1>1, <1>3, <1>4
<1>6. Feasible(n.mem)
  BY <1>5, OthersAfterAdd DEF Feasible, Covered
<1>7. ASSUME NEW u \in Periods, Reaches(p, t, u) PROVE Offers(n.mem, p, u, vol)
  <2>1. ASSUME NEW v \in Periods, Reaches(p, u, v) PROVE Reaches(p, t, v)
    <3>1. t \in Nat /\ u \in Nat /\ v \in Nat
      BY NumberOfPeriods
    <3>2. t <= u /\ u <= v
      BY <1>7, <2>1 DEF Reaches
    <3>3. \A w \in t..(v - 1) : w \in t..(u - 1) \/ w \in u..(v - 1)
      BY <3>1, <3>2
    <3>4. t <= v
      BY <3>1, <3>2
    <3>5. QED
      BY <1>7, <2>1, <3>3, <3>4 DEF Reaches
  <2>2. QED
    BY <1>5, <2>1 DEF Offers
<1>8. ASSUME NEW q \in Parts, NEW u \in Periods, NEW x \in Int, Offers(s.mem, q, u, x)
      PROVE  Offers(n.mem, q, u, x)
  <2>1. CASE q # p
    BY <1>8, <2>1, OthersAfterAdd
  <2>2. CASE q = p
    <3>1. PICK l : /\ IsLeft(s.mem, p, l) /\ Nonneg(l)
                   /\ \A v \in Periods : Reaches(p, u, v) => l[v] >= x
      BY <1>8, <2>2 DEF Offers
    <3>2. PICK k : k = LeftPlus(p, l, t, vol)
      OBVIOUS
    <3>3. IsLeft(n.mem, p, k) /\ Nonneg(k) /\ \A v \in Periods : k[v] >= l[v]
      BY <1>1, <3>1, <3>2
    <3>4. ASSUME NEW v \in Periods, Reaches(p, u, v) PROVE k[v] >= x
      <4>1. l[v] \in Int /\ k[v] \in Int
        BY <3>1, <3>3 DEF IsLeft
      <4>2. QED
        BY <3>1, <3>3, <3>4, <4>1
    <3>5. QED
      BY <2>2, <3>3, <3>4 DEF Offers
  <2>3. QED
    BY <2>1, <2>2
<1>9. QED
  BY <1>6, <1>7, <1>8

\* What is taken in one period and given back in a later one.
LEMMA RollingIsFeasible ==
  ASSUME NEW s, IntMem(s.mem), Feasible(s.mem), NEW p \in Parts,
         NEW t \in Periods, NEW u \in Periods,
         NEW vol \in Nat, Rolls(s.mem, p, t, vol, u),
         NEW taken, AddsTo(s, p, t, -vol, taken), NEW n, AddsTo(taken, p, u, vol, n)
  PROVE  Feasible(n.mem)
<1>1. PICK left : /\ IsLeft(s.mem, p, left) /\ Nonneg(left)
                  /\ \A v \in Periods : Reaches(p, t, v) /\ ~Reaches(p, u, v)
                                          => left[v] >= vol
  BY DEF Rolls
<1>2. PICK mid : mid = LeftPlus(p, left, t, -vol)
  OBVIOUS
<1>3. IsLeft(taken.mem, p, mid)
  <2>1. PICK delta \in Int : delta = -vol
    OBVIOUS
  <2>2. AddsTo(s, p, t, delta, taken)
    BY <2>1
  <2>3. IsLeft(taken.mem, p, LeftPlus(p, left, t, delta))
    BY <1>1, <2>2, LeftAfterAdd
  <2>4. QED
    BY <1>2, <2>1, <2>3
<1>4. PICK new : new = LeftPlus(p, mid, u, vol)
  OBVIOUS
<1>5. IsLeft(n.mem, p, new)
  <2>1. IntMem(taken.mem)
    BY DEF AddsTo
  <2>2. QED
    BY <1>3, <1>4, <2>1, LeftAfterAdd
<1>6. ASSUME NEW v \in Periods PROVE new[v] >= 0
  <2>1. left[v] \in Int /\ left[v] >= 0
    BY <1>1 DEF IsLeft, Nonneg
  <2>2. mid[v] = IF Reaches(p, t, v) THEN left[v] + (-vol) ELSE left[v]
    BY <1>2, LeftPlusIs
  <2>3. new[v] = IF Reaches(p, u, v) THEN mid[v] + vol ELSE mid[v]
    BY <1>4, LeftPlusIs
  <2>4. CASE Reaches(p, u, v)
    <3>1. new[v] >= left[v] \/ new[v] >= 0
      BY <2>1, <2>2, <2>3, <2>4
    <3>2. QED
      BY <2>1, <2>2, <2>3, <2>4, <3>1
  <2>5. CASE ~Reaches(p, u, v)
    BY <1>1, <2>1, <2>2, <2>3, <2>5
  <2>6. QED
    BY <2>4, <2>5
<1>7. Covered(n.mem, p)
  BY <1>5, <1>6 DEF Covered, Nonneg
<1>8. QED
  BY <1>7, OthersAfterAdd DEF Feasible

------------------------------------------------------------------------------
(***************************************************************************)
(* The entry that makes a part, and the periods of its execution.          *)
(***************************************************************************)

LEMMA SeqElements ==
  ASSUME NEW S, NEW q \in Seq(S), NEW i \in DOMAIN q
  PROVE  q[i] \in S /\ i \in 1..Len(q) /\ q[i] \in ToSet(q)
  BY DEF ToSet

LEMMA EntryToExplode ==
  ASSUME NEW p \in Parts, NEW t \in Periods, Explodeable(p, t),
         NEW e, e = ExpBopEntry[p][t]
  PROVE  /\ e \in ToSet(Producing[p]) /\ e \in BopEntries
         /\ ExpExecPeriod[e][t] >= 0
<1> DEFINE usable == {i \in DOMAIN Producing[p] : ExpExecPeriod[Producing[p][i]][t] >= 0}
<1>1. e = IF usable = {} THEN NoEntry ELSE Producing[p][Min(usable)]
  BY DEF ExpBopEntry
<1>2. usable # {}
  BY <1>1 DEF Explodeable
<1>3. Producing[p] \in Seq(BopEntries)
  BY BillsAssumption
<1>4. DOMAIN Producing[p] \subseteq Nat
  BY <1>3
<1>5. Min(usable) \in usable
  <2>1. usable \in SUBSET Nat
    BY SMTT(30), <1>4
  <2>2. QED
    BY <1>2, <2>1, MinOfNats
<1>6. PICK i \in DOMAIN Producing[p] : e = Producing[p][i] /\ ExpExecPeriod[e][t] >= 0
  BY <1>1, <1>2, <1>5
<1>7. QED
  BY <1>3, <1>6, SeqElements

LEMMA ExecPeriodIs ==
  ASSUME NEW e \in BopEntries, NEW t \in Periods, ExpExecPeriod[e][t] >= 0
  PROVE  /\ ExpExecPeriod[e][t] \in Periods
         /\ e \in ExpAllowed
         /\ Impact[e][ExpExecPeriod[e][t]] = t
<1> DEFINE execPers == {u \in Periods : e \in ExpAllowed /\ Impact[e][u] = t /\ Rate[e] > 0}
<1>1. ExpExecPeriod[e][t] = IF execPers = {} THEN -1 ELSE Max(execPers)
  BY DEF ExpExecPeriod
<1>2. execPers # {}
  BY <1>1
<1>3. Max(execPers) \in execPers
  <2>1. PICK n \in Nat : n = NPeriods - 1
    BY NumberOfPeriods
  <2>2. execPers \in SUBSET (0..n)
    BY <2>1 DEF Periods
  <2>3. QED
    BY <1>2, <2>1, <2>2, MaxUpTo
<1>4. QED
  BY <1>1, <1>2, <1>3

\* What is made in the explosion period can be kept until it is required.
LEMMA ExplosionReaches ==
  ASSUME NEW p \in Parts, NEW t \in Periods
  PROVE  /\ ExplosionPeriod[p][t] \in Periods
         /\ Reaches(p, ExplosionPeriod[p][t], t)
<1>1. t \in Nat /\ t <= NPeriods - 1
  BY NumberOfPeriods
<1> DEFINE reach == {u \in 0..t : /\ Explodeable(p, u)
                                  /\ \A v \in u..(t - 1) : CanStock(p, v)}
<1>2. ExplosionPeriod[p][t] = IF ExpPerGaps(p) /\ reach # {} THEN Max(reach) ELSE t
  BY DEF ExplosionPeriod
<1>3. CASE ExpPerGaps(p) /\ reach # {}
  <2>1. Max(reach) \in reach
    <3>1. reach \in SUBSET (0..t)
      OBVIOUS
    <3>2. QED
      BY <1>1, <1>3, <3>1, MaxUpTo
  <2>2. PICK u \in 0..t : /\ u = ExplosionPeriod[p][t]
                          /\ \A v \in u..(t - 1) : CanStock(p, v)
    BY <1>2, <1>3, <2>1
  <2>3. u \in Periods /\ u <= t
    BY <1>1, <2>2, NumberOfPeriods
  <2>4. Reaches(p, u, t)
    BY <2>2, <2>3 DEF Reaches
  <2>5. QED
    BY <2>2, <2>3, <2>4
<1>4. CASE ~(ExpPerGaps(p) /\ reach # {})
  <2>1. Reaches(p, t, t)
    BY <1>1 DEF Reaches
  <2>2. QED
    BY <1>2, <1>4, <2>1
<1>5. QED
  BY <1>3, <1>4

------------------------------------------------------------------------------
(***************************************************************************)
(* Lot sizes.                                                              *)
(***************************************************************************)

LEMMA LotSizedCovers ==
  ASSUME NEW vol \in Int, NEW min \in Int, NEW inc \in Nat \ {0}
  PROVE  LotSizedVol(vol, min, inc) \in Int /\ LotSizedVol(vol, min, inc) >= vol
<1>1. PICK q : q = (min - vol) \div inc
  OBVIOUS
<1>2. PICK d \in Int : d = min - vol
  OBVIOUS
<1>3. q = d \div inc
  BY <1>1, <1>2
<1>4. q \in Int /\ q * inc <= d /\ q * inc \in Int
  BY <1>2, <1>3, SMTT(30)
<1>5. PICK n \in Int : n = -q
  BY <1>4
<1>6. n * inc = -(q * inc)
  BY <1>4, <1>5, SMTT(30)
<1>7. PICK m : m = Max({0, n})
  OBVIOUS
<1>8. m \in Nat /\ m = IF n <= 0 THEN 0 ELSE n
  BY <1>5, <1>7, NetMax
<1>9. m \in Int /\ n <= m /\ inc \in Nat
  BY <1>5, <1>8
<1>10. n * inc <= m * inc /\ m * inc \in Int
  BY <1>5, <1>9, Products
<1>11. LotSizedVol(vol, min, inc) = min + m * inc
  BY <1>1, <1>5, <1>7 DEF LotSizedVol
<1>12. PICK x, y : x = m * inc /\ y = q * inc
  OBVIOUS
<1>13. x \in Int /\ y \in Int /\ x >= -y /\ y <= min - vol
  BY <1>2, <1>4, <1>6, <1>10, <1>12
<1>14. min + x >= vol /\ min + x \in Int
  BY <1>13
<1>15. QED
  BY <1>11, <1>12, <1>14

LEMMA LotSizesCover ==
  ASSUME NEW o \in Operations, NEW vol \in Int, NEW delta \in Nat
  PROVE  LotSizeDelta(o, vol, delta) \in Int /\ LotSizeDelta(o, vol, delta) >= delta
<1>1. PICK ls : ls = LotSizes[o]
  OBVIOUS
<1>2. /\ ls.min \in Int /\ ls.inc \in Nat /\ ls.thresh2 \in Int /\ ls.min2 \in Int
      /\ ls.inc2 \in Nat /\ (ls.thresh2 >= 0 => ls.inc2 > 0)
  BY <1>1, LotSizesAssumption
<1>3. CASE ls.inc = 0
  BY <1>1, <1>3 DEF LotSizeDelta
<1>4. CASE ls.inc # 0
  <2>1. PICK min, inc, thresh2, min2, inc2 :
           /\ min = ls.min /\ inc = ls.inc /\ thresh2 = ls.thresh2
           /\ min2 = ls.min2 /\ inc2 = ls.inc2
    OBVIOUS
  <2>2. PICK x \in Int : x = vol + delta
    OBVIOUS
  <2>3. /\ min \in Int /\ inc \in Nat \ {0} /\ thresh2 \in Int /\ min2 \in Int
        /\ (thresh2 >= 0 => inc2 \in Nat \ {0})
    BY <1>2, <1>4, <2>1
  <2>4. PICK all : all = TllsVol(ls, x)
    OBVIOUS
  <2>5. PICK one, two, low : /\ one = LotSizedVol(x, min, inc)
                             /\ two = LotSizedVol(x, min2, inc2)
                             /\ low = LotSizedVol(thresh2, min2, inc2)
    OBVIOUS
  <2>6. all = IF thresh2 < 0 THEN one
              ELSE IF x >= thresh2 THEN two
              ELSE IF one >= thresh2 THEN low ELSE one
    BY <2>1, <2>4, <2>5 DEF TllsVol
  <2>7. one \in Int /\ one >= x
    BY <2>3, <2>5, LotSizedCovers
  <2>8. thresh2 >= 0 => two \in Int /\ two >= x /\ low \in Int /\ low >= thresh2
    BY <2>3, <2>5, LotSizedCovers
  <2>9. all \in Int /\ all >= x
    <3>1. CASE thresh2 < 0
      BY <2>6, <2>7, <3>1
    <3>2. CASE ~(thresh2 < 0)
      <4>1. thresh2 >= 0 /\ thresh2 \in Int /\ x \in Int
        BY <2>2, <2>3, <3>2
      <4>2. two \in Int /\ two >= x /\ low \in Int /\ low >= thresh2
        BY <2>8, <4>1
      <4>3. QED
        BY <2>6, <2>7, <3>2, <4>1, <4>2
    <3>3. QED
      BY <3>1, <3>2
  <2>10. LotSizeDelta(o, vol, delta) = all - vol
    BY <1>1, <1>4, <2>2, <2>4 DEF LotSizeDelta
  <2>11. QED
    BY <2>2, <2>9, <2>10
<1>5. QED
  BY <1>3, <1>4

------------------------------------------------------------------------------
(***************************************************************************)
(* The top part's belowList.                                               *)
(***************************************************************************)

LEMMA TopListParts ==
  ASSUME TopType, pc \in Trying
  PROVE  Descends(TopList, Len(SortedParts)) /\ TopList \in Seq(Parts)
<1>1. top \in [part : Parts, per : Periods] /\ top.part \in Parts
  BY DEF TopType
<1>2. top # NoTop
  <2>1. top.per \in Nat
    BY <1>1, NumberOfPeriods
  <2>2. NoTop.per \notin Nat
    BY DEF NoTop
  <2>3. QED
    BY <2>1, <2>2
<1>3. TopList = BelowList[top.part]
  BY <1>2 DEF TopList
<1>4. QED
  BY <1>1, <1>3, BelowListDescends DEF Descends

LEMMA ListIsInjective ==
  ASSUME NEW list, Descends(list, Len(SortedParts)),
         NEW i \in DOMAIN list, NEW j \in DOMAIN list, list[i] = list[j]
  PROVE  i = j
<1>1. i \in Nat /\ j \in Nat
  BY DEF Descends
<1>2. ASSUME NEW k \in DOMAIN list, NEW l \in DOMAIN list, k < l PROVE list[k] # list[l]
  <2>1. PICK a, b \in DOMAIN SortedParts :
           b < a /\ list[k] = SortedParts[a] /\ list[l] = SortedParts[b]
    BY <1>2 DEF Descends
  <2>2. a # b
    <3>1. a \in Nat /\ b \in Nat
      BY PartsAssumption
    <3>2. QED
      BY <2>1, <3>1
  <2>3. QED
    BY <2>1, <2>2, OrderAssumption
<1>3. QED
  BY <1>1, <1>2

\* No part of the list is made from one that is listed before it.
LEMMA MadeFromLater ==
  ASSUME NEW list, Descends(list, Len(SortedParts)), NEW i \in DOMAIN list,
         NEW j \in DOMAIN list, list[i] \in MadeFrom(list[j])
  PROVE  j < i
<1>1. /\ i \in Nat /\ j \in Nat
      /\ DOMAIN SortedParts = 1..Len(SortedParts) /\ Len(SortedParts) \in Nat
  BY PartsAssumption DEF Descends
<1>2. PICK a \in DOMAIN SortedParts : list[i] = SortedParts[a]
  BY <1>1 DEF Descends
<1>3. PICK b \in DOMAIN SortedParts : list[j] = SortedParts[b]
  BY <1>1 DEF Descends
<1>4. a < b /\ a \in Nat /\ b \in Nat
  BY <1>1, <1>2, <1>3, OrderAssumption
<1>5. CASE i = j
  <2>1. a = b
    BY <1>2, <1>3, <1>5, OrderAssumption
  <2>2. QED
    BY <1>4, <2>1
<1>6. CASE i < j
  <2>1. PICK c, d \in DOMAIN SortedParts :
           d < c /\ list[i] = SortedParts[c] /\ list[j] = SortedParts[d]
    BY <1>6 DEF Descends
  <2>2. c = a /\ d = b
    BY <1>2, <1>3, <2>1, OrderAssumption
  <2>3. QED
    BY <1>4, <2>1, <2>2
<1>7. QED
  BY <1>1, <1>5, <1>6

------------------------------------------------------------------------------

LEMMA NoCallType ==
  ASSUME call' = NoCall, netQty' = 0, pc' \notin InCall PROVE CallType'
<1>1. 0 \in Periods /\ <<>> \in Seq(Periods)
  BY NumberOfPeriods
<1>2. QED
  BY <1>1 DEF CallType, NoCall

\* The next period to try is taken off the list.
LEMMA CallTail ==
  ASSUME CallType, call.todo # <<>>, call' = [call EXCEPT !.todo = Tail(@)],
         netQty' = netQty, slbs' = slbs, pc \in InCall, pc' \in InCall
  PROVE  CallType' /\ Head(call.todo) \in Periods /\ CurSearchInc' = CurSearchInc
<1>1. call.todo \in Seq(Periods)
  BY DEF CallType
<1>2. Tail(call.todo) \in Seq(Periods) /\ Head(call.todo) \in Periods
  BY <1>1
<1>3. call' \in [kind : {"none", "inc", "slb"}, demand : Demands \cup {"none"},
                 per : Periods, vol : Nat, todo : Seq(Periods)]
  <2>1. PICK todo : todo = Tail(call.todo)
    OBVIOUS
  <2>2. call' = [call EXCEPT !.todo = todo]
    BY <2>1
  <2>3. todo \in Seq(Periods)
    BY <1>2, <2>1
  <2>4. QED
    BY <2>2, <2>3 DEF CallType
<1>4. call'.kind = call.kind /\ call'.demand = call.demand /\ call'.vol = call.vol
  BY DEF CallType
<1>5. call.kind \in {"inc", "slb"}
  BY DEF CallType
<1>6. CallType'
  BY <1>3, <1>4, <1>5 DEF CallType, InCall, CommitPoints
<1>7. CurSearchInc' = CurSearchInc
  BY <1>4 DEF CurSearchInc
<1>8. QED
  BY <1>2, <1>6, <1>7

LEMMA CallParts ==
  ASSUME CallType, pc \in InCall
  PROVE  CallPart \in Parts /\ CurSearchInc \in Nat \ {0}
<1>1. CASE call.kind = "inc"
  BY <1>1, DemandsAssumption DEF CallType, CallPart, CurSearchInc
<1>2. CASE call.kind = "slb"
  BY <1>2 DEF CallType, CallPart, CurSearchInc, Parts
<1>3. QED
  BY <1>1, <1>2 DEF CallType

LEMMA SameCall ==
  ASSUME CallType, UNCHANGED <<call, netQty, slbs>>, pc \in InCall, pc' \in InCall
  PROVE  CallType'
  BY DEF CallType, InCall, CommitPoints

LEMMA SearchStarts ==
  ASSUME Locals, Reqs, CommitMaxQty
  PROVE  Locals'
<1> USE DEF InCall, CommitPoints
<1>1. /\ pc = "cmq" /\ pc' = "try" /\ netQty > 0 /\ call.todo # <<>>
      /\ call' = [call EXCEPT !.todo = Tail(@)]
      /\ netQty' = netQty /\ slbs' = slbs /\ mode' = mode
      /\ shipVol' = shipVol /\ blocked' = blocked
  BY DEF CommitMaxQty, results
<1>2. mode = "none" /\ CallType
  BY <1>1 DEF Reqs, Locals
<1>3. CallType' /\ Head(call.todo) \in Periods /\ CurSearchInc' = CurSearchInc
  BY <1>1, <1>2, CallTail
<1>4. PICK inc : inc = CurSearchInc
  OBVIOUS
<1>5. inc \in Nat \ {0} /\ CallPart \in Parts
  BY <1>1, <1>2, <1>4, CallParts
<1>6. TopType'
  BY <1>1, <1>3, <1>5 DEF CommitMaxQty, TopType
<1>7. netQty \in Nat \ {0}
  BY <1>1, <1>2 DEF CallType
<1>8. PICK fail : fail = -((-netQty) \div inc)
  OBVIOUS
<1>9. fail \in Int /\ (fail - 1) * inc < netQty /\ netQty <= fail * inc
  BY <1>5, <1>7, <1>8, Increments
<1>10. search' = [stage |-> IF netQty <= inc THEN "desOnly" ELSE "inc",
                  des |-> netQty, okMult |-> 1, failMult |-> fail]
  BY <1>4, <1>8 DEF CommitMaxQty
<1>11. ~(netQty <= inc) => 1 < fail
  <2> SUFFICES ASSUME ~(netQty <= inc), fail <= 1 PROVE FALSE
    BY <1>9
  <2>1. fail * inc <= 1 * inc /\ 1 * inc = inc /\ fail * inc \in Int
    BY <1>5, <1>9, Products
  <2>2. QED
    BY <1>5, <1>7, <1>9, <2>1
<1>12. SearchType'
  <2>1. search' \in [stage : Stages, des : Nat, okMult : Nat, failMult : Int]
    BY <1>7, <1>9, <1>10 DEF Stages
  <2>2. /\ search'.des = netQty /\ search'.okMult = 1 /\ search'.failMult = fail
        /\ search'.stage \in {"desOnly", "inc"}
        /\ search'.stage = "inc" => 1 < fail
    BY <1>10, <1>11
  <2>3. (search'.failMult - 1) * CurSearchInc' < netQty'
    BY <1>1, <1>3, <1>4, <1>9, <2>2
  <2>4. CurSearchInc' \in Nat \ {0} /\ netQty' > 0
    BY <1>1, <1>3, <1>4, <1>5
  <2>5. QED
    BY <1>1, <1>2, <2>1, <2>2, <2>3, <2>4 DEF SearchType
<1>13. QED
  BY <1>1, <1>3, <1>6, <1>12 DEF Locals

\* What is known of the local variables of the search between its steps.
SearchIs(s) ==
  /\ s \in [stage : Stages, des : Nat, okMult : Nat, failMult : Int]
  /\ s.des = netQty
  /\ (s.failMult - 1) * CurSearchInc < netQty
  /\ s.okMult \in Nat \ {0}
  /\ s.stage \in {"inc", "des", "bisect", "found"} => s.okMult < s.failMult
  /\ s.stage = "bisect" => IsOpen(s)

LEMMA SearchGoesOn ==
  ASSUME SearchType, CallType, pc \in Trying,
         search.stage \in {"desOnly", "inc", "des", "bisect"}, NEW success,
         NEW n, n = AfterTempCommit(success)
  PROVE  SearchIs(n) /\ n.stage \in {"none", "des", "bisect", "found", "foundDes"}
<1>1. SearchIs(search)
  BY DEF SearchType, SearchIs
<1>2. search \in [stage : Stages, des : Nat, okMult : Nat, failMult : Int]
  BY <1>1 DEF SearchIs
\* A search whose stage alone is changed.
<1>3. ASSUME NEW stage \in Stages, n = [search EXCEPT !.stage = stage],
             stage \in {"inc", "des", "bisect", "found"} => search.okMult < search.failMult,
             stage = "bisect" => IsOpen(search)
      PROVE  SearchIs(n) /\ n.stage = stage
  <2>1. n \in [stage : Stages, des : Nat, okMult : Nat, failMult : Int]
    BY <1>2, <1>3
  <2>2. /\ n.stage = stage /\ n.des = search.des /\ n.okMult = search.okMult
        /\ n.failMult = search.failMult
    BY <1>2, <1>3
  <2>3. IsOpen(n) <=> IsOpen(search)
    BY <2>2 DEF IsOpen
  <2>4. QED
    BY <1>1, <1>3, <2>1, <2>2, <2>3 DEF SearchIs
<1>4. CASE search.stage \in {"desOnly", "des"} /\ success
  BY <1>3, <1>4 DEF AfterTempCommit, Stages
<1>5. CASE search.stage \in {"desOnly", "inc"} /\ ~success
  BY <1>3, <1>5 DEF AfterTempCommit, Stages
<1>6. CASE search.stage = "inc" /\ success
  BY <1>1, <1>3, <1>6 DEF AfterTempCommit, Stages, SearchIs
<1>7. CASE search.stage = "des" /\ ~success
  <2>1. n = [search EXCEPT !.stage = IF IsOpen(search) THEN "bisect" ELSE "found"]
    BY <1>7 DEF AfterTempCommit
  <2>2. search.okMult < search.failMult
    BY <1>1, <1>7 DEF SearchIs
  <2>3. CASE IsOpen(search)
    BY <1>3, <2>1, <2>2, <2>3 DEF Stages
  <2>4. CASE ~IsOpen(search)
    BY <1>3, <2>1, <2>2, <2>4 DEF Stages
  <2>5. QED
    BY <2>3, <2>4
<1>8. CASE search.stage = "bisect"
  <2>1. PICK good, fail, inc, mid : /\ good = search.okMult /\ fail = search.failMult
                                    /\ inc = CurSearchInc /\ mid = CurMult
    OBVIOUS
  <2>2. good \in Nat \ {0} /\ fail \in Int /\ fail > good + 1
    BY <1>1, <1>2, <1>8, <2>1 DEF SearchIs, IsOpen
  <2>3. mid = (good + fail) \div 2
    BY <2>1 DEF CurMult
  <2>4. mid \in Nat \ {0} /\ good < mid /\ mid < fail
    BY <2>2, <2>3
  <2>5. PICK s : s = IF success THEN [search EXCEPT !.okMult = mid]
                                ELSE [search EXCEPT !.failMult = mid]
    OBVIOUS
  <2>6. n = [s EXCEPT !.stage = IF IsOpen(s) THEN "bisect" ELSE "found"]
    BY <1>8, <2>1, <2>5 DEF AfterTempCommit
  <2>7. s \in [stage : Stages, des : Nat, okMult : Nat, failMult : Int]
    BY <1>2, <2>4, <2>5
  <2>8. /\ s.des = search.des
        /\ s.okMult = IF success THEN mid ELSE good
        /\ s.failMult = IF success THEN fail ELSE mid
    BY <1>2, <2>1, <2>5
  <2>9. s.okMult \in Nat \ {0} /\ s.failMult \in Int /\ s.okMult < s.failMult
        /\ s.failMult <= fail
    BY <2>2, <2>4, <2>8
  <2>10. PICK stage : stage = IF IsOpen(s) THEN "bisect" ELSE "found"
    OBVIOUS
  <2>11. stage \in Stages
    BY <2>10 DEF Stages
  <2>12. n = [s EXCEPT !.stage = stage]
    BY <2>6, <2>10
  <2>13. /\ n \in [stage : Stages, des : Nat, okMult : Nat, failMult : Int]
         /\ n.stage = stage /\ n.des = s.des /\ n.okMult = s.okMult
         /\ n.failMult = s.failMult
    BY <2>7, <2>11, <2>12
  <2>14. (n.failMult - 1) * inc < netQty
    <3>1. inc \in Nat /\ netQty \in Int
      BY <2>1 DEF SearchType, CallType
    <3>2. PICK f \in Int : f = n.failMult
      BY <2>9, <2>13
    <3>3. f - 1 <= fail - 1 /\ f - 1 \in Int /\ fail - 1 \in Int
      BY <2>2, <2>9, <2>13, <3>2
    <3>4. /\ (f - 1) * inc <= (fail - 1) * inc
          /\ (f - 1) * inc \in Int /\ (fail - 1) * inc \in Int
      BY <3>1, <3>3, Products
    <3>5. (fail - 1) * inc < netQty
      BY <1>1, <2>1 DEF SearchIs
    <3>6. (f - 1) * inc < netQty
      BY <3>1, <3>4, <3>5
    <3>7. QED
      BY <3>2, <3>6
  <2>15. IsOpen(n) <=> IsOpen(s)
    BY <2>13 DEF IsOpen
  <2>16. n.stage = "bisect" => IsOpen(n)
    BY <2>10, <2>13, <2>15
  <2>17. n.stage \in {"bisect", "found"}
    BY <2>10, <2>13
  <2>18. n.des = netQty
    BY <1>1, <2>8, <2>13 DEF SearchIs
  <2>19. SearchIs(n)
    BY <2>1, <2>9, <2>13, <2>14, <2>16, <2>18 DEF SearchIs
  <2>20. QED
    BY <2>17, <2>19
<1>9. QED
  BY <1>4, <1>5, <1>6, <1>7, <1>8

LEMMA SearchProceeds ==
  ASSUME Locals, Reqs, TempCommitReturns
  PROVE  Locals'
<1> USE DEF InCall, CommitPoints
<1>1. /\ pc = "return" /\ mode = "temp" /\ mode' = "none"
      /\ UNCHANGED <<results, call, netQty, top>>
      /\ search' = AfterTempCommit(ok)
  BY DEF TempCommitReturns
<1>2. CurSearchInc' = CurSearchInc
  BY <1>1 DEF CurSearchInc
<1>3. PICK n : n = AfterTempCommit(ok)
  OBVIOUS
<1>4. SearchIs(n) /\ n.stage \in {"none", "des", "bisect", "found", "foundDes"}
  BY <1>1, <1>3, SearchGoesOn DEF Locals, SearchType, Trying
<1>5. pc' = CASE n.stage \in {"found", "foundDes"} -> "perm"
              [] n.stage = "none"                  -> "cmqEnd"
              [] OTHER                             -> "try"
  BY <1>1, <1>3 DEF TempCommitReturns
<1>6. /\ pc' \in {"perm", "cmqEnd", "try"}
      /\ pc' = "perm" => n.stage \in {"found", "foundDes"}
      /\ pc' = "try" => n.stage \in {"des", "bisect"}
  BY <1>4, <1>5
<1>7. CallType'
  BY <1>1, <1>6, SameCall DEF Locals, results
<1>8. TopType'
  BY <1>1, <1>6 DEF Locals, TopType, Trying
<1>9. SearchType'
  <2>1. search' = n /\ netQty' = netQty
    BY <1>1, <1>3
  <2>2. CurSearchInc' \in Nat \ {0} /\ netQty' > 0
    BY <1>1, <1>2 DEF Locals, SearchType, Trying
  <2>3. IsOpen(search)' <=> IsOpen(n)
    BY <2>1 DEF IsOpen
  <2>4. QED
    BY <1>1, <1>2, <1>4, <1>6, <2>1, <2>2, <2>3 DEF SearchType, SearchIs
<1>10. QED
  BY <1>1, <1>7, <1>8, <1>9 DEF Locals, results

------------------------------------------------------------------------------

LEMMA SearchKept ==
  ASSUME SearchType, Reqs, pc \notin CommitPoints, UNCHANGED <<search, mode>>,
         pc' \notin Trying
  PROVE  SearchType'
  BY DEF SearchType, Reqs, Trying

LEMMA TopKept ==
  ASSUME TopType, top' = top, pc' \notin Trying \cup {"cmqEnd"}
  PROVE  TopType'
  BY DEF TopType

LEMMA LocalsOfMaxQty == Locals /\ Reqs /\ MaxQtyStep => Locals'
<1> SUFFICES ASSUME Locals, Reqs, MaxQtyStep
             PROVE  Locals'
  OBVIOUS
<1>0. CallType /\ TopType /\ SearchType
  BY DEF Locals
<1> USE DEF InCall, CommitPoints, Trying
<1>1. CASE SkipBlocked
  <2>1. /\ pc = "cmq" /\ pc' = "cmq" /\ call.todo # <<>>
        /\ call' = [call EXCEPT !.todo = Tail(@)]
        /\ UNCHANGED <<results, netQty, top, search, mode>>
    BY <1>1 DEF SkipBlocked
  <2>2. CallType'
    BY <1>0, <2>1, CallTail DEF results
  <2>3. TopType' /\ SearchType'
    BY <1>0, <2>1, TopKept, SearchKept
  <2>4. QED
    BY <2>1, <2>2, <2>3 DEF Locals, results
<1>2. CASE CommitMaxQty
  BY <1>2, SearchStarts
<1>3. CASE TempCommit
  <2>1. /\ pc = "try" /\ pc' = "fill" /\ mode' = "temp"
        /\ UNCHANGED <<results, callVars>>
    BY <1>3 DEF TempCommit, StartCommit
  <2>2. CallType'
    BY <1>0, <2>1, SameCall DEF results, callVars
  <2>3. TopType'
    BY <1>0, <2>1 DEF TopType, callVars
  <2>4. SearchType'
    <3>1. CurSearchInc' = CurSearchInc
      BY <2>1 DEF CurSearchInc, callVars
    <3>2. QED
      BY <1>0, <2>1, <3>1 DEF SearchType, callVars, IsOpen
  <2>5. QED
    BY <2>1, <2>2, <2>3, <2>4 DEF Locals, results
<1>4. CASE PermCommit
  <2>1. /\ pc = "perm" /\ pc' = "fill" /\ mode' = "perm"
        /\ UNCHANGED <<results, callVars>>
    BY <1>4 DEF PermCommit, StartCommit
  <2>2. CallType'
    BY <1>0, <2>1, SameCall DEF results, callVars
  <2>3. TopType'
    BY <1>0, <2>1 DEF TopType, callVars
  <2>4. SearchType'
    <3>1. CurSearchInc' = CurSearchInc
      BY <2>1 DEF CurSearchInc, callVars
    <3>2. QED
      BY <1>0, <2>1, <3>1 DEF SearchType, callVars, IsOpen
  <2>5. QED
    BY <2>1, <2>2, <2>3, <2>4 DEF Locals, results
<1>5. CASE TempCommitReturns
  BY <1>5, SearchProceeds
<1>6. CASE PermCommitReturns
  <2>1. /\ pc = "return" /\ mode = "perm" /\ mode' = "none"
        /\ pc' \in {"cmqEnd", "fatal"}
        /\ UNCHANGED <<results, call, top, search>>
        /\ netQty' = netQty \/ netQty' = netQty - TryQty
    BY <1>6 DEF PermCommitReturns
  <2>2. search.stage # "none"
    BY <1>0, <2>1 DEF SearchType
  <2>3. TryQty \in 1..netQty
    BY <1>0, <2>1, <2>2, TryQtyFits
  <2>4. netQty' \in 0..call.vol
    <3>1. PICK q \in Nat : q = TryQty /\ q <= netQty
      BY <1>0, <2>3 DEF CallType
    <3>2. netQty \in 0..call.vol /\ call.vol \in Nat
      BY <1>0 DEF CallType
    <3>3. netQty - q \in 0..call.vol
      BY <3>1, <3>2
    <3>4. QED
      BY <2>1, <3>1, <3>2, <3>3
  <2>5. CallType'
    BY <1>0, <2>1, <2>4 DEF CallType, results
  <2>6. TopType'
    BY <1>0, <2>1 DEF TopType
  <2>7. SearchType'
    BY <1>0, <2>1 DEF SearchType
  <2>8. QED
    BY <2>1, <2>5, <2>6, <2>7 DEF Locals, results
<1>7. CASE CommitMaxQtyEnds
  <2>1. /\ pc = "cmqEnd" /\ pc' = "cmq" /\ top' = NoTop /\ search' = NoSearch
        /\ UNCHANGED <<shipVol, slbs, call, netQty, mode>>
        /\ \/ blocked' = blocked
           \/ blocked' = blocked \cup {<<top.part, top.per>>}
    BY <1>7 DEF CommitMaxQtyEnds
  <2>2. CallType'
    BY <1>0, <2>1, SameCall
  <2>3. TopType'
    BY <2>1 DEF TopType
  <2>4. mode = "none"
    BY <2>1 DEF Reqs
  <2>5. SearchType'
    BY <2>1, <2>4 DEF SearchType, NoSearch, Stages
  <2>6. <<top.part, top.per>> \in Parts \X Periods
    BY <1>0, <2>1 DEF TopType
  <2>7. QED
    BY <2>1, <2>2, <2>3, <2>5, <2>6 DEF Locals
<1>8. CASE PostIncHeurAlloc
  <2>1. /\ pc = "cmq" /\ pc' = "idle" /\ call.kind = "inc"
        /\ call' = NoCall /\ netQty' = 0
        /\ UNCHANGED <<blocked, slbs, top, search, mode>>
        /\ shipVol' = [shipVol EXCEPT ![call.demand][call.per] =
                         @ + (call.vol - netQty)]
    BY <1>8 DEF PostIncHeurAlloc
  <2>2. CallType'
    BY <2>1, NoCallType
  <2>3. TopType' /\ SearchType'
    BY <1>0, <2>1, TopKept, SearchKept
  <2>4. PICK d, t : d = call.demand /\ t = call.per
    OBVIOUS
  <2>5. d \in Demands /\ t \in Periods
    BY <1>0, <2>1, <2>4 DEF CallType
  <2>6. PICK vol \in Nat : vol = call.vol - netQty
    BY <1>0 DEF CallType
  <2>7. shipVol \in [Demands -> [Periods -> Nat]]
    BY DEF Locals
  <2>8. shipVol[d][t] \in Nat /\ shipVol[d] \in [Periods -> Nat]
    BY <2>5, <2>7
  <2>9. shipVol' = [shipVol EXCEPT ![d] = [shipVol[d] EXCEPT ![t] = shipVol[d][t] + vol]]
    BY <2>1, <2>4, <2>6
  <2>10. [shipVol[d] EXCEPT ![t] = shipVol[d][t] + vol] \in [Periods -> Nat]
    <3>1. PICK f \in [Periods -> Nat] : f = shipVol[d]
      BY <2>8
    <3>2. PICK x \in Nat : x = shipVol[d][t] + vol
      BY <2>8
    <3>3. [f EXCEPT ![t] = x] \in [Periods -> Nat]
      OBVIOUS
    <3>4. QED
      BY <3>1, <3>2, <3>3, Zenon
  <2>11. shipVol' \in [Demands -> [Periods -> Nat]]
    BY <2>7, <2>9, <2>10
  <2>12. QED
    BY <2>1, <2>2, <2>3, <2>11 DEF Locals
<1>9. QED
  BY <1>1, <1>2, <1>3, <1>4, <1>5, <1>6, <1>7, <1>8 DEF MaxQtyStep

------------------------------------------------------------------------------

Inputs == supplyVol \in Supplies /\ demandVol \in DemandVols

LEMMA InputsAreTyped ==
  ASSUME Inputs
  PROVE  /\ supplyVol \in [Parts -> [Periods -> Nat]]
         /\ demandVol \in [Demands -> [Periods -> Nat]]
  BY DemandsAssumption DEF Inputs

LEMMA SumOverIsInt ==
  ASSUME NEW f \in [Periods -> Nat], NEW t \in Periods
  PROVE  SumOver(f, 0, t) \in Int
<1>1. t \in Nat /\ 0..t \subseteq Periods
  BY NumberOfPeriods
<1>2. IsFiniteSet(0..t)
  BY <1>1, FS_Interval
<1>3. \A u \in 0..t : f[u] \in Nat
  BY <1>1
<1>4. SumFunctionOnSet(f, 0..t) \in Nat
  BY <1>2, <1>3, SumNat
<1>5. SumOver(f, 0, t) = SumFunctionOnSet(f, 0..t)
  BY DEF SumOver, SumFunctionOnSet
<1>6. QED
  BY <1>4, <1>5

LEMMA DemandedIsInt ==
  ASSUME Inputs, Locals, NEW d \in Demands, NEW t \in Periods
  PROVE  DemandedIncVolUB(d, t) \in Int
<1>1. demandVol[d] \in [Periods -> Nat] /\ shipVol[d] \in [Periods -> Nat]
  BY InputsAreTyped DEF Locals
<1>2. \A u \in Periods : UnmetCumDem(d, u) \in Int
  BY <1>1, SumOverIsInt DEF UnmetCumDem
<1>3. CASE d \in ShipLate
  <2> DEFINE T == {UnmetCumDem(d, u) : u \in t..(NPeriods - 1)}
  <2>1. t \in Nat /\ t <= NPeriods - 1 /\ NPeriods - 1 \in Nat
    BY NumberOfPeriods
  <2>2. t..(NPeriods - 1) \subseteq Periods /\ t \in t..(NPeriods - 1)
    BY <2>1, NumberOfPeriods
  <2>3. IsFiniteSet(t..(NPeriods - 1))
    BY <2>1, FS_Interval
  <2>4. PICK f : f = [u \in t..(NPeriods - 1) |-> UnmetCumDem(d, u)]
    OBVIOUS
  <2>5. f \in Surjection(t..(NPeriods - 1), T)
    BY <2>4 DEF Surjection
  <2>6. IsFiniteSet(T)
    BY <2>3, <2>5, FS_Surjection
  <2>7. T \in SUBSET Int /\ T # {}
    BY <1>2, <2>2
  <2>8. Min(T) \in Int
    BY <2>6, <2>7, MinFacts
  <2>9. QED
    BY <1>3, <2>8 DEF DemandedIncVolUB
<1>4. CASE d \notin ShipLate
  <2>1. demandVol[d][t] \in Nat /\ shipVol[d][t] \in Nat
    BY <1>1
  <2>2. QED
    BY <1>4, <2>1 DEF DemandedIncVolUB
<1>5. QED
  BY <1>3, <1>4

LEMMA PeriodsToTryArePeriods ==
  ASSUME NEW d \in Demands, NEW t \in Periods
  PROVE  PeriodsToTry(d, t) \in Seq(Periods)
<1>1. t \in Nat /\ t <= NPeriods - 1
  BY NumberOfPeriods
<1>2. PICK ahead \in Nat : ahead = BuildAheadUB[d][t]
  BY DemandsAssumption
<1>3. PICK earliest : earliest = Max({0, t - ahead})
  OBVIOUS
<1>4. PICK x \in Int : x = t - ahead
  BY <1>1
<1>5. earliest \in Nat /\ earliest <= t
  <2>1. earliest \in Nat /\ earliest = IF x <= 0 THEN 0 ELSE x
    BY <1>3, <1>4, NetMax
  <2>2. QED
    BY <1>1, <1>4, <2>1
<1>6. PICK able : able = {u \in earliest..t :
                            \A v \in u..(t - 1) : CanStock(DemandedPart[d], v)}
  OBVIOUS
<1>7. able \in SUBSET Nat /\ t \in able
  BY <1>1, <1>5, <1>6
<1>8. PICK firstPer : firstPer = Min(able)
  OBVIOUS
<1>9. firstPer \in Nat /\ firstPer <= t
  BY <1>7, <1>8, MinOfNats
<1>10. PICK n \in Nat : n = t - firstPer + 1
  BY <1>1, <1>9
<1>11. PICK up : up = [i \in 1..n |-> firstPer + i - 1]
  OBVIOUS
<1>12. \A i \in 1..n : firstPer + i - 1 \in Periods /\ n - i + 1 \in 1..n
  BY <1>1, <1>9, <1>10, NumberOfPeriods
<1>13. up \in [1..n -> Periods]
  BY <1>11, <1>12
<1>14. up \in Seq(Periods) /\ Len(up) = n
  BY <1>13
<1>15. Reverse(up) \in Seq(Periods)
  <2>1. Reverse(up) = [i \in 1..n |-> up[n - i + 1]]
    BY <1>14 DEF Reverse
  <2>2. Reverse(up) \in [1..n -> Periods]
    BY <1>12, <1>13, <2>1
  <2>3. QED
    BY <2>2
<1>16. PeriodsToTry(d, t) = IF d \in PrefBuildAhead THEN up ELSE Reverse(up)
  BY <1>2, <1>3, <1>6, <1>8, <1>10, <1>11 DEF PeriodsToTry
<1>17. QED
  BY <1>14, <1>15, <1>16

LEMMA LocalsOfCall == Inputs /\ Locals /\ Reqs /\ Call => Locals'
<1> SUFFICES ASSUME Inputs, Locals, Reqs, Call
             PROVE  Locals'
  OBVIOUS
<1>0. CallType /\ TopType /\ SearchType
  BY DEF Locals
<1> USE DEF InCall, CommitPoints, Trying
<1>1. ASSUME NEW d \in Demands, NEW t \in Periods, NEW v \in 1..MaxDesIncVol,
             IncHeurAlloc(d, t, v)
      PROVE  Locals'
  <2>1. PICK ub \in Int : ub = DemandedIncVolUB(d, t)
    BY DemandedIsInt
  <2>2. v \in Int
    OBVIOUS
  <2>3. PICK vol : vol = Min({v, ub})
    OBVIOUS
  <2>4. vol \in Int
    BY <2>1, <2>2, <2>3, MinOfTwo
  <2>5. PICK todo \in Seq(Periods) : todo = PeriodsToTry(d, t)
    BY PeriodsToTryArePeriods
  <2>6. /\ pc = "idle" /\ pc' = "cmq" /\ vol > 0
        /\ call' = [kind |-> "inc", demand |-> d, per |-> t, vol |-> vol, todo |-> todo]
        /\ netQty' = vol
        /\ UNCHANGED <<results, top, search, mode>>
    BY <1>1, <2>1, <2>3, <2>5 DEF IncHeurAlloc
  <2>7. CallType'
    <3>1. vol \in Nat /\ vol \in 0..vol
      BY <2>4, <2>6
    <3>2. QED
      BY <2>6, <3>1 DEF CallType
  <2>8. TopType' /\ SearchType'
    BY <1>0, <2>6, TopKept, SearchKept
  <2>9. QED
    BY <2>6, <2>7, <2>8 DEF Locals, results
<1>2. CASE FinishHeurAlloc
  <2>1. /\ pc = "idle" /\ pc' = "slb"
        /\ UNCHANGED <<shipVol, blocked, call, netQty, top, search, mode>>
    BY <1>2 DEF FinishHeurAlloc, callVars
  <2>2. call = NoCall
    BY <1>0, <2>1 DEF CallType
  <2>3. CallType'
    BY <1>0, <2>1, <2>2 DEF CallType, NoCall
  <2>4. TopType' /\ SearchType'
    BY <1>0, <2>1, TopKept, SearchKept
  <2>5. QED
    BY <2>1, <2>3, <2>4 DEF Locals
<1>3. CASE StartHeurAlloc
  <2>1. /\ pc = "done" /\ pc' = "idle"
        /\ shipVol' = [d \in Demands |-> [t \in Periods |-> 0]] /\ blocked' = {}
        /\ UNCHANGED <<slbs, call, netQty, top, search, mode>>
    BY <1>3 DEF StartHeurAlloc, callVars
  <2>2. CallType'
    BY <1>0, <2>1 DEF CallType
  <2>3. TopType' /\ SearchType'
    BY <1>0, <2>1, TopKept, SearchKept
  <2>4. QED
    BY <2>1, <2>2, <2>3 DEF Locals
<1>4. QED
  BY <1>1, <1>2, <1>3 DEF Call

LEMMA LocalsInit == Init => Locals
<1> SUFFICES ASSUME Init PROVE Locals
  OBVIOUS
<1>1. 0 \in Periods /\ <<>> \in Seq(Periods)
  BY NumberOfPeriods
<1>2. CallType
  BY <1>1 DEF Init, CallType, NoCall, InCall, CommitPoints
<1>3. TopType
  BY DEF Init, TopType, Trying, CommitPoints
<1>4. SearchType
  BY DEF Init, SearchType, NoSearch, Stages, Trying, CommitPoints
<1>5. QED
  BY <1>2, <1>3, <1>4 DEF Init, Locals

LEMMA LocalsOfStockSLB ==
  ASSUME Locals, Reqs, IntMem(soln.mem), Feasible(soln.mem), StockSLBStep
  PROVE  Locals'
<1>0. CallType /\ TopType /\ SearchType
  BY DEF Locals
<1> USE DEF InCall, CommitPoints, Trying
<1>1. ASSUME NEW m \in Materials, NEW t \in Periods, EnforceStockSLB(m, t)
      PROVE  Locals'
  <2>1. PICK slb \in Nat : slb = StockSLB[m][t]
    BY DemandsAssumption
  <2>2. PICK left : IsLeft(soln.mem, m, left) /\ Nonneg(left)
    BY DEF Feasible, Covered, Parts
  <2>3. PICK res : res = AvailToNet(soln, m, t, slb, 0)
    OBVIOUS
  <2>4. res \in Int /\ res <= slb
    BY <2>2, <2>3, AvailToNetFits
  <2>5. PICK rest \in Nat : rest = slb - Max({0, res})
    BY <2>4, NetMax
  <2>6. /\ pc = "slb" /\ pc' = "cmq" /\ slbs[1] = [mat |-> m, per |-> t]
        /\ netQty' = rest
        /\ call' = [NoCall EXCEPT !.kind = "slb", !.per = t, !.vol = rest, !.todo = <<t>>]
        /\ UNCHANGED <<results, top, search, mode>>
    BY <1>1, <2>1, <2>3, <2>5 DEF EnforceStockSLB
  <2>7. CallType'
    <3>1. <<t>> \in Seq(Periods) /\ rest \in 0..rest
      OBVIOUS
    <3>2. slbs'[1].mat \in Materials
      BY <2>6 DEF results
    <3>3. PICK todo \in Seq(Periods) : todo = <<t>>
      BY <3>1
    <3>4. call' = [kind |-> "slb", demand |-> "none", per |-> t, vol |-> rest,
                   todo |-> todo]
      BY <2>6, <3>3 DEF NoCall
    <3>5. /\ call' \in [kind : {"none", "inc", "slb"}, demand : Demands \cup {"none"},
                        per : Periods, vol : Nat, todo : Seq(Periods)]
          /\ call'.kind = "slb" /\ call'.vol = rest
      BY <3>4
    <3>6. netQty' \in 0..(call'.vol)
      BY <2>6, <3>1, <3>5
    <3>7. QED
      BY <2>6, <3>2, <3>5, <3>6 DEF CallType
  <2>8. TopType' /\ SearchType'
    BY <1>0, <2>6, TopKept, SearchKept
  <2>9. QED
    BY <2>6, <2>7, <2>8 DEF Locals, results
<1>2. ASSUME NEW m \in Materials, NEW t \in Periods, StockSLBEnforced(m, t)
      PROVE  Locals'
  <2>1. /\ pc = "cmq" /\ pc' = "slb" /\ call' = NoCall /\ netQty' = 0
        /\ UNCHANGED <<shipVol, blocked, top, search, mode>>
    BY <1>2 DEF StockSLBEnforced
  <2>2. CallType'
    BY <2>1, NoCallType
  <2>3. TopType' /\ SearchType'
    BY <1>0, <2>1, TopKept, SearchKept
  <2>4. QED
    BY <2>1, <2>2, <2>3 DEF Locals
<1>3. CASE StockSLBsEnforced
  <2>1. /\ pc = "slb" /\ pc' = "done" /\ UNCHANGED <<results, callVars, mode>>
    BY <1>3 DEF StockSLBsEnforced
  <2>2. CallType'
    BY <1>0, <2>1 DEF CallType, callVars, results
  <2>3. TopType' /\ SearchType'
    BY <1>0, <2>1, TopKept, SearchKept DEF callVars
  <2>4. QED
    BY <2>1, <2>2, <2>3 DEF Locals, results
<1>4. QED
  BY <1>1, <1>2, <1>3 DEF StockSLBStep

------------------------------------------------------------------------------
(***************************************************************************)
(* The stores are typed: their variables are numbers, and so is whatever   *)
(* the stacks hold.                                                        *)
(***************************************************************************)

LogTyped(s, locs) ==
  \A k \in Kinds : \A i \in 1..Len(s.log[k]) :
     s.log[k][i].loc \in locs /\ s.log[k][i].val \in Int

Typed(s, locs) ==
  /\ StoreShape(s)
  /\ DOMAIN s.mem = locs /\ \A loc \in locs : s.mem[loc] \in Int
  /\ LogTyped(s, locs)

LEMMA TypedNew ==
  ASSUME NEW locs, NEW mem \in [locs -> Int]
  PROVE  Typed(NewStore(mem), locs)
<1>1. StoreShape(NewStore(mem)) /\ Clean(NewStore(mem)) /\ NewStore(mem).mem = mem
  BY NewStoreIsClean
<1>2. LogTyped(NewStore(mem), locs)
  BY <1>1 DEF LogTyped, Clean
<1>3. QED
  BY <1>1, <1>2 DEF Typed

LEMMA LogPush ==
  ASSUME NEW s, StoreShape(s), NEW locs, LogTyped(s, locs), NEW loc \in locs,
         KindOf(loc) \in Kinds, NEW val, s.mem[loc] \in Int
  PROVE  LogTyped(SaveAndAssign(s, loc, val), locs)
<1>1. PICK e : e = [loc |-> loc, val |-> s.mem[loc]]
  OBVIOUS
<1>2. e.loc \in locs /\ e.val \in Int
  BY <1>1
<1>3. PICK n : n = SaveAndAssign(s, loc, val)
  OBVIOUS
<1>4. s.log = [k \in Kinds |-> s.log[k]]
  BY DEF StoreShape
<1>5. n.log = [s.log EXCEPT ![KindOf(loc)] = Append(@, e)]
  BY <1>1, <1>3 DEF SaveAndAssign
<1>6. ASSUME NEW k \in Kinds, NEW i \in 1..Len(n.log[k])
      PROVE  n.log[k][i].loc \in locs /\ n.log[k][i].val \in Int
  <2>1. CASE k # KindOf(loc)
    <3>1. n.log[k] = s.log[k]
      BY <1>4, <1>5, <2>1
    <3>2. QED
      BY <1>6, <3>1 DEF LogTyped
  <2>2. CASE k = KindOf(loc)
    <3>1. PICK stack : stack = s.log[k]
      OBVIOUS
    <3>2. n.log[k] = Append(stack, e) /\ IsStack(stack)
      BY <1>4, <1>5, <2>2, <3>1 DEF StoreShape
    <3>3. /\ Len(stack) \in Nat /\ Len(n.log[k]) = Len(stack) + 1
          /\ \A j \in 1..Len(stack) : n.log[k][j] = stack[j]
          /\ n.log[k][Len(stack) + 1] = e
      BY <3>2, StackPush
    <3>4. i \in 1..Len(stack) \/ i = Len(stack) + 1
      BY <3>3
    <3>5. CASE i \in 1..Len(stack)
      BY <3>1, <3>3, <3>5 DEF LogTyped
    <3>6. CASE i = Len(stack) + 1
      BY <1>2, <3>3, <3>6
    <3>7. QED
      BY <3>4, <3>5, <3>6
  <2>3. QED
    BY <2>1, <2>2
<1>7. LogTyped(n, locs)
  BY <1>6 DEF LogTyped
<1>8. QED
  BY <1>3, <1>7

LEMMA TypedSave ==
  ASSUME NEW s, NEW locs, Typed(s, locs), NEW loc \in locs,
         KindOf(loc) \in Kinds, NEW val \in Int
  PROVE  Typed(SaveAndAssign(s, loc, val), locs)
<1>1. PICK n : n = SaveAndAssign(s, loc, val)
  OBVIOUS
<1>2. StoreShape(n)
  BY <1>1, SaveShape DEF Typed
<1>3. LogTyped(n, locs)
  BY <1>1, LogPush DEF Typed
<1>4. n.mem = [s.mem EXCEPT ![loc] = val]
  BY <1>1 DEF SaveAndAssign
<1>5. DOMAIN n.mem = locs /\ \A l \in locs : n.mem[l] \in Int
  BY <1>4 DEF Typed, StoreShape
<1>6. QED
  BY <1>1, <1>2, <1>3, <1>5 DEF Typed

LEMMA LogOfPut ==
  ASSUME NEW s, StoreShape(s), NEW locs, LogTyped(s, locs), NEW loc \in locs,
         KindOf(loc) \in Kinds, NEW val, s.mem[loc] \in Int
  PROVE  LogTyped(Put(s, loc, val, mode = "temp"), locs)
<1>1. CASE mode = "temp"
  BY <1>1, LogPush DEF Put
<1>2. CASE mode # "temp"
  <2>1. Assign(s, loc, val).log = s.log
    BY AssignShape
  <2>2. QED
    BY <1>2, <2>1 DEF Put, LogTyped
<1>3. QED
  BY <1>1, <1>2

LEMMA TypedPop ==
  ASSUME NEW s, NEW locs, Typed(s, locs), NEW k \in Kinds, s.log[k] # <<>>
  PROVE  Typed(PopKind(s, k), locs)
<1>1. PICK stack : stack = s.log[k]
  OBVIOUS
<1>2. PICK entry : entry = stack[Len(stack)]
  OBVIOUS
<1>3. PICK rest : rest = SubSeq(stack, 1, Len(stack) - 1)
  OBVIOUS
<1>4. IsStack(stack) /\ stack # <<>>
  BY <1>1 DEF Typed, StoreShape
<1>5. /\ Len(stack) \in Nat \ {0} /\ Len(rest) = Len(stack) - 1
      /\ \A i \in 1..Len(rest) : rest[i] = stack[i]
  BY <1>3, <1>4, StackPop
<1>6. \A i \in 1..Len(stack) : stack[i].loc \in locs /\ stack[i].val \in Int
  BY <1>1 DEF Typed, LogTyped
<1>7. entry.loc \in locs /\ entry.val \in Int
  BY <1>2, <1>5, <1>6
<1>8. PICK n : n = PopKind(s, k)
  OBVIOUS
<1>9. StoreShape(n)
  BY <1>4, <1>1, <1>8, PopShape DEF Typed
<1>10. n.mem = [s.mem EXCEPT ![entry.loc] = entry.val] /\ n.log = [s.log EXCEPT ![k] = rest]
  BY <1>1, <1>2, <1>3, <1>8 DEF PopKind
<1>11. DOMAIN n.mem = locs /\ \A l \in locs : n.mem[l] \in Int
  BY <1>7, <1>10 DEF Typed, StoreShape
<1>12. s.log = [j \in Kinds |-> s.log[j]]
  BY DEF Typed, StoreShape
<1>13. ASSUME NEW j \in Kinds, NEW i \in 1..Len(n.log[j])
       PROVE  n.log[j][i].loc \in locs /\ n.log[j][i].val \in Int
  <2>1. CASE j # k
    <3>1. n.log[j] = s.log[j]
      BY <1>10, <1>12, <2>1
    <3>2. QED
      BY <1>13, <3>1 DEF Typed, LogTyped
  <2>2. CASE j = k
    <3>1. n.log[j] = rest
      BY <1>10, <1>12, <2>2
    <3>2. i \in 1..Len(rest) /\ i \in 1..Len(stack) /\ rest[i] = stack[i]
      BY <1>5, <1>13, <3>1
    <3>3. QED
      BY <1>6, <3>1, <3>2
  <2>3. QED
    BY <2>1, <2>2
<1>14. LogTyped(n, locs)
  BY <1>13 DEF LogTyped
<1>15. QED
  BY <1>8, <1>9, <1>11, <1>14 DEF Typed

LEMMA TypedRestore ==
  ASSUME NEW s, NEW locs, Typed(s, locs), ~Clean(s)
  PROVE  Typed(RestoreStep(s), locs)
<1>1. Restoring(s) \in Kinds /\ s.log[Restoring(s)] # <<>>
  BY RestoringIsFound DEF Typed
<1>2. QED
  BY <1>1, TypedPop DEF RestoreStep

------------------------------------------------------------------------------

\* An addition to the requirements schedule.
LEMMA TypedAddTo ==
  ASSUME NEW r, Typed(r, ReqLocs), NEW p \in Parts, NEW t \in Periods, NEW qty \in Int
  PROVE  /\ Typed(AddTo(r, p, t, qty), ReqLocs)
         /\ \A q \in Parts, u \in Periods :
              <<q, u>> # <<p, t>> => ReqVol(AddTo(r, p, t, qty), q, u) = ReqVol(r, q, u)
<1>0. PICK locR, locF, locL : locR = ReqLoc(p, t) /\ locF = FirstPerLoc(p) /\ locL = LastPerLoc(p)
  OBVIOUS
<1>1. KindOf(locR) \in Kinds /\ KindOf(locF) \in Kinds /\ KindOf(locL) \in Kinds
  BY <1>0 DEF ReqLoc, FirstPerLoc, LastPerLoc, KindOf, Kinds
<1>2. locR \in ReqLocs /\ locF \in ReqLocs /\ locL \in ReqLocs
  BY <1>0 DEF ReqLocs
<1>3. \A q \in Parts, u \in Periods :
         /\ ReqLoc(q, u) \in ReqLocs /\ ReqLoc(q, u) # locF /\ ReqLoc(q, u) # locL
         /\ <<q, u>> # <<p, t>> => ReqLoc(q, u) # locR
  BY <1>0 DEF ReqLocs, ReqLoc, FirstPerLoc, LastPerLoc
<1>4. t \in Int
  BY NumberOfPeriods
<1>5. PICK vol : vol = SaveAndAssign(r, locR, ReqVol(r, p, t) + qty)
  OBVIOUS
<1>6. PICK new \in Int : new = ReqVol(r, p, t) + qty
  BY <1>0, <1>2 DEF Typed, ReqVol
<1>7. Typed(vol, ReqLocs) /\ vol.mem = [r.mem EXCEPT ![locR] = new]
  BY <1>1, <1>2, <1>5, <1>6, TypedSave DEF SaveAndAssign
<1>8. PICK first : first = IF t < FirstPer(vol, p) THEN SaveAndAssign(vol, locF, t) ELSE vol
  OBVIOUS
<1>9. Typed(first, ReqLocs) /\ (first.mem = vol.mem \/ first.mem = [vol.mem EXCEPT ![locF] = t])
  BY <1>1, <1>2, <1>4, <1>7, <1>8, TypedSave DEF SaveAndAssign
<1>10. PICK last : last = IF t > LastPer(first, p) THEN SaveAndAssign(first, locL, t) ELSE first
  OBVIOUS
<1>11. Typed(last, ReqLocs) /\ (last.mem = first.mem \/ last.mem = [first.mem EXCEPT ![locL] = t])
  BY <1>1, <1>2, <1>4, <1>9, <1>10, TypedSave DEF SaveAndAssign
<1>12. AddTo(r, p, t, qty) = last
  BY <1>0, <1>5, <1>8, <1>10 DEF AddTo
<1>13. ASSUME NEW q \in Parts, NEW u \in Periods, <<q, u>> # <<p, t>>
       PROVE  last.mem[ReqLoc(q, u)] = r.mem[ReqLoc(q, u)]
  <2>1. PICK l \in ReqLocs : l = ReqLoc(q, u) /\ l # locF /\ l # locL /\ l # locR
    BY <1>3, <1>13
  <2>2. vol.mem[l] = r.mem[l]
    BY <1>7, <2>1 DEF Typed
  <2>3. first.mem[l] = vol.mem[l]
    BY <1>7, <1>9, <2>1 DEF Typed
  <2>4. last.mem[l] = first.mem[l]
    BY <1>9, <1>11, <2>1 DEF Typed
  <2>5. QED
    BY <2>1, <2>2, <2>3, <2>4
<1>14. QED
  BY <1>11, <1>12, <1>13 DEF ReqVol

------------------------------------------------------------------------------
(***************************************************************************)
(* What the steps of a commit write: the schedule stays feasible.          *)
(***************************************************************************)

Sound(s) == StoreShape(s) /\ IntMem(s.mem) /\ LogTyped(s, SolnLocs)

SoundAndFeasible(s) == Sound(s) /\ Feasible(s.mem)

LEMMA SoundIsTyped == ASSUME NEW s, Sound(s) PROVE Typed(s, SolnLocs)
  BY DEF Sound, Typed, IntMem

LEMMA AddAvailSound ==
  ASSUME NEW s, Sound(s), NEW p \in Parts, NEW t \in Periods, NEW delta \in Int
  PROVE  /\ Sound(AddAvail(s, p, t, delta))
         /\ AddsTo(s, p, t, delta, AddAvail(s, p, t, delta))
<1>1. StoreShape(s) /\ IntMem(s.mem) /\ LogTyped(s, SolnLocs)
  BY DEF Sound
<1>2. AddsTo(s, p, t, delta, AddAvail(s, p, t, delta))
  BY <1>1, AddAvailAdds
<1>3. PICK locA, locD : locA = AvailLoc(p, t) /\ locD = LastDecLoc(p)
  OBVIOUS
<1>4. /\ KindOf(locA) \in Kinds /\ KindOf(locD) \in Kinds /\ locA # locD
      /\ locA \in SolnLocs /\ (p \in Materials => locD \in SolnLocs)
  BY <1>3 DEF AvailLoc, LastDecLoc, KindOf, Kinds, SolnLocs
<1>5. PICK added : added = Put(s, locA, IncAvailVol(s, p, t) + delta, mode = "temp")
  OBVIOUS
<1>6. s.mem[locA] \in Int /\ (p \in Materials => s.mem[locD] \in Int)
  BY <1>1, <1>4 DEF IntMem
<1>7. LogTyped(added, SolnLocs)
  BY <1>1, <1>4, <1>5, <1>6, LogOfPut
<1>8. PICK val : val = IncAvailVol(s, p, t) + delta
  OBVIOUS
<1>9. StoreShape(added) /\ added.mem = [s.mem EXCEPT ![locA] = val]
  BY <1>1, <1>4, <1>5, <1>8, PutIs
<1>10. p \in Materials => added.mem[locD] = s.mem[locD]
  BY <1>1, <1>4, <1>9 DEF IntMem
<1>11. PICK moved : moved = Put(added, locD, t, mode = "temp")
  OBVIOUS
<1>12. p \in Materials => LogTyped(moved, SolnLocs)
  BY <1>4, <1>6, <1>7, <1>9, <1>10, <1>11, LogOfPut
<1>13. \/ AddAvail(s, p, t, delta) = added
       \/ AddAvail(s, p, t, delta) = moved /\ p \in Materials
  BY <1>3, <1>5, <1>11 DEF AddAvail, AddToIncAvailVol
<1>14. LogTyped(AddAvail(s, p, t, delta), SolnLocs)
  BY <1>7, <1>12, <1>13
<1>15. QED
  BY <1>2, <1>14 DEF Sound, AddsTo

SameAvail(s, n) ==
  \A p \in Parts, t \in Periods : n.mem[AvailLoc(p, t)] = s.mem[AvailLoc(p, t)]

LEMMA SameAvailSame ==
  ASSUME NEW s, NEW n, SameAvail(s, n), NEW p \in Parts
  PROVE  /\ Covered(n.mem, p) <=> Covered(s.mem, p)
         /\ \A u, vol : Offers(n.mem, p, u, vol) <=> Offers(s.mem, p, u, vol)
<1>1. \A left : IsLeft(n.mem, p, left) <=> IsLeft(s.mem, p, left)
  BY DEF SameAvail, IsLeft
<1>2. QED
  BY <1>1 DEF Covered, Offers

LEMMA PutSound ==
  ASSUME NEW s, Sound(s), NEW loc \in SolnLocs, loc[2] \in {"execVol", "subVol"},
         NEW val \in Int
  PROVE  /\ Sound(Put(s, loc, val, mode = "temp"))
         /\ SameAvail(s, Put(s, loc, val, mode = "temp"))
<1>1. KindOf(loc) \in Kinds
  BY SolnLocsHaveKinds
<1>2. PICK n : n = Put(s, loc, val, mode = "temp")
  OBVIOUS
<1>3. s.mem[loc] \in Int
  BY DEF Sound, IntMem
<1>4. StoreShape(n) /\ n.mem = [s.mem EXCEPT ![loc] = val]
  BY <1>1, <1>2, PutIs DEF Sound
<1>5. LogTyped(n, SolnLocs)
  BY <1>1, <1>2, <1>3, LogOfPut DEF Sound
<1>6. /\ DOMAIN n.mem = SolnLocs /\ n.mem[loc] = val
      /\ \A l \in SolnLocs : l # loc => n.mem[l] = s.mem[l]
  BY <1>4 DEF Sound, IntMem
<1>7. /\ \A m \in Materials : LastDecLoc(m) \in SolnLocs /\ LastDecLoc(m) # loc
      /\ \A q \in Parts, u \in Periods : AvailLoc(q, u) \in SolnLocs /\ AvailLoc(q, u) # loc
  BY DEF SolnLocs, LastDecLoc, AvailLoc
<1>8. SameAvail(s, n) /\ \A m \in Materials : n.mem[LastDecLoc(m)] = s.mem[LastDecLoc(m)]
  BY <1>6, <1>7 DEF SameAvail
<1>9. \A l \in SolnLocs : n.mem[l] \in Int
  BY <1>6 DEF Sound, IntMem
<1>10. \A m \in Materials : n.mem[LastDecLoc(m)] \in -1..(NPeriods - 1)
  BY <1>8 DEF Sound, IntMem
<1>11. Bounded(n.mem)
  BY <1>8 DEF Sound, IntMem, Bounded, SameAvail, Parts
<1>12. IntMem(n.mem)
  BY <1>6, <1>9, <1>10, <1>11 DEF IntMem
<1>13. QED
  BY <1>2, <1>4, <1>5, <1>8, <1>12 DEF Sound

LEMMA PutFeasible ==
  ASSUME NEW s, SoundAndFeasible(s), NEW loc \in SolnLocs,
         loc[2] \in {"execVol", "subVol"}, NEW val \in Int
  PROVE  SoundAndFeasible(Put(s, loc, val, mode = "temp"))
<1>1. PICK n : n = Put(s, loc, val, mode = "temp")
  OBVIOUS
<1>2. Sound(n) /\ SameAvail(s, n)
  BY <1>1, PutSound DEF SoundAndFeasible
<1>3. Feasible(n.mem)
  BY <1>2, SameAvailSame DEF SoundAndFeasible, Feasible
<1>4. QED
  BY <1>1, <1>2, <1>3 DEF SoundAndFeasible

\* What the schedule offers may be taken.
LEMMA TakeFeasible ==
  ASSUME NEW s, SoundAndFeasible(s), NEW p \in Parts, NEW t \in Periods,
         NEW vol \in Int, Offers(s.mem, p, t, vol)
  PROVE  SoundAndFeasible(AddAvail(s, p, t, -vol))
<1>1. PICK delta \in Int : delta = -vol
  OBVIOUS
<1>2. PICK n : n = AddAvail(s, p, t, delta)
  OBVIOUS
<1>3. Sound(n) /\ AddsTo(s, p, t, delta, n)
  BY <1>2, AddAvailSound DEF SoundAndFeasible
<1>4. AddsTo(s, p, t, -vol, n)
  BY <1>1, <1>3
<1>5. Feasible(n.mem)
  BY <1>4, TakingIsFeasible DEF SoundAndFeasible, Sound
<1>6. QED
  BY <1>1, <1>2, <1>3, <1>5 DEF SoundAndFeasible

LEMMA GiveFeasible ==
  ASSUME NEW s, SoundAndFeasible(s), NEW p \in Parts, NEW t \in Periods, NEW vol \in Nat
  PROVE  /\ SoundAndFeasible(AddAvail(s, p, t, vol))
         /\ \A u \in Periods : Reaches(p, t, u) => Offers(AddAvail(s, p, t, vol).mem, p, u, vol)
         /\ \A q \in Parts, u \in Periods, x \in Int :
              Offers(s.mem, q, u, x) => Offers(AddAvail(s, p, t, vol).mem, q, u, x)
<1>1. vol \in Int
  OBVIOUS
<1>2. PICK n : n = AddAvail(s, p, t, vol)
  OBVIOUS
<1>3. Sound(n) /\ AddsTo(s, p, t, vol, n)
  BY <1>1, <1>2, AddAvailSound DEF SoundAndFeasible
<1>4. /\ Feasible(n.mem)
      /\ \A u \in Periods : Reaches(p, t, u) => Offers(n.mem, p, u, vol)
      /\ \A q \in Parts, u \in Periods, x \in Int :
           Offers(s.mem, q, u, x) => Offers(n.mem, q, u, x)
  BY <1>3, GivingIsFeasible DEF SoundAndFeasible, Sound
<1>5. QED
  BY <1>2, <1>3, <1>4 DEF SoundAndFeasible

\* Netting takes what is available.
NettedStore(s, p, t, vol) == IF vol = 0 THEN s ELSE AddAvail(s, p, t, -vol)

LEMMA NetFeasible ==
  ASSUME NEW s, SoundAndFeasible(s), NEW p \in Parts, NEW t \in Periods,
         NEW reqVol \in Nat, NEW vol, vol = NetWoSRVol(s, p, t, reqVol)
  PROVE  vol \in 0..reqVol /\ SoundAndFeasible(NettedStore(s, p, t, vol))
<1>1. IntMem(s.mem) /\ Covered(s.mem, p)
  BY DEF SoundAndFeasible, Sound, Feasible
<1>2. vol \in 0..reqVol /\ Offers(s.mem, p, t, vol)
  BY <1>1, NettingFits
<1>3. vol \in Int
  BY <1>2
<1>4. SoundAndFeasible(AddAvail(s, p, t, -vol))
  BY <1>2, <1>3, TakeFeasible
<1>5. QED
  BY <1>2, <1>4 DEF NettedStore

\* netAndRollReq takes what may be needed later and moves the need there.
RolledStore(s, p, t, vol, rollPer) ==
  IF vol = 0 THEN s
  ELSE IF rollPer < 0 THEN AddAvail(s, p, t, -vol)
  ELSE AddAvail(AddAvail(s, p, t, -vol), p, rollPer, vol)

LEMMA RollFeasible ==
  ASSUME NEW s, SoundAndFeasible(s), NEW p \in Materials, NEW t \in Periods,
         NEW reqVol \in Nat, NEW vol, vol = RollVol(s, p, t, reqVol),
         NEW rollPer, rollPer = IF vol = 0 THEN -1 ELSE RollPeriod(s, p, t)
  PROVE  /\ vol \in 0..reqVol
         /\ rollPer # -1 => rollPer \in Periods /\ t < rollPer
         /\ SoundAndFeasible(RolledStore(s, p, t, vol, rollPer))
<1>1. IntMem(s.mem) /\ Covered(s.mem, p) /\ p \in Parts
  BY DEF SoundAndFeasible, Sound, Feasible, Parts
<1>2. PICK per : per = RollPeriod(s, p, t)
  OBVIOUS
<1>3. /\ vol \in 0..reqVol
      /\ per = -1 => Offers(s.mem, p, t, vol)
      /\ per # -1 => /\ per \in Periods /\ t < per
                     /\ Reaches(p, t, per)
                     /\ Rolls(s.mem, p, t, vol, per)
  BY <1>1, <1>2, RollingFits
<1>4. vol \in Nat /\ vol \in Int
  BY <1>3
<1>5. CASE vol = 0
  BY <1>3, <1>5 DEF RolledStore
<1>6. CASE vol # 0 /\ per = -1
  <2>1. SoundAndFeasible(AddAvail(s, p, t, -vol))
    BY <1>1, <1>3, <1>4, <1>6, TakeFeasible
  <2>2. QED
    BY <1>2, <1>3, <1>6, <2>1 DEF RolledStore
<1>7. CASE vol # 0 /\ per # -1
  <2>1. rollPer = per /\ per \in Periods /\ t < per /\ ~(per < 0)
    BY <1>2, <1>3, <1>7, NumberOfPeriods
  <2>2. PICK delta \in Int : delta = -vol
    BY <1>4
  <2>3. PICK taken : taken = AddAvail(s, p, t, delta)
    OBVIOUS
  <2>4. Sound(taken) /\ AddsTo(s, p, t, delta, taken)
    BY <1>1, <2>3, AddAvailSound DEF SoundAndFeasible
  <2>5. PICK n : n = AddAvail(taken, p, per, vol)
    OBVIOUS
  <2>6. Sound(n) /\ AddsTo(taken, p, per, vol, n)
    BY <1>1, <1>4, <2>1, <2>4, <2>5, AddAvailSound
  <2>7. AddsTo(s, p, t, -vol, taken)
    BY <2>2, <2>4
  <2>8. Rolls(s.mem, p, t, vol, per)
    BY <1>3, <1>7
  <2>9. IntMem(s.mem) /\ Feasible(s.mem)
    BY DEF SoundAndFeasible, Sound
  <2>10. Feasible(n.mem)
    BY <1>1, <1>4, <2>1, <2>6, <2>7, <2>8, <2>9, RollingIsFeasible
  <2>11. RolledStore(s, p, t, vol, rollPer) = n
    BY <1>7, <2>1, <2>2, <2>3, <2>5 DEF RolledStore
  <2>12. QED
    BY <1>3, <2>1, <2>6, <2>10, <2>11 DEF SoundAndFeasible
<1>8. QED
  BY <1>5, <1>6, <1>7

------------------------------------------------------------------------------
(***************************************************************************)
(* The requirement that is being filled and the explosion that fills it.   *)
(***************************************************************************)

Executing == {"bom", "net", "cons", "bop"}
Exploding == {"explode"} \cup Executing

CursorType == cursor \in [idx : Nat, per : Nat]

\* What is exploded is the requirement that the cursor points at.
FillsReq ==
  pc \in Exploding =>
    /\ cursor.idx \in DOMAIN TopList /\ cursor.per \in Periods
    /\ frame.part = TopList[cursor.idx] /\ frame.fillPer = cursor.per
    /\ frame.qty \in Nat \ {0}

\* The entry that is exploded makes the part, and enough of it, in time.
MakesReq ==
  pc \in Executing =>
    /\ Explodeable(frame.part, FrameExpPer)
    /\ frame.bop = ExpBopEntry[frame.part][FrameExpPer]
    /\ frame.execPer = ExpExecPeriod[frame.bop][FrameExpPer]
    /\ frame.delta \in Nat /\ frame.delta >= frame.qty

ScanType ==
  /\ pc \in {"net", "cons"} => frame.net \in Nat /\ InEffect(FrameBom, frame.execPer)
  /\ pc = "bop" => frame.bopIdx \in Nat \ {0}

FrameType == CursorType /\ FillsReq /\ MakesReq /\ ScanType

LEMMA NextReqsAre ==
  ASSUME TopType, Reqs, Typed(req, ReqLocs), NEW r \in NextReqs
  PROVE  /\ pc = "fill" /\ r[1] \in DOMAIN TopList /\ r[2] \in Periods
         /\ TopList[r[1]] \in Parts
         /\ ReqVol(req, TopList[r[1]], r[2]) \in Nat \ {0}
         /\ r[1] > cursor.idx \/ (r[1] = cursor.idx /\ r[2] > cursor.per)
<1>1. /\ pc = "fill" /\ r[1] \in DOMAIN TopList /\ r[2] \in Periods
      /\ ReqVol(req, TopList[r[1]], r[2]) > 0
      /\ r[1] > cursor.idx \/ (r[1] = cursor.idx /\ r[2] > cursor.per)
  BY DEF NextReqs, PendingReqs
<1>2. TopList \in Seq(Parts)
  BY <1>1, TopListParts DEF Trying, CommitPoints
<1>3. TopList[r[1]] \in Parts
  BY <1>1, <1>2, SeqElements
<1>4. ReqLoc(TopList[r[1]], r[2]) \in ReqLocs
  BY <1>1, <1>3 DEF ReqLocs
<1>5. ReqVol(req, TopList[r[1]], r[2]) \in Int
  BY <1>4 DEF Typed, ReqVol
<1>6. QED
  BY <1>1, <1>3, <1>5

LEMMA NettedFrame ==
  ASSUME FrameType, NEW i \in DOMAIN TopList, NEW t \in Periods, NEW rest \in Nat,
         TopList \in Seq(Parts), Netted(i, t, rest), top' = top
  PROVE  FrameType'
<1>1. TopList' = TopList
  BY DEF TopList
<1>2. cursor' = [idx |-> i, per |-> t] /\ pc' \in {"fill", "explode"}
  BY DEF Netted
<1>3. i \in Nat /\ t \in Nat
  BY NumberOfPeriods
<1>4. CursorType'
  BY <1>2, <1>3 DEF CursorType
<1>5. ASSUME pc' = "explode"
      PROVE  frame'.part = TopList[i] /\ frame'.fillPer = t /\ frame'.qty = rest /\ rest # 0
  BY <1>5 DEF Netted, NoFrame
<1>6. FillsReq'
  BY <1>1, <1>2, <1>5 DEF FillsReq, Exploding, Executing
<1>7. MakesReq' /\ ScanType'
  BY <1>2 DEF MakesReq, ScanType, Executing
<1>8. QED
  BY <1>4, <1>6, <1>7 DEF FrameType

\* Steps that are not in an explosion afterwards.
LEMMA NotExploding ==
  ASSUME FrameType, pc' \notin Exploding, cursor' = cursor \/ cursor' = NoCursor
  PROVE  FrameType'
  BY DEF FrameType, CursorType, NoCursor, FillsReq, MakesReq, ScanType, Exploding,
         Executing

SameReq ==
  /\ UNCHANGED <<top, cursor>>
  /\ frame'.part = frame.part /\ frame'.fillPer = frame.fillPer
  /\ frame'.qty = frame.qty

SameExecution ==
  /\ frame'.bop = frame.bop /\ frame'.execPer = frame.execPer
  /\ frame'.delta = frame.delta

LEMMA GoesOn ==
  ASSUME FrameType, pc \in Executing, SameReq, SameExecution, ScanType'
  PROVE  FrameType'
<1>1. TopList' = TopList
  BY DEF SameReq, TopList
<1>2. CursorType'
  BY DEF FrameType, CursorType, SameReq
<1>3. FillsReq'
  BY <1>1 DEF FrameType, FillsReq, SameReq, Exploding
<1>4. FrameExpPer' = FrameExpPer
  BY DEF FrameExpPer, SameReq
<1>5. MakesReq'
  BY <1>4 DEF FrameType, MakesReq, SameReq, SameExecution, Explodeable
<1>6. QED
  BY <1>2, <1>3, <1>5 DEF FrameType

LEMMA FrameTypeOfMaxQty ==
  FrameType /\ (MaxQtyStep \/ UndoStep \/ StockSLBStep \/ Call) => FrameType'
<1> SUFFICES ASSUME FrameType, MaxQtyStep \/ UndoStep \/ StockSLBStep \/ Call
             PROVE  FrameType'
  OBVIOUS
<1> USE DEF Exploding, Executing
<1>1. CASE MaxQtyStep
  BY <1>1, NotExploding
     DEF MaxQtyStep, SkipBlocked, CommitMaxQty, TempCommit, PermCommit,
         StartCommit, TempCommitReturns, PermCommitReturns, CommitMaxQtyEnds,
         PostIncHeurAlloc, commVars
<1>2. CASE UndoStep
  BY <1>2, NotExploding DEF UndoStep, ClearReqSched, RestoreSoln, commVars
<1>3. CASE StockSLBStep
  BY <1>3, NotExploding
     DEF StockSLBStep, EnforceStockSLB, StockSLBEnforced, StockSLBsEnforced,
         commVars
<1>4. CASE Call
  BY <1>4, NotExploding DEF Call, IncHeurAlloc, FinishHeurAlloc, StartHeurAlloc, commVars
<1>5. QED
  BY <1>1, <1>2, <1>3, <1>4

\* What the local variables of an explosion stand for.
LEMMA FrameMeans ==
  ASSUME FrameType, TopType, FrameOK, pc \in Exploding
  PROVE  /\ frame.part \in Parts /\ frame.fillPer \in Periods
         /\ frame.qty \in Nat \ {0}
         /\ FrameExpPer \in Periods
         /\ Reaches(frame.part, FrameExpPer, frame.fillPer)
<1>1. TopList \in Seq(Parts)
  BY TopListParts DEF Trying, CommitPoints, Exploding, Executing
<1>2. frame.part \in Parts /\ frame.fillPer \in Periods /\ frame.qty \in Nat \ {0}
  BY <1>1, SeqElements DEF FrameType, FillsReq
<1>3. QED
  BY <1>2, ExplosionReaches DEF FrameExpPer

LEMMA ExecutionMeans ==
  ASSUME FrameType, TopType, FrameOK, pc \in Executing
  PROVE  /\ frame.bop \in ExpAllowed /\ frame.bop \in BopEntries
         /\ frame.bop \in ToSet(Producing[frame.part])
         /\ frame.execPer \in Periods
         /\ Impact[frame.bop][frame.execPer] = FrameExpPer
         /\ PartOf[frame.bop] = frame.part
         /\ frame.bop \in ToSet(Bop[FrameOpn])
         /\ Rate[frame.bop] = 1
         /\ FrameOpn \in Operations
<1>1. frame.part \in Parts /\ FrameExpPer \in Periods
  BY FrameMeans DEF Exploding
<1>2. /\ Explodeable(frame.part, FrameExpPer)
      /\ frame.bop = ExpBopEntry[frame.part][FrameExpPer]
      /\ frame.execPer = ExpExecPeriod[frame.bop][FrameExpPer]
  BY DEF FrameType, MakesReq
<1>3. /\ frame.bop \in ToSet(Producing[frame.part]) /\ frame.bop \in BopEntries
      /\ ExpExecPeriod[frame.bop][FrameExpPer] >= 0
  BY <1>1, <1>2, EntryToExplode
<1>4. /\ frame.execPer \in Periods /\ frame.bop \in ExpAllowed
      /\ Impact[frame.bop][frame.execPer] = FrameExpPer
  BY <1>1, <1>2, <1>3, ExecPeriodIs
<1>5. PartOf[frame.bop] = frame.part /\ frame.bop \in ToSet(Bop[FrameOpn])
  BY <1>1, <1>3, ProducersAssumption DEF FrameOpn
<1>6. Rate[frame.bop] = 1
  BY <1>4, WholeVolumesAssumption
<1>7. FrameOpn \in Operations
  BY <1>3, BillsAssumption DEF FrameOpn, Entries
<1>8. QED
  BY <1>3, <1>4, <1>5, <1>6, <1>7

------------------------------------------------------------------------------
(***************************************************************************)
(* The inductive invariant of the schedule, and the steps of filling.      *)
(***************************************************************************)

Sched ==
  /\ IntMem(base) /\ Feasible(base)
  /\ Typed(soln, SolnLocs)
  /\ pc # "restore" => SoundAndFeasible(soln)
  /\ Typed(req, ReqLocs)

\* Once the entry that is exploded has put out what it makes, the schedule
\* offers what the requirement needs of it.
Made ==
  (pc = "bop" /\ \E k \in DOMAIN Bop[FrameOpn] :
                   k < frame.bopIdx /\ Bop[FrameOpn][k] = frame.bop)
     => Offers(soln.mem, frame.part, frame.fillPer, frame.qty)

Allocation ==
  Rollback /\ Reqs /\ FrameOK /\ Inputs /\ Locals /\ FrameType /\ Sched /\ Made

LEMMA SchedWrite ==
  ASSUME Sched, NEW s, SoundAndFeasible(s), Write(s), Typed(req', ReqLocs)
  PROVE  Sched'
<1>1. soln' = s /\ (base' = base \/ base' = s.mem)
  BY DEF Write
<1>2. Typed(s, SolnLocs) /\ IntMem(s.mem) /\ Feasible(s.mem)
  BY SoundIsTyped DEF SoundAndFeasible, Sound
<1>3. (IntMem(base) /\ Feasible(base))'
  BY <1>1, <1>2 DEF Sched, IntMem, Feasible, Bounded, Covered, IsLeft, Nonneg, Carried
<1>4. Typed(soln, SolnLocs)' /\ SoundAndFeasible(soln)'
  BY <1>1, <1>2 DEF Typed, LogTyped, SoundAndFeasible, Sound, StoreShape, IntMem,
     Feasible, Bounded, Covered, IsLeft, Nonneg, Carried
<1>5. Typed(req, ReqLocs)'
  BY DEF Typed, LogTyped, StoreShape
<1>6. QED
  BY <1>3, <1>4, <1>5 DEF Sched

LEMMA SchedSame ==
  ASSUME Sched, UNCHANGED <<soln, base>>, pc # "restore", Typed(req', ReqLocs)
  PROVE  Sched'
<1>1. (IntMem(base) /\ Feasible(base))'
  BY DEF Sched, IntMem, Feasible, Bounded, Covered, IsLeft, Nonneg, Carried
<1>2. Typed(soln, SolnLocs)' /\ SoundAndFeasible(soln)'
  BY DEF Sched, Typed, LogTyped, SoundAndFeasible, Sound, StoreShape, IntMem,
     Feasible, Bounded, Covered, IsLeft, Nonneg, Carried
<1>3. Typed(req, ReqLocs)'
  BY DEF Typed, LogTyped, StoreShape
<1>4. QED
  BY <1>1, <1>2, <1>3 DEF Sched

LEMMA ReqUnchanged == ASSUME Sched, req' = req PROVE Typed(req', ReqLocs)
  BY DEF Sched

LEMMA MadeElsewhere == ASSUME pc' # "bop" PROVE Made'
  BY DEF Made

LEMMA FillIsFeasible ==
  Allocation /\ FillStep => FrameType' /\ Sched' /\ Made'
<1> SUFFICES ASSUME Allocation, FillStep
             PROVE  FrameType' /\ Sched' /\ Made'
  OBVIOUS
<1>0. Reqs /\ FrameOK /\ TopType /\ FrameType /\ Sched /\ Typed(req, ReqLocs)
  BY DEF Allocation, Locals, Sched
<1>1. ASSUME NEW r \in NextReqs, NetReq(r[1], r[2])
      PROVE  FrameType' /\ Sched' /\ Made'
  <2>1. PICK i, t : i = r[1] /\ t = r[2]
    OBVIOUS
  <2>2. PICK p : p = TopList[i]
    OBVIOUS
  <2>3. PICK reqVol : reqVol = ReqVol(req, p, t)
    OBVIOUS
  <2>4. /\ pc = "fill" /\ i \in DOMAIN TopList /\ t \in Periods
        /\ p \in Parts /\ reqVol \in Nat \ {0}
    BY <1>0, <2>1, <2>2, <2>3, NextReqsAre
  <2>5. PICK vol : vol = NetWoSRVol(soln, p, t, reqVol)
    OBVIOUS
  <2>6. /\ Write(NettedStore(soln, p, t, vol)) /\ Netted(i, t, reqVol - vol)
        /\ req' = req /\ top' = top
    BY <1>1, <2>1, <2>2, <2>3, <2>5 DEF NetReq, NettedStore, CommitUnchanged, callVars
  <2>7. SoundAndFeasible(soln)
    BY <1>0, <2>4 DEF Sched
  <2>8. vol \in 0..reqVol /\ SoundAndFeasible(NettedStore(soln, p, t, vol))
    BY <2>4, <2>5, <2>7, NetFeasible
  <2>9. Sched'
    BY <1>0, <2>6, <2>8, SchedWrite
  <2>10. TopList \in Seq(Parts)
    BY <1>0, <2>4, TopListParts DEF Trying, CommitPoints
  <2>11. PICK rest \in Nat : rest = reqVol - vol
    BY <2>4, <2>8
  <2>12. FrameType'
    BY <1>0, <2>4, <2>6, <2>10, <2>11, NettedFrame
  <2>13. Made'
    BY <2>6, MadeElsewhere DEF Netted
  <2>14. QED
    BY <2>9, <2>12, <2>13
<1>2. ASSUME NEW r \in NextReqs, NEW rollPer \in Periods \cup {-1},
             NetAndRollReq(r[1], r[2], rollPer)
      PROVE  FrameType' /\ Sched' /\ Made'
  <2>1. PICK i, t : i = r[1] /\ t = r[2]
    OBVIOUS
  <2>2. PICK p : p = TopList[i]
    OBVIOUS
  <2>3. PICK reqVol : reqVol = ReqVol(req, p, t)
    OBVIOUS
  <2>4. /\ pc = "fill" /\ i \in DOMAIN TopList /\ t \in Periods
        /\ p \in Parts /\ reqVol \in Nat \ {0}
    BY <1>0, <2>1, <2>2, <2>3, NextReqsAre
  <2>5. PICK vol : vol = RollVol(soln, p, t, reqVol)
    OBVIOUS
  <2>6. /\ rollPer = IF vol = 0 THEN -1 ELSE RollPeriod(soln, p, t)
        /\ Write(RolledStore(soln, p, t, vol, rollPer)) /\ Netted(i, t, reqVol - vol)
        /\ req' = IF rollPer < 0 THEN req ELSE AddTo(req, p, rollPer, vol)
        /\ p \in UncondSR /\ top' = top
    BY <1>2, <2>1, <2>2, <2>3, <2>5 DEF NetAndRollReq, RolledStore, CommitUnchanged, callVars
  <2>7. SoundAndFeasible(soln)
    BY <1>0, <2>4 DEF Sched
  <2>8. p \in Materials
    BY <2>6, UncondSRAssumption
  <2>9. /\ vol \in 0..reqVol
        /\ rollPer # -1 => rollPer \in Periods /\ t < rollPer
        /\ SoundAndFeasible(RolledStore(soln, p, t, vol, rollPer))
    BY <2>4, <2>5, <2>6, <2>7, <2>8, RollFeasible
  <2>10. Typed(req', ReqLocs)
    <3>1. CASE rollPer < 0
      BY <1>0, <2>6, <3>1
    <3>2. CASE ~(rollPer < 0)
      <4>1. rollPer \in Periods /\ vol \in Int
        BY <2>9, <3>2
      <4>2. Typed(AddTo(req, p, rollPer, vol), ReqLocs)
        BY <1>0, <2>4, <4>1, TypedAddTo
      <4>3. QED
        BY <2>6, <3>2, <4>2
    <3>3. QED
      BY <3>1, <3>2
  <2>11. Sched'
    BY <1>0, <2>6, <2>9, <2>10, SchedWrite
  <2>12. TopList \in Seq(Parts)
    BY <1>0, <2>4, TopListParts DEF Trying, CommitPoints
  <2>13. PICK rest \in Nat : rest = reqVol - vol
    BY <2>4, <2>9
  <2>14. FrameType'
    BY <1>0, <2>4, <2>6, <2>12, <2>13, NettedFrame
  <2>15. Made'
    BY <2>6, MadeElsewhere DEF Netted
  <2>16. QED
    BY <2>11, <2>14, <2>15
<1>3. CASE AllFilled \/ CannotExplode
  <2>1. /\ pc \in {"fill", "explode"} /\ pc' = "clear" /\ cursor' = NoCursor
        /\ UNCHANGED <<soln, base, req>>
    BY <1>3 DEF AllFilled, CannotExplode
  <2>2. Sched'
    BY <1>0, <2>1, ReqUnchanged, SchedSame
  <2>3. FrameType' /\ Made'
    BY <1>0, <2>1, NotExploding, MadeElsewhere DEF Exploding, Executing
  <2>4. QED
    BY <2>2, <2>3
<1>4. ASSUME NEW e \in ExpAllowed, NEW t \in Periods, ExplodeBopEnt(e, t)
      PROVE  FrameType' /\ Sched' /\ Made'
  <2>1. PICK o : o = OpnOf[e]
    OBVIOUS
  <2>2. PICK loc : loc = ExecLoc(o, t)
    OBVIOUS
  <2>3. PICK delta : delta = LotSizeDelta(o, ExecVol(soln, o, t), frame.qty)
    BY SMTT(30)
  <2>4. /\ pc = "explode" /\ pc' = "bom"
        /\ Explodeable(frame.part, FrameExpPer)
        /\ e = ExpBopEntry[frame.part][FrameExpPer]
        /\ t = ExpExecPeriod[e][FrameExpPer]
        /\ Write(Put(soln, loc, soln.mem[loc] + delta, mode = "temp"))
        /\ frame' = [frame EXCEPT !.bop = e, !.execPer = t, !.delta = delta, !.bomIdx = 1]
        /\ req' = req /\ cursor' = cursor /\ top' = top
    BY <1>4, <2>1, <2>2, <2>3
       DEF ExplodeBopEnt, ExpIsPossible, FrameDelta, CommitUnchanged, callVars
  <2>5. o \in Operations
    BY <2>1, BillsAssumption DEF Entries
  <2>6. loc \in SolnLocs /\ loc[2] = "execVol"
    BY <2>2, <2>5 DEF SolnLocs, ExecLoc
  <2>7. SoundAndFeasible(soln)
    BY <1>0, <2>4 DEF Sched
  <2>8. soln.mem[loc] \in Int
    BY <2>6, <2>7 DEF SoundAndFeasible, Sound, IntMem
  <2>9. frame.qty \in Nat \ {0}
    BY <1>0, <2>4, FrameMeans DEF Exploding
  <2>10. delta \in Int /\ delta >= frame.qty
    BY <2>2, <2>3, <2>5, <2>8, <2>9, LotSizesCover DEF ExecVol
  <2>11. PICK new \in Int : new = soln.mem[loc] + delta
    BY <2>8, <2>10
  <2>12. SoundAndFeasible(Put(soln, loc, new, mode = "temp"))
    BY <2>6, <2>7, PutFeasible
  <2>13. Sched'
    BY <1>0, <2>4, <2>11, <2>12, ReqUnchanged, SchedWrite
  <2>14. Made'
    BY <2>4, MadeElsewhere
  <2>15. /\ frame'.part = frame.part /\ frame'.fillPer = frame.fillPer
         /\ frame'.qty = frame.qty /\ frame'.bop = e /\ frame'.execPer = t
         /\ frame'.delta = delta
    BY SMTT(30), <1>0, <2>4 DEF FrameOK, NoFrame
  <2>16. TopList' = TopList /\ FrameExpPer' = FrameExpPer
    BY <2>4, <2>15 DEF TopList, FrameExpPer
  <2>17. CursorType' /\ FillsReq'
    BY <1>0, <2>4, <2>15, <2>16 DEF FrameType, CursorType, FillsReq, Exploding
  <2>18. delta \in Nat
    BY <2>9, <2>10
  <2>19. MakesReq'
    BY <2>4, <2>10, <2>15, <2>16, <2>18 DEF MakesReq, Explodeable
  <2>20. ScanType'
    BY <2>4 DEF ScanType
  <2>21. QED
    BY <2>13, <2>14, <2>17, <2>19, <2>20 DEF FrameType
<1>5. QED
  BY <1>1, <1>2, <1>3, <1>4 DEF FillStep

------------------------------------------------------------------------------
(***************************************************************************)
(* The steps of an explosion.                                              *)
(***************************************************************************)

LEMMA NextEntry ==
  ASSUME FrameType, FrameOK, pc \in Executing, frame' = NextBomEntry, pc' = "bom",
         UNCHANGED <<top, cursor>>
  PROVE  FrameType' /\ Made'
<1>1. SameReq /\ SameExecution
  BY DEF FrameOK, NoFrame, NextBomEntry, SameReq, SameExecution
<1>2. ScanType'
  BY DEF ScanType
<1>3. QED
  BY <1>1, <1>2, GoesOn, MadeElsewhere

LEMMA NettingGoesOn ==
  ASSUME FrameType, FrameOK, pc = "net", NEW net \in Nat, NettedTo(net),
         UNCHANGED <<top, cursor>>
  PROVE  FrameType' /\ Made'
<1>1. CASE net = 0
  BY <1>1, NextEntry DEF NettedTo, Executing
<1>2. CASE net # 0
  <2>1. /\ pc' \in {"cons", "net"}
        /\ \/ frame' = [frame EXCEPT !.net = net]
           \/ frame' = [frame EXCEPT !.net = net, !.subIdx = @ + 1]
    BY <1>2 DEF NettedTo
  <2>2. /\ SameReq /\ SameExecution /\ frame'.net = net /\ frame'.bomIdx = frame.bomIdx
    BY <2>1 DEF FrameOK, NoFrame, SameReq, SameExecution
  <2>3. FrameBom' = FrameBom /\ frame'.execPer = frame.execPer
    BY <2>2 DEF FrameBom, FrameOpn, SameExecution
  <2>4. InEffect(FrameBom, frame.execPer)
    BY DEF FrameType, ScanType
  <2>5. ScanType'
    BY <2>1, <2>2, <2>3, <2>4 DEF ScanType, InEffect
  <2>6. QED
    BY <2>1, <2>2, <2>5, GoesOn, MadeElsewhere DEF Executing
<1>3. QED
  BY <1>1, <1>2

\* An entry that is in effect has its impact in a period.
LEMMA ImpactInEffect ==
  ASSUME NEW e \in Entries, NEW u \in Periods, InEffect(e, u)
  PROVE  Impact[e][u] \in Periods /\ PartOf[e] \in Parts /\ Rate[e] \in Int
  BY BillsAssumption DEF InEffect

LEMMA ConsMeans ==
  ASSUME FrameType, FrameOK, TopType, pc = "net", NetIsAllowed(FrameCons)
  PROVE  /\ FrameCons \in Entries /\ frame.execPer \in Periods
         /\ Impact[FrameCons][frame.execPer] \in Periods
         /\ PartOf[FrameCons] \in Parts /\ Rate[FrameCons] \in Int
         /\ frame.net \in Nat
<1>1. FrameCons \in BomEntries \cup SubEntries
  BY FrameEntries
<1>2. frame.execPer \in Periods /\ frame.net \in Nat /\ InEffect(FrameBom, frame.execPer)
  BY ExecutionMeans DEF FrameType, ScanType, Executing
<1>3. InEffect(FrameCons, frame.execPer)
  <2>1. CASE frame.subIdx = 0
    BY <1>2, <2>1 DEF FrameCons
  <2>2. CASE frame.subIdx # 0
    <3>1. Subs[FrameBom] \in Seq(SubEntries)
      BY FrameEntries, BillsAssumption
    <3>2. frame.subIdx \in 0..Len(Subs[FrameBom]) /\ Len(Subs[FrameBom]) \in Nat
      BY <3>1 DEF FrameOK
    <3>3. FrameCons \in SubEntries
      BY <2>2, <3>1, <3>2 DEF FrameCons
    <3>4. QED
      BY <3>3 DEF NetIsAllowed
  <2>3. QED
    BY <2>1, <2>2
<1>4. FrameCons \in Entries
  BY <1>1 DEF Entries
<1>5. QED
  BY <1>2, <1>3, <1>4, ImpactInEffect

\* What is consumed by a negative number of units is given.
LEMMA NegativeIsGiven ==
  ASSUME NEW rate \in Int, rate <= 0, NEW net \in Nat
  PROVE  -(rate * net) \in Nat
<1>1. rate * net <= 0 * net /\ rate * net \in Int
  BY Products
<1>2. 0 * net = 0
  OBVIOUS
<1>3. QED
  BY <1>1, <1>2

\* A substitution volume is written too, in a permanent commit.
LEMMA SubIsFeasible ==
  ASSUME NEW s, SoundAndFeasible(s), NEW c \in SubEntries, NEW u \in Periods,
         NEW vol \in Int
  PROVE  SoundAndFeasible(Put(s, SubLoc(c, u), s.mem[SubLoc(c, u)] + vol, mode = "temp"))
<1>1. PICK loc : loc = SubLoc(c, u)
  OBVIOUS
<1>2. loc \in SolnLocs /\ loc[2] = "subVol"
  BY <1>1 DEF SolnLocs, SubLoc
<1>3. s.mem[loc] \in Int
  BY <1>2 DEF SoundAndFeasible, Sound, IntMem
<1>4. PICK val \in Int : val = s.mem[loc] + vol
  BY <1>3
<1>5. QED
  BY <1>1, <1>2, <1>4, PutFeasible

LEMMA NetConsIsFeasible ==
  ASSUME Allocation, NetConsEntry PROVE FrameType' /\ Sched' /\ Made'
<1>0. FrameOK /\ TopType /\ FrameType /\ Sched
  BY DEF Allocation, Locals
<1>1. PICK c : c = FrameCons
  OBVIOUS
<1>2. PICK p, t, net : p = PartOf[c] /\ t = Impact[c][frame.execPer] /\ net = frame.net
  OBVIOUS
<1>3. PICK vol : vol = NetWoSRVol(soln, p, t, net)
  OBVIOUS
<1>4. PICK u : u = frame.execPer
  OBVIOUS
<1>5. PICK n : n = NettedStore(soln, p, t, vol)
  OBVIOUS
<1>6. PICK s : s = IF c \in SubEntries /\ mode = "perm" /\ vol > 0
                   THEN Put(n, SubLoc(c, u), n.mem[SubLoc(c, u)] + vol, mode = "temp")
                   ELSE n
  BY SMTT(30)
<1>7. /\ pc = "net" /\ NetIsAllowed(FrameCons) /\ Write(s) /\ NettedTo(net - vol)
      /\ req' = req /\ cursor' = cursor /\ top' = top
  BY <1>1, <1>2, <1>3, <1>4, <1>5, <1>6
     DEF NetConsEntry, NettedStore, CommitUnchanged, callVars
<1>8. p \in Parts /\ t \in Periods /\ net \in Nat /\ u \in Periods
  BY <1>0, <1>1, <1>2, <1>4, <1>7, ConsMeans
<1>9. SoundAndFeasible(soln)
  BY <1>0, <1>7 DEF Sched
<1>10. vol \in 0..net /\ SoundAndFeasible(n)
  BY <1>3, <1>5, <1>8, <1>9, NetFeasible
<1>11. SoundAndFeasible(s)
  <2>1. CASE c \in SubEntries /\ mode = "perm" /\ vol > 0
    <3>1. vol \in Int
      BY <1>10
    <3>2. SoundAndFeasible(Put(n, SubLoc(c, u), n.mem[SubLoc(c, u)] + vol, mode = "temp"))
      BY <1>8, <1>10, <2>1, <3>1, SubIsFeasible
    <3>3. QED
      BY <1>6, <2>1, <3>2
  <2>2. CASE ~(c \in SubEntries /\ mode = "perm" /\ vol > 0)
    BY <1>6, <1>10, <2>2
  <2>3. QED
    BY <2>1, <2>2
<1>12. Sched'
  BY <1>0, <1>7, <1>11, ReqUnchanged, SchedWrite
<1>13. PICK rest \in Nat : rest = net - vol
  BY <1>8, <1>10
<1>14. FrameType' /\ Made'
  BY <1>0, <1>7, <1>13, NettingGoesOn
<1>15. QED
  BY <1>12, <1>14

LEMMA ByProductIsFeasible ==
  ASSUME Allocation, NetByProductEntry PROVE FrameType' /\ Sched' /\ Made'
<1>0. FrameOK /\ TopType /\ FrameType /\ Sched
  BY DEF Allocation, Locals
<1>1. PICK c : c = FrameCons
  OBVIOUS
<1>2. PICK p, t, net : p = PartOf[c] /\ t = Impact[c][frame.execPer] /\ net = frame.net
  OBVIOUS
<1>3. PICK vol : vol = -(Rate[c] * net)
  OBVIOUS
<1>4. PICK u : u = frame.execPer
  OBVIOUS
<1>5. PICK n : n = IF Rate[c] = 0 THEN soln ELSE AddAvail(soln, p, t, vol)
  OBVIOUS
<1>6. PICK s : s = IF c \in SubEntries /\ mode = "perm"
                   THEN Put(n, SubLoc(c, u), n.mem[SubLoc(c, u)] + net, mode = "temp")
                   ELSE n
  OBVIOUS
<1>7. /\ pc = "net" /\ NetIsAllowed(FrameCons) /\ Rate[c] <= 0 /\ Write(s) /\ NettedTo(0)
      /\ req' = req /\ cursor' = cursor /\ top' = top
  BY <1>1, <1>2, <1>3, <1>4, <1>5, <1>6
     DEF NetByProductEntry, ConsumedQty, CommitUnchanged, callVars
<1>8. /\ p \in Parts /\ t \in Periods /\ net \in Nat /\ u \in Periods
      /\ Rate[c] \in Int
  BY <1>0, <1>1, <1>2, <1>4, <1>7, ConsMeans
<1>9. SoundAndFeasible(soln)
  BY <1>0, <1>7 DEF Sched
<1>10. vol \in Nat
  BY <1>3, <1>7, <1>8, NegativeIsGiven
<1>11. SoundAndFeasible(n)
  BY <1>5, <1>8, <1>9, <1>10, GiveFeasible
<1>12. SoundAndFeasible(s)
  <2>1. CASE c \in SubEntries /\ mode = "perm"
    <3>1. net \in Int
      BY <1>8
    <3>2. SoundAndFeasible(Put(n, SubLoc(c, u), n.mem[SubLoc(c, u)] + net, mode = "temp"))
      BY <1>8, <1>11, <2>1, <3>1, SubIsFeasible
    <3>3. QED
      BY <1>6, <2>1, <3>2
  <2>2. CASE ~(c \in SubEntries /\ mode = "perm")
    BY <1>6, <1>11, <2>2
  <2>3. QED
    BY <2>1, <2>2
<1>13. Sched'
  BY <1>0, <1>7, <1>12, ReqUnchanged, SchedWrite
<1>14. FrameType' /\ Made'
  BY <1>0, <1>7, NettingGoesOn
<1>15. QED
  BY <1>13, <1>14

LEMMA ConsEntryIsFeasible ==
  ASSUME Allocation, ExplodeConsEntry PROVE FrameType' /\ Sched' /\ Made'
<1>0. FrameOK /\ TopType /\ FrameType /\ Sched /\ Typed(req, ReqLocs)
  BY DEF Allocation, Locals, Sched
<1>1. PICK p, t : p = PartOf[FrameBom] /\ t = Impact[FrameBom][frame.execPer]
  OBVIOUS
<1>2. PICK qty : qty = ConsumedQty(FrameBom, frame.net)
  OBVIOUS
<1>3. PICK s : s = IF qty < 0 THEN AddAvail(soln, p, t, -qty) ELSE soln
  OBVIOUS
<1>4. /\ pc = "cons" /\ pc' = "bom" /\ frame' = NextBomEntry
      /\ req' = IF qty > 0 THEN AddTo(req, p, t, qty) ELSE req
      /\ Write(s) /\ cursor' = cursor /\ top' = top
  BY <1>1, <1>2, <1>3 DEF ExplodeConsEntry, CommitUnchanged, callVars
<1>5. FrameBom \in Entries /\ InEffect(FrameBom, frame.execPer) /\ frame.net \in Nat
  BY <1>0, <1>4, FrameEntries DEF FrameType, ScanType, Entries
<1>6. frame.execPer \in Periods
  BY <1>0, <1>4 DEF FrameOK
<1>7. p \in Parts /\ t \in Periods /\ Rate[FrameBom] \in Int
  BY <1>1, <1>5, <1>6, ImpactInEffect
<1>8. qty \in Int
  BY <1>2, <1>5, <1>7 DEF ConsumedQty
<1>9. SoundAndFeasible(soln)
  BY <1>0, <1>4 DEF Sched
<1>10. SoundAndFeasible(s)
  <2>1. CASE qty < 0
    <3>1. PICK vol \in Nat : vol = -qty
      BY <1>8, <2>1
    <3>2. SoundAndFeasible(AddAvail(soln, p, t, vol))
      BY <1>7, <1>9, GiveFeasible
    <3>3. QED
      BY <1>3, <2>1, <3>1, <3>2
  <2>2. CASE ~(qty < 0)
    BY <1>3, <1>9, <2>2
  <2>3. QED
    BY <2>1, <2>2
<1>11. Typed(req', ReqLocs)
  <2>1. Typed(AddTo(req, p, t, qty), ReqLocs)
    BY <1>0, <1>7, <1>8, TypedAddTo
  <2>2. QED
    BY <1>0, <1>4, <2>1
<1>12. Sched'
  BY <1>0, <1>4, <1>10, <1>11, SchedWrite
<1>13. FrameType' /\ Made'
  BY <1>0, <1>4, NextEntry DEF Executing
<1>14. QED
  BY <1>12, <1>13

------------------------------------------------------------------------------

LEMMA OffersLess ==
  ASSUME NEW mem, NEW p, NEW t, NEW more \in Int, Offers(mem, p, t, more),
         NEW vol \in Int, vol <= more
  PROVE  Offers(mem, p, t, vol)
<1>1. PICK left : /\ IsLeft(mem, p, left) /\ Nonneg(left)
                  /\ \A v \in Periods : Reaches(p, t, v) => left[v] >= more
  BY DEF Offers
<1>2. \A v \in Periods : left[v] \in Int
  BY <1>1 DEF IsLeft
<1>3. \A v \in Periods : Reaches(p, t, v) => left[v] >= vol
  BY <1>1, <1>2
<1>4. QED
  BY <1>1, <1>3 DEF Offers

LEMMA BomStepsAreFeasible ==
  ASSUME Allocation,
         BomEntryNotInEffect \/ ExplodeBomEntry \/ SkipSubEntry \/ BomEntriesExploded
  PROVE  FrameType' /\ Sched' /\ Made'
<1>0. FrameOK /\ TopType /\ FrameType /\ Sched
  BY DEF Allocation, Locals
<1>1. /\ pc \in {"bom", "net"}
      /\ UNCHANGED <<soln, base, req, cursor, top>>
  BY DEF BomEntryNotInEffect, ExplodeBomEntry, SkipSubEntry, BomEntriesExploded,
         CommitUnchanged, callVars
<1>2. Sched'
  BY <1>0, <1>1, ReqUnchanged, SchedSame
<1>3. CASE BomEntryNotInEffect
  <2>1. pc = "bom" /\ frame' = NextBomEntry /\ pc' = "bom"
    BY <1>3 DEF BomEntryNotInEffect
  <2>2. FrameType' /\ Made'
    BY <1>0, <1>1, <2>1, NextEntry DEF Executing
  <2>3. QED
    BY <1>2, <2>2
<1>4. CASE ExplodeBomEntry
  <2>1. /\ pc = "bom" /\ pc' \in {"net", "cons"}
        /\ frame' = [frame EXCEPT !.net = frame.delta]
        /\ InEffect(FrameBom, frame.execPer)
    BY <1>4 DEF ExplodeBomEntry
  <2>2. /\ SameReq /\ SameExecution /\ frame'.net = frame.delta
        /\ frame'.bomIdx = frame.bomIdx
    BY <1>0, <1>1, <2>1 DEF FrameOK, NoFrame, SameReq, SameExecution
  <2>3. FrameBom' = FrameBom /\ frame'.execPer = frame.execPer
    BY <2>2 DEF FrameBom, FrameOpn, SameExecution
  <2>4. frame.delta \in Nat
    BY <1>0, <2>1 DEF FrameType, MakesReq, Executing
  <2>5. ScanType'
    BY <2>1, <2>2, <2>3, <2>4 DEF ScanType, InEffect
  <2>6. QED
    BY <1>0, <1>2, <2>1, <2>2, <2>5, GoesOn, MadeElsewhere DEF Executing
<1>5. CASE SkipSubEntry
  <2>1. pc = "net" /\ NettedTo(frame.net)
    BY <1>5 DEF SkipSubEntry
  <2>2. PICK net \in Nat : net = frame.net
    BY <1>0, <2>1 DEF FrameType, ScanType
  <2>3. FrameType' /\ Made'
    BY <1>0, <1>1, <2>1, <2>2, NettingGoesOn
  <2>4. QED
    BY <1>2, <2>3
<1>6. CASE BomEntriesExploded
  <2>1. pc = "bom" /\ pc' = "bop" /\ frame' = [frame EXCEPT !.bopIdx = 1]
    BY <1>6 DEF BomEntriesExploded
  <2>2. SameReq /\ SameExecution /\ frame'.bopIdx = 1
    BY <1>0, <1>1, <2>1 DEF FrameOK, NoFrame, SameReq, SameExecution
  <2>3. ScanType'
    BY <2>1, <2>2 DEF ScanType
  <2>4. FrameType'
    BY <1>0, <2>1, <2>2, <2>3, GoesOn DEF Executing
  <2>5. FrameOpn' = FrameOpn /\ FrameOpn \in Operations
    BY <1>0, <2>1, <2>2, ExecutionMeans DEF FrameOpn, SameExecution, Executing
  <2>6. \A k \in DOMAIN Bop[FrameOpn] : ~(k < 1)
    BY <2>5, BillsAssumption
  <2>7. Made'
    BY <2>2, <2>5, <2>6 DEF Made
  <2>8. QED
    BY <1>2, <2>4, <2>7
<1>7. QED
  BY <1>3, <1>4, <1>5, <1>6

\* explodeBopEntries: when it comes to the entry that is exploded, what that
\* entry makes covers the requirement.
LEMMA BopEntryIsFeasible ==
  ASSUME Allocation, ExplodeBopEntry PROVE FrameType' /\ Sched' /\ Made'
<1>0. FrameOK /\ TopType /\ FrameType /\ Sched /\ Made
  BY DEF Allocation, Locals
<1>1. PICK j : j = frame.bopIdx
  OBVIOUS
<1>2. PICK e, u : e = Bop[FrameOpn][j] /\ u = frame.execPer
  OBVIOUS
<1>3. PICK p, t : p = PartOf[e] /\ t = Impact[e][u]
  OBVIOUS
<1>4. PICK vol : vol = IF InEffect(e, u) THEN frame.delta * Rate[e] ELSE 0
  OBVIOUS
<1>5. PICK s : s = IF vol > 0 THEN AddAvail(soln, p, t, vol) ELSE soln
  OBVIOUS
<1>6. /\ pc = "bop" /\ pc' = "bop" /\ j \in DOMAIN Bop[FrameOpn]
      /\ Write(s) /\ frame' = [frame EXCEPT !.bopIdx = @ + 1]
      /\ req' = req /\ cursor' = cursor /\ top' = top
  BY <1>1, <1>2, <1>3, <1>4, <1>5 DEF ExplodeBopEntry, CommitUnchanged, callVars
<1>7. /\ frame.bop \in BopEntries /\ u \in Periods
      /\ Impact[frame.bop][u] = FrameExpPer
      /\ PartOf[frame.bop] = frame.part /\ Rate[frame.bop] = 1
      /\ FrameOpn \in Operations
  BY <1>0, <1>2, <1>6, ExecutionMeans DEF Executing
<1>8. Bop[FrameOpn] \in Seq(BopEntries)
  BY <1>7, BillsAssumption
<1>9. e \in BopEntries /\ j \in Nat \ {0}
  BY <1>2, <1>6, <1>8
<1>10. /\ frame.part \in Parts /\ frame.fillPer \in Periods /\ frame.qty \in Nat \ {0}
       /\ FrameExpPer \in Periods /\ Reaches(frame.part, FrameExpPer, frame.fillPer)
  BY <1>0, <1>6, FrameMeans DEF Exploding, Executing
<1>11. frame.delta \in Nat /\ frame.delta >= frame.qty
  BY <1>0, <1>6 DEF FrameType, MakesReq, Executing
<1>12. e \in Entries
  BY <1>9 DEF Entries
<1>13. SoundAndFeasible(soln)
  BY <1>0, <1>6 DEF Sched
<1>14. vol > 0 => vol \in Nat /\ p \in Parts /\ t \in Periods
  <2>1. CASE InEffect(e, u)
    <3>1. t \in Periods /\ p \in Parts /\ Rate[e] \in Int
      BY <1>3, <1>7, <1>12, <2>1, ImpactInEffect
    <3>2. PICK rate \in Int : rate = Rate[e]
      BY <3>1
    <3>3. frame.delta * rate \in Int
      BY <1>11, SMTT(30)
    <3>4. vol \in Int
      BY <1>4, <2>1, <3>2, <3>3
    <3>5. QED
      BY <3>1, <3>4
  <2>2. CASE ~InEffect(e, u)
    BY <1>4, <2>2
  <2>3. QED
    BY <2>1, <2>2
<1>15. SoundAndFeasible(s)
  BY <1>5, <1>13, <1>14, GiveFeasible
<1>16. Sched'
  BY <1>0, <1>6, <1>15, ReqUnchanged, SchedWrite
<1>17. SameReq /\ SameExecution /\ frame'.bopIdx = j + 1
  BY <1>0, <1>1, <1>6 DEF FrameOK, NoFrame, SameReq, SameExecution
<1>18. ScanType'
  BY <1>6, <1>9, <1>17 DEF ScanType
<1>19. FrameType'
  BY <1>0, <1>6, <1>17, <1>18, GoesOn DEF Executing
<1>20. FrameOpn' = FrameOpn
  BY <1>17 DEF FrameOpn, SameExecution
<1>21. ASSUME NEW k \in DOMAIN Bop[FrameOpn], k < j + 1, Bop[FrameOpn][k] = frame.bop
       PROVE  Offers(s.mem, frame.part, frame.fillPer, frame.qty)
  <2>1. k \in Nat \ {0} /\ (k < j \/ k = j)
    BY <1>8, <1>9, <1>21
  <2>2. CASE k < j
    <3>1. Offers(soln.mem, frame.part, frame.fillPer, frame.qty)
      BY <1>0, <1>1, <1>6, <1>21, <2>2 DEF Made
    <3>2. CASE vol > 0
      <4>1. frame.qty \in Int
        BY <1>10
      <4>2. \A q \in Parts, v \in Periods, x \in Int :
               Offers(soln.mem, q, v, x) => Offers(AddAvail(soln, p, t, vol).mem, q, v, x)
        BY <1>13, <1>14, <3>2, GiveFeasible
      <4>3. QED
        BY <1>5, <1>10, <3>1, <3>2, <4>1, <4>2
    <3>3. CASE ~(vol > 0)
      BY <1>5, <3>1, <3>3
    <3>4. QED
      BY <3>2, <3>3
  <2>3. CASE k = j
    <3>1. e = frame.bop
      BY <1>2, <1>21, <2>3
    <3>2. t = FrameExpPer /\ p = frame.part /\ Rate[e] = 1 /\ InEffect(e, u)
      <4>1. t = FrameExpPer /\ p = frame.part /\ Rate[e] = 1
        BY <1>3, <1>7, <3>1
      <4>2. t \in Nat
        BY <1>10, <4>1, NumberOfPeriods
      <4>3. QED
        BY <1>3, <4>1, <4>2 DEF InEffect
    <3>3. vol = frame.delta
      <4>1. frame.delta * 1 = frame.delta
        BY <1>11
      <4>2. QED
        BY <1>4, <3>2, <4>1
    <3>4. vol > 0 /\ vol \in Nat /\ frame.qty <= vol
      BY <1>10, <1>11, <3>3
    <3>5. Offers(AddAvail(soln, p, t, vol).mem, p, frame.fillPer, vol)
      BY <1>10, <1>13, <1>14, <3>2, <3>4, GiveFeasible
    <3>6. Offers(s.mem, frame.part, frame.fillPer, vol)
      BY <1>5, <3>2, <3>4, <3>5
    <3>7. vol \in Int /\ frame.qty \in Int
      BY <1>10, <3>4
    <3>8. QED
      BY <3>4, <3>6, <3>7, OffersLess
  <2>4. QED
    BY <2>1, <2>2, <2>3
<1>22. soln' = s
  BY <1>6 DEF Write
<1>23. Made'
  BY <1>17, <1>20, <1>21, <1>22 DEF Made, SameReq, SameExecution
<1>24. QED
  BY <1>16, <1>19, <1>23

LEMMA UseIsFeasible ==
  ASSUME Allocation, UseProduct PROVE FrameType' /\ Sched' /\ Made'
<1>0. FrameOK /\ TopType /\ FrameType /\ Sched /\ Made
  BY DEF Allocation, Locals
<1>1. PICK p, t, qty : p = frame.part /\ t = frame.fillPer /\ qty = frame.qty
  OBVIOUS
<1>2. /\ pc = "bop" /\ pc' = "fill" /\ frame.bopIdx \notin DOMAIN Bop[FrameOpn]
      /\ Write(AddAvail(soln, p, t, -qty))
      /\ UNCHANGED <<req, cursor>>
  BY <1>1 DEF UseProduct
<1>3. frame.bop \in ToSet(Bop[FrameOpn]) /\ FrameOpn \in Operations
  BY <1>0, <1>2, ExecutionMeans DEF Executing
<1>4. Bop[FrameOpn] \in Seq(BopEntries)
  BY <1>3, BillsAssumption
<1>5. PICK k \in DOMAIN Bop[FrameOpn] : Bop[FrameOpn][k] = frame.bop
  BY <1>3 DEF ToSet
<1>6. k < frame.bopIdx
  <2>1. frame.bopIdx \in Nat \ {0}
    BY <1>0, <1>2 DEF FrameType, ScanType
  <2>2. QED
    BY <1>2, <1>4, <1>5, <2>1
<1>7. Offers(soln.mem, p, t, qty)
  BY <1>0, <1>1, <1>2, <1>5, <1>6 DEF Made
<1>8. p \in Parts /\ t \in Periods /\ qty \in Int
  BY <1>0, <1>1, <1>2, FrameMeans DEF Exploding, Executing
<1>9. SoundAndFeasible(soln)
  BY <1>0, <1>2 DEF Sched
<1>10. SoundAndFeasible(AddAvail(soln, p, t, -qty))
  BY <1>7, <1>8, <1>9, TakeFeasible
<1>11. Sched'
  BY <1>0, <1>2, <1>10, ReqUnchanged, SchedWrite
<1>12. FrameType' /\ Made'
  BY <1>0, <1>2, NotExploding, MadeElsewhere DEF Exploding, Executing
<1>13. QED
  BY <1>11, <1>12

LEMMA ExplodeIsFeasible ==
  Allocation /\ ExplodeStep => FrameType' /\ Sched' /\ Made'
  BY BomStepsAreFeasible, NetConsIsFeasible, ByProductIsFeasible,
     ConsEntryIsFeasible, BopEntryIsFeasible, UseIsFeasible DEF ExplodeStep

------------------------------------------------------------------------------
(***************************************************************************)
(* The start of an allocation, the stock bounds at its end, and the steps  *)
(* that leave the solution alone or undo what a commit has written.        *)
(***************************************************************************)

\* The recursion of what is left.
LeftStep(mem, p, x) ==
  (IF CanStock(p, x[1] - 1) THEN x[2] ELSE 0) + mem[AvailLoc(p, x[1])]

LEMMA NonnegativeIsCovered ==
  ASSUME NEW mem, NEW p \in Parts, \A t \in Periods : mem[AvailLoc(p, t)] \in Nat
  PROVE  Covered(mem, p)
<1>1. PICK n \in Nat : n = NPeriods - 1 /\ Periods = 0..n
  BY PeriodsAssumption DEF Periods
<1>2. PICK first \in Nat : first = mem[AvailLoc(p, 0)]
  BY NumberOfPeriods
<1>3. PICK F : F = [x \in (1..n) \X Nat |-> LeftStep(mem, p, x)]
  OBVIOUS
<1>4. \A i \in 1..n : i \in Periods /\ i - 1 \in Periods /\ i > 0
  BY <1>1
<1>5. \A x \in (1..n) \X Nat : LeftStep(mem, p, x) \in Nat
  <2>1. ASSUME NEW x \in (1..n) \X Nat PROVE LeftStep(mem, p, x) \in Nat
    <3>1. x[1] \in 1..n /\ x[2] \in Nat
      OBVIOUS
    <3>2. PICK a \in Nat : a = mem[AvailLoc(p, x[1])]
      BY <1>4, <3>1
    <3>3. QED
      BY <3>1, <3>2 DEF LeftStep
  <2>2. QED
    BY <2>1
<1>6. F \in [(1..n) \X Nat -> Nat]
  BY <1>3, <1>5
<1>7. PICK g : GoesUp(n, Nat, first, F, g)
  BY <1>6, RecursionUp
<1>8. g \in [Periods -> Nat] /\ g[0] = first
  BY <1>1, <1>7 DEF GoesUp
<1>9. ASSUME NEW t \in Periods
      PROVE  g[t] = Carried(p, g, t) + mem[AvailLoc(p, t)]
  <2>1. CASE t = 0
    <3>1. Carried(p, g, t) = 0
      BY <2>1 DEF Carried
    <3>2. QED
      BY <1>2, <1>8, <2>1, <3>1
  <2>2. CASE t # 0
    <3>1. t \in 1..n /\ t - 1 \in Periods /\ t > 0
      BY <1>1, <2>2
    <3>2. g[t - 1] \in Nat
      BY <1>8, <3>1
    <3>3. PICK x : x = <<t, g[t - 1]>>
      OBVIOUS
    <3>4. x \in (1..n) \X Nat /\ x[1] = t /\ x[2] = g[t - 1]
      BY <3>1, <3>2, <3>3
    <3>5. g[t] = LeftStep(mem, p, x)
      BY <1>3, <1>7, <3>1, <3>3, <3>4 DEF GoesUp
    <3>6. QED
      BY <3>1, <3>4, <3>5 DEF LeftStep, Carried
  <2>3. QED
    BY <2>1, <2>2
<1>10. IsLeft(mem, p, g)
  BY <1>8, <1>9 DEF IsLeft
<1>11. Nonneg(g)
  BY <1>8 DEF Nonneg
<1>12. QED
  BY <1>10, <1>11 DEF Covered

LEMMA InitMemIsFeasible ==
  ASSUME NEW supply \in [Parts -> [Periods -> Nat]]
  PROVE  /\ InitMem(supply) \in [SolnLocs -> Int]
         /\ SoundAndFeasible(NewStore(InitMem(supply)))
<1>1. PICK mem : mem = InitMem(supply)
  OBVIOUS
<1>2. mem = [loc \in SolnLocs |->
               CASE loc[2] = "incAvailVol" -> supply[loc[3]][loc[4]]
                 [] loc[2] = "lastDecPer"  -> -1
                 [] OTHER                  -> 0]
  BY <1>1 DEF InitMem
<1>3. ASSUME NEW p \in Parts, NEW t \in Periods
      PROVE  mem[AvailLoc(p, t)] \in Nat
  <2>1. /\ AvailLoc(p, t) \in SolnLocs /\ AvailLoc(p, t)[2] = "incAvailVol"
        /\ AvailLoc(p, t)[3] = p /\ AvailLoc(p, t)[4] = t
    BY DEF SolnLocs, AvailLoc
  <2>2. mem[AvailLoc(p, t)] = supply[p][t]
    BY <1>2, <2>1
  <2>3. QED
    BY <2>2
<1>4. ASSUME NEW m \in Materials
      PROVE  mem[LastDecLoc(m)] = -1
  <2>1. LastDecLoc(m) \in SolnLocs /\ LastDecLoc(m)[2] = "lastDecPer"
    BY DEF SolnLocs, LastDecLoc
  <2>2. QED
    BY <1>2, <2>1
<1>5. ASSUME NEW loc \in SolnLocs, loc[2] \notin {"incAvailVol", "lastDecPer"}
      PROVE  mem[loc] = 0
  BY <1>2, <1>5
<1>6. \A loc \in SolnLocs : \/ \E p \in Parts, t \in Periods : loc = AvailLoc(p, t)
                            \/ \E m \in Materials : loc = LastDecLoc(m)
                            \/ loc[2] \notin {"incAvailVol", "lastDecPer"}
  BY DEF SolnLocs, ExecLoc, SubLoc
<1>7. \A loc \in SolnLocs : mem[loc] \in Int
  BY <1>3, <1>4, <1>5, <1>6
<1>8. DOMAIN mem = SolnLocs /\ mem \in [SolnLocs -> Int]
  BY <1>2, <1>7
<1>9. -1 \in -1..(NPeriods - 1)
  BY NumberOfPeriods
<1>10. Bounded(mem)
  BY <1>3 DEF Bounded, Parts
<1>11. IntMem(mem)
  BY <1>4, <1>7, <1>8, <1>9, <1>10 DEF IntMem
<1>12. Feasible(mem)
  BY <1>3, NonnegativeIsCovered DEF Feasible
<1>13. Typed(NewStore(mem), SolnLocs) /\ NewStore(mem).mem = mem
  BY <1>8, TypedNew DEF NewStore
<1>14. QED
  BY <1>1, <1>8, <1>11, <1>12, <1>13 DEF SoundAndFeasible, Sound, Typed

LEMMA NoReqsAreTyped == Typed(NewStore(NoReqs), ReqLocs)
<1>1. NoReqs \in [ReqLocs -> Int]
  BY NumberOfPeriods DEF NoReqs
<1>2. QED
  BY <1>1, TypedNew

LEMMA FeasibleInit == Init => FrameType /\ Sched /\ Made
<1> SUFFICES ASSUME Init PROVE FrameType /\ Sched /\ Made
  OBVIOUS
<1>1. supplyVol \in [Parts -> [Periods -> Nat]]
  BY DemandsAssumption DEF Init
<1>2. PICK mem : mem = InitMem(supplyVol)
  OBVIOUS
<1>3. /\ soln = NewStore(mem) /\ base = mem /\ req = NewStore(NoReqs)
      /\ cursor = NoCursor /\ pc = "idle"
  BY <1>2 DEF Init
<1>4. SoundAndFeasible(NewStore(mem)) /\ NewStore(mem).mem = mem
  BY <1>1, <1>2, InitMemIsFeasible DEF NewStore
<1>5. Typed(soln, SolnLocs)
  BY <1>3, <1>4, SoundIsTyped DEF SoundAndFeasible
<1>6. Sched
  BY <1>3, <1>4, <1>5, NoReqsAreTyped DEF Sched, SoundAndFeasible, Sound
<1>7. FrameType /\ Made
  BY <1>3 DEF FrameType, CursorType, NoCursor, FillsReq, MakesReq, ScanType, Made,
     Exploding, Executing
<1>8. QED
  BY <1>6, <1>7

------------------------------------------------------------------------------

LEMMA UndoIsFeasible ==
  Allocation /\ UndoStep => Sched'
<1> SUFFICES ASSUME Allocation, UndoStep PROVE Sched'
  OBVIOUS
<1>0. Rollback /\ Sched /\ Typed(req, ReqLocs) /\ Typed(soln, SolnLocs)
  BY DEF Allocation, Sched
<1>1. CASE ClearReqSched
  <2>1. /\ pc = "clear" /\ UNCHANGED <<soln, base>>
        /\ req' = IF Clean(req) THEN req ELSE RestoreStep(req)
    BY <1>1 DEF ClearReqSched
  <2>2. Typed(req', ReqLocs)
    BY <1>0, <2>1, TypedRestore
  <2>3. QED
    BY <1>0, <2>1, <2>2, SchedSame
<1>2. CASE RestoreSoln
  <2>1. /\ pc' = IF Clean(soln) THEN "return" ELSE "restore"
        /\ soln' = IF Clean(soln) THEN soln ELSE RestoreStep(soln)
        /\ base' = base /\ req' = req
    BY <1>2 DEF RestoreSoln, commVars
  <2>2. IntMem(base) /\ Feasible(base)
    BY <1>0 DEF Sched
  <2>3. (IntMem(base) /\ Feasible(base))'
    BY <2>1, <2>2 DEF IntMem, Feasible, Bounded, Covered, IsLeft, Nonneg, Carried
  <2>4. PICK s : s = IF Clean(soln) THEN soln ELSE RestoreStep(soln)
    OBVIOUS
  <2>5. Typed(s, SolnLocs)
    BY <1>0, <2>4, TypedRestore
  <2>6. Clean(soln) => SoundAndFeasible(s)
    <3>1. SUFFICES ASSUME Clean(soln) PROVE SoundAndFeasible(soln)
      BY <2>4
    <3>2. soln.mem = base
      <4>1. CASE mode # "temp"
        BY <1>0, <4>1 DEF Rollback
      <4>2. CASE mode = "temp"
        <5>1. Recovers(soln, base) /\ StoreShape(soln)
          BY <1>0, <4>2 DEF Rollback, Guarded
        <5>2. DOMAIN base = SolnLocs /\ base = [l \in DOMAIN base |-> base[l]]
          BY <1>0, <2>2 DEF Rollback, IntMem
        <5>3. \A l \in DOMAIN base : KindOf(l) \in Kinds
          BY <5>2, SolnLocsHaveKinds
        <5>4. QED
          BY <3>1, <5>1, <5>2, <5>3, CleanIsRecovered
      <4>3. QED
        BY <4>1, <4>2
    <3>3. QED
      BY <1>0, <2>2, <3>2 DEF SoundAndFeasible, Sound, Typed
  <2>7. soln' = s
    BY <2>1, <2>4
  <2>8. Typed(soln, SolnLocs)'
    BY <2>5, <2>7 DEF Typed, LogTyped, StoreShape
  <2>9. Clean(soln) => SoundAndFeasible(soln)'
    BY <2>6, <2>7 DEF SoundAndFeasible, Sound, StoreShape, LogTyped, IntMem,
       Feasible, Bounded, Covered, IsLeft, Nonneg, Carried
  <2>10. Typed(req, ReqLocs)'
    BY <1>0, <2>1 DEF Typed, LogTyped, StoreShape
  <2>11. QED
    BY <2>1, <2>3, <2>8, <2>9, <2>10 DEF Sched
<1>3. QED
  BY <1>1, <1>2 DEF UndoStep

LEMMA MaxQtyIsFeasible == Allocation /\ MaxQtyStep => Sched'
<1> SUFFICES ASSUME Allocation, MaxQtyStep PROVE Sched'
  OBVIOUS
<1>0. Sched /\ Typed(req, ReqLocs) /\ CallType /\ TopType /\ SearchType
  BY DEF Allocation, Sched, Locals
<1>1. CASE TempCommit \/ PermCommit
  <2>1. /\ pc \in {"try", "perm"} /\ UNCHANGED <<soln, base>>
        /\ req' = AddTo(req, top.part, top.per, TryQty)
    BY <1>1 DEF TempCommit, PermCommit, StartCommit
  <2>2. search.stage # "none" /\ pc \in Trying
    BY <1>0, <2>1 DEF SearchType, Trying
  <2>3. TryQty \in 1..netQty
    BY <1>0, <2>2, TryQtyFits
  <2>4. TryQty \in Int
    BY <1>0, <2>3 DEF CallType
  <2>5. top.part \in Parts /\ top.per \in Periods
    BY <1>0, <2>2 DEF TopType
  <2>6. Typed(req', ReqLocs)
    BY <1>0, <2>1, <2>4, <2>5, TypedAddTo
  <2>7. QED
    BY <1>0, <2>1, <2>6, SchedSame
<1>2. CASE ~(TempCommit \/ PermCommit)
  <2>1. pc # "restore" /\ UNCHANGED <<soln, base, req>>
    BY <1>2 DEF MaxQtyStep, SkipBlocked, CommitMaxQty, TempCommitReturns,
       PermCommitReturns, CommitMaxQtyEnds, PostIncHeurAlloc, commVars
  <2>2. QED
    BY <1>0, <2>1, ReqUnchanged, SchedSame
<1>3. QED
  BY <1>1, <1>2

LEMMA CallIsFeasible == Allocation /\ Call => Sched'
<1> SUFFICES ASSUME Allocation, Call PROVE Sched'
  OBVIOUS
<1>0. Sched /\ Inputs
  BY DEF Allocation
<1>1. CASE StartHeurAlloc
  <2>1. PICK s : s = NewStore(InitMem(supplyVol))
    OBVIOUS
  <2>2. soln' = s /\ base' = s.mem /\ req' = req
    BY <1>1, <2>1 DEF StartHeurAlloc, NewStore, commVars
  <2>3. SoundAndFeasible(s)
    BY <1>0, <2>1, InputsAreTyped, InitMemIsFeasible
  <2>4. (IntMem(base) /\ Feasible(base))'
    BY <2>2, <2>3 DEF SoundAndFeasible, Sound, IntMem, Feasible, Bounded, Covered, IsLeft,
       Nonneg, Carried
  <2>5. Typed(s, SolnLocs)
    BY <2>3, SoundIsTyped DEF SoundAndFeasible
  <2>6. Typed(soln, SolnLocs)' /\ SoundAndFeasible(soln)'
    BY <2>2, <2>3, <2>5 DEF Typed, LogTyped, SoundAndFeasible, Sound, StoreShape, IntMem,
       Feasible, Bounded, Covered, IsLeft, Nonneg, Carried
  <2>7. Typed(req, ReqLocs)'
    BY <1>0, <2>2 DEF Sched, Typed, LogTyped, StoreShape
  <2>8. QED
    BY <2>4, <2>6, <2>7 DEF Sched
<1>2. CASE ~StartHeurAlloc
  <2>1. pc # "restore" /\ UNCHANGED <<soln, base, req>>
    BY <1>2 DEF Call, IncHeurAlloc, FinishHeurAlloc, commVars
  <2>2. QED
    BY <1>0, <2>1, ReqUnchanged, SchedSame
<1>3. QED
  BY <1>1, <1>2

------------------------------------------------------------------------------

LEMMA KeepFeasible ==
  ASSUME NEW s, SoundAndFeasible(s), NEW m \in Materials, NEW t \in Periods,
         NEW vol \in Nat
  PROVE  SoundAndFeasible(KeepInStock(s, m, t, vol))
<1>1. CASE t < NPeriods - 1
  <2>1. t + 1 \in Periods /\ m \in Parts
    BY <1>1, NumberOfPeriods DEF Parts
  <2>2. PICK u \in Periods : u = t + 1
    BY <2>1
  <2>3. SoundAndFeasible(AddAvail(s, m, u, vol))
    BY <2>1, GiveFeasible
  <2>4. QED
    BY <1>1, <2>2, <2>3 DEF KeepInStock
<1>2. CASE ~(t < NPeriods - 1)
  BY <1>2 DEF KeepInStock
<1>3. QED
  BY <1>1, <1>2

\* What is available in a period can be moved to the next.
LEMMA ReserveFeasible ==
  ASSUME NEW s, SoundAndFeasible(s), NEW m \in Materials, NEW t \in Periods,
         NEW slb \in Nat, NEW res, res = AvailToNet(s, m, t, slb, 0), ~(res <= 0)
  PROVE  SoundAndFeasible(KeepInStock(AddAvail(s, m, t, -res), m, t, res))
<1>1. IntMem(s.mem) /\ Feasible(s.mem) /\ m \in Parts
  BY DEF SoundAndFeasible, Sound, Parts
<1>2. PICK left : IsLeft(s.mem, m, left) /\ Nonneg(left)
  BY <1>1 DEF Feasible, Covered
<1>3. slb \in Int
  OBVIOUS
<1>4. res \in Int /\ res <= left[t]
  BY <1>1, <1>2, <1>3, AvailToNetFits
<1>5. res \in Nat
  BY <1>4
<1>6. left[t] \in Int /\ left[t] >= res
  BY <1>2, <1>4 DEF IsLeft
<1>7. CASE t < NPeriods - 1
  <2>1. PICK u \in Periods : u = t + 1
    BY <1>7, NumberOfPeriods
  <2>2. ASSUME NEW v \in Periods, Reaches(m, t, v), ~Reaches(m, u, v)
        PROVE  v = t
    <3>1. t \in Nat /\ v \in Nat /\ u = t + 1 /\ t <= v
      BY <2>1, <2>2, NumberOfPeriods DEF Reaches
    <3>2. SUFFICES ASSUME v # t PROVE FALSE
      OBVIOUS
    <3>3. u <= v /\ \A x \in u..(v - 1) : x \in t..(v - 1)
      BY <3>1, <3>2
    <3>4. QED
      BY <2>2, <3>3 DEF Reaches
  <2>3. Rolls(s.mem, m, t, res, u)
    BY <1>2, <1>6, <2>2 DEF Rolls
  <2>4. PICK delta \in Int : delta = -res
    BY <1>4
  <2>5. PICK taken : taken = AddAvail(s, m, t, delta)
    OBVIOUS
  <2>6. Sound(taken) /\ AddsTo(s, m, t, delta, taken)
    BY <1>1, <2>5, AddAvailSound DEF SoundAndFeasible
  <2>7. PICK n : n = AddAvail(taken, m, u, res)
    OBVIOUS
  <2>8. Sound(n) /\ AddsTo(taken, m, u, res, n)
    BY <1>1, <1>4, <2>6, <2>7, AddAvailSound
  <2>9. AddsTo(s, m, t, -res, taken)
    BY <2>4, <2>6
  <2>10. Feasible(n.mem)
    BY <1>1, <1>5, <2>3, <2>8, <2>9, RollingIsFeasible
  <2>11. KeepInStock(AddAvail(s, m, t, -res), m, t, res) = n
    BY <1>7, <2>1, <2>4, <2>5, <2>7 DEF KeepInStock
  <2>12. QED
    BY <2>8, <2>10, <2>11 DEF SoundAndFeasible
<1>8. CASE ~(t < NPeriods - 1)
  <2>1. \A v \in Periods : Reaches(m, t, v) => v = t
    BY <1>8, NumberOfPeriods DEF Reaches
  <2>2. Offers(s.mem, m, t, res)
    BY <1>2, <1>6, <2>1 DEF Offers
  <2>3. SoundAndFeasible(AddAvail(s, m, t, -res))
    BY <1>1, <1>4, <2>2, TakeFeasible
  <2>4. QED
    BY <1>8, <2>3 DEF KeepInStock
<1>9. QED
  BY <1>7, <1>8

LEMMA StockSLBIsFeasible == Allocation /\ StockSLBStep => Sched'
<1> SUFFICES ASSUME Allocation, StockSLBStep PROVE Sched'
  OBVIOUS
<1>0. Sched /\ CallType
  BY DEF Allocation, Locals
<1>1. ASSUME NEW m \in Materials, NEW t \in Periods, EnforceStockSLB(m, t)
      PROVE  Sched'
  <2>1. PICK slb \in Nat : slb = StockSLB[m][t]
    BY DemandsAssumption
  <2>2. PICK res : res = AvailToNet(soln, m, t, slb, 0)
    OBVIOUS
  <2>3. PICK s : s = IF res <= 0 THEN soln
                     ELSE KeepInStock(AddAvail(soln, m, t, -res), m, t, res)
    OBVIOUS
  <2>4. pc = "slb" /\ Write(s) /\ req' = req
    BY <1>1, <2>1, <2>2, <2>3 DEF EnforceStockSLB, commVars
  <2>5. SoundAndFeasible(soln)
    BY <1>0, <2>4 DEF Sched
  <2>6. SoundAndFeasible(s)
    BY <2>2, <2>3, <2>5, ReserveFeasible
  <2>7. QED
    BY <1>0, <2>4, <2>6, ReqUnchanged, SchedWrite
<1>2. ASSUME NEW m \in Materials, NEW t \in Periods, StockSLBEnforced(m, t)
      PROVE  Sched'
  <2>1. PICK vol \in Nat : vol = call.vol - netQty
    BY <1>0 DEF CallType
  <2>2. PICK s : s = IF vol > 0 THEN KeepInStock(soln, m, t, vol) ELSE soln
    OBVIOUS
  <2>3. pc = "cmq" /\ Write(s) /\ req' = req
    BY <1>2, <2>1, <2>2 DEF StockSLBEnforced, commVars
  <2>4. SoundAndFeasible(soln)
    BY <1>0, <2>3 DEF Sched
  <2>5. SoundAndFeasible(s)
    BY <2>2, <2>4, KeepFeasible
  <2>6. QED
    BY <1>0, <2>3, <2>5, ReqUnchanged, SchedWrite
<1>3. CASE StockSLBsEnforced
  <2>1. pc = "slb" /\ UNCHANGED <<soln, base, req>>
    BY <1>3 DEF StockSLBsEnforced, commVars
  <2>2. QED
    BY <1>0, <2>1, ReqUnchanged, SchedSame
<1>4. QED
  BY <1>1, <1>2, <1>3 DEF StockSLBStep

------------------------------------------------------------------------------

LEMMA LocalsNext == Allocation /\ Next => Locals'
<1> SUFFICES ASSUME Allocation, Next PROVE Locals'
  OBVIOUS
<1>0. Inputs /\ Locals /\ Reqs /\ Sched
  BY DEF Allocation
<1>1. CASE Call
  BY <1>0, <1>1, LocalsOfCall
<1>2. CASE MaxQtyStep
  BY <1>0, <1>2, LocalsOfMaxQty
<1>3. CASE FillStep \/ ExplodeStep \/ UndoStep
  BY <1>0, <1>3, LocalsOfCommit
<1>4. CASE StockSLBStep
  <2>1. pc # "restore"
    BY <1>4 DEF StockSLBStep, EnforceStockSLB, StockSLBEnforced, StockSLBsEnforced
  <2>2. IntMem(soln.mem) /\ Feasible(soln.mem)
    BY <1>0, <2>1 DEF Sched, SoundAndFeasible, Sound
  <2>3. QED
    BY <1>0, <1>4, <2>2, LocalsOfStockSLB
<1>5. QED
  BY <1>1, <1>2, <1>3, <1>4 DEF Next, Run

LEMMA MadeOfOthers ==
  MaxQtyStep \/ UndoStep \/ StockSLBStep \/ Call => Made'
  BY MadeElsewhere
     DEF MaxQtyStep, SkipBlocked, CommitMaxQty, TempCommit, PermCommit,
         StartCommit, TempCommitReturns, PermCommitReturns, CommitMaxQtyEnds,
         PostIncHeurAlloc, UndoStep, ClearReqSched, RestoreSoln, StockSLBStep,
         EnforceStockSLB, StockSLBEnforced, StockSLBsEnforced, Call, IncHeurAlloc,
         FinishHeurAlloc, StartHeurAlloc

LEMMA AllocationInit == Init => Allocation
<1>1. Init => Inputs
  BY DEF Init, Inputs
<1>2. QED
  BY <1>1, InitRollback, InitReqs, FrameInit, LocalsInit, FeasibleInit DEF Allocation

LEMMA AllocationStays == Allocation /\ UNCHANGED vars => Allocation'
<1> SUFFICES ASSUME Allocation, UNCHANGED vars PROVE Allocation'
  OBVIOUS
<1> USE DEF vars, inputs, results, callVars, commVars
<1>1. Rollback' /\ Reqs'
  BY NextRollback, NextReqsInv DEF Allocation
<1>2. FrameOK' /\ Inputs'
  BY FrameNext DEF Allocation, Inputs
<1>3. Locals'
  <2>1. CallType' /\ TopType'
    BY DEF Allocation, Locals, CallType, TopType
  <2>2. CurSearchInc' = CurSearchInc
    BY DEF CurSearchInc
  <2>3. SearchType'
    BY <2>2 DEF Allocation, Locals, SearchType, IsOpen
  <2>4. QED
    BY <2>1, <2>3 DEF Allocation, Locals
<1>4. FrameType'
  BY DEF Allocation, FrameType, CursorType, FillsReq, MakesReq, ScanType, TopList,
     FrameExpPer, FrameBom, FrameOpn, Explodeable, InEffect
<1>5. Sched'
  BY DEF Allocation, Sched, IntMem, Feasible, Bounded, Covered, IsLeft, Nonneg, Carried,
     Typed, LogTyped, SoundAndFeasible, Sound, StoreShape
<1>6. Made'
  BY DEF Allocation, Made, FrameOpn, Offers, IsLeft, Nonneg, Carried
<1>7. QED
  BY <1>1, <1>2, <1>3, <1>4, <1>5, <1>6 DEF Allocation

LEMMA AllocationNext == Allocation /\ [Next]_vars => Allocation'
<1> SUFFICES ASSUME Allocation, Next PROVE Allocation'
  BY AllocationStays
<1>1. Rollback' /\ Reqs' /\ FrameOK'
  BY NextRollback, NextReqsInv, FrameNext DEF Allocation
<1>2. Inputs'
  BY InputsStay DEF Allocation, Inputs, inputs
<1>3. Locals'
  BY LocalsNext
<1>4. FrameType' /\ Sched' /\ Made'
  <2>0. FrameType
    BY DEF Allocation
  <2>1. CASE FillStep
    BY <2>1, FillIsFeasible
  <2>2. CASE ExplodeStep
    BY <2>2, ExplodeIsFeasible
  <2>3. CASE MaxQtyStep
    BY <2>0, <2>3, FrameTypeOfMaxQty, MaxQtyIsFeasible, MadeOfOthers
  <2>4. CASE UndoStep
    BY <2>0, <2>4, FrameTypeOfMaxQty, UndoIsFeasible, MadeOfOthers
  <2>5. CASE StockSLBStep
    BY <2>0, <2>5, FrameTypeOfMaxQty, StockSLBIsFeasible, MadeOfOthers
  <2>6. CASE Call
    BY <2>0, <2>6, FrameTypeOfMaxQty, CallIsFeasible, MadeOfOthers
  <2>7. QED
    BY <2>1, <2>2, <2>3, <2>4, <2>5, <2>6 DEF Next, Run
<1>5. QED
  BY <1>1, <1>2, <1>3, <1>4 DEF Allocation

\* At every step of every call, in every temporary and permanent commit: the
\* schedule is feasible, and the local variables of the explosion say what it
\* has taken and has still to make.
THEOREM AllocationHolds == Spec => []Allocation
  BY AllocationInit, AllocationNext, PTL DEF Spec

\* The comment of allocedVol: it may ignore mandatory ECs, because whenever a
\* requirement is netted nothing that is there in the period of one has been
\* promised to a later period.
THEOREM NothingIsAllocedAcross == Spec => []NothingAllocedAcrossEC
<1>1. Allocation => NothingAllocedAcrossEC
  <2> SUFFICES ASSUME Allocation, pc \in {"fill", "net"},
                      NEW m \in Materials, NEW t \in Periods, MandEC[m][t]
               PROVE  AllocedVol(soln, m, t) = 0
    BY DEF NothingAllocedAcrossEC
  <2>1. IntMem(soln.mem) /\ Feasible(soln.mem) /\ m \in Parts
    BY DEF Allocation, Sched, SoundAndFeasible, Sound, Parts
  <2>2. PICK left : IsLeft(soln.mem, m, left) /\ Nonneg(left)
    BY <2>1 DEF Feasible, Covered
  <2>3. ~CanStock(m, t)
    BY DEF CanStock
  <2>4. QED
    BY <2>1, <2>2, <2>3, NothingAllocedBeyond
<1>2. QED
  BY <1>1, AllocationHolds, PTL

------------------------------------------------------------------------------

\* The recursion of verifyUhsNNScrapCon gives what is left.
LeftFun(avail, p, f) ==
  [t \in -1..(NPeriods - 1) |->
     IF t = -1 THEN 0
     ELSE (IF t > 0 /\ CanStock(p, t - 1) THEN Max({0, f[t - 1]}) ELSE 0)
          + avail[p][t]]

LEMMA NNScrapDef ==
  ASSUME NEW avail,
         \A p \in Parts : \A t \in Periods : (CHOOSE f : f = LeftFun(avail, p, f))[t] >= 0
  PROVE  NNScrap(avail)
  BY DEF NNScrap, LeftFun

LEMMA FeasibleIsNNScrap ==
  ASSUME NEW mem, Feasible(mem), NEW avail,
         avail = [p \in Parts |-> [t \in Periods |-> mem[AvailLoc(p, t)]]]
  PROVE  NNScrap(avail)
<1> SUFFICES ASSUME NEW p \in Parts, NEW t0 \in Periods
             PROVE  (CHOOSE f : f = LeftFun(avail, p, f))[t0] >= 0
  BY NNScrapDef
<1>1. PICK left : IsLeft(mem, p, left) /\ Nonneg(left)
  BY DEF Feasible, Covered
<1>2. \A t \in Periods : left[t] \in Int /\ left[t] >= 0
  BY <1>1 DEF IsLeft, Nonneg
<1>3. \A t \in Periods : left[t] = Carried(p, left, t) + avail[p][t]
  BY <1>1 DEF IsLeft
<1>4. PICK n \in Nat : n = NPeriods - 1 /\ Periods = 0..n
  BY PeriodsAssumption DEF Periods
<1>5. PICK g : g = [t \in -1..n |-> IF t = -1 THEN 0 ELSE left[t]]
  OBVIOUS
<1>6. g = LeftFun(avail, p, g)
  <2>1. ASSUME NEW t \in -1..n
        PROVE  g[t] = IF t = -1 THEN 0
                      ELSE (IF t > 0 /\ CanStock(p, t - 1) THEN Max({0, g[t - 1]}) ELSE 0)
                           + avail[p][t]
    <3>1. CASE t = -1
      BY <1>5, <3>1
    <3>2. CASE t \in Periods /\ t > 0 /\ CanStock(p, t - 1)
      <4>1. t - 1 \in Periods /\ t - 1 \in -1..n /\ t - 1 # -1 /\ t # -1
        BY <1>4, <3>2
      <4>2. g[t - 1] = left[t - 1] /\ g[t] = left[t]
        BY <1>5, <4>1
      <4>3. Max({0, left[t - 1]}) = left[t - 1]
        <5>1. left[t - 1] \in Int /\ left[t - 1] >= 0
          BY <1>2, <4>1
        <5>2. QED
          BY <5>1, NetMax
      <4>4. Carried(p, left, t) = left[t - 1]
        BY <3>2 DEF Carried
      <4>5. QED
        BY <1>3, <3>2, <4>1, <4>2, <4>3, <4>4
    <3>3. CASE t \in Periods /\ ~(t > 0 /\ CanStock(p, t - 1))
      <4>1. t # -1
        BY <1>4, <3>3
      <4>2. g[t] = left[t]
        BY <1>5, <4>1
      <4>3. Carried(p, left, t) = 0
        BY <3>3 DEF Carried
      <4>4. QED
        BY <1>3, <3>3, <4>1, <4>2, <4>3
    <3>4. t = -1 \/ t \in Periods
      BY <1>4
    <3>5. QED
      BY <3>1, <3>2, <3>3, <3>4
  <2>2. g = [t \in -1..n |-> g[t]]
    BY <1>5
  <2>3. QED
    BY <1>4, <2>1, <2>2 DEF LeftFun
<1>7. PICK f : f = (CHOOSE h : h = LeftFun(avail, p, h)) /\ f = LeftFun(avail, p, f)
  BY <1>6
<1>8. f[-1] = 0 /\ \A t \in Periods :
        f[t] = (IF t > 0 /\ CanStock(p, t - 1) THEN Max({0, f[t - 1]}) ELSE 0)
               + avail[p][t]
  <2>1. \A t \in Periods : t \in -1..(NPeriods - 1) /\ t # -1
    BY <1>4
  <2>2. -1 \in -1..(NPeriods - 1)
    BY <1>4
  <2>3. QED
    BY <1>7, <2>1, <2>2 DEF LeftFun
<1> DEFINE bad == {t \in Periods : f[t] # left[t]}
<1>9. bad = {}
  <2> SUFFICES ASSUME bad # {} PROVE FALSE
    OBVIOUS
  <2>1. bad \in SUBSET Nat
    BY <1>4
  <2>2. PICK t \in bad : \A u \in bad : t <= u
    BY <2>1, NatMin
  <2>3. t \in Periods /\ t \in Nat
    BY <1>4, <2>2
  <2>4. CASE t > 0 /\ CanStock(p, t - 1)
    <3>1. t - 1 \in Periods /\ ~(t <= t - 1)
      BY <1>4, <2>3, <2>4
    <3>2. f[t - 1] = left[t - 1]
      BY <2>2, <3>1
    <3>3. left[t - 1] \in Int /\ left[t - 1] >= 0
      BY <1>2, <3>1
    <3>4. Max({0, left[t - 1]}) = left[t - 1]
      BY <3>3, NetMax
    <3>5. Carried(p, left, t) = left[t - 1]
      BY <2>4 DEF Carried
    <3>6. f[t] = left[t]
      BY <1>3, <1>8, <2>3, <2>4, <3>2, <3>4, <3>5
    <3>7. QED
      BY <2>2, <3>6
  <2>5. CASE ~(t > 0 /\ CanStock(p, t - 1))
    <3>1. Carried(p, left, t) = 0
      BY <2>5 DEF Carried
    <3>2. f[t] = left[t]
      BY <1>3, <1>8, <2>3, <2>5, <3>1
    <3>3. QED
      BY <2>2, <3>2
  <2>6. QED
    BY <2>4, <2>5
<1>10. f[t0] = left[t0]
  BY <1>9
<1>11. QED
  BY <1>2, <1>7, <1>10

\* verifyUhsNNScrapCon, of the schedule: between calls, and each time that a
\* requirement is about to be netted, the availability that can be carried to
\* a period is never negative, so nothing is promised twice.
THEOREM ScheduleStaysFeasible == Spec => []ScheduleIsFeasible
<1>1. Allocation => ScheduleIsFeasible
  <2> SUFFICES ASSUME Allocation, AtRest \/ pc = "fill"
               PROVE  NNScrap([p \in Parts |-> [t \in Periods |-> IncAvailVol(soln, p, t)]])
    BY DEF ScheduleIsFeasible
  <2>1. pc # "restore"
    BY DEF Allocation, Reqs, AtRest, CommitPoints
  <2>2. IntMem(soln.mem) /\ Feasible(soln.mem)
    BY <2>1 DEF Allocation, Sched, SoundAndFeasible, Sound
  <2>3. PICK avail : avail = [p \in Parts |-> [t \in Periods |-> soln.mem[AvailLoc(p, t)]]]
    OBVIOUS
  <2>4. NNScrap(avail)
    BY <2>2, <2>3, FeasibleIsNNScrap
  <2>5. QED
    BY <2>3, <2>4 DEF IncAvailVol
<1>2. QED
  BY <1>1, AllocationHolds, PTL

\* lastDecPer_ bounds the periods in which the availability of a material is
\* negative, at every step of every call and commit: allocedVol and rollPeriod,
\* which look no further (AvailSched.C:450, 515), miss nothing.  Only in the
\* middle of a restoration it need not, as the integers are restored first.
THEOREM LastDecPerIsBound == Spec => []LastDecIsBound
<1>1. Allocation => LastDecIsBound
  BY DEF LastDecIsBound, Allocation, Sched, SoundAndFeasible, Sound, IntMem,
         Bounded, IncAvailVol, LastDecPer
<1>2. QED
  BY <1>1, AllocationHolds, PTL

------------------------------------------------------------------------------
(***************************************************************************)
(* Types, and the order of filling.                                        *)
(***************************************************************************)

Control ==
  /\ pc \in PcValues
  /\ ok \in BOOLEAN
  /\ mode \in {"none", "temp", "perm"}

LEMMA ControlInit == Init => Control
  BY DEF Init, Control, PcValues

LEMMA ControlNext == Control /\ [Next]_vars => Control'
<1> SUFFICES ASSUME Control, [Next]_vars PROVE Control'
  OBVIOUS
<1> USE DEF Control, PcValues
<1>1. CASE UNCHANGED vars
  BY <1>1 DEF vars, commVars
<1>2. CASE Call
  BY <1>2 DEF Call, IncHeurAlloc, FinishHeurAlloc, StartHeurAlloc, commVars
<1>3. CASE MaxQtyStep
  BY <1>3
     DEF MaxQtyStep, SkipBlocked, CommitMaxQty, TempCommit, PermCommit,
         StartCommit, TempCommitReturns, PermCommitReturns, CommitMaxQtyEnds,
         PostIncHeurAlloc, commVars
<1>4. CASE FillStep
  BY ZenonT(60), <1>4
     DEF FillStep, NetReq, NetAndRollReq, Netted, AllFilled, CannotExplode,
     ExplodeBopEnt, CommitUnchanged
<1>5. CASE ExplodeStep
  BY <1>5
     DEF ExplodeStep, BomEntryNotInEffect, ExplodeBomEntry, NetConsEntry,
         NetByProductEntry, SkipSubEntry, NettedTo, ExplodeConsEntry,
         BomEntriesExploded, ExplodeBopEntry, UseProduct, CommitUnchanged
<1>6. CASE UndoStep
  BY <1>6 DEF UndoStep, ClearReqSched, RestoreSoln, CommitUnchanged, commVars
<1>7. CASE StockSLBStep
  BY <1>7
     DEF StockSLBStep, EnforceStockSLB, StockSLBEnforced, StockSLBsEnforced, commVars
<1>8. QED
  BY <1>1, <1>2, <1>3, <1>4, <1>5, <1>6, <1>7 DEF Next, Run

LEMMA TypedIsStore ==
  ASSUME NEW s, NEW locs, Typed(s, locs) PROVE IsStore(s, locs)
<1>1. s.mem \in [locs -> Int]
  BY DEF Typed, StoreShape
<1>2. DOMAIN s.log = Kinds
  BY DEF Typed, StoreShape
<1>3. ASSUME NEW k \in Kinds, NEW i \in DOMAIN s.log[k]
      PROVE  s.log[k][i].loc \in locs /\ KindOf(s.log[k][i].loc) = k
  <2>1. IsStack(s.log[k])
    BY DEF Typed, StoreShape
  <2>2. i \in 1..Len(s.log[k])
    BY <1>3, <2>1 DEF IsStack
  <2>3. QED
    BY <2>2 DEF Typed, LogTyped, StoreShape
<1>4. QED
  BY <1>1, <1>2, <1>3 DEF IsStore

\* The solution, the requirements and their repositories keep their types, no
\* shipment and no netted quantity is negative, and the commit flags of
\* WitHeurAtor agree with the function that runs.
THEOREM TypesAreOK == Spec => []TypeOK
<1>1. Spec => []Control
  BY ControlInit, ControlNext, PTL DEF Spec
<1>2. Allocation /\ Control => TypeOK
  <2> SUFFICES ASSUME Allocation, Control PROVE TypeOK
    OBVIOUS
  <2>1. IsStore(soln, SolnLocs) /\ IsStore(req, ReqLocs)
    BY TypedIsStore DEF Allocation, Sched
  <2>2. base \in [SolnLocs -> Int]
    BY DEF Allocation, Rollback, Sched, IntMem
  <2>3. /\ shipVol \in [Demands -> [Periods -> Nat]]
        /\ blocked \subseteq Parts \X Periods
        /\ netQty \in 0..call.vol
    BY DEF Allocation, Locals, CallType
  <2>4. mode # "none" <=> pc \in {"fill", "explode", "bom", "net", "cons", "bop",
                                  "clear", "restore", "return"}
    BY DEF Allocation, Reqs, CommitPoints
  <2>5. QED
    BY <2>1, <2>2, <2>3, <2>4 DEF TypeOK, Control
<1>3. QED
  BY <1>1, <1>2, AllocationHolds, PTL

------------------------------------------------------------------------------

\* The requirements up to the cursor.
Passed(i, t) == i < cursor.idx \/ (i = cursor.idx /\ t <= cursor.per)

PassedAreKept ==
  \A i \in DOMAIN TopList, t \in Periods :
     Passed(i, t) => ReqVol(req', TopList[i], t) = ReqVol(req, TopList[i], t)

LEMMA FillKeepsPassed == Allocation /\ FillStep => PassedAreKept
<1> SUFFICES ASSUME Allocation, FillStep PROVE PassedAreKept
  OBVIOUS
<1>0. Reqs /\ TopType /\ CursorType /\ Typed(req, ReqLocs)
  BY DEF Allocation, Locals, Sched, FrameType
<1>1. ASSUME NEW r \in NextReqs, NEW rollPer \in Periods \cup {-1},
             NetAndRollReq(r[1], r[2], rollPer)
      PROVE  PassedAreKept
  <2>1. PICK j, u : j = r[1] /\ u = r[2]
    OBVIOUS
  <2>2. PICK p : p = TopList[j]
    OBVIOUS
  <2>3. PICK reqVol : reqVol = ReqVol(req, p, u)
    OBVIOUS
  <2>4. /\ pc = "fill" /\ j \in DOMAIN TopList /\ u \in Periods
        /\ p \in Parts /\ reqVol \in Nat \ {0}
        /\ j > cursor.idx \/ (j = cursor.idx /\ u > cursor.per)
    BY <1>0, <2>1, <2>2, <2>3, NextReqsAre
  <2>5. PICK vol : vol = RollVol(soln, p, u, reqVol)
    OBVIOUS
  <2>6. /\ rollPer = IF vol = 0 THEN -1 ELSE RollPeriod(soln, p, u)
        /\ req' = IF rollPer < 0 THEN req ELSE AddTo(req, p, rollPer, vol)
        /\ p \in UncondSR
    BY <1>1, <2>1, <2>2, <2>3, <2>5 DEF NetAndRollReq
  <2>7. SoundAndFeasible(soln)
    BY <2>4 DEF Allocation, Sched
  <2>8. p \in Materials
    BY <2>6, UncondSRAssumption
  <2>9. vol \in 0..reqVol /\ (rollPer # -1 => rollPer \in Periods /\ u < rollPer)
    BY <2>4, <2>5, <2>6, <2>7, <2>8, RollFeasible
  <2>10. CASE rollPer < 0
    BY <2>6, <2>10 DEF PassedAreKept
  <2>11. CASE ~(rollPer < 0)
    <3>1. rollPer \in Periods /\ u < rollPer /\ vol \in Int
      BY <2>9, <2>11
    <3>2. \A q \in Parts, v \in Periods :
             <<q, v>> # <<p, rollPer>> => ReqVol(req', q, v) = ReqVol(req, q, v)
      BY <1>0, <2>4, <2>6, <2>11, <3>1, TypedAddTo
    <3>3. ASSUME NEW i \in DOMAIN TopList, NEW t \in Periods, Passed(i, t)
          PROVE  ReqVol(req', TopList[i], t) = ReqVol(req, TopList[i], t)
      <4>1. Descends(TopList, Len(SortedParts)) /\ TopList \in Seq(Parts)
        BY <1>0, <2>4, TopListParts DEF Trying, CommitPoints
      <4>2. TopList[i] \in Parts /\ i \in Nat /\ j \in Nat
        BY <2>4, <4>1, SeqElements
      <4>3. t \in Nat /\ u \in Nat /\ rollPer \in Nat /\ cursor.idx \in Nat /\ cursor.per \in Nat
        BY <1>0, <2>4, <3>1, NumberOfPeriods DEF CursorType
      <4>4. ~(i = j /\ t = rollPer)
        BY <2>4, <3>1, <3>3, <4>2, <4>3 DEF Passed
      <4>5. <<TopList[i], t>> # <<p, rollPer>>
        <5>1. TopList[i] = p => i = j
          BY <2>2, <2>4, <4>1, ListIsInjective
        <5>2. QED
          BY <4>4, <5>1
      <4>6. QED
        BY <3>2, <4>2, <4>5
    <3>4. QED
      BY <3>3 DEF PassedAreKept
  <2>12. QED
    BY <2>10, <2>11
<1>2. CASE req' = req
  BY <1>2 DEF PassedAreKept
<1>3. QED
  BY <1>1, <1>2 DEF FillStep, NetReq, AllFilled, CannotExplode, ExplodeBopEnt

LEMMA ExplodeKeepsPassed == Allocation /\ ExplodeStep => PassedAreKept
<1> SUFFICES ASSUME Allocation, ExplodeStep PROVE PassedAreKept
  OBVIOUS
<1>0. /\ FrameOK /\ TopType /\ FrameType /\ CursorType /\ Sched /\ Typed(req, ReqLocs)
  BY DEF Allocation, Locals, Sched, FrameType
<1>1. CASE ExplodeConsEntry
  <2>1. PICK p, u : p = PartOf[FrameBom] /\ u = Impact[FrameBom][frame.execPer]
    OBVIOUS
  <2>2. PICK qty : qty = ConsumedQty(FrameBom, frame.net)
    OBVIOUS
  <2>3. /\ pc = "cons" /\ req' = IF qty > 0 THEN AddTo(req, p, u, qty) ELSE req
    BY <1>1, <2>1, <2>2 DEF ExplodeConsEntry
  <2>4. FrameBom \in BomEntries /\ FrameBom \in Entries
        /\ InEffect(FrameBom, frame.execPer) /\ frame.net \in Nat
    BY <1>0, <2>3, FrameEntries DEF FrameType, ScanType, Entries
  <2>5. frame.execPer \in Periods
    BY <1>0, <2>3 DEF FrameOK
  <2>6. p \in Parts /\ u \in Periods /\ Rate[FrameBom] \in Int
    BY <2>1, <2>4, <2>5, ImpactInEffect
  <2>7. qty \in Int
    BY <2>2, <2>4, <2>6 DEF ConsumedQty
  <2>8. p \in MadeFrom(frame.part)
    <3>1. /\ frame.bop \in ToSet(Producing[frame.part]) /\ frame.bop \in ExpAllowed
          /\ FrameOpn \in Operations
      BY <1>0, <2>3, ExecutionMeans DEF Executing
    <3>2. Bom[FrameOpn] \in Seq(BomEntries) /\ frame.bomIdx \in DOMAIN Bom[FrameOpn]
      BY <1>0, <2>3, <3>1, BillsAssumption DEF FrameOK
    <3>3. FrameBom \in ToSet(Bom[FrameOpn])
      BY <3>2, SeqElements DEF FrameBom
    <3>4. QED
      BY <2>1, <3>1, <3>3 DEF MadeFrom, FrameOpn
  <2>9. /\ cursor.idx \in DOMAIN TopList /\ frame.part = TopList[cursor.idx]
    BY <1>0, <2>3 DEF FrameType, FillsReq, Exploding, Executing
  <2>10. Descends(TopList, Len(SortedParts)) /\ TopList \in Seq(Parts)
    BY <1>0, <2>3, TopListParts DEF Trying, CommitPoints
  <2>11. ASSUME NEW i \in DOMAIN TopList, NEW t \in Periods, Passed(i, t)
         PROVE  ReqVol(req', TopList[i], t) = ReqVol(req, TopList[i], t)
    <3>1. TopList[i] \in Parts /\ i \in Nat /\ cursor.idx \in Nat
      BY <1>0, <2>10, SeqElements DEF CursorType
    <3>2. TopList[i] # p
      <4>1. SUFFICES ASSUME TopList[i] = p PROVE FALSE
        OBVIOUS
      <4>2. cursor.idx < i
        BY <2>8, <2>9, <2>10, <4>1, MadeFromLater
      <4>3. QED
        BY <2>11, <3>1, <4>2 DEF Passed
    <3>3. ReqVol(AddTo(req, p, u, qty), TopList[i], t) = ReqVol(req, TopList[i], t)
      BY <1>0, <2>6, <2>7, <3>1, <3>2, TypedAddTo
    <3>4. QED
      BY <2>3, <3>3
  <2>12. QED
    BY <2>11 DEF PassedAreKept
<1>2. CASE req' = req
  BY <1>2 DEF PassedAreKept
<1>3. QED
  BY <1>1, <1>2
     DEF ExplodeStep, BomEntryNotInEffect, ExplodeBomEntry, NetConsEntry,
         NetByProductEntry, SkipSubEntry, BomEntriesExploded, ExplodeBopEntry, UseProduct

\* innerCommit iterates once over the list of parts and the periods: whatever
\* an explosion requires, and whatever is rolled to a later period, is ahead
\* of the iteration.
THEOREM NoReqIsLeftBehind == Spec => NoReqBehindCursor
<1> DEFINE Step ==
      (pc \in {"fill", "explode", "bom", "net", "cons", "bop"}) =>
         \A i \in DOMAIN TopList, t \in Periods :
            (i < cursor.idx \/ (i = cursor.idx /\ t <= cursor.per)) =>
               ReqVol(req', TopList[i], t) = ReqVol(req, TopList[i], t)
<1>1. Allocation /\ [Next]_vars => [Step]_vars
  <2> SUFFICES ASSUME Allocation, Next,
                      pc \in {"fill", "explode", "bom", "net", "cons", "bop"}
               PROVE  PassedAreKept
    BY DEF PassedAreKept, Passed
  <2>1. FillStep \/ ExplodeStep
    BY DEF Next, Run, Call, IncHeurAlloc, FinishHeurAlloc, StartHeurAlloc, MaxQtyStep,
       SkipBlocked, CommitMaxQty, TempCommit, PermCommit, TempCommitReturns,
       PermCommitReturns, CommitMaxQtyEnds, PostIncHeurAlloc, UndoStep, ClearReqSched,
       RestoreSoln, StockSLBStep, EnforceStockSLB, StockSLBEnforced, StockSLBsEnforced
  <2>2. QED
    BY <2>1, FillKeepsPassed, ExplodeKeepsPassed
<1> HIDE DEF Step
<1>2. Spec => [][Step]_vars
  BY <1>1, AllocationHolds, PTL DEF Spec
<1>3. QED
  BY <1>2 DEF NoReqBehindCursor, Step

(***************************************************************************)
(* 5. A permanent commit repeats the last temporary commit of findMaxQty   *)
(* that succeeded. What a commit does depends on no more of the state than *)
(* its View, in which the stores are bare memories and the substitution    *)
(* volumes are left out; After is the step that it takes from there.       *)
(***************************************************************************)

\* What an explosion reads of the solution: not the substitution volumes,
\* which only a permanent commit writes.
ReadLocs == SolnLocs \ {SubLoc(s, t) : s \in SubEntries, t \in Periods}

Read(mem) == NewStore([loc \in ReadLocs |-> mem[loc]])

\* All that the rest of a commit depends on.
View == [soln |-> Read(soln.mem), req |-> NewStore(req.mem), list |-> TopList,
         cursor |-> cursor, frame |-> frame, ok |-> ok, pc |-> pc]

Adding(s, p, t, delta) == AddToIncAvailVol(s, p, t, delta, FALSE)

Taking(s, p, t, vol) == IF vol = 0 THEN s ELSE Adding(s, p, t, -vol)

Asking(r, p, t, qty) == NewStore(AddTo(r, p, t, qty).mem)

\* The view after a step within the requirement that is being filled.
To(v, thePc, theFrame, theSoln, theReq) ==
  [soln |-> theSoln, req |-> theReq, list |-> v.list, cursor |-> v.cursor,
   frame |-> theFrame, ok |-> v.ok, pc |-> thePc]

ClearTo(v, result) ==
  [soln |-> v.soln, req |-> v.req, list |-> v.list, cursor |-> NoCursor,
   frame |-> NoFrame, ok |-> result, pc |-> "clear"]

\* The requirement that is next, and what filling it does.
PendingIn(v) ==
  {r \in (DOMAIN v.list) \X Periods :
     /\ r[1] > v.cursor.idx \/ (r[1] = v.cursor.idx /\ r[2] > v.cursor.per)
     /\ FirstPer(v.req, v.list[r[1]]) <= r[2] /\ r[2] <= LastPer(v.req, v.list[r[1]])
     /\ ReqVol(v.req, v.list[r[1]], r[2]) > 0}

IsFirstIn(v, q) ==
  /\ q \in PendingIn(v)
  /\ \A r \in PendingIn(v) : q[1] < r[1] \/ (q[1] = r[1] /\ q[2] <= r[2])

NextIn(v) == CHOOSE q \in PendingIn(v) : IsFirstIn(v, q)

FilledTo(v, q, rest, theSoln, theReq) ==
  [soln |-> theSoln, req |-> theReq, list |-> v.list,
   cursor |-> [idx |-> q[1], per |-> q[2]],
   frame |-> IF rest = 0 THEN NoFrame
             ELSE [NoFrame EXCEPT !.part = v.list[q[1]], !.fillPer = q[2], !.qty = rest],
   ok |-> v.ok, pc |-> IF rest = 0 THEN "fill" ELSE "explode"]

NettedIn(v, q) ==
  LET p   == v.list[q[1]]
      qty == ReqVol(v.req, p, q[2])
      vol == NetWoSRVol(v.soln, p, q[2], qty)
  IN  FilledTo(v, q, qty - vol, Taking(v.soln, p, q[2], vol), v.req)

RolledIn(v, q) ==
  LET p     == v.list[q[1]]
      qty   == ReqVol(v.req, p, q[2])
      vol   == RollVol(v.soln, p, q[2], qty)
      per   == IF vol = 0 THEN -1 ELSE RollPeriod(v.soln, p, q[2])
      taken == Taking(v.soln, p, q[2], vol)
  IN  FilledTo(v, q, qty - vol,
               IF per < 0 THEN taken ELSE Adding(taken, p, per, vol),
               IF per < 0 THEN v.req ELSE Asking(v.req, p, per, vol))

AfterFill(v) ==
  IF PendingIn(v) = {} THEN ClearTo(v, v.ok)
  ELSE IF v.list[NextIn(v)[1]] \in UncondSR THEN RolledIn(v, NextIn(v))
  ELSE NettedIn(v, NextIn(v))

\* The execution that fills the rest of it.
ExpPerIn(v)  == ExplosionPeriod[v.frame.part][v.frame.fillPer]
ExpOf(v)     == ExpBopEntry[v.frame.part][ExpPerIn(v)]
ExecPerOf(v) == ExpExecPeriod[ExpOf(v)][ExpPerIn(v)]
ExecutedIn(v) == ExecVol(v.soln, OpnOf[ExpOf(v)], ExecPerOf(v))
DeltaIn(v)   == LotSizeDelta(OpnOf[ExpOf(v)], ExecutedIn(v), v.frame.qty)

CanExplodeIn(v) ==
  /\ Explodeable(v.frame.part, ExpPerIn(v))
  /\ ExecBoundIsSatisfied(OpnOf[ExpOf(v)], ExecutedIn(v) + DeltaIn(v))

AfterExplode(v) ==
  IF CanExplodeIn(v)
  THEN To(v, "bom", [v.frame EXCEPT !.bop = ExpOf(v), !.execPer = ExecPerOf(v),
                                    !.delta = DeltaIn(v), !.bomIdx = 1],
          Assign(v.soln, ExecLoc(OpnOf[ExpOf(v)], ExecPerOf(v)),
                 ExecutedIn(v) + DeltaIn(v)),
          v.req)
  ELSE ClearTo(v, FALSE)

\* Its entries, one after the other.
ViewOpn(v) == OpnOf[v.frame.bop]
ViewBom(v) == Bom[ViewOpn(v)][v.frame.bomIdx]

NextEntryIn(v, theSoln, theReq) ==
  To(v, "bom", [v.frame EXCEPT !.bomIdx = @ + 1, !.subIdx = 0, !.net = 0], theSoln, theReq)

AfterBom(v) ==
  IF v.frame.bomIdx \notin DOMAIN Bom[ViewOpn(v)]
  THEN To(v, "bop", [v.frame EXCEPT !.bopIdx = 1], v.soln, v.req)
  ELSE IF ~InEffect(ViewBom(v), v.frame.execPer) THEN NextEntryIn(v, v.soln, v.req)
  ELSE To(v, IF HasSubsToNet(ViewBom(v)) THEN "net" ELSE "cons",
          [v.frame EXCEPT !.net = v.frame.delta], v.soln, v.req)

ViewCons(v) ==
  IF v.frame.subIdx = 0 THEN ViewBom(v) ELSE Subs[ViewBom(v)][v.frame.subIdx]

NettedToIn(v, net, theSoln) ==
  IF net = 0 THEN NextEntryIn(v, theSoln, v.req)
  ELSE IF v.frame.subIdx = Len(Subs[ViewBom(v)])
  THEN To(v, "cons", [v.frame EXCEPT !.net = net], theSoln, v.req)
  ELSE To(v, "net", [v.frame EXCEPT !.net = net, !.subIdx = @ + 1], theSoln, v.req)

AfterNet(v) ==
  LET c   == ViewCons(v)
      u   == v.frame.execPer
      net == v.frame.net
      p   == PartOf[c]
      t   == Impact[c][u]
      vol == NetWoSRVol(v.soln, p, t, net)
  IN  IF c \in SubEntries /\ ~(c \in NetAllowed /\ InEffect(c, u))
      THEN NettedToIn(v, net, v.soln)
      ELSE IF Rate[c] = 1 THEN NettedToIn(v, net - vol, Taking(v.soln, p, t, vol))
      ELSE NettedToIn(v, 0, IF Rate[c] = 0 THEN v.soln
                            ELSE Adding(v.soln, p, t, -ConsumedQty(c, net)))

AfterCons(v) ==
  LET p   == PartOf[ViewBom(v)]
      t   == Impact[ViewBom(v)][v.frame.execPer]
      qty == ConsumedQty(ViewBom(v), v.frame.net)
  IN  NextEntryIn(v, IF qty < 0 THEN Adding(v.soln, p, t, -qty) ELSE v.soln,
                  IF qty > 0 THEN Asking(v.req, p, t, qty) ELSE v.req)

AfterBop(v) ==
  LET e    == Bop[ViewOpn(v)][v.frame.bopIdx]
      u    == v.frame.execPer
      made == IF InEffect(e, u) THEN v.frame.delta * Rate[e] ELSE 0
  IN  IF v.frame.bopIdx \in DOMAIN Bop[ViewOpn(v)]
      THEN To(v, "bop", [v.frame EXCEPT !.bopIdx = @ + 1],
              IF made > 0 THEN Adding(v.soln, PartOf[e], Impact[e][u], made) ELSE v.soln,
              v.req)
      ELSE To(v, "fill", NoFrame,
              Adding(v.soln, v.frame.part, v.frame.fillPer, -v.frame.qty), v.req)

After(v) ==
  CASE v.pc = "fill"    -> AfterFill(v)
    [] v.pc = "explode" -> AfterExplode(v)
    [] v.pc = "bom"     -> AfterBom(v)
    [] v.pc = "net"     -> AfterNet(v)
    [] v.pc = "cons"    -> AfterCons(v)
    [] v.pc = "bop"     -> AfterBop(v)

------------------------------------------------------------------------------

\* Two stores of the solution that an explosion cannot tell apart.
Agree(s, n) ==
  /\ \A p \in Parts, t \in Periods : IncAvailVol(n, p, t) = IncAvailVol(s, p, t)
  /\ \A m \in Materials : LastDecPer(n, m) = LastDecPer(s, m)
  /\ \A o \in Operations, t \in Periods : ExecVol(n, o, t) = ExecVol(s, o, t)

LEMMA LocsToRead ==
  /\ \A p \in Parts, t \in Periods : AvailLoc(p, t) \in ReadLocs
  /\ \A m \in Materials : LastDecLoc(m) \in ReadLocs
  /\ \A o \in Operations, t \in Periods : ExecLoc(o, t) \in ReadLocs
  /\ ReadLocs \subseteq SolnLocs
<1>1. /\ \A p, t, e, u : AvailLoc(p, t) # SubLoc(e, u)
      /\ \A m, e, u : LastDecLoc(m) # SubLoc(e, u)
      /\ \A o, t, e, u : ExecLoc(o, t) # SubLoc(e, u)
  BY DEF AvailLoc, LastDecLoc, ExecLoc, SubLoc
<1>2. /\ \A p \in Parts, t \in Periods : AvailLoc(p, t) \in SolnLocs
      /\ \A m \in Materials : LastDecLoc(m) \in SolnLocs
      /\ \A o \in Operations, t \in Periods : ExecLoc(o, t) \in SolnLocs
  BY DEF SolnLocs
<1>3. QED
  BY <1>1, <1>2 DEF ReadLocs

LEMMA ReadAgrees ==
  ASSUME NEW s
  PROVE  Agree(s, Read(s.mem))
BY LocsToRead DEF Agree, Read, NewStore, IncAvailVol, LastDecPer, ExecVol

\* What an explosion computes from two such stores is the same.
LEMMA AllocedAgrees ==
  ASSUME NEW s, IntMem(s.mem), NEW n, Agree(s, n), NEW m \in Materials, NEW t \in Periods
  PROVE  AllocedVol(n, m, t) = AllocedVol(s, m, t)
<1>1. PICK last : last = LastDecPer(s, m)
  OBVIOUS
<1>2. /\ last \in Int /\ last <= NPeriods - 1 /\ t \in Nat /\ NPeriods \in Nat /\ m \in Parts
      /\ LastDecPer(n, m) = last
  BY <1>1, LastDecIsPer, NumberOfPeriods DEF Parts, Agree
<1>3. ASSUME NEW u \in (t + 1)..(last + 1), u # last + 1
      PROVE  IncAvailVol(n, m, u) = IncAvailVol(s, m, u)
  <2>1. u \in Periods
    BY <1>2, <1>3, NumberOfPeriods
  <2>2. QED
    BY <1>2, <2>1 DEF Agree
<1>4. ASSUME NEW f PROVE NeededFun(n, m, t, f) = NeededFun(s, m, t, f)
  <2>1. ASSUME NEW u \in (t + 1)..(last + 1)
        PROVE  (IF u = last + 1 THEN 0 ELSE Max({0, f[u + 1] - IncAvailVol(n, m, u)}))
                 = IF u = last + 1 THEN 0 ELSE Max({0, f[u + 1] - IncAvailVol(s, m, u)})
    BY <1>3
  <2>2. [u \in (t + 1)..(last + 1) |->
           IF u = last + 1 THEN 0 ELSE Max({0, f[u + 1] - IncAvailVol(n, m, u)})]
          = [u \in (t + 1)..(last + 1) |->
               IF u = last + 1 THEN 0 ELSE Max({0, f[u + 1] - IncAvailVol(s, m, u)})]
    BY <2>1, Zenon
  <2>3. QED
    BY <1>1, <1>2, <2>2 DEF NeededFun
<1>5. (CHOOSE f : f = NeededFun(n, m, t, f)) = CHOOSE f : f = NeededFun(s, m, t, f)
  BY <1>4
<1>6. AllocedVol(s, m, t) =
        IF LastDecPer(s, m) > t
        THEN (CHOOSE f : f = NeededFun(s, m, t, f))[t + 1] ELSE 0
  BY AllocedVolDef
<1>7. AllocedVol(n, m, t) =
        IF LastDecPer(n, m) > t
        THEN (CHOOSE f : f = NeededFun(n, m, t, f))[t + 1] ELSE 0
  BY AllocedVolDef
<1>8. PICK f : f = CHOOSE h : h = NeededFun(s, m, t, h)
  OBVIOUS
<1>9. AllocedVol(s, m, t) = IF last > t THEN f[t + 1] ELSE 0
  BY <1>1, <1>6, <1>8, Zenon
<1>10. AllocedVol(n, m, t) = IF last > t THEN f[t + 1] ELSE 0
  BY <1>2, <1>5, <1>7, <1>8, Zenon
<1>11. QED
  BY <1>9, <1>10

LEMMA AvailToNetAgrees ==
  ASSUME NEW s, NEW n, Agree(s, n), NEW m \in Materials, NEW t \in Periods,
         NEW reqVol, NEW allVol
  PROVE  AvailToNet(n, m, t, reqVol, allVol) = AvailToNet(s, m, t, reqVol, allVol)
<1>1. t \in Nat /\ m \in Parts
  BY NumberOfPeriods DEF Parts
<1>2. ASSUME NEW u \in 0..(t + 1), u # t + 1
      PROVE  IncAvailVol(n, m, u) = IncAvailVol(s, m, u)
  <2>1. u \in Periods
    BY <1>1, <1>2, NumberOfPeriods
  <2>2. QED
    BY <1>1, <2>1 DEF Agree
<1>3. ASSUME NEW f PROVE SumFun(n, m, t, allVol, f) = SumFun(s, m, t, allVol, f)
  <2>1. ASSUME NEW u \in 0..(t + 1)
        PROVE  (IF u = t + 1 THEN - allVol ELSE f[u + 1] + IncAvailVol(n, m, u))
                 = IF u = t + 1 THEN - allVol ELSE f[u + 1] + IncAvailVol(s, m, u)
    BY <1>2, Zenon
  <2>2. QED
    BY <2>1, Zenon DEF SumFun
<1>4. TheSum(n, m, t, allVol) = TheSum(s, m, t, allVol)
  BY <1>3 DEF TheSum
<1>5. QED
  BY <1>4, AvailToNetDef

LEMMA NetAgrees ==
  ASSUME NEW s, IntMem(s.mem), NEW n, Agree(s, n), NEW p \in Parts, NEW t \in Periods,
         NEW reqVol
  PROVE  NetWoSRVol(n, p, t, reqVol) = NetWoSRVol(s, p, t, reqVol)
<1>1. CASE p \in Materials
  <2>1. PICK all : all = AllocedVol(s, p, t) /\ all = AllocedVol(n, p, t)
    BY <1>1, AllocedAgrees
  <2>2. PICK tot : tot = reqVol + all
    OBVIOUS
  <2>3. AvailToNet(n, p, t, tot, 0) = AvailToNet(s, p, t, tot, 0)
    BY <1>1, AvailToNetAgrees
  <2>4. NetMatWoSRVol(n, p, t, reqVol) = NetMatWoSRVol(s, p, t, reqVol)
    BY <2>1, <2>2, <2>3, Zenon DEF NetMatWoSRVol
  <2>5. QED
    BY <1>1, <2>4, Zenon DEF NetWoSRVol
<1>2. CASE p \notin Materials
  <2>1. IncAvailVol(n, p, t) = IncAvailVol(s, p, t)
    BY DEF Agree
  <2>2. QED
    BY <1>2, <2>1, Zenon DEF NetWoSRVol, NetWithIncAvailVol
<1>3. QED
  BY <1>1, <1>2

LEMMA RollAgrees ==
  ASSUME NEW s, NEW n, Agree(s, n), NEW m \in Materials, NEW t \in Periods,
         NEW reqVol
  PROVE  /\ RollVol(n, m, t, reqVol) = RollVol(s, m, t, reqVol)
         /\ RollPeriod(n, m, t) = RollPeriod(s, m, t)
<1>1. AvailToNet(n, m, t, reqVol, 0) = AvailToNet(s, m, t, reqVol, 0)
  BY AvailToNetAgrees
<1>2. RollVol(n, m, t, reqVol) = RollVol(s, m, t, reqVol)
  BY <1>1, Zenon DEF RollVol
<1>3. LastDecPer(n, m) = LastDecPer(s, m) /\ m \in Parts
  BY DEF Agree, Parts
<1>4. ASSUME NEW u \in (t + 1)..(NPeriods - 1)
      PROVE  IncAvailVol(n, m, u) = IncAvailVol(s, m, u)
  <2>1. u \in Periods
    BY NumberOfPeriods
  <2>2. QED
    BY <1>3, <2>1 DEF Agree
<1>5. {u \in (t + 1)..(NPeriods - 1) : t \in StockablePers(m, u) /\ IncAvailVol(n, m, u) < 0}
        = {u \in (t + 1)..(NPeriods - 1) : t \in StockablePers(m, u) /\ IncAvailVol(s, m, u) < 0}
  BY <1>4
<1>6. RollPeriod(n, m, t) = RollPeriod(s, m, t)
  BY <1>3, <1>5, Zenon DEF RollPeriod
<1>7. QED
  BY <1>2, <1>6

------------------------------------------------------------------------------

\* What is written of it is the same.
LEMMA PutRead ==
  ASSUME NEW s, StoreShape(s), DOMAIN s.mem = SolnLocs, NEW loc, KindOf(loc) \in Kinds,
         NEW val
  PROVE  /\ StoreShape(Put(s, loc, val, mode = "temp"))
         /\ DOMAIN Put(s, loc, val, mode = "temp").mem = SolnLocs
         /\ loc \in ReadLocs => Read(Put(s, loc, val, mode = "temp").mem)
                                  = Assign(Read(s.mem), loc, val)
         /\ loc \notin ReadLocs => Read(Put(s, loc, val, mode = "temp").mem) = Read(s.mem)
<1>1. PICK n : n = Put(s, loc, val, mode = "temp")
  OBVIOUS
<1>2. StoreShape(n) /\ n.mem = [s.mem EXCEPT ![loc] = val]
  BY <1>1, PutIs
<1>3. DOMAIN n.mem = SolnLocs
  BY <1>2
<1>4. ReadLocs \subseteq SolnLocs
  BY LocsToRead
<1>5. \A l \in ReadLocs : n.mem[l] = IF l = loc THEN val ELSE s.mem[l]
  BY <1>2, <1>4
<1>6. PICK old, new : /\ old = [l \in ReadLocs |-> s.mem[l]]
                      /\ new = [l \in ReadLocs |-> n.mem[l]]
  OBVIOUS
<1>7. loc \in ReadLocs => new = [old EXCEPT ![loc] = val]
  BY <1>5, <1>6
<1>8. loc \notin ReadLocs => new = old
  BY <1>5, <1>6
<1>9. /\ Read(s.mem) = [mem |-> old, log |-> EmptyLog]
      /\ Read(n.mem) = [mem |-> new, log |-> EmptyLog]
  BY <1>6 DEF Read, NewStore
<1>10. Assign(Read(s.mem), loc, val) = [mem |-> [old EXCEPT ![loc] = val], log |-> EmptyLog]
  BY <1>9 DEF Assign
<1>11. QED
  BY <1>1, <1>2, <1>3, <1>7, <1>8, <1>9, <1>10

LEMMA AddAvailShape ==
  ASSUME NEW s, StoreShape(s), DOMAIN s.mem = SolnLocs, NEW p, NEW t, NEW delta
  PROVE  LET n == AddAvail(s, p, t, delta)
         IN  StoreShape(n) /\ DOMAIN n.mem = SolnLocs
<1>1. PICK locA, locD : locA = AvailLoc(p, t) /\ locD = LastDecLoc(p)
  OBVIOUS
<1>2. KindOf(locA) \in Kinds /\ KindOf(locD) \in Kinds
  BY <1>1 DEF AvailLoc, LastDecLoc, KindOf, Kinds
<1>3. PICK val : val = IncAvailVol(s, p, t) + delta
  OBVIOUS
<1>4. PICK added : added = Put(s, locA, val, mode = "temp")
  OBVIOUS
<1>5. StoreShape(added) /\ DOMAIN added.mem = SolnLocs
  BY <1>2, <1>4, PutRead
<1>6. PICK moved : moved = Put(added, locD, t, mode = "temp")
  OBVIOUS
<1>7. StoreShape(moved) /\ DOMAIN moved.mem = SolnLocs
  BY <1>2, <1>5, <1>6, PutRead
<1>8. AddAvail(s, p, t, delta) = added \/ AddAvail(s, p, t, delta) = moved
  BY <1>1, <1>3, <1>4, <1>6 DEF AddAvail, AddToIncAvailVol
<1>9. QED
  BY <1>5, <1>7, <1>8

LEMMA AddingRead ==
  ASSUME NEW s, StoreShape(s), DOMAIN s.mem = SolnLocs,
         NEW p \in Parts, NEW t \in Periods, NEW delta
  PROVE  Read(AddAvail(s, p, t, delta).mem) = Adding(Read(s.mem), p, t, delta)
<1>1. PICK r : r = Read(s.mem)
  OBVIOUS
<1>2. PICK locA, locD : locA = AvailLoc(p, t) /\ locD = LastDecLoc(p)
  OBVIOUS
<1>3. /\ KindOf(locA) \in Kinds /\ KindOf(locD) \in Kinds /\ locA \in ReadLocs
      /\ p \in Materials => locD \in ReadLocs
  BY <1>2, LocsToRead DEF AvailLoc, LastDecLoc, KindOf, Kinds
<1>4. PICK val : val = IncAvailVol(s, p, t) + delta
  OBVIOUS
<1>5. PICK added, radded : /\ added = Put(s, locA, val, mode = "temp")
                           /\ radded = Put(r, locA, val, FALSE)
  OBVIOUS
<1>6. PICK moved, rmoved : /\ moved = Put(added, locD, t, mode = "temp")
                           /\ rmoved = Put(radded, locD, t, FALSE)
  OBVIOUS
<1>7. IncAvailVol(r, p, t) = IncAvailVol(s, p, t)
  BY <1>1, ReadAgrees DEF Agree
<1>8. /\ StoreShape(added) /\ DOMAIN added.mem = SolnLocs
      /\ Read(added.mem) = Assign(r, locA, val)
  BY <1>1, <1>3, <1>5, PutRead
<1>9. radded = Assign(r, locA, val)
  BY <1>5 DEF Put
<1>10. radded = Read(added.mem)
  BY <1>8, <1>9
<1>11. IncAvailVol(radded, p, t) = IncAvailVol(added, p, t)
  BY <1>10, ReadAgrees DEF Agree
<1>12. p \in Materials => LastDecPer(radded, p) = LastDecPer(added, p)
  BY <1>10, ReadAgrees DEF Agree
<1>13. p \in Materials => Read(moved.mem) = Assign(Read(added.mem), locD, t)
  BY <1>3, <1>6, <1>8, PutRead
<1>14. rmoved = Assign(radded, locD, t)
  BY <1>6 DEF Put
<1>15. AddAvail(s, p, t, delta) =
         IF p \in Materials /\ IncAvailVol(added, p, t) < 0 /\ t > LastDecPer(added, p)
         THEN moved ELSE added
  BY <1>2, <1>4, <1>5, <1>6 DEF AddAvail, AddToIncAvailVol
<1>16. Adding(r, p, t, delta) =
         IF p \in Materials /\ IncAvailVol(radded, p, t) < 0 /\ t > LastDecPer(radded, p)
         THEN rmoved ELSE radded
  BY <1>2, <1>4, <1>5, <1>6, <1>7, Zenon DEF Adding, AddToIncAvailVol
<1>17. CASE p \in Materials /\ IncAvailVol(added, p, t) < 0 /\ t > LastDecPer(added, p)
  <2>1. AddAvail(s, p, t, delta) = moved
    BY <1>15, <1>17, Zenon
  <2>2. Adding(r, p, t, delta) = rmoved
    BY <1>11, <1>12, <1>16, <1>17, Zenon
  <2>3. Read(moved.mem) = rmoved
    BY <1>10, <1>13, <1>14, <1>17
  <2>4. QED
    BY <1>1, <2>1, <2>2, <2>3
<1>18. CASE ~(p \in Materials /\ IncAvailVol(added, p, t) < 0 /\ t > LastDecPer(added, p))
  <2>1. AddAvail(s, p, t, delta) = added
    BY <1>15, <1>18, Zenon
  <2>2. Adding(r, p, t, delta) = radded
    BY <1>11, <1>12, <1>16, <1>18, Zenon
  <2>3. QED
    BY <1>1, <1>10, <2>1, <2>2
<1>19. QED
  BY <1>17, <1>18

\* Adding a requirement does not depend on what has been saved.
LEMMA AddToMem ==
  ASSUME NEW r, StoreShape(r), NEW n, StoreShape(n), n.mem = r.mem, NEW p, NEW t, NEW qty
  PROVE  AddTo(n, p, t, qty).mem = AddTo(r, p, t, qty).mem
<1> DEFINE volOf(x)   == SaveAndAssign(x, ReqLoc(p, t), ReqVol(x, p, t) + qty)
           firstOf(x) == IF t < FirstPer(volOf(x), p)
                         THEN SaveAndAssign(volOf(x), FirstPerLoc(p), t) ELSE volOf(x)
           lastOf(x)  == IF t > LastPer(firstOf(x), p)
                         THEN SaveAndAssign(firstOf(x), LastPerLoc(p), t) ELSE firstOf(x)
<1>1. AddTo(n, p, t, qty) = lastOf(n) /\ AddTo(r, p, t, qty) = lastOf(r)
  BY DEF AddTo
<1>2. volOf(n).mem = volOf(r).mem
  BY DEF SaveAndAssign, ReqVol
<1> HIDE DEF volOf
<1>3. firstOf(n).mem = firstOf(r).mem
  BY <1>2 DEF SaveAndAssign, FirstPer
<1> HIDE DEF firstOf
<1>4. lastOf(n).mem = lastOf(r).mem
  BY <1>3 DEF SaveAndAssign, LastPer
<1>5. QED
  BY <1>1, <1>4

\* A series of steps of a commit that leads from v to w.
IsRun(run, n, v, w) ==
  /\ run = [i \in 0..n |-> run[i]] /\ run[0] = v /\ run[n] = w
  /\ \A i \in 0..(n - 1) : run[i].pc # "clear" /\ run[i + 1] = After(run[i])

Leads(v, w) == \E n \in Nat : \E run : IsRun(run, n, v, w)

\* A commit that stands at v returns result.
Ends(v, result) == \E w : Leads(v, w) /\ w.pc = "clear" /\ w.ok = result

LEMMA LeadsHere == ASSUME NEW v PROVE Leads(v, v)
<1>1. PICK run : run = [i \in 0..0 |-> v]
  OBVIOUS
<1>2. IsRun(run, 0, v, v)
  BY <1>1 DEF IsRun
<1>3. QED
  BY <1>2 DEF Leads

LEMMA LeadsOn ==
  ASSUME NEW v, NEW w, Leads(v, w), w.pc # "clear"
  PROVE  Leads(v, After(w))
<1>0. PICK n \in Nat : \E run : IsRun(run, n, v, w)
  BY DEF Leads
<1>1. PICK run : IsRun(run, n, v, w)
  BY <1>0
<1>2. PICK next : next = After(w)
  OBVIOUS
<1>3. PICK m : m = n + 1
  OBVIOUS
<1>4. /\ m \in Nat /\ m - 1 = n /\ 0 \in 0..n
      /\ \A i \in 0..m : i = m \/ i \in 0..n
      /\ \A i \in 0..n : i # m /\ i \in 0..m
  BY <1>3
<1>5. PICK longer : longer = [i \in 0..m |-> IF i = m THEN next ELSE run[i]]
  OBVIOUS
<1>6. /\ longer = [i \in 0..m |-> longer[i]]
      /\ longer[m] = next /\ \A i \in 0..n : longer[i] = run[i]
  BY <1>4, <1>5
<1>7. run[0] = v /\ run[n] = w
  BY <1>1 DEF IsRun
<1>8. ASSUME NEW i \in 0..(m - 1)
      PROVE  longer[i].pc # "clear" /\ longer[i + 1] = After(longer[i])
  <2>1. CASE i = n
    <3>1. i + 1 = m /\ i \in 0..n
      BY <1>3, <2>1
    <3>2. longer[i] = w /\ longer[i + 1] = next
      BY <1>6, <1>7, <2>1, <3>1
    <3>3. QED
      BY <1>2, <3>2
  <2>2. CASE i # n
    <3>1. i \in 0..(n - 1) /\ i \in 0..n /\ i + 1 \in 0..n
      BY <1>4, <2>2
    <3>2. run[i].pc # "clear" /\ run[i + 1] = After(run[i])
      BY <1>1, <3>1 DEF IsRun
    <3>3. longer[i] = run[i] /\ longer[i + 1] = run[i + 1]
      BY <1>6, <3>1
    <3>4. QED
      BY <3>2, <3>3
  <2>3. QED
    BY <2>1, <2>2
<1>9. longer[0] = v
  BY <1>4, <1>6, <1>7
<1>10. IsRun(longer, m, v, next)
  BY <1>6, <1>8, <1>9 DEF IsRun
<1>11. QED
  BY <1>2, <1>4, <1>10 DEF Leads

\* The next view of a commit is determined: what it returns stays the same.
LEMMA EndsOn ==
  ASSUME NEW v, NEW result, Ends(v, result), v.pc # "clear"
  PROVE  Ends(After(v), result)
<1>1. PICK w : Leads(v, w) /\ w.pc = "clear" /\ w.ok = result
  BY DEF Ends
<1>0. PICK n \in Nat : \E run : IsRun(run, n, v, w)
  BY <1>1 DEF Leads
<1>2. PICK run : IsRun(run, n, v, w)
  BY <1>0
<1>3. n # 0
  BY <1>1, <1>2 DEF IsRun
<1>4. n - 1 \in Nat
  BY <1>3
<1>5. PICK next : next = After(v)
  OBVIOUS
<1>6. PICK shorter : shorter = [i \in 0..(n - 1) |-> run[i + 1]]
  OBVIOUS
<1>7. /\ shorter = [i \in 0..(n - 1) |-> shorter[i]]
      /\ \A i \in 0..(n - 1) : shorter[i] = run[i + 1]
  BY <1>6
<1>8. shorter[0] = next
  <2>1. 0 \in 0..(n - 1) /\ 0 + 1 = 1
    BY <1>4
  <2>2. run[0 + 1] = After(run[0]) /\ run[0] = v
    BY <1>2, <2>1 DEF IsRun
  <2>3. QED
    BY <1>5, <1>7, <2>1, <2>2
<1>9. shorter[n - 1] = w
  <2>1. n - 1 \in 0..(n - 1) /\ n - 1 + 1 = n
    BY <1>4
  <2>2. run[n] = w
    BY <1>2 DEF IsRun
  <2>3. QED
    BY <1>7, <2>1, <2>2
<1>10. ASSUME NEW i \in 0..(n - 1 - 1)
       PROVE  shorter[i].pc # "clear" /\ shorter[i + 1] = After(shorter[i])
  <2>1. i \in 0..(n - 1) /\ i + 1 \in 0..(n - 1)
    BY <1>4
  <2>2. run[i + 1].pc # "clear" /\ run[i + 1 + 1] = After(run[i + 1])
    BY <1>2, <2>1 DEF IsRun
  <2>3. QED
    BY <1>7, <2>1, <2>2
<1>11. IsRun(shorter, n - 1, next, w)
  BY <1>7, <1>8, <1>9, <1>10 DEF IsRun
<1>12. QED
  BY <1>1, <1>4, <1>5, <1>11 DEF Leads, Ends

LEMMA EndsHere ==
  ASSUME NEW v, NEW result, Ends(v, result), v.pc = "clear"
  PROVE  v.ok = result
<1>1. PICK w : Leads(v, w) /\ w.pc = "clear" /\ w.ok = result
  BY DEF Ends
<1>0. PICK n \in Nat : \E run : IsRun(run, n, v, w)
  BY <1>1 DEF Leads
<1>2. PICK run : IsRun(run, n, v, w)
  BY <1>0
<1>3. n = 0
  <2> SUFFICES ASSUME n # 0 PROVE FALSE
    OBVIOUS
  <2>1. 0 \in 0..(n - 1)
    OBVIOUS
  <2>2. QED
    BY <1>2, <2>1 DEF IsRun
<1>4. QED
  BY <1>1, <1>2, <1>3 DEF IsRun

------------------------------------------------------------------------------

\* What the steps of a commit do to the view.
LEMMA SolnIsRead ==
  ASSUME Allocation, pc # "restore"
  PROVE  /\ StoreShape(soln) /\ DOMAIN soln.mem = SolnLocs /\ IntMem(soln.mem)
         /\ Agree(soln, Read(soln.mem))
<1>1. StoreShape(soln) /\ IntMem(soln.mem)
  BY DEF Allocation, Sched, SoundAndFeasible, Sound
<1>2. QED
  BY <1>1, ReadAgrees DEF IntMem

LEMMA TakingRead ==
  ASSUME NEW s, StoreShape(s), DOMAIN s.mem = SolnLocs,
         NEW p \in Parts, NEW t \in Periods, NEW vol
  PROVE  Read(NettedStore(s, p, t, vol).mem) = Taking(Read(s.mem), p, t, vol)
<1>1. CASE vol = 0
  BY <1>1 DEF NettedStore, Taking
<1>2. CASE vol # 0
  <2>1. PICK delta : delta = -vol
    OBVIOUS
  <2>2. Read(AddAvail(s, p, t, delta).mem) = Adding(Read(s.mem), p, t, delta)
    BY AddingRead
  <2>3. QED
    BY <1>2, <2>1, <2>2 DEF NettedStore, Taking
<1>3. QED
  BY <1>1, <1>2

LEMMA AskingRead ==
  ASSUME Reqs, NEW p, NEW t, NEW qty
  PROVE  NewStore(AddTo(req, p, t, qty).mem) = Asking(NewStore(req.mem), p, t, qty)
<1>1. StoreShape(req)
  BY DEF Reqs
<1>2. PICK n : n = NewStore(req.mem)
  OBVIOUS
<1>3. req.mem = [loc \in DOMAIN req.mem |-> req.mem[loc]]
  BY <1>1 DEF StoreShape
<1>4. StoreShape(n) /\ n.mem = req.mem
  BY <1>2, <1>3, NewStoreIsClean
<1>5. AddTo(n, p, t, qty).mem = AddTo(req, p, t, qty).mem
  BY <1>1, <1>4, AddToMem
<1>6. QED
  BY <1>2, <1>5 DEF Asking

LEMMA PendingAre ==
  ASSUME pc = "fill"
  PROVE  PendingIn(View) = PendingReqs
<1>1. /\ View.list = TopList /\ View.cursor = cursor /\ View.req = NewStore(req.mem)
  BY DEF View
<1>2. \A p, t : /\ FirstPer(NewStore(req.mem), p) = FirstPer(req, p)
                /\ LastPer(NewStore(req.mem), p) = LastPer(req, p)
                /\ ReqVol(NewStore(req.mem), p, t) = ReqVol(req, p, t)
  BY DEF NewStore, FirstPer, LastPer, ReqVol
<1>3. QED
  BY <1>1, <1>2 DEF PendingIn, PendingReqs

\* The requirement that is filled next is determined.
LEMMA FirstReq ==
  ASSUME Allocation, NEW r \in NextReqs
  PROVE  PendingIn(View) # {} /\ r = NextIn(View)
<1>1. pc = "fill" /\ r \in PendingReqs
  BY DEF NextReqs, PendingReqs
<1>2. PICK pending : pending = PendingIn(View) /\ pending = PendingReqs
  BY <1>1, PendingAre
<1>3. pending \subseteq (DOMAIN TopList) \X Periods
  BY <1>1, <1>2 DEF PendingReqs
<1>4. TopList \in Seq(Parts)
  BY <1>1, TopListParts DEF Allocation, Locals, Trying, CommitPoints
<1>5. DOMAIN TopList \subseteq Nat /\ Periods \subseteq Nat
  BY <1>4, NumberOfPeriods
<1>6. \A q : IsFirstIn(View, q) <=> q \in NextReqs
  BY <1>2, Zenon DEF IsFirstIn, NextReqs
<1>7. ASSUME NEW q \in pending, IsFirstIn(View, q) PROVE q = r
  <2>1. \A x, y \in pending : (x \in NextReqs) =>
            x[1] < y[1] \/ (x[1] = y[1] /\ x[2] <= y[2])
    BY <1>2, Zenon DEF NextReqs
  <2>2. /\ q[1] < r[1] \/ (q[1] = r[1] /\ q[2] <= r[2])
        /\ r[1] < q[1] \/ (r[1] = q[1] /\ r[2] <= q[2])
    BY <1>1, <1>2, <1>6, <1>7, <2>1
  <2>3. /\ q[1] \in Nat /\ q[2] \in Nat /\ r[1] \in Nat /\ r[2] \in Nat
        /\ q = <<q[1], q[2]>> /\ r = <<r[1], r[2]>>
    <3>1. q \in Nat \X Nat /\ r \in Nat \X Nat
      BY <1>1, <1>2, <1>3, <1>5, <1>7
    <3>2. QED
      BY <3>1
  <2>4. q[1] = r[1] /\ q[2] = r[2]
    BY <2>2, <2>3
  <2>5. QED
    BY <2>3, <2>4
<1>8. r \in pending /\ IsFirstIn(View, r)
  BY <1>1, <1>2, <1>6
<1>9. QED
  BY <1>2, <1>7, <1>8 DEF NextIn

\* The view of the next state, from its parts.
LEMMA NextViewIs ==
  ASSUME top' = top, NEW x, x = Read(soln'.mem), NEW y, y = NewStore(req'.mem),
         NEW c, c = cursor', NEW f, f = frame', NEW o, o = ok', NEW l, l = pc'
  PROVE  View' = [soln |-> x, req |-> y, list |-> TopList, cursor |-> c, frame |-> f,
                  ok |-> o, pc |-> l]
<1>1. TopList' = TopList
  BY DEF TopList
<1>2. QED
  BY <1>1 DEF View

LEMMA ViewFields ==
  /\ View.soln = Read(soln.mem) /\ View.req = NewStore(req.mem) /\ View.list = TopList
  /\ View.cursor = cursor /\ View.frame = frame /\ View.ok = ok /\ View.pc = pc
  /\ \A p, t : ReqVol(View.req, p, t) = ReqVol(req, p, t)
BY DEF View, NewStore, ReqVol

LEMMA ToIs ==
  ASSUME top' = top, cursor' = cursor, ok' = ok,
         NEW x, x = Read(soln'.mem), NEW y, y = NewStore(req'.mem),
         NEW f, f = frame', NEW l, l = pc'
  PROVE  View' = To(View, l, f, x, y)
<1>1. PICK c, o : c = cursor /\ o = ok
  OBVIOUS
<1>2. View' = [soln |-> x, req |-> y, list |-> TopList, cursor |-> c, frame |-> f,
               ok |-> o, pc |-> l]
  BY <1>1, NextViewIs
<1>3. View.list = TopList /\ View.cursor = c /\ View.ok = o
  BY <1>1, ViewFields
<1>4. QED
  BY <1>2, <1>3, Zenon DEF To

LEMMA FilledStep ==
  ASSUME pc = "fill", NEW q, NEW rest, Netted(q[1], q[2], rest), top' = top,
         NEW x, x = Read(soln'.mem), NEW y, y = NewStore(req'.mem)
  PROVE  View' = FilledTo(View, q, rest, x, y)
<1>1. PICK c, f, l :
        /\ c = [idx |-> q[1], per |-> q[2]]
        /\ f = IF rest = 0 THEN NoFrame
               ELSE [NoFrame EXCEPT !.part = TopList[q[1]], !.fillPer = q[2], !.qty = rest]
        /\ l = IF rest = 0 THEN "fill" ELSE "explode"
  OBVIOUS
<1>2. c = cursor' /\ f = frame' /\ ok = ok' /\ l = pc'
  BY <1>1 DEF Netted
<1>3. View' = [soln |-> x, req |-> y, list |-> TopList, cursor |-> c, frame |-> f,
               ok |-> ok, pc |-> l]
  BY <1>2, NextViewIs
<1>4. View.list = TopList /\ View.ok = ok
  BY ViewFields
<1>5. FilledTo(View, q, rest, x, y) =
        [soln |-> x, req |-> y, list |-> TopList, cursor |-> c, frame |-> f,
         ok |-> ok, pc |-> l]
  BY <1>1, <1>4, Zenon DEF FilledTo
<1>6. QED
  BY <1>3, <1>5

LEMMA AfterFillIs ==
  ASSUME Allocation, NEW r \in NextReqs
  PROVE  /\ TopList[r[1]] \notin UncondSR => After(View) = NettedIn(View, r)
         /\ TopList[r[1]] \in UncondSR => After(View) = RolledIn(View, r)
<1>1. pc = "fill"
  BY DEF NextReqs, PendingReqs
<1>2. View.pc = "fill" /\ View.list = TopList
  BY <1>1 DEF View
<1>3. After(View) = AfterFill(View)
  BY <1>2 DEF After
<1>4. PendingIn(View) # {} /\ r = NextIn(View)
  BY FirstReq
<1>5. AfterFill(View) = IF View.list[r[1]] \in UncondSR THEN RolledIn(View, r)
                                                        ELSE NettedIn(View, r)
  BY <1>4, Zenon DEF AfterFill
<1>6. QED
  BY <1>2, <1>3, <1>5

LEMMA NextReqIs ==
  ASSUME Allocation, NEW r \in NextReqs
  PROVE  /\ pc = "fill" /\ r \in (DOMAIN TopList) \X Periods
         /\ r[2] \in Periods /\ TopList[r[1]] \in Parts
<1>1. /\ pc = "fill" /\ r[2] \in Periods /\ TopList[r[1]] \in Parts
  BY NextReqsAre DEF Allocation, Locals, Sched
<1>2. r \in (DOMAIN TopList) \X Periods
  BY DEF NextReqs, PendingReqs
<1>3. QED
  BY <1>1, <1>2

LEMMA NetReqStep ==
  ASSUME Allocation, NEW r \in NextReqs, NetReq(r[1], r[2])
  PROVE  View' = After(View)
<1>1. PICK p, t : p = TopList[r[1]] /\ t = r[2]
  OBVIOUS
<1>2. pc = "fill" /\ r \in (DOMAIN TopList) \X Periods /\ p \in Parts /\ t \in Periods
  BY <1>1, NextReqIs
<1>3. PICK qty : qty = ReqVol(req, p, t)
  OBVIOUS
<1>4. PICK vol : vol = NetWoSRVol(soln, p, t, qty)
  OBVIOUS
<1>5. /\ p \notin UncondSR
      /\ soln' = NettedStore(soln, p, t, vol)
      /\ Netted(r[1], r[2], qty - vol)
      /\ req' = req /\ top' = top
  BY <1>1, <1>3, <1>4 DEF NetReq, Write, NettedStore, CommitUnchanged, callVars
<1>6. StoreShape(soln) /\ DOMAIN soln.mem = SolnLocs /\ IntMem(soln.mem)
      /\ Agree(soln, Read(soln.mem))
  BY <1>2, SolnIsRead
<1>7. PICK x : x = Taking(Read(soln.mem), p, t, vol)
  OBVIOUS
<1>8. x = Read(soln'.mem)
  BY <1>2, <1>5, <1>6, <1>7, TakingRead
<1>9. PICK y : y = NewStore(req'.mem)
  OBVIOUS
<1>10. y = View.req
  BY <1>5, <1>9, ViewFields
<1>11. View' = FilledTo(View, r, qty - vol, x, y)
  BY <1>2, <1>5, <1>8, <1>9, FilledStep
<1>12. After(View) = NettedIn(View, r)
  BY <1>1, <1>5, AfterFillIs
<1>13. NetWoSRVol(View.soln, p, t, qty) = vol
  BY <1>2, <1>4, <1>6, NetAgrees, ViewFields
<1>14. View.list[r[1]] = p /\ ReqVol(View.req, p, t) = qty /\ View.soln = Read(soln.mem)
  BY <1>1, <1>3, ViewFields
<1>15. NettedIn(View, r) = FilledTo(View, r, qty - vol, Taking(View.soln, p, t, vol), View.req)
  BY <1>1, <1>13, <1>14, Zenon DEF NettedIn
<1>16. Taking(View.soln, p, t, vol) = x
  BY <1>7, <1>14
<1>17. QED
  BY <1>10, <1>11, <1>12, <1>15, <1>16

LEMMA NettedShape ==
  ASSUME NEW s, StoreShape(s), DOMAIN s.mem = SolnLocs, NEW p, NEW t, NEW vol
  PROVE  /\ StoreShape(NettedStore(s, p, t, vol))
         /\ DOMAIN NettedStore(s, p, t, vol).mem = SolnLocs
<1>1. PICK delta : delta = -vol
  OBVIOUS
<1>2. PICK n : n = NettedStore(s, p, t, vol)
  OBVIOUS
<1>3. CASE vol = 0
  BY <1>3 DEF NettedStore
<1>4. CASE vol # 0
  <2>1. n = AddAvail(s, p, t, delta)
    BY <1>1, <1>2, <1>4 DEF NettedStore
  <2>2. QED
    BY <1>2, <2>1, AddAvailShape
<1>5. QED
  BY <1>3, <1>4

LEMMA NetAndRollStep ==
  ASSUME Allocation, NEW r \in NextReqs, NEW rollPer \in Periods \cup {-1},
         NetAndRollReq(r[1], r[2], rollPer)
  PROVE  View' = After(View)
<1>1. PICK p, t : p = TopList[r[1]] /\ t = r[2]
  OBVIOUS
<1>2. pc = "fill" /\ r \in (DOMAIN TopList) \X Periods /\ p \in Parts /\ t \in Periods
  BY <1>1, NextReqIs
<1>3. PICK qty : qty = ReqVol(req, p, t)
  OBVIOUS
<1>4. PICK vol : vol = RollVol(soln, p, t, qty)
  OBVIOUS
<1>5. PICK taken : taken = NettedStore(soln, p, t, vol)
  OBVIOUS
<1>6. /\ p \in UncondSR
      /\ rollPer = IF vol = 0 THEN -1 ELSE RollPeriod(soln, p, t)
      /\ Netted(r[1], r[2], qty - vol)
      /\ req' = IF rollPer < 0 THEN req ELSE AddTo(req, p, rollPer, vol)
      /\ top' = top
      /\ soln' = IF vol = 0 THEN soln
                 ELSE IF rollPer < 0 THEN AddAvail(soln, p, t, -vol)
                 ELSE AddAvail(AddAvail(soln, p, t, -vol), p, rollPer, vol)
  BY <1>1, <1>3, <1>4 DEF NetAndRollReq, Write, CommitUnchanged, callVars
<1>7. StoreShape(soln) /\ DOMAIN soln.mem = SolnLocs /\ IntMem(soln.mem)
      /\ Agree(soln, Read(soln.mem))
  BY <1>2, SolnIsRead
<1>8. p \in Materials
  BY <1>6, UncondSRAssumption
<1>9. PICK rtaken : rtaken = Taking(Read(soln.mem), p, t, vol) /\ rtaken = Read(taken.mem)
  BY <1>2, <1>5, <1>7, TakingRead
<1>10. StoreShape(taken) /\ DOMAIN taken.mem = SolnLocs
  BY <1>5, <1>7, NettedShape
<1>11. PICK x : x = Read(soln'.mem)
  OBVIOUS
<1>12. x = IF rollPer < 0 THEN rtaken ELSE Adding(rtaken, p, rollPer, vol)
  <2>1. CASE rollPer < 0
    <3>1. soln' = taken
      BY <1>5, <1>6, <2>1 DEF NettedStore
    <3>2. QED
      BY <1>9, <1>11, <2>1, <3>1
  <2>2. CASE ~(rollPer < 0)
    <3>1. rollPer \in Periods /\ vol # 0
      BY <1>6, <2>2
    <3>2. soln' = AddAvail(taken, p, rollPer, vol)
      BY <1>5, <1>6, <2>2, <3>1 DEF NettedStore
    <3>3. Read(soln'.mem) = Adding(Read(taken.mem), p, rollPer, vol)
      BY <1>2, <1>10, <3>1, <3>2, AddingRead
    <3>4. QED
      BY <1>9, <1>11, <2>2, <3>3
  <2>3. QED
    BY <2>1, <2>2
<1>13. PICK y : y = NewStore(req'.mem)
  OBVIOUS
<1>14. y = IF rollPer < 0 THEN View.req ELSE Asking(View.req, p, rollPer, vol)
  <2>1. CASE rollPer < 0
    BY <1>6, <1>13, <2>1, ViewFields
  <2>2. CASE ~(rollPer < 0)
    <3>1. req' = AddTo(req, p, rollPer, vol)
      BY <1>6, <2>2
    <3>2. NewStore(AddTo(req, p, rollPer, vol).mem) = Asking(NewStore(req.mem), p, rollPer, vol)
      BY AskingRead DEF Allocation
    <3>3. QED
      BY <1>13, <2>2, <3>1, <3>2, ViewFields
  <2>3. QED
    BY <2>1, <2>2
<1>15. View' = FilledTo(View, r, qty - vol, x, y)
  BY <1>2, <1>6, <1>11, <1>13, FilledStep
<1>16. After(View) = RolledIn(View, r)
  BY <1>1, <1>6, AfterFillIs
<1>17. RollVol(View.soln, p, t, qty) = vol /\ RollPeriod(View.soln, p, t) = RollPeriod(soln, p, t)
  BY <1>2, <1>4, <1>7, <1>8, RollAgrees, ViewFields
<1>18. View.list[r[1]] = p /\ ReqVol(View.req, p, t) = qty /\ View.soln = Read(soln.mem)
  BY <1>1, <1>3, ViewFields
<1>19. PICK rvol : rvol = RollVol(View.soln, p, t, qty)
  OBVIOUS
<1>20. PICK per : per = IF rvol = 0 THEN -1 ELSE RollPeriod(View.soln, p, t)
  OBVIOUS
<1>21. rvol = vol /\ per = rollPer
  BY <1>6, <1>17, <1>19, <1>20
<1>22. RolledIn(View, r) =
         FilledTo(View, r, qty - rvol,
                  IF per < 0 THEN Taking(View.soln, p, t, rvol)
                  ELSE Adding(Taking(View.soln, p, t, rvol), p, per, rvol),
                  IF per < 0 THEN View.req ELSE Asking(View.req, p, per, rvol))
  BY <1>1, <1>18, <1>19, <1>20, Zenon DEF RolledIn
<1>23. (IF per < 0 THEN Taking(View.soln, p, t, rvol)
        ELSE Adding(Taking(View.soln, p, t, rvol), p, per, rvol)) = x
  BY <1>9, <1>12, <1>18, <1>21
<1>24. (IF per < 0 THEN View.req ELSE Asking(View.req, p, per, rvol)) = y
  BY <1>14, <1>21
<1>25. RolledIn(View, r) = FilledTo(View, r, qty - vol, x, y)
  BY <1>21, <1>22, <1>23, <1>24, Zenon
<1>26. QED
  BY <1>15, <1>16, <1>25

\* The view of the next state when the commit has come to its end.
LEMMA ClearToIs ==
  ASSUME top' = top, soln' = soln, req' = req, cursor' = NoCursor, frame' = NoFrame,
         pc' = "clear"
  PROVE  View' = ClearTo(View, ok')
<1>1. PICK x, y : x = Read(soln.mem) /\ y = NewStore(req.mem)
  OBVIOUS
<1>2. x = Read(soln'.mem) /\ y = NewStore(req'.mem)
  BY <1>1
<1>3. PICK c, f, o : c = cursor' /\ f = frame' /\ o = ok'
  OBVIOUS
<1>4. View' = [soln |-> x, req |-> y, list |-> TopList, cursor |-> c, frame |-> f,
               ok |-> o, pc |-> "clear"]
  BY <1>2, <1>3, NextViewIs
<1>5. View.soln = x /\ View.req = y /\ View.list = TopList
  BY <1>1, ViewFields
<1>6. c = NoCursor /\ f = NoFrame
  BY <1>3
<1>7. QED
  BY <1>3, <1>4, <1>5, <1>6, Zenon DEF ClearTo

LEMMA AllFilledStep ==
  ASSUME AllFilled, frame = NoFrame
  PROVE  View' = After(View)
<1>1. /\ pc = "fill" /\ PendingReqs = {} /\ cursor' = NoCursor /\ pc' = "clear"
      /\ soln' = soln /\ req' = req /\ frame' = frame /\ ok' = ok /\ top' = top
  BY DEF AllFilled, CommitUnchanged, callVars
<1>2. PendingIn(View) = {} /\ View.pc = "fill" /\ View.ok = ok
  BY <1>1, PendingAre, ViewFields
<1>3. After(View) = ClearTo(View, View.ok)
  BY <1>2 DEF After, AfterFill
<1>4. View' = ClearTo(View, ok')
  BY <1>1, ClearToIs
<1>5. QED
  BY <1>1, <1>2, <1>3, <1>4

------------------------------------------------------------------------------

LEMMA ExplosionOf ==
  ASSUME Allocation, pc = "explode"
  PROVE  /\ ExpPerIn(View) = FrameExpPer
         /\ ExpOf(View) = ExpBopEntry[frame.part][FrameExpPer]
         /\ ExecPerOf(View) = ExpExecPeriod[ExpOf(View)][FrameExpPer]
         /\ CanExplodeIn(View) <=> ExpIsPossible
         /\ ExpIsPossible =>
              /\ OpnOf[ExpOf(View)] \in Operations /\ ExecPerOf(View) \in Periods
              /\ ExecutedIn(View) = ExecVol(soln, OpnOf[ExpOf(View)], ExecPerOf(View))
              /\ DeltaIn(View) = FrameDelta(OpnOf[ExpOf(View)], ExecPerOf(View))
<1>1. View.frame = frame /\ View.soln = Read(soln.mem)
  BY ViewFields
<1>2. ExpPerIn(View) = FrameExpPer
  BY <1>1 DEF ExpPerIn, FrameExpPer
<1>3. PICK e : e = ExpOf(View) /\ e = ExpBopEntry[frame.part][FrameExpPer]
  BY <1>1, <1>2 DEF ExpOf
<1>4. PICK u : u = ExecPerOf(View) /\ u = ExpExecPeriod[e][FrameExpPer]
  BY <1>2, <1>3 DEF ExecPerOf
<1>5. ASSUME Explodeable(frame.part, FrameExpPer)
      PROVE  /\ OpnOf[e] \in Operations /\ u \in Periods
             /\ ExecutedIn(View) = ExecVol(soln, OpnOf[e], u)
             /\ DeltaIn(View) = FrameDelta(OpnOf[e], u)
  <2>1. frame.part \in Parts /\ FrameExpPer \in Periods
    BY FrameMeans DEF Allocation, Locals, Exploding
  <2>2. e \in ToSet(Producing[frame.part]) /\ e \in BopEntries
        /\ ExpExecPeriod[e][FrameExpPer] >= 0
    BY <1>3, <1>5, <2>1, EntryToExplode
  <2>3. u \in Periods
    BY <1>4, <2>1, <2>2, ExecPeriodIs
  <2>4. OpnOf[e] \in Operations
    BY <2>2, BillsAssumption DEF Entries
  <2>5. Agree(soln, Read(soln.mem))
    BY SolnIsRead
  <2>6. ExecVol(Read(soln.mem), OpnOf[e], u) = ExecVol(soln, OpnOf[e], u)
    BY <2>3, <2>4, <2>5 DEF Agree
  <2>7. ExecutedIn(View) = ExecVol(soln, OpnOf[e], u)
    BY <1>1, <1>3, <1>4, <2>6 DEF ExecutedIn
  <2>8. DeltaIn(View) = FrameDelta(OpnOf[e], u)
    BY <1>1, <1>3, <2>7 DEF DeltaIn, FrameDelta
  <2>9. QED
    BY <2>3, <2>4, <2>7, <2>8
<1>6. ExpIsPossible <=> /\ Explodeable(frame.part, FrameExpPer)
                        /\ ExecBoundIsSatisfied(OpnOf[e], ExecVol(soln, OpnOf[e], u)
                                                            + FrameDelta(OpnOf[e], u))
  BY <1>3, <1>4 DEF ExpIsPossible
<1>7. CanExplodeIn(View) <=> /\ Explodeable(frame.part, FrameExpPer)
                             /\ ExecBoundIsSatisfied(OpnOf[e], ExecutedIn(View) + DeltaIn(View))
  BY <1>1, <1>2, <1>3 DEF CanExplodeIn
<1>8. CanExplodeIn(View) <=> ExpIsPossible
  <2>1. CASE Explodeable(frame.part, FrameExpPer)
    <3>1. /\ ExecutedIn(View) = ExecVol(soln, OpnOf[e], u)
          /\ DeltaIn(View) = FrameDelta(OpnOf[e], u)
      BY <1>5, <2>1
    <3>2. QED
      BY <1>6, <1>7, <2>1, <3>1
  <2>2. CASE ~Explodeable(frame.part, FrameExpPer)
    BY <1>6, <1>7, <2>2
  <2>3. QED
    BY <2>1, <2>2
<1>9. QED
  BY <1>2, <1>3, <1>4, <1>5, <1>6, <1>8

LEMMA CannotExplodeStep ==
  ASSUME Allocation, CannotExplode
  PROVE  View' = After(View)
<1>1. /\ pc = "explode" /\ ~ExpIsPossible /\ cursor' = NoCursor /\ frame' = NoFrame
      /\ pc' = "clear" /\ soln' = soln /\ req' = req /\ ok' = FALSE /\ top' = top
  BY DEF CannotExplode, CommitUnchanged, callVars
<1>2. ~CanExplodeIn(View) /\ View.pc = "explode"
  BY <1>1, ExplosionOf, ViewFields
<1>3. After(View) = ClearTo(View, FALSE)
  BY <1>2 DEF After, AfterExplode
<1>4. View' = ClearTo(View, ok')
  BY <1>1, ClearToIs
<1>5. QED
  BY <1>1, <1>3, <1>4

LEMMA ExplodeBopEntStep ==
  ASSUME Allocation, NEW e, NEW u, ExplodeBopEnt(e, u)
  PROVE  View' = After(View)
<1>1. PICK o : o = OpnOf[e]
  OBVIOUS
<1>2. PICK delta : delta = FrameDelta(o, u)
  OBVIOUS
<1>3. PICK loc, val : loc = ExecLoc(o, u) /\ val = soln.mem[loc] + delta
  BY SMTT(30)
<1>4. /\ pc = "explode" /\ ExpIsPossible
      /\ e = ExpBopEntry[frame.part][FrameExpPer]
      /\ u = ExpExecPeriod[e][FrameExpPer]
      /\ soln' = Put(soln, loc, val, mode = "temp")
      /\ frame' = [frame EXCEPT !.bop = e, !.execPer = u, !.delta = delta, !.bomIdx = 1]
      /\ pc' = "bom" /\ req' = req /\ cursor' = cursor /\ ok' = ok /\ top' = top
  BY <1>1, <1>2, <1>3 DEF ExplodeBopEnt, Write, CommitUnchanged, callVars
<1>5. /\ CanExplodeIn(View) /\ View.pc = "explode" /\ ExpOf(View) = e /\ ExecPerOf(View) = u
      /\ o \in Operations /\ u \in Periods /\ ExecutedIn(View) = ExecVol(soln, o, u)
      /\ DeltaIn(View) = delta
  BY <1>1, <1>2, <1>4, ExplosionOf, ViewFields
<1>6. StoreShape(soln) /\ DOMAIN soln.mem = SolnLocs
  BY <1>4, SolnIsRead
<1>7. loc \in ReadLocs /\ KindOf(loc) \in Kinds
  BY <1>3, <1>5, LocsToRead DEF ExecLoc, KindOf, Kinds
<1>8. Read(soln'.mem) = Assign(Read(soln.mem), loc, val)
  BY <1>4, <1>6, <1>7, PutRead
<1>9. val = ExecutedIn(View) + DeltaIn(View)
  BY <1>3, <1>5 DEF ExecVol
<1>10. PICK x, y, f, l : x = Read(soln'.mem) /\ y = NewStore(req'.mem) /\ f = frame' /\ l = pc'
  OBVIOUS
<1>11. After(View) =
         To(View, "bom", [View.frame EXCEPT !.bop = ExpOf(View), !.execPer = ExecPerOf(View),
                                            !.delta = DeltaIn(View), !.bomIdx = 1],
            Assign(View.soln, ExecLoc(OpnOf[ExpOf(View)], ExecPerOf(View)),
                   ExecutedIn(View) + DeltaIn(View)),
            View.req)
  BY <1>5 DEF After, AfterExplode
<1>12. Assign(View.soln, ExecLoc(OpnOf[ExpOf(View)], ExecPerOf(View)),
              ExecutedIn(View) + DeltaIn(View)) = x
  BY <1>1, <1>3, <1>5, <1>8, <1>9, <1>10, ViewFields
<1>13. [View.frame EXCEPT !.bop = ExpOf(View), !.execPer = ExecPerOf(View),
                          !.delta = DeltaIn(View), !.bomIdx = 1] = f
  BY <1>4, <1>5, <1>10, ViewFields
<1>14. View.req = y /\ l = "bom"
  BY <1>4, <1>10, ViewFields
<1>15. View' = To(View, l, f, x, y)
  BY <1>4, <1>10, ToIs
<1>16. QED
  BY <1>11, <1>12, <1>13, <1>14, <1>15

LEMMA EntryOfView ==
  /\ View.frame = frame /\ ViewOpn(View) = FrameOpn /\ ViewBom(View) = FrameBom
  /\ ViewCons(View) = FrameCons /\ View.soln = Read(soln.mem) /\ View.req = NewStore(req.mem)
  /\ View.pc = pc
<1>1. View.frame = frame
  BY ViewFields
<1>2. ViewOpn(View) = FrameOpn /\ ViewBom(View) = FrameBom
  BY <1>1 DEF ViewOpn, ViewBom, FrameOpn, FrameBom
<1>3. ViewCons(View) = FrameCons
  BY <1>1, <1>2 DEF ViewCons, FrameCons
<1>4. QED
  BY <1>1, <1>2, <1>3, ViewFields

LEMMA NextEntryIs ==
  ASSUME top' = top, cursor' = cursor, ok' = ok,
         NEW x, x = Read(soln'.mem), NEW y, y = NewStore(req'.mem),
         frame' = NextBomEntry, pc' = "bom"
  PROVE  View' = NextEntryIn(View, x, y)
<1>1. PICK f, l : f = frame' /\ l = pc'
  OBVIOUS
<1>2. View' = To(View, l, f, x, y)
  BY <1>1, ToIs
<1>3. [View.frame EXCEPT !.bomIdx = @ + 1, !.subIdx = 0, !.net = 0] = f
  BY <1>1, EntryOfView DEF NextBomEntry
<1>4. l = "bom"
  BY <1>1
<1>5. QED
  BY <1>2, <1>3, <1>4 DEF NextEntryIn

LEMMA NettedToIs ==
  ASSUME top' = top, cursor' = cursor, ok' = ok, req' = req,
         NEW x, x = Read(soln'.mem), NEW net, NettedTo(net)
  PROVE  View' = NettedToIn(View, net, x)
<1>1. PICK y : y = NewStore(req'.mem)
  OBVIOUS
<1>2. y = View.req
  BY <1>1, EntryOfView
<1>3. PICK f, l : f = frame' /\ l = pc'
  OBVIOUS
<1>4. View' = To(View, l, f, x, y)
  BY <1>1, <1>3, ToIs
<1>5. View.frame.subIdx = frame.subIdx /\ Len(Subs[ViewBom(View)]) = Len(Subs[FrameBom])
  BY EntryOfView
<1>6. CASE net = 0
  <2>1. frame' = NextBomEntry /\ pc' = "bom"
    BY <1>6 DEF NettedTo
  <2>2. View' = NextEntryIn(View, x, y)
    BY <1>1, <2>1, NextEntryIs
  <2>3. QED
    BY <1>2, <1>6, <2>2 DEF NettedToIn
<1>7. CASE net # 0 /\ frame.subIdx = Len(Subs[FrameBom])
  <2>1. f = [frame EXCEPT !.net = net] /\ l = "cons"
    BY <1>3, <1>7 DEF NettedTo
  <2>2. [View.frame EXCEPT !.net = net] = f
    BY <2>1, EntryOfView
  <2>3. NettedToIn(View, net, x) = To(View, "cons", [View.frame EXCEPT !.net = net], x, View.req)
    BY <1>5, <1>7, Zenon DEF NettedToIn
  <2>4. QED
    BY <1>2, <1>4, <2>1, <2>2, <2>3
<1>8. CASE net # 0 /\ frame.subIdx # Len(Subs[FrameBom])
  <2>1. f = [frame EXCEPT !.net = net, !.subIdx = @ + 1] /\ l = "net"
    BY <1>3, <1>8 DEF NettedTo
  <2>2. [View.frame EXCEPT !.net = net, !.subIdx = @ + 1] = f
    BY <2>1, EntryOfView
  <2>3. NettedToIn(View, net, x) =
          To(View, "net", [View.frame EXCEPT !.net = net, !.subIdx = @ + 1], x, View.req)
    BY <1>5, <1>8, Zenon DEF NettedToIn
  <2>4. QED
    BY <1>2, <1>4, <2>1, <2>2, <2>3
<1>9. QED
  BY <1>6, <1>7, <1>8

LEMMA SubRead ==
  ASSUME NEW s, StoreShape(s), DOMAIN s.mem = SolnLocs, NEW c \in SubEntries,
         NEW u \in Periods, NEW val
  PROVE  Read(Put(s, SubLoc(c, u), val, mode = "temp").mem) = Read(s.mem)
<1>1. PICK loc : loc = SubLoc(c, u)
  OBVIOUS
<1>2. KindOf(loc) \in Kinds /\ loc \notin ReadLocs
  BY <1>1 DEF SubLoc, KindOf, Kinds, ReadLocs
<1>3. QED
  BY <1>1, <1>2, PutRead

------------------------------------------------------------------------------

LEMMA BomEntryStep ==
  ASSUME BomEntryNotInEffect \/ ExplodeBomEntry \/ BomEntriesExploded
  PROVE  View' = After(View)
<1>1. /\ pc = "bom" /\ soln' = soln /\ req' = req /\ cursor' = cursor /\ ok' = ok /\ top' = top
  BY DEF BomEntryNotInEffect, ExplodeBomEntry, BomEntriesExploded, CommitUnchanged, callVars
<1>2. PICK x, y : x = Read(soln'.mem) /\ y = NewStore(req'.mem)
  OBVIOUS
<1>3. x = View.soln /\ y = View.req
  BY <1>1, <1>2, EntryOfView
<1>4. PICK f, l : f = frame' /\ l = pc'
  OBVIOUS
<1>5. View' = To(View, l, f, x, y)
  BY <1>1, <1>2, <1>4, ToIs
<1>6. /\ After(View) = AfterBom(View)
      /\ (View.frame.bomIdx \in DOMAIN Bom[ViewOpn(View)])
           <=> frame.bomIdx \in DOMAIN Bom[FrameOpn]
      /\ InEffect(ViewBom(View), View.frame.execPer) <=> InEffect(FrameBom, frame.execPer)
      /\ HasSubsToNet(ViewBom(View)) <=> HasSubsToNet(FrameBom)
  BY <1>1, EntryOfView DEF After
<1>7. CASE BomEntryNotInEffect
  <2>1. /\ frame.bomIdx \in DOMAIN Bom[FrameOpn] /\ ~InEffect(FrameBom, frame.execPer)
        /\ frame' = NextBomEntry /\ pc' = "bom"
    BY <1>7 DEF BomEntryNotInEffect
  <2>2. View' = NextEntryIn(View, x, y)
    BY <1>1, <1>2, <2>1, NextEntryIs
  <2>3. AfterBom(View) = NextEntryIn(View, View.soln, View.req)
    BY <1>6, <2>1, Zenon DEF AfterBom
  <2>4. QED
    BY <1>3, <1>6, <2>2, <2>3
<1>8. CASE ExplodeBomEntry
  <2>1. /\ frame.bomIdx \in DOMAIN Bom[FrameOpn] /\ InEffect(FrameBom, frame.execPer)
        /\ f = [frame EXCEPT !.net = frame.delta]
        /\ l = IF HasSubsToNet(FrameBom) THEN "net" ELSE "cons"
    BY <1>4, <1>8 DEF ExplodeBomEntry
  <2>2. [View.frame EXCEPT !.net = View.frame.delta] = f
    BY <2>1, EntryOfView
  <2>3. AfterBom(View) =
          To(View, IF HasSubsToNet(ViewBom(View)) THEN "net" ELSE "cons",
             [View.frame EXCEPT !.net = View.frame.delta], View.soln, View.req)
    BY <1>6, <2>1, Zenon DEF AfterBom
  <2>4. (IF HasSubsToNet(ViewBom(View)) THEN "net" ELSE "cons") = l
    BY <1>6, <2>1
  <2>5. QED
    BY <1>3, <1>5, <1>6, <2>2, <2>3, <2>4
<1>9. CASE BomEntriesExploded
  <2>1. /\ frame.bomIdx \notin DOMAIN Bom[FrameOpn]
        /\ f = [frame EXCEPT !.bopIdx = 1] /\ l = "bop"
    BY <1>4, <1>9 DEF BomEntriesExploded
  <2>2. [View.frame EXCEPT !.bopIdx = 1] = f
    BY <2>1, EntryOfView
  <2>3. AfterBom(View) = To(View, "bop", [View.frame EXCEPT !.bopIdx = 1], View.soln, View.req)
    BY <1>6, <2>1, Zenon DEF AfterBom
  <2>4. QED
    BY <1>3, <1>5, <1>6, <2>1, <2>2, <2>3
<1>10. QED
  BY <1>7, <1>8, <1>9

\* What an entry that is netted does to the view.
LEMMA AfterNetIs ==
  ASSUME pc = "net"
  PROVE  LET c == FrameCons
             p == PartOf[c]
             t == Impact[c][frame.execPer]
             vol == NetWoSRVol(View.soln, p, t, frame.net)
         IN  /\ ~NetIsAllowed(c) => After(View) = NettedToIn(View, frame.net, View.soln)
             /\ NetIsAllowed(c) /\ Rate[c] = 1 =>
                  After(View) = NettedToIn(View, frame.net - vol, Taking(View.soln, p, t, vol))
             /\ NetIsAllowed(c) /\ Rate[c] # 1 =>
                  After(View) = NettedToIn(View, 0, IF Rate[c] = 0 THEN View.soln
                                  ELSE Adding(View.soln, p, t, -ConsumedQty(c, frame.net)))
<1>1. PICK c, u, net : c = FrameCons /\ u = frame.execPer /\ net = frame.net
  OBVIOUS
<1>2. PICK p, t : p = PartOf[c] /\ t = Impact[c][u]
  OBVIOUS
<1>3. PICK vol : vol = NetWoSRVol(View.soln, p, t, net)
  OBVIOUS
<1>4. ViewCons(View) = c /\ View.frame.execPer = u /\ View.frame.net = net /\ View.pc = "net"
  BY <1>1, EntryOfView
<1>5. After(View) = AfterNet(View)
  BY <1>4 DEF After
<1>6. AfterNet(View) =
        IF c \in SubEntries /\ ~(c \in NetAllowed /\ InEffect(c, u))
        THEN NettedToIn(View, net, View.soln)
        ELSE IF Rate[c] = 1 THEN NettedToIn(View, net - vol, Taking(View.soln, p, t, vol))
        ELSE NettedToIn(View, 0, IF Rate[c] = 0 THEN View.soln
                                 ELSE Adding(View.soln, p, t, -ConsumedQty(c, net)))
  BY <1>2, <1>3, <1>4, Zenon DEF AfterNet
<1>7. NetIsAllowed(c) <=> ~(c \in SubEntries /\ ~(c \in NetAllowed /\ InEffect(c, u)))
  BY <1>1 DEF NetIsAllowed
<1>8. QED
  BY <1>1, <1>2, <1>3, <1>5, <1>6, <1>7, Zenon

LEMMA SkipSubStep ==
  ASSUME SkipSubEntry
  PROVE  View' = After(View)
<1>1. /\ pc = "net" /\ ~NetIsAllowed(FrameCons) /\ NettedTo(frame.net)
      /\ soln' = soln /\ req' = req /\ cursor' = cursor /\ ok' = ok /\ top' = top
  BY DEF SkipSubEntry, CommitUnchanged, callVars
<1>2. PICK x, net : x = Read(soln'.mem) /\ net = frame.net
  OBVIOUS
<1>3. View' = NettedToIn(View, net, x)
  BY <1>1, <1>2, NettedToIs
<1>4. x = View.soln
  BY <1>1, <1>2, EntryOfView
<1>5. QED
  BY <1>1, <1>2, <1>3, <1>4, AfterNetIs

LEMMA NetConsStep ==
  ASSUME Allocation, NetConsEntry
  PROVE  View' = After(View)
<1>1. PICK c : c = FrameCons
  OBVIOUS
<1>2. PICK p, t, net : p = PartOf[c] /\ t = Impact[c][frame.execPer] /\ net = frame.net
  OBVIOUS
<1>3. PICK vol : vol = NetWoSRVol(soln, p, t, net)
  OBVIOUS
<1>4. PICK u : u = frame.execPer
  OBVIOUS
<1>5. PICK n : n = NettedStore(soln, p, t, vol)
  OBVIOUS
<1>6. PICK s : s = IF c \in SubEntries /\ mode = "perm" /\ vol > 0
                   THEN Put(n, SubLoc(c, u), n.mem[SubLoc(c, u)] + vol, mode = "temp")
                   ELSE n
  OBVIOUS
<1>7. /\ pc = "net" /\ NetIsAllowed(c) /\ Rate[c] = 1 /\ soln' = s /\ NettedTo(net - vol)
      /\ req' = req /\ cursor' = cursor /\ ok' = ok /\ top' = top
  BY <1>1, <1>2, <1>3, <1>4, <1>5, <1>6
     DEF NetConsEntry, Write, NettedStore, CommitUnchanged, callVars
<1>8. p \in Parts /\ t \in Periods /\ u \in Periods
  BY <1>1, <1>2, <1>4, <1>7, ConsMeans DEF Allocation, Locals
<1>9. /\ StoreShape(soln) /\ DOMAIN soln.mem = SolnLocs /\ IntMem(soln.mem)
      /\ Agree(soln, Read(soln.mem))
  BY <1>7, SolnIsRead
<1>10. Read(n.mem) = Taking(Read(soln.mem), p, t, vol)
  BY <1>5, <1>8, <1>9, TakingRead
<1>11. StoreShape(n) /\ DOMAIN n.mem = SolnLocs
  BY <1>5, <1>8, <1>9, NettedShape
<1>12. Read(s.mem) = Read(n.mem)
  <2>1. PICK val : val = n.mem[SubLoc(c, u)] + vol
    OBVIOUS
  <2>2. c \in SubEntries => Read(Put(n, SubLoc(c, u), val, mode = "temp").mem) = Read(n.mem)
    BY <1>8, <1>11, SubRead
  <2>3. QED
    BY <1>6, <2>1, <2>2
<1>13. PICK x, rest : x = Read(soln'.mem) /\ rest = net - vol
  OBVIOUS
<1>14. View' = NettedToIn(View, rest, x)
  BY <1>7, <1>13, NettedToIs
<1>15. View.soln = Read(soln.mem)
  BY EntryOfView
<1>16. NetWoSRVol(View.soln, p, t, net) = vol
  BY <1>3, <1>8, <1>9, <1>15, NetAgrees
<1>17. After(View) = NettedToIn(View, net - vol, Taking(View.soln, p, t, vol))
  BY <1>1, <1>2, <1>7, <1>16, AfterNetIs
<1>18. x = Taking(View.soln, p, t, vol)
  BY <1>7, <1>10, <1>12, <1>13, <1>15
<1>19. QED
  BY <1>13, <1>14, <1>17, <1>18

LEMMA ByProductStep ==
  ASSUME Allocation, NetByProductEntry
  PROVE  View' = After(View)
<1>1. PICK c : c = FrameCons
  OBVIOUS
<1>2. PICK p, t, net : p = PartOf[c] /\ t = Impact[c][frame.execPer] /\ net = frame.net
  OBVIOUS
<1>3. PICK vol : vol = -ConsumedQty(c, net)
  OBVIOUS
<1>4. PICK u : u = frame.execPer
  OBVIOUS
<1>5. PICK n : n = IF Rate[c] = 0 THEN soln ELSE AddAvail(soln, p, t, vol)
  OBVIOUS
<1>6. PICK s : s = IF c \in SubEntries /\ mode = "perm"
                   THEN Put(n, SubLoc(c, u), n.mem[SubLoc(c, u)] + net, mode = "temp")
                   ELSE n
  OBVIOUS
<1>7. /\ pc = "net" /\ NetIsAllowed(c) /\ Rate[c] <= 0 /\ soln' = s /\ NettedTo(0)
      /\ req' = req /\ cursor' = cursor /\ ok' = ok /\ top' = top
  BY <1>1, <1>2, <1>3, <1>4, <1>5, <1>6
     DEF NetByProductEntry, Write, CommitUnchanged, callVars
<1>8. p \in Parts /\ t \in Periods /\ u \in Periods /\ Rate[c] \in Int
  BY <1>1, <1>2, <1>4, <1>7, ConsMeans DEF Allocation, Locals
<1>9. StoreShape(soln) /\ DOMAIN soln.mem = SolnLocs
  BY <1>7, SolnIsRead
<1>10. View.soln = Read(soln.mem)
  BY EntryOfView
<1>11. /\ StoreShape(n) /\ DOMAIN n.mem = SolnLocs
       /\ Read(n.mem) = IF Rate[c] = 0 THEN View.soln ELSE Adding(View.soln, p, t, vol)
  <2>1. Read(AddAvail(soln, p, t, vol).mem) = Adding(View.soln, p, t, vol)
    BY <1>8, <1>9, <1>10, AddingRead
  <2>2. PICK added : added = AddAvail(soln, p, t, vol)
    OBVIOUS
  <2>3. StoreShape(added) /\ DOMAIN added.mem = SolnLocs
    BY <1>9, <2>2, AddAvailShape
  <2>4. QED
    BY <1>5, <1>9, <1>10, <2>1, <2>2, <2>3
<1>12. Read(s.mem) = Read(n.mem)
  <2>1. PICK val : val = n.mem[SubLoc(c, u)] + net
    OBVIOUS
  <2>2. c \in SubEntries => Read(Put(n, SubLoc(c, u), val, mode = "temp").mem) = Read(n.mem)
    BY <1>8, <1>11, SubRead
  <2>3. QED
    BY <1>6, <2>1, <2>2
<1>13. PICK x : x = Read(soln'.mem)
  OBVIOUS
<1>14. View' = NettedToIn(View, 0, x)
  BY <1>7, <1>13, NettedToIs
<1>15. Rate[c] # 1
  BY <1>7, <1>8
<1>16. After(View) = NettedToIn(View, 0, IF Rate[c] = 0 THEN View.soln
                                         ELSE Adding(View.soln, p, t, vol))
  BY <1>1, <1>2, <1>3, <1>7, <1>15, AfterNetIs
<1>17. x = IF Rate[c] = 0 THEN View.soln ELSE Adding(View.soln, p, t, vol)
  BY <1>7, <1>11, <1>12, <1>13
<1>18. QED
  BY <1>14, <1>16, <1>17

LEMMA ConsEntryStep ==
  ASSUME Allocation, ExplodeConsEntry
  PROVE  View' = After(View)
<1>1. PICK p, t : p = PartOf[FrameBom] /\ t = Impact[FrameBom][frame.execPer]
  OBVIOUS
<1>2. PICK qty : qty = ConsumedQty(FrameBom, frame.net)
  OBVIOUS
<1>3. PICK given : given = -qty
  OBVIOUS
<1>4. /\ pc = "cons" /\ pc' = "bom" /\ frame' = NextBomEntry
      /\ req' = IF qty > 0 THEN AddTo(req, p, t, qty) ELSE req
      /\ soln' = IF qty < 0 THEN AddAvail(soln, p, t, given) ELSE soln
      /\ cursor' = cursor /\ ok' = ok /\ top' = top
  BY <1>1, <1>2, <1>3 DEF ExplodeConsEntry, Write, CommitUnchanged, callVars
<1>5. FrameBom \in Entries /\ InEffect(FrameBom, frame.execPer) /\ frame.execPer \in Periods
  BY <1>4, FrameEntries DEF Allocation, FrameType, ScanType, Entries, FrameOK
<1>6. p \in Parts /\ t \in Periods
  BY <1>1, <1>5, ImpactInEffect
<1>7. StoreShape(soln) /\ DOMAIN soln.mem = SolnLocs
  BY <1>4, SolnIsRead
<1>8. View.soln = Read(soln.mem) /\ View.req = NewStore(req.mem)
  BY EntryOfView
<1>9. PICK x, y : x = Read(soln'.mem) /\ y = NewStore(req'.mem)
  OBVIOUS
<1>10. x = IF qty < 0 THEN Adding(View.soln, p, t, given) ELSE View.soln
  <2>1. Read(AddAvail(soln, p, t, given).mem) = Adding(View.soln, p, t, given)
    BY <1>6, <1>7, <1>8, AddingRead
  <2>2. QED
    BY <1>4, <1>8, <1>9, <2>1
<1>11. y = IF qty > 0 THEN Asking(View.req, p, t, qty) ELSE View.req
  <2>1. NewStore(AddTo(req, p, t, qty).mem) = Asking(View.req, p, t, qty)
    BY <1>8, AskingRead DEF Allocation
  <2>2. QED
    BY <1>4, <1>8, <1>9, <2>1
<1>12. View' = NextEntryIn(View, x, y)
  BY <1>4, <1>9, NextEntryIs
<1>13. ViewBom(View) = FrameBom /\ View.frame = frame /\ After(View) = AfterCons(View)
  BY <1>4, EntryOfView DEF After
<1>14. AfterCons(View) =
         NextEntryIn(View, IF qty < 0 THEN Adding(View.soln, p, t, -qty) ELSE View.soln,
                           IF qty > 0 THEN Asking(View.req, p, t, qty) ELSE View.req)
  BY <1>1, <1>2, <1>13, Zenon DEF AfterCons
<1>15. QED
  BY <1>3, <1>10, <1>11, <1>12, <1>13, <1>14

LEMMA BopEntryStep ==
  ASSUME Allocation, ExplodeBopEntry
  PROVE  View' = After(View)
<1>1. PICK e, u : e = Bop[FrameOpn][frame.bopIdx] /\ u = frame.execPer
  OBVIOUS
<1>2. PICK p, t : p = PartOf[e] /\ t = Impact[e][u]
  OBVIOUS
<1>3. PICK vol : vol = IF InEffect(e, u) THEN frame.delta * Rate[e] ELSE 0
  OBVIOUS
<1>4. /\ pc = "bop" /\ pc' = "bop" /\ frame.bopIdx \in DOMAIN Bop[FrameOpn]
      /\ soln' = IF vol > 0 THEN AddAvail(soln, p, t, vol) ELSE soln
      /\ frame' = [frame EXCEPT !.bopIdx = @ + 1]
      /\ req' = req /\ cursor' = cursor /\ ok' = ok /\ top' = top
  BY <1>1, <1>2, <1>3 DEF ExplodeBopEntry, Write, CommitUnchanged, callVars
<1>5. u \in Periods /\ FrameOpn \in Operations
  BY <1>1, <1>4, ExecutionMeans DEF Executing, Allocation, Locals
<1>6. e \in Entries
  BY <1>1, <1>4, FrameEntries DEF Allocation, Entries
<1>7. vol > 0 => p \in Parts /\ t \in Periods
  BY <1>2, <1>3, <1>5, <1>6, ImpactInEffect
<1>8. StoreShape(soln) /\ DOMAIN soln.mem = SolnLocs
  BY <1>4, SolnIsRead
<1>9. PICK x, y, f, l : x = Read(soln'.mem) /\ y = NewStore(req'.mem) /\ f = frame' /\ l = pc'
  OBVIOUS
<1>10. View.soln = Read(soln.mem) /\ View.frame = frame /\ ViewOpn(View) = FrameOpn
       /\ View.req = y /\ View.pc = "bop"
  BY <1>4, <1>9, EntryOfView
<1>11. x = IF vol > 0 THEN Adding(View.soln, p, t, vol) ELSE View.soln
  <2>1. CASE vol > 0
    <3>1. Read(AddAvail(soln, p, t, vol).mem) = Adding(View.soln, p, t, vol)
      BY <1>7, <1>8, <1>10, <2>1, AddingRead
    <3>2. QED
      BY <1>4, <1>9, <2>1, <3>1
  <2>2. CASE ~(vol > 0)
    BY <1>4, <1>9, <1>10, <2>2
  <2>3. QED
    BY <2>1, <2>2
<1>12. View' = To(View, l, f, x, y)
  BY <1>4, <1>9, ToIs
<1>13. View.frame.bopIdx \in DOMAIN Bop[ViewOpn(View)] /\ After(View) = AfterBop(View)
  BY <1>4, <1>10 DEF After
<1>14. AfterBop(View) =
         To(View, "bop", [View.frame EXCEPT !.bopIdx = @ + 1],
            IF vol > 0 THEN Adding(View.soln, p, t, vol) ELSE View.soln, View.req)
  BY <1>1, <1>2, <1>3, <1>10, <1>13, Zenon DEF AfterBop
<1>15. [View.frame EXCEPT !.bopIdx = @ + 1] = f /\ l = "bop"
  BY <1>4, <1>9, <1>10
<1>16. QED
  BY <1>10, <1>11, <1>12, <1>13, <1>14, <1>15

LEMMA UseStep ==
  ASSUME Allocation, UseProduct
  PROVE  View' = After(View)
<1>1. PICK p, t, qty, taken : p = frame.part /\ t = frame.fillPer /\ qty = frame.qty
                              /\ taken = -qty
  OBVIOUS
<1>2. /\ pc = "bop" /\ pc' = "fill" /\ frame.bopIdx \notin DOMAIN Bop[FrameOpn]
      /\ soln' = AddAvail(soln, p, t, taken) /\ frame' = NoFrame
      /\ req' = req /\ cursor' = cursor /\ ok' = ok /\ top' = top
  BY <1>1 DEF UseProduct, Write, CommitUnchanged, callVars
<1>3. p \in Parts /\ t \in Periods
  BY <1>1, <1>2, FrameMeans DEF Exploding, Executing, Allocation, Locals
<1>4. StoreShape(soln) /\ DOMAIN soln.mem = SolnLocs
  BY <1>2, SolnIsRead
<1>5. PICK x, y, f, l : x = Read(soln'.mem) /\ y = NewStore(req'.mem) /\ f = frame' /\ l = pc'
  OBVIOUS
<1>6. View.soln = Read(soln.mem) /\ View.frame = frame /\ ViewOpn(View) = FrameOpn
      /\ View.req = y /\ View.pc = "bop"
  BY <1>2, <1>5, EntryOfView
<1>7. x = Adding(View.soln, p, t, taken)
  BY <1>2, <1>3, <1>4, <1>5, <1>6, AddingRead
<1>8. View' = To(View, l, f, x, y)
  BY <1>2, <1>5, ToIs
<1>9. ~(View.frame.bopIdx \in DOMAIN Bop[ViewOpn(View)]) /\ After(View) = AfterBop(View)
  BY <1>2, <1>6 DEF After
<1>10. AfterBop(View) =
         To(View, "fill", NoFrame, Adding(View.soln, View.frame.part, View.frame.fillPer,
                                          -View.frame.qty), View.req)
  BY <1>9, Zenon DEF AfterBop
<1>11. QED
  BY <1>1, <1>2, <1>5, <1>6, <1>7, <1>8, <1>9, <1>10

Filling == {"fill"} \cup Exploding

Returning == {"clear", "restore", "return"}

\* The local variables of a commit have their first values before it starts.
LocalsReset ==
  /\ pc \notin Exploding => frame = NoFrame
  /\ pc \notin Filling => cursor = NoCursor
  /\ pc \notin Returning => ok = TRUE
  /\ ok \in BOOLEAN /\ mode \in {"none", "temp", "perm"}

\* The view at the start of a commit of q units.
StartOf(q) ==
  [soln |-> Read(base), req |-> Asking(NewStore(NoReqs), top.part, top.per, q),
   list |-> TopList, cursor |-> NoCursor, frame |-> NoFrame, ok |-> TRUE, pc |-> "fill"]

Succeeds(q) == Ends(StartOf(q), TRUE)

\* What findMaxQty knows of the quantity that it may return.
OkIsProven ==
  /\ search.stage = "inc" => search.okMult = 1
  /\ search.stage \in {"des", "bisect", "found"} => Succeeds(search.okMult * CurSearchInc)
  /\ search.stage = "foundDes" => Succeeds(search.des)

Trial ==
  /\ mode # "perm" /\ pc \in Trying => OkIsProven
  /\ mode = "temp" /\ pc \in Filling => Leads(StartOf(TryQty), View)
  /\ mode = "temp" /\ pc \in Returning => Ends(StartOf(TryQty), ok)
  /\ mode = "perm" /\ pc \in Filling => Ends(View, TRUE)
  /\ mode = "perm" /\ pc \in Returning => ok = TRUE
  /\ pc # "fatal"

LEMMA LocalsResetInit == Init => LocalsReset
BY DEF Init, LocalsReset, Exploding, Executing, Filling, Returning

LEMMA LocalsResetNext ==
  ASSUME LocalsReset, [Next]_vars, ~(pc = "return" /\ mode = "perm" /\ ~ok)
  PROVE  LocalsReset'
<1>1. CASE UNCHANGED vars
  BY <1>1 DEF LocalsReset, vars, inputs, results, callVars, commVars, Exploding, Executing,
     Filling, Returning
<1>2. CASE Call \/ StockSLBStep
  BY <1>2 DEF LocalsReset, Call, StockSLBStep, IncHeurAlloc, FinishHeurAlloc, StartHeurAlloc,
     EnforceStockSLB, StockSLBEnforced, StockSLBsEnforced, Exploding, Executing, Filling,
     Returning, commVars
<1>3. CASE MaxQtyStep
  <2>1. CASE TempCommitReturns
    <3>1. /\ pc = "return" /\ ok' = TRUE /\ cursor' = cursor /\ frame' = frame
          /\ mode' = "none" /\ pc' \in {"perm", "cmqEnd", "try"}
      BY <2>1, Zenon DEF TempCommitReturns
    <3>2. QED
      BY <3>1 DEF LocalsReset, Exploding, Executing, Filling, Returning
  <2>2. CASE PermCommitReturns
    <3>1. /\ pc = "return" /\ ok' = ok /\ cursor' = cursor /\ frame' = frame
          /\ mode' = "none" /\ pc' = "cmqEnd" /\ ok = TRUE
      BY <2>2 DEF PermCommitReturns, commVars, LocalsReset
    <3>2. QED
      BY <3>1 DEF LocalsReset, Exploding, Executing, Filling, Returning
  <2>3. CASE ~TempCommitReturns /\ ~PermCommitReturns
    BY <1>3, <2>3 DEF LocalsReset, MaxQtyStep, SkipBlocked, CommitMaxQty, TempCommit, PermCommit,
       StartCommit, CommitMaxQtyEnds, PostIncHeurAlloc, commVars, Exploding, Executing,
       Filling, Returning
  <2>4. QED
    BY <2>1, <2>2, <2>3
<1>4. CASE FillStep
  BY ZenonT(60), <1>4
     DEF LocalsReset, FillStep, NetReq, NetAndRollReq, Netted, AllFilled, CannotExplode,
     ExplodeBopEnt, Exploding, Executing, Filling, Returning, CommitUnchanged
<1>5. CASE ExplodeStep
  BY <1>5 DEF LocalsReset, ExplodeStep, BomEntryNotInEffect, ExplodeBomEntry, NetConsEntry, NettedTo,
     NetByProductEntry, SkipSubEntry, ExplodeConsEntry, BomEntriesExploded,
     ExplodeBopEntry, UseProduct, Exploding, Executing, Filling, Returning, CommitUnchanged
<1>6. CASE UndoStep
  BY <1>6 DEF LocalsReset, UndoStep, ClearReqSched, RestoreSoln, commVars, Exploding, Executing,
     Filling, Returning, CommitUnchanged
<1>7. QED
  BY <1>1, <1>2, <1>3, <1>4, <1>5, <1>6 DEF Next, Run

------------------------------------------------------------------------------

\* A step of filling or exploding does what After says.
LEMMA StepIsAfter ==
  ASSUME Allocation, LocalsReset, FillStep \/ ExplodeStep
  PROVE  View' = After(View)
<1>1. pc = "fill" => frame = NoFrame
  BY DEF LocalsReset, Exploding, Executing
<1>2. CASE FillStep
  <2>1. CASE \E r \in NextReqs : NetReq(r[1], r[2])
    BY <2>1, NetReqStep
  <2>2. CASE \E r \in NextReqs, rollPer \in Periods \cup {-1} :
               NetAndRollReq(r[1], r[2], rollPer)
    BY <2>2, NetAndRollStep
  <2>3. CASE AllFilled
    <3>1. pc = "fill"
      BY <2>3 DEF AllFilled
    <3>2. QED
      BY <1>1, <2>3, <3>1, AllFilledStep
  <2>4. CASE CannotExplode
    BY <2>4, CannotExplodeStep
  <2>5. CASE \E e \in ExpAllowed, t \in Periods : ExplodeBopEnt(e, t)
    BY <2>5, ExplodeBopEntStep
  <2>6. QED
    BY <1>2, <2>1, <2>2, <2>3, <2>4, <2>5 DEF FillStep
<1>3. CASE ExplodeStep
  BY <1>3, BomEntryStep, SkipSubStep, NetConsStep, ByProductStep, ConsEntryStep,
     BopEntryStep, UseStep DEF ExplodeStep
<1>4. QED
  BY <1>2, <1>3

\* A commit starts at the start.
LEMMA StartView ==
  ASSUME Allocation, LocalsReset, pc \in {"try", "perm"},
         NEW theMode, StartCommit(theMode), NEW q, q = TryQty
  PROVE  View' = StartOf(q)
<1>1. /\ req' = AddTo(req, top.part, top.per, q) /\ pc' = "fill"
      /\ soln' = soln /\ cursor' = cursor /\ frame' = frame /\ ok' = ok /\ top' = top
  BY DEF StartCommit, callVars
<1>2. cursor = NoCursor /\ frame = NoFrame /\ ok = TRUE
  BY DEF LocalsReset, Exploding, Executing, Filling, Returning
<1>3. soln.mem = base
  <2>1. mode = "none"
    BY DEF Allocation, Reqs, CommitPoints
  <2>2. QED
    BY <2>1 DEF Allocation, Rollback
<1>4. req.mem = NoReqs
  <2>1. Clean(req)
    BY DEF Allocation, Reqs, CommitPoints
  <2>2. StoreShape(req) /\ Recovers(req, NoReqs)
    BY DEF Allocation, Reqs
  <2>3. NoReqs = [loc \in DOMAIN NoReqs |-> NoReqs[loc]]
    BY DEF NoReqs
  <2>4. QED
    BY <2>1, <2>2, <2>3, ReqLocsHaveKinds, CleanIsRecovered
<1>5. PICK x, y, l : x = Read(soln'.mem) /\ y = NewStore(req'.mem) /\ l = pc'
  OBVIOUS
<1>6. x = Read(base)
  BY <1>1, <1>3, <1>5
<1>7. y = Asking(NewStore(NoReqs), top.part, top.per, q)
  BY <1>1, <1>4, <1>5, AskingRead DEF Allocation
<1>8. PICK c, f, o : c = cursor' /\ f = frame' /\ o = ok'
  OBVIOUS
<1>9. View' = [soln |-> x, req |-> y, list |-> TopList, cursor |-> c, frame |-> f,
               ok |-> o, pc |-> l]
  BY <1>1, <1>5, <1>8, NextViewIs
<1>10. c = NoCursor /\ f = NoFrame /\ o = TRUE /\ l = "fill"
  BY <1>1, <1>2, <1>5, <1>8
<1>11. QED
  BY <1>6, <1>7, <1>9, <1>10, Zenon DEF StartOf

LEMMA SameStart ==
  ASSUME base' = base, top' = top, NEW q
  PROVE  /\ StartOf(q)' = StartOf(q)
         /\ Succeeds(q)' <=> Succeeds(q)
<1>1. TopList' = TopList
  BY DEF TopList
<1>2. StartOf(q)' = StartOf(q)
  BY <1>1 DEF StartOf
<1>3. QED
  BY <1>2 DEF Succeeds

\* While a search goes on its quantities stay what they are.
LEMMA SameTrial ==
  ASSUME base' = base, top' = top, call' = call, slbs' = slbs, search' = search
  PROVE  /\ TryQty' = TryQty /\ StartOf(TryQty)' = StartOf(TryQty)
         /\ OkIsProven' <=> OkIsProven
<1>1. CurSearchInc' = CurSearchInc
  BY DEF CurSearchInc
<1>2. TryQty' = TryQty
  BY <1>1 DEF TryQty, CurMult
<1>3. TopList' = TopList
  BY DEF TopList
<1>4. StartOf(TryQty)' = StartOf(TryQty)
  BY <1>2, <1>3 DEF StartOf
<1>5. PICK ok1, des : ok1 = search.okMult * CurSearchInc /\ des = search.des
  OBVIOUS
<1>6. Succeeds(ok1)' <=> Succeeds(ok1)
  BY SameStart
<1>7. Succeeds(des)' <=> Succeeds(des)
  BY SameStart
<1>8. OkIsProven' <=> OkIsProven
  BY <1>1, <1>5, <1>6, <1>7 DEF OkIsProven
<1>9. QED
  BY <1>2, <1>4, <1>8

\* findMaxQty's next step keeps what it knows.
LEMMA SearchStep ==
  ASSUME Allocation, LocalsReset, Trial, TempCommitReturns
  PROVE  OkIsProven' /\ pc' \in {"perm", "cmqEnd", "try"} /\ mode' = "none"
<1>1. /\ pc = "return" /\ mode = "temp" /\ mode' = "none" /\ base' = base /\ top' = top
      /\ call' = call /\ slbs' = slbs /\ search' = AfterTempCommit(ok)
      /\ pc' \in {"perm", "cmqEnd", "try"}
  BY Zenon DEF TempCommitReturns, results
<1>2. /\ search \in [stage : Stages, des : Nat, okMult : Nat, failMult : Int]
      /\ search.stage \in {"desOnly", "inc", "des", "bisect"} /\ CurSearchInc \in Nat \ {0}
  BY <1>1 DEF Allocation, Locals, SearchType, Trying, CommitPoints
<1>3. OkIsProven /\ Ends(StartOf(TryQty), ok)
  BY <1>1 DEF Trial, Trying, CommitPoints, Returning
<1>4. CurSearchInc' = CurSearchInc
  BY <1>1 DEF CurSearchInc
<1>5. \A q : Succeeds(q)' <=> Succeeds(q)
  BY <1>1, SameStart
<1>6. PICK inc \in Nat : inc = CurSearchInc
  BY <1>2
<1>7. PICK mult, des : mult = search'.okMult /\ des = search'.des
  OBVIOUS
<1>8. /\ search'.stage = "inc" => search'.okMult = 1
      /\ search'.stage \in {"des", "bisect", "found"} => Succeeds(mult * inc)
      /\ search'.stage = "foundDes" => Succeeds(des)
  <2>1. CASE search.stage \in {"desOnly", "des"} /\ ok
    <3>1. search' = [search EXCEPT !.stage = "foundDes"]
      BY <1>1, <2>1, Zenon DEF AfterTempCommit
    <3>2. search'.stage = "foundDes" /\ des = search.des
      BY <1>2, <1>7, <3>1
    <3>3. TryQty = search.des
      BY <2>1, Zenon DEF TryQty
    <3>4. Succeeds(des)
      BY <1>3, <2>1, <3>2, <3>3 DEF Succeeds, LocalsReset
    <3>5. QED
      BY <3>2, <3>4
  <2>2. CASE search.stage \in {"desOnly", "inc"} /\ ~ok
    <3>1. search' = [search EXCEPT !.stage = "none"]
      BY <1>1, <2>2 DEF AfterTempCommit
    <3>2. QED
      BY <1>2, <3>1
  <2>3. CASE search.stage = "inc" /\ ok
    <3>1. search' = [search EXCEPT !.stage = "des"]
      BY <1>1, <2>3 DEF AfterTempCommit
    <3>2. search'.stage = "des" /\ mult = 1
      BY <1>2, <1>3, <1>7, <2>3, <3>1 DEF OkIsProven
    <3>3. TryQty = inc /\ mult * inc = inc
      BY <1>6, <2>3, <3>2 DEF TryQty
    <3>4. Succeeds(mult * inc)
      BY <1>3, <2>3, <3>3 DEF Succeeds, LocalsReset
    <3>5. QED
      BY <3>2, <3>4
  <2>4. CASE search.stage = "des" /\ ~ok
    <3>1. PICK stage \in {"bisect", "found"} : search' = [search EXCEPT !.stage = stage]
      BY <1>1, <2>4 DEF AfterTempCommit
    <3>2. search'.stage = stage /\ mult = search.okMult
      BY <1>2, <1>7, <3>1
    <3>3. Succeeds(mult * inc)
      BY <1>3, <1>6, <2>4, <3>2 DEF OkIsProven
    <3>4. QED
      BY <3>1, <3>2, <3>3
  <2>5. CASE search.stage = "bisect" /\ ok
    <3>1. PICK cur : cur = CurMult
      OBVIOUS
    <3>2. PICK stage \in {"bisect", "found"} :
            search' = [[search EXCEPT !.okMult = cur] EXCEPT !.stage = stage]
      BY <1>1, <2>5, <3>1 DEF AfterTempCommit
    <3>3. search'.stage = stage /\ mult = cur
      BY <1>2, <1>7, <3>2
    <3>4. TryQty = mult * inc
      BY <1>6, <2>5, <3>1, <3>3 DEF TryQty
    <3>5. Succeeds(mult * inc)
      BY <1>3, <2>5, <3>4 DEF Succeeds, LocalsReset
    <3>6. QED
      BY <3>2, <3>3, <3>5
  <2>6. CASE search.stage = "bisect" /\ ~ok
    <3>1. PICK cur : cur = CurMult
      OBVIOUS
    <3>2. PICK stage \in {"bisect", "found"} :
            search' = [[search EXCEPT !.failMult = cur] EXCEPT !.stage = stage]
      BY <1>1, <2>6, <3>1 DEF AfterTempCommit
    <3>3. search'.stage = stage /\ mult = search.okMult
      BY <1>2, <1>7, <3>2
    <3>4. Succeeds(mult * inc)
      BY <1>3, <1>6, <2>6, <3>3 DEF OkIsProven
    <3>5. QED
      BY <3>2, <3>3, <3>4
  <2>7. QED
    BY <1>2, <2>1, <2>2, <2>3, <2>4, <2>5, <2>6
<1>9. Succeeds(mult * inc)' <=> Succeeds(mult * inc)
  BY <1>1, SameStart
<1>10. Succeeds(des)' <=> Succeeds(des)
  BY <1>1, SameStart
<1>11. OkIsProven'
  BY <1>4, <1>6, <1>7, <1>8, <1>9, <1>10 DEF OkIsProven
<1>12. QED
  BY <1>1, <1>11

\* What is left of the invariant when no commit is active.
LEMMA NoCommit ==
  ASSUME mode # "perm" /\ mode # "temp", pc # "fatal", pc \in Trying => OkIsProven
  PROVE  Trial
BY DEF Trial

\* A series of steps of a commit.
LEMMA CommitStep ==
  ASSUME Allocation, LocalsReset, Trial, FillStep \/ ExplodeStep
  PROVE  Trial'
<1>1. View' = After(View)
  BY StepIsAfter
<1>2. /\ pc \in Filling /\ pc' \in Filling \cup {"clear"} /\ mode' = mode
      /\ top' = top /\ call' = call /\ slbs' = slbs /\ search' = search
  <2>1. CASE FillStep
    <3>1. CASE \E r \in NextReqs :
                 NetReq(r[1], r[2]) \/ \E rollPer \in Periods \cup {-1} :
                                          NetAndRollReq(r[1], r[2], rollPer)
      <4>1. PICK i, t, rest : pc = "fill" /\ CommitUnchanged /\ Netted(i, t, rest)
        BY <3>1 DEF NetReq, NetAndRollReq
      <4>2. QED
        BY <4>1 DEF Netted, Exploding, Filling, CommitUnchanged, callVars, results
    <3>2. CASE AllFilled \/ CannotExplode
      <4>1. pc \in {"fill", "explode"} /\ pc' = "clear" /\ CommitUnchanged
        BY SMTT(30), <3>2 DEF AllFilled, CannotExplode
      <4>2. QED
        BY <4>1 DEF Exploding, Filling, CommitUnchanged, callVars, results
    <3>3. ASSUME NEW e, NEW t, ExplodeBopEnt(e, t)
          PROVE  /\ pc = "explode" /\ pc' = "bom"
                 /\ CommitUnchanged
      BY <3>3 DEF ExplodeBopEnt
    <3>4. CASE \E e \in ExpAllowed, t \in Periods : ExplodeBopEnt(e, t)
      BY <3>3, <3>4 DEF Exploding, Executing, Filling, CommitUnchanged, callVars, results
    <3>5. QED
      BY <2>1, <3>1, <3>2, <3>4 DEF FillStep
  <2>2. CASE ExplodeStep
    <3>1. CASE NetConsEntry \/ NetByProductEntry \/ SkipSubEntry
      BY <3>1 DEF NetConsEntry, NettedTo, NetByProductEntry, SkipSubEntry,
         Exploding, Executing, Filling, CommitUnchanged, callVars, results
    <3>2. CASE \/ BomEntryNotInEffect \/ ExplodeBomEntry \/ ExplodeConsEntry
               \/ BomEntriesExploded \/ ExplodeBopEntry \/ UseProduct
      BY SMTT(30), <3>2 DEF BomEntryNotInEffect, ExplodeBomEntry, ExplodeConsEntry,
         BomEntriesExploded, ExplodeBopEntry, UseProduct, Exploding, Executing,
         Filling, CommitUnchanged, callVars, results
    <3>3. QED
      BY <2>2, <3>1, <3>2 DEF ExplodeStep
  <2>3. QED
    BY <2>1, <2>2
<1>3. mode = "temp" => base' = base
  BY DEF FillStep, NetReq, NetAndRollReq, Write, AllFilled, CannotExplode,
     ExplodeBopEnt, ExplodeStep, BomEntryNotInEffect, ExplodeBomEntry, NetConsEntry,
     NetByProductEntry, SkipSubEntry, ExplodeConsEntry, BomEntriesExploded,
     ExplodeBopEntry, UseProduct
<1>4. mode \in {"temp", "perm"}
  BY <1>2 DEF Allocation, Reqs, LocalsReset, Filling, Exploding, Executing, CommitPoints
<1>5. View.pc = pc /\ View.pc # "clear"
  BY <1>2, EntryOfView DEF Filling, Exploding, Executing
<1>6. PICK w : w = View' /\ w = After(View)
  BY <1>1
<1>7. w.pc = pc' /\ w.ok = ok'
  BY <1>6 DEF View
<1>8. CASE mode = "temp"
  <2>1. /\ OkIsProven' <=> OkIsProven
        /\ StartOf(TryQty)' = StartOf(TryQty)
    BY <1>2, <1>3, <1>8, SameTrial
  <2>2. OkIsProven /\ Leads(StartOf(TryQty), View)
    BY <1>2, <1>8 DEF Trial, Filling, Exploding, Executing, Trying, CommitPoints
  <2>3. PICK start : start = StartOf(TryQty)
    OBVIOUS
  <2>4. Leads(start, w)
    BY <1>5, <1>6, <2>2, <2>3, LeadsOn
  <2>5. pc' = "clear" => Ends(start, ok')
    BY <1>7, <2>4 DEF Ends
  <2>6. Leads(StartOf(TryQty), View)' <=> Leads(start, w)
    BY <1>6, <2>1, <2>3 DEF Leads
  <2>7. Ends(StartOf(TryQty), ok)' <=> Ends(start, ok')
    BY <2>1, <2>3 DEF Ends
  <2>8. mode' = "temp" /\ pc' # "fatal"
    BY <1>2, <1>8 DEF Filling, Exploding, Executing
  <2>9. pc' \in Returning => pc' = "clear"
    BY <1>2 DEF Filling, Exploding, Executing, Returning
  <2>10. QED
    BY <2>1, <2>2, <2>4, <2>5, <2>6, <2>7, <2>8, <2>9 DEF Trial
<1>9. CASE mode = "perm"
  <2>1. Ends(View, TRUE)
    BY <1>2, <1>9 DEF Trial
  <2>2. Ends(w, TRUE)
    BY <1>5, <1>6, <2>1, EndsOn
  <2>3. pc' = "clear" => ok' = TRUE
    BY <1>7, <2>2, EndsHere
  <2>4. Ends(View, TRUE)' <=> Ends(w, TRUE)
    BY <1>6 DEF Ends
  <2>5. mode' = "perm" /\ pc' # "fatal"
    BY <1>2, <1>9 DEF Filling, Exploding, Executing
  <2>6. pc' \in Returning => pc' = "clear"
    BY <1>2 DEF Filling, Exploding, Executing, Returning
  <2>7. QED
    BY <2>2, <2>3, <2>4, <2>5, <2>6 DEF Trial
<1>10. QED
  BY <1>4, <1>8, <1>9

LEMMA StartStep ==
  ASSUME Allocation, LocalsReset, Trial, TempCommit \/ PermCommit
  PROVE  Trial'
<1>1. PICK theMode \in {"temp", "perm"} :
        /\ StartCommit(theMode) /\ pc \in {"try", "perm"}
        /\ theMode = "temp" => pc = "try"
        /\ theMode = "perm" => pc = "perm"
  BY DEF TempCommit, PermCommit
<1>2. /\ pc' = "fill" /\ mode' = theMode /\ base' = base
      /\ top' = top /\ call' = call /\ slbs' = slbs /\ search' = search
  BY <1>1 DEF StartCommit, callVars, results
<1>3. mode = "none"
  BY <1>1 DEF Allocation, Reqs, CommitPoints
<1>4. OkIsProven
  BY <1>1, <1>3 DEF Trial, Trying
<1>5. /\ OkIsProven' <=> OkIsProven
      /\ StartOf(TryQty)' = StartOf(TryQty)
  BY <1>2, SameTrial
<1>6. PICK q, w, start : q = TryQty /\ w = View' /\ start = StartOf(TryQty)
  OBVIOUS
<1>7. w = start
  BY <1>1, <1>6, StartView
<1>8. Leads(start, w)
  BY <1>7, LeadsHere
<1>9. Leads(StartOf(TryQty), View)' <=> Leads(start, w)
  BY <1>5, <1>6 DEF Leads
<1>10. theMode = "perm" => Ends(w, TRUE)
  <2>1. SUFFICES ASSUME theMode = "perm" PROVE Ends(w, TRUE)
    OBVIOUS
  <2>2. search.stage \in {"found", "foundDes"}
    BY <1>1, <2>1 DEF Allocation, Locals, SearchType
  <2>3. CASE search.stage = "found"
    <3>1. TryQty = search.okMult * CurSearchInc
      BY <2>3 DEF TryQty
    <3>2. Succeeds(TryQty)
      BY <1>4, <2>3, <3>1 DEF OkIsProven
    <3>3. QED
      BY <1>6, <1>7, <3>2 DEF Succeeds
  <2>4. CASE search.stage = "foundDes"
    <3>1. TryQty = search.des
      BY <2>4 DEF TryQty
    <3>2. Succeeds(TryQty)
      BY <1>4, <2>4, <3>1 DEF OkIsProven
    <3>3. QED
      BY <1>6, <1>7, <3>2 DEF Succeeds
  <2>5. QED
    BY <2>2, <2>3, <2>4
<1>11. Ends(View, TRUE)' <=> Ends(w, TRUE)
  BY <1>6 DEF Ends
<1>12. pc' \notin Returning /\ pc' # "fatal"
  BY <1>2 DEF Returning
<1>13. CASE theMode = "temp"
  BY <1>2, <1>4, <1>5, <1>8, <1>9, <1>12, <1>13 DEF Trial
<1>14. CASE theMode = "perm"
  BY <1>2, <1>10, <1>11, <1>12, <1>14 DEF Trial
<1>15. QED
  BY <1>13, <1>14

LEMMA UndoKeepsTrial ==
  ASSUME Allocation, LocalsReset, Trial, UndoStep
  PROVE  Trial'
<1>1. /\ pc \in {"clear", "restore"} /\ pc' \in Returning /\ mode' = mode /\ base' = base
      /\ top' = top /\ call' = call /\ slbs' = slbs /\ search' = search /\ ok' = ok
  BY DEF UndoStep, ClearReqSched, RestoreSoln, CommitUnchanged, callVars, results, commVars,
     Returning
<1>2. /\ OkIsProven' <=> OkIsProven
      /\ StartOf(TryQty)' = StartOf(TryQty)
  BY <1>1, SameTrial
<1>3. /\ pc \in Returning /\ pc' \notin Filling /\ pc' # "fatal"
      /\ pc \in Trying
  BY <1>1 DEF Returning, Filling, Exploding, Executing, Trying, CommitPoints
<1>4. Ends(StartOf(TryQty), ok)' <=> Ends(StartOf(TryQty), ok)
  BY <1>1, <1>2 DEF Ends
<1>5. /\ mode # "perm" => OkIsProven
      /\ mode = "temp" => Ends(StartOf(TryQty), ok)
      /\ mode = "perm" => ok = TRUE
  BY <1>3 DEF Trial
<1>6. QED
  BY <1>1, <1>2, <1>3, <1>4, <1>5 DEF Trial

LEMMA TrialInit == Init => Trial
<1> SUFFICES ASSUME Init PROVE Trial
  OBVIOUS
<1>1. mode = "none" /\ pc = "idle"
  BY DEF Init
<1>2. QED
  BY <1>1 DEF Trial, Trying, CommitPoints

LEMMA MaxQtyKeepsTrial ==
  ASSUME Allocation, LocalsReset, Trial, MaxQtyStep
  PROVE  Trial'
<1>1. CASE TempCommit \/ PermCommit
  BY <1>1, StartStep
<1>2. CASE TempCommitReturns
  <2>1. OkIsProven' /\ pc' \in {"perm", "cmqEnd", "try"} /\ mode' = "none"
    BY <1>2, SearchStep
  <2>2. QED
    BY <2>1 DEF Trial
<1>3. CASE PermCommitReturns
  <2>1. pc = "return" /\ mode = "perm"
    BY <1>3 DEF PermCommitReturns
  <2>2. ok = TRUE
    BY <2>1 DEF Trial, Returning
  <2>3. mode' = "none" /\ pc' = "cmqEnd"
    BY <1>3, <2>2 DEF PermCommitReturns
  <2>4. QED
    BY <2>3 DEF Trial, Trying, CommitPoints
<1>4. CASE CommitMaxQty
  <2>1. /\ pc = "cmq" /\ pc' = "try" /\ mode' = mode
        /\ search' = [stage |-> IF netQty <= CurSearchInc THEN "desOnly" ELSE "inc",
                      des |-> netQty, okMult |-> 1,
                      failMult |-> -((-netQty) \div CurSearchInc)]
    BY <1>4 DEF CommitMaxQty
  <2>2. mode = "none"
    BY <2>1 DEF Allocation, Reqs, LocalsReset, CommitPoints
  <2>3. PICK least : least = -((-netQty) \div CurSearchInc)
    OBVIOUS
  <2>4. search'.okMult = 1 /\ search'.stage \in {"desOnly", "inc"}
    BY <2>1, <2>3
  <2>5. OkIsProven'
    BY <2>4 DEF OkIsProven
  <2>6. QED
    BY <2>1, <2>2, <2>5 DEF Trial
<1>5. CASE SkipBlocked \/ CommitMaxQtyEnds \/ PostIncHeurAlloc
  <2>1. pc \in {"cmq", "cmqEnd"} /\ pc' \in {"cmq", "idle"} /\ mode' = mode
    BY <1>5 DEF SkipBlocked, CommitMaxQtyEnds, PostIncHeurAlloc
  <2>2. mode = "none"
    BY <2>1 DEF Allocation, Reqs, LocalsReset, CommitPoints
  <2>3. pc' \notin Trying /\ pc' # "fatal"
    BY <2>1 DEF Trying, CommitPoints
  <2>4. QED
    BY <2>1, <2>2, <2>3 DEF Trial
<1>6. QED
  BY <1>1, <1>2, <1>3, <1>4, <1>5 DEF MaxQtyStep

LEMMA TrialNext ==
  ASSUME Allocation, LocalsReset, Trial, [Next]_vars
  PROVE  Trial'
<1>1. CASE UNCHANGED vars
  <2>1. /\ pc' = pc /\ mode' = mode /\ ok' = ok /\ base' = base /\ top' = top
        /\ call' = call /\ slbs' = slbs /\ search' = search
    BY <1>1 DEF vars, results, callVars, commVars
  <2>2. /\ OkIsProven' <=> OkIsProven
        /\ StartOf(TryQty)' = StartOf(TryQty)
    BY <2>1, SameTrial
  <2>3. View' = View
    BY <1>1 DEF View, TopList, vars, callVars, commVars
  <2>4. /\ Leads(StartOf(TryQty), View)' <=> Leads(StartOf(TryQty), View)
        /\ Ends(StartOf(TryQty), ok)' <=> Ends(StartOf(TryQty), ok)
        /\ Ends(View, TRUE)' <=> Ends(View, TRUE)
    BY <2>1, <2>2, <2>3 DEF Leads, Ends
  <2>5. QED
    BY <2>1, <2>2, <2>4 DEF Trial
<1>2. CASE Call \/ StockSLBStep
  <2>1. /\ pc \in {"idle", "done", "slb", "cmq"} /\ mode' = mode
        /\ pc' \in {"idle", "done", "slb", "cmq"}
    BY <1>2 DEF Call, StockSLBStep, IncHeurAlloc, FinishHeurAlloc, StartHeurAlloc,
       EnforceStockSLB, StockSLBEnforced, StockSLBsEnforced
  <2>2. mode = "none"
    BY <2>1 DEF Allocation, Reqs, LocalsReset, CommitPoints
  <2>3. pc' \notin Trying /\ pc' # "fatal"
    BY <2>1 DEF Trying, CommitPoints
  <2>4. QED
    BY <2>1, <2>2, <2>3 DEF Trial
<1>3. CASE MaxQtyStep
  BY <1>3, MaxQtyKeepsTrial
<1>4. CASE FillStep \/ ExplodeStep
  BY <1>4, CommitStep
<1>5. CASE UndoStep
  BY <1>5, UndoKeepsTrial
<1>6. QED
  BY <1>1, <1>2, <1>3, <1>4, <1>5 DEF Next, Run

LEMMA TrialHolds == Spec => [](LocalsReset /\ Trial)
<1>1. Init => LocalsReset /\ Trial
  BY LocalsResetInit, TrialInit
<1>2. Allocation /\ LocalsReset /\ Trial /\ [Next]_vars => LocalsReset' /\ Trial'
  <2> SUFFICES ASSUME Allocation, LocalsReset, Trial, [Next]_vars PROVE LocalsReset' /\ Trial'
    OBVIOUS
  <2>1. ~(pc = "return" /\ mode = "perm" /\ ~ok)
    BY DEF Trial, Returning
  <2>2. QED
    BY <2>1, LocalsResetNext, TrialNext
<1>3. QED
  BY <1>1, <1>2, AllocationHolds, PTL DEF Spec

\* permCommit: it repeats the last temporary commit of findMaxQty that
\* succeeded, from the same solution, so it succeeds, and the fatal error of
\* commitMaxQty is never reached.
THEOREM PermCommitsSucceed == Spec => []PermCommitSucceeds
<1>1. Trial => PermCommitSucceeds
  BY DEF Trial, PermCommitSucceeds
<1>2. QED
  BY <1>1, TrialHolds, PTL
================================================================================
