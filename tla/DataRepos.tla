------------------------------ MODULE DataRepos ------------------------------
(***************************************************************************)
(* The undo log of WIT: class WitDataRepos (DataRepos.h, Repos.C).         *)
(*                                                                         *)
(* A repository remembers the values that variables had before they were   *)
(* overwritten.  saveVal pushes the pair <<variable, value>> on a stack,   *)
(* one stack for each kind of variable; restore pops every pair, newest    *)
(* first, and writes the value back, so that a variable which was saved    *)
(* several times ends with the value of its oldest pair.                   *)
(*                                                                         *)
(* A "store" is a record of the variables that one repository guards and   *)
(* of the repository's stacks.  A variable is a tuple whose first element  *)
(* is its kind.                                                            *)
(***************************************************************************)
EXTENDS Integers, Sequences

\* The stacks of a repository: myIntRepos_, myDblRepos_, execVolRepos_ and
\* subVolRepos_.  The bool and pointer stacks guard the variables of the
\* selection subsystem and stay empty here.
Kinds == {"int", "dbl", "exec", "sub"}

KindOf(loc) == loc[1]

EmptyLog == [k \in Kinds |-> <<>>]

NewStore(mem) == [mem |-> mem, log |-> EmptyLog]

\* No pair is saved.
Clean(s) == \A k \in Kinds : s.log[k] = <<>>

\* Assignment of a variable that is not saved first.
Assign(s, loc, val) == [s EXCEPT !.mem = [@ EXCEPT ![loc] = val]]

\* saveVal (saveExecVol, saveSubVol) of the current value, then assignment.
SaveAndAssign(s, loc, val) ==
  [mem |-> [s.mem EXCEPT ![loc] = val],
   log |-> [s.log EXCEPT ![KindOf(loc)] =
              Append(@, [loc |-> loc, val |-> s.mem[loc]])]]

\* The order in which restore() empties the stacks.
RestoreOrder == <<"int", "dbl", "exec", "sub">>

\* The stack that restore() is emptying: the first one that is not empty.
Restoring(s) ==
  RestoreOrder[CHOOSE i \in 1..4 :
                 /\ s.log[RestoreOrder[i]] # <<>>
                 /\ \A j \in 1..(i-1) : s.log[RestoreOrder[j]] = <<>>]

\* One iteration of "while (savedPairs_.pop (theVarPtr, theVal))".
PopKind(s, k) ==
  LET stack == s.log[k]
      top   == stack[Len(stack)]
  IN  [mem |-> [s.mem EXCEPT ![top.loc] = top.val],
       log |-> [s.log EXCEPT ![k] = SubSeq(stack, 1, Len(stack) - 1)]]

RestoreStep(s) == PopKind(s, Restoring(s))

------------------------------------------------------------------------------

\* What the repository is for: it holds enough to bring every variable back
\* to its value in base, because the oldest pair of a saved variable, and
\* the present value of one that was not saved, is the value in base.
OldestIs(stack, loc, val) ==
  \E i \in 1..Len(stack) :
     /\ stack[i].loc = loc
     /\ stack[i].val = val
     /\ \A j \in 1..(i-1) : stack[j].loc # loc

NotSaved(stack, loc) == \A i \in 1..Len(stack) : stack[i].loc # loc

Recovers(s, base) ==
  /\ DOMAIN s.mem = DOMAIN base
  /\ \A loc \in DOMAIN base :
       \/ NotSaved(s.log[KindOf(loc)], loc) /\ s.mem[loc] = base[loc]
       \/ OldestIs(s.log[KindOf(loc)], loc, base[loc])
=============================================================================
