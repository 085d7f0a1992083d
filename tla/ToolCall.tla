------------------------------ MODULE ToolCall ------------------------------
(***************************************************************************)
(* What a write tool promises to the pipeline that calls it: its effects   *)
(* are made in their order and never undone, and a call that returns has   *)
(* made them all.  A call that raises may have made any number of them, and*)
(* the next one may even follow later.                                     *)
(***************************************************************************)
EXTENDS Naturals, FiniteSets

CONSTANTS
  Call,
  Effects       \* call -> how many effects its tool has

VARIABLES
  made,         \* call -> the effects that are made
  returned      \* the calls that have returned

vars == <<made, returned>>

Init ==
  /\ made = [c \in Call |-> {}]
  /\ returned = {}

Makes(c) ==
  /\ Cardinality(made[c]) < Effects[c]
  /\ made' = [made EXCEPT ![c] = @ \cup {Cardinality(@) + 1}]

Returns(c) ==
  /\ c \notin returned
  /\ Cardinality(made'[c]) = Effects[c]
  /\ returned' = returned \cup {c}

Next ==
  \E c \in Call :
     \/ Makes(c) /\ UNCHANGED returned
     \/ Returns(c) /\ (Makes(c) \/ UNCHANGED made)

Spec == Init /\ [][Next]_vars
=============================================================================
