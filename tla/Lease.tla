------------------------------- MODULE Lease --------------------------------
(***************************************************************************)
(* What the claim protocol promises to a pipeline: a lease on one issue or *)
(* pull request.  While a lease is neither revoked nor expired, no other   *)
(* run is granted a lease on the same target.  The promise is weak on      *)
(* purpose: anybody's release revokes every lease on its target, and a run *)
(* is never told that its lease is over.                                   *)
(***************************************************************************)
EXTENDS Integers

CONSTANTS Run, Target

VARIABLES clock, leases

vars == <<clock, leases>>

Leases == [run : Run, target : Target, until : Int]

TypeOK ==
  /\ clock \in Nat
  /\ leases \subseteq Leases

Init ==
  /\ clock = 0
  /\ leases = {}

Free(t) == \A l \in leases : l.target # t

Grant(r, t) ==
  /\ Free(t)
  /\ \E l \in leases' \ leases :
        /\ l.run = r /\ l.target = t /\ l.until > clock
        /\ leases' = leases \cup {l}
  /\ UNCHANGED clock

\* The run stops working, whether it finishes, fails or crashes.
Stop(r) ==
  /\ leases' = {l \in leases : l.run # r}
  /\ UNCHANGED clock

\* A release is delivered to the target.
Revoke(t) ==
  /\ leases' = {l \in leases : l.target # t}
  /\ UNCHANGED clock

Elapse ==
  /\ clock' = clock + 1
  /\ leases' = {l \in leases : l.until > clock'}

Next ==
  \/ \E r \in Run, t \in Target : Grant(r, t)
  \/ \E r \in Run : Stop(r)
  \/ \E t \in Target : Revoke(t)
  \/ Elapse

Spec == Init /\ [][Next]_vars

\* At most one run holds an unrevoked, unexpired lease on a target.
Exclusive == \A k, l \in leases : k.target = l.target => k = l
=============================================================================
