---------------------------- MODULE MCClaimRace -----------------------------
(***************************************************************************)
(* Finite instances of ClaimRace.                                          *)
(***************************************************************************)
EXTENDS ClaimRace, MCClaimProtocol

\* Bound of the run with three racers: all of them start at once, and what one does
\* after a crash, a comment, or a failure of its work or of its release is of no interest.  Two
\* requests are in flight: a claim and a release, or two copies of one claim.
OneHeat ==
  /\ clock = 0
  /\ Cardinality(wire) <= 2
  /\ \A r \in Run : pc[r] \notin {"crashed", "note", "recover"}
=============================================================================
