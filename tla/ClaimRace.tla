----------------------------- MODULE ClaimRace ------------------------------
(***************************************************************************)
(* The races of ClaimProtocol with a history variable: which run each run  *)
(* was told to have lost a target to ("lost claim race to run ...").       *)
(***************************************************************************)
EXTENDS ClaimProtocol

VARIABLE lost         \* run -> the <<target, run id>> its read-backs reported

raceVars == <<vars, lost>>

RaceInit == Init /\ lost = [r \in Run |-> {}]

LosesNow(r) == pc[r] = "readback" /\ pc'[r] = "scan"

Rival(r) == thread[target[r]][OwningClaim(Seen(target[r]), Kind, now[r])].run

RaceNext ==
  /\ Next
  /\ lost' = [r \in Run |->
       IF LosesNow(r) THEN lost[r] \cup {<<target[r], Rival(r)>>} ELSE lost[r]]

RaceSpec == RaceInit /\ [][RaceNext]_raceVars

-----------------------------------------------------------------------------
(* Properties *)

\* Positions of the claims that speak for an id, and releases between two positions.
ClaimsOf(s, id) == {i \in DOMAIN s : MarkerOf(s, Kind, i) /\ s[i].op = "claim" /\ s[i].run = id}

ReleaseBetween(s, i, k) ==
  \E j \in DOMAIN s : i < j /\ j < k /\ MarkerOf(s, Kind, j) /\ s[j].op = "release"

\* However often the POST of the run's claim was handled, no release came in between: its
\* claims stand or fall together.
InOneTurn(r, t) ==
  \A i, k \in ClaimsOf(thread[t], RunId[r]) : ~ReleaseBetween(thread[t], i, k)

\* A race always leaves a contender: there is no set of runs in which every one has lost the
\* same target to another of them ("Earliest claim wins - stable regardless of read-back
\* ordering", try_claim).  For threads that the page shows, and for runs that are not
\* executed twice and whose claim was not handled again after somebody's release.
RaceHasWinner ==
  \A t \in Target : Len(thread[t]) <= Page =>
     \A racers \in (SUBSET Run) \ {{}} :
        (\A r \in racers : restarts[r] = 0 /\ InOneTurn(r, t)) =>
           \E r \in racers : \A s \in racers : <<t, RunId[s]>> \notin lost[r]
=============================================================================
