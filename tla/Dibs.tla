-------------------------------- MODULE Dibs --------------------------------
(***************************************************************************)
(* The claim algebra of dibs.py: pure operators over the comment thread of *)
(* one issue or pull request.                                              *)
(*                                                                         *)
(* A thread is the chronological sequence of its comments.  A comment is   *)
(* abstracted to what the parser of markers makes of it:                   *)
(*   [op |-> "claim" | "release" | "note", kind, run, until]               *)
(* where a "note" is any comment without a marker (parse_markers drops it).*)
(* The Python functions return the marker or None; the operators return    *)
(* its position in the thread, or 0.  The marker itself is thread[i].      *)
(* active_claim has no caller in the pipelines, nor have can_claim and     *)
(* held_by_me, which ask whether its marker bears the agent id that all    *)
(* runs share.                                                             *)
(***************************************************************************)
EXTENDS Naturals, Integers, Sequences

\* list_comments: one page of a thread, its oldest comments.
FirstPage(thread, size) ==
  SubSeq(thread, 1, IF Len(thread) < size THEN Len(thread) ELSE size)

\* Is comment i a marker of this kind?  parse_markers keeps only the comments
\* with a marker; the loops of dibs.py then filter on the kind.
MarkerOf(thread, kind, i) ==
  /\ i \in DOMAIN thread
  /\ thread[i].op # "note"
  /\ thread[i].kind = kind

\* A release of any run, not only of the claimant, ends every earlier claim.
ReleasedAfter(thread, kind, i) ==
  \E j \in DOMAIN thread :
     j > i /\ MarkerOf(thread, kind, j) /\ thread[j].op = "release"

\* A plausible bug: expiry is forgotten.
BugLiveForever(thread, kind, now, i) ==
  /\ MarkerOf(thread, kind, i)
  /\ thread[i].op = "claim"
  /\ ~ReleasedAfter(thread, kind, i)

\* One turn of owning_claim's loop: comment i is a claim that neither expired by
\* `now` nor precedes a release.
LiveClaim(thread, kind, now, i) ==
  /\ MarkerOf(thread, kind, i)
  /\ thread[i].op = "claim"
  /\ thread[i].until > now
  /\ ~ReleasedAfter(thread, kind, i)

\* Comment i is the first live claim of the thread.
Owns(thread, kind, now, i) ==
  /\ LiveClaim(thread, kind, now, i)
  /\ \A j \in DOMAIN thread : j < i => ~LiveClaim(thread, kind, now, j)

\* A plausible bug: the latest claim wins, as active_claim has it.
BugLatestOwns(thread, kind, now) ==
  LET live == {i \in DOMAIN thread : LiveClaim(thread, kind, now, i)}
  IN  IF live = {} THEN 0 ELSE CHOOSE i \in live : \A j \in live : j <= i

\* owning_claim: the earliest live claim, the winner of a race.
OwningClaim(thread, kind, now) ==
  IF \E i \in DOMAIN thread : Owns(thread, kind, now, i)
  THEN CHOOSE i \in DOMAIN thread : Owns(thread, kind, now, i)
  ELSE 0
=============================================================================
