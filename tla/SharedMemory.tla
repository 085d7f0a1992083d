---------------------------- MODULE SharedMemory ----------------------------
(***************************************************************************)
(* The two memory stores of memory.py and the processes around them:       *)
(* builder and reviewer runs that each save one record (record_run), and   *)
(* the distiller (distiller_agent.py), fired by a cron, that prunes the    *)
(* records without work, enters the others in its ledger (Evals) and folds *)
(* them into the lessons and the digest that the agents read.              *)
(*                                                                         *)
(* A MemoryStore is opened with a copy of what is stored, and saving it    *)
(* uploads the whole copy: files deleted since are back, files written     *)
(* since are reverted.  Lessons and digest are abstracted to the set of    *)
(* records that went into them.                                            *)
(***************************************************************************)
EXTENDS Evals

CONSTANTS
  Distiller,    \* two of them when one run outlasts the period of the cron
  Brief,        \* new records shown to the agent: the limit of render_records_brief
  MaxFailures   \* bound: exceptions and crashes

ASSUME MemoryAssumption == Brief \in Nat \ {0} /\ MaxFailures \in Nat

VARIABLES
  runs,         \* the -runs store: the records it holds
  context,      \* the -context store: [ledger, lessons, digest]
  writer,       \* writer -> [pc, copy]
  distiller,    \* distiller -> its local variables and its open copy
  dropped,      \* history: records that entered the ledger and then were hidden from the
                \* agent, or whose round failed
  overlapped,   \* history: two rounds were writing at the same time
  failures

vars == <<runs, context, writer, distiller, dropped, overlapped, failures>>

Empty == [ledger |-> EmptyLedger, lessons |-> {}, digest |-> {}]
Asleep ==
  [pc |-> "asleep", loaded |-> {}, shells |-> {}, state |-> EmptyLedger, new |-> {},
   lessons |-> {}, copy |-> Empty]

\* Records that a round should throw away, and records of work.
Shells == {w \in Writer : DidNoWork(w)}
Work == Writer \ Shells
Targets == {RecordOf[w].target : w \in Work} \ {NoTarget}

Entry == [ingest_count : Nat \ {0}, last : Work, has_pr : BOOLEAN]

IsLedger(l) ==
  /\ l = [ids |-> l.ids, targets |-> l.targets]
  /\ l.ids \in Seq(Work)
  /\ DOMAIN l.targets \subseteq Targets
  /\ l.targets \in [DOMAIN l.targets -> Entry]

IsContext(c) ==
  /\ c = [ledger |-> c.ledger, lessons |-> c.lessons, digest |-> c.digest]
  /\ IsLedger(c.ledger) /\ c.lessons \subseteq Work /\ c.digest \subseteq Work

WriterPhases == {"running", "opened", "done", "dead"}
DistillerPhases ==
  {"asleep", "prune", "ingest", "open ledger", "save ledger", "distill", "open lessons",
   "save lessons", "open digest", "save digest"}

IsLocal(l) ==
  /\ l = [pc |-> l.pc, loaded |-> l.loaded, shells |-> l.shells, state |-> l.state,
          new |-> l.new, lessons |-> l.lessons, copy |-> l.copy]
  /\ l.pc \in DistillerPhases
  /\ l.loaded \subseteq Work /\ l.shells \subseteq Shells
  /\ l.new \subseteq Work /\ l.lessons \subseteq Work
  /\ IsLedger(l.state) /\ IsContext(l.copy)

TypeOK ==
  /\ runs \subseteq Writer
  /\ IsContext(context)
  /\ writer \in [Writer -> [pc : WriterPhases, copy : SUBSET Writer]]
  /\ distiller = [d \in Distiller |-> distiller[d]]
  /\ \A d \in Distiller : IsLocal(distiller[d])
  /\ dropped \subseteq Work
  /\ overlapped \in BOOLEAN
  /\ failures \in 0..MaxFailures

Init ==
  /\ runs = {}
  /\ context = Empty
  /\ writer = [w \in Writer |-> [pc |-> "running", copy |-> {}]]
  /\ distiller = [d \in Distiller |-> Asleep]
  /\ dropped = {}
  /\ overlapped = FALSE
  /\ failures = 0

-----------------------------------------------------------------------------
(* record_run *)

Opens(w) ==
  /\ writer[w].pc = "running"
  /\ writer' = [writer EXCEPT ![w] = [pc |-> "opened", copy |-> runs]]
  /\ UNCHANGED <<runs, context, distiller, dropped, overlapped, failures>>

\* A plausible bug: the remote root is made equal to the copy.
BugSaves(w) ==
  /\ writer[w].pc = "opened"
  /\ runs' = writer[w].copy \cup {w}
  /\ writer' = [writer EXCEPT ![w] = [pc |-> "done", copy |-> {}]]
  /\ UNCHANGED <<context, distiller, dropped, overlapped, failures>>

Saves(w) ==
  /\ writer[w].pc = "opened"
  /\ runs' = runs \cup writer[w].copy \cup {w}
  /\ writer' = [writer EXCEPT ![w] = [pc |-> "done", copy |-> {}]]
  /\ UNCHANGED <<context, distiller, dropped, overlapped, failures>>

\* The run dies, or its record cannot be saved, which finish_run only logs.
Dies(w) ==
  /\ writer[w].pc \in {"running", "opened"}
  /\ writer' = [writer EXCEPT ![w] = [pc |-> "dead", copy |-> {}]]
  /\ UNCHANGED <<runs, context, distiller, dropped, overlapped, failures>>

-----------------------------------------------------------------------------
(* distiller *)

At(d, phase) == distiller[d].pc = phase

\* The cron fires: load_run_records_with_ids, split by did_no_work.
Load(d) ==
  /\ At(d, "asleep")
  /\ distiller' = [distiller EXCEPT
       ![d].pc = "prune",
       ![d].loaded = {w \in runs : ~DidNoWork(w)},
       ![d].shells = {w \in runs : DidNoWork(w)}]
  /\ UNCHANGED <<runs, context, writer, dropped, overlapped, failures>>

\* A plausible bug: the files are deleted from the local copy only.
BugPrune(d) ==
  /\ At(d, "prune")
  /\ \E w \in distiller[d].shells :
       distiller' = [distiller EXCEPT ![d].shells = @ \ {w}]
  /\ UNCHANGED <<runs, context, writer, dropped, overlapped, failures>>

\* delete_run_records: one file after the other, whether or not it is still there.
Prune(d) ==
  /\ At(d, "prune")
  /\ \E w \in distiller[d].shells :
       /\ runs' = runs \ {w}
       /\ distiller' = [distiller EXCEPT ![d].shells = @ \ {w}]
  /\ UNCHANGED <<context, writer, dropped, overlapped, failures>>

\* A delete that fails is logged and skipped.
PruneFails(d) ==
  /\ At(d, "prune")
  /\ failures < MaxFailures
  /\ \E w \in distiller[d].shells :
       distiller' = [distiller EXCEPT ![d].shells = @ \ {w}]
  /\ failures' = failures + 1
  /\ UNCHANGED <<runs, context, writer, dropped, overlapped>>

Pruned(d) ==
  /\ At(d, "prune")
  /\ distiller[d].shells = {}
  /\ distiller' = [distiller EXCEPT ![d].pc = "ingest"]
  /\ UNCHANGED <<runs, context, writer, dropped, overlapped, failures>>

\* The phases in which a round holds a ledger, lessons or a digest of its own.
Writes(d) == distiller[d].pc \notin {"asleep", "prune", "ingest"}

\* A plausible bug: everything loaded counts as new.
BugNew(d) == distiller[d].loaded

New(d) == SelectNewRecords(distiller[d].loaded, context.ledger)

\* _ingest: load_ingest_state, select_new_records and ingest_new_records.  Without new
\* records the round is over and the memory untouched.
Ingest(d) ==
  /\ At(d, "ingest")
  /\ distiller' = [distiller EXCEPT ![d] =
       IF New(d) = {}
       THEN Asleep
       ELSE [@ EXCEPT !.pc = "open ledger", !.loaded = {}, !.new = New(d),
                      !.state = IngestNewRecords(context.ledger, New(d))]]
  /\ overlapped' = (overlapped \/ (New(d) # {} /\ \E e \in Distiller \ {d} : Writes(e)))
  /\ UNCHANGED <<runs, context, writer, dropped, failures>>

\* Every write opens the store anew, changes one file of the copy and saves it all.
Open(d, phase, next) ==
  /\ At(d, phase)
  /\ distiller' = [distiller EXCEPT ![d].pc = next, ![d].copy = context]
  /\ UNCHANGED <<runs, context, writer, dropped, overlapped, failures>>

OpenLedger(d) == Open(d, "open ledger", "save ledger")
OpenLessons(d) == Open(d, "open lessons", "save lessons")
OpenDigest(d) == Open(d, "open digest", "save digest")

\* What the copy holds once this phase has changed its file.
Changed(d) ==
  LET me == distiller[d]
  IN  CASE me.pc = "save ledger" -> [me.copy EXCEPT !.ledger = me.state]
        [] me.pc = "save lessons" -> [me.copy EXCEPT !.lessons = me.lessons]
        [] me.pc = "save digest" -> [me.copy EXCEPT !.digest = me.lessons]

Saving(d) == distiller[d].pc \in {"save ledger", "save lessons", "save digest"}

\* A plausible bug: the digest is not rewritten.
BugSave(d) ==
  /\ Saving(d)
  /\ context' = Changed(d)
  /\ distiller' = [distiller EXCEPT ![d] =
       IF At(d, "save ledger")
       THEN [@ EXCEPT !.pc = "distill", !.copy = Empty, !.state = EmptyLedger]
       ELSE Asleep]
  /\ UNCHANGED <<runs, writer, dropped, overlapped, failures>>

Save(d) ==
  /\ Saving(d)
  /\ context' = Changed(d)
  /\ distiller' = [distiller EXCEPT ![d] =
       CASE At(d, "save ledger") -> [@ EXCEPT !.pc = "distill", !.copy = Empty, !.state = EmptyLedger]
         [] At(d, "save lessons") -> [@ EXCEPT !.pc = "open digest", !.copy = Empty]
         [] At(d, "save digest") -> Asleep]
  /\ UNCHANGED <<runs, writer, dropped, overlapped, failures>>

\* render_records_brief: the youngest of the new records.
Shown(new) == {w \in new : Cardinality({v \in new : w < v}) < Brief}

\* A plausible bug: the new lessons replace the prior ones.
BugFolded(d) == Shown(distiller[d].new)

Folded(d) == context.lessons \cup Shown(distiller[d].new)

\* _distill_lessons: the agent folds what it is shown into the prior lessons ...
Distill(d) ==
  /\ At(d, "distill")
  /\ distiller' = [distiller EXCEPT ![d].pc = "open lessons", ![d].lessons = Folded(d)]
  /\ dropped' = dropped \cup (distiller[d].new \ Shown(distiller[d].new))
  /\ UNCHANGED <<runs, context, writer, overlapped, failures>>

\* ... or answers nothing, and the prior lessons are written back.
DistillsNothing(d) ==
  /\ At(d, "distill")
  /\ failures < MaxFailures
  /\ distiller' = [distiller EXCEPT ![d].pc = "open lessons", ![d].lessons = context.lessons]
  /\ dropped' = dropped \cup distiller[d].new
  /\ failures' = failures + 1
  /\ UNCHANGED <<runs, context, writer, overlapped>>

LedgerSaved == {"distill", "open lessons", "save lessons", "open digest", "save digest"}

\* An exception, which the task turns into its result, or the death of the pod.
Fails(d) ==
  /\ ~At(d, "asleep")
  /\ failures < MaxFailures
  /\ dropped' = IF distiller[d].pc \in LedgerSaved THEN dropped \cup distiller[d].new ELSE dropped
  /\ distiller' = [distiller EXCEPT ![d] = Asleep]
  /\ failures' = failures + 1
  /\ UNCHANGED <<runs, context, writer, overlapped>>

\* The same, after a save that reached the store.
FailsAfterSave(d) ==
  /\ Saving(d)
  /\ failures < MaxFailures
  /\ context' = Changed(d)
  /\ dropped' = dropped \cup distiller[d].new
  /\ distiller' = [distiller EXCEPT ![d] = Asleep]
  /\ failures' = failures + 1
  /\ UNCHANGED <<runs, writer, overlapped>>

WriterStep(w) == Opens(w) \/ Saves(w)

DistillerStep(d) ==
  \/ Load(d) \/ Prune(d) \/ Pruned(d) \/ Ingest(d)
  \/ OpenLedger(d) \/ OpenLessons(d) \/ OpenDigest(d)
  \/ Save(d) \/ Distill(d)

Failure(d) == PruneFails(d) \/ DistillsNothing(d) \/ Fails(d) \/ FailsAfterSave(d)

Next ==
  \/ \E w \in Writer : WriterStep(w) \/ Dies(w)
  \/ \E d \in Distiller : DistillerStep(d) \/ Failure(d)

Spec == Init /\ [][Next]_vars

\* A run that has started comes to its end, the cron keeps firing the distiller and a
\* distiller that is not hit by a failure goes on.
Fairness ==
  /\ \A w \in Writer : WF_vars(WriterStep(w))
  /\ \A d \in Distiller : WF_vars(DistillerStep(d))

FairSpec == Spec /\ Fairness

-----------------------------------------------------------------------------
(* Properties *)

\* A saved record of work is never lost, however many runs save copies of the store at
\* once and whatever the distillers delete meanwhile.
RecordsSurvive == [][runs \ Shells \subseteq runs']_vars

IsExact(ledger) ==
  LET EnteredOf(t) == {w \in Entered(ledger) : RecordOf[w].target = t}
  IN  /\ Cardinality(Entered(ledger)) = Len(ledger.ids)
      /\ DOMAIN ledger.targets = {RecordOf[w].target : w \in Entered(ledger)} \ {NoTarget}
      /\ \A t \in DOMAIN ledger.targets :
           /\ ledger.targets[t].ingest_count = Cardinality(EnteredOf(t))
           /\ ledger.targets[t].last \in EnteredOf(t)
           /\ ledger.targets[t].has_pr <=> \E w \in EnteredOf(t) : RecordOf[w].has_pr

\* The ledger: rounds that overlap, fail or save an old copy may put an old ledger back, but
\* each ledger there is knows exactly the targets of the records entered in it, counts
\* each record once and knows of the pull request if any of them named one.
LedgerIsExact == IsExact(context.ledger)

\* The distiller never folds a record into the lessons that is there already: the ledger
\* and the lessons are different files, saved at different times, of one store.  (Here and
\* below, up to an overlap of rounds.)
DistilledOnce ==
  \A d \in Distiller :
     At(d, "distill") /\ ~overlapped => distiller[d].new \cap context.lessons = {}

\* A record in the ledger is in the lessons and in the digest, unless its round is still
\* under way, has failed or had too many records to show them all: with the ledger saved
\* first, nobody looks at it again.
DistilledOrDropped ==
  ~overlapped =>
    \A w \in Entered(context.ledger) :
       \/ w \in context.lessons /\ w \in context.digest
       \/ w \in dropped
       \/ \E d \in Distiller : w \in distiller[d].new

\* In the end every saved record of work is in the digest that the agents read, and stays
\* there, unless it is dropped that way.
RecordsReachAgents ==
  <>[](overlapped \/ runs \ Shells \subseteq context.digest \cup dropped)

\* Two distillers that overlap revert each other's ledger and lessons with their copies.
\* The ledger heals: once their writing rounds no longer overlap, every record of work
\* gets into it and stays.
OverlapHeals ==
  <>[](\A d, e \in Distiller : Writes(d) /\ Writes(e) => d = e)
    => <>[](runs \ Shells \subseteq Entered(context.ledger))

\* Records without work come back with the copies of runs that opened the store before
\* they were deleted, but not for ever.
ShellsVanish == <>[](runs \cap Shells = {})
=============================================================================
