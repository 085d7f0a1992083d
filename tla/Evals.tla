------------------------------- MODULE Evals --------------------------------
(***************************************************************************)
(* The incremental ledger of the distiller (evals.py), as operators on the *)
(* records of the runs.  A record is named by the run that writes it; runs *)
(* are numbered in the order of their timestamps.  Of a record only what   *)
(* the ledger keeps is modelled, of the ledger the ids and the entries of  *)
(* the targets; texts, verdicts and counts for the report are left out.    *)
(***************************************************************************)
EXTENDS Naturals, Sequences, FiniteSets

CONSTANTS
  Writer,       \* runs of the builder and the reviewer
  NoTarget,     \* of a run that claimed nothing
  RecordOf      \* writer -> its record: [no_work, target, has_pr]

ASSUME EvalsAssumption ==
  /\ Writer \subseteq Nat /\ IsFiniteSet(Writer)
  /\ \A w \in Writer :
       /\ RecordOf[w].no_work \in BOOLEAN /\ RecordOf[w].has_pr \in BOOLEAN
       /\ RecordOf[w].target = NoTarget => ~RecordOf[w].has_pr

\* did_no_work: the run claimed nothing and recorded no error.
DidNoWork(w) == RecordOf[w].no_work /\ RecordOf[w].target = NoTarget

\* IngestState.processed
Entered(ledger) == {ledger.ids[k] : k \in DOMAIN ledger.ids}

\* load_run_records_with_ids: by timestamp, so that k - 1 records come before the k-th.
ByTime(records) ==
  [k \in 1..Cardinality(records) |->
     CHOOSE w \in records : Cardinality({v \in records : v < w}) = k - 1]

NewEntry == [ingest_count |-> 0, last |-> 0, has_pr |-> FALSE]

EmptyLedger == [ids |-> <<>>, targets |-> [t \in {} |-> NewEntry]]

EntryOf(targets, t) == IF t \in DOMAIN targets THEN targets[t] ELSE NewEntry

\* A plausible bug: the entry is written from the record alone.
BugUpdated(entry, id) ==
  [ingest_count |-> entry.ingest_count + 1, last |-> id, has_pr |-> RecordOf[id].has_pr]

\* A record without a PR number leaves the one of an earlier record.
Updated(entry, id) ==
  [ingest_count |-> entry.ingest_count + 1,
   last |-> id,
   has_pr |-> entry.has_pr \/ RecordOf[id].has_pr]

\* A plausible bug: a target that has been ingested is passed over.
BugIngestOne(state, id) ==
  LET t == RecordOf[id].target
  IN  IF t \in DOMAIN state.targets
      THEN state
      ELSE [ids |-> Append(state.ids, id),
            targets |-> [u \in DOMAIN state.targets \cup ({t} \ {NoTarget}) |->
                           IF u = t THEN Updated(NewEntry, id) ELSE state.targets[u]]]

IngestOne(state, id) ==
  LET t == RecordOf[id].target
  IN  IF id \in Entered(state)
      THEN state
      ELSE [ids |-> Append(state.ids, id),
            targets |-> IF t = NoTarget THEN state.targets
                        ELSE [u \in DOMAIN state.targets \cup {t} |->
                                IF u = t THEN Updated(EntryOf(state.targets, t), id)
                                ELSE state.targets[u]]]

\* In the order of the timestamps.
IngestNewRecords(state, records) ==
  LET batch == ByTime(records)
      after[k \in 0..Len(batch)] ==
        IF k = 0 THEN state ELSE IngestOne(after[k - 1], batch[k])
  IN  after[Len(batch)]

SelectNewRecords(records, state) == records \ Entered(state)
=============================================================================
