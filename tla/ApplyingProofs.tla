--------------------------- MODULE ApplyingProofs ---------------------------
(***************************************************************************)
(* What the write tools do to GitHub whatever is retried, late or refused, *)
(* for every set of calls and branches and every decomposition: types,     *)
(* commits that land once, and sub-issues whose upstreams resolve.         *)
(***************************************************************************)
EXTENDS Applying, SequenceTheorems, FiniteSetTheorems, TLAPS

-----------------------------------------------------------------------------
(* Sequences *)

\* An element appended to a sequence is its last one, and the others stay.
LEMMA AppendOne ==
  ASSUME NEW S, NEW s \in Seq(S), NEW e \in S
  PROVE  /\ Append(s, e) \in Seq(S)
         /\ Len(s) \in Nat /\ DOMAIN s = 1..Len(s)
         /\ Len(Append(s, e)) = Len(s) + 1
         /\ DOMAIN Append(s, e) = 1..Len(s) + 1
         /\ \A i \in 1..Len(s) : Append(s, e)[i] = s[i]
         /\ Append(s, e)[Len(s) + 1] = e
<1>1. Append(s, e) \in Seq(S)
  OBVIOUS
<1>2. Len(s) \in Nat /\ DOMAIN s = 1..Len(s)
  OBVIOUS
<1>3. Len(Append(s, e)) = Len(s) + 1 /\ Append(s, e)[Len(s) + 1] = e
  OBVIOUS
<1>4. \A i \in 1..Len(s) : Append(s, e)[i] = s[i]
  OBVIOUS
<1>5. DOMAIN Append(s, e) = 1..Len(s) + 1
  BY <1>1, <1>3
<1> QED
  BY <1>1, <1>2, <1>3, <1>4, <1>5

\* One sequence is the beginning of another.
LEMMA PrefixIs ==
  ASSUME NEW S, NEW s \in Seq(S), NEW t \in Seq(S)
  PROVE  IsPrefix(s, t) <=> (Len(s) <= Len(t) /\ \A i \in 1..Len(s) : s[i] = t[i])
<1>1. ASSUME Len(s) <= Len(t)
      PROVE  /\ SubSeq(s, 1, Len(s)) \in Seq(S) /\ SubSeq(t, 1, Len(s)) \in Seq(S)
             /\ Len(SubSeq(s, 1, Len(s))) = Len(s) /\ Len(SubSeq(t, 1, Len(s))) = Len(s)
             /\ \A i \in 1..Len(s) : SubSeq(s, 1, Len(s))[i] = s[i] /\ SubSeq(t, 1, Len(s))[i] = t[i]
  BY <1>1, LenProperties, SubSeqProperties
<1>2. Len(s) \in Nat /\ Len(t) \in Nat
  OBVIOUS
<1>3. ASSUME Len(s) <= Len(t), \A i \in 1..Len(s) : s[i] = t[i]
      PROVE  SubSeq(s, 1, Len(s)) = SubSeq(t, 1, Len(s))
  BY <1>1, <1>3, SeqEqual
<1> QED
  BY <1>1, <1>2, <1>3 DEF IsPrefix
-----------------------------------------------------------------------------
(* How a step shows in the local variables of the calls *)

\* What a call carries from one request to the next.
Carries(l, m) == m.branch = l.branch /\ m.commit = l.commit /\ m.numbers = l.numbers

\* A call that has ended carries nothing.
Dropped(m) == m.pc \in Ended /\ m.commit = <<>> /\ m.numbers = <<>>

\* What Continues makes of the local variables.
LEMMA Continued ==
  ASSUME ApplyingAssumption,
         call \in [Call -> Local], NEW c \in Call, NEW phase \in Phases, NEW numbers \in Seq(Nat),
         Continues(c, phase, numbers)
  PROVE  /\ call' \in [Call -> Local]
         /\ \A d \in Call : d # c => call'[d] = call[d]
         /\ call'[c].pc = phase
         /\ phase \in Ended => Dropped(call'[c])
         /\ phase \notin Ended => /\ call'[c].branch = call[c].branch
                                  /\ call'[c].commit = call[c].commit
                                  /\ call'[c].numbers = numbers
<1> DEFINE l == call[c]
           k == IF phase \in Ended THEN [Fresh EXCEPT !.pc = phase]
                ELSE [l EXCEPT !.pc = phase, !.try = 0, !.numbers = numbers]
<1>1. l \in Local /\ call' = [call EXCEPT ![c] = k]
  BY DEF Continues
<1>2. 0 \in 0..MaxRetries /\ <<>> \in Seq(Call) /\ <<>> \in Seq(Nat)
  BY DEF ApplyingAssumption
<1>3. [Fresh EXCEPT !.pc = phase] \in Local
  BY <1>2 DEF Fresh, Local
<1>4. [l EXCEPT !.pc = phase, !.try = 0, !.numbers = numbers] \in Local
  BY <1>1, <1>2 DEF Local
<1>5. k \in Local /\ k.pc = phase
  BY <1>1, <1>3, <1>4 DEF Fresh, Local
<1>6. phase \in Ended => Dropped(k)
  BY DEF Fresh, Dropped
<1>7. phase \notin Ended => k.branch = l.branch /\ k.commit = l.commit /\ k.numbers = numbers
  BY <1>1 DEF Local
<1> HIDE DEF k, l
<1>8. call'[c] = k /\ call' \in [Call -> Local] /\ \A d \in Call : d # c => call'[d] = call[d]
  BY <1>1, <1>5
<1> QED
  BY <1>5, <1>6, <1>7, <1>8 DEF l

\* The same request is sent again, or the call gives up.
LEMMA SentAgain ==
  ASSUME ApplyingAssumption, call \in [Call -> Local], NEW c \in Call, SendsAgain(c)
  PROVE  /\ call' \in [Call -> Local]
         /\ \A d \in Call : d # c => call'[d] = call[d]
         /\ \/ call'[c].pc = call[c].pc /\ Carries(call[c], call'[c])
            \/ call'[c].pc = "raised" /\ Dropped(call'[c])
<1>1. CASE call[c].try < MaxRetries
  <2> DEFINE k == [call[c] EXCEPT !.try = @ + 1]
  <2>1. call' = [call EXCEPT ![c] = k]
    BY <1>1 DEF SendsAgain
  <2>2. call[c].try + 1 \in 0..MaxRetries
    BY <1>1 DEF ApplyingAssumption, Local
  <2>3. k \in Local /\ k.pc = call[c].pc /\ Carries(call[c], k)
    BY <2>2 DEF Local, Carries
  <2> HIDE DEF k
  <2> QED
    BY <2>1, <2>3
<1>2. CASE ~(call[c].try < MaxRetries)
  <2>1. Continues(c, "raised", call[c].numbers) /\ call[c].numbers \in Seq(Nat)
    BY <1>2 DEF SendsAgain, Goes, Local
  <2> QED
    BY <2>1, Continued DEF Phases, Ended
<1> QED
  BY <1>1, <1>2

\* What a step of a call makes of its local variables.
LEMMA Fields ==
  ASSUME ApplyingAssumption, TypeOK, NEW c \in Call
  PROVE  LET l == call[c]
             m == call'[c]
         IN  /\ Starts(c) => /\ l.pc = "idle" /\ m.commit = l.commit /\ m.numbers = l.numbers
                             /\ \/ c \in Opener /\ m.pc = "look" /\ m.branch \in Branch
                                \/ c \in Pusher /\ m.pc = "read" /\ \E p \in prs : m.branch = p.branch
                                \/ c \in Decomposer /\ m.pc = "file"
             /\ Looks(c) => l.pc = "look" /\ m.pc \in {"seed", "create"} /\ Carries(l, m)
             /\ Reads(c) => /\ l.pc = "read" /\ m.pc = "move" /\ m.branch = l.branch
                            /\ m.commit = Append(head[l.branch], c) /\ m.numbers = l.numbers
             /\ Answered(c) => /\ l.pc \in Writing /\ m.pc = NextPhase(c)
                               /\ m.pc \in Ended => Dropped(m)
                               /\ m.pc \notin Ended =>
                                    /\ m.branch = l.branch /\ m.commit = l.commit
                                    /\ m.numbers = IF l.pc = "file" THEN Append(l.numbers, Len(issues'))
                                                   ELSE l.numbers
             /\ Conflicts(c) => \/ l.pc = "create" /\ m.pc = "read" /\ Carries(l, m)
                                \/ l.pc \in Writing /\ Dropped(m) /\ m.pc = "raised"
             /\ TimesOut(c) \/ Refused(c) =>
                  /\ l.pc \in Writing
                  /\ \/ m.pc = l.pc /\ Carries(l, m)
                     \/ Dropped(m) /\ m.pc = "raised"
             /\ Raises(c) => l.pc \notin {"idle"} \cup Ended /\ Dropped(m) /\ m.pc = "raised"
             /\ Starts(c) \/ CallStep(c) \/ Raises(c) =>
                  /\ call' \in [Call -> Local]
                  /\ \A d \in Call : d # c => call'[d] = call[d]
<1> DEFINE l == call[c]
           m == call'[c]
           Alone == call' \in [Call -> Local] /\ \A d \in Call : d # c => call'[d] = call[d]
<1>0. /\ call \in [Call -> Local] /\ l \in Local /\ l.numbers \in Seq(Nat)
      /\ l.pc \in {"read", "move", "open"} => l.branch \in DOMAIN head
      /\ head \in [DOMAIN head -> Seq(Call)] /\ DOMAIN head \subseteq Branch
      /\ \A p \in prs : p.branch \in DOMAIN head
      /\ \A n \in Nat : Append(l.numbers, n) \in Seq(Nat)
  BY DEF TypeOK, LocalOK, Local
<1>1. ASSUME Starts(c)
      PROVE  /\ l.pc = "idle" /\ m.commit = l.commit /\ m.numbers = l.numbers
             /\ \/ c \in Opener /\ m.pc = "look" /\ m.branch \in Branch
                \/ c \in Pusher /\ m.pc = "read" /\ \E p \in prs : m.branch = p.branch
                \/ c \in Decomposer /\ m.pc = "file"
             /\ Alone
  <2>1. ASSUME NEW b \in Branch, NEW phase \in {"look", "read"},
               call' = [call EXCEPT ![c].pc = phase, ![c].branch = b]
        PROVE  /\ Alone /\ m.pc = phase /\ m.branch = b
               /\ m.commit = l.commit /\ m.numbers = l.numbers
    <3> DEFINE k == [l EXCEPT !.pc = phase, !.branch = b]
    <3>1. k \in Local /\ k.pc = phase /\ k.branch = b /\ k.commit = l.commit /\ k.numbers = l.numbers
      BY <1>0 DEF Local, Phases
    <3>2. call' = [call EXCEPT ![c] = k]
      BY <1>0, <2>1 DEF Local
    <3> HIDE DEF k
    <3> QED
      BY <1>0, <3>1, <3>2
  <2>2. ASSUME Goes(c, "file")
        PROVE  Alone /\ m.pc = "file" /\ m.commit = l.commit /\ m.numbers = l.numbers
    BY <1>0, <2>2, Continued DEF Goes, Phases, Writing, Ended
  <2>3. l.pc = "idle"
    BY <1>1 DEF Starts, At
  <2>4. CASE c \in Opener /\ \E b \in Branch : call' = [call EXCEPT ![c].pc = "look", ![c].branch = b]
    BY <2>1, <2>3, <2>4
  <2>5. CASE c \in Pusher
             /\ \E p \in prs : call' = [call EXCEPT ![c].pc = "read", ![c].branch = p.branch]
    BY <1>0, <2>1, <2>3, <2>5
  <2>6. CASE c \in Decomposer /\ Goes(c, "file")
    BY <2>2, <2>3, <2>6
  <2> QED
    BY <1>1, <2>4, <2>5, <2>6 DEF Starts
<1>2. ASSUME NEW phase \in Phases \ Ended, Goes(c, phase)
      PROVE  Alone /\ m.pc = phase /\ Carries(l, m)
  BY <1>0, <1>2, Continued DEF Goes, Carries
<1>3. ASSUME Goes(c, "raised") PROVE Alone /\ m.pc = "raised" /\ Dropped(m)
  BY <1>0, <1>3, Continued DEF Goes, Phases, Ended
<1>4. Looks(c) => l.pc = "look" /\ m.pc \in {"seed", "create"} /\ Carries(l, m) /\ Alone
  BY <1>2 DEF Looks, At, Phases, Writing, Ended
<1>5. ASSUME Reads(c)
      PROVE  /\ l.pc = "read" /\ m.pc = "move" /\ m.branch = l.branch
             /\ m.commit = Append(head[l.branch], c) /\ m.numbers = l.numbers /\ Alone
  <2> DEFINE h == Append(head[l.branch], c)
             k == [l EXCEPT !.pc = "move", !.commit = h]
  <2>1. l.pc = "read" /\ l.branch \in DOMAIN head
    BY <1>0, <1>5 DEF Reads, At
  <2>2. h \in Seq(Call)
    BY <1>0, <2>1, AppendOne
  <2>3. call' = [call EXCEPT ![c] = k]
    BY <1>0, <1>5 DEF Reads, Local
  <2> HIDE DEF h
  <2>4. k \in Local /\ k.pc = "move" /\ k.branch = l.branch /\ k.commit = h /\ k.numbers = l.numbers
    BY <1>0, <2>2 DEF Local, Phases, Writing
  <2> HIDE DEF k
  <2> QED
    BY <1>0, <2>1, <2>3, <2>4 DEF h
<1>6. ASSUME Answered(c)
      PROVE  /\ l.pc \in Writing /\ m.pc = NextPhase(c)
             /\ m.pc \in Ended => Dropped(m)
             /\ m.pc \notin Ended =>
                  /\ m.branch = l.branch /\ m.commit = l.commit
                  /\ m.numbers = IF l.pc = "file" THEN Append(l.numbers, Len(issues')) ELSE l.numbers
             /\ Alone
  <2> DEFINE numbers == IF l.pc = "file" THEN Append(l.numbers, Len(issues')) ELSE l.numbers
  <2>1. l.pc \in Writing /\ Continues(c, NextPhase(c), numbers)
    BY <1>6 DEF Answered, Proceeds, At
  <2>2. NextPhase(c) \in Phases
    BY DEF NextPhase, Phases, Writing, Ended
  <2>3. Len(issues') \in Nat
    <3>1. issues \in Seq([by : Call, item : DOMAIN Staged, upstreams : SUBSET (1..Len(issues))])
      BY DEF TypeOK
    <3>2. issues' = issues \/ \E i : issues' = Append(issues, i)
      BY <1>6 DEF Answered, Performs
    <3> QED
      BY <3>1, <3>2
  <2>4. numbers \in Seq(Nat)
    BY <1>0, <2>3
  <2> HIDE DEF numbers
  <2>5. /\ Alone /\ m.pc = NextPhase(c)
        /\ m.pc \in Ended => Dropped(m)
        /\ m.pc \notin Ended =>
             m.branch = l.branch /\ m.commit = l.commit /\ m.numbers = numbers
    BY <1>0, <2>1, <2>2, <2>4, Continued
  <2> QED
    BY <2>1, <2>5 DEF numbers
<1>7. ASSUME Conflicts(c)
      PROVE  /\ \/ l.pc = "create" /\ m.pc = "read" /\ Carries(l, m)
                \/ l.pc \in Writing /\ Dropped(m) /\ m.pc = "raised"
             /\ Alone
  BY <1>2, <1>3, <1>7 DEF Conflicts, At, Phases, Ended
<1>8. ASSUME TimesOut(c) \/ Refused(c)
      PROVE  /\ l.pc \in Writing
             /\ \/ m.pc = l.pc /\ Carries(l, m)
                \/ Dropped(m) /\ m.pc = "raised"
             /\ Alone
  BY <1>0, <1>8, SentAgain DEF TimesOut, Refused
<1>9. ASSUME Raises(c)
      PROVE  l.pc \notin {"idle"} \cup Ended /\ Dropped(m) /\ m.pc = "raised" /\ Alone
  BY <1>3, <1>9 DEF Raises
<1> HIDE DEF l, m, Alone
<1> QED
  BY <1>1, <1>4, <1>5, <1>6, <1>7, <1>8, <1>9 DEF CallStep, l, m, Alone
-----------------------------------------------------------------------------
(* How a step shows on GitHub *)

\* Nothing that a branch or a sub-issue has is taken back.
Grows ==
  /\ DOMAIN head \subseteq DOMAIN head'
  /\ DOMAIN issues \subseteq DOMAIN issues'
  /\ \A n \in DOMAIN issues : issues'[n] = issues[n]
  /\ closed \subseteq closed'

Issue == [by : Call, item : DOMAIN Staged, upstreams : SUBSET Nat]

\* The sub-issue that a request files.
IssueOf(q) == [by |-> q.by, item |-> q.item, upstreams |-> q.upstreams]

\* What GitHub makes of a request that it accepts.
LEMMA Performed ==
  ASSUME TypeOK, NEW q, RequestOK(q), Accepts(q), Performs(q)
  PROVE  /\ Grows
         /\ DOMAIN head' \subseteq Branch /\ head' \in [DOMAIN head' -> Seq(Call)]
         /\ q.kind = "create" =>
              /\ q.branch \notin DOMAIN head /\ DOMAIN head' = DOMAIN head \cup {q.branch}
              /\ head'[q.branch] = q.commit /\ \A b \in DOMAIN head : head'[b] = head[b]
         /\ q.kind = "move" =>
              /\ IsPrefix(head[q.branch], q.commit)
              /\ DOMAIN head' = DOMAIN head /\ head'[q.branch] = q.commit
              /\ \A b \in DOMAIN head : b # q.branch => head'[b] = head[b]
         /\ q.kind \notin {"create", "move"} => head' = head
         /\ q.kind = "file" => issues' = Append(issues, IssueOf(q)) /\ IssueOf(q) \in Issue
         /\ q.kind # "file" => issues' = issues
         /\ issues' \in Seq(Issue)
         /\ \A n \in DOMAIN issues' : issues'[n].upstreams \subseteq DOMAIN issues
         /\ prs' \subseteq [by : Call, branch : DOMAIN head', open : BOOLEAN]
         /\ seeded' \in BOOLEAN /\ closed' \subseteq Call
<1>1. /\ q.kind \in Writing /\ q.by \in Call /\ q.branch \in Branch \cup {None}
      /\ q.commit \in Seq(Call)
      /\ q.kind = "create" => q.branch \in Branch
      /\ q.kind \in {"move", "open"} => q.branch \in DOMAIN head
      /\ q.kind = "file" => q.item \in DOMAIN Staged /\ q.upstreams \in SUBSET DOMAIN issues
      /\ q.item \in Nat /\ q.upstreams \in SUBSET Nat
  BY DEF RequestOK, Request
<1>2. DOMAIN head \subseteq Branch /\ head \in [DOMAIN head -> Seq(Call)]
  BY DEF TypeOK
<1>3. /\ issues \in Seq(Issue) /\ DOMAIN issues = 1..Len(issues) /\ Len(issues) \in Nat
      /\ \A n \in DOMAIN issues : issues[n].upstreams \subseteq DOMAIN issues
  <2> DEFINE I == [by : Call, item : DOMAIN Staged, upstreams : SUBSET (1..Len(issues))]
  <2>1. issues \in Seq(I)
    BY DEF TypeOK
  <2> HIDE DEF I
  <2>2. Len(issues) \in Nat /\ DOMAIN issues = 1..Len(issues) /\ issues \in [1..Len(issues) -> I]
    BY <2>1, LenProperties
  <2>3. \A i \in I : i \in Issue /\ i.upstreams \subseteq 1..Len(issues)
    BY <2>2 DEF I, Issue
  <2>4. \A n \in 1..Len(issues) : issues[n] \in I
    BY <2>2
  <2>5. issues \in [1..Len(issues) -> Issue]
    BY <2>2, <2>3, <2>4
  <2> QED
    BY <2>2, <2>3, <2>4, <2>5
<1>4. /\ DOMAIN head \subseteq DOMAIN head' /\ DOMAIN head' \subseteq Branch
      /\ head' \in [DOMAIN head' -> Seq(Call)]
      /\ q.kind = "create" =>
           /\ q.branch \notin DOMAIN head /\ DOMAIN head' = DOMAIN head \cup {q.branch}
           /\ head'[q.branch] = q.commit /\ \A b \in DOMAIN head : head'[b] = head[b]
      /\ q.kind = "move" =>
           /\ IsPrefix(head[q.branch], q.commit)
           /\ DOMAIN head' = DOMAIN head /\ head'[q.branch] = q.commit
           /\ \A b \in DOMAIN head : b # q.branch => head'[b] = head[b]
      /\ q.kind \notin {"create", "move"} => head' = head
  <2>1. CASE q.kind \in {"create", "move"}
    <3>1. head' = [b \in DOMAIN head \cup {q.branch} |-> IF b = q.branch THEN q.commit ELSE head[b]]
      BY <2>1 DEF Performs
    <3>2. /\ q.kind = "create" => q.branch \notin DOMAIN head
          /\ q.kind = "move" => IsPrefix(head[q.branch], q.commit)
      BY DEF Accepts
    <3> QED
      BY <1>1, <1>2, <2>1, <3>1, <3>2
  <2>2. CASE q.kind \notin {"create", "move"}
    BY <1>2, <2>2 DEF Performs
  <2> QED
    BY <2>1, <2>2
<1>5. /\ q.kind = "file" => issues' = Append(issues, IssueOf(q)) /\ IssueOf(q) \in Issue
      /\ q.kind # "file" => issues' = issues
  BY <1>1 DEF Performs, Issue, IssueOf
<1>6. /\ issues' \in Seq(Issue) /\ DOMAIN issues \subseteq DOMAIN issues'
      /\ \A n \in DOMAIN issues : issues'[n] = issues[n]
      /\ \A n \in DOMAIN issues' : issues'[n].upstreams \subseteq DOMAIN issues
  <2>1. CASE q.kind = "file"
    <3>1. IssueOf(q).upstreams \subseteq DOMAIN issues
      BY <1>1, <2>1 DEF IssueOf
    <3> HIDE DEF Issue
    <3>2. /\ issues' \in Seq(Issue) /\ DOMAIN issues' = 1..Len(issues) + 1
          /\ \A n \in 1..Len(issues) : issues'[n] = issues[n]
          /\ issues'[Len(issues) + 1] = IssueOf(q)
      BY <1>3, <1>5, <2>1, AppendOne
    <3>3. \A n \in DOMAIN issues' : n \in DOMAIN issues \/ n = Len(issues) + 1
      BY <1>3, <3>2
    <3> QED
      BY <1>3, <3>1, <3>2, <3>3
  <2>2. CASE q.kind # "file"
    BY <1>3, <1>5, <2>2
  <2> QED
    BY <2>1, <2>2
<1>7. prs' \subseteq [by : Call, branch : DOMAIN head', open : BOOLEAN]
  <2>1. prs \subseteq [by : Call, branch : DOMAIN head, open : BOOLEAN]
    BY DEF TypeOK
  <2>2. CASE q.kind = "open"
    <3>1. prs' = prs \cup {[by |-> q.by, branch |-> q.branch, open |-> TRUE]}
      BY <2>2 DEF Performs
    <3>2. q.by \in Call /\ q.branch \in DOMAIN head'
      BY <1>1, <1>4, <2>2
    <3>3. \A p \in prs : p \in [by : Call, branch : DOMAIN head', open : BOOLEAN]
      BY <1>4, <2>1
    <3>4. [by |-> q.by, branch |-> q.branch, open |-> TRUE]
             \in [by : Call, branch : DOMAIN head', open : BOOLEAN]
      BY <3>2
    <3> QED
      BY <3>1, <3>3, <3>4
  <2>3. CASE q.kind # "open"
    BY <1>4, <2>1, <2>3 DEF Performs
  <2> QED
    BY <2>2, <2>3
<1>8. seeded' \in BOOLEAN /\ closed' \subseteq Call /\ closed \subseteq closed'
  <2>1. seeded \in BOOLEAN /\ closed \subseteq Call
    BY DEF TypeOK
  <2> QED
    BY <1>1, <2>1 DEF Performs
<1>9. Grows
  BY <1>4, <1>6, <1>8 DEF Grows
<1> QED
  BY <1>4, <1>5, <1>6, <1>7, <1>8, <1>9
\* The request that a call has under way is well formed.
LEMMA OutgoingOK ==
  ASSUME ApplyingAssumption, TypeOK, NEW c \in Call, call[c].pc \in Writing
  PROVE  /\ RequestOK(Outgoing(c))
         /\ Outgoing(c).kind = call[c].pc /\ Outgoing(c).by = c
         /\ Outgoing(c).branch = call[c].branch /\ Outgoing(c).commit = call[c].commit
         /\ call[c].pc = "file" => /\ Outgoing(c).item = Len(call[c].numbers) + 1
                                   /\ Outgoing(c).upstreams = Upstreams(c)
<1> DEFINE l == call[c]
           q == Outgoing(c)
<1>1. /\ l \in Local /\ l.numbers \in Seq(Nat)
      /\ l.pc \in {"look", "seed", "create"} => l.branch \in Branch
      /\ l.pc \in {"read", "move", "open"} => l.branch \in DOMAIN head
      /\ l.pc = "file" => Len(l.numbers) < Len(Staged)
      /\ l.pc = "create" => l.commit = <<>>
      /\ \A j \in DOMAIN l.numbers : l.numbers[j] \in DOMAIN issues
  BY DEF TypeOK, LocalOK, Local
<1>2. /\ q.kind = l.pc /\ q.by = c /\ q.try = l.try /\ q.branch = l.branch /\ q.commit = l.commit
      /\ l.pc = "file" => q.item = Len(l.numbers) + 1 /\ q.upstreams = Upstreams(c)
      /\ l.pc # "file" => q.item = 0 /\ q.upstreams = {}
      /\ q = [kind |-> q.kind, by |-> q.by, try |-> q.try, branch |-> q.branch,
              commit |-> q.commit, item |-> q.item, upstreams |-> q.upstreams]
  BY DEF Outgoing, At, Item
<1>3. Upstreams(c) \subseteq DOMAIN issues /\ Upstreams(c) \subseteq Nat
  <2>1. \A j \in DOMAIN l.numbers : l.numbers[j] \in Nat
    BY <1>1
  <2> QED
    BY <1>1, <2>1 DEF Upstreams
<1>4. l.pc = "file" => Len(l.numbers) + 1 \in DOMAIN Staged /\ Len(l.numbers) + 1 \in Nat
  <2>1. Len(l.numbers) \in Nat /\ Len(Staged) \in Nat /\ DOMAIN Staged = 1..Len(Staged)
    BY <1>1, LenProperties DEF ApplyingAssumption
  <2> QED
    BY <1>1, <2>1
<1>5. l.try \in 0..MaxRetries /\ l.branch \in Branch \cup {None} /\ l.commit \in Seq(Call)
  BY <1>1 DEF Local
<1> HIDE DEF q
<1>6. q \in Request
  <2>1. q.item \in Nat /\ q.upstreams \in SUBSET Nat
    BY <1>2, <1>3, <1>4
  <2>2. q.kind \in Writing /\ q.by \in Call
    BY <1>2
  <2> HIDE DEF l
  <2>3. q.try \in 0..MaxRetries /\ q.branch \in Branch \cup {None} /\ q.commit \in Seq(Call)
    BY <1>2, <1>5
  <2> QED
    BY <1>2, <2>1, <2>2, <2>3 DEF Request
<1>7. RequestOK(q)
  BY <1>1, <1>2, <1>3, <1>4, <1>6 DEF RequestOK
<1> QED
  BY <1>2, <1>7 DEF q

\* Every step of the system is a step of one call, the arrival of a late request, or a
\* maintainer's; and what it performs on GitHub is the request of a call or a late one.
LEMMA Steps ==
  ASSUME ApplyingAssumption, TypeOK, [Next]_vars
  PROVE  /\ \/ UNCHANGED call
            \/ \E c \in Call : Starts(c) \/ CallStep(c) \/ Raises(c)
         /\ \/ wire' \subseteq wire
            \/ \E c \in Call : TimesOut(c) /\ wire' = wire \cup {Outgoing(c)}
         /\ \/ UNCHANGED github
            \/ \E c \in Call : Answered(c) /\ RequestOK(Outgoing(c))
                               /\ Accepts(Outgoing(c)) /\ Performs(Outgoing(c))
            \/ \E q \in wire : Accepts(q) /\ Performs(q) /\ UNCHANGED call
            \/ \E p \in prs : Settles(p)
<1>1. ASSUME NEW c \in Call, Starts(c) \/ Raises(c)
      PROVE  UNCHANGED <<github, wire>>
  BY <1>1 DEF Starts, Raises
<1>2. ASSUME NEW c \in Call, CallStep(c)
      PROVE  /\ wire' \subseteq wire \/ (TimesOut(c) /\ wire' = wire \cup {Outgoing(c)})
             /\ \/ UNCHANGED github
                \/ Answered(c) /\ RequestOK(Outgoing(c))
                   /\ Accepts(Outgoing(c)) /\ Performs(Outgoing(c))
  <2>1. CASE Looks(c) \/ Reads(c) \/ Conflicts(c) \/ Refused(c)
    BY <2>1 DEF Looks, Reads, Conflicts, Refused
  <2>2. CASE Answered(c)
    BY <2>2, OutgoingOK DEF Answered
  <2>3. CASE TimesOut(c)
    BY <2>3 DEF TimesOut
  <2> QED
    BY <1>2, <2>1, <2>2, <2>3 DEF CallStep
<1>3. ASSUME NEW q \in wire, Arrives(q)
      PROVE  /\ UNCHANGED call /\ wire' \subseteq wire
             /\ UNCHANGED github \/ (Accepts(q) /\ Performs(q))
  BY <1>3 DEF Arrives
<1>4. ASSUME NEW p \in prs, Settles(p) PROVE UNCHANGED <<call, wire>>
  BY <1>4 DEF Settles
<1>5. CASE UNCHANGED vars
  BY <1>5 DEF vars
<1>6. CASE \E c \in Call : Starts(c) \/ Raises(c)
  BY <1>1, <1>6
<1>7. CASE \E c \in Call : CallStep(c)
  BY <1>2, <1>7
<1>8. CASE \E q \in wire : Arrives(q)
  BY <1>3, <1>8
<1>9. CASE \E p \in prs : Settles(p)
  BY <1>4, <1>9
<1> QED
  BY <1>5, <1>6, <1>7, <1>8, <1>9 DEF Next
-----------------------------------------------------------------------------
(* Type correctness *)

\* The phases of each kind of call.
LEMMA PhasesAre ==
  ASSUME ApplyingAssumption, NEW c \in Call
  PROVE  /\ c \in Opener => PhasesOf(c) = {"idle", "look", "seed", "create", "read", "move", "open"}
                                          \cup Ended
         /\ c \in Pusher => PhasesOf(c) = {"idle", "read", "move"} \cup Ended
         /\ c \in Decomposer => PhasesOf(c) = {"idle", "file", "close"} \cup Ended
         /\ c \in Opener \/ c \in Pusher \/ c \in Decomposer
<1>1. /\ c \in Pusher => c \notin Opener
      /\ c \in Decomposer => c \notin Opener /\ c \notin Pusher
      /\ c \in Opener \/ c \in Pusher \/ c \in Decomposer
  BY DEF Call, ApplyingAssumption
<1> QED
  BY <1>1 DEF PhasesOf

\* What is well formed stays so as GitHub grows.
LEMMA RequestStays == ASSUME NEW q, RequestOK(q), Grows PROVE RequestOK(q)'
BY DEF RequestOK, Grows

\* Local variables that are well formed while these branches and sub-issues are there.
LocalFits(c, l, branches, numbers) ==
  /\ l \in Local
  /\ l.pc \in PhasesOf(c)
  /\ l.pc \in {"look", "seed", "create"} => l.branch \in Branch
  /\ l.pc \in {"read", "move", "open"} => l.branch \in branches
  /\ l.pc = "file" => Len(l.numbers) < Len(Staged)
  /\ l.pc \notin {"move", "open"} => l.commit = <<>>
  /\ l.pc \notin {"file", "close"} => l.numbers = <<>>
  /\ \A j \in DOMAIN l.numbers : l.numbers[j] \in numbers

\* They stay so as GitHub grows.
LEMMA LocalStays ==
  /\ \A c, l : LocalOK(c, l) <=> LocalFits(c, l, DOMAIN head, DOMAIN issues)
  /\ \A c \in Call :
       LocalOK(c, call[c])' <=> LocalFits(c, call'[c], DOMAIN head', DOMAIN issues')
  /\ Grows => \A c, l : LocalFits(c, l, DOMAIN head, DOMAIN issues)
                          => LocalFits(c, l, DOMAIN head', DOMAIN issues')
BY DEF LocalOK, LocalFits, Grows

\* The types of what is on GitHub.
OnGitHub ==
  /\ seeded \in BOOLEAN
  /\ DOMAIN head \subseteq Branch /\ head \in [DOMAIN head -> Seq(Call)]
  /\ prs \subseteq [by : Call, branch : DOMAIN head, open : BOOLEAN]
  /\ issues \in Seq(Issue) /\ \A n \in DOMAIN issues : issues[n].upstreams \subseteq DOMAIN issues
  /\ closed \subseteq Call

\* They are those of the type invariant.
LEMMA TypeIs ==
  TypeOK <=> /\ OnGitHub
             /\ \A q \in wire : RequestOK(q)
             /\ call \in [Call -> Local] /\ \A c \in Call : LocalOK(c, call[c])
<1> DEFINE I == [by : Call, item : DOMAIN Staged, upstreams : SUBSET (1..Len(issues))]
<1> SUFFICES issues \in Seq(I) <=>
               /\ issues \in Seq(Issue)
               /\ \A n \in DOMAIN issues : issues[n].upstreams \subseteq DOMAIN issues
  BY Zenon DEF TypeOK, OnGitHub
<1>1. ASSUME NEW S, issues \in Seq(S)
      PROVE  /\ Len(issues) \in Nat /\ DOMAIN issues = 1..Len(issues)
             /\ \A n \in DOMAIN issues : issues[n] \in S
             /\ \A T : (\A n \in DOMAIN issues : issues[n] \in T) => issues \in Seq(T)
  <2>1. Len(issues) \in Nat /\ DOMAIN issues = 1..Len(issues) /\ issues \in [1..Len(issues) -> S]
    BY <1>1, LenProperties
  <2>2. ASSUME NEW T, \A n \in DOMAIN issues : issues[n] \in T PROVE issues \in Seq(T)
    <3>1. issues \in [1..Len(issues) -> T]
      BY <2>1, <2>2
    <3> QED
      BY <2>1, <3>1
  <2> QED
    BY <2>1, <2>2
<1>2. ASSUME Len(issues) \in Nat, DOMAIN issues = 1..Len(issues)
      PROVE  \A i : i \in I <=> (i \in Issue /\ i.upstreams \subseteq DOMAIN issues)
  <2>1. \A n \in 1..Len(issues) : n \in Nat
    BY <1>2
  <2> QED
    BY <1>2, <2>1 DEF Issue
<1> HIDE DEF I
<1> QED
  BY <1>1, <1>2

\* So they are after a step.
LEMMA TypeIsNext ==
  (TypeOK <=> /\ OnGitHub
              /\ \A q \in wire : RequestOK(q)
              /\ call \in [Call -> Local] /\ \A c \in Call : LocalOK(c, call[c]))'
BY TypeIs, PTL

\* GitHub stays well typed, and only grows.
LEMMA GitHubStep ==
  ASSUME ApplyingAssumption, TypeOK, [Next]_vars
  PROVE  OnGitHub' /\ Grows
<1>1. OnGitHub /\ \A q \in wire : RequestOK(q)
  BY TypeIs
<1>2. ASSUME NEW q, RequestOK(q), Accepts(q), Performs(q) PROVE OnGitHub' /\ Grows
  <2>1. /\ Grows
        /\ DOMAIN head' \subseteq Branch /\ head' \in [DOMAIN head' -> Seq(Call)]
        /\ issues' \in Seq(Issue)
        /\ \A n \in DOMAIN issues' : issues'[n].upstreams \subseteq DOMAIN issues
        /\ prs' \subseteq [by : Call, branch : DOMAIN head', open : BOOLEAN]
        /\ seeded' \in BOOLEAN /\ closed' \subseteq Call
    BY <1>2, Performed
  <2>2. DOMAIN issues \subseteq DOMAIN issues'
    BY <2>1 DEF Grows
  <2>3. \A n \in DOMAIN issues' : issues'[n].upstreams \subseteq DOMAIN issues'
    BY <2>1, <2>2
  <2>4. (issues \in Seq(Issue))' <=> issues' \in Seq(Issue)
    BY DEF Issue
  <2> HIDE DEF Issue
  <2> QED
    BY Zenon, <2>1, <2>3 DEF OnGitHub
<1>3. CASE UNCHANGED github
  BY <1>1, <1>3 DEF OnGitHub, Grows, github
<1>4. ASSUME NEW p \in prs, Settles(p) PROVE OnGitHub' /\ Grows
  <2>1. /\ prs' = (prs \ {p}) \cup {[p EXCEPT !.open = FALSE]}
        /\ UNCHANGED <<seeded, head, issues, closed>>
    BY <1>4 DEF Settles
  <2>2. prs' \subseteq [by : Call, branch : DOMAIN head, open : BOOLEAN]
    <3>1. prs \subseteq [by : Call, branch : DOMAIN head, open : BOOLEAN]
      BY <1>1 DEF OnGitHub
    <3>2. [p EXCEPT !.open = FALSE] \in [by : Call, branch : DOMAIN head, open : BOOLEAN]
      BY <3>1
    <3> QED
      BY <2>1, <3>1, <3>2
  <2> QED
    BY <1>1, <2>1, <2>2 DEF OnGitHub, Grows
<1>5. \/ UNCHANGED github
      \/ \E q : RequestOK(q) /\ Accepts(q) /\ Performs(q)
      \/ \E p \in prs : Settles(p)
  BY <1>1, Steps
<1> QED
  BY <1>2, <1>3, <1>4, <1>5

\* What a step of a call leaves is well formed.
LEMMA LocalStep ==
  ASSUME ApplyingAssumption, TypeOK, [Next]_vars, NEW c \in Call,
         Starts(c) \/ CallStep(c) \/ Raises(c)
  PROVE  LocalFits(c, call'[c], DOMAIN head', DOMAIN issues')
<1> DEFINE l == call[c]
           m == call'[c]
<1>1. /\ OnGitHub' /\ Grows /\ OnGitHub /\ m \in Local /\ LocalOK(c, l)
      /\ LocalFits(c, l, DOMAIN head', DOMAIN issues')
  <2>1. LocalOK(c, l)
    BY TypeIs
  <2>2. m \in Local
    BY Fields
  <2> QED
    BY <2>1, <2>2, GitHubStep, TypeIs, LocalStays
<1>2. ASSUME Dropped(m) PROVE LocalFits(c, m, DOMAIN head', DOMAIN issues')
  <2>1. m.pc \in PhasesOf(c)
    BY <1>2 DEF Dropped, PhasesOf
  <2> QED
    BY <1>1, <1>2, <2>1 DEF Dropped, LocalFits, Ended, PhasesOf
<1>3. ASSUME m.pc = l.pc, Carries(l, m) PROVE LocalFits(c, m, DOMAIN head', DOMAIN issues')
  BY <1>1, <1>3 DEF Carries, LocalFits
\* The branch of a call that goes on is where its next phase needs it.
<1>4. ASSUME m.commit = <<>>, m.numbers = <<>>, m.pc \in PhasesOf(c),
             m.pc \notin {"move", "open", "file", "close"},
             m.pc \in {"look", "seed", "create"} => m.branch \in Branch,
             m.pc = "read" => m.branch \in DOMAIN head'
      PROVE  LocalFits(c, m, DOMAIN head', DOMAIN issues')
  BY <1>1, <1>4 DEF LocalFits
<1>5. l.commit = <<>> \/ l.pc \in {"move", "open"}
  BY <1>1 DEF LocalOK
<1>6. l.numbers = <<>> \/ l.pc \in {"file", "close"}
  BY <1>1 DEF LocalOK
<1>7. /\ l.pc \in PhasesOf(c)
      /\ l.pc \in {"look", "seed", "create"} => l.branch \in Branch
      /\ l.pc \in {"read", "move", "open"} => l.branch \in DOMAIN head'
  BY <1>1 DEF LocalOK, Grows
<1>8. CASE Starts(c)
  <2>1. l.commit = <<>> /\ l.numbers = <<>> /\ m.commit = <<>> /\ m.numbers = <<>>
    BY <1>5, <1>6, <1>8, Fields
  <2>2. CASE c \in Opener /\ m.pc = "look" /\ m.branch \in Branch
    BY <1>4, <2>1, <2>2, PhasesAre
  <2>3. CASE c \in Pusher /\ m.pc = "read" /\ \E p \in prs : m.branch = p.branch
    <3>1. m.branch \in DOMAIN head'
      BY <1>1, <2>3 DEF OnGitHub, Grows
    <3> QED
      BY <1>4, <2>1, <2>3, <3>1, PhasesAre
  <2>4. CASE c \in Decomposer /\ m.pc = "file"
    <3>1. m.pc \in PhasesOf(c)
      BY <2>4, PhasesAre
    <3>2. 0 < Len(Staged) /\ Len(m.numbers) = 0
      BY <2>1 DEF ApplyingAssumption
    <3> QED
      BY <1>1, <2>1, <2>4, <3>1, <3>2 DEF LocalFits
  <2> QED
    BY <1>8, <2>2, <2>3, <2>4, Fields
<1>9. CASE Looks(c)
  <2>1. l.pc = "look" /\ m.pc \in {"seed", "create"} /\ Carries(l, m)
    BY <1>9, Fields
  <2>2. c \in Opener
    BY <1>7, <2>1, PhasesAre DEF Ended
  <2> QED
    BY <1>4, <1>5, <1>6, <1>7, <2>1, <2>2, PhasesAre DEF Carries
<1>10. CASE Reads(c)
  <2>1. l.pc = "read" /\ m.pc = "move" /\ m.branch = l.branch /\ m.numbers = l.numbers
    BY <1>10, Fields
  <2>2. c \in Opener \/ c \in Pusher
    BY <1>7, <2>1, PhasesAre DEF Ended
  <2>3. m.pc \in PhasesOf(c)
    BY <2>1, <2>2, PhasesAre
  <2> QED
    BY <1>1, <1>6, <1>7, <2>1, <2>3 DEF LocalFits
<1>11. CASE Conflicts(c)
  <2>1. CASE l.pc = "create" /\ m.pc = "read" /\ Carries(l, m)
    <3>1. c \in Opener
      BY <1>7, <2>1, PhasesAre DEF Ended
    <3>2. l.branch \in DOMAIN head'
      <4>1. Outgoing(c).kind = "create" /\ Outgoing(c).branch = l.branch
        BY <2>1, OutgoingOK DEF Writing
      <4>2. ~Accepts(Outgoing(c))
        BY <1>11 DEF Conflicts
      <4> QED
        BY <1>1, <4>1, <4>2 DEF Accepts, Grows
    <3> QED
      BY <1>4, <1>5, <1>6, <2>1, <3>1, <3>2, PhasesAre DEF Carries
  <2> QED
    BY <1>2, <1>11, <2>1, Fields
<1>12. CASE TimesOut(c) \/ Refused(c)
  BY <1>2, <1>3, <1>12, Fields
<1>13. CASE Raises(c)
  BY <1>2, <1>13, Fields
<1>14. CASE Answered(c)
  <2>1. /\ l.pc \in Writing /\ m.pc = NextPhase(c)
        /\ m.pc \in Ended => Dropped(m)
        /\ m.pc \notin Ended =>
             /\ m.branch = l.branch /\ m.commit = l.commit
             /\ m.numbers = IF l.pc = "file" THEN Append(l.numbers, Len(issues')) ELSE l.numbers
    BY <1>14, Fields
  <2>2. RequestOK(Outgoing(c)) /\ Accepts(Outgoing(c)) /\ Performs(Outgoing(c))
    BY <1>14, <2>1, OutgoingOK DEF Answered
  <2>3. Outgoing(c).kind = l.pc /\ Outgoing(c).branch = l.branch
    BY <2>1, OutgoingOK
  <2>4. CASE l.pc = "seed"
    <3>1. m.pc = "create" /\ c \in Opener
      BY <1>7, <2>1, <2>4, PhasesAre DEF NextPhase, At, Ended
    <3> QED
      BY <1>4, <1>5, <1>6, <1>7, <2>1, <2>4, <3>1, PhasesAre DEF Ended
  <2>5. CASE l.pc = "create"
    <3>1. m.pc = "read" /\ c \in Opener
      BY <1>7, <2>1, <2>5, PhasesAre DEF NextPhase, At, Ended
    <3>2. l.branch \in DOMAIN head'
      BY <2>2, <2>3, <2>5, Performed
    <3> QED
      BY <1>4, <1>5, <1>6, <2>1, <2>5, <3>1, <3>2, PhasesAre DEF Ended
  <2>6. CASE l.pc = "move"
    <3>1. CASE c \in Opener
      <4>1. m.pc = "open" /\ m.pc \in PhasesOf(c)
        BY <2>1, <2>6, <3>1, PhasesAre DEF NextPhase, At
      <4> QED
        BY <1>1, <1>6, <1>7, <2>1, <2>6, <4>1 DEF LocalFits, Ended
    <3>2. CASE c \notin Opener
      <4>1. m.pc = "returned"
        BY <2>1, <2>6, <3>2 DEF NextPhase, At
      <4> QED
        BY <1>2, <2>1, <4>1 DEF Ended
    <3> QED
      BY <3>1, <3>2
  <2>7. CASE l.pc = "file"
    <3>1. c \in Decomposer /\ l.commit = <<>>
      BY <1>5, <1>7, <2>7, PhasesAre DEF Ended
    <3>2. m.pc = (IF Len(l.numbers) + 1 < Len(Staged) THEN "file" ELSE "close")
      BY <2>1, <2>7 DEF NextPhase, At, Item
    <3>3. m.commit = <<>> /\ m.numbers = Append(l.numbers, Len(issues'))
      BY <2>1, <2>7, <3>1, <3>2 DEF Ended
    <3>4. Len(issues') \in DOMAIN issues' /\ Len(issues') \in Nat
      <4>1. issues \in Seq(Issue) /\ IssueOf(Outgoing(c)) \in Issue
            /\ issues' = Append(issues, IssueOf(Outgoing(c)))
        BY <1>1, <2>2, <2>3, <2>7, Performed DEF OnGitHub
      <4> QED
        BY <4>1, AppendOne
    <3>5. /\ Len(m.numbers) = Len(l.numbers) + 1 /\ Len(l.numbers) \in Nat
          /\ DOMAIN l.numbers = 1..Len(l.numbers)
          /\ DOMAIN m.numbers = 1..Len(l.numbers) + 1
          /\ \A j \in 1..Len(l.numbers) : m.numbers[j] = l.numbers[j]
          /\ m.numbers[Len(l.numbers) + 1] = Len(issues')
      <4>1. l.numbers \in Seq(Nat)
        BY <1>1 DEF LocalOK, Local
      <4> QED
        BY <3>3, <3>4, <4>1, AppendOne
    <3>6. \A j \in DOMAIN m.numbers : m.numbers[j] \in DOMAIN issues'
      <4>1. \A j \in 1..Len(l.numbers) : l.numbers[j] \in DOMAIN issues'
        BY <1>1, <3>5 DEF LocalFits
      <4>2. \A j \in DOMAIN m.numbers : j \in 1..Len(l.numbers) \/ j = Len(l.numbers) + 1
        BY <3>5
      <4> QED
        BY <3>4, <3>5, <4>1, <4>2
    <3>7. m.pc \in PhasesOf(c)
      BY <3>1, <3>2, PhasesAre
    <3> QED
      BY <1>1, <3>2, <3>3, <3>5, <3>6, <3>7 DEF LocalFits
  <2>8. CASE l.pc \in {"open", "close"}
    <3>1. m.pc = "returned"
      BY <2>1, <2>8 DEF NextPhase, At
    <3> QED
      BY <1>2, <2>1, <3>1 DEF Ended
  <2> QED
    BY <2>1, <2>4, <2>5, <2>6, <2>7, <2>8 DEF Writing
<1> QED
  BY <1>8, <1>9, <1>10, <1>11, <1>12, <1>13, <1>14 DEF CallStep

\* Every step keeps the types.
LEMMA TypeStep ==
  ASSUME ApplyingAssumption, TypeOK, [Next]_vars
  PROVE  TypeOK'
<1>1. OnGitHub' /\ Grows
  BY GitHubStep
<1>2. /\ \A q \in wire : RequestOK(q)
      /\ call \in [Call -> Local] /\ \A c \in Call : LocalOK(c, call[c])
  BY TypeIs
<1>3. ASSUME NEW q \in wire' PROVE RequestOK(q)'
  <2>1. RequestOK(q)
    <3>1. CASE wire' \subseteq wire
      BY <1>2, <3>1
    <3>2. CASE \E c \in Call : TimesOut(c) /\ wire' = wire \cup {Outgoing(c)}
      <4>1. PICK c \in Call : TimesOut(c) /\ wire' = wire \cup {Outgoing(c)}
        BY <3>2
      <4>2. RequestOK(Outgoing(c))
        BY <4>1, OutgoingOK DEF TimesOut
      <4> QED
        BY <1>2, <4>1, <4>2
    <3> QED
      BY <3>1, <3>2, Steps
  <2> QED
    BY <1>1, <2>1, RequestStays
<1>4. call' \in [Call -> Local] /\ \A c \in Call : LocalOK(c, call[c])'
  <2>1. \A c \in Call : LocalFits(c, call[c], DOMAIN head', DOMAIN issues')
    BY <1>1, <1>2, LocalStays
  <2>2. CASE UNCHANGED call
    BY <1>2, <2>1, <2>2, LocalStays
  <2>3. CASE \E c \in Call : Starts(c) \/ CallStep(c) \/ Raises(c)
    <3>1. PICK c \in Call : Starts(c) \/ CallStep(c) \/ Raises(c)
      BY <2>3
    <3>2. /\ call' \in [Call -> Local]
          /\ LocalFits(c, call'[c], DOMAIN head', DOMAIN issues')
          /\ \A d \in Call : d # c => call'[d] = call[d]
      BY <3>1, Fields, LocalStep
    <3>3. \A d \in Call : LocalFits(d, call'[d], DOMAIN head', DOMAIN issues')
      BY <2>1, <3>2
    <3> QED
      BY <3>2, <3>3, LocalStays
  <2> QED
    BY <2>2, <2>3, Steps
<1>5. (\A q \in wire : RequestOK(q))' <=> \A q \in wire' : RequestOK(q)'
  OBVIOUS
<1>6. (\A c \in Call : LocalOK(c, call[c]))' <=> \A c \in Call : LocalOK(c, call[c])'
  OBVIOUS
<1>7. TypeOK' <=> /\ OnGitHub'
                  /\ (\A q \in wire : RequestOK(q))'
                  /\ call' \in [Call -> Local] /\ (\A c \in Call : LocalOK(c, call[c]))'
  BY TypeIsNext
<1> QED
  BY <1>1, <1>3, <1>4, <1>5, <1>6, <1>7
\* Initially the types hold.
LEMMA TypeInit == ApplyingAssumption /\ Init => TypeOK
<1> SUFFICES ASSUME ApplyingAssumption, Init PROVE TypeOK
  OBVIOUS
<1>1. /\ seeded \in BOOLEAN /\ head = <<>> /\ prs = {} /\ issues = <<>> /\ closed = {} /\ wire = {}
      /\ call = [c \in Call |-> Fresh]
  BY DEF Init
<1>2. Fresh \in Local /\ Fresh.pc = "idle" /\ Fresh.commit = <<>> /\ Fresh.numbers = <<>>
  <2>1. 0 \in 0..MaxRetries /\ <<>> \in Seq(Call) /\ <<>> \in Seq(Nat)
    BY DEF ApplyingAssumption
  <2> QED
    BY <2>1 DEF Fresh, Local, Phases
<1>3. \A c \in Call : LocalOK(c, call[c])
  BY <1>1, <1>2 DEF LocalOK, PhasesOf
<1>4. call \in [Call -> Local]
  BY <1>1, <1>2
<1>5. OnGitHub
  BY <1>1 DEF OnGitHub
<1> QED
  BY <1>1, <1>3, <1>4, <1>5, TypeIs

\* Every reachable state is well typed: branches, pull requests and sub-issues, the requests
\* that may still arrive, and the local variables of every call.
THEOREM TypeCorrect == Spec => []TypeOK
<1>1. Init => TypeOK
  BY ApplyingAssumption, TypeInit
<1>2. TypeOK /\ [Next]_vars => TypeOK'
  BY ApplyingAssumption, TypeStep
<1> QED
  BY <1>1, <1>2, PTL DEF Spec
-----------------------------------------------------------------------------
(* Commits land once *)

Early == {"idle", "look", "seed", "create", "read"}

\* A request of call c to move branch b to commit h is under way or may still arrive.
Moving(c, b, h) ==
  \/ call[c].pc = "move" /\ call[c].branch = b /\ call[c].commit = h
  \/ \E q \in wire : q.kind = "move" /\ q.by = c /\ q.branch = b /\ q.commit = h

\* Call c has a commit at this place.
LandedAt(c, b, j) == b \in DOMAIN head /\ j \in DOMAIN head[b] /\ head[b][j] = c

\* Commit h was built by call c on an earlier head of branch b, and is nowhere else.
Built(c, b, h) ==
  /\ b \in DOMAIN head /\ h \in Seq(Call) /\ Len(h) > 0 /\ h[Len(h)] = c
  /\ \A j \in 1..Len(h) - 1 : j \in DOMAIN head[b] /\ head[b][j] = h[j]
  /\ \A d, j : LandedAt(c, d, j) => d = b /\ j = Len(h)

\* The inductive invariant behind LandsOnce: all requests of a call move the same branch to
\* the same commit, and a call that has sent none has landed nothing.
Landings ==
  /\ \A c \in Call, b \in Branch, h \in Seq(Call) : Moving(c, b, h) => Built(c, b, h)
  /\ \A c \in Call, b \in Branch, d \in Branch, h \in Seq(Call), g \in Seq(Call) :
       Moving(c, b, h) /\ Moving(c, d, g) => b = d /\ h = g
  /\ \A c \in Call : call[c].pc \in Early =>
       /\ \A b \in Branch, h \in Seq(Call) : ~Moving(c, b, h)
       /\ \A b, j : ~LandedAt(c, b, j)
  /\ LandsOnce

\* A request to move a branch is an earlier one sent again, or that of a commit just built.
LEMMA MovingStep ==
  ASSUME ApplyingAssumption, TypeOK, [Next]_vars, NEW c \in Call, NEW b, NEW h, Moving(c, b, h)'
  PROVE  Moving(c, b, h) \/ (Reads(c) /\ b = call[c].branch /\ h = Append(head[b], c))
<1>1. ASSUME NEW q \in wire', q.kind = "move" /\ q.by = c /\ q.branch = b /\ q.commit = h
      PROVE  Moving(c, b, h)
  <2>1. CASE q \in wire
    BY <1>1, <2>1 DEF Moving
  <2>2. CASE \E d \in Call : TimesOut(d) /\ q = Outgoing(d)
    <3>1. PICK d \in Call : TimesOut(d) /\ q = Outgoing(d)
      BY <2>2
    <3>2. q.kind = call[d].pc /\ q.by = d /\ q.branch = call[d].branch /\ q.commit = call[d].commit
      BY <3>1, OutgoingOK DEF TimesOut
    <3> QED
      BY <1>1, <3>2 DEF Moving
  <2> QED
    BY <2>1, <2>2, Steps
<1>2. ASSUME call'[c].pc = "move" /\ call'[c].branch = b /\ call'[c].commit = h
      PROVE  Moving(c, b, h) \/ (Reads(c) /\ b = call[c].branch /\ h = Append(head[b], c))
  <2>1. CASE call'[c] = call[c]
    BY <1>2, <2>1 DEF Moving
  <2>2. CASE Starts(c) \/ CallStep(c) \/ Raises(c)
    <3>1. CASE Reads(c)
      BY <1>2, <3>1, Fields
    <3>2. CASE TimesOut(c) \/ Refused(c)
      <4>1. call'[c].pc = call[c].pc /\ Carries(call[c], call'[c])
        BY <1>2, <3>2, Fields
      <4> QED
        BY <1>2, <4>1 DEF Moving, Carries
    <3>3. CASE Answered(c)
      <4>1. call'[c].pc = NextPhase(c)
        BY <3>3, Fields
      <4> QED
        BY <1>2, <4>1 DEF NextPhase
    <3>4. CASE Starts(c) \/ Looks(c) \/ Conflicts(c) \/ Raises(c)
      BY <1>2, <3>4, Fields
    <3> QED
      BY <2>2, <3>1, <3>2, <3>3, <3>4 DEF CallStep
  <2> QED
    BY <2>1, <2>2, Steps, Fields
<1> QED
  BY <1>1, <1>2 DEF Moving

\* Nobody returns to the phases before the first move.
LEMMA EarlyStep ==
  ASSUME ApplyingAssumption, TypeOK, [Next]_vars, NEW c \in Call, call'[c].pc \in Early
  PROVE  call[c].pc \in Early
<1>1. CASE call'[c] = call[c]
  BY <1>1
<1>2. CASE Starts(c) \/ CallStep(c) \/ Raises(c)
  <2>1. CASE Answered(c)
    <3>1. call'[c].pc = NextPhase(c)
      BY <2>1, Fields
    <3> QED
      BY <3>1 DEF NextPhase, Early, At
  <2>2. CASE Starts(c) \/ Looks(c) \/ Reads(c)
    BY <2>2, Fields DEF Early
  <2>3. CASE Conflicts(c) \/ TimesOut(c) \/ Refused(c) \/ Raises(c)
    BY <2>3, Fields DEF Early
  <2> QED
    BY <1>2, <2>1, <2>2, <2>3 DEF CallStep
<1> QED
  BY <1>1, <1>2, Steps, Fields

\* A step leaves the branches alone, creates one, or appends one commit to one branch.
LEMMA HeadStep ==
  ASSUME ApplyingAssumption, TypeOK, [Next]_vars, Landings
  PROVE  \/ head' = head
         \/ \E b : /\ b \notin DOMAIN head /\ DOMAIN head' = DOMAIN head \cup {b}
                   /\ head'[b] = <<>> /\ \A d \in DOMAIN head : head'[d] = head[d]
         \/ \E c \in Call, b \in DOMAIN head :
              /\ Moving(c, b, Append(head[b], c)) /\ \A d, j : ~LandedAt(c, d, j)
              /\ DOMAIN head' = DOMAIN head /\ head'[b] = Append(head[b], c)
              /\ \A d \in DOMAIN head : d # b => head'[d] = head[d]
<1>0. /\ DOMAIN head \subseteq Branch /\ head \in [DOMAIN head -> Seq(Call)]
      /\ \A q \in wire : RequestOK(q)
  BY DEF TypeOK
<1>1. ASSUME NEW q, RequestOK(q), Accepts(q), Performs(q),
             q.kind = "move" => Moving(q.by, q.branch, q.commit)
      PROVE  \/ head' = head
             \/ \E b : /\ b \notin DOMAIN head /\ DOMAIN head' = DOMAIN head \cup {b}
                       /\ head'[b] = <<>> /\ \A d \in DOMAIN head : head'[d] = head[d]
             \/ \E c \in Call, b \in DOMAIN head :
                  /\ Moving(c, b, Append(head[b], c)) /\ \A d, j : ~LandedAt(c, d, j)
                  /\ DOMAIN head' = DOMAIN head /\ head'[b] = Append(head[b], c)
                  /\ \A d \in DOMAIN head : d # b => head'[d] = head[d]
  <2>1. CASE q.kind \notin {"create", "move"}
    BY <1>1, <2>1, Performed
  <2>2. CASE q.kind = "create"
    <3>1. q.commit = <<>>
      BY <1>1, <2>2 DEF RequestOK
    <3> QED
      BY <1>1, <2>2, <3>1, Performed
  <2>3. CASE q.kind = "move"
    <3> DEFINE c == q.by
               b == q.branch
               h == q.commit
               s == head[b]
    <3>1. c \in Call /\ b \in DOMAIN head /\ b \in Branch /\ h \in Seq(Call) /\ s \in Seq(Call)
      BY <1>0, <1>1, <2>3 DEF RequestOK, Request
    <3>2. /\ IsPrefix(s, h) /\ DOMAIN head' = DOMAIN head /\ head'[b] = h
          /\ \A d \in DOMAIN head : d # b => head'[d] = head[d]
          /\ head' \in [DOMAIN head' -> Seq(Call)]
      BY <1>1, <2>3, Performed
    <3>3. Moving(c, b, h)
      BY <1>1, <2>3
    <3>4. Built(c, b, h)
      BY <3>1, <3>3 DEF Landings
    <3> HIDE DEF c, b, h
    <3>5. Len(s) <= Len(h) /\ \A i \in 1..Len(s) : s[i] = h[i]
      BY <3>1, <3>2, PrefixIs
    <3>6. Len(h) - 1 <= Len(s) /\ Len(s) \in Nat /\ Len(h) \in Nat /\ DOMAIN s = 1..Len(s)
      <4>1. Len(s) \in Nat /\ Len(h) \in Nat /\ DOMAIN s = 1..Len(s) /\ Len(h) > 0
        BY <3>1, <3>4, LenProperties DEF Built
      <4>2. CASE Len(h) = 1
        BY <4>1, <4>2
      <4>3. CASE Len(h) > 1
        <5>1. Len(h) - 1 \in 1..Len(h) - 1
          BY <4>1, <4>3
        <5>2. Len(h) - 1 \in DOMAIN s
          BY <3>4, <5>1 DEF Built
        <5> QED
          BY <4>1, <5>2
      <4> QED
        BY <4>1, <4>2, <4>3
    <3>7. CASE Len(s) = Len(h)
      <4>1. s = h
        BY <3>1, <3>5, <3>7, SeqEqual
      <4>2. \A d \in DOMAIN head : head'[d] = head[d]
        BY <3>2, <4>1
      <4>3. head' = head
        BY <1>0, <3>2, <4>2
      <4> QED
        BY <4>3
    <3>8. CASE Len(s) = Len(h) - 1
      <4>1. /\ Append(s, c) \in Seq(Call) /\ Len(Append(s, c)) = Len(s) + 1
            /\ \A i \in 1..Len(s) : Append(s, c)[i] = s[i]
            /\ Append(s, c)[Len(s) + 1] = c
        BY <3>1, AppendOne
      <4>2. \A i \in 1..Len(Append(s, c)) : Append(s, c)[i] = h[i]
        <5>1. h[Len(s) + 1] = c
          BY <3>4, <3>6, <3>8 DEF Built
        <5>2. \A i \in 1..Len(s) + 1 : i \in 1..Len(s) \/ i = Len(s) + 1
          BY <3>6
        <5> QED
          BY <3>5, <4>1, <5>1, <5>2
      <4>3. Append(s, c) = h
        <5>1. Len(Append(s, c)) = Len(h)
          BY <3>6, <3>8, <4>1
        <5> QED
          BY <3>1, <4>1, <4>2, <5>1, SeqEqual
      <4>4. \A d, j : ~LandedAt(c, d, j)
        <5> SUFFICES ASSUME NEW d, NEW j, LandedAt(c, d, j) PROVE FALSE
          OBVIOUS
        <5>1. d = b /\ j = Len(h)
          BY <3>4 DEF Built
        <5>2. j \in 1..Len(s)
          BY <3>6, <5>1 DEF LandedAt
        <5> QED
          BY <3>6, <3>8, <5>1, <5>2
      <4> QED
        BY <3>1, <3>2, <3>3, <4>3, <4>4
    <3>9. Len(s) = Len(h) \/ Len(s) = Len(h) - 1
      BY <3>5, <3>6
    <3> QED
      BY <3>7, <3>8, <3>9
  <2> QED
    BY <2>1, <2>2, <2>3
<1>2. ASSUME NEW q \in wire PROVE q.kind = "move" => Moving(q.by, q.branch, q.commit)
  BY DEF Moving
<1>3. ASSUME NEW c \in Call, Answered(c)
      PROVE  Outgoing(c).kind = "move" =>
               Moving(Outgoing(c).by, Outgoing(c).branch, Outgoing(c).commit)
  BY <1>3, OutgoingOK DEF Moving, Answered
<1>4. \/ head' = head
      \/ \E q \in wire : Accepts(q) /\ Performs(q)
      \/ \E c \in Call : Answered(c) /\ RequestOK(Outgoing(c))
                         /\ Accepts(Outgoing(c)) /\ Performs(Outgoing(c))
  BY Steps DEF Settles, github
<1>5. CASE \E q \in wire : Accepts(q) /\ Performs(q)
  BY <1>0, <1>1, <1>2, <1>5
<1>6. CASE \E c \in Call : Answered(c) /\ RequestOK(Outgoing(c))
                           /\ Accepts(Outgoing(c)) /\ Performs(Outgoing(c))
  <2>1. PICK c \in Call : Answered(c) /\ RequestOK(Outgoing(c))
                          /\ Accepts(Outgoing(c)) /\ Performs(Outgoing(c))
    BY <1>6
  <2>2. PICK q : q = Outgoing(c)
    OBVIOUS
  <2> QED
    BY <1>1, <1>3, <2>1, <2>2
<1> QED
  BY <1>4, <1>5, <1>6
\* Every step keeps it that commits land once.
LEMMA LandingsStep ==
  ASSUME ApplyingAssumption, TypeOK, [Next]_vars, Landings
  PROVE  Landings'
<1>0. /\ DOMAIN head \subseteq Branch /\ head \in [DOMAIN head -> Seq(Call)]
      /\ \A c \in Call : call[c].pc \in {"read", "move", "open"} => call[c].branch \in DOMAIN head
  BY DEF TypeOK, LocalOK
\* Where the commits are after the step.
<1>1. ASSUME NEW c \in Call, NEW b \in DOMAIN head, Moving(c, b, Append(head[b], c)),
             \A d, j : ~LandedAt(c, d, j),
             DOMAIN head' = DOMAIN head, head'[b] = Append(head[b], c),
             \A d \in DOMAIN head : d # b => head'[d] = head[d]
      PROVE  /\ Len(head[b]) \in Nat
             /\ \A e, d, j : LandedAt(e, d, j)' <=>
                  (LandedAt(e, d, j) \/ (e = c /\ d = b /\ j = Len(head[b]) + 1))
             /\ \A e, d, j : LandedAt(e, d, j) => e # c
             /\ \A d, j : d \in DOMAIN head /\ j \in DOMAIN head[d] =>
                  d \in DOMAIN head' /\ j \in DOMAIN head'[d] /\ head'[d][j] = head[d][j]
  <2> DEFINE s == head[b]
  <2>1. s \in Seq(Call)
    BY <1>0
  <2>2. /\ Len(s) \in Nat /\ DOMAIN s = 1..Len(s) /\ DOMAIN Append(s, c) = 1..Len(s) + 1
        /\ \A i \in 1..Len(s) : Append(s, c)[i] = s[i]
        /\ Append(s, c)[Len(s) + 1] = c
    BY <2>1, AppendOne
  <2> HIDE DEF s
  <2>3. \A j : j \in 1..Len(s) + 1 <=> (j \in 1..Len(s) \/ j = Len(s) + 1)
    BY <2>2
  <2>4. \A j : j \in 1..Len(s) => j # Len(s) + 1
    BY <2>2
  <2>5. /\ DOMAIN head'[b] = 1..Len(s) + 1 /\ head'[b][Len(s) + 1] = c
        /\ \A j \in 1..Len(s) : head'[b][j] = s[j]
    BY <1>1, <2>2 DEF s
  <2>6. \A e, d, j : LandedAt(e, d, j)' <=>
          (LandedAt(e, d, j) \/ (e = c /\ d = b /\ j = Len(s) + 1))
    <3> SUFFICES ASSUME NEW e, NEW d, NEW j
                 PROVE  LandedAt(e, d, j)' <=>
                          (LandedAt(e, d, j) \/ (e = c /\ d = b /\ j = Len(s) + 1))
      OBVIOUS
    <3>1. LandedAt(e, d, j)' <=> d \in DOMAIN head' /\ j \in DOMAIN head'[d] /\ head'[d][j] = e
      BY DEF LandedAt
    <3>2. CASE d = b
      BY <1>1, <2>2, <2>3, <2>4, <2>5, <3>1, <3>2 DEF LandedAt, s
    <3>3. CASE d # b
      BY <1>1, <3>1, <3>3 DEF LandedAt
    <3> QED
      BY <3>2, <3>3
  <2>7. \A d, j : d \in DOMAIN head /\ j \in DOMAIN head[d] =>
          d \in DOMAIN head' /\ j \in DOMAIN head'[d] /\ head'[d][j] = head[d][j]
    <3> SUFFICES ASSUME NEW d, NEW j, d \in DOMAIN head, j \in DOMAIN head[d]
                 PROVE  d \in DOMAIN head' /\ j \in DOMAIN head'[d] /\ head'[d][j] = head[d][j]
      OBVIOUS
    <3>1. CASE d = b
      BY <1>1, <2>2, <2>3, <2>5, <3>1 DEF s
    <3>2. CASE d # b
      BY <1>1, <3>2
    <3> QED
      BY <3>1, <3>2
  <2>8. \A e, d, j : LandedAt(e, d, j) => e # c
    BY <1>1
  <2> QED
    BY <2>2, <2>6, <2>7, <2>8 DEF s
<1>2. \/ /\ \A e, d, j : LandedAt(e, d, j)' <=> LandedAt(e, d, j)
         /\ \A d, j : d \in DOMAIN head /\ j \in DOMAIN head[d] =>
              d \in DOMAIN head' /\ j \in DOMAIN head'[d] /\ head'[d][j] = head[d][j]
      \/ \E c \in Call, b \in DOMAIN head :
           /\ Len(head[b]) \in Nat /\ Moving(c, b, Append(head[b], c))
           /\ \A e, d, j : LandedAt(e, d, j)' <=>
                (LandedAt(e, d, j) \/ (e = c /\ d = b /\ j = Len(head[b]) + 1))
           /\ \A e, d, j : LandedAt(e, d, j) => e # c
           /\ \A d, j : d \in DOMAIN head /\ j \in DOMAIN head[d] =>
                d \in DOMAIN head' /\ j \in DOMAIN head'[d] /\ head'[d][j] = head[d][j]
  <2>1. CASE head' = head
    BY <2>1 DEF LandedAt
  <2>2. ASSUME NEW b, b \notin DOMAIN head, DOMAIN head' = DOMAIN head \cup {b},
               head'[b] = <<>>, \A d \in DOMAIN head : head'[d] = head[d]
        PROVE  /\ \A e, d, j : LandedAt(e, d, j)' <=> LandedAt(e, d, j)
               /\ \A d, j : d \in DOMAIN head /\ j \in DOMAIN head[d] =>
                    d \in DOMAIN head' /\ j \in DOMAIN head'[d] /\ head'[d][j] = head[d][j]
    <3>1. DOMAIN head'[b] = {}
      BY <2>2
    <3> QED
      BY <2>2, <3>1 DEF LandedAt
  <2>3. CASE \E b : /\ b \notin DOMAIN head /\ DOMAIN head' = DOMAIN head \cup {b}
                    /\ head'[b] = <<>> /\ \A d \in DOMAIN head : head'[d] = head[d]
    BY <2>2, <2>3
  <2>4. CASE \E c \in Call, b \in DOMAIN head :
               /\ Moving(c, b, Append(head[b], c)) /\ \A d, j : ~LandedAt(c, d, j)
               /\ DOMAIN head' = DOMAIN head /\ head'[b] = Append(head[b], c)
               /\ \A d \in DOMAIN head : d # b => head'[d] = head[d]
    <3>1. PICK c \in Call, b \in DOMAIN head :
               /\ Moving(c, b, Append(head[b], c)) /\ \A d, j : ~LandedAt(c, d, j)
               /\ DOMAIN head' = DOMAIN head /\ head'[b] = Append(head[b], c)
               /\ \A d \in DOMAIN head : d # b => head'[d] = head[d]
      BY <2>4
    <3>2. /\ Len(head[b]) \in Nat
          /\ \A e, d, j : LandedAt(e, d, j)' <=>
               (LandedAt(e, d, j) \/ (e = c /\ d = b /\ j = Len(head[b]) + 1))
          /\ \A e, d, j : LandedAt(e, d, j) => e # c
          /\ \A d, j : d \in DOMAIN head /\ j \in DOMAIN head[d] =>
               d \in DOMAIN head' /\ j \in DOMAIN head'[d] /\ head'[d][j] = head[d][j]
      BY <1>1, <3>1
    <3> QED
      BY <3>1, <3>2
  <2> QED
    BY <2>1, <2>3, <2>4, HeadStep
\* What was built stays built: only the call itself lands its commit.
<1>3. ASSUME NEW c \in Call, NEW b \in Branch, NEW h \in Seq(Call), Moving(c, b, h)
      PROVE  Built(c, b, h)'
  <2>1. Built(c, b, h)
    BY <1>3 DEF Landings
  <2>2. \A d, j : LandedAt(c, d, j)' => d = b /\ j = Len(h)
    <3>1. ASSUME NEW e \in Call, NEW a \in DOMAIN head,
                 Len(head[a]) \in Nat, Moving(e, a, Append(head[a], e)), c = e
          PROVE  a = b /\ Len(head[a]) + 1 = Len(h)
      <4>1. head[a] \in Seq(Call) /\ a \in Branch
        BY <1>0
      <4>2. Append(head[a], e) \in Seq(Call) /\ Len(Append(head[a], e)) = Len(head[a]) + 1
        BY <4>1, AppendOne
      <4>3. a = b /\ Append(head[a], e) = h
        BY <1>3, <3>1, <4>1, <4>2 DEF Landings
      <4> QED
        BY <4>2, <4>3
    <3> QED
      BY <1>2, <2>1, <3>1 DEF Built
  <2>3. /\ b \in DOMAIN head'
        /\ \A j \in 1..Len(h) - 1 : j \in DOMAIN head'[b] /\ head'[b][j] = h[j]
    <3>1. b \in DOMAIN head'
      BY <2>1, GitHubStep DEF Built, Grows
    <3> QED
      BY <1>2, <2>1, <3>1 DEF Built
  <2> QED
    BY <2>1, <2>2, <2>3 DEF Built
<1>4. ASSUME NEW c \in Call, Reads(c), NEW b, NEW h, b = call[c].branch, h = Append(head[b], c)
      PROVE  Built(c, b, h)'
  <2> DEFINE s == head[b]
  <2>1. call[c].pc = "read" /\ head' = head
    BY <1>4 DEF Reads, At, github
  <2>2. b \in DOMAIN head /\ s \in Seq(Call) /\ \A d, j : ~LandedAt(c, d, j)
    BY <1>0, <1>4, <2>1 DEF Landings, Early
  <2>3. /\ h \in Seq(Call) /\ Len(s) \in Nat /\ DOMAIN s = 1..Len(s) /\ Len(h) = Len(s) + 1
        /\ \A i \in 1..Len(s) : h[i] = s[i]
        /\ h[Len(s) + 1] = c
    BY <1>4, <2>2, AppendOne
  <2>4. Len(h) - 1 = Len(s)
    BY <2>3
  <2>5. Built(c, b, h)
    BY <2>2, <2>3, <2>4 DEF Built
  <2> QED
    BY <2>1, <2>5 DEF Built, LandedAt
<1>5. ASSUME NEW c \in Call, NEW b \in Branch, NEW h \in Seq(Call), Moving(c, b, h)'
      PROVE  Built(c, b, h)'
  BY <1>3, <1>4, <1>5, MovingStep
<1>6. \A c \in Call, b \in Branch, d \in Branch, h \in Seq(Call), g \in Seq(Call) :
        Moving(c, b, h)' /\ Moving(c, d, g)' => b = d /\ h = g
  <2> SUFFICES ASSUME NEW c \in Call, NEW b \in Branch, NEW d \in Branch, NEW h \in Seq(Call),
                      NEW g \in Seq(Call), Moving(c, b, h)', Moving(c, d, g)'
               PROVE  b = d /\ h = g
    OBVIOUS
  <2>1. CASE Reads(c)
    <3>1. ~Moving(c, b, h) /\ ~Moving(c, d, g)
      BY <2>1 DEF Reads, At, Early, Landings
    <3>2. b = call[c].branch /\ h = Append(head[b], c)
      BY <3>1, MovingStep
    <3>3. d = call[c].branch /\ g = Append(head[d], c)
      BY <3>1, MovingStep
    <3> QED
      BY <3>2, <3>3
  <2>2. CASE ~Reads(c)
    <3>1. Moving(c, b, h) /\ Moving(c, d, g)
      BY <2>2, MovingStep
    <3> QED
      BY <3>1 DEF Landings
  <2> QED
    BY <2>1, <2>2
<1>7. ASSUME NEW c \in Call, call'[c].pc \in Early
      PROVE  /\ \A b \in Branch, h \in Seq(Call) : ~Moving(c, b, h)'
             /\ \A b, j : ~LandedAt(c, b, j)'
  <2>1. /\ \A b \in Branch, h \in Seq(Call) : ~Moving(c, b, h)
        /\ \A b, j : ~LandedAt(c, b, j)
    BY <1>7, EarlyStep DEF Landings
  <2>2. ~Reads(c)
    BY <1>7, Fields DEF Early
  <2>3. \A b \in DOMAIN head : ~Moving(c, b, Append(head[b], c))
    <3> SUFFICES ASSUME NEW b \in DOMAIN head PROVE ~Moving(c, b, Append(head[b], c))
      OBVIOUS
    <3>1. b \in Branch /\ Append(head[b], c) \in Seq(Call)
      BY <1>0, AppendOne
    <3> QED
      BY <2>1, <3>1
  <2> QED
    BY <1>2, <2>1, <2>2, <2>3, MovingStep
<1>8. LandsOnce'
  <2>1. \A e, d, j, b, k : LandedAt(e, d, j) /\ LandedAt(e, b, k) => d = b /\ j = k
    BY DEF Landings, LandsOnce, LandedAt
  <2>2. ASSUME NEW e, NEW d, NEW j, NEW b, NEW k, LandedAt(e, d, j)', LandedAt(e, b, k)'
        PROVE  d = b /\ j = k
    <3>1. CASE LandedAt(e, d, j) /\ LandedAt(e, b, k)
      BY <2>1, <3>1
    <3>2. CASE ~(LandedAt(e, d, j) /\ LandedAt(e, b, k))
      BY <1>2, <2>2, <3>2
    <3> QED
      BY <3>1, <3>2
  <2> QED
    BY <2>2 DEF LandsOnce, LandedAt
<1> QED
  BY <1>5, <1>6, <1>7, <1>8 DEF Landings

\* Types, and commits that land once, in every reachable state.
LEMMA LandingsHold == Spec => [](TypeOK /\ Landings)
<1>1. Init => TypeOK /\ Landings
  <2> SUFFICES ASSUME Init PROVE Landings
    BY ApplyingAssumption, TypeInit
  <2>1. head = <<>> /\ wire = {} /\ \A c \in Call : call[c].pc = "idle"
    BY DEF Init, Fresh
  <2>2. DOMAIN head = {}
    BY <2>1
  <2> QED
    BY <2>1, <2>2 DEF Landings, Moving, LandedAt, LandsOnce
<1>2. TypeOK /\ Landings /\ [Next]_vars => TypeOK' /\ Landings'
  BY ApplyingAssumption, TypeStep, LandingsStep
<1> QED
  BY <1>1, <1>2, PTL DEF Spec

\* A commit lands once: no history of a branch holds two commits of one call, and no two
\* branches do, although the PATCH that moves the branch may be sent, and may arrive,
\* several times, before or after the end of its call.
THEOREM CommitsLandOnce == Spec => []LandsOnce
<1>1. Landings => LandsOnce
  BY DEF Landings
<1> QED
  BY <1>1, LandingsHold, PTL
-----------------------------------------------------------------------------
(* Upstreams resolve, and only one copy of a sub-issue has dependents *)

\* These are sub-issues of one decomposition, one for each dependency that precedes the item.
Resolves(by, item, upstreams) ==
  /\ upstreams \subseteq DOMAIN issues
  /\ \A m \in upstreams : issues[m].by = by
  /\ {issues[m].item : m \in upstreams} = {k \in Staged[item] : 1 <= k /\ k < item}

\* A sub-issue, or a request that may still file one, names this issue as its upstream.
Cited(m) ==
  \/ \E n \in DOMAIN issues : m \in issues[n].upstreams
  \/ \E q \in wire : q.kind = "file" /\ m \in q.upstreams

\* The inductive invariant behind UpstreamsResolve and CopiesKeepNobodyWaiting: the numbers
\* that a call remembers are those of its own issues, and while it runs every issue of its
\* decomposition that is cited is the one that it remembers.
Resolving ==
  /\ UpstreamsResolve
  /\ \A q \in wire : q.kind = "file" => Resolves(q.by, q.item, q.upstreams)
  /\ \A c \in Call : \A j \in DOMAIN call[c].numbers :
       issues[call[c].numbers[j]].by = c /\ issues[call[c].numbers[j]].item = j
  /\ \A m \in DOMAIN issues, c \in Call :
       Cited(m) /\ issues[m].by = c /\ call[c].pc \notin Ended =>
         issues[m].item \in DOMAIN call[c].numbers /\ call[c].numbers[issues[m].item] = m
  /\ \A m, n \in DOMAIN issues :
       Cited(m) /\ Cited(n) /\ issues[m].by = issues[n].by /\ issues[m].item = issues[n].item
         => m = n

\* What a step files is the request of a call or a late one.
LEMMA IssuesStep ==
  ASSUME ApplyingAssumption, TypeOK, [Next]_vars
  PROVE  \/ issues' = issues
         \/ \E q : /\ q.kind = "file" /\ RequestOK(q)
                   /\ issues' = Append(issues, IssueOf(q)) /\ IssueOf(q) \in Issue
                   /\ \/ q \in wire /\ UNCHANGED call
                      \/ \E c \in Call : Answered(c) /\ call[c].pc = "file" /\ q = Outgoing(c)
<1>1. ASSUME NEW q, RequestOK(q), Accepts(q), Performs(q)
      PROVE  \/ issues' = issues
             \/ q.kind = "file" /\ issues' = Append(issues, IssueOf(q)) /\ IssueOf(q) \in Issue
  BY <1>1, Performed
<1>2. ASSUME NEW c \in Call, Answered(c), RequestOK(Outgoing(c)),
             Accepts(Outgoing(c)), Performs(Outgoing(c)), issues' # issues
      PROVE  \E q : /\ q.kind = "file" /\ RequestOK(q)
                    /\ issues' = Append(issues, IssueOf(q)) /\ IssueOf(q) \in Issue
                    /\ Answered(c) /\ call[c].pc = "file" /\ q = Outgoing(c)
  <2>1. PICK q : q = Outgoing(c)
    OBVIOUS
  <2>2. q.kind = "file" /\ issues' = Append(issues, IssueOf(q)) /\ IssueOf(q) \in Issue
    BY <1>1, <1>2, <2>1
  <2>3. call[c].pc = "file"
    BY <1>2, <2>1, <2>2, OutgoingOK DEF Answered
  <2> QED
    BY <1>2, <2>1, <2>2, <2>3
<1>3. \A q \in wire : RequestOK(q)
  BY TypeIs
<1>4. \/ issues' = issues
      \/ \E c \in Call : Answered(c) /\ RequestOK(Outgoing(c))
                         /\ Accepts(Outgoing(c)) /\ Performs(Outgoing(c))
      \/ \E q \in wire : Accepts(q) /\ Performs(q) /\ UNCHANGED call
  BY Steps DEF Settles, github
<1>5. CASE \E q \in wire : Accepts(q) /\ Performs(q) /\ UNCHANGED call
  BY <1>1, <1>3, <1>5
<1>6. CASE \E c \in Call : Answered(c) /\ RequestOK(Outgoing(c))
                           /\ Accepts(Outgoing(c)) /\ Performs(Outgoing(c))
  BY <1>2, <1>6
<1> QED
  BY <1>4, <1>5, <1>6

\* A call that still runs forgets no number; one that it learns is that of the issue which
\* this step files for it.
LEMMA NumbersStep ==
  ASSUME ApplyingAssumption, TypeOK, [Next]_vars, NEW c \in Call,
         call'[c].pc \notin Ended \/ DOMAIN call'[c].numbers # {}
  PROVE  /\ call[c].pc \notin Ended \/ call'[c] = call[c]
         /\ \/ call'[c].numbers = call[c].numbers
            \/ /\ Answered(c) /\ call[c].pc = "file"
               /\ call'[c].numbers = Append(call[c].numbers, Len(issues'))
<1> DEFINE l == call[c]
           m == call'[c]
<1>1. CASE m = l
  BY <1>1
<1>2. Dropped(m) => FALSE
  BY DEF Dropped
<1>3. CASE Starts(c) \/ CallStep(c) \/ Raises(c)
  <2>1. CASE Answered(c)
    <3>1. m.pc \notin Ended
      BY <1>2, <2>1, Fields
    <3>2. l.pc \in Writing /\ m.numbers = IF l.pc = "file" THEN Append(l.numbers, Len(issues')) ELSE l.numbers
      BY <2>1, <3>1, Fields
    <3> QED
      BY <2>1, <3>2 DEF Writing, Ended
  <2>2. CASE ~Answered(c)
    BY <1>2, <1>3, <2>2, Fields DEF CallStep, Carries, Writing, Ended
  <2> QED
    BY <2>1, <2>2
<1> QED
  BY <1>1, <1>3, Steps, Fields

\* The upstreams of the request that a call has under way.
LEMMA UpstreamsAre ==
  ASSUME ApplyingAssumption, TypeOK, Resolving, NEW c \in Call, call[c].pc = "file"
  PROVE  /\ Resolves(c, Len(call[c].numbers) + 1, Upstreams(c))
         /\ \A m \in Upstreams(c) : \E j \in DOMAIN call[c].numbers : m = call[c].numbers[j]
<1> DEFINE numbers == call[c].numbers
<1>1. /\ numbers \in Seq(Nat) /\ \A j \in DOMAIN numbers : numbers[j] \in DOMAIN issues
      /\ \A j \in DOMAIN numbers : issues[numbers[j]].by = c /\ issues[numbers[j]].item = j
  BY DEF TypeOK, LocalOK, Local, Resolving
<1>2. DOMAIN numbers = 1..Len(numbers) /\ Len(numbers) \in Nat
  BY <1>1, LenProperties
<1>3. Len(numbers) + 1 \in DOMAIN Staged
  <2>1. Len(numbers) < Len(Staged)
    BY DEF TypeOK, LocalOK
  <2>2. Len(Staged) \in Nat /\ DOMAIN Staged = 1..Len(Staged)
    BY LenProperties DEF ApplyingAssumption
  <2> QED
    BY <1>2, <2>1, <2>2
<1>4. Staged[Len(numbers) + 1] \subseteq Nat
  BY <1>3, ElementOfSeq, LenProperties DEF ApplyingAssumption
<1>5. Upstreams(c) = {numbers[j] : j \in {i \in Staged[Len(numbers) + 1] : i \in DOMAIN numbers}}
  BY DEF Upstreams, Item
<1> HIDE DEF numbers
<1>6. {issues[m].item : m \in Upstreams(c)} = {i \in Staged[Len(numbers) + 1] : i \in DOMAIN numbers}
  BY <1>1, <1>5
<1>7. \A k \in Staged[Len(numbers) + 1] :
        k \in DOMAIN numbers <=> 1 <= k /\ k < Len(numbers) + 1
  BY <1>2, <1>4
<1>8. {issues[m].item : m \in Upstreams(c)} =
        {k \in Staged[Len(numbers) + 1] : 1 <= k /\ k < Len(numbers) + 1}
  BY <1>6, <1>7
<1>9. /\ Upstreams(c) \subseteq DOMAIN issues /\ \A m \in Upstreams(c) : issues[m].by = c
      /\ \A m \in Upstreams(c) : \E j \in DOMAIN numbers : m = numbers[j]
  BY <1>1, <1>5
<1> QED
  BY <1>8, <1>9 DEF Resolves, numbers

\* Who is cited was cited before, or is an upstream of the request of a call.
LEMMA CitedStep ==
  ASSUME ApplyingAssumption, TypeOK, [Next]_vars, NEW m, Cited(m)'
  PROVE  Cited(m) \/ \E c \in Call : call[c].pc = "file" /\ m \in Upstreams(c)
<1>1. CASE \E n \in DOMAIN issues' : m \in issues'[n].upstreams
  <2>1. PICK n \in DOMAIN issues' : m \in issues'[n].upstreams
    BY <1>1
  <2>2. CASE issues' = issues
    BY <2>1, <2>2 DEF Cited
  <2>3. ASSUME NEW q, q.kind = "file", RequestOK(q), IssueOf(q) \in Issue,
               issues' = Append(issues, IssueOf(q)),
               \/ q \in wire
               \/ \E c \in Call : Answered(c) /\ call[c].pc = "file" /\ q = Outgoing(c)
        PROVE  Cited(m) \/ \E c \in Call : call[c].pc = "file" /\ m \in Upstreams(c)
    <3>0. issues \in Seq(Issue)
      BY TypeIs DEF OnGitHub
    <3>1. (n \in DOMAIN issues /\ issues'[n] = issues[n]) \/ issues'[n] = IssueOf(q)
      <4> HIDE DEF Issue
      <4>1. /\ DOMAIN issues = 1..Len(issues) /\ DOMAIN issues' = 1..Len(issues) + 1
            /\ Len(issues) \in Nat
            /\ \A i \in 1..Len(issues) : issues'[i] = issues[i]
            /\ issues'[Len(issues) + 1] = IssueOf(q)
        BY <2>3, <3>0, AppendOne
      <4> QED
        BY <2>1, <4>1
    <3>2. CASE n \in DOMAIN issues /\ issues'[n] = issues[n]
      BY <2>1, <3>2 DEF Cited
    <3>3. CASE issues'[n] = IssueOf(q)
      <4>1. m \in q.upstreams
        BY <2>1, <3>3 DEF IssueOf
      <4>2. CASE q \in wire
        BY <2>3, <4>1, <4>2 DEF Cited
      <4>3. ASSUME NEW c \in Call, Answered(c), call[c].pc = "file", q = Outgoing(c)
            PROVE  call[c].pc = "file" /\ m \in Upstreams(c)
        BY <4>1, <4>3, OutgoingOK DEF Writing
      <4> QED
        BY <2>3, <4>2, <4>3
    <3> QED
      BY <3>1, <3>2, <3>3
  <2> QED
    BY <2>2, <2>3, IssuesStep
<1>2. CASE \E q \in wire' : q.kind = "file" /\ m \in q.upstreams
  <2>1. PICK q \in wire' : q.kind = "file" /\ m \in q.upstreams
    BY <1>2
  <2>2. CASE q \in wire
    BY <2>1, <2>2 DEF Cited
  <2>3. CASE \E c \in Call : TimesOut(c) /\ q = Outgoing(c)
    <3>1. PICK c \in Call : TimesOut(c) /\ q = Outgoing(c)
      BY <2>3
    <3>2. call[c].pc = "file" /\ m \in Upstreams(c)
      BY <2>1, <3>1, OutgoingOK DEF TimesOut
    <3> QED
      BY <3>2
  <2> QED
    BY <2>2, <2>3, Steps
<1> QED
  BY <1>1, <1>2 DEF Cited

\* UpstreamsResolve, issue by issue.
LEMMA ResolveIs ==
  (\A n \in DOMAIN issues : issues[n].upstreams \subseteq DOMAIN issues) =>
    (UpstreamsResolve <=>
       \A n \in DOMAIN issues :
         /\ Resolves(issues[n].by, issues[n].item, issues[n].upstreams)
         /\ \A m \in issues[n].upstreams : m < n)
BY DEF UpstreamsResolve, Resolves

\* So it is after a step.
LEMMA ResolveIsNext ==
  ((\A n \in DOMAIN issues : issues[n].upstreams \subseteq DOMAIN issues) =>
     (UpstreamsResolve <=>
        \A n \in DOMAIN issues :
          /\ Resolves(issues[n].by, issues[n].item, issues[n].upstreams)
          /\ \A m \in issues[n].upstreams : m < n))'
BY ResolveIs, PTL

\* The answer to a filed sub-issue is its number.
LEMMA FiledIs ==
  ASSUME ApplyingAssumption, TypeOK, NEW c \in Call, Answered(c), call[c].pc = "file"
  PROVE  /\ Len(issues') \in DOMAIN issues' /\ Len(issues') = Len(issues) + 1
         /\ issues'[Len(issues')].by = c
         /\ issues'[Len(issues')].item = Len(call[c].numbers) + 1
<1>1. PICK q : q = Outgoing(c)
  OBVIOUS
<1>2. RequestOK(q) /\ q.kind = "file" /\ q.by = c /\ q.item = Len(call[c].numbers) + 1
  BY <1>1, OutgoingOK DEF Writing
<1>3. Accepts(q) /\ Performs(q)
  BY <1>1 DEF Answered
<1>4. issues' = Append(issues, IssueOf(q)) /\ IssueOf(q) \in Issue /\ issues \in Seq(Issue)
  BY <1>2, <1>3, Performed, TypeIs DEF OnGitHub
<1>5. IssueOf(q).by = c /\ IssueOf(q).item = Len(call[c].numbers) + 1
  BY <1>2 DEF IssueOf
<1> HIDE DEF Issue
<1>6. /\ Len(issues) \in Nat /\ DOMAIN issues' = 1..Len(issues) + 1
      /\ Len(issues') = Len(issues) + 1 /\ issues'[Len(issues) + 1] = IssueOf(q)
  BY <1>4, AppendOne
<1> QED
  BY <1>5, <1>6

\* Every step keeps it that upstreams resolve.
LEMMA ResolvingStep ==
  ASSUME ApplyingAssumption, TypeOK, [Next]_vars, Resolving
  PROVE  Resolving'
<1>0. /\ DOMAIN issues \subseteq DOMAIN issues'
      /\ \A n \in DOMAIN issues : issues'[n] = issues[n]
      /\ issues \in Seq(Issue)
      /\ \A n \in DOMAIN issues : issues[n].upstreams \subseteq DOMAIN issues
      /\ \A n \in DOMAIN issues' : issues'[n].upstreams \subseteq DOMAIN issues'
      /\ \A q \in wire : q.kind = "file" => q.upstreams \subseteq DOMAIN issues
      /\ \A c \in Call : /\ call[c].numbers \in Seq(Nat)
                         /\ \A j \in DOMAIN call[c].numbers : call[c].numbers[j] \in DOMAIN issues
  <2>1. Grows /\ OnGitHub /\ OnGitHub'
    BY GitHubStep, TypeIs
  <2>2. /\ \A q \in wire : q.kind = "file" => q.upstreams \subseteq DOMAIN issues
        /\ \A c \in Call : /\ call[c].numbers \in Seq(Nat)
                           /\ \A j \in DOMAIN call[c].numbers : call[c].numbers[j] \in DOMAIN issues
    BY DEF TypeOK, RequestOK, LocalOK, Local
  <2> QED
    BY <2>1, <2>2 DEF Grows, OnGitHub
<1>1. ASSUME NEW by, NEW item, NEW upstreams, Resolves(by, item, upstreams)
      PROVE  Resolves(by, item, upstreams)'
  <2>1. \A m \in upstreams : m \in DOMAIN issues' /\ issues'[m] = issues[m]
    BY <1>0, <1>1 DEF Resolves
  <2>2. {issues'[m].item : m \in upstreams} = {issues[m].item : m \in upstreams}
    BY <2>1
  <2> QED
    BY <1>1, <2>1, <2>2 DEF Resolves
\* The request that a call has under way resolves.
<1>2. ASSUME NEW c \in Call, call[c].pc = "file", NEW q, q = Outgoing(c)
      PROVE  Resolves(q.by, q.item, q.upstreams)
  BY <1>2, UpstreamsAre, OutgoingOK DEF Writing
<1>3. \A q \in wire : q.kind = "file" => Resolves(q.by, q.item, q.upstreams)
  BY DEF Resolving
<1>4. \A n \in DOMAIN issues :
        /\ Resolves(issues[n].by, issues[n].item, issues[n].upstreams)
        /\ \A m \in issues[n].upstreams : m < n
  BY <1>0, ResolveIs DEF Resolving
<1>5. UpstreamsResolve'
  <2>1. ASSUME NEW n \in DOMAIN issues', NEW i, i = issues'[n]
        PROVE  Resolves(i.by, i.item, i.upstreams) /\ \A m \in i.upstreams : m < n
    <3>1. CASE n \in DOMAIN issues
      BY <1>0, <1>4, <2>1, <3>1
    <3>2. CASE n \notin DOMAIN issues
      <4>1. PICK q : /\ q.kind = "file" /\ RequestOK(q)
                     /\ issues' = Append(issues, IssueOf(q)) /\ IssueOf(q) \in Issue
                     /\ \/ q \in wire /\ UNCHANGED call
                        \/ \E c \in Call : Answered(c) /\ call[c].pc = "file" /\ q = Outgoing(c)
        BY <3>2, IssuesStep
      <4>2. Resolves(q.by, q.item, q.upstreams)
        BY <1>2, <1>3, <4>1
      <4>3. /\ DOMAIN issues = 1..Len(issues) /\ Len(issues) \in Nat
            /\ DOMAIN issues' = 1..Len(issues) + 1
            /\ issues'[Len(issues) + 1] = IssueOf(q)
        <5> HIDE DEF Issue
        <5> QED
          BY <1>0, <4>1, AppendOne
      <4>4. n = Len(issues) + 1
        BY <3>2, <4>3
      <4>5. i.by = q.by /\ i.item = q.item /\ i.upstreams = q.upstreams
        BY <2>1, <4>3, <4>4 DEF IssueOf
      <4>6. \A m \in q.upstreams : m < n
        BY <4>2, <4>3, <4>4 DEF Resolves
      <4> QED
        BY <4>2, <4>5, <4>6
    <3> QED
      BY <3>1, <3>2
  <2>2. ASSUME NEW n \in DOMAIN issues', NEW i, i = issues'[n]
        PROVE  Resolves(i.by, i.item, i.upstreams)' /\ \A m \in i.upstreams : m < n
    BY <1>1, <2>1, <2>2
  <2>3. (\A n \in DOMAIN issues :
           /\ Resolves(issues[n].by, issues[n].item, issues[n].upstreams)
           /\ \A m \in issues[n].upstreams : m < n)'
    BY <2>2 DEF Resolves
  <2> QED
    BY <1>0, <2>3, ResolveIsNext
<1>6. ASSUME NEW q \in wire', q.kind = "file" PROVE Resolves(q.by, q.item, q.upstreams)'
  <2>1. q \in wire \/ \E c \in Call : TimesOut(c) /\ q = Outgoing(c)
    BY Steps
  <2>2. \A c \in Call : TimesOut(c) /\ q = Outgoing(c) => call[c].pc = "file"
    BY <1>6, OutgoingOK DEF TimesOut
  <2>3. Resolves(q.by, q.item, q.upstreams)
    BY <1>2, <1>3, <1>6, <2>1, <2>2
  <2> QED
    BY <1>1, <2>3
\* What a call remembers is its own.
<1>7. ASSUME NEW c \in Call, NEW j \in DOMAIN call'[c].numbers
      PROVE  issues'[call'[c].numbers[j]].by = c /\ issues'[call'[c].numbers[j]].item = j
  <2>1. \A k \in DOMAIN call[c].numbers :
          /\ issues'[call[c].numbers[k]].by = c
          /\ issues'[call[c].numbers[k]].item = k
    BY <1>0 DEF Resolving
  <2>2. CASE call'[c].numbers = call[c].numbers
    BY <2>1, <2>2
  <2>3. CASE /\ Answered(c) /\ call[c].pc = "file"
             /\ call'[c].numbers = Append(call[c].numbers, Len(issues'))
    <3>1. /\ Len(issues') \in DOMAIN issues'
          /\ issues'[Len(issues')].by = c
          /\ issues'[Len(issues')].item = Len(call[c].numbers) + 1
      BY <2>3, FiledIs
    <3>2. Len(issues') \in Nat
      BY <1>0, <2>3, FiledIs
    <3>3. /\ DOMAIN call[c].numbers = 1..Len(call[c].numbers) /\ Len(call[c].numbers) \in Nat
          /\ DOMAIN call'[c].numbers = 1..Len(call[c].numbers) + 1
          /\ \A i \in 1..Len(call[c].numbers) : call'[c].numbers[i] = call[c].numbers[i]
          /\ call'[c].numbers[Len(call[c].numbers) + 1] = Len(issues')
      BY <1>0, <2>3, <3>2, AppendOne
    <3>4. CASE j \in DOMAIN call[c].numbers
      <4>1. call'[c].numbers[j] = call[c].numbers[j]
        BY <3>3, <3>4
      <4> QED
        BY <2>1, <3>4, <4>1
    <3>5. CASE j = Len(call[c].numbers) + 1
      BY <3>1, <3>3, <3>5
    <3>6. j \in DOMAIN call[c].numbers \/ j = Len(call[c].numbers) + 1
      BY <3>3
    <3> QED
      BY <3>4, <3>5, <3>6
  <2> QED
    BY <2>2, <2>3, NumbersStep
\* Who is cited is remembered while the call runs.
<1>8. \A m : Cited(m) => m \in DOMAIN issues
  BY <1>0 DEF Cited
<1>9. ASSUME NEW c \in Call, call[c].pc = "file", NEW m \in Upstreams(c)
      PROVE  /\ m \in DOMAIN issues /\ issues[m].by = c
             /\ issues[m].item \in DOMAIN call[c].numbers
             /\ call[c].numbers[issues[m].item] = m
  <2>1. PICK j \in DOMAIN call[c].numbers : m = call[c].numbers[j]
    BY <1>9, UpstreamsAre
  <2>2. m \in DOMAIN issues /\ issues[m].by = c /\ issues[m].item = j
    BY <1>0, <2>1 DEF Resolving
  <2> QED
    BY <2>1, <2>2
<1>10. ASSUME NEW m, Cited(m)'
       PROVE  /\ m \in DOMAIN issues /\ issues'[m] = issues[m]
              /\ Cited(m) \/ \E c \in Call : call[c].pc = "file" /\ m \in Upstreams(c)
              /\ \A c \in Call : issues[m].by = c /\ call[c].pc \notin Ended =>
                   issues[m].item \in DOMAIN call[c].numbers /\ call[c].numbers[issues[m].item] = m
  <2>1. Cited(m) \/ \E c \in Call : call[c].pc = "file" /\ m \in Upstreams(c)
    BY <1>10, CitedStep
  <2>2. m \in DOMAIN issues
    BY <1>8, <1>9, <2>1
  <2>3. \A c \in Call : issues[m].by = c /\ call[c].pc \notin Ended =>
          issues[m].item \in DOMAIN call[c].numbers /\ call[c].numbers[issues[m].item] = m
    <3>1. CASE Cited(m)
      BY <2>2, <3>1 DEF Resolving
    <3>2. CASE \E c \in Call : call[c].pc = "file" /\ m \in Upstreams(c)
      BY <1>9, <3>2
    <3> QED
      BY <2>1, <3>1, <3>2
  <2> QED
    BY <1>0, <2>1, <2>2, <2>3
<1>11. ASSUME NEW m \in DOMAIN issues', NEW c \in Call,
              Cited(m)', issues'[m].by = c, call'[c].pc \notin Ended
       PROVE  /\ issues'[m].item \in DOMAIN call'[c].numbers
              /\ call'[c].numbers[issues'[m].item] = m
  <2>1. /\ call[c].pc \notin Ended
        /\ \/ call'[c].numbers = call[c].numbers
           \/ /\ Answered(c) /\ call[c].pc = "file"
              /\ call'[c].numbers = Append(call[c].numbers, Len(issues'))
    BY <1>11, NumbersStep
  <2>2. /\ issues'[m].item \in DOMAIN call[c].numbers
        /\ call[c].numbers[issues'[m].item] = m
    BY <1>10, <1>11, <2>1
  <2>3. CASE call'[c].numbers = call[c].numbers
    BY <2>2, <2>3
  <2>4. CASE /\ Answered(c) /\ call[c].pc = "file"
             /\ call'[c].numbers = Append(call[c].numbers, Len(issues'))
    <3>1. Len(issues') \in Nat
      BY <1>0, <2>4, FiledIs
    <3>2. /\ DOMAIN call[c].numbers = 1..Len(call[c].numbers) /\ Len(call[c].numbers) \in Nat
          /\ DOMAIN call'[c].numbers = 1..Len(call[c].numbers) + 1
          /\ \A i \in 1..Len(call[c].numbers) : call'[c].numbers[i] = call[c].numbers[i]
      BY <1>0, <2>4, <3>1, AppendOne
    <3> QED
      BY <2>2, <3>2
  <2> QED
    BY <2>1, <2>3, <2>4
\* So no two of its copies of one item are cited.
<1>12. ASSUME NEW m \in DOMAIN issues', NEW n \in DOMAIN issues', Cited(m)', Cited(n)',
              issues'[m].by = issues'[n].by, issues'[m].item = issues'[n].item
       PROVE  m = n
  <2>1. /\ m \in DOMAIN issues /\ n \in DOMAIN issues
        /\ issues[m].by = issues[n].by /\ issues[m].item = issues[n].item
    BY <1>10, <1>12
  <2>2. CASE Cited(m) /\ Cited(n)
    BY <2>1, <2>2 DEF Resolving
  <2>3. ASSUME NEW c \in Call, call[c].pc = "file", m \in Upstreams(c) \/ n \in Upstreams(c)
        PROVE  m = n
    <3>1. issues[m].by = c /\ issues[n].by = c /\ call[c].pc \notin Ended
      BY <1>9, <2>1, <2>3 DEF Ended
    <3>2. call[c].numbers[issues[m].item] = m /\ call[c].numbers[issues[n].item] = n
      BY <1>10, <1>12, <3>1
    <3> QED
      BY <2>1, <3>2
  <2> QED
    BY <1>10, <1>12, <2>2, <2>3
<1> QED
  BY <1>5, <1>6, <1>7, <1>11, <1>12 DEF Resolving

\* Types, and upstreams that resolve, in every reachable state.
LEMMA ResolvingHolds == Spec => [](TypeOK /\ Resolving)
<1>1. Init => TypeOK /\ Resolving
  <2> SUFFICES ASSUME Init PROVE Resolving
    BY ApplyingAssumption, TypeInit
  <2>1. issues = <<>> /\ wire = {} /\ \A c \in Call : call[c].numbers = <<>>
    BY DEF Init, Fresh
  <2>2. DOMAIN issues = {}
    BY <2>1
  <2> QED
    BY <2>1, <2>2 DEF Resolving, UpstreamsResolve, Cited
<1>2. TypeOK /\ Resolving /\ [Next]_vars => TypeOK' /\ Resolving'
  BY ApplyingAssumption, TypeStep, ResolvingStep
<1> QED
  BY <1>1, <1>2, PTL DEF Spec

\* The upstream numbers of a filed sub-issue are those of earlier issues of its own
\* decomposition, one for each dependency that precedes it.
THEOREM UpstreamsAlwaysResolve == Spec => []UpstreamsResolve
<1>1. Resolving => UpstreamsResolve
  BY DEF Resolving
<1> QED
  BY <1>1, ResolvingHolds, PTL

\* Of the copies of a sub-issue that retried and late requests file, only one has dependents.
THEOREM CopiesAreHarmless == Spec => []CopiesKeepNobodyWaiting
<1>1. TypeOK /\ Resolving => CopiesKeepNobodyWaiting
  <2> SUFFICES ASSUME TypeOK, Resolving PROVE CopiesKeepNobodyWaiting
    OBVIOUS
  <2>1. \A n \in DOMAIN issues : issues[n].upstreams \subseteq DOMAIN issues
    BY TypeIs DEF OnGitHub
  <2>2. ASSUME NEW m \in UNION {issues[k].upstreams : k \in DOMAIN issues}
        PROVE  Cited(m) /\ m \in DOMAIN issues
    BY <2>1 DEF Cited
  <2> QED
    BY <2>2 DEF Resolving, CopiesKeepNobodyWaiting
<1> QED
  BY <1>1, ResolvingHolds, PTL
-----------------------------------------------------------------------------
(* A write tool keeps the promise of ToolCall *)

\* The requests whose effect the pipeline asked for, which effect it is, and how many the
\* call has.
Effective == {"move", "open", "file", "close"}

EffectOf(q) ==
  CASE q.kind = "move" -> 1
    [] q.kind = "open" -> 2
    [] q.kind = "file" -> q.item
    [] OTHER -> Len(Staged) + 1

EffectsOf(c) ==
  CASE c \in Opener -> 2
    [] c \in Pusher -> 1
    [] OTHER -> Len(Staged) + 1

\* The request is one of its tool, and the effects that come before its own are made.
Due(q) ==
  /\ q.kind \in PhasesOf(q.by)
  /\ q.kind \in Effective => 1..EffectOf(q) - 1 \subseteq Made(q.by)

\* The inductive invariant behind ImplementsToolCall: what is under way is due, a call that
\* has returned has made every effect, and the effects that are made are the first ones.
InOrder ==
  /\ \A q \in wire : Due(q)
  /\ \A c \in Call : /\ call[c].pc = "open" => 1 \in Made(c)
                     /\ call[c].pc = "close" => Len(call[c].numbers) = Len(Staged)
                     /\ call[c].pc = "returned" => 1..EffectsOf(c) \subseteq Made(c)
  /\ \A c \in Call : \E n \in 0..EffectsOf(c) : Made(c) = 1..n

\* The effects of a call, one by one.
LEMMA MadeIs ==
  ASSUME NEW c \in Call
  PROVE  /\ c \in Decomposer =>
              \A k : k \in Made(c) <=>
                \/ \E n \in DOMAIN issues : issues[n].by = c /\ issues[n].item = k
                \/ k = Len(Staged) + 1 /\ c \in closed
         /\ c \notin Decomposer =>
              \A k : k \in Made(c) <=>
                \/ k = 1 /\ \E b, j : LandedAt(c, b, j)
                \/ k = 2 /\ \E p \in prs : p.by = c
<1>1. Landed(c) <=> \E b, j : LandedAt(c, b, j)
  BY DEF Landed, LandedAt, Range
<1> QED
  BY <1>1 DEF Made

\* So they are after a step.
LEMMA MadeIsNext ==
  (\A c \in Call :
     /\ c \in Decomposer =>
          \A k : k \in Made(c) <=>
            \/ \E n \in DOMAIN issues : issues[n].by = c /\ issues[n].item = k
            \/ k = Len(Staged) + 1 /\ c \in closed
     /\ c \notin Decomposer =>
          \A k : k \in Made(c) <=>
            \/ k = 1 /\ \E b, j : LandedAt(c, b, j)
            \/ k = 2 /\ \E p \in prs : p.by = c)'
<1>1. \A c \in Call :
     /\ c \in Decomposer =>
          \A k : k \in Made(c) <=>
            \/ \E n \in DOMAIN issues : issues[n].by = c /\ issues[n].item = k
            \/ k = Len(Staged) + 1 /\ c \in closed
     /\ c \notin Decomposer =>
          \A k : k \in Made(c) <=>
            \/ k = 1 /\ \E b, j : LandedAt(c, b, j)
            \/ k = 2 /\ \E p \in prs : p.by = c
  BY MadeIs
<1> QED
  BY <1>1, PTL

\* A request that GitHub accepts makes its effect, unless that is made already, and no other.
LEMMA MadeBy ==
  ASSUME ApplyingAssumption, TypeOK, NEW q, RequestOK(q), q.kind \in PhasesOf(q.by),
         Accepts(q), Performs(q),
         q.kind = "move" => Built(q.by, q.branch, q.commit),
         NEW d \in Call, NEW k
  PROVE  /\ k \in Made(d)' <=>
              (k \in Made(d) \/ (d = q.by /\ q.kind \in Effective /\ k = EffectOf(q)))
         /\ q.by \in Call /\ q.kind \in Effective => EffectOf(q) \in 1..EffectsOf(q.by)
<1> DEFINE c == q.by
<1>0. /\ c \in Call /\ q.kind \in Writing /\ q.kind \in PhasesOf(c)
      /\ q.kind \in {"move", "open"} => q.branch \in DOMAIN head
      /\ q.kind = "file" => q.item \in DOMAIN Staged
  BY DEF RequestOK, Request
<1>1. /\ q.kind \in {"file", "close"} => c \in Decomposer
      /\ q.kind \in {"move", "open"} => c \notin Decomposer
      /\ q.kind = "open" => c \in Opener
      /\ c \in Decomposer => c \notin Opener /\ c \notin Pusher
      /\ c \in Opener \/ c \in Pusher \/ c \in Decomposer
  <2>1. /\ c \in Pusher => c \notin Opener
        /\ c \in Decomposer => c \notin Opener /\ c \notin Pusher
    BY DEF ApplyingAssumption
  <2> QED
    BY <1>0, <2>1, PhasesAre DEF Ended
<1>2. Len(Staged) \in Nat /\ DOMAIN Staged = 1..Len(Staged)
  BY LenProperties DEF ApplyingAssumption
<1>3. q.kind \in Effective => EffectOf(q) \in 1..EffectsOf(c)
  <2>1. CASE q.kind = "file"
    BY <1>0, <1>1, <1>2, <2>1 DEF EffectOf, EffectsOf
  <2>2. CASE q.kind = "close"
    BY <1>1, <1>2, <2>2 DEF EffectOf, EffectsOf
  <2>3. CASE q.kind = "open"
    BY <1>1, <2>3 DEF EffectOf, EffectsOf
  <2>4. CASE q.kind = "move"
    BY <1>1, <2>4 DEF EffectOf, EffectsOf
  <2> QED
    BY <2>1, <2>2, <2>3, <2>4 DEF Effective
\* The sub-issues that are filed.
<1>4. (\E n \in DOMAIN issues' : issues'[n].by = d /\ issues'[n].item = k) <=>
        \/ \E n \in DOMAIN issues : issues[n].by = d /\ issues[n].item = k
        \/ q.kind = "file" /\ d = c /\ k = q.item
  <2>1. CASE q.kind # "file"
    <3>1. issues' = issues
      BY <2>1, Performed
    <3> QED
      BY <2>1, <3>1
  <2>2. CASE q.kind = "file"
    <3>1. issues' = Append(issues, IssueOf(q)) /\ IssueOf(q) \in Issue /\ issues \in Seq(Issue)
      BY <2>2, Performed, TypeIs DEF OnGitHub
    <3>2. IssueOf(q).by = c /\ IssueOf(q).item = q.item
      BY DEF IssueOf
    <3> HIDE DEF Issue
    <3>3. /\ Len(issues) \in Nat /\ DOMAIN issues = 1..Len(issues)
          /\ DOMAIN issues' = 1..Len(issues) + 1
          /\ \A n \in 1..Len(issues) : issues'[n] = issues[n]
          /\ issues'[Len(issues) + 1] = IssueOf(q)
      BY <3>1, AppendOne
    <3>4. \A n : n \in DOMAIN issues' <=> n \in DOMAIN issues \/ n = Len(issues) + 1
      BY <3>3
    <3> QED
      BY <2>2, <3>2, <3>3, <3>4
  <2> QED
    BY <2>1, <2>2
\* The commits that have landed.
<1>5. (\E b, j : LandedAt(d, b, j)') <=>
        (\E b, j : LandedAt(d, b, j)) \/ (q.kind = "move" /\ d = c)
  <2>1. CASE q.kind \notin {"create", "move"}
    <3>1. head' = head
      BY <2>1, Performed
    <3> QED
      BY <2>1, <3>1 DEF LandedAt
  <2>2. CASE q.kind = "create"
    <3>1. /\ q.branch \notin DOMAIN head /\ DOMAIN head' = DOMAIN head \cup {q.branch}
          /\ head'[q.branch] = <<>> /\ \A b \in DOMAIN head : head'[b] = head[b]
      BY <2>2, Performed DEF RequestOK
    <3>2. DOMAIN head'[q.branch] = {}
      BY <3>1
    <3>3. \A b, j : LandedAt(d, b, j)' <=> LandedAt(d, b, j)
      BY <3>1, <3>2 DEF LandedAt
    <3> QED
      BY <2>2, <3>3
  <2>3. CASE q.kind = "move"
    <3> DEFINE a == q.branch
               h == q.commit
               s == head[a]
    <3>1. /\ a \in DOMAIN head /\ IsPrefix(s, h) /\ DOMAIN head' = DOMAIN head /\ head'[a] = h
          /\ \A b \in DOMAIN head : b # a => head'[b] = head[b]
      BY <1>0, <2>3, Performed
    <3>2. s \in Seq(Call) /\ h \in Seq(Call)
      BY <3>1 DEF TypeOK, RequestOK, Request
    <3>3. /\ Len(h) > 0 /\ h[Len(h)] = c
          /\ \A j \in 1..Len(h) - 1 : j \in DOMAIN s /\ s[j] = h[j]
      BY <2>3 DEF Built
    <3> HIDE DEF a, h, s
    <3>4. /\ Len(s) <= Len(h) /\ \A i \in 1..Len(s) : s[i] = h[i]
          /\ Len(s) \in Nat /\ Len(h) \in Nat /\ DOMAIN s = 1..Len(s) /\ DOMAIN h = 1..Len(h)
      BY <3>1, <3>2, PrefixIs, LenProperties
    <3>5. \A j \in DOMAIN s : j \in DOMAIN h /\ h[j] = s[j]
      BY <3>4
    <3>6. \A j \in DOMAIN h : j = Len(h) \/ (j \in DOMAIN s /\ s[j] = h[j])
      BY <3>3, <3>4
    <3>7. Len(h) \in DOMAIN h
      BY <3>3, <3>4
    <3>8. ASSUME NEW b, NEW j, LandedAt(d, b, j) PROVE LandedAt(d, b, j)'
      BY <3>1, <3>5, <3>8 DEF LandedAt, s
    <3>9. ASSUME NEW b, NEW j, LandedAt(d, b, j)' PROVE LandedAt(d, b, j) \/ d = c
      BY <3>1, <3>3, <3>6, <3>9 DEF LandedAt, s
    <3>10. LandedAt(c, a, Len(h))'
      BY <3>1, <3>3, <3>7 DEF LandedAt
    <3> QED
      BY <2>3, <3>8, <3>9, <3>10
  <2> QED
    BY <2>1, <2>2, <2>3
\* The pull requests that are open, or were.
<1>6. (\E p \in prs' : p.by = d) <=> (\E p \in prs : p.by = d) \/ (q.kind = "open" /\ d = c)
  <2>1. CASE q.kind = "open"
    <3>1. PICK r : r = [by |-> q.by, branch |-> q.branch, open |-> TRUE]
      OBVIOUS
    <3>2. r.by = c /\ prs' = prs \cup {r}
      BY <2>1, <3>1 DEF Performs
    <3> QED
      BY <2>1, <3>2
  <2>2. CASE q.kind # "open"
    BY <2>2 DEF Performs
  <2> QED
    BY <2>1, <2>2
<1>7. d \in closed' <=> d \in closed \/ (q.kind = "close" /\ d = c)
  BY DEF Performs
<1> HIDE DEF c
<1>8. CASE d \in Decomposer
  <2>1. k \in Made(d) <=>
          \/ \E n \in DOMAIN issues : issues[n].by = d /\ issues[n].item = k
          \/ k = Len(Staged) + 1 /\ d \in closed
    BY <1>8, MadeIs
  <2>2. k \in Made(d)' <=>
          \/ \E n \in DOMAIN issues' : issues'[n].by = d /\ issues'[n].item = k
          \/ k = Len(Staged) + 1 /\ d \in closed'
    BY <1>8, MadeIsNext
  <2>3. d = c => (q.kind \in Effective <=> q.kind \in {"file", "close"})
    BY <1>1, <1>8 DEF Effective
  <2>4. /\ q.kind = "file" => EffectOf(q) = q.item
        /\ q.kind = "close" => EffectOf(q) = Len(Staged) + 1
    BY DEF EffectOf
  <2>5. k \in Made(d)' <=>
          (k \in Made(d) \/ (d = c /\ q.kind \in Effective /\ k = EffectOf(q)))
    BY <1>4, <1>7, <2>1, <2>2, <2>3, <2>4
  <2> QED
    BY <1>0, <1>3, <2>5 DEF c
<1>9. CASE d \notin Decomposer
  <2>1. k \in Made(d) <=>
          \/ k = 1 /\ \E b, j : LandedAt(d, b, j)
          \/ k = 2 /\ \E p \in prs : p.by = d
    BY <1>9, MadeIs
  <2>2. k \in Made(d)' <=>
          \/ k = 1 /\ \E b, j : LandedAt(d, b, j)'
          \/ k = 2 /\ \E p \in prs' : p.by = d
    BY <1>9, MadeIsNext
  <2>3. d = c => (q.kind \in Effective <=> q.kind \in {"move", "open"})
    BY <1>1, <1>9 DEF Effective
  <2>4. /\ q.kind = "move" => EffectOf(q) = 1
        /\ q.kind = "open" => EffectOf(q) = 2
    BY DEF EffectOf
  <2>5. k \in Made(d)' <=>
          (k \in Made(d) \/ (d = c /\ q.kind \in Effective /\ k = EffectOf(q)))
    BY <1>5, <1>6, <2>1, <2>2, <2>3, <2>4
  <2> QED
    BY <1>0, <1>3, <2>5 DEF c
<1> QED
  BY <1>8, <1>9

\* The request that a call has under way is due.
LEMMA OwnDue ==
  ASSUME ApplyingAssumption, TypeOK, Resolving, InOrder, NEW c \in Call, call[c].pc \in Writing,
         NEW q, q = Outgoing(c)
  PROVE  /\ Due(q) /\ q.by = c /\ q.kind = call[c].pc
         /\ q.kind = "move" => Moving(q.by, q.branch, q.commit)
<1>1. /\ q.kind = call[c].pc /\ q.by = c /\ q.branch = call[c].branch /\ q.commit = call[c].commit
      /\ call[c].pc = "file" => q.item = Len(call[c].numbers) + 1
  BY OutgoingOK
<1>2. call[c].pc \in PhasesOf(c) /\ call[c].numbers \in Seq(Nat)
      /\ \A j \in DOMAIN call[c].numbers : call[c].numbers[j] \in DOMAIN issues
  BY DEF TypeOK, LocalOK, Local
<1>3. ASSUME call[c].pc \in {"file", "close"}
      PROVE  1..Len(call[c].numbers) \subseteq Made(c)
  <2>1. c \in Decomposer
    BY <1>2, <1>3, PhasesAre DEF Ended
  <2>2. DOMAIN call[c].numbers = 1..Len(call[c].numbers)
    BY <1>2, LenProperties
  <2>3. ASSUME NEW j \in DOMAIN call[c].numbers PROVE j \in Made(c)
    <3>1. PICK n \in DOMAIN issues : n = call[c].numbers[j]
      BY <1>2
    <3>2. issues[n].by = c /\ issues[n].item = j
      BY <3>1 DEF Resolving
    <3> QED
      BY <2>1, <3>2, MadeIs
  <2> QED
    BY <2>2, <2>3
<1>4. q.kind \in Effective => 1..EffectOf(q) - 1 \subseteq Made(c)
  <2>1. CASE q.kind = "move"
    BY <2>1 DEF EffectOf
  <2>2. CASE q.kind = "open"
    <3>1. 1 \in Made(c)
      BY <1>1, <2>2 DEF InOrder
    <3>2. EffectOf(q) - 1 = 1
      BY <2>2 DEF EffectOf
    <3>3. \A k \in 1..1 : k = 1
      OBVIOUS
    <3> QED
      BY <3>1, <3>2, <3>3
  <2>3. CASE q.kind = "file"
    <3>1. EffectOf(q) - 1 = Len(call[c].numbers)
      BY <1>1, <1>2, <2>3, LenProperties DEF EffectOf
    <3> QED
      BY <1>1, <1>3, <2>3, <3>1
  <2>4. CASE q.kind = "close"
    <3>1. Len(call[c].numbers) = Len(Staged)
      BY <1>1, <2>4 DEF InOrder
    <3>2. EffectOf(q) = Len(Staged) + 1 /\ Len(Staged) \in Nat
      BY <2>4, LenProperties DEF EffectOf, ApplyingAssumption
    <3>3. EffectOf(q) - 1 = Len(call[c].numbers)
      BY <3>1, <3>2
    <3> QED
      BY <1>1, <1>3, <2>4, <3>3
  <2> QED
    BY <2>1, <2>2, <2>3, <2>4 DEF Effective
<1> QED
  BY <1>1, <1>2, <1>4 DEF Due, Moving

\* One more of the first effects, or one of those that are made.
LEMMA OneMore ==
  ASSUME NEW n \in Nat, NEW e \in Nat \ {0}, 1..e - 1 \subseteq 1..n
  PROVE  \/ e \in 1..n
         \/ e = n + 1 /\ e \notin 1..n /\ \A k : k \in 1..n + 1 <=> (k \in 1..n \/ k = e)
<1>1. CASE e <= n
  BY <1>1
<1>2. CASE e > n
  <2>1. e - 1 <= n
    <3>1. CASE e = 1
      BY <3>1
    <3>2. CASE e # 1
      <4>1. e - 1 \in 1..e - 1
        BY <3>2
      <4> QED
        BY <4>1
    <3> QED
      BY <3>1, <3>2
  <2>2. e = n + 1
    BY <1>2, <2>1
  <2> QED
    BY <2>2
<1> QED
  BY <1>1, <1>2

\* A request that is due makes the next effect of its call.
LEMMA DueMakes ==
  ASSUME ApplyingAssumption, TypeOK, Landings, InOrder, NEW q, RequestOK(q), Due(q),
         Accepts(q), Performs(q),
         q.kind = "move" => Moving(q.by, q.branch, q.commit)
  PROVE  /\ q.by \in Call
         /\ q.kind \in Effective =>
              /\ EffectOf(q) \in Made(q.by)'
              /\ 1..EffectOf(q) \subseteq Made(q.by)'
         /\ \A d \in Call :
              \/ Made(d)' = Made(d)
              \/ d = q.by /\ \E n \in 0..EffectsOf(d) - 1 :
                               Made(d) = 1..n /\ Made(d)' = 1..n + 1
<1>1. q.by \in Call /\ q.kind \in PhasesOf(q.by)
  BY DEF RequestOK, Request, Due
<1>2. q.kind = "move" => Built(q.by, q.branch, q.commit)
  <2>1. q.kind = "move" => q.branch \in Branch /\ q.commit \in Seq(Call)
    BY DEF RequestOK, Request, TypeOK
  <2> QED
    BY <1>1, <2>1 DEF Landings
<1>3. ASSUME NEW d \in Call
      PROVE  /\ \A k : k \in Made(d)' <=>
                  (k \in Made(d) \/ (d = q.by /\ q.kind \in Effective /\ k = EffectOf(q)))
             /\ q.kind \in Effective => EffectOf(q) \in 1..EffectsOf(q.by)
  BY <1>1, <1>2, MadeBy
<1>4. ASSUME NEW d \in Call PROVE EffectsOf(d) \in Nat
  BY LenProperties DEF EffectsOf, ApplyingAssumption
<1>5. ASSUME q.kind \in Effective
      PROVE  /\ EffectOf(q) \in Made(q.by)'
             /\ 1..EffectOf(q) \subseteq Made(q.by)'
  <2>1. EffectOf(q) \in 1..EffectsOf(q.by) /\ 1..EffectOf(q) - 1 \subseteq Made(q.by)
    BY <1>1, <1>3, <1>5 DEF Due
  <2>2. \A k \in 1..EffectOf(q) : k \in 1..EffectOf(q) - 1 \/ k = EffectOf(q)
    BY <1>1, <1>4, <2>1
  <2> QED
    BY <1>1, <1>3, <1>5, <2>1, <2>2
<1>6. ASSUME NEW d \in Call
      PROVE  \/ Made(d)' = Made(d)
             \/ d = q.by /\ \E n \in 0..EffectsOf(d) - 1 : Made(d) = 1..n /\ Made(d)' = 1..n + 1
  <2>1. CASE ~(d = q.by /\ q.kind \in Effective)
    BY <1>3, <2>1
  <2>2. CASE d = q.by /\ q.kind \in Effective
    <3>1. PICK n \in 0..EffectsOf(d) : Made(d) = 1..n
      BY DEF InOrder
    <3>2. PICK e : e = EffectOf(q)
      OBVIOUS
    <3>3. e \in 1..EffectsOf(d) /\ 1..e - 1 \subseteq 1..n
      BY <1>3, <2>2, <3>1, <3>2 DEF Due
    <3>4. \A k : k \in Made(d)' <=> k \in 1..n \/ k = e
      BY <1>3, <2>2, <3>1, <3>2
    <3>5. n \in Nat /\ e \in Nat \ {0} /\ EffectsOf(d) \in Nat
      BY <1>4, <3>3
    <3>6. CASE e \in 1..n
      BY <3>1, <3>4, <3>6
    <3>7. CASE e = n + 1 /\ e \notin 1..n /\ \A k : k \in 1..n + 1 <=> (k \in 1..n \/ k = e)
      <4>1. Made(d)' = 1..n + 1
        BY <3>4, <3>7
      <4>2. n \in 0..EffectsOf(d) - 1
        BY <3>3, <3>5, <3>7
      <4> QED
        BY <2>2, <3>1, <4>1, <4>2
    <3> QED
      BY <3>3, <3>5, <3>6, <3>7, OneMore
  <2> QED
    BY <2>1, <2>2
<1> QED
  BY <1>1, <1>5, <1>6

\* What a step adds to the effects that are made is the next one of one call.
LEMMA MadeStep ==
  ASSUME ApplyingAssumption, TypeOK, Landings, Resolving, InOrder, [Next]_vars
  PROVE  /\ \A d \in Call : \E n \in 0..EffectsOf(d) : Made(d)' = 1..n
         /\ \A d \in Call : Made(d) \subseteq Made(d)'
         /\ \/ \A d \in Call : Made(d)' = Made(d)
            \/ \E c \in Call : /\ \A d \in Call : d # c => Made(d)' = Made(d)
                               /\ \E n \in 0..EffectsOf(c) - 1 :
                                    Made(c) = 1..n /\ Made(c)' = 1..n + 1
                               /\ UNCHANGED call \/ Answered(c)
         /\ \A c \in Call : Answered(c) /\ call[c].pc \in Effective =>
              /\ \A d \in Call : d # c => Made(d)' = Made(d)
              /\ \A q : q = Outgoing(c) => 1..EffectOf(q) \subseteq Made(c)'
<1>0. ASSUME NEW d \in Call PROVE EffectsOf(d) \in Nat
  BY LenProperties DEF EffectsOf, ApplyingAssumption
<1>1. ASSUME NEW c \in Call, Answered(c), NEW q, q = Outgoing(c)
      PROVE  /\ \A d \in Call : d # c => Made(d)' = Made(d)
             /\ \/ Made(c)' = Made(c)
                \/ \E n \in 0..EffectsOf(c) - 1 : Made(c) = 1..n /\ Made(c)' = 1..n + 1
             /\ q.kind \in Effective => 1..EffectOf(q) \subseteq Made(c)'
             /\ q.kind = call[c].pc
  <2>1. call[c].pc \in Writing /\ Accepts(q) /\ Performs(q)
    BY <1>1 DEF Answered
  <2>2. /\ Due(q) /\ q.by = c /\ q.kind = call[c].pc /\ RequestOK(q)
        /\ q.kind = "move" => Moving(q.by, q.branch, q.commit)
    BY <1>1, <2>1, OwnDue, OutgoingOK
  <2> QED
    BY <2>1, <2>2, DueMakes
<1>2. ASSUME NEW q \in wire, Accepts(q), Performs(q)
      PROVE  /\ q.by \in Call /\ \A d \in Call : d # q.by => Made(d)' = Made(d)
             /\ \/ Made(q.by)' = Made(q.by)
                \/ \E n \in 0..EffectsOf(q.by) - 1 : Made(q.by) = 1..n /\ Made(q.by)' = 1..n + 1
  <2>1. RequestOK(q) /\ Due(q) /\ (q.kind = "move" => Moving(q.by, q.branch, q.commit))
    BY TypeIs DEF InOrder, Moving
  <2> QED
    BY <1>2, <2>1, DueMakes
<1>3. ASSUME UNCHANGED github \/ (\E p \in prs : Settles(p)), NEW d \in Call
      PROVE  Made(d)' = Made(d)
  <2>1. /\ issues' = issues /\ closed' = closed /\ head' = head
        /\ (\E p \in prs' : p.by = d) <=> (\E p \in prs : p.by = d)
    <3>1. CASE UNCHANGED github
      BY <3>1 DEF github
    <3>2. ASSUME NEW p \in prs, Settles(p)
          PROVE  /\ issues' = issues /\ closed' = closed /\ head' = head
                 /\ (\E o \in prs' : o.by = d) <=> (\E o \in prs : o.by = d)
      <4>1. /\ prs' = (prs \ {p}) \cup {[p EXCEPT !.open = FALSE]}
            /\ UNCHANGED <<head, issues, closed>>
        BY <3>2 DEF Settles
      <4>2. p \in [by : Call, branch : DOMAIN head, open : BOOLEAN]
        BY DEF TypeOK
      <4>3. [p EXCEPT !.open = FALSE].by = p.by
        BY <4>2
      <4> QED
        BY <4>1, <4>3
    <3> QED
      BY <1>3, <3>1, <3>2
  <2>2. \A b, j : LandedAt(d, b, j)' <=> LandedAt(d, b, j)
    BY <2>1 DEF LandedAt
  <2>3. \A k : k \in Made(d)' <=> k \in Made(d)
    <3>1. CASE d \in Decomposer
      BY <2>1, <3>1, MadeIs, MadeIsNext
    <3>2. CASE d \notin Decomposer
      BY <2>1, <2>2, <3>2, MadeIs, MadeIsNext
    <3> QED
      BY <3>1, <3>2
  <2> QED
    BY <2>3 DEF Made
<1>4. \/ \A d \in Call : Made(d)' = Made(d)
      \/ \E c \in Call : /\ \A d \in Call : d # c => Made(d)' = Made(d)
                         /\ \E n \in 0..EffectsOf(c) - 1 :
                              Made(c) = 1..n /\ Made(c)' = 1..n + 1
                         /\ UNCHANGED call \/ Answered(c)
  <2>1. ASSUME NEW c \in Call, Answered(c)
        PROVE  /\ \A d \in Call : d # c => Made(d)' = Made(d)
               /\ \/ Made(c)' = Made(c)
                  \/ \E n \in 0..EffectsOf(c) - 1 : Made(c) = 1..n /\ Made(c)' = 1..n + 1
    BY <1>1, <2>1
  <2>2. CASE \E c \in Call : Answered(c)
    BY <2>1, <2>2
  <2>3. CASE \E q \in wire : Accepts(q) /\ Performs(q) /\ UNCHANGED call
    BY <1>2, <2>3
  <2>4. CASE UNCHANGED github \/ \E p \in prs : Settles(p)
    BY <1>3, <2>4
  <2> QED
    BY <2>2, <2>3, <2>4, Steps
<1>5. ASSUME NEW d \in Call
      PROVE  /\ \E n \in 0..EffectsOf(d) : Made(d)' = 1..n
             /\ Made(d) \subseteq Made(d)'
  <2>1. CASE Made(d)' = Made(d)
    BY <2>1 DEF InOrder
  <2>2. CASE \E n \in 0..EffectsOf(d) - 1 : Made(d) = 1..n /\ Made(d)' = 1..n + 1
    <3>1. PICK n \in 0..EffectsOf(d) - 1 : Made(d) = 1..n /\ Made(d)' = 1..n + 1
      BY <2>2
    <3>2. n + 1 \in 0..EffectsOf(d) /\ 1..n \subseteq 1..n + 1
      BY <1>0, <3>1
    <3> QED
      BY <3>1, <3>2
  <2> QED
    BY <1>4, <2>1, <2>2
<1>6. ASSUME NEW c \in Call, Answered(c), call[c].pc \in Effective
      PROVE  /\ \A d \in Call : d # c => Made(d)' = Made(d)
             /\ \A q : q = Outgoing(c) => 1..EffectOf(q) \subseteq Made(c)'
  BY <1>1, <1>6
<1> QED
  BY <1>4, <1>5, <1>6

\* A call that opens its pull request, closes its spec or returns did so before, or comes to
\* it by the answer to the request that precedes it.
LEMMA LatePhases ==
  ASSUME ApplyingAssumption, TypeOK, [Next]_vars, NEW c \in Call,
         call'[c].pc \in {"open", "close", "returned"}
  PROVE  \/ call'[c].pc = call[c].pc /\ call'[c].numbers = call[c].numbers
         \/ /\ Answered(c) /\ \A d \in Call : d # c => call'[d] = call[d]
            /\ \/ call'[c].pc = "open" /\ call[c].pc = "move"
               \/ /\ call'[c].pc = "close" /\ call[c].pc = "file"
                  /\ Len(call'[c].numbers) = Len(Staged)
               \/ /\ call'[c].pc = "returned" /\ call[c].pc \in Effective
                  /\ \A q : q = Outgoing(c) => EffectOf(q) = EffectsOf(c)
<1>1. CASE call'[c] = call[c]
  BY <1>1
<1>2. CASE Answered(c)
  <2>1. /\ call[c].pc \in Writing /\ call'[c].pc = NextPhase(c)
        /\ call'[c].pc \notin Ended =>
             call'[c].numbers = IF call[c].pc = "file" THEN Append(call[c].numbers, Len(issues'))
                                ELSE call[c].numbers
        /\ \A d \in Call : d # c => call'[d] = call[d]
    BY <1>2, Fields DEF CallStep
  <2>2. /\ call[c].pc \in PhasesOf(c) /\ call[c].numbers \in Seq(Nat)
        /\ call[c].pc = "file" => Len(call[c].numbers) < Len(Staged)
    BY DEF TypeOK, LocalOK, Local
  <2>3. Len(Staged) \in Nat /\ Len(call[c].numbers) \in Nat
    BY <2>2, LenProperties DEF ApplyingAssumption
  <2>4. CASE call'[c].pc = "open"
    <3>1. call[c].pc = "move"
      BY <2>1, <2>4 DEF NextPhase, At
    <3> QED
      BY <1>2, <2>1, <2>4, <3>1
  <2>5. CASE call'[c].pc = "close"
    <3>1. call[c].pc = "file" /\ ~(Item(c) < Len(Staged))
      BY <2>1, <2>5 DEF NextPhase, At
    <3>2. Len(call[c].numbers) + 1 = Len(Staged)
      BY <2>2, <2>3, <3>1 DEF Item
    <3>3. Len(issues') \in Nat
      <4>1. Len(issues) \in Nat
        BY TypeIs, LenProperties DEF OnGitHub
      <4> QED
        BY <1>2, <3>1, <4>1, FiledIs
    <3>4. call'[c].numbers = Append(call[c].numbers, Len(issues'))
      BY <2>1, <2>5, <3>1 DEF Ended
    <3>5. Len(call'[c].numbers) = Len(Staged)
      BY <2>2, <3>2, <3>3, <3>4, AppendOne
    <3> QED
      BY <1>2, <2>1, <2>5, <3>1, <3>5
  <2>6. CASE call'[c].pc = "returned"
    <3>1. call[c].pc \in {"move", "open", "close"} /\ (call[c].pc = "move" => c \notin Opener)
      BY <2>1, <2>6 DEF NextPhase, At, Writing
    <3>2. /\ c \in Pusher => c \notin Opener
          /\ c \in Decomposer => c \notin Opener /\ c \notin Pusher
      BY DEF ApplyingAssumption
    <3>3. /\ call[c].pc = "move" => EffectsOf(c) = 1
          /\ call[c].pc = "open" => EffectsOf(c) = 2
          /\ call[c].pc = "close" => EffectsOf(c) = Len(Staged) + 1
      BY <2>2, <3>1, <3>2, PhasesAre DEF Ended, EffectsOf
    <3>4. ASSUME NEW q, q = Outgoing(c) PROVE EffectOf(q) = EffectsOf(c)
      <4>1. q.kind = call[c].pc
        BY <2>1, <3>4, OutgoingOK
      <4> QED
        BY <3>1, <3>3, <4>1 DEF EffectOf
    <3> QED
      BY <1>2, <2>1, <2>6, <3>1, <3>4 DEF Effective
  <2> QED
    BY <2>4, <2>5, <2>6
<1>3. CASE (Starts(c) \/ CallStep(c) \/ Raises(c)) /\ ~Answered(c)
  BY <1>3, Fields DEF CallStep, Dropped, Carries
<1> QED
  BY <1>1, <1>2, <1>3, Steps, Fields

\* Every step keeps the effects in order.
LEMMA InOrderStep ==
  ASSUME ApplyingAssumption, TypeOK, Landings, Resolving, InOrder, [Next]_vars
  PROVE  InOrder'
<1>1. \A d \in Call : Made(d) \subseteq Made(d)'
  BY MadeStep
<1>2. ASSUME NEW q \in wire' PROVE Due(q)'
  <2>1. CASE q \in wire
    <3>1. q.by \in Call /\ Due(q)
      BY <2>1, TypeIs DEF InOrder, RequestOK, Request
    <3> QED
      BY <1>1, <3>1 DEF Due
  <2>2. CASE \E c \in Call : TimesOut(c) /\ q = Outgoing(c)
    <3>1. PICK c \in Call : TimesOut(c) /\ q = Outgoing(c)
      BY <2>2
    <3>2. Due(q) /\ q.by = c
      BY <3>1, OwnDue DEF TimesOut
    <3> QED
      BY <1>1, <3>2 DEF Due
  <2> QED
    BY <2>1, <2>2, Steps
<1>3. ASSUME NEW c \in Call
      PROVE  /\ call'[c].pc = "open" => 1 \in Made(c)'
             /\ call'[c].pc = "close" => Len(call'[c].numbers) = Len(Staged)
             /\ call'[c].pc = "returned" => 1..EffectsOf(c) \subseteq Made(c)'
  <2>1. CASE call'[c].pc = call[c].pc /\ call'[c].numbers = call[c].numbers
    <3>1. /\ call[c].pc = "open" => 1 \in Made(c)
          /\ call[c].pc = "close" => Len(call[c].numbers) = Len(Staged)
          /\ call[c].pc = "returned" => 1..EffectsOf(c) \subseteq Made(c)
      BY DEF InOrder
    <3>2. Made(c) \subseteq Made(c)'
      BY <1>1
    <3> QED
      BY <2>1, <3>1, <3>2
  <2>2. CASE Answered(c) /\ call'[c].pc = "open" /\ call[c].pc = "move"
    <3>1. PICK q : q = Outgoing(c)
      OBVIOUS
    <3>2. 1..EffectOf(q) \subseteq Made(c)'
      BY <2>2, <3>1, MadeStep DEF Effective
    <3>3. EffectOf(q) = 1
      BY <2>2, <3>1, OutgoingOK DEF EffectOf, Writing
    <3> QED
      BY <2>2, <3>2, <3>3
  <2>3. CASE call'[c].pc = "close" /\ Len(call'[c].numbers) = Len(Staged)
    BY <2>3
  <2>4. CASE /\ Answered(c) /\ call'[c].pc = "returned" /\ call[c].pc \in Effective
             /\ \A q : q = Outgoing(c) => EffectOf(q) = EffectsOf(c)
    <3>1. PICK q : q = Outgoing(c)
      OBVIOUS
    <3>2. 1..EffectOf(q) \subseteq Made(c)' /\ EffectOf(q) = EffectsOf(c)
      BY <2>4, <3>1, MadeStep
    <3> QED
      BY <2>4, <3>2
  <2> QED
    BY <2>1, <2>2, <2>3, <2>4, LatePhases
<1>4. \A d \in Call : \E n \in 0..EffectsOf(d) : Made(d)' = 1..n
  BY MadeStep
<1> QED
  BY <1>2, <1>3, <1>4 DEF InOrder

\* Types, commits that land once, upstreams that resolve and effects in order, in every
\* reachable state.
LEMMA OrderHolds == Spec => [](TypeOK /\ Landings /\ Resolving /\ InOrder)
<1>1. Init => InOrder
  <2> SUFFICES ASSUME Init PROVE InOrder
    OBVIOUS
  <2>1. /\ wire = {} /\ prs = {} /\ closed = {}
        /\ head = <<>> /\ issues = <<>> /\ \A c \in Call : call[c].pc = "idle"
    BY DEF Init, Fresh
  <2>2. DOMAIN head = {} /\ DOMAIN issues = {}
    BY <2>1
  <2>3. ASSUME NEW c \in Call PROVE \E n \in 0..EffectsOf(c) : Made(c) = 1..n
    <3>1. \A k : k \notin Made(c)
      <4>1. CASE c \in Decomposer
        BY <2>1, <2>2, <4>1, MadeIs
      <4>2. CASE c \notin Decomposer
        BY <2>1, <2>2, <4>2, MadeIs DEF LandedAt
      <4> QED
        BY <4>1, <4>2
    <3>2. Made(c) = {}
      BY <3>1
    <3>3. EffectsOf(c) \in Nat
      BY ApplyingAssumption, LenProperties DEF EffectsOf, ApplyingAssumption
    <3> QED
      BY <3>2, <3>3
  <2> QED
    BY <2>1, <2>3 DEF InOrder
<1>2. /\ TypeOK /\ Landings /\ Resolving /\ InOrder
      /\ [Next]_vars
      => InOrder'
  BY ApplyingAssumption, InOrderStep
<1> QED
  BY <1>1, <1>2, LandingsHold, ResolvingHolds, PTL DEF Spec

\* ToolCall counts as Applying does.
LEMMA SameCardinality == \A S : Promise!Cardinality(S) = Cardinality(S)
BY DEF Promise!Cardinality, Cardinality

\* The next effect of a call is a step of ToolCall.
LEMMA MakesMapped ==
  ASSUME ApplyingAssumption, NEW c \in Call, NEW n \in 0..EffectsOf(c) - 1,
         Made(c) = 1..n, Made(c)' = 1..n + 1, \A d \in Call : d # c => Made(d)' = Made(d)
  PROVE  Promise!Makes(c)
<1>1. EffectsOf(c) \in Nat /\ n \in Nat
  BY LenProperties DEF EffectsOf, ApplyingAssumption
<1>2. Cardinality(1..n) = n
  BY <1>1, FS_Interval
<1>3. [d \in Call |-> CASE d \in Opener -> 2
                       [] d \in Pusher -> 1
                       [] OTHER -> Len(Staged) + 1][c] = EffectsOf(c)
  BY DEF EffectsOf
<1>4. 1..n + 1 = 1..n \cup {n + 1}
  BY <1>1
<1>5. Cardinality([d \in Call |-> Made(d)][c]) < EffectsOf(c)
  BY <1>1, <1>2
<1>6. [d \in Call |-> Made(d)]' =
        [[d \in Call |-> Made(d)] EXCEPT ![c] = @ \cup {Cardinality(@) + 1}]
  BY <1>2, <1>4
<1> QED
  BY Zenon, <1>3, <1>5, <1>6, SameCardinality DEF Promise!Makes

\* Every step of the write tools is a step of ToolCall, or a stutter.
LEMMA PromiseStep ==
  ASSUME ApplyingAssumption, TypeOK, Landings, Resolving, InOrder, InOrder', [Next]_vars
  PROVE  [Promise!Next]_(Promise!vars)
<1> DEFINE R == {c \in Call : At(c, "returned")}
           M == [c \in Call |-> Made(c)]
<1>1. ASSUME NEW c \in Call, call[c].pc = "returned" PROVE call'[c].pc = "returned"
  BY <1>1, Steps, Fields DEF Writing, Ended, CallStep
<1>2. \A c \in Call : c \in R <=> call[c].pc = "returned"
  BY DEF At
<1>3. \A c \in Call : c \in R' <=> call'[c].pc = "returned"
  BY DEF At
<1>4. CASE \E c \in Call : call'[c].pc = "returned" /\ call[c].pc # "returned"
  <2>1. PICK c \in Call : call'[c].pc = "returned" /\ call[c].pc # "returned"
    BY <1>4
  <2>2. /\ Answered(c) /\ call[c].pc \in Effective
        /\ \A d \in Call : d # c => call'[d] = call[d]
    BY <2>1, LatePhases
  <2>3. R' = R \cup {c} /\ c \notin R
    BY <1>2, <1>3, <2>1, <2>2
  <2>4. /\ \A d \in Call : d # c => Made(d)' = Made(d)
        /\ \/ Made(c)' = Made(c)
           \/ \E n \in 0..EffectsOf(c) - 1 : Made(c) = 1..n /\ Made(c)' = 1..n + 1
    <3>1. \A d \in Call : d # c => Made(d)' = Made(d)
      BY <2>2, MadeStep
    <3>2. CASE \A d \in Call : Made(d)' = Made(d)
      BY <3>1, <3>2
    <3>3. CASE \E d \in Call : \E n \in 0..EffectsOf(d) - 1 : Made(d) = 1..n /\ Made(d)' = 1..n + 1
      <4>1. PICK d \in Call : \E n \in 0..EffectsOf(d) - 1 : Made(d) = 1..n /\ Made(d)' = 1..n + 1
        BY <3>3
      <4>2. CASE d = c
        BY <3>1, <4>1, <4>2
      <4>3. CASE d # c
        <5>1. PICK n \in 0..EffectsOf(d) - 1 : Made(d) = 1..n /\ Made(d)' = 1..n + 1
          BY <4>1
        <5>2. n \in Nat
          BY <5>1
        <5>3. n + 1 \in 1..n + 1 /\ n + 1 \notin 1..n
          BY <5>2
        <5> QED
          BY <3>1, <4>3, <5>1, <5>3
      <4> QED
        BY <4>2, <4>3
    <3> QED
      BY <3>2, <3>3, MadeStep
  <2>5. Promise!Makes(c) \/ M' = M
    <3>1. CASE Made(c)' = Made(c)
      BY <2>4, <3>1
    <3>2. CASE \E n \in 0..EffectsOf(c) - 1 : Made(c) = 1..n /\ Made(c)' = 1..n + 1
      BY <2>4, <3>2, MakesMapped
    <3> QED
      BY <2>4, <3>1, <3>2
  <2>6. Cardinality(Made(c)') = EffectsOf(c)
    <3>1. EffectsOf(c) \in Nat
      BY LenProperties DEF EffectsOf, ApplyingAssumption
    <3>2. 1..EffectsOf(c) \subseteq Made(c)'
      BY <2>1 DEF InOrder
    <3>3. PICK n \in 0..EffectsOf(c) : Made(c)' = 1..n
      BY DEF InOrder
    <3>4. n = EffectsOf(c)
      <4>1. CASE EffectsOf(c) = 0
        BY <3>3, <4>1
      <4>2. CASE EffectsOf(c) # 0
        <5>1. EffectsOf(c) \in 1..EffectsOf(c)
          BY <3>1, <4>2
        <5>2. EffectsOf(c) <= n
          BY <3>1, <3>2, <3>3, <5>1
        <5> QED
          BY <3>1, <3>3, <5>2
      <4> QED
        BY <4>1, <4>2
    <3> QED
      BY <3>1, <3>3, <3>4, FS_Interval
  <2>7. [d \in Call |-> CASE d \in Opener -> 2
                         [] d \in Pusher -> 1
                         [] OTHER -> Len(Staged) + 1][c] = EffectsOf(c)
    BY DEF EffectsOf
  <2>8. M'[c] = Made(c)'
    OBVIOUS
  <2>9. Promise!Returns(c)
    BY Zenon, <2>3, <2>6, <2>7, <2>8, SameCardinality DEF Promise!Returns, R, M
  <2> QED
    BY <2>5, <2>9 DEF Promise!Next, M
<1>5. CASE ~\E c \in Call : call'[c].pc = "returned" /\ call[c].pc # "returned"
  <2>1. R' = R
    BY <1>1, <1>2, <1>3, <1>5
  <2>2. CASE \A d \in Call : Made(d)' = Made(d)
    <3>1. M' = M
      BY <2>2
    <3> QED
      BY <2>1, <3>1 DEF Promise!vars, M, R
  <2>3. CASE \E c \in Call : /\ \A d \in Call : d # c => Made(d)' = Made(d)
                             /\ \E n \in 0..EffectsOf(c) - 1 :
                                  Made(c) = 1..n /\ Made(c)' = 1..n + 1
    <3>1. PICK c \in Call : /\ \A d \in Call : d # c => Made(d)' = Made(d)
                            /\ \E n \in 0..EffectsOf(c) - 1 :
                                 Made(c) = 1..n /\ Made(c)' = 1..n + 1
      BY <2>3
    <3>2. Promise!Makes(c)
      BY <3>1, MakesMapped
    <3> QED
      BY <2>1, <3>2 DEF Promise!Next, R
  <2> QED
    BY <2>2, <2>3, MadeStep
<1> QED
  BY <1>4, <1>5

\* Whatever is retried, late or refused, a write tool keeps its promise: the effects of a
\* call come in their order, none is undone, and a call that returns has made them all.
THEOREM ToolsKeepTheirPromise == Spec => ImplementsToolCall
<1>1. Init => Promise!Init
  <2> SUFFICES ASSUME Init PROVE Promise!Init
    OBVIOUS
  <2>1. /\ prs = {} /\ closed = {} /\ head = <<>> /\ issues = <<>>
        /\ \A c \in Call : call[c].pc = "idle"
    BY DEF Init, Fresh
  <2>2. DOMAIN head = {} /\ DOMAIN issues = {}
    BY <2>1
  <2>3. ASSUME NEW c \in Call PROVE Made(c) = {}
    <3>1. \A k : k \notin Made(c)
      <4>1. CASE c \in Decomposer
        BY <2>1, <2>2, <4>1, MadeIs
      <4>2. CASE c \notin Decomposer
        BY <2>1, <2>2, <4>2, MadeIs DEF LandedAt
      <4> QED
        BY <4>1, <4>2
    <3> QED
      BY <3>1
  <2>4. [c \in Call |-> Made(c)] = [c \in Call |-> {}]
    BY <2>3
  <2>5. {c \in Call : At(c, "returned")} = {}
    BY <2>1 DEF At
  <2> QED
    BY <2>4, <2>5 DEF Promise!Init
<1>2. /\ TypeOK /\ Landings /\ Resolving /\ InOrder /\ InOrder'
      /\ [Next]_vars
      => [Promise!Next]_(Promise!vars)
  BY ApplyingAssumption, PromiseStep
<1> QED
  BY <1>1, <1>2, OrderHolds, PTL DEF Spec, ImplementsToolCall, Promise!Spec
=============================================================================
