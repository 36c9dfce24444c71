--------------------------- MODULE AgentRouter_proofs ---------------------------
(***************************************************************************)
(* Proofs about AgentRouter, for any participants, destinations and number *)
(* of calls.                                                               *)
(*                                                                         *)
(* The heart of the invariant is what the locks and the epochs do together: *)
(* a turn that may still be created holds the participant's present lock   *)
(* and has told every task of the participant to end, and a departure or a *)
(* shutdown that goes on to clean up has seen them end.                    *)
(***************************************************************************)
EXTENDS AgentRouter, FiniteSetTheorems, SequenceTheorems, TLAPS

-----------------------------------------------------------------------------
(* Types. *)

JobKinds == {"none", "query", "direct", "join"}
Asks == {"no", "asked", "taken"}
Thens == {"none", "retry", "clarify", "answer", "focus", "release"}
AckStates == {"off", "pending", "committed", "done"}
Results == {"none", "answer", "focus", "release", "failed", "cancelled"}
Words == {"control", "ack", "answer", "failure"}

JobRecs ==
  [kind : JobKinds, pid : Pids \cup {None}, phase : Phases, life : Nat, epoch : Nat, lock : Nat,
   ask : Asks, waits : SUBSET Jobs, busy : BOOLEAN, dest : Dests \cup {None}, foc : BOOLEAN,
   cands : SUBSET Dests, declined : SUBSET Dests, last : BOOLEAN, text : BOOLEAN, then : Thens,
   started : BOOLEAN, mute : BOOLEAN, ack : AckStates, result : Results, out : Seq(Words)]

DepPhases == {"none", "interrupt", "draining", "lock", "cleaning", "failed"}
StopPhases == {"none", "interrupt", "draining", "leaving", "failed"}

Departures == [phase : DepPhases, waits : SUBSET Jobs, lock : Nat, todo : SUBSET Dests, bad : BOOLEAN]
Shutdowns == [phase : StopPhases, waits : SUBSET Jobs, todo : SUBSET Pids, at : Pids \cup {None},
              bad : BOOLEAN]

Types ==
  /\ job \in [Jobs -> JobRecs]
  /\ gen \in [Pids -> 0 .. NumJobs] /\ task \in [Pids -> 0 .. NumJobs]
  /\ joining \in [Pids -> 0 .. NumJobs]
  /\ focus \in [Pids -> Dests \cup {None}]
  /\ used \in [Pids -> SUBSET Dests] /\ owns \in [Pids -> SUBSET Dests]
  /\ hist \in [Pids -> Seq(Jobs) \cup {None}]
  /\ ready \subseteq Pids /\ departed \subseteq Pids
  /\ epoch \in [Pids -> Nat] /\ life \in Nat
  /\ locks \in [Pids -> [n : Nat, made : BOOLEAN]]
  /\ dep \in [Pids -> Departures] /\ stop \in Shutdowns
  /\ shown \in [Pids -> {"idle", "processing"}]
  /\ budget \in [left : Nat, stops : Nat, interrupts : Nat]

-----------------------------------------------------------------------------
(* One job. *)

Asleep == {"unborn", "queued", "draining", "waitdep", "over"}
Early == {"begin", "waitinit", "hook", "status", "start", "unfocus"}
Deciding == {"select", "admit", "letgo", "release"}
Telling == {"clarify", "preamble", "told"}
Answers == {"answer", "closing", "handover"}

Retold(r) == IF r.last THEN 1 ELSE 0
AckDue(r) == IF r.ack \in {"pending", "committed"} THEN 1 ELSE 0
Spoke(r) == \E n \in DOMAIN r.out : r.out[n] = "answer"
AnswerDue(r) == IF Spoke(r) THEN 0 ELSE 1

\* How much a job may have said in a phase: never more than three messages, and nothing
\* once it has answered.
Terse(r) ==
  /\ r.phase \in Asleep \cup Early \cup {"ending"} => r.out = <<>>
  /\ r.phase \in Deciding => Len(r.out) <= Retold(r)
  /\ r.phase \in Telling => Len(r.out) <= Retold(r) + 1
  /\ r.phase \in Answers => Len(r.out) + AckDue(r) + AnswerDue(r) <= 3
  /\ r.phase = "failure" => Len(r.out) <= 3
  /\ r.phase \notin Answers \cup {"failure"} => r.ack = "off" /\ ~r.started
  /\ r.phase = "failure" => r.ack \notin {"pending", "committed"}
  /\ r.started \/ r.phase \in {"closing", "handover"} => r.ack # "pending"
  /\ r.phase = "handover" => r.ack # "committed"
  /\ Spoke(r) => r.phase \in Answers /\ r.started /\ r.ack # "committed"
  /\ \A m, n \in DOMAIN r.out : m < n => r.out[m] # "answer"

Sane(r) ==
  /\ r.phase # "unborn" => r.pid \in Pids /\ r.kind # "none"
  /\ r.phase \in Asleep => r.ask = "no" /\ ~r.busy
  /\ r.phase # "draining" => r.waits = {}
  /\ r.kind = "join" => ~r.busy /\ r.phase \in {"queued", "waitdep", "waitinit", "hook", "ending", "over"}
  /\ r.kind # "join" => r.phase # "waitdep"
  /\ r.phase \in {"clarify", "told"} => r.ask # "taken"
  /\ r.phase = "letgo" => r.then \in {"retry", "clarify", "answer"}
  /\ r.phase = "told" => r.text
  /\ r.phase = "admit" => r.dest \in Dests
  /\ Terse(r)

-----------------------------------------------------------------------------
(* The invariant. *)

\* A task is in the table until it has ended, and the turn that may act is the one
\* nobody asked to stop.
Tables ==
  /\ \A i \in Jobs : Live(i) =>
       IF job[i].kind = "join" THEN joining[job[i].pid] = i
       ELSE task[job[i].pid] = i /\ (gen[job[i].pid] = i <=> job[i].ask = "no")
  /\ \A p \in Pids :
       /\ task[p] # 0 => Live(task[p]) /\ job[task[p]].pid = p /\ job[task[p]].kind # "join"
       /\ joining[p] # 0 =>
            Live(joining[p]) /\ job[joining[p]].pid = p /\ job[joining[p]].kind = "join"
       /\ gen[p] \in {0, task[p]}

Fresh(i) == job[i].epoch = epoch[job[i].pid] /\ job[i].life = life

Waits(i) == job[i].phase \in {"queued", "draining", "waitdep"}

\* A call that waits and is not out of date was made in the present lifecycle, and waits
\* for the present lock.
Waiter(i) ==
  /\ job[i].epoch <= epoch[job[i].pid] /\ job[i].life <= life
  /\ Fresh(i) => stop.phase = "none"
  /\ Fresh(i) /\ job[i].phase # "waitdep" =>
       dep[job[i].pid].phase = "none" /\ job[i].lock = locks[job[i].pid].n
  /\ Fresh(i) /\ job[i].phase = "draining" => TasksOf({job[i].pid}) \subseteq job[i].waits

SameLock(i, j) ==
  /\ job[i].phase = "draining" /\ job[j].phase = "draining"
  /\ job[i].pid = job[j].pid /\ job[i].lock = job[j].lock

Waiters ==
  /\ \A i \in Jobs : Waits(i) => Waiter(i)
  /\ \A i, j \in Jobs : SameLock(i, j) => i = j

\* Who cleans up has seen the tasks end.
Ended ==
  /\ \A p \in Pids :
       /\ dep[p].phase = "draining" => TasksOf({p}) \subseteq dep[p].waits
       /\ dep[p].phase \in {"lock", "cleaning", "failed"} => task[p] = 0 /\ joining[p] = 0
  /\ stop.phase = "draining" => TasksOf(Pids) \subseteq stop.waits
  /\ stop.phase \in {"leaving", "failed"} => \A p \in Pids : task[p] = 0 /\ joining[p] = 0

\* What is kept of a participant, and when it is dropped.
Kept ==
  /\ \A p \in Pids : owns[p] \subseteq used[p]
  /\ \A p \in Pids : hist[p] # None => \A n \in DOMAIN hist[p] : job[hist[p][n]].phase # "unborn"
  /\ \A p \in Pids : dep[p].phase = "cleaning" =>
       focus[p] = None /\ hist[p] = None /\ (~dep[p].bad => used[p] \subseteq dep[p].todo)
  /\ \A p \in departed : dep[p].phase = "none" /\ stop.phase = "none" =>
       /\ task[p] = 0 /\ joining[p] = 0
       /\ focus[p] = None /\ used[p] = {} /\ hist[p] = None /\ p \notin ready
  /\ stop.phase = "leaving" /\ ~stop.bad =>
       \A p \in Pids \ stop.todo : p # stop.at \/ dep[p].phase = "none" => hist[p] = None

\* Turns at work and turns remembered are of the present lifecycle.
Present ==
  \A p \in Pids : dep[p].phase = "none" /\ stop.phase = "none" =>
    /\ task[p] # 0 => job[task[p]].epoch = epoch[p]
    /\ hist[p] # None => \A n \in DOMAIN hist[p] : job[hist[p][n]].epoch = epoch[p]

\* "processing" is shown as long as a published turn is at work.
Lit ==
  \A i \in Jobs : Live(i) /\ job[i].busy /\ job[i].phase \notin {"status", "ending"} =>
    shown[job[i].pid] = "processing"

AInv ==
  /\ Types /\ (\A i \in Jobs : Sane(job[i])) /\ Tables /\ Waiters /\ Ended /\ Kept /\ Present /\ Lit

-----------------------------------------------------------------------------
(* Steps of one job at work. *)

\* A job whose task runs.
AtWork(r) == r \in JobRecs /\ Sane(r) /\ r.phase \notin Asleep

\* What a job at work may become without leaving its task; cancellations, which only
\* Ask delivers, are swallowed or passed on.
Follows(r, t) ==
  /\ AtWork(t) /\ t.kind = r.kind /\ t.pid = r.pid /\ t.epoch = r.epoch
  /\ t.ask = "no" <=> r.ask = "no"

\* Who is shown to be at work already was.
Shines(r) == r.busy /\ r.phase \notin {"status", "ending"}

\* The fields of a job that is left.
LEMMA LeavingIs ==
  ASSUME NEW r \in JobRecs
  PROVE  /\ Leaving(r) \in JobRecs
         /\ Leaving(r).kind = r.kind /\ Leaving(r).pid = r.pid /\ Leaving(r).epoch = r.epoch
         /\ Leaving(r).ask = r.ask /\ Leaving(r).busy = r.busy /\ Leaving(r).phase = "ending"
         /\ Leaving(r).waits = {} /\ Leaving(r).out = <<>> /\ Leaving(r).ack = "off"
         /\ Leaving(r).started = FALSE
<1>1. /\ r.kind \in JobKinds /\ r.pid \in Pids \cup {None}
      /\ r.epoch \in Nat /\ r.ask \in Asks /\ r.busy \in BOOLEAN
  BY DEF JobRecs
<1>2. Blank \in JobRecs
  <2>1. <<>> \in Seq(Words) /\ {} \in SUBSET Jobs
    OBVIOUS
  <2> QED BY <2>1 DEF Blank, JobRecs, Phases, JobKinds, Asks, Thens, AckStates, Results
<1>3. [Blank EXCEPT !.kind = r.kind, !.pid = r.pid, !.phase = "ending", !.ask = r.ask,
                    !.epoch = r.epoch, !.busy = r.busy] \in JobRecs
  <2>1. "ending" \in Phases
    BY DEF Phases
  <2> QED BY <1>1, <1>2, <2>1 DEF JobRecs
<1> QED BY <1>3 DEF Leaving, Blank

\* A job at work leaves its task at any await.
LEMMA LeavingFollows ==
  ASSUME NEW r \in JobRecs, r.pid \in Pids, r.kind # "none", r.kind = "join" => ~r.busy
  PROVE  AtWork(Leaving(r)) /\ ~Shines(Leaving(r))
<1> DEFINE t == Leaving(r)
<1>1. /\ t \in JobRecs /\ t.kind = r.kind /\ t.pid = r.pid /\ t.busy = r.busy
      /\ t.phase = "ending" /\ t.waits = {} /\ t.out = <<>> /\ t.ack = "off" /\ t.started = FALSE
  BY LeavingIs
<1> HIDE DEF t
<1>2. ~Spoke(t) /\ \A m, n \in DOMAIN t.out : m < n => t.out[m] # "answer"
  BY <1>1 DEF Spoke
<1>3. Terse(t)
  BY <1>1, <1>2 DEF Terse, Asleep, Early, Deciding, Telling, Answers
<1>4. Sane(t)
  BY <1>1, <1>3 DEF Sane, Asleep
<1> QED BY <1>1, <1>4 DEF AtWork, Shines, Asleep, t

\* Leaving is a way to follow.
LEMMA Leaves ==
  ASSUME NEW r, AtWork(r)
  PROVE  Follows(r, Leaving(r)) /\ ~Shines(Leaving(r))
BY LeavingIs, LeavingFollows DEF AtWork, Follows, Sane, Asleep

\* The words so far and one more.
LEMMA Adding ==
  ASSUME NEW q \in Seq(Words),
         NEW what \in Words,
         \A n \in DOMAIN q : q[n] # "answer"
  PROVE  /\ Append(q, what) \in Seq(Words)
         /\ Len(Append(q, what)) = Len(q) + 1
         /\ what # "answer" => \A n \in DOMAIN Append(q, what) : Append(q, what)[n] # "answer"
         /\ \A m, n \in DOMAIN Append(q, what) : m < n => Append(q, what)[m] # "answer"
<1> DEFINE b == Append(q, what)
<1>1. /\ b \in Seq(Words) /\ Len(b) = Len(q) + 1 /\ Len(q) \in Nat
      /\ DOMAIN b = 1 .. Len(q) + 1 /\ DOMAIN q = 1 .. Len(q) /\ b[Len(q) + 1] = what
      /\ \A n \in 1 .. Len(q) : b[n] = q[n]
  BY AppendProperties, LenProperties
<1> HIDE DEF b
<1>2. \A n \in DOMAIN b : n # Len(q) + 1 => b[n] # "answer"
  BY <1>1
<1>3. \A m, n \in DOMAIN b : m < n => m # Len(q) + 1
  BY <1>1
<1> QED BY <1>1, <1>2, <1>3 DEF b

\* A job that has said q.
Having(r, q) == [r EXCEPT !.out = q]

\* Say() adds a word, or none if the turn is not current.
LEMMA SayIs ==
  ASSUME NEW i, NEW r \in JobRecs, ~Spoke(r), NEW what \in Words, what # "answer"
  PROVE  \E q \in Seq(Words) :
           /\ Say(i, r, what) = Having(r, q)
           /\ Len(q) <= Len(r.out) + 1 /\ \A n \in DOMAIN q : q[n] # "answer"
<1>1. r.out \in Seq(Words) /\ \A n \in DOMAIN r.out : r.out[n] # "answer"
  BY DEF JobRecs, Spoke
<1>2. Len(r.out) \in Nat
  BY <1>1, LenProperties
<1>3. CASE Current(i)
  <2>1. Say(i, r, what) = Having(r, Append(r.out, what))
    BY <1>3 DEF Say, Having
  <2>2. /\ Append(r.out, what) \in Seq(Words) /\ Len(Append(r.out, what)) = Len(r.out) + 1
        /\ \A n \in DOMAIN Append(r.out, what) : Append(r.out, what)[n] # "answer"
    BY <1>1, Adding
  <2>3. \A q \in Seq(Words) : q = Append(r.out, what) =>
          /\ Say(i, r, what) = Having(r, q)
          /\ Len(q) <= Len(r.out) + 1 /\ \A n \in DOMAIN q : q[n] # "answer"
    BY <2>1, <2>2, <1>2
  <2> QED BY <2>2, <2>3, Zenon
<1>4. CASE ~Current(i)
  <2>1. Say(i, r, what) = r /\ r = Having(r, r.out)
    BY <1>4 DEF Say, JobRecs, Having
  <2>2. Say(i, r, what) = Having(r, r.out) /\ Len(r.out) <= Len(r.out) + 1
    BY <2>1, <1>2
  <2> QED BY <2>2, <1>1, Zenon
<1> QED BY <1>3, <1>4

\* A turn that decides and has the right to speak says at most one word more.
LEMMA TellingFollows ==
  ASSUME NEW i, NEW r, AtWork(r), r.phase \in Deciding, r.ask # "taken" \/ r.phase = "admit",
         NEW phase \in Telling, phase = "told" => r.text /\ r.ask # "taken",
         phase = "clarify" => r.ask # "taken"
  PROVE  LET t == [Say(i, r, "control") EXCEPT !.phase = phase] IN
         Follows(r, t) /\ (Shines(t) => Shines(r))
<1> DEFINE t == [Say(i, r, "control") EXCEPT !.phase = phase]
<1>1. /\ r \in JobRecs /\ Sane(r) /\ r.kind # "join" /\ r.kind # "none" /\ r.pid \in Pids
      /\ r.waits = {} /\ r.ack = "off" /\ ~r.started /\ Len(r.out) <= Retold(r) /\ ~Spoke(r)
  BY DEF AtWork, Sane, Terse, Asleep, Deciding, Answers
<1>2. "control" \in Words /\ "control" # "answer" /\ phase \in Phases
  BY DEF Words, Phases, Telling
<1>3. PICK q \in Seq(Words) :
         /\ Say(i, r, "control") = Having(r, q)
         /\ Len(q) <= Len(r.out) + 1 /\ \A n \in DOMAIN q : q[n] # "answer"
  BY <1>1, <1>2, SayIs
<1>4. /\ t \in JobRecs /\ t.kind = r.kind /\ t.pid = r.pid /\ t.epoch = r.epoch /\ t.ask = r.ask
      /\ t.busy = r.busy /\ t.waits = r.waits /\ t.last = r.last /\ t.text = r.text
      /\ t.ack = r.ack /\ t.started = r.started /\ t.phase = phase /\ t.out = q
  BY SMTT(30), <1>1, <1>2, <1>3 DEF JobRecs, Having
<1> HIDE DEF t
<1>5. Len(t.out) <= Retold(t) + 1
  <2>1. Len(r.out) \in Nat /\ Len(q) \in Nat
    BY <1>1, LenProperties DEF JobRecs
  <2> QED BY <1>1, <1>3, <1>4, <2>1 DEF Retold
<1>6. ~Spoke(t) /\ \A m, n \in DOMAIN t.out : m < n => t.out[m] # "answer"
  BY <1>3, <1>4 DEF Spoke
<1>7. Terse(t)
  BY <1>1, <1>4, <1>5, <1>6 DEF Terse, Asleep, Early, Deciding, Telling, Answers
<1>8. Sane(t)
  BY <1>1, <1>4, <1>7 DEF Sane, Asleep, Telling
<1>9. AtWork(t) /\ Follows(r, t)
  BY <1>4, <1>8 DEF AtWork, Follows, Asleep, Telling
<1>10. Shines(t) => Shines(r)
  BY <1>4 DEF Shines, Deciding
<1> QED BY <1>9, <1>10 DEF t

\* Another attempt.
LEMMA RetryFollows ==
  ASSUME NEW r, AtWork(r), r.phase \in Deciding \/ (r.phase = "told" /\ ~r.last),
         NEW cands \in SUBSET Dests
  PROVE  Follows(r, Retry(r, cands)) /\ (Shines(Retry(r, cands)) => Shines(r))
<1> DEFINE t == Retry(r, cands)
<1>1. /\ r \in JobRecs /\ Sane(r) /\ r.kind # "join" /\ r.kind # "none" /\ r.pid \in Pids
      /\ r.waits = {} /\ r.ack = "off" /\ ~r.started /\ Len(r.out) <= 1 /\ ~Spoke(r)
  <2>1. Len(r.out) \in Nat
    BY LenProperties DEF JobRecs, AtWork
  <2> QED BY <2>1 DEF AtWork, Sane, Terse, Asleep, Deciding, Telling, Answers, Retold
<1>2. "select" \in Phases
  BY DEF Phases
<1>3. /\ t \in JobRecs /\ t.kind = r.kind /\ t.pid = r.pid /\ t.epoch = r.epoch /\ t.ask = r.ask
      /\ t.busy = r.busy /\ t.waits = r.waits /\ t.last /\ t.text = r.text
      /\ t.ack = r.ack /\ t.started = r.started /\ t.phase = "select" /\ t.out = r.out
  BY <1>1, <1>2 DEF JobRecs, Retry
<1> HIDE DEF t
<1>4. Len(t.out) <= Retold(t)
  BY <1>1, <1>3 DEF Retold
<1>5. ~Spoke(t) /\ \A m, n \in DOMAIN t.out : m < n => t.out[m] # "answer"
  BY <1>1, <1>3 DEF Spoke, Sane, Terse
<1>6. Terse(t)
  BY <1>1, <1>3, <1>4, <1>5 DEF Terse, Asleep, Early, Deciding, Telling, Answers
<1>7. Sane(t)
  BY <1>1, <1>3, <1>6 DEF Sane, Asleep
<1>8. AtWork(t) /\ Follows(r, t)
  BY <1>3, <1>7 DEF AtWork, Follows, Asleep
<1>9. Shines(t) => Shines(r)
  BY <1>3 DEF Shines, Deciding
<1> QED BY <1>8, <1>9 DEF t

\* The destination is asked for its answer.
LEMMA AnsweringFollows ==
  ASSUME NEW r, AtWork(r), NEW acked \in BOOLEAN, NEW d \in Dests \cup {None},
         r.phase \in Deciding \/ (r.phase = "preamble" /\ ~acked)
  PROVE  Follows(r, Answering(r, d, acked)) /\ (Shines(Answering(r, d, acked)) => Shines(r))
<1> DEFINE t == Answering(r, d, acked)
           ack == IF acked THEN "pending" ELSE "off"
<1>1. /\ r \in JobRecs /\ Sane(r) /\ r.kind # "join" /\ r.kind # "none" /\ r.pid \in Pids
      /\ r.waits = {} /\ ~r.started /\ Len(r.out) <= 2 /\ (acked => Len(r.out) <= 1) /\ ~Spoke(r)
      /\ Len(r.out) \in Nat
  <2>1. Len(r.out) \in Nat
    BY LenProperties DEF JobRecs, AtWork
  <2> QED BY <2>1 DEF AtWork, Sane, Terse, Asleep, Deciding, Telling, Answers, Retold
<1>2. "answer" \in Phases /\ ack \in AckStates
  BY DEF Phases, AckStates
<1>3. /\ t \in JobRecs /\ t.kind = r.kind /\ t.pid = r.pid /\ t.epoch = r.epoch /\ t.ask = r.ask
      /\ t.busy = r.busy /\ t.waits = r.waits /\ t.text = r.text
      /\ t.ack = ack /\ t.started = r.started /\ t.phase = "answer" /\ t.out = r.out
  <2> HIDE DEF ack
  <2>1. t = [r EXCEPT !.phase = "answer", !.dest = d, !.foc = FALSE, !.ack = ack]
    BY DEF Answering, ack
  <2> HIDE DEF t
  <2> QED BY <1>1, <1>2, <2>1 DEF JobRecs
<1> HIDE DEF t
<1>4. ~Spoke(t) /\ \A m, n \in DOMAIN t.out : m < n => t.out[m] # "answer"
  BY <1>1, <1>3 DEF Spoke, Sane, Terse
<1>5. Len(t.out) + AckDue(t) + AnswerDue(t) <= 3
  <2>1. CASE acked
    BY <2>1, <1>1, <1>3, <1>4 DEF AckDue, AnswerDue
  <2>2. CASE ~acked
    BY <2>2, <1>1, <1>3, <1>4 DEF AckDue, AnswerDue
  <2> QED BY <2>1, <2>2
<1>6. Terse(t)
  BY <1>1, <1>3, <1>4, <1>5 DEF Terse, Asleep, Early, Deciding, Telling, Answers
<1>7. Sane(t)
  BY <1>1, <1>3, <1>6 DEF Sane, Asleep
<1>8. AtWork(t) /\ Follows(r, t)
  BY <1>3, <1>7 DEF AtWork, Follows, Asleep
<1>9. Shines(t) => Shines(r)
  BY <1>3 DEF Shines, Deciding
<1> QED BY <1>8, <1>9 DEF t

\* What is sane of a job does not depend on its other fields.
LEMMA SameSane ==
  ASSUME NEW r, AtWork(r), NEW t \in JobRecs, t.kind = r.kind, t.pid = r.pid, t.epoch = r.epoch,
         t.ask = r.ask, t.phase = r.phase, t.busy = r.busy, t.waits = r.waits, t.last = r.last,
         t.text = r.text, t.then = r.then, t.started = r.started, t.ack = r.ack, t.out = r.out,
         t.dest = r.dest
  PROVE  AtWork(t) /\ Follows(r, t) /\ (Shines(t) => Shines(r))
<1>1. Spoke(t) <=> Spoke(r)
  BY DEF Spoke
<1>2. AckDue(t) = AckDue(r) /\ AnswerDue(t) = AnswerDue(r) /\ Retold(t) = Retold(r)
  BY <1>1 DEF AckDue, AnswerDue, Retold
<1>3. Terse(r)
  BY DEF AtWork, Sane
<1>4. Terse(t)
  BY <1>1, <1>2, <1>3 DEF Terse
<1>5. Sane(t)
  BY <1>4 DEF AtWork, Sane
<1> QED BY <1>5 DEF AtWork, Follows, Shines

\* A turn that fails says so if it may, and goes.
LEMMA FailingFollows ==
  ASSUME NEW i, NEW r, AtWork(r), r.kind # "join", r.phase # "failure",
         r.ack \notin {"pending", "committed"}
  PROVE  Follows(r, Failing(i, r)) /\ (Shines(Failing(i, r)) => r.busy)
<1> DEFINE t == [Say(i, r, "failure") EXCEPT !.phase = "failure"]
<1>0. /\ r \in JobRecs /\ Sane(r) /\ Terse(r) /\ r.kind # "none" /\ r.pid \in Pids /\ r.waits = {}
      /\ Len(r.out) \in Nat
  BY LenProperties DEF AtWork, Sane, Asleep, JobRecs
<1>1. CASE ~r.started /\ ~r.mute /\ ~Refused(i)
  <2>1. ~Spoke(r) /\ AnswerDue(r) = 1 /\ AckDue(r) = 0
    BY <1>0, <1>1 DEF Terse, AnswerDue, AckDue
  <2>2. Len(r.out) <= 2
    <3>1. r.phase \in Early \cup Deciding \cup Telling \cup Answers \cup {"ending"}
      BY <1>0 DEF AtWork, JobRecs, Phases, Asleep, Early, Deciding, Telling, Answers
    <3>2. Len(<<>>) = 0
      OBVIOUS
    <3> QED BY <1>0, <2>1, <3>1, <3>2 DEF Terse, Retold
  <2>3. "failure" \in Words /\ "failure" # "answer" /\ "failure" \in Phases
    BY DEF Words, Phases
  <2>4. PICK q \in Seq(Words) :
           /\ Say(i, r, "failure") = Having(r, q)
           /\ Len(q) <= Len(r.out) + 1 /\ \A n \in DOMAIN q : q[n] # "answer"
    BY <1>0, <2>1, <2>3, SayIs
  <2>5. /\ t \in JobRecs /\ t.kind = r.kind /\ t.pid = r.pid /\ t.epoch = r.epoch /\ t.ask = r.ask
        /\ t.busy = r.busy /\ t.waits = r.waits
        /\ t.ack = r.ack /\ t.started = r.started /\ t.phase = "failure" /\ t.out = q
    BY <1>0, <2>3, <2>4 DEF JobRecs, Having
  <2> HIDE DEF t
  <2>6. Len(t.out) <= 3
    <3>1. Len(q) \in Nat
      BY LenProperties
    <3> QED BY <1>0, <2>2, <2>4, <2>5, <3>1
  <2>7. ~Spoke(t) /\ \A m, n \in DOMAIN t.out : m < n => t.out[m] # "answer"
    BY <2>4, <2>5 DEF Spoke
  <2>8. Terse(t)
    BY <1>1, <2>5, <2>6, <2>7 DEF Terse, Asleep, Early, Deciding, Telling, Answers
  <2>9. Sane(t)
    BY <1>0, <2>5, <2>8 DEF Sane, Asleep
  <2>10. Failing(i, r) = t
    BY <1>1 DEF Failing, t
  <2> QED BY <2>5, <2>9, <2>10 DEF AtWork, Follows, Asleep, Shines
<1>2. CASE ~(~r.started /\ ~r.mute /\ ~Refused(i))
  <2>1. Failing(i, r) = Leaving(r)
    BY <1>2 DEF Failing
  <2> QED BY <2>1, Leaves
<1> QED BY <1>1, <1>2

-----------------------------------------------------------------------------
(* A step of a task keeps the invariant. *)

\* Job i becomes t, with what a task may do to the tables of its participant.
Work(i, t) ==
  LET p == job[i].pid IN
  /\ AtWork(job[i]) /\ Follows(job[i], t) /\ Put(i, t)
  /\ UNCHANGED <<gen, task, joining, admissionVars, dep, stop, budget>>
  /\ focus' \in [Pids -> Dests \cup {None}] /\ \A o \in Pids \ {p} : focus'[o] = focus[o]
  /\ used' \in [Pids -> SUBSET Dests] /\ \A o \in Pids \ {p} : used'[o] = used[o]
  /\ owns' \in [Pids -> SUBSET Dests] /\ \A o \in Pids \ {p} : owns'[o] = owns[o]
  /\ owns'[p] \subseteq used'[p]
  /\ \/ UNCHANGED hist
     \/ Remember(i) /\ job[i].kind # "join"
  /\ ready' = ready \/ ready' = ready \cup {p}
  /\ \/ UNCHANGED shown /\ (Shines(t) => Shines(job[i]))
     \/ shown' = [shown EXCEPT ![p] = "processing"]

\* What is remembered after Remember().
LEMMA RememberIs ==
  ASSUME AInv, NEW i \in Jobs, AtWork(job[i]), Remember(i)
  PROVE  LET p == job[i].pid IN
         /\ hist' \in [Pids -> Seq(Jobs) \cup {None}] /\ \A o \in Pids \ {p} : hist'[o] = hist[o]
         /\ hist'[p] \in Seq(Jobs)
         /\ \A n \in DOMAIN hist'[p] :
              \/ hist'[p][n] = i
              \/ hist[p] # None /\ \E m \in DOMAIN hist[p] : hist'[p][n] = hist[p][m]
<1> DEFINE p == job[i].pid
           old == IF hist[p] = None THEN <<>> ELSE hist[p]
           h == Append(old, i)
<1>1. p \in Pids /\ hist \in [Pids -> Seq(Jobs) \cup {None}] /\ hist[p] \in Seq(Jobs) \cup {None}
  BY DEF AtWork, Sane, Asleep, AInv, Types
<1>2. old \in Seq(Jobs)
  BY <1>1
<1>3. hist' = [hist EXCEPT ![p] = h]
  BY DEF Remember
<1> HIDE DEF p
<1>4. /\ h \in Seq(Jobs) /\ Len(old) \in Nat /\ DOMAIN h = 1 .. Len(old) + 1
      /\ DOMAIN old = 1 .. Len(old)
      /\ h[Len(old) + 1] = i /\ \A n \in 1 .. Len(old) : h[n] = old[n]
  <2> HIDE DEF old
  <2> QED BY <1>2, AppendProperties, LenProperties
<1>5. ASSUME NEW n \in DOMAIN h
      PROVE  h[n] = i \/ (hist[p] # None /\ \E m \in DOMAIN hist[p] : h[n] = hist[p][m])
  <2>1. CASE n = Len(old) + 1
    <3> HIDE DEF old, h
    <3> QED BY <2>1, <1>4
  <2>2. CASE n # Len(old) + 1
    <3>1. n \in DOMAIN old /\ h[n] = old[n]
      <4> HIDE DEF old, h
      <4> QED BY <2>2, <1>4, <1>5
    <3>2. CASE hist[p] = None
      <4>1. Len(old) = 0
        BY <3>2
      <4> HIDE DEF old, h
      <4> QED BY <4>1, <3>1, <1>4
    <3>3. CASE hist[p] # None
      <4>1. old = hist[p]
        BY <3>3
      <4> HIDE DEF old, h
      <4> QED BY <3>1, <3>3, <4>1
    <3> QED BY <3>2, <3>3
  <2> QED BY <2>1, <2>2
<1> QED BY <1>1, <1>3, <1>4, <1>5 DEF p

\* Who is at work is in the table.
LEMMA AtTable ==
  ASSUME AInv, NEW i \in Jobs, Live(i)
  PROVE  /\ job[i].pid \in Pids /\ i # 0 /\ i \in Nat
         /\ job[i].kind = "join" => joining[job[i].pid] = i
         /\ job[i].kind # "join" => task[job[i].pid] = i
<1>1. job[i].pid \in Pids
  BY DEF AInv, Sane, Live
<1>2. i # 0 /\ i \in Nat
  BY DEF Jobs
<1>3. IF job[i].kind = "join" THEN joining[job[i].pid] = i ELSE task[job[i].pid] = i
  BY DEF AInv, Tables
<1> QED BY <1>1, <1>2, <1>3

\* The steps of a turn's coroutine keep the invariant.
LEMMA WorkKeeps ==
  ASSUME AInv, NEW i \in Jobs, NEW t, Work(i, t)
  PROVE  AInv'
<1> DEFINE p == job[i].pid
<1>a. Types /\ (\A j \in Jobs : Sane(job[j])) /\ Tables /\ Waiters /\ Ended /\ Kept /\ Present /\ Lit
  BY DEF AInv
<1>w. /\ AtWork(job[i]) /\ Follows(job[i], t) /\ job' = [job EXCEPT ![i] = t]
      /\ gen' = gen /\ task' = task /\ joining' = joining /\ departed' = departed /\ epoch' = epoch
      /\ life' = life /\ locks' = locks /\ dep' = dep /\ stop' = stop /\ budget' = budget
      /\ focus' \in [Pids -> Dests \cup {None}] /\ \A o \in Pids \ {p} : focus'[o] = focus[o]
      /\ used' \in [Pids -> SUBSET Dests] /\ \A o \in Pids \ {p} : used'[o] = used[o]
      /\ owns' \in [Pids -> SUBSET Dests] /\ \A o \in Pids \ {p} : owns'[o] = owns[o]
      /\ owns'[p] \subseteq used'[p]
      /\ ready' = ready \/ ready' = ready \cup {p}
  BY DEF Work, Put, admissionVars
<1>h. hist' = hist \/ (Remember(i) /\ job[i].kind # "join")
  BY DEF Work
<1>s. \/ shown' = shown /\ (Shines(t) => Shines(job[i]))
      \/ shown' = [shown EXCEPT ![p] = "processing"]
  BY DEF Work
<1>b. /\ job \in [Jobs -> JobRecs] /\ t \in JobRecs /\ Sane(t) /\ t.phase \notin Asleep /\ t.kind = job[i].kind
      /\ t.pid = p /\ t.epoch = job[i].epoch /\ (t.ask = "no" <=> job[i].ask = "no")
      /\ job[i].phase \notin Asleep
  BY <1>a, <1>w DEF Follows, AtWork, Types
<1>c. p \in Pids /\ i # 0 /\ Live(i)
      /\ (job[i].kind = "join" => joining[p] = i) /\ (job[i].kind # "join" => task[p] = i)
  <2>1. Live(i)
    BY <1>b DEF Live, Asleep
  <2> QED BY <2>1, AtTable
<1>1. /\ job' \in [Jobs -> JobRecs] /\ job'[i] = t
      /\ \A j \in Jobs : /\ job'[j].kind = job[j].kind /\ job'[j].pid = job[j].pid
                         /\ job'[j].epoch = job[j].epoch /\ (job'[j].ask = "no" <=> job[j].ask = "no")
                         /\ job'[j].phase \in Asleep => job'[j] = job[j]
                         /\ job[j].phase \in Asleep => job'[j] = job[j]
                         /\ j # i => job'[j] = job[j]
                         /\ Sane(job'[j])
  BY <1>a, <1>w, <1>b
<1> HIDE DEF p
<1>2. /\ hist' \in [Pids -> Seq(Jobs) \cup {None}] /\ \A o \in Pids \ {p} : hist'[o] = hist[o]
      /\ \/ hist'[p] = hist[p]
         \/ /\ job[i].kind # "join"
            /\ \A n \in DOMAIN hist'[p] :
                 \/ hist'[p][n] = i
                 \/ hist[p] # None /\ \E m \in DOMAIN hist[p] : hist'[p][n] = hist[p][m]
  <2>1. CASE hist' = hist
    BY <2>1, <1>a DEF Types
  <2>2. CASE Remember(i) /\ job[i].kind # "join"
    BY <2>2, <1>w, RememberIs DEF p
  <2> QED BY <1>h, <2>1, <2>2
<1>3. Types'
  <2>1. ready' \subseteq Pids
    BY <1>a, <1>w, <1>c DEF Types
  <2>2. shown' \in [Pids -> {"idle", "processing"}]
    BY <1>a, <1>s, <1>c DEF Types
  <2> QED BY <1>a, <1>w, <1>1, <1>2, <2>1, <2>2 DEF Types
<1>4. (\A j \in Jobs : Sane(job[j]))'
  BY <1>1
<1>5. Tables'
  <2>1. \A j \in Jobs : Live(j)' <=> Live(j)
    BY <1>1 DEF Live, Asleep
  <2>2. \A j \in Jobs : Live(j)' =>
          IF job'[j].kind = "join" THEN joining'[job'[j].pid] = j
          ELSE task'[job'[j].pid] = j /\ (gen'[job'[j].pid] = j <=> job'[j].ask = "no")
    BY <1>a, <1>w, <1>1, <2>1 DEF Tables
  <2>3. \A o \in Pids :
         /\ task'[o] # 0 => Live(task[o])' /\ job'[task[o]].pid = o /\ job'[task[o]].kind # "join"
         /\ joining'[o] # 0 =>
              Live(joining[o])' /\ job'[joining[o]].pid = o /\ job'[joining[o]].kind = "join"
         /\ gen'[o] \in {0, task'[o]}
    <3> SUFFICES ASSUME NEW o \in Pids
                 PROVE /\ task'[o] # 0 => Live(task[o])' /\ job'[task[o]].pid = o /\ job'[task[o]].kind # "join"
                       /\ joining'[o] # 0 =>
                            Live(joining[o])' /\ job'[joining[o]].pid = o /\ job'[joining[o]].kind = "join"
                       /\ gen'[o] \in {0, task'[o]}
      OBVIOUS
    <3>1. /\ task[o] # 0 => task[o] \in Jobs /\ Live(task[o]) /\ job[task[o]].pid = o /\ job[task[o]].kind # "join"
          /\ joining[o] # 0 => joining[o] \in Jobs /\ Live(joining[o]) /\ job[joining[o]].pid = o
                                 /\ job[joining[o]].kind = "join"
          /\ gen[o] \in {0, task[o]}
      BY <1>a DEF Tables, Types, Jobs
    <3> QED BY <3>1, <1>w, <1>1, <2>1
  <2> QED BY <2>2, <2>3, <1>w DEF Tables
<1>6. Waiters'
  <2>1. \A j \in Jobs : Waits(j)' => job'[j] = job[j] /\ Waits(j) /\ (Fresh(j)' <=> Fresh(j))
    BY <1>1, <1>w DEF Waits, Asleep, Fresh
  <2>3. \A j \in Jobs : job'[j].phase = "draining" => job'[j] = job[j]
    BY <1>1 DEF Asleep
  <2>4. ASSUME NEW j \in Jobs, Waits(j)' PROVE Waiter(j)'
    <3>1. Waiter(j)
      BY <1>a, <2>1, <2>4 DEF Waiters
    <3>2. TasksOf({job[j].pid})' = TasksOf({job[j].pid})
      BY <1>w, <2>1, <2>4 DEF TasksOf
    <3> QED BY <3>1, <3>2, <1>w, <2>1, <2>4, Zenon DEF Waiter
  <2>5. ASSUME NEW j \in Jobs, NEW k \in Jobs, SameLock(j, k)' PROVE j = k
    <3>1. SameLock(j, k)
      BY <2>3, <2>5 DEF SameLock
    <3> QED BY <3>1, <1>a DEF Waiters
  <2> QED BY <2>4, <2>5 DEF Waiters
<1>7. Ended'
  BY <1>a, <1>w DEF Ended, TasksOf
<1>8. dep[p].phase # "cleaning" /\ (p \notin departed \/ dep[p].phase # "none" \/ stop.phase # "none")
      /\ stop.phase # "leaving"
  BY <1>a, <1>c DEF Ended, Kept
<1>9. Kept'
  <2>1. \A o \in Pids : owns'[o] \subseteq used'[o]
    BY <1>a, <1>w DEF Kept
  <2>2. \A o \in Pids : hist'[o] # None => \A n \in DOMAIN hist'[o] : job'[hist'[o][n]].phase # "unborn"
    <3> SUFFICES ASSUME NEW o \in Pids, hist'[o] # None, NEW n \in DOMAIN hist'[o]
                 PROVE  job'[hist'[o][n]].phase # "unborn"
      OBVIOUS
    <3>1. hist'[o][n] \in Jobs
      BY <1>2, ElementOfSeq, LenProperties
    <3>2. job[hist'[o][n]].phase # "unborn"
      <4>1. CASE hist'[o] = hist[o]
        BY <4>1, <1>a DEF Kept
      <4>2. CASE o = p /\ hist'[p][n] = i
        BY <4>2, <1>b DEF Asleep
      <4>3. CASE o = p /\ hist[p] # None /\ \E m \in DOMAIN hist[p] : hist'[p][n] = hist[p][m]
        BY <4>3, <1>a, <1>c DEF Kept
      <4> QED BY <1>2, <4>1, <4>2, <4>3
    <3> QED BY <3>1, <3>2, <1>1 DEF Asleep
  <2>3. \A o \in Pids : dep'[o].phase = "cleaning" =>
          focus'[o] = None /\ hist'[o] = None /\ (~dep'[o].bad => used'[o] \subseteq dep'[o].todo)
    BY <1>8, <1>a, <1>w, <1>2 DEF Kept
  <2>4. \A o \in departed' : dep'[o].phase = "none" /\ stop'.phase = "none" =>
         /\ task'[o] = 0 /\ joining'[o] = 0
         /\ focus'[o] = None /\ used'[o] = {} /\ hist'[o] = None /\ o \notin ready'
    <3>1. departed \subseteq Pids
      BY <1>a DEF Types
    <3> QED BY <3>1, <1>8, <1>a, <1>w, <1>2 DEF Kept
  <2> QED BY <2>1, <2>2, <2>3, <2>4, <1>8, <1>w DEF Kept
<1>10. Present'
  <2> SUFFICES ASSUME NEW o \in Pids, dep[o].phase = "none", stop.phase = "none"
               PROVE  /\ task'[o] # 0 => job'[task'[o]].epoch = epoch'[o]
                      /\ hist'[o] # None => \A n \in DOMAIN hist'[o] : job'[hist'[o][n]].epoch = epoch'[o]
    BY <1>w DEF Present
  <2>1. task[o] # 0 => task[o] \in Jobs /\ job[task[o]].epoch = epoch[o]
    BY <1>a DEF Present, Types, Jobs
  <2>2. ASSUME hist'[o] # None, NEW n \in DOMAIN hist'[o] PROVE job'[hist'[o][n]].epoch = epoch'[o]
    <3>1. hist'[o][n] \in Jobs
      BY <2>2, <1>2, ElementOfSeq, LenProperties
    <3>2. job[hist'[o][n]].epoch = epoch[o]
      <4>1. CASE hist'[o] = hist[o]
        BY <4>1, <2>2, <1>a DEF Present
      <4>2. CASE o = p /\ hist'[p][n] = i /\ job[i].kind # "join"
        BY <4>2, <2>1, <1>c
      <4>3. CASE o = p /\ hist[p] # None /\ \E m \in DOMAIN hist[p] : hist'[p][n] = hist[p][m]
        BY <4>3, <1>a, <1>c DEF Present
      <4> QED BY <2>2, <1>2, <4>1, <4>2, <4>3
    <3> QED BY <3>1, <3>2, <1>1, <1>w
  <2> QED BY <2>1, <2>2, <1>1, <1>w
<1>11. Lit'
  <2> SUFFICES ASSUME NEW j \in Jobs, Live(j)', Shines(job'[j]) PROVE shown'[job'[j].pid] = "processing"
    BY DEF Lit, Shines
  <2>1. Live(j) /\ job'[j].pid = job[j].pid /\ job[j].pid \in Pids
    BY <1>1, AtTable DEF Live, Asleep
  <2>2. CASE shown' = [shown EXCEPT ![p] = "processing"]
    <3>1. Shines(job[j]) \/ j = i
      BY <1>1
    <3> QED BY <3>1, <2>1, <2>2, <1>a, <1>c DEF Lit, Shines, Types, p
  <2>3. CASE shown' = shown /\ (Shines(t) => Shines(job[i]))
    <3>1. Shines(job[j])
      BY <1>1, <2>3
    <3> QED BY <3>1, <2>1, <2>3, <1>a DEF Lit, Shines
  <2> QED BY <1>s, <2>2, <2>3
<1> QED BY <1>3, <1>4, <1>5, <1>6, <1>7, <1>9, <1>10, <1>11 DEF AInv

\* A step that leaves the tables alone.
LEMMA PlainWork ==
  ASSUME AInv, NEW i \in Jobs, NEW t, AtWork(job[i]), Follows(job[i], t), Put(i, t),
         Shines(t) => Shines(job[i]), UNCHANGED <<gen, turnFrame, table, outside>>
  PROVE  AInv'
<1>1. /\ focus \in [Pids -> Dests \cup {None}] /\ used \in [Pids -> SUBSET Dests]
      /\ owns \in [Pids -> SUBSET Dests]
  BY DEF AInv, Types
<1>2. owns[job[i].pid] \subseteq used[job[i].pid]
  <2>1. job[i].pid \in Pids
    BY DEF AtWork, Sane, Asleep
  <2> QED BY <2>1 DEF AInv, Kept
<1>3. Work(i, t)
  BY <1>1, <1>2 DEF Work, turnFrame, table, outside, admissionVars
<1> QED BY <1>3, WorkKeeps

\* What is known of a job in an await.
LEMMA AtAwait ==
  ASSUME AInv, NEW i \in Jobs, job[i].phase \notin Asleep
  PROVE  /\ AtWork(job[i]) /\ Live(i) /\ job[i].pid \in Pids /\ job[i] \in JobRecs
         /\ job[i].kind # "join" /\ Current(i) => job[i].ask = "no"
<1>1. AtWork(job[i]) /\ job[i] \in JobRecs /\ Sane(job[i])
  BY DEF AInv, Types, AtWork
<1>2. Live(i)
  BY DEF Live, Asleep
<1>3. job[i].kind # "join" /\ Current(i) => job[i].ask = "no"
  BY <1>2 DEF AInv, Tables, Current
<1> QED BY <1>1, <1>2, <1>3, AtTable

\* Before it chooses, a turn moves on; a join only waits for the initialization.
LEMMA EarlyFollows ==
  ASSUME NEW r, AtWork(r), r.phase \in Early, NEW t \in JobRecs,
         t.kind = r.kind, t.pid = r.pid, t.epoch = r.epoch, t.ask = r.ask, t.waits = r.waits,
         t.ack = r.ack, t.started = r.started, t.out = r.out,
         t.phase \in Early \cup {"select"},
         r.kind = "join" => ~t.busy /\ t.phase \in {"waitinit", "hook"}
  PROVE  Follows(r, t)
<1>1. /\ r.pid \in Pids /\ r.kind # "none" /\ r.waits = {} /\ r.ack = "off" /\ ~r.started /\ r.out = <<>>
  BY DEF AtWork, Sane, Terse, Asleep, Early, Answers
<1>2. ~Spoke(t) /\ Len(t.out) = 0 /\ \A m, n \in DOMAIN t.out : m < n => t.out[m] # "answer"
  BY <1>1 DEF Spoke
<1>3. Len(t.out) <= Retold(t)
  BY <1>2 DEF Retold
<1>4. Terse(t)
  BY <1>1, <1>2, <1>3 DEF Terse, Asleep, Early, Deciding, Telling, Answers
<1>5. Sane(t)
  BY <1>1, <1>4 DEF Sane, Asleep, Early
<1> QED BY <1>5 DEF AtWork, Follows, Asleep, Early

\* While it answers.
LEMMA AnswerFollows ==
  ASSUME NEW r, AtWork(r), r.phase \in Answers, NEW t \in JobRecs,
         t.kind = r.kind, t.pid = r.pid, t.epoch = r.epoch, t.ask = "no" <=> r.ask = "no",
         t.busy = r.busy, t.waits = r.waits, t.phase \in Answers,
         Len(t.out) + AckDue(t) + AnswerDue(t) <= 3,
         t.started \/ t.phase \in {"closing", "handover"} => t.ack # "pending",
         t.phase = "handover" => t.ack # "committed",
         Spoke(t) => t.started /\ t.ack # "committed",
         \A m, n \in DOMAIN t.out : m < n => t.out[m] # "answer"
  PROVE  Follows(r, t) /\ (Shines(t) => Shines(r))
<1>1. r.pid \in Pids /\ r.kind # "none" /\ r.kind # "join" /\ r.waits = {}
  BY DEF AtWork, Sane, Asleep, Answers
<1>2. Terse(t)
  BY DEF Terse, Asleep, Early, Deciding, Telling, Answers
<1>3. Sane(t)
  BY <1>1, <1>2 DEF Sane, Asleep, Answers
<1>4. Follows(r, t)
  BY <1>3 DEF AtWork, Follows, Asleep, Answers
<1>5. Shines(t) => Shines(r)
  BY DEF Shines, Answers
<1> QED BY <1>4, <1>5

\* A cancellation is swallowed.
LEMMA TakenFollows ==
  ASSUME NEW r, AtWork(r), r.ask = "asked", r.phase \notin {"clarify", "told"}
  PROVE  LET t == [r EXCEPT !.ask = "taken"] IN Follows(r, t) /\ (Shines(t) => Shines(r))
<1> DEFINE t == [r EXCEPT !.ask = "taken"]
<1>1. /\ t \in JobRecs /\ t.kind = r.kind /\ t.pid = r.pid /\ t.epoch = r.epoch /\ t.ask = "taken"
      /\ t.phase = r.phase /\ t.busy = r.busy /\ t.waits = r.waits /\ t.last = r.last
      /\ t.text = r.text /\ t.then = r.then /\ t.started = r.started /\ t.ack = r.ack /\ t.out = r.out
      /\ t.dest = r.dest
  <2>1. "taken" \in Asks /\ r \in JobRecs
    BY DEF Asks, AtWork
  <2> QED BY <2>1 DEF JobRecs
<1> HIDE DEF t
<1>2. (Spoke(t) <=> Spoke(r)) /\ AckDue(t) = AckDue(r) /\ Retold(t) = Retold(r)
  BY <1>1 DEF Spoke, AckDue, Retold
<1>3. AnswerDue(t) = AnswerDue(r)
  BY <1>2 DEF AnswerDue
<1>4. Terse(r)
  BY DEF AtWork, Sane
<1>5. Terse(t)
  BY <1>1, <1>2, <1>3, <1>4 DEF Terse
<1>6. Sane(t)
  BY <1>1, <1>5 DEF AtWork, Sane, Asleep
<1> QED BY <1>1, <1>6 DEF AtWork, Follows, Shines, t

\* The steps of a task before it chooses a destination.
LEMMA InitializedFollows ==
  ASSUME AInv, NEW i \in Jobs, job[i].phase \in {"waitinit", "hook"}
  PROVE  Follows(job[i], Initialized(i)) /\ (Shines(Initialized(i)) => Shines(job[i]))
<1> DEFINE r == job[i]
<1>1. AtWork(r) /\ r \in JobRecs /\ r.phase \in Early
  BY AtAwait DEF Asleep, Early
<1>2. CASE r.kind = "join" \/ ~Current(i) \/ Refused(i)
  BY <1>1, <1>2, Leaves DEF Initialized
<1>3. CASE r.kind # "join" /\ Initialized(i) = [r EXCEPT !.phase = "status", !.busy = TRUE]
  <2> DEFINE t == [r EXCEPT !.phase = "status", !.busy = TRUE]
  <2>1. "status" \in Phases /\ TRUE \in BOOLEAN
    BY DEF Phases
  <2>2. /\ t \in JobRecs /\ t.kind = r.kind /\ t.pid = r.pid /\ t.epoch = r.epoch /\ t.ask = r.ask
        /\ t.waits = r.waits /\ t.ack = r.ack /\ t.started = r.started /\ t.out = r.out
        /\ t.phase = "status"
    <3> HIDE DEF r
    <3> QED BY <1>1, <2>1 DEF JobRecs
  <2> HIDE DEF t, r
  <2>3. Follows(r, t)
    BY <1>1, <1>3, <2>2, EarlyFollows DEF Early
  <2>4. ~Shines(t)
    BY <2>2 DEF Shines
  <2> QED BY <1>3, <2>3, <2>4 DEF t, r
<1>4. CASE r.kind # "join" /\ Initialized(i) = [r EXCEPT !.phase = "start"]
  <2> DEFINE t == [r EXCEPT !.phase = "start"]
  <2>1. "start" \in Phases
    BY DEF Phases
  <2>2. /\ t \in JobRecs /\ t.kind = r.kind /\ t.pid = r.pid /\ t.epoch = r.epoch /\ t.ask = r.ask
        /\ t.waits = r.waits /\ t.ack = r.ack /\ t.started = r.started /\ t.out = r.out
        /\ t.phase = "start" /\ t.busy = r.busy
    <3> HIDE DEF r
    <3> QED BY <1>1, <2>1 DEF JobRecs
  <2>3. r.phase \notin {"status", "ending"}
    OBVIOUS
  <2> HIDE DEF t, r
  <2>4. Follows(r, t)
    BY <1>1, <1>4, <2>2, EarlyFollows DEF Early
  <2>5. Shines(t) => Shines(r)
    BY <2>2, <2>3 DEF Shines
  <2> QED BY <1>4, <2>4, <2>5 DEF t, r
<1> QED BY <1>2, <1>3, <1>4 DEF Initialized

\* A new phase, and nothing else that matters.
LEMMA PhaseIs ==
  ASSUME NEW r \in JobRecs, NEW phase \in Phases
  PROVE  LET t == [r EXCEPT !.phase = phase] IN
         /\ t \in JobRecs /\ t.kind = r.kind /\ t.pid = r.pid /\ t.epoch = r.epoch /\ t.ask = r.ask
         /\ t.waits = r.waits /\ t.ack = r.ack /\ t.started = r.started /\ t.out = r.out
         /\ t.phase = phase /\ t.busy = r.busy
BY DEF JobRecs

\* run_handle() and _initialize_once(): up to the choice of a destination.
LEMMA EarlySteps ==
  ASSUME AInv, NEW i \in Jobs,
         \/ Begin(i) \/ TakeInit(i) \/ Initialize(i) \/ ReportProcessing(i) \/ Start(i) \/ Unfocused(i)
  PROVE  AInv'
<1> DEFINE r == job[i]
           p == r.pid
<1>0. job[i].phase \in Early /\ job[i].phase \notin Asleep
  BY DEF Begin, TakeInit, Initialize, ReportProcessing, Start, Unfocused, Resumes, Early, Asleep
<1>a. AtWork(r) /\ p \in Pids /\ r \in JobRecs /\ r.phase \in Early
  BY <1>0, AtAwait
<1>b. Follows(r, Leaving(r)) /\ ~Shines(Leaving(r))
  BY <1>a, Leaves
<1>t. /\ focus \in [Pids -> Dests \cup {None}] /\ used \in [Pids -> SUBSET Dests]
      /\ owns \in [Pids -> SUBSET Dests] /\ owns[p] \subseteq used[p]
  BY <1>a DEF AInv, Types, Kept
<1>1. CASE Begin(i)
  <2>1. CASE Refused(i)
    <3>1. Put(i, Leaving(r)) /\ UNCHANGED <<gen, turnFrame, table, outside>>
      BY <1>1, <2>1 DEF Begin
    <3> QED BY <3>1, <1>a, <1>b, PlainWork
  <2>2. CASE ~Refused(i)
    <3> DEFINE t == [r EXCEPT !.phase = "waitinit"]
    <3>1. Put(i, t) /\ UNCHANGED <<gen, turnFrame, table, outside>> /\ r.phase = "begin"
      BY <1>1, <2>2 DEF Begin, Resumes
    <3>2. "waitinit" \in Phases
      BY DEF Phases
    <3>3. /\ t \in JobRecs /\ t.kind = r.kind /\ t.pid = r.pid /\ t.epoch = r.epoch /\ t.ask = r.ask
          /\ t.waits = r.waits /\ t.ack = r.ack /\ t.started = r.started /\ t.out = r.out
          /\ t.phase = "waitinit" /\ t.busy = r.busy
      BY <1>a, <3>2, PhaseIs
    <3>4. r.kind = "join" => ~r.busy
      BY <1>a DEF AtWork, Sane
    <3> HIDE DEF t, r, p
    <3>5. Follows(r, t)
      BY <1>a, <3>3, <3>4, EarlyFollows DEF Early
    <3>6. Shines(t) => Shines(r)
      BY <3>1, <3>3 DEF Shines
    <3> QED BY <1>a, <3>1, <3>5, <3>6, PlainWork DEF r
  <2> QED BY <2>1, <2>2
<1>2. CASE TakeInit(i)
  <2>1. CASE p \in ready
    <3>1. Put(i, Initialized(i)) /\ UNCHANGED <<gen, turnFrame, table, outside>>
          /\ job[i].phase \in {"waitinit", "hook"}
      BY <1>2, <2>1 DEF TakeInit, Resumes
    <3>2. Follows(r, Initialized(i)) /\ (Shines(Initialized(i)) => Shines(r))
      BY <3>1, InitializedFollows
    <3> QED BY <3>1, <3>2, <1>a, PlainWork
  <2>2. CASE p \notin ready
    <3> DEFINE t == [r EXCEPT !.phase = "hook"]
    <3>1. Put(i, t) /\ UNCHANGED <<gen, turnFrame, table, outside>> /\ r.phase = "waitinit"
      BY <1>2, <2>2 DEF TakeInit, Resumes
    <3>2. "hook" \in Phases
      BY DEF Phases
    <3>3. /\ t \in JobRecs /\ t.kind = r.kind /\ t.pid = r.pid /\ t.epoch = r.epoch /\ t.ask = r.ask
          /\ t.waits = r.waits /\ t.ack = r.ack /\ t.started = r.started /\ t.out = r.out
          /\ t.phase = "hook" /\ t.busy = r.busy
      BY <1>a, <3>2, PhaseIs
    <3>4. r.kind = "join" => ~r.busy
      BY <1>a DEF AtWork, Sane
    <3> HIDE DEF t, r, p
    <3>5. Follows(r, t)
      BY <1>a, <3>3, <3>4, EarlyFollows DEF Early
    <3>6. Shines(t) => Shines(r)
      BY <3>1, <3>3 DEF Shines
    <3> QED BY <1>a, <3>1, <3>5, <3>6, PlainWork DEF r
  <2> QED BY <2>1, <2>2
<1>3. CASE Initialize(i)
  <2>1. CASE Put(i, Leaving(r)) /\ UNCHANGED ready
    <3>1. UNCHANGED <<gen, turnFrame, table, outside>>
      BY <1>3, <2>1 DEF Initialize, turnFrame
    <3> QED BY <2>1, <3>1, <1>a, <1>b, PlainWork
  <2>2. CASE ready' = ready \cup {p} /\ Put(i, Initialized(i))
    <3>1. job[i].phase \in {"waitinit", "hook"}
      BY <1>3 DEF Initialize, Resumes
    <3>2. Follows(r, Initialized(i)) /\ (Shines(Initialized(i)) => Shines(r))
      BY <3>1, InitializedFollows
    <3>3. Work(i, Initialized(i))
      BY <1>3, <2>2, <3>2, <1>a, <1>t DEF Initialize, Work, table, outside, admissionVars
    <3> QED BY <3>3, WorkKeeps
  <2> QED BY <1>3, <2>1, <2>2 DEF Initialize
<1>4. CASE ReportProcessing(i)
  <2> DEFINE t == [r EXCEPT !.phase = "start"]
  <2>1. /\ Put(i, t) /\ UNCHANGED <<gen, turnFrame, table, owns, budget>> /\ r.phase = "status"
        /\ shown' = [shown EXCEPT ![p] = "processing"]
    BY <1>4 DEF ReportProcessing, Resumes
  <2>2. "start" \in Phases
    BY DEF Phases
  <2>3. /\ t \in JobRecs /\ t.kind = r.kind /\ t.pid = r.pid /\ t.epoch = r.epoch /\ t.ask = r.ask
        /\ t.waits = r.waits /\ t.ack = r.ack /\ t.started = r.started /\ t.out = r.out
        /\ t.phase = "start" /\ t.busy = r.busy
    BY <1>a, <2>2, PhaseIs
  <2>4. r.kind # "join"
    BY <1>a, <2>1 DEF AtWork, Sane
  <2> HIDE DEF t
  <2>5. Follows(r, t)
    <3> HIDE DEF r, p
    <3> QED BY <1>a, <2>3, <2>4, EarlyFollows DEF Early
  <2>6. Work(i, t)
    BY <2>1, <2>5, <1>a, <1>t DEF Work, turnFrame, table, admissionVars
  <2> QED BY <2>6, WorkKeeps
<1>5. CASE Start(i)
  <2>0. r.phase = "start" /\ r.kind # "join"
    BY <1>5, <1>a DEF Start, Resumes, AtWork, Sane
  <2>1. CASE \E f \in Dests : focus' = [focus EXCEPT ![p] = None] /\ Put(i, [r EXCEPT !.phase = "unfocus", !.dest = f])
    <3>1. PICK f \in Dests : focus' = [focus EXCEPT ![p] = None] /\ Put(i, [r EXCEPT !.phase = "unfocus", !.dest = f])
      BY <2>1
    <3> DEFINE t == [r EXCEPT !.phase = "unfocus", !.dest = f]
    <3>2. "unfocus" \in Phases
      BY DEF Phases
    <3>3. /\ t \in JobRecs /\ t.kind = r.kind /\ t.pid = r.pid /\ t.epoch = r.epoch /\ t.ask = r.ask
          /\ t.waits = r.waits /\ t.ack = r.ack /\ t.started = r.started /\ t.out = r.out
          /\ t.phase = "unfocus" /\ t.busy = r.busy
      BY <1>a, <3>2 DEF JobRecs
    <3>4. Put(i, t)
      BY <3>1
    <3> HIDE DEF t
    <3>5. Follows(r, t) /\ (Shines(t) => Shines(r))
      <4> HIDE DEF r, p
      <4> QED BY <1>a, <2>0, <3>3, EarlyFollows DEF Early, Shines
    <3>6. Work(i, t)
      BY <1>5, <3>1, <3>4, <3>5, <1>a, <1>t DEF Start, Work, turnFrame, outside, admissionVars
    <3> QED BY <3>6, WorkKeeps
  <2>2. CASE \E cands \in SUBSET Dests, foc \in BOOLEAN :
               UNCHANGED focus /\ Put(i, [r EXCEPT !.phase = "select", !.foc = foc, !.cands = cands])
    <3>1. PICK cands \in SUBSET Dests, foc \in BOOLEAN :
               UNCHANGED focus /\ Put(i, [r EXCEPT !.phase = "select", !.foc = foc, !.cands = cands])
      BY <2>2
    <3> DEFINE t == [r EXCEPT !.phase = "select", !.foc = foc, !.cands = cands]
    <3>2. "select" \in Phases
      BY DEF Phases
    <3>3. /\ t \in JobRecs /\ t.kind = r.kind /\ t.pid = r.pid /\ t.epoch = r.epoch /\ t.ask = r.ask
          /\ t.waits = r.waits /\ t.ack = r.ack /\ t.started = r.started /\ t.out = r.out
          /\ t.phase = "select" /\ t.busy = r.busy
      BY <1>a, <3>2 DEF JobRecs
    <3>4. Put(i, t) /\ UNCHANGED <<gen, turnFrame, table, outside>>
      BY <3>1, <1>5 DEF Start, table
    <3> HIDE DEF t
    <3>5. Follows(r, t) /\ (Shines(t) => Shines(r))
      <4> HIDE DEF r, p
      <4> QED BY <1>a, <2>0, <3>3, EarlyFollows DEF Early, Shines
    <3> QED BY <3>4, <3>5, <1>a, PlainWork
  <2>3. focus[p] \in Dests \cup {None} /\ None \notin Dests
    BY <1>a, <1>t, AgentRouterAssumption
  <2>4. PICK E \in SUBSET Dests :
         IF focus[p] # None /\ focus[p] \notin E
         THEN /\ focus' = [focus EXCEPT ![p] = None]
              /\ Put(i, [r EXCEPT !.phase = "unfocus", !.dest = focus[p]])
         ELSE /\ UNCHANGED focus
              /\ Put(i, [r EXCEPT !.phase = "select", !.foc = (focus[p] # None),
                                  !.cands = IF focus[p] # None THEN {focus[p]} ELSE Dests])
    BY <1>5 DEF Start
  <2>5. CASE focus[p] # None /\ focus[p] \notin E
    <3>1. focus[p] \in Dests
      BY <2>3, <2>5
    <3> QED BY <2>1, <2>4, <2>5, <3>1
  <2>6. CASE ~(focus[p] # None /\ focus[p] \notin E)
    <3>1. (focus[p] # None) \in BOOLEAN /\ (IF focus[p] # None THEN {focus[p]} ELSE Dests) \in SUBSET Dests
      BY <2>3
    <3> QED BY <2>2, <2>4, <2>6, <3>1
  <2> QED BY <2>5, <2>6
<1>6. CASE Unfocused(i)
  <2>0. r.phase = "unfocus" /\ r.kind # "join" /\ UNCHANGED <<gen, turnFrame, table, outside>>
    BY <1>6, <1>a DEF Unfocused, Resumes, AtWork, Sane
  <2>1. CASE Put(i, Leaving(r))
    BY <2>0, <2>1, <1>a, <1>b, PlainWork
  <2>2. CASE Put(i, [r EXCEPT !.phase = "select", !.cands = Dests \ {r.dest}])
    <3> DEFINE t == [r EXCEPT !.phase = "select", !.cands = Dests \ {r.dest}]
    <3>2. "select" \in Phases /\ Dests \ {r.dest} \in SUBSET Dests
      BY DEF Phases
    <3>3. /\ t \in JobRecs /\ t.kind = r.kind /\ t.pid = r.pid /\ t.epoch = r.epoch /\ t.ask = r.ask
          /\ t.waits = r.waits /\ t.ack = r.ack /\ t.started = r.started /\ t.out = r.out
          /\ t.phase = "select" /\ t.busy = r.busy
      BY <1>a, <3>2 DEF JobRecs
    <3>4. Put(i, t)
      BY <2>2
    <3> HIDE DEF t
    <3>5. Follows(r, t) /\ (Shines(t) => Shines(r))
      <4> HIDE DEF r, p
      <4> QED BY <1>a, <2>0, <3>3, EarlyFollows DEF Early, Shines
    <3> QED BY <2>0, <3>4, <3>5, <1>a, PlainWork
  <2> QED BY <1>6, <2>1, <2>2 DEF Unfocused
<1> QED BY <1>1, <1>2, <1>3, <1>4, <1>5, <1>6

\* A job that follows one that follows.
LEMMA FollowsOn ==
  ASSUME NEW r, NEW a, NEW t, Follows(r, a), Follows(a, t)
  PROVE  Follows(r, t)
BY DEF Follows

\* Choosing goes on.
LEMMA DecidingFollows ==
  ASSUME NEW r, AtWork(r), r.phase \in Deciding, NEW t \in JobRecs,
         t.kind = r.kind, t.pid = r.pid, t.epoch = r.epoch, t.ask = r.ask, t.waits = r.waits,
         t.busy = r.busy, t.last = r.last, t.ack = r.ack, t.started = r.started, t.out = r.out,
         t.phase \in Deciding, t.phase = "letgo" => t.then \in {"retry", "clarify", "answer"},
         t.phase = "admit" => t.dest \in Dests
  PROVE  Follows(r, t) /\ (Shines(t) => Shines(r))
<1>1. /\ r.pid \in Pids /\ r.kind # "none" /\ r.kind # "join" /\ r.waits = {} /\ r.ack = "off"
      /\ ~r.started /\ ~Spoke(r) /\ Len(r.out) <= Retold(r)
  BY DEF AtWork, Sane, Terse, Asleep, Deciding, Answers
<1>2. ~Spoke(t) /\ (\A m, n \in DOMAIN t.out : m < n => t.out[m] # "answer") /\ Len(t.out) <= Retold(t)
  BY <1>1 DEF Spoke, Retold
<1>3. Terse(t)
  BY <1>1, <1>2 DEF Terse, Asleep, Early, Deciding, Telling, Answers
<1>4. Sane(t)
  BY <1>1, <1>3 DEF Sane, Asleep, Deciding
<1>5. Follows(r, t)
  BY <1>4 DEF AtWork, Follows, Asleep, Deciding
<1>6. Shines(t) => Shines(r)
  BY DEF Shines, Deciding
<1> QED BY <1>5, <1>6

\* The participant is asked what it meant.
LEMMA ClarifyFollows ==
  ASSUME NEW i, NEW r, AtWork(r), r.phase \in Deciding, r.ask # "taken"
  PROVE  Follows(r, Clarify(i, r)) /\ (Shines(Clarify(i, r)) => Shines(r))
<1>1. "clarify" \in Telling /\ "clarify" # "told"
  BY DEF Telling
<1> QED BY <1>1, TellingFollows DEF Clarify

\* A destination declined.
LEMMA DeclineFollows ==
  ASSUME NEW i, AtWork(job[i]), job[i].phase = "admit", job[i].ask = "no",
         NEW d \in Dests, NEW E, Decline(i, d, E)
  PROVE  \E t : Put(i, t) /\ Follows(job[i], t) /\ (Shines(t) => Shines(job[i]))
<1> DEFINE r == job[i]
           out == r.declined \cup {d}
           cands == (IF r.foc THEN Dests ELSE r.cands) \ {d}
           a == [r EXCEPT !.declined = out, !.foc = FALSE, !.cands = cands]
<1>1. r \in JobRecs /\ out \in SUBSET Dests /\ cands \in SUBSET Dests
  BY DEF AtWork, JobRecs
<1>d. \/ Put(i, Clarify(i, a))
      \/ \E then \in {"clarify", "answer", "retry"} : Put(i, [a EXCEPT !.phase = "letgo", !.then = then])
      \/ Put(i, Retry(a, cands))
  <2>1. \/ Put(i, Clarify(i, a))
        \/ Put(i, [a EXCEPT !.phase = "letgo", !.then = "clarify"])
        \/ Put(i, [a EXCEPT !.phase = "letgo", !.then = "answer"])
        \/ Put(i, [a EXCEPT !.phase = "letgo", !.then = "retry"])
        \/ Put(i, Retry(a, cands))
    BY Zenon DEF Decline
  <2> HIDE DEF a
  <2> QED BY <2>1
<1>2. AtWork(a) /\ Follows(r, a) /\ (Shines(a) => Shines(r)) /\ a.phase = "admit" /\ a.ask = "no"
      /\ a.phase \in Deciding /\ a \in JobRecs
  <2> HIDE DEF out, cands
  <2>1. /\ a \in JobRecs /\ a.kind = r.kind /\ a.pid = r.pid /\ a.epoch = r.epoch
        /\ a.ask = r.ask /\ a.phase = r.phase /\ a.busy = r.busy /\ a.waits = r.waits /\ a.last = r.last
        /\ a.text = r.text /\ a.then = r.then /\ a.started = r.started /\ a.ack = r.ack /\ a.out = r.out
        /\ a.dest = r.dest
    BY <1>1 DEF JobRecs
  <2> HIDE DEF a, r
  <2> QED BY <2>1, SameSane DEF r, Deciding
<1> HIDE DEF a, r, out, cands
<1>3. Follows(a, Clarify(i, a)) /\ (Shines(Clarify(i, a)) => Shines(a))
  BY <1>2, ClarifyFollows
<1>4. Follows(a, Retry(a, cands)) /\ (Shines(Retry(a, cands)) => Shines(a))
  BY <1>1, <1>2, RetryFollows
<1>5. ASSUME NEW then \in {"clarify", "answer", "retry"}
      PROVE  LET t == [a EXCEPT !.phase = "letgo", !.then = then] IN
             Follows(a, t) /\ (Shines(t) => Shines(a))
  <2> DEFINE t == [a EXCEPT !.phase = "letgo", !.then = then]
  <2>1. "letgo" \in Phases /\ then \in Thens
    BY DEF Phases, Thens
  <2>2. /\ t \in JobRecs /\ t.kind = a.kind /\ t.pid = a.pid /\ t.epoch = a.epoch /\ t.ask = a.ask
        /\ t.waits = a.waits /\ t.busy = a.busy /\ t.last = a.last /\ t.ack = a.ack
        /\ t.started = a.started /\ t.out = a.out /\ t.phase = "letgo" /\ t.then = then
    BY <1>2, <2>1 DEF JobRecs
  <2> HIDE DEF t
  <2>3. t.phase \in Deciding /\ t.phase # "admit" /\ t.then \in {"retry", "clarify", "answer"}
    BY <2>2 DEF Deciding
  <2> QED BY <1>2, <2>2, <2>3, DecidingFollows DEF t
<1>6. CASE Put(i, Clarify(i, a))
  BY <1>2, <1>3, <1>6, FollowsOn DEF r
<1>7. CASE Put(i, Retry(a, cands))
  BY <1>2, <1>4, <1>7, FollowsOn DEF r
<1>8. ASSUME NEW then \in {"clarify", "answer", "retry"}, Put(i, [a EXCEPT !.phase = "letgo", !.then = then])
      PROVE  \E t : Put(i, t) /\ Follows(job[i], t) /\ (Shines(t) => Shines(job[i]))
  BY <1>2, <1>5, <1>8, FollowsOn DEF r
<1> QED BY <1>d, <1>6, <1>7, <1>8

\* Another destination, after a release.
LEMMA RerouteFollows ==
  ASSUME NEW i, NEW r, AtWork(r), r.phase \in {"release", "told"}, r.ask = "no"
  PROVE  Follows(r, Reroute(i, r)) /\ (Shines(Reroute(i, r)) => Shines(r))
<1>1. r.phase = "told" => r.text
  BY DEF AtWork, Sane
<1>2. CASE (Dests = {r.dest} \/ r.last) /\ r.text
  BY <1>2, Leaves DEF Reroute
<1>3. CASE (Dests = {r.dest} \/ r.last) /\ ~r.text
  BY <1>1, <1>3, ClarifyFollows DEF Reroute, Deciding
<1>4. CASE ~(Dests = {r.dest} \/ r.last)
  <2>1. Dests \ {r.dest} \in SUBSET Dests
    OBVIOUS
  <2> QED BY <2>1, <1>4, RetryFollows DEF Reroute, Deciding
<1> QED BY <1>2, <1>3, <1>4

\* _handle(): a destination is chosen and admits the turn, or declines.
LEMMA DecidingSteps ==
  ASSUME AInv, NEW i \in Jobs,
         Select(i) \/ Clarified(i) \/ Admitted(i) \/ Preambled(i) \/ LetGo(i) \/ Released(i) \/ Told(i)
  PROVE  AInv'
<1> DEFINE r == job[i]
           p == r.pid
<1>0. job[i].phase \in Deciding \cup Telling /\ job[i].phase \notin Asleep /\ job[i].ask # "asked"
  BY DEF Select, Clarified, Admitted, Preambled, LetGo, Released, Told, Resumes, Deciding, Telling, Asleep
<1>a. AtWork(r) /\ p \in Pids /\ r \in JobRecs /\ r.ask \in Asks
  BY <1>0, AtAwait DEF JobRecs
<1>k. r.kind # "join" /\ (Current(i) => r.ask = "no")
  BY <1>0, <1>a, AtAwait DEF AtWork, Sane, Deciding, Telling
<1>b. Follows(r, Leaving(r)) /\ ~Shines(Leaving(r))
  BY <1>a, Leaves
<1>t. /\ focus \in [Pids -> Dests \cup {None}] /\ used \in [Pids -> SUBSET Dests]
      /\ owns \in [Pids -> SUBSET Dests] /\ owns[p] \subseteq used[p]
  BY <1>a DEF AInv, Types, Kept
<1>n. "no" # "taken"
  OBVIOUS
<1>d. Default \in Dests /\ None \notin Dests /\ Acks \in BOOLEAN
  BY AgentRouterAssumption
<1>1. CASE Select(i)
  <2>0. /\ r.phase = "select" /\ UNCHANGED <<gen, turnFrame, focus, hist, shown, budget>>
        /\ IF ~Current(i)
           THEN Put(i, Leaving(r)) /\ UNCHANGED <<used, owns>>
           ELSE \E E \in SUBSET Dests : \E d \in Choices(r, E) :
                  IF d = None
                  THEN Put(i, Clarify(i, r)) /\ UNCHANGED <<used, owns>>
                  ELSE /\ Put(i, [r EXCEPT !.phase = "admit", !.dest = d])
                       /\ used' = [used EXCEPT ![p] = @ \cup {d}] /\ Hold(p, d)
    BY <1>1 DEF Select, Resumes
  <2>1. CASE Put(i, Leaving(r)) /\ UNCHANGED <<used, owns>>
    <3>1. UNCHANGED <<gen, turnFrame, table, outside>>
      BY <2>0, <2>1 DEF table, outside
    <3> QED BY <2>1, <3>1, <1>a, <1>b, PlainWork
  <2>2. CASE Current(i) /\ Put(i, Clarify(i, r)) /\ UNCHANGED <<used, owns>>
    <3>1. UNCHANGED <<gen, turnFrame, table, outside>>
      BY <2>0, <2>2 DEF table, outside
    <3>2. Follows(r, Clarify(i, r)) /\ (Shines(Clarify(i, r)) => Shines(r))
      BY <1>a, <1>k, <2>0, <2>2, ClarifyFollows DEF Deciding
    <3> QED BY <2>2, <3>1, <3>2, <1>a, PlainWork
  <2>3. ASSUME NEW d \in Dests, Put(i, [r EXCEPT !.phase = "admit", !.dest = d]),
               used' = [used EXCEPT ![p] = @ \cup {d}], Hold(p, d)
        PROVE  AInv'
    <3> DEFINE t == [r EXCEPT !.phase = "admit", !.dest = d]
    <3>1. "admit" \in Phases
      BY DEF Phases
    <3>2. /\ t \in JobRecs /\ t.kind = r.kind /\ t.pid = r.pid /\ t.epoch = r.epoch /\ t.ask = r.ask
          /\ t.waits = r.waits /\ t.ack = r.ack /\ t.started = r.started /\ t.out = r.out
          /\ t.phase = "admit" /\ t.busy = r.busy /\ t.last = r.last /\ t.dest = d
      BY <1>a, <3>1 DEF JobRecs
    <3>3. Put(i, t)
      BY <2>3
    <3> HIDE DEF t
    <3>4. Follows(r, t) /\ (Shines(t) => Shines(r))
      <4> HIDE DEF r, p
      <4>1. t.phase \in Deciding /\ t.phase # "letgo" /\ t.dest \in Dests /\ r.phase \in Deciding
        BY <2>0, <3>2 DEF Deciding
      <4> QED BY <1>a, <3>2, <4>1, DecidingFollows
    <3>5. Work(i, t)
      BY <2>0, <2>3, <3>3, <3>4, <1>a, <1>t DEF Work, Hold, turnFrame, outside, admissionVars
    <3> QED BY <3>5, WorkKeeps
  <2>4. \A E \in SUBSET Dests : Choices(r, E) \subseteq Dests \cup {None}
    <3>1. r.cands \subseteq Dests
      BY <1>a DEF JobRecs
    <3> QED BY <3>1 DEF Choices
  <2> HIDE DEF r, p
  <2> QED BY <2>0, <2>1, <2>2, <2>3, <2>4
<1>2. CASE Clarified(i)
  <2>1. Put(i, Leaving(r)) /\ Remember(i) /\ UNCHANGED <<gen, turnFrame, focus, used, outside>>
    BY <1>2 DEF Clarified
  <2>2. Work(i, Leaving(r))
    BY <2>1, <1>a, <1>b, <1>k, <1>t DEF Work, turnFrame, outside, admissionVars
  <2> QED BY <2>2, WorkKeeps
<1>3. CASE Admitted(i)
  <2>0. /\ r.phase = "admit" /\ UNCHANGED <<gen, turnFrame, table, outside>> /\ r.dest \in Dests
        /\ r.phase \in Deciding
    BY <1>3, <1>a DEF Admitted, Resumes, AtWork, Sane, Deciding
  <2>s. \A t : Follows(r, t) /\ (Shines(t) => Shines(r)) /\ Put(i, t) => AInv'
    BY <2>0, <1>a, PlainWork
  <2>1. CASE Put(i, Leaving(r))
    BY <2>s, <2>1, <1>b
  <2>2. CASE Put(i, [Say(i, r, "control") EXCEPT !.phase = "preamble"])
    <3>1. "preamble" \in Telling /\ "preamble" # "told" /\ "preamble" # "clarify"
      BY DEF Telling
    <3> DEFINE t == [Say(i, r, "control") EXCEPT !.phase = "preamble"]
    <3>2. Follows(r, t) /\ (Shines(t) => Shines(r))
      BY <1>a, <2>0, <3>1, TellingFollows
    <3> HIDE DEF t
    <3> QED BY <3>2, <2>2, <2>s DEF t
  <2>3. CASE Put(i, Answering(r, r.dest, Acks))
    <3>1. Follows(r, Answering(r, r.dest, Acks)) /\ (Shines(Answering(r, r.dest, Acks)) => Shines(r))
      BY <1>a, <1>d, <2>0, AnsweringFollows
    <3> QED BY <3>1, <2>3, <2>s
  <2>4. CASE Current(i) /\ Put(i, Clarify(i, r))
    <3>1. Follows(r, Clarify(i, r)) /\ (Shines(Clarify(i, r)) => Shines(r))
      BY <1>a, <1>k, <2>0, <2>4, ClarifyFollows
    <3> QED BY <3>1, <2>4, <2>s
  <2>5. ASSUME NEW text \in BOOLEAN, Put(i, [r EXCEPT !.phase = "release", !.text = text]) PROVE AInv'
    <3> DEFINE t == [r EXCEPT !.phase = "release", !.text = text]
    <3>1. "release" \in Phases
      BY DEF Phases
    <3>2. /\ t \in JobRecs /\ t.kind = r.kind /\ t.pid = r.pid /\ t.epoch = r.epoch /\ t.ask = r.ask
          /\ t.waits = r.waits /\ t.ack = r.ack /\ t.started = r.started /\ t.out = r.out
          /\ t.phase = "release" /\ t.busy = r.busy /\ t.last = r.last
      BY <1>a, <3>1 DEF JobRecs
    <3>3. Put(i, t)
      BY <2>5
    <3> HIDE DEF t
    <3>4. Follows(r, t) /\ (Shines(t) => Shines(r))
      <4> HIDE DEF r, p
      <4>1. t.phase \in Deciding /\ t.phase # "letgo" /\ t.phase # "admit"
        BY <3>2 DEF Deciding
      <4> QED BY <1>a, <2>0, <3>2, <4>1, DecidingFollows
    <3> QED BY <3>3, <3>4, <2>s
  <2>6. ASSUME NEW E \in SUBSET Dests, Current(i), Decline(i, r.dest, E) PROVE AInv'
    <3>1. \E t : Put(i, t) /\ Follows(r, t) /\ (Shines(t) => Shines(r))
      BY <1>a, <1>k, <2>0, <2>6, DeclineFollows
    <3> QED BY <3>1, <2>s
  <2>7. \/ Put(i, Leaving(r))
        \/ Current(i) /\ \E text \in BOOLEAN :
             \/ Put(i, [Say(i, r, "control") EXCEPT !.phase = "preamble"])
             \/ Put(i, Answering(r, r.dest, Acks))
             \/ Put(i, Clarify(i, r))
             \/ Put(i, Leaving(r))
             \/ Put(i, [r EXCEPT !.phase = "release", !.text = text])
             \/ \E E \in SUBSET Dests : Decline(i, r.dest, E)
    BY <1>3, Zenon DEF Admitted
  <2> HIDE DEF r, p
  <2> QED BY <2>1, <2>2, <2>3, <2>4, <2>5, <2>6, <2>7, Zenon
<1>4. CASE Preambled(i)
  <2>0. r.phase = "preamble" /\ UNCHANGED <<gen, turnFrame, table, outside>>
    BY <1>4 DEF Preambled, Resumes
  <2>1. CASE Put(i, Leaving(r))
    BY <2>0, <2>1, <1>a, <1>b, PlainWork
  <2>2. CASE Put(i, Answering(r, r.dest, FALSE))
    <3>1. r.dest \in Dests \cup {None} /\ FALSE \in BOOLEAN
      BY <1>a DEF JobRecs
    <3>2. Follows(r, Answering(r, r.dest, FALSE)) /\ (Shines(Answering(r, r.dest, FALSE)) => Shines(r))
      BY <1>a, <2>0, <3>1, AnsweringFollows
    <3> QED BY <2>0, <2>2, <3>2, <1>a, PlainWork
  <2> QED BY <1>4, <2>1, <2>2 DEF Preambled
<1>5. CASE LetGo(i)
  <2>0. /\ r.phase = "letgo" /\ r.phase \in Deciding /\ r.then \in {"retry", "clarify", "answer"}
        /\ UNCHANGED <<gen, turnFrame, focus, hist, shown, budget>> /\ r.cands \in SUBSET Dests
    BY <1>5, <1>a DEF LetGo, Resumes, AtWork, Sane, Deciding, JobRecs
  <2>1. ASSUME NEW t, Put(i, t), Follows(r, t), Shines(t) => Shines(r), UNCHANGED <<used, owns>>
        PROVE  AInv'
    <3>1. UNCHANGED <<gen, turnFrame, table, outside>>
      BY <2>0, <2>1 DEF table, outside
    <3> QED BY <2>1, <3>1, <1>a, PlainWork
  <2>2. CASE ~Current(i)
    <3>1. Put(i, Leaving(r)) /\ UNCHANGED <<used, owns>>
      BY <1>5, <2>2 DEF LetGo
    <3> QED BY <3>1, <2>1, <1>b
  <2>3. CASE Current(i) /\ r.then = "retry"
    <3>1. Put(i, Retry(r, r.cands)) /\ UNCHANGED <<used, owns>>
      BY <1>5, <2>3 DEF LetGo
    <3>2. Follows(r, Retry(r, r.cands)) /\ (Shines(Retry(r, r.cands)) => Shines(r))
      BY <1>a, <2>0, RetryFollows
    <3> QED BY <3>1, <3>2, <2>1
  <2>4. CASE Current(i) /\ r.then = "clarify"
    <3>1. Put(i, Clarify(i, r)) /\ UNCHANGED <<used, owns>>
      BY <1>5, <2>4 DEF LetGo
    <3>2. Follows(r, Clarify(i, r)) /\ (Shines(Clarify(i, r)) => Shines(r))
      BY <1>a, <1>k, <2>0, <2>4, ClarifyFollows
    <3> QED BY <3>1, <3>2, <2>1
  <2>5. CASE Current(i) /\ r.then = "answer"
    <3> DEFINE t == Answering(r, Default, Acks)
    <3>1. Put(i, t) /\ used' = [used EXCEPT ![p] = @ \cup {Default}] /\ Hold(p, Default)
      BY <1>5, <2>5 DEF LetGo
    <3>2. Follows(r, t) /\ (Shines(t) => Shines(r))
      BY <1>a, <1>d, <2>0, AnsweringFollows
    <3> HIDE DEF t
    <3>3. Work(i, t)
      BY <2>0, <3>1, <3>2, <1>a, <1>d, <1>t DEF Work, Hold, turnFrame, outside, admissionVars
    <3> QED BY <3>3, WorkKeeps
  <2> QED BY <2>0, <2>2, <2>3, <2>4, <2>5
<1>6. CASE Released(i)
  <2>0. /\ r.phase = "release" /\ r.phase \in Deciding /\ UNCHANGED <<gen, turnFrame, used, hist, outside>>
        /\ focus' \in [Pids -> Dests \cup {None}] /\ \A o \in Pids \ {p} : focus'[o] = focus[o]
    BY <1>6, <1>a, <1>t DEF Released, Resumes, Deciding
  <2>1. ASSUME NEW t, Put(i, t), Follows(r, t), Shines(t) => Shines(r) PROVE AInv'
    <3>1. Work(i, t)
      BY <2>0, <2>1, <1>a, <1>t DEF Work, turnFrame, outside, admissionVars
    <3> QED BY <3>1, WorkKeeps
  <2>2. CASE ~Current(i)
    <3>1. Put(i, Leaving(r))
      BY <1>6, <2>2 DEF Released
    <3> QED BY <3>1, <2>1, <1>b
  <2>3. CASE Current(i) /\ r.text
    <3> DEFINE t == [Say(i, r, "control") EXCEPT !.phase = "told"]
    <3>1. Put(i, t)
      BY <1>6, <2>3 DEF Released
    <3>2. "told" \in Telling /\ "told" # "clarify" /\ r.ask # "taken"
      BY <1>k, <2>3 DEF Telling
    <3>3. Follows(r, t) /\ (Shines(t) => Shines(r))
      BY <1>a, <2>0, <2>3, <3>2, TellingFollows
    <3> HIDE DEF t
    <3> QED BY <3>1, <3>3, <2>1
  <2>4. CASE Current(i) /\ ~r.text
    <3>1. Put(i, Reroute(i, r))
      BY <1>6, <2>4 DEF Released
    <3>2. Follows(r, Reroute(i, r)) /\ (Shines(Reroute(i, r)) => Shines(r))
      BY <1>a, <1>k, <2>0, <2>4, RerouteFollows
    <3> QED BY <3>1, <3>2, <2>1
  <2> QED BY <2>2, <2>3, <2>4
<1>7. CASE Told(i)
  <2>0. /\ r.phase = "told" /\ Put(i, Reroute(i, r)) /\ Remember(i)
        /\ UNCHANGED <<gen, turnFrame, focus, used, outside>>
    BY <1>7 DEF Told, Resumes
  <2>1. r.ask = "no"
    BY <1>0, <1>a, <2>0 DEF AtWork, Sane, Asks
  <2>2. Follows(r, Reroute(i, r)) /\ (Shines(Reroute(i, r)) => Shines(r))
    BY <1>a, <2>0, <2>1, RerouteFollows
  <2>3. Work(i, Reroute(i, r))
    BY <2>0, <2>2, <1>a, <1>k, <1>t DEF Work, turnFrame, outside, admissionVars
  <2> QED BY <2>3, WorkKeeps
<1> QED BY <1>1, <1>2, <1>3, <1>4, <1>5, <1>6, <1>7

\* What an answering turn may still say.
LEMMA AnswerIs ==
  ASSUME NEW r, AtWork(r), r.phase \in Answers
  PROVE  /\ r \in JobRecs /\ r.kind # "join" /\ r.waits = {} /\ Len(r.out) \in Nat
         /\ Len(r.out) + AckDue(r) + AnswerDue(r) <= 3
         /\ r.started \/ r.phase \in {"closing", "handover"} => r.ack # "pending"
         /\ r.phase = "handover" => r.ack # "committed"
         /\ Spoke(r) => r.started /\ r.ack # "committed"
         /\ \A m, n \in DOMAIN r.out : m < n => r.out[m] # "answer"
<1>1. r \in JobRecs /\ Sane(r) /\ Terse(r)
  BY DEF AtWork, Sane
<1>2. Len(r.out) \in Nat
  BY <1>1, LenProperties DEF JobRecs
<1> QED BY <1>1, <1>2 DEF Sane, Terse, Answers

\* The acknowledgment moves: it is committed, withdrawn, or not due.
LEMMA AckFollows ==
  ASSUME NEW r, AtWork(r), r.phase = "answer", NEW started \in BOOLEAN, r.started => started,
         NEW ack \in AckStates, ack = "committed" => r.ack \in {"pending", "committed"} /\ (r.ack = "committed" \/ ~r.started),
         started => ack # "pending", ack = "pending" => r.ack = "pending"
  PROVE  LET t == [r EXCEPT !.started = started, !.ack = ack] IN
         Follows(r, t) /\ (Shines(t) => Shines(r))
<1> DEFINE t == [r EXCEPT !.started = started, !.ack = ack]
<1>1. /\ r \in JobRecs /\ r.kind # "join" /\ Len(r.out) \in Nat
      /\ Len(r.out) + AckDue(r) + AnswerDue(r) <= 3
      /\ Spoke(r) => r.started /\ r.ack # "committed"
      /\ \A m, n \in DOMAIN r.out : m < n => r.out[m] # "answer"
      /\ r.phase \in Answers
  BY AnswerIs DEF Answers
<1>2. /\ t \in JobRecs /\ t.kind = r.kind /\ t.pid = r.pid /\ t.epoch = r.epoch /\ t.ask = r.ask
      /\ t.waits = r.waits /\ t.ack = ack /\ t.started = started /\ t.out = r.out
      /\ t.phase = "answer" /\ t.busy = r.busy
  BY <1>1 DEF JobRecs
<1> HIDE DEF t
<1>3. (Spoke(t) <=> Spoke(r)) /\ AnswerDue(t) = AnswerDue(r) /\ AnswerDue(r) \in Nat
  BY <1>2 DEF Spoke, AnswerDue
<1>4. AckDue(t) <= AckDue(r) /\ AckDue(t) \in Nat /\ AckDue(r) \in Nat
  BY <1>2 DEF AckDue
<1>5. Len(t.out) + AckDue(t) + AnswerDue(t) <= 3
  BY <1>1, <1>2, <1>3, <1>4
<1>6. /\ t.started \/ t.phase \in {"closing", "handover"} => t.ack # "pending"
      /\ t.phase = "handover" => t.ack # "committed"
      /\ Spoke(t) => t.started /\ t.ack # "committed"
      /\ \A m, n \in DOMAIN t.out : m < n => t.out[m] # "answer"
      /\ t.phase \in Answers
  BY <1>1, <1>2, <1>3 DEF Answers
<1> QED BY ZenonT(40), <1>1, <1>2, <1>5, <1>6, AnswerFollows DEF t

\* answer() and its acknowledgment.
LEMMA AnswerSteps ==
  ASSUME AInv, NEW i \in Jobs,
         \/ CommitAck(i) \/ DeliverAck(i) \/ NoAck(i) \/ ResponseStarted(i) \/ Speak(i)
         \/ \E result \in {"answer", "focus", "release", "failed", "cancelled"}, text \in BOOLEAN :
              Answered(i, result, text)
  PROVE  AInv'
<1> DEFINE r == job[i]
<1>0. job[i].phase \in Answers /\ job[i].phase \notin Asleep
  <2>1. CASE DeliverAck(i)
    <3>1. job[i].ack = "committed" /\ Sane(job[i])
      BY <2>1 DEF DeliverAck, AInv
    <3> QED BY <3>1 DEF Sane, Terse, Answers, Asleep
  <2>2. CASE ~DeliverAck(i)
    BY <2>2 DEF CommitAck, NoAck, ResponseStarted, Speak, Answered, Answers, Asleep
  <2> QED BY <2>1, <2>2
<1>a. AtWork(r) /\ r \in JobRecs /\ r.ack \in AckStates /\ r.started \in BOOLEAN /\ r.out \in Seq(Words)
  BY <1>0, AtAwait DEF JobRecs
<1>b. /\ r.kind # "join" /\ Len(r.out) \in Nat /\ r.waits = {}
      /\ Len(r.out) + AckDue(r) + AnswerDue(r) <= 3
      /\ r.started \/ r.phase \in {"closing", "handover"} => r.ack # "pending"
      /\ r.phase = "handover" => r.ack # "committed"
      /\ Spoke(r) => r.started /\ r.ack # "committed"
      /\ \A m, n \in DOMAIN r.out : m < n => r.out[m] # "answer"
      /\ r.phase \in Answers
  BY <1>0, <1>a, AnswerIs
<1>u. UNCHANGED <<gen, turnFrame, table, outside>>
  BY DEF CommitAck, DeliverAck, NoAck, ResponseStarted, Speak, Answered
<1>s. \A t : Follows(r, t) /\ (Shines(t) => Shines(r)) /\ Put(i, t) => AInv'
  BY <1>u, <1>a, PlainWork
<1>c. \A started \in BOOLEAN, ack \in AckStates :
        /\ r.phase = "answer" /\ (r.started => started)
        /\ ack = "committed" => r.ack \in {"pending", "committed"} /\ (r.ack = "committed" \/ ~r.started)
        /\ started => ack # "pending"
        /\ ack = "pending" => r.ack = "pending"
        /\ Put(i, [r EXCEPT !.started = started, !.ack = ack])
        => AInv'
  <2> SUFFICES ASSUME NEW started \in BOOLEAN, NEW ack \in AckStates, r.phase = "answer",
                      r.started => started,
                      ack = "committed" => r.ack \in {"pending", "committed"} /\ (r.ack = "committed" \/ ~r.started),
                      started => ack # "pending", ack = "pending" => r.ack = "pending",
                      Put(i, [r EXCEPT !.started = started, !.ack = ack])
               PROVE  AInv'
    OBVIOUS
  <2> DEFINE t == [r EXCEPT !.started = started, !.ack = ack]
  <2>1. Follows(r, t) /\ (Shines(t) => Shines(r))
    BY <1>a, AckFollows
  <2> HIDE DEF t
  <2> QED BY <2>1, <1>s DEF t
<1>1. CASE CommitAck(i)
  <2> DEFINE ack == IF Current(i) THEN "committed" ELSE "done"
  <2>1. /\ r.phase = "answer" /\ r.ack = "pending" /\ ~r.started /\ Put(i, [r EXCEPT !.ack = ack])
    BY <1>1 DEF CommitAck
  <2>2. ack \in AckStates /\ ack # "pending"
    BY DEF AckStates
  <2> HIDE DEF ack
  <2>3. [r EXCEPT !.ack = ack] = [r EXCEPT !.started = r.started, !.ack = ack]
    BY <1>a DEF JobRecs
  <2> QED BY <2>1, <2>2, <2>3, <1>a, <1>c
<1>2. CASE DeliverAck(i)
  <2>0. r.ack = "committed" /\ ~Spoke(r) /\ AckDue(r) = 1 /\ AnswerDue(r) = 1
    BY <1>2, <1>b DEF DeliverAck, AckDue, AnswerDue
  <2>w. "ack" \in Words /\ "done" \in AckStates /\ TRUE \in BOOLEAN
    BY DEF Words, AckStates
  <2>1. ASSUME NEW t \in JobRecs, Put(i, t), t.kind = r.kind, t.pid = r.pid, t.epoch = r.epoch,
               t.ask = r.ask, t.waits = r.waits, t.ack = "done", t.started = r.started, t.phase = r.phase,
               t.busy = r.busy, Len(t.out) \in Nat, Len(t.out) <= Len(r.out) + 1, \A n \in DOMAIN t.out : t.out[n] # "answer"
        PROVE AInv'
    <3>1. ~Spoke(t) /\ \A m, n \in DOMAIN t.out : m < n => t.out[m] # "answer"
      BY <2>1 DEF Spoke
    <3>2. AckDue(t) = 0 /\ AnswerDue(t) = 1
      BY <2>1, <3>1 DEF AckDue, AnswerDue
    <3>3. Len(t.out) + AckDue(t) + AnswerDue(t) <= 3
      BY <2>0, <2>1, <3>2, <1>b
    <3>4. /\ t.started \/ t.phase \in {"closing", "handover"} => t.ack # "pending"
          /\ t.phase = "handover" => t.ack # "committed"
          /\ t.phase \in Answers
      BY <2>1, <1>b
    <3> HIDE DEF r
    <3>5. Follows(r, t) /\ (Shines(t) => Shines(r))
      BY <1>a, <1>b, <2>1, <3>1, <3>3, <3>4, AnswerFollows
    <3> QED BY <2>1, <3>5, <1>s
  <2>2. CASE Put(i, [r EXCEPT !.ack = "done", !.out = Append(@, "ack")])
    <3> DEFINE o == Append(r.out, "ack")
               t == [r EXCEPT !.ack = "done", !.out = o]
    <3>1. o \in Seq(Words) /\ Len(o) = Len(r.out) + 1 /\ \A n \in DOMAIN o : o[n] # "answer"
      <4>1. \A n \in DOMAIN r.out : r.out[n] # "answer"
        BY <2>0 DEF Spoke
      <4> QED BY <1>a, <2>w, <4>1, Adding
    <3>2. Put(i, t)
      BY <2>2
    <3> HIDE DEF o
    <3>3. /\ t \in JobRecs /\ t.kind = r.kind /\ t.pid = r.pid /\ t.epoch = r.epoch
          /\ t.ask = r.ask /\ t.waits = r.waits /\ t.ack = "done" /\ t.started = r.started
          /\ t.phase = r.phase /\ t.busy = r.busy /\ t.out = o
      BY <1>a, <2>w, <3>1 DEF JobRecs
    <3>4. Len(o) \in Nat /\ Len(o) <= Len(r.out) + 1
      BY <3>1, <1>b
    <3> HIDE DEF t, r
    <3> QED BY <2>1, <3>1, <3>2, <3>3, <3>4
  <2>3. CASE Put(i, [r EXCEPT !.ack = "done", !.mute = TRUE])
    <3> DEFINE t == [r EXCEPT !.ack = "done", !.mute = TRUE]
    <3>2. Put(i, t)
      BY <2>3
    <3>3. /\ t \in JobRecs /\ t.kind = r.kind /\ t.pid = r.pid /\ t.epoch = r.epoch
          /\ t.ask = r.ask /\ t.waits = r.waits /\ t.ack = "done" /\ t.started = r.started
          /\ t.phase = r.phase /\ t.busy = r.busy /\ t.out = r.out
      BY <1>a, <2>w DEF JobRecs
    <3>4. Len(t.out) \in Nat /\ Len(t.out) <= Len(r.out) + 1 /\ \A n \in DOMAIN t.out : t.out[n] # "answer"
      BY <3>3, <1>b, <2>0 DEF Spoke
    <3> HIDE DEF t, r
    <3> QED BY <2>1, <3>2, <3>3, <3>4
  <2> QED BY <1>2, <2>2, <2>3 DEF DeliverAck
<1>3. CASE NoAck(i)
  <2>1. /\ r.phase = "answer" /\ r.ack = "pending" /\ Put(i, [r EXCEPT !.ack = "done"])
    BY <1>3 DEF NoAck
  <2>2. "done" \in AckStates
    BY DEF AckStates
  <2>3. [r EXCEPT !.ack = "done"] = [r EXCEPT !.started = r.started, !.ack = "done"]
    BY <1>a DEF JobRecs
  <2> QED BY <2>1, <2>2, <2>3, <1>a, <1>c
<1>4. CASE ResponseStarted(i)
  <2> DEFINE ack == IF r.ack = "pending" THEN "done" ELSE r.ack
  <2>1. r.phase = "answer" /\ ~r.started /\ Put(i, [r EXCEPT !.started = TRUE, !.ack = ack])
    BY <1>4 DEF ResponseStarted
  <2>2. ack \in AckStates /\ ack # "pending" /\ (ack = "committed" => r.ack = "committed")
    BY <1>a DEF AckStates
  <2> HIDE DEF ack
  <2> QED BY <2>1, <2>2, <1>c
<1>5. CASE Speak(i)
  <2> DEFINE o == Append(r.out, "answer")
             t == [r EXCEPT !.out = o]
  <2>0. /\ r.phase = "answer" /\ r.started /\ r.ack # "committed" /\ Put(i, t)
        /\ \A n \in DOMAIN r.out : r.out[n] # "answer"
    BY <1>5 DEF Speak
  <2>1. ~Spoke(r) /\ AnswerDue(r) = 1 /\ r.ack # "pending" /\ AckDue(r) = 0
    BY <2>0, <1>b DEF Spoke, AnswerDue, AckDue
  <2>2. "answer" \in Words
    BY DEF Words
  <2>3. o \in Seq(Words) /\ Len(o) = Len(r.out) + 1 /\ \A m, n \in DOMAIN o : m < n => o[m] # "answer"
    BY <1>a, <2>0, <2>2, Adding
  <2>4. \E n \in DOMAIN o : o[n] = "answer"
    <3>1. Len(r.out) + 1 \in DOMAIN o /\ o[Len(r.out) + 1] = "answer"
      BY <1>a, <1>b, AppendProperties
    <3> QED BY <3>1
  <2> HIDE DEF o
  <2>5. /\ t \in JobRecs /\ t.kind = r.kind /\ t.pid = r.pid /\ t.epoch = r.epoch
        /\ t.ask = r.ask /\ t.waits = r.waits /\ t.ack = r.ack /\ t.started = r.started
        /\ t.phase = "answer" /\ t.busy = r.busy /\ t.out = o
    BY <1>a, <2>0, <2>3 DEF JobRecs
  <2> HIDE DEF t
  <2>6. Spoke(t) /\ AnswerDue(t) = 0 /\ AckDue(t) = 0
    BY <2>1, <2>0, <2>4, <2>5 DEF Spoke, AnswerDue, AckDue
  <2>7. /\ Len(t.out) + AckDue(t) + AnswerDue(t) <= 3
        /\ t.started \/ t.phase \in {"closing", "handover"} => t.ack # "pending"
        /\ t.phase = "handover" => t.ack # "committed"
        /\ Spoke(t) => t.started /\ t.ack # "committed"
        /\ \A m, n \in DOMAIN t.out : m < n => t.out[m] # "answer"
        /\ t.phase \in Answers
    BY <1>b, <2>0, <2>1, <2>3, <2>5, <2>6 DEF Answers
  <2> HIDE DEF r
  <2>8. Follows(r, t) /\ (Shines(t) => Shines(r))
    BY <1>a, <1>b, <2>5, <2>7, AnswerFollows
  <2> QED BY <2>0, <2>8, <1>s
<1>6. ASSUME NEW result \in {"answer", "focus", "release", "failed", "cancelled"}, NEW text \in BOOLEAN,
             Answered(i, result, text)
      PROVE  AInv'
  <2> DEFINE ack == IF r.ack = "pending" THEN "done" ELSE r.ack
             ask == IF r.ask = "asked" THEN "taken" ELSE r.ask
             t == [r EXCEPT !.phase = "closing", !.result = result, !.text = text, !.ask = ask, !.ack = ack]
  <2>1. r.phase = "answer" /\ Put(i, t)
    BY <1>6 DEF Answered
  <2>2. /\ ack \in AckStates /\ ack # "pending" /\ (ack = "committed" => r.ack = "committed")
        /\ ask \in Asks /\ (ask = "no" <=> r.ask = "no") /\ "closing" \in Phases /\ result \in Results
    BY <1>a DEF AckStates, Asks, Phases, Results, JobRecs
  <2> HIDE DEF ack, ask
  <2>3. /\ t \in JobRecs /\ t.kind = r.kind /\ t.pid = r.pid /\ t.epoch = r.epoch
        /\ t.ask = ask /\ t.waits = r.waits /\ t.ack = ack /\ t.started = r.started
        /\ t.phase = "closing" /\ t.busy = r.busy /\ t.out = r.out
    BY <1>a, <2>2 DEF JobRecs
  <2> HIDE DEF t
  <2>4. (Spoke(t) <=> Spoke(r)) /\ AnswerDue(t) = AnswerDue(r) /\ AnswerDue(r) \in Nat
    BY <2>3 DEF Spoke, AnswerDue
  <2>5. AckDue(t) <= AckDue(r) /\ AckDue(t) \in Nat /\ AckDue(r) \in Nat
    BY <2>2, <2>3 DEF AckDue
  <2>6. /\ Len(t.out) + AckDue(t) + AnswerDue(t) <= 3
        /\ t.started \/ t.phase \in {"closing", "handover"} => t.ack # "pending"
        /\ t.phase = "handover" => t.ack # "committed"
        /\ Spoke(t) => t.started /\ t.ack # "committed"
        /\ \A m, n \in DOMAIN t.out : m < n => t.out[m] # "answer"
        /\ t.phase \in Answers
    BY <1>b, <2>1, <2>2, <2>3, <2>4, <2>5 DEF Answers
  <2> HIDE DEF r
  <2>7. Follows(r, t) /\ (Shines(t) => Shines(r))
    BY <1>a, <1>b, <2>2, <2>3, <2>6, AnswerFollows
  <2> QED BY <2>1, <2>7, <1>s
<1> QED BY <1>1, <1>2, <1>3, <1>4, <1>5, <1>6

\* The result of an answer takes effect.
LEMMA ClosingSteps ==
  ASSUME AInv, NEW i \in Jobs, Close(i) \/ HandedOver(i)
  PROVE  AInv'
<1> DEFINE r == job[i]
           p == r.pid
<1>0. job[i].phase \in {"closing", "handover"} /\ job[i].phase \notin Asleep
      /\ job[i].phase \in Answers /\ r.ack # "committed"
  <2>1. job[i].phase \in {"closing", "handover"} /\ (job[i].phase = "closing" => r.ack # "committed")
    BY DEF Close, HandedOver, Resumes
  <2>2. Sane(job[i])
    BY DEF AInv
  <2> QED BY <2>1, <2>2 DEF Asleep, Answers, Sane, Terse
<1>a. AtWork(r) /\ p \in Pids /\ r \in JobRecs /\ r.dest \in Dests \cup {None} /\ r.result \in Results
  BY <1>0, AtAwait DEF JobRecs
<1>k. /\ r.kind # "join" /\ r.waits = {} /\ Len(r.out) \in Nat
      /\ Len(r.out) + AckDue(r) + AnswerDue(r) <= 3
      /\ r.ack # "pending"
      /\ Spoke(r) => r.started /\ r.ack # "committed"
      /\ \A m, n \in DOMAIN r.out : m < n => r.out[m] # "answer"
  BY <1>0, <1>a, AnswerIs
<1>b. Follows(r, Leaving(r)) /\ ~Shines(Leaving(r))
  BY <1>a, Leaves
<1>t. /\ focus \in [Pids -> Dests \cup {None}] /\ used \in [Pids -> SUBSET Dests]
      /\ owns \in [Pids -> SUBSET Dests] /\ owns[p] \subseteq used[p]
  BY <1>a DEF AInv, Types, Kept
<1>u. UNCHANGED <<gen, turnFrame, used, outside>>
  BY DEF Close, HandedOver
<1>1. ASSUME NEW t, Put(i, t), Follows(r, t), Shines(t) => Shines(r), Remember(i) \/ UNCHANGED hist,
             \/ UNCHANGED focus
             \/ \E d \in Dests \cup {None} : focus' = [focus EXCEPT ![p] = d]
      PROVE  AInv'
  <2>1. focus' \in [Pids -> Dests \cup {None}] /\ \A o \in Pids \ {p} : focus'[o] = focus[o]
    BY <1>1, <1>a, <1>t
  <2>2. Work(i, t)
    BY <1>1, <1>a, <1>k, <1>t, <1>u, <2>1 DEF Work, turnFrame, outside, admissionVars
  <2> QED BY <2>2, WorkKeeps
<1>2. CASE Close(i)
  <2>1. CASE Put(i, Failing(i, r)) /\ UNCHANGED <<focus, hist>>
    <3>1. Follows(r, Failing(i, r)) /\ (Shines(Failing(i, r)) => r.busy)
      <4>1. r.phase # "failure" /\ r.ack \notin {"pending", "committed"}
        BY <1>0, <1>k
      <4> QED BY <1>a, <1>k, <4>1, FailingFollows
    <3>2. Shines(Failing(i, r)) => Shines(r)
      BY <3>1, <1>0 DEF Shines
    <3> QED BY <2>1, <3>1, <3>2, <1>1
  <2>2. CASE Put(i, Leaving(r)) /\ UNCHANGED <<focus, hist>>
    BY <2>2, <1>b, <1>1
  <2>3. ASSUME NEW then \in {"focus", "release"}, Put(i, [r EXCEPT !.phase = "handover", !.then = then]), UNCHANGED hist,
               UNCHANGED focus \/ focus' = [focus EXCEPT ![p] = r.dest]
        PROVE  AInv'
    <3> DEFINE t == [r EXCEPT !.phase = "handover", !.then = then]
    <3>1. "handover" \in Phases /\ then \in Thens
      BY DEF Phases, Thens
    <3>2. /\ t \in JobRecs /\ t.kind = r.kind /\ t.pid = r.pid /\ t.epoch = r.epoch
          /\ t.ask = r.ask /\ t.waits = r.waits /\ t.ack = r.ack /\ t.started = r.started
          /\ t.phase = "handover" /\ t.busy = r.busy /\ t.out = r.out
      BY <1>a, <3>1 DEF JobRecs
    <3> HIDE DEF t
    <3>3. (Spoke(t) <=> Spoke(r)) /\ AnswerDue(t) = AnswerDue(r) /\ AckDue(t) = AckDue(r)
      BY <3>2 DEF Spoke, AnswerDue, AckDue
    <3>4. /\ Len(t.out) + AckDue(t) + AnswerDue(t) <= 3
          /\ t.started \/ t.phase \in {"closing", "handover"} => t.ack # "pending"
          /\ t.phase = "handover" => t.ack # "committed"
          /\ Spoke(t) => t.started /\ t.ack # "committed"
          /\ \A m, n \in DOMAIN t.out : m < n => t.out[m] # "answer"
          /\ t.phase \in Answers
      BY <1>0, <1>k, <3>2, <3>3 DEF Answers
    <3>5. Follows(r, t) /\ (Shines(t) => Shines(r))
      <4>1. r.phase \in Answers /\ (t.ask = "no" <=> r.ask = "no")
        BY <1>0, <3>2
      <4> HIDE DEF r
      <4> QED BY <4>1, <1>a, <3>2, <3>4, AnswerFollows
    <3>6. UNCHANGED focus \/ \E d \in Dests \cup {None} : focus' = [focus EXCEPT ![p] = d]
      BY <2>3, <1>a
    <3>7. Put(i, t)
      BY <2>3 DEF t
    <3> HIDE DEF r, p
    <3> QED BY <2>3, <3>5, <3>6, <3>7, <1>1
  <2>4. ASSUME Put(i, Leaving(r)), Remember(i) \/ UNCHANGED hist, UNCHANGED focus \/ focus' = [focus EXCEPT ![p] = r.dest]
        PROVE  AInv'
    <3>1. UNCHANGED focus \/ \E d \in Dests \cup {None} : focus' = [focus EXCEPT ![p] = d]
      BY <2>4, <1>a
    <3> QED BY <2>4, <3>1, <1>b, <1>1
  <2>5. \/ (Put(i, Failing(i, r)) \/ Put(i, Leaving(r))) /\ UNCHANGED <<focus, hist>>
        \/ /\ r.result \notin {"cancelled", "failed"}
           /\ UNCHANGED focus \/ focus' = [focus EXCEPT ![p] = r.dest]
           /\ \/ /\ r.result = "focus" \/ r.result = "release"
                 /\ Put(i, [r EXCEPT !.phase = "handover", !.then = r.result]) /\ UNCHANGED hist
              \/ Put(i, Leaving(r)) /\ (Remember(i) \/ UNCHANGED hist)
    BY <1>2, Zenon DEF Close, Conclude
  <2> HIDE DEF r, p
  <2> QED BY <2>1, <2>2, <2>3, <2>4, <2>5
<1>3. CASE HandedOver(i)
  <2>1. /\ Put(i, Leaving(r)) /\ (Remember(i) \/ UNCHANGED hist)
        /\ UNCHANGED focus \/ focus' = [focus EXCEPT ![p] = None]
    BY <1>3 DEF HandedOver, Conclude
  <2>2. UNCHANGED focus \/ \E d \in Dests \cup {None} : focus' = [focus EXCEPT ![p] = d]
    BY <2>1
  <2> QED BY <2>1, <2>2, <1>b, <1>1
<1> QED BY <1>2, <1>3

\* Failures and cancellations.
LEMMA FailureSteps ==
  ASSUME AInv, NEW i \in Jobs, FailureTold(i) \/ Fail(i) \/ Cancelled(i) \/ Ignore(i)
  PROVE  AInv'
<1> DEFINE r == job[i]
<1>0. job[i].phase \notin Asleep /\ UNCHANGED <<gen, turnFrame, table, outside>>
  BY DEF FailureTold, Fail, Cancelled, Ignore, Resumes, Asleep
<1>a. AtWork(r) /\ r \in JobRecs
  BY <1>0, AtAwait
<1>b. Follows(r, Leaving(r)) /\ ~Shines(Leaving(r))
  BY <1>a, Leaves
<1>s. \A t : Follows(r, t) /\ (Shines(t) => Shines(r)) /\ Put(i, t) => AInv'
  BY <1>0, <1>a, PlainWork
<1>1. CASE FailureTold(i)
  BY <1>1, <1>b, <1>s DEF FailureTold
<1>2. CASE Fail(i)
  <2> DEFINE told == r.phase \in {"clarify", "told", "preamble"}
             q == [r EXCEPT !.mute = r.mute \/ told]
  <2>1. CASE r.kind = "join"
    BY <1>2, <2>1, <1>b, <1>s DEF Fail
  <2>2. CASE r.kind # "join"
    <3>1. Put(i, Failing(i, q))
      BY <1>2, <2>2 DEF Fail
    <3>2. r.phase \in {"clarify", "told", "preamble", "hook", "unfocus", "select", "admit", "release", "letgo", "handover"}
      BY <1>2 DEF Fail
    <3>3. (r.mute \/ told) \in BOOLEAN
      OBVIOUS
    <3>4. /\ q \in JobRecs /\ q.kind = r.kind /\ q.pid = r.pid /\ q.epoch = r.epoch
          /\ q.ask = r.ask /\ q.phase = r.phase /\ q.busy = r.busy /\ q.waits = r.waits /\ q.last = r.last
          /\ q.text = r.text /\ q.then = r.then /\ q.started = r.started /\ q.ack = r.ack /\ q.out = r.out
          /\ q.dest = r.dest
      <4> HIDE DEF told
      <4> QED BY <1>a, <3>3 DEF JobRecs
    <3> HIDE DEF q
    <3>5. AtWork(q) /\ Follows(r, q) /\ (Shines(q) => Shines(r))
      <4> HIDE DEF r
      <4> QED BY <1>a, <3>4, SameSane
    <3>6. q.phase # "failure" /\ q.ack \notin {"pending", "committed"}
      BY <1>a, <3>2, <3>4 DEF AtWork, Sane, Terse, Answers
    <3>7. Follows(q, Failing(i, q)) /\ (Shines(Failing(i, q)) => q.busy)
      BY <2>2, <3>4, <3>5, <3>6, FailingFollows
    <3>8. Shines(Failing(i, q)) => Shines(r)
      BY <3>2, <3>4, <3>7 DEF Shines
    <3>9. Follows(r, Failing(i, q))
      BY <3>5, <3>7, FollowsOn
    <3> QED BY <3>1, <3>8, <3>9, <1>s
  <2> QED BY <2>1, <2>2
<1>3. CASE Cancelled(i)
  <2> DEFINE q == [r EXCEPT !.ask = "taken"]
  <2>1. r.ask = "asked" /\ Put(i, Leaving(q))
    BY <1>3 DEF Cancelled
  <2>2. "taken" \in Asks
    BY DEF Asks
  <2>3. q \in JobRecs /\ q.kind = r.kind /\ q.pid = r.pid /\ q.epoch = r.epoch /\ q.ask = "taken"
        /\ q.busy = r.busy
    BY <1>a, <2>2 DEF JobRecs
  <2>4. r.pid \in Pids /\ r.kind # "none" /\ (r.kind = "join" => ~r.busy)
    BY <1>a DEF AtWork, Sane, Asleep
  <2> HIDE DEF q, r
  <2>5. AtWork(Leaving(q)) /\ ~Shines(Leaving(q))
    BY <2>3, <2>4, LeavingFollows
  <2>6. Follows(r, Leaving(q))
    BY <2>1, <2>3, <2>5, LeavingIs DEF Follows
  <2> QED BY <2>1, <2>5, <2>6, <1>s
<1>4. CASE Ignore(i)
  <2> DEFINE t == [r EXCEPT !.ask = "taken"]
  <2>1. r.ask = "asked" /\ r.phase \notin {"clarify", "told"} /\ Put(i, t)
    BY <1>4 DEF Ignore
  <2>2. Follows(r, t) /\ (Shines(t) => Shines(r))
    BY <1>a, <2>1, TakenFollows
  <2> HIDE DEF t
  <2> QED BY <2>1, <2>2, <1>s
<1> QED BY <1>1, <1>2, <1>3, <1>4

-----------------------------------------------------------------------------
(* Calls that wait. *)

Interrupting == [Idle EXCEPT !.phase = "interrupt"]

\* The records of departures and shutdowns.
LEMMA DepartureRecs ==
  /\ Idle \in Departures /\ Interrupting \in Departures /\ Running \in Shutdowns
  /\ Idle.phase = "none" /\ Interrupting.phase = "interrupt" /\ Running.phase = "none"
<1>1. {} \in SUBSET Jobs /\ {} \in SUBSET Dests /\ {} \in SUBSET Pids /\ 0 \in Nat /\ FALSE \in BOOLEAN
  OBVIOUS
<1>2. Idle \in Departures /\ Idle.phase = "none"
  BY <1>1 DEF Idle, Departures, DepPhases
<1>3. Interrupting \in Departures /\ Interrupting.phase = "interrupt"
  BY <1>1 DEF Interrupting, Idle, Departures, DepPhases
<1>4. Running \in Shutdowns /\ Running.phase = "none"
  BY <1>1 DEF Running, Shutdowns, StopPhases
<1> QED BY <1>2, <1>3, <1>4

\* A job that is over, and a new one.
LEMMA OverIs ==
  ASSUME NEW r \in JobRecs, r.pid \in Pids, r.kind # "none"
  PROVE  /\ Over(r) \in JobRecs /\ Sane(Over(r)) /\ Over(r).kind = r.kind /\ Over(r).pid = r.pid
         /\ Over(r).phase = "over" /\ Over(r).epoch = r.epoch
<1> DEFINE t == Over(r)
<1>1. "over" \in Phases /\ Blank \in JobRecs
  <2>1. <<>> \in Seq(Words) /\ {} \in SUBSET Jobs
    OBVIOUS
  <2> QED BY <2>1 DEF Blank, JobRecs, Phases, JobKinds, Asks, Thens, AckStates, Results
<1>2. /\ r.kind \in JobKinds /\ r.pid \in Pids \cup {None} /\ r.epoch \in Nat
  BY DEF JobRecs
<1>3. t \in JobRecs
  BY <1>1, <1>2 DEF Over, JobRecs
<1>4. /\ t.kind = r.kind /\ t.pid = r.pid /\ t.phase = "over" /\ t.epoch = r.epoch
      /\ t.waits = {} /\ t.out = <<>> /\ t.ack = "off" /\ t.started = FALSE /\ t.busy = FALSE /\ t.ask = "no"
  BY DEF Over, Blank
<1> HIDE DEF t
<1>5. ~Spoke(t) /\ \A m, n \in DOMAIN t.out : m < n => t.out[m] # "answer"
  BY <1>4 DEF Spoke
<1>6. Terse(t)
  BY <1>4, <1>5 DEF Terse, Asleep, Early, Deciding, Telling, Answers
<1>7. Sane(t)
  BY <1>4, <1>6 DEF Sane, Asleep
<1> QED BY <1>3, <1>4, <1>7 DEF t

\* A call that is made, and waits for the participant's lock or departure.
Calling(i, kind, p, phase, lock) == [New(i, kind, p) EXCEPT !.phase = phase, !.lock = lock]

Called(t, kind, p, phase, lock) ==
  /\ t \in JobRecs /\ Sane(t) /\ t.kind = kind /\ t.pid = p /\ t.phase = phase
  /\ t.lock = lock /\ t.epoch = epoch[p] /\ t.life = life

\* The fields of a call that is made.
LEMMA NewIs ==
  ASSUME AInv, NEW i, NEW kind \in {"query", "direct", "join"}, NEW p \in Pids,
         NEW n, n = New(i, kind, p)
  PROVE  n \in JobRecs /\ n.kind = kind /\ n.pid = p /\ n.lock = 0
<1>1. /\ Blank \in JobRecs /\ kind \in JobKinds /\ epoch[p] \in Nat /\ life \in Nat
  <2>1. <<>> \in Seq(Words) /\ {} \in SUBSET Jobs
    OBVIOUS
  <2> QED BY <2>1 DEF Blank, JobRecs, Phases, JobKinds, Asks, Thens, AckStates, Results, AInv, Types
<1>2. New(i, kind, p) \in JobRecs
  BY <1>1 DEF New, JobRecs
<1> QED BY <1>2 DEF New, Blank

\* A call that is made waits.
LEMMA CallingIs ==
  ASSUME AInv, NEW i, NEW kind \in {"query", "direct", "join"}, NEW p \in Pids,
         NEW phase \in {"queued", "waitdep"}, phase = "waitdep" => kind = "join", NEW lock \in Nat,
         NEW t, t = Calling(i, kind, p, phase, lock)
  PROVE  Called(t, kind, p, phase, lock)
<1> DEFINE n == New(i, kind, p)
<1>1. /\ n \in JobRecs /\ n.kind = kind /\ n.pid = p /\ n.epoch = epoch[p] /\ n.life = life
      /\ n.waits = {} /\ n.out = <<>> /\ n.ack = "off" /\ n.started = FALSE /\ n.busy = FALSE
      /\ n.ask = "no"
  <2>1. n \in JobRecs
    BY NewIs
  <2> QED BY <2>1 DEF New, Blank
<1>2. phase \in Phases
  BY DEF Phases
<1>3. t = [n EXCEPT !.phase = phase, !.lock = lock]
  BY DEF Calling
<1> HIDE DEF n
<1>4. /\ t \in JobRecs /\ t.kind = kind /\ t.pid = p /\ t.epoch = epoch[p] /\ t.life = life
      /\ t.phase = phase /\ t.lock = lock
      /\ t.waits = {} /\ t.out = <<>> /\ t.ack = "off" /\ t.started = FALSE /\ t.busy = FALSE /\ t.ask = "no"
  BY ZenonT(40), <1>1, <1>2, <1>3 DEF JobRecs
<1>5. ~Spoke(t) /\ \A l, m \in DOMAIN t.out : l < m => t.out[l] # "answer"
  BY <1>4 DEF Spoke
<1>6. Terse(t)
  BY <1>4, <1>5 DEF Terse, Asleep, Early, Deciding, Telling, Answers
<1>7. Sane(t)
  BY <1>4, <1>6 DEF Sane, Asleep
<1> QED BY <1>4, <1>7 DEF Called

\* A call that waits, or comes to an end, changes nothing else.
LEMMA SleeperKeeps ==
  ASSUME AInv, NEW i \in Jobs, NEW t \in JobRecs, job[i].phase \in Asleep, Put(i, t),
         Sane(t), t.phase \in Asleep, t.phase \notin {"unborn", "draining"},
         job[i].phase = "unborn" \/ t.epoch = job[i].epoch,
         UNCHANGED <<gen, task, joining, table, ready, epoch, life, stop, outside>>,
         departed' \subseteq departed,
         locks' \in [Pids -> [n : Nat, made : BOOLEAN]], \A p \in Pids : locks'[p].n = locks[p].n,
         \/ UNCHANGED dep
         \/ \E p \in Pids : dep[p].phase = "failed" /\ dep' = [dep EXCEPT ![p] = Interrupting],
         Waits(i)' => Waiter(i)'
  PROVE  AInv'
<1>a. Types /\ (\A j \in Jobs : Sane(job[j])) /\ Tables /\ Waiters /\ Ended /\ Kept /\ Present /\ Lit
  BY DEF AInv
<1>w. /\ job' = [job EXCEPT ![i] = t] /\ gen' = gen /\ task' = task /\ joining' = joining
      /\ focus' = focus /\ used' = used /\ hist' = hist /\ ready' = ready /\ epoch' = epoch
      /\ life' = life /\ stop' = stop /\ owns' = owns /\ shown' = shown /\ budget' = budget
  BY DEF Put, table, outside
<1>1. /\ job' \in [Jobs -> JobRecs] /\ job'[i] = t
      /\ \A j \in Jobs : (j # i => job'[j] = job[j]) /\ Sane(job'[j])
  BY <1>a, <1>w DEF Types
<1>2. \A j \in Jobs : Live(j) => j # i /\ job'[j] = job[j] /\ Live(j)'
  BY <1>1 DEF Live, Asleep
<1>3. \A j \in Jobs : Live(j)' => j # i /\ job'[j] = job[j] /\ Live(j)
  BY <1>1 DEF Live, Asleep
<1>d. /\ dep' \in [Pids -> Departures]
      /\ \A p \in Pids : \/ dep'[p] = dep[p]
                         \/ dep[p].phase = "failed" /\ dep'[p].phase = "interrupt"
  <2>1. CASE UNCHANGED dep
    BY <2>1, <1>a DEF Types
  <2>2. ASSUME NEW p \in Pids, dep[p].phase = "failed", dep' = [dep EXCEPT ![p] = Interrupting]
        PROVE  /\ dep' \in [Pids -> Departures]
               /\ \A o \in Pids : \/ dep'[o] = dep[o]
                                  \/ dep[o].phase = "failed" /\ dep'[o].phase = "interrupt"
    BY <2>2, <1>a, DepartureRecs DEF Types
  <2> QED BY <2>1, <2>2
<1>4. Types'
  BY <1>a, <1>w, <1>1, <1>d DEF Types
<1>5. Tables'
  <2>1. ASSUME NEW o \in Pids
        PROVE  /\ task'[o] # 0 => Live(task[o])' /\ job'[task[o]].pid = o /\ job'[task[o]].kind # "join"
               /\ joining'[o] # 0 =>
                    Live(joining[o])' /\ job'[joining[o]].pid = o /\ job'[joining[o]].kind = "join"
               /\ gen'[o] \in {0, task'[o]}
    <3>1. /\ task[o] # 0 => task[o] \in Jobs /\ Live(task[o]) /\ job[task[o]].pid = o /\ job[task[o]].kind # "join"
          /\ joining[o] # 0 => joining[o] \in Jobs /\ Live(joining[o]) /\ job[joining[o]].pid = o
                                 /\ job[joining[o]].kind = "join"
          /\ gen[o] \in {0, task[o]}
      BY <1>a DEF Tables, Types, Jobs
    <3> QED BY <3>1, <1>w, <1>2
  <2>2. ASSUME NEW j \in Jobs, Live(j)'
        PROVE  IF job'[j].kind = "join" THEN joining'[job'[j].pid] = j
               ELSE task'[job'[j].pid] = j /\ (gen'[job'[j].pid] = j <=> job'[j].ask = "no")
    BY <2>2, <1>a, <1>w, <1>3 DEF Tables
  <2> QED BY <2>1, <2>2, <1>w DEF Tables
<1>6. Waiters'
  <2>1. ASSUME NEW j \in Jobs, Waits(j)' PROVE Waiter(j)'
    <3>1. CASE j = i
      BY <2>1, <3>1
    <3>2. CASE j # i
      <4>1. Waiter(j) /\ job'[j] = job[j] /\ job[j].pid \in Pids
        BY <2>1, <3>2, <1>a, <1>1 DEF Waiters, Waits, Sane
      <4>2. TasksOf({job[j].pid})' = TasksOf({job[j].pid}) /\ (Fresh(j)' <=> Fresh(j))
        BY <4>1, <1>w DEF TasksOf, Fresh
      <4>3. dep[job[j].pid].phase = "none" => dep'[job[j].pid].phase = "none"
        BY <4>1, <1>d
      <4>4. locks'[job[j].pid].n = locks[job[j].pid].n
        BY <4>1
      <4> QED BY <4>1, <4>2, <4>3, <4>4, <1>w DEF Waiter
    <3> QED BY <3>1, <3>2
  <2>2. ASSUME NEW j \in Jobs, NEW k \in Jobs, SameLock(j, k)' PROVE j = k
    <3>1. j # i /\ k # i
      BY <2>2, <1>1 DEF SameLock
    <3>2. SameLock(j, k)
      BY <2>2, <3>1, <1>1 DEF SameLock
    <3> QED BY <3>2, <1>a DEF Waiters
  <2> QED BY <2>1, <2>2 DEF Waiters
<1>7. Ended'
  BY <1>a, <1>w, <1>d DEF Ended, TasksOf
<1>8. Kept'
  <2>1. ASSUME NEW o \in Pids, hist[o] # None, NEW n \in DOMAIN hist[o]
        PROVE  job'[hist[o][n]].phase # "unborn"
    <3>1. hist[o][n] \in Jobs /\ job[hist[o][n]].phase # "unborn"
      BY <2>1, <1>a, ElementOfSeq, LenProperties DEF Kept, Types
    <3> QED BY <3>1, <1>1
  <2>2. \A o \in Pids : dep'[o].phase = "cleaning" =>
          focus'[o] = None /\ hist'[o] = None /\ (~dep'[o].bad => used'[o] \subseteq dep'[o].todo)
    BY <1>a, <1>w, <1>d DEF Kept
  <2>3. \A o \in departed' : dep'[o].phase = "none" /\ stop'.phase = "none" =>
         /\ task'[o] = 0 /\ joining'[o] = 0
         /\ focus'[o] = None /\ used'[o] = {} /\ hist'[o] = None /\ o \notin ready'
    <3>1. departed' \subseteq Pids
      BY <1>a DEF Types
    <3> QED BY <3>1, <1>a, <1>w, <1>d DEF Kept
  <2>4. stop'.phase = "leaving" /\ ~stop'.bad =>
         \A p \in Pids \ stop'.todo : p # stop'.at \/ dep'[p].phase = "none" => hist'[p] = None
    BY <1>a, <1>w, <1>d DEF Kept
  <2>5. \A o \in Pids : owns'[o] \subseteq used'[o]
    BY <1>a, <1>w DEF Kept
  <2> QED BY <2>1, <2>2, <2>3, <2>4, <2>5, <1>w DEF Kept
<1>9. Present'
  <2> SUFFICES ASSUME NEW o \in Pids, dep'[o].phase = "none", stop'.phase = "none"
               PROVE  /\ task'[o] # 0 => job'[task'[o]].epoch = epoch'[o]
                      /\ hist'[o] # None => \A n \in DOMAIN hist'[o] : job'[hist'[o][n]].epoch = epoch'[o]
    BY DEF Present
  <2>1. dep[o].phase = "none" /\ stop.phase = "none"
    BY <1>d, <1>w
  <2>2. task[o] # 0 => task[o] \in Jobs /\ Live(task[o]) /\ job[task[o]].epoch = epoch[o]
    BY <1>a, <2>1 DEF Present, Types, Jobs, Tables
  <2>3. ASSUME hist[o] # None, NEW n \in DOMAIN hist[o] PROVE job'[hist[o][n]].epoch = epoch[o]
    <3>1. hist[o][n] \in Jobs /\ job[hist[o][n]].phase # "unborn" /\ job[hist[o][n]].epoch = epoch[o]
      BY SMTT(30), <2>1, <2>3, <1>a, ElementOfSeq, LenProperties DEF Kept, Types, Present
    <3> QED BY <3>1, <1>1
  <2> QED BY <2>2, <2>3, <1>2, <1>w
<1>10. Lit'
  BY <1>a, <1>w, <1>3 DEF Lit
<1> QED BY <1>1, <1>4, <1>5, <1>6, <1>7, <1>8, <1>9, <1>10 DEF AInv

\* A call comes to an end without having run.
LEMMA OverKeeps ==
  ASSUME AInv, NEW i \in Jobs, NEW r \in JobRecs, r.pid \in Pids, r.kind # "none",
         job[i].phase \in Asleep, Put(i, Over(r)), job[i].phase = "unborn" \/ r.epoch = job[i].epoch,
         UNCHANGED <<gen, task, joining, table, ready, epoch, life, locks, dep, stop, outside>>,
         departed' \subseteq departed
  PROVE  AInv'
<1> DEFINE t == Over(r)
<1>1. /\ t \in JobRecs /\ Sane(t) /\ t.phase = "over" /\ t.epoch = r.epoch /\ Put(i, t)
  BY OverIs
<1> HIDE DEF t
<1>2. t.phase \in Asleep /\ t.phase \notin {"unborn", "draining"}
  BY <1>1 DEF Asleep
<1>3. ~Waits(i)'
  <2>1. job'[i] = t
    BY <1>1 DEF AInv, Types, Put
  <2> QED BY <1>1, <2>1 DEF Waits
<1>4. locks' \in [Pids -> [n : Nat, made : BOOLEAN]] /\ \A p \in Pids : locks'[p].n = locks[p].n
  BY DEF AInv, Types
<1> QED BY <1>1, <1>2, <1>3, <1>4, SleeperKeeps

\* A lock that is asked for stays the same lock.
LEMMA HasLockIs ==
  ASSUME AInv, NEW p \in Pids, HasLock(p)
  PROVE  locks' \in [Pids -> [n : Nat, made : BOOLEAN]] /\ \A o \in Pids : locks'[o].n = locks[o].n
<1>1. locks \in [Pids -> [n : Nat, made : BOOLEAN]]
  BY DEF AInv, Types
<1>2. [locks[p] EXCEPT !.made = TRUE] \in [n : Nat, made : BOOLEAN]
      /\ [locks[p] EXCEPT !.made = TRUE].n = locks[p].n
  BY <1>1
<1> QED BY <1>1, <1>2, Zenon DEF HasLock

\* _submit() and _participant_joined(), up to the lock.
LEMMA CallSteps ==
  ASSUME AInv, NEW i \in Jobs, NEW p \in Pids,
         JoinCall(i, p) \/ \E kind \in Kinds : Submit(i, kind, p)
  PROVE  AInv'
<1>a. /\ job \in [Jobs -> JobRecs] /\ locks \in [Pids -> [n : Nat, made : BOOLEAN]] /\ locks[p].n \in Nat
      /\ dep \in [Pids -> Departures] /\ dep[p].phase \in DepPhases
  BY DEF AInv, Types, Departures
<1>b. job[i].phase = "unborn" /\ job[i].phase \in Asleep
  BY DEF JoinCall, Submit, NextJob, Asleep
<1>n. 0 \in Nat /\ locks' \in {locks'} /\ "queued" \in {"queued", "waitdep"} /\ "waitdep" \in {"queued", "waitdep"}
      /\ "queued" # "waitdep" /\ "join" \in {"query", "direct", "join"}
  OBVIOUS
<1>1. ASSUME NEW kind \in {"query", "direct", "join"},
             Put(i, Over(New(i, kind, p))),
             UNCHANGED <<gen, task, joining, table, ready, departed, epoch, life, locks, dep, stop, outside>>
      PROVE  AInv'
  <2> DEFINE r == New(i, kind, p)
  <2>1. r \in JobRecs /\ r.kind = kind /\ r.pid = p
    BY <1>n, NewIs
  <2>2. r.kind # "none"
    BY <2>1
  <2> HIDE DEF r
  <2>3. Put(i, Over(r)) /\ departed' \subseteq departed
    BY <1>1 DEF r
  <2> QED BY <1>1, <1>b, <2>1, <2>2, <2>3, OverKeeps
<1>2. ASSUME NEW kind \in {"query", "direct", "join"}, stop.phase = "none", dep[p].phase = "none",
             Put(i, [New(i, kind, p) EXCEPT !.phase = "queued", !.lock = locks[p].n]), HasLock(p),
             UNCHANGED <<gen, task, joining, table, ready, departed, epoch, life, dep, stop, outside>>
      PROVE  AInv'
  <2> DEFINE t == Calling(i, kind, p, "queued", locks[p].n)
  <2>1. /\ t \in JobRecs /\ Sane(t) /\ t.kind = kind /\ t.pid = p /\ t.phase = "queued"
        /\ t.lock = locks[p].n /\ t.epoch = epoch[p] /\ t.life = life
    <3> DEFINE l == locks[p].n
    <3>1. l \in Nat /\ t = Calling(i, kind, p, "queued", l)
      BY <1>a
    <3> HIDE DEF l, t
    <3>2. Called(t, kind, p, "queued", l)
      BY <3>1, <1>n, CallingIs
    <3> QED BY <3>2 DEF Called, l
  <2> HIDE DEF t
  <2>2. Put(i, t) /\ job'[i] = t
    BY <1>2, <1>a DEF Put, t, Calling
  <2>3. locks' \in [Pids -> [n : Nat, made : BOOLEAN]] /\ \A o \in Pids : locks'[o].n = locks[o].n
    BY <1>2, HasLockIs
  <2>4. Waiter(i)'
    <3>1. epoch[p] \in Nat /\ life \in Nat
      BY DEF AInv, Types
    <3> QED BY <1>2, <2>1, <2>2, <2>3, <3>1 DEF Waiter
  <2>5. t.phase \in Asleep /\ t.phase \notin {"unborn", "draining"} /\ departed' \subseteq departed
    BY <1>2, <2>1 DEF Asleep
  <2> QED BY <1>2, <1>b, <2>1, <2>2, <2>3, <2>4, <2>5, SleeperKeeps
<1>3. CASE JoinCall(i, p)
  <2>0. UNCHANGED <<gen, task, joining, table, ready, departed, epoch, life, stop, outside>>
    BY <1>3 DEF JoinCall
  <2>1. CASE stop.phase # "none"
    BY <2>0, <2>1, <1>1, <1>3, <1>n DEF JoinCall
  <2>2. CASE stop.phase = "none" /\ dep[p].phase # "none"
    <3> DEFINE t == Calling(i, "join", p, "waitdep", 0)
    <3>1. /\ t \in JobRecs /\ Sane(t) /\ t.kind = "join" /\ t.pid = p /\ t.phase = "waitdep"
          /\ t.epoch = epoch[p] /\ t.life = life
      BY <1>n, CallingIs DEF Called
    <3>2. t = [New(i, "join", p) EXCEPT !.phase = "waitdep"]
      <4> DEFINE n == New(i, "join", p)
      <4>1. n \in JobRecs /\ n.lock = 0
        BY <1>n, NewIs
      <4>2. t = [n EXCEPT !.phase = "waitdep", !.lock = 0]
        BY DEF Calling
      <4> HIDE DEF n
      <4>3. t = [n EXCEPT !.phase = "waitdep"]
        BY <4>1, <4>2 DEF JobRecs
      <4> QED BY <4>3 DEF n
    <3> HIDE DEF t
    <3>3. Put(i, t) /\ job'[i] = t /\ Departing(p) /\ UNCHANGED locks
      BY <2>2, <3>2, <1>3, <1>a DEF JoinCall, Put
    <3>4. Waiter(i)'
      <4>1. epoch[p] \in Nat /\ life \in Nat
        BY DEF AInv, Types
      <4> QED BY <2>0, <2>2, <3>1, <3>3, <4>1 DEF Waiter
    <3>5. \/ UNCHANGED dep
          \/ \E o \in Pids : dep[o].phase = "failed" /\ dep' = [dep EXCEPT ![o] = Interrupting]
      BY <2>2, <3>3 DEF Departing, Interrupting
    <3>6. t.phase \in Asleep /\ t.phase \notin {"unborn", "draining"} /\ departed' \subseteq departed
          /\ locks' \in [Pids -> [n : Nat, made : BOOLEAN]] /\ \A o \in Pids : locks'[o].n = locks[o].n
      BY <1>a, <2>0, <3>1, <3>3 DEF Asleep
    <3> QED BY <1>b, <2>0, <3>1, <3>3, <3>4, <3>5, <3>6, SleeperKeeps
  <2>3. CASE stop.phase = "none" /\ dep[p].phase = "none"
    BY <2>0, <2>3, <1>2, <1>3, <1>n DEF JoinCall
  <2> QED BY <2>1, <2>2, <2>3
<1>4. ASSUME NEW kind \in Kinds, Submit(i, kind, p) PROVE AInv'
  <2>1. kind \in {"query", "direct", "join"}
    BY AgentRouterAssumption
  <2>2. CASE stop.phase # "none" \/ dep[p].phase # "none" \/ p \in departed
    BY <2>1, <2>2, <1>1, <1>4 DEF Submit
  <2>3. CASE ~(stop.phase # "none" \/ dep[p].phase # "none" \/ p \in departed)
    BY <2>1, <2>3, <1>2, <1>4 DEF Submit
  <2> QED BY <2>2, <2>3
<1> QED BY <1>3, <1>4

\* Who waits for a lock or a departure.
LEMMA AtCall ==
  ASSUME AInv, NEW i \in Jobs, Waits(i)
  PROVE  /\ job[i].pid \in Pids /\ job[i].kind # "none" /\ job[i] \in JobRecs /\ Sane(job[i])
         /\ job[i].phase \in Asleep /\ job[i].phase # "unborn" /\ job[i].ask = "no" /\ ~job[i].busy
         /\ Waiter(i) /\ ~Live(i)
<1>1. Sane(job[i]) /\ job[i] \in JobRecs /\ Waiter(i)
  BY DEF AInv, Types, Waiters
<1> QED BY <1>1 DEF Waits, Sane, Asleep, Live

\* A join that waited for a departure waits for the lock, or fails.
LEMMA JoinAfterDepartureStep ==
  ASSUME AInv, NEW i \in Jobs, JoinAfterDeparture(i)
  PROVE  AInv'
<1> DEFINE r == job[i]
           p == r.pid
<1>0. r.phase = "waitdep" /\ Waits(i)
      /\ UNCHANGED <<gen, task, joining, table, ready, departed, epoch, life, dep, stop, outside>>
  BY DEF JoinAfterDeparture, Waits
<1>1. /\ p \in Pids /\ r.kind # "none" /\ r \in JobRecs /\ Sane(r) /\ r.phase \in Asleep /\ r.phase # "unborn"
      /\ Waiter(i)
  BY <1>0, AtCall
<1>2. CASE Put(i, Over(r)) /\ UNCHANGED locks
  BY <1>0, <1>1, <1>2, OverKeeps
<1>3. CASE dep[p].phase = "none" /\ Put(i, [r EXCEPT !.phase = "queued", !.lock = locks[p].n]) /\ HasLock(p)
  <2> DEFINE l == locks[p].n
             t == [r EXCEPT !.phase = "queued", !.lock = l]
  <2>1. l \in Nat /\ "queued" \in Phases
    BY <1>1 DEF AInv, Types, Phases
  <2>2. Put(i, t) /\ locks' \in [Pids -> [n : Nat, made : BOOLEAN]] /\ \A o \in Pids : locks'[o].n = locks[o].n
    BY <1>1, <1>3, HasLockIs
  <2>l. locks'[p].n = l
    BY <1>1, <2>2
  <2> HIDE DEF l
  <2>3. /\ t \in JobRecs /\ t.kind = r.kind /\ t.pid = r.pid /\ t.epoch = r.epoch /\ t.life = r.life
        /\ t.phase = "queued" /\ t.lock = l /\ t.ask = r.ask /\ t.waits = r.waits
        /\ t.busy = r.busy /\ t.out = r.out /\ t.ack = r.ack /\ t.started = r.started
    BY <1>1, <2>1 DEF JobRecs
  <2> HIDE DEF t
  <2>4. Sane(t)
    <3>1. r.out = <<>> /\ r.waits = {} /\ r.ack = "off" /\ ~r.started /\ ~r.busy /\ r.ask = "no"
      BY <1>0, <1>1 DEF Sane, Terse, Asleep, Answers
    <3>2. ~Spoke(t) /\ \A m, n \in DOMAIN t.out : m < n => t.out[m] # "answer"
      BY <2>3, <3>1 DEF Spoke
    <3>3. Terse(t)
      BY <2>3, <3>1, <3>2 DEF Terse, Asleep, Early, Deciding, Telling, Answers
    <3> QED BY <1>1, <2>3, <3>1, <3>3 DEF Sane, Asleep
  <2>5. job'[i] = t
    BY <2>2 DEF Put, AInv, Types
  <2>6. Waiter(i)'
    BY <1>0, <1>1, <1>3, <2>2, <2>l, <2>3, <2>5 DEF Waiter, Fresh
  <2>7. t.phase \in Asleep /\ t.phase \notin {"unborn", "draining"} /\ departed' \subseteq departed
    BY <1>0, <2>3 DEF Asleep
  <2> QED BY <1>0, <1>1, <2>2, <2>3, <2>4, <2>6, <2>7, SleeperKeeps
<1> QED BY <1>2, <1>3 DEF JoinAfterDeparture

-----------------------------------------------------------------------------
(* Cancellations. *)

\* What Ask() leaves of a job.
Alike(j) ==
  /\ job'[j] \in JobRecs /\ Sane(job'[j])
  /\ job'[j].kind = job[j].kind /\ job'[j].pid = job[j].pid /\ job'[j].phase = job[j].phase
  /\ job'[j].epoch = job[j].epoch /\ job'[j].life = job[j].life /\ job'[j].lock = job[j].lock
  /\ job'[j].waits = job[j].waits /\ job'[j].busy = job[j].busy

\* A job is asked to stop.
LEMMA AskedIs ==
  ASSUME NEW r \in JobRecs, Sane(r), r.phase \notin Asleep, NEW t, t = [r EXCEPT !.ask = "asked"]
  PROVE  /\ t \in JobRecs /\ Sane(t) /\ t.kind = r.kind /\ t.pid = r.pid /\ t.phase = r.phase
         /\ t.epoch = r.epoch /\ t.life = r.life /\ t.lock = r.lock /\ t.ask = "asked"
         /\ t.waits = r.waits /\ t.busy = r.busy
<1>1. "asked" \in Asks
  BY DEF Asks
<1>2. /\ t \in JobRecs /\ t.kind = r.kind /\ t.pid = r.pid /\ t.epoch = r.epoch /\ t.life = r.life
      /\ t.phase = r.phase /\ t.lock = r.lock /\ t.ask = "asked" /\ t.waits = r.waits
      /\ t.busy = r.busy /\ t.out = r.out /\ t.ack = r.ack /\ t.started = r.started
      /\ t.last = r.last /\ t.text = r.text /\ t.then = r.then /\ t.dest = r.dest
  BY <1>1 DEF JobRecs
<1>3. (Spoke(t) <=> Spoke(r)) /\ AckDue(t) = AckDue(r) /\ Retold(t) = Retold(r)
  BY <1>2 DEF Spoke, AckDue, Retold
<1>4. AnswerDue(t) = AnswerDue(r)
  BY <1>3 DEF AnswerDue
<1>5. Terse(r)
  BY DEF Sane
<1>6. Terse(t)
  BY <1>2, <1>3, <1>4, <1>5 DEF Terse
<1>7. Sane(t)
  BY <1>2, <1>6 DEF Sane
<1> QED BY <1>2, <1>7

\* Live jobs of J are asked, once.
LEMMA AskIs ==
  ASSUME AInv, NEW J, job' = Ask(job, J)
  PROVE  /\ job' \in [Jobs -> JobRecs]
         /\ \A j \in Jobs : Alike(j) /\ (job'[j].ask = "no" <=> job[j].ask = "no" /\ ~(j \in J /\ Live(j)))
<1>1. job \in [Jobs -> JobRecs] /\ \A j \in Jobs : Sane(job[j])
  BY DEF AInv, Types
<1>2. ASSUME NEW j \in Jobs
      PROVE  Alike(j) /\ (job'[j].ask = "no" <=> job[j].ask = "no" /\ ~(j \in J /\ Live(j)))
  <2> DEFINE r == job[j]
  <2>0. r \in JobRecs /\ Sane(r)
    BY <1>1
  <2>1. CASE j \in J /\ Live(j) /\ r.ask = "no"
    <3>1. job'[j] = [r EXCEPT !.ask = "asked"]
      BY <2>1 DEF Ask
    <3>2. r.phase \notin Asleep
      BY <2>1 DEF Live, Asleep
    <3> QED BY <2>0, <2>1, <3>1, <3>2, AskedIs DEF Alike
  <2>2. CASE ~(j \in J /\ Live(j) /\ r.ask = "no")
    <3>1. job'[j] = r
      BY <2>2 DEF Ask
    <3> QED BY <2>0, <2>2, <3>1 DEF Alike
  <2> QED BY <2>1, <2>2
<1>3. job' = [j \in Jobs |-> job'[j]]
  BY DEF Ask
<1>4. job' \in [Jobs -> JobRecs]
  BY <1>2, <1>3 DEF Alike
<1> QED BY <1>2, <1>4

\* Participants who are interrupted have nobody who may act.
LEMMA AskedTables ==
  ASSUME AInv, NEW P \in SUBSET Pids, job' \in [Jobs -> JobRecs],
         \A j \in Jobs : /\ job'[j].kind = job[j].kind /\ job'[j].pid = job[j].pid
                         /\ (Live(j)' <=> Live(j))
                         /\ Live(j) => (job'[j].ask = "no" <=> job[j].ask = "no" /\ j \notin TasksOf(P)),
         task' = task, joining' = joining, \A p \in Pids : gen'[p] = IF p \in P THEN 0 ELSE gen[p]
  PROVE  Tables'
<1>a. Tables /\ Types
  BY DEF AInv
<1>1. ASSUME NEW j \in Jobs, Live(j)'
      PROVE  IF job'[j].kind = "join" THEN joining'[job'[j].pid] = j
             ELSE task'[job'[j].pid] = j /\ (gen'[job'[j].pid] = j <=> job'[j].ask = "no")
  <2> DEFINE p == job[j].pid
  <2>1. /\ Live(j) /\ p \in Pids /\ j # 0 /\ job'[j].pid = p /\ job'[j].kind = job[j].kind
        /\ job[j].kind = "join" => joining[p] = j
        /\ job[j].kind # "join" => task[p] = j
    BY <1>1, AtTable
  <2>2. CASE job[j].kind = "join"
    BY <2>1, <2>2
  <2>3. CASE job[j].kind # "join"
    <3>1. task[p] = j /\ (gen[p] = j <=> job[j].ask = "no")
      BY <2>1, <2>3, <1>a DEF Tables
    <3>2. CASE p \in P
      <4>1. j \in TasksOf(P)
        BY <2>1, <3>1, <3>2 DEF TasksOf
      <4> QED BY <2>1, <2>3, <3>1, <3>2, <4>1
    <3>3. CASE p \notin P
      <4>1. ASSUME NEW o \in P PROVE task[o] # j /\ joining[o] # j
        BY <4>1, <3>3, <2>1, <2>3, <1>a DEF Tables
      <4>2. j \notin TasksOf(P)
        BY <4>1 DEF TasksOf
      <4> QED BY <2>1, <2>3, <3>1, <3>3, <4>2
    <3> QED BY <3>2, <3>3
  <2> QED BY <2>2, <2>3
<1>2. ASSUME NEW o \in Pids
      PROVE  /\ task'[o] # 0 => Live(task[o])' /\ job'[task[o]].pid = o /\ job'[task[o]].kind # "join"
             /\ joining'[o] # 0 =>
                  Live(joining[o])' /\ job'[joining[o]].pid = o /\ job'[joining[o]].kind = "join"
             /\ gen'[o] \in {0, task'[o]}
  <2>1. /\ task[o] # 0 => task[o] \in Jobs /\ Live(task[o]) /\ job[task[o]].pid = o /\ job[task[o]].kind # "join"
        /\ joining[o] # 0 => joining[o] \in Jobs /\ Live(joining[o]) /\ job[joining[o]].pid = o
                               /\ job[joining[o]].kind = "join"
        /\ gen[o] \in {0, task[o]}
    BY <1>a DEF Tables, Types, Jobs
  <2> QED BY <2>1
<1> QED BY <1>1, <1>2 DEF Tables

\* A job whose work goes on, or that goes on waiting.
Like(j) ==
  /\ Sane(job'[j]) /\ job'[j].pid = job[j].pid /\ job'[j].epoch = job[j].epoch
  /\ job'[j].phase = "unborn" <=> job[j].phase = "unborn"
  /\ Live(j)' <=> Live(j)
  /\ Live(j) => job'[j].phase = job[j].phase /\ job'[j].busy = job[j].busy

\* Cancellations disturb only who may act, unless a departure or a shutdown begins to wait
\* for those it cancelled.
LEMMA LikeKeeps ==
  ASSUME AInv, job' \in [Jobs -> JobRecs], \A j \in Jobs : Like(j), Tables', Waiters',
         gen' \in [Pids -> 0 .. NumJobs], budget' \in [left : Nat, stops : Nat, interrupts : Nat],
         dep' \in [Pids -> Departures], stop' \in Shutdowns,
         UNCHANGED <<task, joining, table, ready, admissionVars, owns, shown>>,
         \A p \in Pids : \/ dep'[p] = dep[p]
                         \/ /\ dep[p].phase = "interrupt" /\ dep'[p].phase = "draining"
                            /\ TasksOf({p}) \subseteq dep'[p].waits,
         \/ stop' = stop
         \/ /\ stop.phase = "interrupt" /\ stop'.phase = "draining"
            /\ TasksOf(Pids) \subseteq stop'.waits
  PROVE  AInv'
<1>a. Types /\ Waiters /\ Ended /\ Kept /\ Present /\ Lit
  BY DEF AInv
<1>u. UNCHANGED <<task, joining, focus, used, hist, ready, departed, epoch, life, locks, owns, shown>>
  BY DEF table, admissionVars
<1>1. \A j \in Jobs : /\ job'[j].pid = job[j].pid /\ job'[j].epoch = job[j].epoch
                      /\ (job'[j].phase = "unborn" <=> job[j].phase = "unborn") /\ Sane(job'[j])
                      /\ (Live(j) => job'[j].phase = job[j].phase /\ job'[j].busy = job[j].busy)
  BY DEF Like
<1>2. \A p \in Pids : TasksOf({p})' = TasksOf({p})
  BY <1>u DEF TasksOf
<1>3. TasksOf(Pids)' = TasksOf(Pids)
  BY <1>u DEF TasksOf
<1>4. \A j \in Jobs : Live(j)' <=> Live(j)
  BY DEF Like
<1>5. \A p \in Pids : (dep'[p].phase = "none" <=> dep[p].phase = "none")
                      /\ (dep'[p].phase = "cleaning" => dep'[p] = dep[p])
  OBVIOUS
<1>6. (stop'.phase = "none" <=> stop.phase = "none") /\ (stop'.phase = "leaving" => stop' = stop)
  OBVIOUS
<1>7. Types'
  BY <1>a, <1>u DEF Types
<1>9. Ended'
  <2>1. ASSUME NEW p \in Pids
        PROVE  /\ dep'[p].phase = "draining" => TasksOf({p})' \subseteq dep'[p].waits
               /\ dep'[p].phase \in {"lock", "cleaning", "failed"} => task'[p] = 0 /\ joining'[p] = 0
    <3>1. TasksOf({p})' = TasksOf({p})
      BY <1>2
    <3> QED BY <3>1, <1>a, <1>u DEF Ended
  <2>2. stop'.phase = "draining" => TasksOf(Pids)' \subseteq stop'.waits
    BY <1>3, <1>a DEF Ended
  <2>3. stop'.phase \in {"leaving", "failed"} => \A p \in Pids : task'[p] = 0 /\ joining'[p] = 0
    BY <1>u, <1>a DEF Ended
  <2> QED BY <2>1, <2>2, <2>3 DEF Ended
<1>10. Kept'
  <2>1. \A p \in Pids : hist'[p] # None => \A n \in DOMAIN hist'[p] : job'[hist'[p][n]].phase # "unborn"
    <3> SUFFICES ASSUME NEW p \in Pids, hist[p] # None, NEW n \in DOMAIN hist[p]
                 PROVE  job'[hist[p][n]].phase # "unborn"
      BY <1>u
    <3>1. hist[p][n] \in Jobs /\ job[hist[p][n]].phase # "unborn"
      BY <1>a, ElementOfSeq, LenProperties DEF Kept, Types
    <3> QED BY <3>1, <1>1
  <2>2. \A p \in Pids : dep'[p].phase = "cleaning" =>
          focus'[p] = None /\ hist'[p] = None /\ (~dep'[p].bad => used'[p] \subseteq dep'[p].todo)
    BY <1>a, <1>u, <1>5 DEF Kept
  <2>3. \A p \in departed' : dep'[p].phase = "none" /\ stop'.phase = "none" =>
         /\ task'[p] = 0 /\ joining'[p] = 0
         /\ focus'[p] = None /\ used'[p] = {} /\ hist'[p] = None /\ p \notin ready'
    <3>1. departed \subseteq Pids
      BY <1>a DEF Types
    <3> QED BY <3>1, <1>a, <1>u, <1>5, <1>6 DEF Kept
  <2>4. stop'.phase = "leaving" /\ ~stop'.bad =>
         \A p \in Pids \ stop'.todo : p # stop'.at \/ dep'[p].phase = "none" => hist'[p] = None
    BY <1>a, <1>u, <1>5, <1>6 DEF Kept
  <2>5. \A p \in Pids : owns'[p] \subseteq used'[p]
    BY <1>a, <1>u DEF Kept
  <2> QED BY <2>1, <2>2, <2>3, <2>4, <2>5 DEF Kept
<1>11. Present'
  <2> SUFFICES ASSUME NEW p \in Pids, dep'[p].phase = "none", stop'.phase = "none"
               PROVE  /\ task'[p] # 0 => job'[task'[p]].epoch = epoch'[p]
                      /\ hist'[p] # None => \A n \in DOMAIN hist'[p] : job'[hist'[p][n]].epoch = epoch'[p]
    BY DEF Present
  <2>1. dep[p].phase = "none" /\ stop.phase = "none"
    BY <1>5, <1>6
  <2>2. task[p] # 0 => task[p] \in Jobs /\ job[task[p]].epoch = epoch[p]
    BY <1>a, <2>1 DEF Present, Types, Jobs
  <2>3. ASSUME hist[p] # None, NEW n \in DOMAIN hist[p] PROVE job'[hist[p][n]].epoch = epoch[p]
    <3>1. hist[p][n] \in Jobs /\ job[hist[p][n]].epoch = epoch[p]
      BY <2>1, <2>3, <1>a, ElementOfSeq, LenProperties DEF Kept, Types, Present
    <3> QED BY <3>1, <1>1
  <2> QED BY <2>2, <2>3, <1>1, <1>u
<1>12. Lit'
  BY <1>a, <1>u, <1>1, <1>4 DEF Lit
<1> QED BY <1>1, <1>7, <1>9, <1>10, <1>11, <1>12 DEF AInv

\* The same, where nobody takes a lock.
LEMMA AlikeKeeps ==
  ASSUME AInv, job' \in [Jobs -> JobRecs], \A j \in Jobs : Alike(j), Tables',
         gen' \in [Pids -> 0 .. NumJobs], budget' \in [left : Nat, stops : Nat, interrupts : Nat],
         dep' \in [Pids -> Departures], stop' \in Shutdowns,
         UNCHANGED <<task, joining, table, ready, admissionVars, owns, shown>>,
         \A p \in Pids : \/ dep'[p] = dep[p]
                         \/ /\ dep[p].phase = "interrupt" /\ dep'[p].phase = "draining"
                            /\ TasksOf({p}) \subseteq dep'[p].waits,
         \/ stop' = stop
         \/ /\ stop.phase = "interrupt" /\ stop'.phase = "draining"
            /\ TasksOf(Pids) \subseteq stop'.waits
  PROVE  AInv'
<1>a. Waiters
  BY DEF AInv
<1>u. UNCHANGED <<task, joining, epoch, life, locks>>
  BY DEF admissionVars
<1>1. \A j \in Jobs : /\ job'[j].pid = job[j].pid /\ job'[j].phase = job[j].phase
                      /\ job'[j].epoch = job[j].epoch /\ job'[j].life = job[j].life
                      /\ job'[j].lock = job[j].lock /\ job'[j].waits = job[j].waits
  BY DEF Alike
<1>2. \A j \in Jobs : Like(j)
  BY DEF Alike, Like, Live
<1>5. \A p \in Pids : dep'[p].phase = "none" <=> dep[p].phase = "none"
  OBVIOUS
<1>6. stop'.phase = "none" <=> stop.phase = "none"
  OBVIOUS
<1>8. Waiters'
  <2>1. ASSUME NEW j \in Jobs, Waits(j)' PROVE Waiter(j)'
    <3>1. Waiter(j) /\ job[j].pid \in Pids
      <4>1. Waits(j)
        BY <1>1, <2>1 DEF Waits
      <4> QED BY <4>1, AtCall
    <3>2. TasksOf({job[j].pid})' = TasksOf({job[j].pid})
      BY <1>1, <1>u DEF TasksOf
    <3> QED BY <1>1, <1>u, <1>5, <1>6, <3>1, <3>2 DEF Waiter, Fresh
  <2>2. ASSUME NEW k \in Jobs, NEW j \in Jobs, SameLock(k, j)' PROVE k = j
    BY <2>2, <1>a, <1>1 DEF Waiters, SameLock
  <2> QED BY <2>1, <2>2 DEF Waiters
<1> QED BY <1>2, <1>8, LikeKeeps

\* Interruptions, and departures and shutdowns that begin.
LEMMA InterruptSteps ==
  ASSUME AInv,
         \/ Interrupt(Pids) \/ StopInterrupts
         \/ \E p \in Pids : Interrupt({p}) \/ DepartureInterrupts(p)
  PROVE  AInv'
<1>a. Types
  BY DEF AInv
<1>1. ASSUME NEW P \in SUBSET Pids, job' = Ask(job, TasksOf(P)),
             gen' = [p \in Pids |-> IF p \in P THEN 0 ELSE gen[p]], UNCHANGED <<task, joining>>
      PROVE  /\ job' \in [Jobs -> JobRecs] /\ \A j \in Jobs : Alike(j)
             /\ Tables' /\ gen' \in [Pids -> 0 .. NumJobs]
  <2> DEFINE J == TasksOf(P)
  <2>1. /\ job' \in [Jobs -> JobRecs]
        /\ \A j \in Jobs : Alike(j) /\ (job'[j].ask = "no" <=> job[j].ask = "no" /\ ~(j \in J /\ Live(j)))
    <3>1. job' = Ask(job, J)
      BY <1>1
    <3> HIDE DEF J
    <3> QED BY <3>1, AskIs
  <2>2. \A j \in Jobs : /\ job'[j].kind = job[j].kind /\ job'[j].pid = job[j].pid
                        /\ (Live(j)' <=> Live(j))
                        /\ Live(j) => (job'[j].ask = "no" <=> job[j].ask = "no" /\ j \notin TasksOf(P))
    BY <2>1 DEF Alike, Live
  <2>3. NumJobs \in Nat
    BY AgentRouterAssumption
  <2>4. gen' \in [Pids -> 0 .. NumJobs] /\ \A p \in Pids : gen'[p] = IF p \in P THEN 0 ELSE gen[p]
    BY <1>a, <1>1, <2>3 DEF Types
  <2>5. Tables'
    BY <1>1, <2>1, <2>2, <2>4, AskedTables
  <2> QED BY <2>1, <2>4, <2>5
<1>2. \A P \in SUBSET Pids : TasksOf(P) \subseteq Jobs
  <2>1. \A p \in Pids : task[p] # 0 => task[p] \in Jobs
    BY <1>a DEF Types, Jobs
  <2>2. \A p \in Pids : joining[p] # 0 => joining[p] \in Jobs
    BY <1>a DEF Types, Jobs
  <2> QED BY <2>1, <2>2 DEF TasksOf
<1>3. ASSUME NEW P \in SUBSET Pids, Interrupt(P)
      PROVE  AInv'
  <2>1. /\ job' = Ask(job, TasksOf(P)) /\ gen' = [p \in Pids |-> IF p \in P THEN 0 ELSE gen[p]]
        /\ UNCHANGED <<task, joining, table, ready, admissionVars, dep, stop, owns, shown>>
        /\ budget.interrupts > 0 /\ budget' = [budget EXCEPT !.interrupts = @ - 1]
    BY <1>3 DEF Interrupt, turnFrame
  <2>2. budget' \in [left : Nat, stops : Nat, interrupts : Nat]
    <3>1. budget \in [left : Nat, stops : Nat, interrupts : Nat]
      BY <1>a DEF Types
    <3>2. budget.interrupts - 1 \in Nat
      BY <2>1, <3>1
    <3> QED BY <2>1, <3>1, <3>2
  <2>3. dep' \in [Pids -> Departures] /\ stop' \in Shutdowns
    BY <1>a, <2>1 DEF Types
  <2>4. /\ job' \in [Jobs -> JobRecs] /\ \A j \in Jobs : Alike(j)
        /\ Tables' /\ gen' \in [Pids -> 0 .. NumJobs]
    BY <1>1, <2>1
  <2> QED BY <2>1, <2>2, <2>3, <2>4, AlikeKeeps
<1>4. CASE StopInterrupts
  <2>1. /\ job' = Ask(job, TasksOf(Pids)) /\ gen' = [p \in Pids |-> 0]
        /\ stop.phase = "interrupt" /\ stop' = [stop EXCEPT !.phase = "draining", !.waits = TasksOf(Pids)]
        /\ UNCHANGED <<task, joining, table, ready, admissionVars, dep, outside>>
    BY <1>4 DEF StopInterrupts
  <2>2. gen' = [p \in Pids |-> IF p \in Pids THEN 0 ELSE gen[p]]
    BY <2>1
  <2>3. stop' \in Shutdowns /\ stop'.phase = "draining" /\ TasksOf(Pids) \subseteq stop'.waits
    BY <1>a, <1>2, <2>1 DEF Types, Shutdowns, StopPhases
  <2>4. /\ dep' \in [Pids -> Departures] /\ budget' \in [left : Nat, stops : Nat, interrupts : Nat]
        /\ UNCHANGED <<owns, shown>>
    BY <1>a, <2>1 DEF Types, outside
  <2>5. /\ job' \in [Jobs -> JobRecs] /\ \A j \in Jobs : Alike(j)
        /\ Tables' /\ gen' \in [Pids -> 0 .. NumJobs]
    <3>1. Pids \in SUBSET Pids
      OBVIOUS
    <3> QED BY <1>1, <2>1, <2>2, <3>1
  <2> QED BY <2>1, <2>3, <2>4, <2>5, AlikeKeeps
<1>5. ASSUME NEW p \in Pids, DepartureInterrupts(p)
      PROVE  AInv'
  <2>1. /\ job' = Ask(job, TasksOf({p})) /\ gen' = [gen EXCEPT ![p] = 0]
        /\ dep[p].phase = "interrupt"
        /\ dep' = [dep EXCEPT ![p].phase = "draining", ![p].waits = TasksOf({p})]
        /\ UNCHANGED <<task, joining, table, ready, admissionVars, stop, outside>>
    BY <1>5 DEF DepartureInterrupts
  <2>2. gen' = [o \in Pids |-> IF o \in {p} THEN 0 ELSE gen[o]]
    BY <1>a, <2>1 DEF Types
  <2>3. dep' \in [Pids -> Departures] /\ dep'[p].phase = "draining" /\ TasksOf({p}) \subseteq dep'[p].waits
        /\ \A o \in Pids \ {p} : dep'[o] = dep[o]
    <3> DEFINE J == TasksOf({p})
    <3>1. dep \in [Pids -> Departures] /\ J \in SUBSET Jobs /\ "draining" \in DepPhases
      BY <1>a, <1>2 DEF Types, DepPhases
    <3>2. dep' = [dep EXCEPT ![p].phase = "draining", ![p].waits = J]
      BY <2>1
    <3> HIDE DEF J
    <3>3. [dep[p] EXCEPT !.phase = "draining", !.waits = J] \in Departures
      BY <3>1 DEF Departures
    <3>4. dep' = [dep EXCEPT ![p] = [dep[p] EXCEPT !.phase = "draining", !.waits = J]]
      BY <3>1, <3>2
    <3>5. dep'[p].phase = "draining" /\ dep'[p].waits = J
      BY <3>1, <3>4 DEF Departures
    <3>6. dep' \in [Pids -> Departures] /\ \A o \in Pids \ {p} : dep'[o] = dep[o]
      BY <3>1, <3>3, <3>4
    <3> QED BY <3>5, <3>6 DEF J
  <2>4. /\ stop' \in Shutdowns /\ budget' \in [left : Nat, stops : Nat, interrupts : Nat]
        /\ UNCHANGED <<owns, shown>>
    BY <1>a, <2>1 DEF Types, outside
  <2>5. /\ job' \in [Jobs -> JobRecs] /\ \A j \in Jobs : Alike(j)
        /\ Tables' /\ gen' \in [Pids -> 0 .. NumJobs]
    <3>1. {p} \in SUBSET Pids
      OBVIOUS
    <3> QED BY <1>1, <2>1, <2>2, <3>1
  <2>6. \A o \in Pids : \/ dep'[o] = dep[o]
                        \/ /\ dep[o].phase = "interrupt" /\ dep'[o].phase = "draining"
                           /\ TasksOf({o}) \subseteq dep'[o].waits
    BY <2>1, <2>3
  <2> QED BY <2>1, <2>3, <2>4, <2>5, <2>6, AlikeKeeps
<1>6. Pids \in SUBSET Pids /\ \A p \in Pids : {p} \in SUBSET Pids
  OBVIOUS
<1> QED BY <1>3, <1>4, <1>5, <1>6

\* The caller of handle() gives its turn up.
LEMMA AbandonStep ==
  ASSUME AInv, NEW i \in Jobs, Abandon(i)
  PROVE  AInv'
<1> DEFINE p == job[i].pid
<1>a. Types /\ Tables
  BY DEF AInv
<1>0. /\ job[i].kind = "direct" /\ Live(i) /\ gen' = [gen EXCEPT ![p] = IF task[p] = i THEN 0 ELSE @]
      /\ job' = Ask(job, {i}) /\ UNCHANGED <<task, joining, table, ready, admissionVars, dep, stop, outside>>
  BY DEF Abandon, turnFrame
<1>1. p \in Pids /\ i # 0 /\ task[p] = i
  BY <1>0, AtTable
<1>2. /\ job' \in [Jobs -> JobRecs]
      /\ \A j \in Jobs : Alike(j) /\ (job'[j].ask = "no" <=> job[j].ask = "no" /\ ~(j \in {i} /\ Live(j)))
  BY <1>0, AskIs
<1>3. gen' \in [Pids -> 0 .. NumJobs] /\ gen'[p] = 0 /\ \A o \in Pids \ {p} : gen'[o] = gen[o]
  <2>1. NumJobs \in Nat
    BY AgentRouterAssumption
  <2>2. gen' = [gen EXCEPT ![p] = 0]
    BY <1>0, <1>1
  <2> QED BY <1>a, <1>1, <2>1, <2>2 DEF Types
<1>4. Tables'
  <2>1. ASSUME NEW j \in Jobs, Live(j)'
        PROVE  IF job'[j].kind = "join" THEN joining'[job'[j].pid] = j
               ELSE task'[job'[j].pid] = j /\ (gen'[job'[j].pid] = j <=> job'[j].ask = "no")
    <3>1. Live(j) /\ job'[j].kind = job[j].kind /\ job'[j].pid = job[j].pid
      BY <1>2, <2>1 DEF Alike, Live
    <3>2. IF job[j].kind = "join" THEN joining[job[j].pid] = j
          ELSE task[job[j].pid] = j /\ (gen[job[j].pid] = j <=> job[j].ask = "no")
      BY <3>1, <1>a DEF Tables
    <3>3. job[j].pid \in Pids /\ j # 0
      BY <3>1, AtTable
    <3>4. CASE j = i
      BY <3>4, <1>0, <1>1, <1>2, <1>3, <3>1, <3>3
    <3>5. CASE j # i
      <4>1. job'[j].ask = "no" <=> job[j].ask = "no"
        BY <3>5, <1>2
      <4>2. job[j].kind # "join" => job[j].pid # p
        BY <3>2, <3>5, <1>1
      <4> QED BY <3>1, <3>2, <3>3, <4>1, <4>2, <1>0, <1>3
    <3> QED BY <3>4, <3>5
  <2>2. ASSUME NEW o \in Pids
        PROVE  /\ task'[o] # 0 => Live(task[o])' /\ job'[task[o]].pid = o /\ job'[task[o]].kind # "join"
               /\ joining'[o] # 0 =>
                    Live(joining[o])' /\ job'[joining[o]].pid = o /\ job'[joining[o]].kind = "join"
               /\ gen'[o] \in {0, task'[o]}
    <3>1. /\ task[o] # 0 => task[o] \in Jobs /\ Live(task[o]) /\ job[task[o]].pid = o /\ job[task[o]].kind # "join"
          /\ joining[o] # 0 => joining[o] \in Jobs /\ Live(joining[o]) /\ job[joining[o]].pid = o
                                 /\ job[joining[o]].kind = "join"
          /\ gen[o] \in {0, task[o]}
      BY <1>a DEF Tables, Types, Jobs
    <3>2. \A j \in Jobs : /\ job'[j].kind = job[j].kind /\ job'[j].pid = job[j].pid
                          /\ (Live(j)' <=> Live(j))
      BY <1>2 DEF Alike, Live
    <3>3. task[o] # 0 => (Live(task[o])' <=> Live(task[o]))
      BY <1>0, <3>1, <1>2 DEF Alike, Live
    <3>4. joining[o] # 0 => (Live(joining[o])' <=> Live(joining[o]))
      BY <1>0, <3>1, <1>2 DEF Alike, Live
    <3>5. gen'[o] \in {0, task'[o]}
      BY <1>0, <1>3, <3>1
    <3> QED BY <1>0, <3>1, <3>2, <3>3, <3>4, <3>5
  <2>3. task' = task /\ joining' = joining
    BY <1>0
  <2> QED BY <2>1, <2>2, <2>3 DEF Tables
<1>5. /\ dep' \in [Pids -> Departures] /\ stop' \in Shutdowns /\ UNCHANGED <<owns, shown>>
      /\ budget' \in [left : Nat, stops : Nat, interrupts : Nat]
  BY <1>a, <1>0 DEF Types, outside
<1> QED BY <1>0, <1>2, <1>3, <1>4, <1>5, AlikeKeeps

-----------------------------------------------------------------------------
(* Locks that are taken, and tasks that begin and end. *)

\* Calls that waited for the participant's lock are refused without having run.
LEMMA RefusedCall ==
  ASSUME AInv, NEW i \in Jobs, Waits(i), Put(i, Over(job[i])), departed' \subseteq departed,
         UNCHANGED <<gen, task, joining, table, ready, epoch, life, locks, dep, stop, outside>>
  PROVE  AInv'
BY AtCall, OverKeeps

\* A turn that takes the lock of its participant and is not out of date is told no task it
\* has not told to end, and there is no other like it.
LEMMA AcquireStep ==
  ASSUME AInv, NEW i \in Jobs, Acquire(i)
  PROVE  AInv'
<1> DEFINE r == job[i]
           p == r.pid
           W == TasksOf({p})
           t == [r EXCEPT !.phase = "draining", !.waits = W]
<1>a. Types /\ Tables /\ Waiters
  BY DEF AInv
<1>0. /\ r.phase = "queued" /\ r.kind # "join" /\ LockFree(p, r.lock) /\ Waits(i)
      /\ UNCHANGED <<task, joining, table, ready, admissionVars, dep, stop, outside>>
  BY DEF Acquire, Waits
<1>1. /\ p \in Pids /\ r.kind # "none" /\ r \in JobRecs /\ Sane(r) /\ Waiter(i) /\ ~Live(i)
      /\ r.ask = "no" /\ ~r.busy
  BY <1>0, AtCall
<1>2. CASE Refused(i)
  <2>1. Put(i, Over(r)) /\ gen' = gen
    BY <1>2 DEF Acquire
  <2>2. departed' \subseteq departed /\ UNCHANGED <<task, joining, table, ready, epoch, life, locks, dep, stop, outside>>
    BY <1>0 DEF admissionVars
  <2> QED BY <1>0, <2>1, <2>2, RefusedCall
<1>3. CASE ~Refused(i)
  <2>1. /\ gen' = [gen EXCEPT ![p] = 0]
        /\ job' = Ask([job EXCEPT ![i].phase = "draining", ![i].waits = W], W)
    BY <1>3 DEF Acquire
  <2>2. W \in SUBSET Jobs
    <3>1. task[p] # 0 => task[p] \in Jobs
      BY <1>a, <1>1 DEF Types, Jobs
    <3>2. joining[p] # 0 => joining[p] \in Jobs
      BY <1>a, <1>1 DEF Types, Jobs
    <3> QED BY <3>1, <3>2 DEF TasksOf
  <2>3. job'[i] = t
    <3>1. [job EXCEPT ![i].phase = "draining", ![i].waits = W][i] = t
      BY <1>a DEF Types
    <3> HIDE DEF W, t
    <3>2. job'[i] = [job EXCEPT ![i].phase = "draining", ![i].waits = W][i]
      BY <2>1, <1>1 DEF Ask
    <3> QED BY <3>1, <3>2
  <2>4. /\ t \in JobRecs /\ Sane(t) /\ t.kind = r.kind /\ t.pid = p /\ t.epoch = r.epoch /\ t.life = r.life
        /\ t.lock = r.lock /\ t.phase = "draining" /\ t.waits = W
    <3>1. "draining" \in Phases
      BY DEF Phases
    <3> HIDE DEF W
    <3>2. /\ t \in JobRecs /\ t.kind = r.kind /\ t.pid = r.pid /\ t.epoch = r.epoch /\ t.life = r.life
          /\ t.phase = "draining" /\ t.lock = r.lock /\ t.ask = r.ask /\ t.waits = W
          /\ t.busy = r.busy /\ t.out = r.out /\ t.ack = r.ack /\ t.started = r.started
      BY <1>1, <2>2, <3>1 DEF JobRecs
    <3> HIDE DEF t
    <3>3. r.out = <<>> /\ r.ack = "off" /\ ~r.started
      BY <1>0, <1>1 DEF Sane, Terse, Asleep, Answers
    <3>4. ~Spoke(t) /\ \A m, n \in DOMAIN t.out : m < n => t.out[m] # "answer"
      BY <3>2, <3>3 DEF Spoke
    <3>5. Terse(t)
      BY <3>2, <3>3, <3>4 DEF Terse, Asleep, Early, Deciding, Telling, Answers
    <3>6. Sane(t)
      BY <1>0, <1>1, <3>2, <3>5 DEF Sane, Asleep
    <3> QED BY <3>2, <3>6
  <2> HIDE DEF t, W
  <2>5. ASSUME NEW j \in Jobs \ {i}
        PROVE  Alike(j) /\ (job'[j].ask = "no" <=> job[j].ask = "no" /\ ~(j \in W /\ Live(j)))
    <3>0. job[j] \in JobRecs /\ Sane(job[j])
      BY DEF AInv, Types
    <3> DEFINE T == [job EXCEPT ![i].phase = "draining", ![i].waits = W]
    <3>4. T[j] = job[j] /\ job' = Ask(T, W)
      BY <2>1, <1>a DEF Types
    <3> HIDE DEF T
    <3>5. job'[j] = IF j \in W /\ Live(j) /\ job[j].ask = "no" THEN [job[j] EXCEPT !.ask = "asked"] ELSE job[j]
      BY <3>4 DEF Ask
    <3>1. CASE j \in W /\ Live(j) /\ job[j].ask = "no"
      <4>1. job'[j] = [job[j] EXCEPT !.ask = "asked"]
        BY <3>1, <3>5
      <4>2. job[j].phase \notin Asleep
        BY <3>1 DEF Live, Asleep
      <4> QED BY <3>0, <3>1, <4>1, <4>2, AskedIs DEF Alike
    <3>2. CASE ~(j \in W /\ Live(j) /\ job[j].ask = "no")
      <4>1. job'[j] = job[j]
        BY <3>2, <3>5
      <4> QED BY <3>0, <3>2, <4>1 DEF Alike
    <3> QED BY <3>1, <3>2
  <2>6. ~Live(i) /\ ~Live(i)'
    BY <1>1, <2>3, <2>4 DEF Live
  <2>7. \A j \in Jobs : Like(j)
    <3>1. Like(i)
      BY <1>0, <2>3, <2>4, <2>6 DEF Like
    <3>2. \A j \in Jobs \ {i} : Like(j)
      BY <2>5 DEF Alike, Like, Live
    <3> QED BY <3>1, <3>2
  <2>8. job' \in [Jobs -> JobRecs]
    <3>1. job' = [j \in Jobs |-> job'[j]]
      BY <2>1 DEF Ask
    <3>2. \A j \in Jobs : job'[j] \in JobRecs
      BY <2>3, <2>4, <2>5 DEF Alike
    <3> QED BY <3>1, <3>2
  <2>9. gen' \in [Pids -> 0 .. NumJobs] /\ \A o \in Pids : gen'[o] = IF o \in {p} THEN 0 ELSE gen[o]
    <3>1. NumJobs \in Nat
      BY AgentRouterAssumption
    <3> QED BY <1>a, <1>1, <2>1, <3>1 DEF Types
  <2>10. Tables'
    <3>1. \A j \in Jobs : /\ job'[j].kind = job[j].kind /\ job'[j].pid = job[j].pid
                          /\ (Live(j)' <=> Live(j))
                          /\ Live(j) => (job'[j].ask = "no" <=> job[j].ask = "no" /\ j \notin W)
      BY <2>3, <2>4, <2>5, <2>6 DEF Alike, Live
    <3>2. {p} \in SUBSET Pids /\ task' = task /\ joining' = joining
      BY <1>0, <1>1
    <3>3. \A j \in Jobs : /\ job'[j].kind = job[j].kind /\ job'[j].pid = job[j].pid
                          /\ (Live(j)' <=> Live(j))
                          /\ Live(j) => (job'[j].ask = "no" <=> job[j].ask = "no" /\ j \notin TasksOf({p}))
      BY <3>1 DEF W
    <3> HIDE DEF p, r
    <3> QED BY <2>8, <2>9, <3>2, <3>3, AskedTables
  <2>11. Waiters'
    <3>u. UNCHANGED <<task, joining, epoch, life, locks, dep, stop>>
      BY <1>0 DEF admissionVars
    <3>1. ASSUME NEW j \in Jobs, Waits(j)' PROVE Waiter(j)'
      <4>1. CASE j # i
        <5>1. Alike(j) /\ Waits(j)
          BY <4>1, <3>1, <2>5 DEF Alike, Waits
        <5>2. Waiter(j)
          BY <5>1, <1>a DEF Waiters
        <5>3. TasksOf({job[j].pid})' = TasksOf({job[j].pid})
          BY <5>1, <3>u DEF TasksOf, Alike
        <5> QED BY <3>u, <5>1, <5>2, <5>3 DEF Waiter, Fresh, Alike
      <4>2. CASE j = i
        <5>1. TasksOf({job[i].pid})' = W
          BY <2>3, <2>4, <3>u DEF TasksOf, W
        <5>2. Waiter(i)'
          BY <1>0, <1>1, <2>3, <2>4, <3>u, <5>1 DEF Waiter, Fresh
        <5> QED BY <4>2, <5>2
      <4> QED BY <4>1, <4>2
    <3>2. \A j \in Jobs \ {i} : SameLock(j, j)' => job[j].phase = "draining" /\ job'[j].pid = job[j].pid
                                                    /\ job'[j].lock = job[j].lock
      BY <2>5 DEF Alike, SameLock
    <3>3. \A j \in Jobs \ {i} : ~(job[j].phase = "draining" /\ job[j].pid = p /\ job[j].lock = r.lock)
      BY <1>0 DEF LockFree
    <3>4. ASSUME NEW k \in Jobs, NEW j \in Jobs, SameLock(k, j)' PROVE k = j
      <4>1. CASE k # i /\ j # i
        <5>1. SameLock(k, j)
          BY <3>2, <3>4, <4>1 DEF SameLock
        <5> QED BY <5>1, <1>a DEF Waiters
      <4>2. CASE k = i /\ j # i
        BY <4>2, <2>3, <2>4, <3>2, <3>3, <3>4 DEF SameLock
      <4>3. CASE j = i /\ k # i
        BY <4>3, <2>3, <2>4, <3>2, <3>3, <3>4 DEF SameLock
      <4> QED BY <4>1, <4>2, <4>3
    <3> QED BY <3>1, <3>4 DEF Waiters
  <2>12. /\ dep' \in [Pids -> Departures] /\ stop' \in Shutdowns /\ UNCHANGED <<owns, shown>>
         /\ budget' \in [left : Nat, stops : Nat, interrupts : Nat] /\ dep' = dep /\ stop' = stop
    BY <1>a, <1>0 DEF Types, outside
  <2> QED BY <1>0, <2>7, <2>8, <2>9, <2>10, <2>11, <2>12, LikeKeeps
<1> QED BY <1>2, <1>3

\* Whoever has seen the tasks of a participant end finds none in the tables.
LEMMA NoTask ==
  ASSUME AInv, NEW P \in SUBSET Pids, NEW J, TasksOf(P) \subseteq J, Drained(J)
  PROVE  \A p \in P : task[p] = 0 /\ joining[p] = 0
<1>a. Types /\ Tables
  BY DEF AInv
<1> SUFFICES ASSUME NEW p \in P PROVE task[p] = 0 /\ joining[p] = 0
  OBVIOUS
<1>1. task[p] = 0
  <2> SUFFICES ASSUME task[p] # 0 PROVE FALSE
    OBVIOUS
  <2>1. Live(task[p])
    BY <1>a DEF Tables
  <2>2. task[p] \in J
    BY DEF TasksOf
  <2> QED BY <2>1, <2>2 DEF Drained, Live
<1>2. joining[p] = 0
  <2> SUFFICES ASSUME joining[p] # 0 PROVE FALSE
    OBVIOUS
  <2>1. Live(joining[p])
    BY <1>a DEF Tables
  <2>2. joining[p] \in J
    BY DEF TasksOf
  <2> QED BY <2>1, <2>2 DEF Drained, Live
<1> QED BY <1>1, <1>2

\* The lock is released and the turn's task is in the table: the tasks it waited for have
\* ended, and nobody else waits for the same.
LEMMA CreateStep ==
  ASSUME AInv, NEW i \in Jobs, Create(i)
  PROVE  AInv'
<1> DEFINE r == job[i]
           p == r.pid
           t == [r EXCEPT !.phase = "begin", !.waits = {}, !.lock = 0]
<1>a. Types /\ Tables /\ Waiters /\ Ended /\ Kept /\ Present /\ Lit
  BY DEF AInv
<1>0. /\ r.phase = "draining" /\ Drained(r.waits) /\ Waits(i)
      /\ UNCHANGED <<joining, focus, used, ready, departed, epoch, life, locks, dep, stop, owns, shown, budget>>
  BY DEF Create, Waits, admissionVars, outside
<1>1. /\ p \in Pids /\ r.kind # "none" /\ r \in JobRecs /\ Sane(r) /\ Waiter(i) /\ ~Live(i)
      /\ r.ask = "no" /\ ~r.busy
  BY <1>0, AtCall
<1>2. CASE Refused(i)
  <2>1. Put(i, Over(r)) /\ gen' = gen /\ task' = task /\ hist' = hist
    BY <1>2 DEF Create
  <2>2. departed' \subseteq departed /\ UNCHANGED <<gen, task, joining, table, ready, epoch, life, locks, dep, stop, outside>>
    BY <1>0, <2>1 DEF table, outside
  <2> QED BY <1>0, <2>1, <2>2, RefusedCall
<1>3. CASE ~Refused(i)
  <2>1. /\ job' = [job EXCEPT ![i] = t]
        /\ gen' = [gen EXCEPT ![p] = i] /\ task' = [task EXCEPT ![p] = i]
        /\ hist' = [hist EXCEPT ![p] = IF @ = None THEN <<>> ELSE @]
    BY <1>3 DEF Create, Put
  <2>2. /\ stop.phase = "none" /\ dep[p].phase = "none" /\ p \notin departed /\ Fresh(i)
        /\ r.lock = locks[p].n /\ TasksOf({p}) \subseteq r.waits
    BY <1>0, <1>1, <1>3 DEF Refused, Fresh, Waiter
  <2>3. task[p] = 0 /\ joining[p] = 0
    <3>1. {p} \in SUBSET Pids /\ p \in {p}
      BY <1>1
    <3> HIDE DEF p
    <3> QED BY <1>0, <2>2, <3>1, NoTask
  <2>4. /\ t \in JobRecs /\ Sane(t) /\ t.kind = r.kind /\ t.pid = p /\ t.epoch = r.epoch
        /\ t.phase = "begin" /\ t.ask = "no" /\ t.busy = FALSE /\ r.kind # "join"
    <3>1. "begin" \in Phases /\ {} \in SUBSET Jobs /\ 0 \in Nat
      BY DEF Phases
    <3>2. /\ t \in JobRecs /\ t.kind = r.kind /\ t.pid = r.pid /\ t.epoch = r.epoch
          /\ t.phase = "begin" /\ t.ask = r.ask /\ t.waits = {}
          /\ t.busy = r.busy /\ t.out = r.out /\ t.ack = r.ack /\ t.started = r.started
      BY <1>1, <3>1 DEF JobRecs
    <3> HIDE DEF t
    <3>3. r.out = <<>> /\ r.ack = "off" /\ ~r.started /\ r.busy \in BOOLEAN /\ r.kind # "join"
      BY <1>0, <1>1 DEF Sane, Terse, Asleep, Answers, JobRecs
    <3>4. ~Spoke(t) /\ \A m, n \in DOMAIN t.out : m < n => t.out[m] # "answer"
      BY <3>2, <3>3 DEF Spoke
    <3>5. Terse(t)
      BY <3>2, <3>3, <3>4 DEF Terse, Asleep, Early, Deciding, Telling, Answers
    <3>6. Sane(t)
      BY <1>0, <1>1, <3>2, <3>3, <3>5 DEF Sane, Asleep
    <3> QED BY <1>1, <3>2, <3>3, <3>6
  <2> HIDE DEF t
  <2>5. /\ job' \in [Jobs -> JobRecs] /\ job'[i] = t
        /\ \A j \in Jobs : (j # i => job'[j] = job[j]) /\ Sane(job'[j])
    BY <1>a, <2>1, <2>4 DEF Types, AInv
  <2>6. Live(i)' /\ \A j \in Jobs \ {i} : Live(j)' <=> Live(j)
    BY <2>4, <2>5 DEF Live
  <2>7. i \in 0 .. NumJobs /\ i # 0 /\ i \in Nat
    BY DEF Jobs
  <2>8. /\ gen' \in [Pids -> 0 .. NumJobs] /\ task' \in [Pids -> 0 .. NumJobs]
        /\ gen'[p] = i /\ task'[p] = i
        /\ \A o \in Pids \ {p} : gen'[o] = gen[o] /\ task'[o] = task[o]
    BY <1>a, <1>1, <2>1, <2>7 DEF Types
  <2>9. /\ hist' \in [Pids -> Seq(Jobs) \cup {None}]
        /\ hist'[p] = IF hist[p] = None THEN <<>> ELSE hist[p]
        /\ \A o \in Pids \ {p} : hist'[o] = hist[o]
    <3>1. hist \in [Pids -> Seq(Jobs) \cup {None}]
      BY <1>a DEF Types
    <3> DEFINE h == IF hist[p] = None THEN <<>> ELSE hist[p]
    <3>2. h \in Seq(Jobs) \cup {None} /\ hist' = [hist EXCEPT ![p] = h]
      BY <1>1, <2>1, <3>1
    <3> HIDE DEF h
    <3>3. /\ hist' \in [Pids -> Seq(Jobs) \cup {None}] /\ hist'[p] = h
          /\ \A o \in Pids \ {p} : hist'[o] = hist[o]
      BY <1>1, <3>1, <3>2
    <3> QED BY <3>3 DEF h
  <2>10. Types'
    BY <1>a, <1>0, <2>5, <2>8, <2>9 DEF Types
  <2>11. Tables'
    <3>1. ASSUME NEW j \in Jobs, Live(j)'
          PROVE  IF job'[j].kind = "join" THEN joining'[job'[j].pid] = j
                 ELSE task'[job'[j].pid] = j /\ (gen'[job'[j].pid] = j <=> job'[j].ask = "no")
      <4>1. CASE j = i
        BY <4>1, <2>4, <2>5, <2>8
      <4>2. CASE j # i
        <5>1. Live(j) /\ job'[j] = job[j]
          BY <4>2, <3>1, <2>5, <2>6
        <5>2. job[j].pid \in Pids /\ j # 0
          BY <5>1, AtTable
        <5>3. IF job[j].kind = "join" THEN joining[job[j].pid] = j
              ELSE task[job[j].pid] = j /\ (gen[job[j].pid] = j <=> job[j].ask = "no")
          BY <5>1, <1>a DEF Tables
        <5>4. job[j].kind # "join" => job[j].pid # p
          BY <5>2, <5>3, <2>3
        <5> QED BY <1>0, <5>1, <5>2, <5>3, <5>4, <2>8
      <4> QED BY <4>1, <4>2
    <3>2. ASSUME NEW o \in Pids
          PROVE  /\ task'[o] # 0 => Live(task[o])' /\ job'[task'[o]].pid = o /\ job'[task'[o]].kind # "join"
                 /\ joining'[o] # 0 =>
                      Live(joining[o])' /\ job'[joining'[o]].pid = o /\ job'[joining'[o]].kind = "join"
                 /\ gen'[o] \in {0, task'[o]}
      <4>1. /\ task[o] # 0 => task[o] \in Jobs /\ Live(task[o]) /\ job[task[o]].pid = o /\ job[task[o]].kind # "join"
            /\ joining[o] # 0 => joining[o] \in Jobs /\ Live(joining[o]) /\ job[joining[o]].pid = o
                                   /\ job[joining[o]].kind = "join"
            /\ gen[o] \in {0, task[o]}
        BY <1>a DEF Tables, Types, Jobs
      <4>2. task[o] # 0 => task[o] # i
        BY <4>1, <1>1
      <4>3. joining[o] # 0 => joining[o] # i /\ job'[joining[o]] = job[joining[o]] /\ Live(joining[o])'
        <5>1. joining[o] # 0 => joining[o] # i
          BY <4>1, <1>1
        <5>2. joining[o] # 0 => job'[joining[o]] = job[joining[o]]
          BY <4>1, <5>1, <2>5
        <5> QED BY <1>0, <4>1, <5>1, <5>2 DEF Live
      <4>4. CASE o = p
        <5>1. Live(task[o])'
          BY <4>4, <2>4, <2>5, <2>8 DEF Live
        <5> QED BY <1>0, <4>4, <4>1, <4>3, <5>1, <2>3, <2>4, <2>5, <2>8
      <4>5. CASE o # p
        <5>1. task[o] # 0 => job'[task[o]] = job[task[o]]
          BY <4>1, <4>2, <2>5
        <5>2. task[o] # 0 => Live(task[o])'
          BY <4>1, <4>5, <5>1, <2>8 DEF Live
        <5> QED BY <1>0, <4>5, <4>1, <4>3, <5>1, <5>2, <2>8
      <4> QED BY <4>4, <4>5
    <3> QED BY <3>1, <3>2 DEF Tables
  <2>12. Waiters'
    <3>1. ASSUME NEW j \in Jobs, Waits(j)' PROVE Waiter(j)'
      <4>1. j # i
        BY <3>1, <2>4, <2>5 DEF Waits
      <4>2. Waits(j) /\ job'[j] = job[j]
        BY <3>1, <4>1, <2>5 DEF Waits
      <4>3. Waiter(j) /\ job[j].pid \in Pids
        BY <4>2, AtCall
      <4>4. Fresh(j) /\ job[j].phase = "draining" => job[j].pid # p
        <5> SUFFICES ASSUME Fresh(j), job[j].phase = "draining", job[j].pid = p PROVE FALSE
          OBVIOUS
        <5>1. job[j].lock = r.lock
          BY <4>3, <2>2 DEF Waiter
        <5> QED BY <5>1, <4>1, <1>0, <1>a DEF Waiters, SameLock
      <4>5. job[j].pid # p => TasksOf({job[j].pid})' = TasksOf({job[j].pid})
        BY <1>0, <4>2, <4>3, <2>8 DEF TasksOf
      <4> QED BY <1>0, <4>2, <4>3, <4>4, <4>5 DEF Waiter, Fresh
    <3>2. ASSUME NEW k \in Jobs, NEW j \in Jobs, SameLock(k, j)' PROVE k = j
      <4>1. k # i /\ j # i
        BY <3>2, <2>4, <2>5 DEF SameLock
      <4>2. SameLock(k, j)
        BY <3>2, <4>1, <2>5 DEF SameLock
      <4> QED BY <4>2, <1>a DEF Waiters
    <3> QED BY <3>1, <3>2 DEF Waiters
  <2>13. Ended'
    <3>1. ASSUME NEW o \in Pids
          PROVE  /\ dep'[o].phase = "draining" => TasksOf({o})' \subseteq dep'[o].waits
                 /\ dep'[o].phase \in {"lock", "cleaning", "failed"} => task'[o] = 0 /\ joining'[o] = 0
      <4>1. CASE o = p
        BY <4>1, <1>0, <2>2
      <4>2. CASE o # p
        <5>1. TasksOf({o})' = TasksOf({o})
          BY <4>2, <1>0, <2>8 DEF TasksOf
        <5> QED BY <4>2, <5>1, <1>0, <1>a, <2>8 DEF Ended
      <4> QED BY <4>1, <4>2
    <3>2. stop'.phase = "none"
      BY <1>0, <2>2
    <3> QED BY <3>1, <3>2 DEF Ended
  <2>14. \A o \in Pids : hist'[o] # None =>
           \A n \in DOMAIN hist'[o] :
             /\ job'[hist'[o][n]].phase # "unborn"
             /\ dep[o].phase = "none" => job'[hist'[o][n]].epoch = epoch[o]
    <3> SUFFICES ASSUME NEW o \in Pids, hist'[o] # None, NEW n \in DOMAIN hist'[o]
                 PROVE  /\ job'[hist'[o][n]].phase # "unborn"
                        /\ dep[o].phase = "none" => job'[hist'[o][n]].epoch = epoch[o]
      OBVIOUS
    <3>0. DOMAIN <<>> = {}
      OBVIOUS
    <3>1. hist[o] # None /\ hist'[o] = hist[o]
      BY <2>9, <3>0
    <3>2. hist[o][n] \in Jobs /\ job[hist[o][n]].phase # "unborn"
          /\ (dep[o].phase = "none" => job[hist[o][n]].epoch = epoch[o])
      BY SMTT(30), <2>2, <3>1, <1>a, ElementOfSeq, LenProperties DEF Kept, Types, Present
    <3>3. \A j \in Jobs : job'[j].epoch = job[j].epoch /\ (job[j].phase # "unborn" => job'[j].phase # "unborn")
      BY <2>4, <2>5
    <3> QED BY <3>1, <3>2, <3>3
  <2>15. Kept'
    <3>1. \A o \in Pids : owns'[o] \subseteq used'[o]
      BY <1>a, <1>0 DEF Kept
    <3>2. \A o \in Pids : dep'[o].phase = "cleaning" =>
            focus'[o] = None /\ hist'[o] = None /\ (~dep'[o].bad => used'[o] \subseteq dep'[o].todo)
      <4>1. \A o \in Pids : dep[o].phase = "cleaning" => o # p
        BY <2>2
      <4> QED BY <4>1, <1>a, <1>0, <2>9 DEF Kept
    <3>3. \A o \in departed' : dep'[o].phase = "none" /\ stop'.phase = "none" =>
           /\ task'[o] = 0 /\ joining'[o] = 0
           /\ focus'[o] = None /\ used'[o] = {} /\ hist'[o] = None /\ o \notin ready'
      <4>1. \A o \in departed : o \in Pids /\ o # p
        BY <2>2, <1>a DEF Types
      <4> QED BY SMTT(30), <4>1, <1>a, <1>0, <2>8, <2>9 DEF Kept
    <3>4. stop'.phase = "none"
      BY <1>0, <2>2
    <3> QED BY <3>1, <3>2, <3>3, <3>4, <2>14 DEF Kept
  <2>16. Present'
    <3> SUFFICES ASSUME NEW o \in Pids, dep'[o].phase = "none", stop'.phase = "none"
                 PROVE  /\ task'[o] # 0 => job'[task'[o]].epoch = epoch'[o]
                        /\ hist'[o] # None => \A n \in DOMAIN hist'[o] : job'[hist'[o][n]].epoch = epoch'[o]
      BY DEF Present
    <3>1. task'[o] # 0 => job'[task'[o]].epoch = epoch[o]
      <4>1. CASE o = p
        BY <4>1, <2>2, <2>4, <2>5, <2>8 DEF Fresh
      <4>2. CASE o # p
        <5>1. task'[o] = task[o] /\ dep[o].phase = "none" /\ stop.phase = "none"
          BY <4>2, <1>0, <2>8
        <5>2. task[o] # 0 => task[o] \in Jobs /\ Live(task[o]) /\ job[task[o]].epoch = epoch[o]
          BY <5>1, <1>a DEF Present, Types, Jobs, Tables
        <5> QED BY <5>1, <5>2, <1>1, <2>5
      <4> QED BY <4>1, <4>2
    <3>2. epoch' = epoch /\ dep[o].phase = "none"
      BY <1>0
    <3> QED BY <3>1, <3>2, <2>14
  <2>17. Lit'
    <3> SUFFICES ASSUME NEW j \in Jobs, Live(j)', job'[j].busy, job'[j].phase \notin {"status", "ending"}
                 PROVE  shown'[job'[j].pid] = "processing"
      BY DEF Lit
    <3>1. j # i
      BY <2>4, <2>5
    <3> QED BY <3>1, <1>0, <1>a, <2>5, <2>6 DEF Lit
  <2> QED BY <2>5, <2>10, <2>11, <2>12, <2>13, <2>15, <2>16, <2>17 DEF AInv
<1> QED BY <1>2, <1>3

\* A participant that joins is readmitted, and its initialization is in the table.
LEMMA JoinLockedStep ==
  ASSUME AInv, NEW i \in Jobs, JoinLocked(i)
  PROVE  AInv'
<1> DEFINE r == job[i]
           p == r.pid
           t == [r EXCEPT !.phase = "waitinit"]
           late == \/ stop.phase # "none" \/ r.life # life
                   \/ r.epoch # epoch[p] \/ dep[p].phase # "none"
<1>a. Types /\ Tables /\ Waiters /\ Ended /\ Kept /\ Present /\ Lit
  BY DEF AInv
<1>0. /\ r.phase = "queued" /\ r.kind = "join" /\ Waits(i) /\ LockFree(p, r.lock)
      /\ departed' = IF late THEN departed ELSE departed \ {p}
      /\ UNCHANGED <<gen, task, focus, used, hist, ready, epoch, life, locks, dep, stop, owns, shown, budget>>
  BY DEF JoinLocked, Waits, table, outside
<1>1. /\ p \in Pids /\ r.kind # "none" /\ r \in JobRecs /\ Sane(r) /\ Waiter(i) /\ ~Live(i)
      /\ r.ask = "no" /\ ~r.busy
  BY <1>0, AtCall
<1>2. CASE late \/ p \in ready \/ joining[p] # 0
  <2>1. Put(i, Over(r)) /\ joining' = joining
    BY <1>2 DEF JoinLocked
  <2>2. departed' \subseteq departed
    BY <1>0
  <2>3. UNCHANGED <<gen, task, joining, table, ready, epoch, life, locks, dep, stop, outside>>
    BY <1>0, <2>1 DEF table, outside
  <2> QED BY <1>0, <2>1, <2>2, <2>3, RefusedCall
<1>3. CASE ~(late \/ p \in ready \/ joining[p] # 0)
  <2>1. job' = [job EXCEPT ![i] = t] /\ joining' = [joining EXCEPT ![p] = i] /\ departed' = departed \ {p}
    BY <1>0, <1>3 DEF JoinLocked, Put
  <2>2. /\ stop.phase = "none" /\ dep[p].phase = "none" /\ Fresh(i)
        /\ r.lock = locks[p].n /\ joining[p] = 0 /\ p \notin departed'
    BY <1>0, <1>1, <1>3, <2>1 DEF Fresh, Waiter
  <2>4. /\ t \in JobRecs /\ Sane(t) /\ t.kind = "join" /\ t.pid = p /\ t.epoch = r.epoch
        /\ t.phase = "waitinit" /\ t.ask = "no" /\ t.busy = FALSE
    <3>1. "waitinit" \in Phases
      BY DEF Phases
    <3>2. /\ t \in JobRecs /\ t.kind = r.kind /\ t.pid = r.pid /\ t.epoch = r.epoch
          /\ t.phase = "waitinit" /\ t.ask = r.ask /\ t.waits = r.waits
          /\ t.busy = r.busy /\ t.out = r.out /\ t.ack = r.ack /\ t.started = r.started
      BY <1>1, <3>1 DEF JobRecs
    <3> HIDE DEF t
    <3>3. r.out = <<>> /\ r.ack = "off" /\ ~r.started /\ r.busy \in BOOLEAN /\ r.waits = {}
      BY <1>0, <1>1 DEF Sane, Terse, Asleep, Answers, JobRecs
    <3>4. ~Spoke(t) /\ \A m, n \in DOMAIN t.out : m < n => t.out[m] # "answer"
      BY <3>2, <3>3 DEF Spoke
    <3>5. Terse(t)
      BY <3>2, <3>3, <3>4 DEF Terse, Asleep, Early, Deciding, Telling, Answers
    <3>6. Sane(t)
      BY <1>0, <1>1, <3>2, <3>3, <3>5 DEF Sane, Asleep
    <3> QED BY <1>0, <1>1, <3>2, <3>3, <3>6
  <2> HIDE DEF t
  <2>5. /\ job' \in [Jobs -> JobRecs] /\ job'[i] = t
        /\ \A j \in Jobs : (j # i => job'[j] = job[j]) /\ Sane(job'[j])
    BY <1>a, <2>1, <2>4 DEF Types, AInv
  <2>6. Live(i)' /\ \A j \in Jobs \ {i} : Live(j)' <=> Live(j)
    BY <2>4, <2>5 DEF Live
  <2>7. i \in 0 .. NumJobs /\ i # 0 /\ i \in Nat
    BY DEF Jobs
  <2>8. /\ joining' \in [Pids -> 0 .. NumJobs] /\ joining'[p] = i
        /\ \A o \in Pids \ {p} : joining'[o] = joining[o]
    BY <1>a, <1>1, <2>1, <2>7 DEF Types
  <2>10. Types'
    BY <1>a, <1>0, <2>1, <2>5, <2>8 DEF Types
  <2>11. Tables'
    <3>1. ASSUME NEW j \in Jobs, Live(j)'
          PROVE  IF job'[j].kind = "join" THEN joining'[job'[j].pid] = j
                 ELSE task'[job'[j].pid] = j /\ (gen'[job'[j].pid] = j <=> job'[j].ask = "no")
      <4>1. CASE j = i
        BY <4>1, <2>4, <2>5, <2>8
      <4>2. CASE j # i
        <5>1. Live(j) /\ job'[j] = job[j]
          BY <4>2, <3>1, <2>5, <2>6
        <5>2. job[j].pid \in Pids /\ j # 0
          BY <5>1, AtTable
        <5>3. IF job[j].kind = "join" THEN joining[job[j].pid] = j
              ELSE task[job[j].pid] = j /\ (gen[job[j].pid] = j <=> job[j].ask = "no")
          BY <5>1, <1>a DEF Tables
        <5>4. job[j].kind = "join" => job[j].pid # p
          BY <5>2, <5>3, <2>2
        <5> QED BY <1>0, <5>1, <5>2, <5>3, <5>4, <2>8
      <4> QED BY <4>1, <4>2
    <3>2. ASSUME NEW o \in Pids
          PROVE  /\ task'[o] # 0 => Live(task[o])' /\ job'[task'[o]].pid = o /\ job'[task'[o]].kind # "join"
                 /\ joining'[o] # 0 =>
                      Live(joining[o])' /\ job'[joining'[o]].pid = o /\ job'[joining'[o]].kind = "join"
                 /\ gen'[o] \in {0, task'[o]}
      <4>1. /\ task[o] # 0 => task[o] \in Jobs /\ Live(task[o]) /\ job[task[o]].pid = o /\ job[task[o]].kind # "join"
            /\ joining[o] # 0 => joining[o] \in Jobs /\ Live(joining[o]) /\ job[joining[o]].pid = o
                                   /\ job[joining[o]].kind = "join"
            /\ gen[o] \in {0, task[o]}
        BY <1>a DEF Tables, Types, Jobs
      <4>2. joining[o] # 0 => joining[o] # i
        BY <4>1, <1>1
      <4>3. task[o] # 0 => task[o] # i /\ job'[task[o]] = job[task[o]] /\ Live(task[o])'
        <5>1. task[o] # 0 => task[o] # i
          BY <4>1, <1>1
        <5>2. task[o] # 0 => job'[task[o]] = job[task[o]]
          BY <4>1, <5>1, <2>5
        <5> QED BY <1>0, <4>1, <5>1, <5>2 DEF Live
      <4>4. CASE o = p
        <5>1. Live(joining[o])'
          BY <4>4, <2>4, <2>5, <2>8 DEF Live
        <5> QED BY <1>0, <4>4, <4>1, <4>3, <5>1, <2>2, <2>4, <2>5, <2>8
      <4>5. CASE o # p
        <5>1. joining[o] # 0 => job'[joining[o]] = job[joining[o]]
          BY <4>1, <4>2, <2>5
        <5>2. joining[o] # 0 => Live(joining[o])'
          BY <4>1, <4>5, <5>1, <2>8 DEF Live
        <5> QED BY <1>0, <4>5, <4>1, <4>3, <5>1, <5>2, <2>8
      <4> QED BY <4>4, <4>5
    <3> QED BY <3>1, <3>2 DEF Tables
  <2>12. Waiters'
    <3>1. ASSUME NEW j \in Jobs, Waits(j)' PROVE Waiter(j)'
      <4>1. j # i
        BY <3>1, <2>4, <2>5 DEF Waits
      <4>2. Waits(j) /\ job'[j] = job[j]
        BY <3>1, <4>1, <2>5 DEF Waits
      <4>3. Waiter(j) /\ job[j].pid \in Pids
        BY <4>2, AtCall
      <4>4. Fresh(j) /\ job[j].phase = "draining" => job[j].pid # p
        <5> SUFFICES ASSUME Fresh(j), job[j].phase = "draining", job[j].pid = p PROVE FALSE
          OBVIOUS
        <5>1. job[j].lock = r.lock
          BY <4>3, <2>2 DEF Waiter
        <5> QED BY <5>1, <1>0 DEF LockFree
      <4>5. job[j].pid # p => TasksOf({job[j].pid})' = TasksOf({job[j].pid})
        BY <1>0, <4>2, <4>3, <2>8 DEF TasksOf
      <4> QED BY <1>0, <4>2, <4>3, <4>4, <4>5 DEF Waiter, Fresh
    <3>2. ASSUME NEW k \in Jobs, NEW j \in Jobs, SameLock(k, j)' PROVE k = j
      <4>1. k # i /\ j # i
        BY <3>2, <2>4, <2>5 DEF SameLock
      <4>2. SameLock(k, j)
        BY <3>2, <4>1, <2>5 DEF SameLock
      <4> QED BY <4>2, <1>a DEF Waiters
    <3> QED BY <3>1, <3>2 DEF Waiters
  <2>13. Ended'
    <3>1. ASSUME NEW o \in Pids
          PROVE  /\ dep'[o].phase = "draining" => TasksOf({o})' \subseteq dep'[o].waits
                 /\ dep'[o].phase \in {"lock", "cleaning", "failed"} => task'[o] = 0 /\ joining'[o] = 0
      <4>1. CASE o = p
        BY <4>1, <1>0, <2>2
      <4>2. CASE o # p
        <5>1. TasksOf({o})' = TasksOf({o})
          BY <4>2, <1>0, <2>8 DEF TasksOf
        <5> QED BY <4>2, <5>1, <1>0, <1>a, <2>8 DEF Ended
      <4> QED BY <4>1, <4>2
    <3>2. stop'.phase = "none"
      BY <1>0, <2>2
    <3> QED BY <3>1, <3>2 DEF Ended
  <2>14. \A o \in Pids : hist[o] # None =>
           \A n \in DOMAIN hist[o] :
             /\ job'[hist[o][n]].phase # "unborn"
             /\ dep[o].phase = "none" => job'[hist[o][n]].epoch = epoch[o]
    <3> SUFFICES ASSUME NEW o \in Pids, hist[o] # None, NEW n \in DOMAIN hist[o]
                 PROVE  /\ job'[hist[o][n]].phase # "unborn"
                        /\ dep[o].phase = "none" => job'[hist[o][n]].epoch = epoch[o]
      OBVIOUS
    <3>2. hist[o][n] \in Jobs /\ job[hist[o][n]].phase # "unborn"
          /\ (dep[o].phase = "none" => job[hist[o][n]].epoch = epoch[o])
      BY SMTT(30), <2>2, <1>a, ElementOfSeq, LenProperties DEF Kept, Types, Present
    <3>3. \A j \in Jobs : job'[j].epoch = job[j].epoch /\ (job[j].phase # "unborn" => job'[j].phase # "unborn")
      BY <2>4, <2>5
    <3> QED BY <3>2, <3>3
  <2>15. Kept'
    <3>1. \A o \in Pids : owns'[o] \subseteq used'[o]
      BY <1>a, <1>0 DEF Kept
    <3>2. \A o \in Pids : dep'[o].phase = "cleaning" =>
            focus'[o] = None /\ hist'[o] = None /\ (~dep'[o].bad => used'[o] \subseteq dep'[o].todo)
      BY <1>a, <1>0 DEF Kept
    <3>3. \A o \in departed' : dep'[o].phase = "none" /\ stop'.phase = "none" =>
           /\ task'[o] = 0 /\ joining'[o] = 0
           /\ focus'[o] = None /\ used'[o] = {} /\ hist'[o] = None /\ o \notin ready'
      <4>1. \A o \in departed' : o \in Pids /\ o # p /\ o \in departed
        BY <2>1, <1>a DEF Types
      <4> QED BY <4>1, <1>a, <1>0, <2>8 DEF Kept
    <3>4. stop'.phase = "none"
      BY <1>0, <2>2
    <3> QED BY <1>0, <3>1, <3>2, <3>3, <3>4, <2>14 DEF Kept
  <2>16. Present'
    <3> SUFFICES ASSUME NEW o \in Pids, dep'[o].phase = "none", stop'.phase = "none"
                 PROVE  /\ task'[o] # 0 => job'[task'[o]].epoch = epoch'[o]
                        /\ hist'[o] # None => \A n \in DOMAIN hist'[o] : job'[hist'[o][n]].epoch = epoch'[o]
      BY DEF Present
    <3>1. epoch' = epoch /\ dep[o].phase = "none" /\ hist' = hist /\ task' = task /\ stop.phase = "none"
      BY <1>0
    <3>2. task[o] # 0 => task[o] \in Jobs /\ Live(task[o]) /\ job[task[o]].epoch = epoch[o]
      BY <3>1, <1>a DEF Present, Types, Jobs, Tables
    <3>3. task[o] # 0 => job'[task[o]].epoch = epoch[o]
      BY <3>2, <1>1, <2>5
    <3> QED BY <3>1, <3>3, <2>14
  <2>17. Lit'
    <3> SUFFICES ASSUME NEW j \in Jobs, Live(j)', job'[j].busy, job'[j].phase \notin {"status", "ending"}
                 PROVE  shown'[job'[j].pid] = "processing"
      BY DEF Lit
    <3>1. j # i
      BY <2>4, <2>5
    <3> QED BY <3>1, <1>0, <1>a, <2>5, <2>6 DEF Lit
  <2> QED BY <2>5, <2>10, <2>11, <2>12, <2>13, <2>15, <2>16, <2>17 DEF AInv
<1> QED BY <1>2, <1>3

\* A task that ends is out of the tables, and reports "idle" for its own turn only.
LEMMA EndStep ==
  ASSUME AInv, NEW i \in Jobs, End(i)
  PROVE  AInv'
<1> DEFINE r == job[i]
           p == r.pid
           t == Over(r)
<1>a. Types /\ Tables /\ Waiters /\ Ended /\ Kept /\ Present /\ Lit /\ Sane(r) /\ r \in JobRecs
  BY DEF AInv, Types
<1>0. /\ r.phase = "ending" /\ job' = [job EXCEPT ![i] = t]
      /\ task' = [task EXCEPT ![p] = IF @ = i THEN 0 ELSE @]
      /\ gen' = [gen EXCEPT ![p] = IF task[p] = i THEN 0 ELSE @]
      /\ joining' = [joining EXCEPT ![p] = IF @ = i THEN 0 ELSE @]
      /\ UNCHANGED <<focus, used, hist, ready, departed, epoch, life, locks, dep, stop, owns, budget>>
  BY DEF End, Finish, Put, table, admissionVars
<1>1. p \in Pids /\ r.kind # "none" /\ i # 0 /\ i \in Nat /\ Live(i)
  BY <1>0, <1>a DEF Sane, Jobs, Live
<1>2. t \in JobRecs /\ Sane(t) /\ t.kind = r.kind /\ t.pid = p /\ t.phase = "over" /\ t.epoch = r.epoch
  BY <1>1, <1>a, OverIs
<1> HIDE DEF t
<1>3. /\ job' \in [Jobs -> JobRecs] /\ job'[i] = t
      /\ \A j \in Jobs : (j # i => job'[j] = job[j]) /\ Sane(job'[j])
  BY <1>a, <1>0, <1>2 DEF Types, AInv
<1>4. ~Live(i)' /\ \A j \in Jobs \ {i} : Live(j)' <=> Live(j)
  BY <1>2, <1>3 DEF Live
<1>5. /\ task' \in [Pids -> 0 .. NumJobs] /\ gen' \in [Pids -> 0 .. NumJobs] /\ joining' \in [Pids -> 0 .. NumJobs]
      /\ \A o \in Pids : /\ task'[o] = IF task[o] = i THEN 0 ELSE task[o]
                         /\ joining'[o] = IF joining[o] = i THEN 0 ELSE joining[o]
                         /\ gen'[o] = IF task[o] = i THEN 0 ELSE gen[o]
  <2>1. 0 \in 0 .. NumJobs
    BY AgentRouterAssumption
  <2>2. \A o \in Pids \ {p} : task[o] # i /\ joining[o] # i
    BY <1>a, <1>1 DEF Tables
  <2> QED BY <2>1, <2>2, <1>a, <1>0, <1>1 DEF Types
<1>6. \A o \in Pids : TasksOf({o})' \subseteq TasksOf({o})
  BY <1>5 DEF TasksOf
<1>7. TasksOf(Pids)' \subseteq TasksOf(Pids)
  BY <1>5 DEF TasksOf
<1>8. shown' \in [Pids -> {"idle", "processing"}] /\ (r.busy \/ shown' = shown)
      /\ \A o \in Pids \ {p} : shown'[o] = shown[o]
  <2>0. shown \in [Pids -> {"idle", "processing"}]
    BY <1>a DEF Types
  <2>1. shown' = shown \/ shown' = [shown EXCEPT ![p] = IF r.busy THEN "idle" ELSE @]
    BY DEF End
  <2>2. CASE shown' = shown
    BY <2>0, <2>2
  <2>3. CASE r.busy /\ shown' = [shown EXCEPT ![p] = "idle"]
    BY <2>0, <2>3, <1>1
  <2>4. CASE ~r.busy /\ shown' = [shown EXCEPT ![p] = @]
    BY <2>0, <2>4, <1>1
  <2> QED BY <2>1, <2>2, <2>3, <2>4
<1>10. Types'
  BY <1>a, <1>0, <1>3, <1>5, <1>8 DEF Types
<1>11. Tables'
  <2>1. ASSUME NEW j \in Jobs, Live(j)'
        PROVE  IF job'[j].kind = "join" THEN joining'[job'[j].pid] = j
               ELSE task'[job'[j].pid] = j /\ (gen'[job'[j].pid] = j <=> job'[j].ask = "no")
    <3>1. j # i /\ Live(j) /\ job'[j] = job[j]
      BY <2>1, <1>3, <1>4
    <3>2. job[j].pid \in Pids
      BY <3>1, AtTable
    <3>3. IF job[j].kind = "join" THEN joining[job[j].pid] = j
          ELSE task[job[j].pid] = j /\ (gen[job[j].pid] = j <=> job[j].ask = "no")
      BY <3>1, <1>a DEF Tables
    <3> QED BY <3>1, <3>2, <3>3, <1>5
  <2>2. ASSUME NEW o \in Pids
        PROVE  /\ task'[o] # 0 => Live(task[o])' /\ job'[task'[o]].pid = o /\ job'[task'[o]].kind # "join"
               /\ joining'[o] # 0 =>
                    Live(joining[o])' /\ job'[joining'[o]].pid = o /\ job'[joining'[o]].kind = "join"
               /\ gen'[o] \in {0, task'[o]}
    <3>1. /\ task[o] # 0 => task[o] \in Jobs /\ Live(task[o]) /\ job[task[o]].pid = o /\ job[task[o]].kind # "join"
          /\ joining[o] # 0 => joining[o] \in Jobs /\ Live(joining[o]) /\ job[joining[o]].pid = o
                                 /\ job[joining[o]].kind = "join"
          /\ gen[o] \in {0, task[o]}
      BY <1>a DEF Tables, Types, Jobs
    <3>2. task'[o] # 0 => task'[o] = task[o] /\ task[o] # i /\ job'[task[o]] = job[task[o]]
      BY <3>1, <1>3, <1>5
    <3>3. joining'[o] # 0 => joining'[o] = joining[o] /\ joining[o] # i /\ job'[joining[o]] = job[joining[o]]
      BY <3>1, <1>3, <1>5
    <3>4. task'[o] # 0 => Live(task[o])'
      BY <3>1, <3>2 DEF Live
    <3>5. joining'[o] # 0 => Live(joining[o])'
      BY <3>1, <3>3 DEF Live
    <3>6. gen'[o] \in {0, task'[o]}
      BY <3>1, <1>5
    <3> QED BY <3>1, <3>2, <3>3, <3>4, <3>5, <3>6
  <2> QED BY <2>1, <2>2 DEF Tables
<1>12. Waiters'
  <2>1. ASSUME NEW j \in Jobs, Waits(j)' PROVE Waiter(j)'
    <3>1. j # i
      BY <2>1, <1>2, <1>3 DEF Waits
    <3>2. Waits(j) /\ job'[j] = job[j]
      BY <2>1, <3>1, <1>3 DEF Waits
    <3>3. Waiter(j) /\ job[j].pid \in Pids
      BY <3>2, AtCall
    <3>4. TasksOf({job[j].pid})' \subseteq TasksOf({job[j].pid})
      BY <3>2, <3>3, <1>5 DEF TasksOf
    <3> QED BY <1>0, <3>2, <3>3, <3>4 DEF Waiter, Fresh
  <2>2. ASSUME NEW k \in Jobs, NEW j \in Jobs, SameLock(k, j)' PROVE k = j
    <3>1. k # i /\ j # i
      BY <2>2, <1>2, <1>3 DEF SameLock
    <3>2. SameLock(k, j)
      BY <2>2, <3>1, <1>3 DEF SameLock
    <3> QED BY <3>2, <1>a DEF Waiters
  <2> QED BY <2>1, <2>2 DEF Waiters
<1>13. Ended'
  BY <1>a, <1>0, <1>5, <1>6, <1>7 DEF Ended
<1>14. \A o \in Pids : hist[o] # None =>
         \A n \in DOMAIN hist[o] :
           /\ job'[hist[o][n]].phase # "unborn"
           /\ dep[o].phase = "none" /\ stop.phase = "none" => job'[hist[o][n]].epoch = epoch[o]
  <2> SUFFICES ASSUME NEW o \in Pids, hist[o] # None, NEW n \in DOMAIN hist[o]
               PROVE  /\ job'[hist[o][n]].phase # "unborn"
                      /\ dep[o].phase = "none" /\ stop.phase = "none" => job'[hist[o][n]].epoch = epoch[o]
    OBVIOUS
  <2>2. hist[o][n] \in Jobs /\ job[hist[o][n]].phase # "unborn"
        /\ (dep[o].phase = "none" /\ stop.phase = "none" => job[hist[o][n]].epoch = epoch[o])
    BY <1>a, ElementOfSeq, LenProperties DEF Kept, Types, Present
  <2>3. \A j \in Jobs : job'[j].epoch = job[j].epoch /\ (job[j].phase # "unborn" => job'[j].phase # "unborn")
    BY <1>2, <1>3
  <2> QED BY <2>2, <2>3
<1>15. Kept'
  <2>1. \A o \in Pids : owns'[o] \subseteq used'[o]
    BY <1>a, <1>0 DEF Kept
  <2>2. \A o \in Pids : dep'[o].phase = "cleaning" =>
          focus'[o] = None /\ hist'[o] = None /\ (~dep'[o].bad => used'[o] \subseteq dep'[o].todo)
    BY <1>a, <1>0 DEF Kept
  <2>3. \A o \in departed' : dep'[o].phase = "none" /\ stop'.phase = "none" =>
         /\ task'[o] = 0 /\ joining'[o] = 0
         /\ focus'[o] = None /\ used'[o] = {} /\ hist'[o] = None /\ o \notin ready'
    <3>1. departed \subseteq Pids
      BY <1>a DEF Types
    <3> QED BY <3>1, <1>a, <1>0, <1>5 DEF Kept
  <2>4. stop'.phase = "leaving" /\ ~stop'.bad =>
         \A o \in Pids \ stop'.todo : o # stop'.at \/ dep'[o].phase = "none" => hist'[o] = None
    BY <1>a, <1>0 DEF Kept
  <2> QED BY <1>0, <2>1, <2>2, <2>3, <2>4, <1>14 DEF Kept
<1>16. Present'
  <2> SUFFICES ASSUME NEW o \in Pids, dep'[o].phase = "none", stop'.phase = "none"
               PROVE  /\ task'[o] # 0 => job'[task'[o]].epoch = epoch'[o]
                      /\ hist'[o] # None => \A n \in DOMAIN hist'[o] : job'[hist'[o][n]].epoch = epoch'[o]
    BY DEF Present
  <2>1. epoch' = epoch /\ dep[o].phase = "none" /\ hist' = hist /\ stop.phase = "none"
    BY <1>0
  <2>2. task[o] # 0 => task[o] \in Jobs /\ job[task[o]].epoch = epoch[o]
    BY <2>1, <1>a DEF Present, Types, Jobs
  <2>3. task'[o] # 0 => job'[task'[o]].epoch = epoch[o]
    BY <2>2, <1>3, <1>5
  <2> QED BY <2>1, <2>3, <1>14
<1>17. Lit'
  <2> SUFFICES ASSUME NEW j \in Jobs, Live(j)', job'[j].busy, job'[j].phase \notin {"status", "ending"}
               PROVE  shown'[job'[j].pid] = "processing"
    BY DEF Lit
  <2>1. j # i /\ Live(j) /\ job'[j] = job[j]
    BY <1>3, <1>4
  <2>2. job[j].pid \in Pids /\ shown[job[j].pid] = "processing" /\ job[j].kind # "join"
    <3>1. Sane(job[j])
      BY DEF AInv
    <3> QED BY <2>1, <1>a, <3>1, AtTable DEF Lit, Sane
  <2>3. r.busy => job[j].pid # p
    <3> SUFFICES ASSUME r.busy, job[j].pid = p PROVE FALSE
      OBVIOUS
    <3>1. r.kind # "join"
      BY <1>a DEF Sane
    <3>2. task[p] = i /\ task[p] = j
      BY <3>1, <2>1, <2>2, <1>1, <1>a DEF Tables
    <3> QED BY <3>2, <2>1
  <2> QED BY <2>1, <2>2, <2>3, <1>8
<1> QED BY <1>3, <1>10, <1>11, <1>12, <1>13, <1>15, <1>16, <1>17 DEF AInv

-----------------------------------------------------------------------------
(* Departures and shutdowns. *)

\* Steps that leave the tasks alone.
LEMMA SameJobs ==
  ASSUME AInv, UNCHANGED <<job, gen, task, joining, shown>>, Types', Ended', Kept', Present',
         \A j \in Jobs : Waits(j) => Waiter(j)'
  PROVE  AInv'
<1>a. (\A j \in Jobs : Sane(job[j])) /\ Tables /\ Waiters /\ Lit
  BY DEF AInv
<1>1. \A j \in Jobs : Sane(job'[j])
  BY <1>a
<1>2. Tables'
  BY <1>a DEF Tables, Live
<1>3. Waiters'
  BY <1>a DEF Waiters, Waits, SameLock
<1>4. Lit'
  BY <1>a DEF Lit, Live
<1> QED BY <1>1, <1>2, <1>3, <1>4 DEF AInv

\* A departure that goes on, or fails.
LEMMA DepartureGoesOn ==
  ASSUME AInv, NEW p \in Pids, NEW d \in Departures, dep[p].phase # "none",
         d.phase \in {"lock", "cleaning", "failed"}, dep' = [dep EXCEPT ![p] = d],
         task[p] = 0 /\ joining[p] = 0,
         UNCHANGED <<job, gen, task, joining, ready, departed, epoch, life, stop, shown, budget>>,
         locks' \in [Pids -> [n : Nat, made : BOOLEAN]], \A o \in Pids : locks'[o].n = locks[o].n,
         focus' \in [Pids -> Dests \cup {None}], \A o \in Pids \ {p} : focus'[o] = focus[o],
         used' \in [Pids -> SUBSET Dests], \A o \in Pids \ {p} : used'[o] = used[o],
         owns' \in [Pids -> SUBSET Dests], \A o \in Pids \ {p} : owns'[o] = owns[o],
         hist' \in [Pids -> Seq(Jobs) \cup {None}], \A o \in Pids \ {p} : hist'[o] = hist[o],
         owns'[p] \subseteq used'[p], hist'[p] = hist[p] \/ hist'[p] = None,
         d.phase = "cleaning" =>
           focus'[p] = None /\ hist'[p] = None /\ (~d.bad => used'[p] \subseteq d.todo)
  PROVE  AInv'
<1>a. Types /\ Waiters /\ Ended /\ Kept /\ Present
  BY DEF AInv
<1>1. dep' \in [Pids -> Departures] /\ dep'[p] = d /\ \A o \in Pids \ {p} : dep'[o] = dep[o]
  BY <1>a DEF Types
<1>2. \A o \in Pids : dep'[o].phase = "none" => o # p /\ dep[o].phase = "none"
  BY <1>1
<1>3. Types'
  BY <1>a, <1>1 DEF Types
<1>4. ASSUME NEW j \in Jobs, Waits(j) PROVE Waiter(j)'
  <2>1. Waiter(j) /\ job[j].pid \in Pids
    BY <1>4, AtCall
  <2>2. TasksOf({job[j].pid})' = TasksOf({job[j].pid})
    BY DEF TasksOf
  <2>3. dep[job[j].pid].phase = "none" => dep'[job[j].pid].phase = "none"
    BY <2>1, <1>1
  <2> QED BY <2>1, <2>2, <2>3 DEF Waiter, Fresh
<1>5. Ended'
  <2>1. \A o \in Pids : /\ dep'[o].phase = "draining" => TasksOf({o})' \subseteq dep'[o].waits
                        /\ dep'[o].phase \in {"lock", "cleaning", "failed"} => task'[o] = 0 /\ joining'[o] = 0
    <3> SUFFICES ASSUME NEW o \in Pids
                 PROVE  /\ dep'[o].phase = "draining" => TasksOf({o})' \subseteq dep'[o].waits
                        /\ dep'[o].phase \in {"lock", "cleaning", "failed"} => task'[o] = 0 /\ joining'[o] = 0
      OBVIOUS
    <3>1. TasksOf({o})' = TasksOf({o})
      BY DEF TasksOf
    <3>2. CASE o = p
      BY <3>2, <1>1
    <3>3. CASE o # p
      BY SMTT(30), <3>1, <3>3, <1>1, <1>a DEF Ended
    <3> QED BY <3>2, <3>3
  <2>2. TasksOf(Pids)' = TasksOf(Pids)
    BY DEF TasksOf
  <2> QED BY <2>1, <2>2, <1>a DEF Ended
<1>6. Kept'
  <2>1. \A o \in Pids : owns'[o] \subseteq used'[o]
    BY <1>a DEF Kept
  <2>2. \A o \in Pids : hist'[o] # None => hist'[o] = hist[o]
    OBVIOUS
  <2>3. \A o \in Pids : hist'[o] # None => \A n \in DOMAIN hist'[o] : job'[hist'[o][n]].phase # "unborn"
    <3> SUFFICES ASSUME NEW o \in Pids, hist'[o] # None, NEW n \in DOMAIN hist'[o]
                 PROVE  job'[hist'[o][n]].phase # "unborn"
      OBVIOUS
    <3>1. hist'[o] = hist[o] /\ job' = job
      BY <2>2
    <3>2. hist[o] # None => \A m \in DOMAIN hist[o] : job[hist[o][m]].phase # "unborn"
      BY <1>a DEF Kept
    <3> QED BY <3>1, <3>2
  <2>4. \A o \in Pids : dep'[o].phase = "cleaning" =>
          focus'[o] = None /\ hist'[o] = None /\ (~dep'[o].bad => used'[o] \subseteq dep'[o].todo)
    <3> SUFFICES ASSUME NEW o \in Pids, dep'[o].phase = "cleaning"
                 PROVE  focus'[o] = None /\ hist'[o] = None /\ (~dep'[o].bad => used'[o] \subseteq dep'[o].todo)
      OBVIOUS
    <3>1. CASE o = p
      BY <3>1, <1>1
    <3>2. CASE o # p
      <4>1. dep'[o] = dep[o] /\ focus'[o] = focus[o] /\ hist'[o] = hist[o] /\ used'[o] = used[o]
        BY <3>2, <1>1
      <4>2. dep[o].phase = "cleaning" =>
              focus[o] = None /\ hist[o] = None /\ (~dep[o].bad => used[o] \subseteq dep[o].todo)
        BY <1>a DEF Kept
      <4> QED BY <4>1, <4>2
    <3> QED BY <3>1, <3>2
  <2>5. \A o \in departed' : dep'[o].phase = "none" /\ stop'.phase = "none" =>
         /\ task'[o] = 0 /\ joining'[o] = 0
         /\ focus'[o] = None /\ used'[o] = {} /\ hist'[o] = None /\ o \notin ready'
    <3> SUFFICES ASSUME NEW o \in departed, dep'[o].phase = "none", stop.phase = "none"
                 PROVE  /\ task[o] = 0 /\ joining[o] = 0
                        /\ focus'[o] = None /\ used'[o] = {} /\ hist'[o] = None /\ o \notin ready
      OBVIOUS
    <3>1. o \in Pids /\ o # p /\ dep[o].phase = "none"
      BY <1>2, <1>a DEF Types
    <3>2. focus'[o] = focus[o] /\ hist'[o] = hist[o] /\ used'[o] = used[o]
      BY <3>1
    <3> QED BY <3>1, <3>2, <1>a DEF Kept
  <2>6. stop'.phase = "leaving" /\ ~stop'.bad =>
         \A o \in Pids \ stop'.todo : o # stop'.at \/ dep'[o].phase = "none" => hist'[o] = None
    <3>1. stop.phase = "leaving" /\ ~stop.bad =>
           \A o \in Pids \ stop.todo : o # stop.at \/ dep[o].phase = "none" => hist[o] = None
      BY <1>a DEF Kept
    <3>2. \A o \in Pids : hist[o] = None => hist'[o] = None
      BY <2>2
    <3> QED BY <1>2, <3>1, <3>2
  <2> QED BY <2>1, <2>3, <2>4, <2>5, <2>6 DEF Kept
<1>7. Present'
  <2> SUFFICES ASSUME NEW o \in Pids, dep'[o].phase = "none", stop.phase = "none"
               PROVE  /\ task[o] # 0 => job[task[o]].epoch = epoch[o]
                      /\ hist'[o] # None => \A n \in DOMAIN hist'[o] : job[hist'[o][n]].epoch = epoch[o]
    BY DEF Present
  <2>1. o # p /\ dep[o].phase = "none"
    BY <1>2
  <2>2. hist'[o] = hist[o]
    BY <2>1
  <2> QED BY <2>1, <2>2, <1>a DEF Present
<1> QED BY <1>3, <1>4, <1>5, <1>6, <1>7, SameJobs

\* The steps of a departure.
LEMMA DepartureSteps ==
  ASSUME AInv, NEW p \in Pids,
         \/ DepartureDrained(p) \/ DepartureLocked(p)
         \/ \E ok \in BOOLEAN : CleanUp(p, ok) \/ \E d \in Dests : ReleaseDestination(p, d, ok)
  PROVE  AInv'
<1>a. Types /\ Waiters /\ Ended /\ Kept /\ Present
  BY DEF AInv
<1>t. /\ dep \in [Pids -> Departures] /\ dep[p] \in Departures
      /\ locks \in [Pids -> [n : Nat, made : BOOLEAN]]
      /\ focus \in [Pids -> Dests \cup {None}] /\ used \in [Pids -> SUBSET Dests]
      /\ owns \in [Pids -> SUBSET Dests] /\ hist \in [Pids -> Seq(Jobs) \cup {None}]
      /\ locks[p].n \in Nat
  BY <1>a DEF Types
<1>k. owns[p] \subseteq used[p]
  BY <1>a DEF Kept
<1>c. dep[p].phase \in {"lock", "cleaning"} => task[p] = 0 /\ joining[p] = 0
  BY <1>a DEF Ended
<1>s. "lock" \in DepPhases /\ "cleaning" \in DepPhases /\ "failed" \in DepPhases
      /\ {} \in SUBSET Jobs /\ {} \in SUBSET Dests /\ 0 \in Nat
  BY DEF DepPhases
<1>1. CASE DepartureDrained(p)
  <2> DEFINE l == locks[p].n
             d == [dep[p] EXCEPT !.phase = "lock", !.waits = {}, !.lock = l]
  <2>1. /\ dep[p].phase = "draining" /\ Drained(dep[p].waits) /\ HasLock(p)
        /\ dep' = [dep EXCEPT ![p].phase = "lock", ![p].waits = {}, ![p].lock = l]
        /\ UNCHANGED <<job, gen, task, joining, focus, used, hist, ready, departed, epoch, life, stop, owns, shown, budget>>
    BY <1>1 DEF DepartureDrained, table, outside
  <2>2. l \in Nat
    BY <1>t
  <2> HIDE DEF l
  <2>3. d \in Departures /\ d.phase = "lock"
    BY <1>t, <1>s, <2>2 DEF Departures
  <2>4. dep' = [dep EXCEPT ![p] = d]
    BY <1>t, <2>1
  <2>5. task[p] = 0 /\ joining[p] = 0
    <3>1. {p} \in SUBSET Pids /\ TasksOf({p}) \subseteq dep[p].waits
      BY <1>a, <2>1 DEF Ended
    <3> QED BY <2>1, <3>1, NoTask
  <2>6. locks' \in [Pids -> [n : Nat, made : BOOLEAN]] /\ \A o \in Pids : locks'[o].n = locks[o].n
    BY <2>1, HasLockIs
  <2> HIDE DEF d
  <2> QED BY <1>k, <1>t, <2>1, <2>3, <2>4, <2>5, <2>6, DepartureGoesOn
<1>2. CASE DepartureLocked(p)
  <2> DEFINE u == used[p] \cup ({focus[p]} \ {None})
             d == [dep[p] EXCEPT !.phase = "cleaning", !.todo = u, !.bad = FALSE]
  <2>1. /\ dep[p].phase = "lock"
        /\ used' = [used EXCEPT ![p] = u]
        /\ focus' = [focus EXCEPT ![p] = None] /\ hist' = [hist EXCEPT ![p] = None]
        /\ dep' = [dep EXCEPT ![p].phase = "cleaning", ![p].todo = used'[p], ![p].bad = FALSE]
        /\ UNCHANGED <<job, gen, task, joining, ready, departed, epoch, life, locks, stop, owns, shown, budget>>
    BY <1>2 DEF DepartureLocked, admissionVars, outside
  <2>2. u \in SUBSET Dests /\ used[p] \subseteq u
    BY <1>t
  <2> HIDE DEF u
  <2>3. d \in Departures /\ d.phase = "cleaning" /\ d.todo = u
    BY <1>t, <1>s, <2>2 DEF Departures
  <2>4. used'[p] = u /\ used' \in [Pids -> SUBSET Dests] /\ \A o \in Pids \ {p} : used'[o] = used[o]
    BY <1>t, <2>1, <2>2
  <2>5. dep' = [dep EXCEPT ![p] = d]
    BY <1>t, <2>1, <2>4
  <2>6. /\ focus' \in [Pids -> Dests \cup {None}] /\ \A o \in Pids \ {p} : focus'[o] = focus[o]
        /\ hist' \in [Pids -> Seq(Jobs) \cup {None}] /\ \A o \in Pids \ {p} : hist'[o] = hist[o]
        /\ focus'[p] = None /\ hist'[p] = None
    BY <1>t, <2>1
  <2>7. owns' \in [Pids -> SUBSET Dests] /\ owns' = owns /\ owns'[p] \subseteq used'[p]
        /\ locks' = locks /\ locks' \in [Pids -> [n : Nat, made : BOOLEAN]]
    BY <1>t, <1>k, <2>1, <2>2, <2>4
  <2> HIDE DEF d
  <2> QED BY <1>c, <2>1, <2>3, <2>4, <2>5, <2>6, <2>7, DepartureGoesOn
<1>3. ASSUME NEW ok \in BOOLEAN, NEW x \in Dests, ReleaseDestination(p, x, ok) PROVE AInv'
  <2> DEFINE rest == dep[p].todo \ {x}
             bad == dep[p].bad \/ ~ok
             d == [dep[p] EXCEPT !.todo = rest, !.bad = bad]
  <2>1. /\ dep[p].phase = "cleaning" /\ dep' = [dep EXCEPT ![p].todo = @ \ {x}, ![p].bad = @ \/ ~ok]
        /\ used' = IF ok THEN [used EXCEPT ![p] = @ \ {x}] ELSE used
        /\ owns' = IF ok THEN [owns EXCEPT ![p] = @ \ {x}] ELSE owns
        /\ UNCHANGED <<job, gen, task, joining, focus, hist, ready, departed, epoch, life, locks, stop, shown, budget>>
    BY <1>3 DEF ReleaseDestination, admissionVars
  <2>2. dep' = [dep EXCEPT ![p] = d]
    BY <1>t, <2>1
  <2>3. rest \in SUBSET Dests /\ bad \in BOOLEAN
    BY <1>t DEF Departures
  <2>4. d \in Departures /\ d.phase = "cleaning" /\ d.todo = rest /\ d.bad = bad
    <3> HIDE DEF rest, bad
    <3> QED BY <1>t, <2>1, <2>3 DEF Departures
  <2>5. focus[p] = None /\ hist[p] = None /\ (~dep[p].bad => used[p] \subseteq dep[p].todo)
    BY <1>a, <2>1 DEF Kept
  <2>6. /\ used' \in [Pids -> SUBSET Dests] /\ \A o \in Pids \ {p} : used'[o] = used[o]
        /\ owns' \in [Pids -> SUBSET Dests] /\ \A o \in Pids \ {p} : owns'[o] = owns[o]
        /\ owns'[p] \subseteq used'[p] /\ (ok => used'[p] = used[p] \ {x})
    <3>1. CASE ok
      BY <3>1, <1>t, <1>k, <2>1
    <3>2. CASE ~ok
      BY <3>2, <1>t, <1>k, <2>1
    <3> QED BY <3>1, <3>2
  <2>7. ~d.bad => used'[p] \subseteq d.todo
    BY <2>4, <2>5, <2>6
  <2> HIDE DEF d
  <2>8. /\ locks' = locks /\ locks' \in [Pids -> [n : Nat, made : BOOLEAN]]
        /\ focus' = focus /\ focus' \in [Pids -> Dests \cup {None}]
        /\ hist' = hist /\ hist' \in [Pids -> Seq(Jobs) \cup {None}]
    BY <1>t, <2>1
  <2> QED BY ZenonT(40), <1>c, <2>1, <2>2, <2>4, <2>5, <2>6, <2>7, <2>8, DepartureGoesOn
<1>4. ASSUME NEW ok \in BOOLEAN, CleanUp(p, ok) PROVE AInv'
  <2>0. /\ dep[p].phase = "cleaning" /\ dep[p].todo = {}
        /\ UNCHANGED <<job, gen, task, joining, focus, used, hist, departed, epoch, life, stop, owns, shown, budget>>
    BY <1>4 DEF CleanUp, table, outside
  <2>1. CASE dep[p].bad \/ ~ok
    <3> DEFINE d == [Idle EXCEPT !.phase = "failed"]
    <3>1. dep' = [dep EXCEPT ![p] = d] /\ UNCHANGED <<ready, locks>>
      BY <2>1, <1>4 DEF CleanUp
    <3>2. d \in Departures /\ d.phase = "failed"
      BY <1>s DEF Idle, Departures
    <3> HIDE DEF d
    <3> QED BY <1>c, <1>k, <1>t, <2>0, <3>1, <3>2, DepartureGoesOn
  <2>2. CASE ~(dep[p].bad \/ ~ok)
    <3>1. /\ dep' = [dep EXCEPT ![p] = Idle] /\ ready' = ready \ {p}
          /\ locks' = [locks EXCEPT ![p] = [n |-> @.n + 1, made |-> FALSE]] /\ ~dep[p].bad
      BY <2>2, <1>4 DEF CleanUp
    <3>2. dep' \in [Pids -> Departures] /\ dep'[p] = Idle /\ \A o \in Pids \ {p} : dep'[o] = dep[o]
      BY <1>t, <3>1, DepartureRecs
    <3>3. locks' \in [Pids -> [n : Nat, made : BOOLEAN]] /\ \A o \in Pids \ {p} : locks'[o] = locks[o]
      BY <1>t, <3>1
    <3>4. /\ task[p] = 0 /\ joining[p] = 0 /\ focus[p] = None /\ hist[p] = None /\ used[p] = {}
          /\ p \notin ready'
      BY <1>a, <1>c, <2>0, <3>1 DEF Kept
    <3>5. Types'
      BY <1>a, <2>0, <3>1, <3>2, <3>3 DEF Types
    <3>6. ASSUME NEW j \in Jobs, Waits(j) PROVE Waiter(j)'
      <4>1. Waiter(j) /\ job[j].pid \in Pids
        BY <3>6, AtCall
      <4>2. TasksOf({job[j].pid})' = TasksOf({job[j].pid})
        BY <2>0 DEF TasksOf
      <4>3. CASE job[j].pid = p
        BY <4>1, <4>2, <4>3, <2>0 DEF Waiter, Fresh
      <4>4. CASE job[j].pid # p
        BY <4>1, <4>2, <4>4, <2>0, <3>2, <3>3 DEF Waiter, Fresh
      <4> QED BY <4>3, <4>4
    <3>7. Ended'
      <4>1. \A o \in Pids : /\ dep'[o].phase = "draining" => TasksOf({o})' \subseteq dep'[o].waits
                            /\ dep'[o].phase \in {"lock", "cleaning", "failed"} => task'[o] = 0 /\ joining'[o] = 0
        <5> SUFFICES ASSUME NEW o \in Pids
                     PROVE  /\ dep'[o].phase = "draining" => TasksOf({o})' \subseteq dep'[o].waits
                            /\ dep'[o].phase \in {"lock", "cleaning", "failed"} => task'[o] = 0 /\ joining'[o] = 0
          OBVIOUS
        <5>1. TasksOf({o})' = TasksOf({o})
          BY <2>0 DEF TasksOf
        <5>2. CASE o = p
          BY <5>2, <3>2, DepartureRecs
        <5>3. CASE o # p
          BY <5>1, <5>3, <2>0, <3>2, <1>a DEF Ended
        <5> QED BY <5>2, <5>3
      <4>2. TasksOf(Pids)' = TasksOf(Pids)
        BY <2>0 DEF TasksOf
      <4> QED BY <4>1, <4>2, <2>0, <1>a DEF Ended
    <3>8. Kept'
      <4>1. (\A o \in Pids : owns'[o] \subseteq used'[o])
            /\ \A o \in Pids : hist'[o] # None => \A n \in DOMAIN hist'[o] : job'[hist'[o][n]].phase # "unborn"
        BY <2>0, <1>a DEF Kept
      <4>2. \A o \in Pids : dep'[o].phase = "cleaning" =>
              focus'[o] = None /\ hist'[o] = None /\ (~dep'[o].bad => used'[o] \subseteq dep'[o].todo)
        <5>1. \A o \in Pids : dep'[o].phase = "cleaning" => dep'[o] = dep[o]
          BY <3>2, DepartureRecs
        <5> QED BY <5>1, <2>0, <1>a DEF Kept
      <4>3. \A o \in departed' : dep'[o].phase = "none" /\ stop'.phase = "none" =>
             /\ task'[o] = 0 /\ joining'[o] = 0
             /\ focus'[o] = None /\ used'[o] = {} /\ hist'[o] = None /\ o \notin ready'
        <5>1. departed \subseteq Pids
          BY <1>a DEF Types
        <5> QED BY <5>1, <2>0, <3>1, <3>2, <3>4, <1>a DEF Kept
      <4>4. stop'.phase = "leaving" /\ ~stop'.bad =>
             \A o \in Pids \ stop'.todo : o # stop'.at \/ dep'[o].phase = "none" => hist'[o] = None
        BY <2>0, <3>2, <3>4, <1>a DEF Kept
      <4> QED BY <4>1, <4>2, <4>3, <4>4 DEF Kept
    <3>9. Present'
      BY <2>0, <3>2, <3>4, <1>a DEF Present
    <3> QED BY <2>0, <3>5, <3>6, <3>7, <3>8, <3>9, SameJobs
  <2> QED BY <2>1, <2>2
<1> QED BY <1>1, <1>2, <1>3, <1>4

\* A departure that is asked for runs afterwards.
LEMMA DepartingIs ==
  ASSUME AInv, NEW p \in Pids, Departing(p)
  PROVE  /\ dep' \in [Pids -> Departures] /\ \A o \in Pids \ {p} : dep'[o] = dep[o]
         /\ dep'[p].phase # "none"
         /\ \/ dep'[p] = dep[p]
            \/ dep[p].phase \in {"none", "failed"} /\ dep'[p].phase = "interrupt"
<1>1. dep \in [Pids -> Departures]
  BY DEF AInv, Types
<1>2. CASE dep[p].phase \in {"none", "failed"}
  <2>1. dep' = [dep EXCEPT ![p] = Interrupting]
    BY <1>2 DEF Departing, Interrupting
  <2> QED BY <1>1, <1>2, <2>1, DepartureRecs
<1>3. CASE dep[p].phase \notin {"none", "failed"}
  BY <1>1, <1>3 DEF Departing
<1> QED BY <1>2, <1>3

\* participant_left(): what waits for the participant is out of date.
LEMMA LeftStep ==
  ASSUME AInv, NEW p \in Pids, Left(p)
  PROVE  AInv'
<1>a. Types /\ Waiters /\ Ended /\ Kept /\ Present
  BY DEF AInv
<1>0. /\ budget.left > 0 /\ budget' = [budget EXCEPT !.left = @ - 1]
      /\ departed' = IF Runtime THEN departed \cup {p} ELSE departed
      /\ epoch' = [epoch EXCEPT ![p] = @ + 1]
      /\ IF stop.phase # "none" THEN dep' = dep ELSE Departing(p)
      /\ UNCHANGED <<job, gen, task, joining, focus, used, hist, ready, life, locks, stop, owns, shown>>
  BY DEF Left, table
<1>1. /\ dep' \in [Pids -> Departures] /\ \A o \in Pids \ {p} : dep'[o] = dep[o]
      /\ stop.phase = "none" => dep'[p].phase # "none"
      /\ \/ dep'[p] = dep[p]
         \/ dep[p].phase \in {"none", "failed"} /\ dep'[p].phase = "interrupt"
  <2>1. CASE stop.phase # "none"
    BY <1>0, <1>a, <2>1 DEF Types
  <2>2. CASE stop.phase = "none"
    BY <1>0, <2>2, DepartingIs
  <2> QED BY <2>1, <2>2
<1>2. /\ epoch' \in [Pids -> Nat] /\ \A o \in Pids \ {p} : epoch'[o] = epoch[o]
      /\ epoch'[p] = epoch[p] + 1 /\ epoch[p] \in Nat
  BY <1>0, <1>a DEF Types
<1>3. departed' \subseteq Pids /\ \A o \in departed' : o = p \/ o \in departed
  BY <1>0, <1>a DEF Types
<1>4. budget' \in [left : Nat, stops : Nat, interrupts : Nat]
  <2>1. budget \in [left : Nat, stops : Nat, interrupts : Nat]
    BY <1>a DEF Types
  <2>2. budget.left - 1 \in Nat
    BY <1>0, <2>1
  <2> QED BY <1>0, <2>1, <2>2
<1>5. Types'
  BY <1>a, <1>0, <1>1, <1>2, <1>3, <1>4 DEF Types
<1>6. ASSUME NEW j \in Jobs, Waits(j) PROVE Waiter(j)'
  <2>1. Waiter(j) /\ job[j].pid \in Pids /\ job[j].epoch \in Nat
    <3>1. job[j] \in JobRecs
      BY <1>6, AtCall
    <3> QED BY <3>1, <1>6, AtCall DEF JobRecs
  <2>2. TasksOf({job[j].pid})' = TasksOf({job[j].pid})
    BY <1>0 DEF TasksOf
  <2>3. CASE job[j].pid = p
    <3>1. job[j].epoch <= epoch[p] /\ job[j].life <= life
      BY <2>1, <2>3 DEF Waiter
    <3>2. job[j].epoch <= epoch'[p] /\ job[j].epoch # epoch'[p]
      BY <2>1, <3>1, <1>2
    <3> QED BY <2>3, <3>1, <3>2, <1>0 DEF Waiter, Fresh
  <2>4. CASE job[j].pid # p
    BY <2>1, <2>2, <2>4, <1>0, <1>1, <1>2 DEF Waiter, Fresh
  <2> QED BY <2>3, <2>4
<1>7. Ended'
  <2>1. \A o \in Pids : /\ dep'[o].phase = "draining" => TasksOf({o})' \subseteq dep'[o].waits
                        /\ dep'[o].phase \in {"lock", "cleaning", "failed"} => task'[o] = 0 /\ joining'[o] = 0
    <3> SUFFICES ASSUME NEW o \in Pids
                 PROVE  /\ dep'[o].phase = "draining" => TasksOf({o})' \subseteq dep'[o].waits
                        /\ dep'[o].phase \in {"lock", "cleaning", "failed"} => task'[o] = 0 /\ joining'[o] = 0
      OBVIOUS
    <3>1. TasksOf({o})' = TasksOf({o})
      BY <1>0 DEF TasksOf
    <3>2. dep'[o] = dep[o] \/ dep'[o].phase = "interrupt"
      BY <1>1
    <3> QED BY <3>1, <3>2, <1>0, <1>a DEF Ended
  <2>2. TasksOf(Pids)' = TasksOf(Pids)
    BY <1>0 DEF TasksOf
  <2> QED BY <2>1, <2>2, <1>0, <1>a DEF Ended
<1>8. Kept'
  <2>1. (\A o \in Pids : owns'[o] \subseteq used'[o])
        /\ \A o \in Pids : hist'[o] # None => \A n \in DOMAIN hist'[o] : job'[hist'[o][n]].phase # "unborn"
    BY <1>0, <1>a DEF Kept
  <2>2. \A o \in Pids : dep'[o].phase = "cleaning" =>
          focus'[o] = None /\ hist'[o] = None /\ (~dep'[o].bad => used'[o] \subseteq dep'[o].todo)
    <3>1. \A o \in Pids : dep'[o].phase = "cleaning" => dep'[o] = dep[o]
      BY <1>1
    <3> QED BY <3>1, <1>0, <1>a DEF Kept
  <2>3. \A o \in departed' : dep'[o].phase = "none" /\ stop'.phase = "none" =>
         /\ task'[o] = 0 /\ joining'[o] = 0
         /\ focus'[o] = None /\ used'[o] = {} /\ hist'[o] = None /\ o \notin ready'
    <3>1. \A o \in departed' : dep'[o].phase = "none" /\ stop'.phase = "none" =>
            o \in departed /\ dep[o].phase = "none" /\ stop.phase = "none"
      BY <1>0, <1>1, <1>3
    <3> QED BY <3>1, <1>0, <1>a DEF Kept
  <2>4. stop'.phase = "leaving" /\ ~stop'.bad =>
         \A o \in Pids \ stop'.todo : o # stop'.at \/ dep'[o].phase = "none" => hist'[o] = None
    <3>1. stop.phase = "leaving" => dep' = dep
      BY <1>0
    <3> QED BY <3>1, <1>0, <1>a DEF Kept
  <2> QED BY <2>1, <2>2, <2>3, <2>4 DEF Kept
<1>9. Present'
  <2> SUFFICES ASSUME NEW o \in Pids, dep'[o].phase = "none", stop.phase = "none"
               PROVE  /\ task[o] # 0 => job[task[o]].epoch = epoch'[o]
                      /\ hist[o] # None => \A n \in DOMAIN hist[o] : job[hist[o][n]].epoch = epoch'[o]
    BY <1>0 DEF Present
  <2>1. o # p /\ dep[o].phase = "none" /\ epoch'[o] = epoch[o]
    BY <1>1, <1>2
  <2> QED BY <2>1, <1>a DEF Present
<1> QED BY <1>0, <1>5, <1>6, <1>7, <1>8, <1>9, SameJobs

\* A shutdown that goes on, or fails, once all tasks have ended.
LEMMA StopGoesOn ==
  ASSUME AInv, stop.phase \notin {"none"}, stop' \in Shutdowns, stop'.phase \in {"leaving", "failed"},
         UNCHANGED <<job, gen, task, joining, table, ready, admissionVars, outside>>,
         \A o \in Pids : task[o] = 0 /\ joining[o] = 0,
         dep' \in [Pids -> Departures],
         \A o \in Pids : \/ dep'[o] = dep[o]
                         \/ dep[o].phase \in {"none", "failed"} /\ dep'[o].phase = "interrupt",
         stop'.phase = "leaving" /\ ~stop'.bad =>
           \A o \in Pids \ stop'.todo : o # stop'.at \/ dep'[o].phase = "none" => hist[o] = None
  PROVE  AInv'
<1>a. Types /\ Waiters /\ Ended /\ Kept /\ Present
  BY DEF AInv
<1>0. UNCHANGED <<job, gen, task, joining, focus, used, hist, ready, departed, epoch, life, locks, owns, shown, budget>>
  BY DEF table, admissionVars, outside
<1>5. Types'
  BY <1>a, <1>0 DEF Types
<1>6. ASSUME NEW j \in Jobs, Waits(j) PROVE Waiter(j)'
  <2>1. Waiter(j) /\ ~Fresh(j)
    BY <1>6, AtCall DEF Waiter
  <2> QED BY <2>1, <1>0 DEF Waiter, Fresh
<1>7. Ended'
  <2>1. \A o \in Pids : /\ dep'[o].phase = "draining" => TasksOf({o})' \subseteq dep'[o].waits
                        /\ dep'[o].phase \in {"lock", "cleaning", "failed"} => task'[o] = 0 /\ joining'[o] = 0
    <3> SUFFICES ASSUME NEW o \in Pids, dep'[o].phase = "draining"
                 PROVE  TasksOf({o})' \subseteq dep'[o].waits
      BY <1>0
    <3>1. TasksOf({o})' = TasksOf({o})
      BY <1>0 DEF TasksOf
    <3>2. dep'[o] = dep[o]
      OBVIOUS
    <3> QED BY <3>1, <3>2, <1>a DEF Ended
  <2> QED BY <2>1, <1>0 DEF Ended
<1>8. Kept'
  <2>1. (\A o \in Pids : owns'[o] \subseteq used'[o])
        /\ \A o \in Pids : hist'[o] # None => \A n \in DOMAIN hist'[o] : job'[hist'[o][n]].phase # "unborn"
    BY <1>0, <1>a DEF Kept
  <2>2. \A o \in Pids : dep'[o].phase = "cleaning" =>
          focus'[o] = None /\ hist'[o] = None /\ (~dep'[o].bad => used'[o] \subseteq dep'[o].todo)
    <3>1. \A o \in Pids : dep'[o].phase = "cleaning" => dep'[o] = dep[o]
      OBVIOUS
    <3> QED BY <3>1, <1>0, <1>a DEF Kept
  <2> QED BY <2>1, <2>2, <1>0 DEF Kept
<1>9. Present'
  BY DEF Present
<1> QED BY <1>0, <1>5, <1>6, <1>7, <1>8, <1>9, SameJobs

\* The steps of a shutdown.
LEMMA StopSteps ==
  ASSUME AInv, StopDrained \/ StopDeparted \/ StopDone \/ \E p \in Pids : StopDeparts(p)
  PROVE  AInv'
<1>a. Types /\ Waiters /\ Ended /\ Kept /\ Present
  BY DEF AInv
<1>t. stop \in Shutdowns /\ dep \in [Pids -> Departures] /\ "leaving" \in StopPhases /\ "failed" \in StopPhases
  BY <1>a DEF Types, StopPhases
<1>k. stop.phase = "leaving" /\ ~stop.bad =>
        \A o \in Pids \ stop.todo : o # stop.at \/ dep[o].phase = "none" => hist[o] = None
  BY <1>a DEF Kept
<1>e. stop.phase = "leaving" => \A o \in Pids : task[o] = 0 /\ joining[o] = 0
  BY <1>a DEF Ended
<1>1. CASE StopDrained
  <2> DEFINE K == {p \in Pids : Known(p)}
  <2>1. /\ stop.phase = "draining" /\ Drained(stop.waits)
        /\ stop' = [stop EXCEPT !.phase = "leaving", !.waits = {}, !.todo = K]
        /\ UNCHANGED <<job, gen, task, joining, table, ready, admissionVars, dep, outside>>
    BY <1>1 DEF StopDrained
  <2>2. \A o \in Pids \ K : hist[o] = None
    BY DEF Known
  <2>3. K \in SUBSET Pids
    OBVIOUS
  <2> HIDE DEF K
  <2>4. stop' \in Shutdowns /\ stop'.phase = "leaving" /\ stop'.todo = K
    BY <1>t, <2>1, <2>3 DEF Shutdowns
  <2>5. \A o \in Pids : task[o] = 0 /\ joining[o] = 0
    <3>1. Pids \in SUBSET Pids /\ TasksOf(Pids) \subseteq stop.waits
      BY <1>a, <2>1 DEF Ended
    <3> QED BY <2>1, <3>1, NoTask
  <2> QED BY <1>t, <2>1, <2>2, <2>4, <2>5, StopGoesOn
<1>2. ASSUME NEW p \in Pids, StopDeparts(p) PROVE AInv'
  <2>1. /\ stop.phase = "leaving" /\ stop.at = None /\ p \in stop.todo
        /\ stop' = [stop EXCEPT !.todo = @ \ {p}, !.at = p] /\ Departing(p)
        /\ UNCHANGED <<job, gen, task, joining, table, ready, admissionVars, outside>>
    BY <1>2 DEF StopDeparts
  <2>2. /\ dep' \in [Pids -> Departures] /\ \A o \in Pids \ {p} : dep'[o] = dep[o]
        /\ dep'[p].phase # "none"
        /\ \/ dep'[p] = dep[p]
           \/ dep[p].phase \in {"none", "failed"} /\ dep'[p].phase = "interrupt"
    BY <2>1, DepartingIs
  <2>3. /\ stop' \in Shutdowns /\ stop'.phase = "leaving" /\ stop'.at = p
        /\ stop'.todo = stop.todo \ {p} /\ stop'.bad = stop.bad
    BY <1>t, <2>1 DEF Shutdowns
  <2>4. stop'.phase = "leaving" /\ ~stop'.bad =>
          \A o \in Pids \ stop'.todo : o # stop'.at \/ dep'[o].phase = "none" => hist[o] = None
    <3> SUFFICES ASSUME ~stop.bad, NEW o \in Pids \ stop'.todo, o # p \/ dep'[o].phase = "none"
                 PROVE  hist[o] = None
      BY <2>3
    <3>1. o # p
      BY <2>2
    <3>2. o \in Pids \ stop.todo /\ o # stop.at
      BY <3>1, <2>1, <2>3, AgentRouterAssumption
    <3> QED BY <3>2, <2>1, <1>k
  <2> QED BY <1>e, <2>1, <2>2, <2>3, <2>4, StopGoesOn
<1>3. CASE StopDeparted
  <2> DEFINE bad == stop.bad \/ dep[stop.at].phase = "failed"
  <2>1. /\ stop.phase = "leaving" /\ stop.at # None /\ dep[stop.at].phase \in {"none", "failed"}
        /\ stop' = [stop EXCEPT !.at = None, !.bad = bad]
        /\ UNCHANGED <<job, gen, task, joining, table, ready, admissionVars, dep, outside>>
    <3>1. stop' = [stop EXCEPT !.at = None, !.bad = @ \/ dep[stop.at].phase = "failed"]
      BY <1>3 DEF StopDeparted
    <3> QED BY <1>3, <3>1 DEF StopDeparted
  <2>2. bad \in BOOLEAN /\ (~bad => ~stop.bad /\ dep[stop.at].phase = "none")
    BY <2>1
  <2> HIDE DEF bad
  <2>3. /\ stop' \in Shutdowns /\ stop'.phase = "leaving" /\ stop'.at = None
        /\ stop'.todo = stop.todo /\ stop'.bad = bad
    BY <1>t, <2>1, <2>2 DEF Shutdowns
  <2>4. stop'.phase = "leaving" /\ ~stop'.bad =>
          \A o \in Pids \ stop'.todo : o # stop'.at \/ dep'[o].phase = "none" => hist[o] = None
    BY <1>k, <2>1, <2>2, <2>3
  <2> QED BY <1>e, <1>t, <2>1, <2>3, <2>4, StopGoesOn
<1>4. CASE StopDone
  <2>0. /\ stop.phase = "leaving" /\ stop.at = None /\ stop.todo = {}
        /\ UNCHANGED <<job, gen, task, joining, focus, used, hist, ready, life, locks, dep, owns, shown, budget>>
    BY <1>4 DEF StopDone, table, outside
  <2>1. CASE stop.bad
    <3>1. stop' = [Running EXCEPT !.phase = "failed"] /\ UNCHANGED <<departed, epoch>>
      BY <1>4, <2>1 DEF StopDone
    <3>2. stop' \in Shutdowns /\ stop'.phase = "failed"
      BY <1>t, <3>1 DEF Running, Shutdowns
    <3>3. UNCHANGED <<job, gen, task, joining, table, ready, admissionVars, outside>>
      BY <2>0, <3>1 DEF table, admissionVars, outside
    <3>4. dep' \in [Pids -> Departures] /\ dep' = dep
      BY <1>t, <2>0
    <3> QED BY <1>e, <2>0, <3>2, <3>3, <3>4, StopGoesOn
  <2>2. CASE ~stop.bad
    <3>1. stop' = Running /\ departed' = {} /\ epoch' = [p \in Pids |-> epoch[p] + 1]
      BY <1>4, <2>2 DEF StopDone
    <3>2. stop' \in Shutdowns /\ stop'.phase = "none"
      BY <3>1, DepartureRecs
    <3>3. \A o \in Pids : hist[o] = None /\ task[o] = 0 /\ joining[o] = 0
      BY <1>k, <1>e, <2>0, <2>2, AgentRouterAssumption
    <3>4. /\ epoch' \in [Pids -> Nat]
          /\ \A o \in Pids : epoch'[o] = epoch[o] + 1 /\ epoch[o] \in Nat
      BY SMTT(30), <1>a, <3>1 DEF Types
    <3>5. Types'
      BY <1>a, <2>0, <3>1, <3>2, <3>4 DEF Types
    <3>6. ASSUME NEW j \in Jobs, Waits(j) PROVE Waiter(j)'
      <4>1. Waiter(j) /\ job[j].pid \in Pids /\ job[j].epoch \in Nat
        <5>1. job[j] \in JobRecs
          BY <3>6, AtCall
        <5> QED BY <5>1, <3>6, AtCall DEF JobRecs
      <4>2. job[j].epoch <= epoch[job[j].pid] /\ job[j].life <= life
        BY <4>1 DEF Waiter
      <4>3. job[j].epoch <= epoch'[job[j].pid] /\ job[j].epoch # epoch'[job[j].pid]
        BY <4>1, <4>2, <3>4
      <4> QED BY <4>2, <4>3, <2>0 DEF Waiter, Fresh
    <3>7. Ended'
      <4>1. \A o \in Pids : /\ dep'[o].phase = "draining" => TasksOf({o})' \subseteq dep'[o].waits
                            /\ dep'[o].phase \in {"lock", "cleaning", "failed"} => task'[o] = 0 /\ joining'[o] = 0
        <5> SUFFICES ASSUME NEW o \in Pids, dep'[o].phase = "draining"
                     PROVE  TasksOf({o})' \subseteq dep'[o].waits
          BY <2>0, <3>3
        <5>1. TasksOf({o})' = TasksOf({o})
          BY <2>0 DEF TasksOf
        <5> QED BY <5>1, <2>0, <1>a DEF Ended
      <4> QED BY <4>1, <3>2 DEF Ended
    <3>8. Kept'
      <4>1. (\A o \in Pids : owns'[o] \subseteq used'[o])
            /\ \A o \in Pids : hist'[o] # None => \A n \in DOMAIN hist'[o] : job'[hist'[o][n]].phase # "unborn"
        BY <2>0, <1>a DEF Kept
      <4>2. \A o \in Pids : dep'[o].phase = "cleaning" =>
              focus'[o] = None /\ hist'[o] = None /\ (~dep'[o].bad => used'[o] \subseteq dep'[o].todo)
        BY <2>0, <1>a DEF Kept
      <4> QED BY <4>1, <4>2, <3>1, <3>2 DEF Kept
    <3>9. Present'
      BY <2>0, <3>3 DEF Present
    <3> QED BY <2>0, <3>5, <3>6, <3>7, <3>8, <3>9, SameJobs
  <2> QED BY <2>1, <2>2
<1> QED BY <1>1, <1>2, <1>3, <1>4

\* stop(): all that waits is out of date.
LEMMA StopCallStep ==
  ASSUME AInv, StopCall
  PROVE  AInv'
<1>a. Types /\ Waiters /\ Ended /\ Kept /\ Present
  BY DEF AInv
<1>0. /\ budget.stops > 0 /\ budget' = [budget EXCEPT !.stops = @ - 1]
      /\ UNCHANGED <<job, gen, task, joining, focus, used, hist, ready, departed, epoch, locks, dep, owns, shown>>
  BY DEF StopCall, table
<1>1. \/ stop' = stop /\ life' = life
      \/ stop'.phase = "interrupt" /\ stop' \in Shutdowns /\ life' = life + 1
  <2>1. CASE stop.phase \in {"none", "failed"}
    <3>1. life' = life + 1 /\ stop' = [Running EXCEPT !.phase = "interrupt"]
      BY <2>1 DEF StopCall
    <3>2. "interrupt" \in StopPhases
      BY DEF StopPhases
    <3> QED BY <3>1, <3>2 DEF Running, Shutdowns
  <2>2. CASE stop.phase \notin {"none", "failed"}
    BY <2>2 DEF StopCall
  <2> QED BY <2>1, <2>2
<1>2. life \in Nat /\ life' \in Nat /\ life <= life' /\ stop' \in Shutdowns
  BY <1>1, <1>a DEF Types
<1>4. budget' \in [left : Nat, stops : Nat, interrupts : Nat]
  <2>1. budget \in [left : Nat, stops : Nat, interrupts : Nat]
    BY <1>a DEF Types
  <2>2. budget.stops - 1 \in Nat
    BY <1>0, <2>1
  <2> QED BY <1>0, <2>1, <2>2
<1>5. Types'
  BY <1>a, <1>0, <1>2, <1>4 DEF Types
<1>6. ASSUME NEW j \in Jobs, Waits(j) PROVE Waiter(j)'
  <2>1. Waiter(j) /\ job[j].pid \in Pids /\ job[j].life \in Nat
    <3>1. job[j] \in JobRecs
      BY <1>6, AtCall
    <3> QED BY <3>1, <1>6, AtCall DEF JobRecs
  <2>2. TasksOf({job[j].pid})' = TasksOf({job[j].pid})
    BY <1>0 DEF TasksOf
  <2>3. CASE stop' = stop /\ life' = life
    BY <2>1, <2>2, <2>3, <1>0 DEF Waiter, Fresh
  <2>4. CASE life' = life + 1
    <3>1. job[j].epoch <= epoch[job[j].pid] /\ job[j].life <= life
      BY <2>1 DEF Waiter
    <3>2. job[j].life <= life' /\ job[j].life # life'
      BY <2>1, <2>4, <3>1, <1>2
    <3> QED BY <3>1, <3>2, <1>0 DEF Waiter, Fresh
  <2> QED BY <2>3, <2>4, <1>1
<1>7. Ended'
  <2>1. \A o \in Pids : TasksOf({o})' = TasksOf({o})
    BY <1>0 DEF TasksOf
  <2>2. TasksOf(Pids)' = TasksOf(Pids)
    BY <1>0 DEF TasksOf
  <2> QED BY <2>1, <2>2, <1>0, <1>1, <1>a DEF Ended
<1>8. Kept'
  BY <1>0, <1>1, <1>a DEF Kept
<1>9. Present'
  BY <1>0, <1>1, <1>a DEF Present
<1> QED BY <1>0, <1>5, <1>6, <1>7, <1>8, <1>9, SameJobs

-----------------------------------------------------------------------------
(* The invariant holds. *)

\* Nothing has been called.
LEMMA AInvInit == Init => AInv
<1> SUFFICES ASSUME Init PROVE AInv
  OBVIOUS
<1>0. NumJobs \in Nat /\ {MaxLeft, MaxStops, MaxInterrupts} \subseteq Nat /\ 0 \in 0 .. NumJobs /\ 0 \in Nat
  BY AgentRouterAssumption
<1>1. Blank \in JobRecs
  <2>1. <<>> \in Seq(Words) /\ {} \in SUBSET Jobs
    OBVIOUS
  <2> QED BY <2>1 DEF Blank, JobRecs, Phases, JobKinds, Asks, Thens, AckStates, Results
<1>2. /\ Blank.phase = "unborn" /\ Blank.ask = "no" /\ Blank.busy = FALSE /\ Blank.waits = {}
      /\ Blank.out = <<>> /\ Blank.ack = "off" /\ Blank.started = FALSE /\ Blank.kind = "none"
  BY DEF Blank
<1>3. ~Spoke(Blank) /\ \A m, n \in DOMAIN Blank.out : m < n => Blank.out[m] # "answer"
  BY <1>2 DEF Spoke
<1>4. Terse(Blank)
  BY <1>2, <1>3 DEF Terse, Asleep, Early, Deciding, Telling, Answers
<1>5. Sane(Blank)
  BY <1>2, <1>4 DEF Sane, Asleep
<1>6. \A j \in Jobs : job[j] = Blank /\ ~Live(j) /\ ~Waits(j) /\ job[j].phase = "unborn"
  BY <1>2 DEF Init, Live, Waits
<1>7. Types
  <2>1. /\ job \in [Jobs -> JobRecs] /\ gen \in [Pids -> 0 .. NumJobs] /\ task \in [Pids -> 0 .. NumJobs]
        /\ joining \in [Pids -> 0 .. NumJobs]
    BY <1>0, <1>1 DEF Init
  <2>2. /\ focus \in [Pids -> Dests \cup {None}] /\ hist \in [Pids -> Seq(Jobs) \cup {None}]
        /\ used \in [Pids -> SUBSET Dests] /\ owns \in [Pids -> SUBSET Dests]
        /\ ready \subseteq Pids /\ departed \subseteq Pids
    BY DEF Init
  <2>3. /\ epoch \in [Pids -> Nat] /\ life \in Nat /\ locks \in [Pids -> [n : Nat, made : BOOLEAN]]
        /\ shown \in [Pids -> {"idle", "processing"}]
    BY <1>0 DEF Init
  <2>4. dep \in [Pids -> Departures] /\ stop \in Shutdowns
    BY DepartureRecs DEF Init
  <2>5. budget \in [left : Nat, stops : Nat, interrupts : Nat]
    BY <1>0 DEF Init
  <2> QED BY <2>1, <2>2, <2>3, <2>4, <2>5 DEF Types
<1>8. \A p \in Pids : /\ gen[p] = 0 /\ task[p] = 0 /\ joining[p] = 0 /\ owns[p] = {} /\ hist[p] = None
                      /\ dep[p].phase = "none"
  BY DepartureRecs DEF Init
<1>9. stop.phase = "none" /\ departed = {}
  BY DepartureRecs DEF Init
<1>10. Tables
  BY <1>6, <1>8 DEF Tables
<1>11. Waiters
  BY <1>6 DEF Waiters, SameLock
<1>12. Ended
  BY <1>8, <1>9 DEF Ended
<1>13. Kept
  BY <1>8, <1>9 DEF Kept
<1>14. Present
  BY <1>8 DEF Present
<1>15. Lit
  BY <1>6 DEF Lit
<1> QED BY <1>5, <1>6, <1>7, <1>10, <1>11, <1>12, <1>13, <1>14, <1>15 DEF AInv

\* Every step keeps the invariant.
LEMMA AInvStep == AInv /\ [Next]_vars => AInv'
<1> SUFFICES ASSUME AInv, [Next]_vars PROVE AInv'
  OBVIOUS
<1>1. ASSUME NEW i \in Jobs, TurnStep(i) PROVE AInv'
  <2>1. CASE Acquire(i) \/ Create(i) \/ JoinAfterDeparture(i) \/ JoinLocked(i) \/ End(i)
    BY <2>1, AcquireStep, CreateStep, JoinAfterDepartureStep, JoinLockedStep, EndStep
  <2>2. CASE Begin(i) \/ TakeInit(i) \/ Initialize(i) \/ ReportProcessing(i) \/ Start(i) \/ Unfocused(i)
    BY <2>2, EarlySteps
  <2>3. CASE Select(i) \/ Clarified(i) \/ Admitted(i) \/ Preambled(i) \/ LetGo(i) \/ Released(i) \/ Told(i)
    BY <2>3, DecidingSteps
  <2>4. CASE \/ DeliverAck(i)
             \/ \E result \in {"answer", "focus", "release", "failed", "cancelled"}, text \in BOOLEAN :
                  Answered(i, result, text)
    BY <2>4, AnswerSteps
  <2>5. CASE Close(i) \/ HandedOver(i)
    BY <2>5, ClosingSteps
  <2>6. CASE FailureTold(i) \/ Cancelled(i)
    BY <2>6, FailureSteps
  <2> QED BY <1>1, <2>1, <2>2, <2>3, <2>4, <2>5, <2>6 DEF TurnStep
<1>2. ASSUME NEW p \in Pids, DepartureStep(p) PROVE AInv'
  <2>1. CASE DepartureInterrupts(p)
    BY <2>1, InterruptSteps
  <2>2. CASE \/ DepartureDrained(p) \/ DepartureLocked(p)
             \/ \E ok \in BOOLEAN : CleanUp(p, ok) \/ \E d \in Dests : ReleaseDestination(p, d, ok)
    BY <2>2, DepartureSteps
  <2> QED BY <1>2, <2>1, <2>2 DEF DepartureStep
<1>3. CASE StopStep
  BY <1>3, InterruptSteps, StopSteps DEF StopStep
<1>4. CASE Call
  <2>1. ASSUME NEW i \in Jobs, NEW p \in Pids, JoinCall(i, p) \/ \E kind \in Kinds : Submit(i, kind, p)
        PROVE  AInv'
    BY <2>1, CallSteps
  <2>2. ASSUME NEW i \in Jobs, Abandon(i) \/ Ignore(i) \/ Fail(i) PROVE AInv'
    BY <2>2, AbandonStep, FailureSteps
  <2>3. ASSUME NEW i \in Jobs, CommitAck(i) \/ NoAck(i) \/ ResponseStarted(i) \/ Speak(i) PROVE AInv'
    BY <2>3, AnswerSteps
  <2>4. ASSUME NEW p \in Pids, Left(p) \/ Interrupt({p}) PROVE AInv'
    BY <2>4, LeftStep, InterruptSteps
  <2>5. CASE Interrupt(Pids) \/ StopCall
    BY <2>5, InterruptSteps, StopCallStep
  <2> QED BY <1>4, <2>1, <2>2, <2>3, <2>4, <2>5 DEF Call
<1>5. CASE UNCHANGED vars
  <2>a. Types /\ Waiters /\ Ended /\ Kept /\ Present
    BY DEF AInv
  <2>0. UNCHANGED <<job, gen, task, joining, focus, used, hist, ready, departed, epoch, life, locks, dep,
                    stop, owns, shown, budget>>
    BY <1>5 DEF vars, table, admissionVars, outside
  <2>1. Types'
    BY <2>a, <2>0 DEF Types
  <2>2. Ended'
    BY <2>a, <2>0 DEF Ended, TasksOf
  <2>3. Kept'
    BY <2>a, <2>0 DEF Kept
  <2>4. Present'
    BY <2>a, <2>0 DEF Present
  <2>5. \A j \in Jobs : Waits(j) => Waiter(j)'
    BY <2>a, <2>0 DEF Waiters, Waiter, Fresh, TasksOf
  <2> QED BY <2>0, <2>1, <2>2, <2>3, <2>4, <2>5, SameJobs
<1> QED BY <1>1, <1>2, <1>3, <1>4, <1>5 DEF Next

\* The router keeps its locks, epochs and tables as the invariant says.
THEOREM AInvHolds == Spec => []AInv
BY AInvInit, AInvStep, PTL DEF Spec

-----------------------------------------------------------------------------
(* What it says. *)

\* A job never says more than three things.
LEMMA FewWords == ASSUME NEW r \in JobRecs, Terse(r) PROVE Len(r.out) <= 3
<1>1. Len(r.out) \in Nat /\ Retold(r) <= 1 /\ Retold(r) \in Nat /\ Len(<<>>) = 0
  BY LenProperties DEF JobRecs, Retold
<1>2. AckDue(r) \in Nat /\ AnswerDue(r) \in Nat
  BY DEF AckDue, AnswerDue
<1>3. r.phase \in Asleep \cup Early \cup {"ending"} \cup Deciding \cup Telling \cup Answers \cup {"failure"}
  BY DEF JobRecs, Phases, Asleep, Early, Deciding, Telling, Answers
<1>4. CASE r.phase \in Asleep \cup Early \cup {"ending"}
  BY <1>1, <1>4 DEF Terse
<1>5. CASE r.phase \in Deciding
  BY <1>1, <1>5 DEF Terse
<1>6. CASE r.phase \in Telling
  BY <1>1, <1>6 DEF Terse
<1>7. CASE r.phase \in Answers
  BY <1>1, <1>2, <1>7 DEF Terse
<1>8. CASE r.phase = "failure"
  BY <1>8 DEF Terse
<1> QED BY <1>3, <1>4, <1>5, <1>6, <1>7, <1>8

\* A turn or a join is always in a phase of its coroutine, tables name jobs, and no
\* request is answered with more than three messages.
THEOREM TypeCorrect == Spec => []TypeOK
<1>1. AInv => TypeOK
  <2> SUFFICES ASSUME AInv PROVE TypeOK
    OBVIOUS
  <2>a. Types /\ \A i \in Jobs : Sane(job[i])
    BY DEF AInv
  <2>1. ASSUME NEW i \in Jobs
        PROVE  /\ job[i].phase \in Phases /\ job[i].ask \in {"no", "asked", "taken"}
               /\ job[i].ack \in {"off", "pending", "committed", "done"}
               /\ Len(job[i].out) <= 3
    <3>1. job[i] \in JobRecs /\ Terse(job[i])
      BY <2>a DEF Types, Sane
    <3> QED BY <3>1, FewWords DEF JobRecs, Asks, AckStates
  <2>2. {gen[p] : p \in Pids} \cup {task[p] : p \in Pids} \cup {joining[p] : p \in Pids} \subseteq 0 .. NumJobs
    BY <2>a DEF Types
  <2> QED BY <2>a, <2>1, <2>2 DEF Types, TypeOK
<1> QED BY <1>1, AInvHolds, PTL

\* _submit() creates a turn when the one before it has ended, and a departure cleans up
\* when none of the participant's tasks runs.
THEOREM OneTurn == Spec => []OneTurnAtATime
<1>1. AInv => OneTurnAtATime
  <2> SUFFICES ASSUME AInv, NEW p \in Pids
               PROVE  /\ Cardinality(Turns(p)) <= 1
                      /\ dep[p].phase = "cleaning" => \A i \in Jobs : job[i].pid = p => ~Live(i)
    BY DEF OneTurnAtATime
  <2>1. \A i \in Turns(p) : i = task[p]
    BY AtTable DEF Turns
  <2>2. Cardinality(Turns(p)) <= 1
    <3>1. IsFiniteSet({task[p]}) /\ Cardinality({task[p]}) = 1
      BY FS_Singleton
    <3>2. Turns(p) \subseteq {task[p]}
      BY <2>1
    <3> QED BY <3>1, <3>2, FS_Subset
  <2>3. ASSUME dep[p].phase = "cleaning", NEW i \in Jobs, job[i].pid = p, Live(i) PROVE FALSE
    <3>1. task[p] = 0 /\ joining[p] = 0
      BY <2>3 DEF AInv, Ended
    <3> QED BY <2>3, <3>1, AtTable
  <2> QED BY <2>2, <2>3
<1> QED BY <1>1, AInvHolds, PTL

\* A destination that holds state for a participant is one the router will release.
THEOREM OwnersKnown == Spec => []OwnersAreKnown
<1>1. AInv => OwnersAreKnown
  BY DEF AInv, Kept, OwnersAreKnown
<1> QED BY <1>1, AInvHolds, PTL

\* A departure that has succeeded leaves nothing of the participant, and what is
\* remembered was said in its present lifecycle.
THEOREM DepartureClean == Spec => []DepartureLeavesNothing
<1>1. AInv => DepartureLeavesNothing
  <2> SUFFICES ASSUME AInv, NEW p \in Pids, dep[p].phase = "none", stop.phase = "none"
               PROVE  /\ p \in departed =>
                           focus[p] = None /\ used[p] = {} /\ hist[p] = None /\ p \notin ready /\ owns[p] = {}
                      /\ hist[p] # None => \A n \in DOMAIN hist[p] : job[hist[p][n]].epoch = epoch[p]
    BY DEF DepartureLeavesNothing
  <2>1. ASSUME p \in departed
        PROVE  focus[p] = None /\ used[p] = {} /\ hist[p] = None /\ p \notin ready /\ owns[p] \subseteq used[p]
    BY <2>1 DEF AInv, Kept
  <2>2. hist[p] # None => \A n \in DOMAIN hist[p] : job[hist[p][n]].epoch = epoch[p]
    BY DEF AInv, Present
  <2> QED BY <2>1, <2>2
<1> QED BY <1>1, AInvHolds, PTL

\* The answer is the last word of a turn, and its "processing" is not replaced by the
\* "idle" of the turn before it.
THEOREM ShownOrder == Spec => []ShownInOrder
<1>1. AInv => ShownInOrder
  <2> SUFFICES ASSUME AInv, NEW i \in Jobs
               PROVE  /\ \A m, n \in DOMAIN job[i].out : m < n => job[i].out[m] # "answer"
                      /\ Live(i) /\ job[i].busy /\ job[i].phase \notin {"status", "ending"} =>
                           shown[job[i].pid] = "processing"
    BY DEF ShownInOrder
  <2>1. \A m, n \in DOMAIN job[i].out : m < n => job[i].out[m] # "answer"
    BY DEF AInv, Sane, Terse
  <2>2. Live(i) /\ job[i].busy /\ job[i].phase \notin {"status", "ending"} =>
          shown[job[i].pid] = "processing"
    BY DEF AInv, Lit
  <2> QED BY <2>1, <2>2
<1> QED BY <1>1, AInvHolds, PTL

-----------------------------------------------------------------------------
(* Decisions. *)

\* The participant's focus is taken, or something more is remembered of it.
Decides(p) ==
  \/ focus'[p] # None /\ focus'[p] # focus[p]
  \/ hist'[p] # None /\ Len(hist'[p]) > (IF hist[p] = None THEN 0 ELSE Len(hist[p]))

Acts(p) == gen[p] # 0 /\ job'[gen[p]] # job[gen[p]]

\* What has not grown, or was dropped, is no decision.
LEMMA NoDecision ==
  ASSUME AInv, NEW p \in Pids, focus'[p] \in {focus[p], None},
         hist'[p] \in {hist[p], None} \/ (hist[p] = None /\ hist'[p] = <<>>)
  PROVE  ~Decides(p)
<1>1. hist[p] # None => Len(hist[p]) \in Nat
  BY LenProperties DEF AInv, Types
<1>2. Len(<<>>) = 0
  OBVIOUS
<1> QED BY <1>1, <1>2 DEF Decides

\* A turn decides for its own participant only.
LEMMA TurnDecides ==
  ASSUME AInv, NEW i \in Jobs, AtWork(job[i]), gen[job[i].pid] = i, NEW t, Put(i, t), t # job[i],
         Remember(i) \/ UNCHANGED hist,
         UNCHANGED focus \/ \E d \in Dests \cup {None} : focus' = [focus EXCEPT ![job[i].pid] = d]
  PROVE  \A p \in Pids : Decides(p) => Acts(p)
<1> SUFFICES ASSUME NEW p \in Pids, Decides(p) PROVE Acts(p)
  OBVIOUS
<1>1. job \in [Jobs -> JobRecs] /\ hist \in [Pids -> Seq(Jobs) \cup {None}]
      /\ focus \in [Pids -> Dests \cup {None}]
  BY DEF AInv, Types
<1>2. CASE p = job[i].pid
  <2>1. job'[i] = t /\ i # 0
    BY <1>1 DEF Put, Jobs
  <2> QED BY <1>2, <2>1 DEF Acts
<1>3. CASE p # job[i].pid
  <2>1. focus'[p] = focus[p]
    BY <1>1, <1>3
  <2>2. hist'[p] = hist[p]
    BY <1>1, <1>3 DEF Remember
  <2> QED BY <2>1, <2>2, NoDecision
<1> QED BY <1>2, <1>3

\* Whoever has the turn of a participant and was not asked to stop is its current turn.
LEMMA Unasked ==
  ASSUME AInv, NEW i \in Jobs, AtWork(job[i]), job[i].kind # "join", job[i].ask = "no"
  PROVE  gen[job[i].pid] = i
BY DEF AInv, Tables, AtWork, Live, Asleep

\* Every step that decides is one of the current turn.
LEMMA DecisionStep ==
  ASSUME AInv, Next
  PROVE  \A p \in Pids : Decides(p) => Acts(p)
<1>t. /\ focus \in [Pids -> Dests \cup {None}] /\ hist \in [Pids -> Seq(Jobs) \cup {None}]
      /\ job \in [Jobs -> JobRecs]
  BY DEF AInv, Types
<1>1. ASSUME UNCHANGED hist, UNCHANGED focus \/ \E o \in Pids : focus' = [focus EXCEPT ![o] = None]
      PROVE  \A p \in Pids : Decides(p) => Acts(p)
  <2>1. \A p \in Pids : focus'[p] \in {focus[p], None} /\ hist'[p] = hist[p]
    BY <1>1, <1>t
  <2> QED BY <2>1, NoDecision
<1>2. ASSUME NEW i \in Jobs, Create(i) PROVE \A p \in Pids : Decides(p) => Acts(p)
  <2>1. UNCHANGED focus /\ (UNCHANGED hist \/ hist' = [hist EXCEPT ![job[i].pid] = IF @ = None THEN <<>> ELSE @])
    BY <1>2 DEF Create
  <2>2. \A p \in Pids : hist'[p] = hist[p] \/ (hist[p] = None /\ hist'[p] = <<>>)
    BY <2>1, <1>t
  <2> QED BY <2>1, <2>2, NoDecision
<1>3. ASSUME NEW o \in Pids, DepartureLocked(o) PROVE \A p \in Pids : Decides(p) => Acts(p)
  <2>1. focus' = [focus EXCEPT ![o] = None] /\ hist' = [hist EXCEPT ![o] = None]
    BY <1>3 DEF DepartureLocked
  <2>2. \A p \in Pids : focus'[p] \in {focus[p], None} /\ hist'[p] \in {hist[p], None}
    BY <2>1, <1>t
  <2> QED BY <2>2, NoDecision
<1>4. ASSUME NEW i \in Jobs, Start(i) \/ Released(i) PROVE \A p \in Pids : Decides(p) => Acts(p)
  <2>0. job[i].pid \in Pids
    <3>1. job[i].phase \notin Asleep
      BY <1>4 DEF Start, Released, Resumes, Asleep
    <3> QED BY <3>1, AtAwait DEF AtWork, Sane, Asleep
  <2>1. UNCHANGED hist /\ (UNCHANGED focus \/ focus' = [focus EXCEPT ![job[i].pid] = None])
    BY <1>4 DEF Start, Released
  <2> QED BY <2>0, <2>1, <1>1
<1>5. ASSUME NEW i \in Jobs, Clarified(i) \/ Told(i) PROVE \A p \in Pids : Decides(p) => Acts(p)
  <2>1. job[i].phase \in {"clarify", "told"} /\ job[i].phase \notin Asleep /\ job[i].ask # "asked"
    BY <1>5 DEF Clarified, Told, Resumes, Asleep
  <2>2. AtWork(job[i]) /\ job[i].ask = "no" /\ job[i].kind # "join" /\ job[i] \in JobRecs
    <3>1. AtWork(job[i])
      BY <2>1, AtAwait
    <3> QED BY <2>1, <3>1 DEF AtWork, Sane, JobRecs, Asks
  <2>3. gen[job[i].pid] = i
    BY <2>2, Unasked
  <2>4. Remember(i) /\ UNCHANGED focus /\ \E t : Put(i, t) /\ t.phase # job[i].phase
    <3>1. CASE Clarified(i)
      <4>1. job[i].phase = "clarify" /\ Put(i, Leaving(job[i])) /\ Remember(i) /\ UNCHANGED focus
        BY <3>1 DEF Clarified, Resumes
      <4>2. Leaving(job[i]).phase = "ending"
        BY <2>2, LeavingIs
      <4> QED BY <4>1, <4>2
    <3>2. CASE Told(i)
      <4>1. job[i].phase = "told" /\ Put(i, Reroute(i, job[i])) /\ Remember(i) /\ UNCHANGED focus
        BY <3>2 DEF Told, Resumes
      <4>2. Leaving(job[i]).phase = "ending"
        BY <2>2, LeavingIs
      <4>3. ~Spoke(job[i])
        BY <4>1, <2>2 DEF AtWork, Sane, Terse, Answers
      <4>4. Clarify(i, job[i]).phase = "clarify"
        <5>1. "control" \in Words /\ "control" # "answer"
          BY DEF Words
        <5>2. PICK q \in Seq(Words) : Say(i, job[i], "control") = Having(job[i], q)
          BY <2>2, <4>3, <5>1, SayIs
        <5> DEFINE h == Having(job[i], q)
        <5>3. h \in JobRecs
          BY <2>2 DEF Having, JobRecs
        <5> HIDE DEF h
        <5>4. [h EXCEPT !.phase = "clarify"].phase = "clarify"
          BY <5>3 DEF JobRecs
        <5> QED BY <5>2, <5>4 DEF h, Clarify
      <4>5. ASSUME NEW cands PROVE Retry(job[i], cands).phase = "select"
        BY <2>2 DEF Retry, JobRecs
      <4>6. Reroute(i, job[i]).phase # "told"
        BY <4>2, <4>4, <4>5 DEF Reroute
      <4> QED BY <4>1, <4>6
    <3> QED BY <1>5, <3>1, <3>2
  <2> QED BY <2>2, <2>3, <2>4, TurnDecides
<1>6. ASSUME NEW i \in Jobs, Close(i) \/ HandedOver(i) PROVE \A p \in Pids : Decides(p) => Acts(p)
  <2>1. job[i].phase \in {"closing", "handover"} /\ job[i].phase \notin Asleep
    BY <1>6 DEF Close, HandedOver, Resumes, Asleep
  <2>2. AtWork(job[i]) /\ job[i] \in JobRecs /\ job[i].dest \in Dests \cup {None} /\ job[i].pid \in Pids
    BY <2>1, AtAwait DEF JobRecs
  <2>3. Leaving(job[i]).phase = "ending"
    BY <2>2, LeavingIs
  <2>4. CASE UNCHANGED <<hist, focus>>
    BY <2>4, <1>1
  <2>5. ASSUME gen[job[i].pid] = i, NEW t, Put(i, t), t.phase # job[i].phase, Remember(i) \/ UNCHANGED hist,
               \/ UNCHANGED focus
               \/ focus' = [focus EXCEPT ![job[i].pid] = job[i].dest]
               \/ focus' = [focus EXCEPT ![job[i].pid] = None]
        PROVE  \A p \in Pids : Decides(p) => Acts(p)
    <3>1. UNCHANGED focus \/ \E d \in Dests \cup {None} : focus' = [focus EXCEPT ![job[i].pid] = d]
      BY <2>2, <2>5
    <3> QED BY <2>2, <2>5, <3>1, TurnDecides
  <2>6. CASE Close(i)
    <3>1. job[i].phase = "closing"
      BY <2>6 DEF Close
    <3>2. \/ UNCHANGED <<hist, focus>>
          \/ /\ Current(i) /\ (UNCHANGED focus \/ focus' = [focus EXCEPT ![job[i].pid] = job[i].dest])
             /\ \/ /\ Put(i, [job[i] EXCEPT !.phase = "handover", !.then = job[i].result]) /\ UNCHANGED hist
                \/ Put(i, Leaving(job[i])) /\ (Remember(i) \/ UNCHANGED hist)
      BY <2>6, Zenon DEF Close, Conclude
    <3>3. [job[i] EXCEPT !.phase = "handover", !.then = job[i].result].phase = "handover"
      BY <2>2 DEF JobRecs
    <3>4. Current(i) => gen[job[i].pid] = i
      BY DEF Current
    <3>5. CASE UNCHANGED <<hist, focus>>
      BY <2>4, <3>5
    <3>6. CASE ~UNCHANGED <<hist, focus>>
      <4> DEFINE t == [job[i] EXCEPT !.phase = "handover", !.then = job[i].result]
      <4>1. CASE Put(i, t) /\ UNCHANGED hist
        BY <2>5, <3>1, <3>2, <3>3, <3>4, <3>6, <4>1
      <4>2. CASE Put(i, Leaving(job[i])) /\ (Remember(i) \/ UNCHANGED hist)
        BY <2>3, <2>5, <3>1, <3>2, <3>4, <3>6, <4>2
      <4> QED BY <3>2, <3>6, <4>1, <4>2
    <3> QED BY <3>5, <3>6
  <2>7. CASE HandedOver(i)
    <3>1. /\ job[i].phase = "handover" /\ Put(i, Leaving(job[i]))
          /\ \/ UNCHANGED <<hist, focus>>
             \/ /\ Current(i) /\ (Remember(i) \/ UNCHANGED hist)
                /\ (UNCHANGED focus \/ focus' = [focus EXCEPT ![job[i].pid] = None])
      BY <2>7 DEF HandedOver, Conclude, Resumes
    <3>2. Current(i) => gen[job[i].pid] = i
      BY DEF Current
    <3> QED BY <2>3, <2>4, <2>5, <3>1, <3>2
  <2> QED BY <1>6, <2>6, <2>7
<1>7. ASSUME NEW i \in Jobs, TurnStep(i) PROVE \A p \in Pids : Decides(p) => Acts(p)
  <2>1. CASE Acquire(i) \/ JoinAfterDeparture(i) \/ JoinLocked(i) \/ End(i) \/ Begin(i) \/ TakeInit(i)
             \/ Initialize(i) \/ ReportProcessing(i)
    <3>1. UNCHANGED table
      BY <2>1 DEF Acquire, JoinAfterDeparture, JoinLocked, End, Begin, TakeInit, Initialize, ReportProcessing
    <3> QED BY <3>1, <1>1 DEF table
  <2>2. CASE Unfocused(i) \/ Admitted(i) \/ Preambled(i) \/ DeliverAck(i) \/ FailureTold(i) \/ Cancelled(i)
             \/ \E result \in {"answer", "focus", "release", "failed", "cancelled"}, text \in BOOLEAN :
                  Answered(i, result, text)
    <3>1. UNCHANGED table
      BY <2>2 DEF Unfocused, Admitted, Preambled, DeliverAck, FailureTold, Cancelled, Answered
    <3> QED BY <3>1, <1>1 DEF table
  <2>3. CASE Select(i) \/ LetGo(i)
    BY <2>3, <1>1 DEF Select, LetGo
  <2> QED BY <1>2, <1>4, <1>5, <1>6, <1>7, <2>1, <2>2, <2>3 DEF TurnStep
<1>8. ASSUME NEW p \in Pids, DepartureStep(p) PROVE \A o \in Pids : Decides(o) => Acts(o)
  <2>1. CASE DepartureInterrupts(p) \/ DepartureDrained(p) \/ \E ok \in BOOLEAN : CleanUp(p, ok)
    BY <2>1, <1>1 DEF DepartureInterrupts, DepartureDrained, CleanUp, table
  <2>2. CASE \E ok \in BOOLEAN, d \in Dests : ReleaseDestination(p, d, ok)
    BY <2>2, <1>1 DEF ReleaseDestination
  <2> QED BY <1>3, <1>8, <2>1, <2>2 DEF DepartureStep
<1>9. CASE StopStep
  BY <1>9, <1>1 DEF StopStep, StopInterrupts, StopDrained, StopDeparted, StopDone, StopDeparts, table
<1>10. CASE Call
  <2>1. UNCHANGED table
    BY <1>10 DEF Call, JoinCall, Submit, Abandon, Ignore, Fail, CommitAck, NoAck, ResponseStarted, Speak,
                 Left, Interrupt, StopCall
  <2> QED BY <2>1, <1>1 DEF table
<1> QED BY <1>7, <1>8, <1>9, <1>10 DEF Next

\* Only the turn that is current takes the focus or is remembered, even if a destination
\* ignored that an older one was told to end.
THEOREM CurrentDecides == Spec => OnlyTheCurrentTurnDecides
<1>1. AInv /\ [Next]_vars =>
        [\A p \in Pids :
           (\/ focus'[p] # None /\ focus'[p] # focus[p]
            \/ hist'[p] # None /\ Len(hist'[p]) > (IF hist[p] = None THEN 0 ELSE Len(hist[p])))
           => gen[p] # 0 /\ job'[gen[p]] # job[gen[p]]]_vars
  BY DecisionStep DEF Decides, Acts
<1> QED BY <1>1, AInvHolds, PTL DEF Spec, OnlyTheCurrentTurnDecides

=============================================================================
