----------------------------- MODULE AgentRouter -----------------------------
(***************************************************************************)
(* The router of an agent (agent-sdk/xr-ai-routing/xr_ai_routing/          *)
(* _router.py): participants' requests are turns, each an asyncio task      *)
(* that picks a destination, asks it to admit the turn and has it answer.  *)
(* A new turn cancels the one before it; departures and stop() cancel what *)
(* runs, release what the destinations hold and close admission until they *)
(* are done.                                                               *)
(*                                                                         *)
(* Everything runs on one event loop, so a step is what happens between    *)
(* two awaits.  A job is a turn (from _submit() to the end of its task) or *)
(* a join (from _participant_joined() to the end of its initialization).   *)
(* Its phase names the await it is in.  An identity the code compares with *)
(* `is` (generation, epoch, lifecycle, lock) is a number.                  *)
(***************************************************************************)
EXTENDS Naturals, Sequences, FiniteSets

CONSTANTS
  Pids,             \* participants
  Dests,            \* destinations
  Default,          \* _default_destination
  NumJobs,          \* bound: turns and joins
  MaxLeft, MaxStops, MaxInterrupts,  \* bounds: such calls
  Kinds,            \* "query" (published), "direct" (handle()), "join"
  Runtime,          \* runtime topics are configured
  Acks,             \* acknowledgments are configured
  MayFail,          \* callbacks and destinations may raise
  MayIgnoreCancel,  \* destinations and the initialization hook may swallow a cancellation
  None

ASSUME AgentRouterAssumption ==
  /\ Default \in Dests /\ None \notin Dests \cup Pids
  /\ {NumJobs, MaxLeft, MaxStops, MaxInterrupts} \subseteq Nat
  /\ Kinds \subseteq {"query", "direct", "join"}
  /\ {Runtime, Acks, MayFail, MayIgnoreCancel} \subseteq BOOLEAN

Jobs == 1 .. NumJobs

VARIABLES
  job,        \* job[i]: a turn or a join
  gen,        \* _generation: the turn that may still act, 0 for none
  task,       \* _tasks: the participant's turn task, 0 for none
  joining,    \* _join_tasks, 0 for none
  focus,      \* _focus
  used,       \* _destinations_used
  hist,       \* _history: the turns remembered, or None before the first
  ready,      \* _initialized
  departed,   \* _departed
  epoch,      \* _participant_epochs: the number of the participant's lifecycle
  life,       \* _lifecycle
  locks,      \* _locks: the participant's lock, and whether it has an entry
  dep,        \* _departure_tasks: the departure and where it is
  stop,       \* _stop_task: the shutdown and where it is
  owns,       \* the destinations that hold state for a participant
  shown,      \* the status last reported
  budget      \* calls left to make

table == <<focus, used, hist>>
admissionVars == <<departed, epoch, life, locks>>
outside == <<owns, shown, budget>>
vars == <<job, gen, task, joining, table, ready, admissionVars, dep, stop, outside>>

\* The fields of a job: see the actions that set them.
Blank ==
  [kind |-> "none", pid |-> None, phase |-> "unborn", life |-> 0, epoch |-> 0, lock |-> 0,
   ask |-> "no", waits |-> {}, busy |-> FALSE, dest |-> None, foc |-> FALSE, cands |-> {},
   declined |-> {}, last |-> FALSE, text |-> FALSE, then |-> "none", started |-> FALSE,
   mute |-> FALSE, ack |-> "off", result |-> "none", out |-> <<>>]

Over(r) == [Blank EXCEPT !.kind = r.kind, !.pid = r.pid, !.phase = "over", !.epoch = r.epoch]

Idle == [phase |-> "none", waits |-> {}, lock |-> 0, todo |-> {}, bad |-> FALSE]
Running == [phase |-> "none", waits |-> {}, todo |-> {}, at |-> None, bad |-> FALSE]

Init ==
  /\ job = [i \in Jobs |-> Blank]
  /\ gen = [p \in Pids |-> 0] /\ task = [p \in Pids |-> 0] /\ joining = [p \in Pids |-> 0]
  /\ focus = [p \in Pids |-> None] /\ used = [p \in Pids |-> {}]
  /\ hist = [p \in Pids |-> None]
  /\ ready = {} /\ departed = {}
  /\ epoch = [p \in Pids |-> 0] /\ life = 0
  /\ locks = [p \in Pids |-> [n |-> 0, made |-> FALSE]]
  /\ dep = [p \in Pids |-> Idle] /\ stop = Running
  /\ owns = [p \in Pids |-> {}] /\ shown = [p \in Pids |-> "idle"]
  /\ budget = [left |-> MaxLeft, stops |-> MaxStops, interrupts |-> MaxInterrupts]

-----------------------------------------------------------------------------
(* Admission, locks and cancellation. *)

\* A job whose task exists and has not ended.
Live(i) == job[i].phase \notin {"unborn", "queued", "draining", "waitdep", "over"}

Current(i) == gen[job[i].pid] = i

\* _admission_error()
Refused(i) ==
  LET p == job[i].pid IN
  \/ stop.phase # "none" \/ job[i].life # life
  \/ dep[p].phase # "none" \/ job[i].epoch # epoch[p]
  \/ p \in departed

\* Fault: a departure asks twice for a lock that is not reentrant.
LockTwice(p, n) ==
  /\ \A j \in Jobs : ~(job[j].phase = "draining" /\ job[j].pid = p /\ job[j].lock = n)
  /\ ~(dep[p].phase \in {"lock", "cleaning"} /\ dep[p].lock = n)

\* Lock n of participant p is held by a turn that drains its predecessor, or
\* by a departure that cleans up.
LockFree(p, n) ==
  /\ \A j \in Jobs : ~(job[j].phase = "draining" /\ job[j].pid = p /\ job[j].lock = n)
  /\ ~(dep[p].phase = "cleaning" /\ dep[p].lock = n)

\* _initialization_locks: held while the initialization hook runs.
InitFree(p) == \A j \in Jobs : ~(job[j].phase = "hook" /\ job[j].pid = p)

\* _cancel_once(): a job that was asked to stop before is not asked again.
Ask(table1, J) == [i \in Jobs |-> IF i \in J /\ Live(i) /\ table1[i].ask = "no"
                                  THEN [table1[i] EXCEPT !.ask = "asked"] ELSE table1[i]]

\* The tasks _interrupt_responses() cancels and waits for.
TasksOf(P) == ({task[p] : p \in P} \cup {joining[p] : p \in P}) \ {0}

Drained(J) == \A j \in J : job[j].phase = "over"

\* A job goes on after an await unless a cancellation is delivered there.
Resumes(i, phase) == job[i].phase = phase /\ job[i].ask # "asked"

Put(i, r) == job' = [job EXCEPT ![i] = r]

\* The task ends: its done callback takes it out of the tables.
Finish(i) ==
  LET p == job[i].pid IN
  /\ Put(i, Over(job[i]))
  /\ task' = [task EXCEPT ![p] = IF @ = i THEN 0 ELSE @]
  /\ gen' = [gen EXCEPT ![p] = IF task[p] = i THEN 0 ELSE @]
  /\ joining' = [joining EXCEPT ![p] = IF @ = i THEN 0 ELSE @]

\* The body of the turn is left: its finally clause reports "idle".
Leaving(r) == [Blank EXCEPT !.kind = r.kind, !.pid = r.pid, !.phase = "ending", !.ask = r.ask,
                            !.epoch = r.epoch, !.busy = r.busy]

-----------------------------------------------------------------------------
(* Entering: _submit() and _participant_joined(). *)

NextJob(i) == job[i].phase = "unborn" /\ \A j \in Jobs : j < i => job[j].phase # "unborn"

New(i, kind, p) == [Blank EXCEPT !.kind = kind, !.pid = p, !.life = life, !.epoch = epoch[p]]

HasLock(p) == locks' = [locks EXCEPT ![p].made = TRUE]

\* _submit() up to the participant's lock.
Submit(i, kind, p) ==
  /\ NextJob(i) /\ kind \in Kinds \ {"join"}
  /\ LET refused == \/ stop.phase # "none" \/ dep[p].phase # "none" \/ p \in departed
     IN IF refused
        THEN Put(i, Over(New(i, kind, p))) /\ UNCHANGED locks
        ELSE Put(i, [New(i, kind, p) EXCEPT !.phase = "queued", !.lock = locks[p].n]) /\ HasLock(p)
  /\ UNCHANGED <<gen, task, joining, table, ready, departed, epoch, life, dep, stop, outside>>

\* The lock is taken: the turn before this one, or a join, is cancelled.
Acquire(i) ==
  LET p == job[i].pid IN
  /\ job[i].phase = "queued" /\ job[i].kind # "join" /\ LockFree(p, job[i].lock)
  /\ IF Refused(i)
     THEN Put(i, Over(job[i])) /\ UNCHANGED gen
     ELSE /\ gen' = [gen EXCEPT ![p] = 0]
          /\ job' = Ask([job EXCEPT ![i].phase = "draining", ![i].waits = TasksOf({p})],
                        TasksOf({p}))
  /\ UNCHANGED <<task, joining, table, ready, admissionVars, dep, stop, outside>>

\* Fault: the turn before this one is cancelled but not waited for.
CreateAtOnce(i) ==
  LET p == job[i].pid IN
  /\ job[i].phase = "draining"
  /\ IF Refused(i)
     THEN Put(i, Over(job[i])) /\ UNCHANGED <<gen, task, hist>>
     ELSE /\ Put(i, [job[i] EXCEPT !.phase = "begin", !.waits = {}, !.lock = 0])
          /\ gen' = [gen EXCEPT ![p] = i] /\ task' = [task EXCEPT ![p] = i]
          /\ hist' = [hist EXCEPT ![p] = IF @ = None THEN <<>> ELSE @]
  /\ UNCHANGED <<joining, focus, used, ready, admissionVars, dep, stop, outside>>

\* They have ended: the turn's task is created and the lock released.
Create(i) ==
  LET p == job[i].pid IN
  /\ job[i].phase = "draining" /\ Drained(job[i].waits)
  /\ IF Refused(i)
     THEN Put(i, Over(job[i])) /\ UNCHANGED <<gen, task, hist>>
     ELSE /\ Put(i, [job[i] EXCEPT !.phase = "begin", !.waits = {}, !.lock = 0])
          /\ gen' = [gen EXCEPT ![p] = i] /\ task' = [task EXCEPT ![p] = i]
          /\ hist' = [hist EXCEPT ![p] = IF @ = None THEN <<>> ELSE @]
  /\ UNCHANGED <<joining, focus, used, ready, admissionVars, dep, stop, outside>>

\* _departure_operation(): a departure that runs is joined, a failed one retried.
Departing(p) == IF dep[p].phase \in {"none", "failed"}
                THEN dep' = [dep EXCEPT ![p] = [Idle EXCEPT !.phase = "interrupt"]]
                ELSE UNCHANGED dep

\* _participant_joined() up to the participant's lock.
JoinCall(i, p) ==
  /\ NextJob(i) /\ "join" \in Kinds
  /\ IF stop.phase # "none"
     THEN Put(i, Over(New(i, "join", p))) /\ UNCHANGED <<locks, dep>>
     ELSE IF dep[p].phase # "none"
     THEN Put(i, [New(i, "join", p) EXCEPT !.phase = "waitdep"]) /\ Departing(p) /\ UNCHANGED locks
     ELSE /\ Put(i, [New(i, "join", p) EXCEPT !.phase = "queued", !.lock = locks[p].n])
          /\ HasLock(p) /\ UNCHANGED dep
  /\ UNCHANGED <<gen, task, joining, table, ready, departed, epoch, life, stop, outside>>

\* The departure the join waited for is over; its failure is the join's.
JoinAfterDeparture(i) ==
  LET p == job[i].pid IN
  /\ job[i].phase = "waitdep" /\ dep[p].phase \in {"none", "failed"}
  /\ IF dep[p].phase = "none"
     THEN Put(i, [job[i] EXCEPT !.phase = "queued", !.lock = locks[p].n]) /\ HasLock(p)
     ELSE Put(i, Over(job[i])) /\ UNCHANGED locks
  /\ UNCHANGED <<gen, task, joining, table, ready, departed, epoch, life, dep, stop, outside>>

\* Under the lock: readmit, and initialize unless that is done or under way.
JoinLocked(i) ==
  LET p == job[i].pid
      late == \/ stop.phase # "none" \/ job[i].life # life
              \/ job[i].epoch # epoch[p] \/ dep[p].phase # "none"
  IN
  /\ job[i].phase = "queued" /\ job[i].kind = "join" /\ LockFree(p, job[i].lock)
  /\ departed' = IF late THEN departed ELSE departed \ {p}
  /\ IF late \/ p \in ready \/ joining[p] # 0
     THEN Put(i, Over(job[i])) /\ UNCHANGED joining
     ELSE Put(i, [job[i] EXCEPT !.phase = "waitinit"]) /\ joining' = [joining EXCEPT ![p] = i]
  /\ UNCHANGED <<gen, task, table, ready, epoch, life, locks, dep, stop, outside>>

-----------------------------------------------------------------------------
(* A turn's task up to its body: run_handle() and _initialize_once(). *)

turnFrame == <<task, joining, ready, admissionVars, dep, stop>>

Begin(i) ==
  /\ Resumes(i, "begin")
  /\ Put(i, IF Refused(i) THEN Leaving(job[i]) ELSE [job[i] EXCEPT !.phase = "waitinit"])
  /\ UNCHANGED <<gen, turnFrame, table, outside>>

\* Initialization is done: a join is over, a turn that may still run starts.
Initialized(i) ==
  LET r == job[i] IN
  IF r.kind = "join" \/ ~Current(i) \/ Refused(i) THEN Leaving(r)
  ELSE IF r.kind = "query" THEN [r EXCEPT !.phase = "status", !.busy = TRUE]
  ELSE [r EXCEPT !.phase = "start"]

TakeInit(i) ==
  /\ Resumes(i, "waitinit") /\ InitFree(job[i].pid)
  /\ Put(i, IF job[i].pid \in ready THEN Initialized(i) ELSE [job[i] EXCEPT !.phase = "hook"])
  /\ UNCHANGED <<gen, turnFrame, table, outside>>

\* The hook returns; an initialization that was cancelled meanwhile is not one.
Initialize(i) ==
  /\ Resumes(i, "hook")
  /\ IF job[i].ask = "taken" \/ (job[i].kind # "join" /\ ~Current(i))
     THEN Put(i, Leaving(job[i])) /\ UNCHANGED ready
     ELSE ready' = ready \cup {job[i].pid} /\ Put(i, Initialized(i))
  /\ UNCHANGED <<gen, task, joining, table, admissionVars, dep, stop, outside>>

ReportProcessing(i) ==
  /\ Resumes(i, "status")
  /\ shown' = [shown EXCEPT ![job[i].pid] = "processing"]
  /\ Put(i, [job[i] EXCEPT !.phase = "start"])
  /\ UNCHANGED <<gen, turnFrame, table, owns, budget>>

\* The last await of a task; a cancellation may come before the status is out.
End(i) ==
  LET p == job[i].pid IN
  /\ job[i].phase = "ending"
  /\ shown' \in {[shown EXCEPT ![p] = IF job[i].busy THEN "idle" ELSE @]}
                \cup (IF job[i].ask = "asked" THEN {shown} ELSE {})
  /\ Finish(i)
  /\ UNCHANGED <<table, ready, admissionVars, dep, stop, owns, budget>>

-----------------------------------------------------------------------------
(* Choosing a destination and asking it to admit the turn: _handle(). *)

\* Control output, suppressed unless the turn is current.
Say(i, r, what) == IF Current(i) THEN [r EXCEPT !.out = Append(@, what)] ELSE r

Clarify(i, r) == [Say(i, r, "control") EXCEPT !.phase = "clarify"]

\* The next attempt, which is the last.
Retry(r, cands) == [r EXCEPT !.phase = "select", !.foc = FALSE, !.cands = cands, !.last = TRUE]

Remember(i) == LET p == job[i].pid IN
  hist' = [hist EXCEPT ![p] = Append(IF @ = None THEN <<>> ELSE @, i)]

Hold(p, d) == owns' = [owns EXCEPT ![p] = @ \cup {d}]

\* The body starts: the focused destination goes first, unless it is not
\* eligible now.  E is the set of destinations that say they are eligible.
Start(i) ==
  LET p == job[i].pid
      f == focus[p]
  IN
  /\ Resumes(i, "start")
  /\ \E E \in SUBSET Dests :
       IF f # None /\ f \notin E
       THEN /\ focus' = [focus EXCEPT ![p] = None]
            /\ Put(i, [job[i] EXCEPT !.phase = "unfocus", !.dest = f])
       ELSE /\ UNCHANGED focus
            /\ Put(i, [job[i] EXCEPT !.phase = "select", !.foc = (f # None),
                                     !.cands = IF f # None THEN {f} ELSE Dests])
  /\ UNCHANGED <<gen, turnFrame, used, hist, outside>>

\* release() of the destination that lost the focus has returned.
Unfocused(i) ==
  /\ Resumes(i, "unfocus")
  /\ Put(i, IF Current(i) THEN [job[i] EXCEPT !.phase = "select", !.cands = Dests \ {job[i].dest}]
            ELSE Leaving(job[i]))
  /\ UNCHANGED <<gen, turnFrame, table, outside>>

\* _select(): a focused destination needs no choice, a single candidate is
\* taken if it is eligible, else the decision service names one or none.
Choices(r, E) ==
  IF r.foc THEN r.cands
  ELSE (r.cands \cap E) \cup
       (IF Cardinality(r.cands) = 1 /\ r.cands \subseteq E THEN {} ELSE {None})

Select(i) ==
  LET p == job[i].pid IN
  /\ Resumes(i, "select")
  /\ IF ~Current(i)
     THEN Put(i, Leaving(job[i])) /\ UNCHANGED <<used, owns>>
     ELSE \E E \in SUBSET Dests : \E d \in Choices(job[i], E) :
            IF d = None
            THEN Put(i, Clarify(i, job[i])) /\ UNCHANGED <<used, owns>>
            ELSE /\ Put(i, [job[i] EXCEPT !.phase = "admit", !.dest = d])
                 /\ used' = [used EXCEPT ![p] = @ \cup {d}] /\ Hold(p, d)
  /\ UNCHANGED <<gen, turnFrame, focus, hist, shown, budget>>

\* The clarification is out and is remembered.
Clarified(i) ==
  /\ Resumes(i, "clarify")
  /\ Remember(i) /\ Put(i, Leaving(job[i]))
  /\ UNCHANGED <<gen, turnFrame, focus, used, outside>>

\* answer() is called, with an acknowledgment task beside it.
Answering(r, d, acked) ==
  [r EXCEPT !.phase = "answer", !.dest = d, !.foc = FALSE, !.ack = IF acked THEN "pending" ELSE "off"]

\* A destination declines: another attempt, or the default's last one.
Decline(i, d, E) ==
  LET r == job[i]
      p == r.pid
      out == r.declined \cup {d}
      cands == (IF r.foc THEN Dests ELSE r.cands) \ {d}
      asked == [r EXCEPT !.declined = out, !.foc = FALSE, !.cands = cands]
      letgo(then) == [asked EXCEPT !.phase = "letgo", !.then = then]
  IN
  IF cands = {} \/ r.last
  THEN IF Default \notin E \/ Default \in out
       THEN Put(i, IF focus[p] = d THEN Clarify(i, asked) ELSE letgo("clarify"))
       ELSE Put(i, letgo("answer"))
  ELSE Put(i, IF focus[p] = d THEN Retry(asked, cands) ELSE letgo("retry"))

Admitted(i) ==
  LET r == job[i] IN
  /\ Resumes(i, "admit")
  /\ \/ ~Current(i) /\ Put(i, Leaving(r))
     \/ /\ Current(i)
        /\ \E text \in BOOLEAN :
             \/ Put(i, IF text THEN [Say(i, r, "control") EXCEPT !.phase = "preamble"]
                       ELSE Answering(r, r.dest, Acks))
             \/ Put(i, IF text THEN Clarify(i, r) ELSE Leaving(r))
             \/ Put(i, [r EXCEPT !.phase = "release", !.text = text])
             \/ \E E \in SUBSET Dests : Decline(i, r.dest, E)
  /\ UNCHANGED <<gen, turnFrame, table, outside>>

Preambled(i) ==
  /\ Resumes(i, "preamble")
  /\ Put(i, IF Current(i) THEN Answering(job[i], job[i].dest, FALSE) ELSE Leaving(job[i]))
  /\ UNCHANGED <<gen, turnFrame, table, outside>>

\* release() of a destination that declined has returned.
LetGo(i) ==
  LET r == job[i] IN
  /\ Resumes(i, "letgo")
  /\ Put(i, IF ~Current(i) THEN Leaving(r)
            ELSE CASE r.then = "retry" -> Retry(r, r.cands)
                   [] r.then = "clarify" -> Clarify(i, r)
                   [] r.then = "answer" -> Answering(r, Default, Acks))
  /\ IF Current(i) /\ r.then = "answer"
     THEN used' = [used EXCEPT ![r.pid] = @ \cup {Default}] /\ Hold(r.pid, Default)
     ELSE UNCHANGED <<used, owns>>
  /\ UNCHANGED <<gen, turnFrame, focus, hist, shown, budget>>

\* After a release at admission the request goes to another destination.
Reroute(i, r) ==
  IF Dests = {r.dest} \/ r.last
  THEN IF r.text THEN Leaving(r) ELSE Clarify(i, r)
  ELSE Retry(r, Dests \ {r.dest})

Released(i) ==
  LET r == job[i]
      p == r.pid
  IN
  /\ Resumes(i, "release")
  /\ focus' = IF Current(i) /\ focus[p] = r.dest THEN [focus EXCEPT ![p] = None] ELSE focus
  /\ Put(i, IF ~Current(i) THEN Leaving(r)
            ELSE IF r.text THEN [Say(i, r, "control") EXCEPT !.phase = "told"]
            ELSE Reroute(i, r))
  /\ UNCHANGED <<gen, turnFrame, used, hist, outside>>

\* The text of that release is out and is remembered.
Told(i) ==
  /\ Resumes(i, "told")
  /\ Remember(i) /\ Put(i, Reroute(i, job[i]))
  /\ UNCHANGED <<gen, turnFrame, focus, used, outside>>

-----------------------------------------------------------------------------
(* The answer, and the acknowledgment that fills a silence before it. *)

\* emit_acknowledgment(): from here on the acknowledgment is not withdrawn.
CommitAck(i) ==
  /\ job[i].phase = "answer" /\ job[i].ack = "pending" /\ ~job[i].started
  /\ Put(i, [job[i] EXCEPT !.ack = IF Current(i) THEN "committed" ELSE "done"])
  /\ UNCHANGED <<gen, turnFrame, table, outside>>

\* The output callback returns, or raises.
DeliverAck(i) ==
  /\ job[i].ack = "committed"
  /\ \/ Put(i, [job[i] EXCEPT !.ack = "done", !.out = Append(@, "ack")])
     \/ MayFail /\ Put(i, [job[i] EXCEPT !.ack = "done", !.mute = TRUE])
  /\ UNCHANGED <<gen, turnFrame, table, outside>>

\* The acknowledgment task ends with nothing to say.
NoAck(i) ==
  /\ job[i].phase = "answer" /\ job[i].ack = "pending"
  /\ Put(i, [job[i] EXCEPT !.ack = "done"])
  /\ UNCHANGED <<gen, turnFrame, table, outside>>

\* response_started(): a pending acknowledgment is cancelled.
ResponseStarted(i) ==
  /\ job[i].phase = "answer" /\ Current(i) /\ ~job[i].started
  /\ Put(i, [job[i] EXCEPT !.started = TRUE, !.ack = IF @ = "pending" THEN "done" ELSE @])
  /\ UNCHANGED <<gen, turnFrame, table, outside>>

\* Faults: response_started() does not wait, or leaves the pending task alone.
SpeakAtOnce(i) ==
  /\ job[i].phase = "answer" /\ job[i].started /\ Len(job[i].out) < 3
  /\ Put(i, [job[i] EXCEPT !.out = Append(@, "answer")])
  /\ UNCHANGED <<gen, turnFrame, table, outside>>

\* response_started() has returned, after the delivery of an acknowledgment
\* that was committed: the destination publishes its answer.
Speak(i) ==
  /\ job[i].phase = "answer" /\ job[i].started /\ job[i].ack # "committed"
  /\ "answer" \notin {job[i].out[n] : n \in DOMAIN job[i].out}
  /\ Put(i, [job[i] EXCEPT !.out = Append(@, "answer")])
  /\ UNCHANGED <<gen, turnFrame, table, outside>>

\* answer() is left, with a result, by an exception or by a cancellation.
Answered(i, result, text) ==
  /\ job[i].phase = "answer"
  /\ IF job[i].ask = "asked" THEN result = "cancelled"
     ELSE result \in {"answer", "focus", "release"} \cup (IF MayFail THEN {"failed"} ELSE {})
  /\ Put(i, [job[i] EXCEPT !.phase = "closing", !.result = result, !.text = text,
                           !.ask = IF @ = "asked" THEN "taken" ELSE @, !.ack = IF @ = "pending" THEN "done" ELSE @])
  /\ UNCHANGED <<gen, turnFrame, table, outside>>

\* A turn that fails before its answer started says so, once.
Failing(i, r) ==
  IF ~r.started /\ ~r.mute /\ ~Refused(i)
  THEN [Say(i, r, "failure") EXCEPT !.phase = "failure"] ELSE Leaving(r)

\* The result stands: it is remembered if it has text.
Conclude(i, text) == IF text THEN Remember(i) ELSE UNCHANGED hist

\* Faults: results of turns that are no longer current.
CloseAnyway(i) ==
  LET r == job[i] IN
  /\ r.phase = "closing" /\ r.ack # "committed"
  /\ focus' = IF r.result = "focus" THEN [focus EXCEPT ![r.pid] = r.dest] ELSE focus
  /\ Put(i, Leaving(r)) /\ Conclude(i, r.text)
  /\ UNCHANGED <<gen, turnFrame, used, outside>>

\* The acknowledgment task has been drained; the result takes effect if the
\* turn is still current.
Close(i) ==
  LET r == job[i]
      p == r.pid
      moves == r.result = "focus" /\ focus[p] \notin {None, r.dest}
  IN
  /\ r.phase = "closing" /\ r.ack # "committed"
  /\ IF r.result \in {"cancelled", "failed"} \/ r.ask = "asked" \/ ~Current(i)
     THEN /\ Put(i, IF r.result = "failed" /\ r.ask # "asked" THEN Failing(i, r) ELSE Leaving(r))
          /\ UNCHANGED <<focus, hist>>
     ELSE /\ focus' = IF r.result = "focus" THEN [focus EXCEPT ![p] = r.dest] ELSE focus
          /\ IF moves \/ r.result = "release"
             THEN /\ Put(i, [r EXCEPT !.phase = "handover", !.then = r.result])
                  /\ UNCHANGED hist
             ELSE Put(i, Leaving(r)) /\ Conclude(i, r.text)
  /\ UNCHANGED <<gen, turnFrame, used, outside>>

\* release() of the destination that had the focus, or gives it up, returned.
HandedOver(i) ==
  LET r == job[i]
      p == r.pid
  IN
  /\ Resumes(i, "handover")
  /\ Put(i, Leaving(r))
  /\ IF Current(i)
     THEN /\ Conclude(i, r.text)
          /\ focus' = IF r.then = "release" /\ focus[p] = r.dest
                      THEN [focus EXCEPT ![p] = None] ELSE focus
     ELSE UNCHANGED <<hist, focus>>
  /\ UNCHANGED <<gen, turnFrame, used, outside>>

\* The failure message is out, or could not be sent.
FailureTold(i) ==
  /\ Resumes(i, "failure")
  /\ Put(i, Leaving(job[i]))
  /\ UNCHANGED <<gen, turnFrame, table, outside>>

\* A destination, the decision service, the hook or the output raises.
Fail(i) ==
  LET r == job[i]
      told == r.phase \in {"clarify", "told", "preamble"}
  IN
  /\ MayFail /\ r.ask # "asked"
  /\ \/ told
     \/ r.phase \in {"hook", "unfocus", "select", "admit", "release", "letgo", "handover"}
  /\ Put(i, IF r.kind = "join" THEN Leaving(r) ELSE Failing(i, [r EXCEPT !.mute = @ \/ told]))
  /\ UNCHANGED <<gen, turnFrame, table, outside>>

\* A cancellation is delivered at the await the job is in.
Cancelled(i) ==
  /\ job[i].ask = "asked"
  /\ job[i].phase \in {"begin", "waitinit", "hook", "status", "start", "unfocus", "select", "clarify",
                       "admit", "preamble", "letgo", "release", "told", "handover", "failure"}
  /\ Put(i, Leaving([job[i] EXCEPT !.ask = "taken"]))
  /\ UNCHANGED <<gen, turnFrame, table, outside>>

\* A destination or the hook swallows the cancellation and goes on.
Ignore(i) ==
  /\ MayIgnoreCancel /\ job[i].ask = "asked"
  /\ job[i].phase \in {"hook", "unfocus", "admit", "letgo", "release", "answer", "handover"}
  /\ Put(i, [job[i] EXCEPT !.ask = "taken"])
  /\ UNCHANGED <<gen, turnFrame, table, outside>>

\* The caller of handle() is cancelled: it gives its turn up and waits for it.
Abandon(i) ==
  LET p == job[i].pid IN
  /\ job[i].kind = "direct" /\ Live(i)
  /\ gen' = [gen EXCEPT ![p] = IF task[p] = i THEN 0 ELSE @]
  /\ job' = Ask(job, {i})
  /\ UNCHANGED <<turnFrame, table, outside>>

-----------------------------------------------------------------------------
(* Departures, interruptions and shutdown. *)

\* _run_departure() begins: the participant's work is cancelled.
DepartureInterrupts(p) ==
  /\ dep[p].phase = "interrupt"
  /\ gen' = [gen EXCEPT ![p] = 0] /\ job' = Ask(job, TasksOf({p}))
  /\ dep' = [dep EXCEPT ![p].phase = "draining", ![p].waits = TasksOf({p})]
  /\ UNCHANGED <<task, joining, table, ready, admissionVars, stop, outside>>

DepartureDrained(p) ==
  /\ dep[p].phase = "draining" /\ Drained(dep[p].waits)
  /\ dep' = [dep EXCEPT ![p].phase = "lock", ![p].waits = {}, ![p].lock = locks[p].n]
  /\ HasLock(p)
  /\ UNCHANGED <<job, gen, task, joining, table, ready, departed, epoch, life, stop, outside>>

\* Faults: no focus is taken for a destination; the history survives.
FocusUnchecked(p) ==
  /\ dep[p].phase = "lock" /\ LockFree(p, dep[p].lock)
  /\ used' = [used EXCEPT ![p] = @ \cup {focus[p]}]
  /\ focus' = [focus EXCEPT ![p] = None] /\ hist' = [hist EXCEPT ![p] = None]
  /\ dep' = [dep EXCEPT ![p].phase = "cleaning", ![p].todo = used'[p], ![p].bad = FALSE]
  /\ UNCHANGED <<job, gen, task, joining, ready, admissionVars, stop, outside>>

HistoryKept(p) ==
  /\ dep[p].phase = "lock" /\ LockFree(p, dep[p].lock)
  /\ used' = [used EXCEPT ![p] = @ \cup ({focus[p]} \ {None})]
  /\ focus' = [focus EXCEPT ![p] = None] /\ UNCHANGED hist
  /\ dep' = [dep EXCEPT ![p].phase = "cleaning", ![p].todo = used'[p], ![p].bad = FALSE]
  /\ UNCHANGED <<job, gen, task, joining, ready, admissionVars, stop, outside>>

\* Under the lock: what the router keeps of the participant is dropped.
DepartureLocked(p) ==
  /\ dep[p].phase = "lock" /\ LockFree(p, dep[p].lock)
  /\ used' = [used EXCEPT ![p] = @ \cup ({focus[p]} \ {None})]
  /\ focus' = [focus EXCEPT ![p] = None] /\ hist' = [hist EXCEPT ![p] = None]
  /\ dep' = [dep EXCEPT ![p].phase = "cleaning", ![p].todo = used'[p], ![p].bad = FALSE]
  /\ UNCHANGED <<job, gen, task, joining, ready, admissionVars, stop, outside>>

\* Fault: a destination whose release failed is forgotten as well.
ForgetReleased(p, d, ok) ==
  /\ dep[p].phase = "cleaning" /\ d \in dep[p].todo /\ (MayFail \/ ok)
  /\ dep' = [dep EXCEPT ![p].todo = @ \ {d}, ![p].bad = @ \/ ~ok]
  /\ used' = [used EXCEPT ![p] = @ \ {d}]
  /\ owns' = IF ok THEN [owns EXCEPT ![p] = @ \ {d}] ELSE owns
  /\ UNCHANGED <<job, gen, task, joining, focus, hist, ready, admissionVars, stop, shown, budget>>

\* A destination's participant_left() (or release()) returns or raises.
ReleaseDestination(p, d, ok) ==
  /\ dep[p].phase = "cleaning" /\ d \in dep[p].todo /\ (MayFail \/ ok)
  /\ dep' = [dep EXCEPT ![p].todo = @ \ {d}, ![p].bad = @ \/ ~ok]
  /\ used' = IF ok THEN [used EXCEPT ![p] = @ \ {d}] ELSE used
  /\ owns' = IF ok THEN [owns EXCEPT ![p] = @ \ {d}] ELSE owns
  /\ UNCHANGED <<job, gen, task, joining, focus, hist, ready, admissionVars, stop, shown, budget>>

\* The cleanup hook has run.  A departure that failed stays in the table and
\* keeps admission closed; one that succeeded retires the participant's locks.
CleanUp(p, ok) ==
  /\ dep[p].phase = "cleaning" /\ dep[p].todo = {} /\ (MayFail \/ ok)
  /\ IF dep[p].bad \/ ~ok
     THEN dep' = [dep EXCEPT ![p] = [Idle EXCEPT !.phase = "failed"]] /\ UNCHANGED <<ready, locks>>
     ELSE /\ dep' = [dep EXCEPT ![p] = Idle]
          /\ ready' = ready \ {p}
          /\ locks' = [locks EXCEPT ![p] = [n |-> @.n + 1, made |-> FALSE]]
  /\ UNCHANGED <<job, gen, task, joining, table, departed, epoch, life, stop, outside>>

\* participant_left()
Left(p) ==
  /\ budget.left > 0 /\ budget' = [budget EXCEPT !.left = @ - 1]
  /\ departed' = IF Runtime THEN departed \cup {p} ELSE departed
  /\ epoch' = [epoch EXCEPT ![p] = @ + 1]
  /\ IF stop.phase # "none" THEN UNCHANGED dep ELSE Departing(p)
  /\ UNCHANGED <<job, gen, task, joining, table, ready, life, locks, stop, owns, shown>>

\* interrupt(), for one participant or for all of them.
Interrupt(P) ==
  /\ budget.interrupts > 0 /\ budget' = [budget EXCEPT !.interrupts = @ - 1]
  /\ gen' = [p \in Pids |-> IF p \in P THEN 0 ELSE gen[p]]
  /\ job' = Ask(job, TasksOf(P))
  /\ UNCHANGED <<turnFrame, table, owns, shown>>

\* stop(): a shutdown that runs is joined, one that failed is retried.
StopCall ==
  /\ budget.stops > 0 /\ budget' = [budget EXCEPT !.stops = @ - 1]
  /\ IF stop.phase \in {"none", "failed"}
     THEN life' = life + 1 /\ stop' = [Running EXCEPT !.phase = "interrupt"]
     ELSE UNCHANGED <<life, stop>>
  /\ UNCHANGED <<job, gen, task, joining, table, ready, departed, epoch, locks, dep, owns, shown>>

\* _run_stop() begins: all work is cancelled.
StopInterrupts ==
  /\ stop.phase = "interrupt"
  /\ gen' = [p \in Pids |-> 0] /\ job' = Ask(job, TasksOf(Pids))
  /\ stop' = [stop EXCEPT !.phase = "draining", !.waits = TasksOf(Pids)]
  /\ UNCHANGED <<task, joining, table, ready, admissionVars, dep, outside>>

\* The participants the router knows anything of.
Known(p) == used[p] # {} \/ focus[p] # None \/ hist[p] # None \/ locks[p].made \/ dep[p].phase # "none"

StopDrained ==
  /\ stop.phase = "draining" /\ Drained(stop.waits)
  /\ stop' = [stop EXCEPT !.phase = "leaving", !.waits = {}, !.todo = {p \in Pids : Known(p)}]
  /\ UNCHANGED <<job, gen, task, joining, table, ready, admissionVars, dep, outside>>

\* One participant after the other departs; its failure does not end the loop.
StopDeparts(p) ==
  /\ stop.phase = "leaving" /\ stop.at = None /\ p \in stop.todo
  /\ stop' = [stop EXCEPT !.todo = @ \ {p}, !.at = p] /\ Departing(p)
  /\ UNCHANGED <<job, gen, task, joining, table, ready, admissionVars, outside>>

StopDeparted ==
  /\ stop.phase = "leaving" /\ stop.at # None
  /\ dep[stop.at].phase \in {"none", "failed"}
  /\ stop' = [stop EXCEPT !.at = None, !.bad = @ \/ dep[stop.at].phase = "failed"]
  /\ UNCHANGED <<job, gen, task, joining, table, ready, admissionVars, dep, outside>>

\* A clean shutdown opens admission again, for fresh lifecycles.
StopDone ==
  /\ stop.phase = "leaving" /\ stop.at = None /\ stop.todo = {}
  /\ IF stop.bad
     THEN stop' = [Running EXCEPT !.phase = "failed"] /\ UNCHANGED <<departed, epoch>>
     ELSE stop' = Running /\ departed' = {} /\ epoch' = [p \in Pids |-> epoch[p] + 1]
  /\ UNCHANGED <<job, gen, task, joining, table, ready, life, locks, dep, outside>>

-----------------------------------------------------------------------------
TurnStep(i) ==
  \/ Acquire(i) \/ Create(i) \/ JoinAfterDeparture(i) \/ JoinLocked(i)
  \/ Begin(i) \/ TakeInit(i) \/ Initialize(i) \/ ReportProcessing(i) \/ End(i)
  \/ Start(i) \/ Unfocused(i) \/ Select(i) \/ Clarified(i) \/ Admitted(i) \/ Preambled(i)
  \/ LetGo(i) \/ Released(i) \/ Told(i) \/ Close(i) \/ HandedOver(i) \/ FailureTold(i)
  \/ DeliverAck(i) \/ Cancelled(i)
  \/ \E result \in {"answer", "focus", "release", "failed", "cancelled"}, text \in BOOLEAN :
       Answered(i, result, text)

DepartureStep(p) ==
  \/ DepartureInterrupts(p) \/ DepartureDrained(p) \/ DepartureLocked(p)
  \/ \E ok \in BOOLEAN : CleanUp(p, ok) \/ \E d \in Dests : ReleaseDestination(p, d, ok)

StopStep == StopInterrupts \/ StopDrained \/ StopDeparted \/ StopDone \/ \E p \in Pids : StopDeparts(p)

Call ==
  \/ \E i \in Jobs, p \in Pids : JoinCall(i, p) \/ \E kind \in Kinds : Submit(i, kind, p)
  \/ \E i \in Jobs : Abandon(i) \/ Ignore(i) \/ Fail(i)
  \/ \E i \in Jobs : CommitAck(i) \/ NoAck(i) \/ ResponseStarted(i) \/ Speak(i)
  \/ \E p \in Pids : Left(p) \/ Interrupt({p})
  \/ Interrupt(Pids) \/ StopCall

Next == Call \/ StopStep \/ \E i \in Jobs : TurnStep(i) \/ \E p \in Pids : DepartureStep(p)

\* The loop runs what is ready; destinations, the decision service and the
\* callbacks return.  Nobody has to call, fail, speak or swallow anything.
Fairness ==
  /\ \A i \in Jobs : WF_vars(TurnStep(i))
  /\ \A p \in Pids : WF_vars(DepartureStep(p))
  /\ WF_vars(StopStep)

Spec == Init /\ [][Next]_vars /\ Fairness

-----------------------------------------------------------------------------
(* Properties. *)

Phases == {"unborn", "queued", "draining", "waitdep", "begin", "waitinit", "hook", "status", "start",
           "unfocus", "select", "clarify", "admit", "preamble", "letgo", "release", "told",
           "answer", "closing", "handover", "failure", "ending", "over"}

TypeOK ==
  /\ \A i \in Jobs : /\ job[i].phase \in Phases /\ job[i].ask \in {"no", "asked", "taken"}
                     /\ job[i].ack \in {"off", "pending", "committed", "done"}
                     /\ Len(job[i].out) <= 3
  /\ {gen[p] : p \in Pids} \cup {task[p] : p \in Pids} \cup {joining[p] : p \in Pids} \subseteq 0 .. NumJobs
  /\ focus \in [Pids -> Dests \cup {None}]
  /\ used \in [Pids -> SUBSET Dests] /\ owns \in [Pids -> SUBSET Dests]
  /\ ready \subseteq Pids /\ departed \subseteq Pids

Turns(p) == {i \in Jobs : job[i].kind # "join" /\ job[i].pid = p /\ Live(i)}

\* A participant has one turn at a time: a new one is created when the one
\* before it has ended, not when it was told to. And while destinations are told
\* that the participant has left, and when its state is dropped, none of its turns
\* or initializations runs any more.
OneTurnAtATime ==
  \A p \in Pids :
    /\ Cardinality(Turns(p)) <= 1
    /\ dep[p].phase = "cleaning" => \A i \in Jobs : job[i].pid = p => ~Live(i)

\* The router never loses track of a destination that holds state for a
\* participant: a departure, or its retry, will release it.
OwnersAreKnown == \A p \in Pids : owns[p] \subseteq used[p] \cup {focus[p]}

\* When a departure has succeeded nothing is left of the participant, whatever
\* turn was still ending; with runtime topics it stays so until it joins again.
\* So what is remembered of a participant was said in its present lifecycle.
DepartureLeavesNothing ==
  \A p \in Pids : dep[p].phase = "none" /\ stop.phase = "none" =>
    /\ p \in departed =>
         focus[p] = None /\ used[p] = {} /\ hist[p] = None /\ p \notin ready /\ owns[p] = {}
    /\ hist[p] # None => \A n \in DOMAIN hist[p] : job[hist[p][n]].epoch = epoch[p]

\* What a client is shown of a turn is in order: an acknowledgment and a failure
\* message come before the answer or not at all, and "processing" stays as long as a
\* published turn is at work, for the "idle" of a turn before it cannot come late.
ShownInOrder ==
  \A i \in Jobs :
    /\ \A m, n \in DOMAIN job[i].out : m < n => job[i].out[m] # "answer"
    /\ Live(i) /\ job[i].busy /\ job[i].phase \notin {"status", "ending"} =>
         shown[job[i].pid] = "processing"

\* A superseded, interrupted or departed turn neither takes the focus nor is
\* remembered, even if its destination ignores the cancellation.
OnlyTheCurrentTurnDecides ==
  [][\A p \in Pids :
       (\/ focus'[p] # None /\ focus'[p] # focus[p]
        \/ hist'[p] # None /\ Len(hist'[p]) > (IF hist[p] = None THEN 0 ELSE Len(hist[p])))
       => gen[p] # 0 /\ job'[gen[p]] # job[gen[p]]]_vars

\* Every request is over in the end: answered, clarified, failed, refused or
\* cancelled. And departures and shutdowns end, in success or with a failure to
\* retry, in spite of each other and of the turns and joins that wait for them.
EverythingEnds ==
  /\ \A i \in Jobs : job[i].phase \notin {"unborn", "over"} ~> job[i].phase = "over"
  /\ \A p \in Pids : dep[p].phase \notin {"none", "failed"} ~> dep[p].phase \in {"none", "failed"}
  /\ stop.phase \notin {"none", "failed"} ~> stop.phase \in {"none", "failed"}
=============================================================================
