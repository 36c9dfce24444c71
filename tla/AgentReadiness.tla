---------------------------- MODULE AgentReadiness ----------------------------
(***************************************************************************)
(* When a client is told "ready".                                          *)
(*                                                                         *)
(* Each agent process records a status, waits until the hub has applied    *)
(* its subscriptions (a probe that the hub echoes) and only then sends the *)
(* status to the hub (agent-sdk/xr-ai-hub/xr_ai_hub/_processor.py).  The   *)
(* hub keeps one status per agent and participant and publishes, for each  *)
(* connected participant, the least available of the agents responsible    *)
(* for it (services/device-io-hub/device_io_hub/ipc/_hub.py).              *)
(*                                                                         *)
(* Three channels join an agent to the hub, each in order, none ordered    *)
(* with respect to another: messages pushed to the hub (out), events and   *)
(* echoes published by the hub (inq), and SUBSCRIBE/UNSUBSCRIBE commands   *)
(* (cmds), which the hub's publishing socket applies when it gets to them. *)
(* The way from the hub to the client is not modelled: "published" is the  *)
(* last status the hub sent to the participant's connector.                *)
(***************************************************************************)
EXTENDS Naturals, Sequences, FiniteSets

CONSTANTS
  Agents, Pids,
  AutoSub,        \* agents constructed with auto_subscribe=True
  Said,        \* statuses the agents' applications set
  MaxSess,     \* bound: sessions of each participant
  MaxSets,     \* bound: calls of set_status()
  MaxChoices,  \* bound: generations an agent without auto_subscribe goes through
  MaxStarts,   \* bound: processes started per agent
  MaxTasks,    \* bound: _send_status() coroutines of an agent at a time
  MaxQueue,    \* bound: messages in one channel
  MayTimeout,  \* a subscription probe may time out
  MayStop,     \* an agent may stop
  MayCrash,    \* an agent process may die
  None

Precedence == <<"loading", "processing", "idle", "ready">>

ASSUME AgentReadinessAssumption ==
  /\ AutoSub \subseteq Agents /\ IsFiniteSet(Agents) /\ IsFiniteSet(Pids)
  /\ {MaxSess, MaxSets, MaxChoices, MaxStarts, MaxTasks, MaxQueue} \subseteq Nat
  /\ {MayTimeout, MayStop, MayCrash} \subseteq BOOLEAN
  /\ None \notin Said \cup {Precedence[i] : i \in DOMAIN Precedence}

Slots == 1 .. MaxTasks

\* One _send_status() coroutine: `pid` is served first, then the rest.  With
\* g = 0 it was spawned and has not run; else it probes for generation g.
Tasks  == [pid : Pids, rest : SUBSET Pids, status : Said, g : Nat, again : BOOLEAN]
Upward == [type : {"attach"}, scope : SUBSET Pids] \cup [type : {"detach", "roster"}]
            \cup [type : {"status"}, pid : Pids, status : Said]
            \cup [type : {"probe"}, task : Slots, g : Nat]
Downward == [type : {"joined", "left"}, pid : Pids, sess : 0 .. MaxSess]
              \cup [type : {"echo"}, task : Slots, g : Nat]
Commands == [on : BOOLEAN, pid : Pids]

VARIABLES
  session,    \* hub: the session of each connected participant, 0 for none
  visits,     \* sessions each participant has opened so far
  scope,      \* hub: _agent_scope: whom each attached agent answers for
  record,     \* hub: _agent_status[agent][pid], or None
  published,  \* hub: _published_status[pid], or None
  linked,     \* hub: agents whose subscription to participant events is live
  live,       \* hub: live[a]: participants whose traffic is routed to a
  cmds,       \* cmds[a]: subscription commands not yet applied
  inq,        \* inq[a]: published messages a has not dispatched
  out,        \* out[a]: pushed messages the hub has not taken
  mode,       \* mode[a]: "down", "up", or "stopping" after stop()
  starts,     \* processes started so far
  roster,     \* agents whose roster catch-up is still to be sent
  parts,      \* parts[a][p]: _participants with their sessions, 0 for absent
  subs,       \* subs[a]: _subscribed
  gen,        \* _sub_generation
  confirmed,  \* _confirmed_generation
  default,    \* _default_status, or None
  own,        \* own[a][p]: _participant_status, or None
  tasks,      \* tasks[a][i]: running _send_status() coroutines, or None
  sets        \* set_status() calls so far

roomVars == <<session, visits>>
hubVars  == <<scope, record, published>>
wireVars == <<linked, live, cmds>>
procVars == <<mode, starts, roster, sets>>
selfVars == <<parts, subs, gen, default, own>>
taskVars == <<confirmed, tasks>>
vars == <<roomVars, hubVars, wireVars, inq, out, procVars, selfVars, taskVars>>

TypeOK ==
  /\ session \in [Pids -> 0 .. MaxSess] /\ visits \in [Pids -> 0 .. MaxSess]
  /\ scope \in [Agents -> SUBSET Pids]
  /\ record \in [Agents -> [Pids -> Said \cup {None}]]
  /\ published \in [Pids -> {Precedence[i] : i \in DOMAIN Precedence} \cup {None}]
  /\ linked \subseteq Agents /\ live \in [Agents -> SUBSET Pids]
  /\ cmds \in [Agents -> Seq(Commands)]
  /\ inq \in [Agents -> Seq(Downward)] /\ out \in [Agents -> Seq(Upward)]
  /\ mode \in [Agents -> {"down", "up", "stopping"}]
  /\ starts \in [Agents -> 0 .. MaxStarts]
  /\ roster \subseteq Agents
  /\ parts \in [Agents -> [Pids -> 0 .. MaxSess]] /\ subs \in [Agents -> SUBSET Pids]
  /\ gen \in [Agents -> Nat] /\ confirmed \in [Agents -> Nat]
  /\ default \in [Agents -> Said \cup {None}]
  /\ own \in [Agents -> [Pids -> Said \cup {None}]]
  /\ tasks \in [Agents -> [Slots -> Tasks \cup {None}]]
  /\ sets \in 0 .. MaxSets

Init ==
  /\ session = [p \in Pids |-> 0] /\ visits = [p \in Pids |-> 0]
  /\ scope = [a \in Agents |-> {}]
  /\ record = [a \in Agents |-> [p \in Pids |-> None]]
  /\ published = [p \in Pids |-> None]
  /\ linked = {} /\ live = [a \in Agents |-> {}] /\ cmds = [a \in Agents |-> <<>>]
  /\ inq = [a \in Agents |-> <<>>] /\ out = [a \in Agents |-> <<>>]
  /\ mode = [a \in Agents |-> "down"] /\ starts = [a \in Agents |-> 0]
  /\ roster = {}
  /\ parts = [a \in Agents |-> [p \in Pids |-> 0]]
  /\ subs = [a \in Agents |-> {}]
  /\ gen = [a \in Agents |-> 0] /\ confirmed = [a \in Agents |-> 0]
  /\ default = [a \in Agents |-> None]
  /\ own = [a \in Agents |-> [p \in Pids |-> None]]
  /\ tasks = [a \in Agents |-> [i \in Slots |-> None]]
  /\ sets = 0

-----------------------------------------------------------------------------
(* The hub. *)

\* A status the hub does not know counts as "processing".
Rank(st) == IF \E i \in DOMAIN Precedence : Precedence[i] = st
            THEN CHOOSE i \in DOMAIN Precedence : Precedence[i] = st
            ELSE 2

Responsible(sc, p) == {a \in Agents : p \in sc[a]}

Worst(ranks) == Precedence[CHOOSE i \in ranks : \A j \in ranks : i <= j]

\* _aggregate_status(): the least available status of the responsible agents.
Aggregate(sc, rec, p) ==
  LET R == Responsible(sc, p)
  IN IF R = {} \/ \E a \in R : rec[a][p] = None
     THEN "loading"
     ELSE Worst({Rank(rec[a][p]) : a \in R})

\* publish_agent_status() for the participants in P.
Publish(P) ==
  published' = [p \in Pids |-> IF p \in P /\ session'[p] # 0
                               THEN Aggregate(scope', record', p)
                               ELSE published[p]]

\* What the hub publishes reaches the agents subscribed to it by then.
Announce(m) ==
  /\ \A a \in linked : Len(inq[a]) < MaxQueue
  /\ inq' = [a \in Agents |-> IF a \in linked THEN Append(inq[a], m) ELSE inq[a]]

\* PARTICIPANT_EVENT(joined) from a connector; also a session that replaces
\* one whose departure has not arrived.
Connect(p) ==
  /\ visits[p] < MaxSess
  /\ visits' = [visits EXCEPT ![p] = @ + 1]
  /\ session' = [session EXCEPT ![p] = visits[p] + 1]
  /\ Announce([type |-> "joined", pid |-> p, sess |-> visits[p] + 1])
  /\ UNCHANGED <<scope, record>>
  /\ Publish({p})
  /\ UNCHANGED <<wireVars, out, procVars, selfVars, taskVars>>

\* PARTICIPANT_EVENT(left) of the current session.
Disconnect(p) ==
  /\ session[p] # 0
  /\ session' = [session EXCEPT ![p] = 0]
  /\ published' = [published EXCEPT ![p] = None]
  /\ record' = [a \in Agents |-> [record[a] EXCEPT ![p] = None]]
  /\ Announce([type |-> "left", pid |-> p, sess |-> session[p]])
  /\ UNCHANGED <<visits, scope, wireVars, out, procVars, selfVars, taskVars>>

Take(a, type) ==
  /\ out[a] # <<>> /\ Head(out[a]).type = type
  /\ out' = [out EXCEPT ![a] = Tail(@)]
  /\ UNCHANGED <<roomVars, wireVars, procVars, selfVars, taskVars>>

\* Fault: the room is not told that an agent has gone.
HubDetachSilent(a) ==
  /\ Take(a, "detach")
  /\ scope' = [scope EXCEPT ![a] = {}]
  /\ record' = [record EXCEPT ![a] = [p \in Pids |-> None]]
  /\ UNCHANGED <<inq, published>>

\* AGENT_PRESENCE(attached=True): what the hub recorded of the agent stays.
HubAttach(a) ==
  /\ Take(a, "attach")
  /\ scope' = [scope EXCEPT ![a] = Head(out[a]).scope]
  /\ UNCHANGED <<record, inq>>
  /\ Publish(Pids)

HubDetach(a) ==
  /\ Take(a, "detach")
  /\ scope' = [scope EXCEPT ![a] = {}]
  /\ record' = [record EXCEPT ![a] = [p \in Pids |-> None]]
  /\ UNCHANGED inq
  /\ Publish(Pids)

\* RETURN_DATA on the agent-status topic, whoever is connected.
HubStatus(a) ==
  /\ Take(a, "status")
  /\ LET m == Head(out[a]) IN
       /\ record' = [record EXCEPT ![a][m.pid] = m.status]
       /\ UNCHANGED <<scope, inq>>
       /\ Publish({m.pid})

\* SUBSCRIPTION_PROBE: the echo is dropped unless the token's SUBSCRIBE, and so
\* every command before it, has been applied.
HubProbe(a) ==
  /\ Take(a, "probe")
  /\ LET m == Head(out[a]) IN
       IF a \in linked /\ gen[a] - Len(cmds[a]) >= m.g
       THEN /\ Len(inq[a]) < MaxQueue
            /\ inq' = [inq EXCEPT ![a] =
                 Append(@, [type |-> "echo", task |-> m.task, g |-> m.g])]
       ELSE UNCHANGED inq
  /\ UNCHANGED hubVars

\* ROSTER_REQUEST: every connected participant is announced once more.
HubRoster(a) ==
  /\ Take(a, "roster")
  /\ \E q \in [1 .. Cardinality({p \in Pids : session[p] # 0}) ->
                 {p \in Pids : session[p] # 0}] :
       /\ \A i, j \in DOMAIN q : q[i] = q[j] => i = j
       /\ \A b \in linked : Len(inq[b]) + Len(q) <= MaxQueue
       /\ inq' = [b \in Agents |-> IF b \in linked
                    THEN inq[b] \o [i \in DOMAIN q |->
                           [type |-> "joined", pid |-> q[i], sess |-> session[q[i]]]]
                    ELSE inq[b]]
  /\ UNCHANGED hubVars

HubStep(a) == HubAttach(a) \/ HubDetach(a) \/ HubStatus(a) \/ HubProbe(a) \/ HubRoster(a)

\* The publishing socket learns of the agent's connection, then of its commands.
Link(a) ==
  /\ mode[a] # "down" /\ a \notin linked
  /\ linked' = linked \cup {a}
  /\ UNCHANGED <<roomVars, hubVars, live, cmds, inq, out, procVars, selfVars, taskVars>>

ApplyCommand(a) ==
  /\ a \in linked /\ cmds[a] # <<>>
  /\ live' = [live EXCEPT ![a] = IF Head(cmds[a]).on
                                 THEN @ \cup {Head(cmds[a]).pid}
                                 ELSE @ \ {Head(cmds[a]).pid}]
  /\ cmds' = [cmds EXCEPT ![a] = Tail(@)]
  /\ UNCHANGED <<roomVars, hubVars, linked, inq, out, procVars, selfVars, taskVars>>

-----------------------------------------------------------------------------
(* The agent: ProcessorEndpoint on one event loop. *)

Runs(a) == mode[a] = "up"

Statuses(q, st) == [i \in DOMAIN q |-> [type |-> "status", pid |-> q[i], status |-> st]]

\* The orders in which a Python set may be iterated.
Orders(S) == {q \in [1 .. Cardinality(S) -> S] : \A i, j \in DOMAIN q : q[i] = q[j] => i = j}

Push(a, ms) == /\ Len(out[a]) + Len(ms) <= MaxQueue
               /\ out' = [out EXCEPT ![a] = @ \o ms]

\* The endpoint answers only for participants it is subscribed to.
AnswersFor(a, p) == p \in subs[a]

\* _send_status() for the participants in S, by coroutine i, started with
\* nothing to wait for, or as far as its first probe.
Send(a, i, S, st, again) ==
  LET T == {p \in S : AnswersFor(a, p)} IN
  IF T = {} \/ confirmed[a] = gen[a] \/ ~Runs(a)
  THEN /\ \E q \in Orders(T) : Push(a, Statuses(q, st))
       /\ confirmed' = IF T = {} THEN confirmed ELSE [confirmed EXCEPT ![a] = gen[a]]
       /\ tasks' = [tasks EXCEPT ![a][i] = None]
  ELSE \E p \in T :
       /\ Push(a, <<[type |-> "probe", task |-> i, g |-> gen[a]]>>)
       /\ tasks' = [tasks EXCEPT ![a][i] = [pid |-> p, rest |-> T \ {p},
                      status |-> st, g |-> gen[a], again |-> again]]
       /\ UNCHANGED confirmed

\* The barrier is behind coroutine i: it sends its status to its participant,
\* subscribed or not by now, and to those of the rest it still answers for.
Finish(a, i) ==
  LET t == tasks[a][i] IN
  /\ \E q \in Orders({p \in t.rest : AnswersFor(a, p)}) :
       Push(a, Statuses(<<t.pid>> \o q, t.status))
  /\ confirmed' = [confirmed EXCEPT ![a] = gen[a]]
  /\ tasks' = [tasks EXCEPT ![a][i] = None]

FreeTask(a, i) == /\ tasks[a][i] = None
                  /\ \A j \in 1 .. i - 1 : tasks[a][j] # None

\* Fault: the default is not looked up.
EffectiveOwn(a, p) == own[a][p]

Effective(a, p) == IF own[a][p] # None THEN own[a][p] ELSE default[a]

\* run(): announce presence before any status, then catch up with the roster.
Start(a) ==
  /\ mode[a] = "down" /\ starts[a] < MaxStarts
  /\ out[a] = <<>>
  /\ mode' = [mode EXCEPT ![a] = "up"] /\ starts' = [starts EXCEPT ![a] = @ + 1]
  /\ roster' = IF a \in AutoSub THEN roster \cup {a} ELSE roster
  /\ Push(a, <<[type |-> "attach", scope |-> IF a \in AutoSub THEN Pids ELSE {}]>>)
  /\ UNCHANGED <<roomVars, hubVars, wireVars, inq, sets, selfVars, taskVars>>

\* _catch_up_roster(): sent when the subscription handshake has settled.
CatchUp(a) ==
  /\ Runs(a) /\ a \in roster /\ a \in linked
  /\ roster' = roster \ {a}
  /\ Push(a, <<[type |-> "roster"]>>)
  /\ UNCHANGED <<roomVars, hubVars, wireVars, inq, mode, starts, sets, selfVars, taskVars>>

\* set_status(st): the endpoint's default, for every participant it answers for.
SetStatus(a, st) ==
  /\ Runs(a) /\ sets < MaxSets
  /\ sets' = sets + 1
  /\ default' = [default EXCEPT ![a] = st]
  /\ own' = [own EXCEPT ![a] = [p \in Pids |-> None]]
  /\ \E i \in Slots : FreeTask(a, i) /\ Send(a, i, {p \in Pids : parts[a][p] # 0}, st, FALSE)
  /\ UNCHANGED <<roomVars, hubVars, wireVars, inq, mode, starts, roster, parts, subs, gen>>

\* set_status(st, p), for a participant that is present and answered for.
SetStatusOf(a, p, st) ==
  /\ Runs(a) /\ sets < MaxSets
  /\ parts[a][p] # 0 /\ AnswersFor(a, p)
  /\ sets' = sets + 1
  /\ own' = [own EXCEPT ![a][p] = st]
  /\ \E i \in Slots : FreeTask(a, i) /\ Send(a, i, {p}, st, FALSE)
  /\ UNCHANGED <<roomVars, hubVars, wireVars, inq, mode, starts, roster,
                 parts, subs, gen, default>>

\* Fault: a status is sent although none was set.
RepublishUnset(a, p) ==
  /\ Runs(a) /\ parts[a][p] # 0 /\ AnswersFor(a, p)
  /\ \A i \in Slots : tasks[a][i] # None => ~tasks[a][i].again
  /\ \E i \in Slots : FreeTask(a, i) /\ Send(a, i, {p}, Effective(a, p), TRUE)
  /\ UNCHANGED <<roomVars, hubVars, wireVars, inq, procVars, selfVars>>

\* One participant's turn in the periodic republish_statuses().
Republish(a, p) ==
  /\ Runs(a) /\ parts[a][p] # 0 /\ AnswersFor(a, p) /\ Effective(a, p) # None
  /\ \A i \in Slots : tasks[a][i] # None => ~tasks[a][i].again
  /\ \E i \in Slots : FreeTask(a, i) /\ Send(a, i, {p}, Effective(a, p), TRUE)
  /\ UNCHANGED <<roomVars, hubVars, wireVars, inq, procVars, selfVars>>

\* A coroutine spawned by a join runs for the first time.
Begin(a, i) ==
  /\ tasks[a][i] # None /\ tasks[a][i].g = 0
  /\ Send(a, i, {tasks[a][i].pid}, tasks[a][i].status, FALSE)
  /\ UNCHANGED <<roomVars, hubVars, wireVars, inq, procVars, selfVars>>

Probing(a, i) == tasks[a][i] # None /\ tasks[a][i].g # 0

IsOf(m, i) == m.type \in {"probe", "echo"} /\ m.task = i

\* The probe is sent again when its echo does not come (20 ms).
Retry(a, i) ==
  /\ Probing(a, i)
  /\ \A n \in DOMAIN out[a] : ~IsOf(out[a][n], i)
  /\ \A n \in DOMAIN inq[a] : ~IsOf(inq[a][n], i)
  /\ Push(a, <<[type |-> "probe", task |-> i, g |-> tasks[a][i].g]>>)
  /\ UNCHANGED <<roomVars, hubVars, wireVars, inq, procVars, selfVars, taskVars>>

\* No echo in time (5 s), or the receive loop that would see it has ended: the
\* status is published anyway and the generation counts as confirmed.
Timeout(a, i) ==
  /\ Probing(a, i) /\ (MayTimeout \/ ~Runs(a))
  /\ Finish(a, i)
  /\ UNCHANGED <<roomVars, hubVars, wireVars, inq, procVars, selfVars>>

Dispatch(a, type) ==
  /\ Runs(a) /\ inq[a] # <<>> /\ Head(inq[a]).type = type
  /\ inq' = [inq EXCEPT ![a] = Tail(@)]
  /\ UNCHANGED <<roomVars, hubVars, linked, live, procVars>>

\* Fault: an echo confirms whatever has been subscribed by the time it arrives.
EchoConfirmsAll(a) ==
  /\ Dispatch(a, "echo")
  /\ LET m == Head(inq[a]) IN
       IF ~Probing(a, m.task) \/ tasks[a][m.task].g # m.g
       THEN UNCHANGED <<out, taskVars>>
       ELSE Finish(a, m.task)
  /\ UNCHANGED <<cmds, selfVars>>

\* The echo of the probe of coroutine i: go on unless subscriptions were issued
\* meanwhile, which take a probe of their own.
DispatchEcho(a) ==
  /\ Dispatch(a, "echo")
  /\ LET m == Head(inq[a])
         i == m.task
     IN IF ~Probing(a, i) \/ tasks[a][i].g # m.g
        THEN UNCHANGED <<out, taskVars>>
        ELSE IF m.g = gen[a] \/ confirmed[a] = gen[a]
        THEN Finish(a, i)
        ELSE /\ Push(a, <<[type |-> "probe", task |-> i, g |-> gen[a]]>>)
             /\ confirmed' = [confirmed EXCEPT ![a] = IF @ < m.g THEN m.g ELSE @]
             /\ tasks' = [tasks EXCEPT ![a][i].g = gen[a]]
  /\ UNCHANGED <<cmds, selfVars>>

\* subscribe() and unsubscribe(): no command unless the subscription changes.
SetSubscription(a, p, on) ==
  /\ subs' = [subs EXCEPT ![a] = IF on THEN @ \cup {p} ELSE @ \ {p}]
  /\ IF on = (p \in subs[a])
     THEN UNCHANGED <<cmds, gen>>
     ELSE /\ Len(cmds[a]) < MaxQueue
          /\ cmds' = [cmds EXCEPT ![a] = Append(@, [on |-> on, pid |-> p])]
          /\ gen' = [gen EXCEPT ![a] = @ + 1]

\* PARTICIPANT_EVENT(joined): a session already known is not news; else an
\* auto-subscribing agent subscribes, and the recorded status is sent by a
\* coroutine of its own.
DispatchJoined(a) ==
  /\ Dispatch(a, "joined")
  /\ LET m == Head(inq[a])
         st == Effective(a, m.pid)
     IN IF parts[a][m.pid] = m.sess
        THEN UNCHANGED <<cmds, selfVars, tasks>>
        ELSE /\ parts' = [parts EXCEPT ![a][m.pid] = m.sess]
             /\ IF a \in AutoSub THEN SetSubscription(a, m.pid, TRUE)
                              ELSE UNCHANGED <<cmds, subs, gen>>
             /\ IF st # None /\ m.pid \in subs'[a]
                THEN \E i \in Slots :
                       /\ FreeTask(a, i)
                       /\ tasks' = [tasks EXCEPT ![a][i] = [pid |-> m.pid, rest |-> {},
                                      status |-> st, g |-> 0, again |-> FALSE]]
                ELSE UNCHANGED tasks
             /\ UNCHANGED <<default, own>>
  /\ UNCHANGED <<out, confirmed>>

\* PARTICIPANT_EVENT(left) of the session the agent knows.
DispatchLeft(a) ==
  /\ Dispatch(a, "left")
  /\ LET m == Head(inq[a]) IN
       IF parts[a][m.pid] # m.sess
       THEN UNCHANGED <<cmds, selfVars>>
       ELSE /\ parts' = [parts EXCEPT ![a][m.pid] = 0]
            /\ own' = [own EXCEPT ![a][m.pid] = None]
            /\ IF a \in AutoSub THEN SetSubscription(a, m.pid, FALSE)
                             ELSE UNCHANGED <<cmds, subs, gen>>
            /\ UNCHANGED default
  /\ UNCHANGED <<out, taskVars>>

\* The application of an agent without auto_subscribe chooses whom it serves;
\* the change of scope is announced.
Choose(a, p, on) ==
  /\ Runs(a) /\ a \notin AutoSub /\ on # AnswersFor(a, p) /\ gen[a] < MaxChoices
  /\ SetSubscription(a, p, on)
  /\ Push(a, <<[type |-> "attach", scope |-> subs'[a]]>>)
  /\ UNCHANGED <<roomVars, hubVars, linked, live, inq, procVars, parts, default, own, taskVars>>

\* stop(): detach at once; the process goes on until it exits.
Stop(a) ==
  /\ MayStop /\ Runs(a)
  /\ mode' = [mode EXCEPT ![a] = "stopping"]
  /\ Push(a, <<[type |-> "detach"]>>)
  /\ UNCHANGED <<roomVars, hubVars, wireVars, inq, starts, roster, sets, selfVars, taskVars>>

\* The process is gone, and with it its connection and the subscriptions.
Gone(a) ==
  /\ mode' = [mode EXCEPT ![a] = "down"]
  /\ roster' = roster \ {a}
  /\ linked' = linked \ {a} /\ live' = [live EXCEPT ![a] = {}]
  /\ cmds' = [cmds EXCEPT ![a] = <<>>] /\ inq' = [inq EXCEPT ![a] = <<>>]
  /\ parts' = [parts EXCEPT ![a] = [p \in Pids |-> 0]] /\ subs' = [subs EXCEPT ![a] = {}]
  /\ gen' = [gen EXCEPT ![a] = 0] /\ confirmed' = [confirmed EXCEPT ![a] = 0]
  /\ default' = [default EXCEPT ![a] = None]
  /\ own' = [own EXCEPT ![a] = [p \in Pids |-> None]]
  /\ tasks' = [tasks EXCEPT ![a] = [i \in Slots |-> None]]
  /\ UNCHANGED <<roomVars, hubVars, starts, sets>>

Exit(a) == mode[a] = "stopping" /\ Gone(a) /\ UNCHANGED out

\* What the process had not put on the wire is lost with it.
Crash(a) ==
  /\ MayCrash /\ mode[a] # "down"
  /\ Gone(a)
  /\ \E n \in 0 .. Len(out[a]) : out' = [out EXCEPT ![a] = SubSeq(@, 1, n)]

CoroutineStep(a) == \E i \in Slots : Begin(a, i) \/ Retry(a, i)

DispatchStep(a) == DispatchEcho(a) \/ DispatchJoined(a) \/ DispatchLeft(a)

ApplicationStep(a) ==
  \/ \E st \in Said : SetStatus(a, st) \/ \E p \in Pids : SetStatusOf(a, p, st)
  \/ \E p \in Pids, on \in BOOLEAN : Choose(a, p, on)

AgentStep(a) ==
  \/ Start(a) \/ CatchUp(a) \/ Stop(a) \/ Exit(a) \/ Crash(a)
  \/ \E p \in Pids : Republish(a, p)
  \/ \E i \in Slots : Timeout(a, i)
  \/ CoroutineStep(a) \/ DispatchStep(a) \/ ApplicationStep(a)

Next ==
  \/ \E p \in Pids : Connect(p) \/ Disconnect(p)
  \/ \E a \in Agents : HubStep(a) \/ Link(a) \/ ApplyCommand(a) \/ AgentStep(a)

\* The hub serves its sockets, ZeroMQ delivers subscriptions, an agent that runs
\* dispatches what it receives, runs its coroutines, and republishes every 2 s.
Fairness ==
  \A a \in Agents :
    /\ WF_vars(HubStep(a)) /\ WF_vars(Link(a)) /\ WF_vars(ApplyCommand(a))
    /\ WF_vars(CatchUp(a)) /\ WF_vars(DispatchStep(a))
    /\ \A i \in Slots : WF_vars(Begin(a, i) \/ Retry(a, i))
    /\ \A p \in Pids : SF_vars(Republish(a, p))

Spec == Init /\ [][Next]_vars /\ Fairness

-----------------------------------------------------------------------------
(* Properties. *)

\* What a client was told last is what the agents' states amount to now: no
\* change of scope, attachment, departure or record goes unpublished
\* (publish_agent_status() and the places that call it).
PublishedIsAggregate ==
  \A p \in Pids :
    published[p] = IF session[p] = 0 THEN None ELSE Aggregate(scope, record, p)

\* "ready" means routable: a request the client sends on seeing it reaches
\* every agent that runs and is responsible for the client, because the
\* SUBSCRIBE is live (_send_status() behind wait_for_subscriptions()).
ReadyIsRoutable ==
  \A p \in Pids, a \in Agents :
    /\ published[p] = "ready" /\ a \in Responsible(scope, p)
    /\ Runs(a) /\ (a \in AutoSub \/ AnswersFor(a, p))
    => p \in live[a]

Willing(a, p) == Runs(a) /\ (a \in AutoSub \/ AnswersFor(a, p)) /\ default[a] = "ready"
                   /\ own[a][p] \in {None, "ready"}

\* The room converges: a participant that stays, with agents that stay willing,
\* is in the end told "ready" for good, whatever overtook what before.
RoomBecomesReady ==
  \A p \in Pids :
    <>[](session[p] # 0 /\ \A a \in Agents : Willing(a, p)) => <>[](published[p] = "ready")
=============================================================================
