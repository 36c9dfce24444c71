------------------------ MODULE AgentReadiness_proofs ------------------------
(***************************************************************************)
(* Three results, for every set of agents and participants.               *)
(*                                                                         *)
(* PublishedIsCurrent and TypeCorrect hold whatever the agents send, with  *)
(* timeouts, restarts and crashes.  The argument of the first is local to  *)
(* the hub: HubShape says of its tables only that they are tables over     *)
(* Agents and Pids.                                                        *)
(*                                                                         *)
(* ReadyMeansRoutable supposes Undisturbed: probes are answered, and each  *)
(* agent starts once, each participant comes once, each application        *)
(* chooses once; agents may stop and crash.  Without it the property is    *)
(* false: a coroutine that timed out speaks for routes that are not there, *)
(* and a "ready" sent in one session may arrive in the next.               *)
(***************************************************************************)
EXTENDS AgentReadiness, SequenceTheorems, FiniteSetTheorems, TLAPS

\* The hub's tables have one entry per agent and participant.
HubShape ==
  /\ visits \in [Pids -> Nat]
  /\ session = [p \in Pids |-> session[p]]
  /\ scope = [a \in Agents |-> scope[a]]
  /\ record = [a \in Agents |-> record[a]]
  /\ \A a \in Agents : record[a] = [p \in Pids |-> record[a][p]]
  /\ published = [p \in Pids |-> published[p]]

IInv == HubShape /\ PublishedIsAggregate

Frame == <<session, visits, scope, record, published>>

\* What participant p is told depends on the agents' records of p alone.
LEMMA AggregateIsLocal ==
  ASSUME NEW sc, NEW rec1, NEW rec2, NEW p,
         \A a \in Agents : rec1[a][p] = rec2[a][p]
  PROVE  Aggregate(sc, rec1, p) = Aggregate(sc, rec2, p)
<1> DEFINE R == Responsible(sc, p)
<1>1. \A a \in R : rec1[a][p] = rec2[a][p]
  BY DEF Responsible
<1>2. {Rank(rec1[a][p]) : a \in R} = {Rank(rec2[a][p]) : a \in R}
  BY <1>1
<1>3. (\E a \in R : rec1[a][p] = None) <=> (\E a \in R : rec2[a][p] = None)
  BY <1>1
<1>4. Worst({Rank(rec1[a][p]) : a \in R}) = Worst({Rank(rec2[a][p]) : a \in R})
  BY <1>2
<1> QED BY <1>3, <1>4 DEF Aggregate

\* Publishing for P is enough when nobody else's session or records changed.
LEMMA PublishRestores ==
  ASSUME IInv, NEW P, Publish(P),
         visits' \in [Pids -> Nat],
         session' = [p \in Pids |-> session'[p]],
         scope' = [a \in Agents |-> scope'[a]],
         record' = [a \in Agents |-> record'[a]],
         \A a \in Agents : record'[a] = [p \in Pids |-> record'[a][p]],
         \A p \in Pids \ P : /\ session'[p] = session[p]
                             /\ Aggregate(scope', record', p) = Aggregate(scope, record, p),
         \A p \in P : p \in Pids => (session'[p] = 0 => session[p] = 0)
  PROVE  IInv'
<1>1. published' = [p \in Pids |-> published'[p]]
  BY DEF Publish
<1>2. ASSUME NEW p \in Pids
      PROVE  published'[p] = IF session'[p] = 0 THEN None
                             ELSE Aggregate(scope', record', p)
  <2>1. CASE p \in P /\ session'[p] # 0
    BY <2>1 DEF Publish
  <2>2. CASE p \in P /\ session'[p] = 0
    <3>1. session[p] = 0
      BY <2>2
    <3>2. published[p] = None
      BY <3>1 DEF IInv, PublishedIsAggregate
    <3> QED BY <2>2, <3>2 DEF Publish
  <2>3. CASE p \notin P
    <3>1. published'[p] = published[p]
      BY <2>3 DEF Publish
    <3>2. published[p] = IF session[p] = 0 THEN None ELSE Aggregate(scope, record, p)
      BY DEF IInv, PublishedIsAggregate
    <3>3. session'[p] = session[p] /\ Aggregate(scope', record', p) = Aggregate(scope, record, p)
      BY <2>3
    <3> QED BY <3>1, <3>2, <3>3
  <2> QED BY <2>1, <2>2, <2>3
<1>3. PublishedIsAggregate'
  <2>1. PublishedIsAggregate' <=>
          \A p \in Pids : published'[p] = IF session'[p] = 0 THEN None
                                          ELSE Aggregate(scope', record', p)
    BY DEF PublishedIsAggregate, Aggregate, Responsible
  <2> QED BY <1>2, <2>1
<1>4. HubShape'
  BY <1>1 DEF HubShape
<1> QED BY <1>3, <1>4 DEF IInv

\* Steps that leave the tables of the hub alone keep it.
LEMMA FrameKeeps ==
  ASSUME IInv, UNCHANGED Frame
  PROVE  IInv'
<1>1. HubShape'
  BY DEF IInv, HubShape, Frame
<1>2. \A p \in Pids : published'[p] = IF session'[p] = 0 THEN None
                                      ELSE Aggregate(scope', record', p)
  BY DEF IInv, PublishedIsAggregate, Frame
<1>3. PublishedIsAggregate'
  BY <1>2 DEF PublishedIsAggregate, Aggregate, Responsible
<1> QED BY <1>1, <1>3 DEF IInv

\* Connections.
LEMMA ConnectKeeps ==
  ASSUME IInv, NEW p \in Pids, Connect(p)
  PROVE  IInv'
<1>1. /\ session' = [session EXCEPT ![p] = visits[p] + 1]
      /\ visits' = [visits EXCEPT ![p] = @ + 1]
      /\ UNCHANGED <<scope, record>> /\ Publish({p})
  BY DEF Connect
<1>2. /\ visits' \in [Pids -> Nat] /\ session'[p] # 0
      /\ session' = [q \in Pids |-> session'[q]]
  <2>1. visits[p] \in Nat
    BY DEF IInv, HubShape
  <2>2. visits' \in [Pids -> Nat]
    BY <1>1, <2>1 DEF IInv, HubShape
  <2>3. session' = [q \in Pids |-> IF q = p THEN visits[p] + 1 ELSE session[q]]
    BY <1>1 DEF IInv, HubShape
  <2>4. session'[p] # 0
    BY <2>1, <2>3
  <2> QED BY <2>2, <2>3, <2>4
<1>3. \A q \in Pids \ {p} : /\ session'[q] = session[q]
                            /\ Aggregate(scope', record', q) = Aggregate(scope, record, q)
  BY <1>1 DEF IInv, HubShape
<1>4. /\ scope' = [a \in Agents |-> scope'[a]] /\ record' = [a \in Agents |-> record'[a]]
      /\ \A a \in Agents : record'[a] = [q \in Pids |-> record'[a][q]]
  BY <1>1 DEF IInv, HubShape
<1> QED BY <1>1, <1>2, <1>3, <1>4, PublishRestores

\* Disconnections.
LEMMA DisconnectKeeps ==
  ASSUME IInv, NEW p \in Pids, Disconnect(p)
  PROVE  IInv'
<1>1. /\ session' = [session EXCEPT ![p] = 0]
      /\ published' = [published EXCEPT ![p] = None]
      /\ record' = [a \in Agents |-> [record[a] EXCEPT ![p] = None]]
      /\ UNCHANGED <<visits, scope>>
  BY DEF Disconnect
<1>2. HubShape'
  BY <1>1 DEF IInv, HubShape
<1>3. ASSUME NEW q \in Pids, q # p
      PROVE  Aggregate(scope', record', q) = Aggregate(scope, record, q)
  <2>1. \A a \in Agents : record'[a][q] = record[a][q]
    BY <1>1, <1>3 DEF IInv, HubShape
  <2>2. Aggregate(scope, record', q) = Aggregate(scope, record, q)
    BY <2>1, AggregateIsLocal
  <2> QED BY <1>1, <2>2
<1>4. \A q \in Pids : published'[q] = IF session'[q] = 0 THEN None
                                      ELSE Aggregate(scope', record', q)
  <2> TAKE q \in Pids
  <2>1. CASE q = p
    BY <1>1, <2>1 DEF IInv, HubShape
  <2>2. CASE q # p
    <3>1. published'[q] = published[q] /\ session'[q] = session[q]
      BY <1>1, <2>2 DEF IInv, HubShape
    <3> QED BY <1>3, <2>2, <3>1 DEF IInv, PublishedIsAggregate
  <2> QED BY <2>1, <2>2
<1>5. PublishedIsAggregate'
  BY <1>4 DEF PublishedIsAggregate, Aggregate, Responsible
<1> QED BY <1>2, <1>5 DEF IInv

\* The hub's own steps.
LEMMA HubStepKeeps ==
  ASSUME IInv, NEW a \in Agents, HubStep(a)
  PROVE  IInv'
<1> USE DEF IInv, HubShape
<1>1. CASE HubAttach(a)
  <2>1. Publish(Pids) /\ UNCHANGED <<session, visits, record>>
        /\ scope' = [b \in Agents |-> scope'[b]]
    BY <1>1 DEF HubAttach, Take, roomVars
  <2> QED BY <2>1, PublishRestores
<1>2. CASE HubDetach(a)
  <2>1. Publish(Pids) /\ UNCHANGED <<session, visits>>
        /\ scope' = [b \in Agents |-> scope'[b]]
        /\ record' = [record EXCEPT ![a] = [p \in Pids |-> None]]
    BY <1>2 DEF HubDetach, Take, roomVars
  <2> QED BY <2>1, PublishRestores
<1>3. CASE HubStatus(a)
  <2> DEFINE m == Head(out[a])
  <2>1. /\ record' = [record EXCEPT ![a][m.pid] = m.status]
        /\ UNCHANGED <<session, visits, scope>> /\ Publish({m.pid})
    BY <1>3 DEF HubStatus, Take, roomVars
  <2> HIDE DEF m
  <2>2. /\ record' = [b \in Agents |-> record'[b]]
        /\ \A b \in Agents : record'[b] = [p \in Pids |-> record'[b][p]]
    BY <2>1
  <2>3. ASSUME NEW p \in Pids, p # m.pid
        PROVE  Aggregate(scope', record', p) = Aggregate(scope, record, p)
    <3>1. \A b \in Agents : record'[b][p] = record[b][p]
      BY <2>1, <2>3
    <3>2. Aggregate(scope, record', p) = Aggregate(scope, record, p)
      BY <3>1, AggregateIsLocal
    <3> QED BY <2>1, <3>2
  <2> QED BY <2>1, <2>2, <2>3, PublishRestores
<1>4. CASE HubProbe(a)
  BY <1>4, FrameKeeps DEF HubProbe, Take, roomVars, hubVars, Frame
<1>5. CASE HubRoster(a)
  BY <1>5, FrameKeeps DEF HubRoster, Take, roomVars, hubVars, Frame
<1> QED BY <1>1, <1>2, <1>3, <1>4, <1>5 DEF HubStep

\* No other step touches the hub's tables.
LEMMA OthersKeep ==
  ASSUME IInv, NEW a \in Agents, Link(a) \/ ApplyCommand(a) \/ AgentStep(a)
  PROVE  IInv'
<1> USE DEF roomVars, hubVars, Frame
<1>1. CASE Link(a)
  BY <1>1, FrameKeeps DEF Link
<1>2. CASE ApplyCommand(a)
  BY <1>2, FrameKeeps DEF ApplyCommand
<1>3. CASE Start(a) \/ CatchUp(a) \/ Stop(a)
  BY <1>3, FrameKeeps DEF Start, CatchUp, Stop
<1>4. CASE Exit(a) \/ Crash(a)
  BY <1>4, FrameKeeps DEF Exit, Crash, Gone
<1>5. CASE \E p \in Pids : Republish(a, p)
  BY <1>5, FrameKeeps DEF Republish
<1>6. CASE \E i \in Slots : Timeout(a, i)
  BY <1>6, FrameKeeps DEF Timeout
<1>7. CASE CoroutineStep(a)
  BY <1>7, FrameKeeps DEF CoroutineStep, Begin, Retry
<1>8. CASE DispatchStep(a)
  BY <1>8, FrameKeeps DEF DispatchStep, DispatchEcho, DispatchJoined, DispatchLeft, Dispatch
<1>9. CASE ApplicationStep(a)
  BY <1>9, FrameKeeps DEF ApplicationStep, SetStatus, SetStatusOf, Choose
<1> QED
  BY <1>1, <1>2, <1>3, <1>4, <1>5, <1>6, <1>7, <1>8, <1>9 DEF AgentStep

\* The client of every connected participant was last told the aggregate of what
\* the hub has recorded, through every order of joins, departures, attachments,
\* scope changes and late, repeated or lost statuses.
THEOREM PublishedIsCurrent == Spec => []PublishedIsAggregate
<1>1. Init => IInv
  BY DEF Init, IInv, HubShape, PublishedIsAggregate
<1>2. IInv /\ [Next]_vars => IInv'
  <2> SUFFICES ASSUME IInv, [Next]_vars PROVE IInv'
    OBVIOUS
  <2>1. CASE UNCHANGED vars
    BY <2>1, FrameKeeps DEF vars, roomVars, hubVars, Frame
  <2>2. ASSUME NEW p \in Pids, Connect(p) \/ Disconnect(p) PROVE IInv'
    BY <2>2, ConnectKeeps, DisconnectKeeps
  <2>3. ASSUME NEW a \in Agents, HubStep(a) \/ Link(a) \/ ApplyCommand(a) \/ AgentStep(a)
        PROVE  IInv'
    BY <2>3, HubStepKeeps, OthersKeep
  <2> QED BY <2>1, <2>2, <2>3 DEF Next
<1>3. IInv => PublishedIsAggregate
  BY DEF IInv
<1> QED BY <1>1, <1>2, <1>3, PTL DEF Spec

-----------------------------------------------------------------------------
(* Types.                                                                      *)

\* An element of a queue that was extended was in it before, or is what was put behind it.
LEMMA ConcatElements ==
  ASSUME NEW S, NEW q \in Seq(S), NEW w \in Seq(S)
  PROVE  /\ q \o w \in Seq(S)
         /\ \A n \in DOMAIN (q \o w) : \/ n \in DOMAIN q /\ (q \o w)[n] = q[n]
                                       \/ n - Len(q) \in DOMAIN w /\ (q \o w)[n] = w[n - Len(q)]
<1>1. /\ q \o w \in Seq(S) /\ Len(q \o w) = Len(q) + Len(w)
      /\ \A i \in 1 .. Len(q) + Len(w) :
           (q \o w)[i] = IF i <= Len(q) THEN q[i] ELSE w[i - Len(q)]
  BY ConcatProperties
<1>2. /\ Len(q) \in Nat /\ Len(w) \in Nat /\ DOMAIN q = 1 .. Len(q) /\ DOMAIN w = 1 .. Len(w)
      /\ DOMAIN (q \o w) = 1 .. Len(q \o w)
  BY <1>1, LenProperties
<1>3. ASSUME NEW n \in 1 .. Len(q) + Len(w)
      PROVE  \/ n \in DOMAIN q /\ (q \o w)[n] = q[n]
             \/ n - Len(q) \in DOMAIN w /\ (q \o w)[n] = w[n - Len(q)]
  <2>1. CASE n <= Len(q)
    BY <1>1, <1>2, <1>3, <2>1
  <2>2. CASE n > Len(q)
    BY <1>1, <1>2, <1>3, <2>2
  <2> QED BY <1>2, <2>1, <2>2
<1> QED BY <1>1, <1>2, <1>3

\* What is left of a queue when its head was taken.
LEMMA TailElements ==
  ASSUME NEW S, NEW q \in Seq(S), q # <<>>
  PROVE  /\ Head(q) \in S /\ Tail(q) \in Seq(S) /\ Len(Tail(q)) = Len(q) - 1
         /\ 1 \in DOMAIN q /\ Head(q) = q[1]
         /\ \A n \in DOMAIN Tail(q) : n + 1 \in DOMAIN q /\ Tail(q)[n] = q[n + 1]
<1>1. Len(Tail(q)) = Len(q) - 1 /\ \A n \in 1 .. Len(Tail(q)) : Tail(q)[n] = q[n + 1]
  BY HeadTailProperties
<1>2. QED
  BY <1>1, HeadTailProperties, LenProperties

\* An order of a set of participants lists its elements.
LEMMA OrdersList ==
  ASSUME IsFiniteSet(Pids), NEW S \in SUBSET Pids, NEW q \in Orders(S)
  PROVE  q \in Seq(Pids) /\ \A n \in DOMAIN q : q[n] \in S
<1>1. Cardinality(S) \in Nat
  BY FS_Subset, FS_CardinalityType
<1>2. q \in [1 .. Cardinality(S) -> S]
  BY DEF Orders
<1> QED BY <1>1, <1>2

\* The statuses for a list of participants.
LEMMA StatusesAre ==
  ASSUME NEW q \in Seq(Pids), NEW st \in Said
  PROVE  /\ Statuses(q, st) \in Seq(Upward) /\ DOMAIN Statuses(q, st) = DOMAIN q
         /\ \A n \in DOMAIN q : Statuses(q, st)[n] = [type |-> "status", pid |-> q[n], status |-> st]
<1>1. DOMAIN q = 1 .. Len(q) /\ Len(q) \in Nat /\ \A n \in DOMAIN q : q[n] \in Pids
  BY LenProperties, ElementOfSeq
<1>2. \A n \in DOMAIN q : [type |-> "status", pid |-> q[n], status |-> st] \in Upward
  BY <1>1 DEF Upward
<1>3. Statuses(q, st) \in [1 .. Len(q) -> Upward]
  BY <1>1, <1>2 DEF Statuses
<1> QED BY <1>1, <1>3 DEF Statuses

\* Pushing messages keeps the channels well typed.
LEMMA PushType ==
  ASSUME out \in [Agents -> Seq(Upward)], NEW a \in Agents, NEW ms \in Seq(Upward), Push(a, ms)
  PROVE  out' \in [Agents -> Seq(Upward)]
<1>1. out[a] \o ms \in Seq(Upward) /\ out' = [out EXCEPT ![a] = out[a] \o ms]
  BY ConcatElements DEF Push
<1> QED BY <1>1

\* _send_status() leaves well-typed channels and coroutines.
LEMMA SendType ==
  ASSUME TypeOK, IsFiniteSet(Pids), NEW a \in Agents, NEW i \in Slots, NEW S \in SUBSET Pids,
         NEW st \in Said, NEW again \in BOOLEAN, Send(a, i, S, st, again)
  PROVE  /\ out' \in [Agents -> Seq(Upward)] /\ confirmed' \in [Agents -> Nat]
         /\ tasks' \in [Agents -> [Slots -> Tasks \cup {None}]]
<1> DEFINE T == {p \in S : AnswersFor(a, p)}
<1>1. T \in SUBSET Pids
  OBVIOUS
<1>2. CASE T = {} \/ confirmed[a] = gen[a] \/ ~Runs(a)
  <2>1. /\ \E q \in Orders(T) : Push(a, Statuses(q, st))
        /\ confirmed' = IF T = {} THEN confirmed ELSE [confirmed EXCEPT ![a] = gen[a]]
        /\ tasks' = [tasks EXCEPT ![a][i] = None]
    BY <1>2 DEF Send
  <2> HIDE DEF T
  <2>2. out' \in [Agents -> Seq(Upward)]
    <3>1. PICK q \in Orders(T) : Push(a, Statuses(q, st))
      BY <2>1
    <3>2. Statuses(q, st) \in Seq(Upward)
      BY <1>1, OrdersList, StatusesAre
    <3> QED BY <3>1, <3>2, PushType DEF TypeOK
  <2> QED BY <2>1, <2>2 DEF TypeOK
<1>3. CASE ~(T = {} \/ confirmed[a] = gen[a] \/ ~Runs(a))
  <2>1. PICK p \in T :
          /\ Push(a, <<[type |-> "probe", task |-> i, g |-> gen[a]]>>)
          /\ tasks' = [tasks EXCEPT ![a][i] = [pid |-> p, rest |-> T \ {p},
                         status |-> st, g |-> gen[a], again |-> again]]
          /\ UNCHANGED confirmed
    BY <1>3 DEF Send
  <2> HIDE DEF T
  <2>2. [type |-> "probe", task |-> i, g |-> gen[a]] \in Upward
    BY DEF Upward, TypeOK
  <2>3. out' \in [Agents -> Seq(Upward)]
    <3>1. <<[type |-> "probe", task |-> i, g |-> gen[a]]>> \in Seq(Upward)
      BY <2>2
    <3> QED BY <2>1, <3>1, PushType DEF TypeOK
  <2>4. [pid |-> p, rest |-> T \ {p}, status |-> st, g |-> gen[a], again |-> again] \in Tasks
    BY <1>1, <2>1 DEF Tasks, TypeOK
  <2> QED BY <2>1, <2>3, <2>4 DEF TypeOK
<1> QED BY <1>2, <1>3

\* So does the end of a coroutine.
LEMMA FinishType ==
  ASSUME TypeOK, IsFiniteSet(Pids), NEW a \in Agents, NEW i \in Slots, tasks[a][i] # None, Finish(a, i)
  PROVE  /\ out' \in [Agents -> Seq(Upward)] /\ confirmed' \in [Agents -> Nat]
         /\ tasks' \in [Agents -> [Slots -> Tasks \cup {None}]]
<1> DEFINE t == tasks[a][i]
           S == {p \in t.rest : AnswersFor(a, p)}
<1>1. t \in Tasks
  BY DEF TypeOK
<1>2. t.pid \in Pids /\ S \in SUBSET Pids /\ t.status \in Said
  BY <1>1 DEF Tasks
<1>3. /\ \E q \in Orders(S) : Push(a, Statuses(<<t.pid>> \o q, t.status))
      /\ confirmed' = [confirmed EXCEPT ![a] = gen[a]]
      /\ tasks' = [tasks EXCEPT ![a][i] = None]
  BY DEF Finish
<1> HIDE DEF S, t
<1>4. PICK q \in Orders(S) : Push(a, Statuses(<<t.pid>> \o q, t.status))
  BY <1>3
<1>5. <<t.pid>> \o q \in Seq(Pids)
  <2>1. q \in Seq(Pids) /\ <<t.pid>> \in Seq(Pids)
    BY <1>2, OrdersList
  <2> QED BY <2>1, ConcatElements
<1>6. Statuses(<<t.pid>> \o q, t.status) \in Seq(Upward)
  BY <1>2, <1>5, StatusesAre
<1> QED BY <1>3, <1>4, <1>6, PushType DEF TypeOK

\* What participants may be told.
Told == {Precedence[i] : i \in DOMAIN Precedence}

\* An aggregate is one of the four statuses.
LEMMA AggregateType ==
  ASSUME NEW sc, NEW rec, NEW p
  PROVE  Aggregate(sc, rec, p) \in Told
<1> DEFINE R == Responsible(sc, p)
           ranks == {Rank(rec[a][p]) : a \in R}
<1>1. DOMAIN Precedence = 1 .. 4 /\ Precedence[1] = "loading"
  BY DEF Precedence
<1>2. CASE R = {} \/ \E a \in R : rec[a][p] = None
  <2>1. Aggregate(sc, rec, p) = "loading"
    BY <1>2 DEF Aggregate
  <2> QED BY <1>1, <2>1 DEF Told
<1>3. CASE ~(R = {} \/ \E a \in R : rec[a][p] = None)
  <2>1. Aggregate(sc, rec, p) = Worst(ranks)
    BY <1>3 DEF Aggregate
  <2>2. \A st : Rank(st) \in 1 .. 4
    BY <1>1 DEF Rank
  <2>3. ranks \subseteq 1 .. 4 /\ ranks # {}
    BY <1>3, <2>2
  <2> HIDE DEF ranks
  <2>4. \E i \in ranks : \A j \in ranks : i <= j
    <3>1. CASE 1 \in ranks
      BY <2>3, <3>1
    <3>2. CASE 1 \notin ranks /\ 2 \in ranks
      BY <2>3, <3>2
    <3>3. CASE 1 \notin ranks /\ 2 \notin ranks /\ 3 \in ranks
      BY <2>3, <3>3
    <3>4. CASE 1 \notin ranks /\ 2 \notin ranks /\ 3 \notin ranks
      <4>1. \A j \in ranks : j = 4
        BY <2>3, <3>4
      <4>2. PICK i \in ranks : TRUE
        BY <2>3
      <4>3. i = 4 /\ \A j \in ranks : i <= j
        BY <4>1, <4>2
      <4> QED BY <4>3
    <3> QED BY <3>1, <3>2, <3>3, <3>4
  <2>5. (CHOOSE i \in ranks : \A j \in ranks : i <= j) \in 1 .. 4
    BY <2>3, <2>4
  <2> QED BY <1>1, <2>1, <2>5 DEF Worst, Told
<1> QED BY <1>2, <1>3

\* What is published is typed.
LEMMA PublishType ==
  ASSUME published \in [Pids -> Told \cup {None}], NEW P, Publish(P)
  PROVE  published' \in [Pids -> Told \cup {None}]
<1>1. \A p \in Pids : Aggregate(scope', record', p) \in Told
  BY AggregateType
<1> QED BY <1>1 DEF Publish

\* The hub's broadcasts are typed.
LEMMA AnnounceType ==
  ASSUME inq \in [Agents -> Seq(Downward)], NEW m \in Downward, Announce(m)
  PROVE  inq' \in [Agents -> Seq(Downward)]
<1>1. \A a \in Agents : Append(inq[a], m) \in Seq(Downward)
  BY AppendProperties
<1> QED BY <1>1 DEF Announce

\* The state of an agent that is gone is typed.
LEMMA GoneType ==
  ASSUME TypeOK, NEW a \in Agents, Gone(a), out' \in [Agents -> Seq(Upward)]
  PROVE  TypeOK'
<1>1. <<>> \in Seq(Commands) /\ <<>> \in Seq(Downward)
  OBVIOUS
<1>2. /\ session' \in [Pids -> 0 .. MaxSess] /\ visits' \in [Pids -> 0 .. MaxSess]
      /\ scope' \in [Agents -> SUBSET Pids]
      /\ record' \in [Agents -> [Pids -> Said \cup {None}]]
      /\ published' \in [Pids -> {Precedence[i] : i \in DOMAIN Precedence} \cup {None}]
      /\ starts' \in [Agents -> 0 .. MaxStarts] /\ sets' \in 0 .. MaxSets
  BY DEF Gone, TypeOK, roomVars, hubVars
<1>3. /\ linked' \subseteq Agents /\ live' \in [Agents -> SUBSET Pids]
      /\ cmds' \in [Agents -> Seq(Commands)] /\ inq' \in [Agents -> Seq(Downward)]
      /\ mode' \in [Agents -> {"down", "up", "stopping"}] /\ roster' \subseteq Agents
  BY <1>1 DEF Gone, TypeOK
<1>4. /\ parts' \in [Agents -> [Pids -> 0 .. MaxSess]] /\ subs' \in [Agents -> SUBSET Pids]
      /\ gen' \in [Agents -> Nat] /\ confirmed' \in [Agents -> Nat]
  BY AgentReadinessAssumption DEF Gone, TypeOK
<1>5. /\ default' \in [Agents -> Said \cup {None}]
      /\ own' \in [Agents -> [Pids -> Said \cup {None}]]
      /\ tasks' \in [Agents -> [Slots -> Tasks \cup {None}]]
  BY DEF Gone, TypeOK
<1> QED BY <1>2, <1>3, <1>4, <1>5 DEF TypeOK

\* Subscriptions are typed.
LEMMA SubscriptionType ==
  ASSUME TypeOK, NEW a \in Agents, NEW p \in Pids, NEW on \in BOOLEAN, SetSubscription(a, p, on)
  PROVE  /\ subs' \in [Agents -> SUBSET Pids] /\ gen' \in [Agents -> Nat]
         /\ cmds' \in [Agents -> Seq(Commands)]
<1>1. Append(cmds[a], [on |-> on, pid |-> p]) \in Seq(Commands)
  BY AppendProperties DEF TypeOK, Commands
<1>2. subs' \in [Agents -> SUBSET Pids]
  BY DEF SetSubscription, TypeOK
<1>3. CASE on = (p \in subs[a])
  BY <1>2, <1>3 DEF SetSubscription, TypeOK
<1>4. CASE on # (p \in subs[a])
  <2>1. cmds' = [cmds EXCEPT ![a] = Append(cmds[a], [on |-> on, pid |-> p])]
        /\ gen' = [gen EXCEPT ![a] = gen[a] + 1]
    BY <1>4 DEF SetSubscription
  <2> QED BY <1>1, <1>2, <2>1 DEF TypeOK
<1> QED BY <1>3, <1>4

\* The hub's steps keep the types.
LEMMA HubTypes ==
  ASSUME TypeOK, NEW a \in Agents, HubStep(a)
  PROVE  TypeOK'
<1> USE DEF roomVars, wireVars, procVars, selfVars, taskVars, hubVars
<1>1. /\ out[a] # <<>> /\ out' = [out EXCEPT ![a] = Tail(@)]
      /\ UNCHANGED <<roomVars, wireVars, procVars, selfVars, taskVars>>
  BY DEF HubStep, HubAttach, HubDetach, HubStatus, HubProbe, HubRoster, Take
<1>2. Head(out[a]) \in Upward /\ Tail(out[a]) \in Seq(Upward)
  BY <1>1, TailElements DEF TypeOK
<1>3. out' \in [Agents -> Seq(Upward)]
  BY <1>1, <1>2 DEF TypeOK
<1>4. ASSUME scope' \in [Agents -> SUBSET Pids], record' \in [Agents -> [Pids -> Said \cup {None}]],
             published' \in [Pids -> Told \cup {None}], inq' \in [Agents -> Seq(Downward)]
      PROVE  TypeOK'
  BY <1>1, <1>3, <1>4 DEF TypeOK, Told
<1>5. published \in [Pids -> Told \cup {None}]
  BY DEF TypeOK, Told
<1>6. CASE HubAttach(a)
  <2>1. Head(out[a]).scope \in SUBSET Pids
    BY <1>2, <1>6 DEF HubAttach, Take, Upward
  <2> QED BY <1>4, <1>5, <1>6, <2>1, PublishType DEF HubAttach, TypeOK
<1>7. CASE HubDetach(a)
  BY <1>4, <1>5, <1>7, PublishType DEF HubDetach, TypeOK
<1>8. CASE HubStatus(a)
  <2>1. Head(out[a]).pid \in Pids /\ Head(out[a]).status \in Said
    BY <1>2, <1>8 DEF HubStatus, Take, Upward
  <2> QED BY <1>4, <1>5, <1>8, <2>1, PublishType DEF HubStatus, TypeOK
<1>9. CASE HubProbe(a)
  <2> DEFINE m == Head(out[a])
             e == [type |-> "echo", task |-> m.task, g |-> m.g]
  <2>1. e \in Downward
    BY <1>2, <1>9 DEF HubProbe, Take, Upward, Downward
  <2>2. Append(inq[a], e) \in Seq(Downward)
    BY <2>1, AppendProperties DEF TypeOK
  <2>3. inq' = inq \/ inq' = [inq EXCEPT ![a] = Append(@, e)]
    BY <1>9 DEF HubProbe
  <2> HIDE DEF e
  <2>4. inq' \in [Agents -> Seq(Downward)]
    BY <2>2, <2>3 DEF TypeOK
  <2> QED BY <1>4, <1>5, <1>9, <2>4 DEF HubProbe, TypeOK
<1>10. CASE HubRoster(a)
  <2> DEFINE J(q) == [i \in DOMAIN q |-> [type |-> "joined", pid |-> q[i], sess |-> session[q[i]]]]
             C == Cardinality({p \in Pids : session[p] # 0})
  <2>1. PICK q \in [1 .. C -> {p \in Pids : session[p] # 0}] :
               inq' = [b \in Agents |-> IF b \in linked THEN inq[b] \o J(q) ELSE inq[b]]
    BY <1>10 DEF HubRoster
  <2>2. C \in Nat
    BY AgentReadinessAssumption, FS_Subset, FS_CardinalityType
  <2> HIDE DEF C
  <2>3. J(q) \in Seq(Downward)
    <3>1. \A i \in 1 .. C : [type |-> "joined", pid |-> q[i], sess |-> session[q[i]]] \in Downward
      BY DEF Downward, TypeOK
    <3>2. J(q) \in [1 .. C -> Downward]
      BY <3>1
    <3> QED BY <2>2, <3>2
  <2> HIDE DEF J
  <2>4. \A b \in Agents : inq[b] \o J(q) \in Seq(Downward)
    BY <2>3, ConcatElements DEF TypeOK
  <2>5. inq' \in [Agents -> Seq(Downward)]
    BY <2>1, <2>4 DEF TypeOK
  <2> QED BY <1>4, <1>5, <1>10, <2>5 DEF HubRoster, TypeOK
<1> QED BY <1>6, <1>7, <1>8, <1>9, <1>10 DEF HubStep

\* Messages dispatched by an agent come from a typed queue.
LEMMA DispatchType ==
  ASSUME TypeOK, NEW a \in Agents, NEW type, Dispatch(a, type)
  PROVE  /\ inq' \in [Agents -> Seq(Downward)] /\ Head(inq[a]) \in Downward
         /\ Head(inq[a]).type = type
<1>1. inq[a] # <<>> /\ Head(inq[a]).type = type /\ inq' = [inq EXCEPT ![a] = Tail(inq[a])]
  BY DEF Dispatch
<1>2. Head(inq[a]) \in Downward /\ Tail(inq[a]) \in Seq(Downward)
  BY <1>1, TailElements DEF TypeOK
<1> QED BY <1>1, <1>2 DEF TypeOK

\* What an agent makes known is one of the statuses it was given, or nothing.
LEMMA EffectiveType ==
  ASSUME TypeOK, NEW a \in Agents, NEW p \in Pids
  PROVE  Effective(a, p) \in Said \cup {None}
<1>1. own[a][p] \in Said \cup {None} /\ default[a] \in Said \cup {None}
  BY DEF TypeOK
<1> QED BY <1>1 DEF Effective

\* An agent's dispatching keeps the types.
LEMMA DispatchTypes ==
  ASSUME TypeOK, NEW a \in Agents, DispatchStep(a)
  PROVE  TypeOK'
<1> USE DEF roomVars, wireVars, procVars, selfVars, taskVars, hubVars
<1> DEFINE m == Head(inq[a])
<1>1. CASE DispatchEcho(a)
  <2>1. Dispatch(a, "echo") /\ UNCHANGED <<cmds, selfVars>>
    BY <1>1 DEF DispatchEcho
  <2>2. inq' \in [Agents -> Seq(Downward)] /\ m \in Downward /\ m.type = "echo"
    BY <2>1, DispatchType
  <2>3. m.task \in Slots /\ m.g \in Nat
    BY <2>2 DEF Downward
  <2>4. ASSUME out' \in [Agents -> Seq(Upward)], confirmed' \in [Agents -> Nat],
               tasks' \in [Agents -> [Slots -> Tasks \cup {None}]]
        PROVE  TypeOK'
    BY <2>1, <2>2, <2>4 DEF Dispatch, TypeOK
  <2> DEFINE i == m.task
  <2>5. \/ UNCHANGED <<out, taskVars>>
        \/ Probing(a, i) /\ Finish(a, i)
        \/ /\ Probing(a, i) /\ Push(a, <<[type |-> "probe", task |-> i, g |-> gen[a]]>>)
           /\ confirmed' = [confirmed EXCEPT ![a] = IF @ < m.g THEN m.g ELSE @]
           /\ tasks' = [tasks EXCEPT ![a][i].g = gen[a]]
    BY <1>1 DEF DispatchEcho
  <2> HIDE DEF m
  <2>6. CASE UNCHANGED <<out, taskVars>>
    BY <2>4, <2>6 DEF TypeOK
  <2>7. CASE Probing(a, i) /\ Finish(a, i)
    BY <2>3, <2>4, <2>7, FinishType, AgentReadinessAssumption DEF Probing
  <2>8. CASE /\ Probing(a, i) /\ Push(a, <<[type |-> "probe", task |-> i, g |-> gen[a]]>>)
             /\ confirmed' = [confirmed EXCEPT ![a] = IF @ < m.g THEN m.g ELSE @]
             /\ tasks' = [tasks EXCEPT ![a][i].g = gen[a]]
    <3>1. [type |-> "probe", task |-> i, g |-> gen[a]] \in Upward
      BY <2>3 DEF Upward, TypeOK
    <3>2. <<[type |-> "probe", task |-> i, g |-> gen[a]]>> \in Seq(Upward)
      BY <3>1
    <3>3. out' \in [Agents -> Seq(Upward)]
      BY <2>8, <3>2, PushType DEF TypeOK
    <3>4. confirmed' \in [Agents -> Nat]
      BY <2>3, <2>8 DEF TypeOK
    <3>5. tasks[a][i] \in Tasks /\ gen[a] \in Nat
      BY <2>3, <2>8 DEF TypeOK, Probing
    <3>6. [tasks[a][i] EXCEPT !.g = gen[a]] \in Tasks
      BY <3>5 DEF Tasks
    <3>7. tasks' = [tasks EXCEPT ![a] = [tasks[a] EXCEPT ![i] = [tasks[a][i] EXCEPT !.g = gen[a]]]]
      BY <2>8
    <3>8. tasks' \in [Agents -> [Slots -> Tasks \cup {None}]]
      BY <2>3, <3>6, <3>7 DEF TypeOK
    <3> QED BY <2>4, <3>3, <3>4, <3>8
  <2> QED BY <2>5, <2>6, <2>7, <2>8
<1>2. CASE DispatchJoined(a)
  <2>1. Dispatch(a, "joined") /\ UNCHANGED <<out, confirmed>>
    BY <1>2 DEF DispatchJoined
  <2>2. inq' \in [Agents -> Seq(Downward)] /\ m \in Downward /\ m.type = "joined"
    BY <2>1, DispatchType
  <2>3. m.pid \in Pids /\ m.sess \in 0 .. MaxSess
    BY <2>2 DEF Downward
  <2>4. ASSUME cmds' \in [Agents -> Seq(Commands)], gen' \in [Agents -> Nat],
               subs' \in [Agents -> SUBSET Pids], parts' \in [Agents -> [Pids -> 0 .. MaxSess]],
               tasks' \in [Agents -> [Slots -> Tasks \cup {None}]], UNCHANGED <<default, own>>
        PROVE  TypeOK'
    BY <2>1, <2>2, <2>4 DEF Dispatch, TypeOK
  <2> DEFINE st == Effective(a, m.pid)
  <2>5. CASE parts[a][m.pid] = m.sess
    BY <1>2, <2>4, <2>5 DEF DispatchJoined, TypeOK
  <2>6. CASE parts[a][m.pid] # m.sess
    <3>1. /\ parts' = [parts EXCEPT ![a][m.pid] = m.sess]
          /\ SetSubscription(a, m.pid, TRUE) \/ UNCHANGED <<cmds, subs, gen>>
          /\ \/ UNCHANGED tasks
             \/ st # None /\ \E i \in Slots :
                  tasks' = [tasks EXCEPT ![a][i] = [pid |-> m.pid, rest |-> {},
                                      status |-> st, g |-> 0, again |-> FALSE]]
          /\ UNCHANGED <<default, own>>
      BY <1>2, <2>6 DEF DispatchJoined
    <3>2. st \in Said \cup {None}
      BY <2>3, EffectiveType
    <3> HIDE DEF st, m
    <3>3. parts' \in [Agents -> [Pids -> 0 .. MaxSess]]
      BY <2>3, <3>1 DEF TypeOK
    <3>4. /\ subs' \in [Agents -> SUBSET Pids] /\ gen' \in [Agents -> Nat]
          /\ cmds' \in [Agents -> Seq(Commands)]
      BY <2>3, <3>1, SubscriptionType DEF TypeOK
    <3>5. tasks' \in [Agents -> [Slots -> Tasks \cup {None}]]
      <4>1. st # None => [pid |-> m.pid, rest |-> {}, status |-> st, g |-> 0, again |-> FALSE] \in Tasks
        BY <2>3, <3>2 DEF Tasks
      <4>2. ASSUME NEW i \in Slots, NEW r \in Tasks, tasks' = [tasks EXCEPT ![a][i] = r]
            PROVE  tasks' \in [Agents -> [Slots -> Tasks \cup {None}]]
        BY <4>2 DEF TypeOK
      <4>3. CASE UNCHANGED tasks
        BY <4>3 DEF TypeOK
      <4> QED BY <3>1, <4>1, <4>2, <4>3
    <3> QED BY <2>4, <3>1, <3>3, <3>4, <3>5
  <2> QED BY <2>5, <2>6
<1>3. CASE DispatchLeft(a)
  <2>1. Dispatch(a, "left") /\ UNCHANGED <<out, taskVars>>
    BY <1>3 DEF DispatchLeft
  <2>2. inq' \in [Agents -> Seq(Downward)] /\ m \in Downward /\ m.type = "left"
    BY <2>1, DispatchType
  <2>3. m.pid \in Pids
    BY <2>2 DEF Downward
  <2>4. ASSUME cmds' \in [Agents -> Seq(Commands)], gen' \in [Agents -> Nat],
               subs' \in [Agents -> SUBSET Pids], parts' \in [Agents -> [Pids -> 0 .. MaxSess]],
               own' \in [Agents -> [Pids -> Said \cup {None}]], UNCHANGED default
        PROVE  TypeOK'
    BY <2>1, <2>2, <2>4 DEF Dispatch, TypeOK
  <2>5. CASE parts[a][m.pid] # m.sess
    BY <1>3, <2>4, <2>5 DEF DispatchLeft, TypeOK
  <2>6. CASE parts[a][m.pid] = m.sess
    <3>1. /\ parts' = [parts EXCEPT ![a][m.pid] = 0]
          /\ own' = [own EXCEPT ![a][m.pid] = None]
          /\ SetSubscription(a, m.pid, FALSE) \/ UNCHANGED <<cmds, subs, gen>>
          /\ UNCHANGED default
      BY <1>3, <2>6 DEF DispatchLeft
    <3> HIDE DEF m
    <3>2. parts' \in [Agents -> [Pids -> 0 .. MaxSess]] /\ own' \in [Agents -> [Pids -> Said \cup {None}]]
      BY SMTT(30), <2>3, <3>1, AgentReadinessAssumption DEF TypeOK
    <3>3. /\ subs' \in [Agents -> SUBSET Pids] /\ gen' \in [Agents -> Nat]
          /\ cmds' \in [Agents -> Seq(Commands)]
      BY <2>3, <3>1, SubscriptionType DEF TypeOK
    <3> QED BY <2>4, <3>1, <3>2, <3>3
  <2> QED BY <2>5, <2>6
<1> QED BY <1>1, <1>2, <1>3 DEF DispatchStep

\* The agent's own steps keep the types.
LEMMA AgentTypes ==
  ASSUME TypeOK, NEW a \in Agents, AgentStep(a)
  PROVE  TypeOK'
<1> USE DEF roomVars, wireVars, procVars, selfVars, taskVars, hubVars
<1>a. IsFiniteSet(Pids)
  BY AgentReadinessAssumption
<1>b. ASSUME out' \in [Agents -> Seq(Upward)], confirmed' \in [Agents -> Nat],
             tasks' \in [Agents -> [Slots -> Tasks \cup {None}]],
             UNCHANGED <<roomVars, hubVars, wireVars, inq, procVars, selfVars>>
      PROVE  TypeOK'
  BY <1>b DEF TypeOK
<1>1. CASE Start(a)
  <2> DEFINE sc == IF a \in AutoSub THEN Pids ELSE {}
  <2>1. [type |-> "attach", scope |-> sc] \in Upward
    BY DEF Upward
  <2>2. <<[type |-> "attach", scope |-> sc]>> \in Seq(Upward)
    BY <2>1
  <2>3. Push(a, <<[type |-> "attach", scope |-> sc]>>)
    BY <1>1 DEF Start
  <2>4. out' \in [Agents -> Seq(Upward)]
    BY <2>2, <2>3, PushType DEF TypeOK
  <2>5. starts' \in [Agents -> 0 .. MaxStarts]
    <3>1. starts' = [starts EXCEPT ![a] = starts[a] + 1] /\ starts[a] < MaxStarts /\ starts[a] \in 0 .. MaxStarts
      BY <1>1 DEF Start, TypeOK
    <3>2. starts[a] + 1 \in 0 .. MaxStarts
      BY <3>1, AgentReadinessAssumption
    <3> QED BY <3>1, <3>2 DEF TypeOK
  <2> QED BY <1>1, <2>4, <2>5 DEF Start, TypeOK
<1>2. CASE CatchUp(a)
  <2>1. [type |-> "roster"] \in Upward
    BY DEF Upward
  <2>2. <<[type |-> "roster"]>> \in Seq(Upward)
    BY <2>1
  <2>3. out' \in [Agents -> Seq(Upward)]
    BY <1>2, <2>2, PushType DEF CatchUp, TypeOK
  <2> QED BY <1>2, <2>3 DEF CatchUp, TypeOK
<1>3. CASE Stop(a)
  <2>1. [type |-> "detach"] \in Upward
    BY DEF Upward
  <2>2. <<[type |-> "detach"]>> \in Seq(Upward)
    BY <2>1
  <2>3. out' \in [Agents -> Seq(Upward)]
    BY <1>3, <2>2, PushType DEF Stop, TypeOK
  <2> QED BY <1>3, <2>3 DEF Stop, TypeOK
<1>4. CASE Exit(a)
  BY <1>4, GoneType DEF Exit, TypeOK
<1>5. CASE Crash(a)
  <2>1. PICK n \in 0 .. Len(out[a]) : out' = [out EXCEPT ![a] = SubSeq(out[a], 1, n)]
    BY <1>5 DEF Crash
  <2>2. out[a] \in Seq(Upward) /\ Len(out[a]) \in Nat
    BY LenProperties DEF TypeOK
  <2>3. SubSeq(out[a], 1, n) \in Seq(Upward)
    <3>1. \A i \in 1 .. n : i \in 1 .. Len(out[a])
      BY <2>2
    <3> QED BY <2>2, <3>1, SubSeqProperties
  <2> QED BY <1>5, <2>1, <2>3, GoneType DEF Crash, TypeOK
<1>6. ASSUME NEW p \in Pids, Republish(a, p) PROVE TypeOK'
  <2>1. PICK i \in Slots : Send(a, i, {p}, Effective(a, p), TRUE)
    BY <1>6 DEF Republish
  <2>2. Effective(a, p) \in Said
    BY <1>6, EffectiveType DEF Republish
  <2>3. /\ out' \in [Agents -> Seq(Upward)] /\ confirmed' \in [Agents -> Nat]
        /\ tasks' \in [Agents -> [Slots -> Tasks \cup {None}]]
    BY <1>a, <2>1, <2>2, SendType
  <2> QED BY <1>6, <1>b, <2>3 DEF Republish
<1>7. ASSUME NEW i \in Slots, Timeout(a, i) PROVE TypeOK'
  <2>1. /\ out' \in [Agents -> Seq(Upward)] /\ confirmed' \in [Agents -> Nat]
        /\ tasks' \in [Agents -> [Slots -> Tasks \cup {None}]]
    BY <1>7, <1>a, FinishType DEF Timeout, Probing
  <2> QED BY <1>7, <1>b, <2>1 DEF Timeout
<1>8. ASSUME NEW i \in Slots, Begin(a, i) PROVE TypeOK'
  <2> DEFINE t == tasks[a][i]
  <2>1. t \in Tasks
    BY <1>8 DEF Begin, TypeOK
  <2>2. {t.pid} \in SUBSET Pids /\ t.status \in Said
    BY <2>1 DEF Tasks
  <2>3. Send(a, i, {t.pid}, t.status, FALSE)
    BY <1>8 DEF Begin
  <2> HIDE DEF t
  <2>4. /\ out' \in [Agents -> Seq(Upward)] /\ confirmed' \in [Agents -> Nat]
        /\ tasks' \in [Agents -> [Slots -> Tasks \cup {None}]]
    BY <1>a, <2>2, <2>3, SendType
  <2> QED BY <1>8, <1>b, <2>4 DEF Begin
<1>9. ASSUME NEW i \in Slots, Retry(a, i) PROVE TypeOK'
  <2> DEFINE e == [type |-> "probe", task |-> i, g |-> tasks[a][i].g]
  <2>1. tasks[a][i] \in Tasks
    BY <1>9 DEF Retry, Probing, TypeOK
  <2>2. e \in Upward
    BY <2>1 DEF Tasks, Upward
  <2>3. Push(a, <<e>>)
    BY <1>9 DEF Retry
  <2> HIDE DEF e
  <2>4. <<e>> \in Seq(Upward)
    BY <2>2
  <2>5. out' \in [Agents -> Seq(Upward)]
    BY <2>3, <2>4, PushType DEF TypeOK
  <2> QED BY <1>9, <2>5 DEF Retry, TypeOK
<1>10. ASSUME NEW st \in Said, SetStatus(a, st) PROVE TypeOK'
  <2> DEFINE S == {p \in Pids : parts[a][p] # 0}
  <2>1. PICK i \in Slots : Send(a, i, S, st, FALSE)
    BY <1>10 DEF SetStatus
  <2>2. /\ out' \in [Agents -> Seq(Upward)] /\ confirmed' \in [Agents -> Nat]
        /\ tasks' \in [Agents -> [Slots -> Tasks \cup {None}]]
    BY <1>a, <2>1, SendType
  <2>3. sets' \in 0 .. MaxSets
    BY <1>10, AgentReadinessAssumption DEF SetStatus, TypeOK
  <2> QED BY <1>10, <2>2, <2>3 DEF SetStatus, TypeOK
<1>11. ASSUME NEW st \in Said, NEW p \in Pids, SetStatusOf(a, p, st) PROVE TypeOK'
  <2>1. PICK i \in Slots : Send(a, i, {p}, st, FALSE)
    BY <1>11 DEF SetStatusOf
  <2>2. /\ out' \in [Agents -> Seq(Upward)] /\ confirmed' \in [Agents -> Nat]
        /\ tasks' \in [Agents -> [Slots -> Tasks \cup {None}]]
    BY <1>a, <2>1, SendType
  <2>3. sets' \in 0 .. MaxSets
    BY <1>11, AgentReadinessAssumption DEF SetStatusOf, TypeOK
  <2> QED BY <1>11, <2>2, <2>3 DEF SetStatusOf, TypeOK
<1>12. ASSUME NEW p \in Pids, NEW on \in BOOLEAN, Choose(a, p, on) PROVE TypeOK'
  <2>1. /\ subs' \in [Agents -> SUBSET Pids] /\ gen' \in [Agents -> Nat]
        /\ cmds' \in [Agents -> Seq(Commands)]
    BY <1>12, SubscriptionType DEF Choose
  <2>2. [type |-> "attach", scope |-> subs'[a]] \in Upward
    BY <2>1 DEF Upward
  <2>3. <<[type |-> "attach", scope |-> subs'[a]]>> \in Seq(Upward)
    BY <2>2
  <2>4. out' \in [Agents -> Seq(Upward)]
    BY <1>12, <2>3, PushType DEF Choose, TypeOK
  <2> QED BY <1>12, <2>1, <2>4 DEF Choose, TypeOK
<1> QED
  BY <1>1, <1>2, <1>3, <1>4, <1>5, <1>6, <1>7, <1>8, <1>9, <1>10, <1>11, <1>12, DispatchTypes
  DEF AgentStep, CoroutineStep, ApplicationStep

\* Every step keeps the types.
LEMMA TypeStep == TypeOK /\ [Next]_vars => TypeOK'
<1> SUFFICES ASSUME TypeOK, [Next]_vars PROVE TypeOK'
  OBVIOUS
<1> USE DEF roomVars, wireVars, procVars, selfVars, taskVars, hubVars
<1>1. ASSUME NEW p \in Pids, Connect(p) PROVE TypeOK'
  <2>1. visits[p] + 1 \in 0 .. MaxSess
    BY <1>1, AgentReadinessAssumption DEF Connect, TypeOK
  <2> DEFINE m == [type |-> "joined", pid |-> p, sess |-> visits[p] + 1]
  <2>2. m \in Downward
    BY <2>1 DEF Downward
  <2>3. Announce(m)
    BY <1>1 DEF Connect
  <2> HIDE DEF m
  <2>4. inq' \in [Agents -> Seq(Downward)]
    BY <2>2, <2>3, AnnounceType DEF TypeOK
  <2>5. published' \in [Pids -> Told \cup {None}]
    BY <1>1, PublishType DEF Connect, TypeOK, Told
  <2>6. session' \in [Pids -> 0 .. MaxSess] /\ visits' \in [Pids -> 0 .. MaxSess]
    BY <1>1, <2>1 DEF Connect, TypeOK
  <2> QED BY <1>1, <2>4, <2>5, <2>6 DEF Connect, TypeOK, Told
<1>2. ASSUME NEW p \in Pids, Disconnect(p) PROVE TypeOK'
  <2> DEFINE m == [type |-> "left", pid |-> p, sess |-> session[p]]
  <2>2. m \in Downward
    BY DEF Downward, TypeOK
  <2>3. Announce(m)
    BY <1>2 DEF Disconnect
  <2> HIDE DEF m
  <2>4. inq' \in [Agents -> Seq(Downward)]
    BY <2>2, <2>3, AnnounceType DEF TypeOK
  <2>5. session' \in [Pids -> 0 .. MaxSess]
    BY <1>2, AgentReadinessAssumption DEF Disconnect, TypeOK
  <2>6. record' \in [Agents -> [Pids -> Said \cup {None}]]
    BY <1>2 DEF Disconnect, TypeOK
  <2>7. published' \in [Pids -> {Precedence[i] : i \in DOMAIN Precedence} \cup {None}]
    BY <1>2 DEF Disconnect, TypeOK
  <2> QED BY <1>2, <2>4, <2>5, <2>6, <2>7 DEF Disconnect, TypeOK
<1>3. ASSUME NEW a \in Agents, Link(a) PROVE TypeOK'
  BY <1>3 DEF Link, TypeOK
<1>4. ASSUME NEW a \in Agents, ApplyCommand(a) PROVE TypeOK'
  <2>1. Head(cmds[a]) \in Commands /\ Tail(cmds[a]) \in Seq(Commands)
    BY <1>4, TailElements DEF ApplyCommand, TypeOK
  <2>2. Head(cmds[a]).pid \in Pids
    BY <2>1 DEF Commands
  <2>3. live' \in [Agents -> SUBSET Pids]
    BY <1>4, <2>2 DEF ApplyCommand, TypeOK
  <2>4. cmds' \in [Agents -> Seq(Commands)]
    BY <1>4, <2>1 DEF ApplyCommand, TypeOK
  <2> QED BY <1>4, <2>3, <2>4 DEF ApplyCommand, TypeOK
<1>5. CASE UNCHANGED vars
  BY <1>5 DEF vars, TypeOK
<1> QED BY <1>1, <1>2, <1>3, <1>4, <1>5, HubTypes, AgentTypes DEF Next

\* The state is well formed.
THEOREM TypeCorrect == Spec => []TypeOK
<1>1. Init => TypeOK
  BY AgentReadinessAssumption DEF Init, TypeOK
<1> QED BY <1>1, TypeStep, PTL DEF Spec

-----------------------------------------------------------------------------
(* Whom a ready agent is routed to.                                            *)

\* Probes are answered, and what was once subscribed is dropped with the session only: every
\* agent id is run once, every participant comes once, and the application of an agent that
\* does not subscribe by itself chooses once.
Undisturbed ==
  ~MayTimeout /\ MaxStarts <= 1 /\ MaxSess <= 1 /\ (Agents \subseteq AutoSub \/ MaxChoices <= 1)

\* The session of p is over.
Over(p) == visits[p] # 0 /\ session[p] = 0

\* An agent that was never started is unknown to everybody.
Fresh(a) ==
  starts[a] = 0 =>
    /\ mode[a] = "down" /\ a \notin linked
    /\ out[a] = <<>> /\ inq[a] = <<>> /\ cmds[a] = <<>>
    /\ gen[a] = 0 /\ confirmed[a] = 0 /\ subs[a] = {}
    /\ \A i \in Slots : tasks[a][i] = None
    /\ \A p \in Pids : record[a][p] = None

\* Who is up was started.
Started(a) == mode[a] # "down" => starts[a] # 0

\* Generation 0 is that of an agent without subscriptions, but for those of joins.
Chosen(a) == a \notin AutoSub /\ gen[a] = 0 => subs[a] = {}

\* A subscription is live or its command is under way, and no command is against it; a
\* coroutine that probes is for a participant that is subscribed.
Wanted(a) ==
  \A p \in Pids : ~Over(p) =>
    /\ p \in subs[a] => p \in live[a] \/ \E k \in DOMAIN cmds[a] : cmds[a][k].pid = p
    /\ \A k \in DOMAIN cmds[a] : cmds[a][k].pid = p => cmds[a][k].on
    /\ \A i \in Slots : Probing(a, i) /\ tasks[a][i].pid = p => p \in subs[a]

\* Whoever has a status of a, recorded or on its way, is routed to a.
Heard(a) ==
  \A p \in Pids : ~Over(p) =>
    /\ record[a][p] # None => p \in live[a]
    /\ \A n \in DOMAIN out[a] : out[a][n].type = "status" /\ out[a][n].pid = p => p \in live[a]

\* The commands up to generation g have been applied.
Applied(a, g) == g + Len(cmds[a]) <= gen[a]

\* What is confirmed, or about to be, has been applied.
Echoes(a) ==
  /\ Applied(a, confirmed[a])
  /\ \A n \in DOMAIN inq[a] : inq[a][n].type = "echo" => Applied(a, inq[a][n].g)

\* A departure that is announced is one.
Lefts(a) == \A n \in DOMAIN inq[a] : inq[a][n].type = "left" => Over(inq[a][n].pid)

\* What is kept of an agent that runs.
Routed(a) == Wanted(a) /\ Heard(a) /\ Echoes(a) /\ Lefts(a)

\* What every step of an undisturbed room keeps.
RInv == /\ TypeOK /\ \A p \in Pids : session[p] # 0 => visits[p] # 0
        /\ \A a \in Agents : Fresh(a) /\ Started(a) /\ Chosen(a) /\ (Runs(a) => Routed(a))

\* Nothing happens at a, but for what the hub sends it.
Bystander(a) ==
  /\ out'[a] = out[a] /\ cmds'[a] = cmds[a] /\ live'[a] = live[a] /\ (a \in linked' <=> a \in linked)
  /\ mode'[a] = mode[a] /\ starts'[a] = starts[a] /\ subs'[a] = subs[a] /\ gen'[a] = gen[a]
  /\ confirmed'[a] = confirmed[a] /\ tasks'[a] = tasks[a]

\* Whatever happens, it happens at one agent.
LEMMA OneMoves ==
  ASSUME TypeOK, [Next]_vars, NEW a \in Agents
  PROVE  \/ /\ HubStep(a) \/ Link(a) \/ ApplyCommand(a) \/ AgentStep(a)
            /\ UNCHANGED roomVars
         \/ Bystander(a)
<1> USE DEF roomVars, wireVars, procVars, selfVars, taskVars, hubVars, Bystander
<1>1. ASSUME NEW p \in Pids, Connect(p) \/ Disconnect(p) PROVE Bystander(a)
  BY <1>1 DEF Connect, Disconnect
<1>2. CASE UNCHANGED vars
  BY <1>2 DEF vars
<1>3. ASSUME NEW b \in Agents, HubStep(b) PROVE UNCHANGED roomVars /\ (b # a => Bystander(a))
  BY <1>3 DEF TypeOK, HubStep, HubAttach, HubDetach, HubStatus, HubProbe, HubRoster, Take
<1>4. ASSUME NEW b \in Agents, Link(b) \/ ApplyCommand(b)
      PROVE  UNCHANGED roomVars /\ (b # a => Bystander(a))
  BY <1>4 DEF TypeOK, Link, ApplyCommand
<1>5. ASSUME NEW b \in Agents, Start(b) \/ CatchUp(b) \/ Stop(b)
      PROVE  UNCHANGED roomVars /\ (b # a => Bystander(a))
  BY <1>5 DEF TypeOK, Start, CatchUp, Stop, Push
<1>6. ASSUME NEW b \in Agents, Exit(b) \/ Crash(b)
      PROVE  UNCHANGED roomVars /\ (b # a => Bystander(a))
  BY SMTT(30), <1>6 DEF TypeOK, Exit, Crash, Gone
<1>7. ASSUME NEW b \in Agents, NEW i \in Slots, NEW S, NEW st, NEW again, Send(b, i, S, st, again),
             UNCHANGED <<roomVars, wireVars, mode, starts, subs, gen>>
      PROVE  b # a => Bystander(a)
  BY ZenonT(40), <1>7 DEF TypeOK, Send, Push
<1>8. ASSUME NEW b \in Agents, NEW i \in Slots, Finish(b, i),
             UNCHANGED <<roomVars, wireVars, mode, starts, subs, gen>>
      PROVE  b # a => Bystander(a)
  BY <1>8 DEF TypeOK, Finish, Push
<1>9. ASSUME NEW b \in Agents, NEW p \in Pids, Republish(b, p)
      PROVE  UNCHANGED roomVars /\ (b # a => Bystander(a))
  BY <1>7, <1>9 DEF Republish
<1>10. ASSUME NEW b \in Agents, NEW i \in Slots, Timeout(b, i)
      PROVE  UNCHANGED roomVars /\ (b # a => Bystander(a))
  BY <1>8, <1>10 DEF Timeout
<1>11. ASSUME NEW b \in Agents, NEW i \in Slots, Begin(b, i)
      PROVE  UNCHANGED roomVars /\ (b # a => Bystander(a))
  BY <1>7, <1>11 DEF Begin
<1>12. ASSUME NEW b \in Agents, NEW i \in Slots, Retry(b, i)
      PROVE  UNCHANGED roomVars /\ (b # a => Bystander(a))
  BY <1>12 DEF TypeOK, Retry, Push
<1>13. ASSUME NEW b \in Agents, NEW st \in Said, SetStatus(b, st)
      PROVE  UNCHANGED roomVars /\ (b # a => Bystander(a))
  BY <1>7, <1>13 DEF SetStatus
<1>14. ASSUME NEW b \in Agents, NEW st \in Said, NEW p \in Pids, SetStatusOf(b, p, st)
      PROVE  UNCHANGED roomVars /\ (b # a => Bystander(a))
  BY <1>7, <1>14 DEF SetStatusOf
<1>15. ASSUME NEW b \in Agents, NEW p \in Pids, NEW on \in BOOLEAN, Choose(b, p, on)
      PROVE  UNCHANGED roomVars /\ (b # a => Bystander(a))
  BY <1>15 DEF TypeOK, Choose, Push, SetSubscription
<1>16. ASSUME NEW b \in Agents, DispatchEcho(b)
      PROVE  UNCHANGED roomVars /\ (b # a => Bystander(a))
  <2> DEFINE i == Head(inq[b]).task
  <2>1. /\ UNCHANGED <<roomVars, wireVars, mode, starts, subs, gen>>
        /\ \/ UNCHANGED <<out, taskVars>>
           \/ Finish(b, i)
           \/ /\ Push(b, <<[type |-> "probe", task |-> i, g |-> gen[b]]>>)
              /\ confirmed' = [confirmed EXCEPT ![b] = IF @ < Head(inq[b]).g THEN Head(inq[b]).g ELSE @]
              /\ tasks' = [tasks EXCEPT ![b][i].g = gen[b]]
    BY <1>16 DEF DispatchEcho, Dispatch
  <2> HIDE DEF i
  <2> QED BY ZenonT(40), <2>1 DEF TypeOK, Finish, Push
<1>17. ASSUME NEW b \in Agents, DispatchJoined(b)
      PROVE  UNCHANGED roomVars /\ (b # a => Bystander(a))
  <2> DEFINE p == Head(inq[b]).pid
  <2>1. /\ UNCHANGED <<roomVars, linked, live, mode, starts, out, confirmed>>
        /\ SetSubscription(b, p, TRUE) \/ UNCHANGED <<cmds, subs, gen>>
        /\ UNCHANGED tasks \/ \E i \in Slots : \E r : tasks' = [tasks EXCEPT ![b][i] = r]
    BY <1>17 DEF DispatchJoined, Dispatch
  <2> HIDE DEF p
  <2> QED BY SMTT(30), <2>1 DEF TypeOK, SetSubscription
<1>18. ASSUME NEW b \in Agents, DispatchLeft(b)
      PROVE  UNCHANGED roomVars /\ (b # a => Bystander(a))
  <2> DEFINE p == Head(inq[b]).pid
  <2>1. /\ UNCHANGED <<roomVars, linked, live, mode, starts, out, taskVars>>
        /\ SetSubscription(b, p, FALSE) \/ UNCHANGED <<cmds, subs, gen>>
    BY <1>18 DEF DispatchLeft, Dispatch
  <2> HIDE DEF p
  <2> QED BY SMTT(30), <2>1 DEF TypeOK, SetSubscription
<1>19. ASSUME NEW b \in Agents, AgentStep(b) PROVE UNCHANGED roomVars /\ (b # a => Bystander(a))
  <2> HIDE DEF roomVars, Bystander
  <2> QED BY <1>19, <1>5, <1>6, <1>9, <1>10, <1>11, <1>12, <1>13, <1>14, <1>15, <1>16, <1>17, <1>18
          DEF AgentStep, CoroutineStep, ApplicationStep, DispatchStep
<1> HIDE DEF roomVars, Bystander
<1> QED BY <1>1, <1>2, <1>3, <1>4, <1>19 DEF Next

\* Only participants come and go.
LEMMA RoomStays ==
  ASSUME NEW a \in Agents, HubStep(a) \/ Link(a) \/ ApplyCommand(a) \/ AgentStep(a)
  PROVE  UNCHANGED <<session, visits>>
<1> USE DEF roomVars
<1>1. CASE HubStep(a)
  BY <1>1 DEF HubStep, HubAttach, HubDetach, HubStatus, HubProbe, HubRoster, Take
<1>2. CASE Link(a) \/ ApplyCommand(a)
  BY <1>2 DEF Link, ApplyCommand
<1>3. CASE AgentStep(a)
  <2>1. CASE Start(a) \/ CatchUp(a) \/ Stop(a) \/ Exit(a) \/ Crash(a)
    BY <2>1 DEF Start, CatchUp, Stop, Exit, Crash, Gone
  <2>2. CASE DispatchStep(a)
    BY <2>2 DEF DispatchStep, DispatchEcho, DispatchJoined, DispatchLeft, Dispatch
  <2>3. CASE CoroutineStep(a) \/ \E i \in Slots : Timeout(a, i)
    BY <2>3 DEF CoroutineStep, Begin, Retry, Timeout
  <2>4. CASE ApplicationStep(a) \/ \E q \in Pids : Republish(a, q)
    BY <2>4 DEF ApplicationStep, SetStatus, SetStatusOf, Choose, Republish
  <2> QED BY <1>3, <2>1, <2>2, <2>3, <2>4 DEF AgentStep
<1> QED BY <1>1, <1>2, <1>3

\* Who has gone does not come again.
LEMMA OverStays ==
  ASSUME MaxSess <= 1, TypeOK, [Next]_vars, NEW p \in Pids, Over(p)
  PROVE  Over(p)'
<1> USE DEF roomVars
<1>1. ASSUME NEW q \in Pids, Connect(q) PROVE Over(p)'
  <2>1. visits[q] = 0 /\ visits' = [visits EXCEPT ![q] = @ + 1] /\ session' = [session EXCEPT ![q] = visits[q] + 1]
    BY <1>1, AgentReadinessAssumption DEF Connect, TypeOK
  <2>2. p # q
    BY <2>1 DEF Over
  <2> QED BY <2>1, <2>2 DEF Over, TypeOK
<1>2. ASSUME NEW q \in Pids, Disconnect(q) PROVE Over(p)'
  BY <1>2 DEF Disconnect, Over, TypeOK
<1>3. CASE UNCHANGED <<session, visits>>
  BY <1>3 DEF Over
<1>4. ASSUME NEW a \in Agents, HubStep(a) \/ Link(a) \/ ApplyCommand(a) \/ AgentStep(a)
      PROVE  Over(p)'
  BY <1>3, <1>4, RoomStays
<1>5. CASE UNCHANGED vars
  BY <1>3, <1>5 DEF vars
<1> QED BY <1>1, <1>2, <1>3, <1>4, <1>5 DEF Next

\* Participants that are connected have come.
LEMMA VisitedStep ==
  ASSUME TypeOK, [Next]_vars, NEW p \in Pids, session[p] # 0 => visits[p] # 0
  PROVE  session'[p] # 0 => visits'[p] # 0
<1> USE DEF roomVars
<1>1. ASSUME NEW q \in Pids, Connect(q) PROVE session'[p] # 0 => visits'[p] # 0
  BY <1>1, AgentReadinessAssumption DEF Connect, TypeOK
<1>2. ASSUME NEW q \in Pids, Disconnect(q) PROVE session'[p] # 0 => visits'[p] # 0
  BY <1>2 DEF Disconnect, TypeOK
<1>3. CASE UNCHANGED <<session, visits>>
  BY <1>3
<1>4. CASE UNCHANGED vars
  BY <1>4, <1>3 DEF vars
<1>5. ASSUME NEW a \in Agents, HubStep(a) \/ Link(a) \/ ApplyCommand(a) \/ AgentStep(a)
      PROVE  UNCHANGED <<session, visits>>
  BY <1>5, RoomStays
<1> QED BY <1>1, <1>2, <1>3, <1>4, <1>5 DEF Next

\* What a step of the room or the hub does to the records of an agent.
LEMMA RecordEffect ==
  ASSUME TypeOK, [Next]_vars, NEW a \in Agents, NEW p \in Pids, record'[a][p] # None
  PROVE  \/ record[a][p] # None
         \/ HubStatus(a) /\ out[a] # <<>> /\ Head(out[a]).type = "status" /\ Head(out[a]).pid = p
<1> USE DEF hubVars
<1>1. ASSUME NEW q \in Pids, Connect(q) \/ Disconnect(q) PROVE record[a][p] # None
  BY <1>1 DEF Connect, Disconnect, TypeOK
<1>2. CASE UNCHANGED record
  BY <1>2
<1>3. ASSUME NEW b \in Agents, HubAttach(b) \/ HubDetach(b) \/ HubProbe(b) \/ HubRoster(b)
      PROVE  record[a][p] # None
  <2>1. record' = record \/ record' = [record EXCEPT ![b] = [q \in Pids |-> None]]
    BY <1>3 DEF HubAttach, HubDetach, HubProbe, HubRoster
  <2>2. record \in [Agents -> [Pids -> Said \cup {None}]]
    BY DEF TypeOK
  <2>3. CASE record' = [record EXCEPT ![b] = [q \in Pids |-> None]] /\ b = a
    BY <2>2, <2>3
  <2> QED BY <2>1, <2>2, <2>3
<1>4. ASSUME NEW b \in Agents, HubStatus(b)
      PROVE  \/ record[a][p] # None
             \/ HubStatus(a) /\ out[a] # <<>> /\ Head(out[a]).type = "status" /\ Head(out[a]).pid = p
  <2> DEFINE m == Head(out[b])
  <2>1. record' = [record EXCEPT ![b][m.pid] = m.status] /\ out[b] # <<>> /\ m.type = "status"
    BY <1>4 DEF HubStatus, Take
  <2>2. CASE b = a /\ m.pid = p
    BY <1>4, <2>1, <2>2
  <2>3. CASE ~(b = a /\ m.pid = p)
    <3> HIDE DEF m
    <3>1. record'[a][p] = record[a][p]
      BY <2>1, <2>3 DEF TypeOK
    <3> QED BY <3>1
  <2> QED BY <2>2, <2>3
<1>5. ASSUME NEW b \in Agents, Link(b) \/ ApplyCommand(b) \/ AgentStep(b) PROVE UNCHANGED record
  <2>1. CASE Link(b) \/ ApplyCommand(b)
    BY <2>1 DEF Link, ApplyCommand
  <2>2. CASE Start(b) \/ CatchUp(b) \/ Stop(b) \/ Exit(b) \/ Crash(b)
    BY <2>2 DEF Start, CatchUp, Stop, Exit, Crash, Gone
  <2>3. CASE DispatchStep(b)
    BY <2>3 DEF DispatchStep, DispatchEcho, DispatchJoined, DispatchLeft, Dispatch
  <2>4. CASE CoroutineStep(b) \/ \E i \in Slots : Timeout(b, i)
    BY <2>4 DEF CoroutineStep, Begin, Retry, Timeout
  <2>5. CASE ApplicationStep(b) \/ \E q \in Pids : Republish(b, q)
    BY <2>5 DEF ApplicationStep, SetStatus, SetStatusOf, Choose, Republish
  <2> QED BY <1>5, <2>1, <2>2, <2>3, <2>4, <2>5 DEF AgentStep
<1>6. CASE UNCHANGED vars
  BY <1>2, <1>6 DEF vars
<1> QED BY <1>1, <1>2, <1>3, <1>4, <1>5, <1>6 DEF Next, HubStep

\* What an agent finds in its queue was there, or tells of a join, a departure that is one,
\* or a generation of subscriptions that has been applied.
LEMMA InqEffect ==
  ASSUME MaxSess <= 1, TypeOK, \A p \in Pids : session[p] # 0 => visits[p] # 0,
         [Next]_vars, NEW a \in Agents, NEW n \in DOMAIN inq'[a]
  PROVE  \/ \E k \in DOMAIN inq[a] : inq'[a][n] = inq[a][k]
         \/ a \in linked /\ inq'[a][n].type = "joined"
         \/ a \in linked /\ inq'[a][n].type = "left" /\ Over(inq[a][n].pid)'
         \/ HubProbe(a) /\ a \in linked /\ inq'[a][n].type = "echo" /\ gen[a] - Len(cmds[a]) >= inq'[a][n].g
<1> DEFINE Goal == \/ \E k \in DOMAIN inq[a] : inq'[a][n] = inq[a][k]
                   \/ a \in linked /\ inq'[a][n].type = "joined"
                   \/ a \in linked /\ inq'[a][n].type = "left" /\ Over(inq[a][n].pid)'
                   \/ HubProbe(a) /\ a \in linked /\ inq'[a][n].type = "echo" /\ gen[a] - Len(cmds[a]) >= inq'[a][n].g
<1> SUFFICES Goal
  OBVIOUS
<1>a. inq[a] \in Seq(Downward) /\ inq'[a] \in Seq(Downward) /\ inq \in [Agents -> Seq(Downward)]
  BY TypeStep DEF TypeOK
<1>b. CASE inq'[a] = inq[a]
  BY <1>b
<1>c. ASSUME NEW m, m \in Downward, inq'[a] = Append(inq[a], m)
      PROVE  (\E k \in DOMAIN inq[a] : inq'[a][n] = inq[a][k]) \/ inq'[a][n] = m
  <2>1. /\ Len(Append(inq[a], m)) = Len(inq[a]) + 1
        /\ \A i \in 1 .. Len(inq[a]) : Append(inq[a], m)[i] = inq[a][i]
        /\ Append(inq[a], m)[Len(inq[a]) + 1] = m
    BY <1>a, <1>c, AppendProperties
  <2>2. /\ Len(inq'[a]) = Len(inq[a]) + 1
        /\ \A i \in 1 .. Len(inq[a]) : inq'[a][i] = inq[a][i]
        /\ inq'[a][Len(inq[a]) + 1] = m
    BY <1>c, <2>1
  <2>3. DOMAIN inq'[a] = 1 .. Len(inq'[a]) /\ DOMAIN inq[a] = 1 .. Len(inq[a]) /\ Len(inq[a]) \in Nat
    BY <1>a, LenProperties
  <2> QED BY <2>2, <2>3
<1>d. ASSUME NEW m \in Downward, Announce(m)
      PROVE  (\E k \in DOMAIN inq[a] : inq'[a][n] = inq[a][k]) \/ (a \in linked /\ inq'[a][n] = m)
  <2>1. inq'[a] = IF a \in linked THEN Append(inq[a], m) ELSE inq[a]
    BY <1>d DEF Announce
  <2> QED BY <1>c, <2>1
<1>1. ASSUME NEW p \in Pids, Connect(p) PROVE Goal
  <2> DEFINE m == [type |-> "joined", pid |-> p, sess |-> visits[p] + 1]
  <2>1. m \in Downward
    BY SMTT(30), <1>1, AgentReadinessAssumption DEF Connect, TypeOK, Downward
  <2>2. Announce(m) /\ m.type = "joined"
    BY <1>1 DEF Connect
  <2> HIDE DEF m
  <2> QED BY <1>d, <2>1, <2>2
<1>2. ASSUME NEW p \in Pids, Disconnect(p) PROVE Goal
  <2> DEFINE m == [type |-> "left", pid |-> p, sess |-> session[p]]
  <2>1. m \in Downward
    BY DEF TypeOK, Downward
  <2>2. Announce(m) /\ m.type = "left" /\ m.pid = p
    BY <1>2 DEF Disconnect
  <2>3. Over(p)'
    BY <1>2 DEF Disconnect, Over, TypeOK
  <2> HIDE DEF m
  <2>4. (\E k \in DOMAIN inq[a] : inq'[a][n] = inq[a][k]) \/ (a \in linked /\ inq'[a][n] = m)
    BY <1>d, <2>1, <2>2
  <2>5. inq'[a][n] = m => Over(inq[a][n].pid)'
    BY <2>2, <2>3 DEF Over
  <2> QED BY <2>2, <2>4, <2>5
<1>3. ASSUME NEW b \in Agents, HubAttach(b) \/ HubDetach(b) \/ HubStatus(b) \/ Link(b) \/ ApplyCommand(b) PROVE Goal
  BY <1>3, <1>b DEF HubAttach, HubDetach, HubStatus, Link, ApplyCommand
<1>4. ASSUME NEW b \in Agents, HubProbe(b) PROVE Goal
  <2> DEFINE m == Head(out[b])
             e == [type |-> "echo", task |-> m.task, g |-> m.g]
  <2>1. out[b] # <<>> /\ m.type = "probe"
    BY <1>4 DEF HubProbe, Take
  <2>2. m \in Upward
    BY <2>1, TailElements DEF TypeOK
  <2>3. e \in Downward /\ e.type = "echo" /\ e.g = m.g
    BY <2>1, <2>2 DEF Upward, Downward
  <2>4. \/ inq' = inq
        \/ b \in linked /\ gen[b] - Len(cmds[b]) >= m.g /\ inq' = [inq EXCEPT ![b] = Append(@, e)]
    BY <1>4 DEF HubProbe
  <2> HIDE DEF e, m
  <2>5. CASE b = a /\ inq'[a] = Append(inq[a], e) /\ a \in linked /\ gen[a] - Len(cmds[a]) >= m.g
    BY <1>4, <1>c, <2>3, <2>5
  <2> QED BY <1>a, <1>b, <2>4, <2>5
<1>5. ASSUME NEW b \in Agents, HubRoster(b) PROVE Goal
  <2> DEFINE J(q) == [i \in DOMAIN q |-> [type |-> "joined", pid |-> q[i], sess |-> session[q[i]]]]
             C == Cardinality({p \in Pids : session[p] # 0})
  <2>1. PICK q \in [1 .. C -> {p \in Pids : session[p] # 0}] :
               inq' = [d \in Agents |-> IF d \in linked THEN inq[d] \o J(q) ELSE inq[d]]
    BY <1>5 DEF HubRoster
  <2>2. C \in Nat
    BY AgentReadinessAssumption, FS_Subset, FS_CardinalityType
  <2> HIDE DEF C
  <2>3. J(q) \in Seq(Downward) /\ \A i \in DOMAIN J(q) : J(q)[i].type = "joined"
    <3>1. \A i \in 1 .. C : [type |-> "joined", pid |-> q[i], sess |-> session[q[i]]] \in Downward
      BY DEF Downward, TypeOK
    <3>2. J(q) \in [1 .. C -> Downward]
      BY <3>1
    <3> QED BY <2>2, <3>2
  <2> HIDE DEF J
  <2>4. CASE a \in linked
    <3>1. inq'[a] = inq[a] \o J(q)
      BY <2>1, <2>4
    <3>2. \A k \in DOMAIN (inq[a] \o J(q)) :
             \/ k \in DOMAIN inq[a] /\ (inq[a] \o J(q))[k] = inq[a][k]
             \/ k - Len(inq[a]) \in DOMAIN J(q) /\ (inq[a] \o J(q))[k] = J(q)[k - Len(inq[a])]
      BY <1>a, <2>3, ConcatElements
    <3>3. \/ n \in DOMAIN inq[a] /\ inq'[a][n] = inq[a][n]
          \/ n - Len(inq[a]) \in DOMAIN J(q) /\ inq'[a][n] = J(q)[n - Len(inq[a])]
      BY <3>1, <3>2
    <3> QED BY <2>3, <2>4, <3>3
  <2>5. CASE a \notin linked
    BY <1>b, <2>1, <2>5
  <2> QED BY <2>4, <2>5
<1>6. ASSUME NEW b \in Agents, AgentStep(b) PROVE Goal
  <2>a. ASSUME NEW type, Dispatch(b, type) PROVE Goal
    <3>1. inq[b] # <<>> /\ inq' = [inq EXCEPT ![b] = Tail(inq[b])]
      BY <2>a DEF Dispatch
    <3>2. CASE b = a
      <4>1. inq'[a] = Tail(inq[a]) /\ inq[a] # <<>>
        BY <1>a, <3>1, <3>2
      <4>2. \A k \in DOMAIN Tail(inq[a]) : k + 1 \in DOMAIN inq[a] /\ Tail(inq[a])[k] = inq[a][k + 1]
        BY <1>a, <4>1, TailElements
      <4> QED BY <4>1, <4>2
    <3> QED BY <1>a, <1>b, <3>1, <3>2
  <2>1. CASE DispatchStep(b)
    BY <2>a, <2>1 DEF DispatchStep, DispatchEcho, DispatchJoined, DispatchLeft
  <2>2. CASE Exit(b) \/ Crash(b)
    <3>1. inq' = [inq EXCEPT ![b] = <<>>]
      BY <2>2 DEF Exit, Crash, Gone
    <3>2. CASE b = a
      <4>1. inq'[a] = <<>>
        BY <1>a, <3>1, <3>2
      <4>2. n \in {}
        BY <4>1
      <4> QED BY <4>2
    <3> QED BY <1>a, <1>b, <3>1, <3>2
  <2>3. CASE Start(b) \/ CatchUp(b) \/ Stop(b)
    BY <1>b, <2>3 DEF Start, CatchUp, Stop
  <2>4. CASE CoroutineStep(b) \/ \E i \in Slots : Timeout(b, i)
    BY <1>b, <2>4 DEF CoroutineStep, Begin, Retry, Timeout
  <2>5. CASE ApplicationStep(b) \/ \E q \in Pids : Republish(b, q)
    BY <1>b, <2>5 DEF ApplicationStep, SetStatus, SetStatusOf, Choose, Republish
  <2> QED BY <1>6, <2>1, <2>2, <2>3, <2>4, <2>5 DEF AgentStep
<1>7. CASE UNCHANGED vars
  BY <1>7, <1>b DEF vars
<1> QED BY <1>1, <1>2, <1>3, <1>4, <1>5, <1>6, <1>7 DEF Next, HubStep

\* a may speak to p: it answers for p, or has a coroutine that does.
Answering(a, p) == p \in subs[a] \/ \E i \in Slots : Probing(a, i) /\ tasks[a][i].pid = p

\* The last generation of a is confirmed, or its echo is there.
Confirming(a) ==
  \/ confirmed[a] = gen[a]
  \/ \E n \in DOMAIN inq[a] : inq[a][n].type = "echo" /\ inq[a][n].g = gen[a]

\* What a step of a running agent may do to its messages, to what it knows to be confirmed,
\* to its coroutines and to its subscriptions.
OutGoes(a) ==
  \A n \in DOMAIN out'[a] : \/ \E k \in DOMAIN out[a] : out'[a][n] = out[a][k]
                            \/ out'[a][n].type # "status"
                            \/ Answering(a, out'[a][n].pid) /\ Confirming(a)
ConfirmedGoes(a) ==
  \/ confirmed'[a] = confirmed[a]
  \/ confirmed'[a] = gen[a] /\ Confirming(a)
  \/ \E n \in DOMAIN inq[a] : inq[a][n].type = "echo" /\ inq[a][n].g = confirmed'[a]
TasksGo(a) ==
  \A i \in Slots : tasks'[a][i] # None /\ tasks'[a][i].g # 0 =>
    \/ Probing(a, i) /\ tasks'[a][i].pid = tasks[a][i].pid
    \/ tasks'[a][i].pid \in subs[a]
SubsGo(a) ==
  \/ cmds'[a] = cmds[a] /\ gen'[a] = gen[a] /\ subs'[a] = subs[a] /\ live'[a] = live[a]
  \/ ApplyCommand(a)
  \/ \E p \in Pids, on \in BOOLEAN :
       /\ SetSubscription(a, p, on) /\ live'[a] = live[a]
       /\ \/ on
          \/ \E n \in DOMAIN inq[a] : inq[a][n].type = "left" /\ inq[a][n].pid = p
          \/ a \notin AutoSub /\ gen[a] = 0 /\ p \in subs[a]
Goes(a) == OutGoes(a) /\ ConfirmedGoes(a) /\ TasksGo(a) /\ SubsGo(a)

\* What is pushed is put behind what is there.
LEMMA PushEffect ==
  ASSUME TypeOK, NEW a \in Agents, NEW ms \in Seq(Upward), Push(a, ms)
  PROVE  \A n \in DOMAIN out'[a] : \/ \E k \in DOMAIN out[a] : out'[a][n] = out[a][k]
                                   \/ \E k \in DOMAIN ms : out'[a][n] = ms[k]
<1>1. out[a] \in Seq(Upward) /\ out'[a] = out[a] \o ms
  BY DEF TypeOK, Push
<1>2. \A n \in DOMAIN (out[a] \o ms) :
        \/ n \in DOMAIN out[a] /\ (out[a] \o ms)[n] = out[a][n]
        \/ n - Len(out[a]) \in DOMAIN ms /\ (out[a] \o ms)[n] = ms[n - Len(out[a])]
  BY <1>1, ConcatElements
<1>3. ASSUME NEW n \in DOMAIN out'[a]
      PROVE  \/ n \in DOMAIN out[a] /\ out'[a][n] = out[a][n]
             \/ n - Len(out[a]) \in DOMAIN ms /\ out'[a][n] = ms[n - Len(out[a])]
  BY <1>1, <1>2, <1>3
<1> QED BY <1>3

\* A message that is no status is pushed.
LEMMA PushPlain ==
  ASSUME TypeOK, NEW a \in Agents, NEW m \in Upward, m.type # "status", Push(a, <<m>>)
  PROVE  OutGoes(a)
<1>1. <<m>> \in Seq(Upward) /\ \A k \in DOMAIN <<m>> : <<m>>[k] = m
  OBVIOUS
<1> QED BY ZenonT(40), <1>1, PushEffect DEF OutGoes

\* Statuses for a list of participants are pushed.
LEMMA PushStatuses ==
  ASSUME TypeOK, NEW a \in Agents, NEW q \in Seq(Pids), NEW st \in Said, Push(a, Statuses(q, st)),
         \A k \in DOMAIN q : Answering(a, q[k]) /\ Confirming(a)
  PROVE  OutGoes(a)
<1>1. /\ Statuses(q, st) \in Seq(Upward) /\ DOMAIN Statuses(q, st) = DOMAIN q
      /\ \A n \in DOMAIN q : Statuses(q, st)[n].pid = q[n]
  <2>1. /\ Statuses(q, st) \in Seq(Upward) /\ DOMAIN Statuses(q, st) = DOMAIN q
        /\ \A n \in DOMAIN q : Statuses(q, st)[n] = [type |-> "status", pid |-> q[n], status |-> st]
    BY StatusesAre
  <2>2. ASSUME NEW n \in DOMAIN q PROVE Statuses(q, st)[n].pid = q[n]
    BY <2>1
  <2> QED BY <2>1, <2>2
<1>2. ASSUME NEW n \in DOMAIN out'[a], NEW k \in DOMAIN q, out'[a][n] = Statuses(q, st)[k]
      PROVE  Answering(a, out'[a][n].pid) /\ Confirming(a)
  BY <1>1, <1>2
<1> QED BY <1>1, <1>2, PushEffect DEF OutGoes

\* _send_status() of a running agent.
LEMMA SendEffect ==
  ASSUME TypeOK, NEW a \in Agents, NEW i \in Slots, NEW S \in SUBSET Pids, NEW st \in Said,
         NEW again \in BOOLEAN, Send(a, i, S, st, again), Runs(a)
  PROVE  OutGoes(a) /\ ConfirmedGoes(a) /\ TasksGo(a)
<1> DEFINE T == {p \in S : AnswersFor(a, p)}
<1>1. T \in SUBSET Pids /\ \A p \in T : p \in subs[a]
  BY DEF AnswersFor
<1>a. IsFiniteSet(Pids) /\ gen[a] \in Nat /\ tasks \in [Agents -> [Slots -> Tasks \cup {None}]]
      /\ confirmed \in [Agents -> Nat]
  BY AgentReadinessAssumption DEF TypeOK
<1>2. CASE T = {} \/ confirmed[a] = gen[a]
  <2>1. /\ \E q \in Orders(T) : Push(a, Statuses(q, st))
        /\ confirmed' = confirmed \/ (confirmed[a] = gen[a] /\ confirmed' = [confirmed EXCEPT ![a] = gen[a]])
        /\ tasks' = [tasks EXCEPT ![a][i] = None]
    BY <1>2 DEF Send
  <2>2. T = {} \/ confirmed[a] = gen[a]
    BY <1>2
  <2> HIDE DEF T
  <2>3. PICK q \in Orders(T) : Push(a, Statuses(q, st))
    BY <2>1
  <2>4. q \in Seq(Pids) /\ \A n \in DOMAIN q : q[n] \in T
    BY <1>1, <1>a, OrdersList
  <2>5. \A k \in DOMAIN q : Answering(a, q[k]) /\ Confirming(a)
    BY <1>1, <2>2, <2>4 DEF Answering, Confirming
  <2>6. OutGoes(a)
    BY <2>3, <2>4, <2>5, PushStatuses
  <2>7. ConfirmedGoes(a)
    BY <1>a, <2>1 DEF ConfirmedGoes
  <2>8. TasksGo(a)
    BY <1>a, <2>1 DEF TasksGo, Probing
  <2> QED BY <2>6, <2>7, <2>8
<1>3. CASE ~(T = {} \/ confirmed[a] = gen[a])
  <2>1. PICK p \in T :
          /\ Push(a, <<[type |-> "probe", task |-> i, g |-> gen[a]]>>)
          /\ tasks' = [tasks EXCEPT ![a][i] = [pid |-> p, rest |-> T \ {p},
                         status |-> st, g |-> gen[a], again |-> again]]
          /\ UNCHANGED confirmed
    BY <1>3 DEF Send
  <2> DEFINE m == [type |-> "probe", task |-> i, g |-> gen[a]]
             r == [pid |-> p, rest |-> T \ {p}, status |-> st, g |-> gen[a], again |-> again]
  <2>2. m \in Upward /\ m.type # "status" /\ r.pid = p
    BY <1>a DEF Upward
  <2>3. Push(a, <<m>>) /\ tasks' = [tasks EXCEPT ![a][i] = r]
    BY <2>1
  <2> HIDE DEF m, r, T
  <2>4. OutGoes(a)
    BY <2>2, <2>3, PushPlain
  <2>5. TasksGo(a)
    BY <1>1, <1>a, <2>2, <2>3 DEF TasksGo, Probing
  <2> QED BY <2>1, <2>4, <2>5 DEF ConfirmedGoes
<1> QED BY <1>2, <1>3

\* The end of a coroutine whose generation is confirmed.
LEMMA FinishEffect ==
  ASSUME TypeOK, NEW a \in Agents, NEW i \in Slots, Probing(a, i), Finish(a, i), Confirming(a)
  PROVE  OutGoes(a) /\ ConfirmedGoes(a) /\ TasksGo(a)
<1> DEFINE t == tasks[a][i]
           S == {p \in t.rest : AnswersFor(a, p)}
<1>a. IsFiniteSet(Pids) /\ tasks \in [Agents -> [Slots -> Tasks \cup {None}]]
      /\ confirmed \in [Agents -> Nat]
  BY AgentReadinessAssumption DEF TypeOK
<1>1. t \in Tasks
  BY DEF TypeOK, Probing
<1>2. t.pid \in Pids /\ S \in SUBSET Pids /\ t.status \in Said /\ \A p \in S : p \in subs[a]
  BY <1>1 DEF Tasks, AnswersFor
<1>3. /\ \E q \in Orders(S) : Push(a, Statuses(<<t.pid>> \o q, t.status))
      /\ confirmed' = [confirmed EXCEPT ![a] = gen[a]]
      /\ tasks' = [tasks EXCEPT ![a][i] = None]
  BY DEF Finish
<1>b. Answering(a, t.pid)
  BY DEF Answering
<1> HIDE DEF S, t
<1>4. PICK q \in Orders(S) : Push(a, Statuses(<<t.pid>> \o q, t.status))
  BY <1>3
<1>5. q \in Seq(Pids) /\ <<t.pid>> \in Seq(Pids) /\ \A n \in DOMAIN q : q[n] \in S
  BY <1>2, <1>a, OrdersList
<1>6. /\ <<t.pid>> \o q \in Seq(Pids)
      /\ \A n \in DOMAIN (<<t.pid>> \o q) :
           \/ n \in DOMAIN <<t.pid>> /\ (<<t.pid>> \o q)[n] = <<t.pid>>[n]
           \/ n - Len(<<t.pid>>) \in DOMAIN q /\ (<<t.pid>> \o q)[n] = q[n - Len(<<t.pid>>)]
  BY <1>5, ConcatElements
<1>7. \A n \in DOMAIN <<t.pid>> : <<t.pid>>[n] = t.pid
  OBVIOUS
<1>8. \A n \in DOMAIN (<<t.pid>> \o q) : Answering(a, (<<t.pid>> \o q)[n]) /\ Confirming(a)
  BY <1>2, <1>5, <1>6, <1>7, <1>b DEF Answering
<1>9. OutGoes(a)
  BY <1>2, <1>4, <1>6, <1>8, PushStatuses
<1>10. ConfirmedGoes(a) /\ TasksGo(a)
  BY <1>3, <1>a DEF ConfirmedGoes, TasksGo, Probing
<1> QED BY <1>9, <1>10

\* Every step of a running agent goes like that.
LEMMA AgentEffect ==
  ASSUME ~MayTimeout, TypeOK, NEW a \in Agents, Runs(a), Runs(a)',
         HubStep(a) \/ Link(a) \/ ApplyCommand(a) \/ AgentStep(a),
         a \in AutoSub \/ MaxChoices <= 1
  PROVE  Goes(a)
<1> USE DEF roomVars, wireVars, procVars, selfVars, taskVars, hubVars
<1>a. /\ gen[a] \in Nat /\ tasks \in [Agents -> [Slots -> Tasks \cup {None}]]
      /\ confirmed \in [Agents -> Nat] /\ out \in [Agents -> Seq(Upward)]
      /\ inq \in [Agents -> Seq(Downward)]
  BY DEF TypeOK
<1>b. out'[a] = out[a] => OutGoes(a)
  BY DEF OutGoes
<1>c. confirmed' = confirmed => ConfirmedGoes(a)
  BY DEF ConfirmedGoes
<1>d. tasks' = tasks => TasksGo(a)
  BY DEF TasksGo, Probing
<1>e. UNCHANGED <<wireVars, subs, gen>> => SubsGo(a)
  BY DEF SubsGo
<1>f. ASSUME NEW i \in Slots, NEW S \in SUBSET Pids, NEW st \in Said, NEW again \in BOOLEAN,
             Send(a, i, S, st, again), UNCHANGED <<wireVars, subs, gen>>
      PROVE  Goes(a)
  BY <1>e, <1>f, SendEffect DEF Goes
<1>1. CASE HubStep(a)
  <2>1. /\ out[a] # <<>> /\ out' = [out EXCEPT ![a] = Tail(@)]
        /\ UNCHANGED <<wireVars, selfVars, taskVars>>
    BY <1>1 DEF HubStep, HubAttach, HubDetach, HubStatus, HubProbe, HubRoster, Take
  <2>2. \A n \in DOMAIN Tail(out[a]) : n + 1 \in DOMAIN out[a] /\ Tail(out[a])[n] = out[a][n + 1]
    BY <1>a, <2>1, TailElements
  <2>3. out'[a] = Tail(out[a])
    BY <1>a, <2>1
  <2>4. OutGoes(a)
    BY <2>2, <2>3 DEF OutGoes
  <2> QED BY <1>c, <1>d, <1>e, <2>1, <2>4 DEF Goes
<1>2. CASE Link(a)
  <2>1. UNCHANGED <<live, cmds, out, selfVars, taskVars>>
    BY <1>2 DEF Link
  <2> QED BY <1>b, <1>c, <1>d, <2>1 DEF Goes, SubsGo
<1>3. CASE ApplyCommand(a)
  <2>1. UNCHANGED <<out, taskVars>>
    BY <1>3 DEF ApplyCommand
  <2> QED BY <1>3, <1>b, <1>c, <1>d, <2>1 DEF Goes, SubsGo
<1>4. ~Start(a) /\ ~Stop(a) /\ ~Exit(a)
  BY DEF Runs, Start, Stop, Exit, TypeOK
<1>5. ~Crash(a)
  BY DEF Crash, Gone, Runs, TypeOK
<1>6. \A i \in Slots : ~Timeout(a, i)
  BY DEF Timeout
<1>7. CASE CatchUp(a)
  <2>1. [type |-> "roster"] \in Upward
    BY DEF Upward
  <2>2. Push(a, <<[type |-> "roster"]>>) /\ UNCHANGED <<wireVars, selfVars, taskVars>>
    BY <1>7 DEF CatchUp
  <2>3. OutGoes(a)
    BY <2>1, <2>2, PushPlain
  <2> QED BY <1>c, <1>d, <1>e, <2>2, <2>3 DEF Goes
<1>8. ASSUME NEW p \in Pids, Republish(a, p) PROVE Goes(a)
  <2>1. PICK i \in Slots : Send(a, i, {p}, Effective(a, p), TRUE)
    BY <1>8 DEF Republish
  <2>2. Effective(a, p) \in Said
    BY <1>8, EffectiveType DEF Republish
  <2>3. UNCHANGED <<wireVars, subs, gen>>
    BY <1>8 DEF Republish
  <2> QED BY <1>f, <2>1, <2>2, <2>3
<1>9. ASSUME NEW i \in Slots, Begin(a, i) PROVE Goes(a)
  <2> DEFINE t == tasks[a][i]
  <2>1. t \in Tasks
    BY <1>9 DEF Begin, TypeOK
  <2>2. {t.pid} \in SUBSET Pids /\ t.status \in Said
    BY <2>1 DEF Tasks
  <2>3. Send(a, i, {t.pid}, t.status, FALSE) /\ UNCHANGED <<wireVars, subs, gen>>
    BY <1>9 DEF Begin
  <2> HIDE DEF t
  <2> QED BY <1>f, <2>2, <2>3
<1>10. ASSUME NEW i \in Slots, Retry(a, i) PROVE Goes(a)
  <2> DEFINE e == [type |-> "probe", task |-> i, g |-> tasks[a][i].g]
  <2>1. tasks[a][i] \in Tasks
    BY <1>10 DEF Retry, Probing, TypeOK
  <2>2. e \in Upward /\ e.type # "status"
    BY <2>1 DEF Tasks, Upward
  <2>3. Push(a, <<e>>) /\ UNCHANGED <<wireVars, selfVars, taskVars>>
    BY <1>10 DEF Retry
  <2> HIDE DEF e
  <2>4. OutGoes(a)
    BY <2>2, <2>3, PushPlain
  <2> QED BY <1>c, <1>d, <1>e, <2>3, <2>4 DEF Goes
<1>11. ASSUME NEW st \in Said, SetStatus(a, st) PROVE Goes(a)
  <2> DEFINE S == {p \in Pids : parts[a][p] # 0}
  <2>1. PICK i \in Slots : Send(a, i, S, st, FALSE)
    BY <1>11 DEF SetStatus
  <2>2. UNCHANGED <<wireVars, subs, gen>>
    BY <1>11 DEF SetStatus
  <2> QED BY <1>f, <2>1, <2>2
<1>12. ASSUME NEW st \in Said, NEW p \in Pids, SetStatusOf(a, p, st) PROVE Goes(a)
  <2>1. PICK i \in Slots : Send(a, i, {p}, st, FALSE)
    BY <1>12 DEF SetStatusOf
  <2>2. UNCHANGED <<wireVars, subs, gen>>
    BY <1>12 DEF SetStatusOf
  <2> QED BY <1>f, <2>1, <2>2
<1>13. ASSUME NEW p \in Pids, NEW on \in BOOLEAN, Choose(a, p, on) PROVE Goes(a)
  <2>1. /\ SetSubscription(a, p, on) /\ a \notin AutoSub /\ on # (p \in subs[a])
        /\ gen[a] < MaxChoices /\ UNCHANGED <<live, taskVars>>
        /\ Push(a, <<[type |-> "attach", scope |-> subs'[a]]>>)
    BY <1>13 DEF Choose, AnswersFor
  <2>2. gen[a] = 0
    BY <1>a, <2>1, AgentReadinessAssumption
  <2>3. SubsGo(a)
    BY <2>1, <2>2 DEF SubsGo
  <2>4. subs'[a] \in SUBSET Pids
    BY <2>1, SubscriptionType
  <2> DEFINE e == [type |-> "attach", scope |-> subs'[a]]
  <2>5. e \in Upward /\ e.type # "status"
    BY <2>4 DEF Upward
  <2>6. Push(a, <<e>>)
    BY <2>1
  <2> HIDE DEF e
  <2> QED BY <1>c, <1>d, <2>1, <2>3, <2>5, <2>6, PushPlain DEF Goes
<1>14. ASSUME NEW type, Dispatch(a, type)
       PROVE  /\ 1 \in DOMAIN inq[a] /\ Head(inq[a]) = inq[a][1] /\ Head(inq[a]) \in Downward
              /\ Head(inq[a]).type = type /\ UNCHANGED <<linked, live>>
  <2>1. inq[a] # <<>> /\ Head(inq[a]).type = type /\ UNCHANGED <<linked, live>>
    BY <1>14 DEF Dispatch
  <2> QED BY <1>a, <2>1, TailElements
<1>15. CASE DispatchEcho(a)
  <2> DEFINE m == Head(inq[a])
             i == m.task
  <2>1. 1 \in DOMAIN inq[a] /\ m = inq[a][1] /\ m.type = "echo" /\ m \in Downward
        /\ UNCHANGED <<linked, live>> /\ UNCHANGED <<cmds, selfVars>>
    BY <1>14, <1>15 DEF DispatchEcho
  <2>2. i \in Slots /\ m.g \in Nat
    BY <2>1 DEF Downward
  <2>3. \/ UNCHANGED <<out, taskVars>>
        \/ Probing(a, i) /\ Finish(a, i) /\ (m.g = gen[a] \/ confirmed[a] = gen[a])
        \/ /\ Probing(a, i) /\ Push(a, <<[type |-> "probe", task |-> i, g |-> gen[a]]>>)
           /\ confirmed' = [confirmed EXCEPT ![a] = IF @ < m.g THEN m.g ELSE @]
           /\ tasks' = [tasks EXCEPT ![a][i].g = gen[a]]
    BY <1>15 DEF DispatchEcho
  <2>e. SubsGo(a)
    BY <1>e, <2>1
  <2> HIDE DEF m
  <2>4. CASE UNCHANGED <<out, taskVars>>
    BY <1>b, <1>c, <1>d, <2>4, <2>e DEF Goes
  <2>5. CASE Probing(a, i) /\ Finish(a, i) /\ (m.g = gen[a] \/ confirmed[a] = gen[a])
    <3>1. Confirming(a)
      BY <2>1, <2>5 DEF Confirming
    <3> QED BY <2>2, <2>5, <2>e, <3>1, FinishEffect DEF Goes
  <2>6. CASE /\ Probing(a, i) /\ Push(a, <<[type |-> "probe", task |-> i, g |-> gen[a]]>>)
             /\ confirmed' = [confirmed EXCEPT ![a] = IF @ < m.g THEN m.g ELSE @]
             /\ tasks' = [tasks EXCEPT ![a][i].g = gen[a]]
    <3> DEFINE e == [type |-> "probe", task |-> i, g |-> gen[a]]
    <3>1. e \in Upward /\ e.type # "status" /\ Push(a, <<e>>)
      BY <1>a, <2>2, <2>6 DEF Upward
    <3> HIDE DEF e
    <3>2. OutGoes(a)
      BY <3>1, PushPlain
    <3>3. ConfirmedGoes(a)
      BY <1>a, <2>1, <2>6 DEF ConfirmedGoes
    <3>4. TasksGo(a)
      <4>1. tasks' = [tasks EXCEPT ![a] = [tasks[a] EXCEPT ![i] = [tasks[a][i] EXCEPT !.g = gen[a]]]]
        BY <2>6
      <4>2. tasks[a][i] \in Tasks
        BY <1>a, <2>2, <2>6 DEF Probing
      <4>3. [tasks[a][i] EXCEPT !.g = gen[a]].pid = tasks[a][i].pid
        BY <4>2 DEF Tasks
      <4>4. ASSUME NEW j \in Slots
            PROVE  tasks'[a][j] = IF j = i THEN [tasks[a][i] EXCEPT !.g = gen[a]] ELSE tasks[a][j]
        BY <1>a, <4>1
      <4> QED BY <2>6, <4>3, <4>4 DEF TasksGo, Probing
    <3> QED BY <2>e, <3>2, <3>3, <3>4 DEF Goes
  <2> QED BY <2>3, <2>4, <2>5, <2>6
<1>16. CASE DispatchJoined(a)
  <2> DEFINE m == Head(inq[a])
  <2>1. m.type = "joined" /\ m \in Downward /\ UNCHANGED <<linked, live, out, confirmed>>
    BY <1>14, <1>16 DEF DispatchJoined
  <2>2. m.pid \in Pids
    BY <2>1 DEF Downward
  <2>3. /\ SetSubscription(a, m.pid, TRUE) \/ UNCHANGED <<cmds, subs, gen>>
        /\ UNCHANGED tasks \/ \E i \in Slots : \E st :
             tasks' = [tasks EXCEPT ![a][i] = [pid |-> m.pid, rest |-> {},
                                      status |-> st, g |-> 0, again |-> FALSE]]
    BY <1>16 DEF DispatchJoined
  <2> HIDE DEF m
  <2>4. SubsGo(a)
    BY <2>1, <2>2, <2>3 DEF SubsGo
  <2>5. TasksGo(a)
    <3>1. ASSUME NEW i \in Slots, NEW r, r.g = 0, tasks' = [tasks EXCEPT ![a][i] = r] PROVE TasksGo(a)
      BY <1>a, <3>1 DEF TasksGo, Probing
    <3>2. CASE \E i \in Slots : \E st : tasks' = [tasks EXCEPT ![a][i] = [pid |-> m.pid, rest |-> {},
                                      status |-> st, g |-> 0, again |-> FALSE]]
      <4> PICK i \in Slots : \E st : tasks' = [tasks EXCEPT ![a][i] = [pid |-> m.pid, rest |-> {},
                                      status |-> st, g |-> 0, again |-> FALSE]]
        BY <3>2
      <4> PICK st : tasks' = [tasks EXCEPT ![a][i] = [pid |-> m.pid, rest |-> {},
                                      status |-> st, g |-> 0, again |-> FALSE]]
        OBVIOUS
      <4> DEFINE r == [pid |-> m.pid, rest |-> {}, status |-> st, g |-> 0, again |-> FALSE]
      <4>1. r.g = 0 /\ tasks' = [tasks EXCEPT ![a][i] = r]
        OBVIOUS
      <4> HIDE DEF r
      <4> QED BY <3>1, <4>1
    <3> QED BY <1>d, <2>3, <3>2
  <2> QED BY <1>b, <1>c, <2>1, <2>4, <2>5 DEF Goes
<1>17. CASE DispatchLeft(a)
  <2> DEFINE m == Head(inq[a])
  <2>1. m.type = "left" /\ m \in Downward /\ UNCHANGED <<linked, live, out, taskVars>>
        /\ 1 \in DOMAIN inq[a] /\ m = inq[a][1]
    BY <1>14, <1>17 DEF DispatchLeft
  <2>2. m.pid \in Pids
    BY <2>1 DEF Downward
  <2>3. SetSubscription(a, m.pid, FALSE) \/ UNCHANGED <<cmds, subs, gen>>
    BY <1>17 DEF DispatchLeft
  <2> HIDE DEF m
  <2>4. SubsGo(a)
    BY <2>1, <2>2, <2>3 DEF SubsGo
  <2> QED BY <1>b, <1>c, <1>d, <2>1, <2>4 DEF Goes
<1> HIDE DEF roomVars, wireVars, procVars, selfVars, taskVars, hubVars
<1> QED BY <1>1, <1>2, <1>3, <1>4, <1>5, <1>6, <1>7, <1>8, <1>9, <1>10, <1>11, <1>12, <1>13,
           <1>15, <1>16, <1>17
        DEF AgentStep, CoroutineStep, ApplicationStep, DispatchStep

\* A participant for whom a confirmed agent may speak is routed to it.
LEMMA ConfirmedIsLive ==
  ASSUME TypeOK, NEW a \in Agents, NEW p \in Pids, Routed(a), ~Over(p),
         Answering(a, p), Confirming(a)
  PROVE  p \in live[a]
<1>a. cmds[a] \in Seq(Commands) /\ gen[a] \in Nat
  BY DEF TypeOK
<1>b. Len(cmds[a]) \in Nat /\ DOMAIN cmds[a] = 1 .. Len(cmds[a])
  BY <1>a, LenProperties
<1>1. Applied(a, gen[a])
  BY DEF Routed, Echoes, Confirming
<1>2. Len(cmds[a]) = 0
  BY <1>1, <1>a, <1>b DEF Applied
<1>3. \A k \in DOMAIN cmds[a] : FALSE
  BY <1>2, <1>b
<1>4. p \in subs[a]
  BY DEF Answering, Routed, Wanted
<1> QED BY <1>3, <1>4 DEF Routed, Wanted

\* What was applied stays applied.
LEMMA AppliedStays ==
  ASSUME TypeOK, NEW a \in Agents, NEW g \in Nat, SubsGo(a), Applied(a, g)
  PROVE  Applied(a, g)'
<1>a. cmds \in [Agents -> Seq(Commands)] /\ gen \in [Agents -> Nat]
  BY DEF TypeOK
<1>b. Len(cmds[a]) \in Nat
  BY <1>a, LenProperties
<1>1. CASE ApplyCommand(a)
  <2>1. cmds[a] # <<>> /\ cmds'[a] = Tail(cmds[a]) /\ gen'[a] = gen[a]
    BY <1>1, <1>a DEF ApplyCommand, selfVars
  <2>2. Len(Tail(cmds[a])) = Len(cmds[a]) - 1
    BY <1>a, <2>1, TailElements
  <2>3. Len(cmds'[a]) = Len(cmds[a]) - 1
    BY <2>1, <2>2
  <2> QED BY <1>a, <1>b, <2>1, <2>3 DEF Applied
<1>2. ASSUME NEW p \in Pids, NEW on \in BOOLEAN, SetSubscription(a, p, on) PROVE Applied(a, g)'
  <2>1. CASE UNCHANGED <<cmds, gen>>
    BY <2>1 DEF Applied
  <2>2. CASE ~UNCHANGED <<cmds, gen>>
    <3> DEFINE m == [on |-> on, pid |-> p]
    <3>1. cmds'[a] = Append(cmds[a], m) /\ gen'[a] = gen[a] + 1
      BY <1>2, <1>a, <2>2 DEF SetSubscription
    <3>2. m \in Commands
      BY DEF Commands
    <3> HIDE DEF m
    <3>3. Len(Append(cmds[a], m)) = Len(cmds[a]) + 1
      BY <1>a, <3>2, AppendProperties
    <3>4. Len(cmds'[a]) = Len(cmds[a]) + 1
      BY <3>1, <3>3
    <3> QED BY <1>a, <1>b, <3>1, <3>4 DEF Applied
  <2> QED BY <2>1, <2>2
<1>3. CASE cmds'[a] = cmds[a] /\ gen'[a] = gen[a]
  BY <1>3 DEF Applied
<1> QED BY <1>1, <1>2, <1>3 DEF SubsGo

\* What a step does to the commands and the routes of an agent, as far as a participant is
\* concerned that has not gone.
LEMMA CommandsStay ==
  ASSUME TypeOK, NEW a \in Agents, NEW p \in Pids, SubsGo(a), Wanted(a), Lefts(a), Chosen(a),
         ~Over(p)
  PROVE  /\ p \in live[a] => p \in live'[a]
         /\ p \in subs[a] => p \in subs'[a]
         /\ p \in subs'[a] => p \in live'[a] \/ \E k \in DOMAIN cmds'[a] : cmds'[a][k].pid = p
         /\ \A k \in DOMAIN cmds'[a] : cmds'[a][k].pid = p => cmds'[a][k].on
<1> DEFINE Goal == /\ p \in live[a] => p \in live'[a]
                   /\ p \in subs[a] => p \in subs'[a]
                   /\ p \in subs'[a] => p \in live'[a] \/ \E k \in DOMAIN cmds'[a] : cmds'[a][k].pid = p
                   /\ \A k \in DOMAIN cmds'[a] : cmds'[a][k].pid = p => cmds'[a][k].on
<1> SUFFICES Goal
  OBVIOUS
<1>a. cmds \in [Agents -> Seq(Commands)] /\ subs \in [Agents -> SUBSET Pids] /\ live \in [Agents -> SUBSET Pids]
  BY DEF TypeOK
<1>b. /\ p \in subs[a] => p \in live[a] \/ \E k \in DOMAIN cmds[a] : cmds[a][k].pid = p
      /\ \A k \in DOMAIN cmds[a] : cmds[a][k].pid = p => cmds[a][k].on
  BY DEF Wanted
<1>c. cmds[a] \in Seq(Commands) /\ Len(cmds[a]) \in Nat /\ DOMAIN cmds[a] = 1 .. Len(cmds[a])
  BY <1>a, LenProperties
<1>1. CASE ApplyCommand(a)
  <2> DEFINE h == Head(cmds[a])
  <2>1. /\ cmds[a] # <<>> /\ cmds'[a] = Tail(cmds[a]) /\ subs'[a] = subs[a]
        /\ live'[a] = IF h.on THEN live[a] \cup {h.pid} ELSE live[a] \ {h.pid}
    BY <1>1, <1>a DEF ApplyCommand, selfVars
  <2>2. /\ 1 \in DOMAIN cmds[a] /\ h = cmds[a][1] /\ Len(Tail(cmds[a])) = Len(cmds[a]) - 1
        /\ Tail(cmds[a]) \in Seq(Commands)
        /\ \A k \in DOMAIN Tail(cmds[a]) : k + 1 \in DOMAIN cmds[a] /\ Tail(cmds[a])[k] = cmds[a][k + 1]
    BY <1>a, <2>1, TailElements
  <2>3. DOMAIN Tail(cmds[a]) = 1 .. Len(cmds[a]) - 1
    BY <2>2, LenProperties
  <2>4. DOMAIN cmds'[a] = 1 .. Len(cmds[a]) - 1 /\ \A k \in DOMAIN cmds'[a] : cmds'[a][k] = cmds[a][k + 1] /\ k + 1 \in DOMAIN cmds[a]
    BY <2>1, <2>2, <2>3
  <2> HIDE DEF h
  <2>5. h.pid = p => h.on
    BY <1>b, <2>2
  <2>6. h.pid = p => p \in live'[a]
    BY <2>1, <2>5
  <2>7. p \in live[a] => p \in live'[a]
    BY <2>1, <2>5
  <2>8. ASSUME NEW k \in DOMAIN cmds[a], cmds[a][k].pid = p
        PROVE  p \in live'[a] \/ \E j \in DOMAIN cmds'[a] : cmds'[a][j].pid = p
    <3>1. CASE k = 1
      BY <2>2, <2>6, <2>8, <3>1
    <3>2. CASE k # 1
      <4>1. k - 1 \in DOMAIN cmds'[a] /\ (k - 1) + 1 = k
        BY <1>c, <2>4, <3>2
      <4>2. cmds'[a][k - 1] = cmds[a][k]
        BY <2>4, <4>1
      <4> QED BY <2>8, <4>1, <4>2
    <3> QED BY <3>1, <3>2
  <2>9. \A k \in DOMAIN cmds'[a] : cmds'[a][k].pid = p => cmds'[a][k].on
    BY <1>b, <2>4
  <2> QED BY <1>b, <2>1, <2>7, <2>8, <2>9
<1>2. ASSUME NEW q \in Pids, NEW on \in BOOLEAN, SetSubscription(a, q, on), live'[a] = live[a],
             \/ on
             \/ \E n \in DOMAIN inq[a] : inq[a][n].type = "left" /\ inq[a][n].pid = q
             \/ a \notin AutoSub /\ gen[a] = 0 /\ q \in subs[a]
      PROVE  Goal
  <2>1. on \/ Over(q)
    BY <1>2 DEF Lefts, Chosen
  <2>2. subs'[a] = IF on THEN subs[a] \cup {q} ELSE subs[a] \ {q}
    BY <1>2, <1>a DEF SetSubscription
  <2>3. q = p => on
    BY <2>1
  <2>4. CASE on = (q \in subs[a])
    <3>1. cmds'[a] = cmds[a]
      BY <1>2, <2>4 DEF SetSubscription
    <3>2. p \in subs'[a] <=> p \in subs[a]
      BY <2>2, <2>4
    <3> QED BY <1>2, <1>b, <3>1, <3>2
  <2>5. CASE on # (q \in subs[a])
    <3> DEFINE m == [on |-> on, pid |-> q]
    <3>1. cmds'[a] = Append(cmds[a], m)
      BY <1>2, <1>a, <2>5 DEF SetSubscription
    <3>2. m \in Commands /\ m.pid = q /\ m.on = on
      BY DEF Commands
    <3> HIDE DEF m
    <3>3. /\ Len(Append(cmds[a], m)) = Len(cmds[a]) + 1 /\ Append(cmds[a], m) \in Seq(Commands)
          /\ \A i \in 1 .. Len(cmds[a]) : Append(cmds[a], m)[i] = cmds[a][i]
          /\ Append(cmds[a], m)[Len(cmds[a]) + 1] = m
      BY <1>c, <3>2, AppendProperties
    <3>4. DOMAIN Append(cmds[a], m) = 1 .. Len(cmds[a]) + 1
      BY <3>3, LenProperties
    <3>5. /\ DOMAIN cmds'[a] = 1 .. Len(cmds[a]) + 1 /\ cmds'[a][Len(cmds[a]) + 1] = m
          /\ \A i \in DOMAIN cmds[a] : cmds'[a][i] = cmds[a][i]
      BY <1>c, <3>1, <3>3, <3>4
    <3>6. ASSUME NEW k \in DOMAIN cmds'[a], cmds'[a][k].pid = p PROVE cmds'[a][k].on
      <4>1. CASE k \in DOMAIN cmds[a]
        BY <1>b, <3>5, <3>6, <4>1
      <4>2. CASE k = Len(cmds[a]) + 1
        BY <2>3, <3>2, <3>5, <3>6, <4>2
      <4> QED BY <1>c, <3>5, <4>1, <4>2
    <3>7. Len(cmds[a]) + 1 \in DOMAIN cmds'[a]
      BY <1>c, <3>5
    <3>8. ASSUME NEW k \in DOMAIN cmds[a] PROVE k \in DOMAIN cmds'[a] /\ cmds'[a][k] = cmds[a][k]
      BY <1>c, <3>5
    <3>9. p \in subs'[a] => p \in subs[a] \/ p = q
      BY <2>2
    <3>10. p \in subs'[a] => p \in live'[a] \/ \E k \in DOMAIN cmds'[a] : cmds'[a][k].pid = p
      <4>1. p = q => \E k \in DOMAIN cmds'[a] : cmds'[a][k].pid = p
        BY <3>2, <3>5, <3>7
      <4>2. (\E k \in DOMAIN cmds[a] : cmds[a][k].pid = p) => \E k \in DOMAIN cmds'[a] : cmds'[a][k].pid = p
        BY <3>8
      <4> QED BY <1>2, <1>b, <3>9, <4>1, <4>2
    <3>11. p \in subs[a] => p \in subs'[a]
      BY <2>2, <2>3
    <3> QED BY <1>2, <3>6, <3>10, <3>11
  <2> QED BY <2>4, <2>5
<1>3. CASE cmds'[a] = cmds[a] /\ gen'[a] = gen[a] /\ subs'[a] = subs[a] /\ live'[a] = live[a]
  BY <1>b, <1>3
<1> HIDE DEF Goal
<1> QED BY <1>1, <1>2, <1>3 DEF SubsGo

\* A bystander goes nowhere.
LEMMA BystanderGoes ==
  ASSUME NEW a \in Agents, Bystander(a)
  PROVE  Goes(a)
BY DEF Bystander, Goes, OutGoes, ConfirmedGoes, TasksGo, SubsGo, Probing

\* A running agent stays routed.
LEMMA RoutedStep ==
  ASSUME Undisturbed, RInv, [Next]_vars, NEW a \in Agents, Runs(a), Runs(a)'
  PROVE  Routed(a)'
<1>a. TypeOK /\ TypeOK' /\ Routed(a) /\ Chosen(a) /\ \A p \in Pids : session[p] # 0 => visits[p] # 0
  BY TypeStep DEF RInv
<1>b. ~MayTimeout /\ MaxSess <= 1 /\ (a \in AutoSub \/ MaxChoices <= 1)
  BY DEF Undisturbed
<1>c. Wanted(a) /\ Heard(a) /\ Echoes(a) /\ Lefts(a)
  BY <1>a DEF Routed
<1>1. Goes(a)
  BY <1>a, <1>b, OneMoves, AgentEffect, BystanderGoes
<1>2. ASSUME NEW p \in Pids, ~Over(p)' PROVE ~Over(p)
  BY <1>a, <1>b, <1>2, OverStays
<1>3. OutGoes(a) /\ ConfirmedGoes(a) /\ TasksGo(a) /\ SubsGo(a)
  BY <1>1 DEF Goes
<1>4. Wanted(a)'
  <2>1. ASSUME NEW p \in Pids, ~Over(p)', NEW i \in Slots, Probing(a, i)', tasks'[a][i].pid = p
        PROVE  p \in subs'[a]
    <3>1. p \in subs[a]
      BY <1>2, <1>3, <1>c, <2>1 DEF TasksGo, Probing, Wanted
    <3> QED BY <1>2, <1>3, <1>a, <1>c, <2>1, <3>1, CommandsStay
  <2>2. ASSUME NEW p \in Pids, ~Over(p)'
        PROVE  /\ p \in subs'[a] => p \in live'[a] \/ \E k \in DOMAIN cmds'[a] : cmds'[a][k].pid = p
               /\ \A k \in DOMAIN cmds'[a] : cmds'[a][k].pid = p => cmds'[a][k].on
    <3>1. ~Over(p)
      BY <1>2, <2>2
    <3> QED BY <1>3, <1>a, <1>c, <3>1, CommandsStay
  <2> QED BY <2>1, <2>2 DEF Wanted
<1>5. ASSUME NEW p \in Pids, ~Over(p)', p \in live[a] PROVE p \in live'[a]
  <2>1. ~Over(p)
    BY <1>2, <1>5
  <2> QED BY <1>3, <1>5, <1>a, <1>c, <2>1, CommandsStay
<1>6. Heard(a)'
  <2>1. ASSUME NEW p \in Pids, ~Over(p)', record'[a][p] # None PROVE p \in live'[a]
    <3>1. ~Over(p)
      BY <1>2, <2>1
    <3>2. CASE record[a][p] # None
      BY <1>5, <1>c, <2>1, <3>1, <3>2 DEF Heard
    <3>3. CASE out[a] # <<>> /\ Head(out[a]).type = "status" /\ Head(out[a]).pid = p
      <4>1. 1 \in DOMAIN out[a] /\ Head(out[a]) = out[a][1]
        <5>1. out[a] \in Seq(Upward)
          BY <1>a DEF TypeOK
        <5> QED BY <3>3, <5>1, TailElements
      <4>2. p \in live[a]
        BY <1>c, <3>1, <3>3, <4>1 DEF Heard
      <4> QED BY <1>5, <2>1, <4>2
    <3> QED BY <1>a, <2>1, <3>2, <3>3, RecordEffect
  <2>2. ASSUME NEW p \in Pids, ~Over(p)', NEW n \in DOMAIN out'[a],
               out'[a][n].type = "status", out'[a][n].pid = p
        PROVE  p \in live'[a]
    <3>1. ~Over(p)
      BY <1>2, <2>2
    <3>2. CASE \E k \in DOMAIN out[a] : out'[a][n] = out[a][k]
      <4>1. p \in live[a]
        BY <1>c, <2>2, <3>1, <3>2 DEF Heard
      <4> QED BY <1>5, <2>2, <4>1
    <3>3. CASE Answering(a, p) /\ Confirming(a)
      <4>1. p \in live[a]
        BY <1>a, <3>1, <3>3, ConfirmedIsLive
      <4> QED BY <1>5, <2>2, <4>1
    <3> QED BY <1>3, <2>2, <3>2, <3>3 DEF OutGoes
  <2> QED BY <2>1, <2>2 DEF Heard
<1>7. Echoes(a)'
  <2>a. gen[a] \in Nat /\ confirmed[a] \in Nat /\ confirmed'[a] \in Nat /\ gen \in [Agents -> Nat]
        /\ inq[a] \in Seq(Downward) /\ inq'[a] \in Seq(Downward)
    BY <1>a DEF TypeOK
  <2>b. ASSUME NEW q \in Seq(Downward), NEW n \in DOMAIN q, q[n].type = "echo" PROVE q[n].g \in Nat
    <3>1. q[n] \in Downward
      BY ElementOfSeq, LenProperties
    <3> QED BY <2>b, <3>1 DEF Downward
  <2>1. Applied(a, confirmed'[a])
    BY <1>3, <1>c DEF Echoes, ConfirmedGoes, Confirming
  <2>2. Applied(a, confirmed[a])'
    <3>1. PICK g \in Nat : g = confirmed'[a] /\ Applied(a, g)
      BY <2>1, <2>a
    <3>2. Applied(a, g)'
      BY <1>3, <1>a, <3>1, AppliedStays
    <3> QED BY <3>1, <3>2 DEF Applied
  <2>3. ASSUME NEW n \in DOMAIN inq'[a], inq'[a][n].type = "echo" PROVE Applied(a, inq[a][n].g)'
    <3>1. PICK g \in Nat : g = inq'[a][n].g
      BY <2>3, <2>a, <2>b
    <3>2. CASE \E k \in DOMAIN inq[a] : inq'[a][n] = inq[a][k]
      <4>1. Applied(a, g)
        BY <1>c, <2>3, <3>1, <3>2 DEF Echoes
      <4>2. Applied(a, g)'
        BY <1>3, <1>a, <4>1, AppliedStays
      <4> QED BY <3>1, <4>2 DEF Applied
    <3>3. CASE HubProbe(a) /\ gen[a] - Len(cmds[a]) >= g
      <4>1. UNCHANGED <<gen, cmds>>
        BY <3>3 DEF HubProbe, Take, wireVars, selfVars
      <4>2. Len(cmds[a]) \in Nat
        BY <1>a, LenProperties DEF TypeOK
      <4>3. g + Len(cmds[a]) <= gen[a]
        BY <2>a, <3>1, <3>3, <4>2
      <4> QED BY <3>1, <4>1, <4>3 DEF Applied
    <3> QED BY <1>a, <1>b, <2>3, <3>1, <3>2, <3>3, InqEffect
  <2> QED BY <2>2, <2>3 DEF Echoes
<1>8. Lefts(a)'
  <2>1. ASSUME NEW n \in DOMAIN inq'[a], inq'[a][n].type = "left" PROVE Over(inq[a][n].pid)'
    <3>1. CASE \E k \in DOMAIN inq[a] : inq'[a][n] = inq[a][k]
      <4>1. inq'[a][n].pid \in Pids
        <5>1. inq'[a] \in Seq(Downward)
          BY <1>a DEF TypeOK
        <5>2. inq'[a][n] \in Downward
          BY <5>1, ElementOfSeq, LenProperties
        <5> QED BY <2>1, <5>2 DEF Downward
      <4>2. PICK p \in Pids : p = inq'[a][n].pid /\ Over(p)
        BY <1>c, <2>1, <3>1, <4>1 DEF Lefts
      <4>3. Over(p)'
        BY <1>a, <1>b, <4>2, OverStays
      <4> QED BY <4>2, <4>3 DEF Over
    <3> QED BY <1>a, <1>b, <2>1, <3>1, InqEffect
  <2> QED BY <2>1 DEF Lefts
<1> QED BY <1>4, <1>6, <1>7, <1>8 DEF Routed

\* What the steps of an agent need: it runs, or it starts for the first time.
LEMMA ModeEffect ==
  ASSUME MaxStarts <= 1, TypeOK, [Next]_vars, NEW a \in Agents, Fresh(a), Started(a)
  PROVE  \/ Start(a) /\ starts[a] = 0 /\ starts'[a] # 0
         \/ Bystander(a)
         \/ starts[a] # 0 /\ starts'[a] = starts[a] /\ (Runs(a)' => Runs(a))
<1> USE DEF roomVars, wireVars, procVars, selfVars, taskVars, hubVars
<1> DEFINE Goal == \/ Start(a) /\ starts[a] = 0 /\ starts'[a] # 0
                   \/ Bystander(a)
                   \/ starts[a] # 0 /\ starts'[a] = starts[a] /\ (Runs(a)' => Runs(a))
<1> SUFFICES Goal
  OBVIOUS
<1>a. mode \in [Agents -> {"down", "up", "stopping"}] /\ starts \in [Agents -> 0 .. MaxStarts]
      /\ out[a] \in Seq(Upward) /\ starts[a] \in Nat
  BY AgentReadinessAssumption DEF TypeOK
<1>b. ASSUME UNCHANGED <<mode, starts>>, starts[a] # 0 PROVE Goal
  BY <1>b DEF Runs
<1>1. CASE HubStep(a)
  <2>1. out[a] # <<>> /\ UNCHANGED <<mode, starts>>
    BY <1>1 DEF HubStep, HubAttach, HubDetach, HubStatus, HubProbe, HubRoster, Take
  <2> QED BY <1>b, <2>1 DEF Fresh
<1>2. CASE Link(a)
  BY <1>2, <1>b DEF Link, Started
<1>3. CASE ApplyCommand(a)
  BY <1>3, <1>b DEF ApplyCommand, Fresh
<1>4. CASE Start(a)
  <2>1. starts[a] < MaxStarts /\ starts' = [starts EXCEPT ![a] = @ + 1]
    BY <1>4 DEF Start
  <2>2. starts[a] = 0
    BY <1>a, <2>1, AgentReadinessAssumption
  <2> QED BY <1>4, <1>a, <2>1, <2>2
<1>5. CASE CatchUp(a)
  BY <1>5, <1>b DEF CatchUp, Runs, Started
<1>6. CASE Stop(a)
  BY <1>6, <1>a DEF Stop, Runs, Started
<1>7. CASE Exit(a) \/ Crash(a)
  BY <1>7, <1>a DEF Exit, Crash, Gone, Runs, Started
<1>8. CASE \E p \in Pids : Republish(a, p)
  BY <1>8, <1>b DEF Republish, Runs, Started
<1>9. CASE CoroutineStep(a) \/ \E i \in Slots : Timeout(a, i)
  BY <1>9, <1>b DEF CoroutineStep, Begin, Retry, Timeout, Probing, Fresh
<1>10. CASE DispatchStep(a)
  <2>1. Runs(a) /\ UNCHANGED <<mode, starts>>
    BY <1>10 DEF DispatchStep, DispatchEcho, DispatchJoined, DispatchLeft, Dispatch
  <2> QED BY <1>b, <2>1 DEF Runs, Started
<1>11. CASE ApplicationStep(a)
  <2>1. Runs(a) /\ UNCHANGED <<mode, starts>>
    BY <1>11 DEF ApplicationStep, SetStatus, SetStatusOf, Choose
  <2> QED BY <1>b, <2>1 DEF Runs, Started
<1> HIDE DEF Goal, roomVars, wireVars, procVars, selfVars, taskVars, hubVars
<1>12. CASE Bystander(a)
  BY <1>12 DEF Goal
<1> QED BY <1>1, <1>2, <1>3, <1>4, <1>5, <1>6, <1>7, <1>8, <1>9, <1>10, <1>11, <1>12, OneMoves
        DEF AgentStep

\* An agent that was not started stays unknown.
LEMMA FreshStep ==
  ASSUME Undisturbed, RInv, [Next]_vars, NEW a \in Agents
  PROVE  Fresh(a)'
<1> SUFFICES ASSUME starts'[a] = 0 PROVE Fresh(a)'
  BY DEF Fresh
<1>a. TypeOK /\ Fresh(a) /\ Started(a) /\ MaxStarts <= 1 /\ MaxSess <= 1
      /\ \A p \in Pids : session[p] # 0 => visits[p] # 0
  BY DEF RInv, Undisturbed
<1>1. Bystander(a)
  BY <1>a, ModeEffect
<1>2. starts[a] = 0
  BY <1>1 DEF Bystander
<1>3. /\ mode[a] = "down" /\ a \notin linked
      /\ out[a] = <<>> /\ inq[a] = <<>> /\ cmds[a] = <<>>
      /\ gen[a] = 0 /\ confirmed[a] = 0 /\ subs[a] = {}
      /\ \A i \in Slots : tasks[a][i] = None
      /\ \A p \in Pids : record[a][p] = None
  BY <1>2, <1>a DEF Fresh
<1>4. \A p \in Pids : record'[a][p] = None
  BY <1>3, <1>a, RecordEffect
<1>5. inq'[a] = <<>>
  <2>1. inq'[a] \in Seq(Downward)
    BY <1>a, TypeStep DEF TypeOK
  <2>2. ASSUME NEW n \in DOMAIN inq'[a] PROVE FALSE
    <3>1. ~ \E k \in DOMAIN inq[a] : TRUE
      BY <1>3
    <3> QED BY <1>3, <1>a, <3>1, InqEffect
  <2>3. Len(inq'[a]) \in Nat /\ DOMAIN inq'[a] = 1 .. Len(inq'[a])
    BY <2>1, LenProperties
  <2>4. Len(inq'[a]) = 0
    <3>1. ASSUME Len(inq'[a]) # 0 PROVE FALSE
      <4>1. 1 \in DOMAIN inq'[a]
        BY <2>3, <3>1
      <4> QED BY <2>2, <4>1
    <3> QED BY <3>1
  <2> QED BY <2>1, <2>4, EmptySeq
<1> QED BY <1>1, <1>3, <1>4, <1>5 DEF Bystander, Fresh

\* A subscription of an agent that chooses counts as a generation.
LEMMA ChosenStep ==
  ASSUME Undisturbed, RInv, [Next]_vars, NEW a \in Agents
  PROVE  Chosen(a)'
<1> USE DEF roomVars, wireVars, procVars, selfVars, taskVars, hubVars
<1>a. TypeOK /\ Chosen(a) /\ subs \in [Agents -> SUBSET Pids] /\ gen \in [Agents -> Nat]
  BY DEF RInv, TypeOK
<1>b. subs'[a] = subs[a] /\ gen'[a] = gen[a] => Chosen(a)'
  BY <1>a DEF Chosen
<1>c. ASSUME NEW p, NEW on \in BOOLEAN, SetSubscription(a, p, on) PROVE Chosen(a)'
  <2>1. CASE on = (p \in subs[a])
    <3>1. subs'[a] = subs[a] /\ gen'[a] = gen[a]
      BY <1>a, <1>c, <2>1 DEF SetSubscription
    <3> QED BY <1>b, <3>1
  <2>2. CASE on # (p \in subs[a])
    <3>1. gen'[a] = gen[a] + 1 /\ gen[a] \in Nat
      BY <1>a, <1>c, <2>2 DEF SetSubscription
    <3> QED BY <3>1 DEF Chosen
  <2> QED BY <2>1, <2>2
<1>1. CASE HubStep(a)
  BY <1>1, <1>b DEF HubStep, HubAttach, HubDetach, HubStatus, HubProbe, HubRoster, Take
<1>2. CASE Link(a) \/ ApplyCommand(a)
  BY <1>2, <1>b DEF Link, ApplyCommand
<1>3. CASE Start(a) \/ CatchUp(a) \/ Stop(a)
  BY <1>3, <1>b DEF Start, CatchUp, Stop
<1>4. CASE Exit(a) \/ Crash(a)
  <2>1. subs'[a] = {}
    BY <1>4, <1>a DEF Exit, Crash, Gone
  <2> QED BY <2>1 DEF Chosen
<1>5. CASE \E p \in Pids : Republish(a, p)
  BY <1>5, <1>b DEF Republish
<1>6. CASE CoroutineStep(a) \/ \E i \in Slots : Timeout(a, i)
  BY <1>6, <1>b DEF CoroutineStep, Begin, Retry, Timeout
<1>7. CASE DispatchStep(a)
  <2>1. \/ UNCHANGED <<subs, gen>>
        \/ \E p, on : on \in BOOLEAN /\ SetSubscription(a, p, on)
    <3>1. CASE DispatchEcho(a)
      BY <3>1 DEF DispatchEcho
    <3>2. CASE DispatchJoined(a)
      BY <3>2 DEF DispatchJoined
    <3>3. CASE DispatchLeft(a)
      BY <3>3 DEF DispatchLeft
    <3> QED BY <1>7, <3>1, <3>2, <3>3 DEF DispatchStep
  <2> QED BY <1>b, <1>c, <2>1
<1>8. CASE ApplicationStep(a)
  <2>1. \/ UNCHANGED <<subs, gen>>
        \/ \E p \in Pids, on \in BOOLEAN : SetSubscription(a, p, on)
    BY <1>8 DEF ApplicationStep, SetStatus, SetStatusOf, Choose
  <2> QED BY <1>b, <1>c, <2>1
<1>9. CASE Bystander(a)
  BY <1>9, <1>b DEF Bystander
<1> HIDE DEF roomVars, wireVars, procVars, selfVars, taskVars, hubVars
<1> QED BY <1>1, <1>2, <1>3, <1>4, <1>5, <1>6, <1>7, <1>8, <1>9, <1>a, OneMoves DEF AgentStep

\* An agent that starts is routed: it has said nothing.
LEMMA RoutedFromStart ==
  ASSUME RInv, NEW a \in Agents, Start(a), starts[a] = 0
  PROVE  Routed(a)'
<1> USE DEF roomVars, wireVars, procVars, selfVars, taskVars, hubVars
<1>a. TypeOK /\ Fresh(a)
  BY DEF RInv
<1>1. /\ out[a] = <<>> /\ inq[a] = <<>> /\ cmds[a] = <<>>
      /\ gen[a] = 0 /\ confirmed[a] = 0 /\ subs[a] = {}
      /\ \A i \in Slots : tasks[a][i] = None
      /\ \A p \in Pids : record[a][p] = None
  BY <1>a DEF Fresh
<1>2. UNCHANGED <<roomVars, hubVars, wireVars, inq, selfVars, taskVars>>
  BY DEF Start
<1>3. \A n \in DOMAIN out'[a] : out'[a][n].type # "status"
  <2> DEFINE m == [type |-> "attach", scope |-> IF a \in AutoSub THEN Pids ELSE {}]
  <2>1. m \in Upward /\ m.type # "status" /\ Push(a, <<m>>)
    BY DEF Start, Upward
  <2> HIDE DEF m
  <2>2. <<m>> \in Seq(Upward) /\ \A k \in DOMAIN <<m>> : <<m>>[k] = m
    BY <2>1
  <2>3. ~ \E k \in DOMAIN out[a] : TRUE
    BY <1>1
  <2>4. ASSUME NEW n \in DOMAIN out'[a] PROVE out'[a][n] = m
    <3>1. \/ \E k \in DOMAIN out[a] : out'[a][n] = out[a][k]
          \/ \E k \in DOMAIN <<m>> : out'[a][n] = <<m>>[k]
      BY <1>a, <2>1, <2>2, PushEffect
    <3> QED BY <2>2, <2>3, <3>1
  <2> QED BY <2>1, <2>4
<1>4. Wanted(a)'
  <2>1. \A k \in DOMAIN cmds'[a] : FALSE
    BY <1>1, <1>2
  <2>2. \A i \in Slots : ~Probing(a, i)'
    BY <1>1, <1>2 DEF Probing
  <2>3. subs'[a] = {}
    BY <1>1, <1>2
  <2> QED BY <2>1, <2>2, <2>3 DEF Wanted
<1>5. Heard(a)'
  BY <1>1, <1>2, <1>3 DEF Heard
<1>6. Echoes(a)' /\ Lefts(a)'
  <2>1. \A n \in DOMAIN inq'[a] : FALSE
    BY <1>1, <1>2
  <2>2. Len(cmds'[a]) = 0 /\ confirmed'[a] = 0 /\ gen'[a] = 0
    BY <1>1, <1>2
  <2>3. Applied(a, confirmed[a])'
    BY <2>2 DEF Applied
  <2> QED BY <2>1, <2>3 DEF Echoes, Lefts
<1> QED BY <1>4, <1>5, <1>6 DEF Routed

\* Every step of an undisturbed room keeps the invariant.
LEMMA RInvStep == Undisturbed /\ RInv /\ [Next]_vars => RInv'
<1> SUFFICES ASSUME Undisturbed, RInv, [Next]_vars PROVE RInv'
  OBVIOUS
<1>a. TypeOK /\ TypeOK' /\ MaxStarts <= 1
  BY TypeStep DEF RInv, Undisturbed
<1>1. \A p \in Pids : session'[p] # 0 => visits'[p] # 0
  BY <1>a, VisitedStep DEF RInv
<1>2. ASSUME NEW a \in Agents PROVE Fresh(a)' /\ Started(a)' /\ Chosen(a)' /\ (Runs(a)' => Routed(a)')
  <2>1. Fresh(a) /\ Started(a)
    BY DEF RInv
  <2>2. \/ Start(a) /\ starts[a] = 0 /\ starts'[a] # 0
        \/ Bystander(a)
        \/ starts[a] # 0 /\ starts'[a] = starts[a] /\ (Runs(a)' => Runs(a))
    BY <1>a, <2>1, ModeEffect
  <2>3. Started(a)'
    BY <2>1, <2>2 DEF Started, Bystander
  <2>4. Runs(a)' => Runs(a) \/ (Start(a) /\ starts[a] = 0)
    BY <2>2 DEF Bystander, Runs
  <2> QED BY <2>3, <2>4, FreshStep, ChosenStep, RoutedStep, RoutedFromStart
<1> QED BY <1>1, <1>2, <1>a DEF RInv

\* At the start no agent is known.
LEMMA RInvInit == Init => RInv
<1> SUFFICES ASSUME Init PROVE RInv
  OBVIOUS
<1>1. TypeOK
  BY AgentReadinessAssumption DEF Init, TypeOK
<1>2. ASSUME NEW a \in Agents PROVE Fresh(a) /\ Started(a) /\ Chosen(a) /\ ~Runs(a)
  BY <1>2 DEF Init, Fresh, Started, Chosen, Runs
<1> QED BY <1>1, <1>2 DEF RInv, Init

\* "ready" means routable: in a room without restarts, and as long as probes are answered, a
\* client that was told "ready" reaches every agent that answers for it: _send_status() sends
\* no status before wait_for_subscriptions() has seen the SUBSCRIBE applied.
THEOREM ReadyMeansRoutable == Undisturbed /\ Spec => []ReadyIsRoutable
<1> SUFFICES ASSUME Undisturbed PROVE Spec => []ReadyIsRoutable
  OBVIOUS
<1>1. RInv /\ [Next]_vars => RInv'
  BY RInvStep
<1>2. RInv /\ PublishedIsAggregate => ReadyIsRoutable
  <2> SUFFICES ASSUME RInv, PublishedIsAggregate, NEW p \in Pids, NEW a \in Agents,
                      published[p] = "ready", a \in Responsible(scope, p), Runs(a)
               PROVE  p \in live[a]
    BY DEF ReadyIsRoutable
  <2>1. "ready" # None
    <3>1. Precedence[4] = "ready" /\ 4 \in DOMAIN Precedence
      BY DEF Precedence
    <3> QED BY <3>1, AgentReadinessAssumption
  <2>2. session[p] # 0 /\ Aggregate(scope, record, p) = "ready"
    BY <2>1 DEF PublishedIsAggregate
  <2>3. record[a][p] # None
    BY <2>2 DEF Aggregate
  <2>4. ~Over(p) /\ Routed(a)
    BY <2>2 DEF RInv, Over
  <2> QED BY <2>3, <2>4 DEF Routed, Heard
<1> QED BY <1>1, <1>2, RInvInit, PublishedIsCurrent, PTL DEF Spec

=============================================================================
