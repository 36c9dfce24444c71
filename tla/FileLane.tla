------------------------------- MODULE FileLane -------------------------------
(***************************************************************************)
(* Completed files on their way through the hub.                           *)
(*                                                                         *)
(* Files travel on sockets of their own, so nothing orders a file with     *)
(* respect to the joins and departures of the participant that sent it.    *)
(* Each file carries the session it was sent in; the hub's file task holds *)
(* a file until it has seen that session join, drops it if the session is  *)
(* over, and checks once more after the worker thread has encoded it       *)
(* (services/device-io-hub/device_io_hub/ipc/_connector.py and _hub.py,    *)
(* agent-sdk/xr-ai-hub/xr_ai_hub/_file_ordering.py).                       *)
(*                                                                         *)
(* Three things run: the connector, the hub's receive loop, which handles  *)
(* lifecycle events and copies them to the file task, and the file task.   *)
(* A file is a number, given when it is pushed.                            *)
(***************************************************************************)
EXTENDS Naturals, Sequences, Functions, Subsequences

CONSTANTS
  Pids,
  MaxFiles,     \* bound: files pushed
  MaxSess,      \* bound: sessions of one participant
  MaxVisits,    \* bound: sessions of all participants together
  MaxQueue,     \* bound: lifecycle events in one queue
  Hwm,          \* file_hwm: files in the socket, and files that wait for a join
  MayExpire,    \* a waiting file may pass its deadline
  MayForget,    \* a departed session may be forgotten
  None

ASSUME FileLaneAssumption ==
  /\ {MaxFiles, MaxSess, MaxVisits, MaxQueue} \subseteq Nat /\ Hwm \in Nat \ {0}
  /\ {MayExpire, MayForget} \subseteq BOOLEAN
  /\ None \notin Nat

Sessions == Pids \X (1 .. MaxSess)
Files == [file : 1 .. MaxFiles, of : Sessions]
LifeEvents == [joined : BOOLEAN, of : Sessions]
Absent == 0

VARIABLES
  csess,     \* connector: _participant_sessions, 0 for none
  visits,    \* sessions each participant has opened so far
  uploads,   \* connector: sessions with a file admitted and being encoded
  pushed,    \* files pushed so far
  life,      \* lifecycle events not yet taken by the hub
  lane,      \* files not yet taken by the file task
  sess,      \* hub: _participant_sessions, 0 for none
  telling,   \* the event whose participant callbacks the receive loop awaits
  events,    \* _file_session_events
  active,    \* orderer: _active
  pending,   \* orderer: _pending
  departed,  \* orderer: _departed, oldest first
  file,      \* the file the task has received and not routed, or None
  decoded,   \* the worker thread has decoded it
  todo,      \* files the task is to publish, in order
  encoding,  \* the first of them is with the worker thread
  out,       \* files published, in order
  lapsed     \* files given up: no room to wait, or the join did not come in time

connVars == <<csess, visits, uploads, pushed>>
mainVars == <<sess, telling>>
orderVars == <<active, pending, departed>>
taskVars == <<file, decoded, todo, encoding>>
outVars == <<out, lapsed>>
vars == <<connVars, life, lane, mainVars, events, orderVars, taskVars, outVars>>

TypeOK ==
  /\ csess \in [Pids -> 0 .. MaxSess] /\ visits \in [Pids -> 0 .. MaxSess]
  /\ uploads \subseteq Sessions /\ pushed \in 0 .. MaxFiles
  /\ life \in Seq(LifeEvents) /\ lane \in Seq(Files)
  /\ sess \in [Pids -> 0 .. MaxSess] /\ telling \in LifeEvents \cup {None}
  /\ events \in Seq(LifeEvents)
  /\ active \in [Pids -> 0 .. MaxSess]
  /\ pending \in Seq(Files) /\ Len(pending) <= Hwm
  /\ departed \in Seq(Sessions)
  /\ file \in Files \cup {None} /\ decoded \in BOOLEAN
  /\ todo \in Seq(Files) /\ encoding \in BOOLEAN
  /\ out \in Seq(Files) /\ lapsed \subseteq Files

Init ==
  /\ csess = [p \in Pids |-> Absent] /\ visits = [p \in Pids |-> 0]
  /\ uploads = {} /\ pushed = 0 /\ life = <<>> /\ lane = <<>>
  /\ sess = [p \in Pids |-> Absent] /\ telling = None /\ events = <<>>
  /\ active = [p \in Pids |-> Absent] /\ pending = <<>> /\ departed = <<>>
  /\ file = None /\ decoded = FALSE /\ todo = <<>> /\ encoding = FALSE
  /\ out = <<>> /\ lapsed = {}

-----------------------------------------------------------------------------
(* The connector. *)

Tell(e) == Len(life) < MaxQueue /\ life' = Append(life, e)

SessionsOpened == FoldFunction(LAMBDA m, n : m + n, 0, visits)

\* The participant connects.  If its last departure is still being handled, the
\* transfers of that session are cancelled and its departure, now stale, will
\* not be announced: the new session replaces the old one.
Join(p) ==
  /\ visits[p] < MaxSess /\ SessionsOpened < MaxVisits
  /\ visits' = [visits EXCEPT ![p] = @ + 1]
  /\ csess' = [csess EXCEPT ![p] = visits[p] + 1]
  /\ uploads' = uploads \ {<<p, csess[p]>>}
  /\ Tell([joined |-> TRUE, of |-> <<p, visits[p] + 1>>])
  /\ UNCHANGED <<pushed, lane, mainVars, events, orderVars, taskVars, outVars>>

\* The participant leaves: its transfers are cancelled, then the hub is told.
Leave(p) ==
  /\ csess[p] # Absent
  /\ csess' = [csess EXCEPT ![p] = Absent]
  /\ uploads' = uploads \ {<<p, csess[p]>>}
  /\ Tell([joined |-> FALSE, of |-> <<p, csess[p]>>])
  /\ UNCHANGED <<visits, pushed, lane, mainVars, events, orderVars, taskVars, outVars>>

\* push_file() up to the worker thread that encodes the file.
Admit(p) ==
  /\ csess[p] # Absent
  /\ uploads' = uploads \cup {<<p, csess[p]>>}
  /\ UNCHANGED <<csess, visits, pushed, life, lane, mainVars, events, orderVars, taskVars, outVars>>

\* The encoded file is pushed, or dropped if the socket is full.
PushFile(u) ==
  /\ u \in uploads /\ pushed < MaxFiles
  /\ uploads' = uploads \ {u}
  /\ pushed' = pushed + 1
  /\ lane' = IF Len(lane) < Hwm THEN Append(lane, [file |-> pushed + 1, of |-> u]) ELSE lane
  /\ UNCHANGED <<csess, visits, life, mainVars, events, orderVars, taskVars, outVars>>

-----------------------------------------------------------------------------
(* The hub's receive loop. *)

\* PARTICIPANT_EVENT up to the participant callbacks; a departure of another
\* session than the current one is ignored.
TakeEvent ==
  /\ telling = None /\ life # <<>>
  /\ life' = Tail(life)
  /\ LET e == Head(life)
         p == e.of[1]
         stale == ~e.joined /\ sess[p] # Absent /\ sess[p] # e.of[2]
     IN /\ telling' = IF stale THEN None ELSE e
        /\ sess' = IF stale THEN sess
                   ELSE [sess EXCEPT ![p] = IF e.joined THEN e.of[2] ELSE Absent]
  /\ UNCHANGED <<connVars, lane, events, orderVars, taskVars, outVars>>

\* After the callbacks: the event is copied to the file task.
CopyEvent ==
  /\ telling # None /\ Len(events) < MaxQueue
  /\ events' = Append(events, telling)
  /\ telling' = None
  /\ UNCHANGED <<connVars, life, lane, sess, orderVars, taskVars, outVars>>

-----------------------------------------------------------------------------
(* The file task. *)

SetOf(q) == {q[i] : i \in DOMAIN q}

Remember(d, s) == Append(Only(d, Sessions \ {s}), s)

\* Fault: a join that leaves waiting files where they are.
JoinedKeeps(s) ==
  /\ active' = [active EXCEPT ![s[1]] = s[2]]
  /\ UNCHANGED <<pending, departed, todo>>

\* participant_joined(): the session this one replaces has departed.  What
\* waited for this session is to be published, what waited for one that has
\* departed is dropped.
Joined(s) ==
  LET p == s[1]
      replaced == active[p] # Absent /\ active[p] # s[2]
      gone == Only(IF replaced THEN Remember(departed, <<p, active[p]>>) ELSE departed,
                   Sessions \ {s})
  IN /\ active' = [active EXCEPT ![p] = s[2]]
     /\ departed' = gone
     /\ todo' = Only(pending, {f \in Files : f.of = s})
     /\ pending' = Only(pending,
          {f \in Files : f.of[1] # p \/ (f.of # s /\ f.of \notin SetOf(gone))})

\* participant_left().
Left(s) ==
  /\ active' = [active EXCEPT ![s[1]] = IF @ = s[2] THEN Absent ELSE @]
  /\ departed' = Remember(departed, s)
  /\ pending' = Only(pending, {f \in Files : f.of # s})
  /\ UNCHANGED todo

\* The task applies events between files and, all there are, before it routes
\* one; never while it publishes.
ApplyEvent ==
  /\ file = None \/ decoded
  /\ todo = <<>> /\ events # <<>>
  /\ events' = Tail(events)
  /\ IF Head(events).joined THEN Joined(Head(events).of) ELSE Left(Head(events).of)
  /\ UNCHANGED <<connVars, life, lane, mainVars, file, decoded, encoding, outVars>>

TakeFile ==
  /\ file = None /\ todo = <<>> /\ lane # <<>>
  /\ file' = Head(lane) /\ decoded' = FALSE
  /\ lane' = Tail(lane)
  /\ UNCHANGED <<connVars, life, mainVars, events, orderVars, todo, encoding, outVars>>

Decode ==
  /\ file # None /\ ~decoded
  /\ decoded' = TRUE
  /\ UNCHANGED <<connVars, life, lane, mainVars, events, orderVars, file, todo, encoding, outVars>>

\* _file_session_is_active(), which reads the receive loop's table.
IsActive(f) == sess[f.of[1]] = f.of[2]

\* The join of the file's session may still come.
Waits(f) == f.of \notin SetOf(departed) /\ active[f.of[1]] # f.of[2]

\* Fault: the receive loop's table decides whether a file has to wait.
RouteByTable ==
  /\ file # None /\ decoded /\ todo = <<>> /\ events = <<>>
  /\ file' = None /\ decoded' = FALSE
  /\ IF file.of \notin SetOf(departed) /\ IsActive(file)
     THEN todo' = <<file>> /\ UNCHANGED pending
     ELSE /\ pending' = IF file.of \notin SetOf(departed) /\ Len(pending) < Hwm
                        THEN Append(pending, file) ELSE pending
          /\ UNCHANGED todo
  /\ UNCHANGED <<connVars, life, lane, mainVars, events, active, departed, encoding, outVars>>

\* Fault: any number of files may wait for a join.
RouteUnbounded ==
  /\ file # None /\ decoded /\ todo = <<>> /\ events = <<>>
  /\ file' = None /\ decoded' = FALSE
  /\ IF file.of \notin SetOf(departed) /\ active[file.of[1]] = file.of[2]
     THEN todo' = <<file>> /\ UNCHANGED pending
     ELSE /\ pending' = IF file.of \notin SetOf(departed) THEN Append(pending, file) ELSE pending
          /\ UNCHANGED todo
  /\ UNCHANGED <<connVars, life, lane, mainVars, events, active, departed, encoding, outVars>>

\* route(): a file of a departed session is dropped, one of the active session
\* is published, another one waits if there is room.
Route ==
  /\ file # None /\ decoded /\ todo = <<>> /\ events = <<>>
  /\ file' = None /\ decoded' = FALSE
  /\ IF file.of \notin SetOf(departed) /\ active[file.of[1]] = file.of[2]
     THEN todo' = <<file>> /\ UNCHANGED pending
     ELSE /\ pending' = IF Waits(file) /\ Len(pending) < Hwm THEN Append(pending, file) ELSE pending
          /\ UNCHANGED todo
  /\ lapsed' = IF Waits(file) /\ Len(pending) >= Hwm THEN lapsed \cup {file} ELSE lapsed
  /\ UNCHANGED <<connVars, life, lane, mainVars, events, active, departed, encoding, out>>

\* _publish_file() up to the worker thread.
Encode ==
  /\ todo # <<>> /\ ~encoding
  /\ IF IsActive(Head(todo))
     THEN encoding' = TRUE /\ UNCHANGED todo
     ELSE todo' = Tail(todo) /\ UNCHANGED encoding
  /\ UNCHANGED <<connVars, life, lane, mainVars, events, orderVars, file, decoded, outVars>>

\* Fault: the session is not looked up again.
PublishUnchecked ==
  /\ todo # <<>> /\ encoding
  /\ encoding' = FALSE /\ todo' = Tail(todo)
  /\ out' = Append(out, Head(todo))
  /\ UNCHANGED <<connVars, life, lane, mainVars, events, orderVars, file, decoded, lapsed>>

\* The session can have changed meanwhile.
Publish ==
  /\ todo # <<>> /\ encoding
  /\ encoding' = FALSE /\ todo' = Tail(todo)
  /\ out' = IF IsActive(Head(todo)) THEN Append(out, Head(todo)) ELSE out
  /\ UNCHANGED <<connVars, life, lane, mainVars, events, orderVars, file, decoded, lapsed>>

\* _prune(): the first file in the queue has waited 5 s.
Expire ==
  /\ MayExpire /\ pending # <<>> /\ todo = <<>>
  /\ pending' = Tail(pending) /\ lapsed' = lapsed \cup {Head(pending)}
  /\ UNCHANGED <<connVars, life, lane, mainVars, events, active, departed, taskVars, out>>

\* _prune() and _record_departure(): the oldest departure is 60 s old, or one of
\* more than 1024.
Forget ==
  /\ MayForget /\ departed # <<>> /\ todo = <<>>
  /\ departed' = Tail(departed)
  /\ UNCHANGED <<connVars, life, lane, mainVars, events, active, pending, taskVars, outVars>>

ConnectorStep ==
  \/ \E p \in Pids : Join(p) \/ Leave(p) \/ Admit(p)
  \/ \E u \in Sessions : PushFile(u)

MainStep == TakeEvent \/ CopyEvent

TaskStep == ApplyEvent \/ TakeFile \/ Decode \/ Route \/ Encode \/ Publish

Next == ConnectorStep \/ MainStep \/ TaskStep \/ Expire \/ Forget

\* Both loops of the hub keep running; the worker threads finish.
Fairness == WF_vars(MainStep) /\ WF_vars(TaskStep)

Spec == Init /\ [][Next]_vars /\ Fairness

-----------------------------------------------------------------------------
(* Properties. *)

\* A participant's files reach the agents in the order in which they were
\* pushed, although some waited for the join, some did not, and sessions change
\* (a join releases what waits before anything after it is routed).
PublishedInOrder ==
  \A i, j \in DOMAIN out :
    (i < j /\ out[i].of[1] = out[j].of[1]) => out[i].file < out[j].file

\* No file is published for a session the hub knows to be over, whatever
\* changed while worker threads decoded and encoded it (_publish_file()).
PublishedInSession ==
  [][out' # out => IsActive(out'[Len(out')])]_vars

\* A file waits only for a join that may still come: never for a session that
\* has joined or departed as far as the orderer knows (participant_joined()
\* and participant_left() sweep the buffer, so it fills up for no other reason).
WaitsForJoinOnly ==
  \A i \in DOMAIN pending :
    /\ active[pending[i].of[1]] # pending[i].of[2]
    /\ pending[i].of \notin SetOf(departed)

\* A file that made it into the lane is published unless its session ends, even
\* when it overtakes the join it belongs to: only the deadline of the join and
\* the size of the buffer may cost it.
FilesArrive ==
  \A f \in Files :
    f \in SetOf(lane) ~> f \in SetOf(out) \cup lapsed \/ csess[f.of[1]] # f.of[2]
=============================================================================
