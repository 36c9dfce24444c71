--------------------------- MODULE FileLane_proofs ---------------------------
(***************************************************************************)
(* Proofs about FileLane, for any number of participants, sessions and     *)
(* files and any size of the queues and of the buffer, whether files       *)
(* expire and departures are forgotten or not.                             *)
(***************************************************************************)
EXTENDS FileLane, Subsequences_proofs

\* x is an element of q.
In(x, q) == \E i \in DOMAIN q : q[i] = x

-----------------------------------------------------------------------------
(* Queues. *)

\* The parts of a queue that is not empty.
LEMMA TakeHead ==
  ASSUME NEW S, NEW q \in Seq(S), q # <<>>
  PROVE  /\ Head(q) \in S /\ Head(q) = q[1] /\ 1 \in DOMAIN q /\ Tail(q) \in Seq(S)
         /\ Len(Tail(q)) <= Len(q)
         /\ \A i \in DOMAIN Tail(q) : i + 1 \in DOMAIN q /\ Tail(q)[i] = q[i + 1] /\ i + 1 > 1
<1>1. Len(Tail(q)) = Len(q) - 1 /\ \A i \in 1 .. Len(Tail(q)) : Tail(q)[i] = q[i + 1]
  BY HeadTailProperties
<1>2. QED
  BY <1>1, HeadTailProperties, LenProperties

\* A queue with one more.
LEMMA PutLast ==
  ASSUME NEW S, NEW q \in Seq(S), NEW x \in S
  PROVE  /\ Append(q, x) \in Seq(S)
         /\ \A i \in DOMAIN Append(q, x) :
              \/ i \in DOMAIN q /\ Append(q, x)[i] = q[i]
              \/ i = Len(q) + 1 /\ Append(q, x)[i] = x
         /\ \A i \in DOMAIN q : i < Len(q) + 1 /\ i \in DOMAIN Append(q, x) /\ Append(q, x)[i] = q[i]
         /\ Len(q) + 1 \in DOMAIN Append(q, x) /\ Append(q, x)[Len(q) + 1] = x
         /\ Len(Append(q, x)) = Len(q) + 1 /\ Len(q) \in Nat
<1>1. DOMAIN Append(q, x) = 1 .. Len(q) + 1 /\ DOMAIN q = 1 .. Len(q) /\ Len(q) \in Nat
  BY AppendProperties, LenProperties
<1>2. QED
  BY <1>1, AppendProperties

-----------------------------------------------------------------------------
(* Types. *)

\* The bounds are numbers.
LEMMA Bounds == /\ MaxFiles \in Nat /\ MaxSess \in Nat /\ MaxQueue \in Nat
                /\ Hwm \in Nat /\ Hwm > 0
  BY FileLaneAssumption

\* Types hold initially.
LEMMA TypeInit == Init => TypeOK
<1> SUFFICES ASSUME Init PROVE TypeOK
  OBVIOUS
<1>1. /\ <<>> \in Seq(LifeEvents) /\ <<>> \in Seq(Files) /\ <<>> \in Seq(Sessions)
      /\ Len(<<>>) = 0
  BY EmptySeq
<1>2. [p \in Pids |-> 0] \in [Pids -> 0 .. MaxSess] /\ 0 \in 0 .. MaxFiles
  BY Bounds
<1>3. Len(pending) <= Hwm
  BY <1>1, Bounds DEF Init
<1> QED BY <1>1, <1>2, <1>3, Zenon DEF Init, TypeOK, Absent

\* A session is a participant and a number.
LEMMA SessionParts == \A u \in Sessions : u = <<u[1], u[2]>> /\ u[1] \in Pids /\ u[2] \in 1 .. MaxSess
  BY DEF Sessions

\* The connector's steps keep the types.
LEMMA ConnectorTypes ==
  ASSUME TypeOK, ConnectorStep PROVE TypeOK'
<1> USE Bounds DEF mainVars, orderVars, taskVars, outVars
<1>1. ASSUME NEW p \in Pids, Join(p) PROVE TypeOK'
  <2>1. visits[p] + 1 \in 1 .. MaxSess
    BY <1>1 DEF Join, TypeOK
  <2>2. [joined |-> TRUE, of |-> <<p, visits[p] + 1>>] \in LifeEvents
    BY <2>1 DEF LifeEvents, Sessions
  <2>3. life' \in Seq(LifeEvents)
    BY <1>1, <2>2, PutLast DEF Join, Tell, TypeOK
  <2>4. csess' \in [Pids -> 0 .. MaxSess] /\ visits' \in [Pids -> 0 .. MaxSess]
    BY <1>1, <2>1 DEF Join, TypeOK
  <2> QED BY <1>1, <2>3, <2>4 DEF Join, TypeOK
<1>2. ASSUME NEW p \in Pids, Leave(p) PROVE TypeOK'
  <2>1. csess[p] \in 1 .. MaxSess
    BY <1>2 DEF Leave, TypeOK, Absent
  <2>2. [joined |-> FALSE, of |-> <<p, csess[p]>>] \in LifeEvents
    BY <2>1 DEF LifeEvents, Sessions
  <2>3. life' \in Seq(LifeEvents)
    BY <1>2, <2>2, PutLast DEF Leave, Tell, TypeOK
  <2>4. csess' \in [Pids -> 0 .. MaxSess]
    BY <1>2 DEF Leave, TypeOK, Absent
  <2> QED BY <1>2, <2>3, <2>4 DEF Leave, TypeOK
<1>3. ASSUME NEW p \in Pids, Admit(p) PROVE TypeOK'
  <2>1. <<p, csess[p]>> \in Sessions
    BY <1>3 DEF Admit, TypeOK, Absent, Sessions
  <2> QED BY <1>3, <2>1 DEF Admit, TypeOK
<1>4. ASSUME NEW u \in Sessions, PushFile(u) PROVE TypeOK'
  <2>1. pushed + 1 \in 1 .. MaxFiles
    BY <1>4 DEF PushFile, TypeOK
  <2>2. [file |-> pushed + 1, of |-> u] \in Files
    BY <2>1 DEF Files
  <2>3. lane' \in Seq(Files)
    BY <1>4, <2>2, PutLast DEF PushFile, TypeOK
  <2> QED BY <1>4, <2>1, <2>3 DEF PushFile, TypeOK
<1> QED BY <1>1, <1>2, <1>3, <1>4 DEF ConnectorStep

\* The processor's loop keeps the types.
LEMMA MainTypes ==
  ASSUME TypeOK, MainStep PROVE TypeOK'
<1> USE Bounds DEF connVars, orderVars, taskVars, outVars
<1>1. CASE TakeEvent
  <2> DEFINE e == Head(life)
             stale == ~e.joined /\ sess[e.of[1]] # Absent /\ sess[e.of[1]] # e.of[2]
  <2>1. e \in LifeEvents /\ life' \in Seq(LifeEvents)
    BY <1>1, TakeHead DEF TakeEvent, TypeOK
  <2>2. e.of \in Sessions
    BY <2>1 DEF LifeEvents
  <2>3. e.of[1] \in Pids /\ e.of[2] \in 1 .. MaxSess
    BY <2>2, SessionParts
  <2>4. /\ telling' = IF stale THEN None ELSE e
        /\ sess' = IF stale THEN sess
                   ELSE [sess EXCEPT ![e.of[1]] = IF e.joined THEN e.of[2] ELSE Absent]
    BY <1>1 DEF TakeEvent
  <2> HIDE DEF e, stale
  <2>5. sess' \in [Pids -> 0 .. MaxSess]
    BY <2>3, <2>4 DEF TypeOK, Absent
  <2> QED BY <1>1, <2>1, <2>4, <2>5 DEF TakeEvent, TypeOK
<1>2. CASE CopyEvent
  <2>1. events' \in Seq(LifeEvents)
    BY <1>2, PutLast DEF CopyEvent, TypeOK
  <2> QED BY <1>2, <2>1 DEF CopyEvent, TypeOK
<1> QED BY <1>1, <1>2 DEF MainStep

\* What is remembered of a participant has its type.
LEMMA RememberType ==
  ASSUME NEW d \in Seq(Sessions), NEW s \in Sessions
  PROVE  /\ Remember(d, s) \in Seq(Sessions)
         /\ SetOf(Remember(d, s)) = SetOf(d) \cup {s}
<1>1. Only(d, Sessions \ {s}) \in Seq(Sessions)
  BY OnlyElements
<1>2. Remember(d, s) \in Seq(Sessions)
  BY <1>1, PutLast DEF Remember
<1>3. ASSUME NEW x \in SetOf(d), x # s PROVE x \in SetOf(Remember(d, s))
  <2>1. PICK k \in DOMAIN d : d[k] = x
    BY DEF SetOf
  <2>2. x \in Sessions
    BY <2>1
  <2>3. PICK i \in DOMAIN Only(d, Sessions \ {s}) : Only(d, Sessions \ {s})[i] = x
    BY <1>3, <2>1, <2>2, OnlyElements
  <2> QED BY <1>1, <2>3, PutLast DEF Remember, SetOf
<1>4. s \in SetOf(Remember(d, s))
  BY <1>1, PutLast DEF Remember, SetOf
<1>5. ASSUME NEW x \in SetOf(Remember(d, s)), x # s PROVE x \in SetOf(d)
  <2>1. PICK i \in DOMAIN Remember(d, s) : Remember(d, s)[i] = x
    BY DEF SetOf
  <2>2. i \in DOMAIN Only(d, Sessions \ {s}) /\ Only(d, Sessions \ {s})[i] = x
    BY <1>1, <1>5, <2>1, PutLast DEF Remember
  <2> QED BY <2>2, OnlyElements DEF SetOf
<1> QED BY <1>2, <1>3, <1>4, <1>5

\* Applying an event keeps the types.
LEMMA ApplyTypes ==
  ASSUME TypeOK, ApplyEvent
  PROVE  /\ TypeOK'
         /\ Head(events) \in LifeEvents /\ Head(events).of \in Sessions
         /\ events # <<>> /\ events' = Tail(events)
<1> DEFINE s == Head(events).of
<1>1. /\ Head(events) \in LifeEvents /\ events' \in Seq(LifeEvents)
      /\ events # <<>> /\ events' = Tail(events)
  BY TakeHead DEF ApplyEvent, TypeOK
<1>2. s \in Sessions
  BY <1>1 DEF LifeEvents
<1>3. s[1] \in Pids /\ s[2] \in 1 .. MaxSess
  BY <1>2, SessionParts
<1>4. /\ UNCHANGED <<csess, visits, uploads, pushed, life, lane, sess, telling>>
      /\ UNCHANGED <<file, decoded, encoding, out, lapsed>>
      /\ IF Head(events).joined THEN Joined(s) ELSE Left(s)
  BY DEF ApplyEvent, connVars, mainVars, outVars
<1> HIDE DEF s
<1>5. /\ active' \in [Pids -> 0 .. MaxSess] /\ departed' \in Seq(Sessions)
      /\ pending' \in Seq(Files) /\ Len(pending') <= Hwm /\ todo' \in Seq(Files)
  <2>1. CASE Joined(s)
    <3> DEFINE p == s[1]
               was == IF active[p] # Absent /\ active[p] # s[2]
                      THEN Remember(departed, <<p, active[p]>>) ELSE departed
    <3>1. was \in Seq(Sessions)
      <4>1. active[p] # Absent => <<p, active[p]>> \in Sessions
        <5>1. active[p] \in 0 .. MaxSess /\ p \in Pids
          BY <1>3 DEF TypeOK
        <5> QED BY <5>1, Bounds DEF Absent, Sessions
      <4> QED BY <4>1, RememberType DEF TypeOK
    <3>2. /\ departed' = Only(was, Sessions \ {s})
          /\ active' = [active EXCEPT ![s[1]] = s[2]]
          /\ \E S : todo' = Only(pending, S)
          /\ \E S : pending' = Only(pending, S)
      BY <2>1, Zenon DEF Joined
    <3> HIDE DEF was
    <3>3. active' \in [Pids -> 0 .. MaxSess]
      BY <1>3, <3>2 DEF TypeOK
    <3>4. \A S : Only(pending, S) \in Seq(Files) /\ Len(Only(pending, S)) <= Len(pending)
      BY OnlyElements DEF TypeOK
    <3>5. Len(pending') <= Hwm
      <4>1. Len(pending') <= Len(pending) /\ Len(pending') \in Nat /\ Len(pending) \in Nat
        BY <3>2, <3>4, LenProperties DEF TypeOK
      <4> QED BY <4>1, Bounds DEF TypeOK
    <3> QED BY <3>1, <3>2, <3>3, <3>4, <3>5, OnlyElements
  <2>2. CASE Left(s)
    <3>1. pending' = Only(pending, {f \in Files : f.of # s})
      BY <2>2, Zenon DEF Left
    <3>2. pending' \in Seq(Files) /\ Len(pending') <= Len(pending)
      BY <3>1, OnlyElements DEF TypeOK
    <3>3. Len(pending') <= Hwm
      <4>1. Len(pending') \in Nat /\ Len(pending) \in Nat
        BY <3>2, LenProperties DEF TypeOK
      <4> QED BY <3>2, <4>1, Bounds DEF TypeOK
    <3>4. active' \in [Pids -> 0 .. MaxSess]
      <4>1. active' = [active EXCEPT ![s[1]] = IF active[s[1]] = s[2] THEN Absent ELSE active[s[1]]]
        BY <2>2, Zenon DEF Left
      <4> QED BY <1>3, <4>1, Bounds DEF TypeOK, Absent
    <3>5. departed' \in Seq(Sessions)
      BY <1>2, <2>2, RememberType DEF Left, TypeOK
    <3>6. todo' \in Seq(Files)
      BY <2>2 DEF Left, TypeOK
    <3> QED BY <3>2, <3>3, <3>4, <3>5, <3>6
  <2> QED BY <1>4, <2>1, <2>2
<1>6. TypeOK'
  BY <1>1, <1>4, <1>5 DEF TypeOK
<1> QED BY <1>1, <1>2, <1>6 DEF s

\* The waiting tasks keep the types.
LEMMA TaskTypes ==
  ASSUME TypeOK, TakeFile \/ Decode \/ Route \/ Encode \/ Publish \/ Expire \/ Forget
  PROVE  TypeOK'
<1> USE Bounds DEF connVars, mainVars, orderVars, taskVars, outVars
<1>1. CASE TakeFile
  <2>1. file' \in Files /\ lane' \in Seq(Files)
    BY <1>1, TakeHead DEF TakeFile, TypeOK
  <2> QED BY <1>1, <2>1 DEF TakeFile, TypeOK
<1>2. CASE Decode
  BY <1>2 DEF Decode, TypeOK
<1>3. CASE Route
  <2>1. file \in Files
    BY <1>3 DEF Route, TypeOK
  <2>2. <<file>> \in Seq(Files)
    BY <2>1
  <2>3. /\ Append(pending, file) \in Seq(Files) /\ Len(Append(pending, file)) = Len(pending) + 1
        /\ Len(pending) \in Nat
    BY <2>1, PutLast DEF TypeOK
  <2>4. /\ pending' = pending \/ (pending' = Append(pending, file) /\ Len(pending) < Hwm)
        /\ todo' = todo \/ todo' = <<file>>
    BY <1>3 DEF Route
  <2>5. pending' \in Seq(Files) /\ Len(pending') <= Hwm
    <3>1. pending \in Seq(Files) /\ Len(pending) <= Hwm
      BY DEF TypeOK
    <3> QED BY <2>3, <2>4, <3>1
  <2>6. todo' \in Seq(Files)
    BY <2>2, <2>4 DEF TypeOK
  <2>7. lapsed' \subseteq Files
    BY <1>3, <2>1 DEF Route, TypeOK
  <2>8. file' = None /\ decoded' = FALSE /\ UNCHANGED <<life, lane, events, active, departed, encoding, out>>
    BY <1>3 DEF Route
  <2>9. UNCHANGED <<csess, visits, uploads, pushed, sess, telling>>
    BY <1>3 DEF Route, connVars, mainVars
  <2>10. decoded' \in BOOLEAN /\ file' \in Files \cup {None}
    BY <2>8
  <2> QED BY <2>5, <2>6, <2>7, <2>8, <2>9, <2>10 DEF TypeOK
<1>4. CASE Encode
  <2>1. todo' \in Seq(Files) /\ encoding' \in BOOLEAN
    <3>1. todo \in Seq(Files) /\ encoding \in BOOLEAN /\ todo # <<>>
      BY <1>4 DEF Encode, TypeOK
    <3>2. Tail(todo) \in Seq(Files)
      BY <3>1, TakeHead
    <3> QED BY <1>4, <3>1, <3>2 DEF Encode
  <2> QED BY <1>4, <2>1 DEF Encode, TypeOK
<1>5. CASE Publish
  <2>1. Head(todo) \in Files /\ todo' \in Seq(Files)
    BY <1>5, TakeHead DEF Publish, TypeOK
  <2>2. out' \in Seq(Files)
    BY <1>5, <2>1, PutLast DEF Publish, TypeOK
  <2> QED BY <1>5, <2>1, <2>2 DEF Publish, TypeOK
<1>6. CASE Expire
  <2>1. /\ Head(pending) \in Files /\ pending' \in Seq(Files)
        /\ Len(pending') <= Len(pending)
    BY <1>6, TakeHead DEF Expire, TypeOK
  <2>2. Len(pending') <= Hwm
    <3>1. Len(pending') \in Nat /\ Len(pending) \in Nat
      BY <2>1, LenProperties DEF TypeOK
    <3> QED BY <2>1, <3>1 DEF TypeOK
  <2> QED BY <1>6, <2>1, <2>2 DEF Expire, TypeOK
<1>7. CASE Forget
  <2>1. departed' \in Seq(Sessions)
    BY <1>7, TakeHead DEF Forget, TypeOK
  <2> QED BY <1>7, <2>1 DEF Forget, TypeOK
<1> QED BY <1>1, <1>2, <1>3, <1>4, <1>5, <1>6, <1>7

\* Every step keeps the types.
LEMMA TypeStep == TypeOK /\ [Next]_vars => TypeOK'
<1> SUFFICES ASSUME TypeOK, [Next]_vars PROVE TypeOK'
  OBVIOUS
<1>1. CASE UNCHANGED vars
  BY <1>1 DEF vars, connVars, mainVars, orderVars, taskVars, outVars, TypeOK
<1> QED
  BY <1>1, ConnectorTypes, MainTypes, ApplyTypes, TaskTypes DEF Next, TaskStep

\* Every state is well formed; in particular no more files wait for a join than the
\* buffer has room for.
THEOREM TypeCorrect == Spec => []TypeOK
  BY TypeInit, TypeStep, PTL DEF Spec

-----------------------------------------------------------------------------
(* Order. *)

\* The join e is older than the join f of the same participant.
Older(e, f) == (e.joined /\ f.joined /\ e.of[1] = f.of[1]) => e.of[2] < f.of[2]

\* Joins of a participant travel from the connector to the file task in order.
JoinsInOrder ==
  /\ \A i, j \in DOMAIN life : i < j => Older(life[i], life[j])
  /\ \A i, j \in DOMAIN events : i < j => Older(events[i], events[j])
  /\ \A i \in DOMAIN events, j \in DOMAIN life : Older(events[i], life[j])
  /\ telling # None =>
       /\ \A i \in DOMAIN events : Older(events[i], telling)
       /\ \A j \in DOMAIN life : Older(telling, life[j])

\* The event e has not reached the file task yet.
Underway(e) == In(e, life) \/ In(e, events) \/ (telling # None /\ telling = e)

\* The file f is past the buffer: published or about to be.
Released(f) == In(f, todo) \/ In(f, out)

\* The file task has received f, at some time.
Passed(f) == In(f, pending) \/ Released(f)

\* f has been pushed and is not lost.
Seen(f) == In(f, lane) \/ (file # None /\ file = f) \/ Passed(f)

\* A session is announced once: the joins under way are newer than the session the
\* orderer takes for the active one and than those of released files.
JoinsAreNew ==
  \A e \in LifeEvents : Underway(e) /\ e.joined =>
    /\ e.of[2] <= visits[e.of[1]]
    /\ active[e.of[1]] < e.of[2]
    /\ \A f \in Files : Released(f) /\ f.of[1] = e.of[1] => f.of[2] < e.of[2]

\* The connector pushes files of the present session only.
PushesPresent ==
  /\ \A p \in Pids : csess[p] \in {Absent, visits[p]}
  /\ \A u \in uploads : csess[u[1]] = u[2]

\* Later sessions have later files.
FilesBySession ==
  /\ \A p \in Pids : active[p] <= visits[p]
  /\ \A f \in Files : Seen(f) => f.file <= pushed /\ f.of[2] <= visits[f.of[1]]
  /\ \A f, g \in Files :
       Seen(f) /\ Seen(g) /\ f.of[1] = g.of[1] /\ f.of[2] < g.of[2] => f.file < g.file

Rising(q) == \A i, j \in DOMAIN q : i < j => q[i].file < q[j].file

\* Nothing overtakes on the way to the buffer, and the buffer keeps the order.
ArriveInOrder ==
  /\ Rising(lane) /\ Rising(pending) /\ Rising(todo)
  /\ file # None => \A f \in Files : In(f, lane) => file.file < f.file
  /\ \A f \in Files : Passed(f) =>
       /\ \A g \in Files : In(g, lane) => f.file < g.file
       /\ file # None => f.file < file.file

\* What is about to be published is newer than what was.
ReleasedInOrder ==
  \A f, g \in Files : In(f, out) /\ In(g, todo) /\ f.of[1] = g.of[1] => f.file < g.file

OrderInv ==
  /\ JoinsInOrder /\ JoinsAreNew /\ PushesPresent /\ FilesBySession
  /\ ArriveInOrder /\ ReleasedInOrder /\ PublishedInOrder

\* The parts of an event.
LEMMA EventParts ==
  \A e \in LifeEvents : e.of[1] \in Pids /\ e.of[2] \in 1 .. MaxSess /\ e.of[2] \in Nat
  BY SessionParts, Bounds DEF LifeEvents

\* The parts of a file.
LEMMA FileParts ==
  \A f \in Files : /\ f.file \in Nat /\ f.of \in Sessions
                    /\ f.of[1] \in Pids /\ f.of[2] \in 1 .. MaxSess /\ f.of[2] \in Nat
  BY SessionParts, Bounds DEF Files

\* Members of a tail.
LEMMA InTail ==
  ASSUME NEW S, NEW q \in Seq(S), q # <<>>
  PROVE  /\ \A x : In(x, Tail(q)) => In(x, q)
         /\ In(Head(q), q)
         /\ \A x : In(x, q) => x \in S /\ (x = Head(q) \/ In(x, Tail(q)))
<1>1. \A i \in DOMAIN q : i = 1 \/ (i - 1 \in DOMAIN Tail(q) /\ Tail(q)[i - 1] = q[i])
  <2>1. /\ Len(Tail(q)) = Len(q) - 1 /\ \A i \in 1 .. Len(Tail(q)) : Tail(q)[i] = q[i + 1]
        /\ DOMAIN q = 1 .. Len(q) /\ DOMAIN Tail(q) = 1 .. Len(Tail(q)) /\ Len(q) \in Nat
    BY HeadTailProperties, LenProperties
  <2> QED BY <2>1
<1>2. \A x : In(x, q) => x \in S /\ (x = Head(q) \/ In(x, Tail(q)))
  <2>1. Head(q) = q[1]
    BY TakeHead
  <2> QED BY <1>1, <2>1 DEF In
<1>3. /\ \A x : In(x, Tail(q)) => In(x, q)
      /\ In(Head(q), q)
  BY TakeHead DEF In
<1> QED BY <1>2, <1>3

\* Members of a longer queue.
LEMMA InAppend ==
  ASSUME NEW S, NEW q \in Seq(S), NEW y \in S
  PROVE  \A x : In(x, Append(q, y)) <=> In(x, q) \/ x = y
  BY PutLast DEF In

\* Members are elements.
LEMMA InSeq ==
  ASSUME NEW S, NEW q \in Seq(S)
  PROVE  \A x : In(x, q) => x \in S
  BY DEF In

\* Members of a part.
LEMMA InOnly ==
  ASSUME NEW T, NEW q \in Seq(T), NEW S
  PROVE  \A x : In(x, Only(q, S)) <=> In(x, q) /\ x \in S
  BY OnlyElements DEF In

\* A tail of an ordered queue is ordered.
LEMMA RisingTail ==
  ASSUME NEW q \in Seq(Files), q # <<>>, Rising(q)
  PROVE  /\ Rising(Tail(q))
         /\ \A f : In(f, Tail(q)) => Head(q).file < f.file
<1>1. \A i \in DOMAIN Tail(q) : i \in Nat
  <2>1. DOMAIN Tail(q) = 1 .. Len(Tail(q))
    BY HeadTailProperties, LenProperties
  <2> QED BY <2>1
<1> QED BY <1>1, TakeHead DEF Rising, In

\* A queue stays ordered if what comes is later.
LEMMA RisingAppend ==
  ASSUME NEW q \in Seq(Files), NEW f \in Files, Rising(q), \A g : In(g, q) => g.file < f.file
  PROVE  Rising(Append(q, f))
<1> SUFFICES ASSUME NEW i \in DOMAIN Append(q, f), NEW j \in DOMAIN Append(q, f), i < j
             PROVE  Append(q, f)[i].file < Append(q, f)[j].file
  BY DEF Rising
<1>1. DOMAIN Append(q, f) = 1 .. Len(q) + 1 /\ DOMAIN q = 1 .. Len(q) /\ Len(q) \in Nat
  BY AppendProperties, LenProperties
<1>2. i \in DOMAIN q /\ Append(q, f)[i] = q[i]
  BY <1>1, AppendProperties
<1>3. CASE j \in DOMAIN q
  BY <1>2, <1>3, PutLast DEF Rising
<1>4. CASE j = Len(q) + 1
  BY <1>2, <1>4, PutLast DEF In
<1> QED BY <1>1, <1>3, <1>4

\* A part of an ordered queue is ordered.
LEMMA RisingOnly ==
  ASSUME NEW q \in Seq(Files), Rising(q), NEW S
  PROVE  Rising(Only(q, S))
  BY OnlyKeepsOrder DEF Rising

\* A join adds a session newer than all there were.
LEMMA JoinKeepsOrder ==
  ASSUME TypeOK, OrderInv, NEW p \in Pids, Join(p)
  PROVE  OrderInv'
<1> DEFINE new == [joined |-> TRUE, of |-> <<p, visits[p] + 1>>]
<1>1. /\ visits[p] \in Nat /\ visits[p] + 1 \in 1 .. MaxSess /\ new \in LifeEvents
      /\ \A q \in Pids : visits[q] \in Nat /\ csess[q] \in Nat /\ active[q] \in Nat
  BY Bounds DEF Join, TypeOK, LifeEvents, Sessions
<1>2. /\ visits' = [visits EXCEPT ![p] = visits[p] + 1]
      /\ csess' = [csess EXCEPT ![p] = visits[p] + 1]
      /\ uploads' = uploads \ {<<p, csess[p]>>}
      /\ life' = Append(life, new)
      /\ UNCHANGED <<pushed, lane, sess, telling, events, active, pending, departed>>
      /\ UNCHANGED <<file, decoded, todo, encoding, out, lapsed>>
  BY DEF Join, Tell, mainVars, orderVars, taskVars, outVars
<1>3. new.joined /\ new.of[1] = p /\ new.of[2] = visits[p] + 1
  OBVIOUS
<1> HIDE DEF new
<1>10. /\ \A j \in DOMAIN life' : (j \in DOMAIN life /\ life'[j] = life[j])
                              \/ (j = Len(life) + 1 /\ life'[j] = new)
      /\ \A e : In(e, life') <=> In(e, life) \/ e = new
  <2>1. life \in Seq(LifeEvents)
    BY DEF TypeOK
  <2>2. \A j \in DOMAIN life' : (j \in DOMAIN life /\ life'[j] = life[j])
                              \/ (j = Len(life) + 1 /\ life'[j] = new)
    BY <1>1, <1>2, <2>1, PutLast
  <2>3. \A e : In(e, life') <=> In(e, life) \/ e = new
    BY <1>1, <1>2, <2>1, InAppend
  <2> QED BY <2>2, <2>3
<1>11. \A q \in Pids : visits[q] <= visits'[q] /\ visits'[q] \in Nat
  <2>1. \A q \in Pids : visits'[q] = IF q = p THEN visits[q] + 1 ELSE visits[q]
    BY <1>2 DEF TypeOK
  <2> QED BY <1>1, <2>1
<1>4. \A e \in LifeEvents : Underway(e) => Older(e, new)
  BY <1>1, <1>3, EventParts DEF OrderInv, JoinsAreNew, Older
<1>5. JoinsInOrder'
  <2>1. \A i, j \in DOMAIN life' : i < j => Older(life'[i], life'[j])
    <3> SUFFICES ASSUME NEW i \in DOMAIN life', NEW j \in DOMAIN life', i < j
                 PROVE  Older(life'[i], life'[j])
      OBVIOUS
    <3>1. DOMAIN life' = 1 .. Len(life) + 1 /\ DOMAIN life = 1 .. Len(life) /\ Len(life) \in Nat
      BY <1>1, <1>2, AppendProperties, LenProperties DEF TypeOK
    <3>2. i \in DOMAIN life /\ life'[i] = life[i]
      BY <1>1, <1>2, <3>1, AppendProperties DEF TypeOK
    <3>3. CASE j \in DOMAIN life
      BY <1>10, <3>1, <3>2, <3>3 DEF OrderInv, JoinsInOrder
    <3>4. CASE j = Len(life) + 1
      <4>1. life[i] \in LifeEvents /\ Underway(life[i])
        BY <3>2 DEF TypeOK, Underway, In
      <4> QED BY <1>1, <1>2, <1>4, <3>2, <3>4, <4>1, PutLast DEF TypeOK
    <3> QED BY <3>1, <3>3, <3>4
  <2>2. \A i \in DOMAIN events, j \in DOMAIN life' : Older(events[i], life'[j])
    <3>1. \A i \in DOMAIN events : events[i] \in LifeEvents /\ Underway(events[i])
      BY DEF TypeOK, Underway, In
    <3> QED BY <1>4, <1>10, <3>1 DEF OrderInv, JoinsInOrder
  <2>3. telling # None => \A j \in DOMAIN life' : Older(telling, life'[j])
    <3>1. telling # None => telling \in LifeEvents /\ Underway(telling)
      BY DEF TypeOK, Underway
    <3> QED BY <1>4, <1>10, <3>1 DEF OrderInv, JoinsInOrder
  <2> QED BY <1>2, <2>1, <2>2, <2>3 DEF OrderInv, JoinsInOrder
<1>6. JoinsAreNew'
  <2> SUFFICES ASSUME NEW e \in LifeEvents, Underway(e)', e.joined
               PROVE  /\ e.of[2] <= visits'[e.of[1]]
                      /\ active[e.of[1]] < e.of[2]
                      /\ \A f \in Files : Released(f) /\ f.of[1] = e.of[1] => f.of[2] < e.of[2]
    BY <1>2 DEF JoinsAreNew, Released, In
  <2>1. Underway(e) \/ e = new
    BY <1>2, <1>10 DEF Underway
  <2>2. CASE Underway(e)
    <3>1. /\ e.of[2] <= visits[e.of[1]]
          /\ active[e.of[1]] < e.of[2]
          /\ \A f \in Files : Released(f) /\ f.of[1] = e.of[1] => f.of[2] < e.of[2]
      BY <2>2 DEF OrderInv, JoinsAreNew
    <3>2. visits[e.of[1]] <= visits'[e.of[1]] /\ visits[e.of[1]] \in Nat /\ visits'[e.of[1]] \in Nat
      BY <1>1, <1>11, EventParts
    <3>3. e.of[2] \in Nat
      BY EventParts
    <3> QED BY <3>1, <3>2, <3>3
  <2>3. CASE e = new
    <3>1. e.of[2] <= visits'[e.of[1]]
      BY <1>1, <1>2, <1>3, <2>3 DEF TypeOK
    <3>2. active[p] <= visits[p]
      BY DEF OrderInv, FilesBySession
    <3>3. \A f \in Files : Released(f) /\ f.of[1] = p => f.of[2] <= visits[p]
      BY DEF OrderInv, FilesBySession, Seen, Passed
    <3> QED BY <1>1, <1>3, <2>3, <3>1, <3>2, <3>3, FileParts
  <2> QED BY <2>1, <2>2, <2>3
<1>7. PushesPresent'
  <2>1. \A q \in Pids : csess'[q] \in {Absent, visits'[q]}
    BY <1>1, <1>2 DEF OrderInv, PushesPresent, TypeOK
  <2>2. ASSUME NEW u \in uploads' PROVE csess'[u[1]] = u[2]
    <3>1. u \in uploads /\ u \in Sessions /\ csess[u[1]] = u[2]
      BY <1>2 DEF OrderInv, PushesPresent, TypeOK
    <3>2. u[1] # p
      BY <1>2, <3>1, SessionParts
    <3> QED BY <1>2, <3>1, <3>2, SessionParts DEF TypeOK
  <2> QED BY <2>1, <2>2 DEF PushesPresent
<1>8. FilesBySession'
  <2>1. \A f : Seen(f)' <=> Seen(f)
    BY <1>2 DEF Seen, Passed, Released, In
  <2>3. \A q \in Pids : active'[q] <= visits'[q]
    BY <1>1, <1>2, <1>11 DEF OrderInv, FilesBySession
  <2>4. \A f \in Files : Seen(f) => f.file <= pushed' /\ f.of[2] <= visits'[f.of[1]]
    BY <1>1, <1>2, <1>11, FileParts DEF OrderInv, FilesBySession
  <2> QED BY <2>1, <2>3, <2>4 DEF OrderInv, FilesBySession
<1>9. ArriveInOrder' /\ ReleasedInOrder' /\ PublishedInOrder'
  BY <1>2 DEF OrderInv, ArriveInOrder, ReleasedInOrder, PublishedInOrder, Rising, Passed, Released, In
<1> QED BY <1>5, <1>6, <1>7, <1>8, <1>9 DEF OrderInv

\* What a step that touches neither events nor files leaves in order.
LEMMA FilesUntouched ==
  ASSUME OrderInv,
         UNCHANGED <<pushed, lane, active, pending, file, todo, out, visits>>
  PROVE  FilesBySession' /\ ArriveInOrder' /\ ReleasedInOrder' /\ PublishedInOrder'
  BY DEF OrderInv, FilesBySession, ArriveInOrder, ReleasedInOrder, PublishedInOrder,
         Rising, Seen, Passed, Released, In

\* A departure and the start of a push add no join.
LEMMA LeaveKeepsOrder ==
  ASSUME TypeOK, OrderInv, NEW p \in Pids, Leave(p) \/ Admit(p)
  PROVE  OrderInv'
<1>1. CASE Leave(p)
  <2> DEFINE new == [joined |-> FALSE, of |-> <<p, csess[p]>>]
  <2>1. /\ csess' = [csess EXCEPT ![p] = Absent]
        /\ uploads' = uploads \ {<<p, csess[p]>>}
        /\ life' = Append(life, new)
        /\ UNCHANGED <<visits, pushed, lane, sess, telling, events, active, pending, departed>>
        /\ UNCHANGED <<file, decoded, todo, encoding, out, lapsed>>
    BY <1>1 DEF Leave, Tell, mainVars, orderVars, taskVars, outVars
  <2>2. new \in LifeEvents /\ ~new.joined
    BY <1>1 DEF Leave, TypeOK, LifeEvents, Sessions, Absent
  <2> HIDE DEF new
  <2>3. life \in Seq(LifeEvents)
    BY DEF TypeOK
  <2>4. \A j \in DOMAIN life' : (j \in DOMAIN life /\ life'[j] = life[j]) \/ life'[j] = new
    BY <2>1, <2>2, <2>3, PutLast
  <2>5. \A e : In(e, life') <=> In(e, life) \/ e = new
    BY <2>1, <2>2, <2>3, InAppend
  <2>6. JoinsInOrder'
    <3>1. \A e : Older(e, new) /\ Older(new, e)
      BY <2>2 DEF Older
    <3> QED BY <2>1, <2>4, <3>1 DEF OrderInv, JoinsInOrder
  <2>7. JoinsAreNew'
    <3>1. \A e \in LifeEvents : Underway(e)' /\ e.joined => Underway(e)
      BY <2>1, <2>2, <2>5 DEF Underway
    <3>2. \A f : Released(f)' <=> Released(f)
      BY <2>1 DEF Released
    <3> QED BY <2>1, <3>1, <3>2 DEF OrderInv, JoinsAreNew
  <2>8. PushesPresent'
    <3>1. ASSUME NEW u \in uploads' PROVE csess'[u[1]] = u[2]
      <4>1. u \in uploads /\ u \in Sessions /\ csess[u[1]] = u[2]
        BY <2>1, <3>1 DEF OrderInv, PushesPresent, TypeOK
      <4>2. u[1] # p
        BY <2>1, <3>1, <4>1, SessionParts
      <4> QED BY <2>1, <4>1, <4>2, SessionParts DEF TypeOK
    <3>2. \A q \in Pids : csess'[q] \in {Absent, visits[q]}
      BY <2>1 DEF OrderInv, PushesPresent, TypeOK
    <3> QED BY <2>1, <3>1, <3>2 DEF PushesPresent
  <2> QED BY <2>1, <2>6, <2>7, <2>8, FilesUntouched DEF OrderInv
<1>2. CASE Admit(p)
  <2>1. /\ uploads' = uploads \cup {<<p, csess[p]>>}
        /\ UNCHANGED <<csess, visits, pushed, life, lane, sess, telling, events, active>>
        /\ UNCHANGED <<pending, departed, file, decoded, todo, encoding, out, lapsed>>
    BY <1>2 DEF Admit, mainVars, orderVars, taskVars, outVars
  <2>2. PushesPresent'
    BY <2>1 DEF OrderInv, PushesPresent
  <2>3. JoinsInOrder' /\ JoinsAreNew'
    BY <2>1 DEF OrderInv, JoinsInOrder, JoinsAreNew, Underway, Released, In
  <2> QED BY <2>1, <2>2, <2>3, FilesUntouched DEF OrderInv
<1> QED BY <1>1, <1>2

\* A file that is pushed is the last one, and of the last session.
LEMMA PushKeepsOrder ==
  ASSUME TypeOK, OrderInv, NEW u \in Sessions, PushFile(u)
  PROVE  OrderInv'
<1> DEFINE new == [file |-> pushed + 1, of |-> u]
<1>1. /\ u \in uploads /\ uploads' = uploads \ {u} /\ pushed' = pushed + 1
      /\ lane' = Append(lane, new) \/ lane' = lane
      /\ UNCHANGED <<csess, visits, life, sess, telling, events, active, pending>>
      /\ UNCHANGED <<departed, file, decoded, todo, encoding, out, lapsed>>
  BY DEF PushFile, mainVars, orderVars, taskVars, outVars
<1>2. pushed \in Nat /\ new \in Files /\ new.file = pushed + 1 /\ new.of = u
  BY Bounds DEF PushFile, TypeOK, Files
<1> HIDE DEF new
<1>3. u[1] \in Pids /\ u[2] = visits[u[1]]
  BY <1>1, SessionParts DEF OrderInv, PushesPresent, Absent
<1>4. \A f : In(f, lane') => In(f, lane) \/ f = new
  <2>1. lane \in Seq(Files)
    BY DEF TypeOK
  <2>2. \A f : In(f, Append(lane, new)) <=> In(f, lane) \/ f = new
    BY <1>2, <2>1, InAppend
  <2> QED BY <1>1, <2>2
<1>5. \A f \in Files : Seen(f) => f.file <= pushed /\ f.of[2] <= visits[f.of[1]]
  BY DEF OrderInv, FilesBySession
<1>6. \A f \in Files : Seen(f)' => Seen(f) \/ f = new
  BY <1>1, <1>4 DEF Seen, Passed, Released
<1>7. JoinsInOrder' /\ JoinsAreNew'
  BY <1>1 DEF OrderInv, JoinsInOrder, JoinsAreNew, Underway, Released, In
<1>8. PushesPresent'
  BY <1>1 DEF OrderInv, PushesPresent
<1>9. FilesBySession'
  <2>1. \A f \in Files : Seen(f)' => f.file <= pushed' /\ f.of[2] <= visits[f.of[1]]
    BY <1>1, <1>2, <1>3, <1>5, <1>6, FileParts
  <2>2. ASSUME NEW f \in Files, NEW g \in Files, Seen(f)', Seen(g)', f.of[1] = g.of[1], f.of[2] < g.of[2]
        PROVE  f.file < g.file
    <3>1. CASE f = new
      BY <1>3, <1>2, <2>1, <2>2, <3>1, FileParts
    <3>2. CASE f # new /\ g = new
      BY <1>2, <1>5, <1>6, <2>2, <3>2, FileParts
    <3>3. CASE f # new /\ g # new
      BY <1>6, <2>2, <3>3 DEF OrderInv, FilesBySession
    <3> QED BY <3>1, <3>2, <3>3
  <2>3. \A p \in Pids : active'[p] <= visits'[p]
    BY <1>1 DEF OrderInv, FilesBySession
  <2> QED BY <1>1, <2>1, <2>2, <2>3 DEF FilesBySession
<1>10. ArriveInOrder'
  <2>1. \A f \in Files : Seen(f) => f.file < new.file
    BY <1>2, <1>5, FileParts
  <2>2. Rising(lane')
    <3>1. \A f : In(f, lane) => f.file < new.file
      BY <2>1, InSeq DEF Seen, TypeOK
    <3> QED BY <1>1, <1>2, <3>1, RisingAppend DEF OrderInv, ArriveInOrder, TypeOK
  <2>3. file # None => \A f \in Files : In(f, lane') => file.file < f.file
    BY <1>4, <2>1 DEF OrderInv, ArriveInOrder, TypeOK, Seen
  <2>4. \A f \in Files : Passed(f) => \A g \in Files : In(g, lane') => f.file < g.file
    BY <1>4, <2>1 DEF OrderInv, ArriveInOrder, Seen
  <2>5. \A f \in Files : Passed(f)' <=> Passed(f)
    BY <1>1 DEF Passed, Released
  <2> QED BY <1>1, <2>2, <2>3, <2>4, <2>5 DEF OrderInv, ArriveInOrder
<1>11. ReleasedInOrder' /\ PublishedInOrder'
  BY <1>1 DEF OrderInv, ReleasedInOrder, PublishedInOrder, In
<1> QED BY <1>7, <1>8, <1>9, <1>10, <1>11 DEF OrderInv

\* The receive loop passes events on in the order in which they came.
LEMMA MainKeepsOrder ==
  ASSUME TypeOK, OrderInv, MainStep
  PROVE  OrderInv'
<1>1. /\ UNCHANGED <<csess, visits, uploads, pushed, lane, active, pending, departed>>
      /\ UNCHANGED <<file, decoded, todo, encoding, out, lapsed>>
  BY DEF MainStep, TakeEvent, CopyEvent, connVars, orderVars, taskVars, outVars
<1>2. life \in Seq(LifeEvents) /\ events \in Seq(LifeEvents) /\ telling \in LifeEvents \cup {None}
  BY DEF TypeOK
<1>3. JoinsInOrder' /\ \A e : Underway(e)' => Underway(e)
  <2>1. CASE TakeEvent
    <3>1. /\ telling = None /\ life # <<>> /\ life' = Tail(life) /\ events' = events
          /\ telling' = None \/ telling' = Head(life)
      BY <2>1 DEF TakeEvent
    <3>2. /\ Head(life) = life[1] /\ 1 \in DOMAIN life
          /\ \A i \in DOMAIN life' : i + 1 \in DOMAIN life /\ life'[i] = life[i + 1] /\ i + 1 > 1
      BY <1>2, <3>1, TakeHead
    <3>3. \A i \in DOMAIN life' : i \in Nat
      BY <1>2, <3>1, HeadTailProperties, LenProperties
    <3>4. JoinsInOrder'
      BY <3>1, <3>2, <3>3 DEF OrderInv, JoinsInOrder
    <3>5. \A e : Underway(e)' => Underway(e)
      <4>1. In(Head(life), life) /\ \A e : In(e, life') => In(e, life)
        BY <1>2, <3>1, InTail
      <4> QED BY <3>1, <4>1 DEF Underway
    <3> QED BY <3>4, <3>5
  <2>2. CASE CopyEvent
    <3>1. /\ telling # None /\ events' = Append(events, telling) /\ telling' = None /\ life' = life
      BY <2>2 DEF CopyEvent
    <3>2. \A i \in DOMAIN events' : (i \in DOMAIN events /\ events'[i] = events[i])
                                  \/ (i = Len(events) + 1 /\ events'[i] = telling)
      BY <1>2, <3>1, PutLast
    <3>3. \A i \in DOMAIN events : i \in Nat /\ i <= Len(events) /\ Len(events) \in Nat
      BY <1>2, LenProperties
    <3>4. JoinsInOrder'
      BY <3>1, <3>2, <3>3 DEF OrderInv, JoinsInOrder
    <3>5. \A e : In(e, events') <=> In(e, events) \/ e = telling
      BY <1>2, <3>1, InAppend
    <3>6. \A e : Underway(e)' => Underway(e)
      BY <3>1, <3>5 DEF Underway
    <3> QED BY <3>4, <3>6
  <2> QED BY <2>1, <2>2 DEF MainStep
<1>4. JoinsAreNew'
  <2>1. \A f : Released(f)' <=> Released(f)
    BY <1>1 DEF Released
  <2> QED BY <1>1, <1>3, <2>1 DEF OrderInv, JoinsAreNew
<1>5. PushesPresent'
  BY <1>1 DEF OrderInv, PushesPresent
<1> QED BY <1>1, <1>3, <1>4, <1>5, FilesUntouched DEF OrderInv

\* What a step of the file task leaves alone.
TaskFrame == UNCHANGED <<csess, visits, uploads, pushed, life, telling>>

\* A step of the file task brings no files and no joins.
LEMMA TaskFrameKeeps ==
  ASSUME OrderInv, TaskFrame,
         \A f \in Files : Seen(f)' => Seen(f),
         \A p \in Pids : active'[p] <= visits[p]
  PROVE  PushesPresent' /\ FilesBySession'
  BY DEF OrderInv, TaskFrame, PushesPresent, FilesBySession

\* A join releases what waited for it: later files than any released before.
LEMMA ApplyJoinKeepsOrder ==
  ASSUME TypeOK, OrderInv, ApplyEvent, Head(events).joined
  PROVE  OrderInv'
<1> DEFINE e == Head(events)
           s == e.of
           p == s[1]
           mine == {f \in Files : f.of = s}
<1>1. /\ events \in Seq(LifeEvents) /\ events # <<>> /\ events' = Tail(events)
      /\ e \in LifeEvents /\ s \in Sessions /\ p \in Pids /\ s[2] \in Nat
      /\ pending \in Seq(Files) /\ todo = <<>>
  BY ApplyTypes, EventParts DEF TypeOK, ApplyEvent
<1>2. /\ TaskFrame /\ UNCHANGED <<lane, sess, file, decoded, encoding, out, lapsed>>
      /\ active' = [active EXCEPT ![p] = s[2]]
      /\ todo' = Only(pending, mine)
      /\ \E S : pending' = Only(pending, S)
  <2>1. Joined(s)
    BY DEF ApplyEvent
  <2>2. /\ active' = [active EXCEPT ![p] = s[2]] /\ todo' = Only(pending, mine)
        /\ \E S : pending' = Only(pending, S)
    BY <2>1, Zenon DEF Joined
  <2> QED BY <2>2 DEF ApplyEvent, connVars, mainVars, outVars, TaskFrame
<1>3. /\ e = events[1] /\ 1 \in DOMAIN events /\ In(e, events) /\ e.joined
      /\ \A i \in DOMAIN events' : i + 1 \in DOMAIN events /\ events'[i] = events[i + 1] /\ i + 1 > 1
      /\ \A x : In(x, events') => In(x, events)
      /\ \A i \in DOMAIN events' : i \in Nat
  <2>1. \A i \in DOMAIN events' : i \in Nat
    BY <1>1, HeadTailProperties, LenProperties
  <2>2. /\ \A x : In(x, events') => In(x, events)
        /\ In(e, events)
    BY <1>1, InTail
  <2> QED BY <1>1, <2>1, <2>2, TakeHead
<1> HIDE DEF e, mine
<1>4. /\ \A f : In(f, todo') <=> In(f, pending) /\ f \in mine
      /\ \A f : In(f, pending') => In(f, pending)
  BY <1>1, <1>2, InOnly
<1>5. \A f \in mine : f \in Files /\ f.of[1] = p /\ f.of[2] = s[2]
  BY DEF mine
<1>6. JoinsInOrder'
  BY <1>2, <1>3 DEF OrderInv, JoinsInOrder, TaskFrame
<1>7. \A d \in LifeEvents : Underway(d)' => Underway(d) /\ Older(e, d)
  <2>1. \A d : In(d, events') => Older(e, d)
    BY <1>3 DEF OrderInv, JoinsInOrder, In
  <2>2. \A d : In(d, life) => Older(e, d)
    BY <1>3 DEF OrderInv, JoinsInOrder, In
  <2>3. telling # None => Older(e, telling)
    BY <1>3 DEF OrderInv, JoinsInOrder
  <2> QED BY <1>2, <1>3, <2>1, <2>2, <2>3 DEF Underway, TaskFrame
<1>8. /\ s[2] <= visits[p]
      /\ \A f \in Files : In(f, out) /\ f.of[1] = p => f.of[2] < s[2]
  BY <1>1, <1>3 DEF OrderInv, JoinsAreNew, Underway, Released
<1>9. JoinsAreNew'
  <2> SUFFICES ASSUME NEW d \in LifeEvents, Underway(d)', d.joined
               PROVE  /\ d.of[2] <= visits'[d.of[1]]
                      /\ active'[d.of[1]] < d.of[2]
                      /\ \A f \in Files : Released(f)' /\ f.of[1] = d.of[1] => f.of[2] < d.of[2]
    BY DEF JoinsAreNew
  <2>1. Underway(d) /\ (d.of[1] = p => s[2] < d.of[2])
    BY <1>3, <1>7 DEF Older
  <2>2. /\ d.of[2] <= visits[d.of[1]] /\ active[d.of[1]] < d.of[2]
        /\ \A f \in Files : Released(f) /\ f.of[1] = d.of[1] => f.of[2] < d.of[2]
    BY <2>1 DEF OrderInv, JoinsAreNew
  <2>3. active'[d.of[1]] < d.of[2]
    BY <1>1, <1>2, <2>1, <2>2, EventParts DEF TypeOK
  <2>4. ASSUME NEW f \in Files, Released(f)', f.of[1] = d.of[1] PROVE f.of[2] < d.of[2]
    <3>1. CASE In(f, out)
      BY <2>2, <2>4, <3>1 DEF Released
    <3>2. CASE In(f, todo')
      BY <1>4, <1>5, <2>1, <2>4, <3>2
    <3> QED BY <1>2, <2>4, <3>1, <3>2 DEF Released
  <2> QED BY <1>2, <2>2, <2>3, <2>4 DEF TaskFrame
<1>10. \A f : Passed(f)' => Passed(f)
  BY <1>2, <1>4 DEF Passed, Released
<1>11. \A f \in Files : Seen(f)' => Seen(f)
  BY <1>2, <1>10 DEF Seen
<1>12. \A q \in Pids : active'[q] <= visits[q]
  BY <1>1, <1>2, <1>8 DEF OrderInv, FilesBySession, TypeOK
<1>13. ArriveInOrder'
  <2>1. Rising(todo') /\ Rising(pending')
    BY <1>1, <1>2, RisingOnly DEF OrderInv, ArriveInOrder
  <2> QED BY <1>2, <1>10, <2>1 DEF OrderInv, ArriveInOrder
<1>14. ReleasedInOrder'
  <2> SUFFICES ASSUME NEW f \in Files, NEW g \in Files, In(f, out), In(g, todo'), f.of[1] = g.of[1]
               PROVE  f.file < g.file
    BY <1>2 DEF ReleasedInOrder
  <2>1. g.of[1] = p /\ g.of[2] = s[2] /\ In(g, pending)
    BY <1>4, <1>5
  <2>2. f.of[2] < g.of[2] /\ Seen(f) /\ Seen(g)
    BY <1>8, <2>1 DEF Seen, Passed, Released
  <2> QED BY <2>2 DEF OrderInv, FilesBySession
<1>15. PublishedInOrder'
  BY <1>2 DEF OrderInv, PublishedInOrder
<1> QED
  BY <1>2, <1>6, <1>9, <1>11, <1>12, <1>13, <1>14, <1>15, TaskFrameKeeps DEF OrderInv

\* Every other step of the file task: files move on, or are lost.
LEMMA MovesKeepJoins ==
  ASSUME OrderInv, TaskFrame,
         \A i \in DOMAIN events' : \E j \in DOMAIN events : events'[i] = events[j],
         \A i, j \in DOMAIN events' : i < j => Older(events'[i], events'[j]),
         \A p \in Pids : active'[p] \in Nat /\ active'[p] <= active[p],
         \A p \in Pids : active[p] \in Nat,
         \A f \in Files : Released(f)' => Released(f) \/ f.of[2] = active[f.of[1]]
  PROVE  JoinsInOrder' /\ JoinsAreNew'
<1>1. JoinsInOrder'
  BY DEF OrderInv, JoinsInOrder, TaskFrame
<1>2. \A e \in LifeEvents : Underway(e)' => Underway(e)
  BY DEF Underway, TaskFrame, In
<1>3. JoinsAreNew'
  <2> SUFFICES ASSUME NEW d \in LifeEvents, Underway(d)', d.joined
               PROVE  /\ d.of[2] <= visits'[d.of[1]]
                      /\ active'[d.of[1]] < d.of[2]
                      /\ \A f \in Files : Released(f)' /\ f.of[1] = d.of[1] => f.of[2] < d.of[2]
    BY DEF JoinsAreNew
  <2>1. /\ d.of[2] <= visits[d.of[1]] /\ active[d.of[1]] < d.of[2]
        /\ \A f \in Files : Released(f) /\ f.of[1] = d.of[1] => f.of[2] < d.of[2]
    BY <1>2 DEF OrderInv, JoinsAreNew
  <2>2. active'[d.of[1]] < d.of[2]
    BY <2>1, EventParts
  <2> QED BY <2>1, <2>2 DEF TaskFrame
<1> QED BY <1>1, <1>3

\* A leave keeps the order.
LEMMA ApplyLeaveKeepsOrder ==
  ASSUME TypeOK, OrderInv, ApplyEvent, ~Head(events).joined
  PROVE  OrderInv'
<1> DEFINE s == Head(events).of
<1>1. /\ events \in Seq(LifeEvents) /\ events # <<>> /\ events' = Tail(events)
      /\ s \in Sessions /\ s[1] \in Pids /\ pending \in Seq(Files)
  BY ApplyTypes, EventParts DEF TypeOK
<1>2. /\ TaskFrame /\ UNCHANGED <<lane, sess, todo, file, decoded, encoding, out, lapsed>>
      /\ active' = [active EXCEPT ![s[1]] = IF active[s[1]] = s[2] THEN Absent ELSE active[s[1]]]
      /\ pending' = Only(pending, {f \in Files : f.of # s})
  <2>1. Left(s)
    BY DEF ApplyEvent
  <2>2. /\ active' = [active EXCEPT ![s[1]] = IF active[s[1]] = s[2] THEN Absent ELSE active[s[1]]]
        /\ pending' = Only(pending, {f \in Files : f.of # s})
        /\ todo' = todo
    BY <2>1, Zenon DEF Left
  <2> QED BY <2>2 DEF ApplyEvent, connVars, mainVars, outVars, TaskFrame
<1> HIDE DEF s
<1>3. \A i \in DOMAIN events' :
        i + 1 \in DOMAIN events /\ events'[i] = events[i + 1] /\ i \in Nat
  <2>1. \A i \in DOMAIN events' : i \in Nat
    BY <1>1, HeadTailProperties, LenProperties
  <2> QED BY <1>1, <2>1, TakeHead
<1>4. \A p \in Pids : active[p] \in Nat /\ active'[p] \in Nat /\ active'[p] <= active[p]
  <2>1. active \in [Pids -> 0 .. MaxSess] /\ \A p \in Pids : active[p] \in Nat
    BY Bounds DEF TypeOK
  <2>2. \A p \in Pids : active'[p] = active[p] \/ active'[p] = 0
    BY <1>1, <1>2, <2>1 DEF Absent
  <2> QED BY <2>1, <2>2
<1>5. JoinsInOrder' /\ JoinsAreNew'
  <2>1. \A i, j \in DOMAIN events' : i < j => Older(events'[i], events'[j])
    BY <1>3 DEF OrderInv, JoinsInOrder
  <2>2. \A f : Released(f)' => Released(f)
    BY <1>2 DEF Released
  <2> QED BY <1>2, <1>3, <1>4, <2>1, <2>2, MovesKeepJoins
<1>6. \A f : In(f, pending') => In(f, pending)
  BY <1>1, <1>2, InOnly
<1>7. \A f : Passed(f)' => Passed(f)
  BY <1>2, <1>6 DEF Passed, Released
<1>8. \A f \in Files : Seen(f)' => Seen(f)
  BY <1>2, <1>7 DEF Seen
<1>9. \A q \in Pids : active'[q] <= visits[q]
  BY <1>4, Bounds DEF OrderInv, FilesBySession, TypeOK
<1>10. ArriveInOrder'
  <2>1. Rising(pending')
    BY <1>1, <1>2, RisingOnly DEF OrderInv, ArriveInOrder
  <2> QED BY <1>2, <1>7, <2>1 DEF OrderInv, ArriveInOrder
<1>11. ReleasedInOrder' /\ PublishedInOrder'
  BY <1>2 DEF OrderInv, ReleasedInOrder, PublishedInOrder
<1> QED
  BY <1>2, <1>5, <1>8, <1>9, <1>10, <1>11, TaskFrameKeeps DEF OrderInv

\* What is left to show of a step that changes neither events nor sessions.
LEMMA QuietMoves ==
  ASSUME TypeOK, OrderInv, TaskFrame, UNCHANGED <<events, active>>,
         \A f \in Files : Seen(f)' => Seen(f),
         \A f \in Files : Released(f)' => Released(f) \/ f.of[2] = active[f.of[1]]
  PROVE  JoinsInOrder' /\ JoinsAreNew' /\ PushesPresent' /\ FilesBySession'
<1>1. \A p \in Pids : active[p] \in Nat
  BY Bounds DEF TypeOK
<1>2. \A p \in Pids : active'[p] \in Nat /\ active'[p] <= active[p]
  BY <1>1
<1>3. /\ \A i \in DOMAIN events' : \E j \in DOMAIN events : events'[i] = events[j]
      /\ \A i, j \in DOMAIN events' : i < j => Older(events'[i], events'[j])
  BY DEF OrderInv, JoinsInOrder
<1>4. \A p \in Pids : active'[p] <= visits[p]
  BY DEF OrderInv, FilesBySession
<1> QED BY <1>1, <1>2, <1>3, <1>4, MovesKeepJoins, TaskFrameKeeps

\* A file that is taken keeps the order.
LEMMA TakeFileKeepsOrder ==
  ASSUME TypeOK, OrderInv, TakeFile
  PROVE  OrderInv'
<1>1. /\ lane # <<>> /\ lane \in Seq(Files) /\ file = None /\ Head(lane) \in Files
      /\ file' = Head(lane) /\ lane' = Tail(lane)
      /\ TaskFrame /\ UNCHANGED <<events, active, pending, todo, out>>
  BY TakeHead DEF TypeOK, TakeFile, connVars, mainVars, orderVars, outVars, TaskFrame
<1>2. Rising(lane) /\ Rising(pending) /\ Rising(todo)
  BY DEF OrderInv, ArriveInOrder
<1>3. In(Head(lane), lane) /\ \A f : In(f, lane') => In(f, lane)
  BY <1>1, InTail
<1>4. Rising(lane') /\ \A f : In(f, lane') => file'.file < f.file
  BY <1>1, <1>2, RisingTail
<1>5. \A f : Passed(f)' <=> Passed(f)
  BY <1>1 DEF Passed, Released
<1>6. /\ \A f \in Files : Seen(f)' => Seen(f)
      /\ \A f \in Files : Released(f)' => Released(f)
  BY <1>1, <1>3, <1>5 DEF Seen, Released
<1>7. \A f \in Files : Passed(f) => \A g \in Files : In(g, lane) => f.file < g.file
  BY DEF OrderInv, ArriveInOrder
<1>8. ArriveInOrder'
  BY <1>1, <1>2, <1>3, <1>4, <1>5, <1>7 DEF ArriveInOrder
<1>9. ReleasedInOrder' /\ PublishedInOrder'
  BY <1>1 DEF OrderInv, ReleasedInOrder, PublishedInOrder
<1> QED BY <1>1, <1>6, <1>8, <1>9, QuietMoves DEF OrderInv

\* A file that is routed comes after all that wait or are released.
LEMMA RouteKeepsOrder ==
  ASSUME TypeOK, OrderInv, Route
  PROVE  OrderInv'
<1>1. /\ file \in Files /\ file # None /\ file' = None /\ todo = <<>> /\ pending \in Seq(Files)
      /\ TaskFrame /\ UNCHANGED <<events, active, lane, out>>
      /\ \/ active[file.of[1]] = file.of[2] /\ todo' = <<file>> /\ pending' = pending
         \/ pending' = Append(pending, file) /\ todo' = todo
         \/ UNCHANGED <<pending, todo>>
  BY DEF TypeOK, Route, connVars, mainVars, TaskFrame
<1>2. \A f : In(f, todo') => f = file /\ active[file.of[1]] = file.of[2]
  BY <1>1 DEF In
<1>3. \A f : In(f, pending') => In(f, pending) \/ f = file
  <2>1. \A f : In(f, Append(pending, file)) <=> In(f, pending) \/ f = file
    BY <1>1, InAppend
  <2> QED BY <1>1, <2>1
<1>4. /\ \A f : Passed(f)' => Passed(f) \/ f = file
      /\ \A f \in Files : Seen(f)' => Seen(f)
      /\ \A f \in Files : Released(f)' => Released(f) \/ f.of[2] = active[f.of[1]]
  BY <1>1, <1>2, <1>3 DEF Seen, Passed, Released
<1>5. /\ \A g \in Files : In(g, lane) => file.file < g.file
      /\ \A f \in Files : Passed(f) => f.file < file.file
      /\ Rising(pending) /\ Rising(lane)
  BY <1>1 DEF OrderInv, ArriveInOrder
<1>6. ArriveInOrder'
  <2>1. Rising(todo')
    <3>1. DOMAIN <<file>> = 1 .. 1
      OBVIOUS
    <3>2. todo' = <<file>> \/ todo' = <<>>
      BY <1>1
    <3>3. DOMAIN <<>> = {}
      OBVIOUS
    <3> QED BY <3>1, <3>2, <3>3 DEF Rising
  <2>2. Rising(pending')
    <3>1. \A g : In(g, pending) => g.file < file.file
      BY <1>1, <1>5, InSeq DEF Passed
    <3> QED BY <1>1, <1>5, <3>1, RisingAppend
  <2>3. \A f \in Files : Passed(f)' => \A g \in Files : In(g, lane) => f.file < g.file
    BY <1>4, <1>5 DEF OrderInv, ArriveInOrder
  <2> QED BY <1>1, <1>5, <2>1, <2>2, <2>3 DEF ArriveInOrder
<1>7. ReleasedInOrder'
  BY <1>1, <1>2, <1>5 DEF ReleasedInOrder, Passed, Released
<1>8. PublishedInOrder'
  BY <1>1 DEF OrderInv, PublishedInOrder
<1> QED BY <1>1, <1>4, <1>6, <1>7, <1>8, QuietMoves DEF OrderInv

\* Files that are not published after all leave the others as they are.
LEMMA EncodeKeepsOrder ==
  ASSUME TypeOK, OrderInv, Encode
  PROVE  OrderInv'
<1>1. /\ todo # <<>> /\ todo \in Seq(Files) /\ (todo' = Tail(todo) \/ todo' = todo)
      /\ TaskFrame /\ UNCHANGED <<events, active, lane, file, pending, out>>
  BY DEF TypeOK, Encode, connVars, mainVars, orderVars, outVars, TaskFrame
<1>2. \A f : In(f, todo') => In(f, todo)
  BY <1>1, InTail
<1>3. Rising(todo')
  BY <1>1, RisingTail DEF OrderInv, ArriveInOrder
<1>4. /\ \A f : Passed(f)' => Passed(f)
      /\ \A f : Released(f)' => Released(f)
      /\ \A f \in Files : Seen(f)' => Seen(f)
  BY <1>1, <1>2 DEF Seen, Passed, Released
<1>5. ArriveInOrder'
  BY <1>1, <1>3, <1>4 DEF OrderInv, ArriveInOrder
<1>6. ReleasedInOrder' /\ PublishedInOrder'
  BY <1>1, <1>2 DEF OrderInv, ReleasedInOrder, PublishedInOrder
<1> QED BY <1>1, <1>4, <1>5, <1>6, QuietMoves DEF OrderInv

\* The file that is published is the oldest of those to publish.
LEMMA PublishKeepsOrder ==
  ASSUME TypeOK, OrderInv, Publish
  PROVE  OrderInv'
<1> DEFINE h == Head(todo)
<1>1. /\ todo # <<>> /\ todo \in Seq(Files) /\ todo' = Tail(todo) /\ h \in Files
      /\ out \in Seq(Files) /\ (out' = Append(out, h) \/ out' = out)
      /\ TaskFrame /\ UNCHANGED <<events, active, lane, file, pending>>
  BY TakeHead DEF TypeOK, Publish, connVars, mainVars, orderVars, TaskFrame
<1>2. In(h, todo) /\ \A f : In(f, todo') => In(f, todo)
  BY <1>1, InTail
<1>3. Rising(todo)
  BY DEF OrderInv, ArriveInOrder
<1>4. Rising(todo') /\ \A f : In(f, todo') => h.file < f.file
  BY <1>1, <1>3, RisingTail
<1> HIDE DEF h
<1>5. \A f : In(f, out') => In(f, out) \/ f = h
  <2>1. \A f : In(f, Append(out, h)) <=> In(f, out) \/ f = h
    BY <1>1, InAppend
  <2> QED BY <1>1, <2>1
<1>6. /\ \A f : Passed(f)' => Passed(f)
      /\ \A f : Released(f)' => Released(f)
      /\ \A f \in Files : Seen(f)' => Seen(f)
  BY <1>1, <1>2, <1>5 DEF Seen, Passed, Released
<1>7. ArriveInOrder'
  BY <1>1, <1>4, <1>6 DEF OrderInv, ArriveInOrder
<1>8. ReleasedInOrder'
  BY <1>2, <1>4, <1>5 DEF OrderInv, ReleasedInOrder
<1>9. PublishedInOrder'
  <2>1. CASE out' = out
    BY <2>1 DEF OrderInv, PublishedInOrder
  <2>2. CASE out' = Append(out, h)
    <3>1. /\ DOMAIN out' = 1 .. Len(out) + 1 /\ DOMAIN out = 1 .. Len(out) /\ Len(out) \in Nat
          /\ \A i \in DOMAIN out : out'[i] = out[i]
          /\ out'[Len(out) + 1] = h
      BY <1>1, <2>2, AppendProperties, LenProperties
    <3>2. \A f \in Files : In(f, out) /\ f.of[1] = h.of[1] => f.file < h.file
      BY <1>1, <1>2 DEF OrderInv, ReleasedInOrder
    <3>3. \A i \in DOMAIN out : out[i] \in Files /\ In(out[i], out)
      BY <1>1 DEF In
    <3> QED BY <3>1, <3>2, <3>3 DEF OrderInv, PublishedInOrder
  <2> QED BY <1>1, <2>1, <2>2
<1> QED BY <1>1, <1>6, <1>7, <1>8, <1>9, QuietMoves DEF OrderInv

\* The other steps keep the order.
LEMMA OthersKeepOrder ==
  ASSUME TypeOK, OrderInv, Decode \/ Expire \/ Forget \/ UNCHANGED vars
  PROVE  OrderInv'
<1>1. /\ pending \in Seq(Files)
      /\ pending' = pending \/ (pending # <<>> /\ pending' = Tail(pending))
      /\ TaskFrame /\ UNCHANGED <<events, active, lane, file, todo, out>>
  BY DEF TypeOK, Decode, Expire, Forget, vars, connVars, mainVars, orderVars, taskVars, outVars,
         TaskFrame
<1>2. \A f : In(f, pending') => In(f, pending)
  BY <1>1, InTail
<1>3. Rising(pending')
  BY <1>1, RisingTail DEF OrderInv, ArriveInOrder
<1>4. /\ \A f : Passed(f)' => Passed(f)
      /\ \A f : Released(f)' => Released(f)
      /\ \A f \in Files : Seen(f)' => Seen(f)
  BY <1>1, <1>2 DEF Seen, Passed, Released
<1>5. ArriveInOrder'
  BY <1>1, <1>3, <1>4 DEF OrderInv, ArriveInOrder
<1>6. ReleasedInOrder' /\ PublishedInOrder'
  BY <1>1 DEF OrderInv, ReleasedInOrder, PublishedInOrder
<1> QED BY <1>1, <1>4, <1>5, <1>6, QuietMoves DEF OrderInv

\* The order holds initially.
LEMMA OrderInit == Init => OrderInv
<1> SUFFICES ASSUME Init PROVE OrderInv
  OBVIOUS
<1>1. /\ life = <<>> /\ lane = <<>> /\ events = <<>> /\ pending = <<>> /\ todo = <<>> /\ out = <<>>
      /\ telling = None /\ file = None /\ uploads = {}
      /\ \A p \in Pids : csess[p] = 0 /\ active[p] = 0 /\ visits[p] = 0
  BY DEF Init, Absent
<1>2. DOMAIN <<>> = {}
  OBVIOUS
<1>3. \A e : ~Underway(e)
  BY <1>1, <1>2 DEF Underway, In
<1>4. \A f : ~Seen(f) /\ ~Passed(f) /\ ~Released(f)
  BY <1>1, <1>2 DEF Seen, Passed, Released, In
<1>5. JoinsInOrder /\ JoinsAreNew /\ PushesPresent /\ FilesBySession
  BY <1>1, <1>2, <1>3, <1>4 DEF JoinsInOrder, JoinsAreNew, PushesPresent, FilesBySession, Absent
<1>6. ArriveInOrder /\ ReleasedInOrder /\ PublishedInOrder
  BY <1>1, <1>2, <1>4 DEF ArriveInOrder, ReleasedInOrder, PublishedInOrder, Rising, In
<1> QED BY <1>5, <1>6 DEF OrderInv

\* Every step keeps the order.
LEMMA OrderStep == TypeOK /\ OrderInv /\ [Next]_vars => OrderInv'
<1> SUFFICES ASSUME TypeOK, OrderInv, [Next]_vars PROVE OrderInv'
  OBVIOUS
<1>1. CASE ConnectorStep
  BY <1>1, JoinKeepsOrder, LeaveKeepsOrder, PushKeepsOrder DEF ConnectorStep
<1>2. CASE MainStep
  BY <1>2, MainKeepsOrder
<1>3. CASE TaskStep
  BY <1>3, ApplyJoinKeepsOrder, ApplyLeaveKeepsOrder, TakeFileKeepsOrder, OthersKeepOrder,
     RouteKeepsOrder, EncodeKeepsOrder, PublishKeepsOrder DEF TaskStep
<1>4. CASE Expire \/ Forget \/ UNCHANGED vars
  BY <1>4, OthersKeepOrder
<1> QED BY <1>1, <1>2, <1>3, <1>4 DEF Next

\* Files of a participant are published in the order in which they were pushed, for any
\* number of participants, sessions and files, although some waited for their join.
THEOREM OrderKept == Spec => []PublishedInOrder
<1>1. Init => TypeOK /\ OrderInv
  BY TypeInit, OrderInit
<1>2. TypeOK /\ OrderInv /\ [Next]_vars => (TypeOK /\ OrderInv)'
  BY TypeStep, OrderStep
<1>3. TypeOK /\ OrderInv => PublishedInOrder
  BY DEF OrderInv
<1> QED BY <1>1, <1>2, <1>3, PTL DEF Spec

-----------------------------------------------------------------------------
(* What waits. *)

\* The join of f's session is neither past nor given up.
MayWait(f) == active[f.of[1]] # f.of[2] /\ f.of \notin SetOf(departed)

\* The property, file by file.
LEMMA WaitsAsMayWait == WaitsForJoinOnly <=> \A f : In(f, pending) => MayWait(f)
  BY DEF WaitsForJoinOnly, MayWait, In

\* A join sweeps what waited for it.
LEMMA JoinedSweeps ==
  ASSUME TypeOK, WaitsForJoinOnly, NEW s \in Sessions, Joined(s)
  PROVE  WaitsForJoinOnly'
<1> DEFINE p == s[1]
           replaced == active[p] # Absent /\ active[p] # s[2]
           before == IF replaced THEN Remember(departed, <<p, active[p]>>) ELSE departed
           gone == Only(before, Sessions \ {s})
           keep == {f \in Files : f.of[1] # p \/ (f.of # s /\ f.of \notin SetOf(gone))}
<1>1. active' = [active EXCEPT ![p] = s[2]] /\ departed' = gone /\ pending' = Only(pending, keep)
  BY Zenon DEF Joined
<1>2. /\ s = <<p, s[2]>> /\ p \in Pids /\ s[2] \in 1 .. MaxSess /\ active[p] \in 0 .. MaxSess
      /\ departed \in Seq(Sessions) /\ pending \in Seq(Files) /\ active \in [Pids -> 0 .. MaxSess]
  BY SessionParts DEF TypeOK
<1>3. /\ before \in Seq(Sessions)
      /\ SetOf(before) \subseteq SetOf(departed) \cup {<<p, active[p]>>}
  <2>1. replaced => <<p, active[p]>> \in Sessions
    BY <1>2, Bounds DEF Absent, Sessions
  <2>2. replaced => /\ Remember(departed, <<p, active[p]>>) \in Seq(Sessions)
                    /\ SetOf(Remember(departed, <<p, active[p]>>)) = SetOf(departed) \cup {<<p, active[p]>>}
    BY <1>2, <2>1, RememberType
  <2> QED BY <1>2, <2>2
<1> HIDE DEF before
<1>4. SetOf(gone) \subseteq SetOf(departed) \cup {<<p, active[p]>>}
  <2>1. \A x : In(x, gone) => In(x, before)
    BY <1>3, InOnly
  <2> QED BY <1>3, <2>1 DEF In, SetOf
<1> HIDE DEF gone
<1>5. \A f : In(f, pending') <=> In(f, pending) /\ f \in keep
  BY <1>1, <1>2, InOnly
<1>6. ASSUME NEW f, In(f, pending') PROVE MayWait(f)'
  <2>1. /\ f \in Files /\ f.of = <<f.of[1], f.of[2]>> /\ f.of[1] \in Pids
        /\ f.of[1] # p \/ (f.of # s /\ f.of \notin SetOf(gone))
    BY <1>5, <1>6, FileParts, SessionParts
  <2>2. active[f.of[1]] # f.of[2] /\ f.of \notin SetOf(departed)
    BY <1>5, <1>6, WaitsAsMayWait DEF MayWait
  <2>3. CASE f.of[1] # p
    <3>1. f.of # <<p, active[p]>>
      BY <2>1, <2>3
    <3> QED BY <1>1, <1>2, <1>4, <2>1, <2>2, <2>3, <3>1 DEF MayWait
  <2>4. CASE f.of[1] = p
    <3>1. f.of[2] # s[2]
      BY <1>2, <2>1, <2>4
    <3> QED BY <1>1, <1>2, <2>1, <2>4, <3>1 DEF MayWait
  <2> QED BY <2>3, <2>4
<1>7. (\A f : In(f, pending') => MayWait(f)') => WaitsForJoinOnly'
  BY DEF WaitsForJoinOnly, MayWait, In
<1> QED BY <1>6, <1>7

\* A leave sweeps what it outdates.
LEMMA LeftSweeps ==
  ASSUME TypeOK, WaitsForJoinOnly, NEW s \in Sessions, Left(s)
  PROVE  WaitsForJoinOnly'
<1>1. /\ active' = [active EXCEPT ![s[1]] = IF active[s[1]] = s[2] THEN Absent ELSE active[s[1]]]
      /\ departed' = Remember(departed, s)
      /\ pending' = Only(pending, {f \in Files : f.of # s})
  BY Zenon DEF Left
<1>2. SetOf(departed') = SetOf(departed) \cup {s}
  BY <1>1, RememberType DEF TypeOK
<1>3. \A f : In(f, pending') => In(f, pending) /\ f \in Files /\ f.of # s
  BY <1>1, InOnly DEF TypeOK
<1>4. \A p \in Pids : active'[p] = active[p] \/ active'[p] = 0
  BY <1>1 DEF TypeOK, Absent
<1>5. ASSUME NEW f, In(f, pending') PROVE MayWait(f)'
  <2>1. f.of # s /\ f.of[1] \in Pids /\ f.of[2] # 0
    BY <1>3, <1>5, FileParts
  <2>2. active[f.of[1]] # f.of[2] /\ f.of \notin SetOf(departed)
    BY <1>3, <1>5, WaitsAsMayWait DEF MayWait
  <2> QED BY <1>2, <1>4, <2>1, <2>2 DEF MayWait
<1>6. (\A f : In(f, pending') => MayWait(f)') => WaitsForJoinOnly'
  BY DEF WaitsForJoinOnly, MayWait, In
<1> QED BY <1>5, <1>6

\* Every step keeps it.
LEMMA WaitsStep == TypeOK /\ WaitsForJoinOnly /\ [Next]_vars => WaitsForJoinOnly'
<1> SUFFICES ASSUME TypeOK, WaitsForJoinOnly, [Next]_vars PROVE WaitsForJoinOnly'
  OBVIOUS
<1>1. CASE ApplyEvent
  <2>1. Head(events).of \in Sessions
    <3>1. events \in Seq(LifeEvents) /\ events # <<>>
      BY <1>1 DEF ApplyEvent, TypeOK
    <3>2. Head(events) \in LifeEvents
      BY <3>1, TakeHead
    <3> QED BY <3>2 DEF LifeEvents
  <2> QED BY <1>1, <2>1, JoinedSweeps, LeftSweeps DEF ApplyEvent
<1>2. CASE Route
  <2>1. /\ UNCHANGED <<active, departed>> /\ file \in Files /\ pending \in Seq(Files)
        /\ pending' = pending \/ (Waits(file) /\ pending' = Append(pending, file))
    BY <1>2 DEF Route, TypeOK
  <2>2. \A f : In(f, pending') => In(f, pending) \/ (f = file /\ MayWait(f))
    <3>1. \A f : In(f, Append(pending, file)) <=> In(f, pending) \/ f = file
      BY <2>1, InAppend
    <3> QED BY <2>1, <3>1 DEF Waits, MayWait
  <2>3. \A f : In(f, pending') => MayWait(f)'
    BY <2>1, <2>2, WaitsAsMayWait DEF MayWait
  <2> QED BY <2>3 DEF WaitsForJoinOnly, MayWait, In
<1>3. CASE Expire \/ Forget
  <2>1. /\ active' = active
        /\ pending' = pending \/ (pending # <<>> /\ pending' = Tail(pending))
        /\ departed' = departed \/ (departed # <<>> /\ departed' = Tail(departed))
    BY <1>3 DEF Expire, Forget
  <2>2. pending \in Seq(Files) /\ departed \in Seq(Sessions)
    BY DEF TypeOK
  <2>3. \A f : In(f, pending') => In(f, pending)
    BY <2>1, <2>2, InTail
  <2>4. \A x : In(x, departed') => In(x, departed)
    BY <2>1, <2>2, InTail
  <2>5. SetOf(departed') \subseteq SetOf(departed)
    BY <2>4 DEF In, SetOf
  <2>6. \A f : In(f, pending') => MayWait(f)'
    BY <2>1, <2>3, <2>5, WaitsAsMayWait DEF MayWait
  <2> QED BY <2>6 DEF WaitsForJoinOnly, MayWait, In
<1>4. CASE UNCHANGED <<active, pending, departed>>
  BY <1>4 DEF WaitsForJoinOnly, SetOf
<1>5. ConnectorStep \/ MainStep \/ TakeFile \/ Decode \/ Encode \/ Publish \/ UNCHANGED vars =>
        UNCHANGED <<active, pending, departed>>
  BY DEF ConnectorStep, Join, Leave, Admit, PushFile, MainStep, TakeEvent, CopyEvent, TakeFile,
         Decode, Encode, Publish, vars, orderVars
<1> QED BY <1>1, <1>2, <1>3, <1>4, <1>5 DEF Next, TaskStep

\* Nothing waits for a session that has joined or departed as far as the orderer knows:
\* what a join or a departure decides about never stays behind in the buffer.
THEOREM WaitsOnly == Spec => []WaitsForJoinOnly
<1>1. Init => WaitsForJoinOnly
  <2>1. DOMAIN <<>> = {}
    OBVIOUS
  <2> QED BY <2>1 DEF Init, WaitsForJoinOnly
<1>2. (TypeOK /\ WaitsForJoinOnly) /\ [Next]_vars => (TypeOK /\ WaitsForJoinOnly)'
  BY TypeStep, WaitsStep
<1> QED BY <1>1, <1>2, TypeInit, PTL DEF Spec

-----------------------------------------------------------------------------
(* Publishing. *)

\* Who publishes has checked the session.
LEMMA PublishChecks ==
  ASSUME TypeOK, [Next]_vars, out' # out
  PROVE  IsActive(out'[Len(out')])
<1>1. Publish
  <2>1. ConnectorStep \/ MainStep \/ UNCHANGED vars => out' = out
    BY DEF ConnectorStep, Join, Leave, Admit, PushFile, MainStep, TakeEvent, CopyEvent, vars, outVars
  <2>2. ApplyEvent \/ TakeFile \/ Decode \/ Route \/ Encode \/ Expire \/ Forget => out' = out
    BY DEF ApplyEvent, TakeFile, Decode, Route, Encode, Expire, Forget, outVars
  <2> QED BY <2>1, <2>2 DEF Next, TaskStep
<1>2. /\ IsActive(Head(todo)) /\ out' = Append(out, Head(todo))
      /\ out \in Seq(Files) /\ Head(todo) \in Files
  BY <1>1, TakeHead DEF Publish, TypeOK
<1>3. out'[Len(out')] = Head(todo)
  BY <1>2, PutLast
<1> QED BY <1>2, <1>3

\* A file is published only while its session is the one the hub knows, in every step.
THEOREM SessionChecked == Spec => PublishedInSession
<1>1. TypeOK /\ [Next]_vars => [out' # out => IsActive(out'[Len(out')])]_vars
  BY PublishChecks
<1> QED BY <1>1, TypeCorrect, PTL DEF Spec, PublishedInSession
=============================================================================
