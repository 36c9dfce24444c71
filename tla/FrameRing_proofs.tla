--------------------------- MODULE FrameRing_proofs ---------------------------
(***************************************************************************)
(* Proofs about FrameRing, for any number of connectors, participants,     *)
(* tracks and slots and under every fault the module has (crashes,         *)
(* cancelled sends, repeated signals, participants that move between       *)
(* connectors, rings that are replaced), but where a theorem says what it  *)
(* supposes: OneConnector, OneProcess, Calm.                               *)
(***************************************************************************)
EXTENDS FrameRing, SequenceTheorems, TLAPS

-----------------------------------------------------------------------------
(* Queues. *)

\* What is in a queue after its head was taken was in it before.
LEMMA TailElements ==
  ASSUME NEW S, NEW q \in Seq(S), q # <<>>
  PROVE  /\ Head(q) \in S /\ Tail(q) \in Seq(S)
         /\ 1 \in DOMAIN q /\ Head(q) = q[1]
         /\ \A i \in DOMAIN Tail(q) : i \in Nat /\ i + 1 \in DOMAIN q /\ Tail(q)[i] = q[i + 1]
<1>1. Len(Tail(q)) = Len(q) - 1 /\ \A i \in 1 .. Len(Tail(q)) : Tail(q)[i] = q[i + 1]
  BY HeadTailProperties
<1>2. QED
  BY <1>1, HeadTailProperties, LenProperties

\* A message appended to a queue is its only new element.
LEMMA AppendElements ==
  ASSUME NEW S, NEW q \in Seq(S), NEW m \in S
  PROVE  /\ Append(q, m) \in Seq(S)
         /\ \A i, j \in DOMAIN Append(q, m) : i <= j =>
              \/ Append(q, m)[j] = m
              \/ /\ i \in DOMAIN q /\ Append(q, m)[i] = q[i]
                 /\ j \in DOMAIN q /\ Append(q, m)[j] = q[j]
<1>1. DOMAIN Append(q, m) = 1 .. Len(q) + 1 /\ DOMAIN q = 1 .. Len(q) /\ Len(q) \in Nat
  BY AppendProperties, LenProperties
<1>2. QED
  BY <1>1, AppendProperties

\* A prefix of a queue holds nothing that the queue does not.
LEMMA PrefixElements ==
  ASSUME NEW S, NEW q \in Seq(S), NEW n \in 0 .. Len(q)
  PROVE  /\ SubSeq(q, 1, n) \in Seq(S)
         /\ \A i \in DOMAIN SubSeq(q, 1, n) : i \in DOMAIN q /\ SubSeq(q, 1, n)[i] = q[i]
  OBVIOUS

\* Nor does a queue from which one message was withdrawn.
LEMMA WithdrawElements ==
  ASSUME NEW S, NEW q \in Seq(S), NEW n \in DOMAIN q
  PROVE  /\ Without(q, n) \in Seq(S)
         /\ \A i \in DOMAIN Without(q, n) :
              \/ i < n /\ i \in DOMAIN q /\ Without(q, n)[i] = q[i]
              \/ n <= i /\ i + 1 \in DOMAIN q /\ Without(q, n)[i] = q[i + 1]
<1> DEFINE a == SubSeq(q, 1, n - 1)
           b == SubSeq(q, n + 1, Len(q))
<1>1. Len(q) \in Nat /\ DOMAIN q = 1 .. Len(q) /\ n \in 1 .. Len(q)
  BY LenProperties
<1>2. /\ a \in Seq(S) /\ Len(a) = n - 1
      /\ \A i \in 1 .. n - 1 : a[i] = q[i]
  <2>1. \A i \in 1 .. n - 1 : q[i] \in S
    BY <1>1
  <2>2. /\ a \in Seq(S) /\ Len(a) = IF 1 <= n - 1 THEN (n - 1) - 1 + 1 ELSE 0
        /\ \A i \in 1 .. (n - 1) - 1 + 1 : a[i] = q[1 + i - 1]
    BY <1>1, <2>1, SubSeqProperties
  <2>3. QED
    BY <1>1, <2>2
<1>3. /\ b \in Seq(S) /\ Len(b) = Len(q) - n
      /\ \A i \in 1 .. Len(q) - n : b[i] = q[n + i]
  <2>1. \A i \in n + 1 .. Len(q) : q[i] \in S
    BY <1>1
  <2>2. /\ b \in Seq(S)
        /\ Len(b) = IF n + 1 <= Len(q) THEN Len(q) - (n + 1) + 1 ELSE 0
        /\ \A i \in 1 .. Len(q) - (n + 1) + 1 : b[i] = q[(n + 1) + i - 1]
    BY <1>1, <2>1, SubSeqProperties
  <2>3. QED
    BY <1>1, <2>2
<1> HIDE DEF a, b
<1>4. /\ a \o b \in Seq(S) /\ Len(a \o b) = Len(q) - 1
      /\ \A i \in 1 .. Len(q) - 1 : (a \o b)[i] = IF i <= n - 1 THEN a[i] ELSE b[i - (n - 1)]
  <2>1. /\ a \o b \in Seq(S) /\ Len(a \o b) = Len(a) + Len(b)
        /\ \A i \in 1 .. Len(a) + Len(b) : (a \o b)[i] =
             IF i <= Len(a) THEN a[i] ELSE b[i - Len(a)]
    BY <1>2, <1>3, ConcatProperties, Zenon
  <2>2. Len(a) + Len(b) = Len(q) - 1
    BY <1>1, <1>2, <1>3
  <2>3. QED
    BY <1>2, <2>1, <2>2
<1>5. DOMAIN (a \o b) = 1 .. Len(q) - 1
  BY <1>4, LenProperties, Zenon
<1>6. \A i \in 1 .. Len(q) - 1 :
        \/ i < n /\ i \in DOMAIN q /\ (a \o b)[i] = q[i]
        \/ n <= i /\ i + 1 \in DOMAIN q /\ (a \o b)[i] = q[i + 1]
  <2>1. TAKE i \in 1 .. Len(q) - 1
  <2>2. CASE i <= n - 1
    <3>1. i \in 1 .. n - 1 /\ i \in DOMAIN q
      BY <1>1, <2>2
    <3>2. QED
      BY <1>2, <1>4, <2>2, <3>1
  <2>3. CASE ~(i <= n - 1)
    <3>1. i - (n - 1) \in 1 .. Len(q) - n /\ i + 1 \in DOMAIN q /\ n + (i - (n - 1)) = i + 1
      BY <1>1, <2>3
    <3>2. b[i - (n - 1)] = q[i + 1]
      BY <1>3, <3>1
    <3>3. (a \o b)[i] = b[i - (n - 1)]
      BY <1>4, <2>3
    <3>4. QED
      BY <3>1, <3>2, <3>3
  <2>4. QED
    BY <2>2, <2>3
<1>7. QED
  <2>1. Without(q, n) = a \o b
    BY DEF a, b, Without
  <2>2. QED
    BY <1>4, <1>5, <1>6, <2>1, Zenon

-----------------------------------------------------------------------------
(* Types. *)

\* Types hold initially.
LEMMA TypeInit == Init => TypeOK
  BY FrameRingAssumption DEF Init, TypeOK, Cell, Cells, Slots, Frames, Keys, States, Holds

\* Freeing a slot, or marking it READY, leaves its frame alone.
LEMMA CellsStayCells ==
  \A x \in Cells :
    /\ [x EXCEPT !.st = "free"] \in Cells /\ [x EXCEPT !.st = "ready"] \in Cells
    /\ [x EXCEPT !.st = "free"].frame = x.frame /\ [x EXCEPT !.st = "free"].key = x.key
    /\ [x EXCEPT !.st = "ready"].frame = x.frame /\ [x EXCEPT !.st = "ready"].key = x.key
  BY DEF Cells, States

\* release_slot() of any set of tracks gives a ring.
LEMMA ReleaseHeldType ==
  ASSUME TypeOK, NEW K
  PROVE  ReleaseHeld(K) \in [Conns -> [Slots -> Cells]]
<1>1. \A r \in Conns, s \in Slots :
        ring[r][s] \in Cells /\ [ring[r][s] EXCEPT !.st = "free"] \in Cells
  <2>1. \A r \in Conns, s \in Slots : ring[r][s] \in Cells
    BY DEF TypeOK
  <2>2. QED
    BY <2>1, CellsStayCells, Zenon
<1> DEFINE released(r, s) ==
             /\ ring[r][s].st = "ready"
             /\ \E k \in K : latest[k] # None /\ latest[k].ring = r /\ latest[k].slot = s
           cell(r, s) == IF released(r, s) THEN [ring[r][s] EXCEPT !.st = "free"]
                         ELSE ring[r][s]
<1>2. \A r \in Conns, s \in Slots : cell(r, s) \in Cells
  <2> HIDE DEF released
  <2>1. QED
    BY <1>1
<1>3. ReleaseHeld(K) = [r \in Conns |-> [s \in Slots |-> cell(r, s)]]
  BY DEF ReleaseHeld
<1> HIDE DEF cell
<1>4. QED
  BY <1>2, <1>3

\* Releasing the slots of some tracks and forgetting their holds keeps the types.
LEMMA DropHoldsType ==
  ASSUME TypeOK, NEW K, DropHolds(K)
  PROVE  ring' \in [Conns -> [Slots -> Cells]] /\ latest' \in [Keys -> Holds \cup {None}]
  BY ReleaseHeldType DEF TypeOK, DropHolds

\* Every step keeps the types.
LEMMA TypeStep == TypeOK /\ [Next]_vars => TypeOK'
<1> SUFFICES ASSUME TypeOK, [Next]_vars PROVE TypeOK'
  OBVIOUS
<1> USE FrameRingAssumption
<1> DEFINE Msgs == Events \cup Signals
<1>a. ASSUME NEW c \in Conns, NEW m \in Msgs, SendTo(c, m)
      PROVE  chan' \in [Conns -> Seq(Msgs)]
  BY <1>a, AppendElements DEF TypeOK, SendTo
<1>b. ASSUME NEW c \in Conns, NEW type, Take(c, type)
      PROVE  /\ chan' \in [Conns -> Seq(Msgs)] /\ Head(chan[c]) \in Msgs
             /\ Head(chan[c]).type = type
  <2>1. chan[c] \in Seq(Msgs) /\ chan[c] # <<>>
    BY <1>b DEF TypeOK, Take
  <2>2. Head(chan[c]) \in Msgs /\ Tail(chan[c]) \in Seq(Msgs)
    BY <2>1, TailElements
  <2>3. QED
    BY <1>b, <2>2 DEF TypeOK, Take
<1>c. \A m \in Msgs : m.type = "frame" => m \in Signals
  BY DEF Events, Signals
<1>d. \A m \in Msgs : m.type # "frame" => m \in Events
  BY DEF Events, Signals
<1>1. ASSUME NEW c \in Conns, NEW p \in Pids, Join(c, p) PROVE TypeOK'
  <2>1. [type |-> "joined", pid |-> p, sess |-> sessions + 1] \in Msgs
    BY DEF TypeOK, Events
  <2>2. chan' \in [Conns -> Seq(Msgs)]
    BY <1>1, <1>a, <2>1 DEF Join
  <2>3. sessions' \in 0 .. MaxSess /\ sess' \in [Conns -> [Pids -> Nat]]
    BY <1>1 DEF Join, TypeOK
  <2>4. QED
    BY <1>1, <2>2, <2>3 DEF Join, TypeOK, hubVars
<1>2. ASSUME NEW c \in Conns, NEW p \in Pids, Leave(c, p) PROVE TypeOK'
  <2>1. [type |-> "left", pid |-> p, sess |-> sess[c][p]] \in Msgs
    BY DEF TypeOK, Events
  <2>2. chan' \in [Conns -> Seq(Msgs)]
    BY <1>2, <1>a, <2>1 DEF Leave
  <2>3. QED
    BY <1>2, <2>2 DEF Leave, TypeOK, hubVars
<1>3. ASSUME NEW c \in Conns, NEW k \in Keys, StartStream(c, k) PROVE TypeOK'
  BY <1>3 DEF StartStream, TypeOK, hubVars
<1>4. ASSUME NEW c \in Conns, NEW k \in Keys, EndStream(c, k) PROVE TypeOK'
  <2>1. chan' \in [Conns -> Seq(Msgs)]
    <3>1. CASE UNCHANGED chan
      BY <3>1 DEF TypeOK
    <3>2. CASE \E i \in DOMAIN chan[c] :
                 chan' = [chan EXCEPT ![c] = Without(@, i)]
      <4>1. PICK i \in DOMAIN chan[c] :
              chan' = [chan EXCEPT ![c] = Without(@, i)]
        BY <3>2
      <4>2. chan[c] \in Seq(Msgs)
        BY DEF TypeOK
      <4>3. Without(chan[c], i) \in Seq(Msgs)
        BY <4>2, WithdrawElements
      <4>4. QED
        BY <4>1, <4>3 DEF TypeOK
    <3>3. QED
      BY <1>4, <3>1, <3>2 DEF EndStream
  <2>2. QED
    BY <1>4, <2>1 DEF EndStream, TypeOK, hubVars
<1>5. ASSUME NEW c \in Conns, NEW k \in Keys, Claim(c, k) PROVE TypeOK'
  BY <1>5 DEF Claim, NextFree, After, TypeOK, hubVars, Cell, Cells, Writes, Slots, Frames, States
<1>6. ASSUME NEW c \in Conns, NEW k \in Keys, Full(c, k) PROVE TypeOK'
  BY <1>6 DEF Full, TypeOK, hubVars
<1>7. ASSUME NEW c \in Conns, Commit(c) PROVE TypeOK'
  <2>1. push[c] \in Writes /\ push[c].slot \in Slots /\ ring[c][push[c].slot] \in Cells
    BY <1>7 DEF Commit, TypeOK, Writes
  <2>2. ring' \in [Conns -> [Slots -> Cells]]
    <3>1. [ring[c][push[c].slot] EXCEPT !.st = "ready"] \in Cells
      BY <2>1, CellsStayCells DEF States
    <3>2. QED
      BY <1>7, <2>1, <3>1 DEF Commit, TypeOK
  <2>3. push' \in [Conns -> Writes \cup {None}]
    <3>1. [push[c] EXCEPT !.phase = "ready"] \in Writes
      BY <2>1 DEF Writes
    <3>2. QED
      BY <1>7, <3>1 DEF Commit, TypeOK
  <2>4. QED
    BY <1>7, <2>2, <2>3 DEF Commit, TypeOK, hubVars
<1>8. ASSUME NEW c \in Conns, Send(c) PROVE TypeOK'
  <2> DEFINE m == [type |-> "frame", key |-> push[c].key,
                   slot |-> push[c].slot, frame |-> push[c].frame]
  <2>1. m \in Msgs
    BY <1>8 DEF Send, TypeOK, Writes, Signals
  <2>2. <<m>> \in Seq(Msgs) /\ <<m, m>> \in Seq(Msgs) /\ chan[c] \in Seq(Msgs)
    BY <2>1 DEF TypeOK
  <2>3. chan' \in [Conns -> Seq(Msgs)]
    <3> HIDE DEF m, Msgs
    <3>1. chan[c] \o <<m>> \in Seq(Msgs) /\ chan[c] \o <<m, m>> \in Seq(Msgs)
      BY <2>2, ConcatProperties
    <3>2. \/ chan' = [chan EXCEPT ![c] = chan[c] \o <<m>>]
          \/ chan' = [chan EXCEPT ![c] = chan[c] \o <<m, m>>]
      BY <1>8 DEF Send, m
    <3>3. chan \in [Conns -> Seq(Msgs)]
      BY DEF TypeOK, Msgs
    <3>4. QED
      BY <3>1, <3>2, <3>3
  <2>4. QED
    BY <1>8, <2>3 DEF Send, TypeOK, hubVars
<1>9. ASSUME NEW c \in Conns, Crash(c) PROVE TypeOK'
  <2>1. chan[c] \in Seq(Msgs)
    BY DEF TypeOK
  <2>2. chan' \in [Conns -> Seq(Msgs)]
    BY <1>9, <2>1, PrefixElements DEF Crash, TypeOK
  <2>3. QED
    BY <1>9, <2>2 DEF Crash, TypeOK, hubVars
<1>10. ASSUME NEW c \in Conns, Register(c) PROVE TypeOK'
  BY <1>10, DropHoldsType DEF Register, TypeOK, connVars
<1>11. ASSUME NEW c \in Conns, HubJoined(c) PROVE TypeOK'
  <2>1. Take(c, "joined")
    BY <1>11 DEF HubJoined
  <2>2. Head(chan[c]) \in Events /\ chan' \in [Conns -> Seq(Msgs)]
    BY <2>1, <1>b, <1>d
  <2>3. QED
    BY <1>11, <2>1, <2>2, SMTT(30) DEF HubJoined, Take, TypeOK, connVars, Events
<1>12. ASSUME NEW c \in Conns, HubLeft(c) PROVE TypeOK'
  <2>1. Take(c, "left")
    BY <1>12 DEF HubLeft
  <2>2. Head(chan[c]) \in Events /\ chan' \in [Conns -> Seq(Msgs)]
    BY <2>1, <1>b, <1>d
  <2>3. ring' \in [Conns -> [Slots -> Cells]] /\ latest' \in [Keys -> Holds \cup {None}]
    BY <1>12, DropHoldsType DEF HubLeft, TypeOK
  <2>4. pconn' \in [Pids -> ConnIds \cup {None}] /\ psess' \in [Pids -> Nat]
    <3>1. Head(chan[c]).pid \in Pids
      BY <2>2 DEF Events
    <3>2. \/ pconn' = pconn /\ psess' = psess
          \/ /\ pconn' = [pconn EXCEPT ![Head(chan[c]).pid] = None]
             /\ psess' = [psess EXCEPT ![Head(chan[c]).pid] = 0]
      BY <1>12 DEF HubLeft
    <3>3. pconn \in [Pids -> ConnIds \cup {None}] /\ psess \in [Pids -> Nat]
      BY DEF TypeOK
    <3>4. QED
      BY <3>1, <3>2, <3>3
  <2>5. QED
    BY <2>1, <2>2, <2>3, <2>4 DEF Take, TypeOK, connVars
<1>13. ASSUME NEW c \in Conns, HubFrameUnknown(c) PROVE TypeOK'
  <2>1. Take(c, "frame")
    BY <1>13 DEF HubFrameUnknown
  <2>2. chan' \in [Conns -> Seq(Msgs)]
    BY <2>1, <1>b
  <2>3. QED
    BY <1>13, <2>1, <2>2 DEF HubFrameUnknown, Take, TypeOK, connVars
<1>14. ASSUME NEW c \in Conns, HubFrameRejected(c) PROVE TypeOK'
  <2>1. Take(c, "frame")
    BY <1>14 DEF HubFrameRejected
  <2>2. chan' \in [Conns -> Seq(Msgs)]
    BY <2>1, <1>b
  <2>3. ring' \in [Conns -> [Slots -> Cells]]
    <3>1. CASE ring' = ring
      BY <3>1 DEF TypeOK
    <3>2. CASE \E r \in Conns, s \in Slots : ring' = [ring EXCEPT ![r][s].st = "free"]
      <4>1. PICK r \in Conns, s \in Slots : ring' = [ring EXCEPT ![r][s].st = "free"]
        BY <3>2
      <4>2. [ring[r][s] EXCEPT !.st = "free"] \in Cells
        <5>1. ring[r][s] \in Cells
          BY DEF TypeOK
        <5>2. QED
          BY <5>1, CellsStayCells, Zenon
      <4>3. QED
        BY <4>1, <4>2 DEF TypeOK
    <3>3. Head(chan[c]) \in Signals
      BY <2>1, <1>b, <1>c
    <3>4. Head(chan[c]).slot \in Slots /\ Head(chan[c]).key[1] \in Pids
      BY <3>3 DEF Signals, Keys
    <3>5. RingFor(Head(chan[c]).key[1]) \in Conns \cup {None}
      BY <3>4 DEF RingFor, TypeOK
    <3>6. QED
      BY <1>14, <3>1, <3>2, <3>4, <3>5 DEF HubFrameRejected
  <2>4. QED
    BY ZenonT(40), <1>14, <2>1, <2>2, <2>3 DEF HubFrameRejected, Take, TypeOK, connVars
<1>15. ASSUME NEW c \in Conns, HubFrame(c) PROVE TypeOK'
  <2>1. Take(c, "frame")
    BY <1>15 DEF HubFrame
  <2>2. Head(chan[c]) \in Signals /\ chan' \in [Conns -> Seq(Msgs)]
    BY <2>1, <1>b, <1>c
  <2>3. RingFor(Head(chan[c]).key[1]) \in Conns
    BY <1>15, <2>2 DEF HubFrame, RingFor, TypeOK, Signals, Keys
  <2>4. ring' \in [Conns -> [Slots -> Cells]]
    <3>1. ReleaseHeld({Head(chan[c]).key}) \in [Conns -> [Slots -> Cells]]
      BY ReleaseHeldType
    <3>2. QED
      BY <1>15, <3>1 DEF HubFrame, TypeOK
  <2>5. latest' \in [Keys -> Holds \cup {None}]
    <3> DEFINE h == [ring |-> RingFor(Head(chan[c]).key[1]), slot |-> Head(chan[c]).slot,
                     frame |-> Head(chan[c]).frame]
    <3>1. h \in Holds /\ Head(chan[c]).key \in Keys
      BY <2>2, <2>3 DEF Holds, Signals
    <3>2. latest' = latest \/ latest' = [latest EXCEPT ![Head(chan[c]).key] = h]
      BY <1>15 DEF HubFrame
    <3> HIDE DEF h
    <3>3. QED
      BY <3>1, <3>2 DEF TypeOK
  <2>6. QED
    BY <1>15, <2>1, <2>2, <2>4, <2>5 DEF HubFrame, Take, TypeOK, connVars
<1>16. CASE UNCHANGED vars
  BY <1>16 DEF vars, connVars, hubVars, TypeOK
<1>17. QED
  BY <1>1, <1>2, <1>3, <1>4, <1>5, <1>6, <1>7, <1>8, <1>9, <1>10, <1>11, <1>12,
     <1>13, <1>14, <1>15, <1>16 DEF Next, ConnStep, HubStep

\* The state is well-typed in every reachable state, whatever fails.
THEOREM TypeCorrect == Spec => []TypeOK
  BY TypeInit, TypeStep, PTL DEF Spec

-----------------------------------------------------------------------------
(* A held frame does not change under its readers. *)

\* Frame f exists already, and any slot with its pixels has pixels of track k.
FrameOf(f, k) ==
  /\ f <= frames
  /\ \A d \in Conns, s \in Slots : ring[d][s].frame = f => ring[d][s].key = k

\* A slot that is being written says so, hence is not held.
WritersMark ==
  \A c \in Conns : push[c] # None /\ push[c].phase = "writing" =>
    ring[c][push[c].slot].st = "writing"

\* Frames in slots were pushed: the next one will differ from all of them.
FramesPushed ==
  \A d \in Conns, s \in Slots : ring[d][s].frame # None => ring[d][s].frame <= frames

\* Writers and signals name the track their frame belongs to.
WritersAgree == \A c \in Conns : push[c] # None => FrameOf(push[c].frame, push[c].key)
SignalsAgree ==
  \A c \in Conns : \A i \in DOMAIN chan[c] :
    chan[c][i].type = "frame" => FrameOf(chan[c][i].frame, chan[c][i].key)

\* The inductive invariant.  HeldFrameStable alone is not inductive: a signal
\* must not name another track than the slot, in whichever ring it is looked
\* up, and a commit must not land on a held slot.
IInv ==
  /\ TypeOK
  /\ HeldFrameStable
  /\ WritersMark
  /\ FramesPushed
  /\ WritersAgree
  /\ SignalsAgree

\* The fields of a cell.
LEMMA CellIs ==
  \A x \in Cells : \A st, f, k :
    x = Cell(st, f, k) <=> x.st = st /\ x.frame = f /\ x.key = k
  BY DEF Cells, Cell

\* The invariant holds initially.
LEMMA IInvInit == Init => IInv
<1> SUFFICES ASSUME Init PROVE IInv
  OBVIOUS
<1>1. TypeOK
  BY TypeInit
<1>2. HeldFrameStable /\ WritersMark /\ FramesPushed /\ WritersAgree
  BY DEF Init, HeldFrameStable, WritersMark, FramesPushed, WritersAgree, Cell
<1>3. SignalsAgree
  BY DEF Init, SignalsAgree
<1>4. QED
  BY <1>1, <1>2, <1>3 DEF IInv

\* Releases leave the frames where they are.
LEMMA ReleaseKeepsFrames ==
  ASSUME TypeOK, NEW K, NEW d \in Conns, NEW s \in Slots
  PROVE  /\ ReleaseHeld(K)[d][s].frame = ring[d][s].frame
         /\ ReleaseHeld(K)[d][s].key = ring[d][s].key
         /\ ReleaseHeld(K)[d][s].st = ring[d][s].st \/ ring[d][s].st = "ready"
<1>1. ring[d][s] \in Cells
  BY DEF TypeOK
<1>2. ReleaseHeld(K)[d][s] \in {ring[d][s], [ring[d][s] EXCEPT !.st = "free"]}
  BY DEF ReleaseHeld
<1>3. ReleaseHeld(K)[d][s] = ring[d][s] \/ ring[d][s].st = "ready"
  BY DEF ReleaseHeld
<1>4. QED
  BY <1>1, <1>2, <1>3, CellsStayCells

\* Releasing what the tracks in K hold does not touch what the others hold.
LEMMA ReleaseSparesOthers ==
  ASSUME TypeOK, HeldFrameStable, NEW K \in SUBSET Keys, NEW k \in Keys \ K, latest[k] # None
  PROVE  ReleaseHeld(K)[latest[k].ring][latest[k].slot] = Cell("ready", latest[k].frame, k)
<1> DEFINE r == latest[k].ring
           s == latest[k].slot
<1>1. r \in Conns /\ s \in Slots
  BY DEF TypeOK, Holds
<1>2. ring[r][s] = Cell("ready", latest[k].frame, k)
  BY DEF HeldFrameStable
<1>3. ASSUME NEW j \in K, latest[j] # None, latest[j].ring = r, latest[j].slot = s
      PROVE  FALSE
  <2>1. ring[r][s] = Cell("ready", latest[j].frame, j)
    BY <1>3 DEF HeldFrameStable
  <2>2. QED
    BY <1>2, <2>1 DEF Cell
<1> HIDE DEF r, s
<1>4. ReleaseHeld(K)[r][s] = ring[r][s]
  BY <1>1, <1>3 DEF ReleaseHeld
<1>5. QED
  BY <1>2, <1>4 DEF r, s

\* A slot nobody holds may be released, rewritten or lost.
LEMMA UnheldMayChange ==
  ASSUME TypeOK, HeldFrameStable, latest' = latest,
         \A d \in Conns, s \in Slots : Held(d, s) => ring'[d][s] = ring[d][s]
  PROVE  HeldFrameStable'
<1> SUFFICES ASSUME NEW k \in Keys, latest'[k] # None
             PROVE  ring'[latest'[k].ring][latest'[k].slot] = Cell("ready", latest'[k].frame, k)
  BY DEF HeldFrameStable
<1>1. latest[k] # None /\ latest[k].ring \in Conns /\ latest[k].slot \in Slots
  BY DEF TypeOK, Holds
<1>2. Held(latest[k].ring, latest[k].slot)
  BY <1>1 DEF Held
<1>3. QED
  BY <1>1, <1>2 DEF HeldFrameStable

\* Dropping holds, together with their slots, keeps the others.
LEMMA DropKeepsStable ==
  ASSUME TypeOK, HeldFrameStable, NEW K \in SUBSET Keys, DropHolds(K)
  PROVE  HeldFrameStable'
<1> SUFFICES ASSUME NEW k \in Keys, latest'[k] # None
             PROVE  ring'[latest'[k].ring][latest'[k].slot] = Cell("ready", latest'[k].frame, k)
  BY DEF HeldFrameStable
<1>1. k \notin K /\ latest'[k] = latest[k] /\ ring' = ReleaseHeld(K)
  BY DEF DropHolds
<1>2. QED
  BY <1>1, ReleaseSparesOthers

\* What the hub does with a rejected signal: nothing, or one unheld slot is freed.
LEMMA RejectEffect ==
  ASSUME TypeOK, NEW c \in Conns, HubFrameRejected(c)
  PROVE  \/ ring' = ring
         \/ \E r \in Conns, s \in Slots :
              /\ ~Held(r, s) /\ ring[r][s].st = "ready"
              /\ ring' = [ring EXCEPT ![r][s].st = "free"]
<1>1. Take(c, "frame")
  BY DEF HubFrameRejected
<1>2. Head(chan[c]) \in Events \cup Signals /\ Head(chan[c]).type = "frame"
  <2>1. chan[c] \in Seq(Events \cup Signals) /\ chan[c] # <<>>
    BY <1>1 DEF TypeOK, Take
  <2>2. QED
    BY <1>1, <2>1, TailElements DEF Take
<1>3. Head(chan[c]).slot \in Slots /\ Head(chan[c]).key[1] \in Pids
  BY <1>2 DEF Events, Signals, Keys
<1>4. RingFor(Head(chan[c]).key[1]) \in Conns \cup {None}
  BY <1>3 DEF RingFor, TypeOK
<1>5. QED
  BY <1>3, <1>4 DEF HubFrameRejected

\* Except where a new frame is written, a step moves no frames between slots.
LEMMA FramesStay ==
  ASSUME TypeOK, [Next]_vars, ~ \E c \in Conns, k \in Keys : Claim(c, k)
  PROVE  /\ frames <= frames'
         /\ \A d \in Conns, s \in Slots :
              ring'[d][s].frame = ring[d][s].frame /\ ring'[d][s].key = ring[d][s].key
<1> DEFINE Stay == /\ frames <= frames'
                   /\ \A d \in Conns, s \in Slots :
                        /\ ring'[d][s].frame = ring[d][s].frame
                        /\ ring'[d][s].key = ring[d][s].key
<1> SUFFICES Stay
  OBVIOUS
<1>a. frames \in Nat /\ \A d \in Conns, s \in Slots : ring[d][s] \in Cells
  BY FrameRingAssumption DEF TypeOK
<1>b. ASSUME ring' = ring, frames' = frames PROVE Stay
  BY <1>a, <1>b
<1>c. ASSUME NEW K, ring' = ReleaseHeld(K), frames' = frames PROVE Stay
  BY <1>a, <1>c, ReleaseKeepsFrames
<1>1. ASSUME NEW c \in Conns, ConnStep(c) PROVE Stay
  <2>1. ASSUME NEW k \in Keys, Full(c, k) PROVE Stay
    BY <1>a, <2>1 DEF Full
  <2>2. CASE Commit(c)
    <3>1. [ring[c][push[c].slot] EXCEPT !.st = "ready"].frame = ring[c][push[c].slot].frame
          /\ [ring[c][push[c].slot] EXCEPT !.st = "ready"].key = ring[c][push[c].slot].key
      <4>1. push[c].slot \in Slots
        BY <2>2 DEF Commit, TypeOK, Writes
      <4>2. QED
        BY <1>a, <4>1, CellsStayCells
    <3>2. ring \in [Conns -> [Slots -> Cells]]
      BY DEF TypeOK
    <3>3. QED
      BY <1>a, <2>2, <3>1, <3>2 DEF Commit
  <2>3. QED
    BY <1>1, <1>b, <2>1, <2>2
    DEF ConnStep, Join, Leave, StartStream, EndStream, Send, Crash
<1>2. ASSUME NEW c \in Conns, Register(c) PROVE Stay
  BY <1>2, <1>c DEF Register, DropHolds, connVars
<1>3. ASSUME NEW c \in Conns, HubStep(c) PROVE Stay
  <2>1. frames' = frames
    BY <1>3 DEF HubStep, HubJoined, HubLeft, HubFrameUnknown, HubFrameRejected, HubFrame,
                Take, connVars
  <2>2. CASE HubFrameRejected(c)
    <3>1. CASE ring' = ring
      BY <1>b, <2>1, <3>1
    <3>2. ASSUME NEW r \in Conns, NEW u \in Slots,
                 ring' = [ring EXCEPT ![r][u].st = "free"]
          PROVE  Stay
      <4>1. /\ [ring[r][u] EXCEPT !.st = "free"].frame = ring[r][u].frame
            /\ [ring[r][u] EXCEPT !.st = "free"].key = ring[r][u].key
        BY <1>a, CellsStayCells
      <4>2. ring \in [Conns -> [Slots -> Cells]]
        BY DEF TypeOK
      <4>3. QED
        BY <1>a, <2>1, <3>2, <4>1, <4>2
    <3>3. QED
      BY <2>2, <3>1, <3>2, RejectEffect
  <2>3. QED
    BY <1>3, <1>b, <1>c, <2>1, <2>2
    DEF HubStep, HubJoined, HubLeft, HubFrameUnknown, HubFrame, DropHolds
<1>4. CASE UNCHANGED vars
  BY <1>4, <1>b DEF vars, connVars
<1>5. QED
  BY <1>1, <1>2, <1>3, <1>4 DEF Next

\* write_frame() up to the WRITING mark changes one FREE slot.
LEMMA ClaimEffect ==
  ASSUME TypeOK, NEW c \in Conns, NEW k \in Keys, Claim(c, k)
  PROVE  \E u \in Slots :
           /\ ring[c][u].st = "free"
           /\ ring'[c][u] = Cell("writing", frames + 1, k)
           /\ \A d \in Conns, s \in Slots : d # c \/ s # u => ring'[d][s] = ring[d][s]
           /\ frames' = frames + 1
           /\ push' = [push EXCEPT ![c] = [slot |-> u, frame |-> frames + 1,
                                           key |-> k, phase |-> "writing"]]
           /\ UNCHANGED <<chan, latest>>
<1>1. PICK u \in Slots :
        /\ NextFree(c, u)
        /\ ring' = [ring EXCEPT ![c][u] = Cell("writing", frames + 1, k)]
        /\ push' = [push EXCEPT ![c] = [slot |-> u, frame |-> frames + 1,
                                        key |-> k, phase |-> "writing"]]
  BY DEF Claim
<1>2. ring \in [Conns -> [Slots -> Cells]]
  BY DEF TypeOK
<1>3. QED
  BY ZenonT(40), <1>1, <1>2 DEF Claim, NextFree, hubVars

\* Which track a frame belongs to never changes.
LEMMA FrameOfStays ==
  ASSUME TypeOK, FramesPushed, [Next]_vars, NEW f \in Frames, NEW k, FrameOf(f, k)
  PROVE  FrameOf(f, k)'
<1>a. frames \in Nat /\ frames' \in Nat /\ f \in Nat
  BY TypeStep, FrameRingAssumption DEF TypeOK, Frames
<1>1. CASE ~ \E c \in Conns, j \in Keys : Claim(c, j)
  BY <1>a, <1>1, FramesStay DEF FrameOf
<1>2. ASSUME NEW c \in Conns, NEW j \in Keys, Claim(c, j) PROVE FrameOf(f, k)'
  <2>1. PICK u \in Slots :
          /\ ring'[c][u] = Cell("writing", frames + 1, j)
          /\ \A d \in Conns, s \in Slots : d # c \/ s # u => ring'[d][s] = ring[d][s]
          /\ frames' = frames + 1
    BY <1>2, ClaimEffect
  <2>2. ring'[c][u].frame = frames + 1 /\ ring'[c][u].key = j
    BY <2>1 DEF Cell
  <2>3. QED
    BY <1>a, <2>1, <2>2 DEF FrameOf
<1>3. QED
  BY <1>1, <1>2

\* Every step keeps the frames as pushed.
LEMMA FramesPushedStep == TypeOK /\ FramesPushed /\ [Next]_vars => FramesPushed'
<1> SUFFICES ASSUME TypeOK, FramesPushed, [Next]_vars PROVE FramesPushed'
  OBVIOUS
<1>a. frames \in Nat /\ frames' \in Nat
  BY TypeStep, FrameRingAssumption DEF TypeOK
<1>b. \A d \in Conns, s \in Slots : ring[d][s].frame \in Nat \/ ring[d][s].frame = None
  BY DEF TypeOK, Cells, Frames
<1>1. CASE ~ \E c \in Conns, k \in Keys : Claim(c, k)
  BY <1>a, <1>b, <1>1, FramesStay DEF FramesPushed
<1>2. ASSUME NEW c \in Conns, NEW k \in Keys, Claim(c, k) PROVE FramesPushed'
  <2>1. PICK u \in Slots :
          /\ ring'[c][u] = Cell("writing", frames + 1, k)
          /\ \A d \in Conns, s \in Slots : d # c \/ s # u => ring'[d][s] = ring[d][s]
          /\ frames' = frames + 1
    BY <1>2, ClaimEffect
  <2>2. ring'[c][u].frame = frames + 1 /\ ring'[c][u].key = k
    BY <2>1 DEF Cell
  <2>3. QED
    BY <1>a, <1>b, <2>1, <2>2 DEF FramesPushed
<1>3. QED
  BY <1>1, <1>2

\* HeldFrameStable is kept by every step.
LEMMA HeldFrameStableStep == IInv /\ [Next]_vars => HeldFrameStable'
<1> SUFFICES ASSUME IInv, [Next]_vars PROVE HeldFrameStable'
  OBVIOUS
<1> USE DEF IInv
<1>a. ring \in [Conns -> [Slots -> Cells]]
  BY DEF TypeOK
<1>b. \A d \in Conns, s \in Slots : Held(d, s) => ring[d][s].st = "ready"
  <2>1. \A f, k : Cell("ready", f, k).st = "ready"
    BY DEF Cell
  <2>2. SUFFICES ASSUME NEW d \in Conns, NEW s \in Slots, Held(d, s)
                 PROVE  ring[d][s].st = "ready"
    OBVIOUS
  <2>3. PICK k \in Keys : latest[k] # None /\ latest[k].ring = d /\ latest[k].slot = s
    BY <2>2 DEF Held
  <2>4. ring[d][s] = Cell("ready", latest[k].frame, k)
    BY <2>3 DEF HeldFrameStable
  <2>5. QED
    BY <2>1, <2>4
<1>1. ASSUME NEW c \in Conns, NEW k \in Keys, Claim(c, k) PROVE HeldFrameStable'
  BY <1>b, <1>1, ClaimEffect, UnheldMayChange
<1>2. ASSUME NEW c \in Conns, Commit(c) PROVE HeldFrameStable'
  <2>1. ring[c][push[c].slot].st = "writing" /\ push[c].slot \in Slots
    BY <1>2 DEF Commit, WritersMark, TypeOK, Writes
  <2>2. \A d \in Conns, s \in Slots : Held(d, s) => ring'[d][s] = ring[d][s]
    BY <1>a, <1>b, <1>2, <2>1 DEF Commit
  <2>3. QED
    BY <1>2, <2>2, UnheldMayChange DEF Commit, hubVars
<1>3. ASSUME NEW c \in Conns, Register(c) PROVE HeldFrameStable'
  BY <1>3, DropKeepsStable DEF Register
<1>4. ASSUME NEW c \in Conns, HubLeft(c) PROVE HeldFrameStable'
  <2>1. CASE UNCHANGED <<ring, latest>>
    BY <2>1, UnheldMayChange
  <2>2. CASE ~ UNCHANGED <<ring, latest>>
    BY <1>4, <2>2, DropKeepsStable DEF HubLeft
  <2>3. QED
    BY <2>1, <2>2
<1>5. ASSUME NEW c \in Conns, HubFrameRejected(c) PROVE HeldFrameStable'
  <2>1. latest' = latest
    BY <1>5 DEF HubFrameRejected
  <2>2. \A d \in Conns, s \in Slots : Held(d, s) => ring'[d][s] = ring[d][s]
    BY <1>5, <1>a, RejectEffect
  <2>3. QED
    BY <2>1, <2>2, UnheldMayChange
<1>6. ASSUME NEW c \in Conns, HubFrame(c) PROVE HeldFrameStable'
  <2> DEFINE m == Head(chan[c])
             r == RingFor(m.key[1])
  <2>1. CASE Held(r, m.slot)
    BY <1>6, <2>1, UnheldMayChange DEF HubFrame
  <2>2. CASE ~Held(r, m.slot)
    <3>1. m \in Events \cup Signals /\ m.type = "frame" /\ m = chan[c][1] /\ 1 \in DOMAIN chan[c]
      <4>1. chan[c] \in Seq(Events \cup Signals) /\ chan[c] # <<>> /\ m.type = "frame"
        BY <1>6 DEF HubFrame, Take, TypeOK
      <4>2. QED
        BY <4>1, TailElements
    <3>2. m.slot \in Slots /\ m.key \in Keys /\ m.key[1] \in Pids /\ r \in Conns
      <4>1. m.slot \in Slots /\ m.key \in Keys /\ m.key[1] \in Pids
        BY <3>1 DEF Events, Signals, Keys
      <4>2. r \in Conns \cup {None}
        BY <4>1 DEF RingFor, TypeOK
      <4>3. QED
        BY <1>6, <4>1, <4>2 DEF HubFrame
    <3>3. /\ ring' = ReleaseHeld({m.key})
          /\ latest' = [latest EXCEPT ![m.key] = [ring |-> r, slot |-> m.slot, frame |-> m.frame]]
          /\ ring[r][m.slot].st = "ready" /\ ring[r][m.slot].frame = m.frame
      BY <1>6, <2>2 DEF HubFrame, Readable
    <3>4. ring[r][m.slot].key = m.key
      <4>1. FrameOf(chan[c][1].frame, chan[c][1].key)
        BY <3>1 DEF SignalsAgree
      <4>2. FrameOf(m.frame, m.key)
        BY <3>1, <4>1
      <4> HIDE DEF m, r
      <4> QED BY <3>2, <3>3, <4>2 DEF FrameOf
    <3> HIDE DEF m, r
    <3>5. SUFFICES ASSUME NEW k \in Keys, latest'[k] # None
                   PROVE  ring'[latest'[k].ring][latest'[k].slot]
                            = Cell("ready", latest'[k].frame, k)
      BY DEF HeldFrameStable
    <3>6. CASE k = m.key
      <4>1. latest'[k] = [ring |-> r, slot |-> m.slot, frame |-> m.frame]
        BY <3>3, <3>6 DEF TypeOK
      <4>2. ring'[r][m.slot] = ring[r][m.slot]
        BY <2>2, <3>2, <3>3 DEF ReleaseHeld, Held, m, r
      <4>3. ring[r][m.slot] = Cell("ready", m.frame, k)
        BY <1>a, <3>2, <3>3, <3>4, <3>6, CellIs
      <4>4. QED
        BY <4>1, <4>2, <4>3
    <3>7. CASE k # m.key
      <4>1. latest'[k] = latest[k]
        BY <3>3, <3>7 DEF TypeOK
      <4>2. QED
        BY <3>2, <3>3, <3>5, <3>7, <4>1, ReleaseSparesOthers
    <3>8. QED
      BY <3>6, <3>7
  <2>3. QED
    BY <2>1, <2>2
<1>7. CASE UNCHANGED <<ring, latest>>
  BY <1>7, UnheldMayChange
<1>8. QED
  BY ZenonT(40), <1>1, <1>2, <1>3, <1>4, <1>5, <1>6, <1>7
  DEF Next, ConnStep, HubStep, Join, Leave, StartStream, EndStream, Full, Send, Crash,
      HubJoined, HubFrameUnknown, vars, hubVars

\* Only the writer itself takes the WRITING mark off a slot.
LEMMA WritingStays ==
  ASSUME TypeOK, [Next]_vars, NEW d \in Conns, NEW s \in Slots, ring[d][s].st = "writing",
         ~Commit(d)
  PROVE  ring'[d][s].st = "writing"
<1>a. ring \in [Conns -> [Slots -> Cells]]
  BY DEF TypeOK
<1>b. ASSUME NEW K, ring' = ReleaseHeld(K) PROVE ring'[d][s].st = "writing"
  BY <1>b, ReleaseKeepsFrames
<1>1. ASSUME NEW c \in Conns, NEW k \in Keys, Claim(c, k) PROVE ring'[d][s].st = "writing"
  <2>1. PICK u \in Slots :
          /\ ring[c][u].st = "free"
          /\ \A e \in Conns, v \in Slots : e # c \/ v # u => ring'[e][v] = ring[e][v]
    BY <1>1, ClaimEffect
  <2>2. QED
    BY <2>1
<1>2. ASSUME NEW c \in Conns, c # d, Commit(c) PROVE ring'[d][s].st = "writing"
  BY <1>2, <1>a DEF Commit
<1>3. ASSUME NEW c \in Conns, HubFrameRejected(c) PROVE ring'[d][s].st = "writing"
  BY <1>3, <1>a, RejectEffect
<1>4. CASE ring' = ring
  BY <1>4
<1>5. QED
  BY ZenonT(40), <1>b, <1>1, <1>2, <1>3, <1>4
  DEF Next, ConnStep, HubStep, Join, Leave, StartStream, EndStream, Full, Send, Crash,
      Register, DropHolds, HubJoined, HubLeft, HubFrameUnknown, HubFrame, vars

\* A step of a connector's write_frame()/send(), or none: what is under way.
LEMMA WritersStep == IInv /\ [Next]_vars => WritersMark' /\ WritersAgree'
<1> SUFFICES ASSUME IInv, [Next]_vars PROVE WritersMark' /\ WritersAgree'
  OBVIOUS
<1> USE DEF IInv
<1>a. ring \in [Conns -> [Slots -> Cells]] /\ push \in [Conns -> Writes \cup {None}]
  BY DEF TypeOK
<1>b. frames \in Nat /\ MaxFrames \in Nat
  BY FrameRingAssumption DEF TypeOK
<1>1. ASSUME NEW c \in Conns, NEW k \in Keys, Claim(c, k)
      PROVE  WritersMark' /\ WritersAgree'
  <2>1. PICK u \in Slots :
          /\ ring[c][u].st = "free"
          /\ ring'[c][u] = Cell("writing", frames + 1, k)
          /\ \A d \in Conns, s \in Slots : d # c \/ s # u => ring'[d][s] = ring[d][s]
          /\ frames' = frames + 1
          /\ push' = [push EXCEPT ![c] = [slot |-> u, frame |-> frames + 1,
                                          key |-> k, phase |-> "writing"]]
    BY <1>1, ClaimEffect
  <2>2. /\ ring'[c][u].st = "writing" /\ ring'[c][u].frame = frames + 1
        /\ ring'[c][u].key = k
    BY <2>1 DEF Cell
  <2>3. push'[c].slot = u /\ push'[c].frame = frames + 1 /\ push'[c].key = k
    BY <1>a, <2>1
  <2>4. \A d \in Conns : d # c => push'[d] = push[d]
    BY <1>a, <2>1
  <2>5. WritersMark'
    <3>1. SUFFICES ASSUME NEW d \in Conns, push'[d] # None, push'[d].phase = "writing"
                   PROVE  ring'[d][push'[d].slot].st = "writing"
      BY DEF WritersMark
    <3>2. CASE d = c
      BY <2>2, <2>3, <3>2
    <3>3. CASE d # c
      <4>1. push[d].slot \in Slots
        BY <1>a, <2>4, <3>1, <3>3 DEF Writes
      <4>2. QED
        BY <2>1, <2>4, <3>1, <3>3, <4>1 DEF WritersMark
    <3>4. QED
      BY <3>2, <3>3
  <2>6. /\ frames + 1 <= frames'
        /\ \A d \in Conns, s \in Slots : ring'[d][s].frame = frames + 1 => ring'[d][s].key = k
    <3>1. \A d \in Conns, s \in Slots : ring[d][s].frame # frames + 1
      BY SMTT(20), <1>a, <1>b, FrameRingAssumption DEF FramesPushed, Cells, Frames
    <3>2. QED
      BY <1>b, <2>1, <2>2, <3>1
  <2>7. WritersAgree'
    <3>1. SUFFICES ASSUME NEW d \in Conns, (push[d] # None)'
                   PROVE  FrameOf(push[d].frame, push[d].key)'
      BY DEF WritersAgree
    <3>2. CASE d = c
      BY <2>3, <2>6, <3>2 DEF FrameOf
    <3>3. CASE d # c
      <4>1. PICK f, j : f \in Frames /\ f = push[d].frame /\ j = push[d].key
        BY <1>a, <2>4, <3>1, <3>3 DEF Writes
      <4>2. FrameOf(f, j)
        BY <2>4, <3>1, <3>3, <4>1 DEF WritersAgree
      <4>3. FrameOf(f, j)'
        BY <4>1, <4>2, FrameOfStays
      <4>4. QED
        BY <2>4, <3>3, <4>1, <4>3 DEF FrameOf
    <3>4. QED
      BY <3>2, <3>3
  <2>8. QED
    BY <2>5, <2>7

\* Every other step leaves each write as it is, ends it or commits it.
<1>2. CASE ~ \E c \in Conns, k \in Keys : Claim(c, k)
  <2>1. ASSUME NEW d \in Conns, push'[d] # None
        PROVE  /\ push[d] # None /\ push'[d].frame = push[d].frame /\ push'[d].key = push[d].key
               /\ push'[d].phase = "writing" => push'[d] = push[d] /\ ~Commit(d)
    <3>1. Commit(d) => push[d] # None /\ push'[d].phase = "ready"
      <4>1. SUFFICES ASSUME Commit(d) PROVE push[d] # None /\ push'[d].phase = "ready"
        OBVIOUS
      <4>2. push[d] \in Writes /\ push'[d] = [push[d] EXCEPT !.phase = "ready"]
        BY <1>a, <4>1 DEF Commit
      <4>3. QED
        BY <4>1, <4>2 DEF Commit, Writes
    <3>2. CASE UNCHANGED push
      BY <2>1, <3>1, <3>2
    <3>3. ASSUME NEW c \in Conns, Commit(c)
          PROVE  /\ push[d] # None /\ push'[d].frame = push[d].frame
                 /\ push'[d].key = push[d].key
                 /\ push'[d].phase = "writing" => push'[d] = push[d] /\ ~Commit(d)
      <4>1. push' = [push EXCEPT ![c].phase = "ready"] /\ push[c] # None
        BY <3>3 DEF Commit
      <4>2. CASE c = d
        <5>1. push'[d] = [push[d] EXCEPT !.phase = "ready"] /\ push[d] \in Writes
          BY <1>a, <4>1, <4>2
        <5>2. QED
          BY <4>1, <4>2, <5>1 DEF Writes
      <4>3. CASE c # d
        <5>1. push'[d] = push[d]
          BY <1>a, <4>1, <4>3
        <5>2. QED
          BY <2>1, <3>1, <5>1
      <4>4. QED
        BY <4>2, <4>3
    <3>4. ASSUME NEW c \in Conns, Send(c) \/ Crash(c)
          PROVE  push'[d] = push[d] /\ (push'[d].phase = "writing" => ~Commit(d))
      <4>1. push' = [push EXCEPT ![c] = None]
        BY <3>4 DEF Send, Crash
      <4>2. c # d
        BY <1>a, <2>1, <4>1
      <4>3. QED
        BY <1>a, <3>1, <4>1, <4>2
    <3>5. QED
      BY ZenonT(40), <1>2, <2>1, <3>2, <3>3, <3>4
      DEF Next, ConnStep, HubStep, Join, Leave, StartStream, EndStream, Full, Register,
          HubJoined, HubLeft, HubFrameUnknown, HubFrameRejected, HubFrame, Take, vars, connVars
  <2>2. WritersAgree'
    <3>1. SUFFICES ASSUME NEW d \in Conns, (push[d] # None)'
                   PROVE  FrameOf(push[d].frame, push[d].key)'
      BY DEF WritersAgree
    <3>2. PICK f, j : /\ f \in Frames /\ f = push[d].frame /\ j = push[d].key
                      /\ push[d] # None /\ push'[d].frame = f /\ push'[d].key = j
      BY <1>a, <2>1, <3>1 DEF Writes
    <3>3. FrameOf(f, j)
      BY <3>2 DEF WritersAgree
    <3>4. FrameOf(f, j)'
      BY <3>2, <3>3, FrameOfStays
    <3>5. QED
      BY <3>2, <3>4 DEF FrameOf
  <2>3. WritersMark'
    <3>1. SUFFICES ASSUME NEW d \in Conns, push'[d] # None, push'[d].phase = "writing"
                   PROVE  ring'[d][push'[d].slot].st = "writing"
      BY DEF WritersMark
    <3>2. /\ push'[d] = push[d] /\ push[d].slot \in Slots /\ ~Commit(d)
          /\ ring[d][push[d].slot].st = "writing"
      BY <1>a, <2>1, <3>1 DEF Writes, WritersMark
    <3>3. ring'[d][push[d].slot].st = ring[d][push[d].slot].st
      BY <1>2, <3>2, WritingStays
    <3>4. QED
      BY <3>2, <3>3
  <2>4. QED
    BY <2>2, <2>3
<1>3. QED
  BY <1>1, <1>2

\* m announces the frame that c has written.
Announces(m, c) ==
  push[c] # None /\ m.frame = push[c].frame /\ m.key = push[c].key /\ m.slot = push[c].slot

\* new continues old: what is in new was in old, in the same order, or is a copy of m
\* put behind it.  f says where an element came from.
Continues(new, old, f, m) ==
  /\ f \in [DOMAIN new -> Nat]
  /\ \A h, i \in DOMAIN new : h < i => f[h] < f[i]
  /\ \A i \in DOMAIN new : \/ f[i] \in DOMAIN old /\ new[i] = old[f[i]]
                           \/ f[i] > Len(old) /\ new[i] = m

\* c sends m: the signal of the frame it has written, whatever the copies.
Sends(m, c) == /\ Announces(m, c) /\ push[c].phase = "ready" /\ m.type = "frame"
               /\ push'[c] = None /\ UNCHANGED <<ring, latest>>

\* Prefixes and extensions of a queue continue it with every element at its place.
LEMMA ContinuesInPlace ==
  ASSUME NEW S, NEW old \in Seq(S), NEW new \in Seq(S), NEW m,
         \A i \in DOMAIN new : \/ i \in DOMAIN old /\ new[i] = old[i]
                               \/ i > Len(old) /\ new[i] = m
  PROVE  \E f : Continues(new, old, f, m)
<1> DEFINE f == [i \in DOMAIN new |-> i]
<1>1. DOMAIN new = 1 .. Len(new) /\ Len(new) \in Nat
  BY LenProperties
<1>2. f \in [DOMAIN new -> Nat] /\ \A i \in DOMAIN new : f[i] = i
  BY <1>1
<1> HIDE DEF f
<1>3. Continues(new, old, f, m)
  BY <1>2 DEF Continues
<1> QED BY <1>3

\* What each step does to the queue of a process.
LEMMA QueueMap ==
  ASSUME TypeOK, [Next]_vars, NEW d \in Conns
  PROVE  \E f, m : Continues(chan'[d], chan[d], f, m) /\ (m.type # "frame" \/ Sends(m, d))
<1> DEFINE Msgs == Events \cup Signals
           Goal == \E f, m : Continues(chan'[d], chan[d], f, m) /\ (m.type # "frame" \/ Sends(m, d))
           none == [type |-> "none"]
<1> SUFFICES Goal
  OBVIOUS
<1>a. chan \in [Conns -> Seq(Msgs)] /\ chan[d] \in Seq(Msgs) /\ chan'[d] \in Seq(Msgs)
  BY TypeStep DEF TypeOK
<1>e. /\ DOMAIN chan[d] = 1 .. Len(chan[d]) /\ Len(chan[d]) \in Nat
      /\ DOMAIN chan'[d] = 1 .. Len(chan'[d]) /\ Len(chan'[d]) \in Nat
  BY <1>a, LenProperties
<1>d. none.type # "frame"
  OBVIOUS
<1> HIDE DEF Msgs, none
<1>f. ASSUME NEW m, m.type # "frame" \/ Sends(m, d),
             \A i \in DOMAIN chan'[d] : \/ i \in DOMAIN chan[d] /\ chan'[d][i] = chan[d][i]
                                        \/ i > Len(chan[d]) /\ chan'[d][i] = m
      PROVE  Goal
  BY <1>a, <1>f, ContinuesInPlace
<1>b. CASE chan'[d] = chan[d]
  BY <1>b, <1>d, <1>f
<1>c. ASSUME NEW c \in Conns, NEW q, chan' = [chan EXCEPT ![c] = q], c # d PROVE Goal
  BY <1>a, <1>b, <1>c
<1>1. ASSUME NEW c \in Conns, NEW m \in Msgs, SendTo(c, m), m.type # "frame" PROVE Goal
  <2>1. CASE c = d
    <3>1. chan'[d] = Append(chan[d], m)
      BY <1>a, <1>1, <2>1 DEF SendTo
    <3>2. /\ Len(chan'[d]) = Len(chan[d]) + 1 /\ chan'[d][Len(chan[d]) + 1] = m
          /\ \A i \in 1 .. Len(chan[d]) : chan'[d][i] = chan[d][i]
      BY <1>a, <3>1, AppendProperties
    <3>3. \A i \in DOMAIN chan'[d] : \/ i \in DOMAIN chan[d] /\ chan'[d][i] = chan[d][i]
                                     \/ i > Len(chan[d]) /\ chan'[d][i] = m
      BY <1>e, <3>2
    <3> QED BY <1>1, <1>f, <3>3
  <2> QED BY <1>1, <1>c, <2>1 DEF SendTo
<1>2. ASSUME NEW c \in Conns, NEW p \in Pids, Join(c, p) \/ Leave(c, p) PROVE Goal
  <2> DEFINE j == [type |-> "joined", pid |-> p, sess |-> sessions + 1]
             l == [type |-> "left", pid |-> p, sess |-> sess[c][p]]
  <2>1. j \in Msgs /\ j.type # "frame" /\ l \in Msgs /\ l.type # "frame"
    BY DEF TypeOK, Events, Msgs
  <2>2. SendTo(c, j) \/ SendTo(c, l)
    BY <1>2 DEF Join, Leave
  <2> HIDE DEF j, l
  <2> QED BY <1>1, <2>1, <2>2
<1>3. ASSUME NEW c \in Conns, NEW k \in Keys, EndStream(c, k) PROVE Goal
  <2>2. ASSUME NEW n \in DOMAIN chan[c], chan' = [chan EXCEPT ![c] = Without(@, n)] PROVE Goal
    <3>1. CASE c = d
      <4> DEFINE f == [i \in DOMAIN chan'[d] |-> IF i < n THEN i ELSE i + 1]
      <4>1. chan'[d] = Without(chan[d], n) /\ n \in DOMAIN chan[d] /\ n \in Nat
        BY <1>a, <1>e, <2>2, <3>1
      <4>2. \A j \in DOMAIN chan'[d] :
              \/ j < n /\ j \in DOMAIN chan[d] /\ chan'[d][j] = chan[d][j]
              \/ n <= j /\ j + 1 \in DOMAIN chan[d] /\ chan'[d][j] = chan[d][j + 1]
        BY <1>a, <4>1, WithdrawElements
      <4>3. /\ f \in [DOMAIN chan'[d] -> Nat]
            /\ \A i \in DOMAIN chan'[d] : i \in Nat /\ f[i] = IF i < n THEN i ELSE i + 1
        BY <1>e
      <4> HIDE DEF f
      <4>4. \A h, i \in DOMAIN chan'[d] : h < i => f[h] < f[i]
        BY <4>1, <4>3
      <4>5. \A i \in DOMAIN chan'[d] : f[i] \in DOMAIN chan[d] /\ chan'[d][i] = chan[d][f[i]]
        BY <4>1, <4>2, <4>3
      <4>6. Continues(chan'[d], chan[d], f, none)
        BY <4>3, <4>4, <4>5 DEF Continues
      <4> QED BY <1>d, <4>6
    <3> QED BY <1>c, <2>2, <3>1
  <2> QED BY <1>3, <1>b, <2>2 DEF EndStream
<1>4. ASSUME NEW c \in Conns, Send(c) PROVE Goal
  <2> DEFINE m == [type |-> "frame", key |-> push[c].key,
                   slot |-> push[c].slot, frame |-> push[c].frame]
  <2>1. \/ chan' = [chan EXCEPT ![c] = chan[c] \o <<m>>]
        \/ chan' = [chan EXCEPT ![c] = chan[c] \o <<m, m>>]
    BY <1>4 DEF Send
  <2>2. m \in Msgs /\ push' = [push EXCEPT ![c] = None]
    BY <1>4 DEF Send, TypeOK, Writes, Signals, Msgs
  <2>3. Sends(m, c)
    <3>1. push'[c] = None
      BY <2>2 DEF TypeOK
    <3> QED BY <1>4, <3>1 DEF Send, Sends, Announces, hubVars
  <2> HIDE DEF m
  <2>4. CASE c = d
    <3>1. ASSUME NEW w \in Seq(Msgs), \A n \in DOMAIN w : w[n] = m, chan'[d] = chan[d] \o w
          PROVE  Goal
      <4>1. Len(w) \in Nat /\ DOMAIN w = 1 .. Len(w)
        BY LenProperties
      <4>2. /\ Len(chan'[d]) = Len(chan[d]) + Len(w)
            /\ \A n \in 1 .. Len(chan[d]) + Len(w) : chan'[d][n] =
                 IF n <= Len(chan[d]) THEN chan[d][n] ELSE w[n - Len(chan[d])]
        <5>1. /\ Len(chan[d] \o w) = Len(chan[d]) + Len(w)
              /\ \A n \in 1 .. Len(chan[d]) + Len(w) : (chan[d] \o w)[n] =
                   IF n <= Len(chan[d]) THEN chan[d][n] ELSE w[n - Len(chan[d])]
          BY <1>a, ConcatProperties, Zenon
        <5> QED BY <3>1, <5>1
      <4>3. ASSUME NEW i \in DOMAIN chan'[d], ~(i \in DOMAIN chan[d])
            PROVE  i > Len(chan[d]) /\ chan'[d][i] = m
        <5>1. i > Len(chan[d]) /\ i - Len(chan[d]) \in DOMAIN w
          BY <1>e, <4>1, <4>2, <4>3
        <5>2. chan'[d][i] = w[i - Len(chan[d])]
          BY <1>e, <4>2, <5>1
        <5> QED BY <3>1, <5>1, <5>2
      <4>4. \A i \in DOMAIN chan'[d] : i \in DOMAIN chan[d] => chan'[d][i] = chan[d][i]
        BY <1>e, <4>2
      <4> QED BY <1>f, <2>3, <2>4, <4>3, <4>4
    <3>2. /\ <<m>> \in Seq(Msgs) /\ \A n \in DOMAIN <<m>> : <<m>>[n] = m
          /\ <<m, m>> \in Seq(Msgs) /\ \A n \in DOMAIN <<m, m>> : <<m, m>>[n] = m
      BY <2>2
    <3>3. chan'[d] = chan[d] \o <<m>> \/ chan'[d] = chan[d] \o <<m, m>>
      BY <1>a, <2>1, <2>4
    <3> QED BY <3>1, <3>2, <3>3
  <2> QED BY <1>c, <2>1, <2>4
<1>5. ASSUME NEW c \in Conns, Crash(c) PROVE Goal
  <2>1. PICK n \in 0 .. Len(chan[c]) : chan' = [chan EXCEPT ![c] = SubSeq(@, 1, n)]
    BY <1>5 DEF Crash
  <2>2. CASE c = d
    <3>1. chan'[d] = SubSeq(chan[d], 1, n)
      BY <1>a, <2>1, <2>2
    <3>2. \A j \in DOMAIN chan'[d] : j \in DOMAIN chan[d] /\ chan'[d][j] = chan[d][j]
      BY <1>a, <2>1, <2>2, <3>1, PrefixElements
    <3> QED BY <1>d, <1>f, <3>2
  <2> QED BY <1>c, <2>1, <2>2
<1>6. ASSUME NEW c \in Conns, HubStep(c) PROVE Goal
  <2>1. chan[c] # <<>> /\ chan' = [chan EXCEPT ![c] = Tail(@)]
    BY <1>6 DEF HubStep, HubJoined, HubLeft, HubFrameUnknown, HubFrameRejected, HubFrame, Take
  <2>2. CASE c = d
    <3> DEFINE f == [i \in DOMAIN chan'[d] |-> i + 1]
    <3>1. chan'[d] = Tail(chan[d])
      BY <1>a, <2>1, <2>2
    <3>2. \A j \in DOMAIN chan'[d] : j + 1 \in DOMAIN chan[d] /\ chan'[d][j] = chan[d][j + 1]
      BY <1>a, <2>1, <2>2, <3>1, TailElements
    <3>3. /\ f \in [DOMAIN chan'[d] -> Nat]
          /\ \A i \in DOMAIN chan'[d] : i \in Nat /\ f[i] = i + 1
      BY <1>e
    <3> HIDE DEF f
    <3>4. Continues(chan'[d], chan[d], f, none)
      BY <3>2, <3>3 DEF Continues
    <3> QED BY <1>d, <3>4
  <2> QED BY <1>c, <2>1, <2>2
<1> QED
  BY <1>b, <1>2, <1>3, <1>4, <1>5, <1>6
  DEF Next, ConnStep, StartStream, Claim, Full, Commit, Register, vars

\* The messages of a queue were in it before, in the same order; or the later one is an
\* event, or announces the frame that was being written.
LEMMA QueueEffect ==
  ASSUME TypeOK, [Next]_vars, NEW d \in Conns,
         NEW h \in DOMAIN chan'[d], NEW i \in DOMAIN chan'[d], h <= i
  PROVE  \/ \E g, j \in DOMAIN chan[d] : /\ g <= j
                                       /\ chan'[d][h] = chan[d][g] /\ chan'[d][i] = chan[d][j]
         \/ chan'[d][i].type # "frame"
         \/ Announces(chan'[d][i], d)
<1>1. PICK f, m : Continues(chan'[d], chan[d], f, m) /\ (m.type # "frame" \/ Sends(m, d))
  BY QueueMap
<1>2. chan[d] \in Seq(Events \cup Signals) /\ chan'[d] \in Seq(Events \cup Signals)
  BY TypeStep DEF TypeOK
<1>3. /\ DOMAIN chan[d] = 1 .. Len(chan[d]) /\ Len(chan[d]) \in Nat
      /\ DOMAIN chan'[d] = 1 .. Len(chan'[d]) /\ Len(chan'[d]) \in Nat
  BY <1>2, LenProperties
<1>4. f[h] <= f[i] /\ f[h] \in Nat /\ f[i] \in Nat
  <2>1. h < i => f[h] < f[i]
    BY <1>1 DEF Continues
  <2>2. f[h] \in Nat /\ f[i] \in Nat
    BY <1>1 DEF Continues
  <2> QED BY <1>3, <2>1, <2>2
<1>5. CASE f[i] \in DOMAIN chan[d]
  <2>1. f[h] \in DOMAIN chan[d]
    BY <1>1, <1>3, <1>4, <1>5 DEF Continues
  <2>2. chan'[d][h] = chan[d][f[h]] /\ chan'[d][i] = chan[d][f[i]]
    BY <1>1, <1>3, <1>5, <2>1 DEF Continues
  <2> QED BY <1>4, <1>5, <2>1, <2>2
<1>6. CASE f[i] \notin DOMAIN chan[d]
  <2>1. chan'[d][i] = m
    BY <1>1, <1>6 DEF Continues
  <2> QED BY <1>1, <2>1 DEF Sends
<1> QED BY <1>5, <1>6

\* Every step keeps the signals in agreement.
LEMMA SignalsStep == IInv /\ [Next]_vars => SignalsAgree'
<1> SUFFICES ASSUME IInv, [Next]_vars,
                    NEW d \in Conns, NEW i \in (DOMAIN chan[d])', (chan[d][i].type = "frame")'
             PROVE  FrameOf(chan[d][i].frame, chan[d][i].key)'
  BY DEF SignalsAgree
<1>1. PICK f, k :
        f \in Frames /\ FrameOf(f, k) /\ (chan[d][i].frame = f)' /\ (chan[d][i].key = k)'
  <2>1. CASE \E j \in DOMAIN chan[d] : chan'[d][i] = chan[d][j]
    <3>1. PICK j \in DOMAIN chan[d] : chan'[d][i] = chan[d][j]
      BY <2>1
    <3>2. chan[d] \in Seq(Events \cup Signals)
      BY DEF IInv, TypeOK
    <3>3. chan[d][j] \in Events \cup Signals
      BY <3>1, <3>2, ElementOfSeq, LenProperties
    <3>4. chan[d][j].frame \in Frames
      BY <3>1, <3>3 DEF Events, Signals
    <3>5. QED
      BY <3>1, <3>4 DEF IInv, SignalsAgree
  <2>2. CASE push[d] # None /\ chan'[d][i].frame = push[d].frame /\ chan'[d][i].key = push[d].key
    <3>1. push[d].frame \in Frames
      BY <2>2 DEF IInv, TypeOK, Writes
    <3>2. QED
      BY <2>2, <3>1 DEF IInv, WritersAgree
  <2>3. QED
    <3>1. i <= i
      <4>1. chan'[d] \in Seq(Events \cup Signals)
        BY TypeStep DEF IInv, TypeOK
      <4>2. QED
        BY <4>1, LenProperties
    <3>2. QED
      BY <2>1, <2>2, <3>1, QueueEffect DEF IInv, Announces
<1>2. FrameOf(f, k)'
  BY <1>1, FrameOfStays DEF IInv
<1>3. QED
  BY <1>1, <1>2 DEF FrameOf

\* Every step keeps the invariant.
LEMMA IInvStep == IInv /\ [Next]_vars => IInv'
  BY TypeStep, HeldFrameStableStep, FramesPushedStep, WritersStep, SignalsStep DEF IInv

\* What the hub holds as the latest frame of a track stays that frame of that
\* track until the hub lets go of it: no producer overwrites it, whatever
\* signals are lost, repeated, rejected or looked up in the wrong ring.
THEOREM HeldFramesAreStable == Spec => []HeldFrameStable
<1>1. IInv => HeldFrameStable
  BY DEF IInv
<1>2. QED
  BY <1>1, IInvInit, IInvStep, PTL DEF Spec

\* No slot is held for two tracks, so none is released under a reader.
THEOREM HoldersAreAlone == Spec => []OneHolderPerSlot
<1>1. IInv => OneHolderPerSlot
  <2>1. SUFFICES ASSUME IInv, NEW j \in Keys, NEW k \in Keys,
                        latest[j] # None, latest[k] # None,
                        latest[j].ring = latest[k].ring, latest[j].slot = latest[k].slot
                 PROVE  j = k
    BY DEF OneHolderPerSlot
  <2>2. Cell("ready", latest[j].frame, j) = Cell("ready", latest[k].frame, k)
    BY <2>1 DEF IInv, HeldFrameStable
  <2>3. QED
    BY <2>2 DEF Cell
<1>2. QED
  BY <1>1, IInvInit, IInvStep, PTL DEF Spec

-----------------------------------------------------------------------------
(* A hold does not outlive its participant or its ring. *)

\* The track of which p is the participant, held in the ring r, is live.
LiveIn(k, r) == pconn[k[1]] # None /\ \E i \in ConnIds : registry[i] = r

\* A hold is of a live slot.
LEMMA LiveHolds ==
  HoldsAreLive <=> \A k \in Keys : latest[k] # None => LiveIn(k, latest[k].ring)
  BY DEF HoldsAreLive, LiveIn

\* Every step keeps the holds live.
LEMMA HoldsAreLiveStep == TypeOK /\ HoldsAreLive /\ [Next]_vars => HoldsAreLive'
<1> SUFFICES ASSUME TypeOK, HoldsAreLive, [Next]_vars,
                    NEW k \in Keys, latest'[k] # None
             PROVE  LiveIn(k, latest[k].ring)'
  BY DEF HoldsAreLive, LiveIn
<1>a. latest[k] # None => LiveIn(k, latest[k].ring)
  BY LiveHolds
<1>b. k[1] \in Pids
  BY DEF Keys
<1>1. CASE UNCHANGED hubVars
  BY <1>1, <1>a DEF hubVars, LiveIn
<1>2. ASSUME NEW c \in Conns, Register(c) PROVE LiveIn(k, latest[k].ring)'
  <2> DEFINE replaced == registry[IdOf[c]]
  <2>1. /\ registry \in [ConnIds -> Conns \cup {None}] /\ registry' = [registry EXCEPT ![IdOf[c]] = c]
        /\ pconn' = pconn
    BY <1>2 DEF Register, TypeOK
  <2>2. latest'[k] = latest[k] /\ latest[k].ring # replaced
    BY <1>2 DEF Register, DropHolds
  <2>3. PICK i \in ConnIds : registry[i] = latest[k].ring /\ pconn[k[1]] # None
    BY <1>a, <2>2 DEF LiveIn
  <2>4. i # IdOf[c] /\ registry'[i] = registry[i]
    BY <2>1, <2>2, <2>3
  <2> QED BY <2>1, <2>2, <2>3, <2>4 DEF LiveIn
<1>3. ASSUME NEW c \in Conns, HubJoined(c) PROVE LiveIn(k, latest[k].ring)'
  <2>1. /\ latest' = latest /\ registry' = registry /\ IdOf[c] # None
        /\ \E p : pconn' = [pconn EXCEPT ![p] = IdOf[c]]
    BY <1>3, FrameRingAssumption DEF HubJoined, Take
  <2>2. pconn' \in [Pids -> ConnIds \cup {None}] /\ (pconn'[k[1]] = pconn[k[1]] \/ pconn'[k[1]] = IdOf[c])
    BY <1>b, <2>1, TypeStep DEF TypeOK
  <2> QED BY <1>a, <2>1, <2>2 DEF LiveIn
<1>4. ASSUME NEW c \in Conns, HubLeft(c) PROVE LiveIn(k, latest[k].ring)'
  <2> DEFINE p == Head(chan[c]).pid
  <2>1. CASE UNCHANGED <<pconn, latest>>
    <3>1. registry' = registry
      BY <1>4 DEF HubLeft, Take
    <3> QED BY <1>a, <2>1, <3>1 DEF LiveIn
  <2>2. CASE pconn' = [pconn EXCEPT ![p] = None] /\ DropHolds({j \in Keys : j[1] = p})
    <3>1. registry' = registry /\ latest'[k] = latest[k] /\ k[1] # p
      BY <1>4, <2>2 DEF HubLeft, Take, DropHolds
    <3>2. pconn'[k[1]] = pconn[k[1]]
      BY <1>b, <2>2, <3>1 DEF TypeOK
    <3> QED BY <1>a, <3>1, <3>2 DEF LiveIn
  <2> QED BY <1>4, <2>1, <2>2 DEF HubLeft
<1>5. ASSUME NEW c \in Conns, HubFrame(c) PROVE LiveIn(k, latest[k].ring)'
  <2> DEFINE m == Head(chan[c])
             r == RingFor(m.key[1])
  <2>1. /\ r # None /\ registry' = registry /\ pconn' = pconn
        /\ \/ latest' = latest
           \/ latest' = [latest EXCEPT ![m.key] = [ring |-> r, slot |-> m.slot, frame |-> m.frame]]
    BY <1>5 DEF HubFrame, Take
  <2>2. CASE latest'[k] = latest[k]
    BY <1>a, <2>1, <2>2 DEF LiveIn
  <2>3. CASE latest'[k] # latest[k]
    <3>1. k = m.key /\ latest'[k].ring = r
      BY <2>1, <2>3 DEF TypeOK
    <3>2. pconn[k[1]] \in ConnIds /\ r = registry[pconn[k[1]]]
      BY <1>b, <2>1, <3>1 DEF RingFor, TypeOK
    <3>3. (LiveIn(k, latest[k].ring))' <=> LiveIn(k, r)
      BY <2>1, <3>1 DEF LiveIn
    <3> HIDE DEF r
    <3>4. LiveIn(k, r)
      BY <3>2, FrameRingAssumption DEF LiveIn
    <3> QED BY <3>3, <3>4
  <2> QED BY <2>2, <2>3
<1>6. \A c \in Conns : ConnStep(c) => UNCHANGED hubVars
  BY ZenonT(40) DEF ConnStep, Join, Leave, StartStream, EndStream, Claim, Full, Commit, Send, Crash
<1>7. \A c \in Conns : HubFrameUnknown(c) \/ HubFrameRejected(c) => UNCHANGED hubVars
  BY DEF HubFrameUnknown, HubFrameRejected, Take, hubVars
<1>8. CASE UNCHANGED vars
  BY <1>1, <1>8 DEF vars
<1> QED BY <1>1, <1>2, <1>3, <1>4, <1>5, <1>6, <1>7, <1>8 DEF Next, HubStep

\* The hub holds frames of connected participants only, in rings that are still attached,
\* however connectors restart and participants come and go.
THEOREM HoldsStayLive == Spec => []HoldsAreLive
<1>1. Init => HoldsAreLive
  BY DEF Init, HoldsAreLive
<1>2. (TypeOK /\ HoldsAreLive) /\ [Next]_vars => (TypeOK /\ HoldsAreLive)'
  BY TypeStep, HoldsAreLiveStep
<1> QED BY <1>1, <1>2, TypeInit, PTL DEF Spec

-----------------------------------------------------------------------------
(* To its readers the hub is a register per track (LatestFrame).               *)
(*                                                                             *)
(* Frames are numbered over all connectors, so "newer" compares frames of two  *)
(* connectors as well, and their signals reach the hub in any order.  The      *)
(* refinement is about one connector and its incarnations.                     *)

OneConnector == \A c, d \in Conns : IdOf[c] = IdOf[d]

\* A ring is registered under the id of its process.
RegisteredUnderOwnId == \A i \in ConnIds : registry[i] # None => IdOf[registry[i]] = i

\* Frame f exists already, and no slot but s of c's ring has its pixels.
WrittenAt(f, c, s) ==
  /\ f <= frames
  /\ \A d \in Conns, u \in Slots : ring[d][u].frame = f => d = c /\ u = s

\* Writers and signals name the slot their frame is in.
WritersPlaced == \A c \in Conns : push[c] # None => WrittenAt(push[c].frame, c, push[c].slot)
SignalsPlaced ==
  \A c \in Conns : \A i \in DOMAIN chan[c] :
    chan[c][i].type = "frame" => WrittenAt(chan[c][i].frame, c, chan[c][i].slot)

\* Signals of a process are queued in the order of their frames, and what it is writing
\* is newer.
SignalsAscend ==
  \A c \in Conns : \A i \in DOMAIN chan[c] : chan[c][i].type = "frame" =>
    /\ push[c] # None => chan[c][i].frame <= push[c].frame
    /\ \A j \in DOMAIN chan[c] : i <= j /\ chan[c][j].type = "frame" =>
         chan[c][i].frame <= chan[c][j].frame

\* What the hub holds of a ring is as old as all that is still to come from it.
HoldsAreOldest ==
  \A k \in Keys : latest[k] # None =>
    LET c == latest[k].ring IN
    /\ push[c] # None => latest[k].frame <= push[c].frame
    /\ \A i \in DOMAIN chan[c] : chan[c][i].type = "frame" => latest[k].frame <= chan[c][i].frame

\* What every step keeps of frames and their places, for any number of processes.
RInv ==
  /\ IInv /\ HoldsAreLive /\ RegisteredUnderOwnId
  /\ WritersPlaced /\ SignalsPlaced /\ SignalsAscend /\ HoldsAreOldest

\* A queued signal names a frame, a slot and a track.
LEMMA SignalParts ==
  ASSUME TypeOK, NEW c \in Conns, NEW i \in DOMAIN chan[c], chan[c][i].type = "frame"
  PROVE  chan[c][i].frame \in Frames /\ chan[c][i].slot \in Slots /\ chan[c][i].key \in Keys
<1>1. chan[c] \in Seq(Events \cup Signals)
  BY DEF TypeOK
<1>2. chan[c][i] \in Events \cup Signals
  BY <1>1, ElementOfSeq, LenProperties
<1> QED BY <1>2 DEF Events, Signals

\* Places in a queue are numbers.
LEMMA NewPlacesAreNumbers ==
  ASSUME TypeOK, [Next]_vars, NEW c \in Conns
  PROVE  \A i \in DOMAIN chan'[c] : i \in Nat /\ i <= i
<1>1. chan'[c] \in Seq(Events \cup Signals)
  BY TypeStep DEF TypeOK
<1> QED BY <1>1, LenProperties

\* The pixels of a frame are in the slot it was written to, or nowhere.
LEMMA WrittenAtStays ==
  ASSUME TypeOK, FramesPushed, [Next]_vars, NEW f \in Frames, NEW c, NEW s, WrittenAt(f, c, s)
  PROVE  WrittenAt(f, c, s)'
<1>a. frames \in Nat /\ frames' \in Nat /\ f \in Nat
  BY TypeStep, FrameRingAssumption DEF TypeOK, Frames
<1>1. CASE ~ \E d \in Conns, k \in Keys : Claim(d, k)
  BY <1>a, <1>1, FramesStay DEF WrittenAt
<1>2. ASSUME NEW d \in Conns, NEW k \in Keys, Claim(d, k) PROVE WrittenAt(f, c, s)'
  <2>1. PICK u \in Slots :
          /\ ring'[d][u] = Cell("writing", frames + 1, k)
          /\ \A e \in Conns, v \in Slots : e # d \/ v # u => ring'[e][v] = ring[e][v]
          /\ frames' = frames + 1
    BY <1>2, ClaimEffect
  <2>2. ring'[d][u].frame = frames + 1
    BY <2>1 DEF Cell
  <2> QED BY <1>a, <2>1, <2>2 DEF WrittenAt
<1> QED BY <1>1, <1>2

\* What a process is writing it was writing before, or has just claimed.
LEMMA PushEffect ==
  ASSUME TypeOK, [Next]_vars, NEW d \in Conns, push'[d] # None
  PROVE  \/ /\ push[d] # None
            /\ push'[d].frame = push[d].frame /\ push'[d].slot = push[d].slot
         \/ \E k \in Keys : Claim(d, k) /\ push'[d].frame = frames + 1
<1> DEFINE Same == /\ push[d] # None
                   /\ push'[d].frame = push[d].frame /\ push'[d].slot = push[d].slot
           New == \E k \in Keys : Claim(d, k) /\ push'[d].frame = frames + 1
<1> SUFFICES Same \/ New
  OBVIOUS
<1>a. push \in [Conns -> Writes \cup {None}]
  BY DEF TypeOK
<1>1. CASE push'[d] = push[d]
  BY <1>1
<1>2. ASSUME NEW c \in Conns, NEW k \in Keys, Claim(c, k) PROVE Same \/ New
  <2>1. PICK u \in Slots : push' = [push EXCEPT ![c] = [slot |-> u, frame |-> frames + 1,
                                                        key |-> k, phase |-> "writing"]]
    BY <1>2, ClaimEffect
  <2> QED BY <1>a, <1>1, <1>2, <2>1
<1>3. ASSUME NEW c \in Conns, Commit(c) PROVE Same \/ New
  <2>1. push' = [push EXCEPT ![c].phase = "ready"] /\ push[c] # None
    BY <1>3 DEF Commit
  <2>2. push[c] \in Writes
    BY <1>a, <2>1
  <2>3. /\ [push[c] EXCEPT !.phase = "ready"].frame = push[c].frame
        /\ [push[c] EXCEPT !.phase = "ready"].slot = push[c].slot
    BY <2>2 DEF Writes
  <2> QED BY <1>a, <1>1, <2>1, <2>3
<1>4. ASSUME NEW c \in Conns, Send(c) \/ Crash(c) PROVE Same \/ New
  <2>1. push' = [push EXCEPT ![c] = None]
    BY <1>4 DEF Send, Crash
  <2> QED BY <1>a, <1>1, <2>1
<1>5. ASSUME NEW c \in Conns, HubStep(c) \/ Register(c) PROVE Same \/ New
  BY <1>1, <1>5 DEF HubStep, HubJoined, HubLeft, HubFrameUnknown, HubFrameRejected, HubFrame,
                    Take, Register, connVars
<1>6. ASSUME NEW c \in Conns, ConnStep(c), ~Commit(c), ~Send(c), ~Crash(c),
             \A k \in Keys : ~Claim(c, k)
      PROVE  Same \/ New
  BY <1>1, <1>6 DEF ConnStep, Join, Leave, StartStream, EndStream, Full
<1>7. CASE UNCHANGED vars
  BY <1>1, <1>7 DEF vars, connVars
<1> QED BY <1>2, <1>3, <1>4, <1>5, <1>6, <1>7 DEF Next

\* The hub holds for a track what it held before, or nothing, or a frame just signalled.
LEMMA LatestEffect ==
  ASSUME TypeOK, [Next]_vars, NEW k \in Keys, latest'[k] # None
  PROVE  \/ latest'[k] = latest[k]
         \/ \E c \in Conns :
              LET m == chan[c][1]
                  r == RingFor(k[1])
              IN /\ chan[c] # <<>> /\ m.type = "frame" /\ m.key = k
                 /\ r \in Conns /\ Readable(r, m) /\ ~Held(r, m.slot)
                 /\ latest'[k] = [ring |-> r, slot |-> m.slot, frame |-> m.frame]
                 /\ chan' = [chan EXCEPT ![c] = Tail(chan[c])] /\ push' = push
<1> DEFINE Same == latest'[k] = latest[k]
<1>a. latest \in [Keys -> Holds \cup {None}] /\ k[1] \in Pids
  BY DEF TypeOK, Keys
<1>1. ASSUME NEW K, DropHolds(K) PROVE Same
  BY <1>1 DEF DropHolds
<1>2. ASSUME NEW c \in Conns, HubFrame(c), ~Same
      PROVE  LET m == chan[c][1]
                 r == RingFor(k[1])
             IN /\ chan[c] # <<>> /\ m.type = "frame" /\ m.key = k
                /\ r \in Conns /\ Readable(r, m) /\ ~Held(r, m.slot)
                /\ latest'[k] = [ring |-> r, slot |-> m.slot, frame |-> m.frame]
                /\ chan' = [chan EXCEPT ![c] = Tail(chan[c])] /\ push' = push
  <2> DEFINE m == Head(chan[c])
             r == RingFor(m.key[1])
  <2>1. /\ chan[c] # <<>> /\ m.type = "frame" /\ chan' = [chan EXCEPT ![c] = Tail(chan[c])]
        /\ push' = push
    BY <1>2 DEF HubFrame, Take, connVars
  <2>2. /\ r # None /\ Readable(r, m)
        /\ IF Held(r, m.slot) THEN latest' = latest
           ELSE latest' = [latest EXCEPT ![m.key] = [ring |-> r, slot |-> m.slot, frame |-> m.frame]]
    BY <1>2 DEF HubFrame
  <2>3. ~Held(r, m.slot)
    BY <1>2, <2>2
  <2>4. k = m.key /\ latest'[k] = [ring |-> r, slot |-> m.slot, frame |-> m.frame]
    BY <1>2, <1>a, <2>2, <2>3
  <2>5. r \in Conns
    BY <1>a, <2>2, <2>4 DEF RingFor, TypeOK
  <2>6. m = chan[c][1]
    <3>1. chan[c] \in Seq(Events \cup Signals)
      BY DEF TypeOK
    <3> QED BY <2>1, <3>1, TailElements
  <2> QED BY <2>1, <2>2, <2>3, <2>4, <2>5, <2>6
<1>3. ASSUME NEW c \in Conns, HubJoined(c) \/ HubFrameUnknown(c) \/ HubFrameRejected(c) PROVE Same
  BY <1>3 DEF HubJoined, HubFrameUnknown, HubFrameRejected
<1>4. ASSUME NEW c \in Conns, HubLeft(c) PROVE Same
  BY <1>1, <1>4 DEF HubLeft
<1>5. ASSUME NEW c \in Conns, Register(c) PROVE Same
  BY <1>1, <1>5 DEF Register
<1>6. ASSUME NEW c \in Conns, ConnStep(c) PROVE Same
  BY ZenonT(40), <1>6 DEF ConnStep, Join, Leave, StartStream, EndStream, Claim, Full, Commit, Send, Crash,
                     hubVars
<1>7. CASE UNCHANGED vars
  BY <1>7 DEF vars, hubVars
<1> QED BY <1>2, <1>3, <1>4, <1>5, <1>6, <1>7 DEF Next, HubStep

\* Every step keeps writers and signals at the slot of their frame.
LEMMA PlacedStep == RInv /\ [Next]_vars => WritersPlaced' /\ SignalsPlaced'
<1> SUFFICES ASSUME RInv, [Next]_vars PROVE WritersPlaced' /\ SignalsPlaced'
  OBVIOUS
<1>a. /\ TypeOK /\ FramesPushed /\ WritersPlaced /\ SignalsPlaced
  BY DEF RInv, IInv
<1>b. /\ push \in [Conns -> Writes \cup {None}] /\ frames \in Nat
      /\ \A d \in Conns, s \in Slots : ring[d][s].frame \in Nat \/ ring[d][s].frame = None
  BY <1>a, FrameRingAssumption DEF TypeOK, Cells, Frames
<1>1. ASSUME NEW c \in Conns, push'[c] # None
      PROVE  WrittenAt(push[c].frame, c, push[c].slot)'
  <2>1. CASE push[c] # None /\ push'[c].frame = push[c].frame /\ push'[c].slot = push[c].slot
    <3>1. PICK f, s : /\ f \in Frames /\ WrittenAt(f, c, s)
                      /\ f = push[c].frame /\ s = push[c].slot
      BY <1>a, <1>b, <2>1 DEF WritersPlaced, Writes
    <3>2. WrittenAt(f, c, s)'
      BY <1>a, <3>1, WrittenAtStays
    <3> QED BY <2>1, <3>1, <3>2 DEF WrittenAt
  <2>2. ASSUME NEW k \in Keys, Claim(c, k) PROVE WrittenAt(push[c].frame, c, push[c].slot)'
    <3>1. PICK u \in Slots :
            /\ \A d \in Conns, s \in Slots : d # c \/ s # u => ring'[d][s] = ring[d][s]
            /\ frames' = frames + 1
            /\ push' = [push EXCEPT ![c] = [slot |-> u, frame |-> frames + 1,
                                            key |-> k, phase |-> "writing"]]
      BY <1>a, <2>2, ClaimEffect
    <3>2. push'[c].frame = frames + 1 /\ push'[c].slot = u
      BY <1>b, <3>1
    <3>3. \A d \in Conns, s \in Slots : ring[d][s].frame # frames + 1
      BY <1>a, <1>b, FrameRingAssumption DEF FramesPushed
    <3> QED BY <1>b, <3>1, <3>2, <3>3 DEF WrittenAt
  <2> QED BY <1>1, <1>a, <2>1, <2>2, PushEffect
<1>2. ASSUME NEW c \in Conns, NEW i \in DOMAIN chan'[c], chan'[c][i].type = "frame"
      PROVE  WrittenAt(chan[c][i].frame, c, chan[c][i].slot)'
  <2>1. PICK f, s : /\ f \in Frames /\ WrittenAt(f, c, s)
                    /\ chan'[c][i].frame = f /\ chan'[c][i].slot = s
    <3>1. CASE \E j \in DOMAIN chan[c] : chan'[c][i] = chan[c][j]
      BY <1>2, <1>a, <3>1, SignalParts DEF SignalsPlaced
    <3>2. CASE Announces(chan'[c][i], c)
      BY <1>a, <1>b, <3>2 DEF WritersPlaced, Writes, Announces
    <3>3. i <= i
      BY <1>a, NewPlacesAreNumbers
    <3> QED BY <1>2, <1>a, <3>1, <3>2, <3>3, QueueEffect
  <2>2. WrittenAt(f, c, s)'
    BY <1>a, <2>1, WrittenAtStays
  <2> QED BY <2>1, <2>2 DEF WrittenAt
<1> QED BY <1>1, <1>2 DEF WritersPlaced, SignalsPlaced

\* Every step keeps the signals of a process in the order of their frames.
LEMMA AscendStep == RInv /\ [Next]_vars => SignalsAscend'
<1> SUFFICES ASSUME RInv, [Next]_vars, NEW c \in Conns,
                    NEW i \in DOMAIN chan'[c], chan'[c][i].type = "frame"
             PROVE  /\ push'[c] # None => chan'[c][i].frame <= push'[c].frame
                    /\ \A j \in DOMAIN chan'[c] : i <= j /\ chan'[c][j].type = "frame" =>
                         chan'[c][i].frame <= chan'[c][j].frame
  BY DEF SignalsAscend
<1>a. TypeOK /\ SignalsAscend /\ SignalsPlaced
  BY DEF RInv, IInv
<1>b. push[c] # None => push[c].frame \in Nat
  BY <1>a, FrameRingAssumption DEF TypeOK, Writes, Frames
<1>c. \A h \in DOMAIN chan'[c] : h <= h
  BY <1>a, NewPlacesAreNumbers
<1>d. frames \in Nat /\ Frames \subseteq Nat
  BY <1>a, FrameRingAssumption DEF TypeOK, Frames
<1>1. push[c] # None => chan'[c][i].frame <= push[c].frame
  <2>1. CASE \E j \in DOMAIN chan[c] : chan'[c][i] = chan[c][j]
    BY <1>a, <2>1 DEF SignalsAscend
  <2>2. CASE Announces(chan'[c][i], c)
    BY <1>b, <2>2 DEF Announces
  <2> QED BY <1>a, <1>c, <2>1, <2>2, QueueEffect
<1>2. ASSUME NEW j \in DOMAIN chan'[c], i <= j, chan'[c][j].type = "frame"
      PROVE  chan'[c][i].frame <= chan'[c][j].frame
  <2>1. CASE \E g, l \in DOMAIN chan[c] :
                g <= l /\ chan'[c][i] = chan[c][g] /\ chan'[c][j] = chan[c][l]
    BY <1>a, <1>2, <2>1 DEF SignalsAscend
  <2>2. CASE Announces(chan'[c][j], c)
    BY <1>1, <2>2 DEF Announces
  <2> QED BY <1>a, <1>2, <2>1, <2>2, QueueEffect
<1>3. ASSUME push'[c] # None PROVE chan'[c][i].frame <= push'[c].frame
  <2>1. CASE push[c] # None /\ push'[c].frame = push[c].frame
    BY <1>1, <2>1
  <2>2. ASSUME NEW k \in Keys, Claim(c, k), push'[c].frame = frames + 1
        PROVE  chan'[c][i].frame <= push'[c].frame
    <3>1. chan' = chan
      BY <1>a, <2>2, ClaimEffect
    <3>2. chan[c][i].frame <= frames /\ chan[c][i].frame \in Nat
      BY <1>a, <1>d, <3>1, SignalParts DEF SignalsPlaced, WrittenAt
    <3> QED BY <1>d, <2>2, <3>1, <3>2
  <2> QED BY <1>3, <1>a, <2>1, <2>2, PushEffect
<1> QED BY <1>2, <1>3

\* What is held is a frame of its track that is in the slot.
LEMMA HeldFrames ==
  ASSUME IInv, NEW k \in Keys, latest[k] # None
  PROVE  /\ latest[k].ring \in Conns /\ latest[k].slot \in Slots /\ latest[k].frame \in Frames
         /\ ring[latest[k].ring][latest[k].slot].frame = latest[k].frame
         /\ ring[latest[k].ring][latest[k].slot].key = k
         /\ latest[k].frame <= frames
<1>1. latest[k].ring \in Conns /\ latest[k].slot \in Slots /\ latest[k].frame \in Frames
  BY DEF IInv, TypeOK, Holds
<1>2. ring[latest[k].ring][latest[k].slot] = Cell("ready", latest[k].frame, k)
  BY DEF IInv, HeldFrameStable
<1>3. /\ ring[latest[k].ring][latest[k].slot].frame = latest[k].frame
      /\ ring[latest[k].ring][latest[k].slot].key = k
  BY <1>2 DEF Cell
<1>4. latest[k].frame # None
  BY <1>1, FrameRingAssumption DEF Frames
<1> QED BY <1>1, <1>3, <1>4 DEF IInv, FramesPushed

\* Every step keeps what is held as old as all that is still to come from its ring.
LEMMA OldestStep == RInv /\ [Next]_vars => HoldsAreOldest'
<1> SUFFICES ASSUME RInv, [Next]_vars, NEW k \in Keys, latest'[k] # None, NEW c, c = latest'[k].ring
             PROVE  /\ push'[c] # None => latest'[k].frame <= push'[c].frame
                    /\ \A i \in DOMAIN chan'[c] : chan'[c][i].type = "frame" =>
                         latest'[k].frame <= chan'[c][i].frame
  BY DEF HoldsAreOldest
<1>a. TypeOK /\ IInv /\ SignalsAscend /\ SignalsPlaced /\ HoldsAreOldest
  BY DEF RInv, IInv
<1>d. frames \in Nat /\ Frames \subseteq Nat
  BY <1>a, FrameRingAssumption DEF TypeOK, Frames
<1>1. CASE latest'[k] = latest[k]
  <2>1. c \in Conns /\ latest[k].frame \in Nat /\ latest[k].frame <= frames
    BY <1>1, <1>a, <1>d, HeldFrames
  <2>2. /\ push[c] # None => latest[k].frame <= push[c].frame
        /\ \A i \in DOMAIN chan[c] : chan[c][i].type = "frame" => latest[k].frame <= chan[c][i].frame
    BY <1>1, <1>a DEF HoldsAreOldest
  <2>3. ASSUME push'[c] # None PROVE latest[k].frame <= push'[c].frame
    <3>1. CASE push'[c].frame = frames + 1
      BY <1>d, <2>1, <3>1
    <3> QED BY <1>a, <2>1, <2>2, <2>3, <3>1, PushEffect
  <2>4. ASSUME NEW i \in DOMAIN chan'[c], chan'[c][i].type = "frame"
        PROVE  latest[k].frame <= chan'[c][i].frame
    <3>1. i <= i
      BY <1>a, <2>1, NewPlacesAreNumbers
    <3>2. CASE \E j \in DOMAIN chan[c] : chan'[c][i] = chan[c][j]
      BY <2>2, <2>4, <3>2
    <3>3. CASE Announces(chan'[c][i], c)
      BY <2>2, <3>3 DEF Announces
    <3> QED BY <1>a, <2>1, <2>4, <3>1, <3>2, <3>3, QueueEffect
  <2> QED BY <1>1, <2>3, <2>4
<1>2. CASE latest'[k] # latest[k]
  <2>1. PICK d \in Conns :
          LET m == chan[d][1]
              r == RingFor(k[1])
          IN /\ chan[d] # <<>> /\ m.type = "frame" /\ m.key = k
             /\ r \in Conns /\ Readable(r, m) /\ ~Held(r, m.slot)
             /\ latest'[k] = [ring |-> r, slot |-> m.slot, frame |-> m.frame]
             /\ chan' = [chan EXCEPT ![d] = Tail(chan[d])] /\ push' = push
    BY <1>2, <1>a, LatestEffect
  <2> DEFINE m == chan[d][1]
  <2>2. chan[d] \in Seq(Events \cup Signals)
    BY <1>a DEF TypeOK
  <2>3. /\ 1 \in DOMAIN chan[d]
        /\ \A i \in DOMAIN Tail(chan[d]) :
             i \in Nat /\ i + 1 \in DOMAIN chan[d] /\ Tail(chan[d])[i] = chan[d][i + 1]
    BY <2>1, <2>2, TailElements
  <2>4. /\ m.type = "frame" /\ c \in Conns /\ latest'[k].frame = m.frame /\ push' = push
        /\ Readable(c, m) /\ chan' = [chan EXCEPT ![d] = Tail(chan[d])]
    BY <2>1
  <2>5. m.slot \in Slots /\ WrittenAt(m.frame, d, m.slot)
    BY <1>a, <2>3, <2>4, SignalParts DEF SignalsPlaced
  <2>6. c = d
    BY <2>4, <2>5 DEF Readable, WrittenAt
  <2>7. chan'[c] = Tail(chan[c])
    BY <1>a, <2>4, <2>6 DEF TypeOK
  <2>8. push[c] # None => m.frame <= push[c].frame
    BY <1>a, <2>3, <2>4, <2>6 DEF SignalsAscend
  <2>9. \A j \in DOMAIN chan[c] : 1 <= j /\ chan[c][j].type = "frame" => m.frame <= chan[c][j].frame
    BY <1>a, <2>3, <2>4, <2>6 DEF SignalsAscend
  <2> HIDE DEF m
  <2>10. \A i \in DOMAIN chan'[c] : chan'[c][i].type = "frame" => m.frame <= chan'[c][i].frame
    BY <2>3, <2>6, <2>7, <2>9
  <2> QED BY <2>4, <2>8, <2>10
<1> QED BY <1>1, <1>2

\* Register() attaches a ring under the id of its process.
LEMMA RegisteredStep == TypeOK /\ RegisteredUnderOwnId /\ [Next]_vars => RegisteredUnderOwnId'
<1> SUFFICES ASSUME TypeOK, RegisteredUnderOwnId, [Next]_vars PROVE RegisteredUnderOwnId'
  OBVIOUS
<1>1. ASSUME NEW c \in Conns, Register(c) PROVE RegisteredUnderOwnId'
  <2>1. /\ registry' = [registry EXCEPT ![IdOf[c]] = c]
        /\ registry \in [ConnIds -> Conns \cup {None}]
    BY <1>1 DEF Register, TypeOK
  <2>2. \A i \in ConnIds : registry'[i] = IF i = IdOf[c] THEN c ELSE registry[i]
    BY <2>1
  <2> QED BY <2>2 DEF RegisteredUnderOwnId
<1>2. CASE registry' = registry
  BY <1>2 DEF RegisteredUnderOwnId
<1>3. \A c \in Conns : ConnStep(c) => registry' = registry
  BY ZenonT(40) DEF ConnStep, Join, Leave, StartStream, EndStream, Claim, Full, Commit, Send, Crash,
                hubVars
<1>4. \A c \in Conns : HubStep(c) => registry' = registry
  BY DEF HubStep, HubJoined, HubLeft, HubFrameUnknown, HubFrameRejected, HubFrame, Take
<1>5. UNCHANGED vars => registry' = registry
  BY DEF vars, hubVars
<1> QED BY <1>1, <1>2, <1>3, <1>4, <1>5 DEF Next

\* The strengthened invariant holds at the start.
LEMMA RInvInit == Init => RInv
<1> SUFFICES ASSUME Init PROVE RInv
  OBVIOUS
<1>1. IInv
  BY IInvInit
<1>2. HoldsAreLive /\ RegisteredUnderOwnId /\ WritersPlaced /\ HoldsAreOldest
  BY DEF Init, HoldsAreLive, RegisteredUnderOwnId, WritersPlaced, HoldsAreOldest
<1>3. SignalsPlaced /\ SignalsAscend
  BY DEF Init, SignalsPlaced, SignalsAscend
<1> QED BY <1>1, <1>2, <1>3 DEF RInv

\* Every step keeps the strengthened invariant.
LEMMA RInvStep == RInv /\ [Next]_vars => RInv'
  BY IInvStep, HoldsAreLiveStep, RegisteredStep, PlacedStep, AscendStep, OldestStep DEF RInv, IInv

\* The memory behind a hold shows the frame it was taken for.
LEMMA ShownIs ==
  ASSUME IInv
  PROVE  Shown = [k \in Keys |-> IF latest[k] = None THEN None ELSE [frame |-> latest[k].frame, key |-> k]]
<1>1. ASSUME NEW k \in Keys, latest[k] # None
      PROVE  [frame |-> ring[latest[k].ring][latest[k].slot].frame,
              key |-> ring[latest[k].ring][latest[k].slot].key]
               = [frame |-> latest[k].frame, key |-> k]
  BY <1>1, HeldFrames
<1> QED BY <1>1 DEF Shown

\* A frame that is shown next is newer than the one it replaces.
LEMMA NextIsNewer ==
  ASSUME OneConnector, RInv, [Next]_vars, NEW k \in Keys,
         latest'[k] # None, latest'[k] # latest[k]
  PROVE  /\ latest'[k].frame \in Frames
         /\ latest[k] # None => latest[k].frame < latest'[k].frame
         /\ \A j \in Keys \ {k} : latest'[j] = latest[j]
<1>a. TypeOK /\ IInv /\ SignalsPlaced /\ HoldsAreOldest /\ HoldsAreLive /\ RegisteredUnderOwnId
  BY DEF RInv, IInv
<1>b. Frames \subseteq Nat
  BY FrameRingAssumption DEF Frames
<1>1. PICK c \in Conns :
        LET m == chan[c][1]
            r == RingFor(k[1])
        IN /\ chan[c] # <<>> /\ m.type = "frame" /\ m.key = k
           /\ r \in Conns /\ Readable(r, m) /\ ~Held(r, m.slot)
           /\ latest'[k] = [ring |-> r, slot |-> m.slot, frame |-> m.frame]
           /\ chan' = [chan EXCEPT ![c] = Tail(chan[c])] /\ push' = push
  BY <1>a, LatestEffect
<1> DEFINE m == chan[c][1]
           r == RingFor(k[1])
<1>2. 1 \in DOMAIN chan[c]
  <2>1. chan[c] \in Seq(Events \cup Signals)
    BY <1>a DEF TypeOK
  <2> QED BY <1>1, <2>1, TailElements
<1>3. m.frame \in Frames /\ m.slot \in Slots /\ WrittenAt(m.frame, c, m.slot)
  BY <1>1, <1>2, <1>a, SignalParts DEF SignalsPlaced
<1>4. /\ r \in Conns /\ ring[r][m.slot].frame = m.frame /\ ~Held(r, m.slot)
      /\ latest'[k].frame = m.frame /\ m.type = "frame"
  BY <1>1 DEF Readable
<1>5. r = c
  BY <1>3, <1>4 DEF WrittenAt
<1>6. ASSUME latest[k] # None PROVE latest[k].frame < m.frame
  <2>1. /\ latest[k].ring \in Conns /\ latest[k].slot \in Slots /\ latest[k].frame \in Frames
        /\ ring[latest[k].ring][latest[k].slot].frame = latest[k].frame
    BY <1>6, <1>a, HeldFrames
  <2>2. latest[k].ring = c
    <3>1. k[1] \in Pids
      BY DEF Keys
    <3>2. r = registry[pconn[k[1]]] /\ pconn[k[1]] \in ConnIds
      BY <1>a, <1>4, <3>1, FrameRingAssumption DEF RingFor, TypeOK
    <3>3. PICK i \in ConnIds : registry[i] = latest[k].ring
      BY <1>6, <1>a DEF HoldsAreLive
    <3>4. IdOf[latest[k].ring] = i /\ IdOf[r] = pconn[k[1]]
      BY <1>a, <1>4, <2>1, <3>2, <3>3, FrameRingAssumption DEF RegisteredUnderOwnId
    <3>5. IdOf[latest[k].ring] = IdOf[r]
      BY <1>4, <2>1 DEF OneConnector
    <3>6. registry[i] = registry[pconn[k[1]]]
      BY <3>4, <3>5
    <3> QED BY <1>5, <3>2, <3>3, <3>6
  <2>3. latest[k].frame <= m.frame
    BY <1>2, <1>4, <1>6, <1>a, <2>2 DEF HoldsAreOldest
  <2>4. latest[k].frame # m.frame
    <3>1. latest[k].frame = m.frame => latest[k].slot = m.slot
      BY <1>3, <2>1 DEF WrittenAt
    <3> QED BY <1>4, <1>5, <1>6, <2>2, <3>1 DEF Held
  <2>5. latest[k].frame \in Nat /\ m.frame \in Nat
    BY <1>3, <1>b, <2>1
  <2> HIDE DEF m
  <2> QED BY <2>3, <2>4, <2>5
<1>7. \A j \in Keys \ {k} : latest'[j] = latest[j]
  <2>1. PICK d \in Conns : HubFrame(d)
    <3>1. \A d \in Conns : ConnStep(d) => latest' = latest
      BY ZenonT(40) DEF ConnStep, Join, Leave, StartStream, EndStream, Claim, Full, Commit, Send, Crash,
                    hubVars
    <3>2. \A K : DropHolds(K) => latest'[k] \in {None, latest[k]}
      BY DEF DropHolds
    <3>3. \A d \in Conns : HubJoined(d) \/ HubFrameUnknown(d) \/ HubFrameRejected(d) => latest' = latest
      BY DEF HubJoined, HubFrameUnknown, HubFrameRejected
    <3>4. \A d \in Conns : Register(d) \/ HubLeft(d) => latest'[k] \in {None, latest[k]}
      BY <3>2 DEF Register, HubLeft
    <3>5. UNCHANGED vars => latest' = latest
      BY DEF vars, hubVars
    <3> QED BY <3>1, <3>3, <3>4, <3>5 DEF Next, HubStep
  <2>2. \E j, h : latest' = [latest EXCEPT ![j] = h]
    BY <2>1 DEF HubFrame
  <2> QED BY <1>a, <2>2 DEF TypeOK
<1> QED BY <1>3, <1>4, <1>6, <1>7

\* Every step is one of the register of each track, or leaves it alone.
LEMMA RefinementStep ==
  ASSUME OneConnector, RInv, [Next]_vars
  PROVE  [LatestFrameRegister!Next]_Shown
<1>a. IInv /\ IInv' /\ TypeOK
  BY RInvStep DEF RInv, IInv
<1>b. Shown = [k \in Keys |-> IF latest[k] = None THEN None ELSE [frame |-> latest[k].frame, key |-> k]]
  BY <1>a, ShownIs
<1>c. Shown' = [k \in Keys |-> IF latest'[k] = None THEN None ELSE [frame |-> latest'[k].frame, key |-> k]]
  <2>1. (IInv => Shown = [k \in Keys |-> IF latest[k] = None THEN None ELSE [frame |-> latest[k].frame, key |-> k]])'
    BY ShownIs, PTL
  <2> QED BY <1>a, <2>1
<1>1. CASE \E k \in Keys : latest'[k] # None /\ latest'[k] # latest[k]
  <2>1. PICK k \in Keys : latest'[k] # None /\ latest'[k] # latest[k]
    BY <1>1
  <2>2. /\ latest'[k].frame \in Frames
        /\ latest[k] # None => latest[k].frame < latest'[k].frame
        /\ \A j \in Keys \ {k} : latest'[j] = latest[j]
    BY <2>1, NextIsNewer
  <2>3. Shown[k] = None \/ Shown[k].frame < latest'[k].frame
    BY <1>b, <2>2
  <2>4. Shown' = [Shown EXCEPT ![k] = [frame |-> latest'[k].frame, key |-> k]]
    BY <1>b, <1>c, <2>1, <2>2
  <2> QED BY <2>2, <2>3, <2>4 DEF LatestFrameRegister!Next, LatestFrameRegister!Show
<1>2. CASE \A k \in Keys : latest'[k] = None \/ latest'[k] = latest[k]
  <2> DEFINE K == {k \in Keys : latest'[k] = None}
  <2>1. Shown' = [k \in Keys |-> IF k \in K THEN None ELSE Shown[k]]
    BY <1>2, <1>b, <1>c
  <2>2. K \in SUBSET Keys
    OBVIOUS
  <2> QED BY <2>1, <2>2 DEF LatestFrameRegister!Next, LatestFrameRegister!Drop
<1> QED BY <1>1, <1>2

\* The ring and the hub implement a register per track, across restarts of the connector:
\* a track shows frames of its own, each newer than the one before, until it is emptied.
THEOREM TracksAreRegisters == OneConnector /\ Spec => RefinesLatestFrame
<1> SUFFICES ASSUME OneConnector PROVE Spec => RefinesLatestFrame
  OBVIOUS
<1>1. Init => LatestFrameRegister!Init
  BY DEF Init, LatestFrameRegister!Init, Shown
<1>2. RInv /\ [Next]_vars => [LatestFrameRegister!Next]_Shown
  BY RefinementStep
<1> QED
  BY <1>1, <1>2, RInvInit, RInvStep, PTL DEF Spec, RefinesLatestFrame, LatestFrameRegister!Spec

-----------------------------------------------------------------------------
(* A signal never outlives its frame.                                          *)
(*                                                                             *)
(* A process that restarts under its id leaves signals that the hub looks up   *)
(* in the new ring, and a participant who moves has them looked up in the      *)
(* other connector's: such a signal releases a slot that another one still     *)
(* names.  The theorem is about one process; sends may block, tracks may end   *)
(* after their session, signals may be repeated and the process may die.       *)

\* One connector process: there is no other ring, and no signal of an earlier incarnation.
OneProcess == \A c, d \in Conns : c = d

\* No frame is lost between the ring and the hub: the slot a queued signal names
\* still holds that frame, so a rejected signal never frees a good one.
QueuedSignalsReadable ==
  \A c \in Conns : \A i \in DOMAIN chan[c] :
    chan[c][i].type = "frame" => Readable(c, chan[c][i])

\* What a process has written is in its slot, and READY when it is about to be announced.
WritesInSlots ==
  \A c \in Conns : push[c] # None =>
    /\ ring[c][push[c].slot].frame = push[c].frame
    /\ push[c].phase = "ready" => ring[c][push[c].slot].st = "ready"

\* What is being written has not been signalled yet, nor is it held.
WritesAreNew ==
  \A c \in Conns : push[c] # None =>
    /\ \A i \in DOMAIN chan[c] :
         chan[c][i].type = "frame" => chan[c][i].frame # push[c].frame
    /\ \A k \in Keys : latest[k] # None => latest[k].frame # push[c].frame

\* Copies of a signal adjoin: no event is between them.
CopiesAdjoin ==
  \A c \in Conns : \A h, i, j \in DOMAIN chan[c] :
    /\ h <= i /\ i <= j /\ chan[c][h].type = "frame" /\ chan[c][j].type = "frame"
    /\ chan[c][h].frame = chan[c][j].frame
    => chan[c][i].type = "frame"

\* Copies of a signal whose frame is held already come before any event.
HeldCopiesLead ==
  \A c \in Conns, k \in Keys : latest[k] # None =>
    \A i, j \in DOMAIN chan[c] :
      i <= j /\ chan[c][j].type = "frame" /\ chan[c][j].frame = latest[k].frame
      => chan[c][i].type = "frame"

\* Rings are registered by processes that have their acknowledgement.
RingsAcked == \A i \in ConnIds : registry[i] # None => registry[i] \in acked

\* What every step of a single process keeps, under every fault.
QInv ==
  /\ RInv /\ RingsAcked
  /\ QueuedSignalsReadable /\ WritesInSlots /\ WritesAreNew /\ CopiesAdjoin /\ HeldCopiesLead

\* At the start nothing is queued, written or held.
LEMMA QInvInit == Init => QInv
<1> SUFFICES ASSUME Init PROVE QInv
  OBVIOUS
<1>1. RInv
  BY RInvInit
<1>2. \A c \in Conns : DOMAIN chan[c] = {}
  BY DEF Init
<1>3. QueuedSignalsReadable /\ CopiesAdjoin
  BY <1>2 DEF QueuedSignalsReadable, CopiesAdjoin
<1>4. RingsAcked /\ WritesInSlots /\ WritesAreNew /\ HeldCopiesLead
  BY DEF Init, RingsAcked, WritesInSlots, WritesAreNew, HeldCopiesLead
<1> QED BY <1>1, <1>3, <1>4 DEF QInv

\* Where the queue of a process comes from, element by element.
LEMMA QueueOrigin ==
  ASSUME TypeOK, [Next]_vars, NEW c \in Conns
  PROVE  \E f, m :
           /\ f \in [DOMAIN chan'[c] -> Nat]
           /\ m.type # "frame" \/ Sends(m, c)
           /\ \A h, i \in DOMAIN chan'[c] : h <= i => f[h] <= f[i]
           /\ \A i \in DOMAIN chan'[c] : \/ f[i] \in DOMAIN chan[c] /\ chan'[c][i] = chan[c][f[i]]
                                         \/ f[i] > Len(chan[c]) /\ chan'[c][i] = m
           /\ \A h, i \in DOMAIN chan'[c] :
                f[h] <= f[i] /\ f[i] \in DOMAIN chan[c] => f[h] \in DOMAIN chan[c]
<1>1. PICK f, m : Continues(chan'[c], chan[c], f, m) /\ (m.type # "frame" \/ Sends(m, c))
  BY QueueMap
<1>2. chan[c] \in Seq(Events \cup Signals) /\ chan'[c] \in Seq(Events \cup Signals)
  BY TypeStep DEF TypeOK
<1>3. /\ DOMAIN chan[c] = 1 .. Len(chan[c]) /\ Len(chan[c]) \in Nat
      /\ DOMAIN chan'[c] = 1 .. Len(chan'[c]) /\ Len(chan'[c]) \in Nat
  BY <1>2, LenProperties
<1>4. /\ f \in [DOMAIN chan'[c] -> Nat]
      /\ \A h, i \in DOMAIN chan'[c] : h < i => f[h] < f[i]
      /\ \A i \in DOMAIN chan'[c] : \/ f[i] \in DOMAIN chan[c] /\ chan'[c][i] = chan[c][f[i]]
                                    \/ f[i] > Len(chan[c]) /\ chan'[c][i] = m
  BY <1>1 DEF Continues
<1>5. ASSUME NEW h \in DOMAIN chan'[c], NEW i \in DOMAIN chan'[c], h <= i PROVE f[h] <= f[i]
  <2>1. f[h] \in Nat /\ f[i] \in Nat /\ (h < i \/ h = i)
    BY <1>3, <1>4, <1>5
  <2> QED BY <1>4, <2>1
<1>6. ASSUME NEW h \in DOMAIN chan'[c], NEW i \in DOMAIN chan'[c], f[h] <= f[i], f[i] \in DOMAIN chan[c]
      PROVE  f[h] \in DOMAIN chan[c]
  <2>1. f[h] \in Nat /\ f[i] \in Nat
    BY <1>4
  <2> QED BY <1>3, <1>4, <1>6, <2>1
<1> QED BY <1>1, <1>4, <1>5, <1>6

\* A READY slot stays as it is, or the hub lets go of it.
LetGo(k) == \/ \E c \in Conns : HubFrame(c) /\ k = Head(chan[c]).key
                                /\ ~Held(RingFor(k[1]), Head(chan[c]).slot)
            \/ \E c \in Conns : HubLeft(c) \/ Register(c)

\* Whatever else a step does, a READY slot changes only when its hold is let go.
LEMMA ReadySlotStays ==
  ASSUME OneProcess, TypeOK, HeldFrameStable, WritersMark, QueuedSignalsReadable,
         [Next]_vars, NEW c \in Conns, NEW s \in Slots, ring[c][s].st = "ready"
  PROVE  \/ ring'[c][s] = ring[c][s]
         \/ \E k \in Keys : /\ latest[k] # None /\ latest[k].ring = c /\ latest[k].slot = s
                            /\ latest[k].frame = ring[c][s].frame /\ LetGo(k)
<1> DEFINE Same == ring'[c][s] = ring[c][s]
           Gone == \E k \in Keys : /\ latest[k] # None /\ latest[k].ring = c /\ latest[k].slot = s
                                   /\ latest[k].frame = ring[c][s].frame /\ LetGo(k)
<1> SUFFICES Same \/ Gone
  OBVIOUS
<1>a. ring \in [Conns -> [Slots -> Cells]]
  BY DEF TypeOK
<1>b. CASE ring' = ring
  BY <1>b
<1>c. ASSUME NEW K \in SUBSET Keys, ring' = ReleaseHeld(K), \A k \in K : LetGo(k) PROVE Same \/ Gone
  <2>1. CASE \E k \in K : latest[k] # None /\ latest[k].ring = c /\ latest[k].slot = s
    <3>1. PICK k \in K : latest[k] # None /\ latest[k].ring = c /\ latest[k].slot = s
      BY <2>1
    <3>2. ring[c][s] = Cell("ready", latest[k].frame, k)
      BY <3>1 DEF HeldFrameStable
    <3>3. latest[k].frame = ring[c][s].frame
      BY <3>2 DEF Cell
    <3> QED BY <1>c, <3>1, <3>3
  <2>2. CASE ~ \E k \in K : latest[k] # None /\ latest[k].ring = c /\ latest[k].slot = s
    <3>1. ReleaseHeld(K)[c][s] = ring[c][s]
      BY <2>2 DEF ReleaseHeld
    <3> QED BY <1>c, <3>1
  <2> QED BY <2>1, <2>2
<1>1. ASSUME NEW d \in Conns, NEW k \in Keys, Claim(d, k) PROVE Same
  <2>1. PICK u \in Slots : /\ ring[d][u].st = "free"
                           /\ \A e \in Conns, v \in Slots : e # d \/ v # u => ring'[e][v] = ring[e][v]
    BY <1>1, ClaimEffect
  <2> QED BY <2>1
<1>2. ASSUME NEW d \in Conns, Commit(d) PROVE Same
  <2>1. /\ push[d] # None /\ push[d].slot \in Slots /\ ring[d][push[d].slot].st = "writing"
        /\ ring' = [ring EXCEPT ![d][push[d].slot].st = "ready"]
    BY <1>2 DEF Commit, TypeOK, Writes, WritersMark
  <2>2. d # c \/ push[d].slot # s
    BY <2>1
  <2> QED BY <1>a, <2>1, <2>2
<1>3. ASSUME NEW d \in Conns, ConnStep(d), ~Commit(d), \A k \in Keys : ~Claim(d, k) PROVE Same
  <2>1. ring' = ring
    BY <1>3 DEF ConnStep, Join, Leave, StartStream, EndStream, Full, Send, Crash
  <2> QED BY <2>1
<1>4. ASSUME NEW d \in Conns, Register(d) PROVE Same \/ Gone
  <2> DEFINE K == {k \in Keys : latest[k] # None /\ latest[k].ring = registry[IdOf[d]]}
  <2>1. ring' = ReleaseHeld(K)
    BY <1>4 DEF Register, DropHolds
  <2>2. K \in SUBSET Keys /\ \A k \in K : LetGo(k)
    BY <1>4 DEF LetGo
  <2> HIDE DEF K
  <2> QED BY <1>c, <2>1, <2>2
<1>5. ASSUME NEW d \in Conns, HubLeft(d) PROVE Same \/ Gone
  <2> DEFINE K == {k \in Keys : k[1] = Head(chan[d]).pid}
  <2>1. ring' = ring \/ ring' = ReleaseHeld(K)
    BY <1>5 DEF HubLeft, DropHolds
  <2>2. K \in SUBSET Keys /\ \A k \in K : LetGo(k)
    BY <1>5 DEF LetGo
  <2> HIDE DEF K
  <2> QED BY <1>b, <1>c, <2>1, <2>2
<1>6. ASSUME NEW d \in Conns, HubFrame(d) PROVE Same \/ Gone
  <2> DEFINE m == Head(chan[d])
  <2>1. m.key \in Keys
    <3>1. chan[d] \in Seq(Events \cup Signals) /\ chan[d] # <<>> /\ m.type = "frame"
      BY <1>6 DEF HubFrame, Take, TypeOK
    <3>2. m \in Events \cup Signals
      BY <3>1, TailElements
    <3> QED BY <3>1, <3>2 DEF Events, Signals
  <2>2. ring' = ring \/ (ring' = ReleaseHeld({m.key}) /\ ~Held(RingFor(m.key[1]), m.slot))
    BY <1>6 DEF HubFrame
  <2>3. ASSUME ~Held(RingFor(m.key[1]), m.slot) PROVE LetGo(m.key)
    BY <1>6, <2>3 DEF LetGo
  <2> HIDE DEF m
  <2>4. {m.key} \in SUBSET Keys
    BY <2>1
  <2> QED BY <1>b, <1>c, <2>2, <2>3, <2>4
<1>7. ASSUME NEW d \in Conns, HubFrameRejected(d) PROVE Same
  <2> DEFINE m == Head(chan[d])
  <2>1. /\ chan[d] \in Seq(Events \cup Signals) /\ chan[d] # <<>> /\ m.type = "frame"
        /\ RingFor(m.key[1]) # None /\ ~Readable(RingFor(m.key[1]), m)
    BY <1>7 DEF HubFrameRejected, Take, TypeOK
  <2>2. 1 \in DOMAIN chan[d] /\ m = chan[d][1] /\ m \in Events \cup Signals
    BY <2>1, TailElements
  <2>3. RingFor(m.key[1]) \in Conns
    <3>1. m.key[1] \in Pids
      BY <2>1, <2>2 DEF Events, Signals, Keys
    <3> QED BY <2>1, <3>1 DEF RingFor, TypeOK
  <2>4. Readable(d, m) /\ RingFor(m.key[1]) = d
    BY <2>1, <2>2, <2>3 DEF QueuedSignalsReadable, OneProcess
  <2> QED BY <2>1, <2>4
<1>8. ASSUME NEW d \in Conns, HubJoined(d) \/ HubFrameUnknown(d) PROVE Same
  BY <1>8 DEF HubJoined, HubFrameUnknown
<1>9. CASE UNCHANGED vars
  BY <1>9 DEF vars
<1> QED BY <1>1, <1>2, <1>3, <1>4, <1>5, <1>6, <1>7, <1>8, <1>9 DEF Next, HubStep

\* The hub lets go of no frame that is pending behind the message it takes.
LEMMA PendingIsKept ==
  ASSUME OneProcess, QInv, [Next]_vars, NEW c \in Conns, NEW k \in Keys,
         latest[k] # None, latest[k].ring = c, LetGo(k)
  PROVE  /\ push[c] # None => push[c].frame # latest[k].frame
         /\ \A i \in DOMAIN chan'[c] : chan'[c][i].type = "frame" => chan'[c][i].frame # latest[k].frame
<1>a. /\ TypeOK /\ IInv /\ HoldsAreLive /\ SignalsAscend /\ SignalsPlaced /\ HoldsAreOldest
      /\ RingsAcked /\ QueuedSignalsReadable /\ WritesAreNew /\ HeldCopiesLead
  BY DEF QInv, RInv, IInv
<1>b. chan[c] \in Seq(Events \cup Signals)
  BY <1>a DEF TypeOK
<1>1. push[c] # None => push[c].frame # latest[k].frame
  BY <1>a DEF WritesAreNew
<1>2. ASSUME Register(c) PROVE FALSE
  <2>1. PICK i \in ConnIds : registry[i] = c
    BY <1>a DEF HoldsAreLive
  <2>2. c \in acked
    BY <1>a, <2>1, FrameRingAssumption DEF RingsAcked
  <2> QED BY <1>2, <2>2 DEF Register
<1>3. ASSUME NEW d \in Conns, HubLeft(d) \/ HubFrame(d)
      PROVE  /\ d = c /\ 1 \in DOMAIN chan[c] /\ Head(chan[c]) = chan[c][1] /\ chan'[c] = Tail(chan[c])
             /\ \A i \in DOMAIN chan'[c] :
                  i + 1 \in DOMAIN chan[c] /\ 1 <= i + 1 /\ chan'[c][i] = chan[c][i + 1]
  <2>1. d = c /\ chan[c] # <<>> /\ chan' = [chan EXCEPT ![c] = Tail(chan[c])]
    BY <1>3 DEF HubLeft, HubFrame, Take, OneProcess
  <2>2. chan'[c] = Tail(chan[c])
    BY <1>a, <2>1 DEF TypeOK
  <2>3. /\ 1 \in DOMAIN chan[c] /\ Head(chan[c]) = chan[c][1]
        /\ \A i \in DOMAIN Tail(chan[c]) :
             i \in Nat /\ i + 1 \in DOMAIN chan[c] /\ Tail(chan[c])[i] = chan[c][i + 1]
    BY <1>b, <2>1, TailElements
  <2>4. \A i \in Nat : 1 <= i + 1
    OBVIOUS
  <2> QED BY <2>1, <2>2, <2>3, <2>4, Zenon
<1>4. ASSUME NEW d \in Conns, HubLeft(d),
             NEW i \in DOMAIN chan'[c], chan'[c][i].type = "frame", chan'[c][i].frame = latest[k].frame
      PROVE  FALSE
  <2>1. chan[c][1].type = "left"
    BY <1>3, <1>4 DEF HubLeft, Take
  <2>2. chan[c][1].type = "frame"
    BY <1>3, <1>4, <1>a DEF HeldCopiesLead
  <2> QED BY <2>1, <2>2
<1>5. ASSUME NEW d \in Conns, HubFrame(d), k = Head(chan[d]).key,
             ~Held(RingFor(k[1]), Head(chan[d]).slot),
             NEW i \in DOMAIN chan'[c], chan'[c][i].type = "frame", chan'[c][i].frame = latest[k].frame
      PROVE  FALSE
  <2> DEFINE m == chan[c][1]
  <2>1. /\ 1 \in DOMAIN chan[c] /\ i + 1 \in DOMAIN chan[c] /\ 1 <= i + 1
        /\ chan'[c][i] = chan[c][i + 1] /\ m = Head(chan[c]) /\ d = c
    BY <1>3, <1>5
  <2>2. m.type = "frame"
    BY <1>5, <2>1 DEF HubFrame, Take
  <2>3. m.frame <= latest[k].frame /\ latest[k].frame <= m.frame
    BY <1>5, <1>a, <2>1, <2>2 DEF SignalsAscend, HoldsAreOldest
  <2>4. /\ m.frame \in Frames /\ m.slot \in Slots /\ WrittenAt(m.frame, c, m.slot)
    BY <1>a, <2>1, <2>2, SignalParts DEF SignalsPlaced
  <2>5. /\ latest[k].ring = c /\ latest[k].slot \in Slots /\ latest[k].frame \in Frames
        /\ ring[c][latest[k].slot].frame = latest[k].frame
    BY <1>a, HeldFrames
  <2>6. m.frame = latest[k].frame
    BY <2>3, <2>4, <2>5, FrameRingAssumption DEF Frames
  <2>7. latest[k].slot = m.slot
    BY <2>4, <2>5, <2>6 DEF WrittenAt
  <2>8. RingFor(k[1]) = c
    <3>1. m.key \in Keys /\ RingFor(m.key[1]) # None
      BY <1>5, <1>a, <2>1, <2>2, SignalParts DEF HubFrame
    <3>2. k[1] \in Pids /\ RingFor(k[1]) # None
      BY <1>5, <2>1, <3>1 DEF Keys
    <3>3. RingFor(k[1]) \in Conns
      BY <1>a, <3>2 DEF RingFor, TypeOK
    <3> QED BY <3>3 DEF OneProcess
  <2> QED BY <1>5, <2>1, <2>5, <2>7, <2>8 DEF Held
<1>6. \A d \in Conns : Register(d) => FALSE
  BY <1>2 DEF OneProcess
<1> QED BY <1>1, <1>4, <1>5, <1>6 DEF LetGo

\* Every step keeps the queued signals readable.
LEMMA QueuedStep == OneProcess /\ QInv /\ [Next]_vars => QueuedSignalsReadable'
<1> SUFFICES ASSUME OneProcess, QInv, [Next]_vars, NEW c \in Conns,
                    NEW i \in DOMAIN chan'[c], chan'[c][i].type = "frame"
             PROVE  /\ ring'[c][chan'[c][i].slot].st = "ready"
                    /\ ring'[c][chan'[c][i].slot].frame = chan'[c][i].frame
  BY DEF QueuedSignalsReadable, Readable
<1>a. TypeOK /\ QueuedSignalsReadable /\ WritesInSlots /\ HeldFrameStable /\ WritersMark
  BY DEF QInv, RInv, IInv
<1>1. PICK f, m :
           /\ f \in [DOMAIN chan'[c] -> Nat]
           /\ m.type # "frame" \/ Sends(m, c)
           /\ \A n \in DOMAIN chan'[c] : \/ f[n] \in DOMAIN chan[c] /\ chan'[c][n] = chan[c][f[n]]
                                         \/ f[n] > Len(chan[c]) /\ chan'[c][n] = m
  BY <1>a, QueueOrigin
<1>2. CASE f[i] \in DOMAIN chan[c]
  <2> DEFINE s == chan'[c][i].slot
  <2>0. f[i] \in DOMAIN chan[c] /\ (chan'[c][i] = chan[c][f[i]] \/ chan'[c][i] = m)
    BY <1>1, <1>2
  <2>1. chan'[c][i] = chan[c][f[i]] \/ Sends(chan'[c][i], c)
    BY <1>1, <2>0
  <2>2. CASE chan'[c][i] = chan[c][f[i]]
    <3>1. s \in Slots /\ ring[c][s].st = "ready" /\ ring[c][s].frame = chan'[c][i].frame
      BY <1>2, <1>a, <2>2, SignalParts DEF QueuedSignalsReadable, Readable
    <3>2. ASSUME NEW k \in Keys, latest[k] # None, latest[k].ring = c,
                 latest[k].frame = ring[c][s].frame, LetGo(k)
          PROVE  FALSE
      BY <3>1, <3>2, PendingIsKept
    <3> HIDE DEF s
    <3>3. ring'[c][s] = ring[c][s]
      BY <1>a, <3>1, <3>2, ReadySlotStays
    <3> QED BY <3>1, <3>3 DEF s
  <2>3. CASE Sends(chan'[c][i], c)
    BY <1>a, <2>3 DEF Sends, Announces, WritesInSlots
  <2> QED BY <2>1, <2>2, <2>3
<1>3. CASE f[i] \notin DOMAIN chan[c]
  <2>1. Sends(chan'[c][i], c)
    BY <1>1, <1>3
  <2> QED BY <1>a, <2>1 DEF Sends, Announces, WritesInSlots
<1> QED BY <1>2, <1>3

\* Every step keeps what is written in its slot.
LEMMA WritesInSlotsStep == OneProcess /\ QInv /\ [Next]_vars => WritesInSlots'
<1> SUFFICES ASSUME OneProcess, QInv, [Next]_vars, NEW c \in Conns, push'[c] # None
             PROVE  /\ ring'[c][push'[c].slot].frame = push'[c].frame
                    /\ push'[c].phase = "ready" => ring'[c][push'[c].slot].st = "ready"
  BY DEF WritesInSlots
<1>a. /\ TypeOK /\ WritesInSlots /\ QueuedSignalsReadable /\ HeldFrameStable /\ WritersMark
  BY DEF QInv, RInv, IInv
<1>b. push \in [Conns -> Writes \cup {None}] /\ ring \in [Conns -> [Slots -> Cells]]
  BY <1>a DEF TypeOK
<1>1. ASSUME NEW k \in Keys, Claim(c, k)
      PROVE  ring'[c][push'[c].slot].frame = push'[c].frame /\ push'[c].phase = "writing"
  <2>1. PICK u \in Slots :
          /\ ring'[c][u] = Cell("writing", frames + 1, k)
          /\ push' = [push EXCEPT ![c] = [slot |-> u, frame |-> frames + 1,
                                          key |-> k, phase |-> "writing"]]
    BY <1>a, <1>1, ClaimEffect
  <2>2. push'[c] = [slot |-> u, frame |-> frames + 1, key |-> k, phase |-> "writing"]
    BY <1>b, <2>1
  <2> QED BY <2>1, <2>2 DEF Cell
<1>2. ASSUME Commit(c)
      PROVE  /\ ring'[c][push'[c].slot].frame = push'[c].frame
             /\ ring'[c][push'[c].slot].st = "ready"
  <2>1. /\ push[c] \in Writes /\ push[c].slot \in Slots
        /\ ring[c][push[c].slot].frame = push[c].frame
        /\ ring' = [ring EXCEPT ![c][push[c].slot].st = "ready"]
        /\ push' = [push EXCEPT ![c].phase = "ready"]
    BY <1>2, <1>a, <1>b DEF Commit, Writes, WritesInSlots
  <2>2. push'[c].slot = push[c].slot /\ push'[c].frame = push[c].frame
    <3>1. push'[c] = [push[c] EXCEPT !.phase = "ready"]
      BY <1>b, <2>1
    <3> QED BY <2>1, <3>1 DEF Writes
  <2>3. ring'[c][push[c].slot] = [ring[c][push[c].slot] EXCEPT !.st = "ready"]
    BY <1>b, <2>1
  <2>4. ring[c][push[c].slot] \in Cells
    BY <1>b, <2>1
  <2> QED BY <2>1, <2>2, <2>3, <2>4 DEF Cells
<1>3. CASE push'[c] = push[c] /\ ~Commit(c) /\ \A k \in Keys : ~Claim(c, k)
  <2>1. push[c].slot \in Slots /\ push[c].frame \in Frames
    BY <1>3, <1>b DEF Writes
  <2>2. ring'[c][push[c].slot].frame = ring[c][push[c].slot].frame
    <3>1. ~ \E d \in Conns, k \in Keys : Claim(d, k)
      BY <1>3 DEF OneProcess
    <3> QED BY <1>a, <2>1, <3>1, FramesStay
  <2>3. ASSUME push[c].phase = "ready" PROVE ring'[c][push[c].slot].st = "ready"
    <3>1. ring[c][push[c].slot].st = "ready" /\ ring[c][push[c].slot].frame = push[c].frame
      BY <1>3, <1>a, <2>3 DEF WritesInSlots
    <3>2. ASSUME NEW k \in Keys, latest[k] # None, latest[k].ring = c,
                 latest[k].frame = push[c].frame, LetGo(k)
          PROVE  FALSE
      BY <1>3, <3>2, PendingIsKept
    <3>3. ring'[c][push[c].slot] = ring[c][push[c].slot]
      BY <1>a, <2>1, <3>1, <3>2, ReadySlotStays
    <3> QED BY <3>1, <3>3
  <2> QED BY <1>3, <1>a, <2>2, <2>3 DEF WritesInSlots
<1>4. ASSUME ~Commit(c), \A k \in Keys : ~Claim(c, k) PROVE push'[c] = push[c]
  <2>1. \A d \in Conns : d = c
    BY DEF OneProcess
  <2>2. ASSUME NEW d \in Conns, ConnStep(d) PROVE push'[c] = push[c]
    <3>1. \/ push' = push
          \/ push' = [push EXCEPT ![c] = None]
      BY <1>4, <2>1, <2>2 DEF ConnStep, Join, Leave, StartStream, EndStream, Full, Send, Crash
    <3> QED BY <1>b, <3>1
  <2>3. ASSUME NEW d \in Conns, Register(d) \/ HubStep(d) PROVE push'[c] = push[c]
    BY <2>3 DEF HubStep, HubJoined, HubLeft, HubFrameUnknown, HubFrameRejected, HubFrame,
                    Take, Register, connVars
  <2>4. CASE UNCHANGED vars
    BY <2>4 DEF vars, connVars
  <2> QED BY <2>2, <2>3, <2>4 DEF Next
<1> QED BY <1>1, <1>2, <1>3, <1>4

\* Every step keeps what is being written out of the queue and of the holds.
LEMMA WritesAreNewStep == OneProcess /\ QInv /\ [Next]_vars => WritesAreNew'
<1> SUFFICES ASSUME OneProcess, QInv, [Next]_vars, NEW c \in Conns, push'[c] # None
             PROVE  /\ \A i \in DOMAIN chan'[c] :
                         chan'[c][i].type = "frame" => chan'[c][i].frame # push'[c].frame
                    /\ \A k \in Keys : latest'[k] # None => latest'[k].frame # push'[c].frame
  BY DEF WritesAreNew
<1>a. TypeOK /\ IInv /\ WritesAreNew /\ SignalsPlaced
  BY DEF QInv, RInv, IInv
<1>d. frames \in Nat /\ Frames \subseteq Nat
  BY <1>a, FrameRingAssumption DEF TypeOK, Frames
<1>1. ASSUME NEW k \in Keys, Claim(c, k), push'[c].frame = frames + 1
      PROVE  /\ \A i \in DOMAIN chan'[c] :
                  chan'[c][i].type = "frame" => chan'[c][i].frame # push'[c].frame
             /\ \A j \in Keys : latest'[j] # None => latest'[j].frame # push'[c].frame
  <2>1. chan' = chan /\ latest' = latest
    BY <1>a, <1>1, ClaimEffect
  <2>2. \A i \in DOMAIN chan[c] : chan[c][i].type = "frame" =>
          chan[c][i].frame \in Nat /\ chan[c][i].frame <= frames
    BY <1>a, <1>d, SignalParts DEF SignalsPlaced, WrittenAt
  <2>3. \A j \in Keys : latest[j] # None => latest[j].frame \in Nat /\ latest[j].frame <= frames
    BY <1>a, <1>d, HeldFrames
  <2> QED BY <1>1, <1>d, <2>1, <2>2, <2>3
<1>2. CASE push[c] # None /\ push'[c].frame = push[c].frame
  <2>1. ASSUME NEW i \in DOMAIN chan'[c], chan'[c][i].type = "frame" PROVE chan'[c][i].frame # push'[c].frame
    <3>1. PICK f, m :
           /\ f \in [DOMAIN chan'[c] -> Nat]
           /\ m.type # "frame" \/ Sends(m, c)
           /\ \A n \in DOMAIN chan'[c] : \/ f[n] \in DOMAIN chan[c] /\ chan'[c][n] = chan[c][f[n]]
                                         \/ f[n] > Len(chan[c]) /\ chan'[c][n] = m
      BY <1>a, QueueOrigin
    <3>2. ~Sends(m, c)
      BY DEF Sends
    <3>3. f[i] \in DOMAIN chan[c] /\ chan'[c][i] = chan[c][f[i]]
      BY <2>1, <3>1, <3>2
    <3> QED BY <1>2, <1>a, <2>1, <3>3 DEF WritesAreNew
  <2>2. ASSUME NEW k \in Keys, latest'[k] # None PROVE latest'[k].frame # push'[c].frame
    <3>1. CASE latest'[k] = latest[k]
      BY <1>2, <1>a, <2>2, <3>1 DEF WritesAreNew
    <3>2. CASE latest'[k] # latest[k]
      <4>1. PICK d \in Conns :
              LET m == chan[d][1]
                  r == RingFor(k[1])
              IN /\ chan[d] # <<>> /\ m.type = "frame" /\ m.key = k
                 /\ r \in Conns /\ Readable(r, m) /\ ~Held(r, m.slot)
                 /\ latest'[k] = [ring |-> r, slot |-> m.slot, frame |-> m.frame]
                 /\ chan' = [chan EXCEPT ![d] = Tail(chan[d])] /\ push' = push
        BY <1>a, <2>2, <3>2, LatestEffect
      <4>2. /\ chan[d] # <<>> /\ chan[d][1].type = "frame" /\ latest'[k].frame = chan[d][1].frame
            /\ d = c
        BY <4>1 DEF OneProcess
      <4>3. 1 \in DOMAIN chan[c]
        <5>1. chan[c] \in Seq(Events \cup Signals) /\ chan[c] # <<>>
          BY <1>a, <4>2 DEF TypeOK
        <5> QED BY <5>1, TailElements
      <4> QED BY <1>2, <1>a, <4>2, <4>3 DEF WritesAreNew
    <3> QED BY <3>1, <3>2
  <2> QED BY <2>1, <2>2
<1> QED BY <1>a, <1>1, <1>2, PushEffect

\* Every step keeps the copies of a signal together.
LEMMA CopiesStep == QInv /\ [Next]_vars => CopiesAdjoin'
<1> SUFFICES ASSUME QInv, [Next]_vars, NEW c \in Conns,
                    NEW h \in DOMAIN chan'[c], NEW i \in DOMAIN chan'[c], NEW j \in DOMAIN chan'[c],
                    h <= i, i <= j, chan'[c][h].type = "frame", chan'[c][j].type = "frame",
                    chan'[c][h].frame = chan'[c][j].frame
             PROVE  chan'[c][i].type = "frame"
  BY DEF CopiesAdjoin
<1>a. TypeOK /\ CopiesAdjoin /\ WritesAreNew
  BY DEF QInv, RInv, IInv
<1>1. PICK f, m :
           /\ f \in [DOMAIN chan'[c] -> Nat]
           /\ m.type # "frame" \/ Sends(m, c)
           /\ \A x, y \in DOMAIN chan'[c] : x <= y => f[x] <= f[y]
           /\ \A x \in DOMAIN chan'[c] : \/ f[x] \in DOMAIN chan[c] /\ chan'[c][x] = chan[c][f[x]]
                                         \/ f[x] > Len(chan[c]) /\ chan'[c][x] = m
           /\ \A x, y \in DOMAIN chan'[c] :
                f[x] <= f[y] /\ f[y] \in DOMAIN chan[c] => f[x] \in DOMAIN chan[c]
  BY <1>a, QueueOrigin
<1>b. /\ Len(chan[c]) \in Nat /\ DOMAIN chan[c] = 1 .. Len(chan[c])
  <2>1. chan[c] \in Seq(Events \cup Signals)
    BY <1>a DEF TypeOK
  <2> QED BY <2>1, LenProperties
<1>2. f[h] <= f[i] /\ f[i] <= f[j]
  BY <1>1
<1>3. \A x \in DOMAIN chan'[c] : f[x] \in DOMAIN chan[c] => chan'[c][x] = chan[c][f[x]]
  BY <1>1, <1>b
<1>4. CASE f[j] \in DOMAIN chan[c]
  <2>1. f[i] \in DOMAIN chan[c]
    BY <1>1, <1>2, <1>4
  <2>2. f[h] \in DOMAIN chan[c]
    BY <1>1, <1>2, <2>1
  <2> QED BY <1>2, <1>3, <1>4, <1>a, <2>1, <2>2 DEF CopiesAdjoin
<1>5. CASE f[j] \notin DOMAIN chan[c]
  <2>1. chan'[c][j] = m /\ Sends(m, c)
    BY <1>1, <1>5
  <2>2. CASE f[i] \in DOMAIN chan[c]
    <3>1. f[h] \in DOMAIN chan[c] /\ chan'[c][h] = chan[c][f[h]]
      BY <1>1, <1>2, <1>3, <2>2
    <3>2. push[c] # None /\ chan[c][f[h]].frame = push[c].frame
      BY <2>1, <3>1 DEF Sends, Announces
    <3> QED BY <1>a, <3>1, <3>2 DEF WritesAreNew
  <2>3. CASE f[i] \notin DOMAIN chan[c]
    <3>1. chan'[c][i] = m
      BY <1>1, <2>3
    <3> QED BY <2>1, <3>1
  <2> QED BY <2>2, <2>3
<1> QED BY <1>4, <1>5

\* Every step keeps the copies of a held frame before any event.
LEMMA LeadStep == OneProcess /\ QInv /\ [Next]_vars => HeldCopiesLead'
<1> SUFFICES ASSUME OneProcess, QInv, [Next]_vars, NEW c \in Conns, NEW k \in Keys, latest'[k] # None,
                    NEW i \in DOMAIN chan'[c], NEW j \in DOMAIN chan'[c],
                    i <= j, chan'[c][j].type = "frame", chan'[c][j].frame = latest'[k].frame
             PROVE  chan'[c][i].type = "frame"
  BY DEF HeldCopiesLead
<1>a. TypeOK /\ HeldCopiesLead /\ CopiesAdjoin /\ WritesAreNew
  BY DEF QInv, RInv, IInv
<1>1. CASE latest'[k] = latest[k]
  <2>1. PICK f, m :
           /\ f \in [DOMAIN chan'[c] -> Nat]
           /\ m.type # "frame" \/ Sends(m, c)
           /\ \A x, y \in DOMAIN chan'[c] : x <= y => f[x] <= f[y]
           /\ \A x \in DOMAIN chan'[c] : \/ f[x] \in DOMAIN chan[c] /\ chan'[c][x] = chan[c][f[x]]
                                         \/ f[x] > Len(chan[c]) /\ chan'[c][x] = m
           /\ \A x, y \in DOMAIN chan'[c] :
                f[x] <= f[y] /\ f[y] \in DOMAIN chan[c] => f[x] \in DOMAIN chan[c]
    BY <1>a, QueueOrigin
  <2>2. ASSUME ~(f[j] \in DOMAIN chan[c]) PROVE FALSE
    <3>1. chan'[c][j] = m /\ Sends(m, c)
      BY <2>1, <2>2
    <3> QED BY <1>1, <1>a, <3>1 DEF Sends, Announces, WritesAreNew
  <2>3. f[i] <= f[j] /\ f[i] \in DOMAIN chan[c] /\ f[j] \in DOMAIN chan[c]
    BY <2>1, <2>2
  <2>4. \A x \in DOMAIN chan'[c] : f[x] \in DOMAIN chan[c] => chan'[c][x] = chan[c][f[x]]
    <3>1. Len(chan[c]) \in Nat /\ DOMAIN chan[c] = 1 .. Len(chan[c])
      <4>1. chan[c] \in Seq(Events \cup Signals)
        BY <1>a DEF TypeOK
      <4> QED BY <4>1, LenProperties
    <3> QED BY <2>1, <3>1
  <2> QED BY <1>1, <1>a, <2>3, <2>4 DEF HeldCopiesLead
<1>2. CASE latest'[k] # latest[k]
  <2>1. PICK d \in Conns :
              LET m == chan[d][1]
                  r == RingFor(k[1])
              IN /\ chan[d] # <<>> /\ m.type = "frame" /\ m.key = k
                 /\ r \in Conns /\ Readable(r, m) /\ ~Held(r, m.slot)
                 /\ latest'[k] = [ring |-> r, slot |-> m.slot, frame |-> m.frame]
                 /\ chan' = [chan EXCEPT ![d] = Tail(chan[d])] /\ push' = push
    BY <1>a, <1>2, LatestEffect
  <2>2. /\ chan[d] # <<>> /\ chan[d][1].type = "frame" /\ latest'[k].frame = chan[d][1].frame
        /\ d = c /\ chan' = [chan EXCEPT ![c] = Tail(chan[c])]
    <3>1. d = c
      BY DEF OneProcess
    <3> QED BY <2>1, <3>1
  <2>3. /\ chan[c] \in Seq(Events \cup Signals) /\ chan'[c] = Tail(chan[c])
    BY <1>a, <2>2 DEF TypeOK
  <2>4. /\ 1 \in DOMAIN chan[c]
        /\ \A n \in DOMAIN chan'[c] : n \in Nat /\ n + 1 \in DOMAIN chan[c] /\ chan'[c][n] = chan[c][n + 1]
    <3>1. chan[c] # <<>>
      BY <2>2
    <3> QED BY <2>3, <3>1, TailElements
  <2>5. 1 <= i + 1 /\ i + 1 <= j + 1
    BY <2>4
  <2> QED BY <1>a, <2>2, <2>4, <2>5 DEF CopiesAdjoin
<1> QED BY <1>1, <1>2

\* Rings stay those of acknowledged processes.
LEMMA AckedStep == TypeOK /\ RingsAcked /\ [Next]_vars => RingsAcked'
<1> SUFFICES ASSUME TypeOK, RingsAcked, [Next]_vars PROVE RingsAcked'
  OBVIOUS
<1>1. ASSUME NEW c \in Conns, Register(c) PROVE RingsAcked'
  BY <1>1 DEF Register, TypeOK, RingsAcked
<1>2. CASE registry' = registry /\ acked' = acked
  BY <1>2 DEF RingsAcked
<1>3. \A c \in Conns : ConnStep(c) => registry' = registry /\ acked' = acked
  BY ZenonT(40) DEF ConnStep, Join, Leave, StartStream, EndStream, Claim, Full, Commit, Send, Crash,
                hubVars
<1>4. \A c \in Conns : HubStep(c) => registry' = registry /\ acked' = acked
  BY DEF HubStep, HubJoined, HubLeft, HubFrameUnknown, HubFrameRejected, HubFrame, Take
<1>5. UNCHANGED vars => registry' = registry /\ acked' = acked
  BY DEF vars, hubVars
<1> QED BY <1>1, <1>2, <1>3, <1>4, <1>5 DEF Next

\* Every step keeps the invariant.
LEMMA QInvStep == OneProcess /\ QInv /\ [Next]_vars => QInv'
  BY RInvStep, AckedStep, QueuedStep, WritesInSlotsStep, WritesAreNewStep, CopiesStep, LeadStep
  DEF QInv, RInv, IInv

\* A FRAME_SIGNAL that is queued names a slot that is READY and has the pixels it
\* announces, until the hub takes it: write_frame() does not claim the slot again, and
\* _on_frame() does not release it as the older frame of its track.
THEOREM SignalsStayReadable == OneProcess /\ Spec => []QueuedSignalsReadable
<1> SUFFICES ASSUME OneProcess PROVE Spec => []QueuedSignalsReadable
  OBVIOUS
<1>1. QInv /\ [Next]_vars => QInv'
  BY QInvStep
<1>2. QInv => QueuedSignalsReadable
  BY DEF QInv
<1> QED BY <1>1, <1>2, QInvInit, PTL DEF Spec

-----------------------------------------------------------------------------
(* No slot is lost.                                                            *)
(*                                                                             *)
(* A READY slot whose signal was cancelled, or that the hub dropped because it *)
(* did not know the participant, is never freed (the run frame_leak shows the  *)
(* second).  What is left when neither can happen is one process, and a        *)
(* transport that ends the tracks of a participant before the session.         *)

\* Tracks end before their sessions, a sent signal stays sent, and the process lives on.
Calm == OrderedTeardown /\ ~SendMayBlock /\ ~MayCrash

JoinsAt(q, j, p)  == q[j].type = "joined" /\ q[j].pid = p
LeavesAt(q, j, p) == q[j].type = "left" /\ q[j].pid = p

\* A hub that knows p as con will know p when it has taken n messages of q.
KnownAfter(con, q, p, n) ==
  /\ con # None \/ \E j \in DOMAIN q : j <= n /\ JoinsAt(q, j, p)
  /\ \A l \in DOMAIN q : l <= n /\ LeavesAt(q, l, p) =>
       \E j \in DOMAIN q : l < j /\ j <= n /\ JoinsAt(q, j, p)

\* When the hub comes to a signal it knows the participant and its ring.
SignalsKnown ==
  \A c \in Conns : \A i \in DOMAIN chan[c] : chan[c][i].type = "frame" =>
    KnownAfter(pconn[chan[c][i].key[1]], chan[c], chan[c][i].key[1], i) /\ c \in acked

\* When it has taken all that is queued it knows the participants with a session.
SessionsKnown ==
  \A c \in Conns, p \in Pids : sess[c][p] # 0 => KnownAfter(pconn[p], chan[c], p, Len(chan[c]))

\* Frames are written for tracks of such participants, by registered processes.
TracksOpen ==
  \A c \in Conns :
    /\ \A k \in streams[c] : sess[c][k[1]] # 0
    /\ push[c] # None => push[c].key \in streams[c] /\ c \in acked

\* The only ring there is: the one of the process.
OneHome ==
  \A c \in Conns :
    /\ c \in acked => registry[IdOf[c]] = c
    /\ \A p \in Pids : pconn[p] # None => pconn[p] = IdOf[c]

\* What every step of a calm system keeps.
KInv == QInv /\ SignalsKnown /\ SessionsKnown /\ TracksOpen /\ OneHome /\ SlotsAccounted

\* At the start nobody is known and nothing is queued.
LEMMA KInvInit == Init => KInv
<1> SUFFICES ASSUME Init PROVE KInv
  OBVIOUS
<1>1. QInv
  BY QInvInit
<1>2. \A c \in Conns : DOMAIN chan[c] = {}
  BY DEF Init
<1>3. SignalsKnown
  BY <1>2 DEF SignalsKnown
<1>4. SessionsKnown /\ TracksOpen /\ OneHome
  BY DEF Init, SessionsKnown, TracksOpen, OneHome
<1>5. SlotsAccounted
  BY DEF Init, SlotsAccounted, Cell
<1> QED BY <1>1, <1>3, <1>4, <1>5 DEF KInv

\* The hub will still know p when more is queued behind what makes it known.
LEMMA KnownStays ==
  ASSUME NEW S, NEW q \in Seq(S), NEW r \in Seq(S), Len(q) <= Len(r),
         \A i \in 1 .. Len(q) : r[i] = q[i],
         NEW con, NEW p, NEW n \in Nat, n <= Len(q), KnownAfter(con, q, p, n)
  PROVE  KnownAfter(con, r, p, n)
<1>1. /\ DOMAIN q = 1 .. Len(q) /\ Len(q) \in Nat /\ DOMAIN r = 1 .. Len(r) /\ Len(r) \in Nat
  BY LenProperties
<1>2. ASSUME NEW j \in DOMAIN q PROVE j \in DOMAIN r /\ r[j] = q[j]
  BY <1>1
<1>3. ASSUME NEW l \in DOMAIN r, l <= n PROVE l \in DOMAIN q
  BY <1>1, <1>3
<1> QED BY <1>2, <1>3 DEF KnownAfter, JoinsAt, LeavesAt

\* Nor does it matter to p what else is queued, if it is no departure of p.
LEMMA KnownFurther ==
  ASSUME NEW S, NEW q \in Seq(S), NEW r \in Seq(S), Len(q) <= Len(r), NEW p, NEW m,
         ~(m.type = "left" /\ m.pid = p),
         \A i \in 1 .. Len(q) : r[i] = q[i], \A i \in DOMAIN r : i > Len(q) => r[i] = m,
         NEW con, NEW n \in Nat, Len(q) <= n, KnownAfter(con, q, p, Len(q))
  PROVE  KnownAfter(con, r, p, n)
<1>1. /\ DOMAIN q = 1 .. Len(q) /\ Len(q) \in Nat /\ DOMAIN r = 1 .. Len(r) /\ Len(r) \in Nat
  BY LenProperties
<1>2. ASSUME NEW j \in DOMAIN q PROVE j \in DOMAIN r /\ r[j] = q[j] /\ j <= n /\ j <= Len(q)
  BY <1>1
<1>3. ASSUME NEW l \in DOMAIN r, LeavesAt(r, l, p) PROVE l \in DOMAIN q
  BY <1>1, <1>3 DEF LeavesAt
<1> QED BY <1>2, <1>3 DEF KnownAfter, JoinsAt, LeavesAt

\* An announcement makes p known, whatever was before it.
LEMMA KnownOnceJoined ==
  ASSUME NEW S, NEW q \in Seq(S), q # <<>>, NEW con, NEW p, JoinsAt(q, Len(q), p)
  PROVE  KnownAfter(con, q, p, Len(q))
<1>1. DOMAIN q = 1 .. Len(q) /\ Len(q) \in Nat /\ Len(q) \in DOMAIN q
  BY LenProperties, EmptySeq
<1>2. ASSUME NEW l \in DOMAIN q, LeavesAt(q, l, p) PROVE l < Len(q)
  <2>1. l # Len(q)
    BY <1>2 DEF LeavesAt, JoinsAt
  <2> QED BY <1>1, <2>1
<1>3. Len(q) <= Len(q)
  BY <1>1
<1> QED BY <1>1, <1>2, <1>3 DEF KnownAfter

\* The hub takes the first message: what was known after n is known after n - 1 more.
LEMMA KnownTail ==
  ASSUME NEW S, NEW q \in Seq(S), q # <<>>, NEW con, NEW new, NEW p, NEW n \in Nat,
         KnownAfter(con, q, p, n + 1),
         JoinsAt(q, 1, p) => new # None,
         con # None /\ ~LeavesAt(q, 1, p) => new # None
  PROVE  KnownAfter(new, Tail(q), p, n)
<1>1. /\ DOMAIN q = 1 .. Len(q) /\ Len(q) \in Nat /\ 1 \in DOMAIN q
      /\ \A i \in DOMAIN Tail(q) : i \in Nat /\ i + 1 \in DOMAIN q /\ Tail(q)[i] = q[i + 1]
      /\ Tail(q) \in Seq(S) /\ Len(Tail(q)) = Len(q) - 1
  BY TailElements, LenProperties, HeadTailProperties
<1>2. DOMAIN Tail(q) = 1 .. Len(q) - 1
  BY <1>1, LenProperties
<1>3. ASSUME NEW j \in DOMAIN q, j # 1
      PROVE  j - 1 \in DOMAIN Tail(q) /\ Tail(q)[j - 1] = q[j] /\ (j <= n + 1 => j - 1 <= n)
  <2>1. j - 1 \in DOMAIN Tail(q) /\ (j - 1) + 1 = j
    BY <1>1, <1>2, <1>3
  <2>2. Tail(q)[j - 1] = q[(j - 1) + 1]
    BY <1>1, <2>1
  <2> QED BY <1>1, <2>1, <2>2
<1>4. ASSUME NEW j \in DOMAIN q, j # 1, j <= n + 1, JoinsAt(q, j, p)
      PROVE  \E i \in DOMAIN Tail(q) : i <= n /\ JoinsAt(Tail(q), i, p)
  BY <1>3, <1>4 DEF JoinsAt
<1>5. new # None \/ \E i \in DOMAIN Tail(q) : i <= n /\ JoinsAt(Tail(q), i, p)
  <2>1. CASE LeavesAt(q, 1, p)
    <3>1. PICK j \in DOMAIN q : 1 < j /\ j <= n + 1 /\ JoinsAt(q, j, p)
      <4>1. 1 <= n + 1
        OBVIOUS
      <4> QED BY <1>1, <2>1, <4>1 DEF KnownAfter
    <3>2. j # 1
      BY <1>1, <3>1
    <3> QED BY <1>4, <3>1, <3>2
  <2>2. CASE ~LeavesAt(q, 1, p)
    <3>1. con # None \/ \E j \in DOMAIN q : j <= n + 1 /\ JoinsAt(q, j, p)
      BY DEF KnownAfter
    <3> QED BY <1>4, <2>2, <3>1
  <2> QED BY <2>1, <2>2
<1>6. ASSUME NEW l \in DOMAIN Tail(q), l <= n, LeavesAt(Tail(q), l, p)
      PROVE  \E i \in DOMAIN Tail(q) : l < i /\ i <= n /\ JoinsAt(Tail(q), i, p)
  <2>1. l \in Nat /\ l + 1 \in DOMAIN q /\ l + 1 <= n + 1 /\ LeavesAt(q, l + 1, p)
    BY <1>1, <1>6 DEF LeavesAt
  <2>2. PICK j \in DOMAIN q : l + 1 < j /\ j <= n + 1 /\ JoinsAt(q, j, p)
    BY <2>1 DEF KnownAfter
  <2>3. j # 1 /\ l < j - 1 /\ j \in Nat
    BY <1>1, <2>1, <2>2
  <2>4. j - 1 \in DOMAIN Tail(q) /\ j - 1 <= n /\ JoinsAt(Tail(q), j - 1, p)
    BY <1>3, <2>2, <2>3 DEF JoinsAt
  <2> QED BY <2>3, <2>4
<1> QED BY <1>5, <1>6 DEF KnownAfter

\* The signal of push_frame() is put behind what is queued.
LEMMA SendEffect ==
  ASSUME TypeOK, NEW c \in Conns, Send(c)
  PROVE  \E m \in Signals :
           /\ m.slot = push[c].slot /\ m.key = push[c].key /\ m.frame = push[c].frame
           /\ push[c] # None /\ push' = [push EXCEPT ![c] = None]
           /\ chan'[c] \in Seq(Events \cup Signals) /\ Len(chan'[c]) > Len(chan[c])
           /\ \A i \in 1 .. Len(chan[c]) : chan'[c][i] = chan[c][i]
           /\ \A i \in DOMAIN chan'[c] : i > Len(chan[c]) => chan'[c][i] = m
<1> DEFINE Msgs == Events \cup Signals
           m == [type |-> "frame", key |-> push[c].key,
                 slot |-> push[c].slot, frame |-> push[c].frame]
<1>a. chan \in [Conns -> Seq(Msgs)] /\ chan[c] \in Seq(Msgs)
  BY DEF TypeOK
<1>1. /\ push[c] # None /\ push' = [push EXCEPT ![c] = None]
      /\ \/ chan' = [chan EXCEPT ![c] = chan[c] \o <<m>>]
         \/ chan' = [chan EXCEPT ![c] = chan[c] \o <<m, m>>]
  BY DEF Send
<1>2. m \in Signals /\ m \in Msgs
  BY <1>1 DEF TypeOK, Writes, Signals
<1>3. m.slot = push[c].slot /\ m.key = push[c].key /\ m.frame = push[c].frame
  OBVIOUS
<1> HIDE DEF m, Msgs
<1>4. ASSUME NEW w \in Seq(Msgs), Len(w) > 0, \A n \in DOMAIN w : w[n] = m, chan'[c] = chan[c] \o w
      PROVE  /\ chan'[c] \in Seq(Msgs) /\ Len(chan'[c]) > Len(chan[c])
             /\ \A i \in 1 .. Len(chan[c]) : chan'[c][i] = chan[c][i]
             /\ \A i \in DOMAIN chan'[c] : i > Len(chan[c]) => chan'[c][i] = m
  <2>1. /\ Len(w) \in Nat /\ DOMAIN w = 1 .. Len(w) /\ Len(chan[c]) \in Nat
    BY <1>a, LenProperties
  <2>2. /\ chan'[c] \in Seq(Msgs) /\ Len(chan'[c]) = Len(chan[c]) + Len(w)
        /\ \A n \in 1 .. Len(chan[c]) + Len(w) : chan'[c][n] =
             IF n <= Len(chan[c]) THEN chan[c][n] ELSE w[n - Len(chan[c])]
    <3>1. /\ chan[c] \o w \in Seq(Msgs) /\ Len(chan[c] \o w) = Len(chan[c]) + Len(w)
          /\ \A n \in 1 .. Len(chan[c]) + Len(w) : (chan[c] \o w)[n] =
               IF n <= Len(chan[c]) THEN chan[c][n] ELSE w[n - Len(chan[c])]
      BY <1>a, ConcatProperties, Zenon
    <3> QED BY <1>4, <3>1
  <2>3. DOMAIN chan'[c] = 1 .. Len(chan[c]) + Len(w)
    BY <2>2, LenProperties
  <2>4. ASSUME NEW i \in DOMAIN chan'[c], i > Len(chan[c]) PROVE chan'[c][i] = m
    <3>1. i - Len(chan[c]) \in DOMAIN w /\ chan'[c][i] = w[i - Len(chan[c])]
      BY SMTT(30), <2>1, <2>2, <2>3, <2>4
    <3> QED BY <1>4, <3>1
  <2>5. Len(chan'[c]) > Len(chan[c]) /\ \A i \in 1 .. Len(chan[c]) : chan'[c][i] = chan[c][i]
    BY <1>4, <2>1, <2>2
  <2> QED BY <2>2, <2>4, <2>5
<1>5. /\ <<m>> \in Seq(Msgs) /\ Len(<<m>>) > 0 /\ \A n \in DOMAIN <<m>> : <<m>>[n] = m
      /\ <<m, m>> \in Seq(Msgs) /\ Len(<<m, m>>) > 0 /\ \A n \in DOMAIN <<m, m>> : <<m, m>>[n] = m
  BY <1>2
<1>6. chan'[c] = chan[c] \o <<m>> \/ chan'[c] = chan[c] \o <<m, m>>
  BY <1>a, <1>1
<1> QED BY <1>1, <1>2, <1>3, <1>4, <1>5, <1>6 DEF Msgs

\* The hub takes the first message of a queue.
LEMMA TakeEffect ==
  ASSUME TypeOK, NEW c \in Conns, chan[c] # <<>>, chan' = [chan EXCEPT ![c] = Tail(@)]
  PROVE  /\ chan[c] \in Seq(Events \cup Signals) /\ chan'[c] = Tail(chan[c])
         /\ 1 \in DOMAIN chan[c] /\ Head(chan[c]) = chan[c][1]
         /\ \A i \in DOMAIN chan'[c] : i \in Nat /\ i + 1 \in DOMAIN chan[c] /\ chan'[c][i] = chan[c][i + 1]
         /\ \A i \in DOMAIN chan[c] : i # 1 => i - 1 \in DOMAIN chan'[c] /\ chan'[c][i - 1] = chan[c][i]
<1>1. chan[c] \in Seq(Events \cup Signals) /\ chan'[c] = Tail(chan[c])
  BY DEF TypeOK
<1>2. /\ 1 \in DOMAIN chan[c] /\ Head(chan[c]) = chan[c][1]
      /\ \A i \in DOMAIN chan'[c] : i \in Nat /\ i + 1 \in DOMAIN chan[c] /\ chan'[c][i] = chan[c][i + 1]
      /\ chan'[c] \in Seq(Events \cup Signals) /\ Len(chan'[c]) = Len(chan[c]) - 1
  <2>1. /\ 1 \in DOMAIN chan[c] /\ Head(chan[c]) = chan[c][1]
        /\ \A i \in DOMAIN Tail(chan[c]) :
             i \in Nat /\ i + 1 \in DOMAIN chan[c] /\ Tail(chan[c])[i] = chan[c][i + 1]
    BY <1>1, TailElements
  <2>2. Tail(chan[c]) \in Seq(Events \cup Signals) /\ Len(Tail(chan[c])) = Len(chan[c]) - 1
    BY <1>1, HeadTailProperties
  <2> QED BY <1>1, <2>1, <2>2
<1>3. /\ DOMAIN chan'[c] = 1 .. Len(chan[c]) - 1 /\ Len(chan[c]) \in Nat
      /\ DOMAIN chan[c] = 1 .. Len(chan[c])
  BY <1>1, <1>2, LenProperties
<1>4. ASSUME NEW i \in DOMAIN chan[c], i # 1
      PROVE  i - 1 \in DOMAIN chan'[c] /\ chan'[c][i - 1] = chan[c][i]
  <2>1. i - 1 \in DOMAIN chan'[c] /\ (i - 1) + 1 = i
    BY <1>3, <1>4
  <2> QED BY <1>2, <2>1
<1> QED BY <1>1, <1>2, <1>4

\* An announcement is put behind what is queued.
LEMMA AnnounceEffect ==
  ASSUME TypeOK, NEW c \in Conns, NEW m \in Events, SendTo(c, m)
  PROVE  /\ chan'[c] \in Seq(Events \cup Signals) /\ Len(chan'[c]) = Len(chan[c]) + 1
         /\ chan'[c] # <<>> /\ chan'[c][Len(chan'[c])] = m
         /\ \A i \in 1 .. Len(chan[c]) : chan'[c][i] = chan[c][i]
         /\ \A i \in DOMAIN chan'[c] : i > Len(chan[c]) => chan'[c][i] = m
<1>1. chan[c] \in Seq(Events \cup Signals) /\ chan'[c] = Append(chan[c], m) /\ m \in Events \cup Signals
  BY DEF TypeOK, SendTo
<1>2. /\ Append(chan[c], m) \in Seq(Events \cup Signals) /\ Len(Append(chan[c], m)) = Len(chan[c]) + 1
      /\ Append(chan[c], m)[Len(chan[c]) + 1] = m
      /\ \A i \in 1 .. Len(chan[c]) : Append(chan[c], m)[i] = chan[c][i]
  BY <1>1, AppendProperties
<1>3. DOMAIN chan'[c] = 1 .. Len(chan[c]) + 1 /\ Len(chan[c]) \in Nat
  BY <1>1, <1>2, LenProperties
<1>4. chan'[c] # <<>>
  BY <1>1, <1>2, <1>3, EmptySeq
<1> QED BY <1>1, <1>2, <1>3, <1>4

\* What a calm step does to the queue of the process and to what the hub knows: nothing
\* that matters, an announcement, a signal, or the hub takes the first message.
Quiet(c) == chan'[c] = chan[c] /\ UNCHANGED <<pconn, sess>>

\* Every step of a calm process is one of these.
LEMMA CalmStep ==
  ASSUME Calm, OneProcess, TypeOK, [Next]_vars, NEW c \in Conns
  PROVE  Quiet(c) \/ (\E p \in Pids : Join(c, p) \/ Leave(c, p)) \/ Send(c) \/ HubStep(c)
<1>1. ASSUME NEW k \in Keys, EndStream(c, k) PROVE chan' = chan
  BY <1>1 DEF EndStream, Calm
<1>2. ~Crash(c)
  BY DEF Crash, Calm
<1>3. \A k \in Keys : StartStream(c, k) \/ EndStream(c, k) \/ Claim(c, k) \/ Full(c, k) => Quiet(c)
  BY <1>1 DEF StartStream, EndStream, Claim, Full, Quiet, hubVars
<1>4. Commit(c) => Quiet(c)
  BY DEF Commit, Quiet, hubVars
<1>5. Register(c) => Quiet(c)
  BY DEF Register, Quiet, connVars
<1>6. UNCHANGED vars => Quiet(c)
  BY DEF vars, Quiet, connVars, hubVars
<1>7. \A d \in Conns : d = c
  BY DEF OneProcess
<1> QED BY <1>2, <1>3, <1>4, <1>5, <1>6, <1>7 DEF Next, ConnStep

\* What the hub knows when it has taken a message.
LEMMA KnownWhenTaken ==
  ASSUME TypeOK, NEW c \in Conns, HubStep(c), NEW p \in Pids
  PROVE  /\ chan[c] # <<>> /\ chan' = [chan EXCEPT ![c] = Tail(@)]
         /\ JoinsAt(chan[c], 1, p) => pconn'[p] # None
         /\ pconn[p] # None /\ ~LeavesAt(chan[c], 1, p) => pconn'[p] # None
         /\ UNCHANGED <<sess, streams, push, acked, registry>>
<1>1. /\ chan[c] # <<>> /\ chan' = [chan EXCEPT ![c] = Tail(@)]
      /\ UNCHANGED <<sess, streams, push, acked, registry>>
  BY DEF HubStep, HubJoined, HubLeft, HubFrameUnknown, HubFrameRejected, HubFrame, Take, connVars
<1>2. Head(chan[c]) = chan[c][1] /\ chan[c][1] \in Events \cup Signals
  <2>1. chan[c] \in Seq(Events \cup Signals)
    BY DEF TypeOK
  <2> QED BY <1>1, <2>1, TailElements
<1>3. CASE HubJoined(c)
  <2>1. pconn' = [pconn EXCEPT ![chan[c][1].pid] = IdOf[c]]
    BY <1>2, <1>3 DEF HubJoined
  <2>2. IdOf[c] # None
    BY FrameRingAssumption
  <2> QED BY <1>1, <2>1, <2>2 DEF TypeOK, JoinsAt
<1>4. CASE HubLeft(c)
  <2>1. pconn' = pconn \/ pconn' = [pconn EXCEPT ![chan[c][1].pid] = None]
    BY <1>2, <1>4 DEF HubLeft
  <2>2. chan[c][1].type = "left"
    BY <1>2, <1>4 DEF HubLeft, Take
  <2> QED BY <1>1, <2>1, <2>2 DEF TypeOK, JoinsAt, LeavesAt
<1>5. CASE HubFrameUnknown(c) \/ HubFrameRejected(c) \/ HubFrame(c)
  <2>1. pconn' = pconn
    BY <1>5 DEF HubFrameUnknown, HubFrameRejected, HubFrame
  <2>2. chan[c][1].type = "frame"
    BY <1>2, <1>5 DEF HubFrameUnknown, HubFrameRejected, HubFrame, Take
  <2> QED BY <1>1, <2>1, <2>2 DEF JoinsAt
<1> QED BY <1>3, <1>4, <1>5 DEF HubStep

\* Every step keeps the signals behind what makes their participant known.
LEMMA SignalsKnownStep == Calm /\ OneProcess /\ KInv /\ [Next]_vars => SignalsKnown'
<1> SUFFICES ASSUME Calm, OneProcess, KInv, [Next]_vars, NEW c \in Conns,
                    NEW i \in DOMAIN chan'[c], chan'[c][i].type = "frame"
             PROVE  KnownAfter(pconn'[chan'[c][i].key[1]], chan'[c], chan'[c][i].key[1], i) /\ c \in acked'
  BY DEF SignalsKnown
<1>a. TypeOK /\ SignalsKnown /\ SessionsKnown /\ TracksOpen
  BY DEF KInv, QInv, RInv, IInv
<1>b. acked \subseteq acked'
  <2>1. \A d \in Conns : ConnStep(d) => acked' = acked
    BY ZenonT(40) DEF ConnStep, Join, Leave, StartStream, EndStream, Claim, Full, Commit, Send, Crash,
                  hubVars
  <2>2. \A d \in Conns : HubStep(d) => acked' = acked
    BY DEF HubStep, HubJoined, HubLeft, HubFrameUnknown, HubFrameRejected, HubFrame, Take
  <2>3. UNCHANGED vars => acked' = acked
    BY DEF vars, hubVars
  <2> QED BY <2>1, <2>2, <2>3 DEF Next, Register
<1>c. /\ chan[c] \in Seq(Events \cup Signals) /\ chan'[c] \in Seq(Events \cup Signals)
      /\ Len(chan[c]) \in Nat /\ DOMAIN chan[c] = 1 .. Len(chan[c])
      /\ Len(chan'[c]) \in Nat /\ DOMAIN chan'[c] = 1 .. Len(chan'[c])
  BY <1>a, TypeStep, LenProperties DEF TypeOK
<1> DEFINE p == chan'[c][i].key[1]
<1>d. p \in Pids
  <2>1. chan'[c][i] \in Events \cup Signals
    BY <1>c, ElementOfSeq
  <2> QED BY <2>1 DEF Events, Signals, Keys
<1>1. CASE Quiet(c)
  BY <1>1, <1>a, <1>b DEF Quiet, SignalsKnown
<1>2. ASSUME NEW o \in Pids, Join(c, o) \/ Leave(c, o)
      PROVE  KnownAfter(pconn'[p], chan'[c], p, i) /\ c \in acked'
  <2>1. PICK m \in Events : SendTo(c, m) /\ pconn' = pconn
    <3>1. [type |-> "joined", pid |-> o, sess |-> sessions + 1] \in Events
      BY <1>a, FrameRingAssumption DEF Events, TypeOK
    <3>2. [type |-> "left", pid |-> o, sess |-> sess[c][o]] \in Events
      BY <1>a DEF Events, TypeOK
    <3> QED BY <1>2, <3>1, <3>2 DEF Join, Leave, hubVars
  <2>2. /\ Len(chan[c]) <= Len(chan'[c])
        /\ \A n \in 1 .. Len(chan[c]) : chan'[c][n] = chan[c][n]
        /\ \A n \in DOMAIN chan'[c] : n > Len(chan[c]) => chan'[c][n] = m
    BY <1>a, <1>c, <2>1, AnnounceEffect
  <2>3. i \in DOMAIN chan[c] /\ chan'[c][i] = chan[c][i] /\ i \in Nat /\ i <= Len(chan[c])
    <3>1. m.type # "frame"
      BY DEF Events
    <3> QED BY <1>c, <2>2, <3>1
  <2>4. KnownAfter(pconn[p], chan[c], p, i) /\ c \in acked
    BY <1>a, <2>3 DEF SignalsKnown
  <2> HIDE DEF p
  <2>5. KnownAfter(pconn[p], chan'[c], p, i)
    BY <1>c, <2>2, <2>3, <2>4, KnownStays
  <2> QED BY <1>b, <2>1, <2>4, <2>5
<1>3. CASE Send(c)
  <2>1. PICK m \in Signals :
           /\ m.slot = push[c].slot /\ m.key = push[c].key /\ m.frame = push[c].frame
           /\ push[c] # None
           /\ Len(chan'[c]) > Len(chan[c])
           /\ \A n \in 1 .. Len(chan[c]) : chan'[c][n] = chan[c][n]
           /\ \A n \in DOMAIN chan'[c] : n > Len(chan[c]) => chan'[c][n] = m
    BY <1>3, <1>a, SendEffect
  <2>2. pconn' = pconn /\ Len(chan[c]) <= Len(chan'[c])
    BY <1>3, <1>c, <2>1 DEF Send, hubVars
  <2>3. CASE i <= Len(chan[c])
    <3>1. i \in DOMAIN chan[c] /\ chan'[c][i] = chan[c][i] /\ i \in Nat
      BY <1>c, <2>1, <2>3
    <3>2. KnownAfter(pconn[p], chan[c], p, i) /\ c \in acked
      BY <1>a, <3>1 DEF SignalsKnown
    <3> HIDE DEF p
    <3>3. KnownAfter(pconn[p], chan'[c], p, i)
      BY <1>c, <2>1, <2>2, <2>3, <3>1, <3>2, KnownStays
    <3> QED BY <1>b, <2>2, <3>2, <3>3 DEF p
  <2>4. CASE ~(i <= Len(chan[c]))
    <3>1. chan'[c][i] = m /\ i \in Nat /\ Len(chan[c]) <= i
      BY <1>c, <2>1, <2>4
    <3>2. push[c].key \in streams[c] /\ c \in acked
      BY <1>a, <2>1 DEF TracksOpen
    <3>3. sess[c][p] # 0
      BY <1>a, <2>1, <3>1, <3>2 DEF TracksOpen
    <3> HIDE DEF p
    <3>4. KnownAfter(pconn[p], chan[c], p, Len(chan[c]))
      BY <1>a, <1>d, <3>3 DEF SessionsKnown
    <3>5. ~(m.type = "left" /\ m.pid = p)
      BY DEF Signals
    <3>6. KnownAfter(pconn[p], chan'[c], p, i)
      BY <1>c, <2>1, <2>2, <3>1, <3>4, <3>5, KnownFurther
    <3> QED BY <1>b, <2>2, <3>2, <3>6 DEF p
  <2> QED BY <2>3, <2>4
<1>4. CASE HubStep(c)
  <2> HIDE DEF p
  <2>1. /\ chan[c] # <<>> /\ chan' = [chan EXCEPT ![c] = Tail(@)]
        /\ JoinsAt(chan[c], 1, p) => pconn'[p] # None
        /\ pconn[p] # None /\ ~LeavesAt(chan[c], 1, p) => pconn'[p] # None
    BY <1>4, <1>a, <1>d, KnownWhenTaken
  <2>2. /\ chan'[c] = Tail(chan[c]) /\ i \in Nat
        /\ i + 1 \in DOMAIN chan[c] /\ chan'[c][i] = chan[c][i + 1]
    BY <1>a, <2>1, TakeEffect
  <2>3. KnownAfter(pconn[p], chan[c], p, i + 1) /\ c \in acked
    BY <1>a, <2>2 DEF SignalsKnown, p
  <2>4. KnownAfter(pconn'[p], Tail(chan[c]), p, i)
    BY <1>c, <2>1, <2>2, <2>3, KnownTail
  <2> QED BY <1>b, <2>2, <2>3, <2>4 DEF p
<1> QED BY <1>a, <1>1, <1>2, <1>3, <1>4, CalmStep

\* Every step keeps the participants with a session known to the hub, or about to be.
LEMMA SessionsKnownStep == Calm /\ OneProcess /\ KInv /\ [Next]_vars => SessionsKnown'
<1> SUFFICES ASSUME Calm, OneProcess, KInv, [Next]_vars, NEW c \in Conns, NEW p \in Pids, sess'[c][p] # 0
             PROVE  KnownAfter(pconn'[p], chan'[c], p, Len(chan'[c]))
  BY DEF SessionsKnown
<1>a. TypeOK /\ SessionsKnown
  BY DEF KInv, QInv, RInv, IInv
<1>c. /\ chan[c] \in Seq(Events \cup Signals) /\ chan'[c] \in Seq(Events \cup Signals)
      /\ Len(chan[c]) \in Nat /\ DOMAIN chan[c] = 1 .. Len(chan[c])
      /\ Len(chan'[c]) \in Nat /\ DOMAIN chan'[c] = 1 .. Len(chan'[c])
  BY <1>a, TypeStep, LenProperties DEF TypeOK
<1>1. CASE Quiet(c)
  BY <1>1, <1>a DEF Quiet, SessionsKnown
<1>2. ASSUME NEW m \in Events, SendTo(c, m), ~(m.type = "left" /\ m.pid = p), sess[c][p] # 0, pconn' = pconn
      PROVE  KnownAfter(pconn'[p], chan'[c], p, Len(chan'[c]))
  <2>1. /\ Len(chan[c]) <= Len(chan'[c])
        /\ \A n \in 1 .. Len(chan[c]) : chan'[c][n] = chan[c][n]
        /\ \A n \in DOMAIN chan'[c] : n > Len(chan[c]) => chan'[c][n] = m
    BY <1>2, <1>a, <1>c, AnnounceEffect
  <2>2. KnownAfter(pconn[p], chan[c], p, Len(chan[c]))
    BY <1>2, <1>a DEF SessionsKnown
  <2>3. KnownAfter(pconn[p], chan'[c], p, Len(chan'[c]))
    BY <1>2, <1>c, <2>1, <2>2, KnownFurther
  <2> QED BY <1>2, <2>3
<1>3. ASSUME NEW o \in Pids, Join(c, o) PROVE KnownAfter(pconn'[p], chan'[c], p, Len(chan'[c]))
  <2> DEFINE m == [type |-> "joined", pid |-> o, sess |-> sessions + 1]
  <2>1. m \in Events /\ m.type = "joined" /\ m.pid = o
    BY <1>a, FrameRingAssumption DEF Events, TypeOK
  <2>2. SendTo(c, m) /\ pconn' = pconn /\ sess' = [sess EXCEPT ![c][o] = sessions + 1]
    BY <1>3 DEF Join, hubVars
  <2> HIDE DEF m
  <2>3. CASE o = p
    <3>1. chan'[c] # <<>> /\ chan'[c][Len(chan'[c])] = m
      BY <1>a, <2>1, <2>2, AnnounceEffect
    <3>2. JoinsAt(chan'[c], Len(chan'[c]), p)
      BY <2>1, <2>3, <3>1 DEF JoinsAt
    <3> QED BY <1>c, <3>1, <3>2, KnownOnceJoined
  <2>4. CASE o # p
    <3>1. sess[c][p] # 0
      BY <1>a, <2>2, <2>4 DEF TypeOK
    <3> QED BY <1>2, <2>1, <2>2, <3>1
  <2> QED BY <2>3, <2>4
<1>4. ASSUME NEW o \in Pids, Leave(c, o) PROVE KnownAfter(pconn'[p], chan'[c], p, Len(chan'[c]))
  <2> DEFINE m == [type |-> "left", pid |-> o, sess |-> sess[c][o]]
  <2>1. m \in Events /\ m.type = "left" /\ m.pid = o
    BY <1>a DEF Events, TypeOK
  <2>2. SendTo(c, m) /\ pconn' = pconn /\ sess' = [sess EXCEPT ![c][o] = 0]
    BY <1>4 DEF Leave, hubVars
  <2> HIDE DEF m
  <2>3. o # p /\ sess[c][p] # 0
    BY <1>a, <2>2 DEF TypeOK
  <2> QED BY <1>2, <2>1, <2>2, <2>3
<1>5. CASE Send(c)
  <2>1. PICK m \in Signals :
           /\ Len(chan'[c]) > Len(chan[c])
           /\ \A n \in 1 .. Len(chan[c]) : chan'[c][n] = chan[c][n]
           /\ \A n \in DOMAIN chan'[c] : n > Len(chan[c]) => chan'[c][n] = m
    BY <1>5, <1>a, SendEffect
  <2>2. pconn' = pconn /\ sess' = sess /\ Len(chan[c]) <= Len(chan'[c])
    BY <1>5, <1>c, <2>1 DEF Send, hubVars
  <2>3. KnownAfter(pconn[p], chan[c], p, Len(chan[c])) /\ ~(m.type = "left" /\ m.pid = p)
    BY <1>a, <2>2 DEF SessionsKnown, Signals
  <2>4. KnownAfter(pconn[p], chan'[c], p, Len(chan'[c]))
    BY <1>c, <2>1, <2>2, <2>3, KnownFurther
  <2> QED BY <2>2, <2>4
<1>6. CASE HubStep(c)
  <2>1. /\ chan[c] # <<>> /\ chan' = [chan EXCEPT ![c] = Tail(@)] /\ sess' = sess
        /\ JoinsAt(chan[c], 1, p) => pconn'[p] # None
        /\ pconn[p] # None /\ ~LeavesAt(chan[c], 1, p) => pconn'[p] # None
    BY <1>6, <1>a, KnownWhenTaken
  <2>2. chan'[c] = Tail(chan[c]) /\ Len(chan[c]) = Len(chan'[c]) + 1
    <3>1. Len(Tail(chan[c])) = Len(chan[c]) - 1
      BY <1>c, <2>1, HeadTailProperties
    <3>2. chan'[c] = Tail(chan[c])
      BY <1>a, <2>1, TakeEffect
    <3> QED BY <1>c, <3>1, <3>2
  <2>3. KnownAfter(pconn[p], chan[c], p, Len(chan'[c]) + 1)
    BY <1>a, <2>1, <2>2 DEF SessionsKnown
  <2>4. KnownAfter(pconn'[p], Tail(chan[c]), p, Len(chan'[c]))
    BY <1>c, <2>1, <2>3, KnownTail
  <2> QED BY <2>2, <2>4
<1> QED BY <1>a, <1>1, <1>3, <1>4, <1>5, <1>6, CalmStep

\* Every step keeps the running tracks those of open sessions.
LEMMA TracksOpenStep == Calm /\ OneProcess /\ KInv /\ [Next]_vars => TracksOpen'
<1> SUFFICES ASSUME Calm, OneProcess, KInv, [Next]_vars, NEW c \in Conns
             PROVE  /\ \A k \in streams'[c] : sess'[c][k[1]] # 0
                    /\ push'[c] # None => push'[c].key \in streams'[c] /\ c \in acked'
  BY DEF TracksOpen
<1> DEFINE Goal == /\ \A k \in streams'[c] : sess'[c][k[1]] # 0
                   /\ push'[c] # None => push'[c].key \in streams'[c] /\ c \in acked'
<1> SUFFICES Goal
  OBVIOUS
<1>a. TypeOK /\ TracksOpen
  BY DEF KInv, QInv, RInv, IInv
<1>b. /\ push \in [Conns -> Writes \cup {None}] /\ sess \in [Conns -> [Pids -> Nat]]
      /\ streams \in [Conns -> SUBSET Keys] /\ sessions \in Nat
  BY <1>a, FrameRingAssumption DEF TypeOK
<1>c. /\ \A k \in streams[c] : sess[c][k[1]] # 0
      /\ push[c] # None => push[c].key \in streams[c] /\ c \in acked
  BY <1>a DEF TracksOpen
<1>d. \A k \in Keys : k[1] \in Pids /\ k[2] \in Tracks /\ k = <<k[1], k[2]>>
  BY DEF Keys
<1>1. ASSUME NEW p \in Pids, Join(c, p) PROVE Goal
  <2>1. /\ sess' = [sess EXCEPT ![c][p] = sessions + 1] /\ streams' = streams
        /\ push' = push /\ push[c] = None
    BY <1>1 DEF Join, Idle
  <2>2. \A o \in Pids : sess'[c][o] = IF o = p THEN sessions + 1 ELSE sess[c][o]
    BY <1>b, <2>1
  <2> QED BY <1>b, <1>c, <1>d, <2>1, <2>2
<1>2. ASSUME NEW p \in Pids, Leave(c, p) PROVE Goal
  <2>1. /\ sess' = [sess EXCEPT ![c][p] = 0] /\ streams' = streams
        /\ push' = push /\ push[c] = None
        /\ \A t \in Tracks : <<p, t>> \notin streams[c]
    BY <1>2 DEF Leave, Idle, Calm
  <2>2. \A o \in Pids : o # p => sess'[c][o] = sess[c][o]
    BY <1>b, <2>1
  <2>3. ASSUME NEW k \in streams[c] PROVE k[1] # p /\ k[1] \in Pids
    <3>1. k \in Keys
      BY <1>b
    <3>2. k = <<k[1], k[2]>> /\ k[2] \in Tracks /\ k[1] \in Pids
      BY <1>d, <3>1
    <3> QED BY <2>1, <3>2
  <2> QED BY <1>c, <2>1, <2>2, <2>3
<1>3. ASSUME NEW k \in Keys, StartStream(c, k) PROVE Goal
  BY <1>3, <1>b, <1>c DEF StartStream, Idle
<1>4. ASSUME NEW k \in Keys, EndStream(c, k) PROVE Goal
  BY <1>4, <1>b, <1>c DEF EndStream, Idle
<1>5. ASSUME NEW k \in Keys, Claim(c, k) PROVE Goal
  <2>1. PICK u : push' = [push EXCEPT ![c] = [slot |-> u, frame |-> frames + 1,
                                              key |-> k, phase |-> "writing"]]
    BY <1>5 DEF Claim
  <2>2. push'[c].key = k
    BY <1>b, <2>1
  <2>3. k \in streams[c] /\ c \in acked /\ UNCHANGED <<streams, sess, acked>>
    BY <1>5 DEF Claim, hubVars
  <2> QED BY <1>c, <2>2, <2>3
<1>6. CASE Commit(c)
  <2>1. push[c] # None /\ push' = [push EXCEPT ![c].phase = "ready"] /\ UNCHANGED <<streams, sess, acked>>
    BY <1>6 DEF Commit, hubVars
  <2>2. push[c] \in Writes /\ push'[c] = [push[c] EXCEPT !.phase = "ready"]
    BY <1>b, <2>1
  <2>3. push'[c].key = push[c].key
    BY <2>2 DEF Writes
  <2> QED BY <1>c, <2>1, <2>3
<1>7. CASE Send(c)
  <2>1. push' = [push EXCEPT ![c] = None] /\ UNCHANGED <<streams, sess>>
    BY <1>7 DEF Send
  <2> QED BY <1>b, <1>c, <2>1
<1>8. CASE HubStep(c)
  <2>1. UNCHANGED <<sess, streams, push, acked>>
    BY <1>8 DEF HubStep, HubJoined, HubLeft, HubFrameUnknown, HubFrameRejected, HubFrame, Take, connVars
  <2> QED BY <1>c, <2>1
<1>9. CASE Register(c)
  BY <1>9, <1>c DEF Register, connVars
<1>10. CASE UNCHANGED vars
  BY <1>10, <1>c DEF vars, connVars, hubVars
<1>11. ASSUME NEW k \in Keys, Full(c, k) PROVE Goal
  BY <1>11, <1>c DEF Full, hubVars
<1>12. ~Crash(c)
  BY DEF Crash, Calm
<1>13. \A d \in Conns : d = c
  BY DEF OneProcess
<1> HIDE DEF Goal
<1> QED BY <1>1, <1>2, <1>3, <1>4, <1>5, <1>6, <1>7, <1>8, <1>9, <1>10, <1>11, <1>12, <1>13
    DEF Next, ConnStep

\* Every step keeps the ring of the process the only one.
LEMMA OneHomeStep == OneProcess /\ TypeOK /\ OneHome /\ [Next]_vars => OneHome'
<1> SUFFICES ASSUME OneProcess, TypeOK, OneHome, [Next]_vars, NEW c \in Conns
             PROVE  /\ c \in acked' => registry'[IdOf[c]] = c
                    /\ \A p \in Pids : pconn'[p] # None => pconn'[p] = IdOf[c]
  BY DEF OneHome
<1> DEFINE Goal == /\ c \in acked' => registry'[IdOf[c]] = c
                   /\ \A p \in Pids : pconn'[p] # None => pconn'[p] = IdOf[c]
<1> SUFFICES Goal
  OBVIOUS
<1>c. /\ c \in acked => registry[IdOf[c]] = c
      /\ \A p \in Pids : pconn[p] # None => pconn[p] = IdOf[c]
  BY DEF OneHome
<1>1. CASE UNCHANGED <<acked, registry, pconn>>
  BY <1>1, <1>c
<1>2. CASE Register(c)
  <2>1. registry' = [registry EXCEPT ![IdOf[c]] = c] /\ pconn' = pconn /\ IdOf[c] \in ConnIds
    BY <1>2, FrameRingAssumption DEF Register
  <2> QED BY <1>c, <2>1 DEF TypeOK
<1>3. CASE HubJoined(c)
  <2>1. UNCHANGED <<acked, registry>> /\ \E o : pconn' = [pconn EXCEPT ![o] = IdOf[c]]
    BY <1>3 DEF HubJoined, Take
  <2> QED BY <1>c, <2>1 DEF TypeOK
<1>4. CASE HubLeft(c)
  <2>1. /\ UNCHANGED <<acked, registry>>
        /\ pconn' = pconn \/ \E o : pconn' = [pconn EXCEPT ![o] = None]
    BY <1>4 DEF HubLeft, Take
  <2> QED BY <1>c, <2>1 DEF TypeOK
<1>5. HubFrameUnknown(c) \/ HubFrameRejected(c) \/ HubFrame(c) => UNCHANGED <<acked, registry, pconn>>
  BY DEF HubFrameUnknown, HubFrameRejected, HubFrame, Take
<1>6. ConnStep(c) => UNCHANGED <<acked, registry, pconn>>
  BY ZenonT(40) DEF ConnStep, Join, Leave, StartStream, EndStream, Claim, Full, Commit, Send, Crash,
                hubVars
<1>7. UNCHANGED vars => UNCHANGED <<acked, registry, pconn>>
  BY DEF vars, hubVars
<1>8. \A d \in Conns : d = c
  BY DEF OneProcess
<1> HIDE DEF Goal
<1> QED BY <1>1, <1>2, <1>3, <1>4, <1>5, <1>6, <1>7, <1>8 DEF Next, HubStep

\* The hub accepts every signal: it knows the participant and reads the ring it was sent for.
LEMMA SignalIsAccepted ==
  ASSUME OneProcess, KInv, NEW c \in Conns, chan[c] # <<>>, Head(chan[c]).type = "frame"
  PROVE  LET m == Head(chan[c])
         IN /\ m.key \in Keys /\ m.slot \in Slots
            /\ RingFor(m.key[1]) = c /\ Readable(c, m)
            /\ ~HubFrameUnknown(c) /\ ~HubFrameRejected(c)
<1> DEFINE m == Head(chan[c])
<1>a. TypeOK /\ QueuedSignalsReadable /\ SignalsKnown /\ OneHome
  BY DEF KInv, QInv, RInv, IInv
<1>1. /\ 1 \in DOMAIN chan[c] /\ m = chan[c][1] /\ DOMAIN chan[c] = 1 .. Len(chan[c]) /\ Len(chan[c]) \in Nat
  <2>1. chan[c] \in Seq(Events \cup Signals)
    BY <1>a DEF TypeOK
  <2> QED BY <2>1, TailElements, LenProperties
<1>2. m.key \in Keys /\ m.slot \in Slots /\ m.key[1] \in Pids
  BY <1>a, <1>1, SignalParts DEF Keys
<1>3. Readable(c, m)
  BY <1>a, <1>1 DEF QueuedSignalsReadable
<1>4. KnownAfter(pconn[m.key[1]], chan[c], m.key[1], 1) /\ c \in acked
  BY <1>a, <1>1 DEF SignalsKnown
<1>5. pconn[m.key[1]] # None
  <2>1. ASSUME NEW j \in DOMAIN chan[c], j <= 1 PROVE j = 1
    BY <1>1, <2>1
  <2> QED BY <1>1, <1>4, <2>1 DEF KnownAfter, JoinsAt
<1>6. RingFor(m.key[1]) = c
  BY <1>2, <1>4, <1>5, <1>a DEF OneHome, RingFor
<1>7. c # None
  BY FrameRingAssumption
<1>8. ~HubFrameUnknown(c) /\ ~HubFrameRejected(c)
  BY <1>3, <1>6, <1>7 DEF HubFrameUnknown, HubFrameRejected
<1> QED BY <1>2, <1>3, <1>6, <1>8

\* Every step keeps the READY slots accounted for.
LEMMA AccountedStep == Calm /\ OneProcess /\ KInv /\ [Next]_vars => SlotsAccounted'
<1> SUFFICES ASSUME Calm, OneProcess, KInv, [Next]_vars, NEW c \in Conns, NEW s \in Slots,
                    ring'[c][s].st = "ready"
             PROVE  (Held(c, s) \/ SignalInFlight(c, s))'
  BY DEF SlotsAccounted
<1> DEFINE Goal == (Held(c, s) \/ SignalInFlight(c, s))'
<1> SUFFICES Goal
  OBVIOUS
<1>a. TypeOK /\ SlotsAccounted
  BY DEF KInv, QInv, RInv, IInv
<1>b. /\ push \in [Conns -> Writes \cup {None}] /\ ring \in [Conns -> [Slots -> Cells]]
      /\ chan[c] \in Seq(Events \cup Signals) /\ latest \in [Keys -> Holds \cup {None}]
      /\ Len(chan[c]) \in Nat /\ DOMAIN chan[c] = 1 .. Len(chan[c])
  BY <1>a, LenProperties DEF TypeOK
<1>c. ring[c][s].st = "ready" => Held(c, s) \/ SignalInFlight(c, s)
  BY <1>a DEF SlotsAccounted
<1>d. ASSUME UNCHANGED <<latest, push>>, ring'[c][s] = ring[c][s],
             \A i \in DOMAIN chan[c] : i \in DOMAIN chan'[c] /\ chan'[c][i] = chan[c][i]
      PROVE  Goal
  <2>1. CASE Held(c, s)
    BY <1>d, <2>1 DEF Held
  <2>2. CASE SignalInFlight(c, s)
    BY <1>d, <2>2 DEF SignalInFlight
  <2> QED BY <1>c, <1>d, <2>1, <2>2
<1>e. ASSUME NEW K \in SUBSET Keys, DropHolds(K), chan' = chan \/ Head(chan[c]).type # "frame",
             chan' = chan \/ (chan[c] # <<>> /\ chan' = [chan EXCEPT ![c] = Tail(@)]), push' = push
      PROVE  Goal
  <2>1. /\ ring' = ReleaseHeld(K)
        /\ latest' = [k \in Keys |-> IF k \in K THEN None ELSE latest[k]]
    BY <1>e DEF DropHolds
  <2>2. ring[c][s].st = "ready" /\ ~ \E k \in K : latest[k] # None /\ latest[k].ring = c /\ latest[k].slot = s
    <3>1. ASSUME \E k \in K : latest[k] # None /\ latest[k].ring = c /\ latest[k].slot = s,
                 ring[c][s].st = "ready"
          PROVE  ring'[c][s] = [ring[c][s] EXCEPT !.st = "free"]
      BY <2>1, <3>1 DEF ReleaseHeld
    <3>2. [ring[c][s] EXCEPT !.st = "free"].st = "free"
      <4>1. ring[c][s] \in Cells
        BY <1>b
      <4> QED BY <4>1 DEF Cells
    <3>3. ring[c][s].st # "ready" => ring'[c][s] = ring[c][s]
      BY <2>1 DEF ReleaseHeld
    <3> QED BY <3>1, <3>2, <3>3
  <2>3. CASE Held(c, s)
    BY <2>1, <2>2, <2>3 DEF Held
  <2>4. CASE SignalInFlight(c, s) /\ chan' = chan
    BY <1>e, <2>4 DEF SignalInFlight
  <2>5. CASE SignalInFlight(c, s) /\ Head(chan[c]).type # "frame"
                 /\ chan[c] # <<>> /\ chan' = [chan EXCEPT ![c] = Tail(@)]
    <3>1. /\ Head(chan[c]) = chan[c][1]
          /\ \A i \in DOMAIN chan[c] : i # 1 => i - 1 \in DOMAIN chan'[c] /\ chan'[c][i - 1] = chan[c][i]
      BY <1>a, <2>5, TakeEffect
    <3>2. ASSUME NEW i \in DOMAIN chan[c], chan[c][i].type = "frame", chan[c][i].slot = s
          PROVE  \E j \in DOMAIN chan'[c] : chan'[c][j].type = "frame" /\ chan'[c][j].slot = s
      BY <2>5, <3>1, <3>2
    <3> QED BY <1>e, <2>5, <3>2 DEF SignalInFlight
  <2> QED BY <1>c, <1>e, <2>2, <2>3, <2>4, <2>5
<1>1. ASSUME NEW p \in Pids, Join(c, p) \/ Leave(c, p) PROVE Goal
  <2>1. PICK m \in Events : SendTo(c, m)
    <3>1. [type |-> "joined", pid |-> p, sess |-> sessions + 1] \in Events
      BY <1>a, FrameRingAssumption DEF Events, TypeOK
    <3>2. [type |-> "left", pid |-> p, sess |-> sess[c][p]] \in Events
      BY <1>a DEF Events, TypeOK
    <3> QED BY <1>1, <3>1, <3>2 DEF Join, Leave
  <2>2. /\ Len(chan'[c]) = Len(chan[c]) + 1 /\ chan'[c] \in Seq(Events \cup Signals)
        /\ \A i \in 1 .. Len(chan[c]) : chan'[c][i] = chan[c][i]
    BY <1>a, <2>1, AnnounceEffect
  <2>3. \A i \in DOMAIN chan[c] : i \in DOMAIN chan'[c] /\ chan'[c][i] = chan[c][i]
    BY <1>b, <2>2, LenProperties
  <2>4. UNCHANGED <<latest, push, ring>>
    BY <1>1 DEF Join, Leave, hubVars
  <2> QED BY <1>d, <2>3, <2>4
<1>2. ASSUME NEW k \in Keys, StartStream(c, k) \/ EndStream(c, k) \/ Full(c, k) PROVE Goal
  <2>1. UNCHANGED <<latest, push, ring, chan>>
    BY <1>2 DEF StartStream, EndStream, Full, hubVars, Calm
  <2> QED BY <1>d, <2>1
<1>3. ASSUME NEW k \in Keys, Claim(c, k) PROVE Goal
  <2>1. PICK u \in Slots :
           /\ ring'[c][u] = Cell("writing", frames + 1, k)
           /\ \A d \in Conns, v \in Slots : d # c \/ v # u => ring'[d][v] = ring[d][v]
           /\ UNCHANGED <<chan, latest>>
    BY <1>3, <1>a, ClaimEffect
  <2>2. s # u /\ ring'[c][s] = ring[c][s]
    BY <2>1 DEF Cell
  <2>3. push[c] = None
    BY <1>3 DEF Claim, Idle
  <2> QED BY <1>c, <2>1, <2>2, <2>3 DEF Held, SignalInFlight
<1>4. CASE Commit(c)
  <2>1. /\ push[c] \in Writes /\ push[c].slot \in Slots /\ push[c].phase = "writing"
        /\ ring' = [ring EXCEPT ![c][push[c].slot].st = "ready"]
        /\ push' = [push EXCEPT ![c].phase = "ready"] /\ UNCHANGED <<chan, latest>>
    BY <1>4, <1>b DEF Commit, Writes, hubVars
  <2>2. push'[c] = [push[c] EXCEPT !.phase = "ready"]
    BY <1>b, <2>1
  <2>3. push'[c].slot = push[c].slot /\ push'[c].phase = "ready" /\ push'[c] # None
    <3>1. push'[c] \in Writes /\ push'[c].slot = push[c].slot /\ push'[c].phase = "ready"
      BY <2>1, <2>2 DEF Writes
    <3>2. None \notin Writes
      BY FrameRingAssumption
    <3> QED BY <3>1, <3>2
  <2>4. CASE s = push[c].slot
    BY <2>3, <2>4 DEF SignalInFlight
  <2>5. CASE s # push[c].slot
    <3>1. ring'[c][s] = ring[c][s]
      BY <1>b, <2>1, <2>5
    <3> QED BY <1>c, <2>1, <2>5, <3>1 DEF Held, SignalInFlight
  <2> QED BY <2>4, <2>5
<1>5. CASE Send(c)
  <2>1. PICK m \in Signals :
           /\ m.slot = push[c].slot /\ push[c] # None
           /\ chan'[c] \in Seq(Events \cup Signals) /\ Len(chan'[c]) > Len(chan[c])
           /\ \A i \in 1 .. Len(chan[c]) : chan'[c][i] = chan[c][i]
           /\ \A i \in DOMAIN chan'[c] : i > Len(chan[c]) => chan'[c][i] = m
    BY <1>5, <1>a, SendEffect
  <2>2. UNCHANGED <<latest, ring>>
    BY <1>5 DEF Send, hubVars
  <2>3. /\ \A i \in DOMAIN chan[c] : i \in DOMAIN chan'[c] /\ chan'[c][i] = chan[c][i]
        /\ Len(chan'[c]) \in DOMAIN chan'[c] /\ chan'[c][Len(chan'[c])] = m
    <3>1. DOMAIN chan'[c] = 1 .. Len(chan'[c]) /\ Len(chan'[c]) \in Nat
      BY <2>1, LenProperties
    <3> QED BY <1>b, <2>1, <3>1
  <2>4. CASE Held(c, s)
    BY <2>2, <2>4 DEF Held
  <2>5. CASE push[c].slot = s
    BY <2>1, <2>3, <2>5 DEF SignalInFlight, Signals
  <2>6. CASE \E i \in DOMAIN chan[c] : chan[c][i].type = "frame" /\ chan[c][i].slot = s
    BY <2>3, <2>6 DEF SignalInFlight
  <2> QED BY <1>c, <2>2, <2>4, <2>5, <2>6 DEF SignalInFlight
<1>6. CASE Register(c)
  <2> DEFINE K == {k \in Keys : latest[k] # None /\ latest[k].ring = registry[IdOf[c]]}
  <2>1. DropHolds(K) /\ chan' = chan /\ push' = push
    BY <1>6 DEF Register, connVars
  <2>2. K \in SUBSET Keys
    OBVIOUS
  <2> HIDE DEF K
  <2> QED BY <1>e, <2>1, <2>2
<1>7. CASE HubJoined(c) \/ HubLeft(c)
  <2>1. /\ chan[c] # <<>> /\ chan' = [chan EXCEPT ![c] = Tail(@)] /\ push' = push
        /\ Head(chan[c]).type # "frame"
    BY <1>7 DEF HubJoined, HubLeft, Take, connVars
  <2>2. CASE ring' = ring /\ latest' = latest
    <3>1. /\ Head(chan[c]) = chan[c][1]
          /\ \A i \in DOMAIN chan[c] : i # 1 => i - 1 \in DOMAIN chan'[c] /\ chan'[c][i - 1] = chan[c][i]
      BY <1>a, <2>1, TakeEffect
    <3>2. ASSUME NEW i \in DOMAIN chan[c], chan[c][i].type = "frame", chan[c][i].slot = s
          PROVE  \E j \in DOMAIN chan'[c] : chan'[c][j].type = "frame" /\ chan'[c][j].slot = s
      BY <2>1, <3>1, <3>2
    <3> QED BY <1>c, <2>1, <2>2, <3>2 DEF Held, SignalInFlight
  <2>3. CASE HubLeft(c) /\ ~(ring' = ring /\ latest' = latest)
    <3> DEFINE K == {k \in Keys : k[1] = Head(chan[c]).pid}
    <3>1. DropHolds(K) /\ K \in SUBSET Keys
      BY <2>3 DEF HubLeft
    <3> HIDE DEF K
    <3> QED BY <1>e, <2>1, <3>1
  <2> QED BY <1>7, <2>2, <2>3 DEF HubJoined
<1>8. CASE HubFrameUnknown(c) \/ HubFrameRejected(c) \/ HubFrame(c)
  <2> DEFINE m == Head(chan[c])
  <2>1. chan[c] # <<>> /\ m.type = "frame" /\ chan' = [chan EXCEPT ![c] = Tail(@)] /\ push' = push
    BY <1>8 DEF HubFrameUnknown, HubFrameRejected, HubFrame, Take, connVars
  <2>2. /\ m.key \in Keys /\ m.slot \in Slots /\ RingFor(m.key[1]) = c /\ HubFrame(c)
    BY <1>8, <2>1, SignalIsAccepted
  <2>3. IF Held(c, m.slot)
        THEN UNCHANGED <<ring, latest>>
        ELSE /\ ring' = ReleaseHeld({m.key})
             /\ latest' = [latest EXCEPT ![m.key] = [ring |-> c, slot |-> m.slot, frame |-> m.frame]]
    BY <2>2 DEF HubFrame
  <2>4. /\ m = chan[c][1]
        /\ \A i \in DOMAIN chan[c] : i # 1 => i - 1 \in DOMAIN chan'[c] /\ chan'[c][i - 1] = chan[c][i]
    BY <1>a, <2>1, TakeEffect
  <2>5. [ring |-> c, slot |-> m.slot, frame |-> m.frame] # None
    <3>1. m.frame \in Frames
      <4>1. 1 \in DOMAIN chan[c]
        BY <1>a, <2>1, TakeEffect
      <4> QED BY <1>a, <2>1, <2>4, <4>1, SignalParts
    <3>2. [ring |-> c, slot |-> m.slot, frame |-> m.frame] \in Holds
      BY <2>2, <3>1 DEF Holds
    <3> QED BY <3>2, FrameRingAssumption
  <2> HIDE DEF m
  <2>6. CASE s = m.slot
    <3>1. CASE Held(c, m.slot)
      BY <2>3, <2>6, <3>1 DEF Held
    <3>2. CASE ~Held(c, m.slot)
      <4>1. latest'[m.key] = [ring |-> c, slot |-> m.slot, frame |-> m.frame]
        BY <1>b, <2>2, <2>3, <3>2
      <4>2. latest'[m.key] # None /\ latest'[m.key].ring = c /\ latest'[m.key].slot = s
        BY <2>5, <2>6, <4>1
      <4> QED BY <2>2, <4>2 DEF Held
    <3> QED BY <3>1, <3>2
  <2>7. CASE s # m.slot
    <3>1. ASSUME SignalInFlight(c, s) PROVE SignalInFlight(c, s)'
      <4>1. ASSUME NEW i \in DOMAIN chan[c], chan[c][i].type = "frame", chan[c][i].slot = s
            PROVE  \E j \in DOMAIN chan'[c] : chan'[c][j].type = "frame" /\ chan'[c][j].slot = s
        BY <2>4, <2>7, <4>1
      <4> QED BY <2>1, <3>1, <4>1 DEF SignalInFlight
    <3>2. CASE UNCHANGED <<ring, latest>>
      BY <1>c, <3>1, <3>2 DEF Held
    <3>3. CASE /\ ring' = ReleaseHeld({m.key})
               /\ latest' = [latest EXCEPT ![m.key] = [ring |-> c, slot |-> m.slot, frame |-> m.frame]]
      <4>1. ring[c][s].st = "ready" /\ ~(latest[m.key] # None /\ latest[m.key].ring = c /\ latest[m.key].slot = s)
        <5>1. ASSUME latest[m.key] # None /\ latest[m.key].ring = c /\ latest[m.key].slot = s,
                     ring[c][s].st = "ready"
              PROVE  ring'[c][s] = [ring[c][s] EXCEPT !.st = "free"]
          BY <3>3, <5>1 DEF ReleaseHeld
        <5>2. [ring[c][s] EXCEPT !.st = "free"].st = "free"
          <6>1. ring[c][s] \in Cells
            BY <1>b
          <6> QED BY <6>1 DEF Cells
        <5>3. ring[c][s].st # "ready" => ring'[c][s] = ring[c][s]
          BY <3>3 DEF ReleaseHeld
        <5> QED BY <5>1, <5>2, <5>3
      <4>2. ASSUME Held(c, s) PROVE Held(c, s)'
        <5>1. PICK k \in Keys : latest[k] # None /\ latest[k].ring = c /\ latest[k].slot = s
          BY <4>2 DEF Held
        <5>2. latest'[k] = latest[k]
          BY <1>b, <3>3, <4>1, <5>1
        <5> QED BY <5>1, <5>2 DEF Held
      <4> QED BY <1>c, <3>1, <4>1, <4>2
    <3> QED BY <2>3, <3>2, <3>3
  <2> QED BY <2>6, <2>7
<1>9. CASE UNCHANGED vars
  BY <1>9, <1>d DEF vars, connVars, hubVars
<1>10. ~Crash(c)
  BY DEF Crash, Calm
<1>11. \A d \in Conns : d = c
  BY DEF OneProcess
<1> HIDE DEF Goal
<1> QED BY <1>1, <1>2, <1>3, <1>4, <1>5, <1>6, <1>7, <1>8, <1>9, <1>10, <1>11
    DEF Next, ConnStep, HubStep

\* Every step keeps the invariant.
LEMMA KInvStep == Calm /\ OneProcess /\ KInv /\ [Next]_vars => KInv'
<1> SUFFICES ASSUME Calm, OneProcess, KInv, [Next]_vars PROVE KInv'
  OBVIOUS
<1>1. QInv'
  BY QInvStep DEF KInv
<1>2. OneHome'
  BY OneHomeStep DEF KInv, QInv, RInv, IInv
<1> QED BY <1>1, <1>2, SignalsKnownStep, SessionsKnownStep, TracksOpenStep, AccountedStep DEF KInv

\* Every READY slot is held by the hub, named by a queued signal or about to be
\* announced by push_frame(): each of them is released in the end by _on_frame(), by
\* _drop_participant_slots() or with the ring, and the ring does not run dry.
THEOREM NothingLeaks == Calm /\ OneProcess /\ Spec => []SlotsAccounted
<1> SUFFICES ASSUME Calm, OneProcess PROVE Spec => []SlotsAccounted
  OBVIOUS
<1>1. KInv /\ [Next]_vars => KInv'
  BY KInvStep
<1>2. KInv => SlotsAccounted
  BY DEF KInv
<1> QED BY <1>1, <1>2, KInvInit, PTL DEF Spec

-----------------------------------------------------------------------------
(* A departure ends its own session only.                                      *)

\* Sessions are numbered, and no two connectors have the same one.
SessionsNumbered ==
  /\ \A c \in Conns, p \in Pids : sess[c][p] <= sessions
  /\ \A c, d \in Conns, p \in Pids : sess[c][p] # 0 /\ sess[c][p] = sess[d][p] => c = d

\* Event m is of a session that was opened; if it is a departure, the session is over.
EventIsPast(m) ==
  /\ m.type \in {"joined", "left"} => m.sess \in 1 .. sessions
  /\ m.type = "left" => \A d \in Conns : sess[d][m.pid] # m.sess

EventsArePast == \A c \in Conns : \A i \in DOMAIN chan[c] : EventIsPast(chan[c][i])

\* What every step keeps, crashes and restarts included.
DInv == TypeOK /\ SessionsNumbered /\ EventsArePast

\* At the start nobody has a session.
LEMMA DInvInit == Init => DInv
<1> SUFFICES ASSUME Init PROVE DInv
  OBVIOUS
<1>1. \A c \in Conns : DOMAIN chan[c] = {}
  BY DEF Init
<1>2. EventsArePast
  BY <1>1 DEF EventsArePast
<1>3. SessionsNumbered
  BY DEF Init, SessionsNumbered
<1> QED BY <1>2, <1>3, TypeInit DEF DInv

\* What a step does to the sessions of the connectors.
LEMMA SessionSteps ==
  ASSUME TypeOK, [Next]_vars
  PROVE  \/ UNCHANGED <<sess, sessions>>
         \/ \E c \in Conns, p \in Pids : Join(c, p) \/ Leave(c, p)
         \/ \E c \in Conns : Crash(c)
<1>1. \A c \in Conns, k \in Keys :
        StartStream(c, k) \/ EndStream(c, k) \/ Claim(c, k) \/ Full(c, k) => UNCHANGED <<sess, sessions>>
  BY ZenonT(30) DEF StartStream, EndStream, Claim, Full
<1>2. \A c \in Conns : Commit(c) \/ Send(c) \/ Register(c) => UNCHANGED <<sess, sessions>>
  BY ZenonT(30) DEF Commit, Send, Register, connVars
<1>3. \A c \in Conns : HubStep(c) => UNCHANGED <<sess, sessions>>
  BY DEF HubStep, HubJoined, HubLeft, HubFrameUnknown, HubFrameRejected, HubFrame, Take, connVars
<1>4. UNCHANGED vars => UNCHANGED <<sess, sessions>>
  BY DEF vars, connVars
<1> QED BY <1>1, <1>2, <1>3, <1>4 DEF Next, ConnStep

\* An event that is past stays so: a new session has a new number, and an old one ends.
LEMMA PastStays ==
  ASSUME TypeOK, SessionsNumbered, [Next]_vars, NEW m \in Events \cup Signals, EventIsPast(m)
  PROVE  EventIsPast(m)'
<1>a. sess \in [Conns -> [Pids -> Nat]] /\ sessions \in Nat
  BY FrameRingAssumption DEF TypeOK
<1>b. m.type \in {"joined", "left"} => m.pid \in Pids /\ m.sess \in Nat
  BY DEF Events, Signals
<1>1. CASE UNCHANGED <<sess, sessions>>
  BY <1>1 DEF EventIsPast
<1>2. ASSUME NEW c \in Conns, NEW p \in Pids, Join(c, p) PROVE EventIsPast(m)'
  <2>1. sessions' = sessions + 1 /\ sess' = [sess EXCEPT ![c][p] = sessions + 1]
    BY <1>2 DEF Join
  <2>2. \A d \in Conns, o \in Pids : sess'[d][o] = sess[d][o] \/ sess'[d][o] = sessions + 1
    BY <1>a, <2>1
  <2> QED BY <1>a, <1>b, <2>1, <2>2 DEF EventIsPast
<1>3. ASSUME UNCHANGED sessions, \A d \in Conns, o \in Pids : sess'[d][o] \in {0, sess[d][o]}
      PROVE  EventIsPast(m)'
  BY <1>a, <1>b, <1>3 DEF EventIsPast
<1>4. ASSUME NEW c \in Conns, NEW p \in Pids, Leave(c, p) PROVE EventIsPast(m)'
  <2>1. sessions' = sessions /\ sess' = [sess EXCEPT ![c][p] = 0]
    BY <1>4 DEF Leave
  <2>2. \A d \in Conns, o \in Pids : sess'[d][o] \in {0, sess[d][o]}
    BY <1>a, <2>1
  <2> QED BY <1>3, <2>1, <2>2
<1>5. ASSUME NEW c \in Conns, Crash(c) PROVE EventIsPast(m)'
  <2>1. sessions' = sessions /\ sess' = [sess EXCEPT ![c] = [p \in Pids |-> 0]]
    BY <1>5 DEF Crash
  <2>2. \A d \in Conns, o \in Pids : sess'[d][o] \in {0, sess[d][o]}
    BY <1>a, <2>1
  <2> QED BY <1>3, <2>1, <2>2
<1> QED BY <1>1, <1>2, <1>4, <1>5, SessionSteps

\* Every step keeps the numbers apart.
LEMMA NumberedStep == TypeOK /\ SessionsNumbered /\ [Next]_vars => SessionsNumbered'
<1> SUFFICES ASSUME TypeOK, SessionsNumbered, [Next]_vars PROVE SessionsNumbered'
  OBVIOUS
<1>a. sess \in [Conns -> [Pids -> Nat]] /\ sessions \in Nat
  BY FrameRingAssumption DEF TypeOK
<1>1. CASE UNCHANGED <<sess, sessions>>
  BY <1>1 DEF SessionsNumbered
<1>2. ASSUME NEW c \in Conns, NEW p \in Pids, Join(c, p) PROVE SessionsNumbered'
  <2>1. sessions' = sessions + 1 /\ sess' = [sess EXCEPT ![c][p] = sessions + 1]
    BY <1>2 DEF Join
  <2>2. \A d \in Conns, o \in Pids :
          sess'[d][o] = IF d = c /\ o = p THEN sessions + 1 ELSE sess[d][o]
    BY <1>a, <2>1
  <2> QED BY <1>a, <2>1, <2>2 DEF SessionsNumbered
<1>3. ASSUME UNCHANGED sessions, \A d \in Conns, o \in Pids : sess'[d][o] \in {0, sess[d][o]}
      PROVE  SessionsNumbered'
  BY <1>a, <1>3 DEF SessionsNumbered
<1>4. ASSUME NEW c \in Conns, NEW p \in Pids, Leave(c, p) PROVE SessionsNumbered'
  <2>1. sessions' = sessions /\ sess' = [sess EXCEPT ![c][p] = 0]
    BY <1>4 DEF Leave
  <2>2. \A d \in Conns, o \in Pids : sess'[d][o] \in {0, sess[d][o]}
    BY <1>a, <2>1
  <2> QED BY <1>3, <2>1, <2>2
<1>5. ASSUME NEW c \in Conns, Crash(c) PROVE SessionsNumbered'
  <2>1. sessions' = sessions /\ sess' = [sess EXCEPT ![c] = [p \in Pids |-> 0]]
    BY <1>5 DEF Crash
  <2>2. \A d \in Conns, o \in Pids : sess'[d][o] \in {0, sess[d][o]}
    BY <1>a, <2>1
  <2> QED BY <1>3, <2>1, <2>2
<1> QED BY <1>1, <1>2, <1>4, <1>5, SessionSteps

\* A message that a step queues is a signal, or announces what the step has just done.
LEMMA NewEventIsPast ==
  ASSUME TypeOK, SessionsNumbered, NEW c \in Conns, NEW p \in Pids, Join(c, p) \/ Leave(c, p)
  PROVE  \E m \in Events : SendTo(c, m) /\ EventIsPast(m)'
<1>a. sess \in [Conns -> [Pids -> Nat]] /\ sessions \in Nat
  BY FrameRingAssumption DEF TypeOK
<1>1. CASE Join(c, p)
  <2> DEFINE m == [type |-> "joined", pid |-> p, sess |-> sessions + 1]
  <2>1. m \in Events /\ SendTo(c, m) /\ sessions' = sessions + 1
    BY <1>a, <1>1 DEF Join, Events
  <2>2. m.type = "joined" /\ m.sess = sessions + 1
    OBVIOUS
  <2> HIDE DEF m
  <2> QED BY <1>a, <2>1, <2>2 DEF EventIsPast
<1>2. CASE Leave(c, p)
  <2> DEFINE m == [type |-> "left", pid |-> p, sess |-> sess[c][p]]
  <2>1. m \in Events /\ SendTo(c, m) /\ sessions' = sessions /\ sess' = [sess EXCEPT ![c][p] = 0]
    BY <1>a, <1>2 DEF Leave, Events
  <2>2. m.type = "left" /\ m.sess = sess[c][p] /\ m.pid = p
    OBVIOUS
  <2>3. sess[c][p] \in 1 .. sessions
    BY <1>a, <1>2 DEF Leave, SessionsNumbered
  <2>4. \A d \in Conns : sess'[d][p] # sess[c][p]
    <3>1. \A d \in Conns : d # c => sess'[d][p] = sess[d][p] /\ sess[d][p] # sess[c][p]
      BY <1>a, <2>1, <2>3 DEF SessionsNumbered
    <3>2. sess'[c][p] = 0
      BY <1>a, <2>1
    <3> QED BY <2>3, <3>1, <3>2
  <2> HIDE DEF m
  <2> QED BY <2>1, <2>2, <2>3, <2>4 DEF EventIsPast
<1> QED BY <1>1, <1>2

\* A message that is queued was queued before, or is a signal, or a participant joins or leaves.
LEMMA QueueSources ==
  ASSUME TypeOK, [Next]_vars, NEW d \in Conns, NEW i \in DOMAIN chan'[d]
  PROVE  \/ chan'[d][i].type = "frame"
         \/ \E j \in DOMAIN chan[d] : chan'[d][i] = chan[d][j]
         \/ \E c \in Conns, p \in Pids : Join(c, p) \/ Leave(c, p)
<1> DEFINE Old == \E j \in DOMAIN chan[d] : chan'[d][i] = chan[d][j]
           Goal == \/ chan'[d][i].type = "frame" \/ Old
                   \/ \E c \in Conns, p \in Pids : Join(c, p) \/ Leave(c, p)
<1> SUFFICES Goal
  OBVIOUS
<1>a. /\ chan \in [Conns -> Seq(Events \cup Signals)] /\ chan[d] \in Seq(Events \cup Signals)
      /\ DOMAIN chan[d] = 1 .. Len(chan[d]) /\ Len(chan[d]) \in Nat
  BY LenProperties DEF TypeOK
<1>1. CASE chan'[d] = chan[d]
  BY <1>1
<1>2. ASSUME NEW c \in Conns, NEW q, chan' = [chan EXCEPT ![c] = q], c # d PROVE Goal
  <2>1. chan'[d] = chan[d]
    BY <1>a, <1>2
  <2> QED BY <1>1, <2>1
<1>3. ASSUME NEW c \in Conns, NEW k \in Keys, EndStream(c, k) PROVE Goal
  <2>1. ASSUME NEW n \in DOMAIN chan[c], chan' = [chan EXCEPT ![c] = Without(@, n)] PROVE Goal
    <3>1. CASE c = d
      <4>1. chan'[d] = Without(chan[d], n) /\ n \in DOMAIN chan[d]
        BY <1>a, <2>1, <3>1
      <4>2. i \in DOMAIN Without(chan[d], n)
        BY <4>1
      <4>3. \A h \in DOMAIN Without(chan[d], n) :
              \/ h < n /\ h \in DOMAIN chan[d] /\ Without(chan[d], n)[h] = chan[d][h]
              \/ n <= h /\ h + 1 \in DOMAIN chan[d] /\ Without(chan[d], n)[h] = chan[d][h + 1]
        BY <1>a, <4>1, WithdrawElements, Zenon
      <4>4. \/ i \in DOMAIN chan[d] /\ chan'[d][i] = chan[d][i]
            \/ i + 1 \in DOMAIN chan[d] /\ chan'[d][i] = chan[d][i + 1]
        BY <4>1, <4>2, <4>3, Zenon
      <4> QED BY <4>4, Zenon
    <3> QED BY <1>2, <2>1, <3>1
  <2> QED BY <1>1, <1>3, <2>1 DEF EndStream
<1>4. ASSUME NEW c \in Conns, Send(c) PROVE Goal
  <2>1. CASE c = d
    <3>1. PICK m \in Signals :
            /\ \A n \in 1 .. Len(chan[d]) : chan'[d][n] = chan[d][n]
            /\ \A n \in DOMAIN chan'[d] : n > Len(chan[d]) => chan'[d][n] = m
            /\ chan'[d] \in Seq(Events \cup Signals)
      BY <1>4, <2>1, SendEffect
    <3>2. i \in Nat /\ i >= 1
      BY <3>1, LenProperties
    <3>3. m.type = "frame"
      BY DEF Signals
    <3>4. CASE i > Len(chan[d])
      BY <3>1, <3>3, <3>4
    <3>5. CASE i <= Len(chan[d])
      BY <1>a, <3>1, <3>2, <3>5
    <3> QED BY <1>a, <3>2, <3>4, <3>5
  <2>2. \E q : chan' = [chan EXCEPT ![c] = q]
    BY <1>4 DEF Send
  <2> QED BY <1>2, <2>1, <2>2
<1>5. ASSUME NEW c \in Conns, Crash(c) PROVE Goal
  <2>1. PICK n \in 0 .. Len(chan[c]) : chan' = [chan EXCEPT ![c] = SubSeq(@, 1, n)]
    BY <1>5 DEF Crash
  <2>2. CASE c = d
    <3>1. chan'[d] = SubSeq(chan[d], 1, n) /\ n \in 0 .. Len(chan[d])
      BY <1>a, <2>1, <2>2
    <3>2. i \in DOMAIN SubSeq(chan[d], 1, n)
      BY <3>1
    <3>3. Old
      BY <1>a, <3>1, <3>2, PrefixElements
    <3> QED BY <3>3
  <2> QED BY <1>2, <2>1, <2>2
<1>6. ASSUME NEW c \in Conns, HubStep(c) PROVE Goal
  <2>1. chan[c] # <<>> /\ chan' = [chan EXCEPT ![c] = Tail(@)]
    BY <1>6 DEF HubStep, HubJoined, HubLeft, HubFrameUnknown, HubFrameRejected, HubFrame, Take
  <2>2. CASE c = d
    <3>1. i + 1 \in DOMAIN chan[d] /\ chan'[d][i] = chan[d][i + 1]
      BY <2>1, <2>2, TakeEffect
    <3> QED BY <3>1, Zenon
  <2> QED BY <1>2, <2>1, <2>2
<1>7. \A c \in Conns, k \in Keys : StartStream(c, k) \/ Claim(c, k) \/ Full(c, k) => chan' = chan
  BY DEF StartStream, Claim, Full
<1>8. \A c \in Conns : Commit(c) \/ Register(c) => chan' = chan
  BY DEF Commit, Register
<1>9. UNCHANGED vars => chan' = chan
  BY DEF vars
<1> HIDE DEF Goal
<1>10. ASSUME NEW c \in Conns, NEW p \in Pids, Join(c, p) \/ Leave(c, p) PROVE Goal
  BY <1>10 DEF Goal
<1> QED BY <1>1, <1>3, <1>4, <1>5, <1>6, <1>7, <1>8, <1>9, <1>10 DEF Next, ConnStep

\* Every step keeps the queued events past.
LEMMA PastStep == DInv /\ [Next]_vars => EventsArePast'
<1> SUFFICES ASSUME DInv, [Next]_vars, NEW d \in Conns, NEW i \in DOMAIN chan'[d]
             PROVE  EventIsPast(chan[d][i])'
  BY DEF EventsArePast
<1>a. TypeOK /\ SessionsNumbered
  BY DEF DInv
<1>b. /\ chan \in [Conns -> Seq(Events \cup Signals)] /\ chan[d] \in Seq(Events \cup Signals)
      /\ chan'[d] \in Seq(Events \cup Signals)
  BY <1>a, TypeStep DEF TypeOK
<1>c. /\ DOMAIN chan[d] = 1 .. Len(chan[d]) /\ Len(chan[d]) \in Nat
      /\ DOMAIN chan'[d] = 1 .. Len(chan'[d]) /\ Len(chan'[d]) \in Nat
  BY <1>b, LenProperties
<1>1. ASSUME NEW j \in DOMAIN chan[d], chan'[d][i] = chan[d][j] PROVE EventIsPast(chan[d][i])'
  <2>1. PICK m \in Events \cup Signals : m = chan[d][j]
    BY <1>b
  <2>2. EventIsPast(m)
    BY <2>1 DEF DInv, EventsArePast
  <2>3. EventIsPast(m)'
    BY <1>a, <2>2, PastStays
  <2> QED BY <1>1, <2>1, <2>3 DEF EventIsPast
<1>2. CASE chan'[d][i].type = "frame"
  BY <1>2 DEF EventIsPast
<1>3. ASSUME NEW c \in Conns, NEW p \in Pids, Join(c, p) \/ Leave(c, p)
      PROVE  EventIsPast(chan[d][i])'
  <2>1. PICK m \in Events : SendTo(c, m) /\ EventIsPast(m)'
    BY <1>a, <1>3, NewEventIsPast
  <2>2. CASE c = d
    <3>1. /\ \A n \in 1 .. Len(chan[d]) : chan'[d][n] = chan[d][n]
          /\ \A n \in DOMAIN chan'[d] : n > Len(chan[d]) => chan'[d][n] = m
      BY <1>a, <2>1, <2>2, AnnounceEffect
    <3>2. CASE i \in DOMAIN chan[d]
      BY <1>1, <1>c, <3>1, <3>2
    <3>3. CASE i \notin DOMAIN chan[d]
      <4>1. chan'[d][i] = m
        BY <1>c, <3>1, <3>3
      <4> QED BY <2>1, <4>1 DEF EventIsPast
    <3> QED BY <3>2, <3>3
  <2>3. CASE c # d
    <3>1. chan'[d] = chan[d]
      BY <1>b, <2>1, <2>3 DEF SendTo
    <3> QED BY <1>1, <3>1
  <2> QED BY <2>2, <2>3
<1>4. \/ chan'[d][i].type = "frame"
      \/ \E j \in DOMAIN chan[d] : chan'[d][i] = chan[d][j]
      \/ \E c \in Conns, p \in Pids : Join(c, p) \/ Leave(c, p)
  BY <1>a, QueueSources
<1> QED BY <1>1, <1>2, <1>3, <1>4

\* Every step keeps the invariant.
LEMMA DInvStep == DInv /\ [Next]_vars => DInv'
  BY TypeStep, NumberedStep, PastStep DEF DInv

\* A session that is there is not ended by the departure of another, through
\* whichever connectors and in whatever order they are announced: the stale check of
\* PARTICIPANT_EVENT suffices, because no two sessions share a number and a departure
\* is announced when its session is over.
THEOREM DeparturesEndTheirOwn == Spec => LiveSessionsStay
<1> DEFINE Stays == \A c \in Conns, p \in Pids :
                      psess[p] # 0 /\ sess[c][p] = psess[p] => psess'[p] # 0
<1>1. ASSUME DInv, [Next]_vars PROVE Stays
  <2> SUFFICES ASSUME NEW c \in Conns, NEW p \in Pids, psess[p] # 0, sess[c][p] = psess[p]
               PROVE  psess'[p] # 0
    OBVIOUS
  <2>a. psess \in [Pids -> Nat] /\ chan \in [Conns -> Seq(Events \cup Signals)]
    BY <1>1 DEF DInv, TypeOK
  <2>b. ASSUME NEW d \in Conns, chan[d] # <<>>
        PROVE  EventIsPast(Head(chan[d])) /\ Head(chan[d]) \in Events \cup Signals
    <3>1. /\ Head(chan[d]) \in Events \cup Signals
          /\ 1 \in DOMAIN chan[d] /\ Head(chan[d]) = chan[d][1]
      BY <2>a, <2>b, TailElements
    <3> QED BY <1>1, <3>1 DEF DInv, EventsArePast
  <2>1. CASE psess' = psess
    BY <2>1
  <2>2. ASSUME NEW d \in Conns, HubJoined(d) PROVE psess'[p] # 0
    <3> DEFINE m == Head(chan[d])
    <3>1. psess' = [psess EXCEPT ![m.pid] = m.sess] /\ chan[d] # <<>> /\ m.type = "joined"
      BY <2>2 DEF HubJoined, Take
    <3>2. m.sess \in 1 .. sessions
      BY <2>b, <3>1 DEF EventIsPast
    <3> HIDE DEF m
    <3> QED BY <2>a, <3>1, <3>2
  <2>3. ASSUME NEW d \in Conns, HubLeft(d) PROVE psess'[p] # 0
    <3> DEFINE m == Head(chan[d])
    <3>1. /\ chan[d] # <<>> /\ m.type = "left"
          /\ \/ psess' = psess
             \/ ~StaleDeparture(m) /\ psess' = [psess EXCEPT ![m.pid] = 0]
      BY <2>3 DEF HubLeft, Take
    <3>2. sess[c][m.pid] # m.sess
      BY <2>b, <3>1 DEF EventIsPast
    <3> HIDE DEF m
    <3>3. m.pid = p => StaleDeparture(m)
      BY <3>2 DEF StaleDeparture
    <3> QED BY <2>a, <3>1, <3>3
  <2>4. \A d \in Conns : HubFrameUnknown(d) \/ HubFrameRejected(d) \/ HubFrame(d) => psess' = psess
    BY DEF HubFrameUnknown, HubFrameRejected, HubFrame
  <2>5. \A d \in Conns : ConnStep(d) \/ Register(d) => psess' = psess
    BY ZenonT(40) DEF ConnStep, Join, Leave, StartStream, EndStream, Claim, Full, Commit, Send, Crash,
                      Register, hubVars
  <2>6. UNCHANGED vars => psess' = psess
    BY DEF vars, hubVars
  <2> HIDE DEF Stays
  <2> QED BY <1>1, <2>1, <2>2, <2>3, <2>4, <2>5, <2>6 DEF Next, HubStep
<1>2. DInv /\ [Next]_vars => [Stays]_vars
  BY <1>1
<1> QED BY <1>2, DInvInit, DInvStep, PTL DEF Spec, LiveSessionsStay
=============================================================================
