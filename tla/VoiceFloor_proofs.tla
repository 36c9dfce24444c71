--------------------------- MODULE VoiceFloor_proofs ---------------------------
(***************************************************************************)
(* Proofs about VoiceFloor, for any replies, updates, requests, producers  *)
(* and capacity.                                                           *)
(*                                                                         *)
(* The handlers are composed of operators on the entry of a participant,   *)
(* so the invariant is one of entries: each operator is shown once to keep *)
(* it, and an action keeps it because the operators it is composed of do.  *)
(***************************************************************************)
EXTENDS VoiceFloor, Subsequences_proofs

Distinct(q) == \A k, l \in DOMAIN q : k # l => q[k] # q[l]
Rising(q) == \A k, l \in DOMAIN q : k < l => q[k] < q[l]

-----------------------------------------------------------------------------
(* The inductive invariant. *)

AllRequests == {RequestOf[i] : i \in Replies}
Floors == [items : SUBSET Items, phase : Phases, sent : 0 .. MaxFragments]
DownFrames == FramesOf({"text", "sentence", "end", "done", "cut", "left"})
UpFrames == FramesOf({"started", "stopped", "done"})

Entries ==
  [floor : Floors, replies : Seq(Replies), urgent : Seq(Urgents), pending : Seq(Updates),
   active : AllRequests \cup {None}, superseded : SUBSET (AllRequests \ {None}),
   speaking : BOOLEAN, userSpeaking : BOOLEAN, seen : BOOLEAN, pipe : Seq(DownFrames),
   played : SUBSET Items, lost : SUBSET Items, departed : BOOLEAN]

\* The free floor is Free, and a taken one is taken by one reply, one urgent update
\* or some ordinary ones.
Alone(f) ==
  /\ f.phase = "free" => f = Free
  /\ f.phase # "free" => f.items # {}
  /\ \/ f.items \subseteq Updates
     \/ \E i \in Replies \cup Urgents : f.items = {i}

Queued(s) ==
  /\ Distinct(s.replies) /\ Distinct(s.pending) /\ Rising(s.urgent)
  /\ Len(s.pending) <= UpdateCapacity
  /\ \A i \in Unheard(s), j \in ToSet(s.urgent) : i < j

\* HeardAtMostOnce for an entry and the items handed in, and what it rests on.
Accounted(s, sub) ==
  /\ sub \cap (Urgents \cup Updates) = (s.played \ Replies) \cup s.lost \cup Waiting(s)
  /\ s.lost \cap (s.played \cup Waiting(s)) = {}
  /\ s.played \cap (Waiting(s) \cup ToSet(s.replies) \cup Preparing(s)) = {}
  /\ s.played \cup ToSet(s.replies) \cup s.floor.items \subseteq sub
  /\ Preparing(s) \cap ToSet(s.replies) = {}
  /\ Preparing(s) \cap Updates \subseteq ToSet(s.pending) \cup s.lost
  /\ s.floor.phase # "preparing" => s.floor.items \subseteq s.played

Coherent(s, sub) == s \in Entries /\ Alone(s.floor) /\ Queued(s) /\ Accounted(s, sub)

\* Updates are selected only while nobody speaks.
Courteous(s) == Preparing(s) \cap Updates # {} => Quiet(s)

\* SupersededIsSilent for an entry.
Silent(s) ==
  /\ Requests(ToSet(s.replies)) \cap s.superseded = {}
  /\ s.floor.phase \in {"preparing", "playing"} => Requests(s.floor.items) \cap s.superseded = {}

Good(s, sub) == Coherent(s, sub) /\ Courteous(s) /\ Silent(s)

\* The variables around the entry.
Rest ==
  /\ up \in Seq(UpFrames) /\ frag \subseteq SUBSET Items /\ clipped \subseteq SUBSET Items
  /\ resuming \in BOOLEAN /\ botOn \in BOOLEAN
  /\ submitted \subseteq Items /\ events \in Nat /\ Inputs <= MaxInputs
  /\ \A i \in submitted \cap Urgents, j \in Urgents \ submitted : i < j

\* A done marker is that of something heard.
MarksAreHeard(s, upward) ==
  \A f \in ToSet(s.pipe) \cup ToSet(upward) :
    f.kind = "done" => f.out # {} /\ f.out \subseteq s.played

IInv == Good(io, submitted) /\ MarksAreHeard(io, up) /\ Rest

-----------------------------------------------------------------------------
(* Queues, as sets of items and as orders. *)

LEMMA EmptyQueue == ToSet(<<>>) = {} /\ Distinct(<<>>) /\ Rising(<<>>) /\ Len(<<>>) = 0
BY DEF ToSet, Distinct, Rising

LEMMA AppendQueue ==
  ASSUME NEW S, NEW q \in Seq(S), NEW x \in S
  PROVE  /\ Append(q, x) \in Seq(S) /\ Len(Append(q, x)) = Len(q) + 1
         /\ ToSet(Append(q, x)) = ToSet(q) \cup {x}
         /\ Distinct(q) /\ x \notin ToSet(q) => Distinct(Append(q, x))
         /\ Rising(q) /\ (\A y \in ToSet(q) : y < x) => Rising(Append(q, x))
<1> DEFINE r == Append(q, x)
<1>1. /\ r \in Seq(S) /\ Len(r) = Len(q) + 1 /\ Len(q) \in Nat
      /\ DOMAIN r = 1 .. Len(q) + 1 /\ DOMAIN q = 1 .. Len(q)
      /\ \A i \in 1 .. Len(q) : r[i] = q[i]
      /\ r[Len(q) + 1] = x
  BY AppendProperties, LenProperties
<1> HIDE DEF r
<1>2. ToSet(r) = ToSet(q) \cup {x}
  BY <1>1 DEF ToSet
<1>3. Distinct(q) /\ x \notin ToSet(q) => Distinct(r)
  BY <1>1 DEF ToSet, Distinct
<1>4. Rising(q) /\ (\A y \in ToSet(q) : y < x) => Rising(r)
  BY <1>1 DEF ToSet, Rising
<1> QED BY <1>1, <1>2, <1>3, <1>4 DEF r

LEMMA TailQueue ==
  ASSUME NEW S, NEW q \in Seq(S), q # <<>>
  PROVE  /\ Tail(q) \in Seq(S) /\ Head(q) \in S /\ Len(Tail(q)) = Len(q) - 1 /\ Len(q) \in Nat
         /\ ToSet(q) = ToSet(Tail(q)) \cup {Head(q)}
         /\ Distinct(q) => Distinct(Tail(q)) /\ Head(q) \notin ToSet(Tail(q))
         /\ Rising(q) => Rising(Tail(q)) /\ \A y \in ToSet(Tail(q)) : Head(q) < y
<1> DEFINE r == Tail(q)
<1>1. /\ r \in Seq(S) /\ Len(r) = Len(q) - 1 /\ Len(q) \in Nat \ {0}
      /\ DOMAIN r = 1 .. Len(q) - 1 /\ DOMAIN q = 1 .. Len(q)
      /\ \A i \in 1 .. Len(q) - 1 : r[i] = q[i + 1]
      /\ Head(q) = q[1] /\ Head(q) \in S
  BY HeadTailProperties, LenProperties, EmptySeq
<1> HIDE DEF r
<1>2. /\ 1 \in DOMAIN q /\ Head(q) = q[1]
      /\ \A i \in DOMAIN r : i + 1 \in DOMAIN q /\ r[i] = q[i + 1] /\ 1 < i + 1 /\ 1 # i + 1
  BY <1>1
<1>3. ToSet(q) = ToSet(r) \cup {Head(q)}
  <2>1. ASSUME NEW i \in DOMAIN q, i # 1 PROVE i - 1 \in DOMAIN r /\ r[i - 1] = q[i]
    <3>1. i - 1 \in 1 .. Len(q) - 1 /\ (i - 1) + 1 = i
      BY <1>1, <2>1
    <3> QED BY <1>1, <3>1
  <2>2. ASSUME NEW y \in ToSet(q) PROVE y \in ToSet(r) \cup {q[1]}
    <3>1. PICK i \in DOMAIN q : y = q[i]
      BY DEF ToSet
    <3> QED BY <2>1, <3>1 DEF ToSet
  <2>3. ASSUME NEW y \in ToSet(r) \cup {q[1]} PROVE y \in ToSet(q)
    BY <1>2, <2>3 DEF ToSet
  <2> QED BY <1>2, <2>2, <2>3
<1>4. ASSUME Distinct(q) PROVE Distinct(r) /\ Head(q) \notin ToSet(r)
  <2>1. \A i, j \in DOMAIN r : i # j => i + 1 # j + 1
    BY <1>1
  <2>2. Distinct(r)
    BY <1>2, <1>4, <2>1 DEF Distinct
  <2>3. \A i \in DOMAIN r : r[i] # q[1]
    BY <1>2, <1>4 DEF Distinct
  <2> QED BY <1>1, <2>2, <2>3 DEF ToSet
<1>5. ASSUME Rising(q) PROVE Rising(r) /\ \A y \in ToSet(r) : Head(q) < y
  <2>1. \A i, j \in DOMAIN r : i < j => i + 1 < j + 1
    BY <1>1
  <2>2. Rising(r)
    BY <1>2, <1>5, <2>1 DEF Rising
  <2>3. \A i \in DOMAIN r : q[1] < r[i]
    BY <1>2, <1>5 DEF Rising
  <2> QED BY <1>1, <2>2, <2>3 DEF ToSet
<1> QED BY <1>1, <1>3, <1>4, <1>5 DEF r

LEMMA FrontQueue ==
  ASSUME NEW S, NEW q \in Seq(S), NEW x \in S
  PROVE  /\ <<x>> \o q \in Seq(S)
         /\ ToSet(<<x>> \o q) = {x} \cup ToSet(q)
         /\ Rising(q) /\ (\A y \in ToSet(q) : x < y) => Rising(<<x>> \o q)
<1> DEFINE r == <<x>> \o q
<1>1. <<x>> \in Seq(S) /\ Len(<<x>>) = 1 /\ <<x>>[1] = x
  OBVIOUS
<1>2. /\ r \in Seq(S) /\ Len(r) = Len(q) + 1 /\ Len(q) \in Nat
      /\ DOMAIN r = 1 .. Len(q) + 1 /\ DOMAIN q = 1 .. Len(q)
      /\ \A i \in 1 .. Len(q) + 1 : r[i] = IF i = 1 THEN x ELSE q[i - 1]
  BY <1>1, ConcatProperties, LenProperties
<1> HIDE DEF r
<1>3. ToSet(r) = {x} \cup ToSet(q)
  <2>1. ASSUME NEW i \in DOMAIN q PROVE i + 1 \in DOMAIN r /\ r[i + 1] = q[i]
    <3>1. i + 1 \in 1 .. Len(q) + 1 /\ (i + 1) - 1 = i /\ i + 1 # 1
      BY <1>2
    <3> QED BY <1>2, <3>1
  <2>2. \A i \in DOMAIN r : r[i] = x \/ (i - 1 \in DOMAIN q /\ r[i] = q[i - 1])
    BY <1>2
  <2>3. 1 \in DOMAIN r /\ r[1] = x
    BY <1>2
  <2>4. ASSUME NEW y \in ToSet(q) PROVE y \in ToSet(r)
    <3>1. PICK i \in DOMAIN q : y = q[i]
      BY DEF ToSet
    <3> QED BY <2>1, <3>1 DEF ToSet
  <2>5. ASSUME NEW y \in ToSet(r) PROVE y = x \/ y \in ToSet(q)
    <3>1. PICK i \in DOMAIN r : y = r[i]
      BY DEF ToSet
    <3> QED BY <2>2, <3>1 DEF ToSet
  <2>6. x \in ToSet(r)
    BY <2>3 DEF ToSet
  <2> QED BY <2>4, <2>5, <2>6
<1>4. ASSUME Rising(q), \A y \in ToSet(q) : x < y PROVE Rising(r)
  <2> SUFFICES ASSUME NEW i \in DOMAIN r, NEW j \in DOMAIN r, i < j PROVE r[i] < r[j]
    BY DEF Rising
  <2>1. r[j] = q[j - 1] /\ j - 1 \in DOMAIN q
    BY <1>2
  <2>2. CASE i = 1
    <3>1. r[i] = x /\ q[j - 1] \in ToSet(q)
      BY <1>2, <2>1, <2>2 DEF ToSet
    <3> QED BY <1>4, <2>1, <3>1
  <2>3. CASE i # 1
    <3>1. r[i] = q[i - 1] /\ i - 1 \in DOMAIN q /\ i - 1 < j - 1
      BY <1>2, <2>3
    <3> QED BY <1>4, <2>1, <3>1 DEF Rising
  <2> QED BY <2>2, <2>3
<1> QED BY <1>2, <1>3, <1>4 DEF r

LEMMA OnlyQueue ==
  ASSUME NEW T, NEW q \in Seq(T), NEW S
  PROVE  /\ Only(q, S) \in Seq(T) /\ Len(Only(q, S)) <= Len(q)
         /\ ToSet(Only(q, S)) = ToSet(q) \cap S
         /\ Distinct(q) => Distinct(Only(q, S))
         /\ Rising(q) => Rising(Only(q, S))
<1> DEFINE r == Only(q, S)
<1>1. /\ r \in Seq(T) /\ Len(r) <= Len(q)
      /\ \A i \in DOMAIN r : r[i] \in S /\ \E k \in DOMAIN q : r[i] = q[k]
      /\ \A k \in DOMAIN q : q[k] \in S => \E i \in DOMAIN r : r[i] = q[k]
  BY OnlyElements
<1>2. \A i, j \in DOMAIN r : i < j => \E k, l \in DOMAIN q : k < l /\ r[i] = q[k] /\ r[j] = q[l]
  BY OnlyKeepsOrder
<1>3. DOMAIN r \subseteq Int /\ DOMAIN q \subseteq Int
  BY <1>1, LenProperties
<1> HIDE DEF r
<1>4. ToSet(r) = ToSet(q) \cap S
  BY <1>1 DEF ToSet
<1>5. ASSUME Distinct(q) PROVE Distinct(r)
  <2> SUFFICES ASSUME NEW i \in DOMAIN r, NEW j \in DOMAIN r, i # j PROVE r[i] # r[j]
    BY DEF Distinct
  <2>1. i < j \/ j < i
    BY <1>3
  <2>2. PICK k, l \in DOMAIN q : k # l /\ r[i] = q[k] /\ r[j] = q[l]
    BY <1>2, <1>3, <2>1
  <2> QED BY <1>5, <2>2 DEF Distinct
<1>6. Rising(q) => Rising(r)
  BY <1>2 DEF Rising
<1> QED BY <1>1, <1>4, <1>5, <1>6 DEF r

-----------------------------------------------------------------------------
(* The arbitration keeps entries coherent. *)

LEMMA ItemKinds ==
  /\ Items \subseteq Nat /\ Replies \subseteq Items /\ Urgents \subseteq Items /\ Updates \subseteq Items
  /\ Replies \cap Urgents = {} /\ Replies \cap Updates = {} /\ Urgents \cap Updates = {}
  /\ UpdateCapacity \in Nat /\ UpdateCapacity > 0
BY VoiceFloorAssumption DEF Items

LEMMA FreeIs == /\ Free \in Floors /\ Alone(Free) /\ Free.phase = "free" /\ Free.items = {}
BY VoiceFloorAssumption DEF Free, Floors, Alone, Phases

\* What the free floor asks of an entry.
LEMMA FreeFloor ==
  ASSUME NEW s, s.floor.phase = "free"
  PROVE  Unheard(s) = {} /\ Preparing(s) = {} /\ Courteous(s)
BY DEF Unheard, Preparing, Courteous

LEMMA ReleaseCoherent ==
  ASSUME NEW s, NEW sub, Coherent(s, sub), Unheard(s) = {}
  PROVE  Coherent(Release(s), sub) /\ Release(s).floor.phase = "free"
<1> DEFINE t == Release(s)
<1>1. /\ t \in Entries /\ t.floor = Free /\ t.replies = s.replies /\ t.urgent = s.urgent
      /\ t.pending = s.pending /\ t.played = s.played /\ t.lost = s.lost
  BY FreeIs DEF Coherent, Release, Entries
<1> HIDE DEF t
<1>2. Alone(t.floor) /\ t.floor.phase = "free" /\ t.floor.items = {}
  BY <1>1, FreeIs
<1>3. Unheard(t) = {} /\ Preparing(t) = {} /\ Waiting(t) = Waiting(s)
  BY <1>1, <1>2, FreeFloor DEF Waiting
<1>4. Queued(t)
  BY <1>1, <1>3 DEF Coherent, Queued
<1>5. Accounted(t, sub)
  BY <1>1, <1>2, <1>3 DEF Coherent, Accounted
<1> QED BY <1>1, <1>2, <1>4, <1>5 DEF Coherent, t

\* The urgent update that holds the floor holds it alone.
LEMMA UrgentAlone ==
  ASSUME NEW s \in Entries, Alone(s.floor)
  PROVE  \/ s.floor.items \cap Urgents = {} /\ UrgentOf(s) = <<>>
         \/ \E i \in Urgents : s.floor.items = {i} /\ UrgentOf(s) = <<i>>
<1>1. CASE s.floor.items \cap Urgents = {}
  BY <1>1 DEF UrgentOf
<1>2. CASE s.floor.items \cap Urgents # {}
  <2>1. PICK i \in Urgents : s.floor.items = {i}
    BY <1>2, FreeIs, ItemKinds DEF Alone
  <2>2. i = CHOOSE j \in Urgents : s.floor.items = {j}
    BY <2>1
  <2> QED BY <1>2, <2>1, <2>2 DEF UrgentOf
<1> QED BY <1>1, <1>2

\* What selecting and giving way leave alone.
Untouched(s, t) ==
  /\ t.pending = s.pending /\ t.active = s.active
  /\ t.speaking = s.speaking /\ t.userSpeaking = s.userSpeaking
  /\ t.played = s.played /\ t.lost = s.lost /\ t.departed = s.departed

LEMMA StopIs ==
  ASSUME NEW s, NEW sub, Coherent(s, sub)
  PROVE  /\ Coherent(Stop(s), sub)
         /\ Stop(s).floor.phase \notin {"preparing", "playing"}
         /\ s.floor.phase = "preparing" => Stop(s).floor = Free
         /\ s.floor.phase # "preparing" => Stop(s).floor.items = s.floor.items
         /\ Stop(s).floor.phase = "ended" <=> s.floor.phase = "ended"
         /\ Stop(s).floor.phase # "free" => s.floor.phase \in {"playing", "stopping", "ended"}
         /\ Stop(s).replies = s.replies /\ Stop(s).superseded = s.superseded
         /\ Stop(s).pipe = s.pipe /\ Untouched(s, Stop(s))
<1> DEFINE t == Stop(s)
<1>a. s \in Entries /\ Alone(s.floor)
  BY DEF Coherent
<1>1. CASE s.floor.phase = "preparing" /\ s.floor.items \cap Urgents = {}
  <2>1. t = [s EXCEPT !.floor = Free, !.urgent = <<>> \o s.urgent]
    BY <1>1, <1>a, UrgentAlone DEF Stop
  <2>2. <<>> \o s.urgent = s.urgent
    <3>1. s.urgent \in Seq(Urgents)
      BY <1>a DEF Entries
    <3> QED BY <3>1, ConcatEmptySeq
  <2>3. t = Release(s)
    BY <2>1, <2>2, <1>a DEF Release, Entries
  <2>4. Unheard(s) = {}
    BY <1>1 DEF Unheard
  <2> QED BY <1>1, <1>a, <2>3, <2>4, ReleaseCoherent, FreeIs, SMTT(20) DEF Release, Entries, Untouched
<1>2. CASE s.floor.phase = "preparing" /\ s.floor.items \cap Urgents # {}
  <2>1. PICK i \in Urgents : s.floor.items = {i} /\ UrgentOf(s) = <<i>>
    BY <1>2, <1>a, UrgentAlone
  <2>2. t = [s EXCEPT !.floor = Free, !.urgent = <<i>> \o s.urgent]
    BY <1>2, <2>1 DEF Stop
  <2>3. s.urgent \in Seq(Urgents)
    BY <1>a DEF Entries
  <2>4. /\ <<i>> \o s.urgent \in Seq(Urgents)
        /\ ToSet(<<i>> \o s.urgent) = {i} \cup ToSet(s.urgent)
        /\ Rising(<<i>> \o s.urgent)
    <3>1. Rising(s.urgent) /\ \A y \in ToSet(s.urgent) : i < y
      BY <1>2, <2>1 DEF Coherent, Queued, Unheard
    <3> QED BY <2>3, <3>1, FrontQueue
  <2>5. /\ t \in Entries /\ t.floor = Free /\ t.replies = s.replies /\ t.urgent = <<i>> \o s.urgent
        /\ t.pending = s.pending /\ t.played = s.played /\ t.lost = s.lost
        /\ t.superseded = s.superseded /\ t.active = s.active /\ t.pipe = s.pipe
        /\ t.speaking = s.speaking /\ t.userSpeaking = s.userSpeaking /\ t.departed = s.departed
    BY <2>2, <2>4, <1>a, FreeIs DEF Entries
  <2> HIDE DEF t
  <2>6. Alone(t.floor) /\ t.floor.phase = "free" /\ t.floor.items = {}
    BY <2>5, FreeIs
  <2>7. Unheard(s) = {i} /\ Preparing(s) = {i}
    BY <1>2, <2>1 DEF Unheard, Preparing
  <2>8. Unheard(t) = {} /\ Preparing(t) = {} /\ Waiting(t) = Waiting(s)
    BY <2>4, <2>5, <2>6, <2>7, FreeFloor DEF Waiting
  <2>9. Queued(t)
    BY <2>4, <2>5, <2>8 DEF Coherent, Queued
  <2>10. Accounted(t, sub)
    BY <2>5, <2>6, <2>7, <2>8 DEF Coherent, Accounted
  <2>11. Coherent(t, sub)
    BY <2>5, <2>6, <2>9, <2>10 DEF Coherent
  <2> QED BY <1>2, <2>5, <2>6, <2>11, FreeIs DEF t, Untouched
<1>3. CASE s.floor.phase = "playing"
  <2> DEFINE f == [s.floor EXCEPT !.phase = "stopping"]
  <2>0. f \in Floors /\ f.phase = "stopping" /\ f.items = s.floor.items
    BY <1>a DEF Entries, Floors, Phases
  <2>1. t = [s EXCEPT !.floor = f]
    BY <1>3 DEF Stop
  <2> HIDE DEF f
  <2>2. /\ t \in Entries /\ t.floor.phase = "stopping" /\ t.floor.items = s.floor.items
        /\ t.replies = s.replies /\ t.urgent = s.urgent
        /\ t.pending = s.pending /\ t.played = s.played /\ t.lost = s.lost
        /\ t.superseded = s.superseded /\ t.active = s.active /\ t.pipe = s.pipe
        /\ t.speaking = s.speaking /\ t.userSpeaking = s.userSpeaking /\ t.departed = s.departed
    BY <2>0, <2>1, <1>a DEF Entries
  <2> HIDE DEF t
  <2>3. Alone(t.floor)
    BY <1>3, <1>a, <2>2 DEF Alone
  <2>4. /\ Unheard(t) = {} /\ Preparing(t) = {} /\ Unheard(s) = {} /\ Preparing(s) = {}
        /\ Waiting(t) = Waiting(s)
    BY <1>3, <2>2 DEF Unheard, Preparing, Waiting
  <2>5. Queued(t)
    BY <2>2, <2>4 DEF Coherent, Queued
  <2>6. Accounted(t, sub)
    BY <1>3, <2>2, <2>4 DEF Coherent, Accounted
  <2> QED BY <1>3, <2>2, <2>3, <2>5, <2>6 DEF Coherent, t, Untouched
<1>4. CASE s.floor.phase \notin {"preparing", "playing"}
  <2>1. t = s
    BY <1>4 DEF Stop
  <2> QED BY <1>4, <1>a, <2>1 DEF Entries, Floors, Phases, Untouched
<1> QED BY <1>1, <1>2, <1>3, <1>4

LEMMA SupersedeIs ==
  ASSUME NEW s, NEW sub, Coherent(s, sub), NEW R \in SUBSET (AllRequests \cup {None})
  PROVE  /\ Coherent(Supersede(s, R), sub)
         /\ Supersede(s, R).superseded = s.superseded \cup (R \ {None})
         /\ Supersede(s, R).floor = s.floor /\ Supersede(s, R).replies = s.replies
         /\ Supersede(s, R).urgent = s.urgent /\ Supersede(s, R).pipe = s.pipe
         /\ Untouched(s, Supersede(s, R))
<1> DEFINE t == Supersede(s, R)
<1>1. /\ t \in Entries /\ t.superseded = s.superseded \cup (R \ {None})
      /\ t.floor = s.floor /\ t.replies = s.replies /\ t.urgent = s.urgent /\ t.pipe = s.pipe
      /\ Untouched(s, t)
  BY DEF Coherent, Supersede, Entries, Untouched
<1> HIDE DEF t
<1>2. Unheard(t) = Unheard(s) /\ Preparing(t) = Preparing(s) /\ Waiting(t) = Waiting(s)
  BY <1>1 DEF Unheard, Preparing, Waiting, Untouched
<1>3. Queued(t) /\ Accounted(t, sub) /\ Alone(t.floor)
  BY <1>1, <1>2 DEF Coherent, Queued, Accounted, Untouched
<1> QED BY <1>1, <1>3 DEF Coherent, t

LEMMA RequestsAre ==
  ASSUME NEW I PROVE Requests(I) \subseteq AllRequests
BY DEF Requests, AllRequests

\* Fewer replies in the queue.
LEMMA FewerReplies ==
  ASSUME NEW s, NEW sub, Coherent(s, sub), NEW S
  PROVE  LET t == [s EXCEPT !.replies = Only(@, S)]
         IN /\ Coherent(t, sub) /\ ToSet(t.replies) = ToSet(s.replies) \cap S
            /\ t.floor = s.floor /\ t.urgent = s.urgent /\ t.pipe = s.pipe
            /\ t.superseded = s.superseded /\ Untouched(s, t)
<1> DEFINE t == [s EXCEPT !.replies = Only(@, S)]
<1>1. s \in Entries /\ s.replies \in Seq(Replies)
  BY DEF Coherent, Entries
<1>2. /\ t.replies \in Seq(Replies) /\ ToSet(t.replies) = ToSet(s.replies) \cap S
      /\ Distinct(s.replies) => Distinct(t.replies)
  <2>1. t.replies = Only(s.replies, S)
    BY <1>1 DEF Entries
  <2> QED BY <1>1, <2>1, OnlyQueue
<1>3. /\ t \in Entries /\ t.floor = s.floor /\ t.urgent = s.urgent /\ t.pipe = s.pipe
      /\ t.superseded = s.superseded /\ Untouched(s, t)
  <2>1. Only(s.replies, S) \in Seq(Replies)
    BY <1>1, OnlyQueue
  <2> QED BY <1>1, <2>1 DEF Entries, Untouched
<1> HIDE DEF t
<1>4. Unheard(t) = Unheard(s) /\ Preparing(t) = Preparing(s) /\ Waiting(t) = Waiting(s)
  BY <1>3 DEF Unheard, Preparing, Waiting, Untouched
<1>5. Queued(t) /\ Accounted(t, sub) /\ Alone(t.floor)
  BY <1>2, <1>3, <1>4 DEF Coherent, Queued, Accounted, Untouched
<1>6. Coherent(t, sub)
  BY <1>3, <1>5 DEF Coherent
<1> QED BY <1>2, <1>3, <1>6 DEF t

LEMMA DropRepliesIs ==
  ASSUME NEW s, NEW sub, Coherent(s, sub), NEW keep
  PROVE  LET t == DropReplies(s, keep)
         IN /\ Coherent(t, sub)
            /\ ToSet(t.replies) = {i \in ToSet(s.replies) : RequestOf[i] \in keep}
            /\ t.superseded = s.superseded \cup ((Requests(ToSet(s.replies)) \ keep) \ {None})
            /\ t.floor = s.floor /\ t.urgent = s.urgent /\ t.pipe = s.pipe /\ Untouched(s, t)
<1> DEFINE R == Requests(ToSet(s.replies)) \ keep
           S == {i \in Replies : RequestOf[i] \in keep}
           u == Supersede(s, R)
           t == DropReplies(s, keep)
<1>1. R \in SUBSET (AllRequests \cup {None})
  BY RequestsAre
<1>2. /\ Coherent(u, sub) /\ u.superseded = s.superseded \cup (R \ {None})
      /\ u.floor = s.floor /\ u.replies = s.replies /\ u.urgent = s.urgent /\ u.pipe = s.pipe
      /\ Untouched(s, u)
  <2> HIDE DEF R
  <2> QED BY <1>1, SupersedeIs
<1>3. t = [u EXCEPT !.replies = Only(@, S)]
  BY DEF DropReplies
<1> HIDE DEF u, S, t
<1>4. /\ Coherent(t, sub) /\ ToSet(t.replies) = ToSet(u.replies) \cap S
      /\ t.floor = u.floor /\ t.urgent = u.urgent /\ t.pipe = u.pipe
      /\ t.superseded = u.superseded /\ Untouched(u, t)
  <2> DEFINE v == [u EXCEPT !.replies = Only(@, S)]
  <2>1. /\ Coherent(v, sub) /\ ToSet(v.replies) = ToSet(u.replies) \cap S
        /\ v.floor = u.floor /\ v.urgent = u.urgent /\ v.pipe = u.pipe
        /\ v.superseded = u.superseded /\ Untouched(u, v)
    BY <1>2, FewerReplies, Zenon
  <2> HIDE DEF v
  <2>2. t = v
    BY <1>3 DEF v
  <2> QED BY <2>1, <2>2
<1>5. ToSet(s.replies) \subseteq Replies
  BY ElementOfSeq, LenProperties DEF Coherent, Entries, ToSet
<1>6. ToSet(t.replies) = {i \in ToSet(s.replies) : RequestOf[i] \in keep}
  BY <1>2, <1>4, <1>5 DEF S
<1>7. Untouched(s, t)
  BY <1>2, <1>4 DEF Untouched
<1> QED BY <1>2, <1>4, <1>6, <1>7 DEF t

LEMMA InterruptAudioIs ==
  ASSUME NEW s, NEW sub, Coherent(s, sub), Unheard(s) = {}
  PROVE  LET t == InterruptAudio(s)
         IN /\ Coherent(t, sub) /\ t.floor = Free /\ t.pipe = Append(s.pipe, Frame("cut", {}))
            /\ t.replies = s.replies /\ t.superseded = s.superseded /\ t.urgent = s.urgent
            /\ Untouched(s, t)
<1> DEFINE u == Release(s)
           t == InterruptAudio(s)
<1>1. Coherent(u, sub)
  BY ReleaseCoherent
<1>2. /\ u \in Entries /\ u.floor = Free /\ u.pipe = s.pipe /\ u.replies = s.replies
      /\ u.superseded = s.superseded /\ u.urgent = s.urgent /\ Untouched(s, u)
  BY <1>1 DEF Coherent, Release, Entries, Untouched
<1>3. t = [u EXCEPT !.pipe = Append(@, Frame("cut", {}))]
  BY DEF InterruptAudio
<1> HIDE DEF u
<1>4. Append(u.pipe, Frame("cut", {})) \in Seq(DownFrames)
  <2>1. Frame("cut", {}) \in DownFrames /\ u.pipe \in Seq(DownFrames)
    BY <1>2 DEF Frame, DownFrames, FramesOf, Entries
  <2> QED BY <2>1, AppendProperties
<1>5. /\ t \in Entries /\ t.floor = Free /\ t.pipe = Append(s.pipe, Frame("cut", {}))
      /\ t.replies = s.replies /\ t.superseded = s.superseded /\ t.urgent = s.urgent
      /\ Untouched(s, t)
  BY <1>2, <1>3, <1>4 DEF Entries, Untouched
<1> HIDE DEF t
<1>6. Unheard(t) = {} /\ Preparing(t) = {} /\ Unheard(u) = {} /\ Preparing(u) = {}
  BY <1>2, <1>5, FreeFloor, FreeIs
<1>7. Waiting(t) = Waiting(u)
  BY <1>2, <1>5, <1>6 DEF Waiting, Untouched
<1>8. Queued(t) /\ Accounted(t, sub) /\ Alone(t.floor)
  BY <1>1, <1>2, <1>5, <1>6, <1>7 DEF Coherent, Queued, Accounted, Untouched
<1>9. Coherent(t, sub)
  BY <1>5, <1>8 DEF Coherent
<1> QED BY <1>5, <1>9 DEF t

LEMMA StartIs ==
  ASSUME NEW s \in Entries, NEW items \in SUBSET Items
  PROVE  LET t == Start(s, items)
         IN /\ t \in Entries /\ t.floor.items = items /\ t.floor.phase = "preparing"
            /\ t.replies = s.replies /\ t.urgent = s.urgent /\ t.superseded = s.superseded
            /\ t.pipe = s.pipe /\ Untouched(s, t)
<1> DEFINE f == [Free EXCEPT !.items = items, !.phase = "preparing"]
<1>1. f \in Floors /\ f.items = items /\ f.phase = "preparing"
  BY FreeIs DEF Free, Floors, Phases
<1>2. Start(s, items) = [s EXCEPT !.floor = f, !.seen = TRUE]
  BY DEF Start
<1> HIDE DEF f
<1> QED BY <1>1, <1>2 DEF Entries, Untouched

\* An item that starts to prepare was waiting or queued.
LEMMA StartNextKeeps ==
  ASSUME NEW s, NEW sub, Coherent(s, sub)
  PROVE  LET t == StartNext(s)
         IN /\ Coherent(t, sub)
            /\ Courteous(s) => Courteous(t)
            /\ Silent(s) => Silent(t)
            /\ s.floor # Free => t = s
            /\ s.floor = Free => t.floor.phase \in {"free", "preparing"}
            /\ t.superseded = s.superseded /\ t.pipe = s.pipe /\ Untouched(s, t)
<1> DEFINE t == StartNext(s)
<1>a. /\ s \in Entries /\ Alone(s.floor) /\ s.replies \in Seq(Replies)
      /\ s.urgent \in Seq(Urgents) /\ s.pending \in Seq(Updates)
  BY DEF Coherent, Entries
<1>1. CASE s.floor # Free
  <2>1. t = s
    BY <1>1 DEF StartNext
  <2> QED BY <1>1, <2>1 DEF Untouched
<1>f. ASSUME s.floor = Free
      PROVE  /\ s.floor.phase = "free" /\ Unheard(s) = {} /\ Preparing(s) = {}
             /\ Waiting(s) = ToSet(s.urgent) \cup ToSet(s.pending)
  BY <1>f, FreeIs, FreeFloor DEF Waiting
<1>2. CASE s.floor = Free /\ s.urgent # <<>>
  <2> DEFINE i == Head(s.urgent)
             v == [s EXCEPT !.urgent = Tail(@)]
  <2>1. /\ Tail(s.urgent) \in Seq(Urgents) /\ i \in Urgents
        /\ ToSet(s.urgent) = ToSet(Tail(s.urgent)) \cup {i}
        /\ Rising(Tail(s.urgent)) /\ \A y \in ToSet(Tail(s.urgent)) : i < y
    <3>1. Rising(s.urgent)
      BY DEF Coherent, Queued
    <3> QED BY <1>2, <1>a, <3>1, TailQueue
  <2>2. t = Start(v, {i})
    BY <1>2 DEF StartNext
  <2> HIDE DEF t, i
  <2>3. /\ v \in Entries /\ v.urgent = Tail(s.urgent) /\ v.replies = s.replies
        /\ v.superseded = s.superseded /\ v.pipe = s.pipe /\ Untouched(s, v)
    BY <1>a, <2>1 DEF Entries, Untouched
  <2> HIDE DEF v
  <2>4. /\ t \in Entries /\ t.floor.items = {i} /\ t.floor.phase = "preparing"
        /\ t.replies = s.replies /\ t.urgent = Tail(s.urgent) /\ t.superseded = s.superseded
        /\ t.pipe = s.pipe /\ Untouched(s, t)
    <3>1. {i} \in SUBSET Items
      BY <2>1, ItemKinds
    <3> QED BY <2>2, <2>3, <3>1, StartIs DEF Untouched
  <2>5. /\ Unheard(t) = {i} /\ Preparing(t) = {i} /\ Alone(t.floor)
    BY <2>1, <2>4 DEF Unheard, Preparing, Alone
  <2>6. Waiting(t) = Waiting(s)
    BY <1>2, <1>f, <2>1, <2>4, <2>5 DEF Waiting, Untouched
  <2>7. Queued(t)
    BY <2>1, <2>4, <2>5 DEF Coherent, Queued, Untouched
  <2>8. i \in Waiting(s) /\ i \notin Replies /\ i \notin Updates
    BY <1>2, <1>f, <2>1, ItemKinds
  <2>9. ToSet(s.replies) \subseteq Replies
    BY <1>a, ElementOfSeq, LenProperties DEF ToSet
  <2>10. Accounted(t, sub)
    BY <2>1, <2>4, <2>5, <2>6, <2>8, <2>9 DEF Coherent, Accounted, Untouched
  <2>11. Courteous(t) /\ (Silent(s) => Silent(t))
    BY <2>4, <2>5, <2>8 DEF Courteous, Silent, Requests
  <2> QED BY <1>2, <2>4, <2>5, <2>7, <2>10, <2>11 DEF Coherent, t
<1>3. CASE s.floor = Free /\ s.urgent = <<>> /\ s.replies # <<>>
  <2> DEFINE i == Head(s.replies)
             v == [s EXCEPT !.replies = Tail(@)]
  <2>1. /\ Tail(s.replies) \in Seq(Replies) /\ i \in Replies
        /\ ToSet(s.replies) = ToSet(Tail(s.replies)) \cup {i}
        /\ Distinct(Tail(s.replies)) /\ i \notin ToSet(Tail(s.replies))
    <3>1. Distinct(s.replies)
      BY DEF Coherent, Queued
    <3> QED BY <1>3, <1>a, <3>1, TailQueue
  <2>2. t = Start(v, {i})
    BY <1>3 DEF StartNext
  <2> HIDE DEF t, i
  <2>3. /\ v \in Entries /\ v.replies = Tail(s.replies) /\ v.urgent = s.urgent
        /\ v.superseded = s.superseded /\ v.pipe = s.pipe /\ Untouched(s, v)
    BY <1>a, <2>1 DEF Entries, Untouched
  <2> HIDE DEF v
  <2>4. /\ t \in Entries /\ t.floor.items = {i} /\ t.floor.phase = "preparing"
        /\ t.urgent = s.urgent /\ t.replies = Tail(s.replies) /\ t.superseded = s.superseded
        /\ t.pipe = s.pipe /\ Untouched(s, t)
    <3>1. {i} \in SUBSET Items
      BY <2>1, ItemKinds
    <3> QED BY <2>2, <2>3, <3>1, StartIs DEF Untouched
  <2>5. /\ Unheard(t) = {} /\ Preparing(t) = {i} /\ Alone(t.floor) /\ i \notin Updates
    BY <2>1, <2>4, ItemKinds DEF Unheard, Preparing, Alone
  <2>6. Waiting(t) = Waiting(s)
    BY <1>3, <1>f, <2>4, <2>5 DEF Waiting, Untouched
  <2>7. Queued(t)
    BY <2>1, <2>4, <2>5 DEF Coherent, Queued, Untouched
  <2>10. Accounted(t, sub)
    BY <2>1, <2>4, <2>5, <2>6 DEF Coherent, Accounted, Untouched
  <2>11. Courteous(t) /\ (Silent(s) => Silent(t))
    BY <2>1, <2>4, <2>5 DEF Courteous, Silent, Requests
  <2> QED BY <1>3, <2>4, <2>5, <2>7, <2>10, <2>11 DEF Coherent, t
<1>4. CASE s.floor = Free /\ s.urgent = <<>> /\ s.replies = <<>> /\ s.pending # <<>> /\ Quiet(s)
  <2> DEFINE I == ToSet(s.pending)
  <2>1. I # {} /\ I \subseteq Updates
    <3>1. Head(s.pending) \in I
      BY <1>4, <1>a, TailQueue
    <3> QED BY <1>a, <3>1, ElementOfSeq, LenProperties DEF ToSet
  <2>2. t = Start(s, I)
    BY <1>4 DEF StartNext
  <2>3. I \in SUBSET Items
    BY <2>1, ItemKinds
  <2> HIDE DEF t, I
  <2>4. /\ t \in Entries /\ t.floor.items = I /\ t.floor.phase = "preparing"
        /\ t.urgent = s.urgent /\ t.replies = s.replies /\ t.superseded = s.superseded
        /\ t.pipe = s.pipe /\ Untouched(s, t)
    BY <1>a, <2>2, <2>3, StartIs
  <2>5. /\ Unheard(t) = {} /\ Preparing(t) = I /\ Alone(t.floor) /\ I \cap Replies = {}
    BY <2>1, <2>4, ItemKinds DEF Unheard, Preparing, Alone
  <2>6. Waiting(t) = Waiting(s) /\ I \subseteq Waiting(s)
    BY <1>4, <1>f, <2>4, <2>5 DEF Waiting, Untouched, I
  <2>7. Queued(t)
    BY <2>4, <2>5 DEF Coherent, Queued, Untouched
  <2>9. ToSet(s.replies) \subseteq Replies
    BY <1>a, ElementOfSeq, LenProperties DEF ToSet
  <2>10. Accounted(t, sub)
    BY <2>1, <2>4, <2>5, <2>6, <2>9 DEF Coherent, Accounted, Untouched, I
  <2>11. Courteous(t) /\ (Silent(s) => Silent(t))
    BY <1>4, <2>4, <2>5 DEF Courteous, Silent, Requests, Quiet, Untouched
  <2> QED BY <1>4, <2>4, <2>5, <2>7, <2>10, <2>11 DEF Coherent, t
<1>5. CASE /\ s.floor = Free /\ s.urgent = <<>> /\ s.replies = <<>>
           /\ ~(s.pending # <<>> /\ Quiet(s))
  <2>1. t = s
    BY <1>5 DEF StartNext
  <2> QED BY <1>5, <1>f, <2>1 DEF Untouched
<1> QED BY <1>1, <1>2, <1>3, <1>4, <1>5

\* One item answers at most one request.
LEMMA OneRequest ==
  ASSUME NEW f, Alone(f), f.items # {}
  PROVE  Requests(f.items) = {} \/ \E r : Requests(f.items) = {r}
<1>1. CASE f.items \subseteq Updates
  BY <1>1, ItemKinds DEF Requests
<1>2. CASE \E i \in Replies \cup Urgents : f.items = {i}
  BY <1>2, ItemKinds, SMTT(20) DEF Requests
<1> QED BY <1>1, <1>2, FreeIs DEF Alone

\* A cut frees the floor, and a reply whose request is kept remains sayable.
LEMMA CutIs ==
  ASSUME NEW s, NEW sub, Coherent(s, sub), NEW keep, keep \cap s.superseded = {},
         \A r \in keep : Requests(s.floor.items) # {r}
  PROVE  LET t == Cut(s, keep)
         IN /\ Coherent(t, sub) /\ t.floor = Free
            /\ Requests(ToSet(s.replies)) \cap s.superseded = {} => Silent(t)
            /\ keep \cap t.superseded = {} /\ ToSet(t.replies) \subseteq ToSet(s.replies)
            /\ t.pipe = Append(s.pipe, Frame("cut", {})) /\ Untouched(s, t)
<1> DEFINE t == Cut(s, keep)
           u == Stop(s)
           R == Requests(s.floor.items)
           v == Supersede(u, R)
           w == IF R = {} THEN u ELSE DropReplies(v, keep)
<1>1. /\ Coherent(u, sub) /\ u.floor.phase \notin {"preparing", "playing"}
      /\ u.replies = s.replies /\ u.superseded = s.superseded /\ u.pipe = s.pipe
      /\ Untouched(s, u)
  BY StopIs
<1>2. t = InterruptAudio(w)
  BY DEF Cut
<1>3. R \in SUBSET (AllRequests \cup {None}) /\ R \cap keep = {}
  <2>1. R # {} => \E r : R = {r}
    <3>1. CASE s.floor.items = {}
      BY <3>1 DEF Requests
    <3>2. CASE s.floor.items # {}
      BY <3>2, OneRequest DEF Coherent
    <3> QED BY <3>1, <3>2
  <2> QED BY <2>1, RequestsAre
<1> HIDE DEF t, u, R
<1>4. /\ Coherent(v, sub) /\ v.superseded = u.superseded \cup (R \ {None})
      /\ v.floor = u.floor /\ v.replies = u.replies /\ v.pipe = u.pipe /\ Untouched(u, v)
  BY <1>1, <1>3, SupersedeIs
<1> HIDE DEF v
<1>5. /\ Coherent(w, sub) /\ w.floor = u.floor /\ w.pipe = s.pipe /\ Untouched(s, w)
      /\ ToSet(w.replies) \subseteq ToSet(s.replies) /\ keep \cap w.superseded = {}
      /\ Requests(ToSet(s.replies)) \cap s.superseded = {}
           => Requests(ToSet(w.replies)) \cap w.superseded = {}
  <2>1. CASE R = {}
    BY <1>1, <2>1
  <2>2. CASE R # {}
    <3>1. w = DropReplies(v, keep)
      BY <2>2
    <3> HIDE DEF w
    <3>2. /\ Coherent(w, sub)
          /\ ToSet(w.replies) = {i \in ToSet(v.replies) : RequestOf[i] \in keep}
          /\ w.superseded = v.superseded \cup ((Requests(ToSet(v.replies)) \ keep) \ {None})
          /\ w.floor = v.floor /\ w.pipe = v.pipe /\ Untouched(v, w)
      BY <1>4, <3>1, DropRepliesIs
    <3>3. keep \cap w.superseded = {}
      BY <1>1, <1>3, <1>4, <3>2
    <3>4. Requests(ToSet(w.replies)) \subseteq keep
      BY <3>2 DEF Requests
    <3> QED BY <1>1, <1>4, <3>2, <3>3, <3>4 DEF Untouched
  <2> QED BY <2>1, <2>2
<1> HIDE DEF w
<1>6. Unheard(w) = {}
  BY <1>1, <1>5 DEF Unheard
<1>7. /\ Coherent(t, sub) /\ t.floor = Free /\ t.pipe = Append(w.pipe, Frame("cut", {}))
      /\ t.replies = w.replies /\ t.superseded = w.superseded /\ Untouched(w, t)
  BY <1>2, <1>5, <1>6, InterruptAudioIs, Zenon
<1>8. Requests(ToSet(s.replies)) \cap s.superseded = {} => Silent(t)
  BY <1>5, <1>7, FreeIs DEF Silent
<1> QED BY <1>5, <1>7, <1>8 DEF Untouched, t

LEMMA RecheckKeeps ==
  ASSUME NEW s, NEW sub, Coherent(s, sub)
  PROVE  LET t == Recheck(s)
         IN /\ Coherent(t, sub) /\ Courteous(t) /\ (Silent(s) => Silent(t))
            /\ t.superseded = s.superseded /\ t.pipe = s.pipe /\ Untouched(s, t)
            /\ \/ t = s
               \/ s.floor.phase = "preparing" /\ t.floor.phase \in {"free", "preparing"}
<1> DEFINE t == Recheck(s)
           u == Stop(s)
<1>1. CASE s.floor.phase = "preparing" /\ ~MaySpeak(s)
  <2>1. t = StartNext(u)
    BY <1>1 DEF Recheck
  <2>2. /\ Coherent(u, sub) /\ u.floor = Free /\ u.replies = s.replies
        /\ u.superseded = s.superseded /\ u.pipe = s.pipe /\ Untouched(s, u)
    BY <1>1, StopIs
  <2> HIDE DEF t, u
  <2>3. Courteous(u) /\ (Silent(s) => Silent(u))
    BY <2>2, FreeIs, FreeFloor DEF Silent
  <2>4. /\ Coherent(t, sub) /\ (Courteous(u) => Courteous(t)) /\ (Silent(u) => Silent(t))
        /\ u.floor = Free => t.floor.phase \in {"free", "preparing"}
        /\ t.superseded = u.superseded /\ t.pipe = u.pipe /\ Untouched(u, t)
    BY <2>1, <2>2, StartNextKeeps, Zenon
  <2> QED BY <1>1, <2>2, <2>3, <2>4 DEF Untouched, t
<1>2. CASE ~(s.floor.phase = "preparing" /\ ~MaySpeak(s))
  <2>1. t = s
    BY <1>2 DEF Recheck
  <2>2. Courteous(s)
    <3>1. CASE s.floor.phase = "preparing"
      BY <1>2, <3>1 DEF Courteous, Preparing, MaySpeak
    <3>2. CASE s.floor.phase # "preparing"
      BY <3>2 DEF Courteous, Preparing
    <3> QED BY <3>1, <3>2
  <2> QED BY <2>1, <2>2 DEF Untouched
<1> QED BY <1>1, <1>2

\* A barge-in leaves no reply queued, none about to be spoken and none spoken on.
LEMMA BargeInIs ==
  ASSUME NEW s, NEW sub, Coherent(s, sub)
  PROVE  /\ LET t == CancelOutput(s)
            IN /\ Coherent(t, sub) /\ ToSet(t.replies) = {} /\ t.pipe = s.pipe
               /\ t.floor.phase \notin {"preparing", "playing"} /\ Untouched(s, t)
               /\ t.floor.phase = "ended" <=> s.floor.phase = "ended"
               /\ t.floor.phase # "free" => s.floor.phase \in {"playing", "stopping", "ended"}
               /\ s.floor.phase = "preparing" => t.floor = Free
               /\ s.floor.phase # "preparing" => t.floor.items = s.floor.items
         /\ LET t == BargeIn(s)
            IN /\ Coherent(t, sub) /\ ToSet(t.replies) = {} /\ t.pipe = s.pipe
               /\ t.floor.phase \notin {"preparing", "playing"} /\ Silent(t) /\ Courteous(t)
               /\ t.speaking = s.speaking /\ t.userSpeaking = s.userSpeaking
               /\ t.floor.phase = "ended" <=> s.floor.phase = "ended"
               /\ t.floor.phase # "free" => s.floor.phase \in {"playing", "stopping", "ended"}
               /\ s.floor.phase = "preparing" => t.floor = Free
               /\ s.floor.phase # "preparing" => t.floor.items = s.floor.items
               /\ t.played = s.played /\ t.lost = s.lost /\ t.departed = s.departed
<1> DEFINE R == Requests(s.floor.items)
           u == Supersede(s, R)
           v == DropReplies(u, {})
           c == CancelOutput(s)
           w == Supersede(c, {s.active})
           t == BargeIn(s)
<1>1. /\ Coherent(u, sub) /\ u.floor = s.floor /\ u.pipe = s.pipe /\ Untouched(s, u)
  <2>1. R \in SUBSET (AllRequests \cup {None})
    BY RequestsAre
  <2> HIDE DEF R
  <2> QED BY <2>1, SupersedeIs
<1> HIDE DEF u
<1>2. /\ Coherent(v, sub) /\ ToSet(v.replies) = {} /\ v.floor = u.floor /\ v.pipe = u.pipe
      /\ Untouched(u, v)
  <2> DEFINE K == {}
  <2>1. /\ Coherent(v, sub) /\ ToSet(v.replies) = {i \in ToSet(u.replies) : RequestOf[i] \in K}
        /\ v.floor = u.floor /\ v.pipe = u.pipe /\ Untouched(u, v)
    BY <1>1, DropRepliesIs
  <2> QED BY <2>1
<1>3. c = Stop(v)
  BY DEF CancelOutput, v, u
<1> HIDE DEF v, c
<1>4. /\ Coherent(c, sub) /\ ToSet(c.replies) = {} /\ c.pipe = s.pipe
      /\ c.floor.phase \notin {"preparing", "playing"} /\ Untouched(s, c)
      /\ c.floor.phase = "ended" <=> s.floor.phase = "ended"
      /\ c.floor.phase # "free" => s.floor.phase \in {"playing", "stopping", "ended"}
      /\ s.floor.phase = "preparing" => c.floor = Free
      /\ s.floor.phase # "preparing" => c.floor.items = s.floor.items
  BY <1>1, <1>2, <1>3, StopIs DEF Untouched
<1>5. /\ Coherent(w, sub) /\ w.floor = c.floor /\ w.replies = c.replies /\ w.pipe = c.pipe
      /\ Untouched(c, w)
  <2>1. {s.active} \in SUBSET (AllRequests \cup {None})
    BY DEF Coherent, Entries
  <2> QED BY <1>4, <2>1, SupersedeIs
<1>6. t = [w EXCEPT !.active = None]
  BY DEF BargeIn, c
<1> HIDE DEF w
<1>7. /\ t \in Entries /\ t.floor = w.floor /\ t.replies = w.replies /\ t.pipe = w.pipe
      /\ t.urgent = w.urgent /\ t.pending = w.pending
      /\ t.played = w.played /\ t.lost = w.lost /\ t.departed = w.departed
      /\ t.speaking = w.speaking /\ t.userSpeaking = w.userSpeaking
  BY <1>5, <1>6 DEF Coherent, Entries
<1> HIDE DEF t
<1>8. Unheard(t) = Unheard(w) /\ Preparing(t) = Preparing(w) /\ Waiting(t) = Waiting(w)
  BY <1>7 DEF Unheard, Preparing, Waiting
<1>9. Queued(t) /\ Accounted(t, sub) /\ Alone(t.floor)
  BY <1>5, <1>7, <1>8 DEF Coherent, Queued, Accounted
<1>10. Coherent(t, sub)
  BY <1>7, <1>9 DEF Coherent
<1>11. Silent(t) /\ Courteous(t)
  BY <1>4, <1>5, <1>7 DEF Silent, Courteous, Preparing, Requests
<1> QED BY <1>4, <1>5, <1>7, <1>10, <1>11 DEF c, t, Untouched

-----------------------------------------------------------------------------
(* The handlers of what comes in. *)

\* What a handler may do to the pipeline and to the floor, apart from a barge-in: it
\* lets the floor be, or moves between outputs that have not started, or pushes a
\* marker and leaves the floor to such an output.
Handled(s, t) ==
  /\ t.played = s.played
  /\ \/ /\ t.pipe = s.pipe
        /\ \/ t.floor = s.floor
           \/ {s.floor.phase, t.floor.phase} \subseteq {"free", "preparing"}
     \/ /\ \E kind \in {"cut", "left"} : t.pipe = Append(s.pipe, Frame(kind, {}))
        /\ t.floor.phase \in {"free", "preparing"}

LEMMA StartNextGood ==
  ASSUME NEW s, NEW sub, Good(s, sub)
  PROVE  /\ Good(StartNext(s), sub) /\ Handled(s, StartNext(s))
         /\ s.floor = Free => StartNext(s).floor.phase \in {"free", "preparing"}
         /\ StartNext(s).pipe = s.pipe /\ StartNext(s).played = s.played
<1> DEFINE t == StartNext(s)
<1>1. /\ Coherent(t, sub)
      /\ Courteous(s) => Courteous(t)
      /\ Silent(s) => Silent(t)
      /\ s.floor # Free => t = s
      /\ s.floor = Free => t.floor.phase \in {"free", "preparing"}
      /\ t.pipe = s.pipe /\ Untouched(s, t)
  BY StartNextKeeps, Zenon DEF Good
<1> HIDE DEF t
<1>2. Handled(s, t) /\ t.played = s.played
  BY <1>1, FreeIs DEF Handled, Untouched
<1> QED BY <1>1, <1>2 DEF Good, t

\* Replies are not among the items that are accounted for by where they wait.
LEMMA MoreReplies ==
  ASSUME NEW s, NEW sub, Coherent(s, sub), NEW i \in Replies
  PROVE  Coherent(s, sub \cup {i})
<1>1. (sub \cup {i}) \cap (Urgents \cup Updates) = sub \cap (Urgents \cup Updates)
  BY ItemKinds
<1>2. Accounted(s, sub \cup {i})
  BY <1>1 DEF Coherent, Accounted
<1> QED BY <1>2 DEF Coherent

LEMMA QueueReply ==
  ASSUME NEW s, NEW sub, Coherent(s, sub), Courteous(s), Silent(s),
         NEW i \in Replies \ sub, RequestOf[i] \notin s.superseded
  PROVE  LET t == [s EXCEPT !.active = RequestOf[i], !.replies = Append(@, i)]
         IN /\ Good(t, sub \cup {i}) /\ t.floor = s.floor /\ t.pipe = s.pipe /\ t.played = s.played
<1> DEFINE t == [s EXCEPT !.active = RequestOf[i], !.replies = Append(@, i)]
<1>1. s \in Entries /\ s.replies \in Seq(Replies) /\ ToSet(s.replies) \subseteq sub
  BY DEF Coherent, Entries, Accounted
<1>2. /\ Append(s.replies, i) \in Seq(Replies)
      /\ ToSet(Append(s.replies, i)) = ToSet(s.replies) \cup {i}
      /\ Distinct(Append(s.replies, i))
  <2>1. Distinct(s.replies) /\ i \notin ToSet(s.replies)
    BY <1>1 DEF Coherent, Queued
  <2> QED BY <1>1, <2>1, AppendQueue
<1>3. /\ t \in Entries /\ t.floor = s.floor /\ t.urgent = s.urgent /\ t.pipe = s.pipe
      /\ t.replies = Append(s.replies, i)
      /\ t.superseded = s.superseded /\ t.pending = s.pending
      /\ t.speaking = s.speaking /\ t.userSpeaking = s.userSpeaking
      /\ t.played = s.played /\ t.lost = s.lost
  <2>1. RequestOf[i] \in AllRequests
    BY DEF AllRequests
  <2> QED BY <1>1, <1>2, <2>1 DEF Entries
<1> HIDE DEF t
<1>4. Unheard(t) = Unheard(s) /\ Preparing(t) = Preparing(s) /\ Waiting(t) = Waiting(s)
  BY <1>3 DEF Unheard, Preparing, Waiting
<1>5. Queued(t) /\ Alone(t.floor)
  BY <1>2, <1>3, <1>4 DEF Coherent, Queued
<1>6. i \notin Preparing(s) /\ i \notin s.played
  BY DEF Coherent, Accounted, Preparing
<1>7. Accounted(t, sub \cup {i})
  <2>1. Accounted(s, sub \cup {i})
    BY MoreReplies DEF Coherent
  <2> QED BY <1>2, <1>3, <1>4, <1>6, <2>1 DEF Accounted
<1>8. Courteous(t)
  BY <1>3, <1>4 DEF Courteous, Quiet
<1>9. Silent(t)
  BY <1>2, <1>3 DEF Silent, Requests
<1> QED BY <1>3, <1>5, <1>7, <1>8, <1>9 DEF Coherent, Good, t

LEMMA SpawnReplyGood ==
  ASSUME NEW s, NEW sub, Good(s, sub), NEW i \in Replies \ sub, RequestOf[i] \notin s.superseded
  PROVE  Good(SpawnReply(s, i), sub \cup {i}) /\ Handled(s, SpawnReply(s, i))
<1> DEFINE r == RequestOf[i]
           K == {r}
           d == DropReplies(s, K)
           R == {s.active} \ K
           o == Supersede(d, R)
           owner == s.floor.items
           c == CASE Requests(owner) \ K # {} -> Cut(o, K)
                  [] owner \cap Updates # {} /\ s.floor.phase = "preparing" -> Stop(o)
                  [] OTHER -> o
           q == [c EXCEPT !.active = r, !.replies = Append(@, i)]
           t == SpawnReply(s, i)
<1>1. t = StartNext(q)
  BY DEF SpawnReply
<1>2. /\ Coherent(d, sub) /\ ToSet(d.replies) = {j \in ToSet(s.replies) : RequestOf[j] \in K}
      /\ d.superseded = s.superseded \cup ((Requests(ToSet(s.replies)) \ K) \ {None})
      /\ d.floor = s.floor /\ d.pipe = s.pipe /\ Untouched(s, d)
  BY DropRepliesIs DEF Good
<1>3. R \in SUBSET (AllRequests \cup {None})
  BY DEF Good, Coherent, Entries
<1> HIDE DEF t, d, R
<1>4. /\ Coherent(o, sub) /\ o.superseded = d.superseded \cup (R \ {None})
      /\ o.floor = d.floor /\ o.replies = d.replies /\ o.pipe = d.pipe /\ Untouched(d, o)
  BY <1>2, <1>3, SupersedeIs
<1> HIDE DEF o
<1>5. /\ K \cap o.superseded = {} /\ Requests(ToSet(o.replies)) \subseteq K
      /\ Requests(ToSet(o.replies)) \cap o.superseded = {}
  <2>1. K \cap o.superseded = {}
    BY <1>2, <1>4 DEF R
  <2>2. Requests(ToSet(o.replies)) \subseteq K
    BY <1>2, <1>4 DEF Requests
  <2> QED BY <2>1, <2>2
<1>6. /\ Coherent(c, sub) /\ Courteous(c) /\ Silent(c) /\ r \notin c.superseded
      /\ c.played = s.played
      /\ \/ c.pipe = s.pipe /\ c.floor = s.floor
         \/ c.pipe = s.pipe /\ c.floor = Free /\ s.floor.phase = "preparing"
         \/ c.pipe = Append(s.pipe, Frame("cut", {})) /\ c.floor = Free
  <2>1. CASE Requests(owner) \ K # {}
    <3>0. owner \cap Updates = {}
      <4> HIDE DEF K
      <4>1. owner \cap Updates # {} => owner \cap Replies = {}
        BY ItemKinds, FreeIs DEF Good, Coherent, Alone
      <4>2. owner \cap Replies # {}
        BY <2>1 DEF Requests
      <4> QED BY <4>1, <4>2
    <3>1. c = Cut(o, K)
      BY <2>1, <3>0
    <3>2. \A j \in K : Requests(o.floor.items) # {j}
      BY <1>2, <1>4, <2>1
    <3> HIDE DEF c, K
    <3>3. /\ Coherent(c, sub) /\ c.floor = Free
          /\ Requests(ToSet(o.replies)) \cap o.superseded = {} => Silent(c)
          /\ K \cap c.superseded = {} /\ c.pipe = Append(o.pipe, Frame("cut", {})) /\ Untouched(o, c)
      BY <1>4, <1>5, <3>1, <3>2, CutIs, Zenon
    <3>4. Courteous(c)
      BY <3>3, FreeIs, FreeFloor
    <3>5. r \notin c.superseded
      BY <3>3 DEF K
    <3> QED BY <1>2, <1>4, <1>5, <3>3, <3>4, <3>5 DEF Untouched
  <2>2. CASE Requests(owner) \ K = {} /\ owner \cap Updates # {} /\ s.floor.phase = "preparing"
    <3>1. c = Stop(o)
      BY <2>2
    <3> HIDE DEF c, K
    <3>2. /\ Coherent(c, sub) /\ c.floor = Free /\ c.replies = o.replies
          /\ c.superseded = o.superseded /\ c.pipe = o.pipe /\ Untouched(o, c)
      BY <1>2, <1>4, <2>2, <3>1, StopIs
    <3>3. Courteous(c) /\ Silent(c)
      BY <1>5, <3>2, FreeIs, FreeFloor DEF Silent
    <3>4. r \notin c.superseded
      BY <1>5, <3>2 DEF K
    <3> QED BY <1>2, <1>4, <2>2, <3>2, <3>3, <3>4 DEF Untouched
  <2>3. CASE /\ Requests(owner) \ K = {}
             /\ ~(owner \cap Updates # {} /\ s.floor.phase = "preparing")
    <3>1. c = o
      BY <2>3
    <3> HIDE DEF c, K
    <3>2. Courteous(c)
      BY <1>2, <1>4, <2>3, <3>1 DEF Courteous, Preparing
    <3>3. Silent(c)
      BY <1>2, <1>4, <1>5, <2>3, <3>1 DEF Silent
    <3>4. r \notin c.superseded
      BY <1>5, <3>1 DEF K
    <3> QED BY <1>2, <1>4, <3>1, <3>2, <3>3, <3>4 DEF Untouched
  <2> QED BY <2>1, <2>2, <2>3, Zenon
<1> HIDE DEF c
<1>7. Good(q, sub \cup {i}) /\ q.floor = c.floor /\ q.pipe = c.pipe /\ q.played = c.played
  BY <1>6, QueueReply
<1> HIDE DEF q
<1>8. Good(t, sub \cup {i}) /\ Handled(q, t) /\ t.pipe = q.pipe /\ t.played = q.played
      /\ (q.floor = Free => t.floor.phase \in {"free", "preparing"})
  BY <1>1, <1>7, StartNextGood
<1>9. Handled(s, t)
  <2>1. CASE c.pipe = s.pipe /\ c.floor = s.floor
    BY <1>6, <1>7, <1>8, <2>1 DEF Handled
  <2>2. CASE c.pipe = s.pipe /\ c.floor = Free /\ s.floor.phase = "preparing"
    BY <1>6, <1>7, <1>8, <2>2 DEF Handled
  <2>3. CASE c.pipe = Append(s.pipe, Frame("cut", {})) /\ c.floor = Free
    BY <1>6, <1>7, <1>8, <2>3 DEF Handled
  <2> QED BY <1>6, <2>1, <2>2, <2>3
<1> QED BY <1>8, <1>9 DEF t

\* A new urgent update goes behind the others.
LEMMA QueueUrgent ==
  ASSUME NEW s, NEW sub, Good(s, sub), NEW i \in Urgents \ sub, \A j \in sub \cap Urgents : j < i
  PROVE  LET t == [s EXCEPT !.urgent = Append(@, i)]
         IN /\ Good(t, sub \cup {i}) /\ t.floor = s.floor /\ t.pipe = s.pipe /\ t.played = s.played
            /\ t.superseded = s.superseded
<1> DEFINE t == [s EXCEPT !.urgent = Append(@, i)]
<1>1. s \in Entries /\ s.urgent \in Seq(Urgents) /\ ToSet(s.urgent) \subseteq sub \cap Urgents
  <2>1. s \in Entries /\ s.urgent \in Seq(Urgents)
    BY DEF Good, Coherent, Entries
  <2>2. ToSet(s.urgent) \subseteq Urgents
    BY <2>1, ElementOfSeq, LenProperties DEF ToSet
  <2>3. ToSet(s.urgent) \subseteq sub
    BY <2>2 DEF Good, Coherent, Accounted, Waiting
  <2> QED BY <2>1, <2>2, <2>3
<1>2. /\ Append(s.urgent, i) \in Seq(Urgents)
      /\ ToSet(Append(s.urgent, i)) = ToSet(s.urgent) \cup {i}
      /\ Rising(Append(s.urgent, i))
  <2>1. Rising(s.urgent) /\ \A y \in ToSet(s.urgent) : y < i
    BY <1>1 DEF Good, Coherent, Queued
  <2> QED BY <1>1, <2>1, AppendQueue
<1>3. /\ t \in Entries /\ t.floor = s.floor /\ t.replies = s.replies /\ t.pipe = s.pipe
      /\ t.urgent = Append(s.urgent, i)
      /\ t.superseded = s.superseded /\ t.pending = s.pending
      /\ t.speaking = s.speaking /\ t.userSpeaking = s.userSpeaking
      /\ t.played = s.played /\ t.lost = s.lost
  BY <1>1, <1>2 DEF Entries
<1> HIDE DEF t
<1>4. Unheard(t) = Unheard(s) /\ Preparing(t) = Preparing(s) /\ Waiting(t) = Waiting(s) \cup {i}
  BY <1>2, <1>3 DEF Unheard, Preparing, Waiting
<1>5. Unheard(s) \subseteq sub \cap Urgents
  BY DEF Good, Coherent, Accounted, Unheard
<1>6. Queued(t) /\ Alone(t.floor)
  BY <1>2, <1>3, <1>4, <1>5 DEF Good, Coherent, Queued
<1>7. i \notin Preparing(s) /\ i \notin s.played /\ i \notin s.lost /\ i \notin Replies
  BY ItemKinds DEF Good, Coherent, Accounted, Preparing
<1>8. ToSet(s.replies) \subseteq Replies
  BY <1>1, ElementOfSeq, LenProperties DEF ToSet, Entries
<1>9. Accounted(t, sub \cup {i})
  BY <1>2, <1>3, <1>4, <1>7, <1>8 DEF Good, Coherent, Accounted
<1>10. Courteous(t) /\ Silent(t)
  BY <1>3, <1>4 DEF Good, Courteous, Quiet, Silent
<1> QED BY <1>3, <1>6, <1>9, <1>10 DEF Coherent, Good, t

\* An interruption of the audio of an output that has been heard, or of none.
LEMMA InterruptAudioGood ==
  ASSUME NEW s, NEW sub, Good(s, sub), Unheard(s) = {}
  PROVE  /\ Good(InterruptAudio(s), sub) /\ InterruptAudio(s).floor = Free
         /\ InterruptAudio(s).pipe = Append(s.pipe, Frame("cut", {}))
         /\ InterruptAudio(s).played = s.played
<1> DEFINE t == InterruptAudio(s)
<1>1. /\ Coherent(t, sub) /\ t.floor = Free /\ t.pipe = Append(s.pipe, Frame("cut", {}))
      /\ t.replies = s.replies /\ t.superseded = s.superseded /\ Untouched(s, t)
  BY InterruptAudioIs DEF Good
<1> HIDE DEF t
<1>2. Courteous(t) /\ Silent(t)
  BY <1>1, FreeIs, FreeFloor DEF Good, Silent
<1> QED BY <1>1, <1>2 DEF Good, Untouched, t

LEMMA SpawnUrgentGood ==
  ASSUME NEW s, NEW sub, Good(s, sub), NEW i \in Urgents \ sub, \A j \in sub \cap Urgents : j < i
  PROVE  Good(SpawnUrgent(s, i), sub \cup {i}) /\ Handled(s, SpawnUrgent(s, i))
<1> DEFINE q == [s EXCEPT !.urgent = Append(@, i)]
           c == CASE s.floor = Free -> InterruptAudio(q)
                  [] s.floor.items \cap Urgents # {} -> q
                  [] OTHER -> Cut(q, {})
           t == SpawnUrgent(s, i)
<1>1. t = StartNext(c)
  BY DEF SpawnUrgent
<1>2. Good(q, sub \cup {i}) /\ q.floor = s.floor /\ q.pipe = s.pipe /\ q.played = s.played
  BY QueueUrgent
<1> HIDE DEF t, q
<1>3. /\ Good(c, sub \cup {i}) /\ c.played = s.played
      /\ \/ c.pipe = s.pipe /\ c.floor = s.floor
         \/ c.pipe = Append(s.pipe, Frame("cut", {})) /\ c.floor = Free
  <2>1. CASE s.floor = Free
    <3>1. c = InterruptAudio(q)
      BY <2>1, FreeIs
    <3>2. Unheard(q) = {}
      BY <1>2, <2>1, FreeIs, FreeFloor
    <3> HIDE DEF c
    <3> QED BY <1>2, <3>1, <3>2, InterruptAudioGood
  <2>2. CASE s.floor # Free /\ s.floor.items \cap Urgents # {}
    <3>1. c = q
      BY <2>2
    <3> QED BY <1>2, <3>1
  <2>3. CASE s.floor # Free /\ s.floor.items \cap Urgents = {}
    <3> DEFINE K == {}
    <3>1. c = Cut(q, K)
      BY <2>3
    <3>2. K \cap q.superseded = {} /\ \A r \in K : Requests(q.floor.items) # {r}
      OBVIOUS
    <3> HIDE DEF c, K
    <3>3. /\ Coherent(c, sub \cup {i}) /\ c.floor = Free
          /\ Requests(ToSet(q.replies)) \cap q.superseded = {} => Silent(c)
          /\ c.pipe = Append(q.pipe, Frame("cut", {})) /\ Untouched(q, c)
      <4>1. Coherent(q, sub \cup {i})
        BY <1>2 DEF Good
      <4> QED BY <3>1, <3>2, <4>1, CutIs, Zenon
    <3>4. Courteous(c) /\ Silent(c)
      BY <1>2, <3>3, FreeIs, FreeFloor DEF Good, Silent
    <3> QED BY <1>2, <3>3, <3>4 DEF Good, Untouched
  <2> QED BY <2>1, <2>2, <2>3
<1> HIDE DEF c
<1>4. /\ Good(t, sub \cup {i}) /\ Handled(c, t) /\ t.pipe = c.pipe /\ t.played = c.played
      /\ (c.floor = Free => t.floor.phase \in {"free", "preparing"})
  BY <1>1, <1>3, StartNextGood
<1>5. Handled(s, t)
  <2>1. CASE c.pipe = s.pipe /\ c.floor = s.floor
    BY <1>3, <1>4, <2>1 DEF Handled
  <2>2. CASE c.pipe = Append(s.pipe, Frame("cut", {})) /\ c.floor = Free
    BY <1>3, <1>4, <2>2 DEF Handled
  <2> QED BY <1>3, <2>1, <2>2
<1> QED BY <1>4, <1>5 DEF t

\* A new update goes behind the others, and a full backlog loses its oldest one.
LEMMA AddUpdateGood ==
  ASSUME NEW s, NEW sub, Good(s, sub), NEW i \in Updates \ sub
  PROVE  Good(AddUpdate(s, i), sub \cup {i}) /\ Handled(s, AddUpdate(s, i))
<1> DEFINE full == Len(s.pending) >= UpdateCapacity
           kept == IF full THEN Tail(s.pending) ELSE s.pending
           gone == IF full THEN {Head(s.pending)} ELSE {}
           q == [s EXCEPT !.pending = Append(IF full THEN Tail(@) ELSE @, i),
                          !.lost = IF full THEN @ \cup {Head(s.pending)} ELSE @]
           t == AddUpdate(s, i)
<1>1. t = StartNext(q)
  BY DEF AddUpdate
<1>2. /\ s \in Entries /\ s.pending \in Seq(Updates) /\ Distinct(s.pending)
      /\ Len(s.pending) <= UpdateCapacity /\ i \in Items
  BY ItemKinds DEF Good, Coherent, Entries, Queued
<1>3. /\ kept \in Seq(Updates) /\ ToSet(s.pending) = ToSet(kept) \cup gone
      /\ Distinct(kept) /\ gone \cap ToSet(kept) = {} /\ Len(kept) < UpdateCapacity
      /\ gone \subseteq Updates
  <2>1. CASE full
    <3>1. s.pending # <<>>
      BY <2>1, ItemKinds, EmptyQueue
    <3>2. /\ Tail(s.pending) \in Seq(Updates) /\ Head(s.pending) \in Updates
          /\ Len(Tail(s.pending)) = Len(s.pending) - 1 /\ Len(s.pending) \in Nat
          /\ ToSet(s.pending) = ToSet(Tail(s.pending)) \cup {Head(s.pending)}
          /\ Distinct(Tail(s.pending)) /\ Head(s.pending) \notin ToSet(Tail(s.pending))
      BY <1>2, <3>1, TailQueue
    <3> QED BY <1>2, <2>1, <3>2, ItemKinds
  <2>2. CASE ~full
    BY <1>2, <2>2, LenProperties, ItemKinds
  <2> QED BY <2>1, <2>2
<1>4. /\ q.pending = Append(kept, i) /\ q.lost = s.lost \cup gone
      /\ q.floor = s.floor /\ q.replies = s.replies /\ q.urgent = s.urgent /\ q.pipe = s.pipe
      /\ q.superseded = s.superseded /\ q.played = s.played
      /\ q.speaking = s.speaking /\ q.userSpeaking = s.userSpeaking
  BY <1>2 DEF Entries
<1>5. q = [s EXCEPT !.pending = Append(kept, i), !.lost = s.lost \cup gone]
  BY <1>2 DEF Entries
<1> HIDE DEF t, q, kept, gone, full
<1>6. i \notin ToSet(kept)
  BY <1>3 DEF Good, Coherent, Accounted, Waiting
<1>7. /\ Append(kept, i) \in Seq(Updates) /\ ToSet(Append(kept, i)) = ToSet(kept) \cup {i}
      /\ Distinct(Append(kept, i)) /\ Len(Append(kept, i)) = Len(kept) + 1 /\ Len(kept) \in Nat
  BY <1>3, <1>6, AppendQueue, LenProperties
<1>8. q \in Entries
  <2>1. s.lost \cup gone \in SUBSET Items
    BY <1>2, <1>3, ItemKinds DEF Entries
  <2> QED BY <1>2, <1>5, <1>7, <2>1 DEF Entries
<1>9. Unheard(q) = Unheard(s) /\ Preparing(q) = Preparing(s)
  BY <1>4 DEF Unheard, Preparing
<1>10. Waiting(q) \cup q.lost = Waiting(s) \cup s.lost \cup {i}
  BY <1>3, <1>4, <1>7, <1>9 DEF Waiting
<1>11. gone \subseteq Waiting(s) /\ Waiting(q) = (Waiting(s) \ gone) \cup {i}
  <2>1. gone \cap (ToSet(s.urgent) \cup Unheard(s)) = {}
    <3>1. ToSet(s.urgent) \subseteq Urgents /\ Unheard(s) \subseteq Urgents
      BY <1>2, ElementOfSeq, LenProperties DEF ToSet, Unheard, Entries
    <3> QED BY <1>3, <3>1, ItemKinds
  <2> QED BY <1>3, <1>4, <1>7, <1>9, <2>1 DEF Waiting
<1>12. Queued(q) /\ Alone(q.floor)
  BY <1>3, <1>4, <1>7, <1>9, ItemKinds DEF Good, Coherent, Queued
<1>13. /\ i \notin Preparing(s) /\ i \notin s.played /\ i \notin s.lost /\ i \notin Replies
       /\ i \notin Waiting(s)
  BY ItemKinds DEF Good, Coherent, Accounted, Preparing
<1>14. ToSet(s.replies) \subseteq Replies
  BY <1>2, ElementOfSeq, LenProperties DEF ToSet, Entries
<1>15. Accounted(q, sub \cup {i})
  <2>1. Accounted(s, sub)
    BY DEF Good, Coherent
  <2>2. (sub \cup {i}) \cap (Urgents \cup Updates) = (q.played \ Replies) \cup q.lost \cup Waiting(q)
    BY <1>4, <1>10, <2>1 DEF Accounted
  <2>3. q.lost \cap (q.played \cup Waiting(q)) = {}
    BY <1>4, <1>11, <1>13, <2>1 DEF Accounted
  <2>4. q.played \cap (Waiting(q) \cup ToSet(q.replies) \cup Preparing(q)) = {}
    BY <1>4, <1>9, <1>11, <1>13, <2>1 DEF Accounted
  <2>5. Preparing(q) \cap Updates \subseteq ToSet(q.pending) \cup q.lost
    BY <1>3, <1>4, <1>7, <1>9, <2>1 DEF Accounted
  <2> QED BY <1>4, <1>9, <2>1, <2>2, <2>3, <2>4, <2>5 DEF Accounted
<1>16. Courteous(q) /\ Silent(q)
  BY <1>4, <1>9 DEF Good, Courteous, Quiet, Silent
<1>17. Good(q, sub \cup {i})
  BY <1>8, <1>12, <1>15, <1>16 DEF Good, Coherent
<1>18. Good(t, sub \cup {i}) /\ Handled(q, t)
  BY <1>1, <1>17, StartNextGood
<1> QED BY <1>4, <1>18 DEF Handled, t

\* Queues that lose items, which are lost with the urgent update on the floor if it
\* is one of them.
LEMMA WithdrawnCoherent ==
  ASSUME NEW s, NEW sub, Good(s, sub), NEW S,
         NEW t \in Entries,
         t.pending = Only(s.pending, S), t.urgent = Only(s.urgent, S),
         t.lost = s.lost \cup (Waiting(s) \ S),
         t.replies = s.replies, t.superseded = s.superseded, t.played = s.played,
         \/ t.floor = s.floor /\ Unheard(s) \subseteq S
         \/ t.floor = Free /\ Unheard(s) \cap S = {}
  PROVE  Coherent(t, sub) /\ Silent(t)
<1>1. s \in Entries /\ s.pending \in Seq(Updates) /\ s.urgent \in Seq(Urgents)
  BY DEF Good, Coherent, Entries
<1>2. /\ ToSet(t.pending) = ToSet(s.pending) \cap S /\ Len(t.pending) <= Len(s.pending)
      /\ ToSet(t.urgent) = ToSet(s.urgent) \cap S
      /\ Distinct(s.pending) => Distinct(t.pending)
      /\ Rising(s.urgent) => Rising(t.urgent)
      /\ Len(t.pending) \in Nat /\ Len(s.pending) \in Nat
  BY <1>1, OnlyQueue, LenProperties
<1>3. Unheard(t) = Unheard(s) \cap S /\ (Preparing(t) = Preparing(s) \/ Preparing(t) = {})
  <2>1. CASE t.floor = s.floor /\ Unheard(s) \subseteq S
    BY <2>1 DEF Unheard, Preparing
  <2>2. CASE t.floor = Free /\ Unheard(s) \cap S = {}
    BY <2>2, FreeIs, FreeFloor
  <2> QED BY <2>1, <2>2
<1>4. Waiting(t) = Waiting(s) \cap S
  BY <1>2, <1>3 DEF Waiting
<1>5. Alone(t.floor) /\ t.floor.items \subseteq s.floor.items
  BY FreeIs DEF Good, Coherent
<1>6. Queued(t)
  <2>1. Queued(s)
    BY DEF Good, Coherent
  <2>2. Len(t.pending) <= UpdateCapacity
    BY <1>2, <2>1, ItemKinds DEF Queued
  <2> QED BY <1>2, <1>3, <2>1, <2>2 DEF Queued
<1>7. Accounted(t, sub)
  <2>1. Accounted(s, sub)
    BY DEF Good, Coherent
  <2>2. Waiting(t) \cup t.lost = Waiting(s) \cup s.lost
    BY <1>4
  <2>3. sub \cap (Urgents \cup Updates) = (t.played \ Replies) \cup t.lost \cup Waiting(t)
    BY <2>1, <2>2 DEF Accounted
  <2>4. t.lost \cap (t.played \cup Waiting(t)) = {}
    BY <1>4, <2>1 DEF Accounted
  <2>5. t.played \cap (Waiting(t) \cup ToSet(t.replies) \cup Preparing(t)) = {}
    BY <1>3, <1>4, <2>1 DEF Accounted
  <2>6. Preparing(t) \cap Updates \subseteq ToSet(t.pending) \cup t.lost
    BY <1>2, <1>3, <2>1 DEF Accounted, Waiting
  <2>7. t.floor.phase # "preparing" => t.floor.items \subseteq t.played
    BY <2>1, FreeIs DEF Accounted
  <2>8. /\ t.played \cup ToSet(t.replies) \cup t.floor.items \subseteq sub
        /\ Preparing(t) \cap ToSet(t.replies) = {}
    BY <1>3, <1>5, <2>1 DEF Accounted
  <2> QED BY <2>3, <2>4, <2>5, <2>6, <2>7, <2>8 DEF Accounted
<1>8. Silent(t)
  BY FreeIs DEF Good, Silent
<1> QED BY <1>5, <1>6, <1>7, <1>8 DEF Coherent

LEMMA WithdrawGood ==
  ASSUME NEW s, NEW sub, Good(s, sub), NEW source
  PROVE  Good(WithdrawUpdates(s, source), sub) /\ Handled(s, WithdrawUpdates(s, source))
<1> DEFINE S == {i \in DOMAIN SourceOf : SourceOf[i] # source}
           kept == [s EXCEPT !.pending = Only(@, S), !.urgent = Only(@, S),
                             !.lost = @ \cup {i \in Waiting(s) : SourceOf[i] = source}]
           given == \E i \in Unheard(s) : SourceOf[i] = source
           q == IF given THEN StartNext(Release(kept)) ELSE kept
           t == WithdrawUpdates(s, source)
<1>1. t = Recheck(q)
  BY DEF WithdrawUpdates
<1>2. /\ s \in Entries /\ s.pending \in Seq(Updates) /\ s.urgent \in Seq(Urgents)
      /\ Alone(s.floor) /\ DOMAIN SourceOf = Urgents \cup Updates
  BY VoiceFloorAssumption DEF Good, Coherent, Entries
<1>u. Waiting(s) \subseteq Urgents \cup Updates
  BY <1>2, ElementOfSeq, LenProperties DEF Waiting, ToSet, Unheard
<1>3. {i \in Waiting(s) : SourceOf[i] = source} = Waiting(s) \ S
  BY <1>2, <1>u
<1>4. /\ kept.pending = Only(s.pending, S) /\ kept.urgent = Only(s.urgent, S)
      /\ kept.lost = s.lost \cup (Waiting(s) \ S)
      /\ kept.floor = s.floor /\ kept.replies = s.replies /\ kept.pipe = s.pipe
      /\ kept.superseded = s.superseded /\ kept.played = s.played
      /\ kept.speaking = s.speaking /\ kept.userSpeaking = s.userSpeaking
  BY <1>2, <1>3 DEF Entries
<1>5. kept \in Entries
  <2>1. Only(s.pending, S) \in Seq(Updates) /\ Only(s.urgent, S) \in Seq(Urgents)
    BY <1>2, OnlyQueue
  <2>2. s.lost \cup (Waiting(s) \ S) \in SUBSET Items
    <3>1. Waiting(s) \subseteq Items
      BY <1>u, ItemKinds
    <3>2. s.lost \subseteq Items
      BY <1>2 DEF Entries
    <3> QED BY <3>1, <3>2
  <2>3. kept = [s EXCEPT !.pending = Only(s.pending, S), !.urgent = Only(s.urgent, S),
                         !.lost = s.lost \cup (Waiting(s) \ S)]
    BY <1>2, <1>3 DEF Entries
  <2> HIDE DEF kept, S
  <2> QED BY <1>2, <2>1, <2>2, <2>3 DEF Entries
<1>6. given => Unheard(s) \cap S = {}
  <2>1. \A i, j \in Unheard(s) : i = j
    BY <1>2, ItemKinds DEF Unheard, Alone
  <2> QED BY <2>1
<1>7. ~given => Unheard(s) \subseteq S
  BY <1>2 DEF Unheard
<1> HIDE DEF t, kept, S, given
<1>8. /\ Coherent(q, sub) /\ Silent(q) /\ q.pipe = s.pipe /\ q.played = s.played
      /\ q.floor = s.floor \/ {s.floor.phase, q.floor.phase} \subseteq {"free", "preparing"}
  <2>1. CASE ~given
    <3>1. q = kept
      BY <2>1
    <3>2. Coherent(kept, sub) /\ Silent(kept)
      BY <1>4, <1>5, <1>7, <2>1, WithdrawnCoherent
    <3> QED BY <1>4, <3>1, <3>2
  <2>2. CASE given
    <3> DEFINE r == Release(kept)
    <3>1. q = StartNext(r)
      BY <2>2
    <3>2. /\ r \in Entries /\ r.floor = Free /\ r.pending = kept.pending /\ r.urgent = kept.urgent
          /\ r.lost = kept.lost /\ r.replies = kept.replies /\ r.pipe = kept.pipe
          /\ r.superseded = kept.superseded /\ r.played = kept.played
      BY <1>5, FreeIs DEF Release, Entries
    <3> HIDE DEF r, q
    <3>3. Coherent(r, sub) /\ Silent(r)
      BY <1>4, <1>6, <2>2, <3>2, WithdrawnCoherent
    <3>4. Courteous(r)
      BY <3>2, FreeIs, FreeFloor
    <3>5. /\ Good(q, sub) /\ q.pipe = r.pipe /\ q.played = r.played
          /\ q.floor.phase \in {"free", "preparing"}
      BY <3>1, <3>2, <3>3, <3>4, StartNextGood DEF Good
    <3>6. s.floor.phase = "preparing"
      BY <2>2 DEF given, Unheard
    <3> QED BY <1>4, <3>2, <3>5, <3>6 DEF Good
  <2> QED BY <2>1, <2>2
<1> HIDE DEF q
<1>9. /\ Coherent(t, sub) /\ Courteous(t) /\ (Silent(q) => Silent(t))
      /\ t.pipe = q.pipe /\ Untouched(q, t)
      /\ \/ t = q
         \/ q.floor.phase = "preparing" /\ t.floor.phase \in {"free", "preparing"}
  BY <1>1, <1>8, RecheckKeeps, Zenon
<1>10. Handled(s, t)
  BY <1>8, <1>9 DEF Handled, Untouched
<1> QED BY <1>8, <1>9, <1>10 DEF Good, t

\* Who speaks is known to the floor only through the updates it selects.
LEMMA FlagsCoherent ==
  ASSUME NEW s, NEW sub, Coherent(s, sub), NEW b \in BOOLEAN
  PROVE  /\ LET t == [s EXCEPT !.userSpeaking = b]
            IN /\ Coherent(t, sub) /\ (Silent(s) => Silent(t)) /\ (~b /\ Courteous(s) => Courteous(t))
               /\ t.pipe = s.pipe /\ t.floor = s.floor /\ t.played = s.played
         /\ LET t == [s EXCEPT !.speaking = b]
            IN /\ Coherent(t, sub) /\ (Silent(s) => Silent(t)) /\ (~b /\ Courteous(s) => Courteous(t))
               /\ t.pipe = s.pipe /\ t.floor = s.floor /\ t.played = s.played
<1> SUFFICES ASSUME NEW t \in {[s EXCEPT !.userSpeaking = b], [s EXCEPT !.speaking = b]}
             PROVE  /\ Coherent(t, sub) /\ (Silent(s) => Silent(t)) /\ (~b /\ Courteous(s) => Courteous(t))
                    /\ t.pipe = s.pipe /\ t.floor = s.floor /\ t.played = s.played
  OBVIOUS
<1>1. /\ t \in Entries /\ t.floor = s.floor /\ t.replies = s.replies /\ t.urgent = s.urgent
      /\ t.pending = s.pending /\ t.pipe = s.pipe /\ t.superseded = s.superseded
      /\ t.played = s.played /\ t.lost = s.lost
      /\ ~b /\ Quiet(s) => Quiet(t)
  BY DEF Coherent, Entries, Quiet
<1>2. Unheard(t) = Unheard(s) /\ Preparing(t) = Preparing(s) /\ Waiting(t) = Waiting(s)
  BY <1>1 DEF Unheard, Preparing, Waiting
<1>3. Queued(t) /\ Accounted(t, sub) /\ Alone(t.floor)
  BY <1>1, <1>2 DEF Coherent, Queued, Accounted
<1>4. (Silent(s) => Silent(t)) /\ (~b /\ Courteous(s) => Courteous(t))
  BY <1>1, <1>2 DEF Silent, Courteous
<1> QED BY <1>1, <1>3, <1>4 DEF Coherent

LEMMA UserStartedGood ==
  ASSUME NEW s, NEW sub, Good(s, sub), NEW t, \/ t = Recheck([s EXCEPT !.userSpeaking = TRUE])
                                               \/ t = Recheck([s EXCEPT !.speaking = TRUE])
  PROVE  Good(t, sub) /\ Handled(s, t)
<1>1. PICK q : /\ t = Recheck(q) /\ Coherent(q, sub) /\ Silent(q)
               /\ q.pipe = s.pipe /\ q.floor = s.floor /\ q.played = s.played
  BY FlagsCoherent DEF Good
<1>2. /\ Coherent(t, sub) /\ Courteous(t) /\ (Silent(q) => Silent(t))
      /\ t.pipe = q.pipe /\ Untouched(q, t)
      /\ \/ t = q
         \/ q.floor.phase = "preparing" /\ t.floor.phase \in {"free", "preparing"}
  BY <1>1, RecheckKeeps, Zenon
<1> QED BY <1>1, <1>2 DEF Good, Handled, Untouched

LEMMA UserStoppedGood ==
  ASSUME NEW s, NEW sub, Good(s, sub), NEW t, \/ t = StartNext([s EXCEPT !.userSpeaking = FALSE])
                                               \/ t = StartNext([s EXCEPT !.speaking = FALSE])
  PROVE  Good(t, sub) /\ Handled(s, t)
<1>1. PICK q : /\ t = StartNext(q) /\ Good(q, sub)
               /\ q.pipe = s.pipe /\ q.floor = s.floor /\ q.played = s.played
  BY FlagsCoherent DEF Good
<1>2. Good(t, sub) /\ Handled(q, t)
  BY <1>1, StartNextGood
<1> QED BY <1>1, <1>2 DEF Handled

\* A query lets a playing output stop by itself or interrupts it.
LEMMA SpawnQueryGood ==
  ASSUME NEW s, NEW sub, Good(s, sub)
  PROVE  LET t == SpawnQuery(s)
         IN /\ Good(t, sub)
            /\ \/ Handled(s, t)
               \/ /\ t.pipe = s.pipe /\ t.played = s.played /\ t.floor.items = s.floor.items
                  /\ s.floor.phase \in {"playing", "stopping", "ended"}
                  /\ t.floor.phase \in {"stopping", "ended"}
                  /\ s.floor.phase = "ended" <=> t.floor.phase = "ended"
<1> DEFINE q == [s EXCEPT !.userSpeaking = FALSE]
           b == BargeIn(q)
           c == IF InterruptOnSupersede /\ s.seen THEN InterruptAudio(b) ELSE b
           t == SpawnQuery(s)
<1>1. t = StartNext(c)
  <2>1. q.seen = s.seen
    OBVIOUS
  <2> QED BY <2>1 DEF SpawnQuery
<1>2. Coherent(q, sub) /\ q.pipe = s.pipe /\ q.floor = s.floor /\ q.played = s.played
  BY FlagsCoherent DEF Good
<1> HIDE DEF t, q
<1>3. /\ Coherent(b, sub) /\ b.pipe = q.pipe
      /\ b.floor.phase \notin {"preparing", "playing"} /\ Silent(b) /\ Courteous(b)
      /\ b.floor.phase = "ended" <=> q.floor.phase = "ended"
      /\ b.floor.phase # "free" => q.floor.phase \in {"playing", "stopping", "ended"}
      /\ q.floor.phase = "preparing" => b.floor = Free
      /\ q.floor.phase # "preparing" => b.floor.items = q.floor.items
      /\ b.played = q.played
  BY <1>2, BargeInIs, Zenon
<1> HIDE DEF b
<1>4. Good(b, sub) /\ Unheard(b) = {} /\ b.floor \in Floors /\ Alone(b.floor)
  BY <1>3 DEF Good, Unheard, Coherent, Entries
<1>5. CASE InterruptOnSupersede /\ s.seen
  <2>1. c = InterruptAudio(b)
    BY <1>5
  <2> HIDE DEF c
  <2>2. /\ Good(c, sub) /\ c.floor = Free /\ c.pipe = Append(b.pipe, Frame("cut", {}))
        /\ c.played = b.played
    BY <1>4, <2>1, InterruptAudioGood
  <2>3. Good(t, sub) /\ t.pipe = c.pipe /\ t.played = c.played /\ t.floor.phase \in {"free", "preparing"}
    BY <1>1, <2>2, StartNextGood
  <2> QED BY <1>2, <1>3, <2>2, <2>3 DEF Handled, t
<1>6. CASE ~(InterruptOnSupersede /\ s.seen)
  <2>1. c = b
    BY <1>6
  <2> HIDE DEF c
  <2>2. Good(t, sub) /\ t.pipe = b.pipe /\ t.played = b.played
    BY <1>1, <1>4, <2>1, StartNextGood
  <2>3. CASE b.floor = Free
    <3>1. t.floor.phase \in {"free", "preparing"} /\ s.floor.phase \in {"free", "preparing"}
      <4>1. t.floor.phase \in {"free", "preparing"}
        BY <1>1, <1>4, <2>1, <2>3, StartNextGood
      <4>2. s.floor.phase \notin {"free", "preparing"} => s.floor.items = {} /\ s.floor.items # {}
        BY <1>2, <1>3, <2>3, FreeIs DEF Good, Coherent, Alone
      <4> QED BY <4>1, <4>2
    <3> QED BY <1>2, <1>3, <2>2, <3>1 DEF Handled, t
  <2>4. CASE b.floor # Free
    <3>1. t = b
      BY <1>1, <2>1, <2>4 DEF StartNext
    <3>2. b.floor.phase \in {"stopping", "ended"}
      BY <1>3, <1>4, <2>4 DEF Floors, Phases, Alone
    <3> QED BY <1>2, <1>3, <2>2, <3>1, <3>2 DEF t
  <2> QED BY <2>3, <2>4
<1> QED BY <1>5, <1>6

LEMMA InterruptionGood ==
  ASSUME NEW s, NEW sub, Good(s, sub)
  PROVE  Good(InterruptAudio(BargeIn(s)), sub) /\ Handled(s, InterruptAudio(BargeIn(s)))
<1> DEFINE b == BargeIn(s)
           t == InterruptAudio(b)
<1>1. /\ Coherent(b, sub) /\ b.pipe = s.pipe /\ b.floor.phase \notin {"preparing", "playing"}
      /\ Silent(b) /\ Courteous(b) /\ b.played = s.played
  BY BargeInIs DEF Good
<1> HIDE DEF b
<1>2. /\ Good(t, sub) /\ t.floor = Free /\ t.pipe = Append(b.pipe, Frame("cut", {}))
      /\ t.played = b.played
  BY <1>1, InterruptAudioGood DEF Good, Unheard
<1> HIDE DEF t
<1> QED BY <1>1, <1>2, FreeIs DEF Handled, t, b

\* A departure loses what waited.
LEMMA ForgetGood ==
  ASSUME NEW s, NEW sub, Good(s, sub)
  PROVE  Good(Forget(s), sub) /\ Handled(s, Forget(s))
<1> DEFINE c == CancelOutput(s)
           r == Release(c)
           t == Forget(s)
           g == Frame("left", {})
<1>1. /\ Coherent(c, sub) /\ ToSet(c.replies) = {} /\ c.pipe = s.pipe
      /\ c.floor.phase \notin {"preparing", "playing"} /\ Untouched(s, c)
  BY BargeInIs DEF Good
<1> HIDE DEF c
<1>2. Coherent(r, sub) /\ r.floor.phase = "free"
  BY <1>1, ReleaseCoherent DEF Unheard
<1>3. /\ r.floor = Free /\ r.replies = c.replies /\ r.pipe = c.pipe /\ r.played = c.played
      /\ r.lost = c.lost /\ r.urgent = c.urgent /\ r.pending = c.pending /\ r \in Entries
  BY <1>1, <1>2 DEF Release, Coherent, Entries
<1>4. t = [r EXCEPT !.urgent = <<>>, !.pending = <<>>, !.active = None, !.superseded = {},
            !.speaking = FALSE, !.userSpeaking = FALSE, !.seen = FALSE,
            !.lost = @ \cup Waiting(s), !.departed = TRUE, !.pipe = Append(@, g)]
  BY DEF Forget, c
<1> HIDE DEF t, r, g
<1>5. Append(r.pipe, g) \in Seq(DownFrames)
  <2>1. g \in DownFrames /\ r.pipe \in Seq(DownFrames)
    BY <1>3 DEF g, Frame, DownFrames, FramesOf, Entries
  <2> QED BY <2>1, AppendProperties
<1>6. Waiting(s) \subseteq Items
  <2>1. s.urgent \in Seq(Urgents) /\ s.pending \in Seq(Updates)
    BY DEF Good, Coherent, Entries
  <2>2. Waiting(s) \subseteq Urgents \cup Updates
    BY <2>1, ElementOfSeq, LenProperties DEF Waiting, ToSet, Unheard
  <2> QED BY <2>2, ItemKinds
<1>7. /\ t \in Entries /\ t.floor = Free /\ t.replies = r.replies /\ t.pipe = Append(r.pipe, g)
      /\ t.urgent = <<>> /\ t.pending = <<>> /\ t.superseded = {} /\ t.played = r.played
      /\ t.lost = r.lost \cup Waiting(s)
  <2>1. <<>> \in Seq(Urgents) /\ <<>> \in Seq(Updates)
    BY EmptySeq
  <2>2. r.lost \cup Waiting(s) \in SUBSET Items
    BY <1>3, <1>6 DEF Entries
  <2> QED BY <1>3, <1>4, <1>5, <2>1, <2>2 DEF Entries
<1>8. Unheard(t) = {} /\ Preparing(t) = {} /\ Courteous(t) /\ Alone(t.floor) /\ t.floor.phase = "free"
  BY <1>7, FreeIs, FreeFloor
<1>9. Waiting(t) = {}
  BY <1>7, <1>8, EmptyQueue DEF Waiting
<1>10. Queued(t)
  <2>1. Distinct(t.replies)
    BY <1>2, <1>7 DEF Coherent, Queued
  <2> QED BY <1>7, <1>8, <2>1, EmptyQueue, ItemKinds DEF Queued
<1>11. Accounted(t, sub)
  <2>1. Accounted(s, sub)
    BY DEF Good, Coherent
  <2>2. t.played = s.played /\ t.lost = s.lost \cup Waiting(s) /\ ToSet(t.replies) = {}
    BY <1>1, <1>3, <1>7 DEF Untouched
  <2> QED BY <1>7, <1>8, <1>9, <2>1, <2>2, FreeIs DEF Accounted
<1>12. Silent(t)
  BY <1>7 DEF Silent
<1>13. Handled(s, t)
  <2>1. t.pipe = Append(s.pipe, Frame("left", {})) /\ t.played = s.played
    BY <1>1, <1>3, <1>7 DEF g, Untouched
  <2> QED BY <1>8, <2>1 DEF Handled
<1> QED BY <1>7, <1>8, <1>10, <1>11, <1>12, <1>13 DEF Good, Coherent, t

-----------------------------------------------------------------------------
(* The task. *)

\* The pipeline and the number of fragments tell the arbitration nothing.
LEMMA PipeGood ==
  ASSUME NEW s, NEW sub, Good(s, sub), NEW q \in Seq(DownFrames)
  PROVE  LET t == [s EXCEPT !.pipe = q]
         IN Good(t, sub) /\ t.pipe = q /\ t.floor = s.floor /\ t.played = s.played
<1> DEFINE t == [s EXCEPT !.pipe = q]
<1>1. /\ t \in Entries /\ t.floor = s.floor /\ t.replies = s.replies /\ t.urgent = s.urgent
      /\ t.pending = s.pending /\ t.pipe = q /\ t.superseded = s.superseded
      /\ t.played = s.played /\ t.lost = s.lost
      /\ t.speaking = s.speaking /\ t.userSpeaking = s.userSpeaking
  BY DEF Good, Coherent, Entries
<1> HIDE DEF t
<1>2. Unheard(t) = Unheard(s) /\ Preparing(t) = Preparing(s) /\ Waiting(t) = Waiting(s)
  BY <1>1 DEF Unheard, Preparing, Waiting
<1>3. Queued(t) /\ Accounted(t, sub) /\ Alone(t.floor)
  BY <1>1, <1>2 DEF Good, Coherent, Queued, Accounted
<1>4. Silent(t) /\ Courteous(t)
  BY <1>1, <1>2 DEF Good, Silent, Courteous, Quiet
<1> QED BY <1>1, <1>3, <1>4 DEF Good, Coherent, t

LEMMA PushGood ==
  ASSUME NEW s, NEW sub, Good(s, sub), NEW kind \in {"text", "sentence", "end", "done"}
  PROVE  /\ Good(Push(s, kind), sub) /\ Push(s, kind).floor = s.floor
         /\ Push(s, kind).pipe = Append(s.pipe, Frame(kind, s.floor.items))
         /\ Push(s, kind).played = s.played
<1> DEFINE q == Append(s.pipe, Frame(kind, s.floor.items))
<1>1. q \in Seq(DownFrames)
  <2>1. Frame(kind, s.floor.items) \in DownFrames /\ s.pipe \in Seq(DownFrames)
    BY DEF Good, Coherent, Frame, DownFrames, FramesOf, Entries, Floors
  <2> QED BY <2>1, AppendProperties
<1>2. Push(s, kind) = [s EXCEPT !.pipe = q]
  BY DEF Push, Good, Coherent, Entries
<1> HIDE DEF q
<1>3. Push(s, kind).pipe = q
  BY <1>2 DEF Good, Coherent, Entries
<1> DEFINE t == [s EXCEPT !.pipe = q]
<1>4. Good(t, sub) /\ t.floor = s.floor /\ t.played = s.played
  BY <1>1, PipeGood, Zenon
<1> HIDE DEF t
<1>5. Push(s, kind) = t
  BY <1>2 DEF t
<1> QED BY <1>3, <1>4, <1>5 DEF q

\* The first chunk: what is spoken leaves the backlog and counts as heard.
LEMMA CommitGood ==
  ASSUME NEW s, NEW sub, Good(s, sub), s.floor.phase = "preparing",
         s.floor.items \cap Updates \subseteq ToSet(s.pending)
  PROVE  LET t == Commit(s)
         IN /\ Good(t, sub) /\ t.floor.phase = "playing" /\ t.floor.items = s.floor.items
            /\ t.floor.sent = s.floor.sent
            /\ t.pipe = s.pipe /\ t.played = s.played \cup s.floor.items
<1> DEFINE t == Commit(s)
           I == s.floor.items
           P == Only(s.pending, Updates \ I)
           f == [s.floor EXCEPT !.phase = "playing"]
<1>1. /\ s \in Entries /\ s.floor \in Floors /\ s.pending \in Seq(Updates) /\ Alone(s.floor)
      /\ I \subseteq Items /\ s.replies \in Seq(Replies) /\ s.urgent \in Seq(Urgents)
  BY DEF Good, Coherent, Entries, Floors
<1>2. /\ P \in Seq(Updates) /\ ToSet(P) = ToSet(s.pending) \cap (Updates \ I)
      /\ Len(P) <= Len(s.pending) /\ Len(P) \in Nat /\ Len(s.pending) \in Nat
      /\ Distinct(s.pending) => Distinct(P)
  BY <1>1, OnlyQueue, LenProperties
<1>3. f \in Floors /\ f.phase = "playing" /\ f.items = I /\ f.sent = s.floor.sent
  BY <1>1 DEF Floors, Phases
<1>4. t = [s EXCEPT !.floor = f, !.pending = P, !.played = s.played \cup I]
  BY <1>1 DEF Commit, Entries
<1> HIDE DEF t, P, f
<1>5. /\ t \in Entries /\ t.floor = f /\ t.replies = s.replies /\ t.urgent = s.urgent
      /\ t.pending = P /\ t.pipe = s.pipe /\ t.superseded = s.superseded
      /\ t.played = s.played \cup I /\ t.lost = s.lost
  BY <1>1, <1>2, <1>3, <1>4 DEF Entries
<1>6. /\ Unheard(t) = {} /\ Preparing(t) = {}
      /\ Unheard(s) = I \cap Urgents /\ Preparing(s) = I
  BY <1>3, <1>5 DEF Unheard, Preparing
<1>7. /\ ToSet(s.urgent) \subseteq Urgents /\ ToSet(s.pending) \subseteq Updates
      /\ ToSet(s.replies) \subseteq Replies
  BY <1>1, ElementOfSeq, LenProperties DEF ToSet
<1>8. I \cap ToSet(s.urgent) = {}
  <2>1. \A i \in I \cap Urgents, j \in ToSet(s.urgent) : i < j
    BY <1>6 DEF Good, Coherent, Queued
  <2>2. \A i \in Urgents : ~(i < i)
    BY ItemKinds
  <2> QED BY <1>7, <2>1, <2>2
<1>9. /\ Waiting(t) = Waiting(s) \ I /\ I \ Replies \subseteq Waiting(s)
  <2>1. I \subseteq Replies \cup Urgents \cup Updates
    BY <1>1, ItemKinds DEF Items
  <2>2. Waiting(t) = ToSet(s.urgent) \cup (ToSet(s.pending) \cap (Updates \ I))
    BY <1>2, <1>5, <1>6 DEF Waiting
  <2>3. Waiting(s) = ToSet(s.urgent) \cup ToSet(s.pending) \cup (I \cap Urgents)
    BY <1>6 DEF Waiting
  <2>4. I \ Replies \subseteq Waiting(s)
    BY <2>1, <2>3
  <2>5. Waiting(t) = Waiting(s) \ I
    BY <1>7, <1>8, <2>2, <2>3
  <2> QED BY <2>4, <2>5
<1>10. Queued(t) /\ Alone(t.floor)
  <2>1. Queued(s)
    BY DEF Good, Coherent
  <2>2. Len(P) <= UpdateCapacity
    BY <1>2, <2>1, ItemKinds DEF Queued
  <2>3. Queued(t)
    BY <1>2, <1>5, <1>6, <2>1, <2>2 DEF Queued
  <2>4. Alone(f)
    BY <1>1, <1>3 DEF Alone
  <2> QED BY <1>5, <2>3, <2>4
<1>11. Accounted(t, sub)
  <2>1. Accounted(s, sub)
    BY DEF Good, Coherent
  <2>2. I \subseteq sub /\ I \cap ToSet(s.replies) = {} /\ s.played \cap I = {}
    BY <1>6, <2>1 DEF Accounted
  <2>3. s.lost \cap I = {}
    <3>1. s.lost \subseteq Urgents \cup Updates
      BY <2>1 DEF Accounted
    <3> QED BY <1>9, <2>1, <3>1, ItemKinds DEF Accounted
  <2>4. sub \cap (Urgents \cup Updates) = (t.played \ Replies) \cup t.lost \cup Waiting(t)
    <3>1. Waiting(s) \cap Replies = {}
      BY <2>1, ItemKinds DEF Accounted
    <3> QED BY <1>5, <1>9, <2>1, <3>1 DEF Accounted
  <2>5. t.lost \cap (t.played \cup Waiting(t)) = {}
    BY <1>5, <1>9, <2>1, <2>3 DEF Accounted
  <2>6. t.played \cap (Waiting(t) \cup ToSet(t.replies) \cup Preparing(t)) = {}
    BY <1>5, <1>6, <1>9, <2>1, <2>2 DEF Accounted
  <2> QED BY <1>3, <1>5, <1>6, <2>1, <2>2, <2>4, <2>5, <2>6 DEF Accounted
<1>12. Silent(t) /\ Courteous(t)
  BY <1>3, <1>5, <1>6 DEF Good, Silent, Courteous
<1> QED BY <1>3, <1>5, <1>10, <1>11, <1>12 DEF Good, Coherent, t

\* An output that never began is dropped, any other gets its done marker.
LEMMA SettleGood ==
  ASSUME NEW s, NEW sub, Good(s, sub), Unheard(s) = {},
         s.floor.phase \in {"preparing", "playing", "stopping"}
  PROVE  LET t == Settle(s)
         IN /\ Good(t, sub) /\ t.played = s.played
            /\ s.floor.phase = "preparing" =>
                 t.pipe = s.pipe /\ t.floor.phase \in {"free", "preparing"}
            /\ s.floor.phase \in {"playing", "stopping"} =>
                 /\ t.pipe = Append(s.pipe, Frame("done", s.floor.items))
                 /\ t.floor.phase = "ended" /\ t.floor.items = s.floor.items
<1>1. CASE s.floor.phase = "preparing"
  <2> DEFINE r == Release(s)
             t == Settle(s)
  <2>1. t = StartNext(r)
    BY <1>1 DEF Settle
  <2>2. Coherent(r, sub) /\ r.floor.phase = "free"
    BY ReleaseCoherent DEF Good
  <2>3. /\ r.floor = Free /\ r.replies = s.replies /\ r.pipe = s.pipe /\ r.played = s.played
        /\ r.superseded = s.superseded
    BY DEF Release, Good, Coherent, Entries
  <2> HIDE DEF r, t
  <2>4. Good(r, sub)
    BY <2>2, <2>3, FreeIs, FreeFloor DEF Good, Silent
  <2>5. /\ Good(t, sub) /\ t.floor.phase \in {"free", "preparing"}
        /\ t.pipe = r.pipe /\ t.played = r.played
    BY <2>1, <2>3, <2>4, StartNextGood
  <2> QED BY <1>1, <2>3, <2>5 DEF t
<1>2. CASE s.floor.phase \in {"playing", "stopping"}
  <2> DEFINE u == Push(s, "done")
             f == [u.floor EXCEPT !.phase = "ended", !.sent = 0]
             t == Settle(s)
  <2>1. /\ Good(u, sub) /\ u.floor = s.floor /\ u.played = s.played
        /\ u.pipe = Append(s.pipe, Frame("done", s.floor.items))
    BY PushGood
  <2> HIDE DEF u
  <2>2. u \in Entries /\ u.floor \in Floors
    BY <2>1 DEF Good, Coherent, Entries
  <2>3. t = [u EXCEPT !.floor = f]
    BY <1>2, <2>2 DEF Settle, u, Entries
  <2>4. f \in Floors /\ f.phase = "ended" /\ f.items = s.floor.items
    <3>1. 0 \in 0 .. MaxFragments
      BY VoiceFloorAssumption
    <3> QED BY <2>1, <2>2, <3>1 DEF Floors, Phases
  <2> HIDE DEF t, f
  <2>5. /\ t \in Entries /\ t.floor = f /\ t.replies = u.replies /\ t.urgent = u.urgent
        /\ t.pending = u.pending /\ t.pipe = u.pipe /\ t.superseded = u.superseded
        /\ t.played = u.played /\ t.lost = u.lost
    BY <2>2, <2>3, <2>4 DEF Entries
  <2> HIDE DEF t
  <2>6. /\ Unheard(t) = {} /\ Preparing(t) = {} /\ Unheard(u) = {} /\ Preparing(u) = {}
        /\ Waiting(t) = Waiting(u)
    BY <1>2, <2>1, <2>4, <2>5 DEF Unheard, Preparing, Waiting
  <2>7. Alone(t.floor)
    BY <1>2, <2>1, <2>4, <2>5 DEF Good, Coherent, Alone
  <2>8. Queued(t)
    BY <2>1, <2>5, <2>6 DEF Good, Coherent, Queued
  <2>9. Accounted(t, sub)
    BY <1>2, <2>1, <2>4, <2>5, <2>6 DEF Good, Coherent, Accounted
  <2>10. Silent(t) /\ Courteous(t)
    BY <2>1, <2>4, <2>5, <2>6 DEF Good, Silent, Courteous
  <2> QED BY <1>2, <2>1, <2>4, <2>5, <2>7, <2>8, <2>9, <2>10 DEF Good, Coherent, t
<1> QED BY <1>1, <1>2

-----------------------------------------------------------------------------
(* The steps. *)

\* The invariant holds initially.
LEMMA IInvInit == Init => IInv
<1> SUFFICES ASSUME Init PROVE IInv
  OBVIOUS
<1>1. /\ io.floor = Free /\ io.replies = <<>> /\ io.urgent = <<>> /\ io.pending = <<>>
      /\ io.superseded = {} /\ io.pipe = <<>> /\ io.played = {} /\ io.lost = {}
      /\ submitted = {} /\ up = <<>> /\ events = 0
  BY DEF Init
<1>2. io \in Entries
  <2>1. /\ <<>> \in Seq(Replies) /\ <<>> \in Seq(Urgents) /\ <<>> \in Seq(Updates)
        /\ <<>> \in Seq(DownFrames)
    BY EmptySeq
  <2> QED BY <2>1, FreeIs DEF Init, Entries
<1>3. /\ Alone(io.floor) /\ Unheard(io) = {} /\ Preparing(io) = {} /\ Courteous(io)
      /\ io.floor.items = {}
  BY <1>1, FreeIs, FreeFloor
<1>4. Waiting(io) = {} /\ ToSet(io.replies) = {} /\ ToSet(io.pipe) = {} /\ ToSet(up) = {}
  BY <1>1, <1>3, EmptyQueue DEF Waiting
<1>5. Queued(io)
  BY <1>1, <1>3, EmptyQueue, ItemKinds DEF Queued
<1>6. Accounted(io, submitted)
  BY <1>1, <1>3, <1>4 DEF Accounted
<1>7. Silent(io)
  BY <1>1 DEF Silent
<1>8. MarksAreHeard(io, up)
  BY <1>4 DEF MarksAreHeard
<1>9. Rest
  <2>1. Cardinality(submitted) = 0 /\ MaxInputs \in Nat
    BY <1>1, FS_EmptySet, VoiceFloorAssumption
  <2>2. up \in Seq(UpFrames)
    BY <1>1, EmptySeq
  <2>3. Inputs <= MaxInputs /\ events \in Nat /\ submitted \cap Urgents = {}
    BY <1>1, <2>1 DEF Inputs
  <2>4. frag = {} /\ clipped = {} /\ resuming \in BOOLEAN /\ botOn \in BOOLEAN
    BY DEF Init
  <2> QED BY <1>1, <2>2, <2>3, <2>4 DEF Rest
<1> QED BY <1>2, <1>3, <1>5, <1>6, <1>7, <1>8, <1>9 DEF IInv, Good, Coherent

\* One more input fits.
LEMMA OneMoreInput ==
  ASSUME Rest, Inputs < MaxInputs
  PROVE  /\ \A i \in Items \ submitted : Cardinality(submitted \cup {i}) + events <= MaxInputs
         /\ Cardinality(submitted) + (events + 1) <= MaxInputs /\ events + 1 \in Nat
<1>1. IsFiniteSet(submitted) /\ Cardinality(submitted) \in Nat /\ events \in Nat
  BY VoiceFloorAssumption, FS_Subset, FS_CardinalityType DEF Rest
<1>2. \A i : i \notin submitted => Cardinality(submitted \cup {i}) = Cardinality(submitted) + 1
  BY <1>1, FS_AddElement
<1> QED BY <1>1, <1>2, VoiceFloorAssumption DEF Inputs

\* What a step of the handlers does, seen from the pipeline: no frame goes upstream.
Input == /\ Good(io, submitted)' /\ Handled(io, io')
         /\ frag' = frag /\ clipped' = clipped
         /\ up' \in Seq(UpFrames) /\ ToSet(up') \subseteq ToSet(up)

LEMMA AgentSteps ==
  ASSUME IInv, Agents PROVE Input /\ Rest'
<1>a. Good(io, submitted) /\ Rest
  BY DEF IInv
<1>1. ASSUME NEW i \in Replies, EnqueueReply(i) PROVE Input /\ Rest'
  <2>1. i \in Items \ submitted /\ i \in Replies \ submitted /\ i \notin Urgents
    BY <1>1, ItemKinds DEF EnqueueReply
  <2>2. Good(io', submitted') /\ Handled(io, io')
    <3>1. CASE RequestOf[i] \in io.superseded
      BY <1>1, <1>a, <2>1, <3>1, MoreReplies DEF EnqueueReply, Submit, Good, Handled
    <3>2. CASE RequestOf[i] \notin io.superseded
      BY <1>1, <1>a, <2>1, <3>2, SpawnReplyGood DEF EnqueueReply, Submit
    <3> QED BY <3>1, <3>2
  <2>3. Rest'
    <3>1. Inputs' <= MaxInputs
      BY <1>1, <1>a, <2>1, OneMoreInput DEF EnqueueReply, Submit, Inputs
    <3>2. submitted' \cap Urgents = submitted \cap Urgents /\ Urgents \ submitted' = Urgents \ submitted
      BY <1>1, <2>1 DEF EnqueueReply, Submit
    <3> QED BY <1>1, <1>a, <2>1, <3>1, <3>2 DEF EnqueueReply, Submit, Rest
  <2> QED BY <1>1, <1>a, <2>2, <2>3 DEF EnqueueReply, Input, Rest
<1>2. ASSUME NEW i \in Urgents, EnqueueUrgent(i) PROVE Input /\ Rest'
  <2>1. /\ i \in Items \ submitted /\ i \in Urgents \ submitted
        /\ \A j \in Urgents \ submitted : i <= j
    BY <1>2, ItemKinds DEF EnqueueUrgent, NextOf
  <2>2. Good(io', submitted') /\ Handled(io, io')
    <3>1. \A j \in submitted \cap Urgents : j < i
      BY <1>a, <2>1 DEF Rest
    <3> QED BY <1>2, <1>a, <2>1, <3>1, SpawnUrgentGood DEF EnqueueUrgent, Submit
  <2>3. Rest'
    <3>1. Inputs' <= MaxInputs
      BY <1>2, <1>a, <2>1, OneMoreInput DEF EnqueueUrgent, Submit, Inputs
    <3>2. \A k \in submitted' \cap Urgents, j \in Urgents \ submitted' : k < j
      <4>1. submitted' = submitted \cup {i}
        BY <1>2 DEF EnqueueUrgent, Submit
      <4>2. \A j \in Urgents \ submitted' : i < j
        BY <2>1, <4>1, ItemKinds
      <4> QED BY <1>a, <4>1, <4>2 DEF Rest
    <3> QED BY <1>2, <1>a, <2>1, <3>1, <3>2 DEF EnqueueUrgent, Submit, Rest
  <2> QED BY <1>2, <1>a, <2>2, <2>3 DEF EnqueueUrgent, Input, Rest
<1>3. ASSUME NEW i \in Updates, EnqueueUpdate(i) PROVE Input /\ Rest'
  <2>1. i \in Items \ submitted /\ i \in Updates \ submitted /\ i \notin Urgents
    BY <1>3, ItemKinds DEF EnqueueUpdate, NextOf
  <2>2. Good(io', submitted') /\ Handled(io, io')
    BY <1>3, <1>a, <2>1, AddUpdateGood DEF EnqueueUpdate, Submit
  <2>3. Rest'
    <3>1. Inputs' <= MaxInputs
      BY <1>3, <1>a, <2>1, OneMoreInput DEF EnqueueUpdate, Submit, Inputs
    <3>2. submitted' \cap Urgents = submitted \cap Urgents /\ Urgents \ submitted' = Urgents \ submitted
      BY <1>3, <2>1 DEF EnqueueUpdate, Submit
    <3> QED BY <1>3, <1>a, <2>1, <3>1, <3>2 DEF EnqueueUpdate, Submit, Rest
  <2> QED BY <1>3, <1>a, <2>2, <2>3 DEF EnqueueUpdate, Input, Rest
<1>4. ASSUME NEW source, Withdraw(source) PROVE Input /\ Rest'
  <2>1. Good(io', submitted') /\ Handled(io, io')
    BY <1>4, <1>a, WithdrawGood DEF Withdraw
  <2> QED BY <1>4, <1>a, <2>1 DEF Withdraw, Input, Rest, Inputs
<1> QED BY <1>1, <1>2, <1>3, <1>4 DEF Agents

LEMMA RemoveAtQueue ==
  ASSUME NEW S, NEW q \in Seq(S), NEW k \in DOMAIN q
  PROVE  RemoveAt(q, k) \in Seq(S) /\ ToSet(RemoveAt(q, k)) \subseteq ToSet(q)
<1> DEFINE a == SubSeq(q, 1, k - 1)
           b == SubSeq(q, k + 1, Len(q))
           r == a \o b
<1>1. Len(q) \in Nat /\ DOMAIN q = 1 .. Len(q) /\ \A i \in 1 .. Len(q) : q[i] \in S
  BY LenProperties, ElementOfSeq
<1>2. a \in Seq(S) /\ Len(a) = k - 1 /\ \A i \in 1 .. k - 1 : a[i] = q[i]
  <2>1. /\ a \in Seq(S) /\ Len(a) = IF 1 <= k - 1 THEN (k - 1) - 1 + 1 ELSE 0
        /\ \A i \in 1 .. (k - 1) - 1 + 1 : a[i] = q[1 + i - 1]
    BY <1>1, SubSeqProperties
  <2> QED BY <1>1, <2>1
<1>3. b \in Seq(S) /\ Len(b) = Len(q) - k /\ \A i \in 1 .. Len(q) - k : b[i] = q[k + i]
  <2>1. /\ b \in Seq(S) /\ Len(b) = IF k + 1 <= Len(q) THEN Len(q) - (k + 1) + 1 ELSE 0
        /\ \A i \in 1 .. Len(q) - (k + 1) + 1 : b[i] = q[k + 1 + i - 1]
    BY <1>1, SubSeqProperties
  <2> QED BY <1>1, <2>1, SMTT(20)
<1> HIDE DEF a, b
<1>4. /\ r \in Seq(S) /\ Len(r) = Len(a) + Len(b) /\ DOMAIN r = 1 .. Len(r)
      /\ \A i \in 1 .. Len(a) + Len(b) : r[i] = IF i <= Len(a) THEN a[i] ELSE b[i - Len(a)]
  BY <1>2, <1>3, ConcatProperties, LenProperties
<1> HIDE DEF r
<1>5. ASSUME NEW i \in DOMAIN r PROVE \E j \in DOMAIN q : r[i] = q[j]
  <2>1. CASE i <= k - 1
    BY <1>1, <1>2, <1>3, <1>4, <2>1
  <2>2. CASE ~(i <= k - 1)
    <3>1. i - (k - 1) \in 1 .. Len(q) - k /\ k + (i - (k - 1)) = i + 1 /\ i + 1 \in DOMAIN q
      BY <1>1, <1>2, <1>3, <1>4, <2>2, SMTT(20)
    <3> QED BY <1>2, <1>3, <1>4, <2>2, <3>1
  <2> QED BY <2>1, <2>2
<1>6. ToSet(r) \subseteq ToSet(q)
  BY <1>5 DEF ToSet
<1>7. RemoveAt(q, k) = r
  BY DEF RemoveAt, r, a, b
<1> QED BY <1>4, <1>6, <1>7

LEMMA EventFits ==
  ASSUME Rest, Event, submitted' = submitted
  PROVE  Inputs' <= MaxInputs /\ events' \in Nat
BY OneMoreInput DEF Event, Inputs

LEMMA InputSteps ==
  ASSUME IInv,
         \/ Interruption \/ Resume \/ UserStarted \/ UserStopped \/ ParticipantLeft
         \/ BotStarted \/ BotStopped
  PROVE  Input /\ Rest'
<1>a. Good(io, submitted) /\ Rest
  BY DEF IInv
<1>1. CASE Interruption
  <2>1. Good(io', submitted') /\ Handled(io, io')
    BY <1>1, <1>a, InterruptionGood DEF Interruption
  <2>2. Inputs' <= MaxInputs /\ events' \in Nat
    BY <1>1, <1>a, EventFits DEF Interruption
  <2> QED BY <1>1, <1>a, <2>1, <2>2 DEF Interruption, Input, Rest
<1>2. CASE Resume
  <2>1. Good(io', submitted') /\ Handled(io, io')
    BY <1>2, <1>a, StartNextGood DEF Resume
  <2> QED BY <1>2, <1>a, <2>1 DEF Resume, Input, Rest, Inputs
<1>3. CASE UserStarted
  <2>1. Good(io', submitted') /\ Handled(io, io')
    BY <1>3, <1>a, UserStartedGood DEF UserStarted
  <2>2. Inputs' <= MaxInputs /\ events' \in Nat
    BY <1>3, <1>a, EventFits DEF UserStarted
  <2> QED BY <1>3, <1>a, <2>1, <2>2 DEF UserStarted, Input, Rest
<1>4. CASE UserStopped
  <2>1. Good(io', submitted') /\ Handled(io, io')
    BY <1>4, <1>a, UserStoppedGood DEF UserStopped
  <2> QED BY <1>4, <1>a, <2>1 DEF UserStopped, Input, Rest, Inputs
<1>5. CASE ParticipantLeft
  <2>1. Good(io', submitted') /\ Handled(io, io')
    BY <1>5, <1>a, ForgetGood DEF ParticipantLeft
  <2>2. Inputs' <= MaxInputs /\ events' \in Nat
    BY <1>5, <1>a, EventFits DEF ParticipantLeft
  <2> QED BY <1>5, <1>a, <2>1, <2>2 DEF ParticipantLeft, Input, Rest
<1>6. ASSUME NEW kind, Arrives(kind) PROVE up' \in Seq(UpFrames) /\ ToSet(up') \subseteq ToSet(up)
  BY <1>6, <1>a, RemoveAtQueue DEF Arrives, Rest
<1>7. CASE BotStarted
  <2>1. Good(io', submitted') /\ Handled(io, io')
    BY <1>7, <1>a, UserStartedGood DEF BotStarted
  <2>2. up' \in Seq(UpFrames) /\ ToSet(up') \subseteq ToSet(up)
    BY <1>7, <1>6 DEF BotStarted
  <2> QED BY <1>7, <1>a, <2>1, <2>2 DEF BotStarted, Input, Rest, Inputs
<1>8. CASE BotStopped
  <2>1. Good(io', submitted') /\ Handled(io, io')
    BY <1>8, <1>a, UserStoppedGood DEF BotStopped
  <2>2. up' \in Seq(UpFrames) /\ ToSet(up') \subseteq ToSet(up)
    BY <1>8, <1>6 DEF BotStopped
  <2> QED BY <1>8, <1>a, <2>1, <2>2 DEF BotStopped, Input, Rest, Inputs
<1> QED BY <1>1, <1>2, <1>3, <1>4, <1>5, <1>7, <1>8

\* A query that does not interrupt lets a playing output stop by itself.
LEMMA QueryStep ==
  ASSUME IInv, Query
  PROVE  /\ Good(io, submitted)' /\ Rest' /\ frag' = frag /\ up' = up
         /\ clipped' = clipped \cup Clip(io)
         /\ \/ Handled(io, io')
            \/ /\ io'.pipe = io.pipe /\ io'.played = io.played /\ io'.floor.items = io.floor.items
               /\ io.floor.phase \in {"playing", "stopping", "ended"}
               /\ io'.floor.phase \in {"stopping", "ended"}
               /\ io.floor.phase = "ended" <=> io'.floor.phase = "ended"
<1>1. Good(io, submitted) /\ Rest
  BY DEF IInv
<1>2. Inputs' <= MaxInputs /\ events' \in Nat
  BY <1>1, EventFits DEF Query
<1>3. io' = SpawnQuery(io) /\ submitted' = submitted
  BY DEF Query
<1>4. /\ Good(io', submitted')
      /\ \/ Handled(io, io')
         \/ /\ io'.pipe = io.pipe /\ io'.played = io.played /\ io'.floor.items = io.floor.items
            /\ io.floor.phase \in {"playing", "stopping", "ended"}
            /\ io'.floor.phase \in {"stopping", "ended"}
            /\ io.floor.phase = "ended" <=> io'.floor.phase = "ended"
  BY <1>1, <1>3, SpawnQueryGood, Zenon
<1>5. Clip(io) \subseteq SUBSET Items
  BY <1>1 DEF Clip, Good, Coherent, Entries, Floors
<1>6. Rest'
  BY <1>1, <1>2, <1>5 DEF Query, Rest
<1> QED BY <1>4, <1>6 DEF Query

\* The task speaks in one piece, fragment by fragment, or cleans up.
LEMMA TaskSteps ==
  ASSUME IInv, Task \/ \E kind \in {"text", "sentence"} : Fragment(kind)
  PROVE  /\ Good(io, submitted)' /\ Rest' /\ UNCHANGED <<frag, up, clipped>>
         /\ LET I == io.floor.items
            IN \/ Handled(io, io')
               \/ /\ io.floor.phase = "preparing" /\ io'.floor.phase = "ended"
                  /\ io'.floor.items = I /\ io'.played = io.played \cup I
                  /\ io'.pipe = Append(Append(Append(io.pipe, Frame("text", I)), Frame("end", I)),
                                       Frame("done", I))
               \/ /\ io.floor.phase \in {"preparing", "playing"} /\ io'.floor.phase = "playing"
                  /\ io'.floor.items = I /\ io'.played = io.played \cup I
                  /\ \E kind \in {"text", "sentence"} : io'.pipe = Append(io.pipe, Frame(kind, I))
               \/ /\ io.floor.phase = "preparing" /\ io'.floor.phase \in {"free", "preparing"}
                  /\ io'.played = io.played
                  /\ io'.pipe = Append(io.pipe, Frame("end", I))
               \/ /\ io.floor.phase = "playing" /\ io'.floor.phase = "ended"
                  /\ io'.floor.items = I /\ io'.played = io.played
                  /\ io'.pipe = Append(Append(io.pipe, Frame("end", I)), Frame("done", I))
               \/ /\ io.floor.phase = "stopping" /\ io'.floor.phase = "ended"
                  /\ io'.floor.items = I /\ io'.played = io.played
                  /\ io'.pipe = Append(io.pipe, Frame("done", I))
<1> DEFINE I == io.floor.items
<1>a. /\ Good(io, submitted) /\ Rest /\ Alone(io.floor) /\ io \in Entries /\ io.floor \in Floors
      /\ I \subseteq Items
  BY DEF IInv, Good, Coherent, Entries, Floors
<1>r. ASSUME UNCHANGED <<resuming, frag, botOn, up, submitted, events, clipped>> PROVE Rest'
  BY <1>r, <1>a DEF Rest, Inputs
<1>s. ASSUME I \cap Streamed # {}
      PROVE  /\ Unheard(io) = {} /\ I \cap Updates = {}
             /\ io.floor.phase \notin {"preparing"} => I \subseteq io.played
  <2>1. \E i \in Replies : I = {i}
    BY <1>s, <1>a, VoiceFloorAssumption, FreeIs DEF Alone
  <2>2. io.floor.phase \notin {"preparing"} => I \subseteq io.played
    BY <1>a DEF Good, Coherent, Accounted
  <2> QED BY <2>1, <2>2, ItemKinds DEF Unheard
<1>1. CASE Speak
  <2>1. CASE MaySpeak(io)
    <3> DEFINE c == Commit(io)
               a == Push(c, "text")
               b == Push(a, "end")
    <3>1. I \cap Updates \subseteq ToSet(io.pending)
      BY <2>1 DEF MaySpeak
    <3>2. /\ Good(c, submitted) /\ c.floor.phase = "playing" /\ c.floor.items = I
          /\ c.pipe = io.pipe /\ c.played = io.played \cup I
      BY <1>1, <1>a, <3>1, CommitGood, Zenon DEF Speak
    <3> HIDE DEF c
    <3>3. /\ Good(a, submitted) /\ a.floor = c.floor /\ a.played = c.played
          /\ a.pipe = Append(c.pipe, Frame("text", c.floor.items))
      BY <3>2, PushGood
    <3> HIDE DEF a
    <3>4. /\ Good(b, submitted) /\ b.floor = a.floor /\ b.played = a.played
          /\ b.pipe = Append(a.pipe, Frame("end", a.floor.items))
      BY <3>3, PushGood
    <3>5. io' = Settle(b)
      BY <1>1, <2>1 DEF Speak, a, b, c
    <3> HIDE DEF b
    <3>6. b.floor.phase = "playing" /\ Unheard(b) = {}
      BY <3>2, <3>3, <3>4 DEF Unheard
    <3>7. /\ Good(io', submitted) /\ io'.played = b.played
          /\ io'.pipe = Append(b.pipe, Frame("done", b.floor.items))
          /\ io'.floor.phase = "ended" /\ io'.floor.items = b.floor.items
      BY <3>4, <3>5, <3>6, SettleGood
    <3>8. /\ io.floor.phase = "preparing" /\ submitted' = submitted
          /\ UNCHANGED <<resuming, frag, botOn, up, submitted, events, clipped>>
      BY <1>1 DEF Speak
    <3> QED BY <1>r, <3>2, <3>3, <3>4, <3>7, <3>8
  <2>2. CASE ~MaySpeak(io)
    <3>1. Unheard(io) = {}
      <4>1. I \cap Updates # {}
        BY <2>2 DEF MaySpeak
      <4> QED BY <1>a, <4>1, ItemKinds, FreeIs DEF Alone, Unheard
    <3>2. io' = Settle(io) /\ io.floor.phase = "preparing"
      BY <1>1, <2>2 DEF Speak
    <3>3. /\ Good(io', submitted) /\ io'.played = io.played /\ io'.pipe = io.pipe
          /\ io'.floor.phase \in {"free", "preparing"}
      BY <1>a, <3>1, <3>2, SettleGood
    <3>4. UNCHANGED <<resuming, frag, botOn, up, submitted, events, clipped>>
      BY <1>1 DEF Speak
    <3> QED BY <1>r, <3>2, <3>3, <3>4 DEF Handled
  <2> QED BY <2>1, <2>2
<1>2. ASSUME NEW kind \in {"text", "sentence"}, Fragment(kind)
      PROVE  /\ Good(io, submitted)' /\ Rest' /\ UNCHANGED <<frag, up, clipped>>
             /\ io.floor.phase \in {"preparing", "playing"} /\ io'.floor.phase = "playing"
             /\ io'.floor.items = I /\ io'.played = io.played \cup I
             /\ io'.pipe = Append(io.pipe, Frame(kind, I))
  <2> DEFINE c == IF io.floor.phase = "preparing" THEN Commit(io) ELSE io
             f == [c.floor EXCEPT !.sent = @ + 1]
             n == [c EXCEPT !.floor = f]
  <2>1. /\ io.floor.phase \in {"preparing", "playing"} /\ I \cap Streamed # {}
        /\ io.floor.sent < MaxFragments
        /\ io' = Push([c EXCEPT !.floor.sent = @ + 1], kind)
        /\ UNCHANGED <<resuming, frag, botOn, up, submitted, events, clipped>>
    BY <1>2 DEF Fragment
  <2>2. /\ Good(c, submitted) /\ c.floor.phase = "playing" /\ c.floor.items = I
        /\ c.floor.sent = io.floor.sent /\ c.pipe = io.pipe /\ c.played = io.played \cup I
    <3>1. CASE io.floor.phase = "preparing"
      <4>1. I \cap Updates \subseteq ToSet(io.pending)
        BY <1>s, <2>1
      <4>2. c = Commit(io)
        BY <3>1
      <4> HIDE DEF c
      <4> QED BY <1>a, <3>1, <4>1, <4>2, CommitGood, Zenon
    <3>2. CASE io.floor.phase = "playing"
      BY <1>a, <1>s, <2>1, <3>2
    <3> QED BY <2>1, <3>1, <3>2
  <2> HIDE DEF c
  <2>3. c \in Entries /\ c.floor \in Floors
    BY <2>2 DEF Good, Coherent, Entries
  <2>4. f \in Floors /\ f.phase = "playing" /\ f.items = I
    <3>1. c.floor.sent + 1 \in 0 .. MaxFragments
      BY <2>1, <2>2, <2>3, VoiceFloorAssumption DEF Floors
    <3> QED BY <2>2, <2>3, <3>1 DEF Floors, Phases
  <2>5. [c EXCEPT !.floor.sent = @ + 1] = n
    BY <2>3 DEF Entries
  <2> HIDE DEF f
  <2>6. /\ n \in Entries /\ n.floor = f /\ n.replies = c.replies /\ n.urgent = c.urgent
        /\ n.pending = c.pending /\ n.pipe = c.pipe /\ n.superseded = c.superseded
        /\ n.played = c.played /\ n.lost = c.lost
    BY <2>3, <2>4 DEF Entries
  <2> HIDE DEF n
  <2>7. /\ Unheard(n) = {} /\ Preparing(n) = {} /\ Unheard(c) = {} /\ Preparing(c) = {}
        /\ Waiting(n) = Waiting(c)
    BY <2>2, <2>4, <2>6 DEF Unheard, Preparing, Waiting
  <2>8. Alone(n.floor) /\ Queued(n)
    BY <2>2, <2>4, <2>6, <2>7 DEF Good, Coherent, Alone, Queued
  <2>9. Accounted(n, submitted)
    BY <2>2, <2>4, <2>6, <2>7 DEF Good, Coherent, Accounted
  <2>10. Silent(n) /\ Courteous(n)
    BY <2>2, <2>4, <2>6, <2>7 DEF Good, Silent, Courteous
  <2>11. Good(n, submitted)
    BY <2>6, <2>8, <2>9, <2>10 DEF Good, Coherent
  <2>12. /\ Good(io', submitted) /\ io'.floor = n.floor /\ io'.played = n.played
         /\ io'.pipe = Append(n.pipe, Frame(kind, n.floor.items))
    BY <2>1, <2>5, <2>11, PushGood, ZenonT(40)
  <2> QED BY <1>r, <2>1, <2>2, <2>4, <2>6, <2>12
<1>3. CASE EndStream
  <2> DEFINE b == Push(io, "end")
  <2>1. /\ io.floor.phase \in {"preparing", "playing"} /\ I \cap Streamed # {}
        /\ io' = Settle(b)
        /\ UNCHANGED <<resuming, frag, botOn, up, submitted, events, clipped>>
    BY <1>3 DEF EndStream
  <2>2. /\ Good(b, submitted) /\ b.floor = io.floor /\ b.played = io.played
        /\ b.pipe = Append(io.pipe, Frame("end", I))
    BY <1>a, PushGood
  <2> HIDE DEF b
  <2>3. Unheard(b) = {}
    BY <1>s, <2>1, <2>2 DEF Unheard
  <2>4. /\ Good(io', submitted) /\ io'.played = b.played
        /\ b.floor.phase = "preparing" =>
             io'.pipe = b.pipe /\ io'.floor.phase \in {"free", "preparing"}
        /\ b.floor.phase \in {"playing", "stopping"} =>
             /\ io'.pipe = Append(b.pipe, Frame("done", b.floor.items))
             /\ io'.floor.phase = "ended" /\ io'.floor.items = b.floor.items
    <3>1. b.floor.phase \in {"preparing", "playing", "stopping"}
      BY <2>1, <2>2
    <3> QED BY <2>1, <2>2, <2>3, <3>1, SettleGood, Zenon
  <2>5. CASE io.floor.phase = "preparing"
    BY <1>r, <2>1, <2>2, <2>4, <2>5
  <2>6. CASE io.floor.phase = "playing"
    BY <1>r, <2>1, <2>2, <2>4, <2>6
  <2> QED BY <2>1, <2>5, <2>6
<1>4. CASE Cleanup
  <2>1. /\ io.floor.phase = "stopping" /\ io' = Settle(io)
        /\ UNCHANGED <<resuming, frag, botOn, up, submitted, events, clipped>>
    BY <1>4 DEF Cleanup
  <2>2. Unheard(io) = {}
    BY <2>1 DEF Unheard
  <2>3. /\ Good(io', submitted) /\ io'.played = io.played
        /\ io'.pipe = Append(io.pipe, Frame("done", I))
        /\ io'.floor.phase = "ended" /\ io'.floor.items = I
    BY <1>a, <2>1, <2>2, SettleGood
  <2> QED BY <1>r, <2>1, <2>3
<1> QED BY <1>1, <1>2, <1>3, <1>4 DEF Task
=============================================================================
