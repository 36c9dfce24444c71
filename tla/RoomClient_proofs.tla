-------------------------- MODULE RoomClient_proofs --------------------------
(***************************************************************************)
(* Proofs about RoomClient, for any participants, sessions, chunks, files  *)
(* and limits.                                                             *)
(*                                                                         *)
(* Two invariants that hold together.  Sessions relates the table of the   *)
(* room, the handlers that wait, the departures that are handled and the   *)
(* table of the endpoint: what has still to be announced of a participant  *)
(* is announced in the order it happened.  Audio relates the table of the  *)
(* tracks, LiveKit's permissions, the tracks themselves and the callback   *)
(* that is under way: what is not in the table is silent, and what is in   *)
(* the table came after its participant's last flush.                      *)
(***************************************************************************)
EXTENDS RoomClient, Subsequences_proofs

-----------------------------------------------------------------------------
(* Sums of lengths. *)

\* f has the sums of the first i lengths of q, for i up to n.
Sums(q, lens, n, f) ==
  f = [i \in 0 .. n |-> IF i = 0 THEN 0 ELSE f[i - 1] + lens[q[i]]]

\* The recursive definition in Length has a solution.
LEMMA SumsExist ==
  ASSUME NEW q, NEW lens
  PROVE  \A n \in Nat : \E f : Sums(q, lens, n, f)
<1> DEFINE T == {n \in Nat : \E f : Sums(q, lens, n, f)}
<1>1. 0 \in T
  <2> DEFINE f == [i \in 0 .. 0 |-> 0]
  <2>1. Sums(q, lens, 0, f)
    BY DEF Sums
  <2> QED BY <2>1
<1>2. ASSUME NEW n \in T PROVE n + 1 \in T
  <2>1. PICK f : Sums(q, lens, n, f)
    OBVIOUS
  <2> DEFINE g == [i \in 0 .. n + 1 |-> IF i = n + 1 THEN f[n] + lens[q[n + 1]] ELSE f[i]]
             h == [i \in 0 .. n + 1 |-> IF i = 0 THEN 0 ELSE g[i - 1] + lens[q[i]]]
  <2>2. \A i \in 0 .. n : f[i] = IF i = 0 THEN 0 ELSE f[i - 1] + lens[q[i]]
    BY <2>1 DEF Sums
  <2>3. \A i \in 0 .. n + 1 : g[i] = IF i = 0 THEN 0 ELSE g[i - 1] + lens[q[i]]
    <3>1. TAKE i \in 0 .. n + 1
    <3>2. CASE i = n + 1
      BY <3>2
    <3>3. CASE i # n + 1
      BY <2>2, <3>3
    <3> QED BY <3>2, <3>3
  <2>4. g = h
    BY <2>3, Zenon
  <2>5. Sums(q, lens, n + 1, g)
    BY <2>4 DEF Sums
  <2> QED BY <2>5
<1> HIDE DEF T
<1>3. Nat \subseteq T
  BY <1>1, <1>2, SetInduction
<1> QED BY <1>3 DEF T

\* Length is the last sum.
LEMMA LengthIsSum ==
  ASSUME NEW S, NEW q \in Seq(S), NEW lens
  PROVE  \E f : /\ Length(q, lens) = f[Len(q)] /\ f[0] = 0
                /\ \A i \in 1 .. Len(q) : f[i] = f[i - 1] + lens[q[i]]
<1> DEFINE f == CHOOSE g : Sums(q, lens, Len(q), g)
<1>1. Len(q) \in Nat
  BY LenProperties
<1>2. Length(q, lens) = f[Len(q)]
  BY Zenon DEF Length, Sums
<1>3. Sums(q, lens, Len(q), f)
  BY <1>1, SumsExist, Zenon
<1> HIDE DEF f
<1>4. \A i \in 0 .. Len(q) : f[i] = IF i = 0 THEN 0 ELSE f[i - 1] + lens[q[i]]
  BY <1>3, Zenon DEF Sums
<1>5. \A i \in 1 .. Len(q) : i \in 0 .. Len(q) /\ i # 0
  BY <1>1
<1>6. 0 \in 0 .. Len(q)
  BY <1>1
<1>7. f[0] = 0
  BY <1>4, <1>6
<1>8. \A i \in 1 .. Len(q) : f[i] = f[i - 1] + lens[q[i]]
  BY <1>4, <1>5, Zenon
<1> QED BY <1>2, <1>7, <1>8

\* The lengths of two queues together.
LEMMA LengthConcat ==
  ASSUME NEW S, NEW a \in Seq(S), NEW b \in Seq(S), NEW lens, \A x \in S : lens[x] \in Nat
  PROVE  /\ Length(a, lens) \in Nat /\ Length(b, lens) \in Nat
         /\ Length(a \o b, lens) = Length(a, lens) + Length(b, lens)
<1>1. /\ Len(a) \in Nat /\ Len(b) \in Nat /\ a \o b \in Seq(S) /\ Len(a \o b) = Len(a) + Len(b)
      /\ \A i \in 1 .. Len(a) : a[i] \in S
      /\ \A i \in 1 .. Len(b) : b[i] \in S
  BY LenProperties, ElementOfSeq, ConcatProperties
<1>2. /\ \A i \in 1 .. Len(a) : (a \o b)[i] = a[i]
      /\ \A i \in 1 .. Len(b) : (a \o b)[Len(a) + i] = b[i]
  <2>1. \A i \in 1 .. Len(a) + Len(b) :
          (a \o b)[i] = IF i <= Len(a) THEN a[i] ELSE b[i - Len(a)]
    BY <1>1, ConcatProperties
  <2>2. ASSUME NEW i \in 1 .. Len(a) PROVE (a \o b)[i] = a[i]
    BY <1>1, <2>1
  <2>3. ASSUME NEW i \in 1 .. Len(b) PROVE (a \o b)[Len(a) + i] = b[i]
    <3>1. Len(a) + i \in 1 .. Len(a) + Len(b) /\ ~(Len(a) + i <= Len(a)) /\ (Len(a) + i) - Len(a) = i
      BY <1>1
    <3> QED BY <2>1, <3>1
  <2> QED BY <2>2, <2>3
<1>3. PICK f : /\ Length(a \o b, lens) = f[Len(a \o b)] /\ f[0] = 0
               /\ \A i \in 1 .. Len(a \o b) : f[i] = f[i - 1] + lens[(a \o b)[i]]
  BY <1>1, LengthIsSum
<1>4. PICK g : /\ Length(a, lens) = g[Len(a)] /\ g[0] = 0
               /\ \A i \in 1 .. Len(a) : g[i] = g[i - 1] + lens[a[i]]
  BY LengthIsSum
<1>5. PICK h : /\ Length(b, lens) = h[Len(b)] /\ h[0] = 0
               /\ \A i \in 1 .. Len(b) : h[i] = h[i - 1] + lens[b[i]]
  BY LengthIsSum
<1> DEFINE A == {n \in Nat : n <= Len(a) => g[n] \in Nat /\ f[n] = g[n]}
           B == {n \in Nat : n <= Len(b) => h[n] \in Nat /\ f[Len(a) + n] = g[Len(a)] + h[n]}
<1>6. Nat \subseteq A
  <2>1. 0 \in A
    BY <1>3, <1>4
  <2>2. ASSUME NEW n \in Nat, n \in A PROVE n + 1 \in A
    <3> SUFFICES ASSUME n + 1 <= Len(a) PROVE g[n + 1] \in Nat /\ f[n + 1] = g[n + 1]
      OBVIOUS
    <3>1. n + 1 \in 1 .. Len(a) /\ n + 1 \in 1 .. Len(a \o b) /\ (n + 1) - 1 = n /\ n <= Len(a)
      BY <1>1
    <3>2. g[n + 1] = g[n] + lens[a[n + 1]] /\ lens[a[n + 1]] \in Nat
      BY <1>1, <1>4, <3>1
    <3>3. f[n + 1] = f[n] + lens[a[n + 1]]
      BY <1>2, <1>3, <3>1
    <3> QED BY <2>2, <3>1, <3>2, <3>3
  <2> HIDE DEF A
  <2> QED BY <2>1, <2>2, SetInduction
<1>7. g[Len(a)] \in Nat /\ f[Len(a)] = g[Len(a)]
  BY <1>1, <1>6
<1>8. Nat \subseteq B
  <2>1. 0 \in B
    BY <1>1, <1>5, <1>7
  <2>2. ASSUME NEW n \in Nat, n \in B PROVE n + 1 \in B
    <3> SUFFICES ASSUME n + 1 <= Len(b)
                 PROVE  h[n + 1] \in Nat /\ f[Len(a) + (n + 1)] = g[Len(a)] + h[n + 1]
      OBVIOUS
    <3>1. /\ n + 1 \in 1 .. Len(b) /\ Len(a) + (n + 1) \in 1 .. Len(a \o b)
          /\ (n + 1) - 1 = n /\ n <= Len(b) /\ (Len(a) + (n + 1)) - 1 = Len(a) + n
      BY <1>1
    <3>2. h[n + 1] = h[n] + lens[b[n + 1]] /\ lens[b[n + 1]] \in Nat
      BY <1>1, <1>5, <3>1
    <3>3. f[Len(a) + (n + 1)] = f[Len(a) + n] + lens[b[n + 1]]
      BY <1>2, <1>3, <3>1
    <3>4. h[n] \in Nat /\ f[Len(a) + n] = g[Len(a)] + h[n]
      BY <2>2, <3>1
    <3> QED BY SMTT(30), <1>7, <3>2, <3>3, <3>4
  <2> HIDE DEF B
  <2> QED BY <2>1, <2>2, SetInduction
<1>9. h[Len(b)] \in Nat /\ f[Len(a) + Len(b)] = g[Len(a)] + h[Len(b)]
  BY <1>1, <1>8
<1> QED BY <1>1, <1>3, <1>4, <1>5, <1>7, <1>9

\* Length looks at the elements only.
LEMMA LengthAgrees ==
  ASSUME NEW S, NEW q \in Seq(S), NEW lens, NEW other, \A x \in S : other[x] = lens[x]
  PROVE  Length(q, other) = Length(q, lens)
<1>1. Len(q) \in Nat /\ \A i \in 1 .. Len(q) : q[i] \in S
  BY LenProperties, ElementOfSeq
<1>2. PICK f : /\ Length(q, lens) = f[Len(q)] /\ f[0] = 0
               /\ \A i \in 1 .. Len(q) : f[i] = f[i - 1] + lens[q[i]]
  BY LengthIsSum
<1>3. PICK g : /\ Length(q, other) = g[Len(q)] /\ g[0] = 0
               /\ \A i \in 1 .. Len(q) : g[i] = g[i - 1] + other[q[i]]
  BY LengthIsSum
<1> DEFINE A == {n \in Nat : n <= Len(q) => g[n] = f[n]}
<1>4. Nat \subseteq A
  <2>1. 0 \in A
    BY <1>2, <1>3
  <2>2. ASSUME NEW n \in Nat, n \in A PROVE n + 1 \in A
    <3> SUFFICES ASSUME n + 1 <= Len(q) PROVE g[n + 1] = f[n + 1]
      OBVIOUS
    <3>1. n + 1 \in 1 .. Len(q) /\ (n + 1) - 1 = n /\ n <= Len(q)
      BY <1>1
    <3>2. g[n + 1] = g[n] + lens[q[n + 1]] /\ f[n + 1] = f[n] + lens[q[n + 1]]
      BY <1>1, <1>2, <1>3, <3>1
    <3> QED BY <2>2, <3>1, <3>2
  <2> HIDE DEF A
  <2> QED BY <2>1, <2>2, SetInduction
<1>5. g[Len(q)] = f[Len(q)]
  BY <1>1, <1>4
<1> QED BY <1>2, <1>3, <1>5

\* No frames have no length, and one has its own.
LEMMA LengthOfOne ==
  ASSUME NEW x, NEW lens, lens[x] \in Nat
  PROVE  Length(<<>>, lens) = 0 /\ Length(<<x>>, lens) = lens[x]
<1> DEFINE q == <<x>>
<1>1. <<>> \in Seq({x}) /\ Len(<<>>) = 0 /\ q \in Seq({x}) /\ Len(q) = 1 /\ q[1] = x
  BY EmptySeq
<1>2. PICK f : Length(<<>>, lens) = f[0] /\ f[0] = 0
  BY <1>1, LengthIsSum
<1> HIDE DEF q
<1>3. PICK g : /\ Length(q, lens) = g[Len(q)] /\ g[0] = 0
               /\ \A i \in 1 .. Len(q) : g[i] = g[i - 1] + lens[q[i]]
  BY <1>1, LengthIsSum
<1>4. 1 \in 1 .. Len(q) /\ 1 - 1 = 0
  BY <1>1
<1>5. g[1] = g[0] + lens[x]
  BY <1>1, <1>3, <1>4
<1>6. Length(q, lens) = lens[x]
  BY <1>1, <1>3, <1>5
<1> QED BY <1>2, <1>6 DEF q

-----------------------------------------------------------------------------
(* Types. *)

\* A track, when n chunks have been received.
TrackType(n) ==
  [phase : {"none", "up", "gone"}, pid : Pids \cup {None}, sess : 0 .. MaxVisits,
   queue : Seq(1 .. n), queued : Nat, flag : BOOLEAN, busy : BOOLEAN, lk : Seq(1 .. n)]

HandlerType == [kind : {"joined", "greet", "left"}, pid : Pids, sess : 1 .. MaxVisits]

LeavingType ==
  [pid : Pids, sess : 1 .. MaxVisits, phase : {"files", "told"}, track : 0 .. MaxChunks]

FileType ==
  [phase : {"none", "reading", "read", "ending", "over"}, pid : Pids \cup {None},
   sess : 0 .. MaxVisits]

CallType ==
  {NoCall} \cup [phase : {"close", "publish", "discard"}, pid : Pids, sess : 1 .. MaxVisits,
                 track : 0 .. MaxChunks]

\* The sessions and their handlers.
RoomShape ==
  /\ phase \in {"connecting", "greeting", "up", "closing", "draining", "down"}
  /\ visits \in [Pids -> 0 .. MaxVisits] /\ sess \in [Pids -> 0 .. MaxVisits]
  /\ conn \in [Pids -> 0 .. MaxVisits]
  /\ spawned \in Seq(HandlerType) /\ leaving \in SUBSET LeavingType

\* The bounds are numbers.
LEMMA Bounds ==
  /\ MaxVisits \in Nat /\ MaxChunks \in Nat /\ MaxBuffer \in Nat /\ MaxFiles \in Nat
  /\ Lens \subseteq Nat /\ IsFiniteSet(Pids) /\ None \notin Pids
BY RoomClientAssumption

\* The parts of a queue that is not empty.
LEMMA TakeHead ==
  ASSUME NEW S, NEW q \in Seq(S), q # <<>>
  PROVE  /\ Head(q) \in S /\ Head(q) = q[1] /\ 1 \in DOMAIN q /\ Tail(q) \in Seq(S)
         /\ \A i \in DOMAIN Tail(q) : i + 1 \in DOMAIN q /\ Tail(q)[i] = q[i + 1] /\ i + 1 > 1
         /\ \A i \in DOMAIN q : i # 1 => i - 1 \in DOMAIN Tail(q) /\ Tail(q)[i - 1] = q[i]
<1>1. /\ Len(Tail(q)) = Len(q) - 1 /\ \A i \in 1 .. Len(Tail(q)) : Tail(q)[i] = q[i + 1]
      /\ Head(q) \in S /\ Head(q) = q[1] /\ Tail(q) \in Seq(S) /\ Len(q) # 0
  BY HeadTailProperties, EmptySeq
<1>2. DOMAIN q = 1 .. Len(q) /\ Len(q) \in Nat /\ DOMAIN Tail(q) = 1 .. Len(Tail(q))
  BY <1>1, LenProperties
<1>3. ASSUME NEW i \in DOMAIN q, i # 1
      PROVE  i - 1 \in DOMAIN Tail(q) /\ Tail(q)[i - 1] = q[i]
  <2>1. i - 1 \in 1 .. Len(Tail(q)) /\ (i - 1) + 1 = i
    BY <1>1, <1>2, <1>3
  <2> QED BY <1>1, <1>2, <2>1
<1> QED BY <1>1, <1>2, <1>3

\* A queue with one more.
LEMMA PutLast ==
  ASSUME NEW S, NEW q \in Seq(S), NEW x \in S
  PROVE  /\ Append(q, x) \in Seq(S)
         /\ \A i \in DOMAIN Append(q, x) :
              \/ i \in DOMAIN q /\ Append(q, x)[i] = q[i]
              \/ i = Len(q) + 1 /\ Append(q, x)[i] = x
         /\ \A i \in DOMAIN q : i < Len(q) + 1 /\ i \in DOMAIN Append(q, x) /\ Append(q, x)[i] = q[i]
         /\ Len(q) + 1 \in DOMAIN Append(q, x) /\ Append(q, x)[Len(q) + 1] = x
         /\ Len(Append(q, x)) = Len(q) + 1 /\ Len(q) \in Nat
<1>1. DOMAIN Append(q, x) = 1 .. Len(q) + 1 /\ DOMAIN q = 1 .. Len(q) /\ Len(q) \in Nat
  BY AppendProperties, LenProperties
<1>2. QED
  BY <1>1, AppendProperties

\* What a larger set has is a larger set of sequences.
LEMMA SeqGrows ==
  ASSUME NEW n \in Nat, NEW q \in Seq(1 .. n)
  PROVE  q \in Seq(1 .. n + 1)
<1>1. Len(q) \in Nat /\ q \in [1 .. Len(q) -> 1 .. n]
  BY LenProperties
<1>2. q \in [1 .. Len(q) -> 1 .. n + 1]
  BY <1>1
<1> QED BY <1>1, <1>2, SeqDef

\* push() drops k frames at the front and puts one behind.
PushDrops(r, n, w, k) ==
  /\ w[n] <= MaxBuffer
  /\ k = Len(r.queue) \/ r.queued - Length(SubSeq(r.queue, 1, k), w) + w[n] <= MaxBuffer
  /\ Push(r, n) = [r EXCEPT !.queue = Append(SubSeq(r.queue, k + 1, Len(r.queue)), n),
                            !.flag = TRUE,
                            !.queued = r.queued - Length(SubSeq(r.queue, 1, k), w) + w[n]]

\* push() drops what has to go at the front, and puts the frame behind, or leaves the backlog alone.
LEMMA PushCases ==
  ASSUME NEW r, Len(r.queue) \in Nat, NEW n, NEW w, w = chunks', w[n] \in Nat
  PROVE  \/ Push(r, n) = r
         \/ \E k \in 0 .. Len(r.queue) : PushDrops(r, n, w, k)
<1> DEFINE fits(k) == k = Len(r.queue) \/ r.queued - Length(SubSeq(r.queue, 1, k), w) + w[n] <= MaxBuffer
           K == {k \in 0 .. Len(r.queue) : fits(k)}
           c == CHOOSE k \in 0 .. Len(r.queue) : fits(k) /\ \A j \in 0 .. k - 1 : ~fits(j)
<1>1. \E k \in 0 .. Len(r.queue) : fits(k) /\ \A j \in 0 .. k - 1 : ~fits(j)
  <2>1. K \in SUBSET Nat /\ Len(r.queue) \in K
    OBVIOUS
  <2> HIDE DEF fits
  <2>2. PICK k \in K : \A m \in K : k <= m
    <3> HIDE DEF K
    <3> QED BY <2>1, LeastNatural
  <2>3. ASSUME NEW j \in 0 .. k - 1, fits(j) PROVE FALSE
    <3>1. j \in K /\ k \in Nat /\ j \in Nat /\ j < k
      BY <2>2, <2>3
    <3> QED BY <2>2, <3>1
  <2> QED BY <2>2, <2>3
<1>2. c \in 0 .. Len(r.queue) /\ fits(c)
  <2> HIDE DEF fits
  <2> QED BY <1>1, Zenon
<1>3. Push(r, n) = IF w[n] > MaxBuffer THEN r
                   ELSE [r EXCEPT !.queue = Append(SubSeq(r.queue, c + 1, Len(r.queue)), n),
                                  !.flag = TRUE,
                                  !.queued = r.queued - Length(SubSeq(r.queue, 1, c), w) + w[n]]
  BY SMT DEF Push
<1> HIDE DEF c, fits
<1>4. CASE w[n] > MaxBuffer
  BY <1>3, <1>4
<1>5. CASE ~(w[n] > MaxBuffer)
  <2> DEFINE R(k) == [r EXCEPT !.queue = Append(SubSeq(r.queue, k + 1, Len(r.queue)), n),
                               !.flag = TRUE,
                               !.queued = r.queued - Length(SubSeq(r.queue, 1, k), w) + w[n]]
  <2>1. Push(r, n) = R(c)
    BY <1>3, <1>5
  <2>2. w[n] <= MaxBuffer
    BY <1>5, Bounds
  <2> HIDE DEF R
  <2>3. PushDrops(r, n, w, c)
    BY <1>2, <2>1, <2>2 DEF fits, R, PushDrops
  <2> QED BY <1>2, <2>3
<1> QED BY <1>4, <1>5

\* push() keeps count, and puts nothing into the backlog but the frame.
LEMMA PushEffect ==
  ASSUME NEW m \in Nat, NEW r \in TrackType(m), NEW n \in 1 .. m,
         NEW w, w = chunks', \A x \in 1 .. m : w[x] \in Nat,
         r.queued = Length(r.queue, w), r.queued <= MaxBuffer
  PROVE  /\ Push(r, n) \in TrackType(m)
         /\ Push(r, n).phase = r.phase /\ Push(r, n).pid = r.pid /\ Push(r, n).sess = r.sess
         /\ Push(r, n).lk = r.lk
         /\ Push(r, n).queued = Length(Push(r, n).queue, w) /\ Push(r, n).queued <= MaxBuffer
         /\ \A i \in DOMAIN Push(r, n).queue :
              \/ Push(r, n).queue[i] = n
              \/ \E j \in DOMAIN r.queue : Push(r, n).queue[i] = r.queue[j]
<1> DEFINE D == 1 .. m
<1>1. /\ r.queue \in Seq(D) /\ Len(r.queue) \in Nat /\ r.queued \in Nat /\ w[n] \in Nat
      /\ DOMAIN r.queue = 1 .. Len(r.queue)
      /\ n \in D /\ \A x \in D : w[x] \in Nat
  BY LenProperties DEF TrackType
<1> HIDE DEF D
<1>4. \A y, z \in Seq(D) : /\ Length(y, w) \in Nat /\ Length(z, w) \in Nat
                           /\ Length(y \o z, w) = Length(y, w) + Length(z, w)
  <2>1. \A x \in D : w[x] \in Nat
    BY <1>1
  <2> QED BY <2>1, LengthConcat
<1>2. CASE Push(r, n) = r
  BY <1>2
<1>3. CASE Push(r, n) # r
  <2>1. PICK k \in 0 .. Len(r.queue) : PushDrops(r, n, w, k)
    BY <1>1, <1>3, PushCases
  <2> DEFINE a == SubSeq(r.queue, 1, k)
             b == SubSeq(r.queue, k + 1, Len(r.queue))
  <2>2. a \in Seq(D) /\ b \in Seq(D) /\ r.queue = a \o b
    <3>1. k \in Nat /\ k + 1 \in Int /\ \A i \in 1 .. Len(r.queue) : r.queue[i] \in D
      BY <1>1, ElementOfSeq
    <3>2. a \in Seq(D)
      <4>1. 1 \in Int /\ k \in Int /\ \A i \in 1 .. k : r.queue[i] \in D
        BY <1>1, <3>1
      <4> QED BY <4>1, SubSeqProperties
    <3>5. b \in Seq(D)
      <4>1. k + 1 \in Int /\ Len(r.queue) \in Int /\ \A i \in k + 1 .. Len(r.queue) : r.queue[i] \in D
        BY <1>1, <3>1
      <4> QED BY <4>1, SubSeqProperties
    <3>3. SubSeq(r.queue, 1, k) \o SubSeq(r.queue, k + 1, Len(r.queue)) = SubSeq(r.queue, 1, Len(r.queue))
      <4>1. /\ 1 \in 1 .. Len(r.queue) + 1 /\ k \in 1 - 1 .. Len(r.queue)
            /\ Len(r.queue) \in k .. Len(r.queue)
        BY <1>1, <3>1
      <4> QED BY <1>1, <4>1, ConcatAdjacentSubSeq
    <3>4. SubSeq(r.queue, 1, Len(r.queue)) = r.queue
      BY <1>1, SubSeqFull
    <3> QED BY <3>2, <3>3, <3>4, <3>5
  <2>3. \A i \in DOMAIN b : \E j \in DOMAIN r.queue : b[i] = r.queue[j]
    <3>1. /\ DOMAIN b = 1 .. Len(b) /\ Len(b) = IF k + 1 <= Len(r.queue) THEN Len(r.queue) - (k + 1) + 1 ELSE 0
          /\ \A i \in 1 .. Len(r.queue) - (k + 1) + 1 : b[i] = r.queue[(k + 1) + i - 1]
      <4>1. \A i \in k + 1 .. Len(r.queue) : r.queue[i] \in D
        BY <1>1, ElementOfSeq
      <4> QED BY <1>1, <2>2, <4>1, SubSeqProperties, LenProperties
    <3> HIDE DEF b
    <3>2. ASSUME NEW i \in DOMAIN b PROVE (k + 1) + i - 1 \in DOMAIN r.queue /\ b[i] = r.queue[(k + 1) + i - 1]
      <4>1. CASE k + 1 <= Len(r.queue)
        <5>1. i \in 1 .. Len(r.queue) - (k + 1) + 1
          BY <1>1, <3>1, <4>1
        <5>2. b[i] = r.queue[(k + 1) + i - 1]
          BY <3>1, <5>1
        <5>3. (k + 1) + i - 1 \in 1 .. Len(r.queue)
          BY <1>1, <4>1, <5>1
        <5> QED BY <1>1, <5>2, <5>3
      <4>2. CASE ~(k + 1 <= Len(r.queue))
        BY <1>1, <3>1, <4>2
      <4> QED BY <4>1, <4>2
    <3> QED BY <3>2
  <2>4. k = Len(r.queue) => b = <<>>
    BY <1>1, SubSeqEmpty
  <2>5. /\ Push(r, n) = [r EXCEPT !.queue = Append(b, n), !.flag = TRUE,
                                  !.queued = r.queued - Length(a, w) + w[n]]
        /\ k = Len(r.queue) \/ r.queued - Length(a, w) + w[n] <= MaxBuffer
        /\ w[n] <= MaxBuffer
    BY <2>1 DEF PushDrops
  <2> HIDE DEF a, b
  <2>6. /\ Length(a, w) \in Nat /\ Length(b, w) \in Nat /\ r.queued = Length(a, w) + Length(b, w)
    <3>1. Length(a, w) \in Nat /\ Length(b, w) \in Nat /\ Length(a \o b, w) = Length(a, w) + Length(b, w)
      BY <1>4, <2>2
    <3> QED BY <2>2, <3>1
  <2>7. Length(Append(b, n), w) = Length(b, w) + w[n]
    <3>1. <<n>> \in Seq(D) /\ Append(b, n) = b \o <<n>>
      BY <1>1, <2>2, AppendIsConcat
    <3>2. Length(<<n>>, w) = w[n]
      BY <1>1, LengthOfOne
    <3>3. Length(b \o <<n>>, w) = Length(b, w) + Length(<<n>>, w)
      BY <1>4, <2>2, <3>1
    <3> QED BY <3>1, <3>2, <3>3
  <2>8. /\ Append(b, n) \in Seq(D)
        /\ \A i \in DOMAIN Append(b, n) : \/ i \in DOMAIN b /\ Append(b, n)[i] = b[i]
                                          \/ i = Len(b) + 1 /\ Append(b, n)[i] = n
    BY <1>1, <2>2, PutLast
  <2>9. r.queued - Length(a, w) + w[n] = Length(b, w) + w[n] /\ r.queued - Length(a, w) + w[n] \in Nat
    BY <1>1, <2>6
  <2>10. r.queued - Length(a, w) + w[n] <= MaxBuffer
    <3>1. CASE k = Len(r.queue)
      <4>1. Length(b, w) = 0
        BY <1>1, <2>4, <3>1, LengthOfOne
      <4> QED BY <1>1, <2>5, <2>9, <4>1
    <3> QED BY <2>5, <3>1
  <2> DEFINE x == r.queued - Length(a, w) + w[n]
             c == Append(b, n)
  <2>11. /\ Push(r, n) = [r EXCEPT !.queue = c, !.flag = TRUE, !.queued = x]
         /\ c \in Seq(D) /\ x \in Nat /\ x <= MaxBuffer /\ x = Length(c, w)
         /\ \A i \in DOMAIN c : c[i] = n \/ \E j \in DOMAIN r.queue : c[i] = r.queue[j]
    <3>1. \A i \in DOMAIN c : c[i] = n \/ \E j \in DOMAIN r.queue : c[i] = r.queue[j]
      BY <2>3, <2>8
    <3> HIDE DEF a, b
    <3> QED BY <2>5, <2>7, <2>8, <2>9, <2>10, <3>1
  <2> HIDE DEF x, c
  <2>12. Push(r, n) \in TrackType(m)
    BY <2>11 DEF TrackType, D
  <2>13. /\ Push(r, n).phase = r.phase /\ Push(r, n).pid = r.pid /\ Push(r, n).sess = r.sess
         /\ Push(r, n).lk = r.lk /\ Push(r, n).queue = c /\ Push(r, n).queued = x
    BY <2>11 DEF TrackType
  <2> QED BY <2>11, <2>12, <2>13
<1> QED BY <1>2, <1>3

-----------------------------------------------------------------------------
(* The types of the sessions, their handlers and the files. *)

\* connect() spawns one handler for everybody in the room.
LEMMA GreetsEverybody ==
  ASSUME RoomShape, Connect
  PROVE  \E N \in Nat : \E q \in [1 .. N -> Pids], b \in Seq(HandlerType) :
           /\ Len(b) = N /\ spawned' = spawned \o b
           /\ \A m, n \in 1 .. N : q[m] = q[n] => m = n
           /\ \A p \in Pids : sess[p] # 0 => \E n \in 1 .. N : q[n] = p
           /\ \A n \in 1 .. N : sess[q[n]] # 0 /\ b[n] = Handler("greet", q[n], sess[q[n]])
<1> DEFINE S == {p \in Pids : sess[p] # 0}
           N == Cardinality(S)
<1>1. IsFiniteSet(S) /\ N \in Nat
  <2>1. IsFiniteSet(S)
    BY Bounds, FS_Subset
  <2> QED BY <2>1, FS_CardinalityType
<1>2. PICK q \in [1 .. N -> S] :
        /\ \A m, n \in DOMAIN q : q[m] = q[n] => m = n
        /\ spawned' = spawned \o [n \in DOMAIN q |-> Handler("greet", q[n], sess[q[n]])]
  BY Zenon DEF Connect
<1> DEFINE b == [n \in DOMAIN q |-> Handler("greet", q[n], sess[q[n]])]
<1>3. b \in [1 .. N -> HandlerType] /\ \A n \in 1 .. N : b[n] = Handler("greet", q[n], sess[q[n]])
  BY <1>2 DEF Handler, HandlerType, RoomShape
<1>4. b \in Seq(HandlerType) /\ Len(b) = N
  <2> HIDE DEF b, N
  <2>1. b \in Seq(HandlerType) /\ DOMAIN b = 1 .. N
    BY <1>1, <1>3, SeqDef
  <2> QED BY <1>1, <2>1, LenProperties
<1>5. \A p \in S : \E n \in 1 .. N : q[n] = p
  <2>1. q \in Injection(1 .. N, S)
    BY <1>2 DEF Injection, IsInjective
  <2>2. ExistsBijection(1 .. N, S)
    BY <1>1, FS_CardinalityType
  <2>3. Cardinality(1 .. N) = N
    <3> HIDE DEF N
    <3>1. 1 \in Int /\ N \in Int
      BY <1>1
    <3>2. Cardinality(1 .. N) = IF 1 > N THEN 0 ELSE N - 1 + 1
      BY <3>1, FS_Interval
    <3> QED BY <1>1, <3>2
  <2> HIDE DEF S, N
  <2>4. q \in Surjection(1 .. N, S) <=> Cardinality(1 .. N) = Cardinality(S)
    BY <1>1, <2>1, FS_Injection
  <2>5. q \in Surjection(1 .. N, S)
    BY <2>3, <2>4 DEF N
  <2> QED BY <2>5 DEF Surjection
<1>6. N \in Nat /\ q \in [1 .. N -> Pids] /\ DOMAIN q = 1 .. N /\ \A n \in 1 .. N : sess[q[n]] # 0
  BY <1>1, <1>2
<1>7. \A p \in Pids : sess[p] # 0 => \E n \in 1 .. N : q[n] = p
  BY <1>5
<1>8. spawned' = spawned \o b
  BY <1>2
<1>9. /\ Len(b) = N /\ spawned' = spawned \o b
      /\ \A m, n \in 1 .. N : q[m] = q[n] => m = n
      /\ \A p \in Pids : sess[p] # 0 => \E n \in 1 .. N : q[n] = p
      /\ \A n \in 1 .. N : sess[q[n]] # 0 /\ b[n] = Handler("greet", q[n], sess[q[n]])
  <2> HIDE DEF N, b
  <2> QED BY <1>2, <1>3, <1>4, <1>6, <1>7, <1>8
<1> HIDE DEF N, b
<1> QED BY <1>4, <1>6, <1>9

\* The steps that change the sessions or their handlers.
RoomStep ==
  \/ \E p \in Pids : Enter(p) \/ Exit(p)
  \/ Connect \/ Greeted \/ HandleJoined \/ HandleLeft
  \/ \E h \in leaving : NotifyLeft(h) \/ HandledLeft(h)
  \/ Disconnect \/ DisconnectHandlers \/ DisconnectPipes

\* The other steps leave them alone.
LEMMA RoomSteps ==
  ASSUME [Next]_vars
  PROVE  RoomStep \/ UNCHANGED sessionVars
<1>1. ASSUME NEW p \in Pids, NEW d \in Lens, SendReturnAudio(p, d) PROVE UNCHANGED sessionVars
  BY <1>1 DEF SendReturnAudio, audioRest
<1>2. ASSUME NEW p \in Pids, FlushReturnAudio(p) PROVE UNCHANGED sessionVars
  BY <1>2, Zenon DEF FlushReturnAudio
<1>3. ASSUME NEW p \in Pids, NEW f \in Files, OpenFile(f, p) PROVE UNCHANGED sessionVars
  BY <1>3, Zenon DEF OpenFile
<1>4. ASSUME CallStep \/ PublishFails PROVE UNCHANGED sessionVars
  BY <1>4, Zenon DEF CallStep, OldClosed, Published, Discarded, PublishFails, audioRest
<1>5. ASSUME NEW t \in Tracks, TrackStep(t) PROVE UNCHANGED sessionVars
  BY <1>5, Zenon DEF TrackStep, Drain, Captured, Play
<1>6. ASSUME NEW f \in Files, FileStep(f) PROVE UNCHANGED sessionVars
  BY <1>6, Zenon DEF FileStep, ReadFile, PushFile, FileDone
<1>7. ASSUME UNCHANGED vars PROVE UNCHANGED sessionVars
  BY <1>7, Zenon DEF vars
<1> QED BY <1>1, <1>2, <1>3, <1>4, <1>5, <1>6, <1>7 DEF Next, HandlerStep, RoomStep

LEMMA RoomShapeStays ==
  ASSUME RoomShape, entry \in [Pids -> 0 .. MaxChunks], [Next]_vars
  PROVE  RoomShape'
<1>1. CASE UNCHANGED sessionVars
  BY <1>1 DEF RoomShape, sessionVars
<1>2. ASSUME NEW p \in Pids, Enter(p) PROVE RoomShape'
  <2>1. visits[p] + 1 \in 1 .. MaxVisits /\ visits' \in [Pids -> 0 .. MaxVisits]
        /\ sess' = [sess EXCEPT ![p] = visits[p] + 1]
    BY <1>2, Bounds DEF Enter, RoomShape
  <2>2. sess' \in [Pids -> 0 .. MaxVisits]
    BY <2>1 DEF RoomShape
  <2>3. Handler("joined", p, visits'[p]) \in HandlerType
    BY <1>2, <2>1 DEF Enter, RoomShape, Handler, HandlerType
  <2>4. spawned' \in Seq(HandlerType)
    BY <1>2, <2>3, AppendProperties DEF Enter, RoomShape
  <2> QED BY <1>2, <2>1, <2>2, <2>4 DEF Enter, RoomShape
<1>3. ASSUME NEW p \in Pids, Exit(p) PROVE RoomShape'
  <2>1. Handler("left", p, sess[p]) \in HandlerType /\ sess' \in [Pids -> 0 .. MaxVisits]
    BY <1>3, Bounds DEF Exit, RoomShape, Handler, HandlerType
  <2>2. spawned' \in Seq(HandlerType)
    BY <1>3, <2>1, AppendProperties DEF Exit, RoomShape
  <2> QED BY <1>3, <2>1, <2>2 DEF Exit, RoomShape
<1>4. CASE Connect
  <2>1. PICK b \in Seq(HandlerType) : spawned' = spawned \o b
    BY <1>4, GreetsEverybody
  <2>2. spawned' \in Seq(HandlerType)
    BY <2>1, ConcatProperties DEF RoomShape
  <2> QED BY <1>4, <2>2 DEF Connect, RoomShape
<1>5. CASE Greeted
  BY <1>5 DEF Greeted, RoomShape
<1>6. CASE HandleJoined
  <2>1. Head(spawned) \in HandlerType /\ spawned' \in Seq(HandlerType)
    <3>1. spawned \in Seq(HandlerType) /\ spawned # <<>> /\ spawned' = Tail(spawned)
      BY <1>6 DEF HandleJoined, RoomShape
    <3> QED BY <3>1, TakeHead
  <2>2. conn' \in [Pids -> 0 .. MaxVisits]
    <3> DEFINE h == Head(spawned)
    <3>1. conn' = [conn EXCEPT ![h.pid] = h.sess]
      BY <1>6, Zenon DEF HandleJoined
    <3>2. h.pid \in Pids /\ h.sess \in 0 .. MaxVisits
      BY <2>1, Bounds DEF HandlerType
    <3> HIDE DEF h
    <3> QED BY <3>1, <3>2 DEF RoomShape
  <2> QED BY <1>6, <2>1, <2>2 DEF HandleJoined, RoomShape
<1>7. CASE HandleLeft
  <2>1. Head(spawned) \in HandlerType /\ spawned' \in Seq(HandlerType)
    BY <1>7, TakeHead DEF HandleLeft, RoomShape
  <2>2. leaving' \in SUBSET LeavingType
    <3> DEFINE h == Head(spawned)
               t == entry[h.pid]
               mine == t # 0 /\ tracks[t].sess = h.sess
               l == [pid |-> h.pid, sess |-> h.sess, phase |-> "files",
                     track |-> IF mine THEN t ELSE 0]
    <3>1. leaving' = leaving \cup {l}
      BY <1>7, Zenon DEF HandleLeft
    <3>2. t \in 0 .. MaxChunks /\ 0 \in 0 .. MaxChunks
      BY <2>1, Bounds DEF HandlerType
    <3>3. (IF mine THEN t ELSE 0) \in 0 .. MaxChunks
      <4> HIDE DEF mine, t
      <4> QED BY <3>2
    <3>4. l \in LeavingType
      <4> HIDE DEF mine, t
      <4> QED BY <2>1, <3>3 DEF HandlerType, LeavingType
    <3> HIDE DEF l
    <3> QED BY <3>1, <3>4 DEF RoomShape
  <2>3. UNCHANGED <<phase, visits, sess, conn>>
    BY <1>7, Zenon DEF HandleLeft
  <2> QED BY <2>1, <2>2, <2>3 DEF RoomShape
<1>8. ASSUME NEW h \in leaving, NotifyLeft(h) PROVE RoomShape'
  <2>1. h \in LeavingType
    BY DEF RoomShape
  <2>2. conn' \in [Pids -> 0 .. MaxVisits]
    BY <1>8, <2>1, Bounds DEF NotifyLeft, RoomShape, LeavingType
  <2>3. [h EXCEPT !.phase = "told"] \in LeavingType
    BY <2>1 DEF LeavingType
  <2> QED BY <1>8, <2>2, <2>3 DEF NotifyLeft, RoomShape
<1>9. ASSUME NEW h \in leaving, HandledLeft(h) PROVE RoomShape'
  BY <1>9 DEF HandledLeft, RoomShape
<1>10. CASE Disconnect
  BY <1>10, Bounds DEF Disconnect, RoomShape, audioVars
<1>11. CASE DisconnectHandlers
  BY <1>11, EmptySeq DEF DisconnectHandlers, RoomShape, audioVars
<1>12. CASE DisconnectPipes
  BY <1>12 DEF DisconnectPipes, RoomShape
<1> QED
  BY <1>1, <1>2, <1>3, <1>4, <1>5, <1>6, <1>7, <1>8, <1>9, <1>10, <1>11, <1>12, RoomSteps
  DEF RoomStep

\* A transfer that is under way afterwards was so before, for the same session.
FilesEnd ==
  \A f \in Files : f \in Running' =>
    f \in Running /\ files'[f].pid = files[f].pid /\ files'[f].sess = files[f].sess

\* Only a file that is opened begins a transfer.
LEMMA FilesStep ==
  ASSUME RoomShape, files \in [Files -> FileType], [Next]_vars
  PROVE  /\ files' \in [Files -> FileType]
         /\ FilesEnd \/ \E f \in Files, p \in Pids : OpenFile(f, p)
<1> DEFINE Goal == files' \in [Files -> FileType] /\ FilesEnd
<1>1. ASSUME UNCHANGED files PROVE Goal
  BY <1>1 DEF FilesEnd, Running
<1>2. ASSUME NEW p \in Pids, NEW f \in Files, OpenFile(f, p)
      PROVE  files' \in [Files -> FileType]
  <2>1. PICK r \in FileType : files' = [files EXCEPT ![f] = r]
    <3>1. sess[p] \in 0 .. MaxVisits
      BY DEF RoomShape
    <3>2. /\ [phase |-> "reading", pid |-> p, sess |-> sess[p]] \in FileType
          /\ [NoFile EXCEPT !.phase = "over"] \in FileType
      BY <3>1, Bounds DEF FileType, NoFile
    <3> QED BY <1>2, <3>2, Zenon DEF OpenFile
  <2> QED BY <2>1
<1>3. ASSUME NEW f \in Files, FileStep(f) PROVE Goal
  <2>1. files[f] \in FileType
    OBVIOUS
  <2>2. PICK r \in FileType :
          /\ files' = [files EXCEPT ![f] = r] /\ files[f].phase \notin {"none", "over"}
          /\ r.phase # "over" => r.pid = files[f].pid /\ r.sess = files[f].sess
    <3>1. CASE ReadFile(f)
      <4>1. PICK x \in {"read", "ending"} : files' = [files EXCEPT ![f].phase = x]
        BY <3>1, Zenon DEF ReadFile
      <4>2. /\ [files[f] EXCEPT !.phase = x] \in FileType
            /\ [files[f] EXCEPT !.phase = x].pid = files[f].pid
            /\ [files[f] EXCEPT !.phase = x].sess = files[f].sess
        BY <2>1 DEF FileType
      <4>3. files' = [files EXCEPT ![f] = [files[f] EXCEPT !.phase = x]]
        BY <4>1, Zenon
      <4> QED BY <3>1, <4>2, <4>3 DEF ReadFile
    <3>2. CASE PushFile(f)
      <4> DEFINE x == [files[f] EXCEPT !.phase = "ending"]
                 y == [NoFile EXCEPT !.phase = "over"]
      <4>1. /\ x \in FileType /\ x.pid = files[f].pid /\ x.sess = files[f].sess
            /\ y \in FileType /\ y.phase = "over"
        BY <2>1, Bounds DEF FileType, NoFile
      <4>2. \/ files' = [files EXCEPT ![f] = x]
            \/ files' = [files EXCEPT ![f] = y]
        BY <3>2, Zenon DEF PushFile
      <4> HIDE DEF x, y
      <4> QED BY <3>2, <4>1, <4>2 DEF PushFile
    <3>3. CASE FileDone(f)
      <4> DEFINE y == [NoFile EXCEPT !.phase = "over"]
      <4>1. y \in FileType /\ y.phase = "over"
        BY Bounds DEF FileType, NoFile
      <4>2. files' = [files EXCEPT ![f] = y]
        BY <3>3, Zenon DEF FileDone
      <4> HIDE DEF y
      <4> QED BY <3>3, <4>1, <4>2 DEF FileDone
    <3> QED BY <1>3, <3>1, <3>2, <3>3 DEF FileStep
  <2>3. files' \in [Files -> FileType] /\ files'[f] = r
        /\ \A g \in Files : g # f => files'[g] = files[g]
    BY <2>2
  <2> QED BY <2>2, <2>3 DEF FilesEnd, Running
<1>4. ASSUME NEW S, S \subseteq Running,
             files' = [f \in Files |-> IF f \in S THEN [files[f] EXCEPT !.phase = "ending"] ELSE files[f]]
      PROVE  Goal
  <2>1. \A f \in Files : /\ [files[f] EXCEPT !.phase = "ending"] \in FileType
                         /\ [files[f] EXCEPT !.phase = "ending"].pid = files[f].pid
                         /\ [files[f] EXCEPT !.phase = "ending"].sess = files[f].sess
    BY DEF FileType
  <2>2. ASSUME NEW f \in Files
        PROVE  /\ files'[f] \in FileType
               /\ files'[f].pid = files[f].pid /\ files'[f].sess = files[f].sess
               /\ f \in S \/ files'[f] = files[f]
    <3>1. CASE f \in S
      <4>1. files'[f] = [files[f] EXCEPT !.phase = "ending"]
        BY <1>4, <3>1, Zenon
      <4> QED BY <2>1, <3>1, <4>1
    <3>2. CASE f \notin S
      <4>1. files'[f] = files[f]
        BY <1>4, <3>2, Zenon
      <4> QED BY <4>1
    <3> QED BY <3>1, <3>2
  <2>3. files' \in [Files -> FileType]
    <3>1. files' = [f \in Files |-> files'[f]]
      BY <1>4
    <3> QED BY <2>2, <3>1
  <2> QED BY <1>4, <2>2, <2>3 DEF FilesEnd, Running
<1>5. ASSUME RoomStep PROVE Goal
  <2>1. CASE HandleLeft
    <3>1. /\ FilesOf(Head(spawned).pid, Head(spawned).sess) \subseteq Running
          /\ files' = [f \in Files |-> IF f \in FilesOf(Head(spawned).pid, Head(spawned).sess)
                                       THEN [files[f] EXCEPT !.phase = "ending"] ELSE files[f]]
      <4>1. FilesOf(Head(spawned).pid, Head(spawned).sess) \subseteq Running
        BY DEF FilesOf
      <4> QED BY <2>1, <4>1, Zenon DEF HandleLeft
    <3> QED BY <1>4, <3>1
  <2>2. CASE Disconnect
    BY <1>4, <2>2, Zenon DEF Disconnect
  <2>3. CASE ~HandleLeft /\ ~Disconnect
    BY <1>1, <1>5, <2>3, Zenon DEF RoomStep, Enter, Exit, Connect, Greeted, HandleJoined, NotifyLeft,
       HandledLeft, DisconnectHandlers, DisconnectPipes
  <2> QED BY <2>1, <2>2, <2>3
<1>6. ASSUME UNCHANGED vars PROVE Goal
  BY <1>1, <1>6, Zenon DEF vars
<1>7. ASSUME NEW p \in Pids, NEW d \in Lens, SendReturnAudio(p, d) PROVE Goal
  BY <1>1, <1>7, Zenon DEF SendReturnAudio, audioRest
<1>8. ASSUME NEW p \in Pids, FlushReturnAudio(p) PROVE Goal
  BY <1>1, <1>8, Zenon DEF FlushReturnAudio
<1>9. ASSUME CallStep \/ PublishFails PROVE Goal
  BY <1>1, <1>9, Zenon DEF CallStep, OldClosed, Published, Discarded, PublishFails, audioRest
<1>10. ASSUME NEW t \in Tracks, TrackStep(t) PROVE Goal
  BY <1>1, <1>10, Zenon DEF TrackStep, Drain, Captured, Play
<1> HIDE DEF Goal
<1>11. Goal \/ \E f \in Files, p \in Pids : OpenFile(f, p)
  <2>1. ASSUME Next
        PROVE  \/ RoomStep \/ CallStep \/ PublishFails
               \/ \E p \in Pids : FlushReturnAudio(p)
               \/ \E p \in Pids : \E d \in Lens : SendReturnAudio(p, d)
               \/ \E p \in Pids : \E f \in Files : OpenFile(f, p)
               \/ \E t \in Tracks : TrackStep(t)
               \/ \E f \in Files : FileStep(f)
    BY <2>1, Zenon DEF Next, HandlerStep, RoomStep
  <2> QED BY <1>3, <1>5, <1>6, <1>7, <1>8, <1>9, <1>10, <2>1
<1> QED BY <1>2, <1>11 DEF Goal

-----------------------------------------------------------------------------
(* Joins and departures. *)

\* The client is not being disconnected.
Open == phase \in {"connecting", "greeting", "up"}

\* The join of session s is still to be announced.
Pending(p, s) ==
  \E n \in DOMAIN spawned : spawned[n].kind # "left" /\ spawned[n].pid = p /\ spawned[n].sess = s

\* The end of session s is still to be handled.
Ends(p, s) ==
  \E n \in DOMAIN spawned : spawned[n].kind = "left" /\ spawned[n].pid = p /\ spawned[n].sess = s

\* A participant has no session but its last one.
Counted == \A p \in Pids : sess[p] \in {0, visits[p]}

\* Handlers are for sessions there were, and a departure is for one that is over.
Handlers ==
  /\ \A n \in DOMAIN spawned : spawned[n].sess <= visits[spawned[n].pid]
  /\ \A n \in DOMAIN spawned : spawned[n].kind = "left" => spawned[n].sess # sess[spawned[n].pid]
  /\ \A h \in leaving : h.sess <= visits[h.pid] /\ h.sess # sess[h.pid]

\* Handlers wait in the order of the sessions, and nothing follows a departure for its session.
InOrder ==
  \A m, n \in DOMAIN spawned : m < n /\ spawned[m].pid = spawned[n].pid =>
    /\ spawned[m].sess <= spawned[n].sess
    /\ spawned[m].kind = "left" => spawned[m].sess < spawned[n].sess

\* The endpoint is never ahead of a join, and where one waits the last one does.
Behind ==
  \A n \in DOMAIN spawned : spawned[n].kind # "left" =>
    /\ conn[spawned[n].pid] <= spawned[n].sess
    /\ Pending(spawned[n].pid, visits[spawned[n].pid])

\* The endpoint has the last session or none, unless that session's join waits.
\* When the session is over, its departure will come after that.
FollowsOne(p) ==
  /\ Pending(p, visits[p]) \/ conn[p] \in {0, visits[p]}
  /\ sess[p] # 0 => Pending(p, visits[p]) \/ conn[p] = visits[p]
  /\ sess[p] = 0 /\ (conn[p] # 0 \/ Pending(p, visits[p])) =>
       \/ Ends(p, visits[p])
       \/ /\ ~Pending(p, visits[p])
          /\ \E h \in leaving : h.pid = p /\ h.sess = visits[p] /\ h.phase = "files"

Follows == \A p \in Pids : FollowsOne(p)

Sessions == Handlers /\ InOrder /\ Behind /\ Follows

\* What the shape says of a handler.
LEMMA SpawnedTypes ==
  ASSUME RoomShape
  PROVE  /\ \A n \in DOMAIN spawned :
              /\ spawned[n] \in HandlerType /\ spawned[n].pid \in Pids
              /\ spawned[n].sess \in Nat /\ spawned[n].sess # 0 /\ n \in Nat
         /\ \A h \in leaving : h.pid \in Pids /\ h.sess \in Nat /\ h.sess # 0
         /\ \A p \in Pids : visits[p] \in Nat /\ sess[p] \in Nat /\ conn[p] \in Nat
<1>1. \A n \in DOMAIN spawned : spawned[n] \in HandlerType /\ n \in Nat
  BY LenProperties, ElementOfSeq DEF RoomShape
<1>2. \A x \in HandlerType : x.pid \in Pids /\ x.sess \in Nat /\ x.sess # 0
  BY Bounds DEF HandlerType
<1>3. \A h \in leaving : h.pid \in Pids /\ h.sess \in Nat /\ h.sess # 0
  BY Bounds DEF RoomShape, LeavingType
<1>4. \A p \in Pids : visits[p] \in Nat /\ sess[p] \in Nat /\ conn[p] \in Nat
  BY Bounds DEF RoomShape
<1> QED BY <1>1, <1>2, <1>3, <1>4

\* x is spawned after the others, as number k.
SpawnedLast(x, k) ==
  /\ \A n \in DOMAIN spawned' : \/ n \in DOMAIN spawned /\ spawned'[n] = spawned[n]
                                \/ n = k /\ spawned'[n] = x
  /\ \A n \in DOMAIN spawned : n < k /\ n \in DOMAIN spawned' /\ spawned'[n] = spawned[n]
  /\ k \in DOMAIN spawned' /\ spawned'[k] = x

LEMMA SpawnsOne ==
  ASSUME RoomShape, NEW x \in HandlerType, spawned' = Append(spawned, x)
  PROVE  \E k \in Nat : SpawnedLast(x, k)
<1>1. spawned \in Seq(HandlerType)
  BY DEF RoomShape
<1>2. /\ \A i \in DOMAIN Append(spawned, x) :
           \/ i \in DOMAIN spawned /\ Append(spawned, x)[i] = spawned[i]
           \/ i = Len(spawned) + 1 /\ Append(spawned, x)[i] = x
      /\ \A i \in DOMAIN spawned : /\ i < Len(spawned) + 1 /\ i \in DOMAIN Append(spawned, x)
                                  /\ Append(spawned, x)[i] = spawned[i]
      /\ Len(spawned) + 1 \in DOMAIN Append(spawned, x) /\ Append(spawned, x)[Len(spawned) + 1] = x
      /\ Len(spawned) \in Nat
  BY <1>1, PutLast
<1>3. Len(spawned) + 1 \in Nat
  BY <1>2
<1> DEFINE k == Len(spawned) + 1
<1>4. SpawnedLast(x, k)
  <2> HIDE DEF k
  <2> QED BY <1>2 DEF SpawnedLast, k
<1> QED BY <1>3, <1>4

\* A participant that connects.
LEMMA SessionsEnter ==
  ASSUME RoomShape, Counted, Sessions, NEW p \in Pids, Enter(p)
  PROVE  Sessions'
<1> DEFINE v == visits[p] + 1
           x == Handler("joined", p, v)
<1>1. /\ visits' = [visits EXCEPT ![p] = v] /\ visits'[p] = v
      /\ sess' = [sess EXCEPT ![p] = v]
      /\ spawned' = Append(spawned, x)
      /\ leaving' = leaving /\ conn' = conn /\ v \in 1 .. MaxVisits
      /\ sess[p] = 0
  BY Bounds DEF Enter, RoomShape
<1>2. x \in HandlerType /\ x.kind = "joined" /\ x.pid = p /\ x.sess = v
  BY <1>1 DEF Handler, HandlerType
<1> HIDE DEF x
<1>3. PICK L \in Nat : SpawnedLast(x, L)
  BY <1>1, <1>2, SpawnsOne
<1>4. /\ visits'[p] = v /\ sess'[p] = v
      /\ \A q \in Pids : q # p => visits'[q] = visits[q] /\ sess'[q] = sess[q]
  BY <1>1 DEF RoomShape
<1>5. v \in Nat /\ v > visits[p] /\ v # 0
  BY <1>1, SpawnedTypes
<1> HIDE DEF v
<1>6. Handlers'
  <2>1. ASSUME NEW n \in DOMAIN spawned'
        PROVE  /\ spawned'[n].sess <= visits'[spawned'[n].pid]
               /\ spawned'[n].kind = "left" => spawned'[n].sess # sess'[spawned'[n].pid]
    BY <1>2, <1>3, <1>4, <1>5, SpawnedTypes DEF Sessions, Handlers, SpawnedLast
  <2>2. ASSUME NEW h \in leaving PROVE h.sess <= visits'[h.pid] /\ h.sess # sess'[h.pid]
    BY <1>4, <1>5, SpawnedTypes DEF Sessions, Handlers
  <2> QED BY <1>1, <2>1, <2>2 DEF Handlers
<1>7. InOrder'
  <2> SUFFICES ASSUME NEW m \in DOMAIN spawned', NEW n \in DOMAIN spawned',
                      m < n, spawned'[m].pid = spawned'[n].pid
               PROVE  /\ spawned'[m].sess <= spawned'[n].sess
                      /\ spawned'[m].kind = "left" => spawned'[m].sess < spawned'[n].sess
    BY DEF InOrder
  <2>1. CASE n \in DOMAIN spawned
    <3>1. m \in DOMAIN spawned
      BY <1>3, <2>1, SpawnedTypes DEF SpawnedLast
    <3> QED BY <1>3, <2>1, <3>1 DEF Sessions, InOrder, SpawnedLast
  <2>2. CASE n = L /\ spawned'[n] = x
    <3>1. m \in DOMAIN spawned
      BY <1>3, <2>2 DEF SpawnedLast
    <3>2. spawned[m].sess <= visits[p] /\ spawned[m].sess \in Nat /\ visits[p] \in Nat
      BY <1>2, <1>3, <2>2, <3>1, SpawnedTypes DEF Sessions, Handlers, SpawnedLast
    <3>3. spawned'[m] = spawned[m]
      BY <1>3, <3>1 DEF SpawnedLast
    <3> QED BY <1>2, <1>5, <2>2, <3>2, <3>3
  <2> QED BY <1>3, <2>1, <2>2 DEF SpawnedLast
<1>8. \A q, s : /\ Pending(q, s)' <=> Pending(q, s) \/ (q = p /\ s = v)
                /\ Ends(q, s)' <=> Ends(q, s)
  <2>1. ASSUME NEW q, NEW s PROVE Pending(q, s)' <=> Pending(q, s) \/ (q = p /\ s = v)
    BY <1>2, <1>3 DEF Pending, SpawnedLast
  <2>2. ASSUME NEW q, NEW s PROVE Ends(q, s)' <=> Ends(q, s)
    BY <1>2, <1>3 DEF Ends, SpawnedLast
  <2> QED BY <2>1, <2>2
<1>9. \A q \in Pids : /\ Pending(q, visits[q])' <=> q = p \/ Pending(q, visits[q])
                      /\ q # p => (Ends(q, visits[q])' <=> Ends(q, visits[q]))
  <2>1. \A q, s : visits'[q] = s => (Pending(q, visits[q])' <=> Pending(q, s)')
    BY DEF Pending
  <2>2. \A q, s : visits'[q] = s => (Ends(q, visits[q])' <=> Ends(q, s)')
    BY DEF Ends
  <2> QED BY <1>4, <1>8, <2>1, <2>2
<1>10. Behind'
  <2>1. conn[p] <= v
    <3>1. CASE Pending(p, visits[p])
      BY <1>5, <3>1, SpawnedTypes DEF Sessions, Behind, Pending
    <3>2. CASE conn[p] \in {0, visits[p]}
      BY <1>5, <3>2, SpawnedTypes
    <3> QED BY <3>1, <3>2 DEF Sessions, Follows, FollowsOne
  <2> SUFFICES ASSUME NEW n \in DOMAIN spawned', spawned'[n].kind # "left"
               PROVE  /\ conn'[spawned'[n].pid] <= spawned'[n].sess
                      /\ Pending(spawned[n].pid, visits[spawned[n].pid])'
    BY DEF Behind
  <2> DEFINE q == spawned[n].pid
  <2>3. \A r : spawned'[n].pid = r =>
          (Pending(r, visits[r])' => Pending(spawned[n].pid, visits[spawned[n].pid])')
    BY DEF Pending
  <2>4. CASE n \in DOMAIN spawned
    <3>1. spawned'[n] = spawned[n] /\ q \in Pids /\ conn[q] <= spawned[n].sess /\ Pending(q, visits[q])
      BY <1>3, <2>4, SpawnedTypes DEF Sessions, Behind, SpawnedLast
    <3>2. Pending(q, visits[q])'
      BY <1>9, <3>1
    <3> QED BY <1>1, <2>3, <3>1, <3>2
  <2>5. CASE n = L /\ spawned'[n] = x
    <3>1. Pending(p, visits[p])'
      BY <1>9
    <3> QED BY <1>1, <1>2, <2>1, <2>3, <2>5, <3>1
  <2> QED BY <1>3, <2>4, <2>5 DEF SpawnedLast
<1>11. Follows'
  <2> SUFFICES ASSUME NEW q \in Pids PROVE FollowsOne(q)'
    BY DEF Follows
  <2>1. CASE q = p
    BY <1>4, <1>5, <1>9, <2>1 DEF FollowsOne
  <2>2. CASE q # p
    <3>1. FollowsOne(q)
      BY DEF Sessions, Follows
    <3>2. visits'[q] = visits[q] /\ sess'[q] = sess[q] /\ conn'[q] = conn[q] /\ leaving' = leaving
      BY <1>1, <1>4, <2>2
    <3> QED BY <1>9, <2>2, <3>1, <3>2 DEF FollowsOne
  <2> QED BY <2>1, <2>2
<1> QED BY <1>6, <1>7, <1>10, <1>11 DEF Sessions

\* A participant that goes.
LEMMA SessionsExit ==
  ASSUME RoomShape, Counted, Sessions, NEW p \in Pids, Exit(p)
  PROVE  Sessions'
<1> DEFINE v == sess[p]
           x == Handler("left", p, v)
<1>1. /\ sess' = [sess EXCEPT ![p] = 0]
      /\ spawned' = Append(spawned, x)
      /\ visits' = visits /\ leaving' = leaving /\ conn' = conn
      /\ v \in 1 .. MaxVisits /\ v = visits[p]
  BY Bounds DEF Exit, RoomShape, Counted
<1>2. x \in HandlerType /\ x.kind = "left" /\ x.pid = p /\ x.sess = v
  BY <1>1 DEF Handler, HandlerType
<1> HIDE DEF x
<1>3. PICK L \in Nat : SpawnedLast(x, L)
  BY <1>1, <1>2, SpawnsOne
<1>4. sess'[p] = 0 /\ \A q \in Pids : q # p => sess'[q] = sess[q]
  BY <1>1 DEF RoomShape
<1>5. v \in Nat /\ v # 0
  BY <1>1, SpawnedTypes
<1>6. Handlers'
  <2>1. ASSUME NEW n \in DOMAIN spawned'
        PROVE  /\ spawned'[n].sess <= visits'[spawned'[n].pid]
               /\ spawned'[n].kind = "left" => spawned'[n].sess # sess'[spawned'[n].pid]
    BY <1>1, <1>2, <1>3, <1>4, <1>5, SpawnedTypes DEF Sessions, Handlers, SpawnedLast
  <2>2. ASSUME NEW h \in leaving PROVE h.sess <= visits'[h.pid] /\ h.sess # sess'[h.pid]
    BY <1>1, <1>4, <1>5, SpawnedTypes DEF Sessions, Handlers
  <2> QED BY <1>1, <2>1, <2>2 DEF Handlers
<1>7. InOrder'
  <2> SUFFICES ASSUME NEW m \in DOMAIN spawned', NEW n \in DOMAIN spawned',
                      m < n, spawned'[m].pid = spawned'[n].pid
               PROVE  /\ spawned'[m].sess <= spawned'[n].sess
                      /\ spawned'[m].kind = "left" => spawned'[m].sess < spawned'[n].sess
    BY DEF InOrder
  <2>1. CASE n \in DOMAIN spawned
    <3>1. m \in DOMAIN spawned
      BY <1>3, <2>1, SpawnedTypes DEF SpawnedLast
    <3> QED BY <1>3, <2>1, <3>1 DEF Sessions, InOrder, SpawnedLast
  <2>2. CASE n = L /\ spawned'[n] = x
    <3>1. m \in DOMAIN spawned
      BY <1>3, <2>2 DEF SpawnedLast
    <3>2. /\ spawned[m].sess <= v /\ spawned[m].sess \in Nat
          /\ spawned[m].kind = "left" => spawned[m].sess # v
      BY <1>1, <1>2, <1>3, <2>2, <3>1, SpawnedTypes DEF Sessions, Handlers, SpawnedLast
    <3>3. spawned'[m] = spawned[m]
      BY <1>3, <3>1 DEF SpawnedLast
    <3> QED BY <1>2, <1>5, <2>2, <3>2, <3>3
  <2> QED BY <1>3, <2>1, <2>2 DEF SpawnedLast
<1>8. \A q, s : /\ Pending(q, s)' <=> Pending(q, s)
                /\ Ends(q, s)' <=> Ends(q, s) \/ (q = p /\ s = v)
  <2>1. ASSUME NEW q, NEW s PROVE Pending(q, s)' <=> Pending(q, s)
    BY <1>2, <1>3 DEF Pending, SpawnedLast
  <2>2. ASSUME NEW q, NEW s PROVE Ends(q, s)' <=> Ends(q, s) \/ (q = p /\ s = v)
    BY <1>2, <1>3 DEF Ends, SpawnedLast
  <2> QED BY <2>1, <2>2
<1>9. \A q \in Pids : /\ Pending(q, visits[q])' <=> Pending(q, visits[q])
                      /\ Ends(q, visits[q])' <=> q = p \/ Ends(q, visits[q])
  <2>1. \A q, s : visits'[q] = s => (Pending(q, visits[q])' <=> Pending(q, s)')
    BY DEF Pending
  <2>2. \A q, s : visits'[q] = s => (Ends(q, visits[q])' <=> Ends(q, s)')
    BY DEF Ends
  <2> QED BY <1>1, <1>8, <2>1, <2>2
<1>10. Behind'
  <2> SUFFICES ASSUME NEW n \in DOMAIN spawned', spawned'[n].kind # "left"
               PROVE  /\ conn'[spawned'[n].pid] <= spawned'[n].sess
                      /\ Pending(spawned[n].pid, visits[spawned[n].pid])'
    BY DEF Behind
  <2> DEFINE q == spawned[n].pid
  <2>3. \A r : spawned'[n].pid = r =>
          (Pending(r, visits[r])' => Pending(spawned[n].pid, visits[spawned[n].pid])')
    BY DEF Pending
  <2>4. n \in DOMAIN spawned /\ spawned'[n] = spawned[n]
    BY <1>2, <1>3 DEF SpawnedLast
  <2>5. spawned'[n] = spawned[n] /\ q \in Pids /\ conn[q] <= spawned[n].sess /\ Pending(q, visits[q])
    BY <2>4, SpawnedTypes DEF Sessions, Behind
  <2>6. Pending(q, visits[q])'
    BY <1>9, <2>5
  <2> QED BY <1>1, <2>3, <2>5, <2>6
<1>11. Follows'
  <2> SUFFICES ASSUME NEW q \in Pids PROVE FollowsOne(q)'
    BY DEF Follows
  <2>1. FollowsOne(q)
    BY DEF Sessions, Follows
  <2> QED BY <1>1, <1>4, <1>9, <2>1 DEF FollowsOne
<1> QED BY <1>6, <1>7, <1>10, <1>11 DEF Sessions

\* connect() announces everybody.
LEMMA SessionsConnect ==
  ASSUME RoomShape, Counted, Sessions, Connect
  PROVE  Sessions'
<1>1. visits' = visits /\ sess' = sess /\ leaving' = leaving /\ conn' = conn
  BY DEF Connect
<1>2. PICK N \in Nat : \E q \in [1 .. N -> Pids], b \in Seq(HandlerType) :
           /\ Len(b) = N /\ spawned' = spawned \o b
           /\ \A m, n \in 1 .. N : q[m] = q[n] => m = n
           /\ \A p \in Pids : sess[p] # 0 => \E n \in 1 .. N : q[n] = p
           /\ \A n \in 1 .. N : sess[q[n]] # 0 /\ b[n] = Handler("greet", q[n], sess[q[n]])
  BY GreetsEverybody
<1>3. PICK q \in [1 .. N -> Pids], b \in Seq(HandlerType) :
           /\ Len(b) = N /\ spawned' = spawned \o b
           /\ \A m, n \in 1 .. N : q[m] = q[n] => m = n
           /\ \A p \in Pids : sess[p] # 0 => \E n \in 1 .. N : q[n] = p
           /\ \A n \in 1 .. N : sess[q[n]] # 0 /\ b[n] = Handler("greet", q[n], sess[q[n]])
  BY <1>2
<1>4. PICK l \in Nat :
        /\ \A n \in DOMAIN spawned : n <= l /\ n \in DOMAIN spawned' /\ spawned'[n] = spawned[n]
        /\ \A n \in 1 .. N : l + n \in DOMAIN spawned' /\ spawned'[l + n] = b[n]
        /\ \A n \in DOMAIN spawned' : n \in DOMAIN spawned \/ \E k \in 1 .. N : n = l + k
  <2>1. spawned \in Seq(HandlerType)
    BY DEF RoomShape
  <2>2. /\ spawned' \in Seq(HandlerType) /\ Len(spawned') = Len(spawned) + N /\ Len(spawned) \in Nat
        /\ \A i \in 1 .. Len(spawned) + N :
             spawned'[i] = IF i <= Len(spawned) THEN spawned[i] ELSE b[i - Len(spawned)]
    <3>1. /\ spawned \o b \in Seq(HandlerType) /\ Len(spawned \o b) = Len(spawned) + Len(b)
          /\ \A i \in 1 .. Len(spawned) + Len(b) :
               (spawned \o b)[i] = IF i <= Len(spawned) THEN spawned[i] ELSE b[i - Len(spawned)]
      BY <2>1, ConcatProperties
    <3>2. Len(spawned) \in Nat
      BY <2>1, LenProperties
    <3> QED BY <1>3, <3>1, <3>2
  <2>3. DOMAIN spawned = 1 .. Len(spawned) /\ DOMAIN spawned' = 1 .. Len(spawned) + N
    BY <2>1, <2>2, LenProperties
  <2> DEFINE l == Len(spawned)
  <2>4. \A n \in DOMAIN spawned : n <= l /\ n \in DOMAIN spawned' /\ spawned'[n] = spawned[n]
    BY <2>2, <2>3
  <2>5. ASSUME NEW n \in 1 .. N PROVE l + n \in DOMAIN spawned' /\ spawned'[l + n] = b[n]
    <3>1. l + n \in 1 .. l + N /\ ~(l + n <= l) /\ (l + n) - l = n
      BY <2>2
    <3> QED BY <2>2, <2>3, <3>1
  <2>6. ASSUME NEW n \in DOMAIN spawned' PROVE n \in DOMAIN spawned \/ \E k \in 1 .. N : n = l + k
    <3>1. n \in 1 .. l \/ (n - l \in 1 .. N /\ n = l + (n - l))
      BY <2>2, <2>3
    <3> QED BY <2>3, <3>1
  <2> QED BY <2>2, <2>4, <2>5, <2>6
<1>5. \A n \in 1 .. N : /\ b[n].kind = "greet" /\ b[n].pid = q[n] /\ b[n].sess = visits[q[n]]
                        /\ q[n] \in Pids /\ sess[q[n]] # 0 /\ n \in Nat /\ n # 0
  BY <1>3 DEF Handler, Counted
<1>6. Handlers'
  <2>1. ASSUME NEW n \in DOMAIN spawned'
        PROVE  /\ spawned'[n].sess <= visits'[spawned'[n].pid]
               /\ spawned'[n].kind = "left" => spawned'[n].sess # sess'[spawned'[n].pid]
    <3>1. CASE n \in DOMAIN spawned
      BY <1>1, <1>4, <3>1 DEF Sessions, Handlers
    <3>2. ASSUME NEW k \in 1 .. N, n = l + k
          PROVE  spawned'[n].sess <= visits'[spawned'[n].pid] /\ spawned'[n].kind # "left"
      <4>1. spawned'[n] = b[k]
        BY <1>4, <3>2
      <4>2. /\ b[k].kind = "greet" /\ b[k].pid = q[k] /\ b[k].sess = visits[q[k]]
            /\ visits[q[k]] \in Nat
        BY <1>5, SpawnedTypes
      <4> QED BY <1>1, <4>1, <4>2
    <3> QED BY <1>4, <3>1, <3>2
  <2> QED BY <1>1, <2>1 DEF Sessions, Handlers
<1>7. InOrder'
  <2> SUFFICES ASSUME NEW m \in DOMAIN spawned', NEW n \in DOMAIN spawned',
                      m < n, spawned'[m].pid = spawned'[n].pid
               PROVE  /\ spawned'[m].sess <= spawned'[n].sess
                      /\ spawned'[m].kind = "left" => spawned'[m].sess < spawned'[n].sess
    BY DEF InOrder
  <2>1. CASE n \in DOMAIN spawned
    <3>1. m \in DOMAIN spawned
      BY <1>4, <1>5, <2>1, SpawnedTypes
    <3> QED BY <1>4, <2>1, <3>1 DEF Sessions, InOrder
  <2>2. ASSUME NEW k \in 1 .. N, n = l + k PROVE m \in DOMAIN spawned
    <3>1. ASSUME NEW j \in 1 .. N, m = l + j PROVE FALSE
      <4>1. q[j] = q[k]
        BY <1>4, <1>5, <2>2, <3>1
      <4> QED BY <1>3, <2>2, <3>1, <4>1
    <3> QED BY <1>4, <3>1
  <2>3. CASE \E k \in 1 .. N : n = l + k
    <3>1. PICK k \in 1 .. N : n = l + k
      BY <2>3
    <3>2. m \in DOMAIN spawned /\ spawned'[m] = spawned[m] /\ spawned'[n] = b[k]
      BY <1>4, <2>2, <3>1
    <3>3. /\ spawned[m].sess <= visits[q[k]] /\ spawned[m].sess \in Nat /\ visits[q[k]] \in Nat
          /\ spawned[m].kind = "left" => spawned[m].sess # sess[q[k]]
          /\ sess[q[k]] = visits[q[k]]
      BY <1>5, <3>2, SpawnedTypes DEF Sessions, Handlers, Counted
    <3> QED BY <1>5, <3>2, <3>3
  <2> QED BY <1>4, <2>1, <2>3
<1>8. \A p \in Pids : /\ Ends(p, visits[p])' <=> Ends(p, visits[p])
                      /\ Pending(p, visits[p]) => Pending(p, visits[p])'
                      /\ sess[p] = 0 => (Pending(p, visits[p])' <=> Pending(p, visits[p]))
                      /\ sess[p] # 0 => Pending(p, visits[p])'
  <2> DEFINE new == {n \in DOMAIN spawned' : spawned'[n].kind # "left" /\ sess[spawned'[n].pid] # 0}
  <2>5. \A n \in DOMAIN spawned' : n \in new \/ n \in DOMAIN spawned
    <3>1. ASSUME NEW n \in DOMAIN spawned', NEW k \in 1 .. N, n = l + k PROVE n \in new
      <4>1. spawned'[n] = b[k]
        BY <1>4, <3>1
      <4> QED BY <1>5, <4>1
    <3> QED BY <1>4, <3>1
  <2>6. \A n \in DOMAIN spawned : n \in DOMAIN spawned' /\ spawned'[n] = spawned[n]
    BY <1>4
  <2>1. ASSUME NEW p \in Pids PROVE Ends(p, visits[p])' <=> Ends(p, visits[p])
    BY <1>1, <2>5, <2>6 DEF Ends
  <2>2. ASSUME NEW p \in Pids PROVE Pending(p, visits[p]) => Pending(p, visits[p])'
    BY <1>1, <2>6 DEF Pending
  <2>3. ASSUME NEW p \in Pids, sess[p] = 0 PROVE Pending(p, visits[p])' => Pending(p, visits[p])
    BY <1>1, <2>3, <2>5, <2>6 DEF Pending
  <2>4. ASSUME NEW p \in Pids, sess[p] # 0 PROVE Pending(p, visits[p])'
    <3>1. PICK n \in 1 .. N : q[n] = p
      BY <1>3, <2>4
    <3>2. l + n \in DOMAIN spawned' /\ spawned'[l + n] = b[n]
      BY <1>4
    <3> QED BY <1>1, <1>5, <3>1, <3>2 DEF Pending
  <2> QED BY <2>1, <2>2, <2>3, <2>4
<1>9. Behind'
  <2> SUFFICES ASSUME NEW n \in DOMAIN spawned', spawned'[n].kind # "left"
               PROVE  /\ conn'[spawned'[n].pid] <= spawned'[n].sess
                      /\ Pending(spawned[n].pid, visits[spawned[n].pid])'
    BY DEF Behind
  <2>1. \A r : spawned'[n].pid = r =>
          (Pending(r, visits[r])' => Pending(spawned[n].pid, visits[spawned[n].pid])')
    BY DEF Pending
  <2>2. CASE n \in DOMAIN spawned
    <3> DEFINE r == spawned[n].pid
    <3>1. spawned'[n] = spawned[n] /\ r \in Pids /\ conn[r] <= spawned[n].sess /\ Pending(r, visits[r])
      BY <1>4, <2>2, SpawnedTypes DEF Sessions, Behind
    <3>2. Pending(r, visits[r])'
      BY <1>8, <3>1
    <3> QED BY <1>1, <2>1, <3>1, <3>2
  <2>3. CASE \E k \in 1 .. N : n = l + k
    <3>1. PICK k \in 1 .. N : n = l + k
      BY <2>3
    <3>2. spawned'[n] = b[k] /\ Pending(q[k], visits[q[k]])'
      BY <1>4, <1>5, <1>8, <3>1
    <3>3. conn[q[k]] <= visits[q[k]]
      <4>1. FollowsOne(q[k])
        BY <1>5 DEF Sessions, Follows
      <4>2. CASE Pending(q[k], visits[q[k]])
        BY <4>2 DEF Sessions, Behind, Pending
      <4>3. CASE ~Pending(q[k], visits[q[k]])
        BY <1>5, <4>1, <4>3, SpawnedTypes DEF FollowsOne
      <4> QED BY <4>2, <4>3
    <3> QED BY <1>1, <1>5, <2>1, <3>2, <3>3
  <2> QED BY <1>4, <2>2, <2>3
<1>10. Follows'
  <2> SUFFICES ASSUME NEW p \in Pids PROVE FollowsOne(p)'
    BY DEF Follows
  <2>1. FollowsOne(p)
    BY DEF Sessions, Follows
  <2> QED BY <1>1, <1>8, <2>1 DEF FollowsOne
<1> QED BY <1>6, <1>7, <1>9, <1>10 DEF Sessions

\* The first handler begins.
Taken(h) ==
  /\ h \in HandlerType /\ 1 \in DOMAIN spawned /\ spawned[1] = h
  /\ \A n \in DOMAIN spawned' : n + 1 \in DOMAIN spawned /\ spawned'[n] = spawned[n + 1] /\ n + 1 > 1
  /\ \A n \in DOMAIN spawned : n # 1 => n - 1 \in DOMAIN spawned' /\ spawned'[n - 1] = spawned[n]

LEMMA TakesOne ==
  ASSUME RoomShape, spawned # <<>>, spawned' = Tail(spawned)
  PROVE  Taken(Head(spawned))
<1>1. spawned \in Seq(HandlerType)
  BY DEF RoomShape
<1>2. /\ Head(spawned) \in HandlerType /\ Head(spawned) = spawned[1] /\ 1 \in DOMAIN spawned
      /\ \A i \in DOMAIN Tail(spawned) :
           i + 1 \in DOMAIN spawned /\ Tail(spawned)[i] = spawned[i + 1] /\ i + 1 > 1
      /\ \A i \in DOMAIN spawned :
           i # 1 => i - 1 \in DOMAIN Tail(spawned) /\ Tail(spawned)[i - 1] = spawned[i]
  BY <1>1, TakeHead
<1> QED BY <1>2 DEF Taken

\* The handlers that are left are still in order, for sessions that were.
LEMMA TakenOrder ==
  ASSUME RoomShape, Sessions, NEW h, Taken(h), visits' = visits, sess' = sess
  PROVE  /\ InOrder'
         /\ \A n \in DOMAIN spawned' :
              /\ spawned'[n].sess <= visits'[spawned'[n].pid]
              /\ spawned'[n].kind = "left" => spawned'[n].sess # sess'[spawned'[n].pid]
<1>1. ASSUME NEW m \in DOMAIN spawned', NEW n \in DOMAIN spawned',
             m < n, spawned'[m].pid = spawned'[n].pid
      PROVE  /\ spawned'[m].sess <= spawned'[n].sess
             /\ spawned'[m].kind = "left" => spawned'[m].sess < spawned'[n].sess
  <2>1. /\ m + 1 \in DOMAIN spawned /\ n + 1 \in DOMAIN spawned
        /\ spawned'[m] = spawned[m + 1] /\ spawned'[n] = spawned[n + 1]
    BY DEF Taken
  <2>2. spawned' \in Seq(HandlerType) => m \in Nat /\ n \in Nat
    BY LenProperties
  <2>3. m + 1 < n + 1
    BY <1>1, <2>2 DEF Sessions
  <2> QED BY <1>1, <2>1, <2>3 DEF Sessions, InOrder
<1>2. ASSUME NEW n \in DOMAIN spawned'
      PROVE  /\ spawned'[n].sess <= visits'[spawned'[n].pid]
             /\ spawned'[n].kind = "left" => spawned'[n].sess # sess'[spawned'[n].pid]
  BY DEF Taken, Sessions, Handlers
<1> QED BY <1>1, <1>2 DEF InOrder

\* A join is announced.
LEMMA SessionsHandleJoined ==
  ASSUME RoomShape, RoomShape', Counted, Sessions, HandleJoined
  PROVE  Sessions'
<1>0. PICK h, p, s : h = Head(spawned) /\ p = h.pid /\ s = h.sess
  OBVIOUS
<1>1. /\ spawned # <<>> /\ spawned' = Tail(spawned) /\ conn' = [conn EXCEPT ![p] = s]
      /\ h.kind \in {"joined", "greet"}
      /\ visits' = visits /\ sess' = sess /\ leaving' = leaving
  BY <1>0, Zenon DEF HandleJoined
<1>2. Taken(h)
  BY <1>0, <1>1, TakesOne
<1>3. /\ p \in Pids /\ p = h.pid /\ s = h.sess
      /\ h.kind # "left" /\ 1 \in DOMAIN spawned /\ spawned[1] = h
  BY <1>0, <1>1, <1>2, SpawnedTypes DEF Taken
<1>4. conn'[p] = s /\ \A q \in Pids : q # p => conn'[q] = conn[q]
  BY <1>1, <1>3 DEF RoomShape
<1>5. Pending(p, visits[p]) /\ s <= visits[p] /\ s \in Nat /\ visits[p] \in Nat
  BY <1>0, <1>3, SpawnedTypes DEF Sessions, Behind, Handlers
<1>6. ASSUME NEW m \in DOMAIN spawned, m # 1, spawned[m].pid = p
      PROVE  s <= spawned[m].sess /\ (spawned[m].kind # "left" => Pending(p, visits[p])')
  <2>1. m > 1 /\ spawned[m].sess \in Nat /\ spawned[m].sess <= visits[p]
    BY <1>6, SpawnedTypes, LenProperties DEF RoomShape, Sessions, Handlers
  <2>2. s <= spawned[m].sess
    BY <1>3, <1>6, <2>1 DEF Sessions, InOrder
  <2>3. ASSUME spawned[m].kind # "left" PROVE Pending(p, visits[p])'
    <3>1. PICK n \in DOMAIN spawned : spawned[n].kind # "left" /\ spawned[n].pid = p /\ spawned[n].sess = visits[p]
      BY <1>5 DEF Pending
    <3>2. CASE n = 1
      <4>1. s = visits[p]
        BY <1>3, <3>1, <3>2
      <4>2. spawned[m].sess = visits[p]
        BY <1>5, <2>1, <2>2, <4>1
      <4>3. m - 1 \in DOMAIN spawned' /\ spawned'[m - 1] = spawned[m]
        BY <1>2, <1>6 DEF Taken
      <4> QED BY <1>1, <1>6, <2>3, <4>2, <4>3 DEF Pending
    <3>3. CASE n # 1
      <4>1. n - 1 \in DOMAIN spawned' /\ spawned'[n - 1] = spawned[n]
        BY <1>2, <3>3 DEF Taken
      <4> QED BY <1>1, <3>1, <4>1 DEF Pending
    <3> QED BY <3>2, <3>3
  <2> QED BY <2>2, <2>3
<1>7. \A q \in Pids : /\ Ends(q, visits[q])' <=> Ends(q, visits[q])
                      /\ q # p => (Pending(q, visits[q])' <=> Pending(q, visits[q]))
  <2> DEFINE later == {m \in DOMAIN spawned : m # 1}
  <2>3. /\ \A m \in later : \E n \in DOMAIN spawned' : spawned'[n] = spawned[m]
        /\ \A n \in DOMAIN spawned' : \E m \in later : spawned'[n] = spawned[m]
        /\ \A m \in DOMAIN spawned : m \in later \/ spawned[m] = h
        /\ later \subseteq DOMAIN spawned
    BY <1>2 DEF Taken
  <2> HIDE DEF later
  <2>1. ASSUME NEW q \in Pids PROVE Ends(q, visits[q])' <=> Ends(q, visits[q])
    BY <1>1, <1>3, <2>3 DEF Ends
  <2>2. ASSUME NEW q \in Pids, q # p PROVE Pending(q, visits[q])' <=> Pending(q, visits[q])
    BY <1>1, <1>3, <2>2, <2>3 DEF Pending
  <2> QED BY <2>1, <2>2
<1>8. Pending(p, visits[p])' \/ s = visits[p]
  <2>1. PICK n \in DOMAIN spawned : spawned[n].kind # "left" /\ spawned[n].pid = p /\ spawned[n].sess = visits[p]
    BY <1>5 DEF Pending
  <2>2. CASE n = 1
    BY <1>3, <2>1, <2>2
  <2>3. CASE n # 1
    <3>1. n - 1 \in DOMAIN spawned' /\ spawned'[n - 1] = spawned[n]
      BY <1>2, <2>3 DEF Taken
    <3> QED BY <1>1, <2>1, <3>1 DEF Pending
  <2> QED BY <2>2, <2>3
<1>9. Behind'
  <2> SUFFICES ASSUME NEW n \in DOMAIN spawned', spawned'[n].kind # "left"
               PROVE  /\ conn'[spawned'[n].pid] <= spawned'[n].sess
                      /\ Pending(spawned[n].pid, visits[spawned[n].pid])'
    BY DEF Behind
  <2>1. \A r : spawned'[n].pid = r =>
          (Pending(r, visits[r])' => Pending(spawned[n].pid, visits[spawned[n].pid])')
    BY DEF Pending
  <2>2. PICK m \in DOMAIN spawned : m # 1 /\ spawned'[n] = spawned[m]
    BY <1>2 DEF Taken
  <2>3. CASE spawned[m].pid = p
    <3>1. s <= spawned[m].sess /\ Pending(p, visits[p])'
      BY <1>6, <2>2, <2>3
    <3> QED BY <1>4, <2>1, <2>2, <2>3, <3>1
  <2>4. CASE spawned[m].pid # p
    BY <1>4, <1>7, <2>1, <2>2, <2>4, SpawnedTypes DEF Sessions, Behind
  <2> QED BY <2>3, <2>4
<1>10. Follows'
  <2> SUFFICES ASSUME NEW q \in Pids PROVE FollowsOne(q)'
    BY DEF Follows
  <2>1. FollowsOne(q)
    BY DEF Sessions, Follows
  <2>2. CASE q = p
    <3>1. /\ Pending(p, visits[p])' \/ conn'[p] = visits'[p]
          /\ sess'[p] = 0 => Ends(p, visits[p])'
      BY <1>1, <1>3, <1>4, <1>5, <1>7, <1>8, <2>1, <2>2 DEF FollowsOne
    <3> QED BY <2>2, <3>1 DEF FollowsOne
  <2>3. CASE q # p
    BY <1>1, <1>4, <1>7, <2>1, <2>3 DEF FollowsOne
  <2> QED BY <2>2, <2>3
<1>11. InOrder' /\ Handlers'
  BY <1>1, <1>2, TakenOrder DEF Sessions, Handlers
<1> QED BY <1>9, <1>10, <1>11 DEF Sessions

\* A departure begins to be handled.
LEMMA SessionsHandleLeft ==
  ASSUME RoomShape, RoomShape', Counted, Sessions, HandleLeft
  PROVE  Sessions'
<1>0. PICK h, p, s : h = Head(spawned) /\ p = h.pid /\ s = h.sess
  OBVIOUS
<1>1. /\ spawned # <<>> /\ spawned' = Tail(spawned) /\ conn' = conn
      /\ h.kind = "left" /\ visits' = visits /\ sess' = sess
  BY <1>0, Zenon DEF HandleLeft
<1>2. Taken(h)
  BY <1>0, <1>1, TakesOne
<1>3. PICK x : leaving' = leaving \cup {x} /\ x.pid = p /\ x.sess = s /\ x.phase = "files"
  <2> DEFINE t == IF entry[p] # 0 /\ tracks[entry[p]].sess = s THEN entry[p] ELSE 0
             x == [pid |-> p, sess |-> s, phase |-> "files", track |-> t]
  <2>1. leaving' = leaving \cup {x}
    BY <1>0, Zenon DEF HandleLeft
  <2> HIDE DEF t
  <2>2. x.pid = p /\ x.sess = s /\ x.phase = "files"
    OBVIOUS
  <2> QED BY <2>1, <2>2
<1>4. p \in Pids /\ p = h.pid /\ s = h.sess /\ 1 \in DOMAIN spawned /\ spawned[1] = h
  BY <1>0, <1>1, <1>2, SpawnedTypes DEF Taken
<1>5. s <= visits[p] /\ s # sess[p] /\ s \in Nat /\ visits[p] \in Nat
  BY <1>1, <1>4, SpawnedTypes DEF Sessions, Handlers
<1>6. \A q \in Pids : /\ Pending(q, visits[q])' <=> Pending(q, visits[q])
                      /\ Ends(q, visits[q]) => Ends(q, visits[q])' \/ (q = p /\ s = visits[p])
  <2>1. ASSUME NEW q \in Pids PROVE Pending(q, visits[q])' <=> Pending(q, visits[q])
    <3>1. \A n \in DOMAIN spawned' : \E m \in DOMAIN spawned : spawned'[n] = spawned[m]
      BY <1>2 DEF Taken
    <3>2. \A m \in DOMAIN spawned : spawned[m].kind # "left" => \E n \in DOMAIN spawned' : spawned'[n] = spawned[m]
      BY <1>1, <1>2, <1>4 DEF Taken
    <3> QED BY <1>1, <3>1, <3>2 DEF Pending
  <2>2. ASSUME NEW q \in Pids, Ends(q, visits[q]) PROVE Ends(q, visits[q])' \/ (q = p /\ s = visits[p])
    <3>1. PICK n \in DOMAIN spawned : spawned[n].kind = "left" /\ spawned[n].pid = q /\ spawned[n].sess = visits[q]
      BY <2>2 DEF Ends
    <3>2. CASE n = 1
      BY <1>4, <3>1, <3>2
    <3>3. CASE n # 1
      BY ZenonT(40), <1>1, <1>2, <3>1, <3>3 DEF Ends, Taken
    <3> QED BY <3>2, <3>3
  <2> QED BY <2>1, <2>2
<1>7. s = visits[p] => ~Pending(p, visits[p])
  <2> SUFFICES ASSUME s = visits[p], Pending(p, visits[p]) PROVE FALSE
    OBVIOUS
  <2>1. PICK n \in DOMAIN spawned : spawned[n].kind # "left" /\ spawned[n].pid = p /\ spawned[n].sess = visits[p]
    BY DEF Pending
  <2>2. n > 1 /\ 1 < n
    <3>1. n \in Nat /\ n # 0
      BY <2>1, LenProperties DEF RoomShape
    <3> QED BY <1>1, <1>4, <2>1, <3>1
  <2>3. s < spawned[n].sess
    BY <1>1, <1>4, <2>1, <2>2 DEF Sessions, InOrder
  <2> QED BY <1>5, <2>1, <2>3
<1>8. Behind'
  <2> SUFFICES ASSUME NEW n \in DOMAIN spawned', spawned'[n].kind # "left"
               PROVE  /\ conn'[spawned'[n].pid] <= spawned'[n].sess
                      /\ Pending(spawned[n].pid, visits[spawned[n].pid])'
    BY DEF Behind
  <2>1. \A r : spawned'[n].pid = r =>
          (Pending(r, visits[r])' => Pending(spawned[n].pid, visits[spawned[n].pid])')
    BY DEF Pending
  <2>2. PICK m \in DOMAIN spawned : spawned'[n] = spawned[m]
    BY <1>2 DEF Taken
  <2> QED BY <1>1, <1>6, <2>1, <2>2, SpawnedTypes DEF Sessions, Behind
<1>9. Follows'
  <2> SUFFICES ASSUME NEW q \in Pids PROVE FollowsOne(q)'
    BY DEF Follows
  <2>1. FollowsOne(q)
    BY DEF Sessions, Follows
  <2>2. x \in leaving' /\ leaving \subseteq leaving'
    BY <1>3
  <2> QED BY <1>1, <1>3, <1>6, <1>7, <2>1, <2>2 DEF FollowsOne
<1>10. InOrder' /\ Handlers'
  <2>1. \A y \in leaving' : y.sess <= visits'[y.pid] /\ y.sess # sess'[y.pid]
    BY <1>1, <1>3, <1>5 DEF Sessions, Handlers
  <2> QED BY <1>1, <1>2, <2>1, TakenOrder DEF Sessions, Handlers
<1> QED BY <1>8, <1>9, <1>10 DEF Sessions

\* The endpoint is told of a departure.
LEMMA SessionsNotifyLeft ==
  ASSUME RoomShape, Counted, Sessions, NEW h \in leaving, NotifyLeft(h)
  PROVE  Sessions'
<1> DEFINE p == h.pid
           y == [h EXCEPT !.phase = "told"]
<1>1. /\ spawned' = spawned /\ visits' = visits /\ sess' = sess
      /\ leaving' = (leaving \ {h}) \cup {y}
      /\ conn' = [conn EXCEPT ![p] = IF @ # 0 /\ @ # h.sess THEN @ ELSE 0]
  BY Zenon DEF NotifyLeft
<1>2. h \in LeavingType /\ p \in Pids
  BY SpawnedTypes DEF RoomShape
<1>3. y.pid = p /\ y.sess = h.sess /\ y.phase = "told"
  BY <1>2 DEF LeavingType
<1> HIDE DEF y
<1>4. /\ conn'[p] = IF conn[p] # 0 /\ conn[p] # h.sess THEN conn[p] ELSE 0
      /\ \A q \in Pids : q # p => conn'[q] = conn[q]
  BY <1>1, <1>2 DEF RoomShape
<1>5. h.sess <= visits[p] /\ h.sess # sess[p] /\ h.sess \in Nat /\ h.sess # 0
  BY SpawnedTypes DEF Sessions, Handlers
<1>6. \A q : /\ Pending(q, visits[q])' <=> Pending(q, visits[q])
             /\ Ends(q, visits[q])' <=> Ends(q, visits[q])
  BY <1>1 DEF Pending, Ends
<1>7. Handlers' /\ InOrder'
  BY <1>1, <1>3, <1>5 DEF Sessions, Handlers, InOrder
<1>8. Behind'
  <2> SUFFICES ASSUME NEW n \in DOMAIN spawned, spawned[n].kind # "left"
               PROVE  conn'[spawned[n].pid] <= spawned[n].sess
    BY <1>1, <1>6 DEF Behind, Sessions, Pending
  <2>1. conn[spawned[n].pid] <= spawned[n].sess /\ spawned[n].pid \in Pids /\ spawned[n].sess \in Nat
    BY SpawnedTypes DEF Sessions, Behind
  <2> QED BY <1>4, <2>1
<1>9. Follows'
  <2> SUFFICES ASSUME NEW q \in Pids PROVE FollowsOne(q)'
    BY DEF Follows
  <2>1. FollowsOne(q) /\ sess[q] \in {0, visits[q]}
    BY DEF Sessions, Follows, Counted
  <2>2. \A l \in leaving : l # h => l \in leaving'
    BY <1>1
  <2>3. CASE q # p
    <3>1. conn'[q] = conn[q] /\ \A l \in leaving : l.pid = q => l \in leaving'
      BY <1>4, <2>2, <2>3
    <3> QED BY <1>1, <1>6, <2>1, <3>1 DEF FollowsOne
  <2>4. CASE q = p
    BY <1>1, <1>4, <1>5, <1>6, <2>1, <2>2, <2>4 DEF FollowsOne
  <2> QED BY <2>3, <2>4
<1> QED BY <1>7, <1>8, <1>9 DEF Sessions

\* The participants are counted.
LEMMA CountedStays ==
  ASSUME RoomShape, Counted, [Next]_vars
  PROVE  Counted'
<1>1. CASE UNCHANGED <<visits, sess>>
  BY <1>1 DEF Counted
<1>2. ASSUME NEW p \in Pids, Enter(p) PROVE Counted'
  BY <1>2 DEF Enter, Counted, RoomShape
<1>3. ASSUME NEW p \in Pids, Exit(p) PROVE Counted'
  BY <1>3 DEF Exit, Counted, RoomShape
<1>4. CASE Disconnect
  BY <1>4 DEF Disconnect, Counted, RoomShape
<1>5. CASE UNCHANGED sessionVars
  BY <1>1, <1>5 DEF sessionVars
<1>6. CASE Connect \/ Greeted \/ HandleJoined \/ HandleLeft \/ DisconnectHandlers \/ DisconnectPipes
  BY <1>1, <1>6, Zenon DEF Connect, Greeted, HandleJoined, HandleLeft, DisconnectHandlers, DisconnectPipes
<1>7. ASSUME NEW h \in leaving, NotifyLeft(h) \/ HandledLeft(h) PROVE Counted'
  BY <1>1, <1>7, Zenon DEF NotifyLeft, HandledLeft
<1> QED BY <1>2, <1>3, <1>4, <1>5, <1>6, <1>7, RoomSteps DEF RoomStep

\* As long as the client is not disconnected.
LEMMA SessionsStay ==
  ASSUME RoomShape, RoomShape', Counted, Open => Sessions, [Next]_vars
  PROVE  Open' => Sessions'
<1> SUFFICES ASSUME Open' PROVE Sessions'
  OBVIOUS
<1>1. ASSUME Open, UNCHANGED <<visits, sess, spawned, leaving, conn>> PROVE Sessions'
  BY <1>1 DEF Sessions, Handlers, InOrder, Behind, Follows, FollowsOne, Pending, Ends
<1>2. CASE UNCHANGED sessionVars
  BY <1>1, <1>2 DEF sessionVars, Open
<1>3. ASSUME NEW p \in Pids, Enter(p) \/ Exit(p) PROVE Sessions'
  <2>1. Open
    BY <1>3, Zenon DEF Enter, Exit, Open
  <2> QED BY <1>3, <2>1, SessionsEnter, SessionsExit
<1>4. CASE Connect
  BY <1>4, SessionsConnect DEF Connect, Open
<1>5. CASE Greeted
  BY <1>1, <1>5 DEF Greeted, Open
<1>6. CASE HandleJoined \/ HandleLeft
  <2>1. Open
    BY <1>6, Zenon DEF HandleJoined, HandleLeft, Open
  <2> QED BY <1>6, <2>1, SessionsHandleJoined, SessionsHandleLeft
<1>7. ASSUME NEW h \in leaving, NotifyLeft(h) PROVE Sessions'
  <2>1. Open
    BY <1>7, Zenon DEF NotifyLeft, Open
  <2> QED BY <1>7, <2>1, SessionsNotifyLeft
<1>8. ASSUME NEW h \in leaving, HandledLeft(h) PROVE Sessions'
  <2>1. /\ Open /\ visits' = visits /\ sess' = sess /\ spawned' = spawned /\ conn' = conn
        /\ leaving' = leaving \ {h} /\ h.phase = "told"
    BY <1>8, Zenon DEF HandledLeft, Open
  <2>2. \A l \in leaving : l.phase = "files" => l \in leaving'
    BY <2>1
  <2>3. \A q : /\ Pending(q, visits[q])' <=> Pending(q, visits[q])
               /\ Ends(q, visits[q])' <=> Ends(q, visits[q])
    BY <2>1 DEF Pending, Ends
  <2>4. Follows'
    BY <2>1, <2>2, <2>3 DEF Sessions, Follows, FollowsOne
  <2>5. Behind'
    BY <2>1, <2>3 DEF Sessions, Behind, Pending
  <2> QED BY <2>1, <2>4, <2>5 DEF Sessions, Handlers, InOrder
<1>9. CASE Disconnect \/ DisconnectHandlers \/ DisconnectPipes
  BY <1>9 DEF Disconnect, DisconnectHandlers, DisconnectPipes, Open
<1> QED BY <1>2, <1>3, <1>4, <1>5, <1>6, <1>7, <1>8, <1>9, RoomSteps DEF RoomStep

-----------------------------------------------------------------------------
(* The types of the return audio. *)

\* A track whose backlog is as long as its frames, when the chunks received are w.
TrackOK(r, w) ==
  /\ r \in TrackType(Len(w))
  /\ r.queued = Length(r.queue, w) /\ r.queued <= MaxBuffer

\* The frames that a track still has.
Frames(r) == {r.queue[i] : i \in DOMAIN r.queue} \cup {r.lk[i] : i \in DOMAIN r.lk}

\* x is the track r with no more frames than it had.
Fewer(r, x) ==
  x.phase = r.phase /\ x.pid = r.pid /\ x.sess = r.sess /\ Frames(x) \subseteq Frames(r)

GoneTrack == [NoTrack EXCEPT !.phase = "gone"]

TrackFor(p, s) == [NoTrack EXCEPT !.phase = "up", !.pid = p, !.sess = s]

\* Tracks that are not up yet, that are new, or that are no longer up.
LEMMA EmptyTracks ==
  ASSUME NEW w \in Seq(Nat)
  PROVE  /\ TrackOK(NoTrack, w) /\ Frames(NoTrack) = {} /\ NoTrack.phase = "none"
         /\ TrackOK(GoneTrack, w) /\ Frames(GoneTrack) = {} /\ GoneTrack.phase = "gone"
         /\ \A p \in Pids, s \in 0 .. MaxVisits :
              /\ TrackOK(TrackFor(p, s), w) /\ Frames(TrackFor(p, s)) = {}
              /\ TrackFor(p, s).phase = "up" /\ TrackFor(p, s).pid = p /\ TrackFor(p, s).sess = s
<1> DEFINE e == << >>
<1>1. /\ Len(w) \in Nat /\ e \in Seq(1 .. Len(w)) /\ Len(e) = 0 /\ DOMAIN e = {}
      /\ Length(e, w) = 0 /\ 0 <= MaxBuffer /\ 0 \in 0 .. MaxVisits
  <2>1. Len(w) \in Nat /\ e \in Seq(1 .. Len(w)) /\ Len(e) = 0 /\ DOMAIN e = {}
    BY LenProperties, EmptySeq
  <2>2. Length(e, w) = 0
    BY <2>1, LengthOfOne, LengthIsSum
  <2> QED BY <2>1, <2>2, Bounds
<1>2. NoTrack \in TrackType(Len(w)) /\ NoTrack.queue = e /\ NoTrack.lk = e /\ NoTrack.queued = 0
  <2>1. NoTrack = [phase |-> "none", pid |-> None, sess |-> 0, queue |-> e, queued |-> 0,
                   flag |-> FALSE, busy |-> FALSE, lk |-> e]
    BY DEF NoTrack
  <2> HIDE DEF e
  <2> QED BY <1>1, <2>1 DEF TrackType
<1> HIDE DEF e
<1>3. \A r \in TrackType(Len(w)) :
        r.queue = e /\ r.lk = e /\ r.queued = 0 => TrackOK(r, w) /\ Frames(r) = {}
  BY <1>1 DEF TrackOK, Frames
<1>4. /\ GoneTrack \in TrackType(Len(w)) /\ GoneTrack.queue = e /\ GoneTrack.lk = e
      /\ GoneTrack.queued = 0 /\ GoneTrack.phase = "gone"
  BY <1>2 DEF TrackType, GoneTrack
<1>5. ASSUME NEW p \in Pids, NEW s \in 0 .. MaxVisits, NEW x,
             x = TrackFor(p, s)
      PROVE  TrackOK(x, w) /\ Frames(x) = {} /\ x.phase = "up" /\ x.pid = p /\ x.sess = s
  <2>1. x \in TrackType(Len(w)) /\ x.queue = e /\ x.lk = e /\ x.queued = 0
        /\ x.phase = "up" /\ x.pid = p /\ x.sess = s
    BY <1>2, <1>5 DEF TrackType, TrackFor
  <2> QED BY <1>3, <2>1
<1>6. NoTrack.phase = "none"
  BY DEF NoTrack
<1>7. \A p \in Pids, s \in 0 .. MaxVisits :
        /\ TrackOK(TrackFor(p, s), w) /\ Frames(TrackFor(p, s)) = {}
        /\ TrackFor(p, s).phase = "up" /\ TrackFor(p, s).pid = p /\ TrackFor(p, s).sess = s
  BY <1>5
<1>8. \A r \in {NoTrack, GoneTrack} : TrackOK(r, w) /\ Frames(r) = {}
  BY <1>2, <1>3, <1>4
<1> QED BY <1>4, <1>6, <1>7, <1>8, Zenon

\* Chunks that come later do not concern a track.
LEMMA TrackGrows ==
  ASSUME NEW w \in Seq(Nat), NEW d \in Nat, NEW r, TrackOK(r, w)
  PROVE  TrackOK(r, Append(w, d))
<1> DEFINE v == Append(w, d)
           D == 1 .. Len(w)
<1>1. v \in Seq(Nat) /\ Len(v) = Len(w) + 1 /\ Len(w) \in Nat /\ \A i \in D : v[i] = w[i]
  BY AppendProperties, LenProperties
<1>2. r.queue \in Seq(D) /\ r.lk \in Seq(D)
  BY DEF TrackOK, TrackType
<1>3. r.queue \in Seq(1 .. Len(w) + 1) /\ r.lk \in Seq(1 .. Len(w) + 1)
  BY <1>1, <1>2, SeqGrows
<1>4. r \in TrackType(Len(w) + 1)
  BY <1>3 DEF TrackOK, TrackType
<1>5. Length(r.queue, v) = Length(r.queue, w)
  <2> HIDE DEF D, v
  <2> QED BY <1>1, <1>2, LengthAgrees
<1> HIDE DEF v
<1>6. TrackOK(r, v)
  BY <1>1, <1>4, <1>5 DEF TrackOK
<1> QED BY <1>6 DEF v

\* What the frames of a track are numbered.
LEMMA FramesAreChunks ==
  ASSUME NEW n \in Nat, NEW r \in TrackType(n)
  PROVE  Frames(r) \subseteq 1 .. n
<1>1. r.queue \in Seq(1 .. n) /\ r.lk \in Seq(1 .. n)
  BY DEF TrackType
<1> DEFINE D == 1 .. n
<1> HIDE DEF D
<1>2. \A q \in Seq(D) : \A i \in DOMAIN q : q[i] \in D
  BY LenProperties, ElementOfSeq
<1>3. \A x \in Frames(r) : x \in D
  BY <1>1, <1>2 DEF Frames, D
<1> QED BY <1>3 DEF D

\* _drain() hands over the first frame of the backlog, and counts it off.
LEMMA DrainEffect ==
  ASSUME NEW w \in Seq(Nat), NEW r, TrackOK(r, w), r.queue # <<>>, NEW b \in BOOLEAN, NEW x,
         x = [r EXCEPT !.queue = Tail(@), !.flag = b, !.busy = TRUE,
                       !.queued = @ - w[Head(r.queue)], !.lk = Append(@, Head(r.queue))]
  PROVE  TrackOK(x, w) /\ Fewer(r, x)
<1> DEFINE D == 1 .. Len(w)
           h == Head(r.queue)
           t == Tail(r.queue)
<1>1. /\ r.queue \in Seq(D) /\ r.lk \in Seq(D) /\ r \in TrackType(Len(w)) /\ r.queued \in Nat
      /\ r.queued = Length(r.queue, w) /\ r.queued <= MaxBuffer
      /\ \A i \in D : w[i] \in Nat
  BY ElementOfSeq DEF TrackOK, TrackType
<1>2. /\ x = [r EXCEPT !.queue = t, !.flag = b, !.busy = TRUE, !.queued = r.queued - w[h],
                       !.lk = Append(r.lk, h)]
  OBVIOUS
<1>3. r \in TrackType(Len(w))
  BY <1>1
<1> HIDE DEF D
<1>4. /\ h \in D /\ h = r.queue[1] /\ 1 \in DOMAIN r.queue /\ t \in Seq(D)
      /\ \A i \in DOMAIN t : i + 1 \in DOMAIN r.queue /\ t[i] = r.queue[i + 1]
  BY <1>1, TakeHead
<1>5. r.queue = <<h>> \o t /\ <<h>> \in Seq(D)
  <2>1. <<h>> \in Seq(D)
    BY <1>4
  <2>2. r.queue = <<h>> \o t
    BY <1>1, HeadTailProperties
  <2> QED BY <2>1, <2>2
<1> HIDE DEF h, t
<1>6. /\ Length(<<h>>, w) = w[h] /\ w[h] \in Nat
      /\ Length(t, w) \in Nat /\ Length(<<h>> \o t, w) = Length(<<h>>, w) + Length(t, w)
  <2>1. w[h] \in Nat
    BY <1>1, <1>4
  <2>2. \A y, z \in Seq(D) : Length(z, w) \in Nat /\ Length(y \o z, w) = Length(y, w) + Length(z, w)
    BY <1>1, LengthConcat
  <2> QED BY <1>4, <1>5, <2>1, <2>2, LengthOfOne
<1>7. r.queued - w[h] = Length(t, w) /\ r.queued - w[h] \in Nat /\ r.queued - w[h] <= MaxBuffer
  <2>1. r.queued = w[h] + Length(t, w)
    BY <1>1, <1>5, <1>6
  <2> DEFINE k == w[h]
             m == Length(t, w)
             q == r.queued
  <2>2. q = k + m /\ q \in Nat /\ k \in Nat /\ m \in Nat /\ q <= MaxBuffer /\ MaxBuffer \in Nat
    BY <1>1, <1>6, <2>1, Bounds
  <2> HIDE DEF k, m, q
  <2>3. q - k = m /\ q - k \in Nat /\ q - k <= MaxBuffer
    BY <2>2
  <2> QED BY <2>3 DEF k, m, q
<1>8. /\ Append(r.lk, h) \in Seq(D)
      /\ \A i \in DOMAIN Append(r.lk, h) : \/ i \in DOMAIN r.lk /\ Append(r.lk, h)[i] = r.lk[i]
                                           \/ i = Len(r.lk) + 1 /\ Append(r.lk, h)[i] = h
  BY <1>1, <1>4, PutLast
<1> DEFINE l == Append(r.lk, h)
           c == r.queued - w[h]
<1>9. /\ x = [r EXCEPT !.queue = t, !.flag = b, !.busy = TRUE, !.queued = c, !.lk = l]
      /\ t \in Seq(D) /\ l \in Seq(D) /\ c \in Nat /\ c = Length(t, w) /\ c <= MaxBuffer
  BY <1>2, <1>4, <1>7, <1>8
<1>10. \A i \in DOMAIN l : l[i] = h \/ \E j \in DOMAIN r.lk : l[i] = r.lk[j]
  BY <1>8
<1> HIDE DEF l, c
<1>11. x \in TrackType(Len(w))
  BY <1>3, <1>9 DEF TrackType, D
<1>12. /\ x.queue = t /\ x.lk = l /\ x.queued = c
       /\ x.phase = r.phase /\ x.pid = r.pid /\ x.sess = r.sess
  BY <1>3, <1>9 DEF TrackType
<1>13. Frames(x) \subseteq Frames(r)
  <2>1. \A i \in DOMAIN t : t[i] \in Frames(r)
    BY <1>4 DEF Frames
  <2>2. h \in Frames(r)
    BY <1>4 DEF Frames
  <2>3. \A i \in DOMAIN l : l[i] \in Frames(r)
    BY <1>10, <2>2 DEF Frames
  <2>4. \A y \in Frames(x) : (\E i \in DOMAIN t : y = t[i]) \/ (\E i \in DOMAIN l : y = l[i])
    BY <1>12 DEF Frames
  <2> QED BY <2>1, <2>3, <2>4
<1> QED BY <1>9, <1>11, <1>12, <1>13 DEF TrackOK, Fewer

\* A frame that is played.
LEMMA PlayEffect ==
  ASSUME NEW w, NEW r, TrackOK(r, w), r.lk # <<>>
  PROVE  /\ TrackOK([r EXCEPT !.lk = Tail(r.lk)], w) /\ Fewer(r, [r EXCEPT !.lk = Tail(r.lk)])
         /\ Head(r.lk) \in Frames(r)
<1> DEFINE D == 1 .. Len(w)
           x == [r EXCEPT !.lk = Tail(r.lk)]
<1>1. r.lk \in Seq(D) /\ r \in TrackType(Len(w))
  BY DEF TrackOK, TrackType
<1>2. /\ Head(r.lk) = r.lk[1] /\ 1 \in DOMAIN r.lk /\ Tail(r.lk) \in Seq(D)
      /\ \A i \in DOMAIN Tail(r.lk) : i + 1 \in DOMAIN r.lk /\ Tail(r.lk)[i] = r.lk[i + 1]
  <2> HIDE DEF D
  <2> QED BY <1>1, TakeHead
<1>3. /\ x \in TrackType(Len(w)) /\ x.lk = Tail(r.lk) /\ x.queue = r.queue /\ x.queued = r.queued
      /\ x.phase = r.phase /\ x.pid = r.pid /\ x.sess = r.sess
  <2> DEFINE t == Tail(r.lk)
  <2>1. t \in Seq(1 .. Len(w))
    BY <1>2
  <2> HIDE DEF t
  <2>2. /\ [r EXCEPT !.lk = t] \in TrackType(Len(w)) /\ [r EXCEPT !.lk = t].lk = t
        /\ [r EXCEPT !.lk = t].queue = r.queue /\ [r EXCEPT !.lk = t].queued = r.queued
        /\ [r EXCEPT !.lk = t].phase = r.phase /\ [r EXCEPT !.lk = t].pid = r.pid
        /\ [r EXCEPT !.lk = t].sess = r.sess
    BY <1>1, <2>1 DEF TrackType
  <2> QED BY <2>2 DEF t
<1> HIDE DEF x, D
<1>4. Frames(x) \subseteq Frames(r) /\ Head(r.lk) \in Frames(r)
  BY <1>2, <1>3 DEF Frames
<1>5. TrackOK(x, w) /\ Fewer(r, x)
  BY <1>3, <1>4 DEF TrackOK, Fewer
<1> QED BY <1>4, <1>5 DEF x

\* A track that is flushed.
LEMMA FlushEffect ==
  ASSUME NEW w \in Seq(Nat), NEW r, TrackOK(r, w), NEW x,
         x = [r EXCEPT !.queue = <<>>, !.queued = 0, !.flag = FALSE, !.lk = <<>>]
  PROVE  TrackOK(x, w) /\ Fewer(r, x) /\ Frames(x) = {}
<1> DEFINE e == << >>
<1>1. /\ e \in Seq(1 .. Len(w)) /\ DOMAIN e = {} /\ Length(e, w) = 0 /\ 0 <= MaxBuffer
  <2>1. Len(w) \in Nat /\ e \in Seq(1 .. Len(w)) /\ Len(e) = 0 /\ DOMAIN e = {}
    BY LenProperties, EmptySeq
  <2>2. Length(e, w) = 0
    BY <2>1, LengthIsSum
  <2> QED BY <2>1, <2>2, Bounds
<1>2. x = [r EXCEPT !.queue = e, !.queued = 0, !.flag = FALSE, !.lk = e]
  OBVIOUS
<1> HIDE DEF e
<1>3. /\ x \in TrackType(Len(w)) /\ x.lk = e /\ x.queue = e /\ x.queued = 0
      /\ x.phase = r.phase /\ x.pid = r.pid /\ x.sess = r.sess
  <2>1. r \in TrackType(Len(w))
    BY DEF TrackOK
  <2>2. 0 \in Nat /\ FALSE \in BOOLEAN
    OBVIOUS
  <2> QED BY <1>1, <1>2, <2>1, <2>2 DEF TrackType
<1>4. Frames(x) = {}
  BY <1>1, <1>3 DEF Frames
<1> QED BY <1>1, <1>3, <1>4 DEF TrackOK, Fewer

\* A frame that is pushed.
LEMMA PushKeeps ==
  ASSUME NEW w \in Seq(Nat), w = chunks', NEW r, TrackOK(r, w), NEW n \in 1 .. Len(w)
  PROVE  /\ TrackOK(Push(r, n), w)
         /\ Push(r, n).phase = r.phase /\ Push(r, n).pid = r.pid /\ Push(r, n).sess = r.sess
         /\ Frames(Push(r, n)) \subseteq Frames(r) \cup {n}
<1> DEFINE m == Len(w)
<1>1. m \in Nat /\ r \in TrackType(m) /\ \A i \in 1 .. m : w[i] \in Nat
  BY LenProperties, ElementOfSeq DEF TrackOK
<1>2. r.queued = Length(r.queue, w) /\ r.queued <= MaxBuffer
  BY DEF TrackOK
<1> HIDE DEF m
<1>3. n \in 1 .. m
  BY DEF m
<1>4. /\ Push(r, n) \in TrackType(m)
      /\ Push(r, n).phase = r.phase /\ Push(r, n).pid = r.pid /\ Push(r, n).sess = r.sess
      /\ Push(r, n).lk = r.lk
      /\ Push(r, n).queued = Length(Push(r, n).queue, w) /\ Push(r, n).queued <= MaxBuffer
      /\ \A i \in DOMAIN Push(r, n).queue :
           \/ Push(r, n).queue[i] = n
           \/ \E j \in DOMAIN r.queue : Push(r, n).queue[i] = r.queue[j]
  BY <1>1, <1>2, <1>3, PushEffect
<1> DEFINE x == Push(r, n)
<1> HIDE DEF x
<1>5. Frames(x) \subseteq Frames(r) \cup {n}
  BY <1>4 DEF Frames, x
<1> QED BY <1>4, <1>5 DEF TrackOK, m, x

\* The tracks and the chunks they have.
TracksShape ==
  /\ chunks \in Seq(Nat) /\ Len(chunks) <= MaxChunks
  /\ tracks \in [Tracks -> TrackType(Len(chunks))]
  /\ \A t \in Tracks : TrackOK(tracks[t], chunks)

\* Who may hear them, and the callback that is under way.
TablesShape ==
  /\ entry \in [Pids -> 0 .. MaxChunks] /\ perms \in [Pids -> 0 .. MaxChunks]
  /\ call \in CallType /\ (call # NoCall => Len(chunks) # 0) /\ heard \in [Pids -> Nat]
  /\ flushed \in [upto : [Pids -> Nat], n : Nat]

\* One track changes, for one that is in order.
LEMMA OneTrack ==
  ASSUME TracksShape, NEW t, NEW x, t \in Tracks => TrackOK(x, chunks),
         tracks' = [tracks EXCEPT ![t] = x], chunks' = chunks
  PROVE  /\ TracksShape'
         /\ \A u \in Tracks : u # t => tracks'[u] = tracks[u]
         /\ t \in Tracks => tracks'[t] = x
<1>1. /\ \A u \in Tracks : u # t => tracks'[u] = tracks[u]
      /\ t \in Tracks => tracks'[t] = x
  BY DEF TracksShape
<1>2. \A u \in Tracks : TrackOK(tracks'[u], chunks)
  BY <1>1 DEF TracksShape
<1>3. tracks' \in [Tracks -> TrackType(Len(chunks))]
  BY <1>2 DEF TracksShape, TrackOK
<1>4. TracksShape'
  BY <1>2, <1>3 DEF TracksShape, TrackOK
<1> QED BY <1>1, <1>4

\* A callback that is under way.
LEMMA CallFields ==
  ASSUME call \in CallType, call # NoCall
  PROVE  /\ call.phase \in {"close", "publish", "discard"} /\ call.pid \in Pids
         /\ call.sess \in 1 .. MaxVisits /\ call.track \in 0 .. MaxChunks
         /\ call \in [phase : {"close", "publish", "discard"}, pid : Pids,
                      sess : 1 .. MaxVisits, track : 0 .. MaxChunks]
BY DEF CallType

LEMMA NoCallFields == NoCall \in CallType /\ NoCall.phase = "none"
BY DEF CallType, NoCall

\* A track is closed.
LEMMA ClosedTrack ==
  ASSUME TracksShape, NEW t, Closed(t), chunks' = chunks
  PROVE  /\ TracksShape'
         /\ \A u \in Tracks : u # t => tracks'[u] = tracks[u]
         /\ t \in Tracks => tracks'[t] = GoneTrack
<1>1. tracks' = [tracks EXCEPT ![t] = GoneTrack]
  BY Zenon DEF Closed, GoneTrack
<1>2. t \in Tracks => TrackOK(GoneTrack, chunks)
  BY EmptyTracks DEF TracksShape
<1> QED BY <1>1, <1>2, OneTrack

-----------------------------------------------------------------------------
(* What the steps do to the return audio. *)

\* x is the track r, with frames of r and of S.
Like(r, x, S) ==
  x.phase = r.phase /\ x.pid = r.pid /\ x.sess = r.sess /\ Frames(x) \subseteq Frames(r) \cup S

\* No track gets a frame.
TracksKept == \A t \in Tracks : Like(tracks[t], tracks'[t], {})

LEMMA FewerIsLike ==
  ASSUME NEW r, NEW x, Fewer(r, x)
  PROVE  Like(r, x, {})
BY DEF Fewer, Like

LEMMA LikeItself == \A r, S : Like(r, r, S)
BY DEF Like

\* A chunk that is received concerns no track yet.
LEMMA ChunkReceived ==
  ASSUME TracksShape, NEW d \in Nat, chunks' = Append(chunks, d), Len(chunks) + 1 <= MaxChunks
  PROVE  /\ chunks' \in Seq(Nat) /\ Len(chunks') = Len(chunks) + 1 /\ Len(chunks) \in Nat
         /\ \A t \in Tracks : TrackOK(tracks[t], chunks')
         /\ tracks \in [Tracks -> TrackType(Len(chunks'))]
<1>1. /\ chunks' \in Seq(Nat) /\ Len(chunks') = Len(chunks) + 1 /\ Len(chunks) \in Nat
  BY AppendProperties, LenProperties DEF TracksShape
<1>2. \A t \in Tracks : TrackOK(tracks[t], chunks')
  BY TrackGrows DEF TracksShape
<1>3. tracks \in [Tracks -> TrackType(Len(chunks'))]
  BY <1>2 DEF TracksShape, TrackOK
<1> QED BY <1>1, <1>2, <1>3

\* The outcomes of send_return_audio(): buffered or refused, a first track, or another one.
SendStays == call' = NoCall /\ entry' = entry /\ perms' = perms

SendFirst(p) ==
  /\ entry[p] = 0 /\ sess[p] # 0 /\ tracks' = tracks /\ entry' = entry /\ perms' = perms
  /\ call' = [phase |-> "publish", pid |-> p, sess |-> sess[p], track |-> 0]

SendReplaces(p) ==
  /\ entry[p] # 0 /\ sess[p] # 0 /\ tracks' = tracks
  /\ entry' = [entry EXCEPT ![p] = 0] /\ perms' = entry'
  /\ call' = [phase |-> "close", pid |-> p, sess |-> sess[p], track |-> entry[p]]

LEMMA SendEffect ==
  ASSUME RoomShape, TracksShape, TablesShape,
         NEW p \in Pids, NEW d \in Lens, SendReturnAudio(p, d)
  PROVE  /\ TracksShape' /\ TablesShape'
         /\ call = NoCall /\ Len(chunks') = Len(chunks) + 1 /\ flushed' = flushed /\ heard' = heard
         /\ \A t \in Tracks :
              Like(tracks[t], tracks'[t], IF t = entry[p] THEN {Len(chunks')} ELSE {})
         /\ SendStays \/ SendFirst(p) \/ SendReplaces(p)
<1> DEFINE n == Len(chunks) + 1
           t == entry[p]
<1>1. /\ call = NoCall /\ n <= MaxChunks /\ chunks' = Append(chunks, d) /\ d \in Nat
      /\ flushed' = flushed /\ heard' = heard
  BY Bounds DEF SendReturnAudio, audioRest
<1>2. /\ chunks' \in Seq(Nat) /\ Len(chunks') = n /\ Len(chunks) \in Nat
      /\ \A u \in Tracks : TrackOK(tracks[u], chunks')
      /\ tracks \in [Tracks -> TrackType(Len(chunks'))]
  BY <1>1, ChunkReceived
<1>3. sess[p] \in 0 .. MaxVisits /\ t \in 0 .. MaxChunks
  BY DEF RoomShape, TablesShape
<1>4. ASSUME tracks' = tracks
      PROVE  /\ TracksShape'
             /\ \A u \in Tracks : Like(tracks[u], tracks'[u], IF u = t THEN {n} ELSE {})
  BY <1>1, <1>2, <1>4, LikeItself DEF TracksShape
<1>5. CASE sess[p] = 0
  <2>1. tracks' = tracks /\ SendStays
    BY <1>1, <1>5, Zenon DEF SendReturnAudio, SendStays
  <2>2. TablesShape'
    BY <1>1, <2>1 DEF SendStays, TablesShape
  <2> QED BY <1>1, <1>2, <1>4, <2>1, <2>2
<1>6. CASE sess[p] # 0 /\ t # 0 /\ tracks[t].sess = sess[p]
  <2> DEFINE x == Push(tracks[t], n)
  <2>1. tracks' = [tracks EXCEPT ![t] = x] /\ SendStays
    BY <1>1, <1>6, Zenon DEF SendReturnAudio, SendStays
  <2>2. t \in Tracks /\ n \in 1 .. Len(chunks')
    BY <1>2, <1>3, <1>6 DEF Tracks
  <2>3. TrackOK(x, chunks') /\ Like(tracks[t], x, {n})
    <3>1. TrackOK(tracks[t], chunks')
      BY <1>2, <2>2
    <3>2. PICK w : w = chunks'
      OBVIOUS
    <3>3. /\ TrackOK(Push(tracks[t], n), w)
          /\ Push(tracks[t], n).phase = tracks[t].phase /\ Push(tracks[t], n).pid = tracks[t].pid
          /\ Push(tracks[t], n).sess = tracks[t].sess
          /\ Frames(Push(tracks[t], n)) \subseteq Frames(tracks[t]) \cup {n}
      <4>1. w \in Seq(Nat) /\ TrackOK(tracks[t], w) /\ n \in 1 .. Len(w)
        BY <1>2, <2>2, <3>1, <3>2
      <4> QED BY <3>2, <4>1, PushKeeps
    <3> QED BY <3>2, <3>3 DEF Like
  <2> HIDE DEF x
  <2>4. tracks'[t] = x /\ \A u \in Tracks : u # t => tracks'[u] = tracks[u]
    BY <1>2, <2>1, <2>2
  <2>5. \A u \in Tracks : TrackOK(tracks'[u], chunks')
    BY <1>2, <2>3, <2>4
  <2>6. tracks' \in [Tracks -> TrackType(Len(chunks'))]
    BY <1>2, <2>1, <2>5 DEF TrackOK
  <2>7. TracksShape'
    BY <1>1, <1>2, <2>5, <2>6 DEF TracksShape
  <2>8. \A u \in Tracks : Like(tracks[u], tracks'[u], IF u = t THEN {n} ELSE {})
    BY <2>3, <2>4, LikeItself
  <2>9. TablesShape'
    BY <1>1, <2>1 DEF SendStays, TablesShape
  <2> QED BY <1>1, <1>2, <2>1, <2>7, <2>8, <2>9
<1>7. CASE sess[p] # 0 /\ t = 0
  <2>1. SendFirst(p)
    <3>1. /\ tracks' = tracks /\ perms' = perms /\ entry' = [entry EXCEPT ![p] = 0]
          /\ call' = [phase |-> "publish", pid |-> p, sess |-> sess[p], track |-> t]
      BY <1>7, Zenon DEF SendReturnAudio
    <3>2. entry' = entry
      BY <1>7, <3>1 DEF TablesShape
    <3> QED BY <1>7, <3>1, <3>2 DEF SendFirst
  <2>2. call' \in CallType /\ Len(chunks') # 0
    BY <1>2, <1>3, <1>7, <2>1 DEF SendFirst, CallType
  <2>3. TablesShape'
    BY <1>1, <2>1, <2>2 DEF SendFirst, TablesShape
  <2> QED BY <1>1, <1>2, <1>4, <2>1, <2>3 DEF SendFirst
<1>8. CASE sess[p] # 0 /\ t # 0 /\ tracks[t].sess # sess[p]
  <2>1. SendReplaces(p)
    <3>1. /\ tracks' = tracks /\ perms' = entry' /\ entry' = [entry EXCEPT ![p] = 0]
          /\ call' = [phase |-> "close", pid |-> p, sess |-> sess[p], track |-> t]
      BY <1>8, Zenon DEF SendReturnAudio, Refresh
    <3> QED BY <1>8, <3>1 DEF SendReplaces
  <2>2. call' \in CallType /\ Len(chunks') # 0
    BY <1>2, <1>3, <1>8, <2>1 DEF SendReplaces, CallType
  <2>3. entry' \in [Pids -> 0 .. MaxChunks]
    BY <1>3, <2>1, Bounds DEF SendReplaces, TablesShape
  <2>4. TablesShape'
    BY <1>1, <2>1, <2>2, <2>3 DEF SendReplaces, TablesShape
  <2> QED BY <1>1, <1>2, <1>4, <2>1, <2>4 DEF SendReplaces
<1> QED BY <1>5, <1>6, <1>7, <1>8

\* The steps of a track.
LEMMA TrackEffect ==
  ASSUME TracksShape, TablesShape, NEW t \in Tracks, TrackStep(t)
  PROVE  /\ TracksShape' /\ TablesShape' /\ TracksKept
         /\ UNCHANGED <<entry, perms, call, chunks, flushed>>
         /\ \A p \in Pids : heard'[p] # heard[p] =>
              perms[p] = t /\ heard'[p] \in Frames(tracks[t])
<1>1. UNCHANGED <<entry, perms, call, chunks, flushed>>
  BY Zenon DEF TrackStep, Drain, Captured, Play
<1>2. chunks \in Seq(Nat) /\ TrackOK(tracks[t], chunks)
  BY DEF TracksShape
<1>3. ASSUME NEW x, tracks' = [tracks EXCEPT ![t] = x], TrackOK(x, chunks), Fewer(tracks[t], x)
      PROVE  TracksShape' /\ TracksKept
  <2>1. /\ TracksShape' /\ tracks'[t] = x /\ \A u \in Tracks : u # t => tracks'[u] = tracks[u]
    BY <1>1, <1>3, OneTrack
  <2>2. TracksKept
    BY <1>3, <2>1, FewerIsLike, LikeItself DEF TracksKept
  <2> QED BY <2>1, <2>2
<1>4. ASSUME heard' = heard PROVE TablesShape'
  BY <1>1, <1>4 DEF TablesShape
<1>5. CASE Drain(t)
  <2> DEFINE r == tracks[t]
             b == Len(r.queue) > 1
             x == [r EXCEPT !.queue = Tail(@), !.flag = b, !.busy = TRUE,
                       !.queued = @ - chunks[Head(r.queue)], !.lk = Append(@, Head(r.queue))]
  <2>1. tracks' = [tracks EXCEPT ![t] = x] /\ heard' = heard /\ r.queue # <<>>
    BY <1>5, Zenon DEF Drain
  <2>2. TrackOK(x, chunks) /\ Fewer(r, x)
    <3>1. b \in BOOLEAN
      OBVIOUS
    <3> HIDE DEF b
    <3>2. PICK y : y = x
      OBVIOUS
    <3>3. TrackOK(y, chunks) /\ Fewer(r, y)
      BY <1>2, <2>1, <3>1, <3>2, DrainEffect
    <3> QED BY <3>2, <3>3
  <2> HIDE DEF x
  <2> QED BY <1>1, <1>3, <1>4, <2>1, <2>2
<1>6. CASE Captured(t)
  <2> DEFINE x == [tracks[t] EXCEPT !.busy = FALSE]
  <2>1. tracks' = [tracks EXCEPT ![t] = x] /\ heard' = heard
    BY <1>6, Zenon DEF Captured
  <2>2. /\ x \in TrackType(Len(chunks)) /\ x.queue = tracks[t].queue /\ x.lk = tracks[t].lk
        /\ x.queued = tracks[t].queued /\ x.phase = tracks[t].phase /\ x.pid = tracks[t].pid
        /\ x.sess = tracks[t].sess
    <3>1. tracks[t] \in TrackType(Len(chunks))
      BY <1>2 DEF TrackOK
    <3> QED BY <3>1 DEF TrackType
  <2> HIDE DEF x
  <2>3. TrackOK(x, chunks) /\ Fewer(tracks[t], x)
    BY <1>2, <2>2 DEF TrackOK, Fewer, Frames
  <2> QED BY <1>1, <1>3, <1>4, <2>1, <2>3
<1>7. CASE Play(t)
  <2> DEFINE r == tracks[t]
             x == [r EXCEPT !.lk = Tail(r.lk)]
             h == Head(r.lk)
  <2>1. /\ tracks' = [tracks EXCEPT ![t] = x] /\ r.lk # <<>>
        /\ heard' = IF perms[r.pid] = t THEN [heard EXCEPT ![r.pid] = h] ELSE heard
    BY <1>7, Zenon DEF Play
  <2>2. TrackOK(x, chunks) /\ Fewer(r, x) /\ h \in Frames(r)
    BY <1>2, <2>1, PlayEffect
  <2>3. h \in Nat
    BY <1>2, <2>2, FramesAreChunks, LenProperties DEF TrackOK
  <2> HIDE DEF x, h
  <2>4. heard' \in [Pids -> Nat]
    BY <2>1, <2>3 DEF TablesShape
  <2>5. TablesShape'
    BY <1>1, <2>4 DEF TablesShape
  <2>6. \A p \in Pids : heard'[p] # heard[p] => perms[p] = t /\ heard'[p] \in Frames(tracks[t])
    BY <2>1, <2>2 DEF TablesShape
  <2> QED BY <1>1, <1>3, <2>1, <2>2, <2>5, <2>6
<1> QED BY <1>5, <1>6, <1>7 DEF TrackStep

\* flush_return_audio() leaves nothing of a track.
LEMMA FlushReturnEffect ==
  ASSUME TracksShape, TablesShape, NEW p \in Pids, FlushReturnAudio(p)
  PROVE  /\ TracksShape' /\ TablesShape' /\ TracksKept
         /\ UNCHANGED <<entry, perms, call, chunks, heard>>
         /\ call = NoCall /\ entry[p] \in Tracks /\ Frames(tracks'[entry[p]]) = {}
         /\ flushed'.upto = [flushed.upto EXCEPT ![p] = Len(chunks)]
<1> DEFINE t == entry[p]
           x == [tracks[t] EXCEPT !.queue = <<>>, !.queued = 0, !.flag = FALSE, !.lk = <<>>]
           f == [n |-> flushed.n + 1, upto |-> [flushed.upto EXCEPT ![p] = Len(chunks)]]
<1>1. /\ UNCHANGED <<entry, perms, call, chunks, heard>> /\ call = NoCall /\ t # 0
      /\ tracks' = [tracks EXCEPT ![t] = x] /\ flushed' = f
  BY Zenon DEF FlushReturnAudio
<1>2. t \in Tracks /\ chunks \in Seq(Nat) /\ Len(chunks) \in Nat /\ TrackOK(tracks[t], chunks)
  BY <1>1, LenProperties DEF TablesShape, TracksShape, Tracks
<1>3. TrackOK(x, chunks) /\ Fewer(tracks[t], x) /\ Frames(x) = {}
  BY <1>2, FlushEffect
<1> HIDE DEF x
<1>4. TracksShape' /\ tracks'[t] = x /\ \A u \in Tracks : u # t => tracks'[u] = tracks[u]
  BY <1>1, <1>2, <1>3, OneTrack
<1>5. TracksKept
  BY <1>3, <1>4, FewerIsLike, LikeItself DEF TracksKept
<1>6. TablesShape' /\ flushed'.upto = [flushed.upto EXCEPT ![p] = Len(chunks)]
  <2>1. f \in [upto : [Pids -> Nat], n : Nat]
    BY <1>2 DEF TablesShape
  <2> QED BY <1>1, <2>1 DEF TablesShape
<1> QED BY <1>1, <1>2, <1>3, <1>4, <1>5, <1>6

\* Track t is closed, and no other changes.
OnlyClosed(t) ==
  /\ \A u \in Tracks : u # t => tracks'[u] = tracks[u]
  /\ t \in Tracks => tracks'[t] = GoneTrack

LEMMA CallClosedEffect ==
  ASSUME TracksShape, TablesShape, OldClosed \/ Discarded
  PROVE  /\ TracksShape' /\ TablesShape' /\ OnlyClosed(call.track)
         /\ UNCHANGED <<entry, perms, chunks, flushed, heard>> /\ call # NoCall
         /\ \/ call' = NoCall
            \/ /\ call.phase = "close"
               /\ call'.phase = "publish" /\ call'.pid = call.pid /\ call'.sess = call.sess
               /\ call'.track = 0 /\ call' # NoCall
<1>1. /\ UNCHANGED <<entry, perms, chunks, flushed, heard>> /\ Closed(call.track)
      /\ call.phase \in {"close", "discard"}
  BY Zenon DEF OldClosed, Discarded, audioRest
<1>2. TracksShape' /\ OnlyClosed(call.track)
  BY <1>1, ClosedTrack DEF OnlyClosed
<1>3. call # NoCall
  BY <1>1, NoCallFields
<1>4. CASE call' = NoCall
  BY <1>1, <1>2, <1>3, <1>4, NoCallFields DEF TablesShape
<1>5. CASE call.phase = "close" /\ call' = [call EXCEPT !.phase = "publish", !.track = 0]
  <2>1. /\ call' \in CallType /\ call'.phase = "publish" /\ call'.pid = call.pid
        /\ call'.sess = call.sess /\ call'.track = 0
    <3> DEFINE R == [phase : {"close", "publish", "discard"}, pid : Pids,
                     sess : 1 .. MaxVisits, track : 0 .. MaxChunks]
    <3>1. call \in R /\ 0 \in 0 .. MaxChunks
      BY <1>3, CallFields, Bounds DEF TablesShape
    <3>2. /\ call' \in R /\ call'.phase = "publish" /\ call'.pid = call.pid
          /\ call'.sess = call.sess /\ call'.track = 0
      BY <1>5, <3>1
    <3> QED BY <3>2 DEF CallType
  <2>2. call' # NoCall
    BY <2>1, NoCallFields
  <2>3. TablesShape'
    BY <1>1, <1>3, <2>1 DEF TablesShape
  <2> QED BY <1>1, <1>2, <1>3, <1>5, <2>1, <2>2, <2>3
<1> QED BY <1>4, <1>5, Zenon DEF OldClosed, Discarded

\* publish_track() failed.
LEMMA PublishFailsEffect ==
  ASSUME TracksShape, TablesShape, PublishFails
  PROVE  /\ TracksShape' /\ TablesShape'
         /\ UNCHANGED <<entry, perms, chunks, flushed, heard, tracks>> /\ call' = NoCall
<1>1. UNCHANGED <<entry, perms, chunks, flushed, heard, tracks>> /\ call' = NoCall
  BY Zenon DEF PublishFails, audioRest
<1> QED BY <1>1, NoCallFields DEF TracksShape, TablesShape

\* The outcomes of publish_track(): the track counts, or has to be closed.
PublishCounts(n) ==
  /\ sess[call.pid] = call.sess /\ call' = NoCall
  /\ tracks'[n].phase = "up" /\ tracks'[n].pid = call.pid /\ tracks'[n].sess = call.sess
  /\ Frames(tracks'[n]) \subseteq {n}
  /\ entry' = [entry EXCEPT ![call.pid] = n] /\ perms' = entry'

PublishDiscards(n) ==
  /\ call'.phase = "discard" /\ call'.track = n /\ call' # NoCall
  /\ tracks'[n].phase = "up" /\ tracks'[n].pid = call.pid /\ tracks'[n].sess = call.sess
  /\ Frames(tracks'[n]) = {}
  /\ entry' = entry /\ perms' = perms

LEMMA PublishedEffect ==
  ASSUME TracksShape, TablesShape, Published
  PROVE  /\ TracksShape' /\ TablesShape'
         /\ UNCHANGED <<chunks, flushed, heard>> /\ call # NoCall /\ call.phase = "publish"
         /\ Len(chunks) \in Tracks
         /\ \A u \in Tracks : u # Len(chunks) => tracks'[u] = tracks[u]
         /\ PublishCounts(Len(chunks)) \/ PublishDiscards(Len(chunks))
<1> DEFINE n == Len(chunks)
<1>1. UNCHANGED <<chunks, flushed, heard>> /\ call.phase = "publish"
  BY Zenon DEF Published, audioRest
<1>2. /\ call # NoCall /\ call.pid \in Pids /\ call.sess \in 1 .. MaxVisits
      /\ call \in [phase : {"close", "publish", "discard"}, pid : Pids,
                   sess : 1 .. MaxVisits, track : 0 .. MaxChunks]
  BY <1>1, NoCallFields, CallFields DEF TablesShape
<1>3. n \in Tracks /\ n \in 1 .. Len(chunks) /\ n \in Nat
  BY <1>2, LenProperties DEF TracksShape, TablesShape, Tracks
<1>4. NewTrack = TrackFor(call.pid, call.sess)
  BY DEF NewTrack, TrackFor
<1>5. /\ TrackOK(NewTrack, chunks) /\ Frames(NewTrack) = {} /\ NewTrack.phase = "up"
      /\ NewTrack.pid = call.pid /\ NewTrack.sess = call.sess
  BY <1>2, <1>4, EmptyTracks, Bounds DEF TracksShape
<1>6. ASSUME NEW x, TrackOK(x, chunks), tracks' = [tracks EXCEPT ![n] = x]
      PROVE  /\ TracksShape' /\ tracks'[n] = x
             /\ \A u \in Tracks : u # n => tracks'[u] = tracks[u]
  BY <1>1, <1>3, <1>6, OneTrack
<1>7. CASE sess[call.pid] = call.sess
  <2> DEFINE x == Push(NewTrack, n)
  <2>1. /\ tracks' = [tracks EXCEPT ![n] = x] /\ entry' = [entry EXCEPT ![call.pid] = n]
        /\ perms' = entry' /\ call' = NoCall
    BY <1>7, Zenon DEF Published, Refresh
  <2>2. TrackOK(x, chunks) /\ x.phase = "up" /\ x.pid = call.pid /\ x.sess = call.sess /\ Frames(x) \subseteq {n}
    <3>1. chunks = chunks' /\ chunks \in Seq(Nat)
      BY <1>1 DEF TracksShape
    <3> QED BY <1>3, <1>5, <3>1, PushKeeps
  <2> HIDE DEF x
  <2>3. TracksShape' /\ tracks'[n] = x /\ \A u \in Tracks : u # n => tracks'[u] = tracks[u]
    BY <1>6, <2>1, <2>2
  <2>4. entry' \in [Pids -> 0 .. MaxChunks]
    <3>1. n \in 0 .. MaxChunks /\ entry \in [Pids -> 0 .. MaxChunks]
      BY <1>3 DEF TablesShape, Tracks
    <3> HIDE DEF n
    <3> QED BY <2>1, <3>1
  <2>5. TablesShape'
    BY <1>1, <2>1, <2>4, NoCallFields DEF TablesShape
  <2> HIDE DEF n
  <2>6. PublishCounts(n)
    BY <1>7, <2>1, <2>2, <2>3 DEF PublishCounts
  <2> QED BY <1>1, <1>2, <1>3, <2>3, <2>5, <2>6 DEF n
<1>8. CASE sess[call.pid] # call.sess
  <2>1. /\ tracks' = [tracks EXCEPT ![n] = NewTrack] /\ entry' = entry /\ perms' = perms
        /\ call' = [call EXCEPT !.phase = "discard", !.track = n]
    BY <1>8, Zenon DEF Published
  <2>3. TracksShape' /\ tracks'[n] = NewTrack /\ \A u \in Tracks : u # n => tracks'[u] = tracks[u]
    BY <1>5, <1>6, <2>1
  <2>4. call' \in CallType /\ call'.phase = "discard" /\ call'.track = n
    <3> DEFINE R == [phase : {"close", "publish", "discard"}, pid : Pids,
                     sess : 1 .. MaxVisits, track : 0 .. MaxChunks]
    <3>1. call \in R /\ n \in 0 .. MaxChunks
      BY <1>2, <1>3 DEF Tracks
    <3> HIDE DEF n
    <3>2. call' \in R /\ call'.phase = "discard" /\ call'.track = n
      BY <2>1, <3>1
    <3> QED BY <3>2 DEF CallType
  <2>5. call' # NoCall
    BY <2>4, NoCallFields
  <2>6. TablesShape'
    BY <1>1, <1>2, <2>1, <2>4 DEF TablesShape
  <2> HIDE DEF n
  <2>7. PublishDiscards(n)
    BY <1>5, <2>1, <2>3, <2>4, <2>5 DEF PublishDiscards
  <2> QED BY <1>1, <1>2, <1>3, <2>3, <2>6, <2>7 DEF n
<1> QED BY <1>7, <1>8

\* A departure takes the session's track out of the table, and the permissions with it.
LEMMA HandleLeftEffect ==
  ASSUME RoomShape, TracksShape, TablesShape, HandleLeft
  PROVE  /\ TracksShape' /\ TablesShape'
         /\ UNCHANGED <<tracks, call, chunks, flushed, heard, phase, visits, sess>>
         /\ \E h \in HandlerType :
              /\ h = Head(spawned) /\ h.kind = "left" /\ h.pid \in Pids
              /\ \/ /\ entry[h.pid] # 0 /\ tracks[entry[h.pid]].sess = h.sess
                    /\ entry' = [entry EXCEPT ![h.pid] = 0] /\ perms' = entry'
                    /\ \A l \in leaving' : l \in leaving \/ l.track = entry[h.pid]
                 \/ /\ ~(entry[h.pid] # 0 /\ tracks[entry[h.pid]].sess = h.sess)
                    /\ entry' = entry /\ perms' = perms
                    /\ \A l \in leaving' : l \in leaving \/ l.track = 0
<1>1. UNCHANGED <<tracks, call, chunks, flushed, heard, phase, visits, sess>>
  BY Zenon DEF HandleLeft
<1>2. PICK h : h = Head(spawned)
  OBVIOUS
<1>3. h \in HandlerType /\ h.kind = "left" /\ h.pid \in Pids
  <2>1. spawned \in Seq(HandlerType) /\ spawned # <<>> /\ Head(spawned).kind = "left"
    BY Zenon DEF HandleLeft, RoomShape
  <2>2. Head(spawned) \in HandlerType
    BY <2>1, TakeHead
  <2> QED BY <1>2, <2>1, <2>2 DEF HandlerType
<1> DEFINE t == entry[h.pid]
           mine == t # 0 /\ tracks[t].sess = h.sess
           l == [pid |-> h.pid, sess |-> h.sess, phase |-> "files", track |-> IF mine THEN t ELSE 0]
<1>4. /\ leaving' = leaving \cup {l}
      /\ entry' = IF mine THEN [entry EXCEPT ![h.pid] = 0] ELSE entry
      /\ IF mine THEN perms' = entry' ELSE perms' = perms
  BY <1>2, Zenon DEF HandleLeft, Refresh
<1>5. l.track = IF mine THEN t ELSE 0
  BY Zenon
<1> HIDE DEF l
<1>6. CASE mine
  <2>1. entry' = [entry EXCEPT ![h.pid] = 0] /\ perms' = entry' /\ \A x \in leaving' : x \in leaving \/ x.track = t
    BY <1>4, <1>5, <1>6
  <2>2. entry' \in [Pids -> 0 .. MaxChunks]
    <3>1. entry \in [Pids -> 0 .. MaxChunks] /\ 0 \in 0 .. MaxChunks
      BY Bounds DEF TablesShape
    <3> QED BY <2>1, <3>1
  <2>3. TracksShape' /\ TablesShape'
    BY <1>1, <2>1, <2>2 DEF TablesShape, TracksShape
  <2> QED BY <1>1, <1>2, <1>3, <1>6, <2>1, <2>3
<1>7. CASE ~mine
  <2>1. entry' = entry /\ perms' = perms /\ \A x \in leaving' : x \in leaving \/ x.track = 0
    BY <1>4, <1>5, <1>7
  <2>2. TracksShape' /\ TablesShape'
    BY <1>1, <2>1 DEF TablesShape, TracksShape
  <2> QED BY <1>1, <1>2, <1>3, <1>7, <2>1, <2>2
<1> QED BY <1>6, <1>7

\* The departure's track is closed.
LEMMA HandledLeftEffect ==
  ASSUME TracksShape, TablesShape, NEW h \in leaving, HandledLeft(h)
  PROVE  /\ TracksShape' /\ TablesShape'
         /\ UNCHANGED <<entry, perms, call, chunks, flushed, heard, phase, visits, sess, spawned>>
         /\ leaving' \subseteq leaving
         /\ tracks' = tracks \/ OnlyClosed(h.track)
<1>1. /\ UNCHANGED <<entry, perms, call, chunks, flushed, heard, phase, visits, sess, spawned>>
      /\ leaving' \subseteq leaving /\ (Closed(h.track) \/ tracks' = tracks)
  BY DEF HandledLeft
<1>2. TablesShape'
  BY <1>1 DEF TablesShape
<1>3. CASE tracks' = tracks
  BY <1>1, <1>2, <1>3 DEF TracksShape
<1>4. CASE Closed(h.track)
  BY <1>1, <1>2, <1>4, ClosedTrack DEF OnlyClosed
<1> QED BY <1>1, <1>3, <1>4

\* Disconnecting closes the tracks of the table.
LEMMA DisconnectPipesEffect ==
  ASSUME TracksShape, TablesShape, DisconnectPipes
  PROVE  /\ TracksShape' /\ TablesShape'
         /\ UNCHANGED <<perms, call, chunks, flushed, heard, visits, sess, spawned, leaving>>
         /\ phase = "draining" /\ phase' = "down" /\ \A p \in Pids : entry'[p] = 0
         /\ \A t \in Tracks : IF \E p \in Pids : entry[p] = t THEN tracks'[t] = GoneTrack
                              ELSE tracks'[t] = tracks[t]
<1>1. /\ UNCHANGED <<perms, call, chunks, flushed, heard, visits, sess, spawned, leaving>>
      /\ phase = "draining" /\ phase' = "down" /\ entry' = [p \in Pids |-> 0]
      /\ tracks' = [t \in Tracks |-> IF \E p \in Pids : entry[p] = t THEN GoneTrack ELSE tracks[t]]
  BY Zenon DEF DisconnectPipes, GoneTrack
<1>2. \A t \in Tracks : IF \E p \in Pids : entry[p] = t THEN tracks'[t] = GoneTrack
                        ELSE tracks'[t] = tracks[t]
  BY <1>1, Zenon
<1>3. TrackOK(GoneTrack, chunks)
  BY EmptyTracks DEF TracksShape
<1>4. \A t \in Tracks : TrackOK(tracks'[t], chunks)
  BY <1>2, <1>3 DEF TracksShape
<1>5. tracks' \in [Tracks -> TrackType(Len(chunks))]
  BY <1>1, <1>4 DEF TrackOK
<1>6. TracksShape'
  BY <1>1, <1>4, <1>5 DEF TracksShape
<1>7. \A p \in Pids : entry'[p] = 0
  BY <1>1
<1>8. TablesShape'
  BY <1>1, Bounds DEF TablesShape
<1> QED BY <1>1, <1>2, <1>6, <1>7, <1>8

-----------------------------------------------------------------------------
(* The tracks, and who may hear them. *)

\* The track of the newest chunk is not there yet.
Busy == call.phase \in {"close", "publish"}

\* The tracks there have been.
Created(t) == IF Busy THEN t < Len(chunks) ELSE t <= Len(chunks)

\* The table has tracks that are up, for whom they were made, and nobody is about to close them.
Entries ==
  \A p \in Pids : entry[p] # 0 =>
    /\ Created(entry[p]) /\ tracks[entry[p]].phase = "up" /\ tracks[entry[p]].pid = p
    /\ tracks[entry[p]].sess # 0
    /\ call # NoCall => entry[p] # call.track
    /\ \A h \in leaving : h.track # entry[p]

\* What is about to be closed has been there.
Current == (call # NoCall => Created(call.track)) /\ \A h \in leaving : Created(h.track)

Fresh == \A t \in Tracks : ~Created(t) => tracks[t].phase = "none"

\* A track that is not up has no frames.
Idle == \A t \in Tracks : tracks[t].phase # "up" => Frames(tracks[t]) = {}

\* The permissions are those of the table, but for tracks that disconnect() closed.
Perms ==
  \A p \in Pids : \/ perms[p] = entry[p]
                  \/ phase = "down" /\ (perms[p] # 0 => tracks[perms[p]].phase = "gone")

\* What a track in the table has came after its participant's last flush.
New ==
  /\ \A p \in Pids : flushed.upto[p] <= Len(chunks) /\ (Busy => flushed.upto[p] < Len(chunks))
  /\ \A p \in Pids : entry[p] # 0 => \A n \in Frames(tracks[entry[p]]) : n > flushed.upto[p]

Audio == Entries /\ Current /\ Fresh /\ Idle /\ Perms /\ New

\* The tracks that departures will close are not more than they were.
LeavingTracks == \A l \in leaving' : \E k \in leaving : l.track = k.track

\* The steps that change neither the tracks nor what becomes of them.
QuietAudio ==
  /\ UNCHANGED audioVars /\ LeavingTracks /\ (phase = "down" => phase' = "down")

AudioStep ==
  /\ UNCHANGED sessionVars
  /\ \/ \E p \in Pids, d \in Lens : SendReturnAudio(p, d)
     \/ \E p \in Pids : FlushReturnAudio(p)
     \/ CallStep \/ PublishFails
     \/ \E t \in Tracks : TrackStep(t)

LEMMA AudioSteps ==
  ASSUME RoomShape, [Next]_vars
  PROVE  \/ QuietAudio \/ AudioStep \/ HandleLeft
         \/ \E h \in leaving : HandledLeft(h)
         \/ DisconnectPipes
<1>1. ASSUME UNCHANGED audioVars, UNCHANGED leaving, phase = "down" => phase' = "down" PROVE QuietAudio
  BY <1>1 DEF QuietAudio, LeavingTracks
<1>2. ASSUME NEW p \in Pids, Enter(p) \/ Exit(p) PROVE QuietAudio
  BY <1>1, <1>2, Zenon DEF Enter, Exit
<1>3. ASSUME Connect \/ Greeted \/ HandleJoined \/ Disconnect PROVE QuietAudio
  <2>1. UNCHANGED audioVars /\ UNCHANGED leaving
    BY <1>3, Zenon DEF Connect, Greeted, HandleJoined, Disconnect
  <2>2. phase = "down" => phase' = "down"
    BY <1>3 DEF Connect, Greeted, HandleJoined, Disconnect
  <2> QED BY <1>1, <2>1, <2>2
<1>4. ASSUME DisconnectHandlers PROVE QuietAudio
  BY <1>4 DEF DisconnectHandlers, QuietAudio, LeavingTracks
<1>5. ASSUME NEW h \in leaving, NotifyLeft(h) PROVE QuietAudio
  <2>1. /\ UNCHANGED audioVars /\ phase' = phase
        /\ leaving' = (leaving \ {h}) \cup {[h EXCEPT !.phase = "told"]}
    BY <1>5, Zenon DEF NotifyLeft
  <2>2. [h EXCEPT !.phase = "told"].track = h.track
    BY DEF RoomShape, LeavingType
  <2>3. LeavingTracks
    BY <2>1, <2>2 DEF LeavingTracks
  <2> QED BY <2>1, <2>3 DEF QuietAudio
<1>6. ASSUME NEW p \in Pids, NEW f \in Files, OpenFile(f, p) PROVE QuietAudio
  <2>1. UNCHANGED audioVars /\ UNCHANGED leaving /\ phase' = phase
    BY <1>6, Zenon DEF OpenFile, sessionVars
  <2> QED BY <1>1, <2>1
<1>7. ASSUME NEW f \in Files, FileStep(f) PROVE QuietAudio
  <2>1. UNCHANGED audioVars /\ UNCHANGED leaving /\ phase' = phase
    BY <1>7, Zenon DEF FileStep, ReadFile, PushFile, FileDone, sessionVars
  <2> QED BY <1>1, <2>1
<1>8. ASSUME UNCHANGED vars PROVE QuietAudio
  <2>1. UNCHANGED audioVars /\ UNCHANGED leaving /\ phase' = phase
    BY <1>8, Zenon DEF vars, sessionVars
  <2> QED BY <1>1, <2>1
<1>9. ASSUME \/ \E p \in Pids, d \in Lens : SendReturnAudio(p, d)
             \/ \E p \in Pids : FlushReturnAudio(p)
             \/ CallStep \/ PublishFails
             \/ \E t \in Tracks : TrackStep(t)
      PROVE  AudioStep
  <2>1. ASSUME NEW p \in Pids, NEW d \in Lens, SendReturnAudio(p, d) PROVE UNCHANGED sessionVars
    BY <2>1 DEF SendReturnAudio, audioRest
  <2>2. ASSUME NEW p \in Pids, FlushReturnAudio(p) PROVE UNCHANGED sessionVars
    BY <2>2, Zenon DEF FlushReturnAudio
  <2>3. ASSUME CallStep \/ PublishFails PROVE UNCHANGED sessionVars
    BY <2>3, Zenon DEF CallStep, OldClosed, Published, Discarded, PublishFails, audioRest
  <2>4. ASSUME NEW t \in Tracks, TrackStep(t) PROVE UNCHANGED sessionVars
    BY <2>4, Zenon DEF TrackStep, Drain, Captured, Play
  <2>5. UNCHANGED sessionVars
    BY <1>9, <2>1, <2>2, <2>3, <2>4
  <2> QED BY <1>9, <2>5, Zenon DEF AudioStep
<1>10. ASSUME Next
       PROVE  \/ \E p \in Pids : Enter(p) \/ Exit(p)
              \/ Connect \/ Greeted \/ HandleJoined \/ Disconnect
              \/ DisconnectHandlers \/ HandleLeft \/ DisconnectPipes
              \/ \E h \in leaving : NotifyLeft(h)
              \/ \E h \in leaving : HandledLeft(h)
              \/ \E p \in Pids : \E f \in Files : OpenFile(f, p)
              \/ \E f \in Files : FileStep(f)
              \/ \E p \in Pids : \E d \in Lens : SendReturnAudio(p, d)
              \/ \E p \in Pids : FlushReturnAudio(p)
              \/ CallStep \/ PublishFails
              \/ \E t \in Tracks : TrackStep(t)
  BY <1>10, Zenon DEF Next, HandlerStep
<1> QED BY <1>2, <1>3, <1>4, <1>5, <1>6, <1>7, <1>8, <1>9, <1>10

\* What the shapes say of numbers.
LEMMA AudioNumbers ==
  ASSUME TracksShape, TablesShape
  PROVE  /\ Len(chunks) \in Nat /\ Len(chunks) <= MaxChunks
         /\ \A p \in Pids : /\ entry[p] \in Nat /\ perms[p] \in Nat /\ flushed.upto[p] \in Nat
                            /\ entry[p] # 0 => entry[p] \in Tracks
                            /\ perms[p] # 0 => perms[p] \in Tracks
         /\ \A t \in Tracks : Frames(tracks[t]) \subseteq 1 .. Len(chunks)
         /\ Tracks \subseteq Nat /\ 0 \notin Tracks
<1>1. Len(chunks) \in Nat
  BY LenProperties DEF TracksShape
<1>2. \A t \in Tracks : Frames(tracks[t]) \subseteq 1 .. Len(chunks)
  BY <1>1, FramesAreChunks DEF TracksShape
<1> QED BY <1>1, <1>2, Bounds DEF TracksShape, TablesShape, Tracks

LEMMA AudioQuiet ==
  ASSUME TracksShape, TablesShape, Audio, QuietAudio
  PROVE  Audio'
<1>1. /\ UNCHANGED <<entry, perms, tracks, call, chunks, flushed>>
      /\ LeavingTracks /\ (phase = "down" => phase' = "down")
  BY DEF QuietAudio, audioVars
<1>2. (Busy' <=> Busy) /\ \A t : Created(t)' <=> Created(t)
  BY <1>1 DEF Busy, Created
<1>3. Entries'
  BY <1>1, <1>2 DEF Audio, Entries, LeavingTracks, Created, Busy
<1>4. Current'
  BY <1>1, <1>2 DEF Audio, Current, LeavingTracks, Created, Busy
<1>5. Fresh' /\ Idle' /\ Perms' /\ New'
  BY <1>1, <1>2 DEF Audio, Fresh, Idle, Perms, New, Created, Busy
<1> QED BY <1>3, <1>4, <1>5 DEF Audio

\* Steps of the tracks that give them nothing.
LEMMA AudioKept ==
  ASSUME TracksShape, TablesShape, Audio, TracksKept,
         UNCHANGED <<entry, perms, call, chunks, leaving, phase>>,
         \/ flushed' = flushed
         \/ \E p \in Pids : /\ flushed'.upto = [flushed.upto EXCEPT ![p] = Len(chunks)]
                            /\ call = NoCall /\ entry[p] \in Tracks /\ Frames(tracks'[entry[p]]) = {}
  PROVE  Audio'
<1>1. (Busy' <=> Busy) /\ \A t : Created(t)' <=> Created(t)
  BY DEF Busy, Created
<1>2. \A t \in Tracks : /\ tracks'[t].phase = tracks[t].phase /\ tracks'[t].pid = tracks[t].pid
                        /\ tracks'[t].sess = tracks[t].sess /\ Frames(tracks'[t]) \subseteq Frames(tracks[t])
  BY DEF TracksKept, Like
<1>3. Entries'
  BY <1>1, <1>2, AudioNumbers DEF Audio, Entries, Created, Busy
<1>4. Current' /\ Fresh'
  BY <1>1, <1>2 DEF Audio, Current, Fresh, Created, Busy
<1>5. Idle' /\ Perms'
  <2>1. \A t \in Tracks : tracks'[t].phase # "up" => Frames(tracks'[t]) = {}
    BY <1>2 DEF Audio, Idle
  <2>2. Perms'
    BY <1>2, AudioNumbers DEF Audio, Perms
  <2> QED BY <2>1, <2>2 DEF Idle
<1>6. New'
  <2>1. CASE flushed' = flushed
    BY <1>1, <1>2, <2>1, AudioNumbers DEF Audio, New, Busy
  <2>2. ASSUME NEW p \in Pids, flushed'.upto = [flushed.upto EXCEPT ![p] = Len(chunks)],
               call = NoCall, entry[p] \in Tracks, Frames(tracks'[entry[p]]) = {}
        PROVE  New'
    <3>1. ~Busy /\ ~Busy'
      BY <1>1, <2>2, NoCallFields DEF Busy
    <3>2. /\ flushed'.upto[p] = Len(chunks)
          /\ \A q \in Pids : q # p => flushed'.upto[q] = flushed.upto[q]
      BY <2>2 DEF TablesShape
    <3>3. \A q \in Pids : flushed'.upto[q] <= Len(chunks)
      BY <3>2, AudioNumbers DEF Audio, New
    <3>4. ASSUME NEW q \in Pids, entry[q] # 0, NEW n \in Frames(tracks'[entry[q]])
          PROVE  n > flushed'.upto[q]
      BY <1>2, <2>2, <3>2, <3>4, AudioNumbers DEF Audio, New
    <3> QED BY <3>1, <3>3, <3>4 DEF New
  <2> QED BY <2>1, <2>2
<1> QED BY <1>3, <1>4, <1>5, <1>6 DEF Audio

LEMMA AudioSend ==
  ASSUME RoomShape, TracksShape, TablesShape, Audio, NEW p \in Pids, NEW d \in Lens,
         SendReturnAudio(p, d), UNCHANGED sessionVars
  PROVE  Audio'
<1>1. /\ TracksShape' /\ TablesShape'
      /\ call = NoCall /\ Len(chunks') = Len(chunks) + 1 /\ flushed' = flushed /\ heard' = heard
      /\ \A t \in Tracks :
           Like(tracks[t], tracks'[t], IF t = entry[p] THEN {Len(chunks')} ELSE {})
      /\ SendStays \/ SendFirst(p) \/ SendReplaces(p)
      /\ leaving' = leaving /\ phase' = phase
  BY SendEffect DEF sessionVars
<1>2. ~Busy /\ call.phase = "none"
  BY <1>1, NoCallFields DEF Busy
<1>3. /\ Len(chunks) \in Nat /\ Len(chunks) <= MaxChunks
      /\ \A q \in Pids : /\ entry[q] \in Nat /\ perms[q] \in Nat /\ flushed.upto[q] \in Nat
                         /\ entry[q] # 0 => entry[q] \in Tracks
                         /\ perms[q] # 0 => perms[q] \in Tracks
      /\ \A t \in Tracks : Frames(tracks[t]) \subseteq 1 .. Len(chunks)
      /\ Tracks \subseteq Nat /\ 0 \notin Tracks
  BY AudioNumbers
<1>4. \A t \in Nat : t <= Len(chunks) => Created(t)'
  BY <1>1, <1>3 DEF Created, Busy
<1>5. \A t \in Tracks : /\ tracks'[t].phase = tracks[t].phase /\ tracks'[t].pid = tracks[t].pid
                        /\ tracks'[t].sess = tracks[t].sess
                        /\ t # entry[p] => Frames(tracks'[t]) \subseteq Frames(tracks[t])
                        /\ Frames(tracks'[t]) \subseteq Frames(tracks[t]) \cup {Len(chunks')}
  BY <1>1 DEF Like
<1>6. \A q \in Pids : entry[q] # 0 => /\ entry[q] <= Len(chunks) /\ tracks[entry[q]].phase = "up"
                                      /\ tracks[entry[q]].pid = q /\ tracks[entry[q]].sess # 0
                                      /\ \A h \in leaving : h.track # entry[q]
  BY <1>2 DEF Audio, Entries, Created
<1>7. /\ \A q \in Pids : entry'[q] = entry[q] \/ entry'[q] = 0
      /\ call' # NoCall => /\ call'.track = 0 \/ /\ call'.track = entry[p] /\ entry'[p] = 0 /\ entry[p] # 0
                           /\ \A q \in Pids : q # p => entry'[q] = entry[q]
  <2>1. CASE SendStays
    BY <1>1, <2>1 DEF SendStays
  <2>2. CASE SendFirst(p)
    BY <2>2 DEF SendFirst
  <2>3. CASE SendReplaces(p)
    <3>1. entry' = [entry EXCEPT ![p] = 0] /\ entry[p] # 0 /\ call'.track = entry[p]
      BY <2>3 DEF SendReplaces
    <3>2. entry'[p] = 0 /\ \A q \in Pids : q # p => entry'[q] = entry[q]
      BY <3>1 DEF TablesShape
    <3> QED BY <3>1, <3>2
  <2> QED BY <1>1, <2>1, <2>2, <2>3
<1>8. Entries'
  <2> SUFFICES ASSUME NEW q \in Pids, entry'[q] # 0
               PROVE  /\ Created(entry[q])' /\ tracks'[entry'[q]].phase = "up"
                      /\ tracks'[entry'[q]].pid = q /\ tracks'[entry'[q]].sess # 0
                      /\ call' # NoCall => entry'[q] # call'.track
                      /\ \A h \in leaving' : h.track # entry'[q]
    BY DEF Entries
  <2>1. entry'[q] = entry[q] /\ entry[q] # 0
    BY <1>7
  <2>2. Created(entry[q])'
    <3>1. PICK t \in Nat : t = entry[q] /\ t <= Len(chunks)
      BY <1>3, <1>6, <2>1
    <3>2. Created(t)' /\ entry'[q] = t
      BY <1>4, <2>1, <3>1
    <3> QED BY <3>2 DEF Created, Busy
  <2>3. call' # NoCall => entry[q] # call'.track
    BY <1>6, <1>7, <2>1
  <2> QED BY <1>1, <1>3, <1>5, <1>6, <2>1, <2>2, <2>3
<1>9. Current'
  <2>1. call' # NoCall => call'.track \in Nat /\ call'.track <= Len(chunks)
    BY <1>3, <1>6, <1>7
  <2>2. \A h \in leaving : h.track \in Nat /\ h.track <= Len(chunks)
    BY <1>2, Bounds DEF Audio, Current, Created, RoomShape, LeavingType
  <2>3. call' # NoCall => Created(call.track)'
    BY <1>1, <1>3, <2>1 DEF Created, Busy
  <2>4. \A h \in leaving : Created(h.track)'
    BY <1>1, <1>3, <2>2 DEF Created, Busy
  <2> QED BY <1>1, <2>3, <2>4 DEF Current
<1>10. Fresh'
  <2> SUFFICES ASSUME NEW t \in Tracks, ~Created(t)' PROVE tracks'[t].phase = "none"
    BY DEF Fresh
  <2>1. ~(t <= Len(chunks)) /\ t \in Nat
    BY <1>3, <1>4
  <2> QED BY <1>2, <1>5, <2>1 DEF Audio, Fresh, Created
<1>11. Idle'
  <2> SUFFICES ASSUME NEW t \in Tracks, tracks'[t].phase # "up" PROVE Frames(tracks'[t]) = {}
    BY DEF Idle
  <2>1. tracks[t].phase # "up" /\ Frames(tracks[t]) = {}
    BY <1>5 DEF Audio, Idle
  <2>2. t # entry[p]
    BY <1>3, <1>6, <2>1
  <2> QED BY <1>5, <2>1, <2>2
<1>12. Perms'
  <2>1. CASE perms' = entry'
    BY <2>1 DEF Perms
  <2>2. CASE perms' = perms /\ entry' = entry
    BY <1>1, <1>3, <1>5, <2>2 DEF Audio, Perms
  <2> QED BY <1>1, <2>1, <2>2 DEF SendStays, SendFirst, SendReplaces
<1>13. New'
  <2>1. \A q \in Pids : flushed'.upto[q] <= Len(chunks) /\ flushed'.upto[q] < Len(chunks')
    BY <1>1, <1>3 DEF Audio, New
  <2>2. ASSUME NEW q \in Pids, entry'[q] # 0, NEW n \in Frames(tracks'[entry'[q]])
        PROVE  n > flushed'.upto[q]
    <3>1. entry'[q] = entry[q] /\ entry[q] # 0 /\ entry[q] \in Tracks
      BY <1>3, <1>7, <2>2
    <3>2. n \in Frames(tracks[entry[q]]) \/ n = Len(chunks')
      BY <1>5, <2>2, <3>1
    <3>3. CASE n = Len(chunks')
      BY <1>1, <1>3, <2>1, <3>3
    <3>4. CASE n \in Frames(tracks[entry[q]])
      BY <1>1, <3>1, <3>4 DEF Audio, New
    <3> QED BY <3>2, <3>3, <3>4
  <2>3. \A q \in Pids : flushed'.upto[q] <= Len(chunks')
    BY <1>1, <1>3, <2>1
  <2> QED BY <2>1, <2>2, <2>3 DEF New
<1> QED BY <1>8, <1>9, <1>10, <1>11, <1>12, <1>13 DEF Audio

\* A track that nobody has an entry for is closed.
LEMMA AudioClosed ==
  ASSUME RoomShape, TracksShape, TablesShape, Audio, NEW t, OnlyClosed(t), Created(t),
         \A p \in Pids : entry[p] # 0 => entry[p] # t,
         UNCHANGED <<entry, perms, chunks, flushed, phase>>,
         leaving' \subseteq leaving,
         \/ call' = call
         \/ call' = NoCall
         \/ Busy /\ call'.phase = "publish" /\ call'.track = 0 /\ call' # NoCall /\ call # NoCall
  PROVE  Audio'
<1>1. /\ Len(chunks) \in Nat /\ Len(chunks) <= MaxChunks
      /\ \A q \in Pids : /\ entry[q] \in Nat /\ perms[q] \in Nat /\ flushed.upto[q] \in Nat
                         /\ entry[q] # 0 => entry[q] \in Tracks
                         /\ perms[q] # 0 => perms[q] \in Tracks
      /\ \A u \in Tracks : Frames(tracks[u]) \subseteq 1 .. Len(chunks)
      /\ Tracks \subseteq Nat /\ 0 \notin Tracks
  BY AudioNumbers
<1>2. Busy' => Busy
  BY NoCallFields DEF Busy
<1>3. \A u \in Nat : Created(u) => Created(u)'
  <2> SUFFICES ASSUME NEW u \in Nat, Created(u) PROVE Created(u)'
    OBVIOUS
  <2> QED BY <1>1, <1>2 DEF Created
<1>4. \A u \in Tracks : IF u = t THEN tracks'[u] = GoneTrack ELSE tracks'[u] = tracks[u]
  BY DEF OnlyClosed
<1>5. GoneTrack.phase = "gone" /\ Frames(GoneTrack) = {}
  BY EmptyTracks DEF TracksShape
<1>6. Entries'
  <2> SUFFICES ASSUME NEW q \in Pids, entry[q] # 0
               PROVE  /\ Created(entry[q])' /\ tracks'[entry[q]].phase = "up"
                      /\ tracks'[entry[q]].pid = q /\ tracks'[entry[q]].sess # 0
                      /\ call' # NoCall => entry[q] # call'.track
                      /\ \A h \in leaving' : h.track # entry[q]
    BY DEF Entries
  <2>1. /\ Created(entry[q]) /\ tracks[entry[q]].phase = "up" /\ tracks[entry[q]].pid = q
        /\ tracks[entry[q]].sess # 0
        /\ call # NoCall => entry[q] # call.track
        /\ \A h \in leaving : h.track # entry[q]
    BY DEF Audio, Entries
  <2>2. tracks'[entry[q]] = tracks[entry[q]]
    BY <1>1, <1>4
  <2>3. Created(entry[q])'
    <3>1. PICK u \in Nat : u = entry[q]
      BY <1>1
    <3>2. Created(u)'
      BY <1>3, <2>1, <3>1
    <3> QED BY <3>1, <3>2 DEF Created, Busy
  <2> QED BY <2>1, <2>2, <2>3
<1>7. Current'
  <2>1. \A h \in leaving' : Created(h.track)'
    BY <1>3, Bounds DEF Audio, Current, RoomShape, LeavingType
  <2>2. call' # NoCall => Created(call.track)'
    <3>1. CASE call' = call
      BY <3>1 DEF Audio, Current, Created, Busy
    <3>2. CASE Busy /\ call'.phase = "publish" /\ call'.track = 0 /\ call # NoCall
      <4>1. Len(chunks) # 0 /\ 0 < Len(chunks)
        BY <1>1, <3>2 DEF TablesShape
      <4> QED BY <3>2, <4>1 DEF Created, Busy
    <3> QED BY <3>1, <3>2
  <2> QED BY <2>1, <2>2 DEF Current
<1>8. Fresh'
  <2> SUFFICES ASSUME NEW u \in Tracks, ~Created(u)' PROVE tracks'[u].phase = "none"
    BY DEF Fresh
  <2>1. ~Created(u)
    BY <1>1, <1>3
  <2>2. u # t
    BY <2>1
  <2> QED BY <1>4, <2>1, <2>2 DEF Audio, Fresh
<1>9. Idle'
  BY <1>4, <1>5 DEF Audio, Idle
<1>10. Perms'
  BY <1>1, <1>4, <1>5 DEF Audio, Perms
<1>11. New'
  <2>1. \A q \in Pids : entry[q] # 0 => tracks'[entry[q]] = tracks[entry[q]]
    BY <1>1, <1>4
  <2>2. \A q \in Pids : entry[q] # 0 => \A n \in Frames(tracks'[entry[q]]) : n > flushed'.upto[q]
    BY <2>1 DEF Audio, New
  <2> QED BY <1>2, <2>2 DEF Audio, New
<1> QED BY <1>6, <1>7, <1>8, <1>9, <1>10, <1>11 DEF Audio

\* publish_track() failed: there is no track.
LEMMA AudioPublishFails ==
  ASSUME RoomShape, TracksShape, TablesShape, Audio, PublishFails, UNCHANGED sessionVars
  PROVE  Audio'
<1>1. /\ UNCHANGED <<entry, perms, chunks, flushed, tracks, leaving, phase>> /\ call' = NoCall
  BY PublishFailsEffect DEF sessionVars
<1>2. ~Busy' /\ Len(chunks) \in Nat
  BY <1>1, NoCallFields, AudioNumbers DEF Busy
<1>3. \A u \in Nat : Created(u) => Created(u)'
  <2> SUFFICES ASSUME NEW u \in Nat, Created(u) PROVE Created(u)'
    OBVIOUS
  <2> QED BY <1>1, <1>2 DEF Created
<1>4. /\ \A q \in Pids : entry[q] \in Nat
      /\ \A h \in leaving : h.track \in Nat
      /\ Tracks \subseteq Nat
  BY AudioNumbers, Bounds DEF RoomShape, LeavingType
<1>5. \A q \in Pids : entry[q] # 0 => Created(entry[q])'
  <2> SUFFICES ASSUME NEW q \in Pids, entry[q] # 0 PROVE Created(entry[q])'
    OBVIOUS
  <2>1. PICK u \in Nat : u = entry[q] /\ Created(u)
    BY <1>4 DEF Audio, Entries
  <2>2. Created(u)'
    BY <1>3, <2>1
  <2> QED BY <1>1, <2>1, <2>2 DEF Created, Busy
<1>6. Entries'
  BY <1>1, <1>5 DEF Audio, Entries, Created, Busy
<1>7. Current'
  BY <1>1, <1>3, <1>4 DEF Audio, Current
<1>8. Fresh'
  BY <1>1, <1>3, <1>4 DEF Audio, Fresh
<1>9. Idle' /\ Perms' /\ New'
  BY <1>1, <1>2 DEF Audio, Idle, Perms, New
<1> QED BY <1>6, <1>7, <1>8, <1>9 DEF Audio

\* The call's own closing.
LEMMA AudioCallClosed ==
  ASSUME RoomShape, TracksShape, TablesShape, Audio, OldClosed \/ Discarded, UNCHANGED sessionVars
  PROVE  Audio'
<1>1. /\ OnlyClosed(call.track)
      /\ UNCHANGED <<entry, perms, chunks, flushed>> /\ call # NoCall
      /\ \/ call' = NoCall
         \/ call.phase = "close" /\ call'.phase = "publish" /\ call'.track = 0 /\ call' # NoCall
  BY CallClosedEffect
<1>2. leaving' = leaving /\ phase' = phase
  BY DEF sessionVars
<1>3. Created(call.track) /\ \A p \in Pids : entry[p] # 0 => entry[p] # call.track
  BY <1>1 DEF Audio, Current, Entries
<1>4. call.phase = "close" => Busy
  BY DEF Busy
<1> QED BY <1>1, <1>2, <1>3, <1>4, AudioClosed

\* publish_track() returned.
LEMMA AudioPublished ==
  ASSUME RoomShape, TracksShape, TablesShape, Audio, Published, UNCHANGED sessionVars
  PROVE  Audio'
<1> DEFINE n == Len(chunks)
<1>1. /\ UNCHANGED <<chunks, flushed>> /\ call # NoCall /\ call.phase = "publish"
      /\ n \in Tracks
      /\ \A u \in Tracks : u # n => tracks'[u] = tracks[u]
      /\ PublishCounts(n) \/ PublishDiscards(n)
      /\ leaving' = leaving /\ phase' = phase
  BY PublishedEffect DEF sessionVars
<1>2. /\ n \in Nat /\ n <= MaxChunks /\ n # 0
      /\ \A q \in Pids : /\ entry[q] \in Nat /\ perms[q] \in Nat /\ flushed.upto[q] \in Nat
                         /\ entry[q] # 0 => entry[q] \in Tracks
                         /\ perms[q] # 0 => perms[q] \in Tracks
      /\ Tracks \subseteq Nat /\ 0 \notin Tracks
  BY <1>1, AudioNumbers
<1>3. Busy /\ call.pid \in Pids /\ call.sess # 0
  BY <1>1, CallFields, Bounds DEF Busy, TablesShape
<1>4. \A u : Created(u) <=> u < n
  BY <1>3 DEF Created
<1>5. /\ \A q \in Pids : entry[q] # 0 =>
           /\ entry[q] < n /\ tracks[entry[q]].phase = "up" /\ tracks[entry[q]].pid = q
           /\ tracks[entry[q]].sess # 0 /\ tracks'[entry[q]] = tracks[entry[q]]
           /\ entry[q] # n
           /\ \A h \in leaving : h.track # entry[q]
      /\ \A h \in leaving : h.track < n /\ h.track \in Nat /\ h.track # n
      /\ tracks[n].phase = "none"
  <2>1. \A h \in leaving : h.track \in Nat /\ h.track < n
    BY <1>4, Bounds DEF Audio, Current, RoomShape, LeavingType
  <2>2. tracks[n].phase = "none"
    BY <1>1, <1>2, <1>4 DEF Audio, Fresh
  <2>3. ASSUME NEW q \in Pids, entry[q] # 0
        PROVE  /\ entry[q] < n /\ tracks[entry[q]].phase = "up" /\ tracks[entry[q]].pid = q
               /\ tracks[entry[q]].sess # 0 /\ tracks'[entry[q]] = tracks[entry[q]]
               /\ entry[q] # n
               /\ \A h \in leaving : h.track # entry[q]
    <3>1. entry[q] < n /\ entry[q] # n
      BY <1>2, <1>4, <2>3 DEF Audio, Entries
    <3> QED BY <1>1, <1>2, <2>3, <3>1 DEF Audio, Entries
  <2>4. \A h \in leaving : h.track # n
    BY <1>2, <2>1
  <2> QED BY <2>1, <2>2, <2>3, <2>4
<1>6. /\ tracks'[n].phase = "up" /\ tracks'[n].pid = call.pid /\ tracks'[n].sess = call.sess
      /\ Frames(tracks'[n]) \subseteq {n}
  BY <1>1 DEF PublishCounts, PublishDiscards
<1>7. ~Busy'
  BY <1>1, NoCallFields DEF Busy, PublishCounts, PublishDiscards
<1>8. \A u : Created(u)' <=> u <= n
  <2> SUFFICES ASSUME NEW u PROVE Created(u)' <=> u <= n
    OBVIOUS
  <2> QED BY <1>1, <1>7 DEF Created
<1>9. \A q \in Pids : \/ entry'[q] = entry[q]
                      \/ entry'[q] = n /\ q = call.pid /\ call' = NoCall
  <2>1. CASE PublishCounts(n)
    BY <2>1 DEF PublishCounts, TablesShape
  <2>2. CASE PublishDiscards(n)
    BY <2>2 DEF PublishDiscards
  <2> QED BY <1>1, <2>1, <2>2
<1>10. call' # NoCall => call'.track = n
  BY <1>1 DEF PublishCounts, PublishDiscards
<1> HIDE DEF n
<1>11. Entries'
  <2> SUFFICES ASSUME NEW q \in Pids, entry'[q] # 0
               PROVE  /\ Created(entry[q])' /\ tracks'[entry'[q]].phase = "up"
                      /\ tracks'[entry'[q]].pid = q /\ tracks'[entry'[q]].sess # 0
                      /\ call' # NoCall => entry'[q] # call'.track
                      /\ \A h \in leaving' : h.track # entry'[q]
    BY DEF Entries
  <2>1. entry'[q] <= n
    BY <1>2, <1>5, <1>9
  <2>2. Created(entry[q])'
    <3>1. PICK u : u = entry'[q]
      OBVIOUS
    <3>2. Created(u)'
      BY <1>8, <2>1, <3>1
    <3> QED BY <3>1, <3>2 DEF Created, Busy
  <2>3. CASE entry'[q] = entry[q]
    BY <1>1, <1>5, <1>10, <2>2, <2>3
  <2>4. CASE entry'[q] = n /\ q = call.pid /\ call' = NoCall
    BY <1>1, <1>3, <1>5, <1>6, <2>2, <2>4
  <2> QED BY <1>9, <2>3, <2>4
<1>12. Current'
  <2>1. \A h \in leaving : Created(h.track)'
    BY <1>2, <1>5, <1>8
  <2>2. call' # NoCall => Created(call.track)'
    <3>1. PICK u : u = call'.track
      OBVIOUS
    <3>2. call' # NoCall => Created(u)'
      BY <1>2, <1>8, <1>10, <3>1
    <3> QED BY <3>1, <3>2 DEF Created, Busy
  <2> QED BY <1>1, <2>1, <2>2 DEF Current
<1>13. Fresh'
  <2> SUFFICES ASSUME NEW u \in Tracks, ~Created(u)' PROVE tracks'[u].phase = "none"
    BY DEF Fresh
  <2>1. ~(u <= n) /\ u # n /\ ~(u < n)
    BY <1>2, <1>8
  <2> QED BY <1>1, <1>4, <2>1 DEF Audio, Fresh
<1>14. Idle'
  <2> SUFFICES ASSUME NEW u \in Tracks, tracks'[u].phase # "up" PROVE Frames(tracks'[u]) = {}
    BY DEF Idle
  <2>1. u # n
    BY <1>6
  <2> QED BY <1>1, <2>1 DEF Audio, Idle
<1>15. Perms'
  <2>1. CASE PublishCounts(n)
    BY <2>1 DEF PublishCounts, Perms
  <2>2. CASE PublishDiscards(n)
    <3>1. entry' = entry /\ perms' = perms
      BY <2>2 DEF PublishDiscards
    <3>2. \A q \in Pids : perms[q] # 0 /\ tracks[perms[q]].phase = "gone" => tracks'[perms[q]].phase = "gone"
      BY <1>1, <1>2, <1>5
    <3> QED BY <1>1, <3>1, <3>2 DEF Audio, Perms
  <2> QED BY <1>1, <2>1, <2>2
<1>16. New'
  <2>1. \A q \in Pids : flushed.upto[q] <= n /\ flushed.upto[q] < n
    BY <1>2, <1>3 DEF Audio, New, n
  <2>2. ASSUME NEW q \in Pids, entry'[q] # 0, NEW m \in Frames(tracks'[entry'[q]])
        PROVE  m > flushed'.upto[q]
    <3>1. CASE entry'[q] = entry[q]
      BY <1>1, <1>5, <2>2, <3>1 DEF Audio, New
    <3>2. CASE entry'[q] = n
      BY <1>1, <1>2, <1>6, <2>1, <2>2, <3>2
    <3> QED BY <1>9, <3>1, <3>2
  <2> QED BY <1>1, <1>7, <2>1, <2>2 DEF New, n
<1> QED BY <1>11, <1>12, <1>13, <1>14, <1>15, <1>16 DEF Audio

\* A departure begins to be handled.
LEMMA AudioHandleLeft ==
  ASSUME RoomShape, TracksShape, TablesShape, Audio, HandleLeft
  PROVE  Audio'
<1>1. UNCHANGED <<tracks, call, chunks, flushed, heard, phase, visits, sess>>
  BY HandleLeftEffect
<1>2. PICK h \in HandlerType :
        /\ h = Head(spawned) /\ h.kind = "left" /\ h.pid \in Pids
        /\ \/ /\ entry[h.pid] # 0 /\ tracks[entry[h.pid]].sess = h.sess
              /\ entry' = [entry EXCEPT ![h.pid] = 0] /\ perms' = entry'
              /\ \A l \in leaving' : l \in leaving \/ l.track = entry[h.pid]
           \/ /\ ~(entry[h.pid] # 0 /\ tracks[entry[h.pid]].sess = h.sess)
              /\ entry' = entry /\ perms' = perms
              /\ \A l \in leaving' : l \in leaving \/ l.track = 0
  BY HandleLeftEffect
<1> DEFINE Going(t) ==
        /\ \A l \in leaving' : l \in leaving \/ l.track = t
        /\ t = 0 \/ (t = entry[h.pid] /\ entry[h.pid] # 0 /\ entry'[h.pid] = 0)
        /\ \A q \in Pids : entry'[q] = entry[q] \/ (q = h.pid /\ entry'[q] = 0)
        /\ perms' = entry' \/ (perms' = perms /\ entry' = entry)
<1>3. \E t \in Nat : Going(t)
  <2>1. ASSUME entry[h.pid] # 0, entry' = [entry EXCEPT ![h.pid] = 0], perms' = entry',
               \A l \in leaving' : l \in leaving \/ l.track = entry[h.pid]
        PROVE  \E t \in Nat : Going(t)
    <3>1. entry'[h.pid] = 0 /\ \A q \in Pids : q # h.pid => entry'[q] = entry[q]
      BY <1>2, <2>1 DEF TablesShape
    <3>2. entry[h.pid] \in Nat
      BY <1>2, AudioNumbers
    <3>3. \A q \in Pids : entry'[q] = entry[q] \/ (q = h.pid /\ entry'[q] = 0)
      BY <3>1
    <3>4. Going(entry[h.pid])
      BY <2>1, <3>1, <3>3, Zenon DEF Going
    <3> HIDE DEF Going
    <3> QED BY <3>2, <3>4
  <2>2. ASSUME entry' = entry, perms' = perms, \A l \in leaving' : l \in leaving \/ l.track = 0
        PROVE  \E t \in Nat : Going(t)
    <3>1. Going(0)
      BY <2>2, Zenon DEF Going
    <3> HIDE DEF Going
    <3> QED BY <3>1
  <2> QED BY <1>2, <2>1, <2>2
<1>4. PICK t \in Nat : Going(t)
  BY <1>3
<1>5. (Busy' <=> Busy) /\ \A u : Created(u)' <=> Created(u)
  BY <1>1 DEF Busy, Created
<1>6. Created(t)
  <2>1. CASE t = 0
    <3>1. Busy => Len(chunks) # 0
      BY NoCallFields DEF Busy, TablesShape
    <3> QED BY <2>1, <3>1, AudioNumbers DEF Created
  <2>2. CASE t = entry[h.pid] /\ entry[h.pid] # 0
    BY <1>2, <2>2 DEF Audio, Entries
  <2> QED BY <1>4, <2>1, <2>2
<1>7. Entries'
  <2> SUFFICES ASSUME NEW q \in Pids, entry'[q] # 0
               PROVE  /\ Created(entry[q])' /\ tracks[entry'[q]].phase = "up"
                      /\ tracks[entry'[q]].pid = q /\ tracks[entry'[q]].sess # 0
                      /\ call # NoCall => entry'[q] # call.track
                      /\ \A l \in leaving' : l.track # entry'[q]
    BY <1>1 DEF Entries
  <2>1. entry'[q] = entry[q] /\ entry[q] # 0
    BY <1>4
  <2>2. Created(entry[q])'
    BY <1>1, <2>1 DEF Audio, Entries, Created, Busy
  <2>3. t # entry[q]
    <3>1. CASE t = 0
      BY <2>1, <3>1
    <3>2. CASE t = entry[h.pid] /\ entry[h.pid] # 0 /\ entry'[h.pid] = 0
      BY <1>2, <2>1, <3>2 DEF Audio, Entries
    <3> QED BY <1>4, <3>1, <3>2
  <2> QED BY <1>4, <2>1, <2>2, <2>3 DEF Audio, Entries
<1>8. Current'
  <2>1. \A l \in leaving' : Created(l.track)
    BY <1>4, <1>6 DEF Audio, Current
  <2> QED BY <1>1, <2>1 DEF Audio, Current, Created, Busy
<1>9. Fresh' /\ Idle'
  BY <1>1 DEF Audio, Fresh, Idle, Created, Busy
<1>10. Perms'
  BY <1>1, <1>4 DEF Audio, Perms
<1>11. New'
  <2>1. \A q \in Pids : entry'[q] # 0 => entry'[q] = entry[q]
    BY <1>4
  <2> QED BY <1>1, <2>1 DEF Audio, New, Busy
<1> QED BY <1>7, <1>8, <1>9, <1>10, <1>11 DEF Audio

\* The departure's track is closed.
LEMMA AudioHandledLeft ==
  ASSUME RoomShape, TracksShape, TablesShape, Audio, NEW h \in leaving, HandledLeft(h)
  PROVE  Audio'
<1>1. /\ UNCHANGED <<entry, perms, call, chunks, flushed, heard, phase, visits, sess, spawned>>
      /\ leaving' \subseteq leaving
      /\ tracks' = tracks \/ OnlyClosed(h.track)
  BY HandledLeftEffect
<1>2. CASE tracks' = tracks
  <2>1. QuietAudio
    BY <1>1, <1>2 DEF QuietAudio, audioVars, LeavingTracks
  <2> QED BY <2>1, AudioQuiet
<1>3. CASE OnlyClosed(h.track)
  <2>1. Created(h.track) /\ \A p \in Pids : entry[p] # 0 => entry[p] # h.track
    BY DEF Audio, Current, Entries
  <2> QED BY <1>1, <1>3, <2>1, AudioClosed
<1> QED BY <1>1, <1>2, <1>3

\* The pipes are closed.
LEMMA AudioDisconnectPipes ==
  ASSUME RoomShape, TracksShape, TablesShape, Audio, DisconnectPipes
  PROVE  Audio'
<1>1. /\ UNCHANGED <<perms, call, chunks, flushed, heard, visits, sess, spawned, leaving>>
      /\ phase = "draining" /\ phase' = "down" /\ \A p \in Pids : entry'[p] = 0
      /\ \A t \in Tracks : IF \E p \in Pids : entry[p] = t THEN tracks'[t] = GoneTrack
                           ELSE tracks'[t] = tracks[t]
  BY DisconnectPipesEffect
<1>2. (Busy' <=> Busy) /\ \A u : Created(u)' <=> Created(u)
  BY <1>1 DEF Busy, Created
<1>3. GoneTrack.phase = "gone" /\ Frames(GoneTrack) = {}
  BY EmptyTracks DEF TracksShape
<1>4. Entries' /\ New'
  BY <1>1, <1>2 DEF Audio, Entries, New, Busy
<1>5. Current'
  BY <1>1 DEF Audio, Current, Created, Busy
<1>6. Fresh'
  <2> SUFFICES ASSUME NEW t \in Tracks, ~Created(t) PROVE tracks'[t].phase = "none"
    BY <1>2 DEF Fresh
  <2>1. ~\E p \in Pids : entry[p] = t
    BY AudioNumbers DEF Audio, Entries
  <2> QED BY <1>1, <2>1 DEF Audio, Fresh
<1>7. Idle'
  BY <1>1, <1>3 DEF Audio, Idle
<1>8. Perms'
  <2>1. \A p \in Pids : perms[p] = entry[p] /\ (perms[p] # 0 => perms[p] \in Tracks)
    BY <1>1, AudioNumbers DEF Audio, Perms
  <2>2. \A p \in Pids : perms[p] # 0 => tracks'[perms[p]].phase = "gone"
    BY <1>1, <1>3, <2>1
  <2> QED BY <1>1, <2>2 DEF Perms
<1> QED BY <1>4, <1>5, <1>6, <1>7, <1>8 DEF Audio

\* The return audio keeps its shape, and its invariant.
LEMMA AudioStays ==
  ASSUME RoomShape, TracksShape, TablesShape, Audio, [Next]_vars
  PROVE  TracksShape' /\ TablesShape' /\ Audio'
<1>1. CASE QuietAudio
  <2>1. UNCHANGED <<entry, perms, tracks, call, chunks, heard, flushed>>
    BY <1>1 DEF QuietAudio, audioVars
  <2>2. TracksShape' /\ TablesShape'
    BY <2>1 DEF TracksShape, TablesShape
  <2> QED BY <1>1, <2>2, AudioQuiet
<1>2. ASSUME UNCHANGED sessionVars, NEW p \in Pids, NEW d \in Lens, SendReturnAudio(p, d)
      PROVE  TracksShape' /\ TablesShape' /\ Audio'
  BY <1>2, SendEffect, AudioSend
<1>3. ASSUME UNCHANGED sessionVars, NEW p \in Pids, FlushReturnAudio(p)
      PROVE  TracksShape' /\ TablesShape' /\ Audio'
  <2>1. leaving' = leaving /\ phase' = phase
    BY <1>3 DEF sessionVars
  <2>2. /\ TracksShape' /\ TablesShape' /\ TracksKept
        /\ UNCHANGED <<entry, perms, call, chunks>>
        /\ flushed'.upto = [flushed.upto EXCEPT ![p] = Len(chunks)]
        /\ call = NoCall /\ entry[p] \in Tracks /\ Frames(tracks'[entry[p]]) = {}
    BY <1>3, FlushReturnEffect
  <2> QED BY <2>1, <2>2, AudioKept
<1>4. ASSUME UNCHANGED sessionVars, CallStep
      PROVE  TracksShape' /\ TablesShape' /\ Audio'
  <2>1. CASE OldClosed \/ Discarded
    BY <1>4, <2>1, CallClosedEffect, AudioCallClosed
  <2>2. CASE Published
    BY <1>4, <2>2, PublishedEffect, AudioPublished
  <2> QED BY <1>4, <2>1, <2>2 DEF CallStep
<1>5. ASSUME UNCHANGED sessionVars, PublishFails
      PROVE  TracksShape' /\ TablesShape' /\ Audio'
  BY <1>5, PublishFailsEffect, AudioPublishFails
<1>6. ASSUME UNCHANGED sessionVars, NEW t \in Tracks, TrackStep(t)
      PROVE  TracksShape' /\ TablesShape' /\ Audio'
  <2>1. leaving' = leaving /\ phase' = phase
    BY <1>6 DEF sessionVars
  <2>2. /\ TracksShape' /\ TablesShape' /\ TracksKept
        /\ UNCHANGED <<entry, perms, call, chunks, flushed>>
    BY <1>6, TrackEffect
  <2> QED BY <2>1, <2>2, AudioKept
<1>7. CASE AudioStep
  BY <1>2, <1>3, <1>4, <1>5, <1>6, <1>7 DEF AudioStep
<1>8. CASE HandleLeft
  BY <1>8, HandleLeftEffect, AudioHandleLeft
<1>9. ASSUME NEW h \in leaving, HandledLeft(h) PROVE TracksShape' /\ TablesShape' /\ Audio'
  BY <1>9, HandledLeftEffect, AudioHandledLeft
<1>10. CASE DisconnectPipes
  BY <1>10, DisconnectPipesEffect, AudioDisconnectPipes
<1> QED BY <1>1, <1>7, <1>8, <1>9, <1>10, AudioSteps

\* What a participant comes to hear was sent after its last flush.
LEMMA HeardIsNew ==
  ASSUME RoomShape, TracksShape, TablesShape, Audio, [Next]_vars,
         NEW p \in Pids, heard'[p] # heard[p]
  PROVE  heard'[p] > flushed.upto[p]
<1>1. ~QuietAudio
  BY DEF QuietAudio, audioVars
<1>2. ASSUME NEW q \in Pids, NEW d \in Lens, SendReturnAudio(q, d) PROVE FALSE
  BY <1>2, SendEffect
<1>3. ASSUME NEW q \in Pids, FlushReturnAudio(q) PROVE FALSE
  BY <1>3, FlushReturnEffect
<1>4. ~CallStep /\ ~PublishFails
  BY CallClosedEffect, PublishedEffect, PublishFailsEffect DEF CallStep
<1>5. ~HandleLeft
  BY HandleLeftEffect
<1>6. ASSUME NEW h \in leaving, HandledLeft(h) PROVE FALSE
  BY <1>6, HandledLeftEffect
<1>7. ~DisconnectPipes
  BY DisconnectPipesEffect
<1>8. AudioStep
  BY <1>1, <1>5, <1>6, <1>7, AudioSteps
<1>9. PICK t \in Tracks : TrackStep(t)
  BY <1>2, <1>3, <1>4, <1>8 DEF AudioStep
<1>10. perms[p] = t /\ heard'[p] \in Frames(tracks[t])
  BY <1>9, TrackEffect
<1>11. t # 0 /\ tracks[t].phase = "up"
  BY <1>10, AudioNumbers DEF Audio, Idle
<1>12. entry[p] = t
  BY <1>10, <1>11 DEF Audio, Perms
<1> QED BY <1>10, <1>11, <1>12 DEF Audio, New

\* A track in the table is for the present session, or for one whose end will be handled.
Held(p, s) == sess[p] = s \/ Ends(p, s)

OwnTracks ==
  Open => \A p \in Pids : entry[p] # 0 => Held(p, tracks[entry[p]].sess)

\* Handlers that only get more company.
LEMMA EndsGrows ==
  ASSUME \A n \in DOMAIN spawned : n \in DOMAIN spawned' /\ spawned'[n] = spawned[n]
  PROVE  \A p, s : Ends(p, s) => Ends(p, s)'
BY DEF Ends

\* Only the handling of its departure takes a session away.
LEMMA HeldStays ==
  ASSUME RoomShape, [Next]_vars, Open', ~HandleLeft,
         NEW p \in Pids, NEW s, s # 0, Held(p, s)
  PROVE  Held(p, s)'
<1>1. ASSUME sess' = sess, spawned' = spawned PROVE Held(p, s)'
  BY <1>1 DEF Held, Ends
<1>2. ASSUME NEW q \in Pids, Enter(q) PROVE Held(p, s)'
  <2>1. /\ sess[q] = 0 /\ \A r \in Pids : r # q => sess'[r] = sess[r]
        /\ visits[q] < MaxVisits /\ spawned' = Append(spawned, Handler("joined", q, visits'[q]))
        /\ visits' = [visits EXCEPT ![q] = visits[q] + 1]
    BY <1>2 DEF Enter, RoomShape
  <2>2. Handler("joined", q, visits'[q]) \in HandlerType
    BY <2>1, Bounds DEF Handler, HandlerType, RoomShape
  <2>3. PICK k \in Nat : SpawnedLast(Handler("joined", q, visits'[q]), k)
    BY <2>1, <2>2, SpawnsOne
  <2>4. Ends(p, s) => Ends(p, s)'
    BY <2>3, EndsGrows DEF SpawnedLast
  <2> QED BY <2>1, <2>4 DEF Held
<1>3. ASSUME NEW q \in Pids, Exit(q) PROVE Held(p, s)'
  <2>0. PICK v : v = sess[q]
    OBVIOUS
  <2> DEFINE x == Handler("left", q, v)
  <2>1. /\ sess[q] # 0 /\ \A r \in Pids : r # q => sess'[r] = sess[r]
        /\ spawned' = Append(spawned, x)
    BY <1>3, <2>0 DEF Exit, RoomShape
  <2>2. x \in HandlerType /\ x.kind = "left" /\ x.pid = q /\ x.sess = v
    BY <2>0, <2>1, Bounds DEF Handler, HandlerType, RoomShape
  <2> HIDE DEF x
  <2>3. PICK k \in Nat : SpawnedLast(x, k)
    BY <2>1, <2>2, SpawnsOne
  <2>4. Ends(p, s) => Ends(p, s)'
    BY <2>3, EndsGrows DEF SpawnedLast
  <2>5. Ends(q, v)'
    BY <2>2, <2>3 DEF Ends, SpawnedLast
  <2>6. CASE p = q /\ s = v
    BY <2>5, <2>6 DEF Held
  <2> QED BY <2>0, <2>1, <2>4, <2>6 DEF Held
<1>4. ASSUME Connect PROVE Held(p, s)'
  <2>1. PICK b \in Seq(HandlerType) : spawned' = spawned \o b
    BY <1>4, GreetsEverybody
  <2>2. spawned \in Seq(HandlerType)
    BY DEF RoomShape
  <2>3. \A n \in DOMAIN spawned : n \in DOMAIN spawned' /\ spawned'[n] = spawned[n]
    BY <2>1, <2>2, ConcatProperties, LenProperties
  <2>4. sess' = sess
    BY <1>4 DEF Connect
  <2> QED BY <2>3, <2>4, EndsGrows DEF Held
<1>5. ASSUME HandleJoined PROVE Held(p, s)'
  <2>1. spawned # <<>> /\ spawned' = Tail(spawned) /\ Head(spawned).kind # "left" /\ sess' = sess
    BY <1>5 DEF HandleJoined
  <2>2. PICK h : h = Head(spawned) /\ Taken(h)
    BY <2>1, TakesOne
  <2>3. Ends(p, s) => Ends(p, s)'
    BY <2>1, <2>2 DEF Ends, Taken
  <2> QED BY <2>1, <2>3 DEF Held
<1>6. ASSUME UNCHANGED sessionVars PROVE Held(p, s)'
  BY <1>1, <1>6 DEF sessionVars
<1>7. ASSUME Greeted PROVE Held(p, s)'
  BY <1>1, <1>7 DEF Greeted
<1>8. ASSUME NEW h \in leaving, NotifyLeft(h) \/ HandledLeft(h) PROVE Held(p, s)'
  <2>1. sess' = sess /\ spawned' = spawned
    BY <1>8, Zenon DEF NotifyLeft, HandledLeft
  <2> QED BY <1>1, <2>1
<1>9. ~Disconnect /\ ~DisconnectHandlers /\ ~DisconnectPipes
  BY DEF Disconnect, DisconnectHandlers, DisconnectPipes, Open
<1> QED BY <1>2, <1>3, <1>4, <1>5, <1>6, <1>7, <1>8, <1>9, RoomSteps DEF RoomStep

\* Other tracks come into the table only for the session of now.
LEMMA EntriesKept ==
  ASSUME RoomShape, TracksShape, TablesShape, Audio, [Next]_vars, ~HandleLeft, phase' # "down",
         NEW p \in Pids, entry'[p] # 0
  PROVE  \/ entry'[p] = entry[p] /\ tracks'[entry[p]].sess = tracks[entry[p]].sess
         \/ tracks'[entry'[p]].sess = sess'[p]
<1>0. entry[p] # 0 => entry[p] \in Tracks
  BY AudioNumbers
<1>1. CASE QuietAudio
  BY <1>1 DEF QuietAudio, audioVars
<1>2. CASE AudioStep
  <2>0. sess' = sess
    BY <1>2 DEF AudioStep, sessionVars
  <2>1. ASSUME NEW q \in Pids, NEW d \in Lens, SendReturnAudio(q, d)
        PROVE  entry'[p] = entry[p] /\ tracks'[entry[p]].sess = tracks[entry[p]].sess
    <3>1. /\ \A t \in Tracks : tracks'[t].sess = tracks[t].sess
          /\ SendStays \/ SendFirst(q) \/ SendReplaces(q)
      BY <2>1, SendEffect DEF Like
    <3>2. entry'[p] = entry[p]
      BY <3>1 DEF SendStays, SendFirst, SendReplaces, TablesShape
    <3> QED BY <1>0, <3>1, <3>2
  <2>2. ASSUME NEW q \in Pids, FlushReturnAudio(q)
        PROVE  entry'[p] = entry[p] /\ tracks'[entry[p]].sess = tracks[entry[p]].sess
    BY <1>0, <2>2, FlushReturnEffect DEF TracksKept, Like
  <2>3. ASSUME NEW t \in Tracks, TrackStep(t)
        PROVE  entry'[p] = entry[p] /\ tracks'[entry[p]].sess = tracks[entry[p]].sess
    BY <1>0, <2>3, TrackEffect DEF TracksKept, Like
  <2>4. ASSUME OldClosed \/ Discarded
        PROVE  entry'[p] = entry[p] /\ tracks'[entry[p]].sess = tracks[entry[p]].sess
    <3>1. OnlyClosed(call.track) /\ entry' = entry /\ call # NoCall
      BY <2>4, CallClosedEffect
    <3>2. entry[p] # call.track
      BY <3>1 DEF Audio, Entries
    <3> QED BY <1>0, <3>1, <3>2 DEF OnlyClosed
  <2>5. CASE PublishFails
    BY <2>5, PublishFailsEffect
  <2>6. CASE Published
    <3>1. /\ \A u \in Tracks : u # Len(chunks) => tracks'[u] = tracks[u]
          /\ PublishCounts(Len(chunks)) \/ PublishDiscards(Len(chunks))
          /\ call.phase = "publish"
      BY <2>6, PublishedEffect
    <3>2. entry[p] # 0 => entry[p] # Len(chunks)
      <4>1. Busy
        BY <3>1 DEF Busy
      <4> QED BY <4>1, AudioNumbers DEF Audio, Entries, Created
    <3>3. CASE entry'[p] = entry[p]
      BY <1>0, <3>1, <3>2, <3>3
    <3>4. CASE PublishCounts(Len(chunks)) /\ entry'[p] # entry[p]
      <4>1. p = call.pid /\ entry'[p] = Len(chunks)
        BY <3>4 DEF PublishCounts, TablesShape
      <4> QED BY <2>0, <3>4, <4>1 DEF PublishCounts
    <3> QED BY <3>1, <3>3, <3>4 DEF PublishDiscards
  <2> QED BY <1>2, <2>1, <2>2, <2>3, <2>4, <2>5, <2>6 DEF AudioStep, CallStep
<1>3. ASSUME NEW h \in leaving, HandledLeft(h)
      PROVE  entry'[p] = entry[p] /\ tracks'[entry[p]].sess = tracks[entry[p]].sess
  <2>1. entry' = entry /\ (tracks' = tracks \/ OnlyClosed(h.track))
    BY <1>3, HandledLeftEffect
  <2>2. entry[p] # h.track
    BY <2>1 DEF Audio, Entries
  <2> QED BY <1>0, <2>1, <2>2 DEF OnlyClosed
<1>4. ~DisconnectPipes
  BY DisconnectPipesEffect
<1> QED BY <1>1, <1>2, <1>3, <1>4, AudioSteps

LEMMA OwnTracksStay ==
  ASSUME RoomShape, TracksShape, TablesShape, Audio, OwnTracks, [Next]_vars
  PROVE  OwnTracks'
<1> SUFFICES ASSUME Open', NEW p \in Pids, entry'[p] # 0
             PROVE  Held(p, tracks[entry[p]].sess)'
  BY DEF OwnTracks
<1>1. Open
  <2>1. CASE UNCHANGED sessionVars
    BY <2>1 DEF Open, sessionVars
  <2>2. CASE RoomStep
    BY <2>2, Zenon DEF RoomStep, Enter, Exit, Connect, Greeted, HandleJoined, HandleLeft, NotifyLeft,
       HandledLeft, Disconnect, DisconnectHandlers, DisconnectPipes, Open
  <2> QED BY <2>1, <2>2, RoomSteps
<1>2. CASE HandleLeft
  <2>1. UNCHANGED <<tracks, sess>>
    BY <1>2, HandleLeftEffect
  <2>2. PICK h \in HandlerType :
        /\ h = Head(spawned) /\ h.kind = "left" /\ h.pid \in Pids
        /\ \/ /\ entry[h.pid] # 0 /\ tracks[entry[h.pid]].sess = h.sess
              /\ entry' = [entry EXCEPT ![h.pid] = 0]
           \/ /\ ~(entry[h.pid] # 0 /\ tracks[entry[h.pid]].sess = h.sess)
              /\ entry' = entry
    BY <1>2, HandleLeftEffect
  <2>3. Taken(h)
    BY <1>2, <2>2, TakesOne DEF HandleLeft
  <2>4. entry'[p] = entry[p] /\ (p = h.pid => tracks[entry[p]].sess # h.sess)
    BY <2>2 DEF TablesShape
  <2>5. PICK s : s = tracks[entry[p]].sess
    OBVIOUS
  <2>6. Held(p, s)
    BY <1>1, <2>4, <2>5 DEF OwnTracks
  <2>7. Ends(p, s) => Ends(p, s)'
    BY <2>3, <2>4, <2>5 DEF Ends, Taken
  <2>8. Held(p, s)'
    BY <2>1, <2>6, <2>7 DEF Held
  <2> QED BY <2>1, <2>4, <2>5, <2>8 DEF Held, Ends
<1>3. CASE ~HandleLeft
  <2>1. phase' # "down"
    BY DEF Open
  <2>2. PICK s : s = tracks'[entry'[p]].sess
    OBVIOUS
  <2>3. CASE sess'[p] = s
    BY <2>2, <2>3 DEF Held
  <2>4. CASE entry'[p] = entry[p] /\ tracks'[entry[p]].sess = tracks[entry[p]].sess
    <3>1. s = tracks[entry[p]].sess /\ s # 0
      BY <2>2, <2>4 DEF Audio, Entries
    <3>2. Held(p, s)
      BY <1>1, <2>4, <3>1 DEF OwnTracks
    <3>3. Held(p, s)'
      BY <1>3, <3>1, <3>2, HeldStays
    <3> QED BY <2>2, <3>3 DEF Held, Ends
  <2> QED BY <1>3, <2>1, <2>2, <2>3, <2>4, EntriesKept
<1> QED BY <1>2, <1>3

\* Only a session that is not over gets a transfer, and only one whose transfers
\* have ended is told to be.
LEMMA FilesStayEnded ==
  ASSUME RoomShape, files \in [Files -> FileType], TablesShape, TracksShape,
         Open => Sessions, NoFileAfterDeparture, [Next]_vars
  PROVE  NoFileAfterDeparture'
<1>1. ASSUME NEW f \in Files, NEW p \in Pids, OpenFile(f, p)
      PROVE  NoFileAfterDeparture'
  <2> SUFFICES ASSUME NEW h \in leaving, h.phase = "told", NEW g \in Files, g \in FilesOf(h.pid, h.sess)'
               PROVE  FALSE
    <3>1. leaving' = leaving
      BY <1>1 DEF OpenFile, sessionVars
    <3>2. \A q, s : FilesOf(q, s)' \subseteq Files
      BY DEF FilesOf, Running
    <3> QED BY <3>1, <3>2 DEF NoFileAfterDeparture
  <2>1. FilesOf(h.pid, h.sess) = {}
    BY DEF NoFileAfterDeparture
  <2>2. \A x \in Files : x # f => files'[x] = files[x]
    BY <1>1 DEF OpenFile
  <2>3. g = f
    BY <2>1, <2>2 DEF FilesOf, Running
  <2>4. CASE phase = "up" /\ sess[p] # 0
    <3>1. \/ files'[f] = [phase |-> "reading", pid |-> p, sess |-> sess[p]]
          \/ files'[f] = [NoFile EXCEPT !.phase = "over"]
      BY <1>1 DEF OpenFile
    <3>2. files'[f].pid = p /\ files'[f].sess = sess[p]
      BY <2>3, <3>1 DEF FilesOf, Running, NoFile
    <3>3. h.pid = p /\ h.sess = sess[p]
      BY <2>3, <3>2 DEF FilesOf
    <3>4. h.sess # sess[h.pid]
      BY <2>4 DEF Open, Sessions, Handlers
    <3> QED BY <3>3, <3>4
  <2>5. CASE ~(phase = "up" /\ sess[p] # 0)
    <3>1. files' = [files EXCEPT ![f] = [NoFile EXCEPT !.phase = "over"]]
      BY <1>1, <2>5, Zenon DEF OpenFile
    <3>2. files'[f].phase = "over"
      BY <3>1 DEF NoFile
    <3> QED BY <2>3, <3>2 DEF FilesOf, Running
  <2> QED BY <2>4, <2>5
<1>2. CASE FilesEnd
  <2>1. \A p, s : FilesOf(p, s) = {} => FilesOf(p, s)' = {}
    BY <1>2 DEF FilesEnd, FilesOf, Running
  <2>2. ASSUME NEW l \in leaving', l.phase = "told" PROVE FilesOf(l.pid, l.sess) = {}
    <3>1. CASE l \in leaving
      BY <2>2, <3>1 DEF NoFileAfterDeparture
    <3>2. CASE l \notin leaving
      <4>1. CASE HandleLeft
        <5>1. PICK t : leaving' = leaving \cup {[pid |-> Head(spawned).pid, sess |-> Head(spawned).sess,
                                                 phase |-> "files", track |-> t]}
          BY <4>1 DEF HandleLeft
        <5> QED BY <2>2, <3>2, <5>1
      <4>2. ASSUME NEW h \in leaving, NotifyLeft(h) PROVE FilesOf(l.pid, l.sess) = {}
        <5>1. l = [h EXCEPT !.phase = "told"] /\ FilesOf(h.pid, h.sess) = {}
          BY <3>2, <4>2, Zenon DEF NotifyLeft
        <5>2. l.pid = h.pid /\ l.sess = h.sess
          BY <5>1 DEF RoomShape, LeavingType
        <5> QED BY <5>1, <5>2
      <4>3. ASSUME NEW h \in leaving, HandledLeft(h) PROVE FALSE
        BY <3>2, <4>3, HandledLeftEffect
      <4>4. ASSUME UNCHANGED leaving \/ leaving' = {} PROVE FALSE
        BY <3>2, <4>4
      <4>5. ASSUME UNCHANGED sessionVars PROVE UNCHANGED leaving
        BY <4>5 DEF sessionVars
      <4>6. ASSUME RoomStep, ~HandleLeft, ~\E h \in leaving : NotifyLeft(h) \/ HandledLeft(h)
            PROVE  UNCHANGED leaving \/ leaving' = {}
        BY <4>6, Zenon DEF RoomStep, Enter, Exit, Connect, Greeted, HandleJoined, Disconnect,
           DisconnectHandlers, DisconnectPipes
      <4> QED BY <4>1, <4>2, <4>3, <4>4, <4>5, <4>6, RoomSteps
    <3> QED BY <3>1, <3>2
  <2>3. ASSUME NEW l \in leaving', l.phase = "told" PROVE FilesOf(l.pid, l.sess)' = {}
    <3>1. PICK q, s : q = l.pid /\ s = l.sess
      OBVIOUS
    <3>2. FilesOf(q, s)' = {}
      BY <2>1, <2>2, <2>3, <3>1
    <3> QED BY <3>1, <3>2 DEF FilesOf
  <2> QED BY <2>3 DEF NoFileAfterDeparture
<1> QED BY <1>1, <1>2, FilesStep

-----------------------------------------------------------------------------
(* The theorems. *)

IInv ==
  /\ RoomShape /\ files \in [Files -> FileType] /\ TracksShape /\ TablesShape
  /\ Counted /\ (Open => Sessions) /\ Audio /\ OwnTracks /\ NoFileAfterDeparture

LEMMA InitInvariant == Init => IInv
<1> SUFFICES ASSUME Init PROVE IInv
  OBVIOUS
<1>1. 0 \in 0 .. MaxVisits /\ 0 \in 0 .. MaxChunks
  BY Bounds
<1>2. spawned \in Seq(HandlerType) /\ spawned = <<>> /\ DOMAIN spawned = {}
  <2>1. spawned = <<>>
    BY DEF Init
  <2>2. <<>> \in Seq(HandlerType) /\ DOMAIN <<>> = {}
    BY EmptySeq
  <2> QED BY <2>1, <2>2
<1>3. RoomShape
  BY <1>1, <1>2 DEF Init, RoomShape
<1>4. files \in [Files -> FileType]
  <2>1. NoFile \in FileType
    BY <1>1 DEF NoFile, FileType
  <2> QED BY <2>1 DEF Init
<1>5. chunks = <<>> /\ chunks \in Seq(Nat) /\ Len(chunks) = 0
  BY EmptySeq DEF Init
<1>6. TrackOK(NoTrack, chunks) /\ Frames(NoTrack) = {} /\ NoTrack.phase = "none"
  BY <1>5, EmptyTracks
<1>7. \A t \in Tracks : tracks[t] = NoTrack
  BY DEF Init
<1>8. TracksShape
  <2>1. tracks \in [Tracks -> TrackType(Len(chunks))]
    BY <1>6 DEF Init, TrackOK
  <2> QED BY <1>5, <1>6, <1>7, <2>1, Bounds DEF TracksShape
<1>9. TablesShape
  <2>1. flushed \in [upto : [Pids -> Nat], n : Nat]
    BY DEF Init
  <2>2. heard \in [Pids -> Nat]
    BY DEF Init
  <2> QED BY <1>1, <2>1, <2>2, NoCallFields DEF Init, TablesShape
<1>10. Counted
  BY DEF Init, Counted
<1>11. Sessions
  <2>1. Handlers /\ InOrder /\ Behind
    BY <1>2 DEF Init, Handlers, InOrder, Behind
  <2>2. Follows
    BY <1>2 DEF Init, Follows, FollowsOne, Pending
  <2> QED BY <2>1, <2>2 DEF Sessions
<1>12. Audio
  <2>1. ~Busy /\ call = NoCall
    BY NoCallFields DEF Init, Busy
  <2>2. Entries /\ Current /\ Perms
    BY <2>1 DEF Init, Entries, Current, Perms
  <2>3. Fresh /\ Idle
    BY <1>6, <1>7 DEF Fresh, Idle
  <2>4. New
    BY <1>5, <2>1 DEF Init, New
  <2> QED BY <2>2, <2>3, <2>4 DEF Audio
<1>13. OwnTracks /\ NoFileAfterDeparture
  BY DEF Init, OwnTracks, NoFileAfterDeparture
<1> QED BY <1>3, <1>4, <1>8, <1>9, <1>10, <1>11, <1>12, <1>13 DEF IInv

LEMMA StepInvariant == IInv /\ [Next]_vars => IInv'
<1> SUFFICES ASSUME IInv, [Next]_vars PROVE IInv'
  OBVIOUS
<1> USE DEF IInv
<1>1. RoomShape'
  BY RoomShapeStays DEF TablesShape
<1>2. files' \in [Files -> FileType]
  BY FilesStep
<1>3. TracksShape' /\ TablesShape' /\ Audio'
  BY AudioStays
<1>4. Counted' /\ (Open' => Sessions')
  BY <1>1, CountedStays, SessionsStay
<1>5. OwnTracks'
  BY OwnTracksStay
<1>6. NoFileAfterDeparture'
  BY FilesStayEnded
<1>7. (Open => Sessions)'
  BY <1>4
<1> QED BY <1>1, <1>2, <1>3, <1>4, <1>5, <1>6, <1>7

LEMMA Invariant == Spec => []IInv
BY InitInvariant, StepInvariant, PTL DEF Spec

\* The types, and the counts of the backlogs: push(), _drain() and flush() agree
\* on how much is queued, and the buffer's limit holds.
THEOREM TypeCorrect == Spec => []TypeOK
<1>1. IInv => TypeOK
  BY DEF IInv, RoomShape, TracksShape, TrackOK, TypeOK
<1> QED BY <1>1, Invariant, PTL

\* Return audio is not heard by a participant or a session it was not sent to:
\* LiveKit lets a participant subscribe to no track but its own, and to that of a
\* session that is over only until its departure is handled or the client stops.
THEOREM OwnTrackHeard == Spec => []OwnTrackOnly
<1>1. IInv => \A p \in Pids : perms[p] # 0 /\ phase # "down" => tracks[perms[p]].pid = p
  <2> SUFFICES ASSUME IInv, NEW p \in Pids, perms[p] # 0, phase # "down"
               PROVE  tracks[perms[p]].pid = p
    OBVIOUS
  <2>1. entry[p] = perms[p]
    BY DEF IInv, Audio, Perms
  <2>2. tracks[entry[p]].pid = p
    BY <2>1 DEF IInv, Audio, Entries
  <2> QED BY <2>1, <2>2
<1>2. IInv => OwnTrackOnly
  <2> SUFFICES ASSUME IInv, NEW p \in Pids, perms[p] # 0, phase # "down",
                      phase \notin {"closing", "draining"}
               PROVE  \/ tracks[perms[p]].sess = sess[p]
                      \/ \E n \in DOMAIN spawned : spawned[n] = Handler("left", p, tracks[perms[p]].sess)
    BY <1>1 DEF OwnTrackOnly
  <2>1. Open /\ entry[p] = perms[p]
    BY DEF IInv, RoomShape, Open, Audio, Perms
  <2>2. Held(p, tracks[entry[p]].sess)
    BY <2>1 DEF IInv, OwnTracks
  <2>3. ASSUME NEW s, NEW n \in DOMAIN spawned,
               spawned[n].kind = "left", spawned[n].pid = p, spawned[n].sess = s
        PROVE  spawned[n] = Handler("left", p, s)
    <3>1. spawned[n] \in HandlerType
      BY SpawnedTypes DEF IInv
    <3> QED BY <2>3, <3>1 DEF HandlerType, Handler
  <2> QED BY <2>1, <2>2, <2>3 DEF Held, Ends
<1> QED BY <1>2, Invariant, PTL

\* The hub is told of a departure when its transfers have ended, and none begins
\* after that: _handle_left() awaits them, and _on_file_stream() takes only a
\* session that is there.
THEOREM DepartureEndsFiles == Spec => []NoFileAfterDeparture
<1>1. IInv => NoFileAfterDeparture
  BY DEF IInv
<1> QED BY <1>1, Invariant, PTL

\* The endpoint's table is the room's whenever no handler is left to run: the
\* joins and departures of one participant cannot cancel each other out.
THEOREM EndpointFollows == Spec => []EndpointFollowsRoom
<1>1. IInv => EndpointFollowsRoom
  <2> SUFFICES ASSUME IInv, Open, spawned = <<>>, leaving = {} PROVE conn = sess
    BY DEF EndpointFollowsRoom, Open
  <2>1. DOMAIN spawned = {}
    BY EmptySeq
  <2>2. \A p \in Pids : FollowsOne(p) /\ sess[p] \in {0, visits[p]}
    BY DEF IInv, Sessions, Follows, Counted
  <2>3. ASSUME NEW p \in Pids PROVE conn[p] = sess[p]
    <3>1. ~Pending(p, visits[p]) /\ ~Ends(p, visits[p])
      BY <2>1 DEF Pending, Ends
    <3> QED BY <2>2, <3>1 DEF FollowsOne
  <2>4. conn \in [Pids -> 0 .. MaxVisits] /\ sess \in [Pids -> 0 .. MaxVisits]
    BY DEF IInv, RoomShape
  <2> QED BY <2>3, <2>4
<1> QED BY <1>1, Invariant, PTL

\* Nothing that was buffered when the agent interrupted itself is heard after
\* that: flush_return_audio() empties the pipe and what LiveKit holds, and a
\* track that is not in the table is silent.
THEOREM FlushIsHeard == Spec => FlushSilences
<1>1. IInv /\ [Next]_vars => [\A p \in Pids : heard'[p] # heard[p] => heard'[p] > flushed.upto[p]]_vars
  BY HeardIsNew DEF IInv
<1> QED BY <1>1, Invariant, PTL DEF Spec, FlushSilences
=============================================================================
