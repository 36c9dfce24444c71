---------------------------- MODULE VoicePipe_proofs ----------------------------
(***************************************************************************)
(* Proofs about VoiceFloor, continued: the pipeline and the theorems.      *)
(*                                                                         *)
(* VoiceFloor_proofs shows what the handlers do to the entry of a          *)
(* participant; here is what they and the pipeline do to the frames on     *)
(* their way: text that stands is that of the output on the floor, and     *)
(* between the texts of two outputs a response ends.                       *)
(***************************************************************************)
EXTENDS VoiceFloor_proofs

-----------------------------------------------------------------------------
(* The inductive invariant, strengthened by what holds of the frames. *)

IsText(f) == f.kind \in {"text", "sentence"}
IsMarker(f) == f.kind \in {"cut", "left"}
IsSpeech(f) == f.kind \in {"text", "sentence", "end"}
Ends(f) == f.kind \in {"end", "cut", "left"}

\* The k-th frame of q is text that no interruption or departure behind it will drop.
Stands(q, k) == IsText(q[k]) /\ \A l \in DOMAIN q : IsMarker(q[l]) => l < k

\* Text that stands is that of the floor; the floor's own done marker comes behind it.
FloorOwnsText(s, upward) ==
  /\ \A k \in DOMAIN s.pipe :
       Stands(s.pipe, k) => s.pipe[k].out = s.floor.items /\ s.floor.phase \notin {"free", "preparing"}
  /\ \A k \in DOMAIN s.pipe :
       s.pipe[k].kind = "done" /\ s.pipe[k].out = s.floor.items
         => s.floor.phase = "ended" /\ \A l \in DOMAIN s.pipe : l > k => ~Stands(s.pipe, l)
  /\ \A f \in ToSet(upward) :
       f.kind = "done" /\ f.out = s.floor.items
         => s.floor.phase = "ended" /\ \A l \in DOMAIN s.pipe : ~Stands(s.pipe, l)

\* Behind text that was not cut short a response ends, or is interrupted, before another
\* output's comes.
Apart(q, open, cut) ==
  /\ \A o \in open \ cut, l \in DOMAIN q :
       IsSpeech(q[l]) /\ q[l].out # o => \E m \in DOMAIN q : m < l /\ Ends(q[m])
  /\ \A k, l \in DOMAIN q :
       k < l /\ IsText(q[k]) /\ q[k].out \notin cut /\ IsSpeech(q[l]) /\ q[l].out # q[k].out
         => \E m \in DOMAIN q : k < m /\ m < l /\ Ends(q[m])

\* Text that was not cut short and has no end behind it is that of one of the outputs outs.
Unended(q, open, cut, outs) ==
  /\ \A o \in open \ cut : (\A m \in DOMAIN q : ~Ends(q[m])) => o \in outs
  /\ \A k \in DOMAIN q :
       IsText(q[k]) /\ q[k].out \notin cut /\ (\A m \in DOMAIN q : k < m => ~Ends(q[m]))
         => q[k].out \in outs

\* Only the output that is playing has begun a response and not ended it.
TextEnds(s, open, cut) == Apart(s.pipe, open, cut) /\ Unended(s.pipe, open, cut, Clip(s))

VInv == IInv /\ FloorOwnsText(io, up) /\ TextEnds(io, frag, clipped)

-----------------------------------------------------------------------------
(* Frames leave the pipeline: in front, or dropped by an interruption. *)

\* f places the frames of r in q.  What is missing in r was in front of all the speech
\* that is left, with no sentence open any more if an end was among it; or it was behind
\* all of that, and is no interruption, and its output is known to be cut short.
Drops(q, r, f, open, cut) ==
  /\ f \in [DOMAIN r -> DOMAIN q]
  /\ \A i, j \in DOMAIN r : i < j => f[i] < f[j]
  /\ \A i \in DOMAIN r : r[i] = q[f[i]]
  /\ \A m \in DOMAIN q \ {f[i] : i \in DOMAIN r} :
       \/ /\ \A i \in DOMAIN r : IsSpeech(r[i]) => m < f[i]
          /\ Ends(q[m]) => open = {}
       \/ /\ \A i \in DOMAIN r : IsSpeech(r[i]) => f[i] < m
          /\ ~IsMarker(q[m]) /\ q[m].out \in cut

\* The frames of q in front of everything that f places.
Passed(q, r, f) == {q[m] : m \in {n \in DOMAIN q : \A i \in DOMAIN r : n < f[i]}}

LEMMA TailDrops ==
  ASSUME NEW S, NEW q \in Seq(S), q # <<>>, NEW open, NEW cut, Ends(Head(q)) => open = {}
  PROVE  /\ Tail(q) \in Seq(S)
         /\ \E f : Drops(q, Tail(q), f, open, cut) /\ Head(q) \in Passed(q, Tail(q), f)
<1> DEFINE r == Tail(q)
           f == [i \in DOMAIN r |-> i + 1]
<1>1. /\ r \in Seq(S) /\ Len(q) \in Nat \ {0}
      /\ DOMAIN r = 1 .. Len(q) - 1 /\ DOMAIN q = 1 .. Len(q)
      /\ \A i \in 1 .. Len(q) - 1 : r[i] = q[i + 1]
      /\ Head(q) = q[1]
  BY HeadTailProperties, LenProperties, EmptySeq
<1> HIDE DEF r
<1>2. f \in [DOMAIN r -> DOMAIN q] /\ \A i \in DOMAIN r : f[i] = i + 1 /\ 1 < f[i] /\ r[i] = q[f[i]]
  BY <1>1
<1>3. \A i, j \in DOMAIN r : i < j => f[i] < f[j]
  BY <1>1
<1>4. ASSUME NEW m \in DOMAIN q \ {f[i] : i \in DOMAIN r} PROVE m = 1
  <2>1. m # 1 => m - 1 \in DOMAIN r /\ f[m - 1] = m
    BY <1>1
  <2> QED BY <2>1
<1> HIDE DEF f
<1>5. \A m \in DOMAIN q \ {f[i] : i \in DOMAIN r} : m = 1
  BY <1>4
<1>6. Drops(q, r, f, open, cut)
  BY <1>1, <1>2, <1>3, <1>5 DEF Drops
<1>7. 1 \in {n \in DOMAIN q : \A i \in DOMAIN r : n < f[i]}
  BY <1>1, <1>2
<1>8. Head(q) \in Passed(q, r, f)
  BY <1>1, <1>7 DEF Passed
<1> QED BY <1>1, <1>6, <1>8 DEF r

LEMMA SameDrops ==
  ASSUME NEW q, NEW open, NEW cut
  PROVE  \E f : Drops(q, q, f, open, cut)
<1> DEFINE f == [i \in DOMAIN q |-> i]
<1>1. /\ f \in [DOMAIN q -> DOMAIN q] /\ \A i \in DOMAIN q : f[i] = i
      /\ DOMAIN q \ {f[i] : i \in DOMAIN q} = {}
  OBVIOUS
<1> HIDE DEF f
<1> QED BY <1>1 DEF Drops

\* An interruption drops what is in front of it, or leaves done markers of it.
LEMMA CutDrops ==
  ASSUME NEW q \in Seq(DownFrames), NEW k \in DOMAIN q, NEW keep \in BOOLEAN, NEW cut
  PROVE  LET done == Only(SubSeq(q, 1, k), FramesOf({"done"}))
             r == (IF keep THEN done ELSE <<>>) \o SubSeq(q, k + 1, Len(q))
         IN r \in Seq(DownFrames) /\ \E f : Drops(q, r, f, {}, cut)
<1> DEFINE a == SubSeq(q, 1, k)
           b == SubSeq(q, k + 1, Len(q))
           d == IF keep THEN Only(a, FramesOf({"done"})) ELSE <<>>
           r == d \o b
<1>1. Len(q) \in Nat /\ DOMAIN q = 1 .. Len(q) /\ \A i \in 1 .. Len(q) : q[i] \in DownFrames
  BY LenProperties, ElementOfSeq
<1>2. a \in Seq(DownFrames) /\ Len(a) = k /\ \A i \in 1 .. k : a[i] = q[i]
  <2>1. /\ a \in Seq(DownFrames) /\ Len(a) = IF 1 <= k THEN k - 1 + 1 ELSE 0
        /\ \A i \in 1 .. k - 1 + 1 : a[i] = q[1 + i - 1]
    BY <1>1, SubSeqProperties
  <2> QED BY <1>1, <2>1
<1>3. b \in Seq(DownFrames) /\ Len(b) = Len(q) - k /\ \A i \in 1 .. Len(q) - k : b[i] = q[k + i]
  <2>1. /\ b \in Seq(DownFrames) /\ Len(b) = IF k + 1 <= Len(q) THEN Len(q) - (k + 1) + 1 ELSE 0
        /\ \A i \in 1 .. Len(q) - (k + 1) + 1 : b[i] = q[k + 1 + i - 1]
    BY <1>1, SubSeqProperties
  <2> QED BY <1>1, <2>1
<1> HIDE DEF a, b
<1>4. /\ d \in Seq(DownFrames) /\ Len(d) \in Nat
      /\ \E g : /\ g \in [1 .. Len(d) -> 1 .. k]
                /\ \A i, j \in 1 .. Len(d) : i < j => g[i] < g[j]
                /\ \A i \in 1 .. Len(d) : d[i] = q[g[i]] /\ d[i].kind = "done"
  <2>1. CASE keep
    <3>1. d = Only(a, FramesOf({"done"}))
      BY <2>1
    <3> HIDE DEF d
    <3>2. d \in Seq(DownFrames) /\ Len(d) \in Nat
      BY <1>2, <3>1, OnlyEmbeds, LenProperties
    <3>3. PICK g : Embeds(g, d, a, Len(a), FramesOf({"done"}))
      BY <1>2, <3>1, OnlyEmbeds
    <3>4. /\ g \in [1 .. Len(d) -> 1 .. k]
          /\ \A i, j \in 1 .. Len(d) : i < j => g[i] < g[j]
          /\ \A i \in 1 .. Len(d) : d[i] = a[g[i]] /\ d[i] \in FramesOf({"done"})
      BY <1>2, <3>3 DEF Embeds
    <3>5. \A i \in 1 .. Len(d) : d[i] = q[g[i]] /\ d[i].kind = "done"
      BY <1>2, <3>4 DEF FramesOf
    <3> QED BY <3>2, <3>4, <3>5
  <2>2. CASE ~keep
    <3>1. d = <<>> /\ Len(d) = 0 /\ d \in Seq(DownFrames)
      BY <2>2
    <3>2. [i \in {} |-> i] \in [1 .. Len(d) -> 1 .. k] /\ 1 .. Len(d) = {}
      BY <3>1
    <3> QED BY <3>1, <3>2
  <2> QED BY <2>1, <2>2
<1>5. PICK g : /\ g \in [1 .. Len(d) -> 1 .. k]
               /\ \A i, j \in 1 .. Len(d) : i < j => g[i] < g[j]
               /\ \A i \in 1 .. Len(d) : d[i] = q[g[i]] /\ d[i].kind = "done"
  BY <1>4
<1> HIDE DEF d
<1> DEFINE n == Len(d)
           f == [i \in DOMAIN r |-> IF i <= n THEN g[i] ELSE k + (i - n)]
<1>6. /\ r \in Seq(DownFrames) /\ n \in Nat /\ DOMAIN r = 1 .. n + (Len(q) - k)
      /\ \A i \in DOMAIN r : r[i] = IF i <= n THEN d[i] ELSE b[i - n]
  <2>1. n \in Nat /\ Len(b) = Len(q) - k /\ Len(b) \in Nat
    BY <1>1, <1>3, <1>4
  <2>2. /\ r \in Seq(DownFrames) /\ Len(r) = n + Len(b) /\ DOMAIN r = 1 .. Len(r)
        /\ \A i \in 1 .. n + Len(b) : r[i] = IF i <= n THEN d[i] ELSE b[i - n]
    BY <1>3, <1>4, ConcatProperties, LenProperties
  <2> QED BY <2>1, <2>2
<1> HIDE DEF r
<1>7. /\ \A i \in DOMAIN r : i <= n => f[i] = g[i] /\ f[i] \in 1 .. k /\ r[i] = q[f[i]] /\ r[i].kind = "done"
  BY <1>5, <1>6
<1>8. ASSUME NEW i \in DOMAIN r, ~(i <= n)
      PROVE  f[i] = k + (i - n) /\ f[i] \in DOMAIN q /\ k < f[i] /\ r[i] = q[f[i]]
  <2>1. i - n \in 1 .. Len(q) - k
    BY <1>1, <1>6, <1>8
  <2>2. r[i] = b[i - n] /\ b[i - n] = q[k + (i - n)]
    BY <1>3, <1>6, <1>8, <2>1
  <2>3. f[i] = k + (i - n)
    BY <1>8
  <2> HIDE DEF f
  <2> QED BY <1>1, <2>1, <2>2, <2>3
<1>9. f \in [DOMAIN r -> DOMAIN q]
  BY <1>1, <1>7, <1>8
<1>10. ASSUME NEW m \in DOMAIN q, m > k PROVE \E i \in DOMAIN r : f[i] = m
  <2>1. n + (m - k) \in DOMAIN r /\ ~(n + (m - k) <= n) /\ k + ((n + (m - k)) - n) = m
    BY <1>1, <1>6, <1>10
  <2> QED BY <1>8, <2>1
<1> HIDE DEF f, n
<1>11. \A i, j \in DOMAIN r : i < j => f[i] < f[j]
  <2> SUFFICES ASSUME NEW i \in DOMAIN r, NEW j \in DOMAIN r, i < j PROVE f[i] < f[j]
    OBVIOUS
  <2>a. i \in Nat /\ j \in Nat /\ i >= 1 /\ j >= 1 /\ n \in Nat
    BY <1>1, <1>6
  <2>1. CASE j <= n
    <3>1. i <= n /\ i \in 1 .. n /\ j \in 1 .. n
      BY <2>a, <2>1
    <3>2. g[i] < g[j]
      BY <1>5, <3>1 DEF n
    <3> QED BY <1>7, <2>1, <3>1, <3>2
  <2>2. CASE i <= n /\ ~(j <= n)
    <3>1. f[i] \in 1 .. k /\ k < f[j] /\ f[j] \in Nat
      BY <1>1, <1>7, <1>8, <2>2
    <3> QED BY <1>1, <3>1
  <2>3. CASE ~(i <= n)
    <3>1. f[i] = k + (i - n) /\ f[j] = k + (j - n)
      BY <1>8, <2>3, <2>a
    <3> QED BY <1>1, <2>a, <3>1
  <2> QED BY <2>1, <2>2, <2>3
<1>12. \A i \in DOMAIN r : r[i] = q[f[i]] /\ (IsSpeech(r[i]) => k < f[i])
  BY <1>7, <1>8 DEF IsSpeech
<1>13. ASSUME NEW m \in DOMAIN q \ {f[i] : i \in DOMAIN r}, NEW i \in DOMAIN r, IsSpeech(r[i])
       PROVE m < f[i]
  <2>1. ~(m > k)
    BY <1>10, <1>13
  <2>2. k < f[i] /\ f[i] \in DOMAIN q
    BY <1>9, <1>12, <1>13
  <2> QED BY <1>1, <2>1, <2>2
<1>14. Drops(q, r, f, {}, cut)
  BY <1>9, <1>11, <1>12, <1>13, Zenon DEF Drops
<1>15. r = (IF keep THEN Only(SubSeq(q, 1, k), FramesOf({"done"})) ELSE <<>>) \o SubSeq(q, k + 1, Len(q))
  BY DEF r, d, a, b
<1> QED BY <1>6, <1>14, <1>15, Zenon

\* The interruption of another participant drops frames behind the k-th.
LEMMA LateDrops ==
  ASSUME NEW q \in Seq(DownFrames), NEW k \in 1 .. Len(q), NEW open, NEW cut,
         {g.out : g \in ToSet(SubSeq(q, k, Len(q))) \ FramesOf({"done", "cut", "left"})} \subseteq cut
  PROVE  LET r == SubSeq(q, 1, k - 1)
                    \o Only(SubSeq(q, k, Len(q)), FramesOf({"done", "cut", "left"}))
         IN r \in Seq(DownFrames) /\ \E f : Drops(q, r, f, open, cut)
<1> DEFINE stay == FramesOf({"done", "cut", "left"})
           a == SubSeq(q, 1, k - 1)
           b == SubSeq(q, k, Len(q))
           d == Only(b, stay)
           r == a \o d
<1>1. Len(q) \in Nat /\ DOMAIN q = 1 .. Len(q) /\ \A i \in 1 .. Len(q) : q[i] \in DownFrames
  BY LenProperties, ElementOfSeq
<1>2. a \in Seq(DownFrames) /\ Len(a) = k - 1 /\ \A i \in 1 .. k - 1 : a[i] = q[i]
  <2>1. /\ a \in Seq(DownFrames) /\ Len(a) = IF 1 <= k - 1 THEN (k - 1) - 1 + 1 ELSE 0
        /\ \A i \in 1 .. (k - 1) - 1 + 1 : a[i] = q[1 + i - 1]
    BY <1>1, SubSeqProperties
  <2> QED BY <1>1, <2>1
<1>3. /\ b \in Seq(DownFrames) /\ Len(b) = Len(q) - k + 1
      /\ \A i \in 1 .. Len(q) - k + 1 : b[i] = q[k + i - 1]
  <2>1. /\ b \in Seq(DownFrames) /\ Len(b) = IF k <= Len(q) THEN Len(q) - k + 1 ELSE 0
        /\ \A i \in 1 .. Len(q) - k + 1 : b[i] = q[k + i - 1]
    BY <1>1, SubSeqProperties
  <2> QED BY <1>1, <2>1
<1> DEFINE L == Len(b)
<1>4. /\ d \in Seq(DownFrames) /\ Len(d) \in Nat
      /\ \E g : Embeds(g, d, b, L, stay)
  <2> HIDE DEF b, stay
  <2> QED BY <1>3, OnlyEmbeds, LenProperties
<1>5. \A m \in 1 .. L : b[m] \notin stay => b[m].out \in cut
  <2>1. \A m \in 1 .. L : b[m] \in ToSet(b)
    BY <1>3, LenProperties DEF ToSet
  <2> HIDE DEF b, stay, L
  <2>2. {g.out : g \in ToSet(b) \ stay} \subseteq cut
    BY DEF b, stay
  <2> QED BY <2>1, <2>2
<1> HIDE DEF a, b
<1>6. PICK g : /\ g \in [1 .. Len(d) -> 1 .. L]
               /\ \A i, j \in 1 .. Len(d) : i < j => g[i] < g[j]
               /\ \A i \in 1 .. Len(d) : d[i] = b[g[i]] /\ d[i] \in stay
               /\ \A m \in 1 .. L : b[m] \in stay => \E i \in 1 .. Len(d) : g[i] = m
  BY <1>4, Zenon DEF Embeds
<1> HIDE DEF d
<1> DEFINE n == k - 1
           f == [i \in DOMAIN r |-> IF i <= n THEN i ELSE n + g[i - n]]
<1>7. /\ r \in Seq(DownFrames) /\ n \in Nat /\ DOMAIN r = 1 .. n + Len(d)
      /\ \A i \in DOMAIN r : r[i] = IF i <= n THEN a[i] ELSE d[i - n]
  <2>1. /\ r \in Seq(DownFrames) /\ Len(r) = Len(a) + Len(d) /\ DOMAIN r = 1 .. Len(r)
        /\ \A i \in 1 .. Len(a) + Len(d) : r[i] = IF i <= Len(a) THEN a[i] ELSE d[i - Len(a)]
    BY <1>2, <1>4, ConcatProperties, LenProperties
  <2> QED BY <1>1, <1>2, <2>1
<1> HIDE DEF r
<1>8. \A i \in DOMAIN r : i <= n => f[i] = i /\ i \in DOMAIN q /\ r[i] = q[f[i]]
  BY <1>1, <1>2, <1>7
<1>l. L \in Nat /\ n + L = Len(q) /\ \A m \in 1 .. L : b[m] = q[n + m]
  <2>1. \A m \in 1 .. L : k + m - 1 = n + m
    BY <1>1
  <2> QED BY <1>1, <1>3, <2>1
<1> HIDE DEF L
<1>9. ASSUME NEW i \in DOMAIN r, ~(i <= n)
      PROVE  /\ i - n \in 1 .. Len(d) /\ f[i] = n + g[i - n] /\ f[i] \in DOMAIN q
             /\ n < f[i] /\ r[i] = q[f[i]] /\ r[i] \in stay
  <2>1. i - n \in 1 .. Len(d)
    BY <1>4, <1>7, <1>9
  <2>2. f[i] = n + g[i - n] /\ g[i - n] \in 1 .. L /\ r[i] = d[i - n]
    BY <1>6, <1>7, <1>9, <2>1
  <2>3. d[i - n] = b[g[i - n]] /\ d[i - n] \in stay
    BY <1>6, <2>1
  <2> HIDE DEF f, stay
  <2>4. f[i] = n + g[i - n] /\ n < f[i] /\ f[i] \in DOMAIN q
    BY <1>1, <1>7, <1>l, <2>2
  <2>5. r[i] = b[g[i - n]] /\ r[i] \in stay /\ b[g[i - n]] = q[n + g[i - n]]
    BY <1>l, <2>2, <2>3
  <2> QED BY <2>1, <2>4, <2>5
<1>10. ASSUME NEW m \in DOMAIN q \ {f[i] : i \in DOMAIN r}
       PROVE  n < m /\ q[m] \notin stay /\ q[m].out \in cut
  <2>1. n < m
    <3>1. m <= n => m \in DOMAIN r /\ f[m] = m
      BY <1>1, <1>4, <1>7
    <3> QED BY <1>1, <1>7, <3>1
  <2>2. m - n \in 1 .. L /\ n + (m - n) = m
    BY <1>1, <1>7, <1>l, <2>1
  <2>3. ASSUME b[m - n] \in stay PROVE FALSE
    <3>1. PICK i \in 1 .. Len(d) : g[i] = m - n
      BY <1>6, <2>2, <2>3
    <3>2. i + n \in DOMAIN r /\ ~(i + n <= n) /\ (i + n) - n = i
      BY <1>4, <1>7
    <3>3. f[i + n] = n + g[i]
      BY <3>2
    <3> QED BY <2>2, <3>1, <3>2, <3>3
  <2> HIDE DEF stay
  <2> QED BY <1>5, <1>l, <2>1, <2>2, <2>3
<1>11. f \in [DOMAIN r -> DOMAIN q]
  BY <1>8, <1>9
<1> HIDE DEF f, n, stay
<1>12. \A i, j \in DOMAIN r : i < j => f[i] < f[j]
  <2> SUFFICES ASSUME NEW i \in DOMAIN r, NEW j \in DOMAIN r, i < j PROVE f[i] < f[j]
    OBVIOUS
  <2>a. i \in Nat /\ j \in Nat /\ n \in Nat
    BY <1>4, <1>7
  <2>1. CASE j <= n
    <3>1. i <= n
      BY <2>a, <2>1
    <3> QED BY <1>8, <2>1, <3>1
  <2>2. CASE i <= n /\ ~(j <= n)
    <3>1. f[i] = i /\ n < f[j] /\ f[j] \in Nat
      BY <1>1, <1>8, <1>9, <2>2
    <3> QED BY <2>a, <2>2, <3>1
  <2>3. CASE ~(i <= n)
    <3>1. ~(j <= n) /\ i - n < j - n
      BY <2>a, <2>3
    <3>2. /\ f[i] = n + g[i - n] /\ f[j] = n + g[j - n]
          /\ i - n \in 1 .. Len(d) /\ j - n \in 1 .. Len(d)
      BY <1>9, <2>3, <3>1
    <3>3. g[i - n] < g[j - n] /\ g[i - n] \in Nat /\ g[j - n] \in Nat
      BY <1>6, <1>l, <3>1, <3>2
    <3> QED BY <2>a, <3>2, <3>3
  <2> QED BY <2>1, <2>2, <2>3
<1>13. \A i \in DOMAIN r : r[i] = q[f[i]] /\ (IsSpeech(r[i]) => f[i] <= n)
  <2>1. ASSUME NEW i \in DOMAIN r, ~(i <= n) PROVE ~IsSpeech(r[i])
    BY <1>9, <2>1 DEF IsSpeech, stay, FramesOf
  <2> QED BY <1>8, <1>9, <2>1
<1>14. ASSUME NEW m \in DOMAIN q \ {f[i] : i \in DOMAIN r}
       PROVE  /\ \A i \in DOMAIN r : IsSpeech(r[i]) => f[i] < m
              /\ ~IsMarker(q[m]) /\ q[m].out \in cut
  <2>1. n < m /\ q[m] \notin stay /\ q[m].out \in cut /\ n \in Nat
    BY <1>7, <1>10
  <2>2. ~IsMarker(q[m])
    BY <1>1, <2>1 DEF stay, DownFrames, FramesOf, IsMarker
  <2>3. ASSUME NEW i \in DOMAIN r, IsSpeech(r[i]) PROVE f[i] < m
    BY <1>1, <1>11, <1>13, <2>1, <2>3
  <2> QED BY <2>1, <2>2, <2>3
<1>15. Drops(q, r, f, open, cut)
  BY <1>11, <1>12, <1>13, <1>14, Zenon DEF Drops
<1> QED BY <1>7, <1>15, Zenon DEF r, d, a, b, stay

-----------------------------------------------------------------------------
(* What the invariants of the pipeline become when frames leave it. *)

LEMMA DropsElements ==
  ASSUME NEW q, NEW r, NEW f, NEW open, NEW cut, Drops(q, r, f, open, cut)
  PROVE  ToSet(r) \subseteq ToSet(q) /\ Passed(q, r, f) \subseteq ToSet(q)
BY DEF Drops, Passed, ToSet

\* Text that stands stood before, and nothing that stands comes after a passed frame
\* after which nothing stood.
LEMMA DropsStand ==
  ASSUME NEW q \in Seq(DownFrames), NEW r \in Seq(DownFrames), NEW f, NEW open, NEW cut,
         Drops(q, r, f, open, cut), NEW i \in DOMAIN r, Stands(r, i)
  PROVE  f[i] \in DOMAIN q /\ Stands(q, f[i]) /\ r[i] = q[f[i]]
<1>1. f[i] \in DOMAIN q /\ r[i] = q[f[i]] /\ IsText(q[f[i]]) /\ IsSpeech(r[i])
  BY DEF Drops, Stands, IsText, IsSpeech
<1>2. ASSUME NEW l \in DOMAIN q, IsMarker(q[l]) PROVE l < f[i]
  <2>1. CASE \E j \in DOMAIN r : f[j] = l
    <3>1. PICK j \in DOMAIN r : f[j] = l
      BY <2>1
    <3>2. IsMarker(r[j])
      BY <1>2, <3>1 DEF Drops
    <3>3. j < i
      BY <3>2 DEF Stands
    <3> QED BY <3>1, <3>3 DEF Drops
  <2>2. CASE l \notin {f[j] : j \in DOMAIN r}
    <3>1. l \in DOMAIN q \ {f[j] : j \in DOMAIN r}
      BY <2>2
    <3> QED BY <1>1, <1>2, <3>1, Zenon DEF Drops
  <2> QED BY <2>1, <2>2
<1> QED BY <1>1, <1>2 DEF Stands

\* An end that decided something between two places of q and was in front of speech that
\* is left is left too.
LEMMA EndsStay ==
  ASSUME NEW q \in Seq(DownFrames), NEW r \in Seq(DownFrames), NEW f, NEW open, NEW cut,
         Drops(q, r, f, open, cut), NEW l \in DOMAIN r, IsSpeech(r[l]),
         NEW m \in DOMAIN q, m < f[l], Ends(q[m]),
         open # {} \/ \E k \in DOMAIN r : IsSpeech(r[k]) /\ f[k] < m
  PROVE  \E j \in DOMAIN r : f[j] = m /\ j < l /\ Ends(r[j])
<1>1. /\ DOMAIN q = 1 .. Len(q) /\ Len(q) \in Nat /\ DOMAIN r = 1 .. Len(r) /\ Len(r) \in Nat
      /\ f \in [DOMAIN r -> DOMAIN q]
  BY LenProperties DEF Drops
<1>2. m \in {f[j] : j \in DOMAIN r}
  <2> SUFFICES ASSUME m \in DOMAIN q \ {f[j] : j \in DOMAIN r} PROVE FALSE
    OBVIOUS
  <2>1. \/ /\ \A i \in DOMAIN r : IsSpeech(r[i]) => m < f[i]
           /\ Ends(q[m]) => open = {}
        \/ \A i \in DOMAIN r : IsSpeech(r[i]) => f[i] < m
    BY Zenon DEF Drops
  <2>2. \A i \in DOMAIN r : f[i] \in Nat
    BY <1>1
  <2> QED BY <1>1, <2>1, <2>2
<1>3. PICK j \in DOMAIN r : f[j] = m
  BY <1>2
<1>4. Ends(r[j])
  BY <1>3 DEF Drops
<1>5. j < l
  <2>1. ~(l < j) /\ l # j
    <3>1. f[l] \in Nat /\ f[j] \in Nat /\ f[j] < f[l]
      BY <1>1, <1>3
    <3>2. l < j => f[l] < f[j]
      BY DEF Drops
    <3> QED BY <3>1, <3>2
  <2> QED BY <1>1, <2>1
<1> QED BY <1>3, <1>4, <1>5

\* The sentence that is open grows by what was taken from the front, if it was text.
Grown(q, r, f, open, more) ==
  \A o \in more : o \in open \/ \E x \in Passed(q, r, f) : IsText(x) /\ x.out = o

LEMMA DropsApart ==
  ASSUME NEW q \in Seq(DownFrames), NEW r \in Seq(DownFrames), NEW f,
         NEW open, NEW cut, NEW more, NEW newly, cut \subseteq newly,
         Drops(q, r, f, more, newly), Grown(q, r, f, open, more), Apart(q, open, cut)
  PROVE  Apart(r, more, newly)
<1>1. /\ DOMAIN q = 1 .. Len(q) /\ Len(q) \in Nat /\ DOMAIN r = 1 .. Len(r) /\ Len(r) \in Nat
      /\ f \in [DOMAIN r -> DOMAIN q]
      /\ \A i \in DOMAIN r : f[i] \in DOMAIN q /\ r[i] = q[f[i]]
      /\ \A i, j \in DOMAIN r : i < j => f[i] < f[j]
  BY LenProperties DEF Drops
<1>2. ASSUME NEW o \in more \ newly, NEW l \in DOMAIN r, IsSpeech(r[l]), r[l].out # o
      PROVE  \E j \in DOMAIN r : j < l /\ Ends(r[j])
  <2>1. \E m \in DOMAIN q : m < f[l] /\ Ends(q[m])
    <3>1. IsSpeech(q[f[l]]) /\ q[f[l]].out # o /\ f[l] \in DOMAIN q /\ o \notin cut
      BY <1>1, <1>2
    <3>2. CASE o \in open
      BY <3>1, <3>2 DEF Apart
    <3>3. CASE \E x \in Passed(q, r, f) : IsText(x) /\ x.out = o
      <4>1. PICK n \in DOMAIN q : (\A i \in DOMAIN r : n < f[i]) /\ IsText(q[n]) /\ q[n].out = o
        BY <3>3 DEF Passed
      <4>2. n < f[l] /\ q[n].out \notin cut /\ q[f[l]].out # q[n].out
        BY <3>1, <4>1
      <4>3. \E m \in DOMAIN q : n < m /\ m < f[l] /\ Ends(q[m])
        BY <3>1, <4>1, <4>2 DEF Apart
      <4> QED BY <4>3
    <3> QED BY <1>2, <3>2, <3>3 DEF Grown
  <2>2. PICK m \in DOMAIN q : m < f[l] /\ Ends(q[m])
    BY <2>1
  <2>3. more # {}
    BY <1>2
  <2> QED BY <1>2, <2>2, <2>3, EndsStay
<1>3. ASSUME NEW k \in DOMAIN r, NEW l \in DOMAIN r, k < l, IsText(r[k]), r[k].out \notin newly,
             IsSpeech(r[l]), r[l].out # r[k].out
      PROVE  \E j \in DOMAIN r : k < j /\ j < l /\ Ends(r[j])
  <2>1. PICK m \in DOMAIN q : f[k] < m /\ m < f[l] /\ Ends(q[m])
    <3>1. /\ f[k] \in DOMAIN q /\ f[l] \in DOMAIN q /\ f[k] < f[l] /\ IsText(q[f[k]])
          /\ q[f[k]].out \notin cut /\ IsSpeech(q[f[l]]) /\ q[f[l]].out # q[f[k]].out
      BY <1>1, <1>3
    <3> QED BY <3>1 DEF Apart
  <2>2. IsSpeech(r[k])
    BY <1>3 DEF IsText, IsSpeech
  <2>3. PICK j \in DOMAIN r : f[j] = m /\ j < l /\ Ends(r[j])
    BY <1>3, <2>1, <2>2, EndsStay
  <2>4. k < j
    <3>1. f[k] \in Nat /\ f[j] \in Nat /\ f[k] < f[j]
      BY <1>1, <2>1, <2>3
    <3>2. j < k => f[j] < f[k]
      BY <1>1
    <3> QED BY <1>1, <3>1, <3>2
  <2> QED BY <2>3, <2>4
<1> QED BY <1>2, <1>3, Zenon DEF Apart

\* An end that is gone although it decided something is that of a response cut short.
LEMMA DroppedEnd ==
  ASSUME NEW q \in Seq(DownFrames), NEW r \in Seq(DownFrames), NEW f, NEW open, NEW cut,
         Drops(q, r, f, open, cut), NEW m \in DOMAIN q, m \notin {f[i] : i \in DOMAIN r}, Ends(q[m]),
         open # {} \/ \E k \in DOMAIN r : IsSpeech(r[k]) /\ f[k] < m
  PROVE  IsSpeech(q[m]) /\ q[m].out \in cut
<1>1. \/ /\ \A i \in DOMAIN r : IsSpeech(r[i]) => m < f[i]
         /\ Ends(q[m]) => open = {}
      \/ ~IsMarker(q[m]) /\ q[m].out \in cut
  <2>1. m \in DOMAIN q \ {f[i] : i \in DOMAIN r}
    OBVIOUS
  <2> QED BY <2>1, Zenon DEF Drops
<1>2. m \in Nat /\ \A i \in DOMAIN r : f[i] \in Nat
  BY LenProperties DEF Drops
<1>3. ~IsMarker(q[m]) /\ q[m].out \in cut
  BY <1>1, <1>2
<1> QED BY <1>3 DEF Ends, IsMarker, IsSpeech

LEMMA DropsUnended ==
  ASSUME NEW q \in Seq(DownFrames), NEW r \in Seq(DownFrames), NEW f,
         NEW open, NEW cut, NEW more, NEW newly, NEW outs, cut \subseteq newly,
         Drops(q, r, f, more, newly), Grown(q, r, f, open, more),
         Apart(q, open, cut), Unended(q, open, cut, outs)
  PROVE  Unended(r, more, newly, outs)
<1>1. /\ DOMAIN q = 1 .. Len(q) /\ Len(q) \in Nat /\ DOMAIN r = 1 .. Len(r) /\ Len(r) \in Nat
      /\ f \in [DOMAIN r -> DOMAIN q]
      /\ \A i \in DOMAIN r : f[i] \in DOMAIN q /\ r[i] = q[f[i]]
      /\ \A i, j \in DOMAIN r : i < j => f[i] < f[j]
  BY LenProperties DEF Drops
<1>2. ASSUME NEW o \in more \ newly, \A j \in DOMAIN r : ~Ends(r[j]) PROVE o \in outs
  <2>1. ASSUME NEW m \in DOMAIN q, Ends(q[m]) PROVE IsSpeech(q[m]) /\ q[m].out # o
    <3>1. m \notin {f[i] : i \in DOMAIN r}
      BY <1>1, <1>2, <2>1
    <3> QED BY <1>2, <2>1, <3>1, DroppedEnd
  <2>2. CASE o \in open
    <3>1. \A m \in DOMAIN q : ~Ends(q[m])
      <4> DEFINE T == {m \in DOMAIN q : Ends(q[m])}
      <4> SUFFICES ASSUME T # {} PROVE FALSE
        OBVIOUS
      <4>1. T \in SUBSET Nat
        BY <1>1
      <4>2. PICK m \in T : \A l \in T : m <= l
        BY <4>1, LeastNatural
      <4>3. \E l \in DOMAIN q : l < m /\ Ends(q[l])
        BY <1>2, <2>1, <2>2, <4>2 DEF Apart
      <4> QED BY <1>1, <4>2, <4>3
    <3> QED BY <1>2, <2>2, <3>1 DEF Unended
  <2>3. CASE \E x \in Passed(q, r, f) : IsText(x) /\ x.out = o
    <3>1. PICK n \in DOMAIN q : IsText(q[n]) /\ q[n].out = o
      BY <2>3 DEF Passed
    <3>2. \A m \in DOMAIN q : n < m => ~Ends(q[m])
      <4> DEFINE T == {m \in DOMAIN q : n < m /\ Ends(q[m])}
      <4> SUFFICES ASSUME T # {} PROVE FALSE
        OBVIOUS
      <4>1. T \in SUBSET Nat
        BY <1>1
      <4>2. PICK m \in T : \A l \in T : m <= l
        BY <4>1, LeastNatural
      <4>3. IsSpeech(q[m]) /\ q[m].out # q[n].out /\ q[n].out \notin cut /\ n < m /\ m \in DOMAIN q
        BY <1>2, <2>1, <3>1, <4>2
      <4>4. \E l \in DOMAIN q : n < l /\ l < m /\ Ends(q[l])
        BY <3>1, <4>3 DEF Apart
      <4> QED BY <1>1, <4>2, <4>4
    <3> QED BY <1>2, <3>1, <3>2 DEF Unended
  <2> QED BY <1>2, <2>2, <2>3 DEF Grown
<1>3. ASSUME NEW k \in DOMAIN r, IsText(r[k]), r[k].out \notin newly,
             \A j \in DOMAIN r : k < j => ~Ends(r[j])
      PROVE r[k].out \in outs
  <2> DEFINE n == f[k]
  <2>1. n \in DOMAIN q /\ r[k] = q[n] /\ IsSpeech(r[k])
    BY <1>1, <1>3 DEF IsText, IsSpeech
  <2>2. ASSUME NEW m \in DOMAIN q, n < m, Ends(q[m]) PROVE IsSpeech(q[m]) /\ q[m].out # q[n].out
    <3>1. ASSUME NEW i \in DOMAIN r, f[i] = m PROVE FALSE
      <4>1. Ends(r[i])
        BY <1>1, <2>2, <3>1
      <4>2. i < k => f[i] < f[k]
        BY <1>1
      <4>3. f[i] \in Nat /\ f[k] \in Nat /\ f[k] < f[i]
        BY <1>1, <2>2, <3>1
      <4>4. k < i
        BY <1>1, <4>2, <4>3
      <4> QED BY <1>3, <4>1, <4>4
    <3> QED BY <1>3, <2>1, <2>2, <3>1, DroppedEnd
  <2> HIDE DEF n
  <2>3. \A m \in DOMAIN q : n < m => ~Ends(q[m])
    <3> DEFINE T == {m \in DOMAIN q : n < m /\ Ends(q[m])}
    <3> SUFFICES ASSUME T # {} PROVE FALSE
      OBVIOUS
    <3>1. T \in SUBSET Nat
      BY <1>1
    <3>2. PICK m \in T : \A l \in T : m <= l
      BY <3>1, LeastNatural
    <3>3. IsSpeech(q[m]) /\ q[m].out # q[n].out /\ q[n].out \notin cut /\ n < m /\ m \in DOMAIN q
      BY <1>3, <2>1, <2>2, <3>2
    <3>4. \E l \in DOMAIN q : n < l /\ l < m /\ Ends(q[l])
      BY <1>3, <2>1, <3>3 DEF Apart
    <3> QED BY <1>1, <3>2, <3>4
  <2> QED BY <1>3, <2>1, <2>3 DEF Unended
<1> QED BY <1>2, <1>3, Zenon DEF Unended

-----------------------------------------------------------------------------
(* What they become when a frame is pushed. *)

LEMMA PushedFrame ==
  ASSUME NEW q \in Seq(DownFrames), NEW x \in DownFrames
  PROVE  /\ Append(q, x) \in Seq(DownFrames) /\ Len(q) \in Nat
         /\ DOMAIN Append(q, x) = 1 .. Len(q) + 1 /\ DOMAIN q = 1 .. Len(q)
         /\ \A i \in DOMAIN q : i \in DOMAIN Append(q, x) /\ Append(q, x)[i] = q[i] /\ i < Len(q) + 1
         /\ Append(q, x)[Len(q) + 1] = x
         /\ \A i \in DOMAIN Append(q, x) : i \in DOMAIN q \/ i = Len(q) + 1
         /\ ToSet(Append(q, x)) = ToSet(q) \cup {x}
BY AppendProperties, LenProperties, AppendQueue

LEMMA PushStands ==
  ASSUME NEW q \in Seq(DownFrames), NEW x \in DownFrames, NEW k \in DOMAIN Append(q, x),
         Stands(Append(q, x), k)
  PROVE  ~IsMarker(x) /\ (IF k \in DOMAIN q THEN Stands(q, k) ELSE k = Len(q) + 1 /\ IsText(x))
<1> DEFINE r == Append(q, x)
<1>1. /\ Len(q) \in Nat /\ DOMAIN r = 1 .. Len(q) + 1 /\ DOMAIN q = 1 .. Len(q)
      /\ \A i \in DOMAIN q : i \in DOMAIN r /\ r[i] = q[i]
      /\ r[Len(q) + 1] = x
  BY PushedFrame
<1> HIDE DEF r
<1>2. IsText(r[k]) /\ \A l \in DOMAIN r : IsMarker(r[l]) => l < k
  BY DEF r, Stands
<1>3. ~IsMarker(x)
  BY <1>1, <1>2 DEF r
<1> QED BY <1>1, <1>2, <1>3 DEF Stands, r

\* Text behind text that may go on: nothing is put together from two outputs.
LEMMA PushApart ==
  ASSUME NEW q \in Seq(DownFrames), NEW x \in DownFrames, NEW open, NEW cut, NEW outs,
         Apart(q, open, cut), Unended(q, open, cut, outs), IsSpeech(x) => outs \subseteq {x.out}
  PROVE  Apart(Append(q, x), open, cut)
<1> DEFINE r == Append(q, x)
           n == Len(q) + 1
<1>1. /\ n \in Nat /\ DOMAIN r = 1 .. n /\ DOMAIN q = 1 .. n - 1
      /\ \A i \in DOMAIN q : i \in DOMAIN r /\ r[i] = q[i] /\ i < n
      /\ r[n] = x /\ n \in DOMAIN r
      /\ \A i \in DOMAIN r : i \in DOMAIN q \/ i = n
  BY PushedFrame
<1> HIDE DEF r, n
<1>2. ASSUME NEW o \in open \ cut, NEW l \in DOMAIN r, IsSpeech(r[l]), r[l].out # o
      PROVE  \E m \in DOMAIN r : m < l /\ Ends(r[m])
  <2>1. CASE l \in DOMAIN q
    <3>1. \E m \in DOMAIN q : m < l /\ Ends(q[m])
      BY <1>1, <1>2, <2>1 DEF Apart
    <3> QED BY <1>1, <3>1
  <2>2. CASE l = n
    <3>1. o \notin outs
      BY <1>1, <1>2, <2>2
    <3>2. \E m \in DOMAIN q : Ends(q[m])
      BY <1>2, <3>1 DEF Unended
    <3> QED BY <1>1, <2>2, <3>2
  <2> QED BY <1>1, <2>1, <2>2
<1>3. ASSUME NEW k \in DOMAIN r, NEW l \in DOMAIN r, k < l, IsText(r[k]), r[k].out \notin cut,
             IsSpeech(r[l]), r[l].out # r[k].out
      PROVE  \E m \in DOMAIN r : k < m /\ m < l /\ Ends(r[m])
  <2>1. k \in DOMAIN q /\ r[k] = q[k]
    BY <1>1, <1>3
  <2>2. CASE l \in DOMAIN q
    <3>1. \E m \in DOMAIN q : k < m /\ m < l /\ Ends(q[m])
      BY <1>1, <1>3, <2>1, <2>2 DEF Apart
    <3> QED BY <1>1, <3>1
  <2>3. CASE l = n
    <3>1. q[k].out \notin outs
      BY <1>1, <1>3, <2>1, <2>3
    <3>2. \E m \in DOMAIN q : k < m /\ Ends(q[m])
      BY <1>3, <2>1, <3>1 DEF Unended
    <3> QED BY <1>1, <2>3, <3>2
  <2> QED BY <1>1, <2>2, <2>3
<1>4. Apart(r, open, cut)
  BY <1>2, <1>3, Zenon DEF Apart
<1> QED BY <1>4 DEF r

\* Behind an end, nothing goes on; behind text, its output may.
LEMMA PushUnended ==
  ASSUME NEW q \in Seq(DownFrames), NEW x \in DownFrames, NEW open, NEW cut, NEW outs, NEW now,
         Unended(q, open, cut, outs),
         Ends(x) \/ (outs \subseteq now /\ (IsText(x) => x.out \in now))
  PROVE  Unended(Append(q, x), open, cut, now)
<1> DEFINE r == Append(q, x)
           n == Len(q) + 1
<1>1. /\ n \in Nat /\ DOMAIN r = 1 .. n /\ DOMAIN q = 1 .. n - 1
      /\ \A i \in DOMAIN q : i \in DOMAIN r /\ r[i] = q[i] /\ i < n
      /\ r[n] = x /\ n \in DOMAIN r
      /\ \A i \in DOMAIN r : i \in DOMAIN q \/ i = n
  BY PushedFrame
<1> HIDE DEF r, n
<1>2. ASSUME NEW o \in open \ cut, \A m \in DOMAIN r : ~Ends(r[m]) PROVE o \in now
  <2>1. ~Ends(x) /\ \A m \in DOMAIN q : ~Ends(q[m])
    BY <1>1, <1>2
  <2> QED BY <1>2, <2>1 DEF Unended
<1>3. ASSUME NEW k \in DOMAIN r, IsText(r[k]), r[k].out \notin cut,
             \A m \in DOMAIN r : k < m => ~Ends(r[m])
      PROVE r[k].out \in now
  <2>1. CASE k \in DOMAIN q
    <3>1. ~Ends(x) /\ \A m \in DOMAIN q : k < m => ~Ends(q[m])
      BY <1>1, <1>3, <2>1
    <3> QED BY <1>1, <1>3, <2>1, <3>1 DEF Unended
  <2>2. CASE k = n
    BY <1>1, <1>3, <2>2 DEF IsText, Ends
  <2> QED BY <1>1, <2>1, <2>2
<1>4. Unended(r, open, cut, now)
  BY <1>2, <1>3, Zenon DEF Unended
<1> QED BY <1>4 DEF r

-----------------------------------------------------------------------------
(* The steps of the pipeline. *)

\* What a step of the pipeline does: frames leave, the floor is not touched, and a done
\* marker goes upstream only from the front.
Flow ==
  /\ Good(io, submitted)' /\ Rest'
  /\ io'.floor = io.floor /\ io'.played = io.played /\ clipped \subseteq clipped'
  /\ \E f : /\ Drops(io.pipe, io'.pipe, f, frag', clipped')
            /\ Grown(io.pipe, io'.pipe, f, frag, frag')
            /\ \A g \in ToSet(up') :
                 g.kind = "done" => g \in ToSet(up) \cup Passed(io.pipe, io'.pipe, f)

LEMMA Announce ==
  ASSUME Rest, NEW kind \in {"started", "stopped"}
  PROVE  /\ Append(up, Frame(kind, {})) \in Seq(UpFrames)
         /\ \A g \in ToSet(Append(up, Frame(kind, {}))) : g.kind = "done" => g \in ToSet(up)
<1>1. Frame(kind, {}) \in UpFrames /\ Frame(kind, {}).kind # "done"
  BY DEF Frame, UpFrames, FramesOf
<1>2. up \in Seq(UpFrames)
  BY DEF Rest
<1> QED BY <1>1, <1>2, AppendQueue

LEMMA Taken ==
  ASSUME IInv, io.pipe # <<>>, Pop, Ends(Head(io.pipe)) => frag' = {}, clipped' = clipped
  PROVE  /\ Good(io', submitted) /\ io'.floor = io.floor /\ io'.played = io.played
         /\ Head(io.pipe) \in DownFrames
         /\ \E f : /\ Drops(io.pipe, io'.pipe, f, frag', clipped')
                   /\ Head(io.pipe) \in Passed(io.pipe, io'.pipe, f)
<1> DEFINE q == io.pipe
           r == Tail(q)
<1>1. q \in Seq(DownFrames) /\ Good(io, submitted)
  BY DEF IInv, Good, Coherent, Entries
<1>2. /\ r \in Seq(DownFrames) /\ Head(q) \in DownFrames
      /\ \E f : Drops(q, r, f, frag', clipped') /\ Head(q) \in Passed(q, r, f)
  <2>1. Head(q) \in DownFrames
    BY <1>1, HeadTailProperties
  <2> HIDE DEF q
  <2>2. q # <<>> /\ (Ends(Head(q)) => frag' = {})
    BY DEF q
  <2> QED BY <1>1, <2>1, <2>2, TailDrops
<1>3. io' = [io EXCEPT !.pipe = r]
  BY <1>1 DEF Pop, Good, Coherent, Entries
<1> HIDE DEF r
<1> DEFINE t == [io EXCEPT !.pipe = r]
<1>4. Good(t, submitted) /\ t.pipe = r /\ t.floor = io.floor /\ t.played = io.played
  BY <1>1, <1>2, PipeGood, Zenon
<1> HIDE DEF t
<1>5. io' = t
  BY <1>3 DEF t
<1> QED BY <1>2, <1>4, <1>5

LEMMA FlowSteps ==
  ASSUME IInv, Downstream \/ FallSilent \/ CutArrives \/ OtherInterruption
  PROVE  Flow
<1> DEFINE q == io.pipe
<1>a. Good(io, submitted) /\ Rest /\ io \in Entries /\ q \in Seq(DownFrames)
  BY DEF IInv, Good, Coherent, Entries
<1>1. CASE Buffer
  <2>1. /\ q # <<>> /\ Head(q).kind = "text" /\ frag' = frag \cup {Head(q).out} /\ Pop
        /\ UNCHANGED <<resuming, botOn, up, submitted, events, clipped>>
    BY <1>1 DEF Buffer
  <2>2. ~Ends(Head(q)) /\ IsText(Head(q))
    BY <2>1 DEF Ends, IsText
  <2>3. /\ Good(io', submitted) /\ io'.floor = io.floor /\ io'.played = io.played
        /\ Head(q) \in DownFrames
    BY <2>1, <2>2, Taken
  <2>4. PICK f : Drops(q, io'.pipe, f, frag', clipped') /\ Head(q) \in Passed(q, io'.pipe, f)
    BY <2>1, <2>2, Taken
  <2>5. frag' \subseteq SUBSET Items
    BY <1>a, <2>1, <2>3 DEF Rest, DownFrames, FramesOf
  <2>6. Rest'
    BY <1>a, <2>1, <2>5 DEF Rest, Inputs
  <2>7. Grown(q, io'.pipe, f, frag, frag')
    BY <2>1, <2>2, <2>4 DEF Grown
  <2> QED BY <2>1, <2>3, <2>4, <2>6, <2>7 DEF Flow
<1>s. ASSUME Sound PROVE up' \in Seq(UpFrames) /\ botOn' \in BOOLEAN
                         /\ \A g \in ToSet(up') : g.kind = "done" => g \in ToSet(up)
  BY <1>a, <1>s, Announce DEF Sound, Rest
<1>2. CASE Sentence \/ EndOfResponse
  <2>1. /\ q # <<>> /\ Head(q).kind \in {"sentence", "end"} /\ frag' = {} /\ Pop
        /\ UNCHANGED <<resuming, submitted, events, clipped>>
        /\ Sound \/ UNCHANGED <<botOn, up>>
    BY <1>2 DEF Sentence, EndOfResponse
  <2>2. up' \in Seq(UpFrames) /\ botOn' \in BOOLEAN /\ \A g \in ToSet(up') : g.kind = "done" => g \in ToSet(up)
    BY <1>a, <1>s, <2>1 DEF Rest
  <2>3. Good(io', submitted) /\ io'.floor = io.floor /\ io'.played = io.played
    BY <2>1, Taken
  <2>4. PICK f : Drops(q, io'.pipe, f, frag', clipped')
    BY <2>1, Taken
  <2>5. Rest'
    BY <1>a, <2>1, <2>2 DEF Rest, Inputs
  <2>6. Grown(q, io'.pipe, f, frag, frag')
    BY <2>1 DEF Grown
  <2> QED BY <2>1, <2>2, <2>3, <2>4, <2>5, <2>6 DEF Flow
<1>3. CASE ReturnDone
  <2>1. /\ q # <<>> /\ Head(q).kind = "done" /\ up' = Append(up, Head(q)) /\ Pop
        /\ UNCHANGED <<resuming, frag, botOn, submitted, events, clipped>>
    BY <1>3 DEF ReturnDone
  <2>2. ~Ends(Head(q))
    BY <2>1 DEF Ends
  <2>3. /\ Good(io', submitted) /\ io'.floor = io.floor /\ io'.played = io.played
        /\ Head(q) \in DownFrames
    BY <2>1, <2>2, Taken
  <2>4. PICK f : Drops(q, io'.pipe, f, frag', clipped') /\ Head(q) \in Passed(q, io'.pipe, f)
    BY <2>1, <2>2, Taken
  <2>5. up' \in Seq(UpFrames) /\ ToSet(up') = ToSet(up) \cup {Head(q)}
    <3>1. Head(q) \in UpFrames /\ up \in Seq(UpFrames)
      BY <1>a, <2>1, <2>3 DEF UpFrames, DownFrames, FramesOf, Rest
    <3> HIDE DEF q
    <3>2. up' = Append(up, Head(q))
      BY <2>1
    <3> QED BY <3>1, <3>2, AppendQueue
  <2>6. Rest'
    BY <1>a, <2>1, <2>5 DEF Rest, Inputs
  <2>7. Grown(q, io'.pipe, f, frag, frag')
    BY <2>1 DEF Grown
  <2> QED BY <2>1, <2>3, <2>4, <2>5, <2>6, <2>7 DEF Flow
<1>4. CASE FallSilent
  <2>1. /\ botOn' = FALSE /\ up' = Append(up, Frame("stopped", {}))
        /\ UNCHANGED <<io, resuming, frag, submitted, events, clipped>>
    BY <1>4 DEF FallSilent
  <2>2. up' \in Seq(UpFrames) /\ \A g \in ToSet(up') : g.kind = "done" => g \in ToSet(up)
    BY <1>a, <2>1, Announce
  <2>3. PICK f : Drops(q, q, f, frag', clipped')
    BY SameDrops
  <2>4. Rest'
    BY <1>a, <2>1, <2>2 DEF Rest, Inputs
  <2>5. Grown(q, q, f, frag, frag')
    BY <2>1 DEF Grown
  <2> QED BY <1>a, <2>1, <2>2, <2>3, <2>4, <2>5 DEF Flow
<1>5. CASE CutArrives
  <2> DEFINE k == CHOOSE k \in Markers : \A l \in Markers : k <= l
  <2>1. /\ Markers # {} /\ \E keep \in BOOLEAN : DropUpTo(k, keep)
        /\ up' = Append(up, Frame("stopped", {})) \/ up' = up
        /\ botOn' = FALSE /\ frag' = {}
        /\ UNCHANGED <<resuming, submitted, events, clipped>>
    BY <1>5 DEF CutArrives
  <2>2. k \in DOMAIN q
    <3>1. Markers \in SUBSET Nat
      BY <1>a, LenProperties DEF Markers
    <3>2. \E n \in Markers : \A l \in Markers : n <= l
      BY <2>1, <3>1, LeastNatural
    <3>3. k \in Markers
      BY <3>2
    <3> QED BY <3>3 DEF Markers
  <2> HIDE DEF k
  <2>3. PICK keep \in BOOLEAN : DropUpTo(k, keep)
    BY <2>1
  <2> DEFINE r == (IF keep THEN Only(SubSeq(q, 1, k), FramesOf({"done"})) ELSE <<>>)
                    \o SubSeq(q, k + 1, Len(q))
             t == [io EXCEPT !.pipe = r]
  <2>4. io' = t
    BY <1>a, <2>3 DEF DropUpTo, Entries
  <2>5. r \in Seq(DownFrames) /\ \E f : Drops(q, r, f, {}, clipped')
    <3> HIDE DEF q
    <3>1. q \in Seq(DownFrames) /\ k \in DOMAIN q /\ keep \in BOOLEAN
      BY <1>a, <2>2
    <3> QED BY <3>1, CutDrops, Zenon
  <2> HIDE DEF r
  <2>6. Good(t, submitted) /\ t.pipe = r /\ t.floor = io.floor /\ t.played = io.played
    BY <1>a, <2>5, PipeGood, Zenon
  <2> HIDE DEF t
  <2>7. PICK f : Drops(q, io'.pipe, f, frag', clipped')
    BY <2>1, <2>4, <2>5, <2>6
  <2>8. up' \in Seq(UpFrames) /\ \A g \in ToSet(up') : g.kind = "done" => g \in ToSet(up)
    BY <1>a, <2>1, Announce DEF Rest
  <2>9. Rest'
    BY <1>a, <2>1, <2>8 DEF Rest, Inputs
  <2>10. Grown(q, io'.pipe, f, frag, frag')
    BY <2>1 DEF Grown
  <2> QED BY <2>1, <2>4, <2>6, <2>7, <2>8, <2>9, <2>10 DEF Flow
<1>6. CASE OtherInterruption
  <2> DEFINE stay == FramesOf({"done", "cut", "left"})
  <2>1. PICK k \in 1 .. Len(q) :
          /\ io' = [io EXCEPT !.pipe = SubSeq(@, 1, k - 1) \o Only(SubSeq(q, k, Len(q)), stay)]
          /\ clipped' = clipped \cup {f.out : f \in ToSet(SubSeq(q, k, Len(q))) \ stay}
    BY <1>6 DEF OtherInterruption
  <2> DEFINE r == SubSeq(q, 1, k - 1) \o Only(SubSeq(q, k, Len(q)), stay)
             t == [io EXCEPT !.pipe = r]
             outs == {f.out : f \in ToSet(SubSeq(q, k, Len(q))) \ stay}
  <2>2. Event /\ UNCHANGED <<resuming, frag, botOn, up, submitted>>
    BY <1>6 DEF OtherInterruption
  <2>3. io' = t
    BY <1>a, <2>1 DEF Entries
  <2>4. r \in Seq(DownFrames) /\ \E f : Drops(q, r, f, frag', clipped')
    <3>1. outs \subseteq clipped'
      BY <2>1
    <3> HIDE DEF q
    <3>2. q \in Seq(DownFrames) /\ k \in 1 .. Len(q)
      BY <1>a
    <3> QED BY <3>1, <3>2, LateDrops, Zenon
  <2>5. outs \subseteq SUBSET Items
    <3>1. SubSeq(q, k, Len(q)) \in Seq(DownFrames)
      <4>1. k \in Int /\ Len(q) \in Int /\ \A i \in k .. Len(q) : q[i] \in DownFrames
        BY <1>a, LenProperties, ElementOfSeq
      <4> HIDE DEF q
      <4> QED BY <1>a, <4>1, SubSeqProperties, LenProperties
    <3>2. ToSet(SubSeq(q, k, Len(q))) \subseteq DownFrames
      <4> DEFINE b == SubSeq(q, k, Len(q))
      <4> HIDE DEF b
      <4>1. b \in Seq(DownFrames)
        BY <3>1 DEF b
      <4>2. ToSet(b) \subseteq DownFrames
        BY <4>1, ElementOfSeq, LenProperties DEF ToSet
      <4> QED BY <4>2 DEF b
    <3> HIDE DEF stay
    <3> QED BY <3>2 DEF DownFrames, FramesOf
  <2> HIDE DEF r
  <2>6. Good(t, submitted) /\ t.pipe = r /\ t.floor = io.floor /\ t.played = io.played
    BY <1>a, <2>4, PipeGood, Zenon
  <2> HIDE DEF t
  <2>7. PICK f : Drops(q, io'.pipe, f, frag', clipped')
    BY <2>3, <2>4, <2>6
  <2>8. clipped' = clipped \cup outs
    BY <2>1
  <2> HIDE DEF outs, stay
  <2>9. Rest'
    <3>1. Inputs' <= MaxInputs /\ events' \in Nat
      BY <1>a, <2>2, EventFits
    <3>2. clipped' \subseteq SUBSET Items
      BY <1>a, <2>5, <2>8 DEF Rest
    <3> QED BY <1>a, <2>2, <3>1, <3>2 DEF Rest
  <2>10. Grown(q, io'.pipe, f, frag, frag')
    BY <2>2 DEF Grown
  <2>11. \A g \in ToSet(up') : g.kind = "done" => g \in ToSet(up)
    BY <2>2
  <2> QED BY <2>2, <2>3, <2>6, <2>7, <2>8, <2>9, <2>10, <2>11 DEF Flow
<1> QED BY <1>1, <1>2, <1>3, <1>4, <1>5, <1>6 DEF Downstream

\* A marker that comes back names the output on the floor only if that was heard, so
\* what was selected meanwhile is not released by the marker of an earlier output.
LEMMA OutputDoneStep ==
  ASSUME IInv, OutputDone
  PROVE  /\ Good(io, submitted)' /\ Rest' /\ UNCHANGED <<frag, clipped>>
         /\ io'.pipe = io.pipe /\ io'.played = io.played /\ ToSet(up') \subseteq ToSet(up)
         /\ \/ io'.floor = io.floor
            \/ /\ io'.floor.phase \in {"free", "preparing"}
               /\ \E g \in ToSet(up) : g.kind = "done" /\ g.out = io.floor.items
<1>1. /\ Good(io, submitted) /\ Rest /\ up \in Seq(UpFrames) /\ up # <<>> /\ Head(up).kind = "done"
      /\ up' = Tail(up) /\ UNCHANGED <<resuming, frag, botOn, submitted, events, clipped>>
  BY DEF IInv, Rest, OutputDone
<1>2. up' \in Seq(UpFrames) /\ ToSet(up') \subseteq ToSet(up) /\ Head(up) \in ToSet(up)
  BY <1>1, TailQueue
<1>3. Rest'
  BY <1>1, <1>2 DEF Rest, Inputs
<1>4. CASE Head(up).out = io.floor.items
  <2> DEFINE r == Release(io)
  <2>1. io' = StartNext(r)
    BY <1>4 DEF OutputDone
  <2>2. Unheard(io) = {}
    <3>1. io.floor.items # {} /\ io.floor.items \subseteq io.played
      BY <1>1, <1>2, <1>4 DEF IInv, MarksAreHeard
    <3>2. io.floor.phase # "preparing"
      BY <1>1, <3>1 DEF Good, Coherent, Accounted, Preparing
    <3> QED BY <3>2 DEF Unheard
  <2>3. Coherent(r, submitted) /\ r.floor.phase = "free"
    BY <1>1, <2>2, ReleaseCoherent DEF Good
  <2>4. /\ r.replies = io.replies /\ r.superseded = io.superseded /\ r.pipe = io.pipe
        /\ r.played = io.played /\ r.floor = Free
    BY <1>1 DEF Release, Good, Coherent, Entries
  <2> HIDE DEF r
  <2>5. Good(r, submitted)
    BY <1>1, <2>3, <2>4, FreeFloor DEF Good, Silent
  <2>6. /\ Good(io', submitted) /\ io'.pipe = r.pipe /\ io'.played = r.played
        /\ io'.floor.phase \in {"free", "preparing"}
    BY <2>1, <2>4, <2>5, StartNextGood
  <2> QED BY <1>1, <1>2, <1>3, <1>4, <2>4, <2>6
<1>5. CASE Head(up).out # io.floor.items
  <2>1. io' = io
    BY <1>5 DEF OutputDone
  <2> QED BY <1>1, <1>2, <1>3, <2>1
<1> QED BY <1>4, <1>5

-----------------------------------------------------------------------------
(* Every step keeps what the entry promises. *)

\* What the task may do to the floor and the pipeline (TaskSteps).
Spoken(s, t) ==
  LET I == s.floor.items
  IN \/ Handled(s, t)
     \/ /\ s.floor.phase = "preparing" /\ t.floor.phase = "ended"
        /\ t.floor.items = I /\ t.played = s.played \cup I
        /\ t.pipe = Append(Append(Append(s.pipe, Frame("text", I)), Frame("end", I)), Frame("done", I))
     \/ /\ s.floor.phase \in {"preparing", "playing"} /\ t.floor.phase = "playing"
        /\ t.floor.items = I /\ t.played = s.played \cup I
        /\ \E kind \in {"text", "sentence"} : t.pipe = Append(s.pipe, Frame(kind, I))
     \/ /\ s.floor.phase = "preparing" /\ t.floor.phase \in {"free", "preparing"}
        /\ t.played = s.played
        /\ t.pipe = Append(s.pipe, Frame("end", I))
     \/ /\ s.floor.phase = "playing" /\ t.floor.phase = "ended"
        /\ t.floor.items = I /\ t.played = s.played
        /\ t.pipe = Append(Append(s.pipe, Frame("end", I)), Frame("done", I))
     \/ /\ s.floor.phase = "stopping" /\ t.floor.phase = "ended"
        /\ t.floor.items = I /\ t.played = s.played
        /\ t.pipe = Append(s.pipe, Frame("done", I))

\* A query that does not interrupt lets a playing output stop by itself.
Hushed(s, t) ==
  /\ t.pipe = s.pipe /\ t.played = s.played /\ t.floor.items = s.floor.items
  /\ s.floor.phase \in {"playing", "stopping", "ended"} /\ t.floor.phase \in {"stopping", "ended"}
  /\ s.floor.phase = "ended" <=> t.floor.phase = "ended"

\* A marker returned.
Settled(s, t, upward) ==
  /\ t.pipe = s.pipe /\ t.played = s.played
  /\ \/ t.floor = s.floor
     \/ /\ t.floor.phase \in {"free", "preparing"}
        /\ \E g \in ToSet(upward) : g.kind = "done" /\ g.out = s.floor.items

\* The steps by what they do to the floor and the frames.
Kinds ==
  \/ Handled(io, io') /\ frag' = frag /\ clipped \subseteq clipped' /\ ToSet(up') \subseteq ToSet(up)
  \/ Hushed(io, io') /\ UNCHANGED <<frag, up>> /\ clipped' = clipped \cup Clip(io)
  \/ Spoken(io, io') /\ UNCHANGED <<frag, up, clipped>>
  \/ Settled(io, io', up) /\ UNCHANGED <<frag, clipped>> /\ ToSet(up') \subseteq ToSet(up)
  \/ Flow

LEMMA StepKinds ==
  ASSUME IInv, Next
  PROVE  Good(io, submitted)' /\ Rest' /\ Kinds
<1>1. CASE Agents
  BY <1>1, AgentSteps DEF Input, Kinds
<1>2. CASE Interruption \/ Resume \/ UserStarted \/ UserStopped \/ ParticipantLeft \/ BotStarted \/ BotStopped
  BY <1>2, InputSteps DEF Input, Kinds
<1>3. CASE Query
  <2>1. /\ Good(io, submitted)' /\ Rest' /\ frag' = frag /\ up' = up
        /\ clipped' = clipped \cup Clip(io)
        /\ Handled(io, io') \/ Hushed(io, io')
    BY <1>3, QueryStep DEF Hushed
  <2> QED BY <2>1 DEF Kinds
<1>4. CASE Task \/ \E kind \in {"text", "sentence"} : Fragment(kind)
  <2>1. Good(io, submitted)' /\ Rest' /\ UNCHANGED <<frag, up, clipped>> /\ Spoken(io, io')
    BY <1>4, TaskSteps, Zenon DEF Spoken
  <2> QED BY <2>1 DEF Kinds
<1>5. CASE Downstream \/ FallSilent \/ CutArrives \/ OtherInterruption
  BY <1>5, FlowSteps DEF Kinds, Flow
<1>6. CASE OutputDone
  <2>1. /\ Good(io, submitted)' /\ Rest' /\ Settled(io, io', up) /\ UNCHANGED <<frag, clipped>>
        /\ ToSet(up') \subseteq ToSet(up)
    BY <1>6, OutputDoneStep, Zenon DEF Settled
  <2> QED BY <2>1 DEF Kinds
<1> QED BY <1>1, <1>2, <1>3, <1>4, <1>5, <1>6 DEF Next

\* The frames that are there after a step: those before, or pushed by it for what is heard.
LEMMA PushedFrames ==
  ASSUME IInv, Handled(io, io') \/ Spoken(io, io')
  PROVE  /\ io.played \subseteq io'.played
         /\ \A g \in ToSet(io'.pipe) :
              \/ g \in ToSet(io.pipe)
              \/ g.kind = "done" => g.out # {} /\ g.out \subseteq io'.played
<1> DEFINE I == io.floor.items
           q == io.pipe
<1>1. /\ q \in Seq(DownFrames) /\ I \subseteq Items /\ io.floor.phase \in Phases
      /\ io.floor.phase # "free" => I # {}
      /\ io.floor.phase \notin {"free", "preparing"} => I \subseteq io.played
  BY DEF IInv, Good, Coherent, Entries, Floors, Alone, Accounted
<1>2. \A kind \in {"text", "sentence", "end", "done"} :
         Frame(kind, I) \in DownFrames /\ Frame(kind, I).kind = kind /\ Frame(kind, I).out = I
  BY <1>1 DEF Frame, DownFrames, FramesOf
<1>3. \A kind \in {"cut", "left"} : Frame(kind, {}) \in DownFrames /\ Frame(kind, {}).kind = kind
  BY DEF Frame, DownFrames, FramesOf
<1> HIDE DEF q, I
<1>4. CASE Handled(io, io')
  <2>1. /\ io'.played = io.played
        /\ io'.pipe = q \/ \E kind \in {"cut", "left"} : io'.pipe = Append(q, Frame(kind, {}))
    BY <1>4 DEF Handled, q
  <2>2. CASE io'.pipe = q
    BY <2>1, <2>2 DEF q
  <2>3. ASSUME NEW kind \in {"cut", "left"}, io'.pipe = Append(q, Frame(kind, {}))
        PROVE \A g \in ToSet(io'.pipe) : g \in ToSet(q) \/ g.kind # "done"
    <3>1. ToSet(io'.pipe) = ToSet(q) \cup {Frame(kind, {})}
      BY <1>1, <1>3, <2>3, AppendQueue
    <3> QED BY <1>3, <3>1
  <2> QED BY <2>1, <2>2, <2>3 DEF q
<1>5. ASSUME NEW a, NEW b, NEW c, a \in {"text", "sentence", "end", "done"},
             b \in {"text", "sentence", "end", "done"}, c \in {"text", "sentence", "end", "done"}
      PROVE  /\ \A g \in ToSet(Append(q, Frame(a, I))) : g \in ToSet(q) \/ g.out = I
             /\ \A g \in ToSet(Append(Append(q, Frame(a, I)), Frame(b, I))) : g \in ToSet(q) \/ g.out = I
             /\ \A g \in ToSet(Append(Append(Append(q, Frame(a, I)), Frame(b, I)), Frame(c, I))) :
                  g \in ToSet(q) \/ g.out = I
  <2> DEFINE q1 == Append(q, Frame(a, I))
             q2 == Append(q1, Frame(b, I))
             q3 == Append(q2, Frame(c, I))
  <2>1. q1 \in Seq(DownFrames) /\ ToSet(q1) = ToSet(q) \cup {Frame(a, I)}
    BY <1>1, <1>2, <1>5, AppendQueue
  <2> HIDE DEF q1
  <2>2. q2 \in Seq(DownFrames) /\ ToSet(q2) = ToSet(q1) \cup {Frame(b, I)}
    BY <2>1, <1>2, <1>5, AppendQueue
  <2> HIDE DEF q2
  <2>3. q3 \in Seq(DownFrames) /\ ToSet(q3) = ToSet(q2) \cup {Frame(c, I)}
    BY <2>2, <1>2, <1>5, AppendQueue
  <2>4. /\ \A g \in ToSet(q1) : g \in ToSet(q) \/ g.out = I
        /\ \A g \in ToSet(q2) : g \in ToSet(q) \/ g.out = I
        /\ \A g \in ToSet(q3) : g \in ToSet(q) \/ g.out = I
    BY <1>2, <1>5, <2>1, <2>2, <2>3
  <2> QED BY <2>4 DEF q1, q2, q3
<1>6. CASE Spoken(io, io') /\ ~Handled(io, io')
  <2>a. \/ /\ I # {} /\ I \subseteq io'.played /\ io.played \subseteq io'.played
           /\ \/ io'.pipe = Append(Append(Append(q, Frame("text", I)), Frame("end", I)), Frame("done", I))
              \/ \E kind \in {"text", "sentence"} : io'.pipe = Append(q, Frame(kind, I))
              \/ io'.pipe = Append(Append(q, Frame("end", I)), Frame("done", I))
              \/ io'.pipe = Append(q, Frame("done", I))
        \/ io'.played = io.played /\ io'.pipe = Append(q, Frame("end", I))
    BY <1>1, <1>6 DEF Spoken, I, q
  <2>1. CASE io'.played = io.played /\ io'.pipe = Append(q, Frame("end", I))
    <3>1. ToSet(io'.pipe) = ToSet(q) \cup {Frame("end", I)}
      BY <1>1, <1>2, <2>1, AppendQueue
    <3> QED BY <1>2, <2>1, <3>1 DEF q
  <2>2. CASE /\ I # {} /\ I \subseteq io'.played /\ io.played \subseteq io'.played
             /\ \/ io'.pipe = Append(Append(Append(q, Frame("text", I)), Frame("end", I)), Frame("done", I))
                \/ \E kind \in {"text", "sentence"} : io'.pipe = Append(q, Frame(kind, I))
                \/ io'.pipe = Append(Append(q, Frame("end", I)), Frame("done", I))
                \/ io'.pipe = Append(q, Frame("done", I))
    <3>1. \A g \in ToSet(io'.pipe) : g \in ToSet(q) \/ g.out = I
      <4>1. CASE io'.pipe = Append(Append(Append(q, Frame("text", I)), Frame("end", I)), Frame("done", I))
        BY <4>1, <1>5, Zenon
      <4>2. ASSUME NEW kind \in {"text", "sentence"}, io'.pipe = Append(q, Frame(kind, I))
            PROVE  \A g \in ToSet(io'.pipe) : g \in ToSet(q) \/ g.out = I
        <5>1. kind \in {"text", "sentence", "end", "done"}
          BY <4>2
        <5> QED BY <5>1, <4>2, <1>5, Zenon
      <4>3. CASE io'.pipe = Append(Append(q, Frame("end", I)), Frame("done", I))
        BY <4>3, <1>5, Zenon
      <4>4. CASE io'.pipe = Append(q, Frame("done", I))
        BY <4>4, <1>5, Zenon
      <4> QED BY <2>2, <4>1, <4>2, <4>3, <4>4, Zenon
    <3> QED BY <2>2, <3>1 DEF q
  <2> QED BY <2>a, <2>1, <2>2
<1> QED BY <1>4, <1>6

LEMMA MarksStep ==
  ASSUME IInv, Kinds
  PROVE  MarksAreHeard(io, up)'
<1>a. MarksAreHeard(io, up)
  BY DEF IInv
<1>1. CASE (Handled(io, io') \/ Spoken(io, io')) /\ ToSet(up') \subseteq ToSet(up)
  <2>1. /\ io.played \subseteq io'.played
        /\ \A g \in ToSet(io'.pipe) :
             \/ g \in ToSet(io.pipe)
             \/ g.kind = "done" => g.out # {} /\ g.out \subseteq io'.played
    BY <1>1, PushedFrames
  <2> QED BY <1>1, <1>a, <2>1 DEF MarksAreHeard
<1>2. CASE io'.pipe = io.pipe /\ io'.played = io.played /\ ToSet(up') \subseteq ToSet(up)
  BY <1>2, <1>a DEF MarksAreHeard
<1>3. CASE Flow
  <2>1. PICK f : /\ Drops(io.pipe, io'.pipe, f, frag', clipped')
                 /\ \A g \in ToSet(up') :
                      g.kind = "done" => g \in ToSet(up) \cup Passed(io.pipe, io'.pipe, f)
    BY <1>3 DEF Flow
  <2>2. ToSet(io'.pipe) \subseteq ToSet(io.pipe) /\ Passed(io.pipe, io'.pipe, f) \subseteq ToSet(io.pipe)
    BY <2>1, DropsElements
  <2>3. io'.played = io.played
    BY <1>3 DEF Flow
  <2> QED BY <1>a, <2>1, <2>2, <2>3 DEF MarksAreHeard
<1> QED BY <1>1, <1>2, <1>3 DEF Kinds, Hushed, Settled

\* Every step keeps the invariant.
LEMMA IInvStep ==
  ASSUME IInv, [Next]_vars PROVE IInv'
<1>1. CASE Next
  BY <1>1, StepKinds, MarksStep DEF IInv
<1>2. CASE UNCHANGED vars
  BY <1>2 DEF vars, IInv, Rest, Inputs
<1> QED BY <1>1, <1>2

-----------------------------------------------------------------------------
(* Every step keeps what the frames promise. *)

\* A done marker is never that of an output that has not started.
LEMMA NoEarlyMark ==
  ASSUME NEW s, NEW sub, Coherent(s, sub), s.floor.phase \in {"free", "preparing"},
         NEW g, g.kind = "done", g.out # {}, g.out \subseteq s.played
  PROVE  g.out # s.floor.items
<1>1. s.floor.phase = "free" => s.floor.items = {}
  BY FreeIs DEF Coherent, Alone
<1>2. s.floor.phase = "preparing" => s.played \cap s.floor.items = {}
  BY DEF Coherent, Accounted, Preparing
<1> QED BY <1>1, <1>2

\* On a floor nobody speaks from, the invariant only asks that no text stands.
LEMMA NobodySpeaks ==
  ASSUME NEW s, NEW sub, NEW upward, Coherent(s, sub), MarksAreHeard(s, upward),
         s.floor.phase \in {"free", "preparing"}, \A k \in DOMAIN s.pipe : ~Stands(s.pipe, k)
  PROVE  FloorOwnsText(s, upward)
<1>1. \A g \in ToSet(s.pipe) \cup ToSet(upward) : g.kind = "done" => g.out # s.floor.items
  BY NoEarlyMark DEF MarksAreHeard
<1>2. \A k \in DOMAIN s.pipe : s.pipe[k] \in ToSet(s.pipe)
  BY DEF ToSet
<1> QED BY <1>1, <1>2 DEF FloorOwnsText

LEMMA HandledOwns ==
  ASSUME IInv, Good(io, submitted)', MarksAreHeard(io, up)', FloorOwnsText(io, up),
         Handled(io, io'), ToSet(up') \subseteq ToSet(up)
  PROVE  FloorOwnsText(io, up)'
<1> DEFINE q == io.pipe
           r == io'.pipe
<1>1. q \in Seq(DownFrames) /\ Coherent(io', submitted')
  BY DEF IInv, Good, Coherent, Entries
<1>2. CASE r = q /\ io'.floor = io.floor
  BY <1>2 DEF FloorOwnsText
<1>3. CASE r = q /\ {io.floor.phase, io'.floor.phase} \subseteq {"free", "preparing"}
  <2>1. \A k \in DOMAIN q : ~Stands(q, k)
    BY <1>3 DEF FloorOwnsText
  <2> QED BY <1>1, <1>3, <2>1, NobodySpeaks
<1>4. ASSUME NEW kind \in {"cut", "left"}, r = Append(q, Frame(kind, {})),
             io'.floor.phase \in {"free", "preparing"}
      PROVE  FloorOwnsText(io, up)'
  <2>1. Frame(kind, {}) \in DownFrames /\ IsMarker(Frame(kind, {}))
    BY DEF Frame, DownFrames, FramesOf, IsMarker
  <2> HIDE DEF q, r
  <2>2. \A k \in DOMAIN r : ~Stands(r, k)
    BY <1>1, <1>4, <2>1, PushStands
  <2> QED BY <1>1, <1>4, <2>2, NobodySpeaks DEF r
<1> QED BY <1>2, <1>3, <1>4 DEF Handled

\* The text the output on the floor speaks is its own, and its done marker comes last.
LEMMA SpokenOwns ==
  ASSUME IInv, Good(io, submitted)', MarksAreHeard(io, up)', FloorOwnsText(io, up),
         Spoken(io, io'), ~Handled(io, io'), up' = up
  PROVE  FloorOwnsText(io, up)'
<1> DEFINE q == io.pipe
           r == io'.pipe
           I == io.floor.items
<1>1. /\ q \in Seq(DownFrames) /\ I \subseteq Items /\ Coherent(io, submitted)
      /\ Coherent(io', submitted') /\ MarksAreHeard(io, up)
  BY DEF IInv, Good, Coherent, Entries, Floors
<1>2. \A kind \in {"text", "sentence", "end", "done"} :
         Frame(kind, I) \in DownFrames /\ Frame(kind, I).kind = kind /\ Frame(kind, I).out = I
  BY <1>1 DEF Frame, DownFrames, FramesOf
<1>m. /\ ~IsText(Frame("end", I)) /\ ~IsText(Frame("done", I))
      /\ \A kind \in {"text", "sentence"} : IsText(Frame(kind, I))
  BY <1>2 DEF IsText
<1>3. /\ \A k \in DOMAIN q : Stands(q, k) => q[k].out = I /\ io.floor.phase \notin {"free", "preparing"}
      /\ io.floor.phase # "ended" =>
           /\ \A k \in DOMAIN q : q[k].kind = "done" => q[k].out # I
           /\ \A g \in ToSet(up) : g.kind = "done" => g.out # I
  BY DEF FloorOwnsText
<1> HIDE DEF q, I
<1>4. CASE /\ io.floor.phase = "preparing" /\ io'.floor.phase \in {"free", "preparing"}
           /\ r = Append(q, Frame("end", I))
  <2> HIDE DEF r
  <2>1. \A k \in DOMAIN r : ~Stands(r, k)
    BY <1>1, <1>2, <1>m, <1>3, <1>4, PushStands
  <2> QED BY <1>1, <1>4, <2>1, NobodySpeaks DEF r
<1>5. ASSUME NEW kind \in {"text", "sentence"}, r = Append(q, Frame(kind, I)),
             io.floor.phase \in {"preparing", "playing"}, io'.floor.phase = "playing",
             io'.floor.items = I
      PROVE  FloorOwnsText(io, up)'
  <2> HIDE DEF r
  <2>1. \A k \in DOMAIN r : Stands(r, k) => r[k].out = I
    BY <1>1, <1>2, <1>3, <1>5, PushStands, PushedFrame
  <2>2. \A k \in DOMAIN r : r[k].kind = "done" => r[k].out # I
    BY <1>1, <1>2, <1>3, <1>5, PushedFrame
  <2>3. \A g \in ToSet(up') : g.kind = "done" => g.out # I
    BY <1>3, <1>5
  <2> QED BY <1>5, <2>1, <2>2, <2>3 DEF FloorOwnsText, r

\* p is what the done marker is pushed behind.
<1>6. ASSUME NEW p \in Seq(DownFrames), r = Append(p, Frame("done", I)),
             io'.floor.phase = "ended", io'.floor.items = I, io.floor.phase # "ended",
             \A k \in DOMAIN p : Stands(p, k) => p[k].out = I,
             \A k \in DOMAIN p : p[k].kind = "done" => p[k].out # I
      PROVE  FloorOwnsText(io, up)'
  <2> DEFINE n == Len(p) + 1
  <2>a. /\ n \in Nat /\ DOMAIN r = 1 .. n /\ DOMAIN p = 1 .. n - 1
        /\ \A i \in DOMAIN p : r[i] = p[i]
        /\ \A i \in DOMAIN r : i \in DOMAIN p \/ i = n
    BY <1>2, <1>6, PushedFrame
  <2>1. \A k \in DOMAIN r : Stands(r, k) => k \in DOMAIN p /\ Stands(p, k)
    BY <1>2, <1>m, <1>6, PushStands
  <2> HIDE DEF r, n
  <2>2. \A k \in DOMAIN r : Stands(r, k) => r[k].out = I
    BY <1>6, <2>a, <2>1
  <2>3. \A k \in DOMAIN r : r[k].kind = "done" /\ r[k].out = I => k = n
    BY <1>6, <2>a
  <2>4. \A l \in DOMAIN r : ~(l > n)
    BY <2>a
  <2>5. \A g \in ToSet(up') : g.kind = "done" => g.out # I
    BY <1>3, <1>6
  <2> QED BY <1>6, <2>2, <2>3, <2>4, <2>5 DEF FloorOwnsText, r
<1>7. ASSUME NEW p \in Seq(DownFrames), NEW kind \in {"text", "sentence", "end"},
             \A k \in DOMAIN p : Stands(p, k) => p[k].out = I,
             \A k \in DOMAIN p : p[k].kind = "done" => p[k].out # I
      PROVE  LET p2 == Append(p, Frame(kind, I))
             IN /\ p2 \in Seq(DownFrames)
                /\ \A k \in DOMAIN p2 : Stands(p2, k) => p2[k].out = I
                /\ \A k \in DOMAIN p2 : p2[k].kind = "done" => p2[k].out # I
  <2> DEFINE p2 == Append(p, Frame(kind, I))
  <2>1. /\ p2 \in Seq(DownFrames) /\ p2[Len(p) + 1] = Frame(kind, I)
        /\ \A i \in DOMAIN p : p2[i] = p[i]
        /\ \A i \in DOMAIN p2 : i \in DOMAIN p \/ i = Len(p) + 1
    BY <1>2, PushedFrame
  <2>2. \A k \in DOMAIN p2 : Stands(p2, k) => (k \in DOMAIN p /\ Stands(p, k)) \/ k = Len(p) + 1
    BY <1>2, PushStands
  <2> HIDE DEF p2
  <2> QED BY <1>2, <1>7, <2>1, <2>2 DEF p2
<1>8. CASE /\ io.floor.phase = "preparing" /\ io'.floor.phase = "ended" /\ io'.floor.items = I
           /\ r = Append(Append(Append(q, Frame("text", I)), Frame("end", I)), Frame("done", I))
  <2> DEFINE p1 == Append(q, Frame("text", I))
             p2 == Append(p1, Frame("end", I))
  <2>1. /\ p1 \in Seq(DownFrames)
        /\ \A k \in DOMAIN p1 : Stands(p1, k) => p1[k].out = I
        /\ \A k \in DOMAIN p1 : p1[k].kind = "done" => p1[k].out # I
    BY <1>1, <1>3, <1>7, <1>8
  <2> HIDE DEF p1
  <2>2. /\ p2 \in Seq(DownFrames)
        /\ \A k \in DOMAIN p2 : Stands(p2, k) => p2[k].out = I
        /\ \A k \in DOMAIN p2 : p2[k].kind = "done" => p2[k].out # I
    BY <1>7, <2>1
  <2>3. r = Append(p2, Frame("done", I))
    BY <1>8 DEF p1
  <2> HIDE DEF p2, r
  <2> QED BY <1>6, <1>8, <2>2, <2>3
<1>9. CASE /\ io.floor.phase = "playing" /\ io'.floor.phase = "ended" /\ io'.floor.items = I
           /\ r = Append(Append(q, Frame("end", I)), Frame("done", I))
  <2> DEFINE p2 == Append(q, Frame("end", I))
  <2>2. /\ p2 \in Seq(DownFrames)
        /\ \A k \in DOMAIN p2 : Stands(p2, k) => p2[k].out = I
        /\ \A k \in DOMAIN p2 : p2[k].kind = "done" => p2[k].out # I
    BY <1>1, <1>3, <1>7, <1>9
  <2> HIDE DEF p2, r
  <2> QED BY <1>6, <1>9, <2>2 DEF p2
<1>10. CASE /\ io.floor.phase = "stopping" /\ io'.floor.phase = "ended" /\ io'.floor.items = I
            /\ r = Append(q, Frame("done", I))
  BY <1>1, <1>3, <1>6, <1>10
<1> QED BY <1>4, <1>5, <1>8, <1>9, <1>10 DEF Spoken, q, I

LEMMA FlowOwns ==
  ASSUME IInv, IInv', Flow, FloorOwnsText(io, up)
  PROVE  FloorOwnsText(io, up)'
<1> DEFINE q == io.pipe
           r == io'.pipe
<1>1. q \in Seq(DownFrames) /\ r \in Seq(DownFrames) /\ io'.floor = io.floor
  BY DEF IInv, Good, Coherent, Entries, Flow
<1>2. PICK f : /\ Drops(q, r, f, frag', clipped')
               /\ \A g \in ToSet(up') : g.kind = "done" => g \in ToSet(up) \cup Passed(q, r, f)
  BY DEF Flow
<1>3. \A k \in DOMAIN r : Stands(r, k) => f[k] \in DOMAIN q /\ Stands(q, f[k]) /\ r[k] = q[f[k]]
  BY <1>1, <1>2, DropsStand
<1>4. /\ \A k \in DOMAIN r : f[k] \in DOMAIN q /\ r[k] = q[f[k]]
      /\ \A k, l \in DOMAIN r : k < l => f[k] < f[l]
      /\ \A k \in DOMAIN r : k \in Nat /\ f[k] \in Nat
  BY <1>1, <1>2, LenProperties DEF Drops
<1>5. /\ \A k \in DOMAIN q : Stands(q, k) => q[k].out = io.floor.items /\ io.floor.phase \notin {"free", "preparing"}
      /\ \A k \in DOMAIN q : q[k].kind = "done" /\ q[k].out = io.floor.items
           => io.floor.phase = "ended" /\ \A l \in DOMAIN q : l > k => ~Stands(q, l)
      /\ \A g \in ToSet(up) : g.kind = "done" /\ g.out = io.floor.items
           => io.floor.phase = "ended" /\ \A l \in DOMAIN q : ~Stands(q, l)
  BY DEF FloorOwnsText
<1> HIDE DEF q, r
<1>6. \A k \in DOMAIN r :
        Stands(r, k) => r[k].out = io'.floor.items /\ io'.floor.phase \notin {"free", "preparing"}
  BY <1>1, <1>3, <1>5
<1>7. ASSUME NEW k \in DOMAIN r, r[k].kind = "done", r[k].out = io'.floor.items
      PROVE  io'.floor.phase = "ended" /\ \A l \in DOMAIN r : l > k => ~Stands(r, l)
  <2>1. io.floor.phase = "ended" /\ \A l \in DOMAIN q : l > f[k] => ~Stands(q, l)
    BY <1>1, <1>4, <1>5, <1>7
  <2>2. ASSUME NEW l \in DOMAIN r, l > k PROVE ~Stands(r, l)
    <3>1. f[l] > f[k] /\ f[l] \in DOMAIN q
      BY <1>4, <2>2
    <3> QED BY <1>3, <2>1, <3>1
  <2> QED BY <1>1, <2>1, <2>2
<1>8. ASSUME NEW g \in ToSet(up'), g.kind = "done", g.out = io'.floor.items
      PROVE  io'.floor.phase = "ended" /\ \A l \in DOMAIN r : ~Stands(r, l)
  <2>1. CASE g \in ToSet(up)
    BY <1>1, <1>3, <1>5, <1>8, <2>1
  <2>2. CASE g \in Passed(q, r, f)
    <3>1. PICK n \in DOMAIN q : g = q[n] /\ \A i \in DOMAIN r : n < f[i]
      BY <2>2 DEF Passed
    <3>2. n \in Nat
      BY <1>1, <3>1, LenProperties
    <3>3. io.floor.phase = "ended" /\ \A l \in DOMAIN q : l > n => ~Stands(q, l)
      BY <1>1, <1>5, <1>8, <3>1
    <3>4. \A l \in DOMAIN r : f[l] > n
      BY <1>4, <3>1, <3>2
    <3> QED BY <1>1, <1>3, <1>4, <3>3, <3>4
  <2> QED BY <1>2, <1>8, <2>1, <2>2
<1> QED BY <1>6, <1>7, <1>8 DEF FloorOwnsText, r

LEMMA OwnsStep ==
  ASSUME IInv, IInv', FloorOwnsText(io, up), Kinds
  PROVE  FloorOwnsText(io, up)'
<1>a. Good(io, submitted)' /\ MarksAreHeard(io, up)' /\ Coherent(io', submitted')
  BY DEF IInv, Good
<1>1. CASE Handled(io, io') /\ ToSet(up') \subseteq ToSet(up)
  BY <1>a, <1>1, HandledOwns
<1>2. CASE Hushed(io, io') /\ up' = up
  BY <1>2 DEF FloorOwnsText, Hushed
<1>3. CASE Spoken(io, io') /\ ~Handled(io, io') /\ up' = up
  BY <1>a, <1>3, SpokenOwns
<1>4. CASE Settled(io, io', up) /\ ToSet(up') \subseteq ToSet(up)
  <2>1. CASE io'.floor = io.floor
    BY <1>4, <2>1 DEF Settled, FloorOwnsText
  <2>2. CASE io'.floor # io.floor
    <3>1. /\ io'.pipe = io.pipe /\ io'.floor.phase \in {"free", "preparing"}
          /\ \A k \in DOMAIN io.pipe : ~Stands(io.pipe, k)
      BY <1>4, <2>2 DEF Settled, FloorOwnsText
    <3> QED BY <1>a, <3>1, NobodySpeaks
  <2> QED BY <2>1, <2>2
<1>5. CASE Flow
  BY <1>5, FlowOwns
<1> QED BY <1>1, <1>2, <1>3, <1>4, <1>5 DEF Kinds

\* The cuts grow: what was said of the frames is said of fewer.
LEMMA MoreCut ==
  ASSUME NEW q, NEW open, NEW cut, NEW newly, NEW outs, cut \subseteq newly,
         Apart(q, open, cut), Unended(q, open, cut, outs)
  PROVE  Apart(q, open, newly) /\ Unended(q, open, newly, outs \ newly)
<1>1. Apart(q, open, newly)
  BY DEF Apart
<1>2. Unended(q, open, newly, outs \ newly)
  BY DEF Unended
<1> QED BY <1>1, <1>2

LEMMA MoreOuts ==
  ASSUME NEW q, NEW open, NEW cut, NEW outs, NEW more, outs \subseteq more, Unended(q, open, cut, outs)
  PROVE  Unended(q, open, cut, more)
BY DEF Unended

LEMMA HandledEnds ==
  ASSUME IInv, TextEnds(io, frag, clipped), Handled(io, io'), frag' = frag, clipped \subseteq clipped'
  PROVE  TextEnds(io, frag, clipped)'
<1> DEFINE q == io.pipe
           r == io'.pipe
           P == Clip(io)
<1>1. /\ q \in Seq(DownFrames) /\ Apart(q, frag, clipped) /\ Unended(q, frag, clipped, P)
  BY DEF IInv, Good, Coherent, Entries, TextEnds
<1>2. Apart(q, frag, clipped') /\ Unended(q, frag, clipped', P)
  <2> HIDE DEF q, P
  <2>1. Apart(q, frag, clipped') /\ Unended(q, frag, clipped', P \ clipped')
    BY <1>1, MoreCut
  <2>2. P \ clipped' \subseteq P
    OBVIOUS
  <2> QED BY <2>1, <2>2, MoreOuts
<1>3. CASE r = q /\ io'.floor = io.floor
  BY <1>2, <1>3 DEF TextEnds, Clip
<1>4. CASE r = q /\ {io.floor.phase, io'.floor.phase} \subseteq {"free", "preparing"}
  <2>1. Clip(io) = {} /\ Clip(io') = {}
    BY <1>4 DEF Clip
  <2> QED BY <1>2, <1>4, <2>1 DEF TextEnds
<1>5. ASSUME NEW kind \in {"cut", "left"}, r = Append(q, Frame(kind, {})),
             io'.floor.phase \in {"free", "preparing"}
      PROVE  TextEnds(io, frag, clipped)'
  <2>1. /\ Frame(kind, {}) \in DownFrames /\ ~IsSpeech(Frame(kind, {})) /\ Ends(Frame(kind, {}))
    BY DEF Frame, DownFrames, FramesOf, IsSpeech, Ends
  <2>2. Clip(io') = {}
    BY <1>5 DEF Clip
  <2> HIDE DEF q, r, P
  <2>3. Apart(r, frag, clipped') /\ Unended(r, frag, clipped', {})
    BY <1>1, <1>2, <1>5, <2>1, PushApart, PushUnended
  <2>4. TextEnds(io', frag', clipped')
    BY <2>2, <2>3 DEF TextEnds, r
  <2> QED BY <2>4
<1> QED BY <1>3, <1>4, <1>5 DEF Handled

LEMMA SpokenEnds ==
  ASSUME IInv, TextEnds(io, frag, clipped), Spoken(io, io'), ~Handled(io, io'),
         frag' = frag, clipped' = clipped
  PROVE  TextEnds(io, frag, clipped)'
<1> DEFINE q == io.pipe
           r == io'.pipe
           I == io.floor.items
           P == Clip(io)
<1>1. /\ q \in Seq(DownFrames) /\ Apart(q, frag, clipped) /\ Unended(q, frag, clipped, P)
      /\ I \subseteq Items
  BY DEF IInv, Good, Coherent, Entries, Floors, TextEnds
<1>2. /\ \A kind \in {"text", "sentence", "end", "done"} :
            Frame(kind, I) \in DownFrames /\ Frame(kind, I).out = I
      /\ ~IsSpeech(Frame("done", I)) /\ ~IsText(Frame("done", I)) /\ ~IsText(Frame("end", I))
      /\ Ends(Frame("end", I))
  BY <1>1 DEF Frame, DownFrames, FramesOf, IsSpeech, IsText, Ends
<1>3. P \subseteq {I} /\ (io.floor.phase # "playing" => P = {})
  BY DEF Clip
<1>4. ASSUME Apart(r, frag, clipped), Unended(r, frag, clipped, Clip(io')) PROVE TextEnds(io, frag, clipped)'
  <2>1. TextEnds(io', frag', clipped')
    BY <1>4 DEF TextEnds
  <2> QED BY <2>1
<1>s. ASSUME NEW p \in Seq(DownFrames), NEW kind \in {"text", "sentence", "end"}, NEW outs,
             Apart(p, frag, clipped), Unended(p, frag, clipped, outs), outs \subseteq {I}
      PROVE  /\ Append(p, Frame(kind, I)) \in Seq(DownFrames)
             /\ Apart(Append(p, Frame(kind, I)), frag, clipped)
             /\ Unended(Append(p, Frame(kind, I)), frag, clipped, IF kind = "end" THEN {} ELSE {I})
  <2> HIDE DEF I
  <2>1. /\ Append(p, Frame(kind, I)) \in Seq(DownFrames)
        /\ Apart(Append(p, Frame(kind, I)), frag, clipped)
    BY <1>s, <1>2, PushedFrame, PushApart
  <2>2. CASE kind = "end"
    <3>1. Unended(Append(p, Frame(kind, I)), frag, clipped, {})
      BY <1>s, <1>2, <2>2, PushUnended
    <3> QED BY <2>1, <2>2, <3>1
  <2>3. CASE kind # "end"
    <3>1. Unended(Append(p, Frame(kind, I)), frag, clipped, {I})
      BY <1>s, <1>2, <2>3, PushUnended
    <3> QED BY <2>1, <2>3, <3>1
  <2> QED BY <2>2, <2>3
<1>d. ASSUME NEW p \in Seq(DownFrames), Apart(p, frag, clipped), Unended(p, frag, clipped, {})
      PROVE  /\ Apart(Append(p, Frame("done", I)), frag, clipped)
             /\ Unended(Append(p, Frame("done", I)), frag, clipped, {})
  <2> HIDE DEF I
  <2> QED BY <1>d, <1>2, PushApart, PushUnended
<1> HIDE DEF q, I, P
<1>5. CASE /\ io.floor.phase = "preparing" /\ io'.floor.phase = "ended"
           /\ r = Append(Append(Append(q, Frame("text", I)), Frame("end", I)), Frame("done", I))
  <2> DEFINE p1 == Append(q, Frame("text", I))
             p2 == Append(p1, Frame("end", I))
  <2>1. p1 \in Seq(DownFrames) /\ Apart(p1, frag, clipped) /\ Unended(p1, frag, clipped, {I})
    BY <1>1, <1>3, <1>s
  <2> HIDE DEF p1
  <2>2. p2 \in Seq(DownFrames) /\ Apart(p2, frag, clipped) /\ Unended(p2, frag, clipped, {})
    BY <2>1, <1>s
  <2>3. r = Append(p2, Frame("done", I)) /\ Clip(io') = {}
    BY <1>5 DEF p1, Clip
  <2> HIDE DEF p2, r
  <2> QED BY <1>4, <1>d, <2>2, <2>3
<1>6. ASSUME NEW kind \in {"text", "sentence"}, r = Append(q, Frame(kind, I)),
             io'.floor.phase = "playing", io'.floor.items = I
      PROVE  TextEnds(io, frag, clipped)'
  <2>1. Clip(io') = {I}
    BY <1>6 DEF Clip
  <2>2. Apart(r, frag, clipped) /\ Unended(r, frag, clipped, {I})
    <3> HIDE DEF r
    <3>1. kind # "end" /\ kind \in {"text", "sentence", "end"}
      OBVIOUS
    <3> QED BY <1>1, <1>3, <1>6, <1>s, <3>1
  <2> QED BY <1>4, <2>1, <2>2
<1>7. CASE io'.floor.phase \in {"free", "preparing"} /\ r = Append(q, Frame("end", I))
  <2>1. Clip(io') = {}
    BY <1>7 DEF Clip
  <2>2. Apart(r, frag, clipped) /\ Unended(r, frag, clipped, {})
    <3> HIDE DEF r
    <3> QED BY <1>1, <1>3, <1>7, <1>s
  <2> QED BY <1>4, <2>1, <2>2
<1>8. CASE io'.floor.phase = "ended" /\ r = Append(Append(q, Frame("end", I)), Frame("done", I))
  <2> DEFINE p2 == Append(q, Frame("end", I))
  <2>1. p2 \in Seq(DownFrames) /\ Apart(p2, frag, clipped) /\ Unended(p2, frag, clipped, {})
    BY <1>1, <1>3, <1>s
  <2>2. Clip(io') = {}
    BY <1>8 DEF Clip
  <2> HIDE DEF p2, r
  <2> QED BY <1>4, <1>8, <1>d, <2>1, <2>2 DEF p2
<1>9. CASE /\ io.floor.phase = "stopping" /\ io'.floor.phase = "ended"
           /\ r = Append(q, Frame("done", I))
  <2>1. Clip(io') = {} /\ P = {}
    BY <1>3, <1>9 DEF Clip
  <2> QED BY <1>1, <1>4, <1>d, <1>9, <2>1
<1> QED BY <1>5, <1>6, <1>7, <1>8, <1>9 DEF Spoken, q, I

LEMMA EndsStep ==
  ASSUME IInv, IInv', FloorOwnsText(io, up), TextEnds(io, frag, clipped), Kinds
  PROVE  TextEnds(io, frag, clipped)'
<1>1. CASE Handled(io, io') /\ frag' = frag /\ clipped \subseteq clipped'
  BY <1>1, HandledEnds
<1>2. CASE Hushed(io, io') /\ frag' = frag /\ clipped' = clipped \cup Clip(io)
  <2>1. Apart(io.pipe, frag, clipped') /\ Unended(io.pipe, frag, clipped', Clip(io) \ clipped')
    <3>1. Apart(io.pipe, frag, clipped) /\ Unended(io.pipe, frag, clipped, Clip(io))
      BY DEF TextEnds
    <3> QED BY <1>2, <3>1, MoreCut
  <2>2. Clip(io) \ clipped' = {} /\ Clip(io') = {}
    BY <1>2 DEF Hushed, Clip
  <2> QED BY <1>2, <2>1, <2>2 DEF TextEnds, Hushed
<1>3. CASE Spoken(io, io') /\ ~Handled(io, io') /\ frag' = frag /\ clipped' = clipped
  BY <1>3, SpokenEnds
<1>4. CASE Settled(io, io', up) /\ UNCHANGED <<frag, clipped>>
  <2>1. CASE io'.floor = io.floor
    BY <1>4, <2>1 DEF Settled, TextEnds, Clip
  <2>2. CASE io'.floor # io.floor
    <3>1. io.floor.phase = "ended" /\ io'.floor.phase # "playing" /\ io'.pipe = io.pipe
      BY <1>4, <2>2 DEF Settled, FloorOwnsText
    <3>2. Clip(io) = {} /\ Clip(io') = {}
      BY <3>1 DEF Clip
    <3> QED BY <1>4, <3>1, <3>2 DEF TextEnds
  <2> QED BY <2>1, <2>2
<1>5. CASE Flow
  <2> DEFINE q == io.pipe
             r == io'.pipe
  <2>1. q \in Seq(DownFrames) /\ r \in Seq(DownFrames) /\ clipped \subseteq clipped'
    BY <1>5 DEF IInv, Good, Coherent, Entries, Flow
  <2>2. Apart(q, frag, clipped) /\ Unended(q, frag, clipped, Clip(io)) /\ Clip(io') = Clip(io)
    BY <1>5 DEF TextEnds, Flow, Clip
  <2>3. PICK f : Drops(q, r, f, frag', clipped') /\ Grown(q, r, f, frag, frag')
    BY <1>5 DEF Flow
  <2> HIDE DEF q, r
  <2>4. Apart(r, frag', clipped')
    BY <2>1, <2>2, <2>3, DropsApart
  <2>5. Unended(r, frag', clipped', Clip(io))
    BY <2>1, <2>2, <2>3, DropsUnended
  <2> QED BY <2>2, <2>4, <2>5 DEF TextEnds, r
<1> QED BY <1>1, <1>2, <1>3, <1>4, <1>5 DEF Kinds

-----------------------------------------------------------------------------
(* The theorems. *)

LEMMA VInvInit == Init => VInv
<1> SUFFICES ASSUME Init PROVE VInv
  OBVIOUS
<1>1. io.pipe = <<>> /\ up = <<>> /\ frag = {} /\ clipped = {}
  BY DEF Init
<1>2. DOMAIN io.pipe = {} /\ ToSet(up) = {}
  BY <1>1, EmptyQueue
<1>3. FloorOwnsText(io, up) /\ TextEnds(io, frag, clipped)
  BY <1>1, <1>2 DEF FloorOwnsText, TextEnds, Apart, Unended
<1> QED BY <1>3, IInvInit DEF VInv

LEMMA VInvStep ==
  ASSUME VInv, [Next]_vars PROVE VInv'
<1>1. IInv'
  BY IInvStep DEF VInv
<1>2. CASE Next
  <2>1. Kinds
    BY <1>2, StepKinds DEF VInv
  <2> QED BY <1>1, <2>1, OwnsStep, EndsStep DEF VInv
<1>3. CASE UNCHANGED vars
  BY <1>1, <1>3 DEF vars, VInv
<1> QED BY <1>2, <1>3

\* The invariant holds throughout, for any items, requests, producers and capacity.
THEOREM VInvHolds == Spec => []VInv
<1>1. Init => VInv
  BY VInvInit
<1>2. VInv /\ [Next]_vars => VInv'
  BY VInvStep
<1> QED BY <1>1, <1>2, PTL DEF Spec

\* The entry of a participant keeps its shape: the backlog stays within its capacity
\* however updates arrive, are combined, dropped and withdrawn, and the free floor names
\* no output.
THEOREM TypeCorrect == Spec => []TypeOK
<1>1. VInv => TypeOK
  <2> SUFFICES ASSUME IInv PROVE TypeOK
    BY DEF VInv
  <2>1. /\ io \in Entries /\ Alone(io.floor) /\ Accounted(io, submitted) /\ Queued(io) /\ Rest
    BY DEF IInv, Good, Coherent
  <2>2. /\ io.floor \in Floors /\ io.replies \in Seq(Replies) /\ io.urgent \in Seq(Urgents)
        /\ io.pending \in Seq(Updates) /\ io.active \in AllRequests \cup {None}
        /\ io.superseded \subseteq AllRequests
        /\ {io.speaking, io.userSpeaking, io.seen} \subseteq BOOLEAN
    BY <2>1 DEF Entries
  <2>3. io.floor.phase = "free" <=> io.floor.items = {}
    BY <2>1, FreeIs DEF Alone
  <2>4. io.played \subseteq submitted
    BY <2>1 DEF Accounted
  <2>5. io.lost \subseteq submitted
    BY <2>1 DEF Accounted
  <2>6. Len(io.pending) <= UpdateCapacity
    BY <2>1 DEF Queued
  <2> QED BY <2>1, <2>2, <2>3, <2>4, <2>5, <2>6 DEF TypeOK, Floors, AllRequests, Rest
<1> QED BY <1>1, VInvHolds, PTL

\* Text on its way that no interruption is about to drop is that of the output that
\* holds the floor: cutting that output cuts no other.
THEOREM FloorIsOneVoice == Spec => []OneVoice
<1>1. VInv => OneVoice
  BY DEF VInv, FloorOwnsText, Stands, IsText, IsMarker, OneVoice, Markers, Texts
<1> QED BY <1>1, VInvHolds, PTL

\* TTS never joins the words of two outputs in one sentence, unless the first was cut
\* short before its end frame.
THEOREM SentencesStayApart == Spec => []SentencesDoNotMix
<1>1. VInv => SentencesDoNotMix
  <2> SUFFICES ASSUME VInv, io.pipe # <<>>, Head(io.pipe).kind \in Texts \cup {"end"},
                      NEW o \in frag \ clipped
               PROVE  o = Head(io.pipe).out
    BY DEF SentencesDoNotMix
  <2>1. io.pipe \in Seq(DownFrames)
    BY DEF VInv, IInv, Good, Coherent, Entries
  <2>2. 1 \in DOMAIN io.pipe /\ Head(io.pipe) = io.pipe[1] /\ \A m \in DOMAIN io.pipe : ~(m < 1)
    BY <2>1, LenProperties, HeadTailProperties, EmptySeq
  <2>3. IsSpeech(io.pipe[1])
    BY <2>2 DEF Texts, IsSpeech
  <2> QED BY <2>2, <2>3 DEF VInv, TextEnds, Apart
<1> QED BY <1>1, VInvHolds, PTL

\* An update handed in waits, was dropped before it was heard, or was heard, and is never
\* in two of these; what was heard is never queued or selected again.
THEOREM HeardOnce == Spec => []HeardAtMostOnce
<1>1. VInv => HeardAtMostOnce
  BY DEF VInv, IInv, Good, Coherent, Accounted, HeardAtMostOnce
<1> QED BY <1>1, VInvHolds, PTL

\* Urgent updates stay in the order they were handed in, also when one that was selected
\* goes back to the queue.
THEOREM UrgentOrderKept == Spec => []UrgentInOrder
<1>1. VInv => UrgentInOrder
  <2> SUFFICES ASSUME VInv PROVE UrgentInOrder
    OBVIOUS
  <2>1. Rising(io.urgent) /\ \A i \in Unheard(io), j \in ToSet(io.urgent) : i < j
    BY DEF VInv, IInv, Good, Coherent, Queued
  <2>2. \A k \in DOMAIN io.urgent : io.urgent[k] \in ToSet(io.urgent)
    BY DEF ToSet
  <2> QED BY <2>1, <2>2 DEF UrgentInOrder, Rising
<1> QED BY <1>1, VInvHolds, PTL

\* Replies to a superseded request are neither queued, nor selected, nor spoken on.
THEOREM SilenceKept == Spec => []SupersededIsSilent
<1>1. VInv => SupersededIsSilent
  <2> SUFFICES ASSUME VInv PROVE SupersededIsSilent
    OBVIOUS
  <2>1. Silent(io)
    BY DEF VInv, IInv, Good
  <2>2. Requests(ToSet(io.replies) \cup Preparing(io))
          = Requests(ToSet(io.replies)) \cup Requests(Preparing(io))
    BY DEF Requests
  <2>3. Requests(Preparing(io)) \cap io.superseded = {}
    BY <2>1 DEF Silent, Preparing, Requests
  <2> QED BY <2>1, <2>2, <2>3 DEF Silent, SupersededIsSilent
<1> QED BY <1>1, VInvHolds, PTL

\* Updates are selected only while nobody speaks, and only a full backlog takes one of
\* them away from the queue behind their back.
THEOREM WaysGiven == Spec => []UpdatesGiveWay
<1>1. VInv => UpdatesGiveWay
  <2> SUFFICES ASSUME VInv, Preparing(io) \cap Updates # {}
               PROVE  Quiet(io) /\ Preparing(io) \subseteq ToSet(io.pending) \cup io.lost
    BY DEF UpdatesGiveWay
  <2>1. Courteous(io) /\ Accounted(io, submitted) /\ Alone(io.floor)
    BY DEF VInv, IInv, Good, Coherent
  <2>2. Preparing(io) \subseteq Updates
    <3>1. io.floor.phase = "preparing" /\ Preparing(io) = io.floor.items
      BY DEF Preparing
    <3> QED BY <2>1, <3>1, ItemKinds, FreeIs DEF Alone
  <2> QED BY <2>1, <2>2 DEF Courteous, Accounted
<1> QED BY <1>1, VInvHolds, PTL

=============================================================================
