----------------------------- MODULE VoiceFloor -----------------------------
(***************************************************************************)
(* The voice floor (agent-sdk/xr-ai-voice, _processors/io.py): who may     *)
(* speak to one participant, and when.  Agents hand in replies to requests *)
(* and updates nobody asked for; one output at a time holds the floor,     *)
(* from its selection until the transport returns the done marker pushed   *)
(* behind its text.  An interruption travels down the pipeline, overtakes  *)
(* what was pushed before it and drops it.                                 *)
(*                                                                         *)
(* One event loop; pushing a frame does not suspend, so a handler and an   *)
(* enqueue call are one step each.  The processor keeps its state per      *)
(* participant: io is the entry of one, and the handlers are composed of   *)
(* operators that take such an entry and return the next.                  *)
(***************************************************************************)
EXTENDS Naturals, Sequences, FiniteSets, SequencesExt, Subsequences

CONSTANTS
  Replies,            \* replies agents may hand in
  Urgents,            \* urgent updates, numbered in the order they are handed in
  Updates,            \* ordinary updates, likewise
  Streamed,           \* the replies that come as a stream of fragments
  RequestOf,          \* the request a reply answers
  SourceOf,           \* the producer of an update
  UpdateCapacity,     \* _PENDING_UPDATE_CAPACITY
  InterruptOnSupersede, \* interrupt_on_supersede
  MaxFragments,       \* bound: fragments of a stream
  MaxInputs,          \* bound: items handed in, queries, stop phrases, utterances,
                      \* departures and interruptions of another participant, together
  None

Items == Replies \cup Urgents \cup Updates

ASSUME VoiceFloorAssumption ==
  /\ IsFiniteSet(Items) /\ Items \subseteq Nat
  /\ Replies \cap Urgents = {} /\ Replies \cap Updates = {} /\ Urgents \cap Updates = {}
  /\ Streamed \subseteq Replies
  /\ DOMAIN RequestOf = Replies /\ DOMAIN SourceOf = Urgents \cup Updates
  /\ InterruptOnSupersede \in BOOLEAN
  /\ UpdateCapacity \in Nat \ {0} /\ {MaxFragments, MaxInputs} \subseteq Nat

VARIABLES
  io,        \* the processor's state for the participant, with the frames it pushed in io.pipe
  resuming,  \* the interruption handler waits for the agent's callback
  frag,      \* TTS's pending text: the outputs whose unfinished sentence it holds
  botOn,     \* the transport has announced speech
  up,        \* frames on their way upstream
  submitted, \* items handed in so far
  events,    \* events so far
  clipped    \* history: outputs whose text was cut short without its end frame

vars == <<io, resuming, frag, botOn, up, submitted, events, clipped>>

\* An output is named by the items it speaks.  Its phase: "preparing" (not playing),
\* "playing", "stopping" (its task is cancelled but has not run since), "ended".
Free == [items |-> {}, phase |-> "free", sent |-> 0]

Frame(kind, out) == [kind |-> kind, out |-> out]
FramesOf(kinds) == [kind : kinds, out : SUBSET Items]

Init ==
  /\ io = [floor |-> Free, replies |-> <<>>, urgent |-> <<>>, pending |-> <<>>,
           active |-> None, superseded |-> {}, speaking |-> FALSE, userSpeaking |-> FALSE,
           seen |-> FALSE, pipe |-> <<>>,
           played |-> {}, lost |-> {}, departed |-> FALSE] \* history
  /\ resuming = FALSE /\ frag = {} /\ botOn = FALSE /\ up = <<>>
  /\ submitted = {} /\ events = 0 /\ clipped = {}

-----------------------------------------------------------------------------
(* The arbitration: operators on the entry s of a participant. *)

Requests(items) == {RequestOf[i] : i \in items \cap Replies}

Supersede(s, requests) == [s EXCEPT !.superseded = @ \cup (requests \ {None})]

\* Queued replies go, those to the requests of keep excepted.
DropReplies(s, keep) ==
  [Supersede(s, Requests(ToSet(s.replies)) \ keep)
     EXCEPT !.replies = Only(@, {i \in Replies : RequestOf[i] \in keep})]

\* The urgent update that holds the floor, if one does: it speaks alone.
UrgentOf(s) == IF s.floor.items \cap Urgents = {} THEN <<>>
               ELSE <<CHOOSE i \in Urgents : s.floor.items = {i}>>

\* Faults for the mutant runs: an urgent update that gives way is forgotten, or goes
\* behind the others.
StopForgets(s) ==
  CASE s.floor.phase = "preparing" -> [s EXCEPT !.floor = Free]
    [] s.floor.phase = "playing" -> [s EXCEPT !.floor.phase = "stopping"]
    [] OTHER -> s

StopRequeuesLast(s) ==
  CASE s.floor.phase = "preparing" ->
         [s EXCEPT !.floor = Free, !.urgent = @ \o UrgentOf(s)]
    [] s.floor.phase = "playing" -> [s EXCEPT !.floor.phase = "stopping"]
    [] OTHER -> s

\* A playing output keeps the floor; any other gives it up, and an urgent update is
\* put back in front.
Stop(s) ==
  CASE s.floor.phase = "preparing" ->
         [s EXCEPT !.floor = Free, !.urgent = UrgentOf(s) \o @]
    [] s.floor.phase = "playing" -> [s EXCEPT !.floor.phase = "stopping"]
    [] OTHER -> s

Release(s) == [s EXCEPT !.floor = Free]

InterruptAudio(s) == [Release(s) EXCEPT !.pipe = Append(@, Frame("cut", {}))]

\* Fault for a mutant run: a cut leaves the other replies to the request queued.
CutKeepsQueue(s, keep) == InterruptAudio(Supersede(Stop(s), Requests(s.floor.items)))

Cut(s, keep) ==
  LET stopped == Stop(s)
      requests == Requests(s.floor.items)
  IN InterruptAudio(IF requests = {} THEN stopped
                    ELSE DropReplies(Supersede(stopped, requests), keep))

Quiet(s) == ~s.speaking /\ ~s.userSpeaking

MaySpeak(s) ==
  \/ s.floor.items \cap Updates = {}
  \/ Quiet(s) /\ s.floor.items \subseteq ToSet(s.pending)

Start(s, items) == [s EXCEPT !.floor = [Free EXCEPT !.items = items, !.phase = "preparing"],
                             !.seen = TRUE]

StartNext(s) ==
  CASE s.floor # Free -> s
    [] s.floor = Free /\ s.urgent # <<>> ->
         Start([s EXCEPT !.urgent = Tail(@)], {Head(s.urgent)})
    [] s.floor = Free /\ s.urgent = <<>> /\ s.replies # <<>> ->
         Start([s EXCEPT !.replies = Tail(@)], {Head(s.replies)})
    [] s.floor = Free /\ s.urgent = <<>> /\ s.replies = <<>> /\ s.pending # <<>> /\ Quiet(s) ->
         Start(s, ToSet(s.pending))
    [] OTHER -> s

\* What was selected but may no longer speak is dropped at once.
Recheck(s) == IF s.floor.phase = "preparing" /\ ~MaySpeak(s) THEN StartNext(Stop(s)) ELSE s

CancelOutput(s) == Stop(DropReplies(Supersede(s, Requests(s.floor.items)), {}))

BargeIn(s) == [Supersede(CancelOutput(s), {s.active}) EXCEPT !.active = None]

-----------------------------------------------------------------------------
(* Input: agents, the participant, the room. *)

\* Updates of one kind are handed in in the order of their numbers.
Inputs == Cardinality(submitted) + events

Submit(i) == Inputs < MaxInputs /\ submitted' = submitted \cup {i}

NextOf(kind) == {i \in kind \ submitted : \A j \in kind \ submitted : i <= j}

SpawnReply(s, i) ==
  LET request == RequestOf[i]
      others == Supersede(DropReplies(s, {request}), {s.active} \ {request})
      owner == s.floor.items
      cleared == CASE Requests(owner) \ {request} # {} -> Cut(others, {request})
                   [] owner \cap Updates # {} /\ s.floor.phase = "preparing" -> Stop(others)
                   [] OTHER -> others
  IN StartNext([cleared EXCEPT !.active = request, !.replies = Append(@, i)])

EnqueueReply(i) ==
  /\ i \in Replies \ submitted
  /\ Submit(i)
  /\ io' = IF RequestOf[i] \in io.superseded THEN io ELSE SpawnReply(io, i)
  /\ UNCHANGED <<resuming, frag, botOn, up, events, clipped>>

SpawnUrgent(s, i) ==
  LET queued == [s EXCEPT !.urgent = Append(@, i)]
  IN StartNext(CASE s.floor = Free -> InterruptAudio(queued)
                 [] s.floor.items \cap Urgents # {} -> queued
                 [] OTHER -> Cut(queued, {}))

EnqueueUrgent(i) ==
  /\ i \in NextOf(Urgents)
  /\ Submit(i)
  /\ io' = SpawnUrgent(io, i)
  /\ UNCHANGED <<resuming, frag, botOn, up, events, clipped>>

\* Fault for a mutant run: the backlog has no bound.
AddUnbounded(s, i) == StartNext([s EXCEPT !.pending = Append(@, i)])

\* A full backlog loses its oldest update.
AddUpdate(s, i) ==
  LET full == Len(s.pending) >= UpdateCapacity
  IN StartNext([s EXCEPT !.pending = Append(IF full THEN Tail(@) ELSE @, i),
                         !.lost = IF full THEN @ \cup {Head(s.pending)} ELSE @])

EnqueueUpdate(i) ==
  /\ i \in NextOf(Updates)
  /\ Submit(i)
  /\ io' = AddUpdate(io, i)
  /\ UNCHANGED <<resuming, frag, botOn, up, events, clipped>>

\* The urgent update that holds the floor but has not been heard.
Unheard(s) == IF s.floor.phase = "preparing" THEN s.floor.items \cap Urgents ELSE {}

Waiting(s) == ToSet(s.urgent) \cup ToSet(s.pending) \cup Unheard(s)

WithdrawUpdates(s, source) ==
  LET others == {i \in DOMAIN SourceOf : SourceOf[i] # source}
      kept == [s EXCEPT !.pending = Only(@, others), !.urgent = Only(@, others),
                        !.lost = @ \cup {i \in Waiting(s) : SourceOf[i] = source}]
  IN Recheck(IF \E i \in Unheard(s) : SourceOf[i] = source THEN StartNext(Release(kept)) ELSE kept)

Withdraw(source) ==
  /\ io' = WithdrawUpdates(io, source)
  /\ UNCHANGED <<resuming, frag, botOn, up, submitted, events, clipped>>

Event == Inputs < MaxInputs /\ events' = events + 1

\* A typed or spoken query; the reply it interrupts gets no end frame.
SpawnQuery(s) ==
  LET barged == BargeIn([s EXCEPT !.userSpeaking = FALSE])
  IN StartNext(IF InterruptOnSupersede /\ s.seen THEN InterruptAudio(barged) ELSE barged)

Clip(s) == IF s.floor.phase = "playing" THEN {s.floor.items} ELSE {}

Query ==
  /\ Event
  /\ io' = SpawnQuery(io)
  /\ clipped' = clipped \cup Clip(io)
  /\ UNCHANGED <<resuming, frag, botOn, up, submitted>>

\* A stop phrase: the floor is given up and the interruption passed on before the
\* agent's callback is awaited.
Interruption ==
  /\ Event /\ ~resuming
  /\ io' = InterruptAudio(BargeIn(io))
  /\ resuming' = TRUE
  /\ UNCHANGED <<frag, botOn, up, submitted, clipped>>

Resume ==
  /\ resuming
  /\ resuming' = FALSE
  /\ io' = StartNext(io)
  /\ UNCHANGED <<frag, botOn, up, submitted, events, clipped>>

\* Fault for a mutant run: selected updates are not dropped.
UserStartedUnchecked ==
  /\ Event /\ ~resuming /\ ~io.userSpeaking
  /\ io' = [io EXCEPT !.userSpeaking = TRUE]
  /\ UNCHANGED <<resuming, frag, botOn, up, submitted, clipped>>

UserStarted ==
  /\ Event /\ ~resuming /\ ~io.userSpeaking
  /\ io' = Recheck([io EXCEPT !.userSpeaking = TRUE])
  /\ UNCHANGED <<resuming, frag, botOn, up, submitted, clipped>>

UserStopped ==
  /\ ~resuming /\ io.userSpeaking
  /\ io' = StartNext([io EXCEPT !.userSpeaking = FALSE])
  /\ UNCHANGED <<resuming, frag, botOn, up, submitted, events, clipped>>

Forget(s) ==
  [Release(CancelOutput(s))
     EXCEPT !.urgent = <<>>, !.pending = <<>>, !.active = None, !.superseded = {},
            !.speaking = FALSE, !.userSpeaking = FALSE, !.seen = FALSE,
            !.lost = @ \cup Waiting(s), !.departed = TRUE, !.pipe = Append(@, Frame("left", {}))]

ParticipantLeft ==
  /\ Event
  /\ io' = Forget(io)
  /\ UNCHANGED <<resuming, frag, botOn, up, submitted, clipped>>

-----------------------------------------------------------------------------
(* The task of the output that holds the floor. *)

Commit(s) ==
  [s EXCEPT !.floor.phase = "playing",
            !.pending = Only(@, Updates \ s.floor.items),
            !.played = @ \cup s.floor.items]

Push(s, kind) == [s EXCEPT !.pipe = Append(@, Frame(kind, s.floor.items))]

\* The task settles the floor: behind played text goes the done marker, and the floor
\* is kept until that returns.
Settle(s) ==
  IF s.floor.phase = "preparing" THEN StartNext(Release(s))
  ELSE [Push(s, "done") EXCEPT !.floor.phase = "ended", !.floor.sent = 0]

\* An output of one piece: a finite reply, an urgent update, the updates joined or combined.
Speak ==
  /\ io.floor.phase = "preparing" /\ io.floor.items \cap Streamed = {}
  /\ io' = IF MaySpeak(io) THEN Settle(Push(Push(Commit(io), "text"), "end"))
           ELSE Settle(io)
  /\ UNCHANGED <<resuming, frag, botOn, up, submitted, events, clipped>>

\* A fragment of a streamed reply, which may end a sentence.
Fragment(kind) ==
  /\ io.floor.phase \in {"preparing", "playing"} /\ io.floor.items \cap Streamed # {}
  /\ io.floor.sent < MaxFragments
  /\ LET s == IF io.floor.phase = "preparing" THEN Commit(io) ELSE io
     IN io' = Push([s EXCEPT !.floor.sent = @ + 1], kind)
  /\ UNCHANGED <<resuming, frag, botOn, up, submitted, events, clipped>>

\* Fault for a mutant run: no end frame behind the text.
EndStreamBare ==
  /\ io.floor.phase \in {"preparing", "playing"} /\ io.floor.items \cap Streamed # {}
  /\ io' = Settle(io)
  /\ UNCHANGED <<resuming, frag, botOn, up, submitted, events, clipped>>

\* The producer ends the stream, or its idle timeout closes it.
EndStream ==
  /\ io.floor.phase \in {"preparing", "playing"} /\ io.floor.items \cap Streamed # {}
  /\ io' = Settle(Push(io, "end"))
  /\ UNCHANGED <<resuming, frag, botOn, up, submitted, events, clipped>>

\* The cancelled task runs its cleanup.
Cleanup ==
  /\ io.floor.phase = "stopping"
  /\ io' = Settle(io)
  /\ UNCHANGED <<resuming, frag, botOn, up, submitted, events, clipped>>

-----------------------------------------------------------------------------
(* Downstream: TTS and the output transport, up to the last audio sent to the hub. *)

Markers == {k \in DOMAIN io.pipe : io.pipe[k].kind \in {"cut", "left"}}

\* Bound: the transport falls silent or speaks up again once its last announcement is in.
Announced == \A k \in DOMAIN up : up[k].kind = "done"

\* A sentence is spoken; the first after silence announces it.
Sound ==
  /\ botOn \/ Announced
  /\ botOn' = TRUE /\ up' = IF botOn THEN up ELSE Append(up, Frame("started", {}))

Pop == io' = [io EXCEPT !.pipe = Tail(@)]

Buffer ==
  /\ io.pipe # <<>> /\ Head(io.pipe).kind = "text"
  /\ frag' = frag \cup {Head(io.pipe).out}
  /\ Pop /\ UNCHANGED <<resuming, botOn, up, submitted, events, clipped>>

Sentence ==
  /\ io.pipe # <<>> /\ Head(io.pipe).kind = "sentence"
  /\ frag' = {}
  /\ Sound /\ Pop /\ UNCHANGED <<resuming, submitted, events, clipped>>

\* The end of a response flushes the unfinished sentence.
EndOfResponse ==
  /\ io.pipe # <<>> /\ Head(io.pipe).kind = "end"
  /\ frag' = {}
  /\ IF frag = {} THEN UNCHANGED <<botOn, up>> ELSE Sound
  /\ Pop /\ UNCHANGED <<resuming, submitted, events, clipped>>

ReturnDone ==
  /\ io.pipe # <<>> /\ Head(io.pipe).kind = "done"
  /\ up' = Append(up, Head(io.pipe))
  /\ Pop /\ UNCHANGED <<resuming, frag, botOn, submitted, events, clipped>>

\* The transport has had nothing to play for a while.
FallSilent ==
  /\ botOn /\ Announced /\ botOn' = FALSE
  /\ up' = Append(up, Frame("stopped", {}))
  /\ UNCHANGED <<io, resuming, frag, submitted, events, clipped>>

\* An interruption, or a departure, drops what was pushed before it; done markers that
\* TTS has not taken yet survive.  Whether a departed participant's sender still
\* announces silence is Pipecat's business.
DropUpTo(k, keep) ==
  LET done == Only(SubSeq(io.pipe, 1, k), FramesOf({"done"}))
  IN io' = [io EXCEPT !.pipe = (IF keep THEN done ELSE <<>>) \o SubSeq(@, k + 1, Len(@))]

CutArrives ==
  /\ Markers # {}
  /\ LET k == CHOOSE k \in Markers : \A l \in Markers : k <= l
     IN /\ \E keep \in BOOLEAN : DropUpTo(k, keep)
        /\ \/ botOn /\ up' = Append(up, Frame("stopped", {}))
           \/ (botOn => io.pipe[k].kind = "left") /\ up' = up
  /\ botOn' = FALSE /\ frag' = {}
  /\ UNCHANGED <<resuming, submitted, events, clipped>>

\* Another participant's interruption reaches TTS: of the frames still on their way
\* there, the uninterruptible ones stay.
OtherInterruption ==
  /\ Event
  /\ \E k \in 1 .. Len(io.pipe) :
       LET late == SubSeq(io.pipe, k, Len(io.pipe))
           stay == FramesOf({"done", "cut", "left"})
       IN /\ io' = [io EXCEPT !.pipe = SubSeq(@, 1, k - 1) \o Only(late, stay)]
          /\ clipped' = clipped \cup {f.out : f \in ToSet(late) \ stay}
  /\ UNCHANGED <<resuming, frag, botOn, up, submitted>>

(* Upstream: a frame that announces speech or silence may overtake a done marker. *)

Arrives(kind) ==
  \E k \in DOMAIN up :
    /\ up[k].kind = kind /\ \A l \in 1 .. (k - 1) : up[l].kind = "done"
    /\ up' = RemoveAt(up, k)

BotStarted ==
  /\ ~resuming
  /\ Arrives("started")
  /\ io' = Recheck([io EXCEPT !.speaking = TRUE])
  /\ UNCHANGED <<resuming, frag, botOn, submitted, events, clipped>>

BotStopped ==
  /\ ~resuming
  /\ Arrives("stopped")
  /\ io' = StartNext([io EXCEPT !.speaking = FALSE])
  /\ UNCHANGED <<resuming, frag, botOn, submitted, events, clipped>>

\* Faults for the mutant runs: any marker releases the floor; nobody is started next.
AnyDoneReleases ==
  /\ up # <<>> /\ Head(up).kind = "done"
  /\ up' = Tail(up)
  /\ io' = StartNext(Release(io))
  /\ UNCHANGED <<resuming, frag, botOn, submitted, events, clipped>>

OutputDoneOnly ==
  /\ up # <<>> /\ Head(up).kind = "done"
  /\ up' = Tail(up)
  /\ io' = IF Head(up).out = io.floor.items THEN Release(io) ELSE io
  /\ UNCHANGED <<resuming, frag, botOn, submitted, events, clipped>>

\* A marker releases its own output only.
OutputDone ==
  /\ up # <<>> /\ Head(up).kind = "done"
  /\ up' = Tail(up)
  /\ io' = IF Head(up).out = io.floor.items THEN StartNext(Release(io)) ELSE io
  /\ UNCHANGED <<resuming, frag, botOn, submitted, events, clipped>>

-----------------------------------------------------------------------------
Agents ==
  \/ \E i \in Replies : EnqueueReply(i)
  \/ \E i \in Urgents : EnqueueUrgent(i)
  \/ \E i \in Updates : EnqueueUpdate(i)
  \/ \E source \in {SourceOf[i] : i \in DOMAIN SourceOf} : Withdraw(source)

Task == Speak \/ EndStream \/ Cleanup

Downstream == Buffer \/ Sentence \/ EndOfResponse \/ ReturnDone

Next ==
  \/ Agents \/ Query \/ Interruption \/ Resume \/ UserStarted \/ UserStopped \/ ParticipantLeft
  \/ Task \/ (\E kind \in {"text", "sentence"} : Fragment(kind))
  \/ Downstream \/ FallSilent \/ CutArrives \/ OtherInterruption
  \/ BotStarted \/ BotStopped \/ OutputDone

Fairness ==
  /\ WF_vars(Task) /\ WF_vars(Downstream) /\ WF_vars(CutArrives) /\ WF_vars(FallSilent)
  /\ WF_vars(BotStarted \/ BotStopped) /\ WF_vars(OutputDone)
  /\ WF_vars(Resume) /\ WF_vars(UserStopped)

Spec == Init /\ [][Next]_vars /\ Fairness

-----------------------------------------------------------------------------
(* Properties. *)

Phases == {"free", "preparing", "playing", "stopping", "ended"}

\* Types, and what the queues may hold: the backlog of updates stays within its capacity
\* and the free floor names no output.
TypeOK ==
  /\ io.floor \in [items : SUBSET Items, phase : Phases, sent : 0 .. MaxFragments]
  /\ io.floor.phase = "free" <=> io.floor.items = {}
  /\ io.replies \in Seq(Replies) /\ io.urgent \in Seq(Urgents) /\ io.pending \in Seq(Updates)
  /\ Len(io.pending) <= UpdateCapacity
  /\ io.active \in {RequestOf[i] : i \in Replies} \cup {None}
  /\ io.superseded \subseteq {RequestOf[i] : i \in Replies}
  /\ io.played \cup io.lost \subseteq submitted /\ submitted \subseteq Items
  /\ {resuming, botOn, io.speaking, io.userSpeaking, io.seen} \subseteq BOOLEAN
  /\ Inputs <= MaxInputs

Texts == {"text", "sentence"}

\* "One output holds the floor at a time, from when its text starts until its last audio
\* has been sent to the hub": text that no interruption or departure is about to drop
\* belongs to the output that holds the floor.  So cutting that output cuts no other.
OneVoice ==
  \A k \in DOMAIN io.pipe :
    io.pipe[k].kind \in Texts /\ (\A l \in Markers : l < k) => io.pipe[k].out = io.floor.items

\* A sentence is never put together from two outputs, unless the first was cut short
\* without its end frame: a query cancelled it, or another participant's interruption
\* dropped the frame.
SentencesDoNotMix ==
  io.pipe # <<>> /\ Head(io.pipe).kind \in Texts \cup {"end"}
    => frag \ clipped \subseteq {Head(io.pipe).out}

Preparing(s) == IF s.floor.phase = "preparing" THEN s.floor.items ELSE {}

\* Whatever is cut, superseded, cancelled or withdrawn while a task, a combiner or the
\* pipeline is at work, an update handed in is in exactly one place: it waits ("pending and
\* queued urgent updates are kept"), it was dropped before it was heard, or it was heard.
\* And what was heard, replies included, is never heard again ("playing output is never
\* replayed").
HeardAtMostOnce ==
  /\ submitted \cap (Urgents \cup Updates) = (io.played \ Replies) \cup io.lost \cup Waiting(io)
  /\ io.lost \cap (io.played \cup Waiting(io)) = {}
  /\ io.played \cap (Waiting(io) \cup ToSet(io.replies) \cup Preparing(io)) = {}

\* "Urgent updates play in order": one that was selected and had to give way goes back
\* in front of those handed in after it.
UrgentInOrder ==
  /\ \A k, l \in DOMAIN io.urgent : k < l => io.urgent[k] < io.urgent[l]
  /\ \A i \in Unheard(io), k \in DOMAIN io.urgent : i < io.urgent[k]

\* Replies to a superseded request are neither queued nor spoken on.
SupersededIsSilent ==
  /\ Requests(ToSet(io.replies) \cup Preparing(io)) \cap io.superseded = {}
  /\ io.floor.phase = "playing" => Requests(io.floor.items) \cap io.superseded = {}

\* Updates selected to be spoken are dropped the moment somebody speaks or a producer
\* withdraws one of them; only a full backlog leaves them to the check before the first
\* chunk.
UpdatesGiveWay ==
  Preparing(io) \cap Updates # {} =>
    Quiet(io) /\ Preparing(io) \subseteq ToSet(io.pending) \cup io.lost

\* Everybody falls silent, every output settles, and then nothing is left to speak: no
\* done marker is missed and no wake-up forgotten.  A departure is the exception: an
\* announcement of speech that comes in after the participant was forgotten is taken for
\* that of its next session, and a sender that is released may never take it back.
FloorDrains ==
  <>[] \/ io.floor = Free /\ Waiting(io) = {} /\ io.replies = <<>>
       \/ io.departed /\ io.speaking /\ ~botOn
=============================================================================
