# XR AI: a verification project

TLA+ models of the protocols that carry XR AI's core (`agent-sdk/xr-ai-hub`,
`services/device-io-hub`, `agent-sdk/xr-ai-routing`, `agent-sdk/xr-ai-voice`), checked with
TLC on small instances, and proofs, checked by TLAPS, that all their safety properties
hold for every value of the constants. Section 1 is the inventory, 2 the plan, 3 to 8 the
models, 9 the runs, 10 the proofs, 11 what the checks found, 12 what is left out.

## 1. The system

XR AI connects clients (web, Android, iOS, native) through LiveKit to a *hub*, and
agents to the hub through ZeroMQ. Every process is one asyncio event loop; between
processes there is shared memory and ZeroMQ.

    client ── LiveKit ── RoomClient ─ ConnectorEndpoint ══ HubEndpoint ══ ProcessorEndpoint ─ agent
                                           │ ring (shared memory) │            (one per agent)

`══` is a PUSH/PULL socket towards the hub and a PUB/SUB socket from it; completed
files have a second pair of each.

| Component | State | Operations | Hard behaviour | What makes it correct |
|---|---|---|---|---|
| frame ring (`_shm.py`) | state of each slot in shared memory, write position | claim, write, read, release | two processes, no lock | a slot somebody reads is not rewritten |
| connector (`_connector.py`) | ring, sessions, sequence numbers, sockets | register, push frame/file/audio/data, joined, left, close | sends may wait and be cancelled; handshake is repeated | what it pushes is correlated with the session it was pushed in |
| hub (`_hub.py`) | rings, participants' connectors and sessions, held frames, agents' statuses and scopes, last published status, file events | one handler per message | late, repeated and stale messages; restarts of peers; callbacks awaited half-way | no slot leaks, no frame under a reader changes, clients are told the truth |
| file lane (`_hub.py`, `_processor.py`, `_file_ordering.py`) | pre-join buffer, active and departed sessions, callback queue | route, joined, left, expire | own sockets, so no order with lifecycle; worker threads | files stay in order and in their session |
| processor (`_processor.py`) | participants, subscriptions, generations, statuses, probes, pending frame requests | subscribe, set status, republish, probe, request frame, run, stop | coroutines interleave at every await; subscriptions take effect later | "ready" means routable |
| room client (`_room_client.py`) | sessions, track tasks, transfers, return-audio entries | LiveKit callbacks, spawned joins and departures | spawned tasks overlap, permissions and tracks take awaits | joins and departures are announced in order, transfers end with their session |
| return audio (`_room_client.py`) | one pacing pipe per participant | push, flush, drain, close | flush against backlog, session change | no audio after a flush or for another session |
| voice (`xr-ai-voice`) | floor, queued replies and updates, what is in the pipeline, gate, speech segments | pipeline of processors | interruption against playback and synthesis; tasks cancelled before they run; markers that come back late | one output sounds at a time, none twice, no notice is lost |
| routing (`xr-ai-routing`) | turns, joins, departures and the shutdown in progress, focus, history | submit, join, interrupt, left, stop | each cancels the others and waits for them; destinations ignore cancellation or fail | superseded work decides nothing, a departure leaves nothing |
| conversation | history, compaction | commit | concurrent turns | history is what was said, in order |
| runtime, interaction | agents and tasks, outputs | start, stop, emit | failure of one of several | everything started is stopped |
| media capture | recordings and their parts | start, stop, finalize | participant leaves during finalization | a recording is finalized once |
| launcher, vLLM containers | processes, containers | start, probe, tear down | partial failure of a start | nothing survives its owner |
| model services and clients, samples, client platforms | — | requests | — | out of scope, see 12 |

The full list, with the status of every part, is in `PROJECT.json` (`components`);
`hazards` there lists what is hard to test, each at its line, with the properties
that cover it.

## 2. Plan

The order follows the path of the data: what every agent depends on comes first.
Done, in this order: `FrameRing` with the abstract `LatestFrame`, `AgentReadiness`,
`FileLane`, `AgentRouter`, `RoomClient`, `VoiceFloor`. They meet where the real components
do: `RoomClient` produces the joins, departures and files that `FrameRing`,
`AgentReadiness` and `FileLane` take as given (`EndpointFollowsRoom`,
`NoFileAfterDeparture`); `AgentRouter` is what answers the queries `VoiceFloor` takes in
and hands it the replies it arbitrates.

Left, in the order of what they add:

1. `FrameRequests`: `request_frame()`: coalescing, timeouts, cancelled callers,
   requests the hub does not answer, the live-frame cache.
2. `Registration`: the repeated handshake, lost acknowledgements, a ring recreated
   between attempts; shown to implement the `Register` step of `FrameRing`.
3. `FileDelivery`: the processor's stage of the file lane with its bounded callback
   queue, composed with the hub's.
4. Media capture, the launcher, conversation (`_manager.py`, `_context.py`), the voice
   gate, the agent runtime.

Every safety property the runs check is a theorem (section 10). Worth proving next: that
fewer hypotheses do, `SignalsStayReadable` and `NothingLeaks` for several connectors whose
participants do not move, `ReadyMeansRoutable` for agents that start again once what their
predecessor sent is gone; and the same for the modules above as they are written.

## 3. `FrameRing`: video frames between connector and hub

*State.* `ring[c]` is the ring of the connector process `c`: per slot the header's
state, and as one number `frame` the header's metadata and the pixels. `pos` is
`_write_pos` (modulo the slots), `push` the `push_frame()` call a connector's loop is in,
`sess` and `streams` its sessions and running `_stream_video` tasks, `chan` what it
has sent and the hub has not received. `registry`, `pconn`, `psess` and `latest`
are the hub's `_ring_registry`, `_participant_connector`, `_participant_sessions` and
`_latest_slots`.

*Actions.* `Claim`, `Commit`, `Send` are the three parts of `push_frame()` another
process can see (WRITING mark, READY mark, signal); `Full` is the refusal. `Join`,
`Leave`, `StartStream`, `EndStream` are the transport's callbacks; `EndStream` may
withdraw a signal whose `send()` waits (`SendMayBlock`). `Crash` loses what is not on
the wire. The hub handles one message per step: `Register`, `HubJoined`, `HubLeft`, and
three outcomes of a frame signal (`HubFrameUnknown`, `HubFrameRejected`, `HubFrame`).
`_release_held_slot` is `DropHolds`.

*Abstractions.* Every frame has metadata of its own, as sequence number and capture
time make likely. One `Conns` element is one process; a restart is a second element
with the same `IdOf`. `release_slot` and the mark of a slot are atomic (a few bytes
written by one process that alone may write them in that state). Frames are copied to
readers inside one hub step, so `latest` and the ring behind it are all a
reader can see. A process registers its one ring until it is acknowledged: a repeated
registration, which the hub answers without attaching anything (`_hub.py:886`), and the
refusal of a segment that is missing or incompatible (`:891-904`), are left out.

*Properties.* `HeldFrameStable`, `OneHolderPerSlot`, `HoldsAreLive` (what the
hub holds), `SlotsAccounted` (nothing leaks), `LiveSessionsStay` (a late departure does
not end a newer session), `WrittenFramesAreShown`, `FullRingDrains` (progress), and
`RefinesLatestFrame`: to its readers the pair is the register `LatestFrame` describes.

*Fairness.* Weak, for `Commit`, `Send` and the hub's step: the loops run, the hub
never stops receiving. Joins, frames and departures need not happen.

## 4. `AgentReadiness`: when a client is told "ready"

*State.* The hub's `_participant_sessions`, `_agent_scope`, `_agent_status` and
`_published_status` (`session`, `scope`, `record`, `published`); the hub's PUB socket
(`linked`, `live`: which subscriptions it has applied); three channels per agent
(`out`, `inq`, `cmds`), ordered each and not with each other; the agent's
`_participants`, `_subscribed`, generations, statuses, and its running
`_send_status()` coroutines (`tasks`).

*Actions.* One per hub message (`HubAttach`, `HubDetach`, `HubStatus`, `HubProbe`,
`HubRoster`, `Connect`, `Disconnect`), one per dispatched message of the agent
(`DispatchJoined`, `DispatchLeft`, `DispatchEcho`), and the application's calls
(`SetStatus`, `SetStatusOf`, `Choose`, `Republish`, `Start`, `Stop`). A coroutine is cut
where it waits: `Send` runs it to its first probe, `DispatchEcho`, `Retry` and `Timeout`
take it on. A token is the number of the coroutine that sent it and the generation it
probes; a token is never reused, so an echo is matched by both.

*Abstractions.* A probe is repeated only when none of its copies is under way
(`Retry`): more copies change nothing but the length of the queues. The retries' UNSUBSCRIBE
and SUBSCRIBE of the token's topic are not commands of their own. `Republish` serves one
participant per step, and one such coroutine at a time, where the code serves them in a
loop. A set of coroutines that wait behind one barrier is one coroutine with several
participants (`rest`). A process starts again only when the hub has taken what its
predecessor left (`Start`), and asks for the roster when its link is up
(`CatchUp`; the code waits 0.1 s). The file lane's probe and filters are not modelled.
The way from the hub to the client is not either: "told" means published. Every status
names its agent; one that does not, or is malformed, is passed on as it is (`_hub.py:306-311`,
`:809-813`) and has no part in the aggregate. After `stop()` the model's agent dispatches
nothing, where the code may still dispatch the one message a pending receive returns
(`_processor.py:743-755`).

*Properties.* `PublishedIsAggregate`, `ReadyIsRoutable`, `RoomBecomesReady`.

*Fairness.* Weak for the hub, ZeroMQ's delivery of subscriptions, the agent's dispatch
and its coroutines; strong for `Republish`, since `_reannounce_status()` calls it every
2 s for ever, so a call that is possible again and again is made.

## 5. `FileLane`: files through the hub

*State.* The connector's sessions and transfers in the encoder (`csess`, `uploads`);
the two sockets (`life`, `lane`); the receive loop's table and the event whose
callbacks it awaits (`sess`, `telling`); the queue between it and the file task
(`events`); the orderer's `_active`, `_pending`, `_departed`; what the file task is
doing (`file`, `decoded`, `todo`, `encoding`).

*Actions.* Connector: `Join`, `Leave`, `Admit`, `PushFile`. Receive loop: `TakeEvent`,
`CopyEvent`, separate because the participant callbacks are awaited in
between. File task: `TakeFile`, `Decode`, `ApplyEvent`, `Route`, `Encode`, `Publish`,
cut at every await. `Expire` and `Forget` are deadlines.

*Abstractions.* A session is a number per participant, increasing; every file carries
one (the room client always sets it, and `push_file()` fills it in). A session that
was forgotten is not joined again. Deadlines are choices, in the order the code's
queues give them. `lapsed` remembers the files that a deadline or a full buffer cost;
`MaxVisits` bounds the sessions of all participants together.

The code's list comprehensions over the buffer are `Only` of `Subsequences`, a recursive
function that keeps the elements in a set: what `SelectSeq` does, in a form
that can be proved about (10).

*Properties.* `PublishedInOrder`, `PublishedInSession`, `WaitsForJoinOnly`, and
`FilesArrive`: what is in the lane is published unless its session ends, its join's
deadline passes or the buffer is full.

*Fairness.* Weak for the receive loop and for the file task; worker threads finish.

## 6. `AgentRouter`: turns, departures and shutdown of an agent

*State.* A *job* is a turn, from `_submit()` to the end of its task, or a join; its
`phase` names the await it is in, and it carries what the coroutine has in its locals
(destination, candidates, who declined, what it has sent). `gen`, `task`, `joining`,
`focus`, `used`, `hist`, `ready`, `departed`, `epoch`, `life`, `locks` are the router's
tables; `dep` and `stop` the departures and the shutdown in progress. Outside the
router, `owns` is what destinations hold for a participant and `shown` the status it
was shown last. Identities the code compares with `is` are numbers.

*Actions.* The calls (`Submit`, joins, `Left`, `Interrupt`, `StopCall`); the steps of a
turn from one await to the next (admission, asking for acceptance, acknowledging,
answering, closing, failing); a cancellation delivered (`Cancelled`), swallowed (`Ignore`)
or made by the caller (`Abandon`); the steps of a departure and of the shutdown. Each of
them may fail where the code catches a failure.

*Abstractions.* A caller that finds a lock free may be overtaken by another (asyncio's
locks are fair: the model has more orders, not fewer). `Close` is a step of its own also
when there is no acknowledgment task to wait for. Setting a status does not fail; the output
callback does not swallow cancellation; the callers of `_submit()` and join are not
cancelled while they wait for the admission lock. What is emitted counts when the callback is called, an
acknowledgment when it is delivered. Samples of answer times and the trimming of a history
to its byte budget are left out: a history is the set of the turns remembered.

*Properties.* `OneTurnAtATime` (also: cleanup runs alone), `OwnersAreKnown` (a destination
that holds state for a participant will be told of its departure), `DepartureLeavesNothing`
(so a history is of one lifecycle), `ShownInOrder`, `OnlyTheCurrentTurnDecides`; and
`EverythingEnds`, for turns, departures and the shutdown.

*Fairness.* Weak for every step of a job, a departure and the shutdown: the loop runs
what is ready, and destinations, the decision service and the hooks return (the code
puts timeouts on what is remote). Nobody has to call, fail or swallow anything.

## 7. `RoomClient`: sessions, transfers and return audio in the room

*State.* `phase` of the client; `sess` is `_participant_sessions`, `conn` the connector
endpoint's own table; `spawned` the handlers not yet started, `leaving` those of
`_handle_left()` in an await; `files` the transfers with the session they were opened
for; `entry`, `tracks`, `perms` the return-audio table, each track with its source and its
pacing pipe (`queue`, `queued`, `flag`, the frame in the drainer's hand), and what LiveKit
lets a participant hear; `call` the return callback the receive loop is awaiting.

*Actions.* LiveKit's callbacks (`Enter`, `Exit`), the handlers they spawn (`HandleJoined`;
`HandleLeft`, `NotifyLeft`, `HandledLeft`, one per await), `Connect` and `Greeted`, the
three parts of `disconnect()`; `OpenFile`, `ReadFile`, `PushFile`, `FileDone`;
`SendReturnAudio` with its awaits (`OldClosed`, `Published`, `PublishFails`, `Discarded`),
`FlushReturnAudio`, and the drainer (`Drain`, `Captured`). `Play` is LiveKit.

*Abstractions.* `capture_frame()` puts its frame into LiveKit's queue at once and returns
when there is room. A frame's length is a small number; `Length` adds up those of a backlog,
where the code adds and subtracts as it goes. `disconnect()` cancels the handlers in flight, so the pipe
of an entry one of them had already taken out of the table is not closed; a stale departure that returns
early keeps the subscription it was counted for (`_connector.py:421`): the model counts no
subscriptions. Incoming tracks, image capture, data packets and
the chunks of a byte stream are left out.

*Properties.* `OwnTrackOnly` (a participant hears a track that was made for it and, once the
departure before is handled, for its present session),
`NoFileAfterDeparture`, `EndpointFollowsRoom`, `FlushSilences` (what was sent before a
flush is not heard after it, wherever it was), `StaleTracksGo`, `BacklogDrains`.

*Fairness.* The loop runs its tasks, transfers end (they are timed), LiveKit answers and
plays.

## 8. `VoiceFloor`: who may speak to a participant

*State.* `io` is the entry of one participant in the IO processor's tables: `floor`
(`_floor`, with the phase of the output and of its task), `replies`, `urgent`, `pending`,
`active`, `superseded`, `speaking`, `userSpeaking`, `seen`, and `pipe`, what it has pushed and
TTS and the transport have not worked off. `frag` is TTS's text without a sentence end, `botOn` and
`up` what the transport has announced and what is on its way upstream. All the code's state is per
participant, so one is modelled; another one appears as `OtherInterruption`, which makes
Pipecat drop this participant's queued frames unless they are uninterruptible.

*Actions.* The agents' calls (`EnqueueReply`, `EnqueueUrgent`, `EnqueueUpdate`,
`Withdraw`), one action per frame the processor handles (`Query`, `Interruption` and its
second half `Resume`, `UserStarted`, `UserStopped`, `BotStarted`, `BotStopped`,
`OutputDone`, `ParticipantLeft`), the steps of the output's task (`Speak`, `Fragment`,
`EndStream`, `Cleanup`), and what happens downstream (`Buffer`, `Sentence`, `EndOfResponse`,
`ReturnDone`, `CutArrives`; `FallSilent` is Pipecat's). Handlers are compositions of
operators on the entry, one per method of the class (`Stop`, `Cut`, `BargeIn`,
`StartNext`, `Recheck`, ...), called in the order the code calls them.

*Abstractions.* Pushing a frame does not suspend, so a handler is one step; a cancelled
task does nothing but its cleanup. A departure is one step too, where the code awaits the application's
`_notify_left` before it forgets the participant (`io.py:308`): nothing read before that await is
used after it. Joining updates and combining them are one thing: the
task speaks the batch at any time after its selection. An output is named by its items.
TTS and the transport are one queue: both are emptied by the same interruption and work in
order. An interruption overtakes what was pushed before it; done markers it overtakes may
survive. Fewer than 256 requests are superseded (`_SUPERSEDED_CAPACITY`). The delivery of
queries, the closing of streams, captions and shutdown are left out.

*Properties.* `OneVoice`, `SentencesDoNotMix`, `HeardAtMostOnce`, `UrgentInOrder`, `SupersededIsSilent`, `UpdatesGiveWay`, and
`FloorDrains`: the invariants that `tests/test_voice_floor.py` samples with random
interleavings, and those the reference (`docs/source/reference/agent-sdk-voice.md:117`)
promises beyond them.

*Fairness.* Weak for output tasks (streams are closed after an idle timeout), for TTS and
the transport, for the delivery of what they send upstream, for the interruption callback,
and for the end of the participant's utterance.

## 9. Runs

Every module that TLC runs is instantiated by an `MC` module with model values for the
names. Deadlock is not checked: the bounds let every instance stop. In every module, the
operators under the heading "Fault" are wrong variants of an operator next to
them; no specification uses them, they state which bug each property would notice.

| Run | Instance | Shows |
|---|---|---|
| `frame_churn` | 1 connector, 1 participant, 2 tracks, 3 slots, 5 frames, 3 sessions, tracks end before sessions | no leak, no loss, full rings drain |
| `frame_moves` | 2 connectors, 2 tracks, 2 slots, 3 frames, repeated signals, tracks may outlive sessions | held frames stay intact and alone; a departure ends its own session only |
| `frame_restart` | 2 processes under one id, crashes, blocked sends | nothing held in a ring or for a participant that is gone; readers of a track see a register |
| `readiness_room` | 1 auto-subscribing agent, 2 participants | ready is routable when probes are answered |
| `readiness_converge` | 1 agent, 2 statuses, 4 coroutines | a willing room becomes ready for good |
| `readiness_peers` | 2 agents, one that chooses whom it serves; stops, crashes, timeouts | what was published is the aggregate; state stays well formed |
| `file_lane` | 2 participants, 3 sessions, 2 files, buffer and queues of 1, expiry | order, session, buffer discipline; a file that overtakes its join arrives |
| `router_turns` | 1 participant, 2 destinations, 2 queries or joins, a departure, an interruption, acknowledgments | superseded work decides nothing; a departure leaves nothing; the order of what is shown |
| `router_shutdown` | 1 destination, 2 direct turns or joins, a departure, a shutdown | everything that waits for something else ends |
| `room_client` | 1 participant, 2 sessions, 2 chunks of audio, 1 file, 1 flush, disconnect | tracks, transfers and announcements go with their session; the backlog drains and flushes silence |
| `voice_floor` | 3 replies to 2 requests, 2 urgent and 3 ordinary updates of 2 producers, any 4 inputs | one voice, nothing twice, no notice lost, the floor drains |
| `frame_leak` | the smallest instance | section 11 |

*Bounds.* Two tracks and two slots are what it takes for one track's release to hit
another's slot; three slots let both tracks hold one and still write; five frames wrap the
ring. Three sessions give a stale departure, a current one and a next one. Two
participants are needed for a subscription issued during another's probe, two agents for
an aggregate. A file buffer of one overflows with two files, which
three sessions let be of one participant or of two. One participant is enough for `AgentRouter`,
`RoomClient` and `VoiceFloor`, whose tables and locks are per participant (that a participant hears
no other's track is a matter of the theorem `OwnTrackHeard`, and was checked apart from
the runs for two participants of one session each); two turns give a
superseded one and its successor, two sessions a stale track and a new one, two chunks a frame in
the drainer's hand and one behind it. In `voice_floor` any mix of four calls and events is tried (items handed in,
queries, stop phrases, utterances, departures); withdrawals come on top. Three updates overflow a
backlog of two; a stream has one fragment (two were checked apart from the runs, with the same result), and the
transport announces again when its last announcement is in. Queue bounds of 2 to 4
keep a producer from running ahead further than the interleaving needs; a full queue only
delays its sender (`MaxTasks` in `readiness_converge` is large enough never
to delay one: at most one coroutine per session, one per `set_status()` and one
republication).

Symmetry is used in `frame_moves` only, which checks invariants and one action property.

## 10. Proofs

Each module with properties has its proofs beside it, in `<module>_proofs`;
`VoicePipe_proofs` continues `VoiceFloor_proofs`, and `Subsequences_proofs` has what several of them
need. A theorem holds for every value of the constants that satisfies the module's `ASSUME`:
any number of participants, agents, tracks, slots, files, chunks, and any bound. None
uses fairness. Where a theorem needs more it says so in its statement.

| Module | Theorem | Property |
|---|---|---|
| `FrameRing_proofs` | `TypeCorrect`, `HeldFramesAreStable`, `HoldersAreAlone`, `HoldsStayLive` | `TypeOK`, `HeldFrameStable`, `OneHolderPerSlot`, `HoldsAreLive` |
| | `TracksAreRegisters`, for `OneConnector` | `RefinesLatestFrame` |
| | `DeparturesEndTheirOwn` | `LiveSessionsStay` |
| | `SignalsStayReadable`, for `OneProcess` | no run's: `QueuedSignalsReadable` of the same module |
| | `NothingLeaks`, for `OneProcess` and `Calm` | `SlotsAccounted` |
| `AgentReadiness_proofs` | `TypeCorrect`, `PublishedIsCurrent` | `TypeOK`, `PublishedIsAggregate` |
| | `ReadyMeansRoutable`, for `Undisturbed` | `ReadyIsRoutable` |
| `FileLane_proofs` | `TypeCorrect`, `OrderKept`, `WaitsOnly`, `SessionChecked` | `TypeOK`, `PublishedInOrder`, `WaitsForJoinOnly`, `PublishedInSession` |
| `AgentRouter_proofs` | `TypeCorrect`, `OneTurn`, `OwnersKnown`, `DepartureClean`, `ShownOrder`, `CurrentDecides` | `TypeOK`, `OneTurnAtATime`, `OwnersAreKnown`, `DepartureLeavesNothing`, `ShownInOrder`, `OnlyTheCurrentTurnDecides` |
| `RoomClient_proofs` | `TypeCorrect`, `OwnTrackHeard`, `DepartureEndsFiles`, `EndpointFollows`, `FlushIsHeard` | `TypeOK`, `OwnTrackOnly`, `NoFileAfterDeparture`, `EndpointFollowsRoom`, `FlushSilences` |
| `VoicePipe_proofs` | `TypeCorrect`, `FloorIsOneVoice`, `SentencesStayApart`, `HeardOnce`, `UrgentOrderKept`, `SilenceKept`, `WaysGiven` | `TypeOK`, `OneVoice`, `SentencesDoNotMix`, `HeardAtMostOnce`, `UrgentInOrder`, `SupersededIsSilent`, `UpdatesGiveWay` |

*`FrameRing`.* `HeldFrameStable` is not inductive. `IInv` adds that a frame number names one
frame, no larger than the frames pushed, that a slot a connector is writing is marked
so and holds what it is writing, and that a signal and its slot agree on whose frame it is.
The heart of the argument: a slot that is held is READY, so `NextFree` cannot claim
it; the only ways to free it are a release of the hold itself, and `HubFrameRejected`, which
looks for holds first. `OneHolderPerSlot` follows: a slot holds one frame of one track.

The refinement needs an order on top (`RInv`): signals of a process are queued in the order of their
frames, and what the hub holds of a ring is no newer than what is still to come from
it, so a track moves on to newer frames only. Frames are numbered over
all connectors and signals of two connectors reach the hub in any order, hence `OneConnector`:
one connector id, any number of incarnations with crashes.

`DInv`, for `LiveSessionsStay`, says that sessions have numbers of their own and that a queued
departure is of a session that is over at every connector; crashes and restarts included.

`QInv` adds, for `QueuedSignalsReadable` (the slot a queued signal names still holds its
frame, so `HubFrameRejected` never frees a good one), that copies of a signal adjoin, and come first
when their frame is held already: so `HubFrameRejected` and the release of an older frame
cannot hit a slot that a later signal names. A second process can: its predecessor's
signals are looked up in the new ring, and those of a participant that moved in the other
connector's. Hence `OneProcess`; it may die, its sends may block and be cancelled, signals be
repeated, tracks outlive their sessions.

`KInv` adds, for `SlotsAccounted`, that the hub will know the participant of every signal when it
comes to it. That needs `Calm`: tracks end before their session (otherwise the run
`frame_leak` happens), sends are not cancelled, the process does not die; each of the
three loses a READY slot when it fails.

*`AgentReadiness`.* For `PublishedIsAggregate` the shape of the hub's tables is enough:
`AggregateIsLocal` shows that an aggregate depends on one participant's part of
the tables, `PublishRestores` that a publication to whoever a change touched restores the
invariant, and one step per hub action that it publishes to all of them; crashes, lost
messages and timeouts included. `ReadyIsRoutable` needs the way of a subscription from the
application to the socket (`RInv`): it is live or its command is under way, no command is
against it, the generations that were confirmed have been applied, and so whoever has a
status of an agent, recorded or on its way, is routed to it. `Undisturbed` says what
that depends on: no probe times out (then "ready" goes out unconfirmed), each participant comes once
(the "ready" of its last session may reach the next), an agent id is started once (the
next process inherits the statuses), and the application of an agent without
`auto_subscribe` chooses its participants once (one
that is taken on again is shown its old status). Agents may stop and crash. Section 11
has what happens otherwise.

*`FileLane`.* `OrderInv` follows the files through every place they can be: in the lane, decoded,
in the buffer, released, published, rising in each and from each to the next; and the
joins on their way, which are newer than the session the orderer takes for the active one and than
those of the files it has released. The step that needs it is a join that releases buffered
files behind files of an earlier session. `WaitsForJoinOnly` and `PublishedInSession`
follow from what the orderer and the file task test.

*`AgentRouter`.* `AInv` has two halves. Per job, `Sane`: what a coroutine may have sent and
hold in each of its phases. Over the tables: a task is in the table until it has ended
(`Tables`); a call that waits and is not out of date was made in the present lifecycle, waits for the
present lock, and has told every task of its participant to end (`Waiters`); a departure or shutdown
that goes on to clean up has seen them end (`Ended`); what is kept of a participant is dropped
in the order the code drops it (`Kept`); turns at work and turns remembered are of the
present epoch (`Present`); "processing" is shown while a published turn is at work (`Lit`). The hard
steps are the ones that give a lock away.

*`RoomClient`.* Two invariants. `Sessions`: handlers wait in the order of their sessions;
the endpoint is never ahead of a join that waits; it has a participant's last session or
none, unless that session's join waits; and when the session is over its departure
comes after that. So a departure that waits for its transfers while its participant
rejoins finds the new session in the endpoint's table and leaves it alone. It holds until
`disconnect()` cancels the handlers. `Audio`: an entry of the table is a track that is up, made
for its participant, that no departure and no callback is about to close; LiveKit's permissions
are those of the table, but for tracks that are closed; a track that is not up has no frames, and
one in the table has only frames from behind its participant's last flush. `OwnTracks` relates
the two: an entry is of the present session or of one whose departure waits. Files need only that
no handler of a departure is for a session that is there.

*`VoiceFloor`.* The handlers are compositions of operators on the entry of a participant, so
the invariant (`IInv`) is one of entries, each operator is shown once to keep it, and an action keeps it
because its operators do. `VInv` adds the frames on their way: text that no interruption behind it
will drop is that of the output on the floor (`FloorOwnsText`), and between the texts of two
outputs a response ends, unless the first was cut short (`TextEnds`).

*Recursive functions.* `Only` and `Length` are recursive functions, and nothing is known of one
unless some function solves its equations. The library's induction theorems cannot be
applied (they take an operator), so `Subsequences_proofs` derives induction over a set of
numbers from their being well ordered (`LeastNatural`, `SetInduction`), shows that
solutions exist for every length, and concludes what the models need: an embedding of `Only(q, S)`
in `q`, its elements and its order; that `Length` is additive and does not depend on chunks
that come later.

*Hypotheses.* Each theorem's property but `QueuedSignalsReadable`, a step on the way to
`SlotsAccounted`, is checked by a run of section 9; where the theorem has
hypotheses the run's constants satisfy them, so they can be met.

*Only model-checked*: liveness (`WrittenFramesAreShown`, `FullRingDrains`, `RoomBecomesReady`,
`FilesArrive`, `EverythingEnds`, `StaleTracksGo`, `BacklogDrains`, `FloorDrains`), which is out of
the prover's reach, as is the fairness it rests on.

## 11. What the checks found

`frame_leak` is a run TLC ends with a counterexample (`PROJECT.json`, `findings`): a frame
signal that arrives behind its participant's departure (the track's task can outlive the
session) is dropped without releasing its slot, which is lost for the life of the ring.

Behaviours of the code that the models show and no run is spent on:

- A status that arrives behind its participant's departure is recorded, and is what
  the next client with that id is told on joining (`_hub.py:312`).
- An agent that dies and restarts under a fixed `agent_id` inherits its predecessor's statuses.
- Dropping a participant and taking it on again shows the old "ready" before the new
  SUBSCRIBE is live.
- When the probe times out, "ready" is published unconfirmed ("Publish anyway rather than go
  silent", `_processor.py:648`), although `docs/source/reference/agent-sdk-hub.md:100` says that a
  live subscription must be confirmed first: with `MayTimeout` set, `ReadyIsRoutable` does not hold.
- An interruption that hits a turn of the router in its last report can lose the "idle".
- A reply that a query cancels in the middle of a sentence is followed by its done marker,
  but by no end frame: the rest of the sentence stays in TTS's buffer, and unless an
  interruption comes in between, the next output's first sentence begins with it.
  `TextResponseEndFrame` is documented as following the text of every utterance
  (`_frames.py:126`). `SentencesDoNotMix` holds with that exception only; another participant's
  interruption, which drops a queued end frame, is the second one.
- An announcement of speech that comes in after its participant was forgotten marks the
  next session as speaking; whether it is taken back is up to Pipecat. `FloorDrains` excepts it.
- A streamed reply whose task is cancelled before it first ran is never closed, and its
  producer can block in `send()` (`io.py:654` knows of the task, not of the stream).

- A "ready" can outlive the session it was sent in: one that is on its way when its
  participant leaves is published to the participant's next session, before the agent
  has subscribed again. `readiness_room` has one session per participant; with two,
  `ReadyIsRoutable` does not hold.

What the checks rest on: `SlotsAccounted`, `WrittenFramesAreShown` and
`FullRingDrains` are checked with `OrderedTeardown` and sends that do not block;
`ReadyIsRoutable` with probes that are answered, agents that do not choose anew and one
session per participant. The proofs say which of these are needed (section 10): for
`QueuedSignalsReadable` neither of the first two is.

## 12. Not modelled

Audio, data, control and capture messages, which the hub forwards and keeps no state of;
the codec and the layout of the segment; what section 2 lists as left, which has protocol
state and can be modelled.
Model services and clients, samples, client platforms, deployment, container formats
and start-up glue have no protocol state of their own, or are I/O around engines outside
this repository.
