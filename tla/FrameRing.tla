------------------------------ MODULE FrameRing ------------------------------
(***************************************************************************)
(* The video path from a connector to the hub.                             *)
(*                                                                         *)
(* A connector owns a shared-memory ring of NumSlots slots.  It claims a   *)
(* FREE slot, marks it WRITING, copies the pixels, marks it READY and      *)
(* pushes a FRAME_SIGNAL that names the slot (agent-sdk/xr-ai-hub/         *)
(* xr_ai_hub/_shm.py, services/device-io-hub/device_io_hub/ipc/            *)
(* _connector.py).  The hub reads the slot when the signal arrives and     *)
(* HOLDS it, un-released, as the latest frame of its track until the next  *)
(* frame of the track, the departure of the participant or the replacement *)
(* of the ring (services/device-io-hub/device_io_hub/ipc/_hub.py).         *)
(*                                                                         *)
(* Each element of Conns is one connector process (one incarnation): it    *)
(* has a ring of its own and a FIFO channel of its own to the hub's PULL   *)
(* socket, which takes the channels in any order.  Two incarnations with   *)
(* the same IdOf are a connector before and after a restart.               *)
(*                                                                         *)
(* A frame is a number.  It stands for the metadata the slot header and    *)
(* the signal share (sequence number, capture time, size, format), taken   *)
(* to differ from frame to frame, and for the pixels copied with it.       *)
(***************************************************************************)
EXTENDS Naturals, Sequences, FiniteSets

CONSTANTS
  Conns,            \* connector processes
  ConnIds,          \* connector ids
  IdOf,             \* the id each process registers under
  Pids, Tracks,     \* participants and their video tracks
  NumSlots,         \* slots in each ring
  MaxFrames,        \* bound: frames pushed
  MaxSess,          \* bound: participant sessions opened
  MaxQueue,         \* bound: messages queued from one connector
  OrderedTeardown,  \* the transport ends a participant's tracks before its session
  SendMayBlock,     \* the connector's PUSH socket may reach its high-water mark
  MayRepeat,        \* a FRAME_SIGNAL may arrive twice
  MayCrash,         \* a connector process may die
  None

Slots  == 0 .. NumSlots - 1
Frames == 1 .. MaxFrames
Keys   == Pids \X Tracks
States == {"free", "writing", "ready"}

Holds  == [ring : Conns, slot : Slots, frame : Frames]
Writes == [slot : Slots, frame : Frames, key : Keys, phase : {"writing", "ready"}]
Events == [type : {"joined", "left"}, pid : Pids, sess : Nat]
Signals == [type : {"frame"}, key : Keys, slot : Slots, frame : Frames]

ASSUME FrameRingAssumption ==
  /\ NumSlots \in Nat \ {0} /\ MaxFrames \in Nat /\ MaxSess \in Nat /\ MaxQueue \in Nat
  /\ IdOf \in [Conns -> ConnIds]
  /\ {OrderedTeardown, SendMayBlock, MayRepeat, MayCrash} \subseteq BOOLEAN
  /\ None \notin Conns \cup ConnIds \cup (Pids \X Tracks) \cup Nat
  /\ None \notin Holds \cup Writes

\* A slot: the state and metadata in its header, and whose pixels it holds.
Cell(st, frame, key) == [st |-> st, frame |-> frame, key |-> key]
Cells == [st : States, frame : Frames \cup {None}, key : Keys \cup {None}]

VARIABLES
  ring,      \* ring[c][s]: the slots of c's ring
  pos,       \* pos[c]: ShmRingBuffer._write_pos, modulo NumSlots
  frames,    \* frames pushed so far
  alive,     \* connector processes that run
  acked,     \* connector processes whose registration the hub acknowledged
  push,      \* push[c]: the write_frame()/send() the connector is in, or None
  sess,      \* sess[c][p]: session the connector has for p, 0 for none
  sessions,  \* sessions opened so far
  streams,   \* streams[c]: tracks with a running _stream_video task
  chan,      \* chan[c]: messages from c not yet taken by the hub
  registry,  \* _ring_registry: id -> attached ring, or None
  pconn,     \* _participant_connector: participant -> id, or None
  psess,     \* _participant_sessions: participant -> session, 0 for none
  latest     \* _latest_slots: track -> held slot, or None

connVars == <<pos, frames, alive, push, sess, sessions, streams>>
hubVars  == <<acked, registry, pconn, psess, latest>>
vars     == <<ring, chan, connVars, hubVars>>

TypeOK ==
  /\ ring \in [Conns -> [Slots -> Cells]]
  /\ pos \in [Conns -> Slots]
  /\ frames \in 0 .. MaxFrames
  /\ alive \subseteq Conns /\ acked \subseteq Conns
  /\ push \in [Conns -> Writes \cup {None}]
  /\ sess \in [Conns -> [Pids -> Nat]]
  /\ sessions \in 0 .. MaxSess
  /\ streams \in [Conns -> SUBSET Keys]
  /\ chan \in [Conns -> Seq(Events \cup Signals)]
  /\ registry \in [ConnIds -> Conns \cup {None}]
  /\ pconn \in [Pids -> ConnIds \cup {None}]
  /\ psess \in [Pids -> Nat]
  /\ latest \in [Keys -> Holds \cup {None}]

Init ==
  /\ ring = [c \in Conns |-> [s \in Slots |-> Cell("free", None, None)]]
  /\ pos = [c \in Conns |-> 0]
  /\ frames = 0
  /\ alive = Conns /\ acked = {}
  /\ push = [c \in Conns |-> None]
  /\ sess = [c \in Conns |-> [p \in Pids |-> 0]]
  /\ sessions = 0
  /\ streams = [c \in Conns |-> {}]
  /\ chan = [c \in Conns |-> <<>>]
  /\ registry = [i \in ConnIds |-> None]
  /\ pconn = [p \in Pids |-> None]
  /\ psess = [p \in Pids |-> 0]
  /\ latest = [k \in Keys |-> None]

-----------------------------------------------------------------------------
(* The connector's end. *)

\* The connector's event loop is not inside write_frame()/send().
Idle(c) == c \in alive /\ push[c] = None

SendTo(c, m) == /\ Len(chan[c]) < MaxQueue
                /\ chan' = [chan EXCEPT ![c] = Append(@, m)]

\* A queue from which message i was withdrawn.
Without(q, i) == SubSeq(q, 1, i - 1) \o SubSeq(q, i + 1, Len(q))

IsFrameOf(m, k) == m.type = "frame" /\ m.key = k

\* A scan of the ring from slot `from` meets u before it meets s.
MetBefore(from, u, s) ==
  IF from <= s THEN from <= u /\ u < s ELSE from <= u \/ u < s

\* Faults, which runs must detect: a write position that never wraps, and a
\* claim that takes READY slots as well.
AfterNoWrap(s) == s + 1

NextNotWriting(c, s) ==
  /\ ring[c][s].st # "writing"
  /\ \A u \in Slots : MetBefore(pos[c], u, s) => ring[c][u].st = "writing"

\* _claim_slot(): the first FREE slot of a scan that starts at the write position.
NextFree(c, s) ==
  /\ ring[c][s].st = "free"
  /\ \A u \in Slots : MetBefore(pos[c], u, s) => ring[c][u].st # "free"

\* _write_pos moves past the slot just claimed.
After(s) == IF s = NumSlots - 1 THEN 0 ELSE s + 1

\* notify_participant_joined(): a fresh session, announced to the hub.
Join(c, p) ==
  /\ Idle(c) /\ sess[c][p] = 0 /\ sessions < MaxSess
  /\ sessions' = sessions + 1
  /\ sess' = [sess EXCEPT ![c][p] = sessions + 1]
  /\ SendTo(c, [type |-> "joined", pid |-> p, sess |-> sessions + 1])
  /\ UNCHANGED <<ring, pos, frames, alive, push, streams, hubVars>>

\* notify_participant_left(), after the transport reported the disconnect.
Leave(c, p) ==
  /\ Idle(c) /\ sess[c][p] # 0
  /\ OrderedTeardown => \A t \in Tracks : <<p, t>> \notin streams[c]
  /\ sess' = [sess EXCEPT ![c][p] = 0]
  /\ SendTo(c, [type |-> "left", pid |-> p, sess |-> sess[c][p]])
  /\ UNCHANGED <<ring, pos, frames, alive, push, sessions, streams, hubVars>>

\* track_subscribed: start the track's _stream_video task.
StartStream(c, k) ==
  /\ Idle(c) /\ k \notin streams[c] /\ sess[c][k[1]] # 0
  /\ streams' = [streams EXCEPT ![c] = @ \cup {k}]
  /\ UNCHANGED <<ring, chan, pos, frames, alive, push, sess, sessions, hubVars>>

\* track_unsubscribed: cancel the task.  If it waits in send() behind a full
\* socket, the signal it was sending (the track's last) leaves the queue with
\* it, and the slot stays READY with no signal on the way.
EndStream(c, k) ==
  /\ Idle(c) /\ k \in streams[c]
  /\ streams' = [streams EXCEPT ![c] = @ \ {k}]
  /\ \/ UNCHANGED chan
     \/ \E i \in DOMAIN chan[c] :
          /\ SendMayBlock
          /\ IsFrameOf(chan[c][i], k)
          /\ \A j \in DOMAIN chan[c] : IsFrameOf(chan[c][j], k) => j <= i
          /\ chan' = [chan EXCEPT ![c] = Without(@, i)]
  /\ UNCHANGED <<ring, pos, frames, alive, push, sess, sessions, hubVars>>

\* push_frame() up to the WRITING mark; it needs an acknowledged registration.
Claim(c, k) ==
  /\ Idle(c) /\ c \in acked /\ k \in streams[c] /\ frames < MaxFrames
  /\ \E s \in Slots :
       /\ NextFree(c, s)
       /\ ring' = [ring EXCEPT ![c][s] = Cell("writing", frames + 1, k)]
       /\ pos' = [pos EXCEPT ![c] = After(s)]
       /\ push' = [push EXCEPT ![c] = [slot |-> s, frame |-> frames + 1,
                                       key |-> k, phase |-> "writing"]]
  /\ frames' = frames + 1
  /\ UNCHANGED <<chan, alive, sess, sessions, streams, hubVars>>

\* push_frame() when every slot is occupied: the sequence number is used up,
\* the scan comes back to where it began and the frame is dropped.
Full(c, k) ==
  /\ Idle(c) /\ c \in acked /\ k \in streams[c] /\ frames < MaxFrames
  /\ \A s \in Slots : ring[c][s].st # "free"
  /\ frames' = frames + 1
  /\ UNCHANGED <<ring, chan, pos, alive, push, sess, sessions, streams, hubVars>>

\* The pixels are in: write_frame() marks the slot READY and returns.
Commit(c) ==
  /\ c \in alive /\ push[c] # None /\ push[c].phase = "writing"
  /\ ring' = [ring EXCEPT ![c][push[c].slot].st = "ready"]
  /\ push' = [push EXCEPT ![c].phase = "ready"]
  /\ UNCHANGED <<chan, pos, frames, alive, sess, sessions, streams, hubVars>>

\* push_frame() sends the FRAME_SIGNAL.  The hub does not trust signals to be
\* sent once (its "duplicate frame signal" branch): with MayRepeat one may be.
Send(c) ==
  /\ c \in alive /\ push[c] # None /\ push[c].phase = "ready"
  /\ LET m == [type |-> "frame", key |-> push[c].key,
               slot |-> push[c].slot, frame |-> push[c].frame]
     IN \E copies \in {<<m>>} \cup (IF MayRepeat THEN {<<m, m>>} ELSE {}) :
          /\ Len(chan[c]) + Len(copies) <= MaxQueue
          /\ chan' = [chan EXCEPT ![c] = @ \o copies]
  /\ push' = [push EXCEPT ![c] = None]
  /\ UNCHANGED <<ring, pos, frames, alive, sess, sessions, streams, hubVars>>

\* The process dies, or closes its sockets with linger 0: what it has not yet
\* put on the wire is lost; no departure is announced.
Crash(c) ==
  /\ MayCrash /\ c \in alive
  /\ alive' = alive \ {c}
  /\ push' = [push EXCEPT ![c] = None]
  /\ sess' = [sess EXCEPT ![c] = [p \in Pids |-> 0]]
  /\ streams' = [streams EXCEPT ![c] = {}]
  /\ \E n \in 0 .. Len(chan[c]) : chan' = [chan EXCEPT ![c] = SubSeq(@, 1, n)]
  /\ UNCHANGED <<ring, pos, frames, sessions, hubVars>>

-----------------------------------------------------------------------------
(* The hub's end: HubEndpoint.run() handles one message at a time. *)

\* Faults: no check for a slot that is held already, or one that looks at the
\* ring only.
NeverHeld(r, s) == FALSE

HeldInRing(r, s) == \E k \in Keys : latest[k] # None /\ latest[k].ring = r

Held(r, s) == \E k \in Keys : /\ latest[k] # None
                              /\ latest[k].ring = r /\ latest[k].slot = s

\* Faults: slots that are not released, holds dropped without releasing their
\* slots, and holds that are not dropped at all.
KeepSlots(K) == ring

ForgetHolds(K) ==
  /\ UNCHANGED ring
  /\ latest' = [k \in Keys |-> IF k \in K THEN None ELSE latest[k]]

KeepHolds(K) == UNCHANGED <<ring, latest>>

\* release_slot() for the slots the tracks in K hold; a slot that is not READY
\* is refused.
ReleaseHeld(K) ==
  [r \in Conns |-> [s \in Slots |->
     IF /\ ring[r][s].st = "ready"
        /\ \E k \in K : latest[k] # None /\ latest[k].ring = r /\ latest[k].slot = s
     THEN [ring[r][s] EXCEPT !.st = "free"]
     ELSE ring[r][s]]]

DropHolds(K) ==
  /\ ring' = ReleaseHeld(K)
  /\ latest' = [k \in Keys |-> IF k \in K THEN None ELSE latest[k]]

\* _handle_registration() of a ring that can be attached, with the acknowledgement
\* it sends (the same ring again would only be acknowledged): another ring under
\* the same id first drops the frames held in the ring it replaces.
Register(c) ==
  /\ c \in alive /\ c \notin acked
  /\ acked' = acked \cup {c}
  /\ registry' = [registry EXCEPT ![IdOf[c]] = c]
  /\ DropHolds({k \in Keys : /\ latest[k] # None
                             /\ latest[k].ring = registry[IdOf[c]]})
  /\ UNCHANGED <<chan, connVars, pconn, psess>>

Take(c, type) ==
  /\ chan[c] # <<>> /\ Head(chan[c]).type = type
  /\ chan' = [chan EXCEPT ![c] = Tail(@)]
  /\ UNCHANGED <<connVars, acked, registry>>

\* PARTICIPANT_EVENT(joined): the newest event decides connector and session.
HubJoined(c) ==
  /\ Take(c, "joined")
  /\ LET m == Head(chan[c]) IN
       /\ pconn' = [pconn EXCEPT ![m.pid] = IdOf[c]]
       /\ psess' = [psess EXCEPT ![m.pid] = m.sess]
  /\ UNCHANGED <<ring, latest>>

\* Fault: a departure ends whatever session there is.
NeverStale(m) == FALSE

StaleDeparture(m) == psess[m.pid] # 0 /\ psess[m.pid] # m.sess

\* PARTICIPANT_EVENT(left): a departure of another session is ignored; else
\* every slot held for the participant is released.
HubLeft(c) ==
  /\ Take(c, "left")
  /\ LET m == Head(chan[c]) IN
       IF StaleDeparture(m)
       THEN UNCHANGED <<ring, pconn, psess, latest>>
       ELSE /\ pconn' = [pconn EXCEPT ![m.pid] = None]
            /\ psess' = [psess EXCEPT ![m.pid] = 0]
            /\ DropHolds({k \in Keys : k[1] = m.pid})

\* The ring a frame of participant p is read from, or None.
RingFor(p) == IF pconn[p] = None THEN None ELSE registry[pconn[p]]

\* read_slot(): READY, and header and signal agree.
Readable(r, m) == ring[r][m.slot].st = "ready" /\ ring[r][m.slot].frame = m.frame

\* FRAME_SIGNAL for an unknown participant or a connector with no ring.
HubFrameUnknown(c) ==
  /\ Take(c, "frame")
  /\ RingFor(Head(chan[c]).key[1]) = None
  /\ UNCHANGED <<ring, pconn, psess, latest>>

\* FRAME_SIGNAL that read_slot() rejects: the slot is freed unless it is held.
HubFrameRejected(c) ==
  /\ Take(c, "frame")
  /\ LET m == Head(chan[c])
         r == RingFor(m.key[1])
     IN /\ r # None /\ ~Readable(r, m)
        /\ ring' = IF ~Held(r, m.slot) /\ ring[r][m.slot].st = "ready"
                   THEN [ring EXCEPT ![r][m.slot].st = "free"]
                   ELSE ring
  /\ UNCHANGED <<pconn, psess, latest>>

\* Fault: the ring is the sender's, whatever has been registered since.
HubFrameFromSender(c) ==
  /\ Take(c, "frame")
  /\ LET m == Head(chan[c]) IN
       /\ RingFor(m.key[1]) # None /\ Readable(c, m)
       /\ IF Held(c, m.slot)
          THEN UNCHANGED <<ring, latest>>
          ELSE /\ ring' = ReleaseHeld({m.key})
               /\ latest' = [latest EXCEPT ![m.key] =
                    [ring |-> c, slot |-> m.slot, frame |-> m.frame]]
  /\ UNCHANGED <<pconn, psess>>

\* FRAME_SIGNAL accepted: the slot becomes the track's latest frame and the
\* slot it replaces is released.  A signal for a slot already held is ignored.
HubFrame(c) ==
  /\ Take(c, "frame")
  /\ LET m == Head(chan[c])
         r == RingFor(m.key[1])
     IN /\ r # None /\ Readable(r, m)
        /\ IF Held(r, m.slot)
           THEN UNCHANGED <<ring, latest>>
           ELSE /\ ring' = ReleaseHeld({m.key})
                /\ latest' = [latest EXCEPT ![m.key] =
                     [ring |-> r, slot |-> m.slot, frame |-> m.frame]]
  /\ UNCHANGED <<pconn, psess>>

HubStep(c) ==
  HubJoined(c) \/ HubLeft(c) \/ HubFrameUnknown(c) \/ HubFrameRejected(c) \/ HubFrame(c)

ConnStep(c) ==
  \/ \E p \in Pids : Join(c, p) \/ Leave(c, p)
  \/ \E k \in Keys : StartStream(c, k) \/ EndStream(c, k) \/ Claim(c, k) \/ Full(c, k)
  \/ Commit(c) \/ Send(c) \/ Crash(c)

Next == \E c \in Conns : ConnStep(c) \/ Register(c) \/ HubStep(c)

\* write_frame() runs to its end, an unblocked send() completes and the hub
\* takes what is queued: the event loops never stop serving their sockets.
Fairness == \A c \in Conns : WF_vars(Commit(c)) /\ WF_vars(Send(c)) /\ WF_vars(HubStep(c))

Spec == Init /\ [][Next]_vars /\ Fairness

-----------------------------------------------------------------------------
(* Properties. *)

\* A held view keeps showing the frame it was taken for: as long as the hub
\* holds a slot the producer cannot reclaim or overwrite it, whatever signals
\* are rejected, however participants move between connectors, and across
\* ring replacement (SlotView in _shm.py, _latest_slots in _hub.py).
HeldFrameStable ==
  \A k \in Keys : latest[k] # None =>
    ring[latest[k].ring][latest[k].slot] = Cell("ready", latest[k].frame, k)

\* No two tracks hold the same slot: each release frees a slot nobody else
\* is reading (the duplicate-signal check of the FRAME_SIGNAL handler).
OneHolderPerSlot ==
  \A j, k \in Keys :
    /\ latest[j] # None /\ latest[k] # None
    /\ latest[j].ring = latest[k].ring /\ latest[j].slot = latest[k].slot
    => j = k

\* Frames are held only for connected participants, and only in rings that are
\* still attached: nothing survives a departure (issue #143) or the closing of
\* a replaced ring (issue #197).
HoldsAreLive ==
  \A k \in Keys : latest[k] # None =>
    /\ pconn[k[1]] # None
    /\ latest[k].ring \in {registry[i] : i \in ConnIds}

SignalInFlight(c, s) ==
  \/ \E i \in DOMAIN chan[c] : chan[c][i].type = "frame" /\ chan[c][i].slot = s
  \/ push[c] # None /\ push[c].phase = "ready" /\ push[c].slot = s

\* No slot leaks: a READY slot is held by the hub or its signal is on the way,
\* so ring occupancy stays bounded across participant churn.
SlotsAccounted ==
  \A c \in Conns, s \in Slots :
    ring[c][s].st = "ready" => Held(c, s) \/ SignalInFlight(c, s)

\* A session that is there is not ended by the departure of another: as long as
\* the connector has the session the hub knows, the hub knows the participant,
\* in whatever order the joins and departures of its sessions reach the hub
\* through one connector or several (the stale check of PARTICIPANT_EVENT).
LiveSessionsStay ==
  [][\A c \in Conns, p \in Pids : psess[p] # 0 /\ sess[c][p] = psess[p] => psess'[p] # 0]_vars

\* What a reader of the hub sees of each track: the memory behind its hold.
Shown == [k \in Keys |->
  IF latest[k] = None THEN None
  ELSE LET cell == ring[latest[k].ring][latest[k].slot]
       IN [frame |-> cell.frame, key |-> cell.key]]

\* To its readers the pair of ring and hub is one register per track, that
\* shows newer and newer frames until it is emptied.
LatestFrameRegister == INSTANCE LatestFrame WITH shown <- Shown
RefinesLatestFrame == LatestFrameRegister!Spec

\* Every frame written to the ring is shown, or a newer one of its track is:
\* no signal overtakes the session or the slot it belongs to.
WrittenFramesAreShown ==
  \A c \in Conns, k \in Keys, f \in Frames :
    (push[c] # None /\ push[c].key = k /\ push[c].frame = f)
      ~> (Shown[k] # None /\ Shown[k].frame >= f)

\* A full ring is a passing condition: with more slots than tracks, back-
\* pressure on the producer always ends.
FullRingDrains ==
  \A c \in Conns :
    (\A s \in Slots : ring[c][s].st # "free") ~> (\E s \in Slots : ring[c][s].st = "free")
=============================================================================
