----------------------------- MODULE RoomClient -----------------------------
(***************************************************************************)
(* The hub's observer in a LiveKit room (services/device-io-hub/           *)
(* device_io_hub/transport/livekit/_room_client.py): the sessions of the   *)
(* room's participants, the departures and joins it reports to the         *)
(* connector endpoint, the file transfers it runs for them, and the return *)
(* audio it paces into one track per participant.                          *)
(*                                                                         *)
(* One event loop: a step is what happens between two awaits.  Room events *)
(* change the session table at once and spawn a handler; the connector's   *)
(* receive loop awaits one return callback after the other.                *)
(***************************************************************************)
EXTENDS Naturals, Sequences, FiniteSets

CONSTANTS
  Pids,          \* participants
  MaxVisits,     \* bound: sessions per participant
  MaxChunks,     \* bound: chunks of return audio
  Lens,          \* lengths a chunk may have
  MaxBuffer,     \* return_audio_max_buffer_s, in the unit of Lens
  Room,          \* what LiveKit's own queue holds before capture_frame() blocks
  MaxFlushes,    \* bound: flushes
  MaxFiles,      \* bound: files offered
  MaxConcurrent, \* incoming_file_max_concurrent
  MaxPer,        \* incoming_file_max_concurrent_per_participant
  MayStop,       \* disconnect() may be called
  None

ASSUME RoomClientAssumption ==
  /\ {MaxVisits, MaxChunks, MaxBuffer, Room, MaxFlushes, MaxFiles, MaxConcurrent, MaxPer} \subseteq Nat
  /\ Lens \subseteq Nat \ {0}
  /\ IsFiniteSet(Pids) /\ None \notin Pids /\ MayStop \in BOOLEAN

Tracks == 1 .. MaxChunks
Files == 1 .. MaxFiles

VARIABLES
  phase,    \* of the client: "connecting", "greeting", "up", then "closing", "draining", "down"
  visits,   \* sessions a participant has had
  sess,     \* _participant_sessions, 0 for none
  spawned,  \* handlers that have not started, in the order they were spawned
  leaving,  \* _handle_left() calls in one of their awaits
  conn,     \* the connector endpoint's _participant_sessions
  files,    \* _file_tasks
  entry,    \* _return_audio: the participant's track, 0 for none
  perms,    \* the track LiveKit lets a participant subscribe to, 0 for none
  tracks,   \* the tracks, each with its source and its pacing pipe
  call,     \* the return callback the receive loop awaits
  chunks,   \* chunks received, by their length
  heard,    \* the chunk a participant heard last
  flushed   \* the last chunk before the participant's last flush, and the flushes so far

sessionVars == <<phase, visits, sess, spawned, leaving, conn>>
audioVars == <<entry, perms, tracks, call, chunks, heard, flushed>>
vars == <<sessionVars, files, audioVars>>

NoTrack == [phase |-> "none", pid |-> None, sess |-> 0, queue |-> <<>>, queued |-> 0,
            flag |-> FALSE, busy |-> FALSE, lk |-> <<>>]

NoCall == [phase |-> "none", pid |-> None, sess |-> 0, track |-> 0]

NoFile == [phase |-> "none", pid |-> None, sess |-> 0]

Init ==
  /\ phase = "connecting"
  /\ visits = [p \in Pids |-> 0] /\ sess = [p \in Pids |-> 0]
  /\ spawned = <<>> /\ leaving = {} /\ conn = [p \in Pids |-> 0]
  /\ files = [f \in Files |-> NoFile]
  /\ entry = [p \in Pids |-> 0] /\ perms = [p \in Pids |-> 0]
  /\ tracks = [t \in Tracks |-> NoTrack]
  /\ call = NoCall /\ chunks = <<>>
  /\ heard = [p \in Pids |-> 0] /\ flushed = [upto |-> [p \in Pids |-> 0], n |-> 0]

-----------------------------------------------------------------------------
(* Participants come and go. *)

Handler(kind, p, s) == [kind |-> kind, pid |-> p, sess |-> s]

Connected == phase \in {"greeting", "up"}

\* A participant that connects, or is in the room when the client connects.
Enter(p) ==
  /\ phase # "down" /\ sess[p] = 0 /\ visits[p] < MaxVisits
  /\ visits' = [visits EXCEPT ![p] = @ + 1]
  /\ sess' = [sess EXCEPT ![p] = visits'[p]]
  /\ spawned' = Append(spawned, Handler("joined", p, visits'[p]))
  /\ UNCHANGED <<phase, leaving, conn, files, audioVars>>

\* connect() has returned: everybody in the room is announced, again if the
\* room announced them meanwhile, and files are accepted after that.
Connect ==
  /\ phase = "connecting" /\ phase' = "greeting"
  /\ \E q \in [1 .. Cardinality({p \in Pids : sess[p] # 0}) -> {p \in Pids : sess[p] # 0}] :
       /\ \A m, n \in DOMAIN q : q[m] = q[n] => m = n
       /\ spawned' = spawned \o [n \in DOMAIN q |-> Handler("greet", q[n], sess[q[n]])]
  /\ UNCHANGED <<visits, sess, leaving, conn, files, audioVars>>

Greeted ==
  /\ phase = "greeting" /\ \A n \in DOMAIN spawned : spawned[n].kind # "greet"
  /\ phase' = "up"
  /\ UNCHANGED <<visits, sess, spawned, leaving, conn, files, audioVars>>

Exit(p) ==
  /\ phase # "down" /\ sess[p] # 0
  /\ sess' = [sess EXCEPT ![p] = 0]
  /\ spawned' = Append(spawned, Handler("left", p, sess[p]))
  /\ UNCHANGED <<phase, visits, leaving, conn, files, audioVars>>

\* _handle_joined(): the endpoint's table changes before the message is sent.
HandleJoined ==
  /\ spawned # <<>> /\ Head(spawned).kind \in {"joined", "greet"}
  /\ conn' = [conn EXCEPT ![Head(spawned).pid] = Head(spawned).sess]
  /\ spawned' = Tail(spawned)
  /\ UNCHANGED <<phase, visits, sess, leaving, files, audioVars>>

Running == {f \in Files : files[f].phase \notin {"none", "over"}}

FilesOf(p, s) == {f \in Running : files[f].pid = p /\ files[f].sess = s}

\* _refresh_return_track_permissions()
Refresh == perms' = entry'

\* Fault: the permissions are left as they are.
LeaveUnrefreshed ==
  /\ spawned # <<>> /\ Head(spawned).kind = "left"
  /\ LET h == Head(spawned)
         t == entry[h.pid]
         mine == t # 0 /\ tracks[t].sess = h.sess
     IN
     /\ leaving' = leaving \cup {[pid |-> h.pid, sess |-> h.sess, phase |-> "files",
                                  track |-> IF mine THEN t ELSE 0]}
     /\ entry' = IF mine THEN [entry EXCEPT ![h.pid] = 0] ELSE entry
     /\ files' = [f \in Files |-> IF f \in FilesOf(h.pid, h.sess)
                                  THEN [files[f] EXCEPT !.phase = "ending"] ELSE files[f]]
     /\ UNCHANGED perms
  /\ spawned' = Tail(spawned)
  /\ UNCHANGED <<phase, visits, sess, conn, tracks, call, chunks, heard, flushed>>

\* _handle_left() up to its first await: the session's track is withdrawn and
\* its transfers are cancelled.
HandleLeft ==
  /\ spawned # <<>> /\ Head(spawned).kind = "left"
  /\ LET h == Head(spawned)
         t == entry[h.pid]
         mine == t # 0 /\ tracks[t].sess = h.sess
     IN
     /\ leaving' = leaving \cup {[pid |-> h.pid, sess |-> h.sess, phase |-> "files",
                                  track |-> IF mine THEN t ELSE 0]}
     /\ entry' = IF mine THEN [entry EXCEPT ![h.pid] = 0] ELSE entry
     /\ files' = [f \in Files |-> IF f \in FilesOf(h.pid, h.sess)
                                  THEN [files[f] EXCEPT !.phase = "ending"] ELSE files[f]]
     /\ IF mine THEN Refresh ELSE UNCHANGED perms
  /\ spawned' = Tail(spawned)
  /\ UNCHANGED <<phase, visits, sess, conn, tracks, call, chunks, heard, flushed>>

\* Faults: a stale departure counts, or overtakes the transfers it cancelled.
NotifyAnyone(h) ==
  /\ h \in leaving /\ h.phase = "files" /\ FilesOf(h.pid, h.sess) = {}
  /\ conn' = [conn EXCEPT ![h.pid] = 0]
  /\ leaving' = (leaving \ {h}) \cup {[h EXCEPT !.phase = "told"]}
  /\ UNCHANGED <<phase, visits, sess, spawned, files, audioVars>>

NotifyAtOnce(h) ==
  /\ h \in leaving /\ h.phase = "files"
  /\ conn' = [conn EXCEPT ![h.pid] = IF @ # 0 /\ @ # h.sess THEN @ ELSE 0]
  /\ leaving' = (leaving \ {h}) \cup {[h EXCEPT !.phase = "told"]}
  /\ UNCHANGED <<phase, visits, sess, spawned, files, audioVars>>

\* The transfers have ended: notify_participant_left(), which does nothing for
\* a session the endpoint has replaced.
NotifyLeft(h) ==
  /\ h \in leaving /\ h.phase = "files" /\ FilesOf(h.pid, h.sess) = {}
  /\ conn' = [conn EXCEPT ![h.pid] = IF @ # 0 /\ @ # h.sess THEN @ ELSE 0]
  /\ leaving' = (leaving \ {h}) \cup {[h EXCEPT !.phase = "told"]}
  /\ UNCHANGED <<phase, visits, sess, spawned, files, audioVars>>

\* _close_return_audio_entry(): the drainer is cancelled and the track
\* unpublished; what LiveKit still held of it goes with it.
Closed(t) == tracks' = [tracks EXCEPT ![t] = [NoTrack EXCEPT !.phase = "gone"]]

\* The message is out: the departure is over when its track is closed.
HandledLeft(h) ==
  /\ h \in leaving /\ h.phase = "told"
  /\ leaving' = leaving \ {h}
  /\ IF h.track # 0 THEN Closed(h.track) ELSE UNCHANGED tracks
  /\ UNCHANGED <<phase, visits, sess, spawned, conn, files,
                 entry, perms, call, chunks, heard, flushed>>

\* disconnect(): the sessions go first, and the transfers are cancelled.
Disconnect ==
  /\ MayStop /\ phase = "up" /\ phase' = "closing"
  /\ sess' = [p \in Pids |-> 0]
  /\ files' = [f \in Files |-> IF f \in Running THEN [files[f] EXCEPT !.phase = "ending"] ELSE files[f]]
  /\ UNCHANGED <<visits, spawned, leaving, conn, audioVars>>

\* They have ended: the handlers are cancelled, wherever they are.
DisconnectHandlers ==
  /\ phase = "closing" /\ Running = {} /\ phase' = "draining"
  /\ spawned' = <<>> /\ leaving' = {}
  /\ UNCHANGED <<visits, sess, conn, files, audioVars>>

\* The pipes in the table are closed and the room is left.
DisconnectPipes ==
  /\ phase = "draining" /\ phase' = "down"
  /\ entry' = [p \in Pids |-> 0]
  /\ tracks' = [t \in Tracks |-> IF \E p \in Pids : entry[p] = t
                                 THEN [NoTrack EXCEPT !.phase = "gone"] ELSE tracks[t]]
  /\ UNCHANGED <<visits, sess, spawned, leaving, conn, files, perms, call, chunks, heard, flushed>>

-----------------------------------------------------------------------------
(* Files. *)

\* _on_file_stream(): admitted within the limits, for the session of now.
OpenFile(f, p) ==
  /\ Connected /\ files[f].phase = "none" /\ \A g \in Files : g < f => files[g].phase # "none"
  /\ files' = [files EXCEPT ![f] =
       IF /\ phase = "up" /\ sess[p] # 0
          /\ Cardinality(Running) < MaxConcurrent
          /\ Cardinality({g \in Running : files[g].pid = p}) < MaxPer
       THEN [phase |-> "reading", pid |-> p, sess |-> sess[p]]
       ELSE [NoFile EXCEPT !.phase = "over"]]
  /\ UNCHANGED <<sessionVars, audioVars>>

\* _consume_file(): read to the end, rejected, or timed out.
ReadFile(f) ==
  /\ files[f].phase = "reading"
  /\ \E next \in {"read", "ending"} : files' = [files EXCEPT ![f].phase = next]
  /\ UNCHANGED <<sessionVars, audioVars>>

\* push_file(): refused for a session the endpoint does not have, else in a thread.
PushFile(f) ==
  /\ files[f].phase = "read"
  /\ files' = [files EXCEPT ![f] = IF conn[@.pid] = @.sess THEN [@ EXCEPT !.phase = "ending"]
                                   ELSE [NoFile EXCEPT !.phase = "over"]]
  /\ UNCHANGED <<sessionVars, audioVars>>

\* The task ends; its done callback gives its place back.
FileDone(f) ==
  /\ files[f].phase = "ending"
  /\ files' = [files EXCEPT ![f] = [NoFile EXCEPT !.phase = "over"]]
  /\ UNCHANGED <<sessionVars, audioVars>>

-----------------------------------------------------------------------------
(* Return audio: the pacing pipe, _ReturnAudioPipe. *)

\* The chunks q of a backlog by their lengths together.
Length(q, lens) ==
  LET upTo[n \in 0 .. Len(q)] == IF n = 0 THEN 0 ELSE upTo[n - 1] + lens[q[n]]
  IN upTo[Len(q)]

\* Fault: the limit is tested before the new frame is counted.
PushUncounted(r, n) ==
  LET d == chunks'[n]
      fits(k) == k = Len(r.queue) \/ r.queued - Length(SubSeq(r.queue, 1, k), chunks') <= MaxBuffer
      k == CHOOSE k \in 0 .. Len(r.queue) : fits(k) /\ \A j \in 0 .. k - 1 : ~fits(j)
  IN IF d > MaxBuffer THEN r
     ELSE [r EXCEPT !.queue = Append(SubSeq(@, k + 1, Len(@)), n), !.flag = TRUE,
                    !.queued = @ - Length(SubSeq(r.queue, 1, k), chunks') + d]

\* push(): the oldest frames make room, a frame that never fits is dropped.
Push(r, n) ==
  LET d == chunks'[n]
      fits(k) == k = Len(r.queue) \/ r.queued - Length(SubSeq(r.queue, 1, k), chunks') + d <= MaxBuffer
      k == CHOOSE k \in 0 .. Len(r.queue) : fits(k) /\ \A j \in 0 .. k - 1 : ~fits(j)
  IN IF d > MaxBuffer THEN r
     ELSE [r EXCEPT !.queue = Append(SubSeq(@, k + 1, Len(@)), n), !.flag = TRUE,
                    !.queued = @ - Length(SubSeq(r.queue, 1, k), chunks') + d]

\* Fault: the event is cleared although frames are left.
DrainForgets(t) ==
  LET r == tracks[t] IN
  /\ r.phase = "up" /\ ~r.busy /\ r.flag /\ r.queue # <<>>
  /\ tracks' = [tracks EXCEPT ![t] = [r EXCEPT !.queue = Tail(@), !.flag = FALSE, !.busy = TRUE,
                    !.queued = @ - chunks[Head(r.queue)], !.lk = Append(@, Head(r.queue))]]
  /\ UNCHANGED <<sessionVars, files, entry, perms, call, chunks, heard, flushed>>

\* _drain(): the next frame is handed to LiveKit.
Drain(t) ==
  LET r == tracks[t] IN
  /\ r.phase = "up" /\ ~r.busy /\ r.flag /\ r.queue # <<>>
  /\ tracks' = [tracks EXCEPT ![t] = [r EXCEPT !.queue = Tail(@), !.flag = Len(r.queue) > 1, !.busy = TRUE,
                    !.queued = @ - chunks[Head(r.queue)], !.lk = Append(@, Head(r.queue))]]
  /\ UNCHANGED <<sessionVars, files, entry, perms, call, chunks, heard, flushed>>

\* capture_frame() returns when LiveKit has room again.
Captured(t) ==
  /\ tracks[t].busy /\ Len(tracks[t].lk) <= Room
  /\ tracks' = [tracks EXCEPT ![t].busy = FALSE]
  /\ UNCHANGED <<sessionVars, files, entry, perms, call, chunks, heard, flushed>>

\* LiveKit plays a frame to whoever may subscribe to the track.
Play(t) ==
  LET r == tracks[t] IN
  /\ r.lk # <<>>
  /\ tracks' = [tracks EXCEPT ![t].lk = Tail(@)]
  /\ heard' = IF perms[r.pid] = t THEN [heard EXCEPT ![r.pid] = Head(r.lk)] ELSE heard
  /\ UNCHANGED <<sessionVars, files, entry, perms, call, chunks, flushed>>

-----------------------------------------------------------------------------
(* Return audio: the receive loop's callbacks. *)

audioRest == <<sessionVars, files, heard, flushed>>

\* send_return_audio() up to its first await: into the pipe of the session, or
\* on to a new track, once the track of an earlier session is closed.
SendReturnAudio(p, d) ==
  LET n == Len(chunks) + 1
      t == entry[p]
      mine == t # 0 /\ tracks[t].sess = sess[p]
  IN
  /\ call = NoCall /\ n <= MaxChunks
  /\ chunks' = Append(chunks, d)
  /\ IF sess[p] = 0 THEN UNCHANGED <<entry, perms, tracks, call>>
     ELSE IF mine
     THEN tracks' = [tracks EXCEPT ![t] = Push(@, n)] /\ UNCHANGED <<entry, perms, call>>
     ELSE /\ call' = [phase |-> IF t = 0 THEN "publish" ELSE "close",
                      pid |-> p, sess |-> sess[p], track |-> t]
          /\ entry' = [entry EXCEPT ![p] = 0]
          /\ IF t = 0 THEN UNCHANGED perms ELSE Refresh
          /\ UNCHANGED tracks
  /\ UNCHANGED audioRest

\* The track of the earlier session is closed.
OldClosed ==
  /\ call.phase = "close"
  /\ Closed(call.track) /\ call' = [call EXCEPT !.phase = "publish", !.track = 0]
  /\ UNCHANGED <<audioRest, entry, perms, chunks>>

NewTrack == [NoTrack EXCEPT !.phase = "up", !.pid = call.pid, !.sess = call.sess]

\* Fault: the session is not looked up again.
PublishedUnchecked ==
  LET n == Len(chunks) IN
  /\ call.phase = "publish" /\ UNCHANGED chunks
  /\ tracks' = [tracks EXCEPT ![n] = Push(NewTrack, n)]
  /\ entry' = [entry EXCEPT ![call.pid] = n] /\ Refresh
  /\ call' = NoCall
  /\ UNCHANGED audioRest

\* publish_track() returns: the track counts unless its session is over.
Published ==
  LET n == Len(chunks) IN
  /\ call.phase = "publish" /\ UNCHANGED chunks
  /\ IF sess[call.pid] = call.sess
     THEN /\ tracks' = [tracks EXCEPT ![n] = Push(NewTrack, n)]
          /\ entry' = [entry EXCEPT ![call.pid] = n] /\ Refresh
          /\ call' = NoCall
     ELSE /\ tracks' = [tracks EXCEPT ![n] = NewTrack]
          /\ call' = [call EXCEPT !.phase = "discard", !.track = n]
          /\ UNCHANGED <<entry, perms>>
  /\ UNCHANGED audioRest

\* publish_track() raises: the receive loop logs it and goes on.
PublishFails ==
  /\ call.phase = "publish" /\ call' = NoCall
  /\ UNCHANGED <<audioRest, entry, perms, tracks, chunks>>

Discarded ==
  /\ call.phase = "discard"
  /\ Closed(call.track) /\ call' = NoCall
  /\ UNCHANGED <<audioRest, entry, perms, chunks>>

\* Fault: what LiveKit holds is not dropped.
FlushPipeOnly(p) ==
  LET t == entry[p] IN
  /\ call = NoCall /\ flushed.n < MaxFlushes /\ t # 0
  /\ tracks' = [tracks EXCEPT ![t] = [@ EXCEPT !.queue = <<>>, !.queued = 0, !.flag = FALSE]]
  /\ flushed' = [n |-> flushed.n + 1, upto |-> [flushed.upto EXCEPT ![p] = Len(chunks)]]
  /\ UNCHANGED <<sessionVars, files, entry, perms, call, chunks, heard>>

\* flush_return_audio()
FlushReturnAudio(p) ==
  LET t == entry[p] IN
  /\ call = NoCall /\ flushed.n < MaxFlushes /\ t # 0
  /\ tracks' = [tracks EXCEPT ![t] = [@ EXCEPT !.queue = <<>>, !.queued = 0, !.flag = FALSE, !.lk = <<>>]]
  /\ flushed' = [n |-> flushed.n + 1, upto |-> [flushed.upto EXCEPT ![p] = Len(chunks)]]
  /\ UNCHANGED <<sessionVars, files, entry, perms, call, chunks, heard>>

-----------------------------------------------------------------------------
HandlerStep == HandleJoined \/ HandleLeft \/ \E h \in leaving : NotifyLeft(h) \/ HandledLeft(h)

CallStep == OldClosed \/ Published \/ Discarded

TrackStep(t) == Drain(t) \/ Captured(t) \/ Play(t)

FileStep(f) == ReadFile(f) \/ PushFile(f) \/ FileDone(f)

Next ==
  \/ \E p \in Pids : Enter(p) \/ Exit(p) \/ FlushReturnAudio(p)
  \/ \E p \in Pids, d \in Lens : SendReturnAudio(p, d)
  \/ \E p \in Pids, f \in Files : OpenFile(f, p)
  \/ Connect \/ Greeted \/ Disconnect \/ DisconnectHandlers \/ DisconnectPipes
  \/ HandlerStep \/ CallStep \/ PublishFails
  \/ \E t \in Tracks : TrackStep(t)
  \/ \E f \in Files : FileStep(f)

\* The loop runs its tasks, transfers end (they are timed), LiveKit answers and
\* plays.  Nobody has to come, go, send or disconnect.
Fairness ==
  /\ WF_vars(HandlerStep) /\ WF_vars(CallStep)
  /\ \A t \in Tracks : WF_vars(TrackStep(t))
  /\ \A f \in Files : WF_vars(FileStep(f))

Spec == Init /\ [][Next]_vars /\ Fairness

-----------------------------------------------------------------------------
(* Properties. *)

\* A backlog is as long as its frames together, within the limit of the buffer
\* (push(), _drain() and flush() each keep count).
TypeOK ==
  /\ sess \in [Pids -> 0 .. MaxVisits] /\ conn \in [Pids -> 0 .. MaxVisits]
  /\ \A t \in Tracks :
       /\ tracks[t].queued = Length(tracks[t].queue, chunks)
       /\ tracks[t].queued <= MaxBuffer

\* A participant may subscribe only to a track that was made for it, and once
\* the departure of the session before has been handled only to that of its
\* present session (_refresh_return_track_permissions() and those who call it).
OwnTrackOnly ==
  \A p \in Pids : perms[p] # 0 /\ phase # "down" =>
    /\ tracks[perms[p]].pid = p
    /\ \/ tracks[perms[p]].sess = sess[p]
       \/ \E n \in DOMAIN spawned : spawned[n] = Handler("left", p, tracks[perms[p]].sess)
       \/ phase \in {"closing", "draining"}

\* Nothing that was buffered when the agent interrupted itself is heard after
\* that, whether it was in the pipe, in LiveKit or on its way between them.
FlushSilences ==
  [][\A p \in Pids : heard'[p] # heard[p] => heard'[p] > flushed.upto[p]]_vars

\* When the hub is told that a session is over, none of its files is under way.
NoFileAfterDeparture == \A h \in leaving : h.phase = "told" => FilesOf(h.pid, h.sess) = {}

\* When the handlers have run the endpoint serves the sessions of the room,
\* although a departure that waits for its files can end after the next join.
EndpointFollowsRoom ==
  phase \in {"connecting", "greeting", "up"} /\ spawned = <<>> /\ leaving = {} => conn = sess

\* The track of a session that is over is unpublished and its pipe stopped, even
\* if it was published while the session ended (unless the client is stopped).
StaleTracksGo ==
  \A t \in Tracks :
    tracks[t].phase = "up" /\ tracks[t].sess # sess[tracks[t].pid]
      ~> tracks[t].phase = "gone" \/ phase \in {"closing", "draining", "down"}

\* A frame in a backlog is played, dropped or flushed: the pipe never sleeps on it.
BacklogDrains == \A t \in Tracks : tracks[t].queue # <<>> ~> tracks[t].queue = <<>>
=============================================================================
