# Specifications of panasonic-doorphone-connect

TLA+ models of the doorphone bridge in this repository: the Rust daemon
`viana-ha`, its protocol and media crates, and the Home Assistant integration
that drives it. The models follow the source, not the design notes; line
numbers below are of the files under `src/`. `PROJECT.json` lists the
components, the TLC runs, the source lines each definition stands for, the
hazards the properties are for, and the theorems.

    tlc -config MonitorSession.cfg MCMonitorSession      # model-check
    tlapm MonitorSession_proofs.tla                      # proofs

Every other `<Module>.cfg` is checked with `MC<Module>` in the same way.

## 1. The system

The daemon holds a WebSocket ("kick WSS") to Panasonic's relay. Over it, it
asks the base station in the house to open a *monitor call*; the base then
sends the door camera's RTP to the daemon over the LAN. Home Assistant sees
the daemon through an HTTP API: commands, an event stream, and a video stream.

| component | source | state | operations |
|---|---|---|---|
| kick connection and command pump | `viana-ha/src/main.rs` `run_kick_loop`, `connect_and_pump` | connection, `active: Option<ActiveMonitor>`, seqNo counter, send channel | connect, take a command, handle a frame, reconnect, quit |
| monitor session | `main.rs` `run_monitor` and the task around it | stop watch, seqNo, response channel, `MONITOR_PENDING` entry | connect kick, wait, media, disconnect, epilogue |
| receive loops, mixer | `main.rs` `receive_rtp_loop`, `run_outbound_mixer` | sockets, deadline, depacketizer | receive, answer a challenge, mix, reap idle talkers |
| media hub | `media_hub.rs` | talkers, outbound context, consumer count, phase | shared under one lock; the phase is an atomic outside it |
| HTTP API | `http.rs` | the shared configuration, one guard per stream | monitor, answer, hangup, streams, pair, events |
| SIP registration | `viana-protocol/src/sip.rs` | CSeq, nonce, nc, terminal | MESSAGE, REGISTER, refresh every 15 s, NOTIFY acks |
| pairing, identity, config | `pair.rs`, `discover.rs`, `local_cgi.rs`, `identity.rs`, `config.rs` | key file, disp_id, MAC, `config.toml` | discover, pair, mint, save |
| codecs | `kick.rs`, `sdp.rs`, `viana-media/src/*` | depacketizer buffer, RTP counters | encode, decode |
| Home Assistant side | `ha-integration/` | listeners, ring sensor, talker token | event pump, answer, hangup, camera |

How they interact. Clients (HTTP handlers, stdin, the ring detector) put
`DaemonCommand`s on one bounded channel that outlives connections. The pump
takes them, spawns a session task and holds its stop watch in `active`.
Sessions put frames on the connection's send channel, and find their answers
through `MONITOR_PENDING`, a process-wide map from seqNo to response channel
that the pump feeds. Sessions, mixers and HTTP handlers share the media hub.

What is hard. Every session is a spawned task that outlives both the command
that stopped it (`StopMonitor` does not await, 813-825) and the connection it
was started on (843). So an old session's epilogue can run beside a new
session; an answer can arrive after its time-out, or on the next connection,
where seqNos start over; `active` can name a task that is over; and the order
of `send_loop.await` and `hb_loop.abort()` (839-840) decides when the pump can
leave. SIP adds retransmitted and late responses, pairing adds partial
failure and files written one after another, and the event stream can lag.

What makes each component correct:

- *pump*: a session that can still be stopped is always reachable through
  `active`; a lost connection leads to a new one.
- *session*: it ends when told to; it ends cleanly only for that reason; a call
  that ended cleanly is closed at the base; it gets its own answer.
- *hub*: what a session registered is removed by the time the last session ends.
- *consumers*: each stream counts once; the last one to leave ends the preview.
- *SIP*: the base never sees the registration lapse without a cause; one nc is
  used once per nonce; a REGISTER takes its own answer; it speaks for the slot
  the base lists us at, as far as it lists us.
- *pairing*: what the base is shown is one identity; a base that returned its id
  and the key files know each other, wherever the process was killed; a known id
  is not lost by pairing again.
- *media*: a unit that nothing hurt on the way reaches the viewer whole, once
  and in its turn; what was hurt disturbs no other; a viewer that is gone leaves
  no process behind.
- *Home Assistant*: the ring sensor follows the bell; a hangup ends the call its
  answer opened.

## 2. Modules

| module | models |
|---|---|
| `MonitorSession` | pump, connection, sessions, `MONITOR_PENDING`, hub, and the base as environment |
| `Intercom` | EXTENDS `MonitorSession`: the consumers of `GET /stream/video` and their guard |
| `SipRegistration` | `sip.rs`: pairing MESSAGE, `register()`, the slot window, the acker, `maintain_registration`; the registrar and the LAN as environment |
| `Pairing` | `POST /pair`, identity files, discovery, CGI 107/108, `config.toml`, the start of the daemon, the Home Assistant entry |
| `NalStream` | abstract: what one viewer is owed of the units the base sends |
| `VideoPath` | receive loop, depacketizer, broadcast channel and the ffmpeg pipeline of `GET /stream/video`; implements `NalStream` |
| `HomeAssistant` | the integration's event pump, ring sensor and buttons against the daemon's API |
| `MC...` | the instances TLC checks |
| `..._proofs` | theorems of `MonitorSession`, `Intercom`, `SipRegistration`, `Pairing`, `VideoPath` and `HomeAssistant` |

How they meet. `Intercom` extends `MonitorSession`. The others meet it at one
interface each and model only that side of it: `SipRegistration` is the inside
of `Pairing`'s steps `SipDone` and `StartSip`, and a member of its `loops` is
one maintenance task; `VideoPath`'s `LoopStarts`/`LoopEnds` are the boundaries
of `MonitorSession`'s media stage; `HomeAssistant`'s `session`, `stopping` and
`talkers` are what its requests do to the pump and the hub.

### MonitorSession

State and code:

| variable | code |
|---|---|
| `pump`, `active` | the control point of `connect_and_pump` and its local `active` |
| `cmdq` | the `DaemonCommand` channel (218) |
| `epoch`, `wssUp`, `sendLoop`, `outq`, `seqCtr` | the current WebSocket, its send loop task, channel, `seq_no_counter` |
| `pending`, `inbox`, `seqOf` | `MONITOR_PENDING` as the set of sessions whose entry is in it; each session's response channel and key |
| `task`, `stop`, `epochOf`, `outcome`, `loops` | where a session task is, its watch (`dropped`: the sender is gone), its connection, the `ok` of `monitor.ended`, which of its three media tasks run |
| `outbound`, `phase`, `talkers` | the `HubState` fields and the atomic phase |
| `mixing` | the mixer that holds the hub's lock, has read the phase and is about to set it |
| `hangups` | `/control/hangup` handlers between removing the talker and sending `StopMonitor` |
| `asked`, `calls`, `replies` | the base: connects it has, calls it holds open, answers under way |

A session goes `unborn` → `opening` (sockets) → `waiting` (connect sent) →
`media` → `ended` (run_monitor has returned) → `clearing` (phase Idle written,
hub lock not yet taken) → `done`. Errors go to `ended` from wherever they
happen. Each await in the code that another task can run in is a boundary
between two actions. Actions group as in `Next`: `Clients` (HTTP, stdin,
ring), `Pump`, `Wire` (send loop, heartbeat, loss), `Base`, `SessionStep`,
`MediaStep`.

Details that matter:

- `PumpReturns` needs the send loop to be over. The heartbeat holds a sender,
  so the channel does not close; only a failed write ends the loop.
- A receive loop and the mixer treat a dropped stop sender as no stop at all
  (1209-1214, 1300-1304): `stop = "dropped"` ends nothing.
- `SendConnect` displaces whoever is registered under its seqNo, which drops
  that session's sender and closes its inbox.
- The disconnect kick names no call (943-960). The base may end the sender's
  call or every call of this phone.
- The mixer reads the phase and sets it in two steps (1349-1355). It holds the
  hub's lock in between, which keeps out the epilogue's `ClearHub`, other mixers
  and the HTTP handlers (`HubFree`), but not a writer of the phase, which is an
  atomic outside the lock: `StartMedia` and `GoIdle` can fall in the gap.
- The base is external and may do what it likes with a connect it received:
  accept, reject, never answer, hang up.

Abstracted: media bytes, XML, SDP (one outcome: unusable), Panasonic's TLS and
login, kick acks, the Ctrl-C poll between connections, back-off delays. The
64-slot send channel is never full in the model.

### Intercom

`consumers` is `stream_consumers`; `guard[v]` follows one request: `starting`
between the locked count and the `try_send` of its `StartMonitor` (515-527),
`held` while it streams, `dropped` once the guard's task is spawned, `grace`
during the 30 s, `stopping` between the idle check and its `StopMonitor`
(497-505, the lock is released in between). A full channel drops the start.

### SipRegistration

| variable | code |
|---|---|
| `ua`, `timer` | where the pair flow or the maintenance task is; the wait it is in (`RESPONSE_BUDGET`, `NOTIFY_WINDOW`, the interval) |
| `cseq`, `lastNc` | `state.last_cseq`, `state.last_nc` |
| `nonce`, `user` | `AuthState`: nonce, and the slot hint that signs |
| `terminal`, `guessed` | `state.terminal`, the slot REGISTERs are for; history: it was taken from a roster that lists handsets and not us |
| `sent`, `reqs`, `net`, `copied` | every REGISTER sent, those on the way, datagrams on the way or queued at our socket, whether one arrived twice |
| `lease`, `baseNonce`, `named`, `unacked`, `notices` | the base: time left of our registration, its nonce, whether rosters carry MACs, an unacknowledged NOTIFY |
| `fault` | history: what delayed a refresh since the last accepted REGISTER |

`ua` goes `message` → `register` (CSeq 1 to 3) → `slot` → `window` (CGI
107/108, the acker reads the socket) → `skip` (the two ticks that are awaited)
→ `serve` ⇄ `refresh`, or to `failed`/`over`. Time moves in units of 5 s and
never past a timer that is due. Details that matter:

- an answer is any SIP response but `100 Trying`; CSeq is not compared (448);
- `nc` is `cseq - 1` whatever `last_nc` says (357, 829-846);
- a challenge during refresh is answered at the next tick, not at once (771-791);
- a datagram read while an answer is awaited is dropped, NOTIFYs too, and starts
  the wait anew (427-445);
- the digest's user name stays the hint when a NOTIFY names another slot;
- the hint of MESSAGE or `config.toml` is any number, not only a handset's slot;
- a roster may list us, list us at another slot, list others only, or carry no
  MACs. The first that gives a slot decides; later ones are acknowledged and not
  read (497-500). Without our MAC in it, the first handset's slot is taken
  (505-516).

### Pairing

| variable | code |
|---|---|
| `daemon` | the main task: `down`, `parked` (unpaired, 314-321), `starting`, `serving` |
| `mem`, `disk` | `[base]` in the shared configuration and in `config.toml`: is the base's id known, which MAC |
| `crossed` | history: requests in flight when another one's outcome replaced `[base]` |
| `kiki`, `disp`, `macFile` | key file and its two sidecars: absent, truncated or undecodable, or something made once |
| `pc`, `idKnown`, `ident` | per request (and the main task): the await it is at, the base id it has, the identity it loaded or made |
| `planted` | what the base's baseinfo row knows us as; it follows the base's answers, see below |
| `ackers`, `loops` | `ack_notifies_forever` and `maintain_registration` tasks that run |
| `entry` | the config entry of the integration |
| `made`, `crashes`, `faults` | names of made identities, kills left, history of what went wrong |

Every await of `post_pair` and of what it calls is a boundary. A write is two
steps, truncation and content; it may fail or the process may be killed between
them. `config.toml` is written aside and renamed, so its write is one step.
`Cancel` is axum dropping the handler of a client that has gone: tasks already
spawned stay. `Boot` is systemd's restart.

What the base does with CGI 108 is its own affair, but two comments tell how its
answers are to be read: one with an id has taken us, an empty one probably has
not (`pair.rs` 178-184, `local_cgi.rs` 58-62, 132-137), though `pair::run` goes on
all the same. So an answer with an id plants us, and every other answer and every
error may or may not have (`Acknowledges`, `CgiFails`). An id that is present but
empty is kept for one (`local_cgi.rs` 211-217, `pair.rs` 227-228); it reaches
`[base]` as an empty string, which the next snapshot treats as none (`http.rs`
248). The base is taken never to forget a handset it took. `[base].viana_id`
written by hand and `--base-viana-id` are not modelled: an installation starts
unpaired.

### VideoPath and NalStream

| variable | code |
|---|---|
| `loop`, `fuaBuffer`, `inFua`, `out` | `receive_rtp_loop` runs; `H264Depacketizer`; what `push` returned and is not yet sent |
| `log`, `cursor` | the video broadcast channel and each receiver's place in it |
| `request`, `fifo`, `ffmpeg`, `videoFeed`, `audioFeed` | one `GET /stream/video`: handler, named pipe, child, feeder tasks |
| `wrote`, `missed` | what its ffmpeg was given; what it could not get |
| `frames`, `base`, `net`, `faults` | the base as it cut its units, its media side, packets in flight, bound on the network's faults |
| `hurt`, `twice` | units with a packet the network lost, displaced or doubled; those with one it doubled |

A unit is its number, its content the sequence of its pieces; so a unit with a
missing, foreign or doubled piece is told from a whole one, which is what the
depacketizer could get wrong. `NalStream` says what is promised: units are
sent, some are hurt, and a viewer is shown each unit at most once, unless a
packet of it came twice; one that was not hurt is shown whole and only when all
unhurt ones before it have been. Nothing in the bridge looks at RTP sequence
numbers, so that is the most it can promise. The refinement:

    Stream == INSTANCE NalStream WITH sent <- Sent,
                hurt <- hurt \cup missed[Watched], twice <- twice,
                shown <- ShownTo(Watched)

`hurt` are units of a packet that was lost, displaced or doubled, or that was in
flight or in the depacketizer when a call ended; `missed` units that went by
before the viewer subscribed, or that the channel overwrote. The module has one
call at a time: two receive loops that feed one channel, as when the overlap of
`at_most_one_session` brings the video of both, are not in it, and the refinement
says nothing of them. Requests are alike, so
the property watches one of them (TLC takes no quantifier there; the theorem
`EveryViewerGetsTheStream` is about all).

### HomeAssistant

| variable | code |
|---|---|
| `door` | what the last `doorphone.ring` event said |
| `conn`, `queue`, `pump` | `GET /events` and the bus receiver behind it; `_pump_events` |
| `listening`, `sensor`, `missed` | the sensor among `runtime.listeners`, `_attr_is_on`; history: the last ring event is lost for good |
| `current` | `TokenHolder.current` |
| `answer`, `hangup` | each press of Answer (one talker token each) and of Hangup: where its request is |
| `talkers`, `session`, `stopping` | the daemon: talkers, whether a session runs, a `StopMonitor` on its way |
| `slip`, `faults` | history: a lost request, or an Answer pressed on top of another or of its Hangup; bound on faults |

An event that finds the bus full pushes out the oldest (`Lagged`). A connect or
the response headers can hang, and a stream can end or fall silent without a word:
all of the client's time-outs are off (`daemon.py` 150). The pump is
started before the platforms are set up, so events can come before the sensor
listens. A Hangup's `finally` drops the token that is held when it runs, not
the one it was about.

## 3. Runs

`MonitorSession` and `Intercom`: sessions are spawned at most `Session` times; at most `MaxEpoch`
connections, of which the last does not die; the command channel holds
`CmdCap` (16 in the code, but what matters is empty, in order, and full);
heartbeats take seqNos below `HbSeqs`; commands sent after `Quit` was taken are
left out, since nobody reads them.

| run | instance | shows |
|---|---|---|
| `session_safety` | 2 sessions, 2 connections, 1 talker, channel of 1, no heartbeat seqNo | the safety properties below; 3.8 million states, session ids symmetric |
| `session_liveness` | 1 session, 2 connections, channel of 2, one heartbeat seqNo | `StopEnds`, `Reconnects` under `FairSpec` |
| `intercom` | 1 session, 2 viewers, 2 connections | `ConsumersCounted`, `LeftPreviewEnds`, also across a reconnect that orphans the session; 0.5 million states |
| `registration` | 5 REGISTERs, 2 nonces, 1 NOTIFY or Trying, any number of losses, one datagram delivered twice; hints 10, 21 and 22; 15 s and 30 s as 3 and 6 units | counters, lease, slot, matching of answers, end of the wait; 0.7 million states |
| `pairing` | 2 requests beside the main task, 1 kill | identity and configuration under interleaving, failing writes, kill and restart; 3.6 million states, requests symmetric |
| `video_path` | 2 units, 1 request, channel of 1, 2 network faults | the refinement, start of media, what a request leaves; 0.26 million states |
| `home_assistant` | 2 answers, 2 hangup buttons in flight at once, bus of 2, 2 faults | ring sensor, token; 1.5 million states |

Two sessions and two connections are the smallest instance in which an old
session overlaps a new one on the same connection and on the next, seqNos
collide across connections, and an entry is displaced; a third session would
add no new relation, since all properties relate at most two. One talker is
enough because the code only asks whether there is any. Two viewers are
enough for one to leave while the other arrives. `intercom` has the second
connection, so that the session can lose its first one while a viewer watches
(`Orphaned`); with one session it stays at one start.

`registration`: CSeq 1 to 3 is `register()`, so five REGISTERs give two
refreshes: one that is challenged under a new nonce and one that answers. Two
nonces are one rotation; a third would repeat it. The base sends at most one
datagram by itself, since every one only restarts the wait or is acked; the
network may lose any. `Slot` is 22 and the hints are 22, 21 (the default, another
handset's number) and 10 (no handset's at all); rosters list us at 22 or 23,
handset 24 beside or without us, and entries without MACs. The proofs need none
of these bounds.

`pairing`: two requests and the main task give every pair of tasks inside the
identity code at once; one kill separates any two writes and is followed by a
full start. Every request runs once per process, so with the restart an
installation pairs up to four times.

`video_path`: two units let a fragmented one (three fragments) follow or precede
another and fill an aggregate. The channel of one makes every burst of two a
lag. With two faults a fragment can be lost and another one doubled or displaced.
Three units with two faults are beyond what a run of minutes can do; the theorem
`EveryViewerGetsTheStream` has neither bound.

`home_assistant`: two tokens are the smallest number with which one can
overwrite another; a bus of two is the smallest that can drop a ring event
while another event is kept.

The properties of `MonitorSession` and `Intercom`:

- `Unstopped`: a session neither told to stop nor cut off is `active`. Of sessions
  that were cut off it says nothing (`at_most_one_session` does), nor of who
  hangs up whom.
- `OutboundOwned`, `HubQuiet`: a registered context belongs to a session that
  will still clear it; when no session task lives, no context is left and the
  phase is Idle, whatever the order of the epilogues, and although a mixer may set
  a phase that it read before another session went Idle.
- `OkOnlyAfterStop`: `monitor.ended` with ok follows only a stop. The comment at
  1283-1285 says that a mixer also stops "when outbound context is gone"; the
  code goes on ticking then (1313-1316), and the model with it.
- `StaleActiveFailed`: when `active` names a finished session while commands are
  served, it failed. This is the exact extent of the first finding below.
- `AnswersMixOnlyAcrossConnections`: a session gets another's answer only if
  they were started on different connections.
- `NoCallLeftOpen`: a session that ended cleanly on its own answer leaves no
  call at the base while its connection lives, but for a queued disconnect.
- `StopEnds`: a stopped session ends, the one that Quit awaits included.
  `Reconnects`: a lost connection leads to a new one.
- `ConsumersCounted`: each stream that is served or winding down is counted
  once. It does not say that a viewer has a session: a start that a full channel
  dropped is not retried (`http.rs` 527).
- `LeftPreviewEnds`: a preview that its last viewer left ends, or someone came
  back, or it is an orphan: its connection was lost while it ran, so that its
  context is still registered, `active` is None, and the guard's `StopMonitor`
  finds nothing to stop (`main.rs` 822-824). Such a preview is torn down by
  nothing, which is one more consequence of the second finding below. A late stop
  that hits a viewer who joined between check and stop is permitted.

Of `SipRegistration`:

- `NcNeverRepeats`: no nonce count is used twice under a nonce.
- `LapseHasCause`: while the maintenance task runs, the base forgets us only
  after it challenged or refused, a datagram was lost or late, or CGI 107/108
  used up the slack before the first refresh. A lone challenge can do it: it is
  answered 15 s later, and the comment that says "the 15s gap is fine" (`sip.rs`
  780-782) does not count that the lease may be over by then.
- `SpeaksForItself`: every REGISTER is for a slot the base listed under our MAC,
  or for the number the phone began with (MESSAGE's, the configuration's, or 21),
  unless the roster that decided listed handsets and not us. In that case
  (`guessed`) the code claims the first handset's slot, which may be another's.
  The doc comment (459-461) has it that only an empty MAC takes the first entry;
  the code does so for any (505-516, with a warning), as also when rosters carry
  no MACs.
- `AnswersMatch`: without duplicated datagrams a REGISTER takes its own answer,
  although CSeqs are not compared: a new one is sent only after the old one is
  answered, and a time-out ends the task.
- `RegisterEnds`: the wait ends although every NOTIFY restarts it.

Of `Pairing`:

- `PresentsOneIdentity`: a request shows the base two halves of one identity and
  a MAC, unless two callers were in the identity code at once or a write was
  torn. `faults` states exactly that exception: the code has no lock there.
- `PairingIsDurable`: once `config.toml` has an id that the base returned, key
  files, MAC and the base's record agree, under the same exceptions, whatever
  later requests did and wherever the process was killed. A `[base]` without an
  id promises nothing: after an empty acknowledgement it may name a base that has
  no record of us (`pair.rs` 224-245).
- `OneReaderPerSocket`: an acker and a maintenance loop never share a socket; an
  acker outlives its request only if that failed. That a dropped handler leaves
  an acker running for good, or that pairing twice leaves two maintenance loops,
  each on its own socket, is what the code does; the property permits both.
- `RegisteredIsSaved`: whom the daemon keeps registered is on disk; so is what
  a Home Assistant entry stands for, unless a save failed.
- `KeepsBaseId`: the id in `[base]` is lost only to a request that another's
  outcome overtook between its snapshot and its own outcome (`crossed`), or to an
  answer in which the id is present and empty. So requests that follow each other
  keep it, although the base does not always return it. The property is about
  `[base]` in memory, which `config.toml` follows at the save of the same step.

Of `VideoPath`:

- `ImplementsNalStream`: see above; a packet that is lost, displaced, doubled or
  passed over harms the units it carried and no other.
- `MediaStarts`: a call that goes on gets past the challenge.
- `NothingLeftRunning`: a request that is over leaves no ffmpeg, and a pipe only
  if it was dropped during `mkfifo`.
- `FeedersEnd`: the feeders of a client that left end by themselves: the video
  feeder at the next unit, the audio feeder unless it waits in `open`.

Of `HomeAssistant`:

- `RingSettles`: sensor and door agree unless a ring event is under way or the
  last one is lost for good. How often that happens, or how long it lasts, it
  does not say; that a lag keeps the newest event, it does.
- `TokensKept`: every registered talker is the one Hangup will name, unless a
  press slipped: a lost request, or an Answer on top of another or of its Hangup.
  Those are the cases in which the code does lose a token.

That the pump comes back from a dropped stream cannot be stated: with every
time-out off (`daemon.py` 150) the next connect may hang for good.

Fairness. `MonitorSession`, `Intercom`: weak fairness on every step of a task
that tokio can run: the pump's select arms, the send loop, the session tasks,
the loops once their watch is true. tokio polls every runnable task and its
timers fire. `SendFails` is fair because the heartbeat interval writes for
ever, so a dead connection is found. `Connect` is fair in that some attempt
succeeds in the end; the code sets no time-out on the WSS handshake (612-618), so
this includes that a handshake that hangs is ended by the operating system. A
mixer's stop is strongly fair: each tick takes the lock and disables the stop for
the moment between reading and setting the phase, and between two ticks its watch
alone is ready; a mixer that has read the phase sets it without waiting (weakly
fair). The guard's stop is strongly fair: tokio's channel serves waiting senders
in order. Nothing is assumed of clients, of the
base, of the network, nor that a receive loop ever meets an error: the 12 h
deadline is a possible step, never a required one, and `CapEndsCall` fails even
from a state where both loops have ended.

`SipRegistration`: the phone's steps, since tokio polls a task whose datagram
or timer is ready, and the passing of time while the task runs.

`VideoPath`: the receive loop, its keepalive timer, the fan-out, the feeders,
and the base repeating its challenge, which it does every 500 ms; nothing of
ffmpeg, clients or the network, whose faults are bounded.

`HomeAssistant` and `Pairing` have safety properties only.

### What the code's comments promise and the code does not do

Five runs expect a violation; each checks one sentence of the source.

| run | the sentence | what TLC shows |
|---|---|---|
| `active_is_live` | "Active monitor session" (694), "ring → preview ... already active, no-op" (1501-1504) | after a rejected or timed-out connect `active` stays set: starts and rings are ignored until a stop |
| `at_most_one_session` | "at most one at a time" (694) | a reconnect orphans a running session and starts another beside it |
| `outbound_while_media` | "populated by run_monitor when a session starts, cleared when it ends" (`media_hub.rs` 69-71) | stop, start: the old epilogue clears the new session's context |
| `cap_ends_call` | "Cap at 12h to prevent ... pinning the call open forever" (751-752) | the receive loops end, the mixer does not, the session waits for it |
| `idle_preview_ends` | "0 = until stop / idle teardown" (1509) | a ring's preview that nobody opens is torn down by nothing |

More observations, without a run:

- an answer that arrives after the 5 s time-out leaves the base with an open
  call and no disconnect (1006-1009);
- `Quit` on a healthy connection does not exit, although "only Ctrl-C, Quit
  command, or stdin EOF exits" (`main.rs` 538): the pump leaves its loop and then
  awaits the send loop (839), whose channel the heartbeat, aborted only after it
  (840), keeps open. In the model: `PumpReturns` needs `~sendLoop`, and only
  `SendFails`, which needs a lost connection, clears it. This is a contradiction
  like the five above, though without a run of its own, and no property counts it
  as intended;
- a preview orphaned by a lost connection is torn down by nothing, see
  `LeftPreviewEnds`;
- the fall-back to the first handset's slot goes further than its doc comment
  (`sip.rs` 459-461, 505-516), see `SpeaksForItself`;
- "the 15s gap is fine" (`sip.rs` 780-782), see `LapseHasCause`;
- a mixer does not stop "when outbound context is gone" (`main.rs` 1283-1285);
- one lost REGISTER response ends the maintenance task (`sip.rs` 764-770), where
  its comment speaks of "3 missed = drop" (688);
- `nc_override` is ignored, and the comment that says so (838-844) also says
  that the loop starts nc afresh after a rotation, which it does not on the wire;
- `get_stream_video` says "feeder tasks abort" when a consumer drops (`http.rs`
  570-572); a dropped body only drops their handles. `FeedersEnd` states what
  remains true;
- unpaired, "the stdin reader keeps draining commands" (`main.rs` 317-318) into
  a channel that nobody receives from: sixteen fit;
- a key that the vendor returned and that does not decode is kept in
  `kiki.dat`, so that every later start of a request fails on it (`Mint`,
  `DecodeFails`);
- a failed save leaves the daemon reporting itself paired until it restarts
  (`Persist`), which is why `RegisteredIsSaved` excepts it.

## 4. Proofs

Every invariant and every action property a passing run checks, and the
refinement, is a theorem too, for every value of the constants. Each proof has
the same plan: an inductive invariant with the property among its consequences,
established by `Init`, preserved action by action (a lemma per group of actions
where there are many), then carried to `Spec`.

The only assumptions are the named ASSUMEs of the modules, which every run
evaluates, and `Request # {}` in one theorem of `VideoPath_proofs`. They say
that bounds are natural numbers (a channel's capacity positive where a step
needs it), that `None` or `Main` is no element of the set it stands beside, that
the slots of the base are in 21..28 and another handset's is not ours, and, in
`SipRegistration`, that `Window + Refresh < Expires`. That one is about the code's constants: a roster is awaited for 5 s
(`NOTIFY_WINDOW`), the maintenance task refreshes every 15 s, and 30 s is the
`Expires` of every REGISTER. `LapseHasCause` rests on it: the lease is not renewed
between the accepted REGISTER of `register()` and the first refresh of
`maintain_registration`, with a whole window between.

### MonitorSession_proofs

For any sessions, talkers, connections and channel capacity:

- `TypeCorrect`: `TypeOK`, strengthened by `Numbered` (a live connection and a
  spawned session have a number in `1..MaxEpoch`). Without `Numbered` the
  counter update `seqCtr[epochOf[s]]` could leave the function's domain, so
  `TypeOK` alone is not inductive.
- `OutboundHasOwner`, `HubFallsQuiet` from `HubInv`: `OutboundOwned` together
  with the same fact for the phase (`PhaseOwned`: unless it is Idle, some
  session has not yet written Idle) and that a mixer about to set the phase
  belongs to a session still in media (`LoopsInMedia`, `MixerHolds`). `HubQuiet` is not inductive: it says
  nothing of states where a session lives.
- `UnstoppedIsActive`, `CleanEndNeedsStop`, `StaleActiveHasFailed` from
  `StopInv`, which adds that a session not yet born has no stop and no
  outcome (`Fresh`), that the active session has not been stopped unless the
  pump is finishing (`ActiveUnstopped`), that a session in media whose mixer
  has ended was told to stop (`MixerRuns`), and that an ended session has an
  outcome (`EndedHasOutcome`).
- `AnswersStayOnTheirConnection` from `SeqInv` (on one connection a sent seqNo
  is below the counter, and no two sessions have the same) and `SentInv` (only a
  session that sent its connect is registered, asked about or answered).
- `NoCallStaysOpen` from `ConnectInv`: a connect is queued once, and as long as
  it is queued or with the base it has no answer. So a call can only be open for
  a session whose answer came, and that session queues a disconnect behind its
  connect. `LateInv` keeps the epilogue from running before the outcome.
- `OneSessionPerConnection`: how far "at most one at a time" (694) does hold. Of
  the sessions of one connection, one at most was not told to stop (`OneEach`),
  so that the overlap `at_most_one_session` finds needs a reconnect. From
  `StopInv` and `CutInv`: the active session is of the current connection, and
  each connection cut off one session at most.

### Intercom_proofs

For any number of viewers: `ConsumersCountedHolds` (`consumers` is the
cardinality of the guards that start, are held or dropped); `ViewersAreClients`, that
`IntercomSpec` implies `MonitorSession`'s `Spec`, since all a viewer does to the
sessions is what `PostMonitor` and `DeleteMonitor` do; and, from both modules,
`SessionsSafeWithViewers`.

### SipRegistration_proofs

For any bounds, any number of losses and any answers of the base.
`NcNeverRepeatsHolds`: the property speaks of two REGISTERs in the history and
is not inductive, for nothing in it keeps the next one from repeating an old
count. `NcInv` adds that nc is a function of CSeq, that every REGISTER sent has
a CSeq in `1..cseq`, and that no two share one; whoever sends counts CSeq up by
one, so the new one is fresh. That `last_nc` is reset does not enter the
argument, which is the point.

The others follow from `SipInv`. `SipTypeCorrect` needs to know that the user
name is the hint or 21 once a REGISTER was sent, and what rosters can carry
(`TypeInv`). `AnswersMatchHolds` follows from `OneAnswer`: unless a datagram was
delivered twice, a REGISTER and an answer are never both under way, there is one
of them at most, and it has the last CSeq; this holds because a new REGISTER is
sent only where the last answer was read. `LapseHasCauseHolds` follows from
`LeaseInv`: without a fault the lease outlasts the wait of every place of the
flow, until a REGISTER that will be accepted is under way. `UnregisteredInv` is
the part about the time before the base first accepts one.
`SpeaksForItselfHolds` follows from `SpeaksInv`, which adds what `terminal` can be
at each place, and `SlotInRoster`, a lemma about what `SlotIn` takes from a roster
that lists us.

### Pairing_proofs

For any requests and any number of kills. `PairingTypeCorrect`;
`OneReaderPerSocketHolds` from `ReaderInv` (an acker's request is in the CGI
stage or failed there); `RegisteredIsSavedHolds` from `MacInv` (whoever got past
the identity has a MAC) and `SavedInv`; `KeepsBaseIdHolds`, an action
property, from `IdInv`: while `[base]` has an id, a request in flight that nobody
overtook was given one, by its snapshot or by the base.

`PresentsOneIdentityHolds` and `PairingIsDurableHolds` follow from `FilesInv`,
under the exceptions that the properties state (two callers at once, a torn
write). It says that one caller at most is among the identity files, what each of
the places there has already written (`Loads`), that a `disp_id` vouches for a
`kiki.dat` of the same identity (`KeyFiles`), that what the base was told is what
the files hold (`Planted`), and that whoever knows an id of the base has it from
an answer that took us (`Known`, `Saved`): a request, `[base]` in memory or on
disk. It is stable because complete files are never written again.

### VideoPath_proofs

For any requests, units, backlog, capacity and faults. `VideoTypeCorrect` and
`NothingLeftRunningHolds` (`PipeInv`: what a request holds at each place).

`EveryViewerGetsTheStream` is the refinement, for each viewer;
`VideoPathImplementsNalStream` is the instance the run checks, which names its
viewer by CHOOSE and so needs one to exist. `VideoInv` sees what travels as
three stages: the units handed out (`Given`, the channel's log and what is about
to be put there), the unit under assembly (`fuaBuffer`), and the packets in
flight (`net`).

- `OrderInv`: along and across the stages, a later place carries a later unit or
  a later piece of the same, unless both are hurt. Two hurt units may have
  changed places; a hurt one and an unhurt one never have, since a displaced
  packet and the one it changes places with are both hurt. And no first piece of
  a unit follows its first piece, unless the unit is in `twice`.
- `WholeInv`: what is under assembly, or handed out, and is not hurt has all its
  pieces so far; and no unhurt unit is lost (`NoneLost`): it was handed out, or
  all its pieces are in flight, or those not yet assembled are.
- `ViewInv`: a receiver has passed on what lies behind its cursor, or counts it
  as missed.

A unit that is fed is then new to its viewer, and if it is unhurt, whole; and an
unhurt unit before it was handed out earlier in the log, thus shown or missed.
The proof has a lemma for each thing a packet can do to the stages (a start, a
middle or an end fragment, complete units, nothing), one for each fault of the
network, and one for the end of a call.

### HomeAssistant_proofs

For any tokens, presses, bus capacity and number of faults.
`TokensKeptHolds`: `TokensInv` adds to `TokensKept` (`Held`) that, unless a press
slipped, an Answer under way is alone, with no token held and none being hung up
(`Alone`); that a hangup names the held token or one already dropped, and after
its request was served a token without a talker (`AboutCurrent`); and that no
answer arrives late (`NobodyLate`). Without `Alone` a Hangup's `finally` could
drop the token of the next answer. `HomeTypeCorrect`. `RingSettlesHolds` from
`RingInv`: while nothing was missed, the last ring event of the queue says what
the door does.

### What is only model-checked

- Liveness: `StopEnds`, `Reconnects`, `LeftPreviewEnds`, `RegisterEnds`,
  `MediaStarts`, `FeedersEnd`. Fairness and ENABLED are outside
  what the prover handles.
- The five sentences the code does not keep: TLC's counterexamples are the
  evidence. (`StaleActiveHasFailed` and `OneSessionPerConnection` say what is
  left of two of them.)

## 5. Not modelled, and what is left to prove

Not modelled, and why:

- kick XML, SDP and CGI text: conversions without state; their outcomes that
  matter (unusable, undecodable, empty) are choices in the models;
- a-law, RTP header counters, header offset and XOR: functions on bytes, each a
  line or two, about which no sequence of steps says anything;
- a talker's sample buffer and `POST /stream/audio/in`: both sides hold the hub's
  lock for the whole of their access; the audio broadcast channel, which is the
  video one again;
- a STAP-A whose sizes do not add up, and two calls whose receive loops feed the
  video channel at once;
- reading errors of the identity files other than undecodable content, which
  fail a request like many other steps;
- mint and ELB requests beyond their outcome, TLS, the bearer check, command
  line overrides, logging, the config flow's forms, deployment, the example;
- a restart of the daemon in `HomeAssistant` (a dropped stream, and talkers that
  are gone as after `SessionEnds`), and a reload of the integration while a
  press is under way.

To prove yet:

1. The safety halves of the liveness properties: what a stopped session, a
   connection that broke, or a viewer that left can still do until it is over
   (each `~>` narrowed to the steps that lead away from its goal).
2. How far the other broken sentences are broken, as `StaleActiveHasFailed` and
   `OneSessionPerConnection` do for two of them: with a history of the epilogues
   that ran, when a session in media can be without an outbound context.
3. That what `SipRegistration` and `Pairing` say of each other at their
   interface (`SipDone`, `StartSip`) follows from either.
