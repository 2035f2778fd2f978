------------------------------ MODULE VideoPath ------------------------------
(***************************************************************************)
(* The way of the video from the base to a viewer: the receive loop of a   *)
(* call (receive_rtp_loop in main.rs, with the keepalive that opens the    *)
(* path and the challenge the base wants answered), the H.264              *)
(* depacketizer, the broadcast channel of the media hub, and the ffmpeg    *)
(* pipeline that GET /stream/video builds for each request.                *)
(*                                                                         *)
(* A NAL unit is its number; what travels are its pieces <<unit, i>>.  The *)
(* network loses, displaces and doubles packets.  One call at a time is    *)
(* received.  Audio frames are left out: the audio feeder matters for how  *)
(* it starts and ends.                                                     *)
(***************************************************************************)
EXTENDS Naturals, Sequences, FiniteSets

CONSTANTS
    Request,      \* stream requests, each with a pipeline of its own
    Capacity,     \* slots of the video broadcast channel (256)
    MaxUnits,     \* bound: units the base sends
    Backlog,      \* bound: packets in flight when the base sends more
    MaxFaults     \* bound: packets the network loses, displaces, doubles

ASSUME VideoAssumption ==
    {Capacity, MaxUnits, Backlog, MaxFaults} \subseteq Nat

VARIABLES
    frames,     \* unit -> number of its pieces, as the base cut it
    base,       \* the base's media side: "asleep", "asking", "sending"
    net,        \* packets on the way to the socket
    faults,
    hurt,       \* units with a packet lost, displaced or doubled
    twice,      \* units with a packet doubled
    loop,       \* is the receive loop of a call running?
    fuaBuffer,  \* H264Depacketizer.fua_buffer, as pieces
    inFua,      \* H264Depacketizer.in_fua
    out,        \* units push returned that tx.send has not seen
    log,        \* units broadcast so far
    request,    \* where each request is
    fifo,       \* does its named pipe exist in the file system?
    ffmpeg,     \* "none", "video" (reads stdin), "both" (and the pipe), "dead"
    videoFeed,  \* its video feeder: "none", "recv", "done"
    audioFeed,  \* its audio feeder: "none", "spawned", "opening", "pumping",
                \* "done"; "stuck": aborted with its thread still in open
    cursor,     \* position of its receiver in log
    missed,     \* units that went by before it subscribed or while it lagged
    wrote       \* units written to its ffmpeg

baseVars  == <<frames, base>>
loopVars  == <<loop, fuaBuffer, inFua, out, log>>
pipeVars  == <<request, fifo, ffmpeg, videoFeed, audioFeed>>
feedVars  == <<cursor, missed, wrote>>
netVars   == <<net, faults, hurt, twice>>
videoVars == <<baseVars, netVars, loopVars, pipeVars, feedVars>>

Sent == Len(frames)

UnitsIn(ps) == UNION {{ps[i].units[j] : j \in DOMAIN ps[i].units} : i \in DOMAIN ps}

PiecesIn(ns) == UNION {{ns[i][j][1] : j \in DOMAIN ns[i]} : i \in DOMAIN ns}

\* A depacketized unit goes by the unit whose header it starts with.
Unit(n) == n[1][1]

Whole(n) == n = [i \in 1 .. frames[Unit(n)] |-> <<Unit(n), i>>]

-----------------------------------------------------------------------------
\* The base.
Packet(kind, units, i, n) ==
    [kind |-> kind, units |-> units, part |-> i,
     start |-> kind = "fua" /\ i = 1, end |-> kind = "fua" /\ i = n]

Challenge == Packet("challenge", <<>>, 0, 0)

Goes(packets) ==
    /\ Len(net) <= Backlog
    /\ net' = net \o packets

BaseSends(pieces, packets) ==
    /\ base = "sending"
    /\ Sent + Len(pieces) <= MaxUnits
    /\ Goes(packets)
    /\ frames' = frames \o pieces
    /\ UNCHANGED <<base, faults, hurt, twice, loopVars, pipeVars, feedVars>>

\* A unit of its own packet, two in a STAP-A, one in three FU-A fragments, or a
\* packet of a type the bridge does not support.
BaseSendsSingle == BaseSends(<<1>>, <<Packet("nal", <<Sent + 1>>, 1, 1)>>)

BaseSendsAggregate ==
    BaseSends(<<1, 1>>, <<Packet("stap", <<Sent + 1, Sent + 2>>, 1, 1)>>)

BaseSendsFragments ==
    BaseSends(<<3>>, [i \in 1 .. 3 |-> Packet("fua", <<Sent + 1>>, i, 3)])

BaseSendsOdd ==
    /\ \A i \in DOMAIN net : net[i].kind # "odd"
    /\ BaseSends(<<>>, <<Packet("odd", <<>>, 1, 1)>>)

\* Every 500 ms until it has an answer.
BaseAsks ==
    /\ base = "asking"
    /\ \A i \in DOMAIN net : net[i].kind # "challenge"
    /\ Goes(<<Challenge>>)
    /\ UNCHANGED <<baseVars, faults, hurt, twice, loopVars, pipeVars, feedVars>>

-----------------------------------------------------------------------------
\* The network.
Fault ==
    /\ faults < MaxFaults
    /\ faults' = faults + 1

Lose(i) ==
    /\ Fault
    /\ net[i] # Challenge    \* the same as a lost answer
    /\ net' = SubSeq(net, 1, i - 1) \o SubSeq(net, i + 1, Len(net))
    /\ hurt' = hurt \cup UnitsIn(<<net[i]>>)
    /\ UNCHANGED <<twice, baseVars, loopVars, pipeVars, feedVars>>

\* Two neighbours change places; a packet without units disturbs nobody.
Displace(i) ==
    /\ Fault
    /\ net' = [net EXCEPT ![i] = net[i + 1], ![i + 1] = net[i]]
    /\ hurt' = IF <<>> \in {net[i].units, net[i + 1].units}
                 THEN hurt ELSE hurt \cup UnitsIn(<<net[i], net[i + 1]>>)
    /\ UNCHANGED <<twice, baseVars, loopVars, pipeVars, feedVars>>

\* A packet arrives twice: nothing looks at RTP sequence numbers.
Double(i) ==
    /\ Fault
    /\ net[i].units # <<>>    \* a second challenge has the same answer
    /\ net' = SubSeq(net, 1, i) \o SubSeq(net, i, Len(net))
    /\ hurt' = hurt \cup UnitsIn(<<net[i]>>)
    /\ twice' = twice \cup UnitsIn(<<net[i]>>)
    /\ UNCHANGED <<baseVars, loopVars, pipeVars, feedVars>>

\* What the bridge sends to the base reaches it, or is a fault.
Reaches(from, to) ==
    \/ /\ base' = IF base = from THEN to ELSE base
       /\ UNCHANGED faults
    \/ /\ Fault
       /\ UNCHANGED base

-----------------------------------------------------------------------------
\* The receive loop.
\* Faulty variant: the flag stays.
ResetFuaBuffer ==
    /\ fuaBuffer' = <<>>
    /\ UNCHANGED inFua

ResetFua ==
    /\ fuaBuffer' = <<>>
    /\ inFua' = FALSE

LoopStarts ==
    /\ ~loop
    /\ loop' = TRUE
    /\ ResetFua
    /\ Reaches("asleep", "asking")
    /\ UNCHANGED <<frames, net, hurt, twice, out, log, pipeVars, feedVars>>

Keepalive ==
    /\ loop
    /\ base = "asleep"
    /\ Reaches("asleep", "asking")
    /\ UNCHANGED <<frames, net, hurt, twice, loopVars, pipeVars, feedVars>>

\* Stop signal, deadline, socket error or a failed write to the media file:
\* the socket goes with the loop, the depacketizer too.
LoopEnds ==
    /\ loop
    /\ loop' = FALSE
    /\ hurt' = hurt \cup UnitsIn(net) \cup PiecesIn(out) \cup PiecesIn(<<fuaBuffer>>)
    /\ base' = "asleep"
    /\ net' = <<>>
    /\ out' = <<>>
    /\ ResetFua
    /\ UNCHANGED <<frames, faults, twice, log, pipeVars, feedVars>>

PushUnits(p) ==
    /\ p.kind \in {"nal", "stap"}
    /\ out' = [j \in DOMAIN p.units |-> <<<<p.units[j], 1>>>>]
    /\ ResetFua

\* A middle or an end without its start is dropped.
PushStray(p) ==
    /\ p.kind = "fua"
    /\ ~p.start /\ ~inFua
    /\ UNCHANGED <<fuaBuffer, inFua, out>>

\* Faulty variant: the buffer is not reset when its unit is handed out.
PushFragmentKeeps(p) ==
    /\ p.kind = "fua"
    /\ p.start \/ inFua
    /\ fuaBuffer' = (IF p.start THEN <<>> ELSE fuaBuffer)
                       \o <<<<p.units[1], p.part>>>>
    /\ inFua' = TRUE
    /\ out' = IF p.end THEN <<fuaBuffer'>> ELSE <<>>

PushFragment(p) ==
    /\ p.kind = "fua"
    /\ p.start \/ inFua
    /\ LET buffer == (IF p.start THEN <<>> ELSE fuaBuffer)
                       \o <<<<p.units[1], p.part>>>>
       IN  IF p.end
             THEN out' = <<buffer>> /\ ResetFua
             ELSE out' = <<>> /\ fuaBuffer' = buffer /\ inFua' = TRUE

PushUnsupported(p) ==
    /\ p.kind = "odd"
    /\ UNCHANGED <<fuaBuffer, inFua, out>>

\* A media packet is decrypted, written to the file and unpacked.
ReceiveMedia ==
    /\ loop /\ out = <<>> /\ net # <<>>
    /\ LET p == Head(net)
       IN  PushUnits(p) \/ PushStray(p) \/ PushFragment(p) \/ PushUnsupported(p)
    /\ net' = Tail(net)
    /\ UNCHANGED <<baseVars, faults, hurt, twice, loop, log, pipeVars, feedVars>>

\* Faulty variant: a challenge is thrown away.
SkipChallenge ==
    /\ loop /\ out = <<>> /\ net # <<>>
    /\ Head(net) = Challenge
    /\ net' = Tail(net)
    /\ UNCHANGED <<baseVars, faults, hurt, twice, loopVars, pipeVars, feedVars>>

\* A challenge is answered at once and never reaches the depacketizer.
AnswerChallenge ==
    /\ loop /\ out = <<>> /\ net # <<>>
    /\ Head(net) = Challenge
    /\ net' = Tail(net)
    /\ Reaches("asking", "sending")
    /\ UNCHANGED <<frames, hurt, twice, loopVars, pipeVars, feedVars>>

\* tx.send, one unit at a time; nobody listening is no error.
FanOut ==
    /\ out # <<>>
    /\ log' = Append(log, Head(out))
    /\ out' = Tail(out)
    /\ UNCHANGED <<baseVars, netVars, loop, fuaBuffer, inFua, pipeVars,
                   feedVars>>

-----------------------------------------------------------------------------
\* GET /stream/video.
Move(q, from, to) ==
    /\ request[q] = from
    /\ request' = [request EXCEPT ![q] = to]

\* The viewer is counted (see Intercom) and subscribes before mkfifo runs.
Attach(q) ==
    /\ Move(q, "none", "making")
    /\ cursor' = [cursor EXCEPT ![q] = Len(log)]
    /\ missed' = [missed EXCEPT ![q] = {Unit(log[i]) : i \in DOMAIN log}]
    /\ UNCHANGED <<baseVars, netVars, loopVars, fifo, ffmpeg, videoFeed, audioFeed,
                   wrote>>

\* mkfifo or the spawn of ffmpeg fails: a 500, and the pipe is removed.
PipelineFails(q) ==
    /\ Move(q, "making", "over")
    /\ UNCHANGED <<baseVars, netVars, loopVars, fifo, ffmpeg, videoFeed, audioFeed,
                   feedVars>>

\* The client is gone while mkfifo runs: the handler is dropped, and nobody
\* removes the pipe if the child makes it after all.
GivesUp(q) ==
    /\ Move(q, "making", "over")
    /\ \E made \in BOOLEAN : fifo' = [fifo EXCEPT ![q] = made]
    /\ UNCHANGED <<baseVars, netVars, loopVars, ffmpeg, videoFeed, audioFeed, feedVars>>

PipelineStarts(q) ==
    /\ Move(q, "making", "streaming")
    /\ fifo' = [fifo EXCEPT ![q] = TRUE]
    /\ ffmpeg' = [ffmpeg EXCEPT ![q] = "video"]
    /\ videoFeed' = [videoFeed EXCEPT ![q] = "recv"]
    /\ audioFeed' = [audioFeed EXCEPT ![q] = "spawned"]
    /\ UNCHANGED <<baseVars, netVars, loopVars, feedVars>>

Behind(q) == Len(log) - cursor[q]

Takes(q) ==
    /\ videoFeed[q] = "recv"
    /\ Behind(q) \in 1 .. Capacity
    /\ cursor' = [cursor EXCEPT ![q] = @ + 1]

Feed(q) ==
    /\ Takes(q)
    /\ ffmpeg[q] # "dead"
    /\ wrote' = [wrote EXCEPT ![q] = Append(@, log[cursor[q] + 1])]
    /\ UNCHANGED <<baseVars, netVars, loopVars, pipeVars, missed>>

\* Faulty variant: a failed write is no reason to stop.
FeedGoesOn(q) ==
    /\ Takes(q)
    /\ ffmpeg[q] = "dead"
    /\ UNCHANGED <<baseVars, netVars, loopVars, pipeVars, missed, wrote>>

\* A broken pipe ends the feeder; it takes a unit to notice.
FeedBreaks(q) ==
    /\ Takes(q)
    /\ ffmpeg[q] = "dead"
    /\ videoFeed' = [videoFeed EXCEPT ![q] = "done"]
    /\ UNCHANGED <<baseVars, netVars, loopVars, request, fifo, ffmpeg, audioFeed,
                   missed, wrote>>

\* RecvError::Lagged: the oldest units are overwritten, the receiver goes on
\* with the oldest that is left.
Lags(q) ==
    /\ videoFeed[q] = "recv"
    /\ Behind(q) > Capacity
    /\ cursor' = [cursor EXCEPT ![q] = Len(log) - Capacity]
    /\ missed' = [missed EXCEPT ![q] =
           @ \cup {Unit(log[i]) : i \in (cursor[q] + 1) .. (Len(log) - Capacity)}]
    /\ UNCHANGED <<baseVars, netVars, loopVars, pipeVars, wrote>>

\* The audio feeder opens the pipe for writing, which waits for a reader.
OpenFifo(q) ==
    /\ audioFeed[q] = "spawned"
    /\ audioFeed' = [audioFeed EXCEPT ![q] = IF fifo[q] THEN "opening" ELSE "done"]
    /\ UNCHANGED <<baseVars, netVars, loopVars, request, fifo, ffmpeg, videoFeed,
                   feedVars>>

\* Every 20 ms a frame or silence, until a write fails.
AudioBreaks(q) ==
    /\ audioFeed[q] = "pumping"
    /\ ffmpeg[q] = "dead"
    /\ audioFeed' = [audioFeed EXCEPT ![q] = "done"]
    /\ UNCHANGED <<baseVars, netVars, loopVars, request, fifo, ffmpeg, videoFeed,
                   feedVars>>

\* ffmpeg opens its second input when the first one has given it something.
FfmpegOpensFifo(q) ==
    /\ ffmpeg[q] = "video"
    /\ wrote[q] # <<>>
    /\ audioFeed[q] = "opening"
    /\ ffmpeg' = [ffmpeg EXCEPT ![q] = "both"]
    /\ audioFeed' = [audioFeed EXCEPT ![q] = "pumping"]
    /\ UNCHANGED <<baseVars, netVars, loopVars, request, fifo, videoFeed, feedVars>>

FfmpegExits(q) ==
    /\ ffmpeg[q] \in {"video", "both"}
    /\ ffmpeg' = [ffmpeg EXCEPT ![q] = "dead"]
    /\ UNCHANGED <<baseVars, netVars, loopVars, request, fifo, videoFeed, audioFeed,
                   feedVars>>

\* Faulty variant: only the pipe goes with the response.
ClientLeavesFfmpeg(q) ==
    /\ Move(q, "streaming", "over")
    /\ fifo' = [fifo EXCEPT ![q] = FALSE]
    /\ UNCHANGED <<baseVars, netVars, loopVars, ffmpeg, videoFeed, audioFeed, feedVars>>

\* The response body is dropped: ffmpeg is killed and the pipe removed.  The
\* handles of the feeders are dropped too, which does not abort them.
ClientLeaves(q) ==
    /\ Move(q, "streaming", "over")
    /\ fifo' = [fifo EXCEPT ![q] = FALSE]
    /\ ffmpeg' = [ffmpeg EXCEPT ![q] = "dead"]
    /\ UNCHANGED <<baseVars, netVars, loopVars, videoFeed, audioFeed, feedVars>>

\* The end of ffmpeg's output ends the body, which aborts both feeders; a
\* thread that waits in open cannot be aborted.
StreamEnds(q) ==
    /\ ffmpeg[q] = "dead"
    /\ Move(q, "streaming", "over")
    /\ fifo' = [fifo EXCEPT ![q] = FALSE]
    /\ videoFeed' = [videoFeed EXCEPT ![q] = "done"]
    /\ audioFeed' = [audioFeed EXCEPT ![q] = IF @ = "opening" THEN "stuck" ELSE "done"]
    /\ UNCHANGED <<baseVars, netVars, loopVars, ffmpeg, feedVars>>

-----------------------------------------------------------------------------
Init ==
    /\ frames = <<>> /\ base = "asleep"
    /\ net = <<>> /\ faults = 0 /\ hurt = {} /\ twice = {}
    /\ loop = FALSE
    /\ fuaBuffer = <<>> /\ inFua = FALSE /\ out = <<>> /\ log = <<>>
    /\ request = [q \in Request |-> "none"]
    /\ fifo = [q \in Request |-> FALSE]
    /\ ffmpeg = [q \in Request |-> "none"]
    /\ videoFeed = [q \in Request |-> "none"]
    /\ audioFeed = [q \in Request |-> "none"]
    /\ cursor = [q \in Request |-> 0]
    /\ missed = [q \in Request |-> {}]
    /\ wrote = [q \in Request |-> <<>>]

BaseStep == BaseSendsSingle \/ BaseSendsAggregate \/ BaseSendsFragments
              \/ BaseSendsOdd \/ BaseAsks

NetStep ==
    \/ \E i \in 1 .. Len(net) : Lose(i) \/ Double(i)
    \/ \E i \in 1 .. (Len(net) - 1) : Displace(i)

LoopStep == LoopStarts \/ Keepalive \/ LoopEnds \/ ReceiveMedia
              \/ AnswerChallenge \/ FanOut

FeederStep(q) == Feed(q) \/ FeedBreaks(q) \/ Lags(q) \/ OpenFifo(q) \/ AudioBreaks(q)

RequestStep(q) ==
    \/ Attach(q) \/ PipelineFails(q) \/ GivesUp(q) \/ PipelineStarts(q)
    \/ FfmpegOpensFifo(q) \/ FfmpegExits(q) \/ ClientLeaves(q) \/ StreamEnds(q)

Next ==
    \/ BaseStep
    \/ NetStep
    \/ LoopStep
    \/ \E q \in Request : FeederStep(q) \/ RequestStep(q)

Spec == Init /\ [][Next]_videoVars

\* tokio runs the loop and the feeders, the keepalive timer fires, and the
\* base repeats its challenge until it is answered.
FairSpec ==
    /\ Spec
    /\ WF_videoVars(BaseAsks)
    /\ WF_videoVars(Keepalive)
    /\ WF_videoVars(ReceiveMedia)
    /\ WF_videoVars(AnswerChallenge)
    /\ WF_videoVars(FanOut)
    /\ \A q \in Request :
         /\ WF_videoVars(Feed(q) \/ FeedBreaks(q) \/ Lags(q))
         /\ WF_videoVars(OpenFifo(q) \/ AudioBreaks(q))

-----------------------------------------------------------------------------
\* Every variable keeps to its values.
TypeOK ==
    /\ frames \in Seq(1 .. 3) /\ Sent <= MaxUnits
    /\ base \in {"asleep", "asking", "sending"}
    /\ Len(net) <= Backlog + 3 + faults /\ faults \in 0 .. MaxFaults
    /\ hurt \subseteq 1 .. Sent /\ twice \subseteq hurt
    /\ loop \in BOOLEAN /\ inFua = (fuaBuffer # <<>>)
    /\ request \in [Request -> {"none", "making", "streaming", "over"}]
    /\ fifo \in [Request -> BOOLEAN]
    /\ ffmpeg \in [Request -> {"none", "video", "both", "dead"}]
    /\ videoFeed \in [Request -> {"none", "recv", "done"}]
    /\ audioFeed \in [Request ->
           {"none", "spawned", "opening", "pumping", "done", "stuck"}]
    /\ \A q \in Request : cursor[q] <= Len(log) /\ Len(wrote[q]) <= cursor[q]

\* The units as the ffmpeg of request q is given them.
ShownTo(q) ==
    [i \in DOMAIN wrote[q] |->
        [unit |-> Unit(wrote[q][i]), whole |-> Whole(wrote[q][i])]]

\* Requests are alike: one stands for all.
Watched == CHOOSE q \in Request : TRUE

Stream ==
    INSTANCE NalStream WITH
        sent <- Sent,
        hurt <- hurt \cup missed[Watched],
        twice <- twice,
        shown <- ShownTo(Watched)

\* What a viewer's ffmpeg is given implements NalStream: a packet that is lost,
\* displaced, doubled or passed over harms the units it carried and no other;
\* the depacketizer finds its way back at the next unit.
ImplementsNalStream == Stream!Spec

\* A call that goes on gets past the base's challenge, whatever packets,
\* keepalives or answers were lost on the way.
MediaStarts == loop ~> base = "sending" \/ ~loop

\* A request that is over leaves no ffmpeg behind, and a pipe only if the
\* client left while mkfifo was at work.
NothingLeftRunning ==
    \A q \in Request : request[q] = "over" =>
        /\ ffmpeg[q] \in {"none", "dead"}
        /\ fifo[q] => ffmpeg[q] = "none"

\* Nobody aborts the feeders of a client that left: the video feeder ends at
\* the next unit, the audio feeder unless it waits for an ffmpeg that never
\* opened the pipe.
FeedersEnd ==
    \A q \in Request :
        /\ request[q] = "over" /\ cursor[q] < Len(log) ~> videoFeed[q] # "recv"
        /\ request[q] = "over" /\ audioFeed[q] \in {"spawned", "pumping"}
             ~> audioFeed[q] = "done"
=============================================================================
