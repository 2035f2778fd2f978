--------------------------- MODULE MonitorSession ---------------------------
(***************************************************************************)
(* The daemon's control core: the kick connection (connect_and_pump), the  *)
(* monitor sessions it spawns (run_monitor and the task around it), the    *)
(* process-wide table of pending connects, and what they write to the      *)
(* MediaHub.                                                               *)
(*                                                                         *)
(* One session is one spawned task, which outlives the command that        *)
(* stopped it and the connection that started it.  The pump, the send      *)
(* loop, the heartbeat, every session, its two receive loops and its mixer *)
(* are separate tokio tasks: each is an action of its own here.            *)
(***************************************************************************)
EXTENDS Naturals, Sequences, FiniteSets

CONSTANTS
    Session,    \* the monitor tasks one execution may spawn
    Talker,     \* the talker ids the clients use
    None,       \* no session
    MaxEpoch,   \* bound: kick connections established in one execution
    CmdCap,     \* capacity of the DaemonCommand channel (16 in the code)
    HbSeqs      \* bound: heartbeats take fresh seqNos only below this one

ASSUME ConstantsAssumption ==
    /\ None \notin Session
    /\ MaxEpoch \in Nat \ {0}
    /\ CmdCap \in Nat \ {0}
    /\ HbSeqs \in Nat

VARIABLES
    pump,      \* where connect_and_pump / run_kick_loop is
    active,    \* the pump's `active: Option<ActiveMonitor>`
    cmdq,      \* the DaemonCommand channel; lives across connections
    epoch,     \* number of the current (or last) kick connection
    wssUp,     \* the connection still carries frames
    sendLoop,  \* the connection's send_loop task is alive
    outq,      \* its channel of frames to write
    seqCtr,    \* seq_no_counter of each connection
    pending,   \* sessions whose entry is in MONITOR_PENDING
    task,      \* where each session's task is
    stop,      \* its stop watch: still false, true, or the sender dropped
    epochOf,   \* the connection it was spawned on
    seqOf,     \* the seqNo of its connect kick
    inbox,     \* its response channel
    outcome,   \* what its monitor.ended event reports
    loops,     \* its media tasks that still run
    outbound,  \* hub.outbound: the session whose context is registered
    phase,     \* hub.phase
    talkers,   \* hub.talkers
    mixing,    \* the mixer inside hub.state's lock, about to set the phase
    hangups,   \* hangup handlers that still have a StopMonitor to send
    asked,     \* connects the base has received and not answered
    calls,     \* calls the base holds open with this phone
    replies    \* connect responses on their way to the pump

pumpVars == <<pump, active>>
wireVars == <<epoch, wssUp, sendLoop, outq>>
taskVars == <<task, inbox, outcome, loops>>
bornVars == <<epochOf, seqOf, seqCtr>>
hubVars  == <<outbound, phase, talkers, mixing>>
envVars  == <<hangups, asked, calls, replies>>
vars == <<pumpVars, cmdq, wireVars, bornVars, pending, taskVars, stop,
          hubVars, envVars>>

-----------------------------------------------------------------------------
Command == {"start", "stop", "quit"}
Loop    == {"audio", "video", "mixer"}
Frame   == [kind : {"connect", "disconnect"}, of : Session]
Mail    == [verdict : {"accept", "reject"}, of : Session]
               \cup [verdict : {"empty", "closed"}, of : {None}]
Empty   == [verdict |-> "empty",  of |-> None]
Closed  == [verdict |-> "closed", of |-> None]
Reply   == [verdict : {"accept", "reject"}, of : Session]
Mixing  == [of : Session \cup {None}, to : {"Idle", "Preview", "Talking"}]
NoMixer == [of |-> None, to |-> "Idle"]

Init ==
    /\ pump = "offline" /\ active = None /\ cmdq = <<>>
    /\ epoch = 0 /\ wssUp = FALSE /\ sendLoop = FALSE /\ outq = <<>>
    /\ seqCtr = [e \in 1..MaxEpoch |-> 1]     \* getState took seqNo 0
    /\ pending = {}
    /\ task = [s \in Session |-> "unborn"]
    /\ stop = [s \in Session |-> "false"]
    /\ epochOf = [s \in Session |-> 0]
    /\ seqOf = [s \in Session |-> 0]
    /\ inbox = [s \in Session |-> Empty]
    /\ outcome = [s \in Session |-> "none"]
    /\ loops = [s \in Session |-> {}]
    /\ outbound = None /\ phase = "Idle" /\ talkers = {} /\ mixing = NoMixer
    /\ hangups = {} /\ asked = {} /\ calls = {} /\ replies = {}

-----------------------------------------------------------------------------
(* Commands: stdin, the HTTP handlers and the ring detector feed one       *)
(* channel.  A sender that awaits a full channel is a disabled action; a   *)
(* try_send on a full channel is dropped, a stuttering step.               *)

\* hub.state's lock.  Nobody keeps it from one step to the next but a mixer.
HubFree == mixing = NoMixer

\* Bound: no commands once Quit has been taken, since nobody reads them.
HasRoom ==
    /\ pump \notin {"finishing", "quitting", "exited"}
    /\ Len(cmdq) < CmdCap

Post(c) == HasRoom /\ cmdq' = Append(cmdq, c)

\* Bound: no more StartMonitor commands than sessions left to spawn.
StartsLeft ==
    Cardinality({i \in DOMAIN cmdq : cmdq[i] = "start"})
        < Cardinality({s \in Session : task[s] = "unborn"})

PostMonitor ==
    /\ StartsLeft
    /\ Post("start")
    /\ UNCHANGED <<pumpVars, wireVars, bornVars, pending, taskVars, stop,
                   hubVars, envVars>>

DeleteMonitor ==
    /\ Post("stop")
    /\ UNCHANGED <<pumpVars, wireVars, bornVars, pending, taskVars, stop,
                   hubVars, envVars>>

StdinQuit ==
    /\ Post("quit")
    /\ UNCHANGED <<pumpVars, wireVars, bornVars, pending, taskVars, stop,
                   hubVars, envVars>>

\* A doorbell notice: auto-start a preview unless `active.is_some()`.
Ring ==
    /\ pump = "running" /\ wssUp
    /\ active = None
    /\ StartsLeft
    /\ Post("start")
    /\ UNCHANGED <<pumpVars, wireVars, bornVars, pending, taskVars, stop,
                   hubVars, envVars>>

PostAnswer(k) ==
    /\ pump # "exited"
    /\ HubFree
    /\ talkers' = talkers \cup {k}
    /\ UNCHANGED <<pumpVars, cmdq, wireVars, bornVars, pending, taskVars, stop,
                   outbound, phase, mixing, envVars>>

\* The last talker out stops the monitor; so does a talker nobody knows
\* when no other is registered.  Bound: one hangup request per talker id.
PostHangup(k) ==
    /\ pump # "exited"
    /\ HubFree
    /\ k \notin hangups
    /\ talkers' = talkers \ {k}
    /\ hangups' = IF talkers' = {} THEN hangups \cup {k} ELSE hangups
    /\ UNCHANGED <<pumpVars, cmdq, wireVars, bornVars, pending, taskVars, stop,
                   outbound, phase, mixing, asked, calls, replies>>

\* Its StopMonitor is sent with the hub's lock released, once there is room.
HangupStops(k) ==
    /\ k \in hangups
    /\ Post("stop")
    /\ hangups' = hangups \ {k}
    /\ UNCHANGED <<pumpVars, wireVars, bornVars, pending, taskVars, stop,
                   hubVars, asked, calls, replies>>

-----------------------------------------------------------------------------
(* The connection and its pump.                                            *)

\* The handshake, the inner auth and the first getState.  A failed attempt
\* backs off and tries again: a stuttering step here.
Connect ==
    /\ pump = "offline"
    /\ epoch < MaxEpoch
    /\ pump' = "running"
    /\ epoch' = epoch + 1
    /\ wssUp' = TRUE /\ sendLoop' = TRUE /\ outq' = <<>>
    /\ UNCHANGED <<active, cmdq, bornVars, pending, taskVars, stop, hubVars,
                   envVars>>

\* The connection dies; responses still on it are lost.  Bound: the last
\* connection does not die, so the execution always has one to go on with.
WssLost ==
    /\ wssUp
    /\ epoch < MaxEpoch
    /\ wssUp' = FALSE
    /\ replies' = {}
    /\ UNCHANGED <<pumpVars, cmdq, epoch, sendLoop, outq, bornVars, pending,
                   taskVars, stop, hubVars, asked, calls, hangups>>

PumpSeesClose ==
    /\ pump = "running"
    /\ ~wssUp
    /\ pump' = "reconnecting"
    /\ UNCHANGED <<active, cmdq, wireVars, bornVars, pending, taskVars, stop,
                   hubVars, envVars>>

\* Faulty variant: a session takes the number of the connection to come.
SpawnCountsAhead(s) ==
    /\ task' = [task EXCEPT ![s] = "opening"]
    /\ epochOf' = [epochOf EXCEPT ![s] = epoch + 1]
    /\ phase' = "Preview"
    /\ active' = s
    /\ UNCHANGED <<pump, stop>>

Spawn(s) ==
    /\ task' = [task EXCEPT ![s] = "opening"]
    /\ epochOf' = [epochOf EXCEPT ![s] = epoch]
    /\ phase' = "Preview"
    /\ active' = s
    /\ UNCHANGED <<pump, stop>>

TakeCommand(c) ==
    /\ pump = "running"
    /\ cmdq # <<>>
    /\ Head(cmdq) = c
    /\ cmdq' = Tail(cmdq)
    /\ UNCHANGED <<wireVars, seqOf, seqCtr, pending, inbox, outcome, loops,
                   outbound, talkers, mixing, envVars>>

\* Faulty variant: StartMonitor without the `active.is_some()` check.
TakeStartUnchecked ==
    /\ TakeCommand("start")
    /\ \E s \in Session : task[s] = "unborn" /\ Spawn(s)

\* Ignored when a session is active, and when create_dir_all fails.
TakeStart ==
    /\ TakeCommand("start")
    /\ \/ /\ active = None
          /\ \E s \in Session : task[s] = "unborn" /\ Spawn(s)
       \/ UNCHANGED <<pumpVars, task, epochOf, phase, stop>>

SignalStop ==
    stop' = IF active = None THEN stop ELSE [stop EXCEPT ![active] = "true"]

\* Faulty variant: the stop is sent but `active` is not taken.
TakeStopKeepsActive ==
    /\ TakeCommand("stop")
    /\ SignalStop
    /\ UNCHANGED <<active, pump, task, epochOf, phase>>

\* active.take(): the session is told to stop and not awaited.
TakeStop ==
    /\ TakeCommand("stop")
    /\ SignalStop
    /\ active' = None
    /\ UNCHANGED <<pump, task, epochOf, phase>>

\* Quit awaits the session it stops: `active` keeps naming it meanwhile.
TakeQuit ==
    /\ TakeCommand("quit")
    /\ SignalStop
    /\ pump' = IF active = None THEN "quitting" ELSE "finishing"
    /\ UNCHANGED <<active, task, epochOf, phase>>

QuitAwaited ==
    /\ pump = "finishing"
    /\ task[active] = "done"
    /\ pump' = "quitting"
    /\ active' = None
    /\ UNCHANGED <<cmdq, wireVars, bornVars, pending, taskVars, stop, hubVars,
                   envVars>>

\* `send_loop.await` comes before `hb_loop.abort()`, and the heartbeat holds
\* a sender: the send loop cannot end by its channel closing, so the pump
\* returns only after a failed write.  Returning drops `active` and, with
\* it, the stop sender of a session that nobody told to stop.
PumpReturns ==
    /\ pump \in {"reconnecting", "quitting"}
    /\ ~sendLoop
    /\ pump' = IF pump = "quitting" THEN "exited" ELSE "offline"
    /\ stop' = IF active = None THEN stop
                                ELSE [stop EXCEPT ![active] = "dropped"]
    /\ active' = None
    /\ UNCHANGED <<cmdq, wireVars, bornVars, pending, taskVars, hubVars,
                   envVars>>

-----------------------------------------------------------------------------
(* The send loop and the heartbeat.                                        *)

\* A heartbeat takes a seqNo of the connection.  Its frame has no effect at
\* the base; that it is written at all matters in SendFails.
Heartbeat ==
    /\ sendLoop
    /\ seqCtr[epoch] < HbSeqs
    /\ seqCtr' = [seqCtr EXCEPT ![epoch] = @ + 1]
    /\ UNCHANGED <<pumpVars, cmdq, wireVars, epochOf, seqOf, pending, taskVars,
                   stop, hubVars, envVars>>

\* A written frame reaches the base.  The disconnect kick names no call (it
\* carries a seqNo of its own): the base ends the sender's, or every call.
SendFrame ==
    /\ sendLoop /\ wssUp
    /\ outq # <<>>
    /\ outq' = Tail(outq)
    /\ LET m == Head(outq) IN
         /\ asked' = IF m.kind = "connect" THEN asked \cup {m.of} ELSE asked
         /\ calls' \in IF m.kind = "disconnect" THEN {calls \ {m.of}, {}}
                                                ELSE {calls}
    /\ UNCHANGED <<pumpVars, cmdq, epoch, wssUp, sendLoop, bornVars, pending,
                   taskVars, stop, hubVars, replies, hangups>>

\* Faulty variant: only a session's frame can find the connection broken,
\* as if the heartbeat were aborted before the send loop is awaited.
SendFailsOnSession ==
    /\ sendLoop /\ ~wssUp
    /\ outq # <<>>
    /\ sendLoop' = FALSE
    /\ outq' = <<>>
    /\ UNCHANGED <<pumpVars, cmdq, epoch, wssUp, bornVars, pending, taskVars,
                   stop, hubVars, envVars>>

\* The first failed write ends the loop; what is queued behind it is lost.
\* If no session has a frame to write, the next heartbeat's write fails: the
\* heartbeat runs until the channel closes, also while the pump is leaving.
SendFails ==
    /\ sendLoop /\ ~wssUp
    /\ sendLoop' = FALSE
    /\ outq' = <<>>
    /\ UNCHANGED <<pumpVars, cmdq, epoch, wssUp, bornVars, pending, taskVars,
                   stop, hubVars, envVars>>

-----------------------------------------------------------------------------
(* The base station, behind Panasonic's relay.                             *)

\* The answer goes to whichever connection the phone has, if any.
BaseAnswers(s, verdict) ==
    /\ s \in asked
    /\ asked' = asked \ {s}
    /\ calls' = IF verdict = "accept" THEN calls \cup {s} ELSE calls
    /\ replies' = IF wssUp
                    THEN replies \cup {[verdict |-> verdict, of |-> s]}
                    ELSE replies
    /\ UNCHANGED <<pumpVars, cmdq, wireVars, bornVars, pending, taskVars, stop,
                   hubVars, hangups>>

BaseHangsUp(s) ==
    /\ s \in calls
    /\ calls' = calls \ {s}
    /\ UNCHANGED <<pumpVars, cmdq, wireVars, bornVars, pending, taskVars, stop,
                   hubVars, asked, replies, hangups>>

-----------------------------------------------------------------------------
(* MONITOR_PENDING: a map from seqNo, kept as the set of sessions whose    *)
(* entry is in it.                                                         *)

EntriesAt(q) == {t \in pending : seqOf[t] = q}

\* The pump hands a connect response to whoever is registered for its seqNo.
HandleReply(r) ==
    /\ pump = "running" /\ wssUp
    /\ r \in replies
    /\ replies' = replies \ {r}
    /\ LET to == EntriesAt(seqOf[r.of]) IN
         /\ pending' = pending \ to
         /\ inbox' = [t \in Session |->
                        IF t \in to /\ task[t] = "waiting" THEN r ELSE inbox[t]]
    /\ UNCHANGED <<pumpVars, cmdq, wireVars, bornVars, task, outcome, loops,
                   stop, hubVars, asked, calls, hangups>>

\* Removing an entry drops the response sender of the session it belongs to.
CloseInboxes(gone) ==
    [t \in Session |-> IF t \in gone /\ task[t] = "waiting" /\ inbox[t] = Empty
                         THEN Closed ELSE inbox[t]]

-----------------------------------------------------------------------------
(* One session.                                                            *)

At(s, place) == pump # "exited" /\ task[s] = place

CanSend(s) == sendLoop /\ epochOf[s] = epoch

Fail(s) ==
    /\ task' = [task EXCEPT ![s] = "ended"]
    /\ outcome' = [outcome EXCEPT ![s] = "error"]

BindFails(s) ==
    /\ At(s, "opening")
    /\ Fail(s)
    /\ UNCHANGED <<pumpVars, cmdq, wireVars, bornVars, pending, inbox, loops,
                   stop, hubVars, envVars>>

\* Faulty variant: the seqNo is read and not advanced.
SendConnectReusesSeq(s) ==
    /\ At(s, "opening") /\ CanSend(s)
    /\ seqOf' = [seqOf EXCEPT ![s] = seqCtr[epochOf[s]]]
    /\ pending' = (pending \ EntriesAt(seqCtr[epochOf[s]])) \cup {s}
    /\ inbox' = CloseInboxes(EntriesAt(seqCtr[epochOf[s]]))
    /\ outq' = Append(outq, [kind |-> "connect", of |-> s])
    /\ task' = [task EXCEPT ![s] = "waiting"]
    /\ UNCHANGED <<pumpVars, cmdq, epoch, wssUp, sendLoop, epochOf, seqCtr,
                   outcome, loops, stop, hubVars, envVars>>

\* Take a seqNo, register under it (displacing an older entry), send the
\* connect kick.  If the send loop is gone the entry stays behind.
SendConnect(s) ==
    /\ At(s, "opening")
    /\ LET q == seqCtr[epochOf[s]]
           displaced == EntriesAt(q)
       IN /\ seqOf' = [seqOf EXCEPT ![s] = q]
          /\ seqCtr' = [seqCtr EXCEPT ![epochOf[s]] = q + 1]
          /\ pending' = (pending \ displaced) \cup {s}
          /\ inbox' = CloseInboxes(displaced)
    /\ IF CanSend(s)
         THEN /\ outq' = Append(outq, [kind |-> "connect", of |-> s])
              /\ task' = [task EXCEPT ![s] = "waiting"]
              /\ UNCHANGED outcome
         ELSE Fail(s) /\ UNCHANGED outq
    /\ UNCHANGED <<pumpVars, cmdq, epoch, wssUp, sendLoop, epochOf, loops, stop,
                   hubVars, envVars>>

\* Five seconds without an answer: the entry stays, nothing is sent.
Timeout(s) ==
    /\ At(s, "waiting")
    /\ inbox[s] = Empty
    /\ Fail(s)
    /\ UNCHANGED <<pumpVars, cmdq, wireVars, bornVars, pending, inbox, loops,
                   stop, hubVars, envVars>>

\* The response channel closed, or the answer was accepted but its SDP or
\* the media files were unusable: the error returns at once.
SetupFails(s) ==
    /\ At(s, "waiting")
    /\ inbox[s].verdict \in {"closed", "accept"}
    /\ Fail(s)
    /\ UNCHANGED <<pumpVars, cmdq, wireVars, bornVars, pending, inbox, loops,
                   stop, hubVars, envVars>>

Rejected(s) ==
    /\ At(s, "waiting")
    /\ inbox[s].verdict = "reject"
    /\ Fail(s)
    /\ pending' = pending \ EntriesAt(seqOf[s])
    /\ inbox' = CloseInboxes(EntriesAt(seqOf[s]))
    /\ UNCHANGED <<pumpVars, cmdq, wireVars, bornVars, loops, stop, hubVars,
                   envVars>>

StartMedia(s) ==
    /\ At(s, "waiting")
    /\ inbox[s].verdict = "accept"
    /\ HubFree
    /\ task' = [task EXCEPT ![s] = "media"]
    /\ loops' = [loops EXCEPT ![s] = Loop]
    /\ outbound' = s
    /\ UNCHANGED <<pumpVars, cmdq, wireVars, bornVars, pending, inbox, outcome,
                   stop, phase, talkers, mixing, envVars>>

LoopEnds(s, l) ==
    /\ l \in loops[s]
    /\ pump # "exited"
    /\ loops' = [loops EXCEPT ![s] = @ \ {l}]
    /\ UNCHANGED <<pumpVars, cmdq, wireVars, bornVars, pending, task, inbox,
                   outcome, stop, hubVars, envVars>>

\* A receive loop breaks when its watch turns true ...
ReceiveStops(s, l) == l # "mixer" /\ stop[s] = "true" /\ LoopEnds(s, l)

\* ... or at its deadline (duration, 12 h by default) or a socket error.
ReceiveGivesUp(s, l) == l # "mixer" /\ LoopEnds(s, l)

\* Faulty variant: any result of stop.changed() ends the mixer.
MixerStopsOnDrop(s) ==
    stop[s] # "false" /\ mixing.of # s /\ LoopEnds(s, "mixer")

\* The mixer breaks only on a watch that turned true.
MixerStops(s) ==
    stop[s] = "true" /\ mixing.of # s /\ LoopEnds(s, "mixer")

\* The phase a mixer asks for when it sees `ph` with the talkers `ks`.
Wanted(ph, ks) ==
    IF ks = {} /\ ph = "Talking" THEN "Preview"
    ELSE IF ks # {} /\ ph = "Preview" THEN "Talking" ELSE ph

\* One mixer tick: nothing without an outbound context; else reap any idle
\* talkers and read the phase.
MixerTick(s) ==
    /\ pump # "exited"
    /\ HubFree
    /\ "mixer" \in loops[s]
    /\ outbound # None
    /\ talkers' \in SUBSET talkers
    /\ mixing' = IF Wanted(phase, talkers') = phase THEN NoMixer
                 ELSE [of |-> s, to |-> Wanted(phase, talkers')]
    /\ UNCHANGED <<pumpVars, cmdq, wireVars, bornVars, pending, taskVars, stop,
                   outbound, phase, envVars>>

\* ... and set it.  The phase is an atomic outside the lock: the pump and an
\* epilogue may have written it since it was read.
MixerSetsPhase(s) ==
    /\ pump # "exited"
    /\ mixing.of = s
    /\ phase' = mixing.to
    /\ mixing' = NoMixer
    /\ UNCHANGED <<pumpVars, cmdq, wireVars, bornVars, pending, taskVars, stop,
                   outbound, talkers, envVars>>

\* Faulty variant: the end of the session waits for a live send loop.
DisconnectNeedsSendLoop(s) ==
    /\ At(s, "media") /\ loops[s] = {} /\ CanSend(s)
    /\ outq' = Append(outq, [kind |-> "disconnect", of |-> s])
    /\ task' = [task EXCEPT ![s] = "ended"]
    /\ outcome' = [outcome EXCEPT ![s] = "ok"]
    /\ UNCHANGED <<pumpVars, cmdq, epoch, wssUp, sendLoop, bornVars, pending,
                   inbox, loops, stop, hubVars, envVars>>

\* Faulty variant: a session ends without a disconnect kick.
EndsSilently(s) ==
    /\ At(s, "media") /\ loops[s] = {}
    /\ task' = [task EXCEPT ![s] = "ended"]
    /\ outcome' = [outcome EXCEPT ![s] = "ok"]
    /\ UNCHANGED <<pumpVars, cmdq, wireVars, bornVars, pending, inbox, loops,
                   stop, hubVars, envVars>>

\* Both receive loops and the mixer joined: send the disconnect kick (its
\* seqNo is a fresh one, and its loss is ignored) and drop the entry.
Disconnect(s) ==
    /\ At(s, "media")
    /\ loops[s] = {}
    /\ seqCtr' = [seqCtr EXCEPT ![epochOf[s]] = @ + 1]
    /\ outq' = IF CanSend(s)
                 THEN Append(outq, [kind |-> "disconnect", of |-> s])
                 ELSE outq
    /\ pending' = pending \ EntriesAt(seqOf[s])
    /\ inbox' = CloseInboxes(EntriesAt(seqOf[s]))
    /\ task' = [task EXCEPT ![s] = "ended"]
    /\ outcome' = [outcome EXCEPT ![s] = "ok"]
    /\ UNCHANGED <<pumpVars, cmdq, epoch, wssUp, sendLoop, epochOf, seqOf,
                   loops, stop, hubVars, envVars>>

\* Faulty variant: a failed session forgets the phase.
GoIdleOnSuccess(s) ==
    /\ At(s, "ended")
    /\ phase' = IF outcome[s] = "ok" THEN "Idle" ELSE phase
    /\ task' = [task EXCEPT ![s] = "clearing"]
    /\ UNCHANGED <<pumpVars, cmdq, wireVars, bornVars, pending, inbox, outcome,
                   loops, stop, outbound, talkers, mixing, envVars>>

\* The task's epilogue, for every way run_monitor returns: monitor.ended and
\* phase Idle first, the hub's talkers and outbound once its lock is taken.
GoIdle(s) ==
    /\ At(s, "ended")
    /\ phase' = "Idle"
    /\ task' = [task EXCEPT ![s] = "clearing"]
    /\ UNCHANGED <<pumpVars, cmdq, wireVars, bornVars, pending, inbox, outcome,
                   loops, stop, outbound, talkers, mixing, envVars>>

\* Faulty variant: the outbound context outlives the session.
ClearTalkersOnly(s) ==
    /\ At(s, "clearing")
    /\ HubFree
    /\ talkers' = {}
    /\ task' = [task EXCEPT ![s] = "done"]
    /\ UNCHANGED <<pumpVars, cmdq, wireVars, bornVars, pending, inbox, outcome,
                   loops, stop, outbound, phase, mixing, envVars>>

ClearHub(s) ==
    /\ At(s, "clearing")
    /\ HubFree
    /\ talkers' = {}
    /\ outbound' = None
    /\ task' = [task EXCEPT ![s] = "done"]
    /\ UNCHANGED <<pumpVars, cmdq, wireVars, bornVars, pending, inbox, outcome,
                   loops, stop, phase, mixing, envVars>>

-----------------------------------------------------------------------------
Clients ==
    \/ PostMonitor \/ DeleteMonitor \/ StdinQuit \/ Ring
    \/ \E k \in Talker : PostAnswer(k) \/ PostHangup(k) \/ HangupStops(k)

Pump ==
    \/ Connect \/ PumpSeesClose \/ PumpReturns
    \/ TakeStart \/ TakeStop \/ TakeQuit \/ QuitAwaited
    \/ \E r \in Reply : HandleReply(r)

Wire == WssLost \/ Heartbeat \/ SendFrame \/ SendFails

Base == \E s \in Session :
    BaseHangsUp(s) \/ \E v \in {"accept", "reject"} : BaseAnswers(s, v)

SessionStep(s) ==
    \/ BindFails(s) \/ SendConnect(s) \/ Timeout(s) \/ SetupFails(s)
    \/ Rejected(s) \/ StartMedia(s) \/ Disconnect(s) \/ GoIdle(s) \/ ClearHub(s)

MediaStep(s) ==
    \/ \E l \in Loop : ReceiveStops(s, l) \/ ReceiveGivesUp(s, l)
    \/ MixerStops(s) \/ MixerTick(s) \/ MixerSetsPhase(s)

\* The process has ended: only the base and the network go on.
Exited == pump = "exited" /\ UNCHANGED vars

Next ==
    \/ Clients \/ Pump \/ Wire \/ Base \/ Exited
    \/ \E s \in Session : SessionStep(s) \/ MediaStep(s)

Spec == Init /\ [][Next]_vars

-----------------------------------------------------------------------------
(* Fairness: tokio polls every runnable task and fires every timer it      *)
(* armed, the pump polls its select arms, and the heartbeat interval never *)
(* stops.  A mixer between two ticks finds its stop arm ready alone, so it *)
(* takes it however often the ticks go on (SF).                            *)
(* Nothing is assumed of clients, of the base or of the network,           *)
(* nor that a receive loop meets an error, nor that create_dir_all and     *)
(* bind succeed.                                                           *)
Fairness ==
    /\ WF_vars(Connect) /\ WF_vars(PumpSeesClose) /\ WF_vars(PumpReturns)
    /\ WF_vars(TakeStop) /\ WF_vars(TakeQuit) /\ WF_vars(QuitAwaited)
    /\ WF_vars(TakeStart) /\ WF_vars(\E r \in Reply : HandleReply(r))
    /\ WF_vars(SendFrame) /\ WF_vars(SendFails)
    /\ \A s \in Session : WF_vars(SessionStep(s))
    /\ \A s \in Session, l \in Loop : WF_vars(ReceiveStops(s, l))
    /\ \A s \in Session : SF_vars(MixerStops(s)) /\ WF_vars(MixerSetsPhase(s))

FairSpec == Spec /\ Fairness

-----------------------------------------------------------------------------
TypeOK ==
    /\ pump \in {"offline", "running", "finishing", "reconnecting",
                 "quitting", "exited"}
    /\ active \in Session \cup {None}
    /\ cmdq \in Seq(Command)
    /\ epoch \in 0..MaxEpoch
    /\ wssUp \in BOOLEAN /\ sendLoop \in BOOLEAN
    /\ outq \in Seq(Frame)
    /\ seqCtr \in [1..MaxEpoch -> Nat]
    /\ pending \in SUBSET Session
    /\ task \in [Session -> {"unborn", "opening", "waiting", "media", "ended",
                             "clearing", "done"}]
    /\ stop \in [Session -> {"false", "true", "dropped"}]
    /\ epochOf \in [Session -> 0..MaxEpoch]
    /\ seqOf \in [Session -> Nat]
    /\ inbox \in [Session -> Mail]
    /\ outcome \in [Session -> {"none", "ok", "error"}]
    /\ loops \in [Session -> SUBSET Loop]
    /\ outbound \in Session \cup {None}
    /\ phase \in {"Idle", "Preview", "Talking"}
    /\ talkers \in SUBSET Talker
    /\ mixing \in Mixing
    /\ hangups \in SUBSET Talker
    /\ asked \in SUBSET Session /\ calls \in SUBSET Session
    /\ replies \in SUBSET Reply

Started(s) == task[s] # "unborn"
Live(s) == task[s] \notin {"unborn", "done"}

\* A session that was neither told to stop nor cut off is the one the pump
\* holds in `active`, on whatever connection: nothing else can be stopped.
Unstopped == \A s \in Session : Started(s) /\ stop[s] = "false" => active = s

\* hub.outbound belongs to a session whose task will still clear it.
OutboundOwned ==
    outbound # None => task[outbound] \in {"media", "ended", "clearing"}

\* Once every monitor task has ended, in whatever order their epilogues ran,
\* no outbound context is left and /state reports Idle.
HubQuiet ==
    (\A s \in Session : ~Live(s)) => outbound = None /\ phase = "Idle"

\* monitor.ended with ok only ever follows a stop: neither the deadline, nor
\* media errors, nor the loss of the connection ends a session cleanly.
OkOnlyAfterStop ==
    \A s \in Session : outcome[s] = "ok" => stop[s] = "true"

\* If the pump still holds a session whose task is over, it failed.
StaleActiveFailed ==
    pump = "running" /\ active # None /\ task[active] = "done"
        => outcome[active] = "error"

\* A response can reach the wrong session only across connections, where the
\* seqNo counter starts over; on one connection each gets its own answer.
AnswersMixOnlyAcrossConnections ==
    \A s \in Session :
        LET from == inbox[s].of IN
        from \notin {None, s} => epochOf[from] # epochOf[s]

\* While the connection it ran on is up, a session that ended cleanly on its
\* own answer left no call open at the base except one whose disconnect is
\* still queued.
NoCallLeftOpen ==
    \A s \in calls :
        outcome[s] = "ok" /\ inbox[s].of = s /\ epochOf[s] = epoch /\ wssUp
            => \E i \in DOMAIN outq :
                   outq[i] = [kind |-> "disconnect", of |-> s]

\* A session that was told to stop ends, as the comment on StopMonitor says,
\* whether or not its connection is still there to carry the disconnect.
StopEnds ==
    \A s \in Session :
        stop[s] = "true" ~> task[s] = "done" \/ pump = "exited"

\* After the loss of a connection the pump is back on a new one.
Reconnects == pump = "reconnecting" ~> pump = "running"

-----------------------------------------------------------------------------
(* What comments in the code say and the code does not do.                 *)

\* "Active monitor session": what the pump holds as active, and what a ring
\* or a StartMonitor is ignored for, is a session that still runs.
ActiveIsLive == pump = "running" /\ active # None => Live(active)

\* "At most one at a time": two sessions that nobody told to stop never
\* receive media side by side.
AtMostOneSession ==
    \A s, t \in Session :
        /\ task[s] = "media" /\ stop[s] # "true"
        /\ task[t] = "media" /\ stop[t] # "true"
        => s = t

\* The outbound context is "populated by run_monitor when a session starts,
\* cleared when it ends": a session in its media phase that nobody told to
\* stop finds a context registered.
OutboundWhileMedia ==
    \A s \in Session :
        task[s] = "media" /\ stop[s] = "false" => outbound # None

\* "Cap at 12h to prevent a wedged client from pinning the call open
\* forever": once both receive loops have ended, so does the session.
CapEndsCall ==
    \A s \in Session :
        task[s] = "media" /\ loops[s] = {"mixer"}
            ~> task[s] # "media" \/ pump = "exited"
=============================================================================
