---------------------------- MODULE HomeAssistant ----------------------------
(***************************************************************************)
(* The Home Assistant integration against the daemon's HTTP API: the event *)
(* pump and the ring sensor on one side, the Answer and Hangup buttons     *)
(* with their shared TokenHolder on the other.  The daemon is here for     *)
(* what it answers: the broadcast bus behind GET /events, the talkers, and *)
(* a session whose own life is MonitorSession's matter.                    *)
(***************************************************************************)
EXTENDS Naturals, Sequences

CONSTANTS
    Token,      \* talker ids, one for each press of Answer
    Press,      \* presses of Hangup; one is used again once it is over
    None,       \* no token
    Capacity,   \* slots of the event bus (256)
    MaxFaults   \* bound: lost requests, broken streams, reloads

ASSUME HomeAssumption ==
    /\ Capacity \in Nat \ {0} /\ MaxFaults \in Nat
    /\ None \notin Token

VARIABLES
    door,       \* the last doorphone.ring event said active
    conn,       \* GET /events: "none", "up", "silent" (nothing comes, nobody
                \* knows: not even the headers, or no more events)
    queue,      \* events on the way to the pump, oldest first
    pump,       \* _pump_events: "connecting", "reading", "waiting"
    listening,  \* the ring sensor is among runtime.listeners
    sensor,     \* RingBinarySensor._attr_is_on
    missed      \* the last ring event will never reach the sensor

VARIABLES
    current,    \* TokenHolder.current
    answer,     \* press of Answer: "unused", "posted", "joined", "late", "done"
    hangup,     \* press of Hangup: where its request is, and for which token
    talkers,    \* the daemon's talkers
    session,    \* a monitor session runs, and with it the mixer
    stopping,   \* a StopMonitor is on its way to the pump
    slip,       \* a request was lost, or Answer was pressed on top of another
                \* answer or while the hangup of one was under way
    faults

eventVars  == <<door, conn, queue, pump, listening, sensor, missed>>
buttonVars == <<current, answer, hangup, talkers, session, stopping, slip>>
homeVars   == <<eventVars, buttonVars, faults>>

Idle == [at |-> "idle", token |-> None]

Init ==
    /\ door = FALSE
    /\ conn = "none" /\ queue = <<>> /\ pump = "connecting"
    /\ listening = FALSE /\ sensor = FALSE /\ missed = FALSE
    /\ current = None
    /\ answer = [t \in Token |-> "unused"]
    /\ hangup = [p \in Press |-> Idle]
    /\ talkers = {} /\ session = FALSE /\ stopping = FALSE /\ slip = FALSE
    /\ faults = 0

Fault == faults < MaxFaults /\ faults' = faults + 1

-----------------------------------------------------------------------------
\* The event stream.
IsRing(e) == e # "other"
HasRing(es) == \E i \in DOMAIN es : IsRing(es[i])

\* Faulty variant: a full receiver turns new events away.
KeepOldest(es) == SubSeq(es, 1, IF Len(es) > Capacity THEN Capacity ELSE Len(es))

\* broadcast: a receiver that lags loses its oldest events.
Keep(es) == IF Len(es) > Capacity THEN Tail(es) ELSE es

\* Ring events say what the door does now; all others only take up room.
Emits(e) ==
    /\ door' = IF IsRing(e) THEN e = "ring" ELSE door
    /\ IF conn = "up"
         THEN /\ queue' = Keep(Append(queue, e))
              /\ missed' = IF IsRing(e) THEN FALSE
                           ELSE missed \/ (HasRing(queue) /\ ~HasRing(queue'))
         ELSE /\ missed' = (missed \/ IsRing(e))
              /\ UNCHANGED queue
    /\ UNCHANGED <<conn, pump, listening, sensor, buttonVars, faults>>

Ring    == Emits("ring")
RingEnds == Emits("ringEnds")
OtherEvent == Emits("other")

\* The stream is subscribed: it carries what happens from now on.
Connects ==
    /\ pump = "connecting" /\ conn = "none"
    /\ pump' = "reading"
    /\ conn' = "up"
    /\ UNCHANGED <<door, queue, listening, sensor, missed, buttonVars, faults>>

ConnectFails ==
    /\ pump = "connecting" /\ conn = "none"
    /\ Fault
    /\ pump' = "waiting"
    /\ UNCHANGED <<door, conn, queue, listening, sensor, missed, buttonVars>>

\* Every time-out of the request is off: a connect or a response that never
\* comes keeps the pump until the network reports an error, if it ever does.
ConnectHangs ==
    /\ pump = "connecting" /\ conn = "none"
    /\ Fault
    /\ conn' = "silent"
    /\ UNCHANGED <<door, queue, pump, listening, sensor, missed, buttonVars>>

\* Faulty variant: what was on the way turns up again on the next stream.
StreamDropsUnread ==
    /\ conn # "none"
    /\ Fault
    /\ conn' = "none"
    /\ pump' = "waiting"
    /\ UNCHANGED <<door, queue, missed, listening, sensor, buttonVars>>

\* The stream, or a request that hangs, ends or fails: what was on the way is
\* lost with it.
StreamDrops ==
    /\ conn # "none"
    /\ Fault
    /\ conn' = "none"
    /\ queue' = <<>>
    /\ missed' = (missed \/ HasRing(queue))
    /\ pump' = "waiting"
    /\ UNCHANGED <<door, listening, sensor, buttonVars>>

\* The network goes away without a word; the client has no read time-out.
StreamFallsSilent ==
    /\ conn = "up"
    /\ Fault
    /\ conn' = "silent"
    /\ queue' = <<>>
    /\ missed' = (missed \/ HasRing(queue))
    /\ UNCHANGED <<door, pump, listening, sensor, buttonVars>>

\* The pause of 1 s to 30 s is over.
Reconnects ==
    /\ pump = "waiting"
    /\ pump' = "connecting"
    /\ UNCHANGED <<door, conn, queue, listening, sensor, missed, buttonVars, faults>>

\* _handle_event; without a listener the event is gone.
Handle(e) ==
    sensor' = IF listening /\ IsRing(e) THEN e = "ring" ELSE sensor

Dispatch ==
    /\ pump = "reading"
    /\ queue # <<>>
    /\ queue' = Tail(queue)
    /\ Handle(Head(queue))
    /\ missed' = \/ missed
                 \/ ~listening /\ IsRing(Head(queue)) /\ ~HasRing(Tail(queue))
    /\ UNCHANGED <<door, conn, pump, listening, buttonVars, faults>>

\* The pump is started before the platforms are set up.
SensorAdded ==
    /\ ~listening
    /\ listening' = TRUE
    /\ UNCHANGED <<door, conn, queue, pump, sensor, missed, buttonVars, faults>>

\* The entry is unloaded and set up again: new entities, a new pump, a new
\* TokenHolder.  Bound: while no press is under way.
Reload ==
    /\ \A t \in Token : answer[t] \in {"unused", "late", "done"}
    /\ \A p \in Press : hangup[p] = Idle
    /\ Fault
    /\ conn' = "none" /\ queue' = <<>> /\ pump' = "connecting"
    /\ listening' = FALSE /\ sensor' = FALSE
    /\ missed' = door
    /\ current' = None
    /\ slip' = (slip \/ current # None)
    /\ UNCHANGED <<door, answer, hangup, talkers, session, stopping>>

-----------------------------------------------------------------------------
\* The buttons.
Answering == \E t \in Token : answer[t] \in {"posted", "joined"}

HangingUp == \E p \in Press : hangup[p].token # None

PressAnswer(t) ==
    /\ answer[t] = "unused"
    /\ answer' = [answer EXCEPT ![t] = "posted"]
    /\ slip' = (slip \/ Answering \/ HangingUp \/ current # None)
    /\ UNCHANGED <<eventVars, current, hangup, talkers, session, stopping, faults>>

\* POST /control/answer, possibly after the client has given up on it.
Joins(t) ==
    /\ answer[t] \in {"posted", "late"}
    /\ talkers' = talkers \cup {t}
    /\ answer' = [answer EXCEPT ![t] = IF @ = "posted" THEN "joined" ELSE "done"]
    /\ UNCHANGED <<eventVars, current, hangup, session, stopping, slip, faults>>

Answered(t) ==
    /\ answer[t] = "joined"
    /\ answer' = [answer EXCEPT ![t] = "done"]
    /\ current' = t
    /\ UNCHANGED <<eventVars, hangup, talkers, session, stopping, slip, faults>>

\* Time-out or error: the token is not kept, though the daemon may have it.
AnswerFails(t) ==
    /\ answer[t] \in {"posted", "joined"}
    /\ Fault
    /\ answer' = [answer EXCEPT ![t] = IF @ = "posted" THEN "late" ELSE "done"]
    /\ slip' = TRUE
    /\ UNCHANGED <<eventVars, current, hangup, talkers, session, stopping>>

\* Without a token the session is ended for everybody.
PressHangup(p) ==
    /\ hangup[p] = Idle
    /\ hangup' = [hangup EXCEPT ![p] =
           [at |-> IF current = None THEN "delete" ELSE "post", token |-> current]]
    /\ UNCHANGED <<eventVars, current, answer, talkers, session, stopping, slip,
                   faults>>

DeleteArrives(p) ==
    /\ hangup[p].at = "delete"
    /\ hangup' = [hangup EXCEPT ![p].at = "answered"]
    /\ stopping' = TRUE
    /\ UNCHANGED <<eventVars, current, answer, talkers, session, slip, faults>>

\* POST /control/hangup: the last talker takes the session along.
HangupArrives(p) ==
    /\ hangup[p].at = "post"
    /\ hangup' = [hangup EXCEPT ![p].at = "answered"]
    /\ talkers' = talkers \ {hangup[p].token}
    /\ stopping' = (stopping \/ talkers' = {})
    /\ UNCHANGED <<eventVars, current, answer, session, slip, faults>>

\* Faulty variant: the fallback drops the token too.
HangupOverAlwaysDrops(p) ==
    /\ hangup[p].at = "answered"
    /\ hangup' = [hangup EXCEPT ![p] = Idle]
    /\ current' = None
    /\ UNCHANGED <<eventVars, answer, talkers, session, stopping, slip, faults>>

\* finally: the token is dropped, whichever it is by now.
HangupOver(p) ==
    /\ hangup[p].at = "answered"
    /\ hangup' = [hangup EXCEPT ![p] = Idle]
    /\ current' = IF hangup[p].token = None THEN current ELSE None
    /\ UNCHANGED <<eventVars, answer, talkers, session, stopping, slip, faults>>

HangupFails(p) ==
    /\ hangup[p].at \in {"delete", "post"}
    /\ Fault
    /\ hangup' = [hangup EXCEPT ![p] = Idle]
    /\ current' = IF hangup[p].token = None THEN current ELSE None
    /\ slip' = TRUE
    /\ UNCHANGED <<eventVars, answer, talkers, session, stopping>>

\* A ring or a viewer starts a session, the cap or the idle check ends it.
SessionStarts ==
    /\ ~session
    /\ session' = TRUE
    /\ UNCHANGED <<eventVars, current, answer, hangup, talkers, stopping, slip,
                   faults>>

\* The session's epilogue clears the talkers.
SessionEnds ==
    /\ session
    /\ session' = FALSE
    /\ talkers' = {}
    /\ UNCHANGED <<eventVars, current, answer, hangup, stopping, slip, faults>>

\* StopMonitor ends the session there is when the pump takes it, if any.
StopTaken ==
    /\ stopping
    /\ stopping' = FALSE
    /\ session' = FALSE
    /\ talkers' = IF session THEN {} ELSE talkers
    /\ UNCHANGED <<eventVars, current, answer, hangup, slip, faults>>

\* The mixer reaps a talker that was silent for 10 s; no microphone is wired
\* to the buttons yet, so every talker is.
Reap(t) ==
    /\ session
    /\ t \in talkers
    /\ talkers' = talkers \ {t}
    /\ UNCHANGED <<eventVars, current, answer, hangup, session, stopping, slip,
                   faults>>

-----------------------------------------------------------------------------
EventStep ==
    \/ Ring \/ RingEnds \/ OtherEvent
    \/ Connects \/ ConnectFails \/ ConnectHangs
    \/ StreamDrops \/ StreamFallsSilent \/ Reconnects
    \/ Dispatch \/ SensorAdded \/ Reload

TokenStep(t) ==
    PressAnswer(t) \/ Joins(t) \/ Answered(t) \/ AnswerFails(t) \/ Reap(t)

HangupStep(p) ==
    \/ PressHangup(p) \/ DeleteArrives(p) \/ HangupArrives(p)
    \/ HangupOver(p) \/ HangupFails(p)

Next ==
    \/ EventStep
    \/ \E t \in Token : TokenStep(t)
    \/ \E p \in Press : HangupStep(p)
    \/ SessionStarts \/ SessionEnds \/ StopTaken

Spec == Init /\ [][Next]_homeVars

-----------------------------------------------------------------------------
\* Every variable keeps to its values; events are on the way only while the
\* stream is up.
TypeOK ==
    /\ door \in BOOLEAN /\ listening \in BOOLEAN
    /\ sensor \in BOOLEAN /\ missed \in BOOLEAN
    /\ conn \in {"none", "up", "silent"}
    /\ queue \in Seq({"ring", "ringEnds", "other"}) /\ Len(queue) <= Capacity
    /\ conn # "up" => queue = <<>>
    /\ pump \in {"connecting", "reading", "waiting"}
    /\ pump = "reading" => conn # "none"
    /\ conn = "up" => pump = "reading"
    /\ pump = "waiting" => conn = "none"
    /\ current \in Token \cup {None}
    /\ answer \in [Token -> {"unused", "posted", "joined", "late", "done"}]
    /\ hangup \in [Press -> [at : {"idle", "delete", "post", "answered"},
                             token : Token \cup {None}]]
    /\ talkers \subseteq Token
    /\ session \in BOOLEAN /\ stopping \in BOOLEAN /\ slip \in BOOLEAN /\ faults \in 0 .. MaxFaults

\* The ring sensor disagrees with the door only while a ring event is on its
\* way, or after the last one was lost for good: to a dead or silent stream,
\* to a sensor not yet added, to a reload, or to so many other events that
\* the bus dropped it.  The next ring event that gets through repairs it.
RingSettles == ~missed /\ ~HasRing(queue) => sensor = door

\* Unless a press slipped, every talker the buttons registered is the one
\* that Hangup will name, or its answer is still under way.
TokensKept ==
    ~slip => \A t \in talkers : t = current \/ answer[t] = "joined"
=============================================================================
