------------------------ MODULE MonitorSession_proofs ------------------------
(***************************************************************************)
(* Theorems about MonitorSession, for any sessions, talkers, number of     *)
(* connections and queue capacity.                                         *)
(***************************************************************************)
EXTENDS MonitorSession, TLAPS

\* A connection that is up, or a session that was spawned, has a number.
Numbered ==
    /\ pump \in {"running", "finishing", "reconnecting", "quitting"}
           => epoch \in 1..MaxEpoch
    /\ sendLoop => epoch \in 1..MaxEpoch
    /\ \A s \in Session : Started(s) => epochOf[s] \in 1..MaxEpoch

TypeInv == TypeOK /\ Numbered

LEMMA InitTypeInv == Init => TypeInv
<1> SUFFICES ASSUME Init PROVE TypeInv
  OBVIOUS
<1> USE ConstantsAssumption DEF Init
<1>1. /\ pump = "offline" /\ active = None /\ cmdq \in Seq(Command)
      /\ epoch \in 0..MaxEpoch /\ outq \in Seq(Frame)
  OBVIOUS
<1>0. wssUp \in BOOLEAN /\ sendLoop \in BOOLEAN /\ ~sendLoop
  BY Zenon
<1>2. /\ seqCtr \in [1..MaxEpoch -> Nat]
      /\ pending \in SUBSET Session
      /\ task \in [Session -> {"unborn", "opening", "waiting", "media", "ended",
                               "clearing", "done"}]
      /\ stop \in [Session -> {"false", "true", "dropped"}]
      /\ epochOf \in [Session -> 0..MaxEpoch]
      /\ seqOf \in [Session -> Nat]
  OBVIOUS
<1>3. /\ inbox \in [Session -> Mail]
      /\ outcome \in [Session -> {"none", "ok", "error"}]
      /\ loops \in [Session -> SUBSET Loop]
  BY DEF Mail, Empty
<1>7. mixing \in Mixing
  BY DEF Mixing, NoMixer
<1>4. /\ outbound = None /\ phase = "Idle" /\ talkers \in SUBSET Talker
      /\ hangups \in SUBSET Talker
      /\ asked \in SUBSET Session /\ calls \in SUBSET Session
      /\ replies \in SUBSET Reply
  OBVIOUS
<1>5. \A s \in Session : ~Started(s)
  BY DEF Started
<1>6. QED BY <1>1, <1>2, <1>3, <1>4, <1>5, <1>7, <1>0 DEF TypeInv, TypeOK, Numbered

\* Advancing one connection's seqNo counter.
LEMMA CounterStep ==
  ASSUME NEW f \in [1..MaxEpoch -> Nat], NEW e \in 1..MaxEpoch
  PROVE  f[e] \in Nat /\ [f EXCEPT ![e] = f[e] + 1] \in [1..MaxEpoch -> Nat]
  OBVIOUS

LEMMA ClientsTypeInv == TypeInv /\ Clients => TypeInv'
<1> SUFFICES ASSUME TypeInv, Clients PROVE TypeInv'
  OBVIOUS
<1> USE DEF TypeInv, TypeOK, Numbered, Started, Post, HasRoom, Command, pumpVars,
            wireVars, taskVars, bornVars, hubVars, envVars
<1>1. CASE PostMonitor BY <1>1 DEF PostMonitor
<1>2. CASE DeleteMonitor BY <1>2 DEF DeleteMonitor
<1>3. CASE StdinQuit BY <1>3 DEF StdinQuit
<1>4. CASE Ring BY <1>4 DEF Ring
<1>5. ASSUME NEW k \in Talker, PostAnswer(k) PROVE TypeInv'
  BY <1>5 DEF PostAnswer
<1>6. ASSUME NEW k \in Talker, PostHangup(k) PROVE TypeInv'
  <2>1. talkers' \in SUBSET Talker /\ hangups' \in SUBSET Talker
    BY <1>6 DEF PostHangup
  <2>2. UNCHANGED <<pumpVars, cmdq, wireVars, bornVars, pending, taskVars, stop,
                    outbound, phase, mixing, asked, calls, replies>>
    BY <1>6 DEF PostHangup
  <2>3. QED BY <2>1, <2>2
<1>7. ASSUME NEW k \in Talker, HangupStops(k) PROVE TypeInv'
  BY <1>7 DEF HangupStops
<1>8. QED BY <1>1, <1>2, <1>3, <1>4, <1>5, <1>6, <1>7 DEF Clients

LEMMA PumpTypeInv == TypeInv /\ Pump => TypeInv'
<1> SUFFICES ASSUME TypeInv, Pump PROVE TypeInv'
  OBVIOUS
<1> USE DEF TypeInv, TypeOK, Numbered, Started, pumpVars, wireVars, taskVars,
            bornVars, hubVars, envVars
<1>1. CASE Connect
  <2>1. epoch' \in 1..MaxEpoch
    BY <1>1, ConstantsAssumption DEF Connect
  <2>2. wssUp' \in BOOLEAN /\ sendLoop' \in BOOLEAN
    BY <1>1, Zenon DEF Connect
  <2>3. outq' \in Seq(Frame) /\ pump' = "running"
    BY <1>1 DEF Connect
  <2>4. UNCHANGED <<active, cmdq, bornVars, pending, taskVars, stop, hubVars,
                    envVars>>
    BY <1>1 DEF Connect
  <2>5. QED BY <2>1, <2>2, <2>3, <2>4
<1>2. CASE PumpSeesClose BY <1>2 DEF PumpSeesClose
<1>3. CASE PumpReturns
  <2>1. stop' \in [Session -> {"false", "true", "dropped"}]
    BY <1>3 DEF PumpReturns
  <2>2. pump' \in {"exited", "offline"} /\ active' = None
    BY <1>3 DEF PumpReturns
  <2>3. UNCHANGED <<cmdq, wireVars, bornVars, pending, taskVars, hubVars,
                    envVars>>
    BY <1>3 DEF PumpReturns
  <2>4. QED BY <2>1, <2>2, <2>3
<1>4. ASSUME NEW c \in Command, TakeCommand(c)
      PROVE  /\ cmdq' \in Seq(Command)
             /\ pump = "running"
             /\ UNCHANGED <<wireVars, seqOf, seqCtr, pending, inbox, outcome,
                            loops, outbound, talkers, mixing, envVars>>
  BY <1>4 DEF TakeCommand
<1>5. SignalStop => stop' \in [Session -> {"false", "true", "dropped"}]
  BY DEF SignalStop
<1>6. CASE TakeStart
  <2>1. TakeCommand("start") /\ "start" \in Command
    BY <1>6 DEF TakeStart, Command
  <2>2. CASE UNCHANGED <<pumpVars, task, epochOf, phase, stop>>
    BY <1>4, <2>1, <2>2
  <2>3. ASSUME NEW s \in Session, Spawn(s) PROVE TypeInv'
    BY <1>4, <2>1, <2>3 DEF Spawn
  <2>4. QED BY <1>6, <2>2, <2>3 DEF TakeStart
<1>7. CASE TakeStop
  <2>1. TakeCommand("stop") /\ "stop" \in Command
    BY <1>7 DEF TakeStop, Command
  <2>2. QED BY <1>4, <1>5, <1>7, <2>1 DEF TakeStop
<1>8. CASE TakeQuit
  <2>1. TakeCommand("quit") /\ "quit" \in Command
    BY <1>8 DEF TakeQuit, Command
  <2>2. QED BY <1>4, <1>5, <1>8, <2>1 DEF TakeQuit
<1>9. CASE QuitAwaited BY <1>9 DEF QuitAwaited
<1>10. ASSUME NEW r \in Reply, HandleReply(r) PROVE TypeInv'
  <2>1. inbox' \in [Session -> Mail]
    BY <1>10 DEF HandleReply, Mail, Reply
  <2>2. pending' \in SUBSET Session /\ replies' \in SUBSET Reply
    BY <1>10 DEF HandleReply
  <2>3. QED BY <1>10, <2>1, <2>2 DEF HandleReply
<1>11. QED
  BY <1>1, <1>2, <1>3, <1>6, <1>7, <1>8, <1>9, <1>10 DEF Pump

LEMMA WireTypeInv == TypeInv /\ Wire => TypeInv'
<1> SUFFICES ASSUME TypeInv, Wire PROVE TypeInv'
  OBVIOUS
<1> USE DEF TypeInv, TypeOK, Numbered, Started, pumpVars, wireVars, taskVars,
            bornVars, hubVars, envVars
<1>1. CASE WssLost
  <2>1. wssUp' \in BOOLEAN
    BY <1>1, Zenon DEF WssLost
  <2>2. QED BY <1>1, <2>1 DEF WssLost
<1>2. CASE Heartbeat
  <2>1. sendLoop
    BY <1>2, Zenon DEF Heartbeat
  <2>2. epoch \in 1..MaxEpoch
    BY <2>1, Zenon
  <2>3. seqCtr' \in [1..MaxEpoch -> Nat]
    <3>1. seqCtr' = [seqCtr EXCEPT ![epoch] = seqCtr[epoch] + 1]
      BY <1>2, Zenon DEF Heartbeat
    <3>2. seqCtr \in [1..MaxEpoch -> Nat]
      OBVIOUS
    <3>3. QED BY <2>2, <3>1, <3>2, CounterStep
  <2>4. UNCHANGED <<pumpVars, cmdq, wireVars, epochOf, seqOf, pending, taskVars,
                    stop, hubVars, envVars>>
    BY <1>2 DEF Heartbeat
  <2>5. QED BY <2>3, <2>4
<1>3. CASE SendFrame
  <2>1. Head(outq) \in Frame /\ outq' \in Seq(Frame)
    BY <1>3 DEF SendFrame
  <2>2. Head(outq).of \in Session
    BY <2>1 DEF Frame
  <2>3. asked' \in SUBSET Session /\ calls' \in SUBSET Session
    BY <1>3, <2>2 DEF SendFrame
  <2>4. UNCHANGED <<pumpVars, cmdq, epoch, wssUp, sendLoop, bornVars, pending,
                    taskVars, stop, hubVars, replies, hangups>>
    BY <1>3 DEF SendFrame
  <2>5. QED BY <2>1, <2>3, <2>4
<1>4. CASE SendFails
  <2>1. sendLoop' \in BOOLEAN /\ ~sendLoop'
    BY <1>4, Zenon DEF SendFails
  <2>2. outq' \in Seq(Frame)
    BY <1>4 DEF SendFails
  <2>3. UNCHANGED <<pumpVars, cmdq, epoch, wssUp, bornVars, pending, taskVars,
                    stop, hubVars, envVars>>
    BY <1>4 DEF SendFails
  <2>4. QED BY <2>1, <2>2, <2>3
<1>5. QED BY <1>1, <1>2, <1>3, <1>4 DEF Wire

LEMMA BaseTypeInv == TypeInv /\ Base => TypeInv'
<1> SUFFICES ASSUME TypeInv, Base PROVE TypeInv'
  OBVIOUS
<1> USE DEF TypeInv, TypeOK, Numbered, Started, pumpVars, wireVars, taskVars,
            bornVars, hubVars, envVars
<1>1. ASSUME NEW s \in Session, BaseHangsUp(s) PROVE TypeInv'
  BY <1>1 DEF BaseHangsUp
<1>2. ASSUME NEW s \in Session, NEW v \in {"accept", "reject"},
             BaseAnswers(s, v)
      PROVE  TypeInv'
  <2>1. asked' \in SUBSET Session /\ calls' \in SUBSET Session
    BY <1>2 DEF BaseAnswers
  <2>2. replies' \in SUBSET Reply
    <3>1. [verdict |-> v, of |-> s] \in Reply
      BY DEF Reply
    <3>2. QED BY <1>2, <3>1 DEF BaseAnswers
  <2>3. UNCHANGED <<pumpVars, cmdq, wireVars, bornVars, pending, taskVars, stop,
                    hubVars, hangups>>
    BY <1>2 DEF BaseAnswers
  <2>4. QED BY <2>1, <2>2, <2>3
<1>3. QED BY <1>1, <1>2 DEF Base

\* Closing the inboxes of a set of sessions leaves a mailbox to each.
LEMMA CloseInboxesType ==
  ASSUME TypeOK, NEW gone
  PROVE  CloseInboxes(gone) \in [Session -> Mail]
  BY DEF TypeOK, CloseInboxes, Mail, Closed

LEMMA SessionTypeInv ==
  ASSUME TypeInv, NEW s \in Session, SessionStep(s)
  PROVE  TypeInv'
<1> USE DEF TypeInv, TypeOK, Numbered, Started, At, Fail, pumpVars, wireVars,
            taskVars, bornVars, hubVars, envVars
<1>1. CASE BindFails(s) BY <1>1 DEF BindFails
<1>2. CASE SendConnect(s)
  <2>1. epochOf[s] \in 1..MaxEpoch
    BY <1>2 DEF SendConnect
  <2>2. seqCtr[epochOf[s]] \in Nat /\ seqCtr' \in [1..MaxEpoch -> Nat]
    BY <1>2, <2>1, CounterStep DEF SendConnect
  <2>3. seqOf' \in [Session -> Nat]
    BY <1>2, <2>2 DEF SendConnect
  <2>4. inbox' \in [Session -> Mail] /\ pending' \in SUBSET Session
    BY <1>2, CloseInboxesType DEF SendConnect
  <2>5. UNCHANGED <<pumpVars, cmdq, epoch, wssUp, sendLoop, epochOf, loops, stop,
                    hubVars, envVars>>
    BY <1>2 DEF SendConnect
  <2>6. CASE CanSend(s)
    <3>1. /\ outq' = Append(outq, [kind |-> "connect", of |-> s])
          /\ task' = [task EXCEPT ![s] = "waiting"]
          /\ UNCHANGED outcome
      BY <1>2, <2>6, Zenon DEF SendConnect
    <3>2. outq' \in Seq(Frame)
      BY <3>1 DEF Frame
    <3>3. QED BY <1>2, <2>2, <2>3, <2>4, <2>5, <3>1, <3>2 DEF SendConnect
  <2>7. CASE ~CanSend(s)
    <3>1. Fail(s) /\ UNCHANGED outq
      BY <1>2, <2>7, Zenon DEF SendConnect
    <3>2. QED BY <1>2, <2>2, <2>3, <2>4, <2>5, <3>1 DEF SendConnect
  <2>8. QED BY <2>6, <2>7
<1>3. CASE Timeout(s) BY <1>3 DEF Timeout
<1>4. CASE SetupFails(s) BY <1>4 DEF SetupFails
<1>5. CASE Rejected(s)
  <2>1. inbox' \in [Session -> Mail] /\ pending' \in SUBSET Session
    BY <1>5, CloseInboxesType DEF Rejected
  <2>2. /\ task[s] = "waiting"
        /\ task' = [task EXCEPT ![s] = "ended"]
        /\ outcome' = [outcome EXCEPT ![s] = "error"]
    BY <1>5 DEF Rejected
  <2>3. UNCHANGED <<pumpVars, cmdq, wireVars, bornVars, loops, stop, hubVars,
                    envVars>>
    BY <1>5 DEF Rejected
  <2>4. QED BY <2>1, <2>2, <2>3
<1>6. CASE StartMedia(s)
  <2>1. loops' \in [Session -> SUBSET Loop]
    BY <1>6 DEF StartMedia
  <2>2. QED BY <1>6, <2>1 DEF StartMedia
<1>7. CASE Disconnect(s)
  <2>1. epochOf[s] \in 1..MaxEpoch
    BY <1>7 DEF Disconnect
  <2>2. seqCtr' \in [1..MaxEpoch -> Nat]
    BY <1>7, <2>1, CounterStep DEF Disconnect
  <2>3. inbox' \in [Session -> Mail] /\ pending' \in SUBSET Session
    BY <1>7, CloseInboxesType DEF Disconnect
  <2>4. outq' \in Seq(Frame)
    <3>1. [kind |-> "disconnect", of |-> s] \in Frame
      BY DEF Frame
    <3>2. outq' \in {outq, Append(outq, [kind |-> "disconnect", of |-> s])}
      BY <1>7 DEF Disconnect
    <3>3. outq \in Seq(Frame)
      OBVIOUS
    <3>4. Append(outq, [kind |-> "disconnect", of |-> s]) \in Seq(Frame)
      BY <3>1, <3>3
    <3>5. QED BY <3>2, <3>3, <3>4, Zenon
  <2>5. /\ task[s] = "media"
        /\ task' = [task EXCEPT ![s] = "ended"]
        /\ outcome' = [outcome EXCEPT ![s] = "ok"]
    BY <1>7 DEF Disconnect
  <2>6. UNCHANGED <<pumpVars, cmdq, epoch, wssUp, sendLoop, epochOf, seqOf,
                    loops, stop, hubVars, envVars>>
    BY <1>7 DEF Disconnect
  <2>7. QED BY <2>2, <2>3, <2>4, <2>5, <2>6
<1>8. CASE GoIdle(s) BY <1>8 DEF GoIdle
<1>9. CASE ClearHub(s) BY <1>9 DEF ClearHub
<1>10. QED
  BY <1>1, <1>2, <1>3, <1>4, <1>5, <1>6, <1>7, <1>8, <1>9 DEF SessionStep

LEMMA MediaTypeInv ==
  ASSUME TypeInv, NEW s \in Session, MediaStep(s)
  PROVE  TypeInv'
<1> USE DEF TypeInv, TypeOK, Numbered, Started, pumpVars, wireVars, taskVars,
            bornVars, hubVars, envVars
<1>1. ASSUME NEW l, LoopEnds(s, l) PROVE TypeInv'
  BY <1>1 DEF LoopEnds
<1>2. CASE MixerTick(s)
  <2>1. Wanted(phase, talkers') \in {"Idle", "Preview", "Talking"}
    BY <1>2 DEF Wanted
  <2>2. mixing' \in Mixing
    BY <1>2, <2>1 DEF MixerTick, Mixing, NoMixer
  <2>3. QED BY <1>2, <2>2 DEF MixerTick
<1>3. CASE MixerSetsPhase(s)
  BY <1>3 DEF MixerSetsPhase, Mixing, NoMixer
<1>4. QED
  BY <1>1, <1>2, <1>3 DEF MediaStep, ReceiveStops, ReceiveGivesUp, MixerStops

LEMMA NextTypeInv == TypeInv /\ [Next]_vars => TypeInv'
<1> SUFFICES ASSUME TypeInv, [Next]_vars PROVE TypeInv'
  OBVIOUS
<1>1. CASE UNCHANGED vars
  BY <1>1 DEF vars, TypeInv, TypeOK, Numbered, Started, pumpVars, wireVars,
              taskVars, bornVars, hubVars, envVars
<1>2. CASE Exited
  BY <1>1, <1>2 DEF Exited
<1>3. QED
  BY <1>1, <1>2, ClientsTypeInv, PumpTypeInv, WireTypeInv, BaseTypeInv,
     SessionTypeInv, MediaTypeInv DEF Next

\* Every reachable state is well typed, and whatever runs on a connection
\* runs on one that was established.
THEOREM TypeCorrect == Spec => [](TypeOK /\ Numbered)
<1>1. TypeInv <=> TypeOK /\ Numbered
  BY DEF TypeInv
<1>2. QED BY <1>1, InitTypeInv, NextTypeInv, PTL DEF Spec

-----------------------------------------------------------------------------
(* The hub: who owns the outbound context and the phase.                   *)

\* A phase other than Idle has a session that will still set it to Idle.
PhaseOwned ==
    phase # "Idle" =>
        \E s \in Session : task[s] \in {"opening", "waiting", "media", "ended"}

\* Media tasks run in the media phase only, and a mixer that is about to set
\* the phase is one of them: its session's epilogue is still to come.
LoopsInMedia == \A s \in Session : loops[s] # {} => task[s] = "media"

MixerHolds == mixing.of # None => "mixer" \in loops[mixing.of]

HubInv == OutboundOwned /\ PhaseOwned /\ LoopsInMedia /\ MixerHolds

LEMMA HubStep == TypeInv /\ HubInv /\ [Next]_vars => HubInv'
<1> SUFFICES ASSUME TypeInv, HubInv, [Next]_vars PROVE HubInv'
  OBVIOUS
<1> USE DEF TypeInv, TypeOK, HubInv, OutboundOwned, PhaseOwned, LoopsInMedia,
            MixerHolds
<1>1. (UNCHANGED <<task, outbound, phase, loops, mixing>>) => HubInv'
  OBVIOUS
<1>2. CASE Clients \/ Wire \/ Base \/ Exited \/ UNCHANGED vars
  <2>1. UNCHANGED <<task, outbound, phase, loops, mixing>>
    BY <1>2 DEF Clients, PostMonitor, DeleteMonitor, StdinQuit, Ring,
         PostAnswer, PostHangup, HangupStops, Wire, WssLost, Heartbeat, SendFrame, SendFails,
         Base, BaseHangsUp, BaseAnswers, Exited, vars, taskVars, hubVars
  <2>2. QED BY <1>1, <2>1
<1>3. CASE Pump
  <2>1. CASE TakeStart
    <3>1. UNCHANGED <<outbound, loops, mixing>>
      BY <2>1 DEF TakeStart, TakeCommand
    <3>2. CASE UNCHANGED <<pumpVars, task, epochOf, phase, stop>>
      BY <1>1, <3>1, <3>2
    <3>3. ASSUME NEW s \in Session, task[s] = "unborn", Spawn(s)
          PROVE  HubInv'
      BY <3>1, <3>3 DEF Spawn
    <3>4. QED BY <2>1, <3>2, <3>3 DEF TakeStart
  <2>2. CASE ~TakeStart
    <3>1. UNCHANGED <<task, outbound, phase, loops, mixing>>
      BY <1>3, <2>2 DEF Pump, Connect, PumpSeesClose, PumpReturns, TakeStop,
           TakeQuit, TakeCommand, QuitAwaited, HandleReply, taskVars, hubVars
    <3>2. QED BY <1>1, <3>1
  <2>3. QED BY <2>1, <2>2
<1>4. ASSUME NEW s \in Session, SessionStep(s) PROVE HubInv'
  <2>1. CASE \/ BindFails(s) \/ SendConnect(s) \/ Timeout(s) \/ SetupFails(s)
             \/ Rejected(s)
    <3>1. /\ task[s] \in {"opening", "waiting"}
          /\ \/ task' = [task EXCEPT ![s] = "waiting"]
             \/ task' = [task EXCEPT ![s] = "ended"]
          /\ UNCHANGED <<outbound, phase, loops, mixing>>
      BY <2>1 DEF BindFails, SendConnect, Timeout, SetupFails, Rejected, At,
                  Fail, hubVars, taskVars
    <3>2. loops[s] = {}
      BY <3>1
    <3>7. outbound # s
      BY <3>1, ConstantsAssumption
    <3>3. OutboundOwned'
      BY <3>1, <3>7
    <3>6. LoopsInMedia' /\ MixerHolds'
      BY <3>1, <3>2
    <3>4. PhaseOwned'
      BY <3>1
    <3>5. QED BY <3>3, <3>4, <3>6
  <2>2. CASE StartMedia(s)
    BY <2>2 DEF StartMedia, At
  <2>3. CASE Disconnect(s)
    BY <2>3 DEF Disconnect, At, hubVars
  <2>4. CASE GoIdle(s)
    BY <2>4 DEF GoIdle, At
  <2>5. CASE ClearHub(s)
    BY <2>5, ConstantsAssumption DEF ClearHub, At
  <2>6. QED BY <1>4, <2>1, <2>2, <2>3, <2>4, <2>5 DEF SessionStep
<1>5. ASSUME NEW s \in Session, MediaStep(s) PROVE HubInv'
  <2>1. CASE MixerTick(s)
    <3>1. /\ UNCHANGED <<task, outbound, phase, loops>>
          /\ "mixer" \in loops[s] /\ mixing'.of \in {s, None}
      BY <2>1 DEF MixerTick, NoMixer, taskVars
    <3>2. QED BY <3>1
  <2>2. CASE MixerSetsPhase(s)
    <3>1. /\ UNCHANGED <<task, outbound, loops>>
          /\ mixing.of = s /\ mixing'.of = None
      BY <2>2 DEF MixerSetsPhase, NoMixer, taskVars
    <3>2. task[s] = "media"
      BY <3>1, ConstantsAssumption
    <3>3. QED BY <3>1, <3>2
  <2>3. ASSUME NEW l, LoopEnds(s, l), l # "mixer" \/ mixing.of # s
        PROVE  HubInv'
    <3>1. /\ UNCHANGED <<task, outbound, phase, mixing>>
          /\ l \in loops[s] /\ loops' = [loops EXCEPT ![s] = @ \ {l}]
      BY <2>3 DEF LoopEnds, hubVars
    <3>2. QED BY <2>3, <3>1
  <2>4. QED
    BY <1>5, <2>1, <2>2, <2>3
       DEF MediaStep, ReceiveStops, ReceiveGivesUp, MixerStops
<1>6. QED BY <1>2, <1>3, <1>4, <1>5 DEF Next

\* hub.outbound always belongs to a session whose own epilogue is still to
\* come: no epilogue has to clear another session's context for it to go.
THEOREM OutboundHasOwner == Spec => []OutboundOwned
<1>1. Init => HubInv
  BY DEF Init, HubInv, OutboundOwned, PhaseOwned, LoopsInMedia, MixerHolds, NoMixer
<1>2. HubInv => OutboundOwned
  BY DEF HubInv
<1>3. QED
  BY <1>1, <1>2, InitTypeInv, NextTypeInv, HubStep, PTL DEF Spec

\* Once no monitor task is live, whatever the order in which their epilogues
\* ran, no context is left behind and the phase is Idle.
THEOREM HubFallsQuiet == Spec => []HubQuiet
<1>1. Init => HubInv
  BY DEF Init, HubInv, OutboundOwned, PhaseOwned, LoopsInMedia, MixerHolds, NoMixer
<1>2. TypeInv /\ HubInv => HubQuiet
  BY DEF TypeInv, TypeOK, HubInv, OutboundOwned, PhaseOwned, HubQuiet, Live
<1>3. QED
  BY <1>1, <1>2, InitTypeInv, NextTypeInv, HubStep, PTL DEF Spec

-----------------------------------------------------------------------------
(* Stopping: who can be stopped, and what ends how.                        *)

\* What the pump holds was spawned, and it is stopped just when Quit awaits
\* it.
ActiveUnstopped ==
    /\ pump = "finishing" => active # None /\ stop[active] = "true"
    /\ active # None /\ pump # "finishing" => stop[active] = "false"
    /\ active # None => Started(active)

Fresh ==
    \A s \in Session : ~Started(s) => stop[s] = "false" /\ outcome[s] = "none"

\* Only a stop ends the mixer, and the session waits for its mixer.
MixerRuns ==
    \A s \in Session :
        task[s] = "media" /\ stop[s] # "true" => "mixer" \in loops[s]

EndedHasOutcome ==
    \A s \in Session :
        task[s] \in {"ended", "clearing", "done"} => outcome[s] # "none"

StopInv ==
    /\ Unstopped /\ ActiveUnstopped /\ Fresh /\ MixerRuns
    /\ OkOnlyAfterStop /\ EndedHasOutcome

LEMMA StopInit == Init => StopInv
  BY ConstantsAssumption
     DEF Init, StopInv, Unstopped, ActiveUnstopped, Fresh, MixerRuns,
         OkOnlyAfterStop, EndedHasOutcome, Started

\* Steps that leave the pump's session, the watches and the tasks alone.
LEMMA StopFrame ==
  ASSUME TypeInv, StopInv,
         UNCHANGED <<pump, active, stop, task, outcome, loops>>
  PROVE  StopInv'
  BY DEF StopInv, Unstopped, ActiveUnstopped, Fresh, MixerRuns,
         OkOnlyAfterStop, EndedHasOutcome, Started

LEMMA StopPump ==
  ASSUME TypeInv, StopInv, Pump
  PROVE  StopInv'
<1> USE DEF TypeInv, TypeOK, StopInv, Unstopped, ActiveUnstopped, Fresh,
            MixerRuns, OkOnlyAfterStop, EndedHasOutcome, Started
<1>1. CASE Connect
  BY <1>1 DEF Connect, taskVars
<1>2. CASE PumpSeesClose
  BY <1>2 DEF PumpSeesClose, taskVars
<1>3. CASE PumpReturns
  <2>1. /\ active' = None /\ UNCHANGED <<task, outcome, loops>>
        /\ pump' \in {"exited", "offline"} /\ pump # "finishing"
    BY <1>3 DEF PumpReturns, taskVars
  <2>2. CASE active = None
    BY <1>3, <2>1, <2>2 DEF PumpReturns
  <2>3. CASE active # None
    <3>1. active \in Session /\ stop[active] = "false" /\ Started(active)
      BY <1>3, <2>3 DEF PumpReturns
    <3>2. stop' = [stop EXCEPT ![active] = "dropped"]
      BY <1>3, <2>3 DEF PumpReturns
    <3>3. QED BY <2>1, <3>1, <3>2
  <2>4. QED BY <2>2, <2>3
<1>4. CASE TakeStart
  <2>1. UNCHANGED <<outcome, loops>> /\ pump = "running"
    BY <1>4 DEF TakeStart, TakeCommand
  <2>2. CASE UNCHANGED <<pumpVars, task, epochOf, phase, stop>>
    BY <2>1, <2>2, StopFrame DEF pumpVars
  <2>3. ASSUME active = None, NEW s \in Session, task[s] = "unborn", Spawn(s)
        PROVE  StopInv'
    <3>1. /\ task' = [task EXCEPT ![s] = "opening"] /\ active' = s
          /\ UNCHANGED <<pump, stop>>
      BY <2>3 DEF Spawn
    <3>2. QED BY <2>1, <2>3, <3>1, ConstantsAssumption
  <2>4. QED BY <1>4, <2>2, <2>3 DEF TakeStart
<1>5. ASSUME SignalStop, pump = "running", UNCHANGED <<task, outcome, loops>>
      PROVE  /\ \A s \in Session : stop'[s] = "false" => ~Started(s)
             /\ active # None => stop'[active] = "true"
             /\ Fresh' /\ MixerRuns' /\ OkOnlyAfterStop' /\ EndedHasOutcome'
  <2>1. CASE active = None
    BY <1>5, <2>1, ConstantsAssumption DEF SignalStop
  <2>2. CASE active # None
    <3>1. active \in Session /\ stop' = [stop EXCEPT ![active] = "true"]
      BY <1>5, <2>2 DEF SignalStop
    <3>2. QED BY <1>5, <2>2, <3>1
  <2>3. QED BY <2>1, <2>2
<1>6. CASE TakeStop
  <2>1. /\ SignalStop /\ pump = "running"
        /\ UNCHANGED <<pump, task, outcome, loops>> /\ active' = None
    BY <1>6 DEF TakeStop, TakeCommand
  <2>2. QED BY <1>5, <2>1
<1>7. CASE TakeQuit
  <2>1. /\ SignalStop /\ pump = "running"
        /\ UNCHANGED <<active, task, outcome, loops>>
        /\ pump' = IF active = None THEN "quitting" ELSE "finishing"
    BY <1>7 DEF TakeQuit, TakeCommand
  <2>2. CASE active = None
    BY <1>5, <2>1, <2>2
  <2>3. CASE active # None
    BY <1>5, <2>1, <2>3
  <2>4. QED BY <2>2, <2>3
<1>8. CASE QuitAwaited
  <2>1. /\ active' = None /\ UNCHANGED <<stop, task, outcome, loops>>
        /\ task[active] = "done"
    BY <1>8 DEF QuitAwaited, taskVars
  <2>2. stop[active] = "true"
    BY <1>8 DEF QuitAwaited
  <2>3. pump' = "quitting"
    BY <1>8 DEF QuitAwaited
  <2>4. QED BY <2>1, <2>2, <2>3
<1>9. ASSUME NEW r \in Reply, HandleReply(r) PROVE StopInv'
  BY <1>9, StopFrame DEF HandleReply, pumpVars
<1>10. QED
  BY <1>1, <1>2, <1>3, <1>4, <1>6, <1>7, <1>8, <1>9 DEF Pump

LEMMA StopSession ==
  ASSUME TypeInv, StopInv, NEW s \in Session, SessionStep(s) \/ MediaStep(s)
  PROVE  StopInv'
<1> USE DEF TypeInv, TypeOK, StopInv, Unstopped, ActiveUnstopped, Fresh,
            MixerRuns, OkOnlyAfterStop, EndedHasOutcome, Started
<1>1. CASE \/ BindFails(s) \/ SendConnect(s) \/ Timeout(s) \/ SetupFails(s)
           \/ Rejected(s)
  <2>1. /\ task[s] \in {"opening", "waiting"}
        /\ UNCHANGED <<pump, active, stop, loops>>
        /\ \/ /\ task' = [task EXCEPT ![s] = "waiting"]
              /\ UNCHANGED outcome
           \/ /\ task' = [task EXCEPT ![s] = "ended"]
              /\ outcome' = [outcome EXCEPT ![s] = "error"]
    BY <1>1 DEF BindFails, SendConnect, Timeout, SetupFails, Rejected, At, Fail,
                pumpVars
  <2>2. CASE task' = [task EXCEPT ![s] = "waiting"] /\ UNCHANGED outcome
    BY <2>1, <2>2
  <2>3. CASE /\ task' = [task EXCEPT ![s] = "ended"]
             /\ outcome' = [outcome EXCEPT ![s] = "error"]
    BY <2>1, <2>3
  <2>4. QED BY <2>1, <2>2, <2>3
<1>2. CASE StartMedia(s)
  <2>1. /\ task[s] = "waiting" /\ task' = [task EXCEPT ![s] = "media"]
        /\ loops' = [loops EXCEPT ![s] = Loop]
        /\ UNCHANGED <<pump, active, stop, outcome>>
    BY <1>2 DEF StartMedia, At, pumpVars
  <2>2. QED BY <2>1 DEF Loop
<1>3. CASE Disconnect(s)
  <2>1. /\ task[s] = "media" /\ loops[s] = {}
        /\ task' = [task EXCEPT ![s] = "ended"]
        /\ outcome' = [outcome EXCEPT ![s] = "ok"]
        /\ UNCHANGED <<pump, active, stop, loops>>
    BY <1>3 DEF Disconnect, At, pumpVars
  <2>2. stop[s] = "true"
    BY <2>1
  <2>3. QED BY <2>1, <2>2
<1>4. CASE GoIdle(s) \/ ClearHub(s)
  <2>1. /\ task[s] \in {"ended", "clearing"}
        /\ \/ task' = [task EXCEPT ![s] = "clearing"]
           \/ task' = [task EXCEPT ![s] = "done"]
        /\ UNCHANGED <<pump, active, stop, outcome, loops>>
    BY <1>4 DEF GoIdle, ClearHub, At, pumpVars
  <2>2. QED BY <2>1
<1>5. ASSUME NEW l, LoopEnds(s, l), l # "mixer" \/ stop[s] = "true"
      PROVE  StopInv'
  <2>1. /\ loops' = [loops EXCEPT ![s] = @ \ {l}]
        /\ UNCHANGED <<pump, active, stop, task, outcome>>
    BY <1>5 DEF LoopEnds, pumpVars
  <2>2. QED BY <1>5, <2>1
<1>6. CASE MixerTick(s) \/ MixerSetsPhase(s)
  BY <1>6, StopFrame DEF MixerTick, MixerSetsPhase, pumpVars, taskVars
<1>7. QED
  BY <1>1, <1>2, <1>3, <1>4, <1>5, <1>6
     DEF SessionStep, MediaStep, ReceiveStops, ReceiveGivesUp, MixerStops

LEMMA StopStep == TypeInv /\ StopInv /\ [Next]_vars => StopInv'
<1> SUFFICES ASSUME TypeInv, StopInv, [Next]_vars PROVE StopInv'
  OBVIOUS
<1>1. CASE Clients \/ Wire \/ Base \/ Exited \/ UNCHANGED vars
  <2>1. UNCHANGED <<pump, active, stop, task, outcome, loops>>
    BY <1>1 DEF Clients, PostMonitor, DeleteMonitor, StdinQuit, Ring,
         PostAnswer, PostHangup, HangupStops, Wire, WssLost, Heartbeat, SendFrame, SendFails,
         Base, BaseHangsUp, BaseAnswers, Exited, vars, pumpVars, taskVars
  <2>2. QED BY <2>1, StopFrame
<1>2. QED BY <1>1, StopPump, StopSession DEF Next

LEMMA StopAlways == Spec => []StopInv
  BY InitTypeInv, NextTypeInv, StopInit, StopStep, PTL DEF Spec

\* On whatever connection it was spawned, a session that was neither told to
\* stop nor cut off by the loss of its connection is the pump's `active` one:
\* StopMonitor reaches every session that still can be stopped.
THEOREM UnstoppedIsActive == Spec => []Unstopped
<1>1. StopInv => Unstopped
  BY DEF StopInv
<1>2. QED BY <1>1, StopAlways, PTL

\* A session ends cleanly only if it was told to stop: the deadline, media
\* errors and a lost connection never end one.
THEOREM CleanEndNeedsStop == Spec => []OkOnlyAfterStop
<1>1. StopInv => OkOnlyAfterStop
  BY DEF StopInv
<1>2. QED BY <1>1, StopAlways, PTL

\* If a finished session still occupies `active`, so that rings and
\* StartMonitor are ignored, that session failed.
THEOREM StaleActiveHasFailed == Spec => []StaleActiveFailed
<1>1. TypeInv /\ StopInv => StaleActiveFailed
  <2> SUFFICES ASSUME TypeInv, StopInv, pump = "running", active # None,
                      task[active] = "done"
               PROVE  outcome[active] = "error"
    BY DEF StaleActiveFailed
  <2>1. active \in Session /\ stop[active] = "false"
    BY DEF TypeInv, TypeOK, StopInv, ActiveUnstopped
  <2>2. outcome[active] \notin {"ok", "none"}
    BY <2>1 DEF StopInv, OkOnlyAfterStop, EndedHasOutcome
  <2>3. QED BY <2>1, <2>2 DEF TypeInv, TypeOK
<1>2. QED BY <1>1, InitTypeInv, NextTypeInv, StopAlways, PTL DEF Spec

-----------------------------------------------------------------------------
(* Leaving a connection.                                                   *)

\* The send loop of a connection that still carries frames is alive.
UpHasSendLoop == wssUp => sendLoop

LEMMA UpHasSendLoopStep == UpHasSendLoop /\ [Next]_vars => UpHasSendLoop'
<1> SUFFICES ASSUME UpHasSendLoop, [Next]_vars PROVE UpHasSendLoop'
  OBVIOUS
<1>1. CASE Connect
  BY <1>1, Zenon DEF Connect, UpHasSendLoop
<1>2. CASE WssLost
  BY <1>2, Zenon DEF WssLost, UpHasSendLoop
<1>3. CASE SendFails
  BY <1>3, Zenon DEF SendFails, UpHasSendLoop
<1>4. CASE ~Connect /\ ~WssLost /\ ~SendFails
  <2>1. UNCHANGED <<wssUp, sendLoop>>
    <3>1. CASE Clients \/ Base \/ Exited \/ UNCHANGED vars
      BY <3>1 DEF Clients, PostMonitor, DeleteMonitor, StdinQuit, Ring,
           PostAnswer, PostHangup, HangupStops, Base, BaseHangsUp, BaseAnswers, Exited, vars,
           wireVars
    <3>2. CASE Pump \/ Wire
      BY <1>4, <3>2 DEF Pump, PumpSeesClose, PumpReturns, TakeStart, TakeStop,
           TakeQuit, TakeCommand, QuitAwaited, HandleReply, Wire, Heartbeat,
           SendFrame, wireVars
    <3>3. ASSUME NEW s \in Session, SessionStep(s) \/ MediaStep(s)
          PROVE  UNCHANGED <<wssUp, sendLoop>>
      BY <3>3 DEF SessionStep, BindFails, SendConnect, Timeout, SetupFails,
           Rejected, StartMedia, Disconnect, GoIdle, ClearHub, MediaStep,
           ReceiveStops, ReceiveGivesUp, MixerStops, LoopEnds, MixerTick,
           MixerSetsPhase,
           wireVars
    <3>4. QED BY <3>1, <3>2, <3>3 DEF Next
  <2>2. QED BY <2>1, Zenon DEF UpHasSendLoop
<1>5. QED BY <1>1, <1>2, <1>3, <1>4

-----------------------------------------------------------------------------
(* Answers: a seqNo names one session of a connection.                     *)

\* Everything that a connect, its answer and its call are made of.
callVars == <<epoch, wssUp, sendLoop, outq, seqCtr, seqOf, epochOf, pending,
              task, inbox, outcome, asked, calls, replies>>

Aside ==
    \/ Clients \/ PumpSeesClose \/ PumpReturns \/ TakeStop \/ TakeQuit
    \/ QuitAwaited \/ Exited \/ UNCHANGED vars
    \/ \E s \in Session : MediaStep(s)

\* The steps that have no part in it.
LEMMA AsideKeeps == Aside => UNCHANGED callVars
<1> USE DEF callVars, pumpVars, wireVars, bornVars, taskVars, hubVars, envVars
<1>1. CASE Clients
  BY <1>1 DEF Clients, PostMonitor, DeleteMonitor, StdinQuit, Ring, PostAnswer,
              PostHangup, HangupStops
<1>2. CASE PumpSeesClose \/ PumpReturns \/ QuitAwaited
  BY <1>2 DEF PumpSeesClose, PumpReturns, QuitAwaited
<1>3. CASE TakeStop \/ TakeQuit
  BY <1>3 DEF TakeStop, TakeQuit, TakeCommand
<1>4. CASE Exited \/ UNCHANGED vars
  BY <1>4 DEF Exited, vars
<1>5. ASSUME NEW s \in Session, MediaStep(s) PROVE UNCHANGED callVars
  BY <1>5 DEF MediaStep, ReceiveStops, ReceiveGivesUp, MixerStops, MixerTick,
              MixerSetsPhase, LoopEnds
<1>6. QED BY <1>1, <1>2, <1>3, <1>4, <1>5 DEF Aside

LEMMA NextSplit ==
    [Next]_vars =>
        \/ Aside \/ Connect \/ TakeStart \/ WssLost \/ Heartbeat \/ SendFrame
        \/ SendFails \/ Base
        \/ \E r \in Reply : HandleReply(r)
        \/ \E s \in Session : SessionStep(s)
BY DEF Next, Aside, Pump, Wire

\* The connect kick of s has its seqNo.
Sent(s) == seqOf[s] # 0

SeqInv ==
    /\ \A e \in 1..MaxEpoch : seqCtr[e] > 0
    /\ \A s \in Session :
          /\ task[s] \in {"unborn", "opening"} => ~Sent(s)
          /\ task[s] \in {"waiting", "media"} => Sent(s)
          /\ Sent(s) => seqOf[s] < seqCtr[epochOf[s]]
    /\ \A s, t \in Session :
          s # t /\ epochOf[s] = epochOf[t] /\ seqOf[s] = seqOf[t] => ~Sent(s)

\* Only such sessions are registered, asked about and answered.
SentInv ==
    /\ \A s \in pending : Sent(s)
    /\ \A s \in asked : Sent(s)
    /\ \A r \in replies : Sent(r.of)
    /\ \A i \in DOMAIN outq : Sent(outq[i].of)
    /\ \A s \in Session : inbox[s].of # None => Sent(s) /\ Sent(inbox[s].of)

LEMMA CounterGrows ==
    ASSUME NEW f \in [1..MaxEpoch -> Nat], NEW e \in 1..MaxEpoch,
           NEW g, g = f \/ g = [f EXCEPT ![e] = f[e] + 1]
    PROVE  \A d \in 1..MaxEpoch : g[d] >= f[d]
<1> SUFFICES ASSUME NEW d \in 1..MaxEpoch
             PROVE  g[d] >= f[d]
  OBVIOUS
<1>1. f[d] \in Nat
  OBVIOUS
<1>2. g[d] = f[d] \/ g[d] = f[d] + 1
  OBVIOUS
<1>3. QED
  BY <1>1, <1>2

\* What the steps of a session do to the numbers.
LEMMA SessionNumbers ==
    ASSUME TypeInv, NEW s \in Session, SessionStep(s)
    PROVE  /\ UNCHANGED <<epochOf, epoch, wssUp, sendLoop, asked, calls, replies>>
           /\ \A t \in Session : t # s => task'[t] = task[t]
           /\ SendConnect(s) \/ seqOf' = seqOf
           /\ task[s] # "unborn" /\ task'[s] \notin {"unborn", "opening"}
           /\ SendConnect(s) \/ (task'[s] \in {"waiting", "media"}
                                    => task[s] \in {"waiting", "media"})
           /\ \A e \in 1..MaxEpoch : seqCtr'[e] >= seqCtr[e]
<1> USE DEF TypeInv, TypeOK, At, Fail, pumpVars, wireVars, bornVars, taskVars,
            hubVars, envVars
<1>0. \A e \in 1..MaxEpoch : seqCtr[e] >= seqCtr[e]
  <2>1. \A e \in 1..MaxEpoch : seqCtr[e] \in Nat
    OBVIOUS
  <2>2. QED
    BY <2>1
<1>1. CASE BindFails(s) \/ Timeout(s) \/ SetupFails(s) \/ Rejected(s)
  BY <1>0, <1>1 DEF BindFails, Timeout, SetupFails, Rejected
<1>2. CASE StartMedia(s) \/ GoIdle(s) \/ ClearHub(s)
  BY <1>0, <1>2 DEF StartMedia, GoIdle, ClearHub
<1>3. CASE Disconnect(s)
  <2>1. epochOf[s] \in 1..MaxEpoch
    BY <1>3 DEF Disconnect, Numbered, Started
  <2>2. \A e \in 1..MaxEpoch : seqCtr'[e] >= seqCtr[e]
    BY <1>3, <2>1, CounterGrows DEF Disconnect
  <2>3. QED
    BY <1>3, <2>2 DEF Disconnect
<1>4. CASE SendConnect(s)
  <2>1. epochOf[s] \in 1..MaxEpoch
    BY <1>4 DEF SendConnect, Numbered, Started
  <2>2. \A e \in 1..MaxEpoch : seqCtr'[e] >= seqCtr[e]
    BY <1>4, <2>1, CounterGrows DEF SendConnect
  <2>3. \/ task' = [task EXCEPT ![s] = "waiting"]
        \/ task' = [task EXCEPT ![s] = "ended"]
    BY <1>4 DEF SendConnect
  <2>4. task[s] = "opening" /\ UNCHANGED <<epochOf, epoch, wssUp, sendLoop, asked,
                                          calls, replies>>
    BY <1>4 DEF SendConnect
  <2>5. QED
    BY <1>4, <2>2, <2>3, <2>4
<1>5. QED
  BY <1>1, <1>2, <1>3, <1>4 DEF SessionStep

\* The number that a connect kick takes is one that no session of its
\* connection has.
LEMMA SendConnectSeq ==
    ASSUME TypeInv, SeqInv, NEW s \in Session, SendConnect(s)
    PROVE  /\ ~Sent(s) /\ Sent(s)'
           /\ \A t \in Session : t # s => seqOf'[t] = seqOf[t]
           /\ seqOf'[s] < seqCtr'[epochOf[s]]
           /\ \A t \in Session :
                 t # s /\ epochOf[t] = epochOf[s] => seqOf[t] # seqOf'[s]
<1>1. /\ task[s] = "opening" /\ epochOf[s] \in 1..MaxEpoch
      /\ seqOf' = [seqOf EXCEPT ![s] = seqCtr[epochOf[s]]]
      /\ seqCtr' = [seqCtr EXCEPT ![epochOf[s]] = seqCtr[epochOf[s]] + 1]
  BY DEF SendConnect, At, TypeInv, Numbered, Started
<1>2. seqOf \in [Session -> Nat] /\ seqCtr \in [1..MaxEpoch -> Nat]
  BY DEF TypeInv, TypeOK
<1>3. seqOf'[s] = seqCtr[epochOf[s]] /\ seqCtr'[epochOf[s]] = seqCtr[epochOf[s]] + 1
  BY <1>1, <1>2
<1>4. seqCtr[epochOf[s]] > 0
  BY <1>1 DEF SeqInv
<1>5. \A t \in Session : epochOf[t] = epochOf[s] => seqOf[t] # seqCtr[epochOf[s]]
  BY <1>2, <1>4 DEF SeqInv, Sent
<1>6. QED
  BY <1>1, <1>2, <1>3, <1>4, <1>5 DEF SeqInv, Sent

LEMMA SeqStep == TypeInv /\ SeqInv /\ [Next]_vars => SeqInv'
<1> SUFFICES ASSUME TypeInv, SeqInv, [Next]_vars PROVE SeqInv'
  OBVIOUS
<1>1. /\ seqOf \in [Session -> Nat] /\ seqCtr \in [1..MaxEpoch -> Nat]
      /\ seqOf' \in [Session -> Nat] /\ seqCtr' \in [1..MaxEpoch -> Nat]
      /\ \A s \in Session : Sent(s) => epochOf[s] \in 1..MaxEpoch
  BY NextTypeInv DEF TypeInv, TypeOK, Numbered, Started, SeqInv
<1>2. ASSUME UNCHANGED <<seqOf, epochOf>>,
             \A e \in 1..MaxEpoch : seqCtr'[e] >= seqCtr[e],
             \A s \in Session : task'[s] \in {"unborn", "opening"}
                                    => task[s] \in {"unborn", "opening"},
             \A s \in Session : task'[s] \in {"waiting", "media"}
                                    => task[s] \in {"waiting", "media"}
      PROVE  SeqInv'
  BY <1>1, <1>2 DEF SeqInv, Sent
<1>3. ASSUME UNCHANGED <<seqOf, epochOf, seqCtr, task>>
      PROVE  SeqInv'
  BY <1>3 DEF SeqInv, Sent
<1>4. CASE Aside
  BY <1>3, <1>4, AsideKeeps DEF callVars
<1>5. CASE Connect \/ WssLost \/ SendFrame \/ SendFails
  BY <1>3, <1>5 DEF Connect, WssLost, SendFrame, SendFails, bornVars, taskVars
<1>6. CASE Base \/ \E r \in Reply : HandleReply(r)
  BY <1>3, <1>6 DEF Base, BaseAnswers, BaseHangsUp, HandleReply, bornVars, taskVars
<1>7. CASE Heartbeat
  <2>1. sendLoop
    BY <1>7, Zenon DEF Heartbeat
  <2>2. epoch \in 1..MaxEpoch
    BY <2>1, Zenon DEF TypeInv, Numbered
  <2>3. seqCtr' = [seqCtr EXCEPT ![epoch] = seqCtr[epoch] + 1]
        /\ UNCHANGED <<seqOf, epochOf, task>>
    BY <1>7, Zenon DEF Heartbeat, taskVars
  <2>4. QED
    BY <1>1, <1>2, <2>2, <2>3
<1>8. CASE TakeStart
  <2>1. UNCHANGED <<seqOf, seqCtr>>
    BY <1>8 DEF TakeStart, TakeCommand
  <2>2. CASE UNCHANGED <<pumpVars, task, epochOf, phase, stop>>
    BY <1>3, <2>1, <2>2
  <2>3. ASSUME NEW s \in Session, task[s] = "unborn", Spawn(s)
        PROVE  SeqInv'
    <3>1. ~Sent(s) /\ ~Sent(s)'
      BY <2>1, <2>3 DEF SeqInv, Sent
    <3>2. task'[s] = "opening" /\
          \A t \in Session : t # s => epochOf'[t] = epochOf[t] /\ task'[t] = task[t]
      BY <2>3 DEF Spawn, TypeInv, TypeOK
    <3>3. QED
      BY <2>1, <3>1, <3>2 DEF SeqInv, Sent
  <2>4. QED
    BY <1>8, <2>2, <2>3 DEF TakeStart
<1>9. ASSUME NEW s \in Session, SessionStep(s)
      PROVE  SeqInv'
  <2>1. CASE seqOf' = seqOf
    <3>1. ~SendConnect(s)
      BY <1>9, <2>1, SendConnectSeq DEF Sent
    <3>2. QED
      BY <1>2, <1>9, <2>1, <3>1, SessionNumbers
  <2>2. CASE SendConnect(s)
    <3>1. /\ \A e \in 1..MaxEpoch : seqCtr'[e] > 0
          /\ \A t \in Session : task'[t] \in {"unborn", "opening"}
                                   => t # s /\ task[t] \in {"unborn", "opening"}
      <4>1. \A e \in 1..MaxEpoch :
               /\ seqCtr[e] \in Nat /\ seqCtr'[e] \in Nat
               /\ seqCtr[e] > 0 /\ seqCtr'[e] >= seqCtr[e]
        BY <1>1, <1>9, SessionNumbers DEF SeqInv
      <4>2. QED
        BY <1>9, <4>1, SessionNumbers
    <3>2. \A t \in Session : t # s => (Sent(t)' <=> Sent(t))
      BY <2>2, SendConnectSeq DEF Sent
    <3>3. \A t \in Session : Sent(t)' => seqOf'[t] < seqCtr'[epochOf[t]]
      <4>1. \A t \in Session : t # s /\ Sent(t) => seqOf[t] < seqCtr'[epochOf[t]]
        BY <1>1, <1>9, SessionNumbers DEF SeqInv
      <4>2. QED
        BY <2>2, <3>2, <4>1, SendConnectSeq
    <3>4. \A t, u \in Session :
             t # u /\ epochOf[t] = epochOf[u] /\ seqOf'[t] = seqOf'[u] => ~Sent(t)'
      BY <2>2, <3>2, SendConnectSeq DEF SeqInv
    <3>5. epochOf' = epochOf
      BY <1>9, SessionNumbers
    <3>6. \A t \in Session : task'[t] \in {"waiting", "media"} => Sent(t)'
      BY <1>9, <2>2, <3>2, SessionNumbers, SendConnectSeq DEF SeqInv
    <3>7. \A t \in Session : task'[t] \in {"unborn", "opening"} => ~Sent(t)'
      BY <3>1, <3>2 DEF SeqInv
    <3>8. QED
      BY <3>1, <3>3, <3>4, <3>5, <3>6, <3>7 DEF SeqInv
  <2>3. QED
    BY <1>9, <2>1, <2>2, SessionNumbers
<1>10. QED
  BY <1>4, <1>5, <1>6, <1>7, <1>8, <1>9, NextSplit

LEMMA SentGrows ==
    ASSUME TypeInv, SeqInv, [Next]_vars
    PROVE  /\ seqOf' = seqOf \/ \E s \in Session : SendConnect(s)
           /\ \A s \in Session : Sent(s) => Sent(s)'
<1>1. seqOf' = seqOf \/ \E s \in Session : SendConnect(s)
  <2>1. CASE Aside
    BY <2>1, AsideKeeps DEF callVars
  <2>2. CASE Connect \/ WssLost \/ Heartbeat \/ SendFrame \/ SendFails \/ TakeStart
    BY <2>2 DEF Connect, WssLost, Heartbeat, SendFrame, SendFails, TakeStart,
                TakeCommand, bornVars
  <2>3. CASE Base \/ \E r \in Reply : HandleReply(r)
    BY <2>3 DEF Base, BaseAnswers, BaseHangsUp, HandleReply, bornVars
  <2>4. CASE \E s \in Session : SessionStep(s)
    BY <2>4, SessionNumbers
  <2>5. QED
    BY <2>1, <2>2, <2>3, <2>4, NextSplit
<1>2. ASSUME NEW s \in Session, SendConnect(s)
      PROVE  \A t \in Session : Sent(t) => Sent(t)'
  BY <1>2, SendConnectSeq DEF Sent
<1>3. QED
  BY <1>1, <1>2 DEF Sent

\* What a step of a session leaves in the inboxes, the table and the queue.
LEMMA SessionMail ==
    ASSUME TypeInv, NEW s \in Session, SessionStep(s)
    PROVE  /\ \A t \in Session : inbox'[t] \in {inbox[t], Closed}
           /\ pending' \subseteq pending \cup {s} /\ (s \in pending' => s \in pending \/ SendConnect(s))
           /\ \/ outq' = outq
              \/ Disconnect(s) /\ outq' = Append(outq, [kind |-> "disconnect", of |-> s])
              \/ SendConnect(s) /\ outq' = Append(outq, [kind |-> "connect", of |-> s])
<1> USE DEF taskVars, wireVars
<1>1. CASE \/ BindFails(s) \/ Timeout(s) \/ SetupFails(s) \/ StartMedia(s)
           \/ GoIdle(s) \/ ClearHub(s)
  BY <1>1 DEF BindFails, Timeout, SetupFails, StartMedia, GoIdle, ClearHub
<1>2. \A gone : \A t \in Session : CloseInboxes(gone)[t] \in {inbox[t], Closed}
  BY DEF CloseInboxes
<1>3. CASE Rejected(s)
  BY <1>2, <1>3 DEF Rejected
<1>4. CASE Disconnect(s)
  <2>1. outq' \in {outq, Append(outq, [kind |-> "disconnect", of |-> s])}
    BY <1>4 DEF Disconnect
  <2>2. QED
    BY <1>2, <1>4, <2>1 DEF Disconnect
<1>5. CASE SendConnect(s)
  <2>1. outq' \in {outq, Append(outq, [kind |-> "connect", of |-> s])}
    BY <1>5 DEF SendConnect
  <2>2. QED
    BY <1>2, <1>5, <2>1 DEF SendConnect
<1>6. QED
  BY <1>1, <1>3, <1>4, <1>5 DEF SessionStep

\* A queue of frames that grows at its end, or shrinks at its head.
LEMMA FramesAppended ==
    ASSUME NEW q \in Seq(Frame), NEW m \in Frame
    PROVE  /\ Append(q, m) \in Seq(Frame)
           /\ DOMAIN Append(q, m) = 1 .. (Len(q) + 1) /\ DOMAIN q = 1 .. Len(q)
           /\ \A i \in DOMAIN q : Append(q, m)[i] = q[i]
           /\ Append(q, m)[Len(q) + 1] = m
OBVIOUS

LEMMA FramesTaken ==
    ASSUME NEW q \in Seq(Frame), q # <<>>
    PROVE  /\ Tail(q) \in Seq(Frame) /\ 1 \in DOMAIN q /\ Head(q) = q[1]
           /\ \A i \in DOMAIN Tail(q) : i + 1 \in DOMAIN q /\ Tail(q)[i] = q[i + 1]
           /\ \A i \in DOMAIN q : i = 1 \/ (i - 1 \in DOMAIN Tail(q) /\ Tail(q)[i - 1] = q[i])
OBVIOUS

LEMMA SentStep == TypeInv /\ SeqInv /\ SentInv /\ [Next]_vars => SentInv'
<1> SUFFICES ASSUME TypeInv, SeqInv, SentInv, [Next]_vars PROVE SentInv'
  OBVIOUS
<1>1. \A s \in Session : Sent(s) => Sent(s)'
  BY SentGrows
<1>2. /\ outq \in Seq(Frame) /\ \A i \in DOMAIN outq : outq[i].of \in Session
      /\ pending \subseteq Session /\ asked \subseteq Session
      /\ \A r \in replies : r.of \in Session
      /\ \A s \in Session : inbox[s].of # None => inbox[s].of \in Session
  <2>1. /\ outq \in Seq(Frame) /\ replies \subseteq Reply
        /\ pending \subseteq Session /\ asked \subseteq Session
        /\ inbox \in [Session -> Mail]
    BY DEF TypeInv, TypeOK
  <2>2. \A i \in DOMAIN outq : outq[i] \in Frame
    BY <2>1
  <2>3. \A m \in Mail : m.of # None => m.of \in Session
    BY DEF Mail
  <2>4. \A r \in Reply : r.of \in Session
    BY DEF Reply
  <2>5. \A m \in Frame : m.of \in Session
    BY DEF Frame
  <2>6. QED
    BY <2>1, <2>2, <2>3, <2>4, <2>5
<1>3. Closed.of = None
  BY DEF Closed
<1>4. ASSUME UNCHANGED <<pending, asked, replies, inbox, outq>>
      PROVE  SentInv'
  BY <1>1, <1>2, <1>4 DEF SentInv
<1>5. CASE Aside
  BY <1>4, <1>5, AsideKeeps DEF callVars
<1>6. CASE Connect \/ SendFails \/ WssLost
  <2>1. /\ pending' = pending /\ asked' = asked /\ inbox' = inbox
        /\ replies' \in {replies, {}} /\ outq' \in {outq, <<>>}
    BY <1>6 DEF Connect, SendFails, WssLost, taskVars, envVars
  <2>2. QED
    BY <1>1, <1>2, <2>1 DEF SentInv
<1>7. CASE Heartbeat \/ TakeStart
  BY <1>4, <1>7 DEF Heartbeat, TakeStart, TakeCommand, envVars, taskVars, wireVars
<1>8. CASE SendFrame
  <2>1. /\ outq # <<>> /\ outq' = Tail(outq)
        /\ asked' \in {asked, asked \cup {Head(outq).of}}
        /\ UNCHANGED <<pending, replies, inbox>>
    BY <1>8 DEF SendFrame, taskVars
  <2>2. \A i \in DOMAIN outq' : \E j \in DOMAIN outq : outq'[i] = outq[j]
    BY <1>2, <2>1, FramesTaken
  <2>3. \A i \in DOMAIN outq' : seqOf'[outq'[i].of] # 0
    BY <1>1, <1>2, <2>2 DEF SentInv, Sent
  <2>4. \A s \in asked' : seqOf'[s] # 0
    BY <1>1, <1>2, <2>1, FramesTaken DEF SentInv, Sent
  <2>5. QED
    BY <1>1, <1>2, <2>1, <2>3, <2>4 DEF SentInv, Sent
<1>9. ASSUME NEW s \in Session, BaseHangsUp(s) \/ \E v \in {"accept", "reject"} : BaseAnswers(s, v)
      PROVE  SentInv'
  <2>1. /\ asked' \subseteq asked /\ \A r \in replies' : r \in replies \/ (r.of = s /\ s \in asked)
        /\ UNCHANGED <<pending, inbox, outq>>
    BY <1>9 DEF BaseAnswers, BaseHangsUp, taskVars, wireVars
  <2>2. QED
    BY <1>1, <1>2, <2>1 DEF SentInv
<1>10. ASSUME NEW r \in Reply, HandleReply(r)
       PROVE  SentInv'
  <2>1. /\ r \in replies /\ replies' \subseteq replies /\ pending' \subseteq pending
        /\ UNCHANGED <<asked, outq>>
        /\ \A t \in Session : inbox'[t] = inbox[t] \/ (t \in pending /\ inbox'[t] = r)
    BY <1>10 DEF HandleReply, EntriesAt, wireVars
  <2>2. QED
    BY <1>1, <1>2, <2>1 DEF SentInv
<1>11. ASSUME NEW s \in Session, SessionStep(s)
       PROVE  SentInv'
  <2>1. UNCHANGED <<asked, replies>>
    BY <1>11, SessionNumbers
  <2>2. \A t \in Session :
           inbox'[t].of # None => seqOf'[t] # 0 /\ seqOf'[inbox'[t].of] # 0
    BY <1>1, <1>2, <1>3, <1>11, SessionMail DEF SentInv, Sent
  <2>3. SendConnect(s) \/ Disconnect(s) \/ outq' = outq
    BY <1>11, SessionMail
  <2>4. SendConnect(s) => Sent(s)'
    BY <1>11, SendConnectSeq
  <2>5. Disconnect(s) => Sent(s)'
    BY <1>1 DEF Disconnect, At, SeqInv
  <2>6. \A i \in DOMAIN outq' : seqOf'[outq'[i].of] # 0
    <3>1. CASE outq' = outq
      BY <1>1, <1>2, <3>1 DEF SentInv, Sent
    <3>2. ASSUME NEW k \in {"connect", "disconnect"},
                 outq' = Append(outq, [kind |-> k, of |-> s]), Sent(s)'
          PROVE  \A i \in DOMAIN outq' : seqOf'[outq'[i].of] # 0
      <4>1. [kind |-> k, of |-> s] \in Frame
        BY DEF Frame
      <4>2. Len(outq) \in Nat
        BY <1>2
      <4>3. \A i \in DOMAIN outq' : outq'[i].of = s
                                    \/ (i \in DOMAIN outq /\ outq'[i] = outq[i])
        BY <1>2, <3>2, <4>1, <4>2, FramesAppended
      <4>4. QED
        BY <1>1, <1>2, <3>2, <4>3 DEF SentInv, Sent
    <3>3. QED
      BY <1>11, <2>4, <2>5, <3>1, <3>2, SessionMail
  <2>7. \A t \in pending' : seqOf'[t] # 0
    BY <1>1, <1>2, <1>11, <2>4, SessionMail DEF SentInv, Sent
  <2>8. QED
    BY <1>1, <1>2, <2>1, <2>2, <2>6, <2>7 DEF SentInv, Sent
<1>12. QED
  BY <1>5, <1>6, <1>7, <1>8, <1>9, <1>10, <1>11, NextSplit DEF Base

LEMMA MixStep ==
    TypeInv /\ SeqInv /\ SentInv /\ AnswersMixOnlyAcrossConnections /\ [Next]_vars
        => AnswersMixOnlyAcrossConnections'
<1> SUFFICES ASSUME TypeInv, SeqInv, SentInv, AnswersMixOnlyAcrossConnections,
                    [Next]_vars, NEW s \in Session, inbox'[s].of \notin {None, s}
             PROVE  epochOf'[inbox'[s].of] # epochOf'[s]
  BY DEF AnswersMixOnlyAcrossConnections
<1>1. \A t \in Session : Sent(t) => epochOf'[t] = epochOf[t]
  <2>1. CASE TakeStart
    BY <2>1 DEF TakeStart, Spawn, SeqInv, TypeInv, TypeOK
  <2>2. CASE ~TakeStart
    <3>1. CASE Aside
      BY <3>1, AsideKeeps DEF callVars
    <3>2. CASE Connect \/ WssLost \/ Heartbeat \/ SendFrame \/ SendFails
      BY <3>2 DEF Connect, WssLost, Heartbeat, SendFrame, SendFails, bornVars
    <3>3. CASE Base \/ \E r \in Reply : HandleReply(r)
      BY <3>3 DEF Base, BaseAnswers, BaseHangsUp, HandleReply, bornVars
    <3>4. CASE \E t \in Session : SessionStep(t)
      BY <3>4, SessionNumbers
    <3>5. QED
      BY <2>2, <3>1, <3>2, <3>3, <3>4, NextSplit
  <2>3. QED
    BY <2>1, <2>2
<1>2. \A t \in Session : inbox[t].of \in Session \cup {None}
  BY DEF TypeInv, TypeOK, Mail
<1>3. CASE inbox'[s] = inbox[s]
  BY <1>1, <1>2, <1>3 DEF SentInv, AnswersMixOnlyAcrossConnections
<1>4. ASSUME NEW r \in Reply, HandleReply(r), inbox'[s] # inbox[s]
      PROVE  epochOf'[inbox'[s].of] # epochOf'[s]
  <2>1. /\ r \in replies /\ s \in pending /\ seqOf[s] = seqOf[r.of]
        /\ inbox'[s] = r /\ epochOf' = epochOf
    BY <1>4 DEF HandleReply, EntriesAt, bornVars
  <2>2. r.of \in Session /\ r.of # s
    BY <2>1 DEF Reply
  <2>3. Sent(s)
    BY <2>1 DEF SentInv
  <2>4. QED
    BY <2>1, <2>2, <2>3 DEF SeqInv
<1>5. inbox'[s] = inbox[s] \/ inbox'[s] = Closed \/ \E r \in Reply : HandleReply(r)
  <2>1. CASE Aside
    BY <2>1, AsideKeeps DEF callVars
  <2>2. CASE Connect \/ WssLost \/ Heartbeat \/ SendFrame \/ SendFails \/ TakeStart
    BY <2>2 DEF Connect, WssLost, Heartbeat, SendFrame, SendFails, TakeStart,
                TakeCommand, taskVars
  <2>3. CASE Base
    BY <2>3 DEF Base, BaseAnswers, BaseHangsUp, taskVars
  <2>4. CASE \E t \in Session : SessionStep(t)
    BY <2>4, SessionMail
  <2>5. QED
    BY <2>1, <2>2, <2>3, <2>4, NextSplit
<1>6. Closed.of = None
  BY DEF Closed
<1>7. QED
  BY <1>3, <1>4, <1>5, <1>6

LEMMA NumbersAlways == Spec => [](TypeInv /\ SeqInv /\ SentInv)
<1>1. Init => SeqInv /\ SentInv
  BY DEF Init, SeqInv, SentInv, Sent, Empty
<1>2. QED
  BY <1>1, InitTypeInv, NextTypeInv, SeqStep, SentStep, PTL DEF Spec

\* A response that arrives late, when the counter has started over, may reach
\* another session; on one connection each session gets its own.
THEOREM AnswersStayOnTheirConnection == Spec => []AnswersMixOnlyAcrossConnections
<1>1. Init => AnswersMixOnlyAcrossConnections
  BY DEF Init, AnswersMixOnlyAcrossConnections, Empty
<1>2. QED
  BY <1>1, NumbersAlways, MixStep, PTL DEF Spec

-----------------------------------------------------------------------------
(* Calls: a connect is asked once and answered once.                       *)

Kick(what, s) == [kind |-> what, of |-> s]
Queued(what, s) == \E i \in DOMAIN outq : outq[i] = Kick(what, s)

Answered(s) == inbox[s].of = s \/ \E r \in replies : r.of = s

ConnectInv ==
    \A s \in Session :
        /\ \A i, j \in DOMAIN outq :
              outq[i] = Kick("connect", s) /\ outq[j] = Kick("connect", s) => i = j
        /\ Queued("connect", s) => s \notin asked
        /\ Queued("connect", s) \/ s \in asked => ~Answered(s)

\* A session with an outcome is over, and no session is of a connection to
\* come.
LateInv ==
    /\ \A s \in Session :
          outcome[s] # "none" => task[s] \in {"ended", "clearing", "done"}
    /\ \A s \in Session : epochOf[s] <= epoch

LEMMA Kicks ==
    /\ \A s, t \in Session, k, m \in {"connect", "disconnect"} :
          Kick(k, s) = Kick(m, t) => k = m /\ s = t
    /\ \A s \in Session, k \in {"connect", "disconnect"} : Kick(k, s) \in Frame
BY DEF Kick, Frame

\* What is queued after a step of a session ...
LEMMA SessionQueue ==
    ASSUME TypeInv, NEW s \in Session, SessionStep(s)
    PROVE  /\ \/ outq' = outq
              \/ Disconnect(s) /\ outq' = Append(outq, Kick("disconnect", s))
              \/ SendConnect(s) /\ outq' = Append(outq, Kick("connect", s))
           /\ \A i \in DOMAIN outq : i \in DOMAIN outq' /\ outq'[i] = outq[i]
           /\ \A i \in DOMAIN outq' :
                 \/ i \in DOMAIN outq /\ outq'[i] = outq[i]
                 \/ i = Len(outq) + 1 /\ Disconnect(s) /\ outq'[i] = Kick("disconnect", s)
                 \/ i = Len(outq) + 1 /\ SendConnect(s) /\ outq'[i] = Kick("connect", s)
<1>0. Kick("disconnect", s) \in Frame /\ Kick("connect", s) \in Frame
  BY Kicks
<1>1. \/ outq' = outq
      \/ Disconnect(s) /\ outq' = Append(outq, Kick("disconnect", s))
      \/ SendConnect(s) /\ outq' = Append(outq, Kick("connect", s))
  BY SessionMail DEF Kick
<1>2. outq \in Seq(Frame) /\ Len(outq) \in Nat
  BY DEF TypeInv, TypeOK
<1>3. ASSUME outq' = outq
      PROVE  /\ \A i \in DOMAIN outq : i \in DOMAIN outq' /\ outq'[i] = outq[i]
             /\ \A i \in DOMAIN outq' : i \in DOMAIN outq /\ outq'[i] = outq[i]
  BY <1>3
<1>4. ASSUME NEW m \in Frame, outq' = Append(outq, m)
      PROVE  /\ \A i \in DOMAIN outq : i \in DOMAIN outq' /\ outq'[i] = outq[i]
             /\ \A i \in DOMAIN outq' :
                   \/ i \in DOMAIN outq /\ outq'[i] = outq[i]
                   \/ i = Len(outq) + 1 /\ outq'[i] = m
  BY <1>2, <1>4, FramesAppended
<1>5. CASE outq' = outq
  BY <1>3, <1>5
<1>6. CASE Disconnect(s) /\ outq' = Append(outq, Kick("disconnect", s))
  BY <1>0, <1>4, <1>6
<1>7. CASE SendConnect(s) /\ outq' = Append(outq, Kick("connect", s))
  BY <1>0, <1>4, <1>7
<1>8. QED
  BY <1>1, <1>5, <1>6, <1>7

\* ... and of the send loop.
LEMMA SendLoopQueue ==
    ASSUME TypeInv, SendFrame
    PROVE  /\ outq # <<>> /\ outq' = Tail(outq) /\ 1 \in DOMAIN outq /\ Head(outq) = outq[1]
           /\ \A i \in DOMAIN outq' : i + 1 \in DOMAIN outq /\ outq'[i] = outq[i + 1]
                                      /\ i \in Nat /\ i + 1 # 1
           /\ \A i \in DOMAIN outq : i = 1 \/ (i - 1 \in DOMAIN outq' /\ outq'[i - 1] = outq[i])
<1>1. outq \in Seq(Frame) /\ outq # <<>> /\ outq' = Tail(outq)
  BY DEF TypeInv, TypeOK, SendFrame
<1>2. \A i \in DOMAIN outq' : i \in Nat /\ i + 1 # 1
  BY <1>1
<1>3. QED
  BY <1>1, <1>2, FramesTaken

LEMMA ConnectStep ==
    TypeInv /\ SeqInv /\ SentInv /\ ConnectInv /\ [Next]_vars => ConnectInv'
<1> SUFFICES ASSUME TypeInv, SeqInv, SentInv, ConnectInv, [Next]_vars,
                    NEW s \in Session
             PROVE  /\ \A i, j \in DOMAIN outq' :
                          outq'[i] = Kick("connect", s) /\ outq'[j] = Kick("connect", s)
                             => i = j
                    /\ Queued("connect", s)' => s \notin asked'
                    /\ Queued("connect", s)' \/ s \in asked' => ~Answered(s)'
  BY DEF ConnectInv, Kick
<1> DEFINE goal == /\ \A i, j \in DOMAIN outq' :
                         outq'[i] = Kick("connect", s) /\ outq'[j] = Kick("connect", s)
                            => i = j
                   /\ Queued("connect", s)' => s \notin asked'
                   /\ Queued("connect", s)' \/ s \in asked' => ~Answered(s)'
<1>1. /\ \A i, j \in DOMAIN outq :
            outq[i] = Kick("connect", s) /\ outq[j] = Kick("connect", s) => i = j
      /\ Queued("connect", s) => s \notin asked
      /\ Queued("connect", s) \/ s \in asked => ~Answered(s)
  BY DEF ConnectInv
<1>2. ASSUME outq' = outq \/ outq' = <<>>, s \in asked' => s \in asked,
             Answered(s)' => Answered(s)
      PROVE  goal
  BY <1>1, <1>2 DEF Queued, Kick
<1>3. ASSUME UNCHANGED <<outq, asked, inbox, replies>>
      PROVE  goal
  BY <1>2, <1>3 DEF Answered
<1>4. CASE Aside
  BY <1>3, <1>4, AsideKeeps DEF callVars
<1>5. CASE Connect \/ SendFails \/ WssLost \/ Heartbeat \/ TakeStart
  <2>1. /\ outq' = outq \/ outq' = <<>>
        /\ asked' = asked /\ inbox' = inbox /\ replies' \subseteq replies
    BY <1>5 DEF Connect, SendFails, WssLost, Heartbeat, TakeStart, TakeCommand,
                taskVars, envVars, wireVars
  <2>2. QED
    BY <1>2, <2>1 DEF Answered
<1>6. CASE SendFrame
  <2>1. /\ Answered(s)' <=> Answered(s)
        /\ s \in asked' => s \in asked \/ outq[1] = Kick("connect", s)
    <3>1. outq[1] \in Frame
      BY <1>6, SendLoopQueue DEF TypeInv, TypeOK
    <3>2. outq[1].kind = "connect" /\ outq[1].of = s => outq[1] = Kick("connect", s)
      BY <3>1 DEF Frame, Kick
    <3>3. UNCHANGED <<inbox, replies>>
      BY <1>6 DEF SendFrame, taskVars
    <3>4. asked' = IF outq[1].kind = "connect" THEN asked \cup {outq[1].of} ELSE asked
      BY <1>6, SendLoopQueue DEF SendFrame
    <3>5. QED
      BY <3>2, <3>3, <3>4 DEF Answered
  <2>2. Queued("connect", s)' => Queued("connect", s) /\ outq[1] # Kick("connect", s)
    BY <1>1, <1>6, SendLoopQueue DEF Queued, Kick
  <2>3. outq[1] = Kick("connect", s) => Queued("connect", s)
    BY <1>6, SendLoopQueue DEF Queued
  <2>4. \A i, j \in DOMAIN outq' :
           outq'[i] = Kick("connect", s) /\ outq'[j] = Kick("connect", s) => i = j
    BY <1>1, <1>6, SendLoopQueue
  <2>5. QED
    BY <1>1, <2>1, <2>2, <2>3, <2>4
<1>7. ASSUME NEW t \in Session, NEW v \in {"accept", "reject"}, BaseAnswers(t, v)
      PROVE  goal
  <2>1. /\ t \in asked /\ asked' = asked \ {t} /\ UNCHANGED <<outq, inbox>>
        /\ \A r \in replies' : r \in replies \/ r.of = t
    BY <1>7 DEF BaseAnswers, taskVars, wireVars
  <2>2. CASE t = s
    BY <1>1, <2>1, <2>2 DEF Queued, Kick
  <2>3. CASE t # s
    BY <1>2, <2>1, <2>3 DEF Answered
  <2>4. QED
    BY <2>2, <2>3
<1>8. ASSUME NEW t \in Session, BaseHangsUp(t)
      PROVE  goal
  BY <1>3, <1>8 DEF BaseHangsUp, taskVars, wireVars
<1>9. ASSUME NEW r \in Reply, HandleReply(r)
      PROVE  goal
  <2>1. /\ r \in replies /\ replies' \subseteq replies /\ UNCHANGED <<outq, asked>>
        /\ inbox'[s] = inbox[s] \/ inbox'[s] = r
    BY <1>9 DEF HandleReply, wireVars
  <2>2. QED
    BY <1>2, <2>1 DEF Answered
<1>10. ASSUME NEW t \in Session, SessionStep(t)
       PROVE  goal
  <2>1. /\ UNCHANGED <<asked, replies>> /\ inbox'[s] \in {inbox[s], Closed}
    BY <1>10, SessionNumbers, SessionMail
  <2>2. Closed.of # s
    BY ConstantsAssumption DEF Closed
  <2>3. Answered(s)' => Answered(s)
    BY <2>1, <2>2 DEF Answered
  <2>4. CASE SendConnect(t) /\ t = s
    <3>1. ~Sent(s)
      BY <2>4, SendConnectSeq
    <3>2. s \notin asked /\ ~Answered(s)
      BY <3>1, ConstantsAssumption DEF SentInv, Answered
    <3>3. \A i \in DOMAIN outq : outq[i] # Kick("connect", s)
      BY <3>1 DEF SentInv, Kick
    <3>4. \A i \in DOMAIN outq' : outq'[i] = Kick("connect", s) => i = Len(outq) + 1
      BY <1>10, <3>3, SessionQueue
    <3>5. QED
      BY <2>1, <2>3, <3>2, <3>4
  <2>5. CASE ~(SendConnect(t) /\ t = s)
    <3>1. \A i \in DOMAIN outq' :
             outq'[i] = Kick("connect", s) => i \in DOMAIN outq /\ outq'[i] = outq[i]
      BY <1>10, <2>5, SessionQueue, Kicks
    <3>2. QED
      BY <1>1, <2>1, <2>3, <3>1 DEF Queued, Kick
  <2>6. QED
    BY <2>4, <2>5
<1>11. goal
  BY <1>4, <1>5, <1>6, <1>7, <1>8, <1>9, <1>10, NextSplit DEF Base
<1>12. QED
  BY <1>11
LEMMA LateStep == TypeInv /\ LateInv /\ [Next]_vars => LateInv'
<1> SUFFICES ASSUME TypeInv, LateInv, [Next]_vars PROVE LateInv'
  OBVIOUS
<1>1. epoch \in Nat /\ epoch' \in Nat /\ \A s \in Session : epochOf[s] \in Nat
  BY ConstantsAssumption, NextTypeInv DEF TypeInv, TypeOK
<1>2. ASSUME UNCHANGED <<outcome, task, epochOf>>, epoch' = epoch \/ epoch' = epoch + 1
      PROVE  LateInv'
  BY <1>1, <1>2 DEF LateInv
<1>3. CASE Aside
  BY <1>2, <1>3, AsideKeeps DEF callVars
<1>4. CASE Connect \/ WssLost \/ Heartbeat \/ SendFrame \/ SendFails
  BY <1>2, <1>4 DEF Connect, WssLost, Heartbeat, SendFrame, SendFails, bornVars,
                    taskVars, wireVars
<1>5. CASE Base \/ \E r \in Reply : HandleReply(r)
  BY <1>2, <1>5 DEF Base, BaseAnswers, BaseHangsUp, HandleReply, bornVars,
                    taskVars, wireVars
<1>6. CASE TakeStart
  <2>1. outcome' = outcome /\ epoch' = epoch
    BY <1>6 DEF TakeStart, TakeCommand, wireVars
  <2>2. CASE UNCHANGED <<pumpVars, task, epochOf, phase, stop>>
    BY <1>2, <2>1, <2>2
  <2>3. ASSUME NEW s \in Session, task[s] = "unborn", Spawn(s)
        PROVE  LateInv'
    <3>1. epochOf'[s] = epoch /\ outcome[s] = "none"
      BY <2>3 DEF Spawn, TypeInv, TypeOK, LateInv
    <3>2. \A t \in Session : t # s => epochOf'[t] = epochOf[t] /\ task'[t] = task[t]
      BY <2>3 DEF Spawn, TypeInv, TypeOK
    <3>3. QED
      BY <1>1, <2>1, <3>1, <3>2 DEF LateInv
  <2>4. QED
    BY <1>6, <2>2, <2>3 DEF TakeStart
<1>7. ASSUME NEW s \in Session, SessionStep(s)
      PROVE  LateInv'
  <2>1. UNCHANGED <<epochOf, epoch>>
    BY <1>7, SessionNumbers
  <2>2. /\ \A t \in Session : t # s => outcome'[t] = outcome[t] /\ task'[t] = task[t]
        /\ outcome'[s] # "none" => task'[s] \in {"ended", "clearing", "done"}
    <3>1. CASE \/ BindFails(s) \/ Timeout(s) \/ SetupFails(s) \/ Rejected(s)
               \/ Disconnect(s)
      BY <3>1 DEF BindFails, Timeout, SetupFails, Rejected, Disconnect, Fail,
                  TypeInv, TypeOK
    <3>2. CASE StartMedia(s) \/ GoIdle(s) \/ ClearHub(s)
      BY <3>2 DEF StartMedia, GoIdle, ClearHub, At, TypeInv, TypeOK, LateInv
    <3>3. CASE SendConnect(s)
      <4>1. task[s] = "opening" /\ outcome[s] = "none"
        BY <3>3 DEF SendConnect, At, LateInv
      <4>2. \/ task' = [task EXCEPT ![s] = "waiting"] /\ outcome' = outcome
            \/ /\ task' = [task EXCEPT ![s] = "ended"]
               /\ outcome' = [outcome EXCEPT ![s] = "error"]
        BY <3>3 DEF SendConnect, Fail
      <4>3. QED
        BY <4>1, <4>2 DEF TypeInv, TypeOK
    <3>4. QED
      BY <1>7, <3>1, <3>2, <3>3 DEF SessionStep
  <2>3. QED
    BY <2>1, <2>2 DEF LateInv
<1>8. QED
  BY <1>3, <1>4, <1>5, <1>6, <1>7, NextSplit

\* The step at which a session ends cleanly queues its disconnect, if its
\* connection is still the one that is up.
LEMMA EndsClean ==
    ASSUME TypeInv, LateInv, UpHasSendLoop, NEW s \in Session, SessionStep(s),
           outcome'[s] = "ok", epochOf[s] = epoch, wssUp
    PROVE  outcome[s] = "ok" \/ Queued("disconnect", s)'
<1>1. CASE Disconnect(s)
  <2>1. CanSend(s)
    BY Zenon DEF CanSend, UpHasSendLoop
  <2>2. outq' = Append(outq, Kick("disconnect", s))
    BY <1>1, <2>1 DEF Disconnect, Kick
  <2>3. outq \in Seq(Frame) /\ Len(outq) \in Nat /\ Kick("disconnect", s) \in Frame
    BY Kicks DEF TypeInv, TypeOK
  <2>4. Len(outq) + 1 \in DOMAIN outq' /\ outq'[Len(outq) + 1] = Kick("disconnect", s)
    BY <2>2, <2>3, FramesAppended
  <2>5. QED
    BY <2>4 DEF Queued, Kick
<1>2. CASE ~Disconnect(s)
  <2>1. CASE BindFails(s) \/ Timeout(s) \/ SetupFails(s) \/ Rejected(s)
    BY <2>1 DEF BindFails, Timeout, SetupFails, Rejected, Fail, TypeInv, TypeOK
  <2>2. CASE StartMedia(s) \/ GoIdle(s) \/ ClearHub(s)
    BY <2>2 DEF StartMedia, GoIdle, ClearHub
  <2>3. CASE SendConnect(s)
    <3>1. outcome' = outcome \/ outcome' = [outcome EXCEPT ![s] = "error"]
      BY <2>3 DEF SendConnect, Fail
    <3>2. QED
      BY <3>1 DEF TypeInv, TypeOK
  <2>4. QED
    BY <1>2, <2>1, <2>2, <2>3 DEF SessionStep
<1>3. QED
  BY <1>1, <1>2

LEMMA CallStep ==
    TypeInv /\ SeqInv /\ SentInv /\ ConnectInv /\ LateInv /\ UpHasSendLoop
        /\ NoCallLeftOpen /\ [Next]_vars => NoCallLeftOpen'
<1> SUFFICES ASSUME TypeInv, SeqInv, SentInv, ConnectInv, LateInv, UpHasSendLoop,
                    NoCallLeftOpen, [Next]_vars
             PROVE  NoCallLeftOpen'
  OBVIOUS
<1>0. calls' \subseteq Session
  BY NextTypeInv DEF TypeInv, TypeOK
<1> SUFFICES ASSUME NEW s \in Session, s \in calls', outcome'[s] = "ok",
                    inbox'[s].of = s, epochOf'[s] = epoch', wssUp'
             PROVE  Queued("disconnect", s)'
  BY <1>0 DEF NoCallLeftOpen, Queued, Kick
<1>1. ASSUME s \in calls, outcome[s] = "ok", inbox[s].of = s, epochOf[s] = epoch, wssUp
      PROVE  Queued("disconnect", s)
  BY <1>1 DEF NoCallLeftOpen, Queued, Kick
<1>2. ASSUME UNCHANGED <<calls, outcome, inbox, epochOf, epoch, wssUp, outq>>
      PROVE  Queued("disconnect", s)'
  BY <1>1, <1>2 DEF Queued, Kick
<1>3. CASE Aside
  BY <1>2, <1>3, AsideKeeps DEF callVars
<1>4. CASE Connect
  <2>1. epoch' = epoch + 1 /\ epochOf' = epochOf
    BY <1>4 DEF Connect, bornVars
  <2>2. epochOf[s] <= epoch /\ epochOf[s] \in Nat /\ epoch \in Nat
    BY ConstantsAssumption DEF LateInv, TypeInv, TypeOK
  <2>3. QED
    BY <2>1, <2>2
<1>5. CASE WssLost \/ SendFails
  <2>1. ~wssUp'
    <3>1. CASE WssLost
      BY <3>1, Zenon DEF WssLost
    <3>2. CASE SendFails
      BY <3>2, Zenon DEF SendFails
    <3>3. QED
      BY <1>5, <3>1, <3>2
  <2>2. QED
    BY <2>1
<1>6. CASE Heartbeat
  BY <1>2, <1>6 DEF Heartbeat, taskVars, wireVars, envVars
<1>7. CASE TakeStart
  <2>1. UNCHANGED <<calls, outcome, inbox, epoch, wssUp, outq>>
    BY <1>7 DEF TakeStart, TakeCommand, wireVars, envVars
  <2>2. task[s] # "unborn"
    BY <2>1 DEF LateInv
  <2>3. epochOf'[s] = epochOf[s]
    BY <1>7, <2>2 DEF TakeStart, Spawn, TypeInv, TypeOK
  <2>4. QED
    BY <1>1, <2>1, <2>3 DEF Queued, Kick
<1>8. CASE SendFrame
  <2>1. /\ UNCHANGED <<outcome, inbox, epochOf, epoch, wssUp>>
        /\ calls' = calls \/ (outq[1].kind = "disconnect"
                                /\ (calls' = calls \ {outq[1].of} \/ calls' = {}))
    BY <1>8, SendLoopQueue DEF SendFrame, taskVars, bornVars
  <2>2. Queued("disconnect", s)
    BY <1>1, <2>1
  <2>3. PICK i \in DOMAIN outq : outq[i] = Kick("disconnect", s)
    BY <2>2 DEF Queued
  <2>4. CASE i = 1
    <3>1. outq[1].kind = "disconnect" /\ outq[1].of = s
      BY <2>3, <2>4 DEF Kick
    <3>2. calls' \in {calls \ {s}, {}}
      BY <1>8, <3>1, SendLoopQueue DEF SendFrame
    <3>3. QED
      BY <3>2
  <2>5. CASE i # 1
    <3>1. i - 1 \in DOMAIN outq' /\ outq'[i - 1] = Kick("disconnect", s)
      BY <1>8, <2>3, <2>5, SendLoopQueue
    <3>2. QED
      BY <3>1 DEF Queued, Kick
  <2>6. QED
    BY <2>4, <2>5
<1>9. ASSUME NEW t \in Session, BaseHangsUp(t) \/ \E v \in {"accept", "reject"} : BaseAnswers(t, v)
      PROVE  Queued("disconnect", s)'
  <2>1. /\ UNCHANGED <<outcome, inbox, epochOf, epoch, wssUp, outq>>
        /\ s \in calls \/ s \in asked
    BY <1>9 DEF BaseHangsUp, BaseAnswers, taskVars, bornVars, wireVars
  <2>2. s \notin asked
    BY <2>1 DEF ConnectInv, Answered
  <2>3. QED
    BY <1>1, <2>1, <2>2 DEF Queued, Kick
<1>10. ASSUME NEW r \in Reply, HandleReply(r)
       PROVE  Queued("disconnect", s)'
  <2>1. /\ UNCHANGED <<calls, outcome, epochOf, epoch, wssUp, outq>>
        /\ inbox'[s] = inbox[s] \/ task[s] = "waiting"
    BY <1>10 DEF HandleReply, bornVars, wireVars
  <2>2. task[s] # "waiting"
    BY <2>1 DEF LateInv
  <2>3. QED
    BY <1>1, <2>1, <2>2 DEF Queued, Kick
<1>11. ASSUME NEW t \in Session, SessionStep(t)
       PROVE  Queued("disconnect", s)'
  <2>1. /\ UNCHANGED <<epochOf, epoch, wssUp, calls>>
        /\ inbox'[s] \in {inbox[s], Closed}
        /\ \A i \in DOMAIN outq : i \in DOMAIN outq' /\ outq'[i] = outq[i]
    BY <1>11, SessionNumbers, SessionMail, SessionQueue
  <2>2. inbox[s].of = s
    BY <2>1, ConstantsAssumption DEF Closed
  <2>3. outcome[s] = "ok" \/ Queued("disconnect", s)'
    <3>1. CASE t = s
      BY <1>11, <2>1, <3>1, EndsClean
    <3>2. CASE t # s
      <4>1. CASE SendConnect(t)
        BY <3>2, <4>1 DEF SendConnect, Fail, TypeInv, TypeOK
      <4>2. CASE ~SendConnect(t)
        BY <1>11, <3>2, <4>2
           DEF SessionStep, BindFails, Timeout, SetupFails, Rejected, StartMedia,
               Disconnect, GoIdle, ClearHub, Fail, TypeInv, TypeOK
      <4>3. QED
        BY <4>1, <4>2
    <3>3. QED
      BY <3>1, <3>2
  <2>4. Queued("disconnect", s) => Queued("disconnect", s)'
    BY <2>1 DEF Queued, Kick
  <2>5. QED
    BY <1>1, <2>1, <2>2, <2>3, <2>4
<1>12. QED
  BY <1>3, <1>4, <1>5, <1>6, <1>7, <1>8, <1>9, <1>10, <1>11, NextSplit DEF Base

\* While its connection is up, a session that ended cleanly on its own answer
\* leaves no call open at the base but one whose disconnect is queued.
THEOREM NoCallStaysOpen == Spec => []NoCallLeftOpen
<1>1. Init => ConnectInv /\ LateInv /\ NoCallLeftOpen
  BY ConstantsAssumption
     DEF Init, ConnectInv, LateInv, NoCallLeftOpen, Queued, Answered, Empty
<1>2. Init => UpHasSendLoop
  BY Zenon DEF Init, UpHasSendLoop
<1>3. QED
  BY <1>1, <1>2, NumbersAlways, ConnectStep, LateStep, CallStep,
     UpHasSendLoopStep, PTL DEF Spec

-----------------------------------------------------------------------------
(* How far "at most one at a time" is kept.                                *)

\* Of the sessions of one connection, at most one was not told to stop.
OneEach ==
    \A s, t \in Session :
        /\ Started(s) /\ stop[s] # "true"
        /\ Started(t) /\ stop[t] # "true"
        /\ epochOf[s] = epochOf[t]
        => s = t

\* The active session is of the current connection; a session that was cut
\* off is of an earlier one, unless the pump has just left; and every
\* connection cut off one session at most.
CutInv ==
    /\ active # None => /\ epochOf[active] = epoch
                        /\ pump \notin {"offline", "exited"}
    /\ \A s \in Session :
          stop[s] = "dropped" => \/ epochOf[s] < epoch
                                 \/ epochOf[s] = epoch /\ pump \in {"offline", "exited"}
    /\ \A s, t \in Session :
          stop[s] = "dropped" /\ stop[t] = "dropped" /\ epochOf[s] = epochOf[t]
              => s = t

LEMMA CutStep == TypeInv /\ StopInv /\ CutInv /\ [Next]_vars => CutInv'
<1> SUFFICES ASSUME TypeInv, StopInv, CutInv, [Next]_vars
             PROVE  CutInv'
  OBVIOUS
<1>1. /\ epoch \in Nat /\ active \in Session \cup {None} /\ None \notin Session
      /\ stop \in [Session -> {"false", "true", "dropped"}]
      /\ epochOf \in [Session -> Nat]
  BY ConstantsAssumption DEF TypeInv, TypeOK
<1>2. ASSUME UNCHANGED <<epochOf, epoch, stop>>,
             active' \in {active, None},
             pump \in {"offline", "exited"} => pump' = pump,
             pump' = pump \/ pump' \notin {"offline", "exited"}
      PROVE  CutInv'
  BY <1>2 DEF CutInv
<1>3. CASE Clients \/ Wire \/ Base \/ Exited \/ UNCHANGED vars
  <2>1. UNCHANGED <<epochOf, epoch, stop, active, pump>>
    BY <1>3 DEF Clients, PostMonitor, DeleteMonitor, StdinQuit, Ring,
         PostAnswer, PostHangup, HangupStops, Wire, WssLost, Heartbeat, SendFrame, SendFails,
         Base, BaseHangsUp, BaseAnswers, Exited, vars, pumpVars, bornVars, wireVars
  <2>2. QED
    BY <1>2, <2>1
<1>4. ASSUME NEW s \in Session, SessionStep(s) \/ MediaStep(s)
      PROVE  CutInv'
  <2>1. UNCHANGED <<epochOf, epoch, stop, active, pump>>
    BY <1>4
       DEF SessionStep, BindFails, SendConnect, Timeout, SetupFails, Rejected,
           StartMedia, Disconnect, GoIdle, ClearHub, MediaStep, ReceiveStops,
           ReceiveGivesUp, MixerStops, MixerTick,
           MixerSetsPhase, LoopEnds, pumpVars, bornVars,
           wireVars
  <2>2. QED
    BY <1>2, <2>1
<1>5. CASE Connect
  <2>1. /\ epoch' = epoch + 1 /\ pump = "offline"
        /\ UNCHANGED <<epochOf, stop, active>>
    BY <1>5 DEF Connect, bornVars
  <2>2. active = None
    BY <2>1 DEF CutInv
  <2>3. \A s \in Session : stop[s] = "dropped" => epochOf[s] < epoch'
    BY <1>1, <2>1 DEF CutInv
  <2>4. QED
    BY <2>1, <2>2, <2>3 DEF CutInv
<1>6. CASE PumpSeesClose \/ QuitAwaited \/ \E r \in Reply : HandleReply(r)
  BY <1>2, <1>6 DEF PumpSeesClose, QuitAwaited, HandleReply, pumpVars, bornVars, wireVars
<1>7. CASE PumpReturns
  <2>1. /\ pump \notin {"offline", "exited"} /\ pump' \in {"offline", "exited"}
        /\ active' = None /\ UNCHANGED <<epochOf, epoch>>
        /\ stop' = IF active = None THEN stop ELSE [stop EXCEPT ![active] = "dropped"]
    BY <1>7 DEF PumpReturns, bornVars, wireVars
  <2>2. \A s \in Session : stop[s] = "dropped" => epochOf[s] < epoch
    BY <2>1 DEF CutInv
  <2>3. \A s \in Session : stop'[s] = "dropped" /\ stop[s] # "dropped"
                             => s = active /\ epochOf[s] = epoch
    BY <1>1, <2>1 DEF CutInv
  <2>4. \A s, t \in Session :
           stop'[s] = "dropped" /\ stop'[t] = "dropped" /\ epochOf[s] = epochOf[t]
               => s = t
    BY <1>1, <2>2, <2>3 DEF CutInv
  <2>5. QED
    BY <2>1, <2>2, <2>3, <2>4 DEF CutInv
<1>8. CASE TakeStart
  <2>1. pump = "running" /\ UNCHANGED <<pump, stop, epoch>>
    BY <1>8 DEF TakeStart, TakeCommand, Spawn, pumpVars, wireVars
  <2>2. CASE UNCHANGED <<active, epochOf>>
    BY <1>2, <2>1, <2>2
  <2>3. ASSUME NEW s \in Session, task[s] = "unborn", Spawn(s)
        PROVE  CutInv'
    <3>1. epochOf' = [epochOf EXCEPT ![s] = epoch] /\ active' = s
      BY <2>3 DEF Spawn
    <3>2. stop[s] = "false"
      BY <2>3 DEF StopInv, Fresh, Started
    <3>3. \A t \in Session : stop[t] = "dropped" => epochOf'[t] = epochOf[t]
      BY <1>1, <3>1, <3>2
    <3>4. epochOf'[s] = epoch
      BY <1>1, <3>1
    <3>5. QED
      BY <2>1, <3>1, <3>3, <3>4 DEF CutInv
  <2>4. QED
    BY <1>8, <2>2, <2>3 DEF TakeStart, pumpVars
<1>9. CASE TakeStop \/ TakeQuit
  <2>1. /\ pump = "running" /\ pump' \notin {"offline", "exited"}
        /\ active' \in {active, None} /\ UNCHANGED <<epochOf, epoch>>
    BY <1>9 DEF TakeStop, TakeQuit, TakeCommand, wireVars
  <2>2. SignalStop
    BY <1>9 DEF TakeStop, TakeQuit
  <2>3. \A s \in Session : stop'[s] = "dropped" => stop[s] = "dropped"
    BY <1>1, <2>2 DEF SignalStop
  <2>4. QED
    BY <2>1, <2>3 DEF CutInv
<1>10. QED
  BY <1>3, <1>4, <1>5, <1>6, <1>7, <1>8, <1>9 DEF Next, Pump

\* "At most one at a time" is kept on each connection, for any number of
\* sessions and connections: a second session that nobody told to stop is of
\* a connection that was lost.
THEOREM OneSessionPerConnection == Spec => []OneEach
<1>1. Init => CutInv
  BY ConstantsAssumption DEF Init, CutInv
<1>2. TypeInv /\ StopInv /\ CutInv => OneEach
  <2> SUFFICES ASSUME TypeInv, StopInv, CutInv, NEW s \in Session, NEW t \in Session,
                      Started(s), stop[s] # "true", Started(t), stop[t] # "true",
                      epochOf[s] = epochOf[t]
               PROVE  s = t
    BY DEF OneEach
  <2>1. ASSUME NEW x \in Session, Started(x), stop[x] = "false"
        PROVE  x = active /\ epochOf[x] = epoch /\ pump \notin {"offline", "exited"}
    BY <2>1, ConstantsAssumption DEF StopInv, Unstopped, CutInv
  <2>2. ASSUME NEW x \in Session, NEW y \in Session, Started(x), stop[x] = "false",
               stop[y] = "dropped"
        PROVE  epochOf[x] # epochOf[y]
    <3>1. epochOf[x] = epoch /\ epochOf[y] < epoch
      BY <2>1, <2>2 DEF CutInv
    <3>2. epoch \in Nat
      BY ConstantsAssumption DEF TypeInv, TypeOK
    <3>3. QED
      BY <3>1, <3>2
  <2>3. stop[s] \in {"false", "dropped"} /\ stop[t] \in {"false", "dropped"}
    BY DEF TypeInv, TypeOK
  <2>4. QED
    BY <2>1, <2>2, <2>3 DEF CutInv
<1>3. QED
  BY <1>1, <1>2, InitTypeInv, NextTypeInv, StopInit, StopStep, CutStep, PTL DEF Spec
=============================================================================
