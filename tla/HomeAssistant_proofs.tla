------------------------ MODULE HomeAssistant_proofs ------------------------
(***************************************************************************)
(* Theorems of HomeAssistant, for any tokens, presses and bounds.          *)
(*                                                                         *)
(* TokensKept: as long as nothing slips, at most one Answer is under way,  *)
(* and then no token is held and none is being hung up; so the token that  *)
(* the end of a Hangup drops is the one it was about, whose talker the     *)
(* daemon has already let go.                                              *)
(*                                                                         *)
(* RingSettles: while nothing was missed, the last ring event on its way   *)
(* says what the door does, and with none on its way the sensor does.      *)
(***************************************************************************)
EXTENDS HomeAssistant, TLAPS

Stage == {"unused", "posted", "joined", "late", "done"}
Call  == [at : {"idle", "delete", "post", "answered"}, token : Token \cup {None}]

ButtonTypes ==
    /\ current \in Token \cup {None}
    /\ answer \in [Token -> Stage]
    /\ hangup \in [Press -> Call]
    /\ talkers \subseteq Token
    /\ slip \in BOOLEAN

UnderWay(t) == answer[t] \in {"posted", "joined"}

\* Every registered talker is the token that is held, or still being told.
Held == \A t \in talkers : t = current \/ answer[t] = "joined"

\* An answer is alone: with no other, no token, and no hangup of a token.
Alone ==
    \A t \in Token : UnderWay(t) =>
        /\ current = None
        /\ \A u \in Token : UnderWay(u) => u = t
        /\ \A p \in Press : hangup[p].token = None

\* A hangup is about the token that is held, or that another one dropped.
AboutCurrent ==
    \A p \in Press : hangup[p].token # None =>
        /\ current \in {None, hangup[p].token}
        /\ hangup[p].at # "delete"
        /\ hangup[p].at = "answered" => hangup[p].token \notin talkers

NobodyLate == \A t \in Token : answer[t] # "late"

TokensInv ==
    /\ ButtonTypes
    /\ ~slip => Held /\ Alone /\ AboutCurrent /\ NobodyLate

LEMMA InitTokens == Init => TokensInv
<1> SUFFICES ASSUME Init
             PROVE  TokensInv
  OBVIOUS
<1>1. ButtonTypes
  BY DEF Init, ButtonTypes, Idle, Call, Stage
<1>2. Held /\ Alone /\ AboutCurrent /\ NobodyLate
  BY DEF Init, Held, Alone, AboutCurrent, NobodyLate, UnderWay, Idle
<1>3. QED
  BY <1>1, <1>2 DEF TokensInv

\* Steps of the event stream leave the buttons alone.
LEMMA UnchangedTokens ==
    ASSUME TokensInv, UNCHANGED buttonVars
    PROVE  TokensInv'
BY DEF TokensInv, ButtonTypes, Held, Alone, AboutCurrent, NobodyLate, UnderWay,
       buttonVars

LEMMA EventTokens ==
    ASSUME TokensInv, EventStep
    PROVE  TokensInv'
<1>1. CASE Reload
  <2>1. /\ current' = None
        /\ slip' = (slip \/ current # None)
        /\ UNCHANGED <<answer, hangup, talkers>>
    BY <1>1 DEF Reload
  <2>2. ButtonTypes'
    BY <2>1 DEF TokensInv, ButtonTypes
  <2>3. CASE ~slip /\ current = None
    BY <2>1, <2>2, <2>3 DEF TokensInv, Held, Alone, AboutCurrent, NobodyLate,
                            UnderWay
  <2>4. CASE slip \/ current # None
    BY <2>1, <2>2, <2>4 DEF TokensInv
  <2>5. QED
    BY <2>3, <2>4 DEF TokensInv, ButtonTypes
<1>2. CASE ~Reload
  <2>1. UNCHANGED buttonVars
    BY <1>2 DEF EventStep, Ring, RingEnds, OtherEvent, Emits, Connects,
                ConnectFails, ConnectHangs, StreamDrops, StreamFallsSilent, Reconnects,
                Dispatch, SensorAdded, buttonVars
  <2>2. QED
    BY <2>1, UnchangedTokens
<1>3. QED
  BY <1>1, <1>2

LEMMA TokenStepTokens ==
    ASSUME TokensInv, NEW t \in Token, TokenStep(t)
    PROVE  TokensInv'
<1> USE DEF TokensInv, ButtonTypes
<1>1. CASE PressAnswer(t)
  <2>1. /\ answer[t] = "unused"
        /\ answer' = [answer EXCEPT ![t] = "posted"]
        /\ UNCHANGED <<current, hangup, talkers>>
    BY <1>1 DEF PressAnswer
  <2>2. slip' = (slip \/ Answering \/ HangingUp \/ current # None)
    BY <1>1 DEF PressAnswer
  <2>3. slip' \in BOOLEAN
    BY <2>2, Zenon
  <2>4. ButtonTypes'
    BY <2>1, <2>3 DEF Stage
  <2>5. CASE ~slip'
    <3>1. ~slip /\ ~Answering /\ ~HangingUp /\ current = None
      BY <2>2, <2>5, Zenon
    <3>2. \A u \in Token : u # t => answer'[u] = answer[u] /\ ~UnderWay(u)
      BY <2>1, <3>1 DEF Answering, UnderWay
    <3>3. answer'[t] = "posted"
      BY <2>1
    <3>4. Held'
      BY <2>1, <3>1, <3>2, HomeAssumption DEF Held
    <3>5. Alone'
      BY <2>1, <3>1, <3>2 DEF Alone, UnderWay, HangingUp
    <3>6. AboutCurrent' /\ NobodyLate'
      BY <2>1, <3>1, <3>2, <3>3 DEF AboutCurrent, NobodyLate
    <3>7. QED
      BY <2>4, <3>4, <3>5, <3>6
  <2>6. QED
    BY <2>4, <2>5
<1>2. CASE Joins(t)
  <2>1. /\ answer[t] \in {"posted", "late"}
        /\ talkers' = talkers \cup {t}
        /\ answer' = [answer EXCEPT ![t] = IF @ = "posted" THEN "joined" ELSE "done"]
        /\ UNCHANGED <<current, hangup, slip>>
    BY <1>2 DEF Joins
  <2>2. ButtonTypes'
    BY <2>1 DEF Stage
  <2>3. CASE ~slip
    <3>1. answer[t] = "posted" /\ answer'[t] = "joined"
      BY <2>1, <2>3 DEF NobodyLate
    <3>2. \A u \in Token : u # t => answer'[u] = answer[u]
      BY <2>1
    <3>3. UnderWay(t) /\ \A p \in Press : hangup[p].token = None
      BY <2>3, <3>1 DEF Alone, UnderWay
    <3>4. Held'
      BY <2>1, <2>3, <3>1, <3>2 DEF Held
    <3>5. Alone'
      BY <2>1, <2>3, <3>1, <3>2, <3>3 DEF Alone, UnderWay
    <3>6. AboutCurrent' /\ NobodyLate'
      BY <2>1, <2>3, <3>1, <3>2, <3>3 DEF AboutCurrent, NobodyLate
    <3>7. QED
      BY <2>2, <3>4, <3>5, <3>6
  <2>4. QED
    BY <2>1, <2>2, <2>3
<1>3. CASE Answered(t)
  <2>1. /\ answer[t] = "joined"
        /\ answer' = [answer EXCEPT ![t] = "done"]
        /\ current' = t
        /\ UNCHANGED <<hangup, talkers, slip>>
    BY <1>3 DEF Answered
  <2>2. ButtonTypes'
    BY <2>1 DEF Stage
  <2>3. CASE ~slip
    <3>1. /\ current = None
          /\ \A u \in Token : UnderWay(u) => u = t
          /\ \A p \in Press : hangup[p].token = None
      BY <2>1, <2>3 DEF Alone, UnderWay
    <3>2. \A u \in Token : ~UnderWay(u)' /\ (u # t => answer'[u] = answer[u])
      BY <2>1, <3>1 DEF UnderWay
    <3>3. Held'
      BY <2>1, <2>3, <3>1, HomeAssumption DEF Held, UnderWay
    <3>4. Alone' /\ AboutCurrent'
      BY <2>1, <3>1, <3>2 DEF Alone, AboutCurrent
    <3>5. NobodyLate'
      BY <2>1, <2>3, <3>2 DEF NobodyLate
    <3>6. QED
      BY <2>2, <3>3, <3>4, <3>5
  <2>4. QED
    BY <2>1, <2>2, <2>3
<1>4. CASE AnswerFails(t)
  <2>1. /\ answer' = [answer EXCEPT ![t] = IF @ = "posted" THEN "late" ELSE "done"]
        /\ slip' = TRUE
        /\ UNCHANGED <<current, hangup, talkers>>
    BY <1>4 DEF AnswerFails
  <2>2. QED
    BY <2>1 DEF Stage
<1>5. CASE Reap(t)
  <2>1. talkers' = talkers \ {t} /\ UNCHANGED <<current, answer, hangup, slip>>
    BY <1>5 DEF Reap
  <2>2. QED
    BY <2>1 DEF Held, Alone, AboutCurrent, NobodyLate, UnderWay
<1>6. QED
  BY <1>1, <1>2, <1>3, <1>4, <1>5 DEF TokenStep

\* Nobody joins when a session, or the hangup of the last talker, ends.
LEMMA FewerTokens ==
    ASSUME TokensInv, UNCHANGED <<current, answer, hangup, slip>>,
           talkers' \subseteq talkers
    PROVE  TokensInv'
BY DEF TokensInv, ButtonTypes, Held, Alone, AboutCurrent, NobodyLate, UnderWay

LEMMA HangupStepTokens ==
    ASSUME TokensInv, NEW p \in Press, HangupStep(p)
    PROVE  TokensInv'
<1> USE DEF TokensInv, ButtonTypes
<1>1. CASE PressHangup(p)
  <2> DEFINE call == [at |-> IF current = None THEN "delete" ELSE "post",
                      token |-> current]
  <2>1. /\ hangup' = [hangup EXCEPT ![p] = call]
        /\ UNCHANGED <<current, answer, talkers, slip>>
    BY <1>1 DEF PressHangup
  <2>2. /\ call \in Call /\ call.token = current /\ call.at # "answered"
        /\ current # None => call.at # "delete"
    BY DEF Call
  <2> HIDE DEF call
  <2>3. ButtonTypes'
    BY <2>1, <2>2
  <2>4. hangup'[p] = call /\ \A q \in Press : q # p => hangup'[q] = hangup[q]
    BY <2>1
  <2>5. CASE ~slip
    <3>1. Held' /\ NobodyLate'
      BY <2>1, <2>5 DEF Held, NobodyLate
    <3>2. Alone'
      BY <2>1, <2>2, <2>4, <2>5 DEF Alone, UnderWay
    <3>3. AboutCurrent'
      BY <2>1, <2>2, <2>4, <2>5 DEF AboutCurrent
    <3>4. QED
      BY <2>3, <3>1, <3>2, <3>3
  <2>6. QED
    BY <2>1, <2>3, <2>5
<1>2. CASE DeleteArrives(p) \/ HangupArrives(p)
  <2>1. /\ hangup[p].at \in {"delete", "post"}
        /\ hangup' = [hangup EXCEPT ![p].at = "answered"]
        /\ UNCHANGED <<current, answer, slip>>
        /\ talkers' \subseteq talkers
    BY <1>2 DEF DeleteArrives, HangupArrives
  <2>2. /\ hangup'[p].token = hangup[p].token
        /\ \A q \in Press : q # p => hangup'[q] = hangup[q]
        /\ hangup' \in [Press -> Call]
    BY <2>1 DEF Call
  <2>3. ButtonTypes'
    BY <2>1, <2>2
  <2>4. CASE ~slip
    <3>1. Held' /\ NobodyLate'
      BY <2>1, <2>4 DEF Held, NobodyLate
    <3>2. Alone'
      BY <2>1, <2>2, <2>4 DEF Alone, UnderWay
    <3>3. ASSUME hangup[p].token # None
          PROVE  hangup[p].token \notin talkers'
      <4>1. HangupArrives(p)
        BY <1>2, <2>4, <3>3 DEF AboutCurrent, DeleteArrives
      <4>2. QED
        BY <4>1 DEF HangupArrives
    <3>4. AboutCurrent'
      BY <2>1, <2>2, <2>4, <3>3 DEF AboutCurrent
    <3>5. QED
      BY <2>3, <3>1, <3>2, <3>4
  <2>5. QED
    BY <2>1, <2>3, <2>4
<1>3. CASE HangupOver(p)
  <2>1. /\ hangup[p].at = "answered"
        /\ hangup' = [hangup EXCEPT ![p] = Idle]
        /\ current' = IF hangup[p].token = None THEN current ELSE None
        /\ UNCHANGED <<answer, talkers, slip>>
    BY <1>3 DEF HangupOver
  <2>2. /\ hangup'[p].token = None
        /\ \A q \in Press : q # p => hangup'[q] = hangup[q]
        /\ hangup' \in [Press -> Call]
    BY <2>1 DEF Idle, Call
  <2>3. ButtonTypes'
    BY <2>1, <2>2
  <2>4. CASE ~slip
    <3>1. Held'
      BY <2>1, <2>4, HomeAssumption DEF Held, AboutCurrent
    <3>2. Alone'
      BY <2>1, <2>2, <2>4 DEF Alone, UnderWay
    <3>3. AboutCurrent' /\ NobodyLate'
      BY <2>1, <2>2, <2>4 DEF AboutCurrent, NobodyLate
    <3>4. QED
      BY <2>3, <3>1, <3>2, <3>3
  <2>5. QED
    BY <2>1, <2>3, <2>4
<1>4. CASE HangupFails(p)
  <2>1. /\ hangup' = [hangup EXCEPT ![p] = Idle]
        /\ current' = IF hangup[p].token = None THEN current ELSE None
        /\ UNCHANGED <<answer, talkers>>
        /\ slip' = TRUE
    BY <1>4 DEF HangupFails
  <2>2. QED
    BY <2>1 DEF Idle, Call
<1>5. QED
  BY <1>1, <1>2, <1>3, <1>4 DEF HangupStep

LEMMA NextTokens == TokensInv /\ [Next]_homeVars => TokensInv'
<1> SUFFICES ASSUME TokensInv, [Next]_homeVars
             PROVE  TokensInv'
  OBVIOUS
<1>1. CASE EventStep
  BY <1>1, EventTokens
<1>2. CASE \E t \in Token : TokenStep(t)
  BY <1>2, TokenStepTokens
<1>3. CASE \E p \in Press : HangupStep(p)
  BY <1>3, HangupStepTokens
<1>4. CASE SessionStarts \/ SessionEnds \/ StopTaken
  BY <1>4, FewerTokens DEF SessionStarts, SessionEnds, StopTaken
<1>5. CASE UNCHANGED homeVars
  BY <1>5, UnchangedTokens DEF homeVars
<1>6. QED
  BY <1>1, <1>2, <1>3, <1>4, <1>5 DEF Next

\* Unless a press slipped, Hangup names every talker that Answer registered:
\* the end of a Hangup never drops the token of another Answer.
THEOREM TokensKeptHolds == Spec => []TokensKept
<1>1. Spec => []TokensInv
  BY InitTokens, NextTokens, PTL DEF Spec
<1>2. TokensInv => TokensKept
  BY DEF TokensInv, TokensKept, Held
<1>3. QED
  BY <1>1, <1>2, PTL

-----------------------------------------------------------------------------
(* TypeOK and RingSettles.                                                 *)

Event == {"ring", "ringEnds", "other"}

\* What TypeOK says of the event stream and the daemon's session.
EventTypes ==
    /\ door \in BOOLEAN /\ listening \in BOOLEAN
    /\ sensor \in BOOLEAN /\ missed \in BOOLEAN
    /\ conn \in {"none", "up", "silent"}
    /\ queue \in Seq(Event) /\ Len(queue) <= Capacity
    /\ conn # "up" => queue = <<>>
    /\ pump \in {"connecting", "reading", "waiting"}
    /\ pump = "reading" => conn # "none"
    /\ conn = "up" => pump = "reading"
    /\ pump = "waiting" => conn = "none"
    /\ session \in BOOLEAN /\ stopping \in BOOLEAN
    /\ faults \in 0 .. MaxFaults

\* The bus keeps the newest event, and of the older ones all or all but one.
LEMMA KeepLast ==
    ASSUME NEW es \in Seq(Event), Len(es) <= Capacity, NEW e \in Event
    PROVE  LET kept == Keep(Append(es, e))
           IN /\ kept \in Seq(Event) /\ Len(kept) <= Capacity
              /\ Len(kept) > 0 /\ kept[Len(kept)] = e
              /\ \/ /\ Len(kept) = Len(es) + 1
                    /\ \A i \in 1 .. Len(kept) - 1 : kept[i] = es[i]
                 \/ /\ Len(kept) = Len(es)
                    /\ \A i \in 1 .. Len(kept) - 1 : kept[i] = es[i + 1]
<1> DEFINE all == Append(es, e)
<1>1. /\ all \in Seq(Event) /\ Len(all) = Len(es) + 1 /\ Len(es) \in Nat
      /\ all[Len(all)] = e /\ \A i \in 1 .. Len(es) : all[i] = es[i]
  OBVIOUS
<1>2. Capacity \in Nat /\ Capacity > 0
  BY HomeAssumption
<1> HIDE DEF all
<1>3. CASE Len(all) <= Capacity
  <2>1. Keep(all) = all
    BY <1>1, <1>2, <1>3 DEF Keep
  <2>2. \A i \in 1 .. Len(all) - 1 : all[i] = es[i]
    BY <1>1
  <2>3. QED
    BY <1>1, <1>3, <2>1, <2>2 DEF all
<1>4. CASE Len(all) > Capacity
  <2>1. Keep(all) = Tail(all)
    BY <1>4 DEF Keep
  <2>2. /\ Tail(all) \in Seq(Event) /\ Len(Tail(all)) = Len(es)
        /\ \A i \in 1 .. Len(es) : Tail(all)[i] = all[i + 1]
    BY <1>1
  <2>3. Len(es) > 0
    BY <1>1, <1>2, <1>4
  <2>4. /\ Tail(all)[Len(es)] = e
        /\ \A i \in 1 .. Len(es) - 1 : Tail(all)[i] = es[i + 1]
    BY <1>1, <2>2, <2>3
  <2>5. QED
    BY <1>1, <2>1, <2>2, <2>3, <2>4 DEF all
<1>5. QED
  BY <1>1, <1>2, <1>3, <1>4

LEMMA EventTypesNext == EventTypes /\ [Next]_homeVars => EventTypes'
<1> SUFFICES ASSUME EventTypes, [Next]_homeVars
             PROVE  EventTypes'
  OBVIOUS
<1> USE DEF EventTypes
<1>1. ASSUME NEW e \in Event, Emits(e)
      PROVE  EventTypes'
  <2>1. door' \in BOOLEAN /\ missed' \in BOOLEAN
    BY <1>1, Zenon DEF Emits
  <2>2. queue' \in Seq(Event) /\ Len(queue') <= Capacity
        /\ (conn # "up" => queue' = queue)
    <3>1. conn # "up" => queue' = queue
      BY <1>1 DEF Emits
    <3>2. conn = "up" => queue' = Keep(Append(queue, e))
      BY <1>1 DEF Emits
    <3>3. QED
      BY <3>1, <3>2, KeepLast
  <2>3. UNCHANGED <<conn, pump, listening, sensor, session, stopping, faults>>
    BY <1>1 DEF Emits, buttonVars
  <2>4. QED
    BY <2>1, <2>2, <2>3
<1>2. CASE Ring \/ RingEnds \/ OtherEvent
  BY <1>1, <1>2 DEF Ring, RingEnds, OtherEvent, Event
<1>3. Fault => faults' \in 0 .. MaxFaults
  BY HomeAssumption DEF Fault
<1>4. <<>> \in Seq(Event) /\ Len(<<>>) <= Capacity
  BY HomeAssumption
<1>5. CASE Connects \/ ConnectFails \/ ConnectHangs \/ Reconnects \/ SensorAdded
  BY <1>3, <1>5 DEF Connects, ConnectFails, ConnectHangs, Reconnects,
      SensorAdded, buttonVars
<1>6. CASE StreamDrops \/ StreamFallsSilent
  <2>1. missed' = (missed \/ HasRing(queue))
    BY <1>6 DEF StreamDrops, StreamFallsSilent
  <2>2. missed' \in BOOLEAN
    BY <2>1, Zenon
  <2>3. QED
    BY <1>3, <1>4, <1>6, <2>2 DEF StreamDrops, StreamFallsSilent, buttonVars
<1>7. CASE Dispatch
  <2>1. /\ queue # <<>> /\ queue' = Tail(queue)
        /\ Handle(Head(queue))
        /\ missed' = \/ missed
                     \/ ~listening /\ IsRing(Head(queue)) /\ ~HasRing(Tail(queue))
        /\ UNCHANGED <<door, conn, pump, listening, session, stopping, faults>>
    BY <1>7 DEF Dispatch, buttonVars
  <2>2. missed' \in BOOLEAN /\ sensor' \in BOOLEAN
    BY <2>1, Zenon DEF Handle
  <2>3. queue' \in Seq(Event) /\ Len(queue') <= Len(queue) /\ Len(queue) \in Nat
    BY <2>1
  <2>4. queue' = <<>> \/ conn = "up"
    BY <2>1
  <2>5. QED
    BY <2>1, <2>2, <2>3, <2>4, HomeAssumption
<1>8. CASE Reload
  BY <1>3, <1>4, <1>8 DEF Reload
<1>9. CASE \E t \in Token : TokenStep(t)
  BY <1>3, <1>9 DEF TokenStep, PressAnswer, Joins, Answered, AnswerFails, Reap,
                    eventVars
<1>10. CASE \E p \in Press : HangupStep(p)
  <2>1. PICK p \in Press : HangupStep(p)
    BY <1>10
  <2>2. CASE HangupArrives(p)
    <3>1. stopping' \in BOOLEAN
      BY <2>2, Zenon DEF HangupArrives
    <3>2. QED
      BY <2>2, <3>1 DEF HangupArrives, eventVars
  <2>3. CASE PressHangup(p) \/ HangupOver(p)
    <3>1. UNCHANGED <<eventVars, session, stopping, faults>>
      BY <2>3 DEF PressHangup, HangupOver
    <3>2. QED
      BY <3>1 DEF eventVars
  <2>4. CASE HangupFails(p)
    <3>1. Fault /\ UNCHANGED <<eventVars, session, stopping>>
      BY <2>4 DEF HangupFails
    <3>2. QED
      BY <1>3, <3>1 DEF eventVars
  <2>5. CASE DeleteArrives(p)
    BY <2>5 DEF DeleteArrives, eventVars
  <2>6. QED
    BY <2>1, <2>2, <2>3, <2>4, <2>5 DEF HangupStep
<1>11. CASE SessionStarts \/ SessionEnds \/ StopTaken
  BY <1>11 DEF SessionStarts, SessionEnds, StopTaken, eventVars
<1>12. CASE UNCHANGED homeVars
  BY <1>12 DEF homeVars, eventVars, buttonVars
<1>13. QED
  BY <1>2, <1>5, <1>6, <1>7, <1>8, <1>9, <1>10, <1>11, <1>12 DEF Next, EventStep

LEMMA InitEvents == Init => EventTypes
<1>1. <<>> \in Seq(Event) /\ Len(<<>>) <= Capacity /\ 0 \in 0 .. MaxFaults
  BY HomeAssumption
<1>2. QED
  BY <1>1 DEF Init, EventTypes

\* Every variable of the integration and of what it sees of the daemon keeps
\* to its values; the bus never holds more than its capacity.
THEOREM HomeTypeCorrect == Spec => []TypeOK
<1>1. Spec => [](TokensInv /\ EventTypes)
  BY InitEvents, InitTokens, NextTokens, EventTypesNext, PTL DEF Spec
<1>2. TokensInv /\ EventTypes => TypeOK
  BY DEF TokensInv, ButtonTypes, EventTypes, Event, Stage, Call, TypeOK
<1>3. QED
  BY <1>1, <1>2, PTL

\* No ring event follows the i-th event of a queue.
LastRing(es, i) == IsRing(es[i]) /\ \A j \in DOMAIN es : j > i => ~IsRing(es[j])

\* What makes RingSettles inductive: the last ring event on its way says what
\* the door does.
RingInv ==
    ~missed =>
        /\ ~HasRing(queue) => sensor = door
        /\ \A i \in DOMAIN queue : LastRing(queue, i) => (queue[i] = "ring") = door

LEMMA EmitsRing ==
    ASSUME EventTypes, RingInv, NEW e \in Event, Emits(e)
    PROVE  RingInv'
<1> DEFINE n == Len(queue')
<1>1. SUFFICES ASSUME ~missed'
               PROVE  /\ ~HasRing(queue') => sensor' = door'
                      /\ \A i \in DOMAIN queue' :
                           LastRing(queue', i) => (queue'[i] = "ring") = door'
  BY DEF RingInv
<1>2. sensor' = sensor
  BY DEF Emits
<1>3. CASE conn # "up"
  <2>1. ~missed /\ ~IsRing(e) /\ queue' = queue /\ door' = door
    BY <1>1, <1>3 DEF Emits
  <2>2. QED
    BY <1>2, <2>1 DEF RingInv
<1>4. CASE conn = "up"
  <2>0. /\ queue' = Keep(Append(queue, e))
        /\ queue \in Seq(Event) /\ Len(queue) <= Capacity
    BY <1>4 DEF Emits, EventTypes
  <2>1. /\ queue' \in Seq(Event) /\ Len(queue') > 0 /\ queue'[n] = e
        /\ \/ /\ Len(queue') = Len(queue) + 1
              /\ \A i \in 1 .. n - 1 : queue'[i] = queue[i]
           \/ /\ Len(queue') = Len(queue)
              /\ \A i \in 1 .. n - 1 : queue'[i] = queue[i + 1]
    BY <2>0, KeepLast
  <2>2. /\ n > 0 /\ queue'[n] = e /\ n \in Nat /\ Len(queue) \in Nat
        /\ DOMAIN queue' = 1 .. n /\ DOMAIN queue = 1 .. Len(queue)
    BY <2>0, <2>1
  <2> HIDE DEF n
  <2> DEFINE k == Len(queue) + 1 - n
  <2>3. /\ k \in {0, 1} /\ n + k = Len(queue) + 1
        /\ \A i \in 1 .. n - 1 : queue'[i] = queue[i + k]
    <3>1. CASE /\ n = Len(queue) + 1
               /\ \A i \in 1 .. n - 1 : queue'[i] = queue[i]
      <4>1. k = 0
        BY <2>2, <3>1
      <4>2. QED
        BY <2>2, <3>1, <4>1
    <3>2. CASE /\ n = Len(queue)
               /\ \A i \in 1 .. n - 1 : queue'[i] = queue[i + 1]
      <4>1. k = 1
        BY <2>2, <3>2
      <4>2. QED
        BY <2>2, <3>2, <4>1
    <3>3. QED
      BY <2>1, <3>1, <3>2 DEF n
  <2> HIDE DEF k
  <2>4. CASE IsRing(e)
    <3>1. door' = (e = "ring")
      BY <2>4 DEF Emits
    <3>2. HasRing(queue')
      BY <2>2, <2>4 DEF HasRing
    <3>3. \A i \in DOMAIN queue' : LastRing(queue', i) => i = n
      BY <2>2, <2>4 DEF LastRing
    <3>4. QED
      BY <2>2, <3>1, <3>2, <3>3
  <2>5. CASE ~IsRing(e)
    <3>1. ~missed /\ (HasRing(queue) => HasRing(queue')) /\ door' = door
      BY <1>1, <1>4, <2>5 DEF Emits
    <3>2. ASSUME NEW i \in DOMAIN queue', LastRing(queue', i)
          PROVE  (queue'[i] = "ring") = door'
      <4>1. i \in 1 .. n - 1 /\ i + k \in DOMAIN queue /\ queue'[i] = queue[i + k]
        <5>1. i \in 1 .. n /\ i # n
          BY <2>2, <2>5, <3>2 DEF LastRing
        <5>2. i \in 1 .. n - 1
          BY <2>2, <5>1
        <5>3. queue'[i] = queue[i + k]
          BY <2>3, <5>2
        <5>4. i + k \in 1 .. Len(queue)
          BY <2>2, <2>3, <5>2
        <5>5. QED
          BY <2>2, <5>2, <5>3, <5>4
      <4>2. ASSUME NEW j \in DOMAIN queue, j > i + k
            PROVE  ~IsRing(queue[j])
        <5>1. j - k \in 1 .. n - 1 /\ j - k > i /\ j - k + k = j
          BY <2>3, <2>2, <4>1, <4>2
        <5>2. queue'[j - k] = queue[j]
          BY <2>3, <5>1
        <5>3. QED
          BY <2>2, <3>2, <5>1, <5>2 DEF LastRing
      <4>3. LastRing(queue, i + k)
        BY <3>2, <4>1, <4>2 DEF LastRing
      <4>4. QED
        BY <3>1, <4>1, <4>3 DEF RingInv
    <3>3. QED
      BY <1>2, <3>1, <3>2 DEF RingInv
  <2>6. QED
    BY <2>4, <2>5
<1>5. QED
  BY <1>3, <1>4

LEMMA DispatchRing ==
    ASSUME EventTypes, RingInv, Dispatch
    PROVE  RingInv'
<1> DEFINE rest == Tail(queue)
           e    == Head(queue)
<1>1. SUFFICES ASSUME ~missed'
               PROVE  /\ ~HasRing(queue') => sensor' = door'
                      /\ \A i \in DOMAIN queue' :
                           LastRing(queue', i) => (queue'[i] = "ring") = door'
  BY DEF RingInv
<1>2. /\ queue' = rest /\ door' = door /\ ~missed
      /\ sensor' = IF listening /\ IsRing(e) THEN e = "ring" ELSE sensor
      /\ IsRing(e) /\ ~HasRing(rest) => listening
  BY <1>1, Zenon DEF Dispatch, Handle
<1>3. /\ rest \in Seq(Event) /\ Len(queue) \in Nat /\ Len(queue) > 0
      /\ Len(rest) = Len(queue) - 1 /\ e = queue[1]
      /\ DOMAIN rest = 1 .. Len(rest) /\ DOMAIN queue = 1 .. Len(queue)
      /\ \A i \in 1 .. Len(rest) : rest[i] = queue[i + 1]
  BY DEF Dispatch, EventTypes
<1> HIDE DEF rest, e
<1>4. ASSUME NEW i \in DOMAIN rest, LastRing(rest, i)
      PROVE  LastRing(queue, i + 1) /\ i + 1 \in DOMAIN queue
  <2>1. i + 1 \in DOMAIN queue /\ IsRing(queue[i + 1])
    BY <1>3, <1>4 DEF LastRing
  <2>2. ASSUME NEW j \in DOMAIN queue, j > i + 1
        PROVE  ~IsRing(queue[j])
    <3>1. j - 1 \in DOMAIN rest /\ j - 1 > i /\ rest[j - 1] = queue[j]
      BY <1>3, <2>2
    <3>2. QED
      BY <1>4, <3>1 DEF LastRing
  <2>3. QED
    BY <2>1, <2>2 DEF LastRing
<1>5. \A i \in DOMAIN rest : LastRing(rest, i) => (rest[i] = "ring") = door
  BY <1>2, <1>3, <1>4 DEF RingInv
<1>6. ASSUME ~HasRing(rest)
      PROVE  sensor' = door
  <2>1. \A j \in DOMAIN queue : j > 1 => ~IsRing(queue[j])
    <3> SUFFICES ASSUME NEW j \in DOMAIN queue, j > 1
                 PROVE  ~IsRing(queue[j])
      OBVIOUS
    <3>1. j - 1 \in DOMAIN rest /\ rest[j - 1] = queue[j]
      BY <1>3
    <3>2. QED
      BY <1>6, <3>1 DEF HasRing
  <2>2. CASE IsRing(e)
    <3>1. LastRing(queue, 1) /\ 1 \in DOMAIN queue
      BY <1>3, <2>1, <2>2 DEF LastRing
    <3>2. (e = "ring") = door
      BY <1>2, <1>3, <3>1 DEF RingInv
    <3>3. sensor' = (e = "ring")
      BY <1>2, <1>6, <2>2, Zenon
    <3>4. QED
      BY <3>2, <3>3, Zenon
  <2>3. CASE ~IsRing(e)
    <3>1. ~HasRing(queue)
      <4>1. \A j \in DOMAIN queue : ~IsRing(queue[j])
        BY <1>3, <2>1, <2>3
      <4>2. QED
        BY <4>1 DEF HasRing
    <3>2. sensor = door
      BY <1>2, <3>1 DEF RingInv
    <3>3. sensor' = sensor
      BY <1>2, <2>3, Zenon
    <3>4. QED
      BY <3>2, <3>3, Zenon
  <2>4. QED
    BY <2>2, <2>3
<1>7. QED
  BY <1>2, <1>5, <1>6

LEMMA NextRing == EventTypes /\ RingInv /\ [Next]_homeVars => RingInv'
<1> SUFFICES ASSUME EventTypes, RingInv, [Next]_homeVars
             PROVE  RingInv'
  OBVIOUS
<1>1. CASE Ring \/ RingEnds \/ OtherEvent
  BY <1>1, EmitsRing DEF Ring, RingEnds, OtherEvent, Event
<1>2. CASE Dispatch
  BY <1>2, DispatchRing
<1>3. CASE StreamDrops \/ StreamFallsSilent
  <2>1. /\ queue' = <<>> /\ UNCHANGED <<door, sensor>>
        /\ ~missed' => ~missed /\ ~HasRing(queue)
    BY <1>3 DEF StreamDrops, StreamFallsSilent
  <2>2. QED
    BY <2>1 DEF RingInv
<1>4. CASE Reload
  <2>1. queue' = <<>> /\ sensor' = FALSE /\ missed' = door /\ door' = door
    BY <1>4 DEF Reload
  <2>2. door \in BOOLEAN
    BY DEF EventTypes
  <2>3. ~missed' => sensor' = door'
    BY <2>1, <2>2
  <2>4. QED
    BY <2>1, <2>3 DEF RingInv
<1>5. CASE UNCHANGED <<door, queue, sensor, missed>>
  BY <1>5 DEF RingInv
<1>6. Connects \/ ConnectFails \/ ConnectHangs \/ Reconnects \/ SensorAdded
      => UNCHANGED <<door, queue, sensor, missed>>
  BY DEF Connects, ConnectFails, ConnectHangs, Reconnects,
      SensorAdded
<1>7. (\E t \in Token : TokenStep(t)) => UNCHANGED <<door, queue, sensor, missed>>
  BY DEF TokenStep, PressAnswer, Joins, Answered, AnswerFails, Reap, eventVars
<1>8. (\E p \in Press : HangupStep(p)) => UNCHANGED <<door, queue, sensor, missed>>
  BY DEF HangupStep, PressHangup, DeleteArrives, HangupArrives, HangupOver,
         HangupFails, eventVars
<1>9. SessionStarts \/ SessionEnds \/ StopTaken \/ UNCHANGED homeVars
      => UNCHANGED <<door, queue, sensor, missed>>
  BY DEF SessionStarts, SessionEnds, StopTaken, homeVars, eventVars
<1>10. QED
  BY <1>1, <1>2, <1>3, <1>4, <1>5, <1>6, <1>7, <1>8, <1>9 DEF Next, EventStep

\* Whatever happens to the stream, the ring sensor shows the door as soon as
\* no ring event is on its way, unless the last one was lost for good.
THEOREM RingSettlesHolds == Spec => []RingSettles
<1>1. Init => EventTypes /\ RingInv
  <2>1. Init => queue = <<>> /\ sensor = door
    BY DEF Init
  <2>2. ASSUME queue = <<>>
        PROVE  DOMAIN queue = {}
    BY <2>2
  <2>3. QED
    BY <2>1, <2>2, InitEvents DEF RingInv
<1>2. Spec => []RingInv
  BY <1>1, EventTypesNext, NextRing, PTL DEF Spec
<1>3. RingInv => RingSettles
  BY DEF RingInv, RingSettles
<1>4. QED
  BY <1>2, <1>3, PTL
=============================================================================
