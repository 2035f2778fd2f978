--------------------------- MODULE Intercom_proofs ---------------------------
(***************************************************************************)
(* Theorems of Intercom, for any number of viewers: the count of stream    *)
(* consumers is right, and to the monitor sessions the viewers are clients *)
(* like any other, so that what MonitorSession_proofs shows of them holds  *)
(* with viewers that come and go.                                          *)
(***************************************************************************)
EXTENDS Intercom, MonitorSession_proofs, FiniteSetTheorems

-----------------------------------------------------------------------------
(* The count of consumers.                                                 *)

\* Where a guard can be, and where it counts.
Places  == {"none", "starting", "held", "dropped", "grace", "stopping"}
Counted == {"starting", "held", "dropped"}

Holders == {v \in Viewer : guard[v] \in Counted}

CountInv ==
    /\ guard \in [Viewer -> Places]
    /\ IsFiniteSet(Holders)
    /\ consumers = Cardinality(Holders)

\* A guard that moves counts for one, before it and after it.
LEMMA MoveHolders ==
    ASSUME CountInv, NEW v \in Viewer,
           NEW from, NEW to \in Places,
           Move(v, from, to)
    PROVE  /\ guard' \in [Viewer -> Places]
           /\ v \in Holders <=> from \in Counted
           /\ Holders' = IF to \in Counted THEN Holders \cup {v}
                                                       ELSE Holders \ {v}
<1> USE DEF Places, Counted
<1>1. guard[v] = from /\ guard' = [guard EXCEPT ![v] = to]
  BY DEF Move
<1>2. guard'[v] = to /\ \A w \in Viewer : w # v => guard'[w] = guard[w]
  BY <1>1 DEF CountInv
<1>3. guard' \in [Viewer -> Places]
  BY <1>1 DEF CountInv
<1>4. v \in Holders <=> from \in Counted
  BY <1>1 DEF Holders
<1>5. CASE to \in Counted
  BY <1>2, <1>3, <1>4, <1>5 DEF Holders
<1>6. CASE to \notin Counted
  BY <1>2, <1>3, <1>4, <1>6 DEF Holders
<1>7. QED
  BY <1>5, <1>6

LEMMA CountStep == CountInv /\ [IntercomNext]_intercomVars => CountInv'
<1> SUFFICES ASSUME CountInv, [IntercomNext]_intercomVars
             PROVE  CountInv'
  OBVIOUS
<1> USE DEF Places, Counted
<1>1. IsFiniteSet(Holders) /\ consumers = Cardinality(Holders)
      /\ Cardinality(Holders) \in Nat
  BY FS_CardinalityType DEF CountInv
<1>2. CASE UNCHANGED <<consumers, guard>>
  BY <1>2 DEF CountInv, Holders
<1>3. ASSUME NEW v \in Viewer, Attach(v)
      PROVE  CountInv'
  <2>1. PICK to \in {"starting", "held"} :
          Move(v, "none", to) /\ consumers' = consumers + 1
    BY <1>3 DEF Attach
  <2>2. v \notin Holders /\ Holders' = Holders \cup {v}
    BY <2>1, MoveHolders
  <2>3. IsFiniteSet(Holders') /\ Cardinality(Holders') = Cardinality(Holders) + 1
    BY <1>1, <2>2, FS_AddElement
  <2>4. QED
    BY <1>1, <2>1, <2>3, MoveHolders DEF CountInv
<1>4. ASSUME NEW v \in Viewer, TryStart(v) \/ Leave(v)
      PROVE  CountInv'
  <2>1. PICK from \in {"starting", "held"}, to \in {"held", "dropped"} :
          Move(v, from, to) /\ consumers' = consumers
    BY <1>4 DEF TryStart, Leave
  <2>2. Holders' = Holders
    BY <2>1, MoveHolders
  <2>3. QED
    BY <1>1, <2>1, <2>2, MoveHolders DEF CountInv
<1>5. ASSUME NEW v \in Viewer, Decrement(v)
      PROVE  CountInv'
  <2>1. /\ Move(v, "dropped", "grace")
        /\ consumers' = IF consumers > 0 THEN consumers - 1 ELSE consumers
    BY <1>5 DEF Decrement
  <2>2. v \in Holders /\ Holders' = Holders \ {v}
    BY <2>1, MoveHolders
  <2>3. IsFiniteSet(Holders') /\ Cardinality(Holders') = Cardinality(Holders) - 1
    BY <1>1, <2>2, FS_RemoveElement
  <2>4. Cardinality(Holders') \in Nat
    BY <2>3, FS_CardinalityType
  <2>5. consumers' = Cardinality(Holders')
    BY <1>1, <2>1, <2>3, <2>4
  <2>6. QED
    BY <2>1, <2>3, <2>5, MoveHolders DEF CountInv
<1>6. ASSUME NEW v \in Viewer, GraceOver(v) \/ TearDown(v)
      PROVE  CountInv'
  <2>1. PICK from \in {"grace", "stopping"}, to \in {"none", "stopping"} :
          Move(v, from, to) /\ consumers' = consumers
    BY <1>6 DEF GraceOver, TearDown
  <2>2. Holders' = Holders \ {v} /\ v \notin Holders
    BY <2>1, MoveHolders
  <2>3. QED
    BY <1>1, <2>1, <2>2, MoveHolders DEF CountInv
<1>7. QED
  BY <1>2, <1>3, <1>4, <1>5, <1>6 DEF IntercomNext, ViewerStep, intercomVars

\* However many requests come, leave and are used again, and whatever the
\* sessions do meanwhile, hub.stream_consumers is the number of requests whose
\* guard has not taken it down.
THEOREM ConsumersCountedHolds == IntercomSpec => []ConsumersCounted
<1>1. IntercomInit => CountInv
  <2> SUFFICES ASSUME IntercomInit
               PROVE  CountInv
    OBVIOUS
  <2>1. Holders = {}
    BY DEF IntercomInit, Holders, Counted
  <2>2. QED
    BY <2>1, FS_EmptySet DEF IntercomInit, CountInv, Places
<1>2. CountInv => ConsumersCounted
  BY DEF CountInv, ConsumersCounted, Holders, Counted
<1>3. QED
  BY <1>1, <1>2, CountStep, PTL DEF IntercomSpec

-----------------------------------------------------------------------------
(* Viewers are clients of the monitor sessions.                            *)

LEMMA ViewerIsClient ==
    ASSUME NEW v \in Viewer, ViewerStep(v)
    PROVE  [Next]_vars
<1> USE DEF vars
<1>1. CASE TryStart(v)
  <2>1. UNCHANGED <<pumpVars, wireVars, bornVars, pending, taskVars, stop,
                    hubVars, envVars>>
    BY <1>1 DEF TryStart
  <2>2. (StartsLeft /\ Post("start")) \/ UNCHANGED cmdq
    BY <1>1 DEF TryStart
  <2>3. CASE StartsLeft /\ Post("start")
    BY <2>1, <2>3 DEF PostMonitor, Clients, Next
  <2>4. CASE UNCHANGED cmdq
    BY <2>1, <2>4
  <2>5. QED
    BY <2>2, <2>3, <2>4
<1>2. CASE Attach(v) \/ Leave(v) \/ Decrement(v) \/ GraceOver(v)
  BY <1>2 DEF Attach, Leave, Decrement, GraceOver
<1>3. CASE TearDown(v)
  BY <1>3 DEF TearDown, DeleteMonitor, Clients, Next
<1>4. QED
  BY <1>1, <1>2, <1>3 DEF ViewerStep

\* What the viewers do to the daemon, POST /monitor and DELETE /monitor do
\* too: with viewers the sessions still behave as MonitorSession says.
THEOREM ViewersAreClients == IntercomSpec => Spec
<1>1. IntercomInit => Init
  BY DEF IntercomInit
<1>2. [IntercomNext]_intercomVars => [Next]_vars
  BY ViewerIsClient DEF IntercomNext, intercomVars
<1>3. QED
  BY <1>1, <1>2, PTL DEF IntercomSpec, Spec

\* So nothing that viewers do leaves a context or a phase behind the last
\* session, ends a session cleanly without a stop, lets one run that the pump
\* cannot stop, or starts a second one on its connection.
THEOREM SessionsSafeWithViewers ==
    IntercomSpec =>
        [](HubQuiet /\ OkOnlyAfterStop /\ Unstopped /\ NoCallLeftOpen /\ OneEach)
BY ViewersAreClients, HubFallsQuiet, CleanEndNeedsStop, UnstoppedIsActive,
   NoCallStaysOpen, OneSessionPerConnection, PTL
=============================================================================
