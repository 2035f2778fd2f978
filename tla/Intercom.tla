------------------------------ MODULE Intercom ------------------------------
(***************************************************************************)
(* The stream consumers of the HTTP API (GET /stream/video) on top of      *)
(* MonitorSession: opening a camera view may start a session, and closing  *)
(* one may end it after a grace period.  The two sides share the MediaHub  *)
(* and the command channel.                                                *)
(***************************************************************************)
EXTENDS MonitorSession

CONSTANT Viewer    \* stream requests; an id is used again once it is over

VARIABLES
    consumers,  \* hub.stream_consumers
    guard       \* where each request's ConsumerGuard is

intercomVars == <<vars, consumers, guard>>

IntercomInit ==
    /\ Init
    /\ consumers = 0
    /\ guard = [v \in Viewer |-> "none"]

Move(v, from, to) ==
    /\ pump # "exited"
    /\ guard[v] = from
    /\ guard' = [guard EXCEPT ![v] = to]

\* Counted under the hub's lock: a session is to be started only if nobody
\* watched and no context is registered.
Attach(v) ==
    /\ HubFree
    /\ Move(v, "none",
            IF consumers = 0 /\ outbound = None THEN "starting" ELSE "held")
    /\ consumers' = consumers + 1
    /\ UNCHANGED vars

\* cmd_tx.try_send(StartMonitor), the lock released: a full channel drops
\* the command.  Bound: so does a session budget that is spent.
TryStart(v) ==
    /\ Move(v, "starting", "held")
    /\ IF StartsLeft /\ HasRoom THEN Post("start") ELSE UNCHANGED cmdq
    /\ UNCHANGED <<consumers, pumpVars, wireVars, bornVars, pending, taskVars,
                   stop, hubVars, envVars>>

\* The response stream is dropped; its guard spawns the task below.
Leave(v) ==
    /\ Move(v, "held", "dropped")
    /\ UNCHANGED <<vars, consumers>>

\* Faulty variant: the count is taken down when the grace period is over.
DecrementLate(v) ==
    /\ HubFree
    /\ Move(v, "dropped", "grace")
    /\ UNCHANGED <<vars, consumers>>

Decrement(v) ==
    /\ HubFree
    /\ Move(v, "dropped", "grace")
    /\ consumers' = IF consumers > 0 THEN consumers - 1 ELSE consumers
    /\ UNCHANGED vars

\* Faulty variant: the count is read as if the guard still held its share.
GraceOverCountsSelf(v) ==
    /\ HubFree
    /\ Move(v, "grace",
            IF consumers = 1 /\ talkers = {} /\ outbound # None
              THEN "stopping" ELSE "none")
    /\ UNCHANGED <<vars, consumers>>

\* Thirty seconds later, under the hub's lock: is everything idle?
GraceOver(v) ==
    /\ HubFree
    /\ Move(v, "grace",
            IF consumers = 0 /\ talkers = {} /\ outbound # None
              THEN "stopping" ELSE "none")
    /\ UNCHANGED <<vars, consumers>>

\* The StopMonitor goes out after the lock was released.
TearDown(v) ==
    /\ Move(v, "stopping", "none")
    /\ Post("stop")
    /\ UNCHANGED <<consumers, pumpVars, wireVars, bornVars, pending, taskVars,
                   stop, hubVars, envVars>>

ViewerStep(v) ==
    \/ Attach(v) \/ TryStart(v) \/ Leave(v)
    \/ Decrement(v) \/ GraceOver(v) \/ TearDown(v)

IntercomNext ==
    \/ Next /\ UNCHANGED <<consumers, guard>>
    \/ \E v \in Viewer : ViewerStep(v)

IntercomSpec == IntercomInit /\ [][IntercomNext]_intercomVars

\* Fairness as in MonitorSession, and of the guard's spawned task: tokio runs
\* it, its sleep ends, and a send that awaits room in the channel gets its
\* turn (the channel serves its waiters in order, hence SF).
IntercomFairSpec ==
    /\ IntercomSpec
    /\ Fairness
    /\ \A v \in Viewer :
         /\ WF_intercomVars(TryStart(v) \/ Decrement(v) \/ GraceOver(v))
         /\ SF_intercomVars(TearDown(v))

-----------------------------------------------------------------------------
\* Every request counts once from its attach to its guard's decrement, so
\* the count falls to zero exactly when the last of them is gone.
ConsumersCounted ==
    consumers =
        Cardinality({v \in Viewer : guard[v] \in {"starting", "held", "dropped"}})

\* The session whose context is registered lost its connection, and with it
\* the only sender that could stop it.
Orphaned == outbound # None /\ stop[outbound] = "dropped"

\* A preview that a viewer leaves, with nobody else watching or talking, is
\* torn down after the grace period, also across a reconnect; the one that
\* nothing can stop any more is a session whose connection was lost under it.
LeftPreviewEnds ==
    (\E v \in Viewer : guard[v] = "grace") /\ outbound # None
        ~> \/ outbound = None \/ consumers > 0 \/ talkers # {}
           \/ Orphaned \/ pump = "exited"

-----------------------------------------------------------------------------
\* "until stop / idle teardown": a session nobody watches or talks on is torn
\* down, a ring's preview included.
IdlePreviewEnds ==
    outbound # None /\ consumers = 0 /\ talkers = {}
        ~> \/ outbound = None \/ consumers > 0 \/ talkers # {}
           \/ pump = "exited"
=============================================================================
