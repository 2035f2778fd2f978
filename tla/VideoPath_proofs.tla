-------------------------- MODULE VideoPath_proofs --------------------------
(***************************************************************************)
(* Theorems of VideoPath, for any number of requests and units, any        *)
(* capacity and any faults: the types, what a request leaves behind, and   *)
(* that what a viewer's ffmpeg is given implements NalStream.              *)
(*                                                                         *)
(* The last one rests on the order of what is on its way.  Its stages are  *)
(* the units handed out (Given), the unit under assembly (fuaBuffer) and   *)
(* the packets in flight (net).  A later stage carries later units, except *)
(* for two units that are both hurt; and a unit that is not hurt is        *)
(* complete, in one of the stages or shared between the last two.          *)
(***************************************************************************)
EXTENDS VideoPath, SequenceTheorems, TLAPS

-----------------------------------------------------------------------------
(* The shapes of what travels.                                             *)

Pieces == Nat \X Nat

Units == Seq(Pieces) \ {<<>>}

PacketShape ==
    [kind : {"challenge", "odd", "nal", "stap", "fua"}, units : Seq(Nat),
     part : Nat, start : BOOLEAN, end : BOOLEAN]

\* The packets the base makes.
Made(p) ==
    \/ p.kind = "challenge" /\ p = Challenge
    \/ p.kind = "odd" /\ p.units = <<>>
    \/ p.kind = "nal" /\ Len(p.units) = 1 /\ p.part = 1
    \/ /\ p.kind = "stap" /\ Len(p.units) = 2 /\ p.part = 1
       /\ p.units[1] < p.units[2]
    \/ /\ p.kind = "fua" /\ Len(p.units) = 1 /\ p.part \in 1 .. 3
       /\ p.start = (p.part = 1) /\ p.end = (p.part = 3)

Packets == {p \in PacketShape : Made(p)}

PathType ==
    /\ frames \in Seq(1 .. 3) /\ Sent <= MaxUnits
    /\ base \in {"asleep", "asking", "sending"}
    /\ net \in Seq(Packets) /\ Len(net) <= Backlog + 3 + faults
    /\ faults \in 0 .. MaxFaults
    /\ loop \in BOOLEAN
    /\ fuaBuffer \in Seq(Pieces) /\ inFua = (fuaBuffer # <<>>)
    /\ ~loop => fuaBuffer = <<>>
    /\ out \in Seq(Units) /\ log \in Seq(Units)

ViewType ==
    /\ request \in [Request -> {"none", "making", "streaming", "over"}]
    /\ fifo \in [Request -> BOOLEAN]
    /\ ffmpeg \in [Request -> {"none", "video", "both", "dead"}]
    /\ videoFeed \in [Request -> {"none", "recv", "done"}]
    /\ audioFeed \in [Request ->
           {"none", "spawned", "opening", "pumping", "done", "stuck"}]
    /\ cursor \in [Request -> Nat]
    /\ missed \in [Request -> SUBSET Nat]
    /\ wrote \in [Request -> Seq(Units)]
    /\ \A q \in Request : cursor[q] <= Len(log) /\ Len(wrote[q]) <= cursor[q]

\* What a request holds, by where it is.
PipeInv ==
    \A q \in Request :
        /\ request[q] \in {"none", "making"} => ffmpeg[q] = "none" /\ ~fifo[q]
        /\ request[q] = "over" =>
             /\ ffmpeg[q] \in {"none", "dead"}
             /\ fifo[q] => ffmpeg[q] = "none"

-----------------------------------------------------------------------------
(* The order of what travels.                                              *)

\* Units u and w are not both among the hurt ones, h.
Clean(h, u, w) == u \notin h \/ w \notin h

Before(h, d, u, w) == (u # w \/ u \in d) /\ (Clean(h, u, w) => u < w)

\* What packet p carries comes after the pieces first..last of unit u.
After(h, d, p, u, first, last) ==
    \A j \in DOMAIN p.units :
        /\ Clean(h, u, p.units[j]) =>
             u < p.units[j] \/ (u = p.units[j] /\ last < p.part)
        /\ first = 1 /\ p.part = 1 => u # p.units[j] \/ u \in d

\* The units handed out, in order.
Given == log \o out

\* Only units that were sent are on their way, cut as the base cut them.
NetCut ==
    \A i \in DOMAIN net : \A j \in DOMAIN net[i].units :
        /\ net[i].units[j] \in 1 .. Sent
        /\ frames[net[i].units[j]] = IF net[i].kind = "fua" THEN 3 ELSE 1

CutInv ==
    /\ hurt \subseteq 1 .. Sent /\ twice \subseteq hurt
    /\ NetCut
    /\ \A k \in DOMAIN fuaBuffer : fuaBuffer[k][1] \in 1 .. Sent
    /\ \A i \in DOMAIN Given : \A k \in DOMAIN Given[i] : Given[i][k][1] \in 1 .. Sent

NetOrder ==
    \A i, j \in DOMAIN net : i < j =>
        \A m \in DOMAIN net[i].units :
            After(hurt, twice, net[j], net[i].units[m], net[i].part, net[i].part)

FuaOrder ==
    fuaBuffer # <<>> =>
        \A j \in DOMAIN net : After(hurt, twice, net[j], Unit(fuaBuffer), 1, Len(fuaBuffer))

GivenOrder ==
    \A i, j \in DOMAIN Given : i < j => Before(hurt, twice, Unit(Given[i]), Unit(Given[j]))

GivenFua ==
    fuaBuffer # <<>> =>
        \A i \in DOMAIN Given : Before(hurt, twice, Unit(Given[i]), Unit(fuaBuffer))

GivenNet ==
    \A i \in DOMAIN Given, j \in DOMAIN net :
        After(hurt, twice, net[j], Unit(Given[i]), 1, 3)

OrderInv == NetOrder /\ FuaOrder /\ GivenOrder /\ GivenFua /\ GivenNet

\* The unit under assembly has lost nothing so far.
FuaWhole ==
    fuaBuffer # <<>> /\ Unit(fuaBuffer) \notin hurt =>
        /\ frames[Unit(fuaBuffer)] = 3 /\ Len(fuaBuffer) < 3
        /\ \A i \in DOMAIN fuaBuffer : fuaBuffer[i] = <<Unit(fuaBuffer), i>>

GivenWhole == \A i \in DOMAIN Given : Unit(Given[i]) \notin hurt => Whole(Given[i])

Carries(p, u) == \E j \in DOMAIN p.units : p.units[j] = u

\* Piece k of unit u is in flight.
Coming(ns, u, k) == \E i \in DOMAIN ns : ns[i].part = k /\ Carries(ns[i], u)

Arrived(u) == \E i \in DOMAIN Given : Unit(Given[i]) = u

Assembled(u) ==
    /\ fuaBuffer # <<>> /\ Unit(fuaBuffer) = u
    /\ \A k \in (Len(fuaBuffer) + 1) .. frames[u] : Coming(net, u, k)

OnTheWay(u) == \A k \in 1 .. frames[u] : Coming(net, u, k)

NoneLost == \A u \in (1 .. Sent) \ hurt : Arrived(u) \/ Assembled(u) \/ OnTheWay(u)

WholeInv == FuaWhole /\ GivenWhole /\ NoneLost

\* A receiver has passed on what it went by, or counts it as missed.
ViewInv ==
    \A q \in Request :
        /\ request[q] = "none" => missed[q] = {} /\ cursor[q] = 0
        /\ request[q] \in {"none", "making"} => videoFeed[q] = "none"
        /\ videoFeed[q] # "done" =>
             \A i \in 1 .. cursor[q] :
                 \/ Unit(log[i]) \in missed[q]
                 \/ \E j \in DOMAIN wrote[q] : Unit(wrote[q][j]) = Unit(log[i])
        /\ \A j \in DOMAIN wrote[q] : \E i \in 1 .. cursor[q] : wrote[q][j] = log[i]

-----------------------------------------------------------------------------
(* What a request leaves behind.                                           *)

\* A step of a request leaves the others' pipelines as they were.
LEMMA PipeStep ==
    ASSUME ViewType, PipeInv, [Next]_videoVars
    PROVE  PipeInv'
<1> USE DEF ViewType, PipeInv
<1>1. CASE UNCHANGED pipeVars
  BY <1>1 DEF pipeVars
<1>2. CASE UNCHANGED videoVars
  BY <1>1, <1>2 DEF videoVars
<1>3. CASE BaseStep
  BY <1>1, <1>3 DEF BaseStep, BaseSendsSingle, BaseSendsAggregate,
     BaseSendsFragments, BaseSendsOdd, BaseSends, BaseAsks
<1>4. CASE NetStep
  BY <1>1, <1>4 DEF NetStep, Lose, Displace, Double
<1>5. CASE LoopStep
  BY <1>1, <1>5 DEF LoopStep, LoopStarts, Keepalive, LoopEnds, ReceiveMedia,
     AnswerChallenge, FanOut
<1>6. ASSUME NEW q \in Request, FeederStep(q)
      PROVE  UNCHANGED <<request, fifo, ffmpeg>>
  BY <1>6 DEF FeederStep, Feed, FeedBreaks, Lags, OpenFifo, AudioBreaks, pipeVars
<1>7. ASSUME NEW q \in Request, RequestStep(q)
      PROVE  PipeInv'
  <2>1. CASE Attach(q)
    BY <2>1 DEF Attach, Move
  <2>2. CASE PipelineFails(q)
    BY <2>2 DEF PipelineFails, Move
  <2>3. CASE GivesUp(q)
    BY <2>3 DEF GivesUp, Move
  <2>4. CASE PipelineStarts(q)
    BY <2>4 DEF PipelineStarts, Move
  <2>5. CASE FfmpegOpensFifo(q)
    BY <2>5 DEF FfmpegOpensFifo
  <2>6. CASE FfmpegExits(q)
    BY <2>6 DEF FfmpegExits
  <2>7. CASE ClientLeaves(q)
    BY <2>7 DEF ClientLeaves, Move
  <2>8. CASE StreamEnds(q)
    BY <2>8 DEF StreamEnds, Move
  <2>9. QED
    BY <1>7, <2>1, <2>2, <2>3, <2>4, <2>5, <2>6, <2>7, <2>8 DEF RequestStep
<1>8. QED
  BY <1>2, <1>3, <1>4, <1>5, <1>6, <1>7 DEF Next

-----------------------------------------------------------------------------
(* The types.                                                              *)

LEMMA InitType == Init => PathType /\ ViewType /\ PipeInv
<1> SUFFICES ASSUME Init
             PROVE  PathType /\ ViewType /\ PipeInv
  OBVIOUS
<1>1. Len(frames) = 0 /\ Len(net) = 0 /\ Len(log) = 0
  BY DEF Init
<1>2. PathType
  <2>1. inFua = (fuaBuffer # <<>>)
    BY DEF Init
  <2>2. MaxUnits \in Nat /\ Backlog \in Nat /\ MaxFaults \in Nat
    BY VideoAssumption
  <2>3. /\ frames \in Seq(1 .. 3) /\ net \in Seq(Packets)
        /\ fuaBuffer \in Seq(Pieces) /\ out \in Seq(Units) /\ log \in Seq(Units)
    BY DEF Init
  <2>4. /\ base \in {"asleep", "asking", "sending"} /\ loop \in BOOLEAN
        /\ faults = 0 /\ fuaBuffer = <<>>
    BY DEF Init
  <2>5. QED
    BY <1>1, <2>1, <2>2, <2>3, <2>4 DEF PathType, Sent
<1>3. ViewType
  BY <1>1 DEF Init, ViewType
<1>4. PipeInv
  BY DEF Init, PipeInv
<1>5. QED
  BY <1>2, <1>3, <1>4

\* What the base puts on the way.
LEMMA BaseType ==
    ASSUME PathType, BaseStep
    PROVE  /\ PathType'
           /\ UNCHANGED <<faults, hurt, twice, loop, fuaBuffer, inFua, out, log>>
           /\ UNCHANGED <<pipeVars, feedVars>>
<1>1. UNCHANGED <<faults, hurt, twice, loop, fuaBuffer, inFua, out, log, pipeVars, feedVars, base>>
  BY DEF BaseStep, BaseSendsSingle, BaseSendsAggregate, BaseSendsFragments,
     BaseSendsOdd, BaseSends, BaseAsks, loopVars, baseVars
<1>2. ASSUME NEW packets \in Seq(Packets), Len(packets) <= 3, Goes(packets)
      PROVE  net' \in Seq(Packets) /\ Len(net') <= Backlog + 3 + faults
  BY <1>2, VideoAssumption, ConcatProperties DEF Goes, PathType
<1>3. ASSUME NEW pieces \in Seq(1 .. 3), NEW packets \in Seq(Packets),
             Len(packets) <= 3, BaseSends(pieces, packets)
      PROVE  PathType'
  <2>1. net' \in Seq(Packets) /\ Len(net') <= Backlog + 3 + faults
    BY <1>2, <1>3 DEF BaseSends
  <2>2. frames' \in Seq(1 .. 3) /\ Len(frames') = Len(frames) + Len(pieces)
    BY <1>3, ConcatProperties DEF BaseSends, PathType
  <2>3. Len(frames') <= MaxUnits
    BY <1>3, <2>2 DEF BaseSends, Sent
  <2>4. QED
    BY <1>1, <2>1, <2>2, <2>3 DEF PathType, Sent
<1>4. Sent \in Nat
  BY LenProperties DEF PathType, Sent
<1> DEFINE Fragment(i) == Packet("fua", <<Sent + 1>>, i, 3)
           Fragments == [i \in 1 .. 3 |-> Fragment(i)]
<1>5. /\ Packet("nal", <<Sent + 1>>, 1, 1) \in Packets
      /\ Packet("stap", <<Sent + 1, Sent + 2>>, 1, 1) \in Packets
      /\ Packet("odd", <<>>, 1, 1) \in Packets
      /\ Challenge \in Packets
  BY <1>4 DEF Packet, Packets, PacketShape, Made, Challenge
<1>6. \A i \in 1 .. 3 : Fragment(i) \in Packets
  BY <1>4 DEF Packet, Packets, PacketShape, Made
<1>7. Fragments \in Seq(Packets) /\ Len(Fragments) = 3
  <2>1. Fragments \in [1 .. 3 -> Packets]
    BY <1>6
  <2>2. QED
    BY <2>1, SeqDef, LenProperties
<1>8. CASE BaseSendsSingle
  <2> DEFINE pieces == <<1>>
             packets == <<Packet("nal", <<Sent + 1>>, 1, 1)>>
  <2>1. pieces \in Seq(1 .. 3) /\ packets \in Seq(Packets) /\ Len(packets) <= 3
    BY <1>5
  <2>2. BaseSends(pieces, packets)
    BY <1>8 DEF BaseSendsSingle
  <2> HIDE DEF pieces, packets
  <2>3. QED
    BY <1>1, <1>3, <2>1, <2>2
<1>9. CASE BaseSendsAggregate
  <2> DEFINE pieces == <<1, 1>>
             packets == <<Packet("stap", <<Sent + 1, Sent + 2>>, 1, 1)>>
  <2>1. pieces \in Seq(1 .. 3) /\ packets \in Seq(Packets) /\ Len(packets) <= 3
    BY <1>5
  <2>2. BaseSends(pieces, packets)
    BY <1>9 DEF BaseSendsAggregate
  <2> HIDE DEF pieces, packets
  <2>3. QED
    BY <1>1, <1>3, <2>1, <2>2
<1>10. CASE BaseSendsFragments
  <2> DEFINE pieces == <<3>>
  <2>1. pieces \in Seq(1 .. 3) /\ Len(Fragments) <= 3
    BY <1>7
  <2>2. BaseSends(pieces, Fragments)
    BY <1>10 DEF BaseSendsFragments
  <2> HIDE DEF Fragments, pieces
  <2>3. QED
    BY <1>1, <1>3, <1>7, <2>1, <2>2
<1>11. CASE BaseSendsOdd
  <2> DEFINE pieces == <<>>
             packets == <<Packet("odd", <<>>, 1, 1)>>
  <2>1. pieces \in Seq(1 .. 3) /\ packets \in Seq(Packets) /\ Len(packets) <= 3
    BY <1>5
  <2>2. BaseSends(pieces, packets)
    BY <1>11 DEF BaseSendsOdd
  <2> HIDE DEF pieces, packets
  <2>3. QED
    BY <1>1, <1>3, <2>1, <2>2
<1>12. CASE BaseAsks
  <2>1. <<Challenge>> \in Seq(Packets) /\ Len(<<Challenge>>) <= 3
    BY <1>5
  <2>2. net' \in Seq(Packets) /\ Len(net') <= Backlog + 3 + faults
    BY <1>2, <1>12, <2>1 DEF BaseAsks
  <2>3. QED
    BY <1>1, <1>12, <2>2 DEF BaseAsks, baseVars, PathType, Sent
<1>13. QED
  BY <1>1, <1>8, <1>9, <1>10, <1>11, <1>12 DEF BaseStep, loopVars

\* t is s without its element i.
Without(s, t, i) ==
    /\ Len(t) = Len(s) - 1
    /\ \A k \in 1 .. Len(t) : t[k] = IF k < i THEN s[k] ELSE s[k + 1]

\* t is s with its elements i and i + 1 in each other's place.
Swapped(s, t, i) ==
    /\ Len(t) = Len(s)
    /\ t[i] = s[i + 1] /\ t[i + 1] = s[i]
    /\ \A k \in 1 .. Len(s) : k \notin {i, i + 1} => t[k] = s[k]

LEMMA CutOut ==
    ASSUME NEW S, NEW s \in Seq(S), NEW i \in 1 .. Len(s)
    PROVE  /\ SubSeq(s, 1, i - 1) \o SubSeq(s, i + 1, Len(s)) \in Seq(S)
           /\ Without(s, SubSeq(s, 1, i - 1) \o SubSeq(s, i + 1, Len(s)), i)
<1> DEFINE a == SubSeq(s, 1, i - 1)
           b == SubSeq(s, i + 1, Len(s))
<1>1. Len(s) \in Nat /\ \A k \in 1 .. Len(s) : s[k] \in S
  BY LenProperties, ElementOfSeq
<1>2. a \in Seq(S) /\ Len(a) = i - 1 /\ \A k \in 1 .. (i - 1) : a[k] = s[k]
  <2>1. \A k \in 1 .. (i - 1) : s[k] \in S
    BY <1>1
  <2>2. /\ a \in Seq(S) /\ Len(a) = IF 1 <= i - 1 THEN i - 1 - 1 + 1 ELSE 0
        /\ \A k \in 1 .. (i - 1 - 1 + 1) : a[k] = s[1 + k - 1]
    BY <2>1, SubSeqProperties
  <2> HIDE DEF a
  <2>3. QED
    BY <1>1, <2>2
<1>3. b \in Seq(S) /\ Len(b) = Len(s) - i /\ \A k \in 1 .. (Len(s) - i) : b[k] = s[i + k]
  <2>1. \A k \in (i + 1) .. Len(s) : s[k] \in S
    BY <1>1
  <2>2. /\ b \in Seq(S)
        /\ Len(b) = IF i + 1 <= Len(s) THEN Len(s) - (i + 1) + 1 ELSE 0
        /\ \A k \in 1 .. (Len(s) - (i + 1) + 1) : b[k] = s[(i + 1) + k - 1]
    BY <1>1, <2>1, SubSeqProperties
  <2> HIDE DEF b
  <2>3. QED
    BY <1>1, <2>2
<1> HIDE DEF a, b
<1>4. /\ a \o b \in Seq(S) /\ Len(a \o b) = Len(s) - 1
      /\ \A k \in 1 .. (Len(s) - 1) : (a \o b)[k] = IF k <= i - 1 THEN a[k] ELSE b[k - (i - 1)]
  <2>1. /\ a \o b \in Seq(S) /\ Len(a \o b) = Len(a) + Len(b)
        /\ \A k \in 1 .. (Len(a) + Len(b)) :
              (a \o b)[k] = IF k <= Len(a) THEN a[k] ELSE b[k - Len(a)]
    BY <1>2, <1>3, ConcatProperties
  <2>2. Len(a) = i - 1 /\ Len(a) + Len(b) = Len(s) - 1
    BY <1>1, <1>2, <1>3
  <2>3. QED
    BY <2>1, <2>2
<1>5. ASSUME NEW k \in 1 .. (Len(s) - 1)
      PROVE  (a \o b)[k] = IF k < i THEN s[k] ELSE s[k + 1]
  <2>1. CASE k < i
    BY <1>1, <1>2, <1>4, <2>1
  <2>2. CASE ~(k < i)
    <3>1. k - (i - 1) \in 1 .. (Len(s) - i) /\ i + (k - (i - 1)) = k + 1
      BY <1>1, <2>2
    <3>2. (a \o b)[k] = b[k - (i - 1)]
      BY <1>1, <1>4, <2>2
    <3>3. b[k - (i - 1)] = s[i + (k - (i - 1))]
      BY <1>3, <3>1
    <3>4. QED
      BY <2>2, <3>1, <3>2, <3>3
  <2>3. QED
    BY <2>1, <2>2
<1>6. QED
  BY <1>4, <1>5 DEF Without, a, b

\* t is s with its element i twice.
Doubled(s, t, i) ==
    /\ Len(t) = Len(s) + 1
    /\ \A k \in 1 .. Len(t) : t[k] = IF k <= i THEN s[k] ELSE s[k - 1]

LEMMA PutTwice ==
    ASSUME NEW S, NEW s \in Seq(S), NEW i \in 1 .. Len(s)
    PROVE  /\ SubSeq(s, 1, i) \o SubSeq(s, i, Len(s)) \in Seq(S)
           /\ Doubled(s, SubSeq(s, 1, i) \o SubSeq(s, i, Len(s)), i)
<1> DEFINE a == SubSeq(s, 1, i)
           b == SubSeq(s, i, Len(s))
<1>1. Len(s) \in Nat /\ \A k \in 1 .. Len(s) : s[k] \in S
  BY LenProperties, ElementOfSeq
<1>2. a \in Seq(S) /\ Len(a) = i /\ \A k \in 1 .. i : a[k] = s[k]
  <2>1. \A k \in 1 .. i : s[k] \in S
    BY <1>1
  <2>2. /\ a \in Seq(S) /\ Len(a) = IF 1 <= i THEN i - 1 + 1 ELSE 0
        /\ \A k \in 1 .. (i - 1 + 1) : a[k] = s[1 + k - 1]
    BY <2>1, SubSeqProperties
  <2> HIDE DEF a
  <2>3. QED
    BY <1>1, <2>2
<1>3. /\ b \in Seq(S) /\ Len(b) = Len(s) - i + 1
      /\ \A k \in 1 .. (Len(s) - i + 1) : b[k] = s[i + k - 1]
  <2>1. \A k \in i .. Len(s) : s[k] \in S
    BY <1>1
  <2>2. /\ b \in Seq(S) /\ Len(b) = IF i <= Len(s) THEN Len(s) - i + 1 ELSE 0
        /\ \A k \in 1 .. (Len(s) - i + 1) : b[k] = s[i + k - 1]
    BY <1>1, <2>1, SubSeqProperties
  <2> HIDE DEF b
  <2>3. QED
    BY <1>1, <2>2
<1> HIDE DEF a, b
<1>4. /\ a \o b \in Seq(S) /\ Len(a \o b) = Len(s) + 1
      /\ \A k \in 1 .. (Len(s) + 1) : (a \o b)[k] = IF k <= i THEN a[k] ELSE b[k - i]
  <2>1. /\ a \o b \in Seq(S) /\ Len(a \o b) = Len(a) + Len(b)
        /\ \A k \in 1 .. (Len(a) + Len(b)) :
              (a \o b)[k] = IF k <= Len(a) THEN a[k] ELSE b[k - Len(a)]
    BY <1>2, <1>3, ConcatProperties
  <2>2. Len(a) = i /\ Len(a) + Len(b) = Len(s) + 1
    BY <1>1, <1>2, <1>3
  <2>3. QED
    BY <2>1, <2>2
<1>5. ASSUME NEW k \in 1 .. (Len(s) + 1)
      PROVE  (a \o b)[k] = IF k <= i THEN s[k] ELSE s[k - 1]
  <2>1. CASE k <= i
    BY <1>1, <1>2, <1>4, <2>1
  <2>2. CASE ~(k <= i)
    <3>1. k - i \in 1 .. (Len(s) - i + 1) /\ i + (k - i) - 1 = k - 1
      BY <1>1, <2>2
    <3>2. (a \o b)[k] = b[k - i]
      BY <1>1, <1>4, <2>2
    <3>3. b[k - i] = s[i + (k - i) - 1]
      BY <1>3, <3>1
    <3>4. QED
      BY <2>2, <3>1, <3>2, <3>3
  <2>3. QED
    BY <2>1, <2>2
<1>6. QED
  BY <1>4, <1>5 DEF Doubled, a, b

LEMMA TailIsWithout ==
    ASSUME NEW S, NEW s \in Seq(S), s # <<>>
    PROVE  Head(s) = s[1] /\ Len(s) \in Nat \ {0} /\ Tail(s) \in Seq(S) /\ Without(s, Tail(s), 1)
BY HeadTailProperties, EmptySeq DEF Without

LEMMA Swap ==
    ASSUME NEW S, NEW s \in Seq(S), NEW i \in 1 .. (Len(s) - 1)
    PROVE  /\ [s EXCEPT ![i] = s[i + 1], ![i + 1] = s[i]] \in Seq(S)
           /\ Swapped(s, [s EXCEPT ![i] = s[i + 1], ![i + 1] = s[i]], i)
<1>1. Len(s) \in Nat /\ i \in 1 .. Len(s) /\ i + 1 \in 1 .. Len(s)
  BY LenProperties
<1>2. s[i] \in S /\ s[i + 1] \in S
  BY <1>1, ElementOfSeq
<1> DEFINE t == [s EXCEPT ![i] = s[i + 1]]
<1>3. t \in Seq(S) /\ Len(t) = Len(s) /\ \A k \in 1 .. Len(s) : t[k] = IF k = i THEN s[i + 1] ELSE s[k]
  BY <1>1, <1>2, ExceptSeq
<1> DEFINE r == [t EXCEPT ![i + 1] = s[i]]
<1>4. r \in Seq(S) /\ Len(r) = Len(t) /\ \A k \in 1 .. Len(t) : r[k] = IF k = i + 1 THEN s[i] ELSE t[k]
  <2> HIDE DEF t
  <2>1. QED
    BY <1>1, <1>2, <1>3, ExceptSeq
<1>5. r = [s EXCEPT ![i] = s[i + 1], ![i + 1] = s[i]]
  OBVIOUS
<1> HIDE DEF r, t
<1>6. Swapped(s, r, i)
  BY <1>1, <1>3, <1>4 DEF Swapped
<1>7. QED
  BY <1>4, <1>5, <1>6

\* What the network makes of what is on the way.
LEMMA NetStepType ==
    ASSUME PathType, NetStep
    PROVE  /\ PathType'
           /\ UNCHANGED <<frames, base, loop, fuaBuffer, inFua, out, log>>
           /\ UNCHANGED <<pipeVars, feedVars>>
           /\ \/ \E i \in 1 .. Len(net) :
                   /\ Without(net, net', i)
                   /\ hurt' = hurt \cup UnitsIn(<<net[i]>>) /\ twice' = twice
              \/ \E i \in 1 .. (Len(net) - 1) :
                   /\ Swapped(net, net', i)
                   /\ hurt' = IF <<>> \in {net[i].units, net[i + 1].units}
                                THEN hurt ELSE hurt \cup UnitsIn(<<net[i], net[i + 1]>>)
                   /\ twice' = twice
              \/ \E i \in 1 .. Len(net) :
                   /\ Doubled(net, net', i)
                   /\ hurt' = hurt \cup UnitsIn(<<net[i]>>)
                   /\ twice' = twice \cup UnitsIn(<<net[i]>>)
<1>1. net \in Seq(Packets) /\ Len(net) \in Nat /\ faults \in 0 .. MaxFaults
      /\ Len(net) <= Backlog + 3 + faults /\ Backlog \in Nat /\ MaxFaults \in Nat
  BY LenProperties, VideoAssumption DEF PathType
<1>2. ASSUME NEW i \in 1 .. Len(net), Lose(i)
      PROVE  /\ net' \in Seq(Packets) /\ Len(net') <= Backlog + 3 + faults'
             /\ Without(net, net', i) /\ hurt' = hurt \cup UnitsIn(<<net[i]>>)
             /\ twice' = twice
             /\ faults' \in 0 .. MaxFaults
             /\ UNCHANGED <<frames, base, loop, fuaBuffer, inFua, out, log>>
             /\ UNCHANGED <<pipeVars, feedVars>>
  <2>1. net' \in Seq(Packets) /\ Without(net, net', i)
    BY <1>1, <1>2, CutOut DEF Lose
  <2>2. Len(net') <= Backlog + 3 + faults' /\ faults' \in 0 .. MaxFaults
    <3>1. faults' = faults + 1 /\ faults < MaxFaults
      BY <1>2 DEF Lose, Fault
    <3>2. QED
      BY <1>1, <2>1, <3>1 DEF Without
  <2>3. hurt' = hurt \cup UnitsIn(<<net[i]>>) /\ twice' = twice
    BY <1>2 DEF Lose
  <2>5. /\ UNCHANGED <<frames, base, loop, fuaBuffer, inFua, out, log>>
        /\ UNCHANGED <<pipeVars, feedVars>>
    BY <1>2 DEF Lose, loopVars, baseVars
  <2>6. QED
    BY <2>1, <2>2, <2>3, <2>5
<1>3. ASSUME NEW i \in 1 .. (Len(net) - 1), Displace(i)
      PROVE  /\ net' \in Seq(Packets) /\ Len(net') <= Backlog + 3 + faults'
             /\ Swapped(net, net', i)
             /\ hurt' = IF <<>> \in {net[i].units, net[i + 1].units}
                          THEN hurt ELSE hurt \cup UnitsIn(<<net[i], net[i + 1]>>)
             /\ twice' = twice
             /\ faults' \in 0 .. MaxFaults
             /\ UNCHANGED <<frames, base, loop, fuaBuffer, inFua, out, log>>
             /\ UNCHANGED <<pipeVars, feedVars>>
  <2>1. net' \in Seq(Packets) /\ Swapped(net, net', i)
    BY <1>1, <1>3, Swap DEF Displace
  <2>2. Len(net') <= Backlog + 3 + faults' /\ faults' \in 0 .. MaxFaults
    <3>1. faults' = faults + 1 /\ faults < MaxFaults
      BY <1>3 DEF Displace, Fault
    <3>2. QED
      BY <1>1, <2>1, <3>1 DEF Swapped
  <2>3. QED
    BY <1>3, <2>1, <2>2 DEF Displace, loopVars, baseVars
<1>4. ASSUME NEW i \in 1 .. Len(net), Double(i)
      PROVE  /\ net' \in Seq(Packets) /\ Len(net') <= Backlog + 3 + faults'
             /\ Doubled(net, net', i)
             /\ hurt' = hurt \cup UnitsIn(<<net[i]>>)
             /\ twice' = twice \cup UnitsIn(<<net[i]>>)
             /\ faults' \in 0 .. MaxFaults
             /\ UNCHANGED <<frames, base, loop, fuaBuffer, inFua, out, log>>
             /\ UNCHANGED <<pipeVars, feedVars>>
  <2>1. net' \in Seq(Packets) /\ Doubled(net, net', i)
    BY <1>1, <1>4, PutTwice DEF Double
  <2>2. Len(net') <= Backlog + 3 + faults' /\ faults' \in 0 .. MaxFaults
    <3>1. faults' = faults + 1 /\ faults < MaxFaults
      BY <1>4 DEF Double, Fault
    <3>2. QED
      BY <1>1, <2>1, <3>1 DEF Doubled
  <2>3. QED
    BY <1>4, <2>1, <2>2 DEF Double, loopVars, baseVars
<1>5. /\ net' \in Seq(Packets) /\ Len(net') <= Backlog + 3 + faults'
      /\ faults' \in 0 .. MaxFaults
      /\ UNCHANGED <<frames, base, loop, fuaBuffer, inFua, out, log>>
      /\ UNCHANGED <<pipeVars, feedVars>>
  BY <1>2, <1>3, <1>4 DEF NetStep
<1>6. PathType'
  BY <1>5 DEF PathType, Sent
<1>7. QED
  BY <1>2, <1>3, <1>4, <1>5, <1>6 DEF NetStep

\* What push makes of the packet at the head, given the buffer it has.
PushesUnits(p) ==
    /\ p.kind \in {"nal", "stap"}
    /\ fuaBuffer' = <<>>
    /\ Len(out') = Len(p.units)
    /\ \A j \in 1 .. Len(p.units) : out'[j] = <<<<p.units[j], 1>>>>

PushesNothing(p) ==
    /\ \/ p.units = <<>>
       \/ p.kind = "fua" /\ p.part # 1 /\ fuaBuffer = <<>>
    /\ UNCHANGED <<fuaBuffer, out>>

PushesStart(p) ==
    /\ p.kind = "fua" /\ p.part = 1
    /\ fuaBuffer' = <<<<p.units[1], 1>>>>
    /\ out' = <<>>

PushesMiddle(p) ==
    /\ p.kind = "fua" /\ p.part = 2 /\ fuaBuffer # <<>>
    /\ fuaBuffer' = Append(fuaBuffer, <<p.units[1], 2>>)
    /\ out' = <<>>

PushesEnd(p) ==
    /\ p.kind = "fua" /\ p.part = 3 /\ fuaBuffer # <<>>
    /\ fuaBuffer' = <<>>
    /\ out' = <<Append(fuaBuffer, <<p.units[1], 3>>)>>

Pushes(p) ==
    PushesUnits(p) \/ PushesNothing(p) \/ PushesStart(p) \/ PushesMiddle(p) \/ PushesEnd(p)

LEMMA ReceiveMediaType ==
    ASSUME PathType, ReceiveMedia
    PROVE  /\ PathType'
           /\ out = <<>> /\ Len(net) \in Nat \ {0}
           /\ Without(net, net', 1)
           /\ Pushes(net[1])
           /\ UNCHANGED <<frames, hurt, twice, log, pipeVars, feedVars>>
<1> DEFINE p == net[1]
<1>1. /\ net \in Seq(Packets) /\ net # <<>> /\ out = <<>> /\ loop
      /\ fuaBuffer \in Seq(Pieces) /\ inFua = (fuaBuffer # <<>>)
      /\ Len(net) <= Backlog + 3 + faults /\ Backlog \in Nat /\ faults \in Nat
  BY VideoAssumption DEF ReceiveMedia, PathType
<1>2. /\ Head(net) = p /\ Len(net) \in Nat \ {0} /\ Without(net, net', 1)
      /\ net' \in Seq(Packets)
  BY <1>1, TailIsWithout DEF ReceiveMedia
<1>3. p \in PacketShape /\ Made(p)
  <2>1. p \in Packets
    BY <1>1, <1>2, ElementOfSeq
  <2>2. QED
    BY <2>1 DEF Packets
<1>4. Len(net') <= Backlog + 3 + faults
  BY <1>1, <1>2 DEF Without
<1>5. UNCHANGED <<frames, hurt, twice, log, pipeVars, feedVars, base, faults, loop>>
  BY DEF ReceiveMedia, baseVars
<1>6. PushUnits(p) \/ PushStray(p) \/ PushFragment(p) \/ PushUnsupported(p)
  BY <1>2 DEF ReceiveMedia
<1> HIDE DEF p
<1>7. /\ fuaBuffer' \in Seq(Pieces) /\ inFua' = (fuaBuffer' # <<>>)
      /\ out' \in Seq(Units)
      /\ Pushes(p)
  <2>1. CASE PushUnits(p)
    <3>1. /\ p.kind \in {"nal", "stap"} /\ fuaBuffer' = <<>> /\ inFua' = FALSE
          /\ out' = [j \in DOMAIN p.units |-> <<<<p.units[j], 1>>>>]
      BY <2>1 DEF PushUnits, ResetFua
    <3>2. p.units \in Seq(Nat)
      BY <1>3 DEF PacketShape
    <3>3. Len(p.units) \in Nat /\ DOMAIN p.units = 1 .. Len(p.units)
      BY <3>2, LenProperties
    <3>4. \A j \in 1 .. Len(p.units) : <<<<p.units[j], 1>>>> \in Units
      <4> SUFFICES ASSUME NEW j \in 1 .. Len(p.units)
                   PROVE  <<<<p.units[j], 1>>>> \in Units
        OBVIOUS
      <4>1. p.units[j] \in Nat
        BY <3>2, ElementOfSeq
      <4>2. QED
        BY <4>1 DEF Units, Pieces
    <3>5. out' \in [1 .. Len(p.units) -> Units]
      BY <3>1, <3>3, <3>4
    <3>6. out' \in Seq(Units)
      BY <3>3, <3>5, SeqDef
    <3>7. Len(out') = Len(p.units)
      BY <3>3, <3>5, <3>6, LenProperties
    <3>8. inFua' = (fuaBuffer' # <<>>)
      BY <3>1
    <3>9. PushesUnits(p)
      BY <3>1, <3>3, <3>7 DEF PushesUnits
    <3>10. fuaBuffer' \in Seq(Pieces)
      BY <3>1
    <3>11. QED
      BY <3>6, <3>8, <3>9, <3>10 DEF Pushes
  <2>2. CASE PushStray(p)
    <3>1. p.part # 1 /\ fuaBuffer = <<>>
      BY <1>1, <1>3, <2>2 DEF PushStray, Made, Challenge, Packet
    <3>2. UNCHANGED <<fuaBuffer, inFua, out>> /\ p.kind = "fua"
      BY <2>2 DEF PushStray
    <3>3. out' \in Seq(Units)
      BY <3>2 DEF PathType
    <3>4. QED
      BY <1>1, <3>1, <3>2, <3>3 DEF Pushes, PushesNothing
  <2>3. CASE PushFragment(p)
    <3>1. p.kind = "fua" /\ (p.start \/ inFua)
      BY <2>3 DEF PushFragment
    <3>2. /\ p.part \in 1 .. 3 /\ p.start = (p.part = 1) /\ p.end = (p.part = 3)
          /\ p.units \in Seq(Nat) /\ Len(p.units) = 1
      BY <1>3, <3>1 DEF Made, PacketShape, Challenge, Packet
    <3>3. p.units[1] \in Nat
      BY <3>2, ElementOfSeq
    <3>4. <<p.units[1], p.part>> \in Pieces
      BY <3>2, <3>3 DEF Pieces
    <3> DEFINE buffer == (IF p.start THEN <<>> ELSE fuaBuffer) \o <<<<p.units[1], p.part>>>>
    <3>4a. p.start = (p.part = 1)
      BY <1>3, <3>1 DEF Made, Challenge, Packet
    <3>4b. p.end = (p.part = 3)
      BY <1>3, <3>1 DEF Made, Challenge, Packet
    <3>4c. IF p.end THEN out' = <<buffer>> /\ fuaBuffer' = <<>> /\ inFua' = FALSE
                    ELSE out' = <<>> /\ fuaBuffer' = buffer /\ inFua' = TRUE
      BY <2>3 DEF PushFragment, ResetFua
    <3>5. CASE p.part = 1
      <4>1. <<>> \o <<<<p.units[1], p.part>>>> = <<<<p.units[1], 1>>>>
        BY <3>4, <3>5
      <4>2. out' = <<>> /\ fuaBuffer' = <<<<p.units[1], 1>>>> /\ inFua' = TRUE
        <5>1. p.start /\ ~p.end
          <6>1. p.part # 3
            BY <3>5
          <6>2. QED
            BY <3>5, <3>4a, <3>4b, <6>1
        <5>2. QED
          BY <3>4c, <4>1, <5>1
      <4>3. fuaBuffer' \in Seq(Pieces) /\ fuaBuffer' # <<>> /\ out' \in Seq(Units)
        BY <3>4, <3>5, <4>2
      <4>4. QED
        BY <3>1, <3>5, <4>2, <4>3 DEF Pushes, PushesStart
    <3>6. ASSUME p.part # 1
          PROVE  /\ fuaBuffer # <<>>
                 /\ fuaBuffer \o <<<<p.units[1], p.part>>>> = Append(fuaBuffer, <<p.units[1], p.part>>)
                 /\ Append(fuaBuffer, <<p.units[1], p.part>>) \in Units
      <4>1. fuaBuffer # <<>>
        BY <1>1, <3>1, <3>2, <3>6
      <4>2. QED
        BY <1>1, <3>4, <4>1, AppendProperties, AppendIsConcat DEF Units
    <3>7. CASE p.part = 2
      <4>1. /\ out' = <<>> /\ fuaBuffer' = Append(fuaBuffer, <<p.units[1], 2>>)
            /\ inFua' = TRUE
        <5>1. ~p.start /\ ~p.end
          <6>1. p.part # 1 /\ p.part # 3
            BY <3>7
          <6>2. QED
            BY <3>4a, <3>4b, <6>1
        <5>2. p.part # 1
          BY <3>7
        <5>3. QED
          BY <3>4c, <3>6, <3>7, <5>1, <5>2
      <4>2. fuaBuffer' \in Seq(Pieces) /\ fuaBuffer' # <<>> /\ out' \in Seq(Units)
        BY <3>6, <3>7, <4>1 DEF Units
      <4>3. PushesMiddle(p)
        BY <3>1, <3>6, <3>7, <4>1 DEF PushesMiddle
      <4>4. inFua' = (fuaBuffer' # <<>>)
        BY <4>1, <4>2
      <4>5. QED
        BY <4>2, <4>3, <4>4 DEF Pushes
    <3>8. CASE p.part = 3
      <4>1. /\ out' = <<Append(fuaBuffer, <<p.units[1], 3>>)>> /\ fuaBuffer' = <<>>
            /\ inFua' = FALSE
        <5>1. ~p.start /\ p.end
          <6>1. p.part # 1
            BY <3>8
          <6>2. QED
            BY <3>8, <3>4a, <3>4b, <6>1
        <5>2. p.part # 1
          BY <3>8
        <5>3. QED
          BY <3>4c, <3>6, <3>8, <5>1, <5>2
      <4>2. fuaBuffer' \in Seq(Pieces) /\ out' \in Seq(Units)
        BY <3>6, <3>8, <4>1
      <4>3. PushesEnd(p)
        BY <3>1, <3>6, <3>8, <4>1 DEF PushesEnd
      <4>4. inFua' = (fuaBuffer' # <<>>)
        BY <4>1
      <4>5. QED
        BY <4>2, <4>3, <4>4 DEF Pushes
    <3>9. QED
      BY <3>2, <3>5, <3>7, <3>8
  <2>4. CASE PushUnsupported(p)
    <3>1. UNCHANGED <<fuaBuffer, inFua, out>> /\ p.kind = "odd"
      BY <2>4 DEF PushUnsupported
    <3>2. p.units = <<>>
      BY <1>3, <3>1 DEF Made, Challenge, Packet
    <3>3. out' \in Seq(Units)
      BY <3>1 DEF PathType
    <3>4. QED
      BY <1>1, <3>1, <3>2, <3>3 DEF Pushes, PushesNothing
  <2>5. QED
    BY <1>6, <2>1, <2>2, <2>3, <2>4
<1>8. PathType'
  BY <1>1, <1>2, <1>4, <1>5, <1>7 DEF PathType, Sent
<1>9. QED
  BY <1>1, <1>2, <1>5, <1>7, <1>8 DEF p

\* The challenge leaves the network and touches nothing else on the way.
LEMMA AnswerChallengeType ==
    ASSUME PathType, AnswerChallenge
    PROVE  /\ PathType'
           /\ out = <<>> /\ Len(net) \in Nat \ {0}
           /\ Without(net, net', 1)
           /\ Pushes(net[1])
           /\ UNCHANGED <<frames, hurt, twice, log, pipeVars, feedVars>>
<1>1. /\ net \in Seq(Packets) /\ net # <<>> /\ out = <<>>
      /\ Len(net) <= Backlog + 3 + faults
      /\ Backlog \in Nat /\ MaxFaults \in Nat /\ faults \in 0 .. MaxFaults
      /\ net' = Tail(net) /\ Head(net) = Challenge
  BY VideoAssumption DEF AnswerChallenge, PathType
<1>2. /\ Head(net) = net[1] /\ Len(net) \in Nat \ {0} /\ Without(net, net', 1)
      /\ net' \in Seq(Packets)
  BY <1>1, TailIsWithout
<1>3. Len(net') <= Backlog + 3 + faults
  BY <1>1, <1>2 DEF Without
<1>4. UNCHANGED <<frames, hurt, twice, loop, fuaBuffer, inFua, out, log, pipeVars, feedVars>>
  BY DEF AnswerChallenge, loopVars
<1>5. /\ base' \in {"asleep", "asking", "sending"}
      /\ faults' \in 0 .. MaxFaults /\ faults <= faults'
  <2>1. Reaches("asking", "sending")
    BY DEF AnswerChallenge
  <2>2. base \in {"asleep", "asking", "sending"} /\ faults \in 0 .. MaxFaults
    BY DEF PathType
  <2>3. QED
    BY <1>1, <2>1, <2>2 DEF Reaches, Fault
<1>6. PushesNothing(net[1])
  BY <1>1, <1>2, <1>4 DEF PushesNothing, Challenge, Packet
<1>7. PathType'
  <2>1. Len(net') <= Backlog + 3 + faults'
    BY <1>1, <1>2, <1>3, <1>5 DEF Without
  <2>2. QED
    BY <1>2, <1>4, <1>5, <2>1 DEF PathType, Sent
<1>8. QED
  BY <1>1, <1>2, <1>4, <1>6, <1>7 DEF Pushes

\* A unit handed to the broadcast channel stays where it is in the order.
LEMMA FanOutType ==
    ASSUME PathType, FanOut
    PROVE  /\ PathType'
           /\ UNCHANGED <<frames, net, hurt, twice, fuaBuffer, pipeVars, feedVars>>
           /\ Len(log') = Len(log) + 1
           /\ \A i \in 1 .. Len(log) : log'[i] = log[i]
           /\ Given' = Given
<1>1. /\ out \in Seq(Units) /\ out # <<>> /\ log \in Seq(Units)
      /\ log' = Append(log, Head(out)) /\ out' = Tail(out)
  BY DEF FanOut, PathType
<1>2. UNCHANGED <<frames, base, net, faults, hurt, twice, loop, fuaBuffer, inFua, pipeVars, feedVars>>
  BY DEF FanOut, baseVars, netVars
<1>3. /\ Head(out) \in Units /\ Tail(out) \in Seq(Units) /\ Len(log) \in Nat
      /\ Head(out) = out[1] /\ Len(out) \in Nat \ {0} /\ Len(Tail(out)) = Len(out) - 1
      /\ \A i \in 1 .. Len(Tail(out)) : Tail(out)[i] = out[i + 1]
  BY <1>1, HeadTailProperties, EmptySeq, LenProperties
<1>4. /\ log' \in Seq(Units) /\ Len(log') = Len(log) + 1
      /\ \A i \in 1 .. Len(log) : log'[i] = log[i]
      /\ log'[Len(log) + 1] = out[1]
  BY <1>1, <1>3, AppendProperties
<1>5. Given' = Given
  <2>1. /\ log' \o out' \in Seq(Units) /\ Len(log' \o out') = Len(log') + Len(out')
        /\ \A i \in 1 .. (Len(log') + Len(out')) :
              (log' \o out')[i] = IF i <= Len(log') THEN log'[i] ELSE out'[i - Len(log')]
    BY <1>1, <1>3, <1>4, ConcatProperties
  <2>2. /\ log \o out \in Seq(Units) /\ Len(log \o out) = Len(log) + Len(out)
        /\ \A i \in 1 .. (Len(log) + Len(out)) :
              (log \o out)[i] = IF i <= Len(log) THEN log[i] ELSE out[i - Len(log)]
    BY <1>1, ConcatProperties
  <2>3. Len(log') + Len(out') = Len(log) + Len(out)
    BY <1>1, <1>3, <1>4
  <2>4. ASSUME NEW i \in 1 .. (Len(log) + Len(out))
        PROVE  (log' \o out')[i] = (log \o out)[i]
    <3>1. CASE i <= Len(log)
      BY <1>3, <1>4, <2>1, <2>2, <2>3, <3>1
    <3>2. CASE i = Len(log) + 1
      <4>1. (log' \o out')[i] = log'[i]
        BY <1>4, <2>1, <2>3, <3>2
      <4>2. (log \o out)[i] = out[i - Len(log)]
        BY <1>3, <2>2, <3>2
      <4>3. i - Len(log) = 1
        BY <1>3, <3>2
      <4>4. QED
        BY <1>4, <3>2, <4>1, <4>2, <4>3
    <3>3. CASE i > Len(log) + 1
      <4>1. (log' \o out')[i] = out'[i - Len(log')]
        BY <1>3, <1>4, <2>1, <2>3, <3>3
      <4>2. (log \o out)[i] = out[i - Len(log)]
        BY <1>3, <2>2, <3>3
      <4>3. i - Len(log') \in 1 .. Len(Tail(out)) /\ i - Len(log') + 1 = i - Len(log)
        BY <1>3, <1>4, <3>3
      <4>4. QED
        BY <1>1, <1>3, <4>1, <4>2, <4>3
    <3>4. i <= Len(log) \/ i = Len(log) + 1 \/ i > Len(log) + 1
      BY <1>3
    <3>5. QED
      BY <3>1, <3>2, <3>3, <3>4
  <2> HIDE DEF Given
  <2>5. log' \o out' = log \o out
    BY <2>1, <2>2, <2>3, <2>4, SeqEqual
  <2>6. QED
    BY <2>5 DEF Given
<1>6. PathType'
  BY <1>1, <1>2, <1>3, <1>4 DEF PathType, Sent
<1>7. QED
  BY <1>2, <1>4, <1>5, <1>6

\* A loop that starts or ends.
LEMMA LoopEdgeType ==
    ASSUME PathType, LoopStarts \/ Keepalive \/ LoopEnds
    PROVE  /\ PathType'
           /\ UNCHANGED <<frames, log, pipeVars, feedVars>>
           /\ \/ UNCHANGED <<net, hurt, twice, fuaBuffer, out>>
              \/ /\ hurt' = hurt \cup UnitsIn(net) \cup PiecesIn(out)
                              \cup PiecesIn(<<fuaBuffer>>)
                 /\ twice' = twice
                 /\ net' = <<>> /\ out' = <<>> /\ fuaBuffer' = <<>>
<1>1. /\ base \in {"asleep", "asking", "sending"} /\ faults \in 0 .. MaxFaults
      /\ MaxFaults \in Nat /\ Backlog \in Nat
      /\ Len(net) \in Nat /\ Len(net) <= Backlog + 3 + faults
  BY LenProperties, VideoAssumption DEF PathType
<1>2. ASSUME Reaches("asleep", "asking")
      PROVE  /\ base' \in {"asleep", "asking", "sending"} /\ faults' \in 0 .. MaxFaults
             /\ Len(net) <= Backlog + 3 + faults'
  BY <1>1, <1>2 DEF Reaches, Fault
<1>3. CASE LoopStarts
  <2>1. /\ ~loop /\ loop' = TRUE /\ fuaBuffer' = <<>> /\ inFua' = FALSE
        /\ UNCHANGED <<frames, net, hurt, twice, out, log, pipeVars, feedVars>>
    BY <1>3 DEF LoopStarts, ResetFua
  <2>2. fuaBuffer = <<>>
    BY <2>1 DEF PathType
  <2>3. /\ base' \in {"asleep", "asking", "sending"} /\ faults' \in 0 .. MaxFaults
        /\ Len(net) <= Backlog + 3 + faults'
    BY <1>2, <1>3 DEF LoopStarts
  <2>4. inFua' = (fuaBuffer' # <<>>) /\ (~loop' => fuaBuffer' = <<>>) /\ loop' \in BOOLEAN
    BY <2>1
  <2>5. fuaBuffer' \in Seq(Pieces)
    BY <2>1
  <2>6. PathType'
    BY <2>1, <2>3, <2>4, <2>5 DEF PathType, Sent
  <2>7. QED
    BY <2>1, <2>2, <2>6
<1>4. CASE Keepalive
  <2>1. UNCHANGED <<frames, net, hurt, twice, loop, fuaBuffer, inFua, out, log, pipeVars, feedVars>>
    BY <1>4 DEF Keepalive, loopVars
  <2>2. /\ base' \in {"asleep", "asking", "sending"} /\ faults' \in 0 .. MaxFaults
        /\ Len(net) <= Backlog + 3 + faults'
    BY <1>2, <1>4 DEF Keepalive
  <2>3. PathType'
    BY <2>1, <2>2 DEF PathType, Sent
  <2>4. QED
    BY <2>1, <2>3
<1>5. CASE LoopEnds
  <2>1. /\ loop' = FALSE /\ fuaBuffer' = <<>> /\ inFua' = FALSE /\ base' = "asleep"
        /\ net' = <<>> /\ out' = <<>>
        /\ UNCHANGED <<frames, faults, twice, log, pipeVars, feedVars>>
    BY <1>5 DEF LoopEnds, ResetFua
  <2>2. inFua' = (fuaBuffer' # <<>>) /\ (~loop' => fuaBuffer' = <<>>) /\ loop' \in BOOLEAN
    BY <2>1
  <2>3. /\ net' \in Seq(Packets) /\ out' \in Seq(Units) /\ fuaBuffer' \in Seq(Pieces)
        /\ Len(net') <= Backlog + 3 + faults
    BY <1>1, <2>1
  <2>4. PathType'
    BY <2>1, <2>2, <2>3 DEF PathType, Sent
  <2>5. QED
    BY <1>5, <2>1, <2>4 DEF LoopEnds
<1>6. QED
  BY <1>3, <1>4, <1>5

\* Steps of the path: the log only grows, and requests do not move.
LEMMA PathStepType ==
    ASSUME PathType, BaseStep \/ NetStep \/ LoopStep
    PROVE  /\ PathType'
           /\ UNCHANGED <<pipeVars, feedVars>>
           /\ Len(log) \in Nat /\ Len(log') \in Nat /\ Len(log) <= Len(log')
           /\ \A i \in 1 .. Len(log) : log'[i] = log[i]
<1>1. Len(log) \in Nat
  BY LenProperties DEF PathType
<1>2. CASE BaseStep
  BY <1>1, <1>2, BaseType
<1>3. CASE NetStep
  BY <1>1, <1>3, NetStepType
<1>4. CASE LoopStep
  <2>1. CASE LoopStarts \/ Keepalive \/ LoopEnds
    BY <1>1, <2>1, LoopEdgeType
  <2>2. CASE ReceiveMedia
    BY <1>1, <2>2, ReceiveMediaType
  <2>3. CASE AnswerChallenge
    BY <1>1, <2>3, AnswerChallengeType
  <2>4. CASE FanOut
    BY <1>1, <2>4, FanOutType
  <2>5. QED
    BY <1>4, <2>1, <2>2, <2>3, <2>4 DEF LoopStep
<1>5. QED
  BY <1>2, <1>3, <1>4

LEMMA UnitType ==
    ASSUME NEW n \in Units
    PROVE  Unit(n) \in Nat
<1>1. n \in Seq(Pieces) /\ n # <<>>
  BY DEF Units
<1>2. n[1] \in Pieces
  BY <1>1, EmptySeq, ElementOfSeq
<1>3. QED
  BY <1>2 DEF Pieces, Unit

\* What a feeder's or a request's step does to the view of request q.
LEMMA RequestStepType ==
    ASSUME PathType, ViewType, NEW q \in Request, FeederStep(q) \/ RequestStep(q)
    PROVE  /\ ViewType'
           /\ UNCHANGED <<frames, base, net, faults, hurt, twice, loop, fuaBuffer, inFua, out, log>>
<1>1. UNCHANGED <<frames, base, net, faults, hurt, twice, loop, fuaBuffer, inFua, out, log>>
  BY DEF FeederStep, RequestStep, Feed, FeedBreaks, Lags, OpenFifo, AudioBreaks,
     Attach, PipelineFails, GivesUp, PipelineStarts, FfmpegOpensFifo, FfmpegExits,
     ClientLeaves, StreamEnds, baseVars, netVars, loopVars
<1>2. /\ Len(log) \in Nat /\ log \in Seq(Units) /\ \A i \in 1 .. Len(log) : Unit(log[i]) \in Nat
      /\ DOMAIN log = 1 .. Len(log)
  BY LenProperties, ElementOfSeq, UnitType DEF PathType
<1>3. /\ cursor \in [Request -> Nat] /\ missed \in [Request -> SUBSET Nat]
      /\ wrote \in [Request -> Seq(Units)]
      /\ \A r \in Request : cursor[r] <= Len(log) /\ Len(wrote[r]) <= cursor[r]
      /\ \A r \in Request : Len(wrote[r]) \in Nat
  BY LenProperties DEF ViewType
<1>4. /\ cursor' \in [Request -> Nat] /\ missed' \in [Request -> SUBSET Nat]
      /\ wrote' \in [Request -> Seq(Units)]
      /\ \A r \in Request : cursor'[r] <= Len(log) /\ Len(wrote'[r]) <= cursor'[r]
  <2>1. CASE UNCHANGED feedVars
    BY <1>3, <2>1 DEF feedVars
  <2>2. CASE Attach(q)
    <3>1. /\ cursor' = [cursor EXCEPT ![q] = Len(log)] /\ wrote' = wrote
          /\ missed' = [missed EXCEPT ![q] = {Unit(log[i]) : i \in DOMAIN log}]
      BY <2>2 DEF Attach
    <3>2. {Unit(log[i]) : i \in DOMAIN log} \in SUBSET Nat
      BY <1>2
    <3>3. cursor' \in [Request -> Nat] /\ missed' \in [Request -> SUBSET Nat]
      BY <1>2, <1>3, <3>1, <3>2
    <3>4. \A r \in Request : cursor[r] <= cursor'[r] /\ cursor'[r] <= Len(log)
      BY <1>2, <1>3, <3>1
    <3>5. QED
      BY <1>2, <1>3, <3>1, <3>3, <3>4
  <2>3. ASSUME Takes(q)
        PROVE  /\ cursor' \in [Request -> Nat] /\ cursor'[q] = cursor[q] + 1
               /\ \A r \in Request : cursor[r] <= cursor'[r] /\ cursor'[r] <= Len(log)
               /\ log[cursor[q] + 1] \in Units
    <3>1. /\ cursor' = [cursor EXCEPT ![q] = cursor[q] + 1]
          /\ Len(log) - cursor[q] \in 1 .. Capacity
      BY <2>3 DEF Takes, Behind
    <3>2. cursor[q] + 1 \in 1 .. Len(log)
      BY <1>2, <1>3, <3>1, VideoAssumption
    <3>3. log[cursor[q] + 1] \in Units
      BY <1>2, <3>2, ElementOfSeq
    <3>4. QED
      BY <1>2, <1>3, <3>1, <3>2, <3>3
  <2>4. CASE Feed(q)
    <3>1. Takes(q) /\ missed' = missed
          /\ wrote' = [wrote EXCEPT ![q] = Append(wrote[q], log[cursor[q] + 1])]
      BY <2>4 DEF Feed
    <3>2. /\ Append(wrote[q], log[cursor[q] + 1]) \in Seq(Units)
          /\ Len(Append(wrote[q], log[cursor[q] + 1])) = Len(wrote[q]) + 1
      BY <1>3, <2>3, <3>1, AppendProperties
    <3>3. wrote' \in [Request -> Seq(Units)]
      BY <1>3, <3>1, <3>2
    <3>4. \A r \in Request : Len(wrote'[r]) <= cursor'[r]
      <4> SUFFICES ASSUME NEW r \in Request
                   PROVE  Len(wrote'[r]) <= cursor'[r]
        OBVIOUS
      <4>1. CASE r = q
        <5>1. Len(wrote'[q]) = Len(wrote[q]) + 1
          BY <1>3, <3>1, <3>2
        <5>2. QED
          BY <1>3, <2>3, <3>1, <4>1, <5>1
      <4>2. CASE r # q
        <5>1. wrote'[r] = wrote[r]
          BY <1>3, <3>1, <4>2
        <5>2. QED
          BY <1>3, <2>3, <3>1, <5>1
      <4>3. QED
        BY <4>1, <4>2
    <3>5. QED
      BY <1>3, <2>3, <3>1, <3>3, <3>4
  <2>5. CASE FeedBreaks(q)
    <3>1. Takes(q) /\ missed' = missed /\ wrote' = wrote
      BY <2>5 DEF FeedBreaks
    <3>2. QED
      BY <1>3, <2>3, <3>1
  <2>6. CASE Lags(q)
    <3>1. /\ cursor' = [cursor EXCEPT ![q] = Len(log) - Capacity] /\ wrote' = wrote
          /\ missed' = [missed EXCEPT ![q] = missed[q] \cup
                 {Unit(log[i]) : i \in (cursor[q] + 1) .. (Len(log) - Capacity)}]
          /\ Len(log) - cursor[q] > Capacity
      BY <2>6 DEF Lags, Behind
    <3>2. Capacity \in Nat /\ Len(log) - Capacity \in Nat /\ Len(log) - Capacity > cursor[q]
      BY <1>2, <1>3, <3>1, VideoAssumption
    <3>3. {Unit(log[i]) : i \in (cursor[q] + 1) .. (Len(log) - Capacity)} \in SUBSET Nat
      BY <1>2, <1>3, <3>2
    <3>4. missed' \in [Request -> SUBSET Nat] /\ cursor' \in [Request -> Nat]
      BY <1>3, <3>1, <3>2, <3>3
    <3>5. \A r \in Request : cursor[r] <= cursor'[r] /\ cursor'[r] <= Len(log)
      BY <1>2, <1>3, <3>1, <3>2
    <3>6. QED
      BY <1>2, <1>3, <3>1, <3>4, <3>5
  <2>7. QED
    BY <2>1, <2>2, <2>4, <2>5, <2>6 DEF FeederStep, RequestStep, OpenFifo, AudioBreaks,
       PipelineFails, GivesUp, PipelineStarts, FfmpegOpensFifo, FfmpegExits,
       ClientLeaves, StreamEnds
<1>5. /\ request' \in [Request -> {"none", "making", "streaming", "over"}]
      /\ fifo' \in [Request -> BOOLEAN]
      /\ ffmpeg' \in [Request -> {"none", "video", "both", "dead"}]
  BY DEF FeederStep, RequestStep, Feed, FeedBreaks, Lags, OpenFifo, AudioBreaks,
     Attach, PipelineFails, GivesUp, PipelineStarts, FfmpegOpensFifo, FfmpegExits,
     ClientLeaves, StreamEnds, Move, ViewType, pipeVars
<1>6. /\ videoFeed' \in [Request -> {"none", "recv", "done"}]
      /\ audioFeed' \in [Request ->
             {"none", "spawned", "opening", "pumping", "done", "stuck"}]
  BY DEF FeederStep, RequestStep, Feed, FeedBreaks, Lags, OpenFifo, AudioBreaks,
     Attach, PipelineFails, GivesUp, PipelineStarts, FfmpegOpensFifo, FfmpegExits,
     ClientLeaves, StreamEnds, Move, ViewType, pipeVars
<1>7. QED
  BY <1>1, <1>4, <1>5, <1>6 DEF ViewType

LEMMA TypeStep ==
    ASSUME PathType, ViewType, [Next]_videoVars
    PROVE  PathType' /\ ViewType'
<1>1. CASE BaseStep \/ NetStep \/ LoopStep
  <2>1. /\ PathType' /\ UNCHANGED <<pipeVars, feedVars>>
        /\ Len(log) \in Nat /\ Len(log') \in Nat /\ Len(log) <= Len(log')
    BY <1>1, PathStepType
  <2>2. \A q \in Request : cursor[q] \in Nat /\ cursor[q] <= Len(log')
    BY <2>1 DEF ViewType
  <2>3. QED
    BY <2>1, <2>2 DEF ViewType, pipeVars, feedVars
<1>2. ASSUME NEW q \in Request, FeederStep(q) \/ RequestStep(q)
      PROVE  PathType' /\ ViewType'
  BY <1>2, RequestStepType DEF PathType, Sent
<1>3. CASE UNCHANGED videoVars
  BY <1>3 DEF videoVars, baseVars, netVars, loopVars, pipeVars, feedVars, PathType, Sent,
     ViewType
<1>4. QED
  BY <1>1, <1>2, <1>3 DEF Next

-----------------------------------------------------------------------------
(* Lemmas about sequences of units and packets.                            *)

LEMMA NetShape ==
    ASSUME NEW ns \in Seq(Packets)
    PROVE  /\ Len(ns) \in Nat /\ DOMAIN ns = 1 .. Len(ns)
           /\ \A i \in DOMAIN ns :
                /\ Made(ns[i]) /\ ns[i].part \in Nat
                /\ Len(ns[i].units) \in Nat
                /\ DOMAIN ns[i].units = 1 .. Len(ns[i].units)
                /\ \A j \in DOMAIN ns[i].units : ns[i].units[j] \in Nat
<1>1. Len(ns) \in Nat /\ DOMAIN ns = 1 .. Len(ns)
  BY LenProperties
<1>2. ASSUME NEW i \in DOMAIN ns
      PROVE  /\ Made(ns[i]) /\ ns[i].part \in Nat /\ ns[i].units \in Seq(Nat)
  <2>1. ns[i] \in Packets
    BY <1>1, ElementOfSeq
  <2>2. QED
    BY <2>1 DEF Packets, PacketShape
<1>3. ASSUME NEW i \in DOMAIN ns
      PROVE  /\ Len(ns[i].units) \in Nat
             /\ DOMAIN ns[i].units = 1 .. Len(ns[i].units)
             /\ \A j \in DOMAIN ns[i].units : ns[i].units[j] \in Nat
  BY <1>2, LenProperties, ElementOfSeq
<1>4. QED
  BY <1>1, <1>2, <1>3

LEMMA GivenShape ==
    ASSUME NEW l \in Seq(Units), NEW o \in Seq(Units)
    PROVE  /\ l \o o \in Seq(Units)
           /\ Len(l) \in Nat /\ Len(o) \in Nat /\ Len(l \o o) = Len(l) + Len(o)
           /\ DOMAIN (l \o o) = 1 .. (Len(l) + Len(o))
           /\ \A i \in 1 .. Len(l) : (l \o o)[i] = l[i]
           /\ \A i \in 1 .. Len(o) : (l \o o)[Len(l) + i] = o[i]
           /\ \A i \in 1 .. (Len(l) + Len(o)) :
                (l \o o)[i] \in Units /\ Unit((l \o o)[i]) \in Nat
<1>1. /\ l \o o \in Seq(Units) /\ Len(l \o o) = Len(l) + Len(o)
      /\ \A i \in 1 .. (Len(l) + Len(o)) :
            (l \o o)[i] = IF i <= Len(l) THEN l[i] ELSE o[i - Len(l)]
  BY ConcatProperties
<1>2. Len(l) \in Nat /\ Len(o) \in Nat
  BY LenProperties
<1>3. DOMAIN (l \o o) = 1 .. (Len(l) + Len(o))
  BY <1>1, LenProperties
<1>4. \A i \in 1 .. (Len(l) + Len(o)) : (l \o o)[i] \in Units /\ Unit((l \o o)[i]) \in Nat
  BY <1>1, ElementOfSeq, UnitType
<1>5. \A i \in 1 .. Len(l) : (l \o o)[i] = l[i]
  BY <1>1, <1>2
<1>6. ASSUME NEW i \in 1 .. Len(o)
      PROVE  (l \o o)[Len(l) + i] = o[i]
  <2>1. Len(l) + i \in 1 .. (Len(l) + Len(o)) /\ ~(Len(l) + i <= Len(l)) /\ (Len(l) + i) - Len(l) = i
    BY <1>2
  <2>2. QED
    BY <1>1, <2>1
<1>7. QED
  BY <1>1, <1>2, <1>3, <1>4, <1>5, <1>6

\* Where the packets went when one of them, or none, is gone.
Moved(i, k) == IF k < i THEN k ELSE k + 1

LEMMA WithoutShape ==
    ASSUME NEW ns \in Seq(Packets), NEW t \in Seq(Packets), NEW i \in 1 .. Len(ns),
           Without(ns, t, i)
    PROVE  /\ \A k \in DOMAIN t :
                Moved(i, k) \in DOMAIN ns /\ Moved(i, k) # i /\ t[k] = ns[Moved(i, k)]
           /\ \A k, j \in DOMAIN t : k < j => Moved(i, k) < Moved(i, j)
           /\ \A k \in DOMAIN ns : k # i => \E j \in DOMAIN t : t[j] = ns[k]
<1>1. Len(ns) \in Nat /\ DOMAIN ns = 1 .. Len(ns) /\ Len(t) = Len(ns) - 1
      /\ DOMAIN t = 1 .. (Len(ns) - 1)
  BY LenProperties DEF Without
<1>2. \A k \in DOMAIN t :
         Moved(i, k) \in DOMAIN ns /\ Moved(i, k) # i /\ t[k] = ns[Moved(i, k)]
  BY <1>1 DEF Without, Moved
<1>3. \A k, j \in DOMAIN t : k < j => Moved(i, k) < Moved(i, j)
  BY <1>1 DEF Moved
<1>4. ASSUME NEW k \in DOMAIN ns, k # i
      PROVE  \E j \in DOMAIN t : t[j] = ns[k]
  <2> DEFINE j == IF k < i THEN k ELSE k - 1
  <2>1. j \in DOMAIN t /\ Moved(i, j) = k
    BY <1>1, <1>4 DEF Moved
  <2>2. QED
    BY <1>2, <2>1
<1>5. QED
  BY <1>2, <1>3, <1>4

LEMMA AfterKeeps ==
    ASSUME NEW h, NEW g, h \subseteq g, NEW d, NEW e, d \subseteq e,
           NEW p, NEW u, NEW first, NEW last, After(h, d, p, u, first, last)
    PROVE  After(g, e, p, u, first, last)
BY DEF After, Clean

LEMMA BeforeKeeps ==
    ASSUME NEW h, NEW g, h \subseteq g, NEW d, NEW e, d \subseteq e,
           NEW u, NEW w, Before(h, d, u, w)
    PROVE  Before(g, e, u, w)
BY DEF Before, Clean

LEMMA ComingWithout ==
    ASSUME NEW ns \in Seq(Packets), NEW t \in Seq(Packets), NEW i \in 1 .. Len(ns),
           Without(ns, t, i), NEW u, NEW k, Coming(ns, u, k),
           ns[i].part # k \/ ~Carries(ns[i], u)
    PROVE  Coming(t, u, k)
<1>1. PICK j \in DOMAIN ns : ns[j].part = k /\ Carries(ns[j], u)
  BY DEF Coming
<1>2. j # i
  BY <1>1
<1>3. PICK m \in DOMAIN t : t[m] = ns[j]
  BY <1>2, WithoutShape
<1>4. QED
  BY <1>1, <1>3 DEF Coming

\* Fewer packets, or more units hurt: the packets left keep their order.
LEMMA WithoutKeepsNet ==
    ASSUME PathType, net' \in Seq(Packets), NetCut, NetOrder,
           NEW i \in 1 .. Len(net), Without(net, net', i),
           hurt \subseteq hurt', twice \subseteq twice', UNCHANGED frames
    PROVE  NetCut' /\ NetOrder'
<1>1. net \in Seq(Packets)
  BY DEF PathType
<1>2. /\ \A k \in DOMAIN net' : Moved(i, k) \in DOMAIN net /\ net'[k] = net[Moved(i, k)]
      /\ \A k, j \in DOMAIN net' : k < j => Moved(i, k) < Moved(i, j)
  BY <1>1, WithoutShape
<1>3. NetCut'
  BY <1>2 DEF NetCut, Sent
<1>4. ASSUME NEW k \in DOMAIN net', NEW j \in DOMAIN net', k < j,
             NEW m \in DOMAIN net'[k].units
      PROVE  After(hurt', twice', net'[j], net'[k].units[m], net'[k].part, net'[k].part)
  <2> DEFINE a == Moved(i, k)
             b == Moved(i, j)
  <2>1. a \in DOMAIN net /\ b \in DOMAIN net /\ a < b /\ net'[k] = net[a] /\ net'[j] = net[b]
    BY <1>2, <1>4
  <2> HIDE DEF a, b
  <2>2. After(hurt, twice, net[b], net[a].units[m], net[a].part, net[a].part)
    BY <1>4, <2>1 DEF NetOrder
  <2>3. QED
    BY <2>1, <2>2, AfterKeeps
<1>5. NetOrder'
  BY <1>4 DEF NetOrder
<1>6. QED
  BY <1>3, <1>5

LEMMA UnitsInMeans ==
    ASSUME NEW ns, NEW u
    PROVE  u \in UnitsIn(ns) <=> \E i \in DOMAIN ns : Carries(ns[i], u)
BY DEF UnitsIn, Carries

LEMMA UnitsInOne ==
    ASSUME NEW p, NEW u
    PROVE  u \in UnitsIn(<<p>>) <=> Carries(p, u)
<1>1. DOMAIN <<p>> = {1} /\ <<p>>[1] = p
  OBVIOUS
<1>2. QED
  BY <1>1, UnitsInMeans

LEMMA UnitsInTwo ==
    ASSUME NEW p, NEW r, NEW u
    PROVE  u \in UnitsIn(<<p, r>>) <=> Carries(p, u) \/ Carries(r, u)
<1>1. DOMAIN <<p, r>> = {1, 2} /\ <<p, r>>[1] = p /\ <<p, r>>[2] = r
  OBVIOUS
<1>2. QED
  BY <1>1, UnitsInMeans

-----------------------------------------------------------------------------
(* What is on its way stays in order and complete, step by step.           *)

PathInv == CutInv /\ OrderInv /\ WholeInv

\* What was handed out and what is under assembly do not mind more hurt units.
LEMMA HurtKeepsGiven ==
    ASSUME CutInv, OrderInv, WholeInv, hurt \subseteq hurt', hurt' \subseteq 1 .. Sent,
           twice \subseteq twice', twice' \subseteq hurt',
           UNCHANGED <<frames, fuaBuffer, Given>>
    PROVE  /\ hurt' \subseteq 1 .. Sent' /\ twice' \subseteq hurt'
           /\ \A k \in DOMAIN fuaBuffer' : fuaBuffer'[k][1] \in 1 .. Sent'
           /\ \A i \in DOMAIN Given' : \A k \in DOMAIN Given'[i] : Given'[i][k][1] \in 1 .. Sent'
           /\ GivenOrder' /\ GivenFua' /\ FuaWhole' /\ GivenWhole'
<1>1. Sent' = Sent
  BY DEF Sent
<1>2. GivenOrder'
  <2>1. \A i, j \in DOMAIN Given : i < j => Before(hurt', twice', Unit(Given[i]), Unit(Given[j]))
    BY BeforeKeeps DEF OrderInv, GivenOrder
  <2> HIDE DEF Given
  <2>2. QED
    BY <2>1 DEF GivenOrder
<1>3. GivenFua'
  <2>1. fuaBuffer # <<>> =>
            \A i \in DOMAIN Given : Before(hurt', twice', Unit(Given[i]), Unit(fuaBuffer))
    BY BeforeKeeps DEF OrderInv, GivenFua
  <2> HIDE DEF Given
  <2>2. QED
    BY <2>1 DEF GivenFua
<1>4. FuaWhole'
  BY DEF WholeInv, FuaWhole
<1>5. GivenWhole'
  <2>1. \A i \in DOMAIN Given : Unit(Given[i]) \notin hurt' => Whole(Given[i])
    BY DEF WholeInv, GivenWhole
  <2>2. \A n : Whole(n)' = Whole(n)
    BY DEF Whole
  <2> HIDE DEF Given
  <2>3. QED
    BY <2>1 DEF GivenWhole, Whole
<1>6. QED
  <2> HIDE DEF Given
  <2>1. QED
    BY <1>1, <1>2, <1>3, <1>4, <1>5 DEF CutInv

\* A lost packet.
LEMMA LoseKeeps ==
    ASSUME PathType, net' \in Seq(Packets), PathInv,
           NEW i \in 1 .. Len(net), Without(net, net', i),
           hurt' = hurt \cup UnitsIn(<<net[i]>>),
           UNCHANGED <<frames, twice, fuaBuffer, out, log>>
    PROVE  PathInv'
<1> USE DEF PathInv
<1>1. net \in Seq(Packets) /\ hurt \subseteq hurt' /\ twice' = twice
      /\ twice' \subseteq hurt'
  BY DEF PathType, CutInv
<1>2. \A k \in DOMAIN net' : Moved(i, k) \in DOMAIN net /\ net'[k] = net[Moved(i, k)]
  BY <1>1, WithoutShape
<1>3. Given' = Given /\ Sent' = Sent
  BY DEF Given, Sent
<1>4. \A u : Carries(net[i], u) => u \in hurt'
  BY UnitsInOne
<1>5. hurt' \subseteq 1 .. Sent
  <2>1. i \in DOMAIN net
    BY <1>1, NetShape
  <2>2. \A u : Carries(net[i], u) => u \in 1 .. Sent
    BY <2>1 DEF Carries, CutInv, NetCut
  <2>3. QED
    BY <2>2, UnitsInOne DEF CutInv
<1>6. NetCut' /\ NetOrder'
  BY <1>1, WithoutKeepsNet DEF CutInv, OrderInv
<1>7. /\ hurt' \subseteq 1 .. Sent' /\ twice' \subseteq hurt'
      /\ \A k \in DOMAIN fuaBuffer' : fuaBuffer'[k][1] \in 1 .. Sent'
      /\ \A k \in DOMAIN Given' : \A m \in DOMAIN Given'[k] : Given'[k][m][1] \in 1 .. Sent'
      /\ GivenOrder' /\ GivenFua' /\ FuaWhole' /\ GivenWhole'
  BY <1>1, <1>3, <1>5, HurtKeepsGiven
<1>8. FuaOrder'
  <2>1. ASSUME fuaBuffer # <<>>, NEW k \in DOMAIN net'
        PROVE  After(hurt', twice', net'[k], Unit(fuaBuffer), 1, Len(fuaBuffer))
    <3>1. After(hurt, twice, net[Moved(i, k)], Unit(fuaBuffer), 1, Len(fuaBuffer))
      BY <1>2, <2>1 DEF OrderInv, FuaOrder
    <3>2. QED
      BY <1>1, <1>2, <3>1, AfterKeeps
  <2>2. QED
    BY <2>1 DEF FuaOrder
<1>9. GivenNet'
  <2>1. ASSUME NEW k \in DOMAIN Given, NEW j \in DOMAIN net'
        PROVE  After(hurt', twice', net'[j], Unit(Given[k]), 1, 3)
    <3>1. After(hurt, twice, net[Moved(i, j)], Unit(Given[k]), 1, 3)
      BY <1>2, <2>1 DEF OrderInv, GivenNet
    <3>2. QED
      BY <1>1, <1>2, <3>1, AfterKeeps
  <2> HIDE DEF Given
  <2>2. QED
    BY <1>3, <2>1 DEF GivenNet
<1>10. NoneLost'
  <2> SUFFICES ASSUME NEW u \in (1 .. Sent) \ hurt'
               PROVE  Arrived(u)' \/ Assembled(u)' \/ OnTheWay(u)'
    BY <1>3 DEF NoneLost
  <2>1. ~Carries(net[i], u)
    BY <1>4
  <2>2. \A k : Coming(net, u, k) => Coming(net', u, k)
    BY <1>1, <2>1, ComingWithout
  <2>3. Arrived(u) \/ Assembled(u) \/ OnTheWay(u)
    BY <1>1 DEF WholeInv, NoneLost
  <2>4. CASE Arrived(u)
    BY <2>4 DEF Arrived, Given
  <2>5. CASE Assembled(u)
    BY <2>2, <2>5 DEF Assembled
  <2>6. CASE OnTheWay(u)
    BY <2>2, <2>6 DEF OnTheWay
  <2>7. QED
    BY <2>3, <2>4, <2>5, <2>6
<1>11. QED
  BY <1>6, <1>7, <1>8, <1>9, <1>10 DEF CutInv, OrderInv, WholeInv

\* Two neighbours in each other's place.
Traded(i, k) == IF k = i THEN i + 1 ELSE IF k = i + 1 THEN i ELSE k

LEMMA DisplaceKeeps ==
    ASSUME PathType, net' \in Seq(Packets), PathInv,
           NEW i \in 1 .. (Len(net) - 1), Swapped(net, net', i),
           hurt' = IF <<>> \in {net[i].units, net[i + 1].units}
                     THEN hurt ELSE hurt \cup UnitsIn(<<net[i], net[i + 1]>>),
           UNCHANGED <<frames, twice, fuaBuffer, out, log>>
    PROVE  PathInv'
<1> USE DEF PathInv
<1>1. /\ net \in Seq(Packets) /\ hurt \subseteq hurt' /\ Len(net) \in Nat
      /\ DOMAIN net = 1 .. Len(net) /\ DOMAIN net' = 1 .. Len(net)
      /\ i \in DOMAIN net /\ i + 1 \in DOMAIN net
      /\ twice' = twice /\ twice' \subseteq hurt'
  BY NetShape DEF PathType, CutInv, Swapped
<1>2. \A k \in DOMAIN net' : Traded(i, k) \in DOMAIN net /\ net'[k] = net[Traded(i, k)]
  BY <1>1 DEF Traded, Swapped
<1>3. \A k \in DOMAIN net : \E j \in DOMAIN net' : net'[j] = net[k]
  <2> SUFFICES ASSUME NEW k \in DOMAIN net
               PROVE  \E j \in DOMAIN net' : net'[j] = net[k]
    OBVIOUS
  <2>1. Traded(i, k) \in DOMAIN net' /\ Traded(i, Traded(i, k)) = k
    BY <1>1 DEF Traded
  <2>2. QED
    BY <1>2, <2>1
<1>4. Given' = Given /\ Sent' = Sent
  BY DEF Given, Sent
<1>5. hurt' \subseteq 1 .. Sent
  <2>1. \A u : Carries(net[i], u) \/ Carries(net[i + 1], u) => u \in 1 .. Sent
    BY <1>1 DEF Carries, CutInv, NetCut
  <2>2. QED
    BY <2>1, UnitsInTwo DEF CutInv
<1>6. /\ hurt' \subseteq 1 .. Sent' /\ twice' \subseteq hurt'
      /\ \A k \in DOMAIN fuaBuffer' : fuaBuffer'[k][1] \in 1 .. Sent'
      /\ \A k \in DOMAIN Given' : \A m \in DOMAIN Given'[k] : Given'[k][m][1] \in 1 .. Sent'
      /\ GivenOrder' /\ GivenFua' /\ FuaWhole' /\ GivenWhole'
  BY <1>1, <1>4, <1>5, HurtKeepsGiven
<1>7. NetCut'
  BY <1>2, <1>4 DEF CutInv, NetCut
<1>8. NetOrder'
  <2> SUFFICES ASSUME NEW k \in DOMAIN net', NEW j \in DOMAIN net', k < j,
                      NEW m \in DOMAIN net'[k].units
               PROVE  After(hurt', twice', net'[j], net'[k].units[m], net'[k].part, net'[k].part)
    BY DEF NetOrder
  <2>1. CASE k = i /\ j = i + 1
    <3>1. net'[k] = net[i + 1] /\ net'[j] = net[i]
      BY <2>1 DEF Swapped
    <3> SUFFICES ASSUME NEW n \in DOMAIN net[i].units
                 PROVE  /\ ~Clean(hurt', net[i + 1].units[m], net[i].units[n])
                        /\ net[i + 1].part = 1 /\ net[i].part = 1 =>
                             \/ net[i + 1].units[m] # net[i].units[n]
                             \/ net[i + 1].units[m] \in twice'
      BY <3>1 DEF After
    <3>2. net[i].units # <<>> /\ net[i + 1].units # <<>>
      BY <3>1
    <3>3. hurt' = hurt \cup UnitsIn(<<net[i], net[i + 1]>>)
      BY <3>2
    <3>4. Carries(net[i + 1], net[i + 1].units[m]) /\ Carries(net[i], net[i].units[n])
      BY <3>1 DEF Carries
    <3>5. net[i + 1].units[m] \in hurt' /\ net[i].units[n] \in hurt'
      BY <3>3, <3>4, UnitsInTwo
    <3>6. i < i + 1
      OBVIOUS
    <3>7. After(hurt, twice, net[i + 1], net[i].units[n], net[i].part, net[i].part)
      BY <1>1, <3>6 DEF OrderInv, NetOrder
    <3>8. net[i].part = 1 /\ net[i + 1].part = 1 =>
            net[i].units[n] # net[i + 1].units[m] \/ net[i].units[n] \in twice
      BY <3>1, <3>7 DEF After
    <3>9. QED
      BY <1>1, <3>5, <3>8 DEF Clean
  <2>2. CASE ~(k = i /\ j = i + 1)
    <3> DEFINE a == Traded(i, k)
               b == Traded(i, j)
    <3>1. a < b
      BY <1>1, <2>2 DEF Traded
    <3>2. a \in DOMAIN net /\ b \in DOMAIN net /\ net'[k] = net[a] /\ net'[j] = net[b]
      BY <1>2
    <3> HIDE DEF a, b
    <3>3. After(hurt, twice, net[b], net[a].units[m], net[a].part, net[a].part)
      BY <3>1, <3>2 DEF OrderInv, NetOrder
    <3>4. QED
      BY <1>1, <3>2, <3>3, AfterKeeps
  <2>3. QED
    BY <2>1, <2>2
<1>9. FuaOrder'
  <2>1. ASSUME fuaBuffer # <<>>, NEW k \in DOMAIN net'
        PROVE  After(hurt', twice', net'[k], Unit(fuaBuffer), 1, Len(fuaBuffer))
    <3>1. After(hurt, twice, net[Traded(i, k)], Unit(fuaBuffer), 1, Len(fuaBuffer))
      BY <1>2, <2>1 DEF OrderInv, FuaOrder
    <3>2. QED
      BY <1>1, <1>2, <3>1, AfterKeeps
  <2>2. QED
    BY <2>1 DEF FuaOrder
<1>10. GivenNet'
  <2>1. ASSUME NEW k \in DOMAIN Given, NEW j \in DOMAIN net'
        PROVE  After(hurt', twice', net'[j], Unit(Given[k]), 1, 3)
    <3>1. After(hurt, twice, net[Traded(i, j)], Unit(Given[k]), 1, 3)
      BY <1>2, <2>1 DEF OrderInv, GivenNet
    <3>2. QED
      BY <1>1, <1>2, <3>1, AfterKeeps
  <2> HIDE DEF Given
  <2>2. QED
    BY <1>4, <2>1 DEF GivenNet
<1>11. NoneLost'
  <2> SUFFICES ASSUME NEW u \in (1 .. Sent) \ hurt'
               PROVE  Arrived(u)' \/ Assembled(u)' \/ OnTheWay(u)'
    BY <1>4 DEF NoneLost
  <2>1. \A k : Coming(net, u, k) => Coming(net', u, k)
    BY <1>3 DEF Coming
  <2>2. Arrived(u) \/ Assembled(u) \/ OnTheWay(u)
    BY <1>1 DEF WholeInv, NoneLost
  <2>3. CASE Arrived(u)
    BY <2>3 DEF Arrived, Given
  <2>4. CASE Assembled(u)
    BY <2>1, <2>4 DEF Assembled
  <2>5. CASE OnTheWay(u)
    BY <2>1, <2>5 DEF OnTheWay
  <2>6. QED
    BY <2>2, <2>3, <2>4, <2>5
<1>12. QED
  BY <1>6, <1>7, <1>8, <1>9, <1>10, <1>11 DEF CutInv, OrderInv, WholeInv

\* A packet twice: where each one came from.
Original(i, k) == IF k <= i THEN k ELSE k - 1

LEMMA DoubleKeeps ==
    ASSUME PathType, net' \in Seq(Packets), PathInv,
           NEW i \in 1 .. Len(net), Doubled(net, net', i),
           hurt' = hurt \cup UnitsIn(<<net[i]>>),
           twice' = twice \cup UnitsIn(<<net[i]>>),
           UNCHANGED <<frames, fuaBuffer, out, log>>
    PROVE  PathInv'
<1> USE DEF PathInv
<1>1. /\ net \in Seq(Packets) /\ Len(net) \in Nat /\ i \in DOMAIN net
      /\ DOMAIN net = 1 .. Len(net) /\ DOMAIN net' = 1 .. (Len(net) + 1)
  BY NetShape DEF PathType, Doubled
<1>2. hurt \subseteq hurt' /\ twice \subseteq twice' /\ twice' \subseteq hurt'
  BY DEF CutInv
<1>3. \A k \in DOMAIN net' : Original(i, k) \in DOMAIN net /\ net'[k] = net[Original(i, k)]
  BY <1>1 DEF Original, Doubled
<1>4. \A k \in DOMAIN net : \E j \in DOMAIN net' : net'[j] = net[k]
  <2> SUFFICES ASSUME NEW k \in DOMAIN net
               PROVE  \E j \in DOMAIN net' : net'[j] = net[k]
    OBVIOUS
  <2> DEFINE j == IF k <= i THEN k ELSE k + 1
  <2>1. j \in DOMAIN net' /\ Original(i, j) = k
    BY <1>1 DEF Original
  <2>2. QED
    BY <1>3, <2>1
<1>5. Given' = Given /\ Sent' = Sent
  BY DEF Given, Sent
<1>6. hurt' \subseteq 1 .. Sent
  <2>1. \A u : Carries(net[i], u) => u \in 1 .. Sent
    BY <1>1 DEF Carries, CutInv, NetCut
  <2>2. QED
    BY <2>1, UnitsInOne DEF CutInv
<1>7. /\ hurt' \subseteq 1 .. Sent' /\ twice' \subseteq hurt'
      /\ \A k \in DOMAIN fuaBuffer' : fuaBuffer'[k][1] \in 1 .. Sent'
      /\ \A k \in DOMAIN Given' : \A m \in DOMAIN Given'[k] : Given'[k][m][1] \in 1 .. Sent'
      /\ GivenOrder' /\ GivenFua' /\ FuaWhole' /\ GivenWhole'
  BY <1>2, <1>5, <1>6, HurtKeepsGiven
<1>8. NetCut'
  BY <1>3, <1>5 DEF CutInv, NetCut
<1>9. NetOrder'
  <2> SUFFICES ASSUME NEW k \in DOMAIN net', NEW j \in DOMAIN net', k < j,
                      NEW m \in DOMAIN net'[k].units
               PROVE  After(hurt', twice', net'[j], net'[k].units[m], net'[k].part, net'[k].part)
    BY DEF NetOrder
  <2>1. CASE k = i /\ j = i + 1
    <3>1. net'[k] = net[i] /\ net'[j] = net[i]
      BY <1>1, <2>1 DEF Doubled
    <3>2. \A n \in DOMAIN net[i].units :
             net[i].units[n] \in hurt' /\ net[i].units[n] \in twice'
      BY UnitsInOne DEF Carries
    <3>3. QED
      BY <3>1, <3>2 DEF After, Clean
  <2>2. CASE ~(k = i /\ j = i + 1)
    <3> DEFINE a == Original(i, k)
               b == Original(i, j)
    <3>1. a < b
      BY <1>1, <2>2 DEF Original
    <3>2. a \in DOMAIN net /\ b \in DOMAIN net /\ net'[k] = net[a] /\ net'[j] = net[b]
      BY <1>3
    <3> HIDE DEF a, b
    <3>3. After(hurt, twice, net[b], net[a].units[m], net[a].part, net[a].part)
      BY <3>1, <3>2 DEF OrderInv, NetOrder
    <3>4. QED
      BY <1>2, <3>2, <3>3, AfterKeeps
  <2>3. QED
    BY <2>1, <2>2
<1>10. FuaOrder'
  <2>1. ASSUME fuaBuffer # <<>>, NEW k \in DOMAIN net'
        PROVE  After(hurt', twice', net'[k], Unit(fuaBuffer), 1, Len(fuaBuffer))
    <3> DEFINE b == Original(i, k)
    <3>1. b \in DOMAIN net /\ net'[k] = net[b]
      BY <1>3, <2>1
    <3> HIDE DEF b
    <3>2. After(hurt, twice, net[b], Unit(fuaBuffer), 1, Len(fuaBuffer))
      BY <2>1, <3>1 DEF OrderInv, FuaOrder
    <3>3. QED
      BY <1>2, <3>1, <3>2, AfterKeeps
  <2>2. QED
    BY <2>1 DEF FuaOrder
<1>11. GivenNet'
  <2>1. ASSUME NEW k \in DOMAIN Given, NEW j \in DOMAIN net'
        PROVE  After(hurt', twice', net'[j], Unit(Given[k]), 1, 3)
    <3>1. After(hurt, twice, net[Original(i, j)], Unit(Given[k]), 1, 3)
      BY <1>3, <2>1 DEF OrderInv, GivenNet
    <3>2. QED
      BY <1>2, <1>3, <3>1, AfterKeeps
  <2> HIDE DEF Given
  <2>2. QED
    BY <1>5, <2>1 DEF GivenNet
<1>12. NoneLost'
  <2> SUFFICES ASSUME NEW u \in (1 .. Sent) \ hurt'
               PROVE  Arrived(u)' \/ Assembled(u)' \/ OnTheWay(u)'
    BY <1>5 DEF NoneLost
  <2>1. \A k : Coming(net, u, k) => Coming(net', u, k)
    BY <1>4 DEF Coming
  <2>2. Arrived(u) \/ Assembled(u) \/ OnTheWay(u)
    BY <1>2 DEF WholeInv, NoneLost
  <2>3. CASE Arrived(u)
    BY <2>3 DEF Arrived, Given
  <2>4. CASE Assembled(u)
    BY <2>1, <2>4 DEF Assembled
  <2>5. CASE OnTheWay(u)
    BY <2>1, <2>5 DEF OnTheWay
  <2>6. QED
    BY <2>2, <2>3, <2>4, <2>5
<1>13. QED
  BY <1>7, <1>8, <1>9, <1>10, <1>11, <1>12 DEF CutInv, OrderInv, WholeInv

\* The end of a call takes everything that is on its way with it.
LEMMA EndKeeps ==
    ASSUME PathType, PathType', PathInv,
           hurt' = hurt \cup UnitsIn(net) \cup PiecesIn(out) \cup PiecesIn(<<fuaBuffer>>),
           net' = <<>>, out' = <<>>, fuaBuffer' = <<>>,
           UNCHANGED <<frames, twice, log>>
    PROVE  PathInv'
<1> USE DEF PathInv
<1>1. /\ log \in Seq(Units) /\ out \in Seq(Units) /\ net \in Seq(Packets)
      /\ fuaBuffer \in Seq(Pieces) /\ hurt \subseteq hurt' /\ Sent' = Sent
  BY DEF PathType, Sent
<1>2. /\ Len(log) \in Nat /\ Len(out) \in Nat
      /\ DOMAIN Given = 1 .. (Len(log) + Len(out))
      /\ \A i \in 1 .. Len(log) : Given[i] = log[i]
      /\ \A i \in 1 .. Len(out) : Given[Len(log) + i] = out[i]
      /\ \A i \in DOMAIN Given : Given[i] \in Units
  BY <1>1, GivenShape DEF Given
<1>3. Given' = log /\ DOMAIN log = 1 .. Len(log) /\ DOMAIN out = 1 .. Len(out)
  <2>1. log \o <<>> = log
    BY <1>1, ConcatEmptySeq
  <2>2. Given' = log
    BY <2>1 DEF Given
  <2>3. QED
    BY <1>1, <2>2, LenProperties
<1> HIDE DEF Given
<1>4. \A i \in DOMAIN log : i \in DOMAIN Given /\ Given[i] = log[i]
  BY <1>2, <1>3
<1>5. hurt' \subseteq 1 .. Sent
  <2>1. \A u \in UnitsIn(net) : u \in 1 .. Sent
    BY UnitsInMeans DEF CutInv, NetCut, Carries
  <2>2. ASSUME NEW u \in PiecesIn(out)
        PROVE  u \in 1 .. Sent
    <3>1. PICK i \in DOMAIN out : \E j \in DOMAIN out[i] : u = out[i][j][1]
      BY DEF PiecesIn
    <3>2. Len(log) + i \in DOMAIN Given /\ Given[Len(log) + i] = out[i]
      <4>1. i \in 1 .. Len(out)
        BY <1>3
      <4>2. Len(log) + i \in 1 .. (Len(log) + Len(out))
        BY <1>2, <4>1
      <4>3. QED
        BY <1>2, <4>1, <4>2
    <3>3. \A k \in DOMAIN Given[Len(log) + i] : Given[Len(log) + i][k][1] \in 1 .. Sent
      BY <3>2 DEF CutInv
    <3>4. QED
      BY <3>1, <3>2, <3>3
  <2>3. ASSUME NEW u \in PiecesIn(<<fuaBuffer>>)
        PROVE  u \in 1 .. Sent
    <3>1. DOMAIN <<fuaBuffer>> = {1} /\ <<fuaBuffer>>[1] = fuaBuffer
      OBVIOUS
    <3>2. \E j \in DOMAIN fuaBuffer : u = fuaBuffer[j][1]
      BY <3>1 DEF PiecesIn
    <3>3. QED
      BY <3>2 DEF CutInv
  <2>4. QED
    BY <2>1, <2>2, <2>3 DEF CutInv
<1>6. CutInv'
  <2>1. twice' \subseteq hurt'
    BY <1>1 DEF CutInv
  <2>2. QED
    BY <1>1, <1>3, <1>4, <1>5, <2>1 DEF CutInv, NetCut
<1>7. GivenOrder'
  <2>1. \A i, j \in DOMAIN log : i < j => Before(hurt', twice', Unit(log[i]), Unit(log[j]))
    <3> SUFFICES ASSUME NEW i \in DOMAIN log, NEW j \in DOMAIN log, i < j
                 PROVE  Before(hurt', twice', Unit(log[i]), Unit(log[j]))
      OBVIOUS
    <3>1. Before(hurt, twice, Unit(Given[i]), Unit(Given[j]))
      BY <1>4 DEF OrderInv, GivenOrder
    <3>2. QED
      BY <1>1, <1>4, <3>1, BeforeKeeps
  <2>2. QED
    BY <1>3, <2>1 DEF GivenOrder
<1>8. GivenWhole'
  <2>1. \A i \in DOMAIN log : Unit(log[i]) \notin hurt' => Whole(log[i])
    BY <1>1, <1>4 DEF WholeInv, GivenWhole
  <2>2. QED
    BY <1>3, <2>1 DEF GivenWhole, Whole
<1>9. NetOrder' /\ FuaOrder' /\ GivenFua' /\ GivenNet' /\ FuaWhole'
  <2>1. DOMAIN net' = {}
    OBVIOUS
  <2>2. QED
    BY <2>1 DEF NetOrder, FuaOrder, GivenFua, GivenNet, FuaWhole
<1>10. NoneLost'
  <2> SUFFICES ASSUME NEW u \in (1 .. Sent) \ hurt'
               PROVE  Arrived(u)'
    BY <1>1 DEF NoneLost
  <2>1. Arrived(u) \/ Assembled(u) \/ OnTheWay(u)
    BY <1>1 DEF WholeInv, NoneLost
  <2>2. CASE Arrived(u)
    <3>1. PICK i \in DOMAIN Given : Unit(Given[i]) = u
      BY <2>2 DEF Arrived
    <3>2. i <= Len(log)
      <4> SUFFICES ASSUME ~(i <= Len(log))
                   PROVE  FALSE
        OBVIOUS
      <4> DEFINE k == i - Len(log)
      <4>1. k \in 1 .. Len(out) /\ Len(log) + k = i
        BY <1>2
      <4> HIDE DEF k
      <4>2. out[k] = Given[i]
        BY <1>2, <4>1
      <4>3. k \in DOMAIN out /\ 1 \in DOMAIN out[k]
        <5>1. out[k] \in Seq(Pieces) /\ out[k] # <<>>
          BY <1>2, <4>2 DEF Units
        <5>2. 1 \in DOMAIN out[k]
          BY <5>1, EmptySeq, LenProperties
        <5>3. QED
          BY <1>3, <4>1, <5>2
      <4>4. out[k][1][1] \in PiecesIn(out)
        BY <4>3 DEF PiecesIn
      <4>5. QED
        BY <3>1, <4>2, <4>4 DEF Unit
    <3>3. i \in DOMAIN log /\ Unit(log[i]) = u
      BY <1>2, <1>3, <3>1, <3>2
    <3>4. QED
      BY <1>3, <3>3 DEF Arrived
  <2>3. CASE Assembled(u)
    <3>1. fuaBuffer # <<>> /\ fuaBuffer[1][1] = u
      BY <2>3 DEF Assembled, Unit
    <3>2. 1 \in DOMAIN fuaBuffer
      BY <1>1, <3>1, EmptySeq, LenProperties
    <3>3. DOMAIN <<fuaBuffer>> = {1} /\ <<fuaBuffer>>[1] = fuaBuffer
      OBVIOUS
    <3>4. u \in PiecesIn(<<fuaBuffer>>)
      BY <3>1, <3>2, <3>3 DEF PiecesIn
    <3>5. QED
      BY <3>4
  <2>4. CASE OnTheWay(u)
    <3>1. frames[u] \in 1 .. 3
      BY ElementOfSeq DEF PathType, Sent
    <3>2. 1 \in 1 .. frames[u]
      BY <3>1
    <3>3. Coming(net, u, 1)
      BY <2>4, <3>2 DEF OnTheWay
    <3>4. u \in UnitsIn(net)
      BY <3>3, UnitsInMeans DEF Coming
    <3>5. QED
      BY <3>4
  <2>5. QED
    BY <2>1, <2>2, <2>3, <2>4
<1>11. QED
  BY <1>6, <1>7, <1>8, <1>9, <1>10 DEF OrderInv, WholeInv

\* A packet leaves the network for the receive loop.
Receives ==
    /\ out = <<>> /\ Len(net) \in Nat \ {0}
    /\ Without(net, net', 1)
    /\ UNCHANGED <<frames, hurt, twice, log>>

LEMMA ReceiveFacts ==
    ASSUME PathType, PathType', PathInv, Receives
    PROVE  /\ 1 \in DOMAIN net /\ Sent' = Sent
           /\ NetCut' /\ NetOrder'
           /\ \A k \in DOMAIN net' : \A m \in DOMAIN net[1].units :
                After(hurt, twice, net'[k], net[1].units[m], net[1].part, net[1].part)
           /\ \A i \in DOMAIN Given, k \in DOMAIN net' :
                After(hurt, twice, net'[k], Unit(Given[i]), 1, 3)
           /\ fuaBuffer # <<>> =>
                \A k \in DOMAIN net' :
                    After(hurt, twice, net'[k], Unit(fuaBuffer), 1, Len(fuaBuffer))
           /\ \A u, k : Coming(net, u, k) /\ (net[1].part # k \/ ~Carries(net[1], u))
                          => Coming(net', u, k)
<1>1. /\ net \in Seq(Packets) /\ net' \in Seq(Packets) /\ Len(net) \in Nat
      /\ DOMAIN net = 1 .. Len(net) /\ 1 \in 1 .. Len(net)
  BY NetShape DEF PathType, Receives
<1>2. Without(net, net', 1) /\ UNCHANGED <<frames, hurt, twice>>
  BY DEF Receives
<1>3. \A k \in DOMAIN net' :
         Moved(1, k) \in DOMAIN net /\ Moved(1, k) # 1 /\ net'[k] = net[Moved(1, k)]
  BY <1>1, <1>2, WithoutShape
<1>4. NetCut' /\ NetOrder'
  BY <1>1, <1>2, WithoutKeepsNet DEF PathInv, CutInv, OrderInv
<1>5. ASSUME NEW k \in DOMAIN net', NEW m \in DOMAIN net[1].units
      PROVE  After(hurt, twice, net'[k], net[1].units[m], net[1].part, net[1].part)
  <2>1. Moved(1, k) \in DOMAIN net /\ 1 < Moved(1, k) /\ net'[k] = net[Moved(1, k)]
    BY <1>1, <1>3
  <2>2. QED
    BY <1>1, <2>1 DEF PathInv, OrderInv, NetOrder
<1>6. \A i \in DOMAIN Given, k \in DOMAIN net' : After(hurt, twice, net'[k], Unit(Given[i]), 1, 3)
  BY <1>3 DEF PathInv, OrderInv, GivenNet
<1>7. fuaBuffer # <<>> =>
         \A k \in DOMAIN net' : After(hurt, twice, net'[k], Unit(fuaBuffer), 1, Len(fuaBuffer))
  BY <1>3 DEF PathInv, OrderInv, FuaOrder
<1>8. \A u, k : Coming(net, u, k) /\ (net[1].part # k \/ ~Carries(net[1], u))
                  => Coming(net', u, k)
  BY <1>1, <1>2, ComingWithout
<1>9. QED
  BY <1>1, <1>2, <1>4, <1>5, <1>6, <1>7, <1>8 DEF Sent

\* While a unit that lost nothing is under assembly, the next packet with
\* video is its next piece.
LEMMA HeadPiece ==
    ASSUME PathType, PathInv, 1 \in DOMAIN net, fuaBuffer # <<>>,
           Unit(fuaBuffer) \notin hurt, NEW m \in DOMAIN net[1].units
    PROVE  net[1].units[m] = Unit(fuaBuffer) /\ net[1].part = Len(fuaBuffer) + 1
<1> DEFINE h == Unit(fuaBuffer)
           v == net[1].units[m]
<1>1. net \in Seq(Packets) /\ fuaBuffer \in Seq(Pieces)
  BY DEF PathType
<1>2. fuaBuffer \in Units /\ Len(fuaBuffer) \in Nat \ {0} /\ 1 \in DOMAIN fuaBuffer
  BY <1>1, EmptySeq, LenProperties DEF Units
<1>3. h \in 1 .. Sent /\ h \in Nat
  <2>1. h \in 1 .. Sent
    BY <1>2 DEF PathInv, CutInv, Unit
  <2>2. h \in Nat
    BY <1>2, UnitType
  <2>3. QED
    BY <2>1, <2>2
<1>4. frames[h] = 3 /\ Len(fuaBuffer) < 3
  BY DEF PathInv, WholeInv, FuaWhole
<1>5. Coming(net, h, Len(fuaBuffer) + 1)
  <2>1. Arrived(h) \/ Assembled(h) \/ OnTheWay(h)
    BY <1>3 DEF PathInv, WholeInv, NoneLost
  <2>2. ~Arrived(h)
    BY DEF Arrived, PathInv, CutInv, OrderInv, GivenFua, Before
  <2>3. CASE Assembled(h)
    <3>1. Len(fuaBuffer) + 1 \in (Len(fuaBuffer) + 1) .. frames[h]
      BY <1>2, <1>4
    <3>2. QED
      BY <2>3, <3>1 DEF Assembled
  <2>4. CASE OnTheWay(h)
    <3>1. Len(fuaBuffer) + 1 \in 1 .. frames[h]
      BY <1>2, <1>4
    <3>2. QED
      BY <2>4, <3>1 DEF OnTheWay
  <2>5. QED
    BY <2>1, <2>2, <2>3, <2>4
<1>6. PICK i \in DOMAIN net : net[i].part = Len(fuaBuffer) + 1 /\ Carries(net[i], h)
  BY <1>5 DEF Coming
<1>7. PICK j \in DOMAIN net[i].units : net[i].units[j] = h
  BY <1>6 DEF Carries
<1>8. v \in Nat /\ net[1].part \in Nat /\ Len(net) \in Nat /\ DOMAIN net = 1 .. Len(net)
  BY <1>1, NetShape
<1>9. CASE i = 1
  <2>1. net[1].part \notin {0, 1}
    BY <1>2, <1>6, <1>9
  <2>2. Made(net[1]) /\ DOMAIN net[1].units = 1 .. Len(net[1].units)
    BY <1>1, NetShape
  <2>3. Challenge.units = <<>> /\ DOMAIN net[1].units # {}
    BY DEF Challenge, Packet
  <2>4. Len(net[1].units) = 1
    BY <2>1, <2>2, <2>3 DEF Made
  <2>5. m = j
    BY <1>7, <1>9, <2>2, <2>4
  <2>6. QED
    BY <1>6, <1>7, <1>9, <2>5
<1>10. CASE i # 1
  <2>1. 1 < i
    BY <1>8, <1>10
  <2>2. After(hurt, twice, net[i], v, net[1].part, net[1].part)
    BY <2>1 DEF PathInv, OrderInv, NetOrder
  <2>3. v < h \/ (v = h /\ net[1].part < Len(fuaBuffer) + 1)
    BY <1>6, <1>7, <2>2 DEF After, Clean
  <2>4. After(hurt, twice, net[1], h, 1, Len(fuaBuffer))
    BY DEF PathInv, OrderInv, FuaOrder
  <2>5. h < v \/ (h = v /\ Len(fuaBuffer) < net[1].part)
    BY <2>4 DEF After, Clean
  <2> HIDE DEF h, v
  <2>6. QED
    BY <1>2, <1>3, <1>8, <2>3, <2>5
<1>11. QED
  BY <1>9, <1>10

\* If all the pieces of a unit are in flight, the first to come is its first.
LEMMA HeadStarts ==
    ASSUME PathType, PathInv, 1 \in DOMAIN net, NEW u \in (1 .. Sent) \ hurt,
           OnTheWay(u), Carries(net[1], u)
    PROVE  net[1].part = 1
<1> SUFFICES ASSUME net[1].part # 1
             PROVE  FALSE
  OBVIOUS
<1>1. net \in Seq(Packets) /\ frames[u] \in 1 .. 3
  BY ElementOfSeq DEF PathType, Sent
<1>2. Coming(net, u, 1)
  BY <1>1 DEF OnTheWay
<1>3. PICK i \in DOMAIN net : net[i].part = 1 /\ Carries(net[i], u)
  BY <1>2 DEF Coming
<1>4. PICK m \in DOMAIN net[1].units : net[1].units[m] = u
  BY DEF Carries
<1>5. PICK j \in DOMAIN net[i].units : net[i].units[j] = u
  BY <1>3 DEF Carries
<1>6. 1 < i
  <2>1. i # 1
    BY <1>3
  <2>2. QED
    BY <1>1, <2>1, NetShape
<1>7. After(hurt, twice, net[i], u, net[1].part, net[1].part)
  BY <1>4, <1>6 DEF PathInv, OrderInv, NetOrder
<1>8. net[1].part < 1
  BY <1>3, <1>5, <1>7 DEF After, Clean
<1>9. net[1].part \in Nat /\ Made(net[1]) /\ DOMAIN net[1].units = 1 .. Len(net[1].units)
  BY <1>1, NetShape
<1>10. net[1].part = 0
  BY <1>8, <1>9
<1>11. Challenge.units = <<>> /\ DOMAIN net[1].units # {}
  BY <1>4 DEF Challenge, Packet
<1>12. QED
  BY <1>9, <1>10, <1>11 DEF Made

\* What comes after the head comes after the buffer with the head in it.
LEMMA TailAfterBuffer ==
    ASSUME PathType, PathType', PathInv, Receives, fuaBuffer # <<>>,
           1 \in DOMAIN net[1].units,
           NEW last, Unit(fuaBuffer) \notin hurt => last = net[1].part,
           NEW k \in DOMAIN net'
    PROVE  After(hurt, twice, net'[k], Unit(fuaBuffer), 1, last)
<1> DEFINE h == Unit(fuaBuffer)
<1>1. After(hurt, twice, net'[k], h, 1, Len(fuaBuffer))
  BY ReceiveFacts
<1> SUFFICES ASSUME NEW n \in DOMAIN net'[k].units
             PROVE  /\ Clean(hurt, h, net'[k].units[n]) =>
                         h < net'[k].units[n] \/ (h = net'[k].units[n] /\ last < net'[k].part)
                    /\ net'[k].part = 1 => h # net'[k].units[n] \/ h \in twice
  BY DEF After
<1>2. net'[k].part = 1 => h # net'[k].units[n] \/ h \in twice
  BY <1>1 DEF After
<1>3. ASSUME Clean(hurt, h, net'[k].units[n])
      PROVE  h < net'[k].units[n] \/ (h = net'[k].units[n] /\ last < net'[k].part)
  <2>1. h < net'[k].units[n] \/ h = net'[k].units[n]
    BY <1>1, <1>3 DEF After
  <2>2. CASE h = net'[k].units[n]
    <3>1. h \notin hurt
      BY <1>3, <2>2 DEF Clean
    <3>2. net[1].units[1] = h
      BY <3>1, HeadPiece, ReceiveFacts
    <3>3. After(hurt, twice, net'[k], h, net[1].part, net[1].part)
      BY <3>2, ReceiveFacts
    <3>4. h < net'[k].units[n] \/ (h = net'[k].units[n] /\ net[1].part < net'[k].part)
      BY <1>3, <3>3 DEF After
    <3>5. QED
      BY <3>1, <3>4
  <2>3. QED
    BY <2>1, <2>2
<1>4. QED
  BY <1>2, <1>3

\* Units that push returns join those handed out before.
LEMMA HandOut ==
    ASSUME PathType, PathType', PathInv, Receives,
           \A j \in DOMAIN out' : \A k \in DOMAIN out'[j] : out'[j][k][1] \in 1 .. Sent,
           \A j, k \in DOMAIN out' :
               j < k => Before(hurt, twice, Unit(out'[j]), Unit(out'[k])),
           \A i \in DOMAIN Given, j \in DOMAIN out' :
               Before(hurt, twice, Unit(Given[i]), Unit(out'[j])),
           \A j \in DOMAIN out', k \in DOMAIN net' :
               After(hurt, twice, net'[k], Unit(out'[j]), 1, 3),
           \A j \in DOMAIN out' : Unit(out'[j]) \notin hurt => Whole(out'[j])
    PROVE  /\ \A i \in DOMAIN Given' : \A k \in DOMAIN Given'[i] : Given'[i][k][1] \in 1 .. Sent'
           /\ GivenOrder' /\ GivenNet' /\ GivenWhole'
           /\ \A u : Arrived(u) => Arrived(u)'
           /\ \A j \in DOMAIN out' : \E i \in DOMAIN Given' : Unit(Given'[i]) = Unit(out'[j])
           /\ out' = <<>> => Given' = Given
<1>1. /\ log \in Seq(Units) /\ out' \in Seq(Units) /\ log' = log /\ out = <<>>
      /\ UNCHANGED <<frames, hurt, twice>>
  BY DEF PathType, Receives
<1>2. Given = log /\ Given' = log \o out'
  <2>1. log \o <<>> = log
    BY <1>1, ConcatEmptySeq
  <2>2. QED
    BY <1>1, <2>1 DEF Given
<1>3. /\ Len(log) \in Nat /\ Len(out') \in Nat
      /\ DOMAIN log = 1 .. Len(log) /\ DOMAIN out' = 1 .. Len(out')
      /\ DOMAIN Given' = 1 .. (Len(log) + Len(out'))
      /\ \A i \in 1 .. Len(log) : Given'[i] = log[i]
      /\ \A j \in 1 .. Len(out') : Given'[Len(log) + j] = out'[j]
  BY <1>1, <1>2, GivenShape, LenProperties
<1>4. \A i \in DOMAIN Given : i \in DOMAIN Given' /\ Given'[i] = Given[i] /\ i <= Len(log)
  BY <1>2, <1>3
<1>5. \A j \in DOMAIN out' : Len(log) + j \in DOMAIN Given' /\ Given'[Len(log) + j] = out'[j]
  BY <1>3
<1>6. \A i \in DOMAIN Given' :
         \/ i \in DOMAIN Given
         \/ \E j \in DOMAIN out' : i = Len(log) + j /\ Given'[i] = out'[j]
  <2> SUFFICES ASSUME NEW i \in DOMAIN Given', i \notin DOMAIN Given
               PROVE  \E j \in DOMAIN out' : i = Len(log) + j /\ Given'[i] = out'[j]
    OBVIOUS
  <2> DEFINE j == i - Len(log)
  <2>1. j \in 1 .. Len(out') /\ i = Len(log) + j
    BY <1>2, <1>3
  <2> HIDE DEF j
  <2>2. QED
    BY <1>3, <2>1
<1> HIDE DEF Given
<1>7. \A i \in DOMAIN Given' : \A k \in DOMAIN Given'[i] : Given'[i][k][1] \in 1 .. Sent
  <2> SUFFICES ASSUME NEW i \in DOMAIN Given', NEW k \in DOMAIN Given'[i]
               PROVE  Given'[i][k][1] \in 1 .. Sent
    OBVIOUS
  <2>1. CASE i \in DOMAIN Given
    BY <1>4, <2>1 DEF PathInv, CutInv
  <2>2. CASE \E j \in DOMAIN out' : i = Len(log) + j /\ Given'[i] = out'[j]
    BY <2>2
  <2>3. QED
    BY <1>6, <2>1, <2>2
<1>8. \A i, k \in DOMAIN Given' : i < k => Before(hurt, twice, Unit(Given'[i]), Unit(Given'[k]))
  <2> SUFFICES ASSUME NEW i \in DOMAIN Given', NEW k \in DOMAIN Given', i < k
               PROVE  Before(hurt, twice, Unit(Given'[i]), Unit(Given'[k]))
    OBVIOUS
  <2>1. CASE i \in DOMAIN Given /\ k \in DOMAIN Given
    BY <1>4, <2>1 DEF PathInv, OrderInv, GivenOrder
  <2>2. CASE i \in DOMAIN Given /\ k \notin DOMAIN Given
    <3>1. PICK j \in DOMAIN out' : Given'[k] = out'[j]
      BY <1>6, <2>2
    <3>2. QED
      BY <1>4, <2>2, <3>1
  <2>3. CASE i \notin DOMAIN Given
    <3>1. PICK j \in DOMAIN out' : i = Len(log) + j /\ Given'[i] = out'[j]
      BY <1>6, <2>3
    <3>2. k \notin DOMAIN Given
      BY <1>3, <1>4, <3>1
    <3>3. PICK n \in DOMAIN out' : k = Len(log) + n /\ Given'[k] = out'[n]
      BY <1>6, <3>2
    <3>4. j < n
      BY <1>3, <3>1, <3>3
    <3>5. QED
      BY <3>1, <3>3, <3>4
  <2>4. QED
    BY <2>1, <2>2, <2>3
<1>9. \A i \in DOMAIN Given', k \in DOMAIN net' : After(hurt, twice, net'[k], Unit(Given'[i]), 1, 3)
  <2> SUFFICES ASSUME NEW i \in DOMAIN Given', NEW k \in DOMAIN net'
               PROVE  After(hurt, twice, net'[k], Unit(Given'[i]), 1, 3)
    OBVIOUS
  <2>1. CASE i \in DOMAIN Given
    BY <1>4, <2>1, ReceiveFacts
  <2>2. CASE i \notin DOMAIN Given
    BY <1>6, <2>2
  <2>3. QED
    BY <2>1, <2>2
<1>10. \A i \in DOMAIN Given' : Unit(Given'[i]) \notin hurt => Whole(Given'[i])
  <2> SUFFICES ASSUME NEW i \in DOMAIN Given', Unit(Given'[i]) \notin hurt
               PROVE  Whole(Given'[i])
    OBVIOUS
  <2>1. CASE i \in DOMAIN Given
    BY <1>4, <2>1 DEF PathInv, WholeInv, GivenWhole
  <2>2. CASE i \notin DOMAIN Given
    BY <1>6, <2>2
  <2>3. QED
    BY <2>1, <2>2
<1>11. GivenOrder' /\ GivenNet'
  BY <1>1, <1>8, <1>9 DEF GivenOrder, GivenNet
<1>12. GivenWhole'
  BY <1>1, <1>10 DEF GivenWhole, Whole
<1>13. \A u : Arrived(u) => Arrived(u)'
  BY <1>4 DEF Arrived
<1>14. \A j \in DOMAIN out' : \E i \in DOMAIN Given' : Unit(Given'[i]) = Unit(out'[j])
  BY <1>5
<1>15. out' = <<>> => Given' = Given
  BY <1>1, <1>2, ConcatEmptySeq
<1>16. QED
  BY <1>1, <1>7, <1>11, <1>12, <1>13, <1>14, <1>15 DEF Sent

\* Units complete in one packet.
LEMMA UnitsKeep ==
    ASSUME PathType, PathType', PathInv, Receives, PushesUnits(net[1])
    PROVE  PathInv'
<1> DEFINE p == net[1]
<1>1. /\ 1 \in DOMAIN net /\ Sent' = Sent /\ NetCut' /\ NetOrder'
      /\ \A k \in DOMAIN net' : \A m \in DOMAIN p.units :
            After(hurt, twice, net'[k], p.units[m], p.part, p.part)
      /\ \A u, k : Coming(net, u, k) /\ (p.part # k \/ ~Carries(p, u)) => Coming(net', u, k)
  BY ReceiveFacts
<1>2. /\ p.kind \in {"nal", "stap"} /\ fuaBuffer' = <<>> /\ Len(out') = Len(p.units)
      /\ \A j \in 1 .. Len(p.units) : out'[j] = <<<<p.units[j], 1>>>>
  BY DEF PushesUnits
<1>3. net \in Seq(Packets) /\ net' \in Seq(Packets) /\ out' \in Seq(Units)
      /\ UNCHANGED <<frames, hurt, twice>>
  BY DEF PathType, Receives
<1>4. /\ Made(p) /\ Len(p.units) \in Nat /\ DOMAIN p.units = 1 .. Len(p.units)
      /\ \A j \in DOMAIN p.units : p.units[j] \in Nat
  BY <1>1, <1>3, NetShape
<1> HIDE DEF p
<1>5. /\ p.part = 1 /\ 1 \in DOMAIN p.units
      /\ \A j, k \in DOMAIN p.units : j < k => p.units[j] < p.units[k]
  <2>1. CASE p.kind = "nal"
    <3>1. Len(p.units) = 1 /\ p.part = 1
      BY <1>4, <2>1 DEF Made, Challenge, Packet
    <3>2. QED
      BY <1>4, <3>1
  <2>2. CASE p.kind = "stap"
    <3>1. Len(p.units) = 2 /\ p.part = 1 /\ p.units[1] < p.units[2]
      BY <1>4, <2>2 DEF Made, Challenge, Packet
    <3>2. \A j, k \in DOMAIN p.units : j < k => j = 1 /\ k = 2
      BY <1>4, <3>1
    <3>3. QED
      BY <1>4, <3>1, <3>2
  <2>3. QED
    BY <1>2, <2>1, <2>2
<1>6. DOMAIN out' = DOMAIN p.units
  BY <1>2, <1>3, <1>4, LenProperties
<1>7. \A j \in DOMAIN out' :
         /\ Unit(out'[j]) = p.units[j] /\ DOMAIN out'[j] = {1}
         /\ out'[j] = <<<<p.units[j], 1>>>>
  BY <1>2, <1>4, <1>6 DEF Unit
<1>8. \A j \in DOMAIN p.units : p.units[j] \in 1 .. Sent /\ frames[p.units[j]] = 1
  BY <1>1, <1>2 DEF PathInv, CutInv, NetCut, p
<1>9. \A j \in DOMAIN out' : \A k \in DOMAIN out'[j] : out'[j][k][1] \in 1 .. Sent
  BY <1>6, <1>7, <1>8
<1>10. \A j, k \in DOMAIN out' : j < k => Before(hurt, twice, Unit(out'[j]), Unit(out'[k]))
  <2> SUFFICES ASSUME NEW j \in DOMAIN out', NEW k \in DOMAIN out', j < k
               PROVE  Before(hurt, twice, Unit(out'[j]), Unit(out'[k]))
    OBVIOUS
  <2>1. p.units[j] < p.units[k] /\ p.units[j] \in Nat /\ p.units[k] \in Nat
    BY <1>4, <1>5, <1>6
  <2>2. p.units[j] # p.units[k]
    BY <2>1
  <2>3. QED
    BY <1>7, <2>1, <2>2 DEF Before
<1>11. \A i \in DOMAIN Given, j \in DOMAIN out' : Before(hurt, twice, Unit(Given[i]), Unit(out'[j]))
  <2> SUFFICES ASSUME NEW i \in DOMAIN Given, NEW j \in DOMAIN out'
               PROVE  Before(hurt, twice, Unit(Given[i]), p.units[j])
    BY <1>7
  <2>1. After(hurt, twice, p, Unit(Given[i]), 1, 3)
    BY <1>1 DEF PathInv, OrderInv, GivenNet, p
  <2>2. ~(3 < p.part)
    BY <1>5
  <2>3. QED
    BY <1>5, <1>6, <2>1, <2>2 DEF After, Before
<1>12. \A j \in DOMAIN out', k \in DOMAIN net' : After(hurt, twice, net'[k], Unit(out'[j]), 1, 3)
  <2> SUFFICES ASSUME NEW j \in DOMAIN out', NEW k \in DOMAIN net'
               PROVE  After(hurt, twice, net'[k], p.units[j], 1, 3)
    BY <1>7
  <2>1. After(hurt, twice, net'[k], p.units[j], 1, 1)
    BY <1>1, <1>5, <1>6
  <2>2. \A n \in DOMAIN net'[k].units :
           net'[k].units[n] = p.units[j] => net'[k].part = 1
    <3> SUFFICES ASSUME NEW n \in DOMAIN net'[k].units, net'[k].units[n] = p.units[j]
                 PROVE  net'[k].part = 1
      OBVIOUS
    <3>1. frames[net'[k].units[n]] = IF net'[k].kind = "fua" THEN 3 ELSE 1
      BY <1>1, <1>3 DEF NetCut
    <3>2. net'[k].kind # "fua"
      BY <1>6, <1>8, <3>1
    <3>3. Made(net'[k]) /\ DOMAIN net'[k].units = 1 .. Len(net'[k].units)
      BY <1>3, NetShape
    <3>4. DOMAIN net'[k].units # {} /\ Challenge.units = <<>>
      BY DEF Challenge, Packet
    <3>5. QED
      BY <3>2, <3>3, <3>4 DEF Made
  <2>3. QED
    BY <2>1, <2>2 DEF After
<1>13. \A j \in DOMAIN out' : Unit(out'[j]) \notin hurt => Whole(out'[j])
  <2> SUFFICES ASSUME NEW j \in DOMAIN out'
               PROVE  Whole(out'[j])
    OBVIOUS
  <2>1. frames[Unit(out'[j])] = 1
    BY <1>6, <1>7, <1>8
  <2>2. <<<<p.units[j], 1>>>> = [i \in 1 .. 1 |-> <<p.units[j], i>>]
    OBVIOUS
  <2>3. QED
    BY <1>7, <2>1, <2>2 DEF Whole
<1>14. /\ \A i \in DOMAIN Given' : \A k \in DOMAIN Given'[i] : Given'[i][k][1] \in 1 .. Sent'
       /\ GivenOrder' /\ GivenNet' /\ GivenWhole'
       /\ \A u : Arrived(u) => Arrived(u)'
       /\ \A j \in DOMAIN out' : \E i \in DOMAIN Given' : Unit(Given'[i]) = Unit(out'[j])
  BY <1>9, <1>10, <1>11, <1>12, <1>13, HandOut
<1>15. FuaOrder' /\ GivenFua' /\ FuaWhole'
  BY <1>2 DEF FuaOrder, GivenFua, FuaWhole
<1>16. CutInv'
  <2>1. \A k \in DOMAIN fuaBuffer' : fuaBuffer'[k][1] \in 1 .. Sent'
    BY <1>2
  <2>2. hurt' \subseteq 1 .. Sent' /\ twice' \subseteq hurt'
    BY <1>1, <1>3 DEF PathInv, CutInv
  <2>3. QED
    BY <1>1, <1>14, <2>1, <2>2 DEF CutInv
<1>17. NoneLost'
  <2> SUFFICES ASSUME NEW u \in (1 .. Sent) \ hurt
               PROVE  Arrived(u)' \/ Assembled(u)' \/ OnTheWay(u)'
    BY <1>1, <1>3 DEF NoneLost
  <2>1. CASE Arrived(u)
    BY <1>14, <2>1
  <2>2. ~Assembled(u)
    <3> SUFFICES ASSUME Assembled(u)
                 PROVE  FALSE
      OBVIOUS
    <3>1. fuaBuffer # <<>> /\ Unit(fuaBuffer) \notin hurt
      BY DEF Assembled
    <3>2. p.part = Len(fuaBuffer) + 1
      BY <1>1, <1>5, <3>1, HeadPiece DEF p
    <3>3. Len(fuaBuffer) \in Nat \ {0}
      BY <3>1, EmptySeq DEF PathType
    <3>4. QED
      BY <1>5, <3>2, <3>3
  <2>3. CASE OnTheWay(u) /\ ~Carries(p, u)
    <3>1. \A k : Coming(net, u, k) => Coming(net', u, k)
      BY <1>1, <2>3
    <3>2. QED
      BY <1>3, <2>3, <3>1 DEF OnTheWay
  <2>4. CASE Carries(p, u)
    <3>1. PICK j \in DOMAIN p.units : p.units[j] = u
      BY <2>4 DEF Carries
    <3>2. \E i \in DOMAIN Given' : Unit(Given'[i]) = u
      BY <1>6, <1>7, <1>14, <3>1
    <3>3. QED
      BY <3>2 DEF Arrived
  <2>5. QED
    BY <2>1, <2>2, <2>3, <2>4 DEF PathInv, WholeInv, NoneLost
<1>18. QED
  BY <1>1, <1>14, <1>15, <1>16, <1>17 DEF PathInv, OrderInv, WholeInv

\* With nothing handed out, the units handed out before stay as they are.
LEMMA NoHandOut ==
    ASSUME PathType, PathType', PathInv, Receives, out' = <<>>
    PROVE  /\ \A i \in DOMAIN Given' : \A k \in DOMAIN Given'[i] : Given'[i][k][1] \in 1 .. Sent'
           /\ GivenOrder' /\ GivenNet' /\ GivenWhole'
           /\ \A u : Arrived(u) => Arrived(u)'
           /\ Given' = Given
<1>1. DOMAIN out' = {}
  OBVIOUS
<1>2. QED
  BY <1>1, HandOut

\* A packet without video, or a fragment whose unit was given up.
LEMMA NothingKeeps ==
    ASSUME PathType, PathType', PathInv, Receives, PushesNothing(net[1])
    PROVE  PathInv'
<1> DEFINE p == net[1]
<1>1. /\ 1 \in DOMAIN net /\ Sent' = Sent /\ NetCut' /\ NetOrder'
      /\ fuaBuffer # <<>> =>
           \A k \in DOMAIN net' : After(hurt, twice, net'[k], Unit(fuaBuffer), 1, Len(fuaBuffer))
      /\ \A u, k : Coming(net, u, k) /\ (p.part # k \/ ~Carries(p, u)) => Coming(net', u, k)
  BY ReceiveFacts
<1>2. /\ p.units = <<>> \/ (p.part # 1 /\ fuaBuffer = <<>>)
      /\ fuaBuffer' = fuaBuffer /\ out' = <<>>
      /\ UNCHANGED <<frames, hurt, twice>>
  BY DEF PushesNothing, Receives
<1> HIDE DEF p
<1>3. /\ \A i \in DOMAIN Given' : \A k \in DOMAIN Given'[i] : Given'[i][k][1] \in 1 .. Sent'
      /\ GivenOrder' /\ GivenNet' /\ GivenWhole'
      /\ \A u : Arrived(u) => Arrived(u)'
      /\ Given' = Given
  BY <1>2, NoHandOut
<1>4. CutInv'
  BY <1>1, <1>2, <1>3 DEF PathInv, CutInv
<1>5. FuaOrder'
  BY <1>1, <1>2 DEF FuaOrder
<1>6. GivenFua' /\ FuaWhole'
  <2> HIDE DEF Given
  <2>1. QED
    BY <1>2, <1>3 DEF PathInv, OrderInv, WholeInv, GivenFua, FuaWhole
<1>7. NoneLost'
  <2> SUFFICES ASSUME NEW u \in (1 .. Sent) \ hurt
               PROVE  Arrived(u)' \/ Assembled(u)' \/ OnTheWay(u)'
    BY <1>1, <1>2 DEF NoneLost
  <2>1. CASE Arrived(u)
    BY <1>3, <2>1
  <2>2. CASE p.units = <<>>
    <3>1. ~Carries(p, u)
      BY <2>2 DEF Carries
    <3>2. \A k : Coming(net, u, k) => Coming(net', u, k)
      BY <1>1, <3>1
    <3>3. QED
      BY <1>2, <2>1, <3>2 DEF PathInv, WholeInv, NoneLost, Assembled, OnTheWay
  <2>3. CASE p.part # 1 /\ fuaBuffer = <<>>
    <3>1. ~Assembled(u)
      BY <2>3 DEF Assembled
    <3>2. CASE OnTheWay(u)
      <4>1. ~Carries(p, u)
        BY <1>1, <2>3, <3>2, HeadStarts DEF p
      <4>2. \A k : Coming(net, u, k) => Coming(net', u, k)
        BY <1>1, <4>1
      <4>3. QED
        BY <1>2, <3>2, <4>2 DEF OnTheWay
    <3>3. QED
      BY <2>1, <3>1, <3>2 DEF PathInv, WholeInv, NoneLost
  <2>4. QED
    BY <1>2, <2>2, <2>3
<1>8. QED
  BY <1>1, <1>3, <1>4, <1>5, <1>6, <1>7 DEF PathInv, OrderInv, WholeInv

\* What the fragment at the head carries.
LEMMA FragmentShape ==
    ASSUME PathType, PathInv, 1 \in DOMAIN net, net[1].kind = "fua"
    PROVE  /\ net[1].part \in 1 .. 3
           /\ DOMAIN net[1].units = {1}
           /\ net[1].units[1] \in Nat /\ net[1].units[1] \in 1 .. Sent
           /\ frames[net[1].units[1]] = 3
           /\ \A u : Carries(net[1], u) <=> u = net[1].units[1]
<1>1. net \in Seq(Packets)
  BY DEF PathType
<1>2. /\ Made(net[1]) /\ DOMAIN net[1].units = 1 .. Len(net[1].units)
      /\ \A j \in DOMAIN net[1].units : net[1].units[j] \in Nat
  BY <1>1, NetShape
<1>3. Len(net[1].units) = 1 /\ net[1].part \in 1 .. 3
  BY <1>2 DEF Made, Challenge, Packet
<1>4. DOMAIN net[1].units = {1}
  BY <1>2, <1>3
<1>5. \A u : Carries(net[1], u) <=> u = net[1].units[1]
  BY <1>4 DEF Carries
<1>6. net[1].units[1] \in 1 .. Sent /\ frames[net[1].units[1]] = 3
  BY <1>4 DEF PathInv, CutInv, NetCut
<1>7. QED
  BY <1>2, <1>3, <1>4, <1>5, <1>6

\* The first piece of a unit: what was under assembly is given up.
LEMMA StartKeeps ==
    ASSUME PathType, PathType', PathInv, Receives, PushesStart(net[1])
    PROVE  PathInv'
<1> DEFINE p == net[1]
           h == net[1].units[1]
<1>1. /\ 1 \in DOMAIN net /\ Sent' = Sent /\ NetCut' /\ NetOrder'
      /\ \A k \in DOMAIN net' : \A m \in DOMAIN p.units :
            After(hurt, twice, net'[k], p.units[m], p.part, p.part)
      /\ \A u, k : Coming(net, u, k) /\ (p.part # k \/ ~Carries(p, u)) => Coming(net', u, k)
  BY ReceiveFacts
<1>2. /\ p.kind = "fua" /\ p.part = 1 /\ fuaBuffer' = <<<<h, 1>>>> /\ out' = <<>>
      /\ UNCHANGED <<frames, hurt, twice>>
  BY DEF PushesStart, Receives
<1>3. /\ DOMAIN p.units = {1} /\ h \in Nat /\ h \in 1 .. Sent /\ frames[h] = 3
      /\ \A u : Carries(p, u) <=> u = h
  BY <1>1, <1>2, FragmentShape
<1>4. /\ Unit(fuaBuffer') = h /\ Len(fuaBuffer') = 1 /\ DOMAIN fuaBuffer' = {1}
      /\ fuaBuffer' # <<>> /\ fuaBuffer'[1] = <<h, 1>>
  BY <1>2 DEF Unit
<1>5. /\ \A i \in DOMAIN Given' : \A k \in DOMAIN Given'[i] : Given'[i][k][1] \in 1 .. Sent'
      /\ GivenOrder' /\ GivenNet' /\ GivenWhole'
      /\ \A u : Arrived(u) => Arrived(u)'
      /\ Given' = Given
  BY <1>2, NoHandOut
<1>6. CutInv'
  <2>1. \A k \in DOMAIN fuaBuffer' : fuaBuffer'[k][1] \in 1 .. Sent'
    BY <1>1, <1>3, <1>4
  <2>2. hurt' \subseteq 1 .. Sent' /\ twice' \subseteq hurt'
    BY <1>1, <1>2 DEF PathInv, CutInv
  <2>3. QED
    BY <1>1, <1>5, <2>1, <2>2 DEF CutInv
<1>7. FuaOrder'
  <2>1. \A k \in DOMAIN net' : After(hurt, twice, net'[k], h, 1, 1)
    BY <1>1, <1>2, <1>3
  <2> HIDE DEF h
  <2>2. QED
    BY <1>2, <1>4, <2>1 DEF FuaOrder
<1>8. GivenFua'
  <2>1. \A i \in DOMAIN Given : Before(hurt, twice, Unit(Given[i]), h)
    <3> SUFFICES ASSUME NEW i \in DOMAIN Given
                 PROVE  Before(hurt, twice, Unit(Given[i]), h)
      OBVIOUS
    <3>1. After(hurt, twice, p, Unit(Given[i]), 1, 3)
      BY <1>1 DEF PathInv, OrderInv, GivenNet
    <3>2. ~(3 < p.part)
      BY <1>2
    <3>3. QED
      BY <1>2, <1>3, <3>1, <3>2 DEF After, Before
  <2> HIDE DEF h, Given
  <2>2. QED
    BY <1>2, <1>4, <1>5, <2>1 DEF GivenFua
<1>9. FuaWhole'
  <2> HIDE DEF h
  <2>1. QED
    BY <1>2, <1>3, <1>4 DEF FuaWhole
<1>10. NoneLost'
  <2> SUFFICES ASSUME NEW u \in (1 .. Sent) \ hurt
               PROVE  Arrived(u)' \/ Assembled(u)' \/ OnTheWay(u)'
    BY <1>1, <1>2 DEF NoneLost
  <2>1. CASE Arrived(u)
    BY <1>5, <2>1
  <2>2. ~Assembled(u)
    <3> SUFFICES ASSUME Assembled(u)
                 PROVE  FALSE
      OBVIOUS
    <3>1. fuaBuffer # <<>> /\ Unit(fuaBuffer) \notin hurt
      BY DEF Assembled
    <3>2. p.part = Len(fuaBuffer) + 1
      BY <1>1, <1>3, <3>1, HeadPiece
    <3>3. Len(fuaBuffer) \in Nat \ {0}
      BY <3>1, EmptySeq DEF PathType
    <3>4. QED
      BY <1>2, <3>2, <3>3
  <2>3. CASE OnTheWay(u) /\ u # h
    <3>1. \A k : Coming(net, u, k) => Coming(net', u, k)
      BY <1>1, <1>3, <2>3
    <3>2. QED
      BY <1>2, <2>3, <3>1 DEF OnTheWay
  <2>4. CASE OnTheWay(u) /\ u = h
    <3>1. \A k \in 2 .. frames[u] : Coming(net', u, k)
      <4> SUFFICES ASSUME NEW k \in 2 .. frames[u]
                   PROVE  Coming(net', u, k)
        OBVIOUS
      <4>1. k \in 1 .. frames[u] /\ k # 1
        BY <1>3, <2>4
      <4>2. QED
        BY <1>1, <1>2, <2>4, <4>1 DEF OnTheWay
    <3> HIDE DEF h
    <3>2. Assembled(u)'
      BY <1>2, <1>4, <2>4, <3>1 DEF Assembled
    <3>3. QED
      BY <3>2
  <2>5. QED
    BY <2>1, <2>2, <2>3, <2>4 DEF PathInv, WholeInv, NoneLost
<1>11. QED
  BY <1>1, <1>5, <1>6, <1>7, <1>8, <1>9, <1>10 DEF PathInv, OrderInv, WholeInv

\* A unit on the way has no piece at the head, if that is not its first.
LEMMA LaterPieceKeeps ==
    ASSUME PathType, PathType', PathInv, Receives, net[1].part # 1,
           NEW u \in (1 .. Sent) \ hurt, OnTheWay(u)
    PROVE  OnTheWay(u)'
<1>1. 1 \in DOMAIN net /\ UNCHANGED frames
  BY ReceiveFacts DEF Receives
<1>2. ~Carries(net[1], u)
  BY <1>1, HeadStarts
<1>3. \A k : Coming(net, u, k) => Coming(net', u, k)
  BY <1>2, ReceiveFacts
<1>4. QED
  BY <1>1, <1>3 DEF OnTheWay

\* What the buffer is with one more piece.
LEMMA BufferGrows ==
    ASSUME NEW b \in Seq(Pieces), b # <<>>, NEW x \in Pieces
    PROVE  /\ Len(b) \in Nat \ {0} /\ DOMAIN b = 1 .. Len(b)
           /\ Append(b, x) \in Seq(Pieces) /\ Append(b, x) # <<>>
           /\ Len(Append(b, x)) = Len(b) + 1
           /\ DOMAIN Append(b, x) = 1 .. (Len(b) + 1)
           /\ \A i \in 1 .. Len(b) : Append(b, x)[i] = b[i]
           /\ Append(b, x)[Len(b) + 1] = x
           /\ Unit(Append(b, x)) = Unit(b)
<1>1. Len(b) \in Nat \ {0} /\ DOMAIN b = 1 .. Len(b)
  BY EmptySeq, LenProperties
<1>2. /\ Append(b, x) \in Seq(Pieces) /\ Append(b, x) # <<>>
      /\ Len(Append(b, x)) = Len(b) + 1
      /\ \A i \in 1 .. Len(b) : Append(b, x)[i] = b[i]
      /\ Append(b, x)[Len(b) + 1] = x
  BY AppendProperties
<1>3. DOMAIN Append(b, x) = 1 .. (Len(b) + 1)
  BY <1>2, LenProperties
<1>4. Append(b, x)[1] = b[1]
  BY <1>1, <1>2
<1>5. QED
  BY <1>1, <1>2, <1>3, <1>4 DEF Unit

\* A middle piece joins the unit under assembly.
LEMMA MiddleKeeps ==
    ASSUME PathType, PathType', PathInv, Receives, PushesMiddle(net[1])
    PROVE  PathInv'
<1> DEFINE v == net[1].units[1]
           h == Unit(fuaBuffer)
<1>1. /\ 1 \in DOMAIN net /\ Sent' = Sent /\ NetCut' /\ NetOrder'
      /\ \A u, k : Coming(net, u, k) /\ (net[1].part # k \/ ~Carries(net[1], u))
                     => Coming(net', u, k)
  BY ReceiveFacts
<1>2. /\ net[1].kind = "fua" /\ net[1].part = 2 /\ fuaBuffer # <<>>
      /\ fuaBuffer' = Append(fuaBuffer, <<v, 2>>) /\ out' = <<>>
      /\ UNCHANGED <<frames, hurt, twice>>
  BY DEF PushesMiddle, Receives
<1>3. DOMAIN net[1].units = {1} /\ v \in Nat /\ v \in 1 .. Sent
  BY <1>1, <1>2, FragmentShape
<1>4. /\ Len(fuaBuffer) \in Nat \ {0} /\ DOMAIN fuaBuffer = 1 .. Len(fuaBuffer)
      /\ fuaBuffer' # <<>> /\ Len(fuaBuffer') = Len(fuaBuffer) + 1
      /\ DOMAIN fuaBuffer' = 1 .. (Len(fuaBuffer) + 1)
      /\ \A i \in 1 .. Len(fuaBuffer) : fuaBuffer'[i] = fuaBuffer[i]
      /\ fuaBuffer'[Len(fuaBuffer) + 1] = <<v, 2>>
      /\ Unit(fuaBuffer') = h
  <2>1. fuaBuffer \in Seq(Pieces) /\ <<v, 2>> \in Pieces
    BY <1>3 DEF PathType, Pieces
  <2>2. QED
    BY <1>2, <2>1, BufferGrows
<1>5. h \notin hurt => v = h /\ Len(fuaBuffer) = 1
  <2>1. h \notin hurt => v = h /\ 2 = Len(fuaBuffer) + 1
    BY <1>1, <1>2, <1>3, HeadPiece
  <2> HIDE DEF h, v
  <2>2. QED
    BY <1>4, <2>1
<1>6. /\ \A i \in DOMAIN Given' : \A k \in DOMAIN Given'[i] : Given'[i][k][1] \in 1 .. Sent'
      /\ GivenOrder' /\ GivenNet' /\ GivenWhole'
      /\ \A u : Arrived(u) => Arrived(u)'
      /\ Given' = Given
  BY <1>2, NoHandOut
<1>7. CutInv'
  <2>1. \A k \in DOMAIN fuaBuffer' : fuaBuffer'[k][1] \in 1 .. Sent'
    <3> SUFFICES ASSUME NEW k \in DOMAIN fuaBuffer'
                 PROVE  fuaBuffer'[k][1] \in 1 .. Sent
      BY <1>1
    <3>1. CASE k \in 1 .. Len(fuaBuffer)
      BY <1>4, <3>1 DEF PathInv, CutInv
    <3>2. CASE k = Len(fuaBuffer) + 1
      BY <1>3, <1>4, <3>2
    <3>3. QED
      BY <1>4, <3>1, <3>2
  <2>2. hurt' \subseteq 1 .. Sent' /\ twice' \subseteq hurt'
    BY <1>1, <1>2 DEF PathInv, CutInv
  <2>3. QED
    BY <1>1, <1>6, <2>1, <2>2 DEF CutInv
<1>8. FuaOrder'
  <2>1. h \notin hurt => Len(fuaBuffer) + 1 = net[1].part
    <3>1. net[1].part = 2
      BY <1>2
    <3>2. h \notin hurt => Len(fuaBuffer) = 1
      BY <1>5
    <3> SUFFICES ASSUME h \notin hurt
                 PROVE  Len(fuaBuffer) + 1 = net[1].part
      OBVIOUS
    <3>3. Len(fuaBuffer) = 1
      BY <3>2
    <3> HIDE DEF h
    <3>4. QED
      BY <3>1, <3>3
  <2>2. \A k \in DOMAIN net' : After(hurt, twice, net'[k], h, 1, Len(fuaBuffer) + 1)
    BY <1>2, <1>3, <2>1, TailAfterBuffer
  <2> HIDE DEF h
  <2>3. QED
    BY <1>2, <1>4, <2>2 DEF FuaOrder
<1>9. GivenFua'
  <2>1. \A i \in DOMAIN Given : Before(hurt, twice, Unit(Given[i]), h)
    BY <1>2 DEF PathInv, OrderInv, GivenFua
  <2> HIDE DEF h, Given
  <2>2. QED
    BY <1>2, <1>4, <1>6, <2>1 DEF GivenFua
<1>10. FuaWhole'
  <2> SUFFICES ASSUME h \notin hurt
               PROVE  /\ frames[h] = 3 /\ Len(fuaBuffer') < 3
                      /\ \A i \in DOMAIN fuaBuffer' : fuaBuffer'[i] = <<h, i>>
    <3> HIDE DEF h
    <3>1. QED
      BY <1>2, <1>4 DEF FuaWhole
  <2>1. /\ frames[h] = 3 /\ fuaBuffer[1] = <<h, 1>> /\ 1 \in DOMAIN fuaBuffer
    BY <1>2, <1>4 DEF PathInv, WholeInv, FuaWhole
  <2>2. v = h /\ Len(fuaBuffer) = 1
    BY <1>5
  <2> HIDE DEF h, v
  <2>3. /\ Len(fuaBuffer') = 2 /\ DOMAIN fuaBuffer' = 1 .. 2
        /\ fuaBuffer'[1] = <<h, 1>> /\ fuaBuffer'[2] = <<h, 2>>
    BY <1>4, <2>1, <2>2
  <2>4. QED
    BY <2>1, <2>3
<1>11. NoneLost'
  <2> SUFFICES ASSUME NEW u \in (1 .. Sent) \ hurt
               PROVE  Arrived(u)' \/ Assembled(u)' \/ OnTheWay(u)'
    BY <1>1, <1>2 DEF NoneLost
  <2>1. CASE Arrived(u)
    BY <1>6, <2>1
  <2>2. CASE Assembled(u)
    <3>1. u = h /\ Len(fuaBuffer) = 1
      BY <1>5, <2>2 DEF Assembled
    <3>2. \A k \in 3 .. frames[u] : Coming(net', u, k)
      <4> SUFFICES ASSUME NEW k \in 3 .. frames[u]
                   PROVE  Coming(net', u, k)
        OBVIOUS
      <4>1. k \in 2 .. frames[u] /\ k # 2
        BY <3>1 DEF PathInv, WholeInv, FuaWhole
      <4>2. QED
        BY <1>1, <1>2, <2>2, <3>1, <4>1 DEF Assembled
    <3> HIDE DEF h
    <3>3. Assembled(u)'
      BY <1>2, <1>4, <3>1, <3>2 DEF Assembled
    <3>4. QED
      BY <3>3
  <2>3. CASE OnTheWay(u)
    BY <1>2, <2>3, LaterPieceKeeps
  <2>4. QED
    BY <2>1, <2>2, <2>3 DEF PathInv, WholeInv, NoneLost
<1>12. QED
  BY <1>1, <1>6, <1>7, <1>8, <1>9, <1>10, <1>11 DEF PathInv, OrderInv, WholeInv

\* The last piece: the unit is handed out.
LEMMA EndPieceKeeps ==
    ASSUME PathType, PathType', PathInv, Receives, PushesEnd(net[1])
    PROVE  PathInv'
<1> DEFINE v == net[1].units[1]
           h == Unit(fuaBuffer)
           b == Append(fuaBuffer, <<v, 3>>)
<1>1. /\ 1 \in DOMAIN net /\ Sent' = Sent /\ NetCut' /\ NetOrder'
  BY ReceiveFacts
<1>2. /\ net[1].kind = "fua" /\ net[1].part = 3 /\ fuaBuffer # <<>>
      /\ fuaBuffer' = <<>> /\ out' = <<b>>
      /\ UNCHANGED <<frames, hurt, twice>>
  BY DEF PushesEnd, Receives
<1>3. DOMAIN net[1].units = {1} /\ v \in Nat /\ v \in 1 .. Sent
  BY <1>1, <1>2, FragmentShape
<1>4. /\ Len(fuaBuffer) \in Nat \ {0} /\ DOMAIN fuaBuffer = 1 .. Len(fuaBuffer)
      /\ b \in Seq(Pieces) /\ Len(b) = Len(fuaBuffer) + 1
      /\ DOMAIN b = 1 .. (Len(fuaBuffer) + 1)
      /\ \A i \in 1 .. Len(fuaBuffer) : b[i] = fuaBuffer[i]
      /\ b[Len(fuaBuffer) + 1] = <<v, 3>>
      /\ Unit(b) = h
  <2>1. fuaBuffer \in Seq(Pieces) /\ <<v, 3>> \in Pieces
    BY <1>3 DEF PathType, Pieces
  <2>2. QED
    BY <1>2, <2>1, BufferGrows
<1>5. h \notin hurt => v = h /\ Len(fuaBuffer) = 2
  <2>1. h \notin hurt => v = h /\ 3 = Len(fuaBuffer) + 1
    BY <1>1, <1>2, <1>3, HeadPiece
  <2> HIDE DEF h, v
  <2>2. QED
    BY <1>4, <2>1
<1>6. \A k \in DOMAIN b : b[k][1] \in 1 .. Sent
  <2> SUFFICES ASSUME NEW k \in DOMAIN b
               PROVE  b[k][1] \in 1 .. Sent
    OBVIOUS
  <2>1. CASE k \in 1 .. Len(fuaBuffer)
    BY <1>4, <2>1 DEF PathInv, CutInv
  <2>2. CASE k = Len(fuaBuffer) + 1
    BY <1>3, <1>4, <2>2
  <2>3. QED
    BY <1>4, <2>1, <2>2
<1>7. \A i \in DOMAIN Given : Before(hurt, twice, Unit(Given[i]), h)
  BY <1>2 DEF PathInv, OrderInv, GivenFua
<1>8. \A k \in DOMAIN net' : After(hurt, twice, net'[k], h, 1, 3)
  BY <1>2, <1>3, TailAfterBuffer
<1>9. h \notin hurt => Whole(b)
  <2> SUFFICES ASSUME h \notin hurt
               PROVE  Whole(b)
    OBVIOUS
  <2>1. frames[h] = 3 /\ \A i \in DOMAIN fuaBuffer : fuaBuffer[i] = <<h, i>>
    BY <1>2 DEF PathInv, WholeInv, FuaWhole
  <2>2. v = h /\ Len(fuaBuffer) = 2
    BY <1>5
  <2> HIDE DEF h, v, b
  <2>3. DOMAIN b = 1 .. 3 /\ b[1] = <<h, 1>> /\ b[2] = <<h, 2>> /\ b[3] = <<h, 3>>
    BY <1>4, <2>1, <2>2
  <2>4. \A i \in 1 .. 3 : b[i] = <<h, i>>
    BY <2>3
  <2>5. b = [i \in DOMAIN b |-> b[i]]
    BY <1>4, LenProperties
  <2>6. b = [i \in 1 .. 3 |-> <<h, i>>]
    BY <2>3, <2>4, <2>5
  <2>7. QED
    BY <1>4, <2>1, <2>6 DEF Whole
<1> HIDE DEF b, h, v
<1>10. DOMAIN out' = {1} /\ out'[1] = b
  BY <1>2
<1>11. /\ \A i \in DOMAIN Given' : \A k \in DOMAIN Given'[i] : Given'[i][k][1] \in 1 .. Sent'
       /\ GivenOrder' /\ GivenNet' /\ GivenWhole'
       /\ \A u : Arrived(u) => Arrived(u)'
       /\ \A j \in DOMAIN out' : \E i \in DOMAIN Given' : Unit(Given'[i]) = Unit(out'[j])
  <2>1. \A j \in DOMAIN out' : \A k \in DOMAIN out'[j] : out'[j][k][1] \in 1 .. Sent
    BY <1>6, <1>10
  <2>2. \A j, k \in DOMAIN out' : j < k => Before(hurt, twice, Unit(out'[j]), Unit(out'[k]))
    BY <1>10
  <2>3. \A i \in DOMAIN Given, j \in DOMAIN out' : Before(hurt, twice, Unit(Given[i]), Unit(out'[j]))
    BY <1>4, <1>7, <1>10
  <2>4. \A j \in DOMAIN out', k \in DOMAIN net' : After(hurt, twice, net'[k], Unit(out'[j]), 1, 3)
    BY <1>4, <1>8, <1>10
  <2>5. \A j \in DOMAIN out' : Unit(out'[j]) \notin hurt => Whole(out'[j])
    BY <1>4, <1>9, <1>10
  <2>6. QED
    BY <2>1, <2>2, <2>3, <2>4, <2>5, HandOut
<1>12. FuaOrder' /\ GivenFua' /\ FuaWhole'
  BY <1>2 DEF FuaOrder, GivenFua, FuaWhole
<1>13. CutInv'
  <2>1. \A k \in DOMAIN fuaBuffer' : fuaBuffer'[k][1] \in 1 .. Sent'
    BY <1>2
  <2>2. hurt' \subseteq 1 .. Sent' /\ twice' \subseteq hurt'
    BY <1>1, <1>2 DEF PathInv, CutInv
  <2>3. QED
    BY <1>1, <1>11, <2>1, <2>2 DEF CutInv
<1>14. NoneLost'
  <2> SUFFICES ASSUME NEW u \in (1 .. Sent) \ hurt
               PROVE  Arrived(u)' \/ OnTheWay(u)'
    BY <1>1, <1>2 DEF NoneLost
  <2>1. CASE Arrived(u)
    BY <1>11, <2>1
  <2>2. CASE Assembled(u)
    <3>1. u = h
      BY <2>2 DEF Assembled, h
    <3>2. \E i \in DOMAIN Given' : Unit(Given'[i]) = u
      BY <1>4, <1>10, <1>11, <3>1
    <3>3. QED
      BY <3>2 DEF Arrived
  <2>3. CASE OnTheWay(u)
    BY <1>2, <2>3, LaterPieceKeeps
  <2>4. QED
    BY <2>1, <2>2, <2>3 DEF PathInv, WholeInv, NoneLost
<1>15. QED
  BY <1>1, <1>11, <1>12, <1>13, <1>14 DEF PathInv, OrderInv, WholeInv

\* r is t behind s.
Joins(s, t, r) ==
    /\ Len(s) \in Nat /\ Len(t) \in Nat /\ Len(r) = Len(s) + Len(t)
    /\ DOMAIN s = 1 .. Len(s) /\ DOMAIN t = 1 .. Len(t)
    /\ DOMAIN r = 1 .. (Len(s) + Len(t))
    /\ \A i \in DOMAIN s : i \in DOMAIN r /\ r[i] = s[i]
    /\ \A i \in DOMAIN t : Len(s) + i \in DOMAIN r /\ r[Len(s) + i] = t[i]
    /\ \A i \in DOMAIN r : i \in DOMAIN s \/ \E j \in DOMAIN t : i = Len(s) + j

LEMMA Joined ==
    ASSUME NEW S, NEW s \in Seq(S), NEW t \in Seq(S)
    PROVE  Joins(s, t, s \o t)
<1>1. /\ s \o t \in Seq(S) /\ Len(s \o t) = Len(s) + Len(t)
      /\ \A i \in 1 .. (Len(s) + Len(t)) :
            (s \o t)[i] = IF i <= Len(s) THEN s[i] ELSE t[i - Len(s)]
  BY ConcatProperties
<1>2. /\ Len(s) \in Nat /\ Len(t) \in Nat
      /\ DOMAIN s = 1 .. Len(s) /\ DOMAIN t = 1 .. Len(t)
      /\ DOMAIN (s \o t) = 1 .. (Len(s) + Len(t))
  BY <1>1, LenProperties
<1>3. \A i \in DOMAIN s : i \in DOMAIN (s \o t) /\ (s \o t)[i] = s[i]
  BY <1>1, <1>2
<1>4. ASSUME NEW i \in DOMAIN t
      PROVE  Len(s) + i \in DOMAIN (s \o t) /\ (s \o t)[Len(s) + i] = t[i]
  <2>1. Len(s) + i \in 1 .. (Len(s) + Len(t)) /\ ~(Len(s) + i <= Len(s)) /\ (Len(s) + i) - Len(s) = i
    BY <1>2
  <2>2. QED
    BY <1>1, <1>2, <2>1
<1>5. ASSUME NEW i \in DOMAIN (s \o t), i \notin DOMAIN s
      PROVE  \E j \in DOMAIN t : i = Len(s) + j
  <2>1. i - Len(s) \in DOMAIN t /\ i = Len(s) + (i - Len(s))
    BY <1>2, <1>5
  <2>2. QED
    BY <2>1
<1>6. QED
  BY <1>1, <1>2, <1>3, <1>4, <1>5 DEF Joins

\* Packets carry new units, cut into as many pieces as they say ...
AreNew(packets, pieces) ==
    \A k \in DOMAIN packets : \A j \in DOMAIN packets[k].units :
        \E n \in DOMAIN pieces :
            /\ packets[k].units[j] = Sent + n
            /\ pieces[n] = IF packets[k].kind = "fua" THEN 3 ELSE 1

\* ... a later one carries a later unit or piece ...
InOrder(packets) ==
    \A j, k \in DOMAIN packets : j < k =>
        \A m \in DOMAIN packets[j].units :
            After(hurt, twice, packets[k], packets[j].units[m], packets[j].part,
                  packets[j].part)

\* ... and no piece is missing.
Complete(packets, pieces) ==
    \A n \in DOMAIN pieces :
        \A k \in 1 .. pieces[n] : Coming(packets, Sent + n, k)

\* New packets, complete and in order, follow what is on the way.
LEMMA SendKeeps ==
    ASSUME PathType, PathType', PathInv,
           NEW pieces \in Seq(1 .. 3), NEW packets \in Seq(Packets),
           net' = net \o packets, frames' = frames \o pieces,
           UNCHANGED <<hurt, twice, fuaBuffer, out, log>>,
           AreNew(packets, pieces), InOrder(packets), Complete(packets, pieces)
    PROVE  PathInv'
<1>1. frames \in Seq(1 .. 3) /\ net \in Seq(Packets)
  BY DEF PathType
<1>2. /\ Sent \in Nat /\ Sent' = Sent + Len(pieces) /\ Len(pieces) \in Nat
      /\ DOMAIN pieces = 1 .. Len(pieces)
      /\ \A u \in 1 .. Sent : u \in 1 .. Sent' /\ frames'[u] = frames[u]
      /\ \A n \in DOMAIN pieces : Sent + n \in 1 .. Sent' /\ frames'[Sent + n] = pieces[n]
      /\ \A u \in 1 .. Sent' : u \in 1 .. Sent \/ \E n \in DOMAIN pieces : u = Sent + n
  <2>1. Joins(frames, pieces, frames')
    BY <1>1, Joined
  <2>2. DOMAIN frames = 1 .. Sent /\ DOMAIN frames' = 1 .. Sent'
    BY <2>1 DEF Joins, Sent
  <2>3. QED
    BY <2>1, <2>2 DEF Joins, Sent
<1>3. /\ Len(net) \in Nat /\ DOMAIN net = 1 .. Len(net) /\ DOMAIN packets = 1 .. Len(packets)
      /\ Len(packets) \in Nat
      /\ \A i \in DOMAIN net : i \in DOMAIN net' /\ net'[i] = net[i]
      /\ \A i \in DOMAIN packets :
            Len(net) + i \in DOMAIN net' /\ net'[Len(net) + i] = packets[i]
      /\ \A i \in DOMAIN net' :
            i \in DOMAIN net \/ \E j \in DOMAIN packets : i = Len(net) + j
  <2>1. Joins(net, packets, net')
    BY <1>1, Joined
  <2>2. QED
    BY <2>1 DEF Joins
<1>4. Given' = Given /\ \A i \in DOMAIN Given : Given[i] \in Units
  <2>1. log \in Seq(Units) /\ out \in Seq(Units)
    BY DEF PathType
  <2>2. QED
    BY <2>1, GivenShape DEF Given
<1> HIDE DEF Given
<1>5. ASSUME NEW u \in 1 .. Sent, NEW k \in DOMAIN packets, NEW first, NEW last
      PROVE  After(hurt, twice, packets[k], u, first, last)
  <2> SUFFICES ASSUME NEW j \in DOMAIN packets[k].units
               PROVE  u < packets[k].units[j] /\ u # packets[k].units[j]
    BY DEF After
  <2>1. PICK n \in DOMAIN pieces : packets[k].units[j] = Sent + n
    BY DEF AreNew
  <2>2. n \in Nat \ {0} /\ u \in Nat /\ u <= Sent /\ Sent \in Nat
    BY <1>2
  <2>3. u < Sent + n /\ u # Sent + n
    BY <2>2
  <2>4. QED
    BY <2>1, <2>3
<1>6. NetCut'
  <2> SUFFICES ASSUME NEW i \in DOMAIN net', NEW j \in DOMAIN net'[i].units
               PROVE  /\ net'[i].units[j] \in 1 .. Sent'
                      /\ frames'[net'[i].units[j]] = IF net'[i].kind = "fua" THEN 3 ELSE 1
    BY DEF NetCut
  <2>1. CASE i \in DOMAIN net
    <3>1. net'[i] = net[i] /\ j \in DOMAIN net[i].units
      BY <1>3, <2>1
    <3>2. NetCut
      BY DEF PathInv, CutInv
    <3>3. /\ net[i].units[j] \in 1 .. Sent
          /\ frames[net[i].units[j]] = IF net[i].kind = "fua" THEN 3 ELSE 1
      BY <2>1, <3>1, <3>2 DEF NetCut
    <3>4. /\ net[i].units[j] \in 1 .. Sent'
          /\ frames'[net[i].units[j]] = frames[net[i].units[j]]
      BY <1>2, <3>3
    <3>5. QED
      BY <3>1, <3>3, <3>4
  <2>2. CASE i \notin DOMAIN net
    <3>1. PICK k \in DOMAIN packets : i = Len(net) + k
      BY <1>3, <2>2
    <3>2. net'[i] = packets[k]
      BY <1>3, <3>1
    <3>3. PICK n \in DOMAIN pieces : /\ packets[k].units[j] = Sent + n
                                     /\ pieces[n] = IF packets[k].kind = "fua" THEN 3 ELSE 1
      BY <3>2 DEF AreNew
    <3>4. Sent + n \in 1 .. Sent' /\ frames'[Sent + n] = pieces[n]
      BY <1>2
    <3>5. QED
      BY <3>2, <3>3, <3>4
  <2>3. QED
    BY <2>1, <2>2
<1>7. NetOrder'
  <2> SUFFICES ASSUME NEW i \in DOMAIN net', NEW j \in DOMAIN net', i < j,
                      NEW m \in DOMAIN net'[i].units
               PROVE  After(hurt', twice', net'[j], net'[i].units[m], net'[i].part, net'[i].part)
    BY DEF NetOrder
  <2>1. CASE i \in DOMAIN net /\ j \in DOMAIN net
    <3>1. After(hurt, twice, net[j], net[i].units[m], net[i].part, net[i].part)
      BY <1>3, <2>1 DEF PathInv, OrderInv, NetOrder
    <3>2. QED
      BY <1>3, <2>1, <3>1
  <2>2. CASE i \in DOMAIN net /\ j \notin DOMAIN net
    <3>1. PICK k \in DOMAIN packets : j = Len(net) + k /\ net'[j] = packets[k]
      BY <1>3, <2>2
    <3>2. net[i].units[m] \in 1 .. Sent
      BY <1>3, <2>2 DEF PathInv, CutInv, NetCut
    <3>3. After(hurt, twice, packets[k], net[i].units[m], net[i].part, net[i].part)
      BY <1>5, <3>2
    <3>4. QED
      BY <1>3, <2>2, <3>1, <3>3
  <2>3. CASE i \notin DOMAIN net
    <3>1. PICK k \in DOMAIN packets : i = Len(net) + k /\ net'[i] = packets[k]
      BY <1>3, <2>3
    <3>2. j \notin DOMAIN net
      BY <1>3, <3>1
    <3>3. PICK n \in DOMAIN packets : j = Len(net) + n /\ net'[j] = packets[n]
      BY <1>3, <3>2
    <3>4. k < n
      BY <1>3, <3>1, <3>3
    <3>5. After(hurt, twice, packets[n], packets[k].units[m], packets[k].part, packets[k].part)
      BY <3>1, <3>4 DEF InOrder
    <3>6. QED
      BY <3>1, <3>3, <3>5
  <2>4. QED
    BY <2>1, <2>2, <2>3
<1>8. \A i \in DOMAIN Given : Unit(Given[i]) \in 1 .. Sent
  <2> SUFFICES ASSUME NEW i \in DOMAIN Given
               PROVE  Unit(Given[i]) \in 1 .. Sent
    OBVIOUS
  <2>1. Given[i] \in Units
    BY <1>4
  <2>2. 1 \in DOMAIN Given[i]
    BY <2>1, EmptySeq, LenProperties DEF Units
  <2>3. QED
    BY <2>2 DEF PathInv, CutInv, Unit
<1>9. fuaBuffer # <<>> => Unit(fuaBuffer) \in 1 .. Sent
  <2>1. fuaBuffer # <<>> => 1 \in DOMAIN fuaBuffer
    BY EmptySeq, LenProperties DEF PathType
  <2>2. QED
    BY <2>1 DEF PathInv, CutInv, Unit
<1>10. CutInv'
  <2>1. hurt' \subseteq 1 .. Sent' /\ twice' \subseteq hurt'
    BY <1>2 DEF PathInv, CutInv
  <2>2. \A k \in DOMAIN fuaBuffer' : fuaBuffer'[k][1] \in 1 .. Sent'
    BY <1>2 DEF PathInv, CutInv
  <2>3. \A i \in DOMAIN Given' : \A k \in DOMAIN Given'[i] : Given'[i][k][1] \in 1 .. Sent'
    BY <1>2, <1>4 DEF PathInv, CutInv
  <2>4. QED
    BY <1>6, <2>1, <2>2, <2>3 DEF CutInv
<1>11. FuaOrder'
  <2>1. ASSUME fuaBuffer # <<>>, NEW k \in DOMAIN net'
        PROVE  After(hurt, twice, net'[k], Unit(fuaBuffer), 1, Len(fuaBuffer))
    <3>1. CASE k \in DOMAIN net
      BY <1>3, <2>1, <3>1 DEF PathInv, OrderInv, FuaOrder
    <3>2. CASE k \notin DOMAIN net
      BY <1>3, <1>5, <1>9, <2>1, <3>2
    <3>3. QED
      BY <3>1, <3>2
  <2>2. QED
    BY <2>1 DEF FuaOrder
<1>12. GivenNet'
  <2>1. ASSUME NEW i \in DOMAIN Given, NEW k \in DOMAIN net'
        PROVE  After(hurt, twice, net'[k], Unit(Given[i]), 1, 3)
    <3>1. CASE k \in DOMAIN net
      BY <1>3, <2>1, <3>1 DEF PathInv, OrderInv, GivenNet
    <3>2. CASE k \notin DOMAIN net
      BY <1>3, <1>5, <1>8, <2>1, <3>2
    <3>3. QED
      BY <3>1, <3>2
  <2>2. QED
    BY <1>4, <2>1 DEF GivenNet
<1>13. GivenOrder' /\ GivenFua'
  BY <1>4 DEF PathInv, OrderInv, GivenOrder, GivenFua
<1>14. FuaWhole'
  BY <1>2, <1>9 DEF PathInv, WholeInv, FuaWhole
<1>15. GivenWhole'
  <2>1. \A i \in DOMAIN Given : Unit(Given[i]) \notin hurt =>
           Given[i] = [k \in 1 .. frames[Unit(Given[i])] |-> <<Unit(Given[i]), k>>]
    BY DEF PathInv, WholeInv, GivenWhole, Whole
  <2>2. \A i \in DOMAIN Given : frames'[Unit(Given[i])] = frames[Unit(Given[i])]
    BY <1>2, <1>8
  <2>3. QED
    BY <1>4, <2>1, <2>2 DEF GivenWhole, Whole
<1>16. NoneLost'
  <2> SUFFICES ASSUME NEW u \in (1 .. Sent') \ hurt
               PROVE  Arrived(u)' \/ Assembled(u)' \/ OnTheWay(u)'
    BY DEF NoneLost
  <2>1. \A k : Coming(net, u, k) => Coming(net', u, k)
    BY <1>3 DEF Coming
  <2>2. \A k : Coming(packets, u, k) => Coming(net', u, k)
    BY <1>3 DEF Coming
  <2>3. CASE u \in 1 .. Sent
    <3>1. frames'[u] = frames[u]
      BY <1>2, <2>3
    <3>2. Arrived(u) \/ Assembled(u) \/ OnTheWay(u)
      BY <2>3 DEF PathInv, WholeInv, NoneLost
    <3>3. CASE Arrived(u)
      BY <1>4, <3>3 DEF Arrived
    <3>4. CASE Assembled(u)
      BY <2>1, <3>1, <3>4 DEF Assembled
    <3>5. CASE OnTheWay(u)
      BY <2>1, <3>1, <3>5 DEF OnTheWay
    <3>6. QED
      BY <3>2, <3>3, <3>4, <3>5
  <2>4. CASE u \notin 1 .. Sent
    <3>1. PICK n \in DOMAIN pieces : u = Sent + n
      BY <1>2, <2>4
    <3>2. frames'[u] = pieces[n]
      BY <1>2, <3>1
    <3>3. \A k \in 1 .. pieces[n] : Coming(packets, u, k)
      BY <3>1 DEF Complete
    <3>4. QED
      BY <2>2, <3>2, <3>3 DEF OnTheWay
  <2>5. QED
    BY <2>3, <2>4
<1>17. QED
  BY <1>7, <1>10, <1>11, <1>12, <1>13, <1>14, <1>15, <1>16 DEF PathInv, OrderInv, WholeInv

\* The base's packets are new, complete and in order.
LEMMA BaseKeeps ==
    ASSUME PathType, PathInv, BaseStep
    PROVE  PathInv'
<1>1. PathType' /\ UNCHANGED <<hurt, twice, fuaBuffer, out, log>>
  BY BaseType
<1>2. Sent \in Nat /\ frames \in Seq(1 .. 3)
  BY LenProperties DEF PathType, Sent
<1> DEFINE Single == Packet("nal", <<Sent + 1>>, 1, 1)
           Pair == Packet("stap", <<Sent + 1, Sent + 2>>, 1, 1)
           Odd == Packet("odd", <<>>, 1, 1)
           Fragment(i) == Packet("fua", <<Sent + 1>>, i, 3)
           Fragments == [i \in 1 .. 3 |-> Fragment(i)]
<1>3. Single \in Packets /\ Pair \in Packets /\ Odd \in Packets /\ Challenge \in Packets
  BY <1>2 DEF Packet, Packets, PacketShape, Made, Challenge
<1>4. Fragments \in Seq(Packets) /\ DOMAIN Fragments = 1 .. 3
  <2>1. \A i \in 1 .. 3 : Fragment(i) \in Packets
    BY <1>2 DEF Packet, Packets, PacketShape, Made
  <2>2. Fragments \in [1 .. 3 -> Packets]
    BY <2>1
  <2>3. QED
    BY <2>2, SeqDef
<1>5. CASE BaseSendsSingle
  <2> DEFINE pieces == <<1>>
             packets == <<Single>>
  <2>1. pieces \in Seq(1 .. 3) /\ packets \in Seq(Packets)
    BY <1>3
  <2>2. net' = net \o packets /\ frames' = frames \o pieces
    BY <1>5 DEF BaseSendsSingle, BaseSends, Goes
  <2>3. /\ DOMAIN packets = {1} /\ packets[1] = Single
        /\ DOMAIN pieces = {1} /\ pieces[1] = 1
        /\ Single.units = <<Sent + 1>> /\ DOMAIN Single.units = {1}
        /\ Single.units[1] = Sent + 1 /\ Single.kind = "nal" /\ Single.part = 1
    BY DEF Packet
  <2> HIDE DEF pieces, packets, Single
  <2>4. AreNew(packets, pieces)
    BY <2>3 DEF AreNew
  <2>5. InOrder(packets)
    BY <2>3 DEF InOrder
  <2>6. Complete(packets, pieces)
    BY <2>3 DEF Complete, Coming, Carries
  <2>7. QED
    BY <1>1, <2>1, <2>2, <2>4, <2>5, <2>6, SendKeeps
<1>6. CASE BaseSendsAggregate
  <2> DEFINE pieces == <<1, 1>>
             packets == <<Pair>>
  <2>1. pieces \in Seq(1 .. 3) /\ packets \in Seq(Packets)
    BY <1>3
  <2>2. net' = net \o packets /\ frames' = frames \o pieces
    BY <1>6 DEF BaseSendsAggregate, BaseSends, Goes
  <2>3. /\ DOMAIN packets = {1} /\ packets[1] = Pair
        /\ DOMAIN pieces = {1, 2} /\ pieces[1] = 1 /\ pieces[2] = 1
        /\ DOMAIN Pair.units = {1, 2}
        /\ Pair.units[1] = Sent + 1 /\ Pair.units[2] = Sent + 2
        /\ Pair.kind = "stap" /\ Pair.part = 1
    BY DEF Packet
  <2> HIDE DEF pieces, packets, Pair
  <2>4. AreNew(packets, pieces)
    BY <2>3 DEF AreNew
  <2>5. InOrder(packets)
    BY <2>3 DEF InOrder
  <2>6. Complete(packets, pieces)
    BY <2>3 DEF Complete, Coming, Carries
  <2>7. QED
    BY <1>1, <2>1, <2>2, <2>4, <2>5, <2>6, SendKeeps
<1>7. CASE BaseSendsFragments
  <2> DEFINE pieces == <<3>>
  <2>1. pieces \in Seq(1 .. 3)
    OBVIOUS
  <2>2. net' = net \o Fragments /\ frames' = frames \o pieces
    BY <1>7 DEF BaseSendsFragments, BaseSends, Goes
  <2>3. /\ DOMAIN pieces = {1} /\ pieces[1] = 3
        /\ \A i \in 1 .. 3 :
              /\ DOMAIN Fragments[i].units = {1} /\ Fragments[i].units[1] = Sent + 1
              /\ Fragments[i].kind = "fua" /\ Fragments[i].part = i
    BY DEF Packet
  <2> HIDE DEF pieces, Fragments
  <2>4. AreNew(Fragments, pieces)
    BY <1>4, <2>3 DEF AreNew
  <2>5. InOrder(Fragments)
    <3> SUFFICES ASSUME NEW j \in 1 .. 3, NEW k \in 1 .. 3, j < k
                 PROVE  After(hurt, twice, Fragments[k], Sent + 1, j, j)
      BY <1>4, <2>3 DEF InOrder
    <3>1. ~(j = 1 /\ k = 1)
      OBVIOUS
    <3>2. QED
      BY <2>3, <3>1 DEF After
  <2>6. Complete(Fragments, pieces)
    BY <1>4, <2>3 DEF Complete, Coming, Carries
  <2>7. QED
    BY <1>1, <1>4, <2>1, <2>2, <2>4, <2>5, <2>6, SendKeeps
<1>8. ASSUME NEW p \in Packets, p.units = <<>>, net' = net \o <<p>>, frames' = frames
      PROVE  PathInv'
  <2> DEFINE pieces == <<>>
             packets == <<p>>
  <2>1. pieces \in Seq(1 .. 3) /\ packets \in Seq(Packets)
    BY <1>8
  <2>2. net' = net \o packets /\ frames' = frames \o pieces
    BY <1>2, <1>8, ConcatEmptySeq
  <2>3. DOMAIN packets = {1} /\ packets[1] = p /\ DOMAIN p.units = {} /\ DOMAIN pieces = {}
    BY <1>8
  <2> HIDE DEF pieces, packets
  <2>4. AreNew(packets, pieces)
    BY <2>3 DEF AreNew
  <2>5. InOrder(packets)
    BY <2>3 DEF InOrder
  <2>6. Complete(packets, pieces)
    BY <2>3 DEF Complete
  <2>7. QED
    BY <1>1, <2>1, <2>2, <2>4, <2>5, <2>6, SendKeeps
<1>9. CASE BaseSendsOdd
  <2>1. net' = net \o <<Odd>> /\ frames' = frames \o <<>>
    BY <1>9 DEF BaseSendsOdd, BaseSends, Goes
  <2>2. frames' = frames
    BY <1>2, <2>1, ConcatEmptySeq
  <2>3. Odd.units = <<>>
    BY DEF Packet
  <2> HIDE DEF Odd
  <2>4. QED
    BY <1>3, <1>8, <2>1, <2>2, <2>3
<1>10. CASE BaseAsks
  <2>1. net' = net \o <<Challenge>> /\ frames' = frames
    BY <1>10 DEF BaseAsks, Goes, baseVars
  <2>2. Challenge.units = <<>>
    BY DEF Packet, Challenge
  <2>3. QED
    BY <1>3, <1>8, <2>1, <2>2
<1>11. QED
  BY <1>5, <1>6, <1>7, <1>9, <1>10 DEF BaseStep

\* Nothing of the path changes but the mark between out and log.
LEMMA SameGivenKeeps ==
    ASSUME PathInv, UNCHANGED <<frames, net, hurt, twice, fuaBuffer, Given>>
    PROVE  PathInv'
<1> HIDE DEF Given
<1>1. CutInv'
  BY DEF PathInv, CutInv, NetCut, Sent
<1>2. OrderInv'
  BY DEF PathInv, OrderInv, NetOrder, FuaOrder, GivenOrder, GivenFua, GivenNet
<1>3. FuaWhole' /\ GivenWhole'
  BY DEF PathInv, WholeInv, FuaWhole, GivenWhole, Whole
<1>4. NoneLost'
  BY DEF PathInv, WholeInv, NoneLost, Arrived, Assembled, OnTheWay, Sent
<1>5. QED
  BY <1>1, <1>2, <1>3, <1>4 DEF PathInv, WholeInv

LEMMA ReceiveKeeps ==
    ASSUME PathType, PathType', PathInv, Receives, Pushes(net[1])
    PROVE  PathInv'
BY UnitsKeep, NothingKeeps, StartKeeps, MiddleKeeps, EndPieceKeeps DEF Pushes

LEMMA PathStep ==
    ASSUME PathType, ViewType, PathInv, [Next]_videoVars
    PROVE  PathInv'
<1>1. CASE BaseStep
  BY <1>1, BaseKeeps
<1>2. CASE NetStep
  <2>1. PathType' /\ net' \in Seq(Packets) /\ UNCHANGED <<frames, fuaBuffer, out, log>>
    BY <1>2, NetStepType DEF PathType
  <2>2. \/ \E i \in 1 .. Len(net) :
             /\ Without(net, net', i)
             /\ hurt' = hurt \cup UnitsIn(<<net[i]>>) /\ twice' = twice
        \/ \E i \in 1 .. (Len(net) - 1) :
             /\ Swapped(net, net', i)
             /\ hurt' = IF <<>> \in {net[i].units, net[i + 1].units}
                          THEN hurt ELSE hurt \cup UnitsIn(<<net[i], net[i + 1]>>)
             /\ twice' = twice
        \/ \E i \in 1 .. Len(net) :
             /\ Doubled(net, net', i)
             /\ hurt' = hurt \cup UnitsIn(<<net[i]>>)
             /\ twice' = twice \cup UnitsIn(<<net[i]>>)
    BY <1>2, NetStepType
  <2>3. QED
    BY <2>1, <2>2, LoseKeeps, DisplaceKeeps, DoubleKeeps
<1>3. CASE LoopStarts \/ Keepalive \/ LoopEnds
  <2>1. /\ PathType' /\ UNCHANGED <<frames, log>>
        /\ \/ UNCHANGED <<net, hurt, twice, fuaBuffer, out>>
           \/ /\ hurt' = hurt \cup UnitsIn(net) \cup PiecesIn(out)
                           \cup PiecesIn(<<fuaBuffer>>)
              /\ twice' = twice
              /\ net' = <<>> /\ out' = <<>> /\ fuaBuffer' = <<>>
    BY <1>3, LoopEdgeType
  <2>2. CASE UNCHANGED <<net, hurt, twice, fuaBuffer, out>>
    BY <2>1, <2>2, SameGivenKeeps DEF Given
  <2>3. CASE /\ hurt' = hurt \cup UnitsIn(net) \cup PiecesIn(out)
                           \cup PiecesIn(<<fuaBuffer>>)
             /\ twice' = twice
             /\ net' = <<>> /\ out' = <<>> /\ fuaBuffer' = <<>>
    BY <2>1, <2>3, EndKeeps
  <2>4. QED
    BY <2>1, <2>2, <2>3
<1>4. CASE ReceiveMedia
  BY <1>4, ReceiveMediaType, ReceiveKeeps DEF Receives
<1>5. CASE AnswerChallenge
  BY <1>5, AnswerChallengeType, ReceiveKeeps DEF Receives
<1>6. CASE FanOut
  BY <1>6, FanOutType, SameGivenKeeps
<1>7. ASSUME NEW q \in Request, FeederStep(q) \/ RequestStep(q)
      PROVE  PathInv'
  BY <1>7, RequestStepType, SameGivenKeeps DEF Given
<1>8. CASE UNCHANGED videoVars
  BY <1>8, SameGivenKeeps DEF videoVars, baseVars, netVars, loopVars, Given
<1>9. QED
  BY <1>1, <1>2, <1>3, <1>4, <1>5, <1>6, <1>7, <1>8 DEF Next, LoopStep

-----------------------------------------------------------------------------
(* What a viewer is given implements NalStream.                            *)

LEMMA ViewStep ==
    ASSUME PathType, ViewType, ViewInv, [Next]_videoVars
    PROVE  ViewInv'
<1>1. /\ Len(log) \in Nat /\ DOMAIN log = 1 .. Len(log)
      /\ \A q \in Request : cursor[q] \in Nat /\ cursor[q] <= Len(log)
  BY LenProperties DEF PathType, ViewType
<1>2. ASSUME UNCHANGED <<pipeVars, feedVars>>,
             \A i \in 1 .. Len(log) : log'[i] = log[i]
      PROVE  ViewInv'
  <2> SUFFICES ASSUME NEW q \in Request
               PROVE  /\ request[q] = "none" => missed[q] = {} /\ cursor[q] = 0
                      /\ request[q] \in {"none", "making"} => videoFeed[q] = "none"
                      /\ videoFeed[q] # "done" =>
                           \A i \in 1 .. cursor[q] :
                               \/ Unit(log'[i]) \in missed[q]
                               \/ \E j \in DOMAIN wrote[q] : Unit(wrote[q][j]) = Unit(log'[i])
                      /\ \A j \in DOMAIN wrote[q] : \E i \in 1 .. cursor[q] : wrote[q][j] = log'[i]
    BY <1>2 DEF ViewInv, pipeVars, feedVars
  <2>1. \A i \in 1 .. cursor[q] : log'[i] = log[i]
    BY <1>1, <1>2
  <2>2. QED
    BY <2>1 DEF ViewInv
<1>3. CASE BaseStep \/ NetStep \/ LoopStep
  BY <1>2, <1>3, PathStepType
<1>4. CASE UNCHANGED videoVars
  BY <1>2, <1>4 DEF videoVars, loopVars
<1>5. ASSUME NEW q \in Request, FeederStep(q) \/ RequestStep(q)
      PROVE  ViewInv'
  <2>1. log' = log
    BY <1>5, RequestStepType
  <2> DEFINE View(r) ==
        /\ request'[r] = "none" => missed'[r] = {} /\ cursor'[r] = 0
        /\ request'[r] \in {"none", "making"} => videoFeed'[r] = "none"
        /\ videoFeed'[r] # "done" =>
             \A i \in 1 .. cursor'[r] :
                 \/ Unit(log[i]) \in missed'[r]
                 \/ \E j \in DOMAIN wrote'[r] : Unit(wrote'[r][j]) = Unit(log[i])
        /\ \A j \in DOMAIN wrote'[r] : \E i \in 1 .. cursor'[r] : wrote'[r][j] = log[i]
  <2> SUFFICES \A r \in Request : View(r)
    BY <2>1 DEF ViewInv
  <2>2. ASSUME NEW r \in Request,
               missed'[r] = missed[r], cursor'[r] = cursor[r], wrote'[r] = wrote[r],
               videoFeed'[r] = videoFeed[r] \/ videoFeed'[r] = "done",
               request'[r] = request[r] \/ request'[r] \notin {"none", "making"},
               videoFeed'[r] = videoFeed[r] \/ request'[r] \notin {"none", "making"}
        PROVE  View(r)
    BY <2>2 DEF ViewInv
  <2>3. \A r \in Request \ {q} :
           /\ missed'[r] = missed[r] /\ cursor'[r] = cursor[r] /\ wrote'[r] = wrote[r]
           /\ videoFeed'[r] = videoFeed[r] /\ request'[r] = request[r]
    BY <1>5 DEF FeederStep, RequestStep, Feed, FeedBreaks, Lags, OpenFifo, AudioBreaks,
       Attach, PipelineFails, GivesUp, PipelineStarts, FfmpegOpensFifo, FfmpegExits,
       ClientLeaves, StreamEnds, Takes, Move, ViewType, pipeVars, feedVars
  <2>4. \A r \in Request \ {q} : View(r)
    <3> HIDE DEF View
    <3>1. QED
      BY <2>2, <2>3
  <2>5. View(q)
    <3>1. /\ request \in [Request -> {"none", "making", "streaming", "over"}]
          /\ videoFeed \in [Request -> {"none", "recv", "done"}]
          /\ cursor \in [Request -> Nat] /\ missed \in [Request -> SUBSET Nat]
          /\ wrote \in [Request -> Seq(Units)]
      BY DEF ViewType
    <3>2. /\ request[q] = "none" => missed[q] = {} /\ cursor[q] = 0
          /\ request[q] \in {"none", "making"} => videoFeed[q] = "none"
          /\ videoFeed[q] # "done" =>
               \A i \in 1 .. cursor[q] :
                   \/ Unit(log[i]) \in missed[q]
                   \/ \E j \in DOMAIN wrote[q] : Unit(wrote[q][j]) = Unit(log[i])
          /\ \A j \in DOMAIN wrote[q] : \E i \in 1 .. cursor[q] : wrote[q][j] = log[i]
      BY DEF ViewInv
    <3>3. CASE Attach(q)
      <4>1. /\ request[q] = "none" /\ request'[q] = "making" /\ videoFeed'[q] = videoFeed[q]
            /\ wrote' = wrote /\ cursor'[q] = Len(log)
            /\ missed'[q] = {Unit(log[i]) : i \in DOMAIN log}
        BY <3>1, <3>3 DEF Attach, Move
      <4>2. cursor[q] = 0
        BY <3>2, <4>1
      <4>3. DOMAIN wrote[q] = {}
        BY <3>2, <4>2
      <4>4. QED
        BY <1>1, <3>2, <4>1, <4>3
    <3>4. CASE Feed(q)
      <4> DEFINE n == log[cursor[q] + 1]
      <4>1. /\ videoFeed[q] = "recv" /\ videoFeed' = videoFeed /\ request' = request
            /\ missed' = missed /\ cursor'[q] = cursor[q] + 1
            /\ wrote'[q] = Append(wrote[q], n)
            /\ Len(log) - cursor[q] \in 1 .. Capacity
        BY <3>1, <3>4 DEF Feed, Takes, Behind, pipeVars
      <4>2. n \in Units
        <5>1. cursor[q] + 1 \in 1 .. Len(log)
          BY <1>1, <4>1, VideoAssumption
        <5>2. QED
          BY <5>1, ElementOfSeq DEF PathType
      <4>3. /\ Len(wrote[q]) \in Nat /\ DOMAIN wrote[q] = 1 .. Len(wrote[q])
            /\ DOMAIN wrote'[q] = 1 .. (Len(wrote[q]) + 1)
            /\ \A j \in 1 .. Len(wrote[q]) : wrote'[q][j] = wrote[q][j]
            /\ wrote'[q][Len(wrote[q]) + 1] = n
        <5>1. wrote[q] \in Seq(Units)
          BY <3>1
        <5>2. QED
          BY <4>1, <4>2, <5>1, AppendProperties, LenProperties
      <4>4. \A i \in 1 .. (cursor[q] + 1) :
               \/ Unit(log[i]) \in missed[q]
               \/ \E j \in DOMAIN wrote'[q] : Unit(wrote'[q][j]) = Unit(log[i])
        <5> SUFFICES ASSUME NEW i \in 1 .. (cursor[q] + 1), Unit(log[i]) \notin missed[q]
                     PROVE  \E j \in DOMAIN wrote'[q] : Unit(wrote'[q][j]) = Unit(log[i])
          OBVIOUS
        <5>1. CASE i \in 1 .. cursor[q]
          <6>1. videoFeed[q] # "done"
            BY <4>1
          <6>2. PICK j \in DOMAIN wrote[q] : Unit(wrote[q][j]) = Unit(log[i])
            BY <3>2, <5>1, <6>1
          <6>3. j \in DOMAIN wrote'[q] /\ wrote'[q][j] = wrote[q][j]
            BY <4>3
          <6>4. QED
            BY <6>2, <6>3
        <5>2. CASE i = cursor[q] + 1
          <6>1. Len(wrote[q]) + 1 \in DOMAIN wrote'[q]
            BY <4>3
          <6>2. QED
            BY <4>3, <5>2, <6>1
        <5>3. QED
          BY <1>1, <5>1, <5>2
      <4>5. \A j \in DOMAIN wrote'[q] : \E i \in 1 .. (cursor[q] + 1) : wrote'[q][j] = log[i]
        <5> SUFFICES ASSUME NEW j \in DOMAIN wrote'[q]
                     PROVE  \E i \in 1 .. (cursor[q] + 1) : wrote'[q][j] = log[i]
          OBVIOUS
        <5>1. CASE j \in 1 .. Len(wrote[q])
          <6>1. PICK i \in 1 .. cursor[q] : wrote[q][j] = log[i]
            BY <3>2, <4>3, <5>1
          <6>2. i \in 1 .. (cursor[q] + 1) /\ wrote'[q][j] = log[i]
            BY <1>1, <4>3, <5>1, <6>1
          <6>3. QED
            BY <6>2
        <5>2. CASE j = Len(wrote[q]) + 1
          <6>1. cursor[q] + 1 \in 1 .. (cursor[q] + 1) /\ wrote'[q][j] = log[cursor[q] + 1]
            BY <1>1, <4>3, <5>2
          <6>2. QED
            BY <6>1
        <5>3. QED
          BY <4>3, <5>1, <5>2
      <4>6. request'[q] \notin {"none", "making"}
        BY <3>2, <4>1
      <4>7. QED
        BY <4>1, <4>4, <4>5, <4>6
    <3>5. CASE FeedBreaks(q)
      <4>1. /\ videoFeed[q] = "recv" /\ videoFeed'[q] = "done" /\ request' = request
            /\ missed' = missed /\ wrote' = wrote /\ cursor'[q] = cursor[q] + 1
        BY <3>1, <3>5 DEF FeedBreaks, Takes
      <4>2. request'[q] \notin {"none", "making"}
        BY <3>2, <4>1
      <4>3. \A i \in 1 .. cursor[q] : i \in 1 .. (cursor[q] + 1)
        BY <1>1
      <4>4. QED
        BY <3>2, <4>1, <4>2, <4>3
    <3>6. CASE Lags(q)
      <4> DEFINE c == Len(log) - Capacity
      <4>1. /\ videoFeed[q] = "recv" /\ videoFeed' = videoFeed /\ request' = request
            /\ wrote' = wrote /\ cursor'[q] = c /\ Len(log) - cursor[q] > Capacity
            /\ missed'[q] = missed[q] \cup {Unit(log[i]) : i \in (cursor[q] + 1) .. c}
        BY <3>1, <3>6 DEF Lags, Behind, pipeVars
      <4>2. request'[q] \notin {"none", "making"}
        BY <3>2, <4>1
      <4>3. c \in Nat /\ cursor[q] < c
        BY <1>1, <4>1, VideoAssumption
      <4> HIDE DEF c
      <4>4. \A i \in 1 .. c : i \in 1 .. cursor[q] \/ i \in (cursor[q] + 1) .. c
        BY <1>1, <4>3
      <4>5. \A i \in 1 .. cursor[q] : i \in 1 .. c
        BY <1>1, <4>3
      <4>6. videoFeed[q] # "done"
        BY <4>1
      <4>7. QED
        BY <3>2, <4>1, <4>2, <4>4, <4>5, <4>6
    <3>7. CASE PipelineStarts(q)
      <4>1. /\ request[q] = "making" /\ request'[q] = "streaming" /\ videoFeed'[q] = "recv"
            /\ missed' = missed /\ wrote' = wrote /\ cursor' = cursor
        BY <3>1, <3>7 DEF PipelineStarts, Move, feedVars
      <4>2. videoFeed[q] # "done"
        BY <3>2, <4>1
      <4>3. QED
        BY <3>2, <4>1, <4>2
    <3>8. CASE OpenFifo(q) \/ AudioBreaks(q) \/ FfmpegOpensFifo(q) \/ FfmpegExits(q)
      <4>1. UNCHANGED <<request, videoFeed, missed, cursor, wrote>>
        BY <3>8 DEF OpenFifo, AudioBreaks, FfmpegOpensFifo, FfmpegExits, feedVars
      <4>2. QED
        BY <3>2, <4>1
    <3>9. CASE PipelineFails(q) \/ GivesUp(q) \/ ClientLeaves(q) \/ StreamEnds(q)
      <4>1. /\ UNCHANGED <<missed, cursor, wrote>> /\ request'[q] = "over"
            /\ videoFeed'[q] = videoFeed[q] \/ videoFeed'[q] = "done"
        BY <3>1, <3>9 DEF PipelineFails, GivesUp, ClientLeaves, StreamEnds, Move, feedVars
      <4>2. QED
        BY <2>2, <4>1
    <3>10. QED
      BY <1>5, <3>3, <3>4, <3>5, <3>6, <3>7, <3>8, <3>9 DEF FeederStep, RequestStep
  <2>6. QED
    <3> HIDE DEF View
    <3>1. QED
      BY <2>4, <2>5
<1>6. QED
  BY <1>3, <1>4, <1>5 DEF Next

-----------------------------------------------------------------------------
(* The inductive invariant, and what follows from it.                      *)

VideoInv == PathType /\ ViewType /\ PipeInv /\ PathInv /\ ViewInv

LEMMA VideoInit == Init => VideoInv
<1> SUFFICES ASSUME Init
             PROVE  VideoInv
  OBVIOUS
<1>1. PathType /\ ViewType /\ PipeInv
  BY InitType
<1>2. /\ net = <<>> /\ fuaBuffer = <<>> /\ hurt = {} /\ twice = {} /\ frames = <<>>
      /\ out = <<>> /\ log = <<>>
  BY DEF Init
<1>3. Given = <<>>
  BY <1>2 DEF Given
<1>4. DOMAIN Given = {} /\ DOMAIN net = {} /\ DOMAIN fuaBuffer = {} /\ Sent = 0
  BY <1>2, <1>3 DEF Sent
<1> HIDE DEF Given
<1>5. CutInv
  BY <1>2, <1>4 DEF CutInv, NetCut
<1>6. OrderInv
  BY <1>2, <1>4 DEF OrderInv, NetOrder, FuaOrder, GivenOrder, GivenFua, GivenNet
<1>7. WholeInv
  <2>1. 1 .. Sent = {}
    BY <1>4
  <2>2. QED
    BY <1>2, <1>4, <2>1 DEF WholeInv, FuaWhole, GivenWhole, NoneLost
<1>8. ViewInv
  <2> SUFFICES ASSUME NEW q \in Request
               PROVE  /\ missed[q] = {} /\ cursor[q] = 0 /\ videoFeed[q] = "none"
                      /\ 1 .. cursor[q] = {} /\ DOMAIN wrote[q] = {}
    BY DEF ViewInv
  <2>1. QED
    BY DEF Init
<1>9. QED
  BY <1>1, <1>5, <1>6, <1>7, <1>8 DEF VideoInv, PathInv

LEMMA VideoStep == VideoInv /\ [Next]_videoVars => VideoInv'
BY TypeStep, PipeStep, PathStep, ViewStep DEF VideoInv

LEMMA VideoInvariant == Spec => []VideoInv
<1>1. Init => VideoInv
  BY VideoInit
<1>2. VideoInv /\ [Next]_videoVars => VideoInv'
  BY VideoStep
<1>3. QED
  BY <1>1, <1>2, PTL DEF Spec

\* Every variable of the video path keeps to its values, however many units
\* and requests there are: what is called hurt was sent, no receiver is ahead
\* of the log, and no feeder wrote more than its receiver took.
THEOREM VideoTypeCorrect == Spec => []TypeOK
<1>1. VideoInv => TypeOK
  BY DEF VideoInv, PathType, ViewType, PathInv, CutInv, TypeOK
<1>2. QED
  BY <1>1, VideoInvariant, PTL

\* A request that is over leaves no ffmpeg behind, and a pipe only if the
\* client left while mkfifo was at work, for any number of requests.
THEOREM NothingLeftRunningHolds == Spec => []NothingLeftRunning
<1>1. VideoInv => NothingLeftRunning
  BY DEF VideoInv, PipeInv, NothingLeftRunning
<1>2. QED
  BY <1>1, VideoInvariant, PTL

-----------------------------------------------------------------------------
(* The refinement.                                                         *)

\* What viewer q is owed; Stream is that of the viewer the run watches.
StreamOf(q) ==
    INSTANCE NalStream WITH
        sent <- Sent, hurt <- hurt \cup missed[q], twice <- twice, shown <- ShownTo(q)

\* What a feeder wrote was handed out, and sent before.
LEMMA WroteGiven ==
    ASSUME VideoInv, NEW q \in Request, NEW j \in DOMAIN wrote[q]
    PROVE  /\ \E i \in 1 .. cursor[q] :
                 i \in DOMAIN Given /\ wrote[q][j] = Given[i] /\ i \in DOMAIN log
           /\ Unit(wrote[q][j]) \in 1 .. Sent
<1>1. /\ Len(log) \in Nat /\ Len(out) \in Nat /\ DOMAIN log = 1 .. Len(log)
      /\ DOMAIN Given = 1 .. (Len(log) + Len(out))
      /\ \A i \in 1 .. Len(log) : Given[i] = log[i]
      /\ \A i \in DOMAIN Given : Given[i] \in Units
  BY GivenShape, LenProperties DEF VideoInv, PathType, Given
<1> HIDE DEF Given
<1>2. PICK i \in 1 .. cursor[q] : wrote[q][j] = log[i]
  BY DEF VideoInv, ViewInv
<1>3. cursor[q] \in Nat /\ cursor[q] <= Len(log)
  BY DEF VideoInv, ViewType
<1>4. i \in DOMAIN Given /\ wrote[q][j] = Given[i] /\ i \in DOMAIN log
  BY <1>1, <1>2, <1>3
<1>5. 1 \in DOMAIN Given[i]
  BY <1>1, <1>4, EmptySeq, LenProperties DEF Units
<1>6. Unit(wrote[q][j]) \in 1 .. Sent
  BY <1>4, <1>5 DEF VideoInv, PathInv, CutInv, Unit
<1>7. QED
  BY <1>4, <1>6

\* What was shown stays as it was shown, whatever the base sends later.
LEMMA ShownStays ==
    ASSUME VideoInv, NEW q \in Request, wrote'[q] = wrote[q],
           \A u \in 1 .. Sent : frames'[u] = frames[u]
    PROVE  ShownTo(q)' = ShownTo(q)
<1>1. \A i \in DOMAIN wrote[q] : frames'[Unit(wrote[q][i])] = frames[Unit(wrote[q][i])]
  BY WroteGiven
<1>2. QED
  BY <1>1 DEF ShownTo, Whole

\* The next unit a feeder writes: it was not shown before unless it came twice,
\* and if nothing hurt it, it is whole and in its turn.
LEMMA FeedShows ==
    ASSUME VideoInv, NEW q \in Request, videoFeed[q] = "recv",
           Len(log) - cursor[q] \in 1 .. Capacity,
           NEW n, n = log[cursor[q] + 1]
    PROVE  /\ n \in Units /\ Unit(n) \in 1 .. Sent
           /\ Unit(n) \notin twice => \A j \in DOMAIN wrote[q] : Unit(wrote[q][j]) # Unit(n)
           /\ Unit(n) \notin hurt =>
                /\ Whole(n)
                /\ \A w \in 1 .. (Unit(n) - 1) :
                     \/ w \in hurt \cup missed[q]
                     \/ \E j \in DOMAIN wrote[q] : Unit(wrote[q][j]) = w
<1> DEFINE c == cursor[q] + 1
<1>1. /\ Len(log) \in Nat /\ Len(out) \in Nat /\ DOMAIN log = 1 .. Len(log)
      /\ DOMAIN Given = 1 .. (Len(log) + Len(out))
      /\ \A i \in 1 .. Len(log) : Given[i] = log[i]
      /\ \A i \in DOMAIN Given : Given[i] \in Units /\ Unit(Given[i]) \in Nat
  BY GivenShape, LenProperties DEF VideoInv, PathType, Given
<1> HIDE DEF Given
<1>2. cursor[q] \in Nat /\ c \in 1 .. Len(log) /\ c \in DOMAIN Given
  BY <1>1, VideoAssumption DEF VideoInv, ViewType
<1>3. n = Given[c] /\ n \in Units /\ Unit(n) \in Nat
  BY <1>1, <1>2
<1>4. Unit(n) \in 1 .. Sent
  <2>1. 1 \in DOMAIN Given[c]
    BY <1>3, EmptySeq, LenProperties DEF Units
  <2>2. QED
    BY <1>2, <1>3, <2>1 DEF VideoInv, PathInv, CutInv, Unit
<1>5. Unit(n) \notin twice => \A i \in DOMAIN Given : i # c => Unit(Given[i]) # Unit(n)
  <2> SUFFICES ASSUME Unit(n) \notin twice, NEW i \in DOMAIN Given, i # c
               PROVE  Unit(Given[i]) # Unit(Given[c])
    BY <1>3
  <2>1. i < c \/ c < i
    BY <1>1, <1>2
  <2>2. QED
    BY <1>2, <1>3, <2>1 DEF VideoInv, PathInv, OrderInv, GivenOrder, Before
<1>6. ASSUME Unit(n) \notin twice, NEW j \in DOMAIN wrote[q]
      PROVE  Unit(wrote[q][j]) # Unit(n)
  <2>1. PICK i \in 1 .. cursor[q] : i \in DOMAIN Given /\ wrote[q][j] = Given[i]
    BY WroteGiven
  <2>2. i # c
    BY <1>2, <2>1
  <2>3. QED
    BY <1>5, <1>6, <2>1, <2>2
<1>7. ASSUME Unit(n) \notin hurt
      PROVE  Whole(n)
  BY <1>2, <1>3, <1>7 DEF VideoInv, PathInv, WholeInv, GivenWhole
<1>8. ASSUME Unit(n) \notin hurt, NEW w \in 1 .. (Unit(n) - 1), w \notin hurt, w \notin missed[q]
      PROVE  \E j \in DOMAIN wrote[q] : Unit(wrote[q][j]) = w
  <2>1. w \in 1 .. Sent /\ w \in Nat /\ w < Unit(n)
    <3>1. Sent \in Nat
      BY LenProperties DEF VideoInv, PathType, Sent
    <3>2. QED
      BY <1>3, <1>4, <3>1
  <2>2. Arrived(w) \/ Assembled(w) \/ OnTheWay(w)
    BY <1>8, <2>1 DEF VideoInv, PathInv, WholeInv, NoneLost
  <2>3. CASE Arrived(w)
    <3>1. PICK i \in DOMAIN Given : Unit(Given[i]) = w
      BY <2>3 DEF Arrived
    <3>2. ~(c < i)
      <4> SUFFICES ASSUME c < i
                   PROVE  FALSE
        OBVIOUS
      <4>1. Unit(Given[c]) < Unit(Given[i])
        BY <1>2, <1>3, <1>8 DEF VideoInv, PathInv, OrderInv, GivenOrder, Before, Clean
      <4>2. QED
        BY <1>3, <2>1, <3>1, <4>1
    <3>3. i # c
      BY <1>3, <2>1, <3>1
    <3>4. i \in 1 .. cursor[q] /\ log[i] = Given[i]
      BY <1>1, <1>2, <3>2, <3>3
    <3>5. videoFeed[q] # "done"
      OBVIOUS
    <3>6. \/ Unit(log[i]) \in missed[q]
          \/ \E j \in DOMAIN wrote[q] : Unit(wrote[q][j]) = Unit(log[i])
      BY <3>4, <3>5 DEF VideoInv, ViewInv
    <3>7. QED
      BY <1>8, <3>1, <3>4, <3>6
  <2>4. ~Assembled(w)
    <3> SUFFICES ASSUME Assembled(w)
                 PROVE  FALSE
      OBVIOUS
    <3>1. fuaBuffer # <<>> /\ Unit(fuaBuffer) = w
      BY DEF Assembled
    <3>2. Unit(Given[c]) < w
      BY <1>2, <1>8, <3>1 DEF VideoInv, PathInv, OrderInv, GivenFua, Before, Clean
    <3>3. QED
      BY <1>3, <2>1, <3>2
  <2>5. ~OnTheWay(w)
    <3> SUFFICES ASSUME OnTheWay(w)
                 PROVE  FALSE
      OBVIOUS
    <3>1. frames[w] \in 1 .. 3
      BY <2>1, ElementOfSeq DEF VideoInv, PathType, Sent
    <3>2. Coming(net, w, 1)
      BY <3>1 DEF OnTheWay
    <3>3. PICK k \in DOMAIN net : net[k].part = 1 /\ Carries(net[k], w)
      BY <3>2 DEF Coming
    <3>4. PICK j \in DOMAIN net[k].units : net[k].units[j] = w
      BY <3>3 DEF Carries
    <3>5. After(hurt, twice, net[k], Unit(n), 1, 3)
      BY <1>2, <1>3 DEF VideoInv, PathInv, OrderInv, GivenNet
    <3>6. Unit(n) < w \/ (Unit(n) = w /\ 3 < net[k].part)
      BY <1>8, <3>4, <3>5 DEF After, Clean
    <3>7. QED
      BY <1>3, <2>1, <3>6
  <2>6. QED
    BY <2>2, <2>3, <2>4, <2>5
<1>9. QED
  BY <1>3, <1>4, <1>6, <1>7, <1>8

\* Every step is, to every viewer, one of NalStream: more is sent, more is
\* hurt, or one more unit is shown, as it should be.
StreamSends(q) ==
    /\ Sent' > Sent
    /\ UNCHANGED <<hurt, twice, missed>> /\ ShownTo(q)' = ShownTo(q)

StreamHurts(q) ==
    /\ hurt \cup missed[q] \subseteq hurt' \cup missed'[q]
    /\ twice \subseteq twice'
    /\ Sent' = Sent /\ ShownTo(q)' = ShownTo(q)

StreamShows(q) ==
    /\ Sent' = Sent /\ UNCHANGED <<hurt, twice, missed>>
    /\ \E n \in Units :
         /\ Unit(n) \in 1 .. Sent
         /\ Unit(n) \notin twice =>
              \A j \in DOMAIN ShownTo(q) : ShownTo(q)[j].unit # Unit(n)
         /\ Unit(n) \notin hurt =>
              /\ Whole(n)
              /\ \A w \in 1 .. (Unit(n) - 1) :
                   \/ w \in hurt \cup missed[q]
                   \/ \E j \in DOMAIN ShownTo(q) : ShownTo(q)[j].unit = w
         /\ ShownTo(q)' = Append(ShownTo(q), [unit |-> Unit(n), whole |-> Whole(n)])

LEMMA StreamStep ==
    ASSUME VideoInv, [Next]_videoVars, NEW q \in Request
    PROVE  StreamSends(q) \/ StreamHurts(q) \/ StreamShows(q)
<1>1. /\ PathType /\ ViewType /\ CutInv /\ Sent \in Nat /\ log \in Seq(Units)
      /\ missed \in [Request -> SUBSET Nat] /\ wrote \in [Request -> Seq(Units)]
      /\ frames \in Seq(1 .. 3)
  BY LenProperties DEF VideoInv, PathType, ViewType, PathInv, Sent
<1>2. ASSUME UNCHANGED frames, wrote'[q] = wrote[q]
      PROVE  Sent' = Sent /\ ShownTo(q)' = ShownTo(q)
  BY <1>2, ShownStays DEF Sent
<1>3. ASSUME UNCHANGED <<frames, wrote, missed>>, hurt \subseteq hurt',
             twice \subseteq twice'
      PROVE  StreamHurts(q)
  BY <1>2, <1>3 DEF StreamHurts
<1>4. CASE UNCHANGED videoVars
  BY <1>3, <1>4 DEF videoVars, baseVars, netVars, feedVars
<1>5. CASE BaseStep
  <2>1. UNCHANGED <<hurt, twice, missed, wrote>>
    BY <1>1, <1>5, BaseType DEF feedVars
  <2>2. ASSUME NEW pieces \in Seq(1 .. 3), frames' = frames \o pieces
        PROVE  StreamSends(q) \/ StreamHurts(q)
    <3>1. Joins(frames, pieces, frames')
      BY <1>1, <2>2, Joined
    <3>2. /\ Len(pieces) \in Nat /\ Sent' = Sent + Len(pieces)
          /\ \A u \in 1 .. Sent : frames'[u] = frames[u]
      BY <3>1 DEF Joins, Sent
    <3>3. ShownTo(q)' = ShownTo(q)
      BY <2>1, <3>2, ShownStays
    <3>4. CASE Len(pieces) = 0
      BY <1>1, <2>1, <3>2, <3>3, <3>4 DEF StreamHurts
    <3>5. CASE Len(pieces) > 0
      BY <1>1, <2>1, <3>2, <3>3, <3>5 DEF StreamSends
    <3>6. QED
      BY <3>2, <3>4, <3>5
  <2>3. CASE BaseSendsSingle \/ BaseSendsAggregate \/ BaseSendsFragments \/ BaseSendsOdd
    <3>1. /\ <<1>> \in Seq(1 .. 3) /\ <<1, 1>> \in Seq(1 .. 3) /\ <<3>> \in Seq(1 .. 3)
          /\ <<>> \in Seq(1 .. 3)
      OBVIOUS
    <3>2. \/ frames' = frames \o <<1>> \/ frames' = frames \o <<1, 1>>
          \/ frames' = frames \o <<3>> \/ frames' = frames \o <<>>
      BY <2>3 DEF BaseSendsSingle, BaseSendsAggregate, BaseSendsFragments, BaseSendsOdd,
         BaseSends
    <3>3. QED
      BY <2>2, <3>1, <3>2
  <2>4. CASE BaseAsks
    BY <1>3, <2>1, <2>4 DEF BaseAsks, baseVars
  <2>5. QED
    BY <1>5, <2>3, <2>4 DEF BaseStep
<1>6. CASE NetStep
  <2>1. /\ UNCHANGED <<frames, wrote, missed>>
        /\ hurt \subseteq hurt' /\ twice \subseteq twice'
    BY <1>1, <1>6, NetStepType DEF feedVars
  <2>2. QED
    BY <1>3, <2>1
<1>7. CASE LoopStep
  <2>1. /\ UNCHANGED <<frames, wrote, missed>>
        /\ hurt \subseteq hurt' /\ twice \subseteq twice'
    <3>1. CASE LoopStarts \/ Keepalive \/ LoopEnds
      BY <1>1, <3>1, LoopEdgeType DEF feedVars
    <3>2. CASE ReceiveMedia
      BY <1>1, <3>2, ReceiveMediaType DEF feedVars
    <3>3. CASE AnswerChallenge
      BY <1>1, <3>3, AnswerChallengeType DEF feedVars
    <3>4. CASE FanOut
      BY <1>1, <3>4, FanOutType DEF feedVars
    <3>5. QED
      BY <1>7, <3>1, <3>2, <3>3, <3>4 DEF LoopStep
  <2>2. QED
    BY <1>3, <2>1
<1>8. ASSUME NEW r \in Request, FeederStep(r) \/ RequestStep(r)
      PROVE  StreamHurts(q) \/ StreamShows(q)
  <2>1. UNCHANGED <<frames, hurt, twice>>
    BY <1>1, <1>8, RequestStepType
  <2>2. CASE Feed(r) /\ r = q
    <3> DEFINE n == log[cursor[q] + 1]
    <3>1. /\ videoFeed[q] = "recv" /\ Len(log) - cursor[q] \in 1 .. Capacity
          /\ missed' = missed /\ wrote'[q] = Append(wrote[q], n)
      BY <1>1, <2>2 DEF Feed, Takes, Behind
    <3>2. /\ n \in Units /\ Unit(n) \in 1 .. Sent
          /\ Unit(n) \notin twice =>
               \A j \in DOMAIN wrote[q] : Unit(wrote[q][j]) # Unit(n)
          /\ Unit(n) \notin hurt =>
               /\ Whole(n)
               /\ \A w \in 1 .. (Unit(n) - 1) :
                    \/ w \in hurt \cup missed[q]
                    \/ \E j \in DOMAIN wrote[q] : Unit(wrote[q][j]) = w
      BY <3>1, FeedShows
    <3> HIDE DEF n
    <3>3. /\ Len(wrote[q]) \in Nat /\ DOMAIN wrote[q] = 1 .. Len(wrote[q])
          /\ DOMAIN wrote'[q] = 1 .. (Len(wrote[q]) + 1)
          /\ \A j \in 1 .. Len(wrote[q]) : wrote'[q][j] = wrote[q][j]
          /\ wrote'[q][Len(wrote[q]) + 1] = n
      <4>1. wrote[q] \in Seq(Units)
        BY <1>1
      <4>2. QED
        BY <3>1, <3>2, <4>1, AppendProperties, LenProperties
    <3>4. /\ DOMAIN ShownTo(q) = 1 .. Len(wrote[q])
          /\ \A j \in 1 .. Len(wrote[q]) :
                ShownTo(q)[j] = [unit |-> Unit(wrote[q][j]), whole |-> Whole(wrote[q][j])]
      BY <3>3 DEF ShownTo
    <3>5. ShownTo(q)' = Append(ShownTo(q), [unit |-> Unit(n), whole |-> Whole(n)])
      <4> DEFINE Seen(x) == [unit |-> Unit(x), whole |-> Whole(x)]
                 S == {Seen(x) : x \in Units}
                 s == ShownTo(q)
                 t == ShownTo(q)'
      <4>1. t = [j \in DOMAIN wrote'[q] |-> Seen(wrote'[q][j])]
        BY <2>1 DEF ShownTo, Whole
      <4>2. s = [j \in DOMAIN wrote[q] |-> Seen(wrote[q][j])]
        BY DEF ShownTo
      <4>3. wrote[q] \in Seq(Units) /\ \A j \in DOMAIN wrote[q] : wrote[q][j] \in Units
        BY <1>1, <3>3, ElementOfSeq
      <4>4. Seen(n) \in S /\ \A j \in DOMAIN wrote[q] : Seen(wrote[q][j]) \in S
        BY <3>2, <4>3
      <4> HIDE DEF Seen, S, s, t
      <4>5. s \in [1 .. Len(wrote[q]) -> S]
        BY <3>3, <4>2, <4>4
      <4>6. s \in Seq(S) /\ Len(s) = Len(wrote[q])
        BY <3>3, <4>5, SeqDef, LenProperties
      <4>7. \A j \in 1 .. (Len(wrote[q]) + 1) :
               t[j] = IF j <= Len(wrote[q]) THEN s[j] ELSE Seen(n)
        <5> SUFFICES ASSUME NEW j \in 1 .. (Len(wrote[q]) + 1)
                     PROVE  t[j] = IF j <= Len(wrote[q]) THEN s[j] ELSE Seen(n)
          OBVIOUS
        <5>1. t[j] = Seen(wrote'[q][j])
          BY <3>3, <4>1
        <5>2. CASE j <= Len(wrote[q])
          <6>1. j \in DOMAIN wrote[q] /\ wrote'[q][j] = wrote[q][j]
            BY <3>3, <5>2
          <6>2. s[j] = Seen(wrote[q][j])
            BY <4>2, <6>1
          <6>3. QED
            BY <5>1, <5>2, <6>1, <6>2
        <5>3. CASE ~(j <= Len(wrote[q]))
          <6>1. j = Len(wrote[q]) + 1
            BY <3>3, <5>3
          <6>2. QED
            BY <3>3, <5>1, <5>3, <6>1
        <5>4. QED
          BY <5>2, <5>3
      <4>8. t \in [1 .. (Len(wrote[q]) + 1) -> S]
        <5>1. \A j \in 1 .. (Len(wrote[q]) + 1) : t[j] \in S
          BY <3>3, <4>4, <4>5, <4>7
        <5>2. t = [j \in 1 .. (Len(wrote[q]) + 1) |-> t[j]]
          BY <3>3, <4>1
        <5>3. QED
          BY <5>1, <5>2
      <4>9. Len(wrote[q]) + 1 \in Nat /\ Len(wrote[q]) \in Nat
        BY <3>3
      <4>10. t \in Seq(S) /\ Len(t) = Len(wrote[q]) + 1
        BY <4>8, <4>9, SeqDef, LenProperties
      <4>11. /\ Append(s, Seen(n)) \in Seq(S) /\ Len(Append(s, Seen(n))) = Len(wrote[q]) + 1
             /\ \A j \in 1 .. Len(wrote[q]) : Append(s, Seen(n))[j] = s[j]
             /\ Append(s, Seen(n))[Len(wrote[q]) + 1] = Seen(n)
        BY <4>4, <4>6, AppendProperties
      <4>12. \A j \in 1 .. Len(t) : t[j] = Append(s, Seen(n))[j]
        <5> SUFFICES ASSUME NEW j \in 1 .. (Len(wrote[q]) + 1)
                     PROVE  t[j] = Append(s, Seen(n))[j]
          BY <4>10
        <5>1. CASE j <= Len(wrote[q])
          BY <3>3, <4>7, <4>11, <5>1
        <5>2. CASE j = Len(wrote[q]) + 1
          <6>1. ~(j <= Len(wrote[q]))
            BY <3>3, <5>2
          <6>2. QED
            BY <4>7, <4>11, <5>2, <6>1
        <5>3. j <= Len(wrote[q]) \/ j = Len(wrote[q]) + 1
          BY <3>3
        <5>4. QED
          BY <5>1, <5>2, <5>3
      <4>13. t = Append(s, Seen(n))
        BY <4>10, <4>11, <4>12, SeqEqual
      <4>14. QED
        BY <4>13 DEF t, s, Seen
    <3>6. /\ DOMAIN ShownTo(q) = DOMAIN wrote[q]
           /\ \A j \in DOMAIN wrote[q] : ShownTo(q)[j].unit = Unit(wrote[q][j])
      BY DEF ShownTo
    <3>7. Unit(n) \notin twice =>
            \A j \in DOMAIN ShownTo(q) : ShownTo(q)[j].unit # Unit(n)
      <4> SUFFICES ASSUME Unit(n) \notin twice, NEW j \in DOMAIN ShownTo(q)
                   PROVE  ShownTo(q)[j].unit # Unit(n)
        OBVIOUS
      <4>1. j \in DOMAIN wrote[q]
        BY <3>6
      <4>2. ShownTo(q)[j].unit = Unit(wrote[q][j])
        BY <3>6, <4>1
      <4>3. Unit(wrote[q][j]) # Unit(n)
        BY <3>2, <4>1
      <4>4. QED
        BY <4>2, <4>3
    <3>8. \A w : (\E j \in DOMAIN wrote[q] : Unit(wrote[q][j]) = w)
                   => \E j \in DOMAIN ShownTo(q) : ShownTo(q)[j].unit = w
      <4> SUFFICES ASSUME NEW w, NEW j \in DOMAIN wrote[q], Unit(wrote[q][j]) = w
                   PROVE  \E k \in DOMAIN ShownTo(q) : ShownTo(q)[k].unit = w
        OBVIOUS
      <4>1. j \in DOMAIN ShownTo(q)
        BY <3>6
      <4>2. ShownTo(q)[j].unit = w
        BY <3>6
      <4>3. QED
        BY <4>1, <4>2
    <3>9. StreamShows(q)
      BY <2>1, <3>1, <3>2, <3>5, <3>7, <3>8 DEF StreamShows, Sent
    <3>10. QED
      BY <3>9
  <2>3. CASE ~(Feed(r) /\ r = q)
    <3>1. wrote'[q] = wrote[q]
      BY <1>1, <1>8, <2>3 DEF FeederStep, RequestStep, Feed, FeedBreaks, Lags, OpenFifo,
         AudioBreaks, Attach, PipelineFails, GivesUp, PipelineStarts, FfmpegOpensFifo,
         FfmpegExits, ClientLeaves, StreamEnds, feedVars
    <3>2. missed[q] \subseteq missed'[q]
      <4>1. CASE Attach(r)
        <5>1. request[r] = "none" /\ missed'[r] = {Unit(log[i]) : i \in DOMAIN log}
              /\ \A x \in Request : x # r => missed'[x] = missed[x]
          BY <1>1, <4>1 DEF Attach, Move
        <5>2. missed[r] = {}
          BY <5>1 DEF VideoInv, ViewInv
        <5>3. QED
          BY <5>1, <5>2
      <4>2. CASE Lags(r)
        BY <1>1, <4>2 DEF Lags
      <4>3. CASE UNCHANGED missed
        BY <4>3
      <4>4. QED
        BY <1>8, <4>1, <4>2, <4>3 DEF FeederStep, RequestStep, Feed, FeedBreaks, OpenFifo,
           AudioBreaks, PipelineFails, GivesUp, PipelineStarts, FfmpegOpensFifo,
           FfmpegExits, ClientLeaves, StreamEnds, feedVars
    <3>3. QED
      BY <1>2, <2>1, <3>1, <3>2 DEF StreamHurts
  <2>4. QED
    BY <2>2, <2>3
<1>9. QED
  BY <1>4, <1>5, <1>6, <1>7, <1>8 DEF Next

LEMMA StreamInit ==
    ASSUME Init, NEW q \in Request
    PROVE  Sent = 0 /\ hurt \cup missed[q] = {} /\ twice = {} /\ ShownTo(q) = <<>>
BY DEF Init, Sent, ShownTo

\* A step of the video path is a step of what it owes viewer q.
LEMMA StreamNext ==
    ASSUME VideoInv, [Next]_videoVars, NEW q \in Request
    PROVE  [StreamOf(q)!Next]_(StreamOf(q)!streamVars)
<1>1. CASE StreamSends(q)
  BY <1>1 DEF StreamOf!Next, StreamOf!Send, StreamSends
<1>2. CASE StreamHurts(q)
  BY <1>2 DEF StreamOf!Next, StreamOf!Hurt, StreamHurts
<1>3. CASE StreamShows(q)
  <2>1. PICK n \in Units :
           /\ Unit(n) \in 1 .. Sent
           /\ Unit(n) \notin twice =>
                \A j \in DOMAIN ShownTo(q) : ShownTo(q)[j].unit # Unit(n)
           /\ Unit(n) \notin hurt =>
                /\ Whole(n)
                /\ \A w \in 1 .. (Unit(n) - 1) :
                     \/ w \in hurt \cup missed[q]
                     \/ \E j \in DOMAIN ShownTo(q) : ShownTo(q)[j].unit = w
           /\ ShownTo(q)' = Append(ShownTo(q), [unit |-> Unit(n), whole |-> Whole(n)])
    BY <1>3 DEF StreamShows
  <2>2. Sent' = Sent /\ (hurt \cup missed[q])' = hurt \cup missed[q] /\ twice' = twice
    BY <1>3 DEF StreamShows
  <2>3. Whole(n) \in BOOLEAN
    BY DEF Whole
  <2>4. Unit(n) \notin StreamOf(q)!Shown \/ Unit(n) \in twice
    BY <2>1 DEF StreamOf!Shown
  <2>5. \/ Unit(n) \in hurt \cup missed[q]
        \/ Whole(n) /\ StreamOf(q)!InTurn(Unit(n))
    BY <2>1 DEF StreamOf!Shown, StreamOf!InTurn
  <2>6. StreamOf(q)!Show
    BY <2>1, <2>2, <2>3, <2>4, <2>5 DEF StreamOf!Show
  <2>7. QED
    BY <2>6 DEF StreamOf!Next
<1>4. QED
  BY <1>1, <1>2, <1>3, StreamStep

\* What the ffmpeg of any viewer is given implements NalStream, whatever the
\* number of units, viewers, faults and slots: a unit that nothing hurt is
\* shown whole, once, in its turn and without a gap, and a unit that was hurt
\* more than once only if a packet of it came twice.
THEOREM EveryViewerGetsTheStream ==
    ASSUME NEW q \in Request
    PROVE  Spec => StreamOf(q)!Spec
<1>1. Init => StreamOf(q)!Init
  BY StreamInit DEF StreamOf!Init
<1>2. VideoInv /\ [Next]_videoVars => [StreamOf(q)!Next]_(StreamOf(q)!streamVars)
  BY StreamNext
<1>3. QED
  BY <1>1, <1>2, VideoInvariant, PTL DEF Spec, StreamOf!Spec

\* The same of the viewer the run watches, who exists if there is any.
THEOREM VideoPathImplementsNalStream ==
    ASSUME Request # {}
    PROVE  Spec => ImplementsNalStream
<1>1. Watched \in Request
  BY DEF Watched
<1>2. StreamOf(Watched)!Init => Stream!Init
  BY DEF StreamOf!Init, Stream!Init
<1>3. [StreamOf(Watched)!Next]_(StreamOf(Watched)!streamVars)
        => [Stream!Next]_(Stream!streamVars)
  BY DEF StreamOf!Next, StreamOf!Send, StreamOf!Hurt, StreamOf!Show, StreamOf!Shown,
     StreamOf!InTurn, StreamOf!streamVars, Stream!Next, Stream!Send, Stream!Hurt,
     Stream!Show, Stream!Shown, Stream!InTurn, Stream!streamVars
<1>4. Spec => StreamOf(Watched)!Spec
  BY <1>1, EveryViewerGetsTheStream
<1>5. QED
  BY <1>2, <1>3, <1>4, PTL DEF ImplementsNalStream, Stream!Spec, StreamOf!Spec

=============================================================================
