--------------------------- MODULE SipRegistration ---------------------------
(***************************************************************************)
(* The SIP side of the daemon (sip.rs): for a pairing MESSAGE, the three   *)
(* REGISTERs of register(), the window in which NOTIFYs name our slot, the *)
(* acker beside CGI 107/108, and the loop that refreshes the registration  *)
(* (maintain_registration); for a paired daemon that starts, register()    *)
(* and the same loop.                                                      *)
(*                                                                         *)
(* The base's registrar and the UDP path to it are the environment: a      *)
(* datagram may be late, lost, reordered or arrive twice.  Time advances   *)
(* in units of RESPONSE_BUDGET (5 s), and only while no timer of the phone *)
(* is due: tokio fires a timer when it is.                                 *)
(***************************************************************************)
EXTENDS Naturals, Sequences

CONSTANTS
    Budget,     \* RESPONSE_BUDGET, in units
    Window,     \* NOTIFY_WINDOW, in units
    Refresh,    \* REGISTER_REFRESH_INTERVAL, in units
    Expires,    \* REGISTER_EXPIRES_SECS, in units
    MaxCgi,     \* bound: units that CGI 107 and 108 may take
    MaxCseq,    \* bound: the last REGISTER sent
    MaxNonce,   \* bound: nonces the base hands out
    MaxNotices, \* bound: NOTIFYs, their retransmissions, and 100 Trying
    Hints,      \* numbers that MESSAGE or config.toml may name as our slot
    Slot,       \* the slot the base has for us,
    Moved,      \* the one it may move us to,
    Other       \* and that of another handset

ASSUME RegistrationAssumption ==
    /\ {Budget, Window, Refresh, Expires} \subseteq Nat \ {0}
    /\ MaxCgi \in Nat /\ MaxNotices \in Nat
    /\ MaxCseq \in Nat /\ MaxCseq >= 3
    /\ MaxNonce \in Nat \ {0}
    /\ Hints \subseteq Nat
    /\ {Slot, Moved, Other} \subseteq 21..28 /\ Other \notin {Slot, Moved}
    /\ Window + Refresh < Expires    \* 5 s, 15 s, 30 s

VARIABLES
    pairing,    \* POST /pair is served; otherwise a paired daemon starts
    ua,         \* where the pair flow or the maintenance loop is
    cseq,       \* CSeq of the last REGISTER (state.last_cseq)
    lastNc,     \* state.last_nc
    nonce,      \* auth.nonce; 0 before the first challenge
    user,       \* auth.terminal, the digest's username: the slot hint
    terminal,   \* state.terminal, the slot REGISTERs are for; 0 unknown
    guessed,    \* it was taken from a roster that does not list our MAC
    timer,      \* units until the current wait or tick is over
    sent,       \* every REGISTER sent
    reqs,       \* REGISTERs on their way to the base
    net,        \* datagrams on their way to, or queued at, our socket
    copied,     \* the network has delivered a datagram twice
    lease,      \* units the base still holds our registration for
    baseNonce,  \* the nonce the base accepts
    unacked,    \* it has a NOTIFY that was not acknowledged
    notices,    \* datagrams the base may yet send by itself
    fault       \* what delayed the refresh since the last accepted REGISTER

slotVars  == <<terminal, guessed>>
registerVars == <<pairing, cseq, lastNc, nonce, user, slotVars>>
uaVars    == <<registerVars, ua, timer>>
wireVars  == <<reqs, net, copied>>
baseVars  == <<lease, baseNonce, unacked, notices>>
vars == <<uaVars, sent, wireVars, baseVars, fault>>

-----------------------------------------------------------------------------
Handset == 21..28     \* the slots of WiFi handsets
Default == 21         \* the hint when MESSAGE told none

Register == [cseq : Nat, nonce : Nat, nc : Nat, user : Nat, as : Nat]
Entry    == [mac : {"ours", "other", "none"}, number : Nat]
Datagram == [kind : {"final", "trying", "notify"}, cseq : Nat, nonce : Nat,
             roster : Seq(Entry)]

\* A final answer; nonce 0: it has no usable WWW-Authenticate header.
Final(c, n) == [kind |-> "final",  cseq |-> c, nonce |-> n, roster |-> <<>>]
Trying(c)   == [kind |-> "trying", cseq |-> c, nonce |-> 0, roster |-> <<>>]
Notice(r)   == [kind |-> "notify", cseq |-> 0, nonce |-> 0, roster |-> r]

\* The rosters the base sends: one whose first number is no WiFi slot, then
\* another handset, then perhaps we, at our slot or moved; the same without
\* MACs; and a NOTIFY of another event.
Rosters ==
    LET of(mac, number) == [mac |-> mac, number |-> number]
        others == <<of("other", 10), of("other", Other)>>
    IN {others, Append(others, of("ours", Slot)),
        Append(others, of("ours", Moved)),
        <<of("none", 10), of("none", Other), of("none", Slot)>>, <<>>}

Init ==
    /\ pairing \in BOOLEAN /\ ua = "message"
    /\ cseq = 0 /\ lastNc = 0 /\ nonce = 0
    /\ user = 0 /\ terminal = 0 /\ guessed = FALSE /\ timer = 0
    /\ sent = {} /\ reqs = {} /\ net = {} /\ copied = FALSE
    /\ lease = 0 /\ baseNonce = 1 /\ unacked = FALSE
    /\ notices = MaxNotices
    /\ fault = "none"

-----------------------------------------------------------------------------
(* Sending and receiving.                                                  *)

\* A REGISTER, authenticated once there is a nonce.  nc is cseq - 1.
RegisterOf(c, n, who, as) ==
    [cseq |-> c, nonce |-> n,
     nc   |-> IF n = 0 THEN 0 ELSE c - 1,
     user |-> IF n = 0 THEN 0 ELSE who,
     as   |-> as]

SendRegister(c, n, who, as) ==
    /\ cseq' = c
    /\ sent' = sent \cup {RegisterOf(c, n, who, as)}
    /\ reqs' = reqs \cup {RegisterOf(c, n, who, as)}
    /\ timer' = Budget

\* Faulty variant: "100 Trying" is not told from a final answer.
AnyResponse(d) == d.kind \in {"final", "trying"}

\* A response to a REGISTER is any "SIP/2.0" datagram but 100 Trying; its
\* CSeq is not looked at.
IsAnswer(d) == d.kind = "final"

HasChallenge(d) == d.nonce # 0

\* recv_from: the network may yet deliver the same datagram again, once.
Recv(d) ==
    /\ d \in net
    /\ \/ net' = net \ {d} /\ UNCHANGED copied
       \/ ~copied /\ copied' = TRUE /\ UNCHANGED net

\* 200 OK to a NOTIFY.
AckNotify(d) == unacked' = (unacked /\ d.kind # "notify")

-----------------------------------------------------------------------------
(* The pair flow: MESSAGE, then register().                                *)

\* A socket, a Call-ID and a tag, and CSeq 1 without authorization.
OpensRegister(hint) ==
    /\ ua = "message"
    /\ ua' = "register"
    /\ user' = hint
    /\ SendRegister(1, 0, hint, hint)
    /\ UNCHANGED <<pairing, lastNc, nonce, slotVars, net, copied, baseVars,
                   fault>>

\* The base's answer to MESSAGE names our slot; any number is believed.  If
\* it names none, is no success or does not come, 21 is assumed.
MessageDone == pairing /\ \E hint \in Hints \cup {Default} : OpensRegister(hint)

\* A paired daemon claims the slot of config.toml, or 21 if it has none.
StartUp == ~pairing /\ \E hint \in Hints \cup {Default} : OpensRegister(hint)

\* While an answer is awaited, requests of the base and 100 Trying are read
\* and dropped, NOTIFYs unacknowledged, and the wait starts anew.
RegisterSkips(d) ==
    /\ ua \in {"register", "refresh"}
    /\ ~IsAnswer(d)
    /\ Recv(d)
    /\ timer' = Budget
    /\ UNCHANGED <<ua, registerVars, sent, reqs, baseVars, fault>>

\* The answer to CSeq 1 must carry a challenge.
Challenged(d) ==
    /\ ua = "register" /\ cseq = 1
    /\ IsAnswer(d)
    /\ Recv(d)
    /\ IF HasChallenge(d)
         THEN /\ nonce' = d.nonce
              /\ SendRegister(2, d.nonce, user, user)
              /\ UNCHANGED ua
         ELSE /\ ua' = "failed" /\ timer' = 0
              /\ UNCHANGED <<nonce, cseq, sent, reqs>>
    /\ UNCHANGED <<pairing, lastNc, user, slotVars, baseVars, fault>>

\* The status of the answer to CSeq 2 is logged, not checked.
Authorized(d) ==
    /\ ua = "register" /\ cseq = 2
    /\ IsAnswer(d)
    /\ Recv(d)
    /\ SendRegister(3, nonce, user, user)
    /\ UNCHANGED <<pairing, ua, lastNc, nonce, user, slotVars, baseVars,
                   fault>>

\* Neither is that of CSeq 3.
Registered(d) ==
    /\ ua = "register" /\ cseq = 3
    /\ IsAnswer(d)
    /\ Recv(d)
    /\ ua' = "slot"
    /\ timer' = Window
    /\ lastNc' = 2
    /\ UNCHANGED <<pairing, cseq, nonce, user, slotVars, sent, reqs, baseVars,
                   fault>>

\* Faulty variant: an unanswered REGISTER goes on waiting.
RegisterWaitsOn ==
    /\ ua \in {"register", "refresh"}
    /\ timer = 0
    /\ timer' = Budget
    /\ UNCHANGED <<ua, registerVars, sent, wireVars, baseVars, fault>>

\* No answer within the budget ends the pair flow, and the maintenance loop.
RegisterTimesOut ==
    /\ ua \in {"register", "refresh"}
    /\ timer = 0
    /\ ua' = IF ua = "register" THEN "failed" ELSE "over"
    /\ UNCHANGED <<registerVars, timer, sent, wireVars, baseVars, fault>>

\* The roster entries that parse_terminal_for_mac accepts ...
OurEntries(roster) ==
    {i \in DOMAIN roster : roster[i].mac = "ours" /\ roster[i].number \in Handset}

\* ... and those of parse_terminal_from_notify; the first one counts.
HandsetEntries(roster) == {i \in DOMAIN roster : roster[i].number \in Handset}

FirstNumber(roster, entries) ==
    roster[CHOOSE i \in entries : \A j \in entries : i <= j].number

\* Faulty variant: the first handset of the roster is taken for us.
FirstSlotIn(roster) ==
    IF HandsetEntries(roster) # {}
      THEN FirstNumber(roster, HandsetEntries(roster)) ELSE 0

\* Our slot according to a roster: by MAC, else the first handset's.
SlotIn(roster) ==
    IF OurEntries(roster) # {} THEN FirstNumber(roster, OurEntries(roster))
    ELSE IF HandsetEntries(roster) # {}
      THEN FirstNumber(roster, HandsetEntries(roster))
    ELSE 0

\* A roster with handsets, but not under our MAC: the code warns, and goes on.
Misses(roster) == HandsetEntries(roster) # {} /\ OurEntries(roster) = {}

\* wait_for_assigned_terminal: ack every NOTIFY, keep the first slot found.
SlotHears(d) ==
    /\ ua = "slot"
    /\ Recv(d)
    /\ AckNotify(d)
    /\ terminal' = IF terminal = 0 THEN SlotIn(d.roster) ELSE terminal
    /\ guessed' = (guessed \/ (terminal = 0 /\ Misses(d.roster)))
    /\ UNCHANGED <<pairing, ua, cseq, lastNc, nonce, user, timer, sent, reqs,
                   lease, baseNonce, notices, fault>>

\* Units that CGI 107/108 may take without endangering the first refresh.
Slack == Expires - Window - Refresh - 1

\* register() returns: CGI 107 and 108 begin, with ack_notifies_forever
\* beside them; at startup maintain_registration is spawned.
AfterRegister ==
    \/ /\ ~pairing
       /\ ua' = "skip" /\ timer' = Refresh
       /\ UNCHANGED fault
    \/ /\ pairing
       /\ ua' = "window"
       /\ \E cgi \in 0..MaxCgi :
            /\ timer' = cgi
            /\ fault' = IF cgi > Slack THEN "other" ELSE fault

\* Faulty variant: no slot seen, and no fall-back to the hint.
SlotUnknown ==
    /\ ua = "slot"
    /\ AfterRegister
    /\ UNCHANGED <<registerVars, sent, wireVars, baseVars>>

\* The window is over (earlier on a receive error).  Without a slot the hint
\* stands.
SlotDone ==
    /\ ua = "slot"
    /\ terminal' = IF terminal = 0 THEN user ELSE terminal
    /\ AfterRegister
    /\ UNCHANGED <<pairing, guessed, cseq, lastNc, nonce, user, sent, wireVars,
                   baseVars>>

AckerHears(d) ==
    /\ ua = "window"
    /\ Recv(d)
    /\ AckNotify(d)
    /\ UNCHANGED <<uaVars, sent, reqs, lease, baseNonce, notices,
                   fault>>

\* The acker is aborted; after a success maintain_registration is spawned.
\* Its interval ticks at once and again after 15 s; both are awaited first.
CgiDone ==
    /\ ua = "window" /\ timer = 0
    /\ pairing' = FALSE
    /\ \/ ua' = "skip" /\ timer' = Refresh
       \/ ua' = "failed" /\ UNCHANGED timer
    /\ UNCHANGED <<cseq, lastNc, nonce, user, slotVars, sent, wireVars, baseVars,
                   fault>>

-----------------------------------------------------------------------------
(* maintain_registration.                                                  *)

\* Faulty variant: the first refresh is due an interval after the ticks.
SkipThenWait ==
    /\ ua = "skip" /\ timer = 0
    /\ ua' = "serve"
    /\ timer' = Refresh
    /\ UNCHANGED <<registerVars, sent, wireVars, baseVars, fault>>

\* The second tick has come: the first refresh is due at once.
SkipDone ==
    /\ ua = "skip" /\ timer = 0
    /\ ua' = "serve"
    /\ UNCHANGED <<registerVars, timer, sent, wireVars, baseVars, fault>>

\* Faulty variant: nc follows last_nc, which every 401 resets.
HeartbeatByLastNc ==
    /\ cseq < MaxCseq
    /\ ua' = "refresh"
    /\ lastNc' = lastNc + 1
    /\ LET r == [cseq |-> cseq + 1, nonce |-> nonce, nc |-> lastNc + 1,
                 user |-> user, as |-> terminal]
       IN /\ cseq' = cseq + 1
          /\ sent' = sent \cup {r}
          /\ reqs' = reqs \cup {r}
          /\ timer' = Budget

\* last_cseq and last_nc advance; send_register_with_nc ignores the latter.
Heartbeat ==
    /\ cseq < MaxCseq
    /\ ua' = "refresh"
    /\ lastNc' = lastNc + 1
    /\ SendRegister(cseq + 1, nonce, user, terminal)

HeartbeatIfDue ==
    IF timer = 0 THEN Heartbeat ELSE UNCHANGED <<ua, lastNc, cseq, sent, reqs,
                                                 timer>>

\* One iteration of the loop that receives a frame: a NOTIFY is acked,
\* anything else dropped; then the tick is looked at.
ServeHears(d) ==
    /\ ua = "serve"
    /\ Recv(d)
    /\ AckNotify(d)
    /\ HeartbeatIfDue
    /\ UNCHANGED <<pairing, nonce, user, slotVars, lease, baseNonce,
                   notices, fault>>

\* One that waits until the tick.
ServeTicks ==
    /\ ua = "serve" /\ timer = 0
    /\ Heartbeat
    /\ UNCHANGED <<pairing, nonce, user, slotVars, net, copied, baseVars, fault>>

\* A challenge is taken over and last_nc reset; the next REGISTER waits for
\* the next tick, as it does after any other answer.
RefreshAnswered(d) ==
    /\ ua = "refresh"
    /\ IsAnswer(d)
    /\ Recv(d)
    /\ IF HasChallenge(d) THEN nonce' = d.nonce /\ lastNc' = 0
                          ELSE UNCHANGED <<nonce, lastNc>>
    /\ ua' = "serve"
    /\ timer' = Refresh
    /\ UNCHANGED <<pairing, cseq, user, slotVars, sent, reqs, baseVars, fault>>

\* A socket cannot be bound or used: the end of the pair flow, of register()
\* or of the maintenance loop.
SocketFails ==
    /\ ua \in {"message", "register", "serve", "refresh"}
    /\ ua' = IF ua \in {"serve", "refresh"} THEN "over" ELSE "failed"
    /\ timer' = 0
    /\ UNCHANGED <<registerVars, sent, wireVars, baseVars, fault>>

-----------------------------------------------------------------------------
(* The base's registrar, the network, and time.                            *)

Answer(r, n) ==
    /\ r \in reqs
    /\ reqs' = reqs \ {r}
    /\ net' = net \cup {Final(r.cseq, n)}

\* CGI 107/108 may go on for longer than even a fresh lease allows.
Accepts(r) ==
    /\ Answer(r, 0)
    /\ r.nonce = baseNonce
    /\ lease' = Expires
    /\ fault' = IF ua = "window" /\ timer + Refresh >= Expires
                  THEN "other" ELSE "none"
    /\ UNCHANGED <<uaVars, sent, copied, baseNonce, unacked,
                   notices>>

\* A challenge, under the same nonce or a new one.
Challenges(r) ==
    /\ \E n \in {baseNonce, baseNonce + 1} :
         /\ n <= MaxNonce
         /\ baseNonce' = n
         /\ Answer(r, n)
    /\ fault' = IF r.nonce # 0 /\ fault = "none" THEN "rotated" ELSE fault
    /\ UNCHANGED <<uaVars, sent, copied, lease, unacked, notices>>

Refuses(r) ==
    /\ Answer(r, 0)
    /\ fault' = "other"
    /\ UNCHANGED <<uaVars, sent, copied, baseVars>>

\* A registered phone is notified, again and again until it acknowledges.
\* What a roster says matters until the window is over.
Notifies ==
    /\ lease > 0 \/ unacked
    /\ notices > 0
    /\ notices' = notices - 1
    /\ unacked' = TRUE
    /\ \E r \in IF ua \in {"register", "slot"} THEN Rosters ELSE {<<>>} :
         net' = net \cup {Notice(r)}
    /\ UNCHANGED <<uaVars, sent, reqs, copied, lease, baseNonce,
                   fault>>

\* 100 Trying, ahead of the answer.
Tries(r) ==
    /\ r \in reqs
    /\ notices > 0
    /\ notices' = notices - 1
    /\ net' = net \cup {Trying(r.cseq)}
    /\ UNCHANGED <<uaVars, sent, reqs, copied, lease, baseNonce,
                   unacked, fault>>

Loses ==
    /\ \/ \E r \in reqs : reqs' = reqs \ {r} /\ UNCHANGED net
       \/ \E d \in net : net' = net \ {d} /\ UNCHANGED reqs
    /\ fault' = "other"
    /\ UNCHANGED <<uaVars, sent, copied, baseVars>>

\* The phone's timers; none runs before MESSAGE is answered or at the end.
Timed == ua \notin {"message", "failed", "over"}

Less(n) == IF n > 0 THEN n - 1 ELSE 0

\* A request or an answer that is still on its way is a late one.
Tick ==
    /\ Timed => timer > 0
    /\ timer > 0 \/ lease > 0
    /\ timer' = Less(timer)
    /\ lease' = Less(lease)
    /\ fault' = IF reqs # {} \/ \E d \in net : d.kind = "final"
                  THEN "other" ELSE fault
    /\ UNCHANGED <<ua, registerVars, sent, wireVars,
                   baseNonce, unacked, notices>>

-----------------------------------------------------------------------------
Hears(d) ==
    \/ RegisterSkips(d) \/ Challenged(d) \/ Authorized(d) \/ Registered(d)
    \/ SlotHears(d) \/ AckerHears(d) \/ ServeHears(d) \/ RefreshAnswered(d)

Phone ==
    \/ MessageDone \/ StartUp \/ RegisterTimesOut \/ SlotDone
    \/ CgiDone \/ SkipDone \/ ServeTicks
    \/ \E d \in net : Hears(d)

Registrar ==
    \/ Notifies
    \/ \E r \in reqs : Tries(r) \/ Accepts(r) \/ Challenges(r) \/ Refuses(r)

\* Once the task is over, what the base does no longer concerns it.
Running  == ua \notin {"failed", "over"}
Finished == ~Running /\ UNCHANGED vars

Next ==
    \/ Phone \/ SocketFails \/ Finished
    \/ Running /\ (Registrar \/ Loses \/ Tick)

Spec == Init /\ [][Next]_vars

\* tokio polls the task when a datagram or a timer is ready, and time goes
\* on.  Nothing is assumed of the base, nor of the network.
FairSpec == Spec /\ WF_vars(Phone) /\ WF_vars(Running /\ Tick)

-----------------------------------------------------------------------------
\* Every variable keeps to its values, and a registration that is kept up is
\* for a handset, or for the number that MESSAGE or config.toml named.
TypeOK ==
    /\ pairing \in BOOLEAN
    /\ ua \in {"message", "register", "slot", "window", "skip", "serve",
               "refresh", "failed", "over"}
    /\ cseq \in Nat /\ lastNc \in Nat /\ nonce \in Nat
    /\ user \in Nat /\ terminal \in Nat /\ timer \in Nat
    /\ ua \in {"window", "skip", "serve", "refresh"} =>
         terminal \in Handset \cup Hints
    /\ sent \subseteq Register /\ reqs \subseteq sent
    /\ net \subseteq Datagram /\ copied \in BOOLEAN
    /\ lease \in Nat /\ baseNonce \in Nat
    /\ guessed \in BOOLEAN /\ unacked \in BOOLEAN
    /\ notices \in 0..MaxNotices
    /\ fault \in {"none", "rotated", "other"}

\* No nonce count is used twice under one nonce, however often the base
\* challenges, with the same nonce or a new one: the digest stays valid
\* although the two counters of the loop drift apart.
NcNeverRepeats ==
    \A r1, r2 \in sent :
        r1.nonce # 0 /\ r1.nonce = r2.nonce /\ r1.nc = r2.nc => r1 = r2

\* While the maintenance task runs, the base's registration lapses only if,
\* since it last accepted a REGISTER, it challenged or refused one, a datagram
\* was lost or late, or CGI 107/108 used up the slack before the first refresh.
\* A challenge alone can do it: the answer waits for the next tick.
LapseHasCause ==
    ua \in {"skip", "serve", "refresh"} /\ lease = 0 => fault # "none"

\* A REGISTER is for a slot that the base listed under our MAC, or else for
\* the one it began with, MESSAGE's, the configuration's or 21 - unless the
\* roster that decided it did not list us; then it may be another handset's.
SpeaksForItself ==
    guessed \/ \A r \in sent : r.as \in {Slot, Moved, user}

\* A REGISTER takes its own answer, unless the network delivered some
\* datagram twice: the code does not compare CSeqs.
AnswersMatch ==
    [][\A d \in net \ net' :
         /\ d.kind = "final"
         /\ ua \in {"register", "refresh"}
         /\ <<ua, cseq>>' # <<ua, cseq>>
         => d.cseq = cseq \/ copied]_vars

\* The wait for an answer ends although every NOTIFY that comes in between
\* starts it anew, as long as the base retransmits for a bounded time.
RegisterEnds == ua = "refresh" ~> ua # "refresh"
=============================================================================
