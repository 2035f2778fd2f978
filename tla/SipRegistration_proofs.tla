----------------------- MODULE SipRegistration_proofs -----------------------
(***************************************************************************)
(* Theorems of SipRegistration, for every value of its constants.          *)
(*                                                                         *)
(* NcNeverRepeats rests on one idea: nc is a function of CSeq, and every   *)
(* REGISTER has a CSeq of its own, because whoever sends one counts CSeq   *)
(* up by one.  The digest is thus kept unambiguous by the counter that the *)
(* code does not look at when it matches answers.                          *)
(*                                                                         *)
(* The other properties follow from SipInv: there is one REGISTER or one   *)
(* answer at a time (OneAnswer), the lease outlasts the current wait       *)
(* (LeaseInv), and a roster misleads us only if it does not list us, which *)
(* the phone could tell (SpeaksInv).                                       *)
(***************************************************************************)
EXTENDS SipRegistration, TLAPS

\* The strengthening of NcNeverRepeats that every step preserves.
NcInv ==
    /\ cseq \in Nat
    /\ ua = "message" => cseq = 0
    /\ \A r \in sent : r.cseq \in 1..cseq /\ (r.nonce # 0 => r.nc = r.cseq - 1)
    /\ \A r1, r2 \in sent : r1.cseq = r2.cseq => r1 = r2

LEMMA InitNc == Init => NcInv
BY DEF Init, NcInv

\* A step that sends nothing, and does not go back to MESSAGE.
LEMMA QuietNc ==
    ASSUME NcInv, UNCHANGED <<cseq, sent>>, ua' = ua \/ ua' # "message"
    PROVE  NcInv'
BY DEF NcInv

\* A step that sends the next REGISTER.
LEMMA SendNc ==
    ASSUME NcInv, NEW n, NEW who, NEW as,
           SendRegister(cseq + 1, n, who, as), ua' # "message"
    PROVE  NcInv'
<1> DEFINE r0 == RegisterOf(cseq + 1, n, who, as)
<1>1. cseq' = cseq + 1 /\ sent' = sent \cup {r0}
  BY DEF SendRegister
<1>2. cseq \in Nat /\ cseq' \in Nat /\ cseq + 1 - 1 = cseq
  BY <1>1 DEF NcInv
<1>3. r0.cseq \in 1..cseq' /\ (r0.nonce # 0 => r0.nc = r0.cseq - 1)
  BY <1>1, <1>2 DEF RegisterOf
<1>4. \A r \in sent : r.cseq \in 1..cseq /\ r.cseq # r0.cseq
  BY <1>2 DEF NcInv, RegisterOf
<1> HIDE DEF r0
<1>5. \A r \in sent' : r.cseq \in 1..cseq' /\ (r.nonce # 0 => r.nc = r.cseq - 1)
  <2>1. SUFFICES ASSUME NEW r \in sent
                 PROVE  r.cseq \in 1..cseq' /\ (r.nonce # 0 => r.nc = r.cseq - 1)
    BY <1>1, <1>3
  <2>2. QED
    BY <1>1, <1>2 DEF NcInv
<1>6. \A r1, r2 \in sent' : r1.cseq = r2.cseq => r1 = r2
  <2>1. \A r1, r2 \in sent : r1.cseq = r2.cseq => r1 = r2
    BY DEF NcInv
  <2>2. QED
    BY <1>1, <1>4, <2>1
<1>7. QED
  BY <1>2, <1>5, <1>6 DEF NcInv

LEMMA HearsNc ==
    ASSUME NcInv, NEW d \in net, Hears(d)
    PROVE  NcInv'
<1>1. CASE RegisterSkips(d)
  BY <1>1, QuietNc DEF RegisterSkips, registerVars, slotVars
<1>2. CASE Challenged(d)
  <2>1. ua = "register" /\ cseq = 1 /\ cseq + 1 = 2
    BY <1>2 DEF Challenged
  <2>2. CASE HasChallenge(d)
    <3>1. SendRegister(cseq + 1, d.nonce, user, user) /\ ua' = ua
      BY <1>2, <2>1, <2>2 DEF Challenged
    <3>2. QED
      BY <3>1, <2>1, SendNc
  <2>3. CASE ~HasChallenge(d)
    BY <1>2, <2>3, QuietNc DEF Challenged
  <2>4. QED
    BY <2>2, <2>3
<1>3. CASE Authorized(d)
  <2>1. /\ cseq = 2 /\ cseq + 1 = 3
        /\ SendRegister(cseq + 1, nonce, user, user)
        /\ ua' = "register"
    BY <1>3 DEF Authorized
  <2>2. QED
    BY <2>1, SendNc
<1>4. CASE Registered(d)
  BY <1>4, QuietNc DEF Registered
<1>5. CASE SlotHears(d)
  BY <1>5, QuietNc DEF SlotHears
<1>6. CASE AckerHears(d)
  BY <1>6, QuietNc DEF AckerHears, uaVars, registerVars, slotVars
<1>7. CASE ServeHears(d)
  <2>1. CASE timer = 0
    <3>1. SendRegister(cseq + 1, nonce, user, terminal) /\ ua' = "refresh"
      BY <1>7, <2>1 DEF ServeHears, HeartbeatIfDue, Heartbeat
    <3>2. QED
      BY <3>1, SendNc
  <2>2. CASE timer # 0
    BY <1>7, <2>2, QuietNc DEF ServeHears, HeartbeatIfDue
  <2>3. QED
    BY <2>1, <2>2
<1>8. CASE RefreshAnswered(d)
  BY <1>8, QuietNc DEF RefreshAnswered
<1>9. QED
  BY <1>1, <1>2, <1>3, <1>4, <1>5, <1>6, <1>7, <1>8 DEF Hears

LEMMA OpensNc ==
    ASSUME NcInv, NEW hint, OpensRegister(hint)
    PROVE  NcInv'
<1>1. cseq = 0 /\ cseq + 1 = 1
  BY DEF OpensRegister, NcInv
<1>2. SendRegister(cseq + 1, 0, hint, hint) /\ ua' = "register"
  BY <1>1 DEF OpensRegister
<1>3. QED
  BY <1>2, SendNc

LEMMA PhoneNc ==
    ASSUME NcInv, Phone
    PROVE  NcInv'
<1>1. CASE MessageDone \/ StartUp
  BY <1>1, OpensNc DEF MessageDone, StartUp
<1>2. CASE RegisterTimesOut
  BY <1>2, QuietNc DEF RegisterTimesOut, registerVars, slotVars
<1>3. CASE SlotDone
  BY <1>3, QuietNc DEF SlotDone, AfterRegister
<1>4. CASE CgiDone
  BY <1>4, QuietNc DEF CgiDone
<1>5. CASE SkipDone
  BY <1>5, QuietNc DEF SkipDone, registerVars, slotVars
<1>6. CASE ServeTicks
  <2>1. SendRegister(cseq + 1, nonce, user, terminal) /\ ua' = "refresh"
    BY <1>6 DEF ServeTicks, Heartbeat
  <2>2. QED
    BY <2>1, SendNc
<1>7. CASE \E d \in net : Hears(d)
  BY <1>7, HearsNc
<1>8. QED
  BY <1>1, <1>2, <1>3, <1>4, <1>5, <1>6, <1>7 DEF Phone

\* What the base, the network and the clock do.
LEMMA EnvironmentNc ==
    ASSUME NcInv, Registrar \/ Loses \/ Tick
    PROVE  NcInv'
<1>1. UNCHANGED <<cseq, sent, ua>>
  <2>1. CASE Notifies
    BY <2>1 DEF Notifies, uaVars, registerVars, slotVars
  <2>2. CASE \E r \in reqs : Tries(r)
    BY <2>2 DEF Tries, uaVars, registerVars, slotVars
  <2>3. CASE \E r \in reqs : Accepts(r)
    BY <2>3 DEF Accepts, uaVars, registerVars, slotVars
  <2>4. CASE \E r \in reqs : Challenges(r)
    BY <2>4 DEF Challenges, uaVars, registerVars, slotVars
  <2>5. CASE \E r \in reqs : Refuses(r)
    BY <2>5 DEF Refuses, uaVars, registerVars, slotVars
  <2>6. CASE Loses
    BY <2>6 DEF Loses, uaVars, registerVars, slotVars
  <2>7. CASE Tick
    BY <2>7 DEF Tick, registerVars, slotVars
  <2>8. QED
    BY <2>1, <2>2, <2>3, <2>4, <2>5, <2>6, <2>7 DEF Registrar
<1>2. QED
  BY <1>1, QuietNc

LEMMA NextNc == NcInv /\ [Next]_vars => NcInv'
<1> SUFFICES ASSUME NcInv, [Next]_vars
             PROVE  NcInv'
  OBVIOUS
<1>1. CASE Phone
  BY <1>1, PhoneNc
<1>2. CASE SocketFails
  BY <1>2, QuietNc DEF SocketFails, registerVars, slotVars
<1>3. CASE Running /\ (Registrar \/ Loses \/ Tick)
  BY <1>3, EnvironmentNc
<1>4. CASE Finished \/ UNCHANGED vars
  BY <1>4, QuietNc DEF Finished, vars, uaVars, registerVars, slotVars
<1>5. QED
  BY <1>1, <1>2, <1>3, <1>4 DEF Next

LEMMA NcInvImplies == NcInv => NcNeverRepeats
<1> SUFFICES ASSUME NcInv, NEW r1 \in sent, NEW r2 \in sent,
                    r1.nonce # 0, r1.nonce = r2.nonce, r1.nc = r2.nc
             PROVE  r1 = r2
  BY DEF NcNeverRepeats
<1>1. r1.nc = r1.cseq - 1 /\ r2.nc = r2.cseq - 1
  BY DEF NcInv
<1>2. r1.cseq \in Nat /\ r2.cseq \in Nat
  BY DEF NcInv
<1>3. r1.cseq = r2.cseq
  <2>1. \A a, b \in Nat : a - 1 = b - 1 => a = b
    OBVIOUS
  <2>2. QED
    BY <1>1, <1>2, <2>1
<1>4. QED
  BY <1>3 DEF NcInv

\* Whatever the base challenges with, and however datagrams are lost, late
\* or repeated, send_register_with_nc never uses a nonce count twice under
\* one nonce.
THEOREM NcNeverRepeatsHolds == Spec => []NcNeverRepeats
<1>1. Spec => []NcInv
  BY InitNc, NextNc, PTL DEF Spec
<1>2. QED
  BY <1>1, NcInvImplies, PTL

-----------------------------------------------------------------------------
(* TypeOK.                                                                 *)

\* TypeOK with what it rests on: the user name is a slot or was named to us
\* once a REGISTER was sent, and a datagram carries one of the base's rosters.
TypeInv ==
    /\ TypeOK
    /\ cseq > 0 => user \in Handset \cup Hints
    /\ ua \notin {"message", "failed"} => cseq > 0
    /\ terminal \in Handset \cup Hints \cup {0}
    /\ \A d \in net : d.roster \in Rosters

LEMMA FirstNumberOf ==
    ASSUME NEW roster, NEW entries, NEW i \in entries, entries \subseteq Nat,
           \A j \in entries : i <= j
    PROVE  FirstNumber(roster, entries) = roster[i].number
<1> DEFINE first == CHOOSE k \in entries : \A j \in entries : k <= j
<1>1. first \in entries /\ \A j \in entries : first <= j
  BY Zenon
<1> HIDE DEF first
<1>2. first = i
  BY <1>1
<1>3. QED
  BY <1>2 DEF FirstNumber, first

\* A roster lists others, or others and us, or carries no MACs.
LEMMA RosterShapes ==
    ASSUME NEW roster \in Rosters
    PROVE  \/ roster = <<>>
           \/ DOMAIN roster = 1..2 /\ roster[1].number = 10
              /\ roster[2].number = Other /\ roster[1].mac = "other"
              /\ roster[2].mac = "other"
           \/ DOMAIN roster = 1..3 /\ roster[1].number = 10
              /\ roster[2].number = Other
              /\ \/ /\ roster[1].mac = "other" /\ roster[2].mac = "other"
                    /\ roster[3].mac = "ours" /\ roster[3].number \in {Slot, Moved}
                 \/ /\ roster[1].mac = "none" /\ roster[2].mac = "none"
                    /\ roster[3].mac = "none" /\ roster[3].number = Slot
BY DEF Rosters

\* What a roster says of our slot: if it lists handsets, then ours too, or the
\* phone knows that it does not.
LEMMA SlotInRoster ==
    ASSUME NEW roster \in Rosters
    PROVE  /\ SlotIn(roster) \in Handset \cup {0}
           /\ ~Misses(roster) => SlotIn(roster) \in {0, Slot, Moved}
<1>1. Other \in Handset /\ {Slot, Moved} \subseteq Handset /\ 10 \notin Handset
  BY RegistrationAssumption DEF Handset
<1>2. CASE roster = <<>>
  BY <1>2 DEF SlotIn, OurEntries, HandsetEntries
<1>3. CASE DOMAIN roster = 1..2
  <2>1. HandsetEntries(roster) = {2} /\ OurEntries(roster) = {}
    BY <1>1, <1>3, RosterShapes DEF HandsetEntries, OurEntries
  <2>2. FirstNumber(roster, {2}) = Other
    BY <1>3, RosterShapes, FirstNumberOf
  <2>3. QED
    BY <1>1, <2>1, <2>2 DEF SlotIn, Misses
<1>4. CASE DOMAIN roster = 1..3 /\ roster[3].mac = "ours"
  <2>1. HandsetEntries(roster) = {2, 3} /\ OurEntries(roster) = {3}
    BY <1>1, <1>4, RosterShapes DEF HandsetEntries, OurEntries
  <2>2. FirstNumber(roster, {3}) \in {Slot, Moved}
    BY <1>4, RosterShapes, FirstNumberOf
  <2>3. QED
    BY <1>1, <2>1, <2>2 DEF SlotIn
<1>5. CASE DOMAIN roster = 1..3 /\ roster[3].mac = "none"
  <2>1. /\ DOMAIN roster = 1..3 /\ roster[1].number = 10
        /\ roster[2].number = Other /\ roster[3].number = Slot
        /\ \A k \in 1..3 : roster[k].mac = "none"
    BY <1>5, RosterShapes
  <2>2. HandsetEntries(roster) = {2, 3} /\ OurEntries(roster) = {}
    BY <1>1, <2>1 DEF HandsetEntries, OurEntries
  <2>3. FirstNumber(roster, {2, 3}) = Other
    BY <2>1, FirstNumberOf
  <2>4. Misses(roster) /\ SlotIn(roster) = Other
    <3>1. OurEntries(roster) = {} /\ HandsetEntries(roster) # {}
      BY <2>2
    <3>2. QED
      BY <2>2, <2>3, <3>1 DEF SlotIn, Misses
  <2>5. QED
    BY <1>1, <2>4
<1>6. QED
  BY <1>2, <1>3, <1>4, <1>5, RosterShapes

LEMMA RostersType == Rosters \subseteq Seq(Entry)
<1>1. \A roster \in Rosters : DOMAIN roster = 1 .. Len(roster)
  BY DEF Rosters
<1>2. QED
  BY <1>1, RegistrationAssumption DEF Rosters, Entry

LEMMA InitType == Init => TypeInv
<1> SUFFICES ASSUME Init
             PROVE  TypeInv
  OBVIOUS
<1>1. MaxNotices \in 0..MaxNotices
  BY RegistrationAssumption
<1>2. TypeOK
  BY <1>1 DEF Init, TypeOK
<1>3. QED
  BY <1>2 DEF Init, TypeInv

LEMMA ConstantTypes ==
    /\ Budget \in Nat /\ Window \in Nat /\ Refresh \in Nat /\ Expires \in Nat
    /\ Hints \subseteq Nat /\ Handset \subseteq Nat
BY RegistrationAssumption DEF Handset

LEMMA RegisterOfType ==
    ASSUME NEW c \in Nat, c > 0, NEW n \in Nat, NEW who \in Nat, NEW as \in Nat
    PROVE  RegisterOf(c, n, who, as) \in Register
<1>1. (IF n = 0 THEN 0 ELSE c - 1) \in Nat /\ (IF n = 0 THEN 0 ELSE who) \in Nat
  OBVIOUS
<1>2. QED
  BY <1>1, Zenon DEF RegisterOf, Register

LEMMA SendType ==
    ASSUME TypeInv, NEW n \in Nat, NEW who \in Nat, NEW as \in Nat,
           SendRegister(cseq + 1, n, who, as)
    PROVE  /\ cseq' \in Nat /\ cseq' > 0 /\ timer' \in Nat
           /\ sent' \subseteq Register /\ reqs' \subseteq sent'
<1> DEFINE r == RegisterOf(cseq + 1, n, who, as)
<1>1. cseq \in Nat /\ cseq + 1 \in Nat /\ cseq + 1 > 0
  BY DEF TypeInv, TypeOK
<1>2. r \in Register
  BY <1>1, RegisterOfType
<1> HIDE DEF r
<1>3. cseq' = cseq + 1 /\ sent' = sent \cup {r} /\ reqs' = reqs \cup {r}
      /\ timer' = Budget
  BY DEF SendRegister, r
<1>4. QED
  BY <1>1, <1>2, <1>3, ConstantTypes DEF TypeInv, TypeOK

LEMMA RecvType ==
    ASSUME TypeInv, NEW d, Recv(d)
    PROVE  /\ d \in Datagram /\ net' \subseteq net
           /\ copied' \in BOOLEAN /\ d.nonce \in Nat
           /\ SlotIn(d.roster) \in Handset \cup {0}
<1>1. SlotIn(d.roster) \in Handset \cup {0}
  BY SlotInRoster DEF Recv, TypeInv, TypeOK
<1>2. QED
  BY <1>1 DEF Recv, TypeInv, TypeOK, Datagram

LEMMA HeartbeatType ==
    ASSUME TypeInv, Heartbeat, UNCHANGED <<nonce, user, terminal>>
    PROVE  /\ cseq' \in Nat /\ cseq' > 0 /\ timer' \in Nat /\ lastNc' \in Nat
           /\ sent' \subseteq Register /\ reqs' \subseteq sent'
           /\ ua' = "refresh"
BY SendType DEF Heartbeat, TypeInv, TypeOK, Handset

LEMMA HearsType ==
    ASSUME TypeInv, NEW d \in net, Hears(d)
    PROVE  TypeInv'
<1> USE ConstantTypes
    DEF TypeInv, TypeOK, registerVars, slotVars, uaVars, baseVars
<1>1. Recv(d)
  BY DEF Hears, RegisterSkips, Challenged, Authorized, Registered, SlotHears,
         AckerHears, ServeHears, RefreshAnswered
<1>2. /\ net' \subseteq net /\ copied' \in BOOLEAN /\ d.nonce \in Nat
      /\ SlotIn(d.roster) \in Handset \cup {0}
  BY <1>1, RecvType
<1>3. CASE RegisterSkips(d)
  BY <1>2, <1>3 DEF RegisterSkips
<1>4. CASE Challenged(d)
  <2>1. CASE HasChallenge(d)
    <3>1. cseq + 1 = 2 /\ SendRegister(cseq + 1, d.nonce, user, user)
      BY <1>4, <2>1 DEF Challenged
    <3>2. QED
      BY <1>2, <1>4, <2>1, <3>1, SendType DEF Challenged
  <2>2. CASE ~HasChallenge(d)
    BY <1>2, <1>4, <2>2 DEF Challenged
  <2>3. QED
    BY <2>1, <2>2
<1>5. CASE Authorized(d)
  <2>1. cseq + 1 = 3 /\ SendRegister(cseq + 1, nonce, user, user)
    BY <1>5 DEF Authorized
  <2>2. QED
    BY <1>2, <1>5, <2>1, SendType DEF Authorized
<1>6. CASE Registered(d)
  BY <1>2, <1>6 DEF Registered
<1>7. CASE SlotHears(d)
  <2>1. terminal' \in Handset \cup Hints \cup {0} /\ guessed' \in BOOLEAN
    BY <1>2, <1>7 DEF SlotHears
  <2>2. terminal' \in Nat
    BY <2>1 DEF Handset
  <2>3. unacked' \in BOOLEAN
    BY <1>7 DEF SlotHears, AckNotify
  <2>4. QED
    BY <1>2, <1>7, <2>1, <2>2, <2>3 DEF SlotHears
<1>8. CASE AckerHears(d)
  BY <1>2, <1>8 DEF AckerHears, AckNotify
<1>9. CASE ServeHears(d)
  <2>1. CASE timer = 0
    BY <1>2, <1>9, <2>1, HeartbeatType DEF ServeHears, HeartbeatIfDue, AckNotify
  <2>2. CASE timer # 0
    BY <1>2, <1>9, <2>2 DEF ServeHears, HeartbeatIfDue, AckNotify
  <2>3. QED
    BY <2>1, <2>2
<1>10. CASE RefreshAnswered(d)
  BY <1>2, <1>10 DEF RefreshAnswered
<1>11. QED
  BY <1>3, <1>4, <1>5, <1>6, <1>7, <1>8, <1>9, <1>10 DEF Hears

LEMMA PhoneType ==
    ASSUME TypeInv, NcInv, Phone
    PROVE  TypeInv'
<1> USE ConstantTypes
    DEF TypeInv, TypeOK, registerVars, slotVars, uaVars, baseVars, wireVars
<1>1. ASSUME NEW hint \in Hints \cup {Default}, OpensRegister(hint)
      PROVE  TypeInv'
  <2>1. hint \in Handset \cup Hints /\ hint \in Nat
    BY DEF Handset, Default
  <2>2. cseq + 1 = 1 /\ SendRegister(cseq + 1, 0, hint, hint)
    BY <1>1 DEF OpensRegister, NcInv
  <2>3. QED
    BY <1>1, <2>1, <2>2, SendType DEF OpensRegister
<1>2. CASE RegisterTimesOut
  BY <1>2 DEF RegisterTimesOut
<1>3. CASE SlotDone
  BY <1>3 DEF SlotDone, AfterRegister
<1>4. CASE CgiDone
  BY <1>4 DEF CgiDone
<1>5. CASE SkipDone
  BY <1>5 DEF SkipDone
<1>6. CASE ServeTicks
  BY <1>6, HeartbeatType DEF ServeTicks
<1>7. CASE \E d \in net : Hears(d)
  BY <1>7, HearsType
<1>8. QED
  BY <1>1, <1>2, <1>3, <1>4, <1>5, <1>6, <1>7 DEF Phone, MessageDone, StartUp

LEMMA EnvironmentType ==
    ASSUME TypeInv, Registrar \/ Loses \/ Tick
    PROVE  TypeInv'
<1> USE ConstantTypes
    DEF TypeInv, TypeOK, registerVars, slotVars, uaVars, baseVars, wireVars
<1>1. CASE Notifies
  <2>1. PICK r \in Rosters : net' = net \cup {Notice(r)}
    <3>1. <<>> \in Rosters
      BY DEF Rosters
    <3>2. QED
      BY <1>1, <3>1 DEF Notifies
  <2>2. Notice(r) \in Datagram /\ Notice(r).roster \in Rosters
    BY <2>1, RostersType DEF Notice, Datagram
  <2>3. notices' \in 0..MaxNotices
    BY <1>1, RegistrationAssumption DEF Notifies
  <2>4. QED
    BY <1>1, <2>1, <2>2, <2>3 DEF Notifies
<1>2. ASSUME NEW r \in reqs, NEW n \in Nat, Answer(r, n)
      PROVE  /\ net' \subseteq Datagram /\ reqs' \subseteq sent
             /\ \A d \in net' : d.roster \in Rosters
  <2>1. r \in Register
    OBVIOUS
  <2>2. Final(r.cseq, n) \in Datagram /\ Final(r.cseq, n).roster \in Rosters
    BY <2>1 DEF Final, Datagram, Register, Rosters
  <2>3. QED
    BY <1>2, <2>2 DEF Answer
<1>3. CASE \E r \in reqs : Tries(r)
  <2>1. PICK r \in reqs : Tries(r)
    BY <1>3
  <2>2. Trying(r.cseq) \in Datagram /\ Trying(r.cseq).roster \in Rosters
    BY DEF Trying, Datagram, Register, Rosters
  <2>3. notices' \in 0..MaxNotices
    BY <2>1, RegistrationAssumption DEF Tries
  <2>4. QED
    BY <2>1, <2>2, <2>3 DEF Tries
<1>4. CASE \E r \in reqs : Accepts(r)
  BY <1>2, <1>4 DEF Accepts
<1>5. CASE \E r \in reqs : Challenges(r)
  <2>1. PICK r \in reqs : Challenges(r)
    BY <1>5
  <2>2. PICK n \in {baseNonce, baseNonce + 1} : baseNonce' = n /\ Answer(r, n)
    BY <2>1 DEF Challenges
  <2>3. n \in Nat
    BY <2>2
  <2>4. QED
    BY <1>2, <2>1, <2>2, <2>3 DEF Challenges
<1>6. CASE \E r \in reqs : Refuses(r)
  BY <1>2, <1>6 DEF Refuses
<1>7. CASE Loses
  BY <1>7 DEF Loses
<1>8. CASE Tick
  <2>1. timer' \in Nat /\ lease' \in Nat
    BY <1>8 DEF Tick, Less
  <2>2. fault' \in {"none", "rotated", "other"}
    BY <1>8 DEF Tick
  <2>3. QED
    BY <1>8, <2>1, <2>2 DEF Tick
<1>9. QED
  BY <1>1, <1>3, <1>4, <1>5, <1>6, <1>7, <1>8 DEF Registrar

LEMMA NextType == TypeInv /\ NcInv /\ [Next]_vars => TypeInv'
<1> SUFFICES ASSUME TypeInv, NcInv, [Next]_vars
             PROVE  TypeInv'
  OBVIOUS
<1>1. CASE Phone
  BY <1>1, PhoneType
<1>2. CASE SocketFails
  BY <1>2
     DEF SocketFails, TypeInv, TypeOK, registerVars, slotVars, baseVars, wireVars
<1>3. CASE Running /\ (Registrar \/ Loses \/ Tick)
  BY <1>3, EnvironmentType
<1>4. CASE Finished \/ UNCHANGED vars
  BY <1>4
     DEF Finished, TypeInv, TypeOK, vars, uaVars, registerVars, slotVars, baseVars, wireVars
<1>5. QED
  BY <1>1, <1>2, <1>3, <1>4 DEF Next

\* Every variable of the SIP side keeps to its values; in particular nobody
\* keeps up a registration for no slot at all, although a roster may name none
\* and MESSAGE may tell none: it is a handset's, or the number that was told.
THEOREM SipTypeCorrect == Spec => []TypeOK
<1>1. Spec => [](NcInv /\ TypeInv)
  BY InitNc, InitType, NextNc, NextType, PTL DEF Spec
<1>2. NcInv /\ TypeInv => TypeOK
  BY DEF TypeInv
<1>3. QED
  BY <1>1, <1>2, PTL

-----------------------------------------------------------------------------
(* AnswersMatch, LapseHasCause and SpeaksForItself.                        *)

Answers  == {d \in net : IsAnswer(d)}
Awaiting == ua \in {"register", "refresh"}

\* How far the flow has come, in every state: the digest has its nonce before
\* the slot is awaited, and no wait is longer than it was set to.
FlowInv ==
    /\ cseq = 0 => Answers = {}
    /\ cseq >= 2 => nonce # 0
    /\ ua \in {"slot", "window", "skip", "serve", "refresh"} => cseq >= 3
    /\ ua \in {"message", "register"} => terminal = 0
    /\ ua = "slot" => timer <= Window
    /\ ua \in {"skip", "serve"} => timer <= Refresh

\* Unless a datagram was delivered twice, there is one REGISTER under way or
\* one answer to it, and either is to the last CSeq.
OneAnswer ==
    ~copied =>
        /\ \A r \in reqs : r.cseq = cseq
        /\ \A d \in Answers : d.cseq = cseq
        /\ reqs # {} => Answers = {}
        /\ \A r1, r2 \in reqs : r1 = r2
        /\ \A d1, d2 \in Answers : d1 = d2
        /\ Running /\ ~Awaiting => reqs = {} /\ Answers = {}

\* A REGISTER is under way that will be accepted if nothing goes wrong.
Ripe == \E r \in reqs : r.nonce # 0

\* The first registration, before the base has accepted a REGISTER.
UnregisteredInv ==
    /\ cseq = 1 => /\ Answers # {} => reqs = {}
                   /\ \A r1, r2 \in reqs : r1 = r2
                   /\ \A d1, d2 \in Answers : d1 = d2
    /\ cseq >= 2 => \A r \in reqs : r.nonce # 0
    /\ cseq = 2 => \/ Answers = {}
                   \/ copied /\ \A d1, d2 \in Answers : d1 = d2
    /\ cseq = 3 => Answers = {}

\* While nothing has gone wrong since the base last accepted a REGISTER, the
\* lease outlasts every wait until the next one is sent.
LeaseInv ==
    fault = "none" =>
        /\ Awaiting => reqs # {} \/ Answers # {}
        /\ ua = "register" /\ lease # Expires => UnregisteredInv
        /\ ua = "slot"    => lease + Window >= timer + Expires
        /\ ua = "window"  => lease > timer + Refresh
        /\ ua = "skip"    => lease > timer
        /\ ua = "serve"   => lease > 0 /\ (Ripe \/ lease > timer)
        /\ ua = "refresh" => lease > 0 /\ (Ripe \/ lease = Expires)

\* Unless a roster did not list us, the slot is the base's or, at the end of
\* the window, the one that MESSAGE or the configuration named.
SpeaksInv ==
    \/ guessed
    \/ /\ \A r \in sent : r.as \in {Slot, Moved, user}
       /\ ua = "slot" => terminal \in {0, Slot, Moved}
       /\ ua \in {"skip", "window", "serve", "refresh"} =>
            terminal \in {Slot, Moved, user}

LEMMA InitFlow == Init => FlowInv /\ OneAnswer /\ LeaseInv /\ SpeaksInv
BY DEF Init, FlowInv, OneAnswer, LeaseInv, SpeaksInv, SpeaksForItself, Answers,
       Awaiting

\* What hearing a datagram does to the answers at the socket.
LEMMA RecvAnswers ==
    ASSUME NEW d \in net, Recv(d)
    PROVE  /\ Answers' \subseteq Answers
           /\ ~IsAnswer(d) => Answers' = Answers
           /\ IsAnswer(d) => d \in Answers
           /\ net' = net => Answers' = Answers
           /\ net' # net => Answers' = Answers \ {d} /\ copied' = copied
           /\ copied => copied' /\ Answers' = Answers \ {d}
           /\ ~copied' => Answers' = Answers \ {d}
BY DEF Recv, Answers, IsAnswer

\* What the base does with a REGISTER.
LEMMA AnswerAnswers ==
    ASSUME NEW r \in reqs, NEW n, Answer(r, n)
    PROVE  Answers' = Answers \cup {Final(r.cseq, n)} /\ reqs' = reqs \ {r}
BY DEF Answer, Answers, IsAnswer, Final

LEMMA NoticeAnswers ==
    /\ \A r : net' = net \cup {Notice(r)} => Answers' = Answers
    /\ \A c : net' = net \cup {Trying(c)} => Answers' = Answers
BY DEF Notice, Trying, Answers, IsAnswer

LEMMA SendEffect ==
    ASSUME NEW c, NEW n, NEW who, NEW as, SendRegister(c, n, who, as)
    PROVE  \E r : /\ cseq' = c /\ timer' = Budget
                  /\ sent' = sent \cup {r} /\ reqs' = reqs \cup {r}
                  /\ r.cseq = c /\ r.nonce = n /\ r.as = as
                  /\ n # 0 => r.user = who
<1> DEFINE r == RegisterOf(c, n, who, as)
<1>1. r.cseq = c /\ r.nonce = n /\ r.as = as /\ (n # 0 => r.user = who)
  BY DEF RegisterOf
<1> HIDE DEF r
<1>2. cseq' = c /\ timer' = Budget
      /\ sent' = sent \cup {r} /\ reqs' = reqs \cup {r}
  BY DEF SendRegister, r
<1>3. QED
  BY <1>1, <1>2

LEMMA NextFlow == TypeInv /\ NcInv /\ FlowInv /\ [Next]_vars => FlowInv'
<1> SUFFICES ASSUME TypeInv, NcInv, FlowInv, [Next]_vars
             PROVE  FlowInv'
  OBVIOUS
<1> USE ConstantTypes
    DEF FlowInv, TypeInv, TypeOK, registerVars, slotVars, uaVars, baseVars, wireVars
<1>1. cseq = 0 => reqs = {}
  BY DEF NcInv
<1>2. CASE \E hint \in Hints \cup {Default} : OpensRegister(hint)
  <2>1. cseq = 0 /\ cseq' = 1 /\ ua' = "register" /\ terminal' = terminal
        /\ ua = "message"
    BY <1>2 DEF OpensRegister, SendRegister, NcInv
  <2>2. QED
    BY <2>1
<1>3. CASE RegisterTimesOut
  BY <1>3 DEF RegisterTimesOut, Answers
<1>4. CASE SlotDone
  BY <1>4 DEF SlotDone, AfterRegister, Answers
<1>5. CASE CgiDone
  BY <1>5 DEF CgiDone, Answers
<1>6. CASE SkipDone
  BY <1>6 DEF SkipDone, Answers
<1>7. ASSUME Heartbeat, ua = "serve", nonce' = nonce, Answers' \subseteq Answers
      PROVE  FlowInv'
  BY <1>7 DEF Heartbeat, SendRegister
<1>8. CASE ServeTicks
  BY <1>7, <1>8 DEF ServeTicks, Answers
<1>9. ASSUME NEW d \in net, Hears(d)
      PROVE  FlowInv'
  <2>1. Recv(d)
    BY <1>9 DEF Hears, RegisterSkips, Challenged, Authorized, Registered,
                SlotHears, AckerHears, ServeHears, RefreshAnswered
  <2>2. Answers' \subseteq Answers
    BY <2>1, RecvAnswers
  <2>3. CASE RegisterSkips(d)
    BY <2>2, <2>3 DEF RegisterSkips
  <2>4. CASE Challenged(d)
    BY <2>2, <2>4 DEF Challenged, HasChallenge, SendRegister
  <2>5. CASE Authorized(d)
    BY <2>2, <2>5 DEF Authorized, SendRegister
  <2>6. CASE Registered(d)
    BY <2>2, <2>6 DEF Registered
  <2>7. CASE SlotHears(d)
    BY <2>2, <2>7 DEF SlotHears
  <2>8. CASE AckerHears(d)
    BY <2>2, <2>8 DEF AckerHears
  <2>9. CASE ServeHears(d)
    BY <1>7, <2>2, <2>9 DEF ServeHears, HeartbeatIfDue
  <2>10. CASE RefreshAnswered(d)
    BY <2>2, <2>10 DEF RefreshAnswered, HasChallenge
  <2>11. QED
    BY <1>9, <2>3, <2>4, <2>5, <2>6, <2>7, <2>8, <2>9, <2>10 DEF Hears
<1>10. CASE SocketFails
  BY <1>10 DEF SocketFails, Answers
<1>11. CASE Registrar \/ Loses \/ Tick
  <2>1. UNCHANGED <<ua, cseq, nonce, terminal>> /\ (timer' = timer \/ Tick)
    <3>1. CASE Notifies
      BY <3>1 DEF Notifies
    <3>2. CASE \E r \in reqs : Tries(r)
      BY <3>2 DEF Tries
    <3>3. CASE \E r \in reqs : Accepts(r)
      BY <3>3 DEF Accepts
    <3>4. CASE \E r \in reqs : Challenges(r)
      BY <3>4 DEF Challenges
    <3>5. CASE \E r \in reqs : Refuses(r)
      BY <3>5 DEF Refuses
    <3>6. CASE Loses
      BY <3>6 DEF Loses
    <3>7. CASE Tick
      BY <3>7 DEF Tick
    <3>8. QED
      BY <1>11, <3>1, <3>2, <3>3, <3>4, <3>5, <3>6, <3>7 DEF Registrar
  <2>2. timer' <= timer /\ timer' \in Nat
    BY <2>1 DEF Tick, Less
  <2>3. cseq = 0 => Answers' = {}
    <3>1. CASE Notifies
      BY <3>1, NoticeAnswers DEF Notifies
    <3>2. CASE \E r \in reqs : Tries(r) \/ Accepts(r) \/ Challenges(r) \/ Refuses(r)
      BY <1>1, <3>2
    <3>3. CASE Loses \/ Tick
      BY <1>1, <3>3 DEF Loses, Tick, Answers
    <3>4. QED
      BY <1>11, <3>1, <3>2, <3>3 DEF Registrar
  <2>4. QED
    BY <2>1, <2>2, <2>3
<1>12. CASE Finished \/ UNCHANGED vars
  BY <1>12 DEF Finished, vars, Answers
<1>13. QED
  BY <1>2, <1>3, <1>4, <1>5, <1>6, <1>8, <1>9, <1>10, <1>11, <1>12
     DEF Next, Phone, MessageDone, StartUp

LEMMA NextOneAnswer ==
    TypeInv /\ NcInv /\ FlowInv /\ OneAnswer /\ [Next]_vars => OneAnswer'
<1> SUFFICES ASSUME TypeInv, NcInv, FlowInv, OneAnswer, [Next]_vars, ~copied'
             PROVE  OneAnswer'
  BY DEF OneAnswer
<1>1. ~copied
  <2>1. Loses \/ Tick => copied' = copied
    BY DEF Loses, Tick, wireVars
  <2>2. Registrar => copied' = copied
    BY DEF Registrar, Notifies, Tries, Accepts, Challenges, Refuses
  <2>3. ASSUME NEW d \in net, Hears(d), copied
        PROVE  copied'
    <3>1. Recv(d) \/ UNCHANGED copied
      BY <2>3 DEF Hears, RegisterSkips, Challenged, Authorized, Registered,
                  SlotHears, AckerHears, ServeHears, RefreshAnswered
    <3>2. QED
      BY <2>3, <3>1 DEF Recv
  <2>4. Phone /\ copied => copied'
    BY <2>3 DEF Phone, MessageDone, StartUp, OpensRegister, RegisterTimesOut,
                SlotDone, CgiDone, SkipDone, ServeTicks, wireVars
  <2>5. QED
    BY <2>1, <2>2, <2>4 DEF Next, SocketFails, Finished, vars, wireVars
<1> USE <1>1 DEF OneAnswer, registerVars, slotVars, uaVars, wireVars
<1>2. ASSUME NEW n, NEW who, NEW as, NEW c,
             SendRegister(c, n, who, as), reqs = {}, Answers' = {},
             ua' \in {"register", "refresh"}
      PROVE  OneAnswer'
  <2> DEFINE r == RegisterOf(c, n, who, as)
  <2>1. r.cseq = c
    BY DEF RegisterOf
  <2> HIDE DEF r
  <2>2. cseq' = c /\ reqs' = reqs \cup {r}
    BY <1>2 DEF SendRegister, r
  <2>3. Awaiting' /\ reqs' = {r} /\ r.cseq = cseq'
    BY <1>2, <2>1, <2>2 DEF Awaiting
  <2>4. QED
    BY <1>2, <2>3
<1>3. CASE \E hint \in Hints \cup {Default} : OpensRegister(hint)
  <2>1. reqs = {} /\ Answers' = {}
    BY <1>3 DEF OpensRegister, Awaiting, Running, Answers
  <2>2. QED
    BY <1>2, <1>3, <2>1 DEF OpensRegister
<1>4. CASE RegisterTimesOut \/ SocketFails
  BY <1>4 DEF RegisterTimesOut, SocketFails, Answers, Running
<1>5. CASE SlotDone \/ CgiDone \/ SkipDone
  BY <1>5 DEF SlotDone, AfterRegister, CgiDone, SkipDone, Answers, Running, Awaiting
<1>6. CASE ServeTicks
  <2>1. reqs = {} /\ Answers' = {}
    BY <1>6 DEF ServeTicks, Awaiting, Running, Answers
  <2>2. QED
    BY <1>2, <1>6, <2>1 DEF ServeTicks, Heartbeat
<1>7. ASSUME NEW d \in net, Hears(d)
      PROVE  OneAnswer'
  <2>1. Recv(d)
    BY <1>7 DEF Hears, RegisterSkips, Challenged, Authorized, Registered,
                SlotHears, AckerHears, ServeHears, RefreshAnswered
  <2>2. /\ Answers' = Answers \ {d}
        /\ IsAnswer(d) => Answers' = {} /\ reqs = {}
    BY <2>1, RecvAnswers
  <2>3. CASE RegisterSkips(d)
    BY <2>2, <2>3 DEF RegisterSkips, Running, Awaiting
  <2>4. CASE Challenged(d)
    BY <1>2, <2>2, <2>4 DEF Challenged, Running
  <2>5. CASE Authorized(d)
    BY <1>2, <2>2, <2>5 DEF Authorized
  <2>6. CASE Registered(d) \/ RefreshAnswered(d)
    BY <2>2, <2>6 DEF Registered, RefreshAnswered, Running, Awaiting
  <2>7. CASE SlotHears(d) \/ AckerHears(d)
    BY <2>2, <2>7 DEF SlotHears, AckerHears, Running, Awaiting
  <2>8. CASE ServeHears(d)
    <3>1. reqs = {} /\ Answers = {} /\ Answers' = {}
      BY <2>2, <2>8 DEF ServeHears, Running, Awaiting
    <3>2. CASE timer = 0
      BY <1>2, <2>8, <3>1, <3>2 DEF ServeHears, HeartbeatIfDue, Heartbeat
    <3>3. CASE timer # 0
      BY <2>8, <3>1, <3>3 DEF ServeHears, HeartbeatIfDue
    <3>4. QED
      BY <3>2, <3>3
  <2>9. QED
    BY <1>7, <2>3, <2>4, <2>5, <2>6, <2>7, <2>8 DEF Hears
<1>8. ASSUME NEW r \in reqs, NEW n, Answer(r, n), UNCHANGED <<cseq, ua>>
      PROVE  OneAnswer'
  <2>1. Answers' = {Final(r.cseq, n)} /\ reqs' = {}
    BY <1>8, AnswerAnswers
  <2>2. Final(r.cseq, n).cseq = cseq
    BY DEF Final
  <2>3. Awaiting' = Awaiting /\ Running' = Running
    BY <1>8 DEF Awaiting, Running
  <2>4. Running => Awaiting
    OBVIOUS
  <2>5. QED
    BY <1>8, <2>1, <2>2, <2>3, <2>4
<1>9. CASE Notifies \/ \E r \in reqs : Tries(r)
  BY <1>9, NoticeAnswers DEF Notifies, Tries, Running, Awaiting
<1>10. CASE \E r \in reqs : Accepts(r) \/ Challenges(r) \/ Refuses(r)
  BY <1>8, <1>10 DEF Accepts, Challenges, Refuses
<1>11. CASE Loses \/ Tick \/ Finished \/ UNCHANGED vars
  BY <1>11 DEF Loses, Tick, Finished, vars, Answers, Running, Awaiting
<1>12. QED
  BY <1>3, <1>4, <1>5, <1>6, <1>7, <1>9, <1>10, <1>11
     DEF Next, Phone, Registrar, MessageDone, StartUp

LEMMA SpeaksFixed ==
    ASSUME SpeaksInv, UNCHANGED <<guessed, user, terminal, sent>>,
           \/ ua' = ua \/ ua' \in {"register", "failed", "over"}
           \/ ua' = "slot" /\ terminal \in {0, Slot, Moved}
           \/ ua \in {"window", "skip", "serve", "refresh"}
              /\ ua' \in {"window", "skip", "serve", "refresh"}
    PROVE  SpeaksInv'
BY DEF SpeaksInv

LEMMA NextSpeaks ==
    TypeInv /\ NcInv /\ FlowInv /\ SpeaksInv /\ [Next]_vars => SpeaksInv'
<1> SUFFICES ASSUME TypeInv, NcInv, FlowInv, SpeaksInv, [Next]_vars
             PROVE  SpeaksInv'
  OBVIOUS
<1> USE DEF registerVars, slotVars, uaVars, baseVars, wireVars
<1>1. ASSUME NEW c, NEW n, NEW as, SendRegister(c, n, user', as),
             UNCHANGED <<guessed, terminal>>, user' = user \/ sent = {},
             guessed \/ as \in {Slot, Moved, user'},
             \/ ua' = "register" /\ terminal = 0
             \/ ua' = "refresh" /\ ua = "serve" /\ user' = user
      PROVE  SpeaksInv'
  <2>1. CASE guessed
    BY <1>1, <2>1 DEF SpeaksInv
  <2>2. CASE ~guessed
    <3> DEFINE q == RegisterOf(c, n, user', as)
    <3>1. sent' = sent \cup {q} /\ q.as = as
      BY <1>1 DEF SendRegister, RegisterOf
    <3> HIDE DEF q
    <3>2. \A r \in sent : r.as \in {Slot, Moved, user'}
      BY <1>1, <2>2 DEF SpeaksInv
    <3>3. \A r \in sent' : r.as \in {Slot, Moved, user'}
      BY <1>1, <2>2, <3>1, <3>2
    <3>4. QED
      BY <1>1, <2>2, <3>3 DEF SpeaksInv
  <2>3. QED
    BY <2>1, <2>2
<1>2. CASE \E hint \in Hints \cup {Default} : OpensRegister(hint)
  <2>1. PICK hint \in Hints \cup {Default} : OpensRegister(hint)
    BY <1>2
  <2>2. sent = {} /\ terminal = 0
    BY <2>1 DEF OpensRegister, NcInv, FlowInv, TypeInv, TypeOK
  <2>3. QED
    BY <1>1, <2>1, <2>2 DEF OpensRegister
<1>3. CASE RegisterTimesOut \/ SocketFails \/ CgiDone \/ SkipDone
  BY <1>3, SpeaksFixed DEF RegisterTimesOut, SocketFails, CgiDone, SkipDone
<1>4. CASE SlotDone
  BY <1>4 DEF SlotDone, AfterRegister, SpeaksInv
<1>5. ASSUME Heartbeat, ua = "serve", UNCHANGED <<guessed, user, terminal>>
      PROVE  SpeaksInv'
  BY <1>1, <1>5 DEF Heartbeat, SpeaksInv
<1>6. CASE ServeTicks
  BY <1>5, <1>6 DEF ServeTicks
<1>7. ASSUME NEW d \in net, Hears(d)
      PROVE  SpeaksInv'
  <2>1. CASE RegisterSkips(d) \/ AckerHears(d) \/ RefreshAnswered(d)
    BY <2>1, SpeaksFixed DEF RegisterSkips, AckerHears, RefreshAnswered
  <2>2. CASE Registered(d)
    BY <2>2, SpeaksFixed DEF Registered, FlowInv
  <2>3. CASE Challenged(d)
    <3>1. terminal = 0
      BY <2>3 DEF Challenged, FlowInv
    <3>2. QED
      BY <1>1, <2>3, <3>1, SpeaksFixed DEF Challenged
  <2>4. CASE Authorized(d)
    BY <1>1, <2>4 DEF Authorized, FlowInv
  <2>5. CASE SlotHears(d)
    <3>1. ~Misses(d.roster) => SlotIn(d.roster) \in {0, Slot, Moved}
      BY SlotInRoster DEF TypeInv
    <3>2. CASE guessed'
      BY <3>2 DEF SpeaksInv
    <3>3. CASE ~guessed'
      <4>1. ~guessed /\ (terminal = 0 => ~Misses(d.roster))
        BY <2>5, <3>3 DEF SlotHears
      <4>2. terminal \in {0, Slot, Moved}
        BY <2>5, <4>1 DEF SlotHears, SpeaksInv
      <4>3. terminal' \in {0, Slot, Moved}
        BY <2>5, <3>1, <4>1, <4>2, Zenon DEF SlotHears
      <4>4. QED
        BY <2>5, <4>1, <4>3 DEF SlotHears, SpeaksInv
    <3>4. QED
      BY <3>2, <3>3
  <2>6. CASE ServeHears(d)
    BY <1>5, <2>6, SpeaksFixed DEF ServeHears, HeartbeatIfDue
  <2>7. QED
    BY <1>7, <2>1, <2>2, <2>3, <2>4, <2>5, <2>6 DEF Hears
<1>8. CASE Registrar
  BY <1>8, SpeaksFixed DEF Registrar, Notifies, Tries, Accepts, Challenges, Refuses
<1>9. CASE Loses \/ Tick \/ Finished \/ UNCHANGED vars
  BY <1>9, SpeaksFixed DEF Loses, Tick, Finished, vars
<1>10. QED
  BY <1>2, <1>3, <1>4, <1>6, <1>7, <1>8, <1>9 DEF Next, Phone, MessageDone, StartUp

\* An answer of the base.
LEMMA AcceptsLease ==
    ASSUME TypeInv, FlowInv, NEW r \in reqs, Accepts(r)
    PROVE  LeaseInv'
<1>1. Answers' # {} /\ lease' = Expires /\ UNCHANGED <<ua, timer>>
  BY AnswerAnswers DEF Accepts, uaVars
<1>2. timer \in Nat /\ (ua = "slot" => timer <= Window)
      /\ (ua \in {"skip", "serve"} => timer <= Refresh)
  BY DEF TypeInv, TypeOK, FlowInv
<1>3. fault' = "none" /\ ua = "window" => timer + Refresh < Expires
  BY <1>2, ConstantTypes DEF Accepts
<1>4. Window + Refresh < Expires /\ 0 < Refresh
  BY RegistrationAssumption
<1>5. QED
  BY <1>1, <1>2, <1>3, <1>4, ConstantTypes DEF LeaseInv

LEMMA ChallengesLease ==
    ASSUME TypeInv, FlowInv, LeaseInv, NEW r \in reqs, Challenges(r)
    PROVE  LeaseInv'
<1>1. PICK n : Answer(r, n)
  BY DEF Challenges
<1>2. /\ Answers' = Answers \cup {Final(r.cseq, n)} /\ reqs' = reqs \ {r}
      /\ UNCHANGED <<ua, timer, lease, cseq, copied>>
  BY <1>1, AnswerAnswers DEF Challenges, uaVars, registerVars, slotVars
<1>3. SUFFICES ASSUME fault' = "none"
               PROVE  LeaseInv'
  BY DEF LeaseInv
<1>4. fault = "none" /\ r.nonce = 0
  BY <1>3 DEF Challenges
<1>5. Ripe' = Ripe
  BY <1>2, <1>4 DEF Ripe
<1>6. CASE ua = "register" /\ lease # Expires
  <2>1. UnregisteredInv
    BY <1>4, <1>6 DEF LeaseInv
  <2>2. cseq < 2 /\ cseq \in Nat
    BY <1>4, <2>1 DEF UnregisteredInv, TypeInv, TypeOK
  <2>3. CASE cseq = 1
    <3>1. Answers = {} /\ reqs = {r}
      BY <2>1, <2>3 DEF UnregisteredInv
    <3>2. Answers' = {Final(r.cseq, n)} /\ reqs' = {}
      BY <1>2, <3>1
    <3>3. UnregisteredInv'
      BY <1>2, <2>3, <3>2 DEF UnregisteredInv
    <3>4. QED
      BY <1>2, <1>6, <3>2, <3>3 DEF LeaseInv
  <2>4. CASE cseq # 1
    BY <1>2, <1>6, <2>2, <2>4 DEF LeaseInv, UnregisteredInv
  <2>5. QED
    BY <2>3, <2>4
<1>7. CASE ~(ua = "register" /\ lease # Expires)
  BY <1>2, <1>4, <1>5, <1>7 DEF LeaseInv
<1>8. QED
  BY <1>6, <1>7

LEMMA TickLease ==
    ASSUME TypeInv, LeaseInv, Running, Tick
    PROVE  LeaseInv'
<1> SUFFICES ASSUME fault' = "none"
             PROVE  LeaseInv'
  BY DEF LeaseInv
<1>1. fault = "none" /\ reqs = {} /\ Answers = {}
  BY DEF Tick, Answers, IsAnswer
<1>2. ~Awaiting /\ ~Ripe /\ ~Awaiting' /\ ua' = ua
  BY <1>1 DEF LeaseInv, Ripe, Tick, Awaiting
<1>3. timer \in Nat /\ lease \in Nat /\ (ua # "message" => timer > 0)
  BY DEF TypeInv, TypeOK, Tick, Timed, Running
<1>4. timer' = (IF timer > 0 THEN timer - 1 ELSE 0)
      /\ lease' = (IF lease > 0 THEN lease - 1 ELSE 0)
  BY DEF Tick, Less
<1>5. Window < Expires
  BY RegistrationAssumption
<1>6. QED
  BY <1>1, <1>2, <1>3, <1>4, <1>5, ConstantTypes DEF LeaseInv, Awaiting

\* Sending the heartbeat of the maintenance loop.
LEMMA HeartbeatLease ==
    ASSUME TypeInv, FlowInv, LeaseInv, Heartbeat, ua = "serve",
           UNCHANGED <<lease, fault>>
    PROVE  LeaseInv'
<1>1. nonce # 0
  BY DEF FlowInv, TypeInv, TypeOK
<1> DEFINE r == RegisterOf(cseq + 1, nonce, user, terminal)
<1>2. r.nonce # 0
  BY <1>1 DEF RegisterOf
<1> HIDE DEF r
<1>3. r \in reqs' /\ ua' = "refresh"
  BY DEF Heartbeat, SendRegister, r
<1>4. Ripe' /\ reqs' # {}
  BY <1>2, <1>3 DEF Ripe
<1>5. QED
  BY <1>3, <1>4 DEF LeaseInv

LEMMA HearsLease ==
    ASSUME TypeInv, FlowInv, LeaseInv, NEW d \in net, Hears(d)
    PROVE  LeaseInv'
<1>1. Recv(d) /\ UNCHANGED <<lease, fault>>
  BY DEF Hears, RegisterSkips, Challenged, Authorized, Registered,
         SlotHears, AckerHears, ServeHears, RefreshAnswered, baseVars
<1>2. SUFFICES ASSUME fault = "none"
               PROVE  LeaseInv'
  BY <1>1 DEF LeaseInv
<1> USE ConstantTypes DEF registerVars, slotVars
<1>3. CASE RegisterSkips(d)
  <2>1. Answers' = Answers /\ (copied => copied')
    BY <1>1, <1>3, RecvAnswers DEF RegisterSkips
  <2>2. UNCHANGED <<ua, cseq, reqs>> /\ ua \in {"register", "refresh"}
    BY <1>3 DEF RegisterSkips
  <2>3. UnregisteredInv => UnregisteredInv'
    BY <2>1, <2>2 DEF UnregisteredInv
  <2>4. Ripe' = Ripe /\ Awaiting' = Awaiting
    BY <2>2 DEF Ripe, Awaiting
  <2>5. QED
    BY <1>1, <1>2, <2>1, <2>2, <2>3, <2>4 DEF LeaseInv
<1>4. CASE Challenged(d)
  <2>1. CASE HasChallenge(d)
    <3> DEFINE r == RegisterOf(2, d.nonce, user, user)
    <3>1. r.nonce # 0
      BY <2>1 DEF RegisterOf, HasChallenge
    <3> HIDE DEF r
    <3>2. /\ cseq = 1 /\ cseq' = 2 /\ ua = "register" /\ ua' = ua
          /\ reqs' = reqs \cup {r} /\ IsAnswer(d)
      BY <1>4, <2>1 DEF Challenged, SendRegister, r
    <3>3. CASE lease = Expires
      BY <1>1, <3>2, <3>3 DEF LeaseInv
    <3>4. CASE lease # Expires
      <4>1. d \in Answers /\ Answers' \subseteq Answers
            /\ (copied' \/ Answers' = Answers \ {d})
        BY <1>1, <3>2, RecvAnswers
      <4>2. reqs = {} /\ \A d1, d2 \in Answers : d1 = d2
        BY <1>2, <3>2, <3>4, <4>1 DEF LeaseInv, UnregisteredInv
      <4>3. UnregisteredInv'
        BY <3>1, <3>2, <4>1, <4>2 DEF UnregisteredInv
      <4>4. QED
        BY <3>2, <4>3 DEF LeaseInv
    <3>5. QED
      BY <3>3, <3>4
  <2>2. CASE ~HasChallenge(d)
    BY <1>4, <2>2 DEF Challenged, LeaseInv, Awaiting
  <2>3. QED
    BY <2>1, <2>2
<1>5. CASE Authorized(d)
  <2> DEFINE r == RegisterOf(3, nonce, user, user)
  <2>1. cseq = 2 /\ nonce # 0 /\ r.nonce # 0
    BY <1>5 DEF Authorized, FlowInv, RegisterOf
  <2> HIDE DEF r
  <2>2. /\ cseq' = 3 /\ ua = "register" /\ ua' = ua
        /\ reqs' = reqs \cup {r} /\ IsAnswer(d)
    BY <1>5 DEF Authorized, SendRegister, r
  <2>3. CASE lease = Expires
    BY <1>1, <2>2, <2>3 DEF LeaseInv
  <2>4. CASE lease # Expires
    <3>1. UnregisteredInv /\ d \in Answers /\ (copied => Answers' = Answers \ {d})
      BY <1>1, <1>2, <2>2, <2>4, RecvAnswers DEF LeaseInv
    <3>2. Answers' = {} /\ \A r1 \in reqs : r1.nonce # 0
      BY <2>1, <3>1 DEF UnregisteredInv
    <3>3. UnregisteredInv'
      BY <2>1, <2>2, <3>2 DEF UnregisteredInv
    <3>4. QED
      BY <2>2, <3>3 DEF LeaseInv
  <2>5. QED
    BY <2>3, <2>4
<1>6. CASE Registered(d)
  <2>1. d \in Answers /\ cseq = 3 /\ ua = "register"
    BY <1>1, <1>6, RecvAnswers DEF Registered
  <2>2. lease = Expires
    BY <1>2, <2>1 DEF LeaseInv, UnregisteredInv
  <2>3. QED
    BY <1>1, <1>6, <2>2 DEF Registered, LeaseInv, Awaiting
<1>7. CASE SlotHears(d) \/ AckerHears(d)
  BY <1>1, <1>7 DEF SlotHears, AckerHears, uaVars, LeaseInv, Awaiting
<1>8. CASE ServeHears(d)
  <2>1. CASE timer = 0
    BY <1>1, <1>8, <2>1, HeartbeatLease DEF ServeHears, HeartbeatIfDue
  <2>2. CASE timer # 0
    BY <1>1, <1>8, <2>2 DEF ServeHears, HeartbeatIfDue, LeaseInv, Awaiting, Ripe
  <2>3. QED
    BY <2>1, <2>2
<1>9. CASE RefreshAnswered(d)
  <2>1. Refresh < Expires
    BY RegistrationAssumption
  <2>2. QED
    BY <1>1, <1>9, <2>1 DEF RefreshAnswered, LeaseInv, Awaiting, Ripe
<1>10. QED
  BY <1>3, <1>4, <1>5, <1>6, <1>7, <1>8, <1>9 DEF Hears

LEMMA NextLease == TypeInv /\ NcInv /\ FlowInv /\ LeaseInv /\ [Next]_vars => LeaseInv'
<1> SUFFICES ASSUME TypeInv, NcInv, FlowInv, LeaseInv, [Next]_vars
             PROVE  LeaseInv'
  OBVIOUS
<1> USE ConstantTypes DEF registerVars, slotVars, uaVars, baseVars, wireVars
<1>1. CASE \E hint \in Hints \cup {Default} : OpensRegister(hint)
  <2>1. cseq = 0 /\ reqs = {} /\ Answers = {}
    BY <1>1 DEF OpensRegister, NcInv, FlowInv, TypeInv, TypeOK
  <2>2. /\ ua' = "register" /\ cseq' = 1 /\ Answers' = {}
        /\ \E r : reqs' = {r}
    BY <1>1, <2>1 DEF OpensRegister, SendRegister, Answers
  <2>3. UnregisteredInv'
    BY <2>2 DEF UnregisteredInv
  <2>4. QED
    BY <2>2, <2>3 DEF LeaseInv
<1>2. CASE RegisterTimesOut \/ SocketFails
  BY <1>2 DEF RegisterTimesOut, SocketFails, LeaseInv, Awaiting
<1>3. CASE SlotDone
  <2>1. CASE pairing
    <3>1. PICK cgi \in 0..MaxCgi :
            timer' = cgi /\ fault' = IF cgi > Slack THEN "other" ELSE fault
      BY <1>3, <2>1 DEF SlotDone, AfterRegister
    <3>2. cgi \in Nat /\ lease \in Nat /\ timer \in Nat
      BY RegistrationAssumption DEF TypeInv, TypeOK
    <3>3. ua = "slot" /\ ua' = "window" /\ lease' = lease
      BY <1>3, <2>1 DEF SlotDone, AfterRegister
    <3>4. fault' = "none" =>
            cgi <= Slack /\ lease + Window >= timer + Expires
      BY <3>1, <3>2, <3>3 DEF LeaseInv, Slack
    <3>5. fault' = "none" => lease' > timer' + Refresh
      BY <3>1, <3>2, <3>3, <3>4 DEF Slack
    <3>6. QED
      BY <3>3, <3>5 DEF LeaseInv, Awaiting
  <2>2. CASE ~pairing
    <3>1. Window + Refresh < Expires
      BY RegistrationAssumption
    <3>2. QED
      BY <1>3, <2>2, <3>1 DEF SlotDone, AfterRegister, LeaseInv, Awaiting,
                              TypeInv, TypeOK
  <2>3. QED
    BY <2>1, <2>2
<1>4. CASE CgiDone
  BY <1>4 DEF CgiDone, LeaseInv, Awaiting, TypeInv, TypeOK
<1>5. CASE SkipDone
  BY <1>5 DEF SkipDone, LeaseInv, Awaiting, TypeInv, TypeOK
<1>6. CASE ServeTicks
  BY <1>6, HeartbeatLease DEF ServeTicks
<1>7. CASE \E d \in net : Hears(d)
  BY <1>7, HearsLease
<1>8. CASE Notifies \/ \E r \in reqs : Tries(r)
  <2>1. Answers' = Answers /\ UNCHANGED <<ua, timer, cseq, reqs, copied, lease, fault>>
    BY <1>8, NoticeAnswers DEF Notifies, Tries
  <2>2. UnregisteredInv' = UnregisteredInv /\ Ripe' = Ripe /\ Awaiting' = Awaiting
    BY <2>1 DEF UnregisteredInv, Ripe, Awaiting
  <2>3. QED
    BY <2>1, <2>2 DEF LeaseInv
<1>9. CASE \E r \in reqs : Accepts(r) \/ Challenges(r) \/ Refuses(r)
  BY <1>9, AcceptsLease, ChallengesLease DEF Refuses, LeaseInv
<1>10. CASE Loses
  BY <1>10 DEF Loses, LeaseInv
<1>11. CASE Running /\ Tick
  BY <1>11, TickLease
<1>12. CASE Finished \/ UNCHANGED vars
  BY <1>12 DEF Finished, vars, LeaseInv, UnregisteredInv, Ripe, Awaiting, Answers
<1>13. QED
  BY <1>1, <1>2, <1>3, <1>4, <1>5, <1>6, <1>7, <1>8, <1>9, <1>10, <1>11, <1>12
     DEF Next, Phone, Registrar, MessageDone, StartUp

\* All that an execution of the SIP side preserves.
SipInv == /\ TypeInv /\ NcInv /\ FlowInv
          /\ OneAnswer /\ LeaseInv /\ SpeaksInv

LEMMA SipInvariant == Spec => []SipInv
<1>1. Init => SipInv
  BY InitNc, InitType, InitFlow DEF SipInv
<1>2. SipInv /\ [Next]_vars => SipInv'
  BY NextNc, NextType, NextFlow, NextOneAnswer, NextLease, NextSpeaks DEF SipInv
<1>3. QED
  BY <1>1, <1>2, PTL DEF Spec

\* Nobody needs to look at the CSeq of an answer: while no datagram is
\* delivered twice, the only answer that can be at the socket of
\* send_and_receive is that to the REGISTER just sent.
THEOREM AnswersMatchHolds == Spec => AnswersMatch
<1>1. SipInv /\ [Next]_vars =>
        [\A d \in net \ net' :
           /\ d.kind = "final"
           /\ ua \in {"register", "refresh"}
           /\ <<ua, cseq>>' # <<ua, cseq>>
           => d.cseq = cseq \/ copied]_vars
  BY DEF SipInv, OneAnswer, Answers, IsAnswer
<1>2. QED
  BY <1>1, SipInvariant, PTL DEF Spec, AnswersMatch

\* The intervals of maintain_registration are short enough: its lease lapses
\* only after a challenge, a refusal, a loss, a delay or an overlong CGI call.
THEOREM LapseHasCauseHolds == Spec => []LapseHasCause
<1>1. SipInv => LapseHasCause
  <2> SUFFICES ASSUME SipInv, ua \in {"skip", "serve", "refresh"}, fault = "none"
               PROVE  lease # 0
    BY DEF LapseHasCause
  <2>1. timer \in Nat /\ lease \in Nat
    BY DEF SipInv, TypeInv, TypeOK
  <2>2. QED
    BY <2>1 DEF SipInv, LeaseInv
<1>2. QED
  BY <1>1, SipInvariant, PTL

\* Every REGISTER of register() and of the loop speaks for a slot that the base
\* listed under our MAC, or for the number that was named to us; for another
\* handset at most after a roster that lists handsets and not us.
THEOREM SpeaksForItselfHolds == Spec => []SpeaksForItself
<1>1. SipInv => SpeaksForItself
  BY DEF SipInv, SpeaksInv, SpeaksForItself
<1>2. QED
  BY <1>1, SipInvariant, PTL

=============================================================================
