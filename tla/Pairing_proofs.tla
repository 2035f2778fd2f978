---------------------------- MODULE Pairing_proofs ----------------------------
(***************************************************************************)
(* Theorems of Pairing, for any requests and any number of kills.          *)
(*                                                                         *)
(* The identity is three files that are written one after the other and    *)
(* never removed.  FilesInv says what they can hold while one task is in   *)
(* load_or_mint_with_disp_id: as long as no write is cut short, disp_id    *)
(* comes last of the pair, so that its presence vouches for kiki.dat; once *)
(* all three are there nobody writes them again.  What the base is told,   *)
(* and what config.toml keeps of it, is thus what the files hold.          *)
(***************************************************************************)
EXTENDS Pairing, TLAPS

-----------------------------------------------------------------------------
(* TypeOK.                                                                 *)

LEMMA MainCaller == /\ Main \in Caller /\ Main \notin Request
                    /\ \A r \in Request : r \in Caller /\ r # Main
BY PairingAssumption DEF Caller

LEMMA GoEffect ==
    ASSUME pc \in [Caller -> Place], NEW c \in Caller, NEW where \in Place,
           Go(c, where)
    PROVE  /\ pc' \in [Caller -> Place]
           /\ pc'[c] = where
           /\ \A d \in Caller : d # c => pc'[d] = pc[d]
BY DEF Go

\* No place of a request is one of the main task.
LEMMA Places ==
    /\ Loading \subseteq Place /\ Onwards \subseteq Place /\ Ended \subseteq Place
    /\ {"idle", "elb", "startSip"} \subseteq Place
    /\ Loading \cap (Onwards \cup Ended) = {}
    /\ {"idle", "elb", "startSip"} \cap (Onwards \cup Ended) = {}
BY DEF Place, Flying, Loading, Onwards, Ended, Cgi

LEMMA InitType == Init => TypeOK
<1> SUFFICES ASSUME Init
             PROVE  TypeOK
  OBVIOUS
<1>1. pc \in [Caller -> Place] /\ pc[Main] = "idle"
  BY MainCaller, Places DEF Init
<1>2. NoIdent \in Ident /\ NoBase \in Base
  BY DEF NoIdent, NoBase, Ident, Base, Absent
<1>3. idKnown \in [Request -> IdWord] /\ ident \in [Caller -> Ident]
      /\ crossed \subseteq Request
  BY <1>2 DEF Init, IdWord
<1>4. MaxCrashes \in 0 .. MaxCrashes
  BY PairingAssumption
<1>5. {mem, disk} \subseteq Base /\ {kiki, disp, macFile} \subseteq Nat
      /\ made \in Nat /\ planted \in Ident
  BY <1>2 DEF Init, Absent
<1>6. QED
  BY <1>1, <1>3, <1>4, <1>5, Places DEF Init, TypeOK

LEMMA DiesType ==
    ASSUME TypeOK, Dies, crashes' \in 0 .. MaxCrashes
    PROVE  TypeOK'
<1>1. NoIdent \in Ident /\ NoBase \in Base
  BY DEF NoIdent, NoBase, Ident, Base, Absent
<1>2. pc' \in [Caller -> Place] /\ pc'[Main] = "idle"
  BY MainCaller, Places DEF Dies
<1>3. mem' \in Base /\ disk' = disk /\ daemon' = "down" /\ crossed' = {}
  BY <1>1 DEF Dies
<1>4. ident' \in [Caller -> Ident] /\ idKnown' \in [Request -> IdWord]
  BY <1>1 DEF Dies, IdWord
<1>5. faults' \subseteq {"overlap", "torn", "save"}
  BY DEF Dies, TypeOK
<1>6. ackers' = {} /\ loops' = {}
  BY DEF Dies
<1>7. UNCHANGED <<kiki, disp, macFile, made, planted, entry>>
  BY DEF Dies, fileVars
<1>8. QED
  BY <1>2, <1>3, <1>4, <1>5, <1>6, <1>7, Places DEF TypeOK

LEMMA EndsType ==
    ASSUME TypeOK, NEW r \in Request, NEW how \in Ended, Ends(r, how)
    PROVE  /\ pc' \in [Caller -> Place] /\ pc'[Main] \notin Onwards \cup Ended
           /\ ident' \in [Caller -> Ident]
           /\ idKnown' \in [Request -> IdWord]
<1>1. Go(r, how) /\ r \in Caller /\ r # Main /\ Main \in Caller /\ how \in Place
  BY MainCaller, Places DEF Ends
<1>2. pc' \in [Caller -> Place] /\ pc'[Main] = pc[Main]
  BY <1>1, GoEffect DEF TypeOK
<1>3. NoIdent \in Ident
  BY DEF NoIdent, Ident, Absent
<1>4. QED
  BY <1>1, <1>2, <1>3 DEF Ends, TypeOK, IdWord

LEMMA FailsType ==
    ASSUME TypeOK, NEW c \in Caller, Fails(c)
    PROVE  TypeOK'
<1>1. CASE c = Main
  BY <1>1, DiesType DEF Fails, TypeOK
<1>2. CASE c # Main
  <2>1. c \in Request /\ Ends(c, "failed") /\ "failed" \in Ended
    BY <1>2 DEF Fails, Caller, Ended
  <2>2. faults' \subseteq {"overlap", "torn", "save"}
    BY <1>2 DEF Fails, TypeOK
  <2>3. UNCHANGED <<daemon, configVars, fileVars, made, sipVars, envVars>>
    BY <1>2 DEF Fails
  <2>4. QED
    BY <2>1, <2>2, <2>3, EndsType
       DEF TypeOK, configVars, fileVars, sipVars, envVars
<1>3. QED
  BY <1>1, <1>2

\* A step of a task within the identity code.
LEMMA LoadingType ==
    ASSUME TypeOK, NEW c \in Caller, OnlyFiles,
           NEW where \in Loading \cup {WithIdentity(c)}, Go(c, where),
           {kiki', disp', macFile'} \subseteq Nat,
           ident' \in [Caller -> Ident], made' \in Nat
    PROVE  TypeOK'
<1>1. where \in Place /\ (c = Main => where \notin Onwards \cup Ended)
  BY Places DEF WithIdentity, Onwards
<1>2. pc' \in [Caller -> Place] /\ pc'[Main] \notin Onwards \cup Ended
  BY <1>1, GoEffect, MainCaller DEF TypeOK
<1>3. QED
  BY <1>2 DEF OnlyFiles, TypeOK, configVars, sipVars, envVars

LEMMA LoadIdentityType ==
    ASSUME TypeOK, NEW c \in Caller, LoadIdentity(c)
    PROVE  TypeOK'
<1> USE DEF fileVars
<1>0. /\ kiki \in Nat /\ disp \in Nat /\ macFile \in Nat /\ made \in Nat
      /\ ident \in [Caller -> Ident] /\ Empty \in Nat /\ Fresh \in Nat
      /\ {"check", "readKiki", "readDisp", "mint", "newKiki", "fillKiki",
          "newDisp", "fillDisp", "mac", "newMac", "fillMac"}
         \subseteq Loading \cup {WithIdentity(c)}
      /\ WithIdentity(c) \in Loading \cup {WithIdentity(c)}
  BY DEF TypeOK, Empty, Fresh, Loading
<1>1. CASE CheckFiles(c)
  BY <1>0, <1>1, LoadingType DEF CheckFiles
<1>2. CASE ReadKiki(c)
  <2>1. CASE Fails(c)
    BY <2>1, FailsType
  <2>2. CASE ~Fails(c)
    <3>1. ident' = [ident EXCEPT ![c].cert = kiki]
      BY <1>2, <2>2 DEF ReadKiki
    <3>2. ident' \in [Caller -> Ident]
      BY <1>0, <3>1 DEF Ident
    <3>3. QED
      BY <1>0, <1>2, <2>2, <3>2, LoadingType DEF ReadKiki
  <2>3. QED
    BY <2>1, <2>2
<1>3. CASE ReadDisp(c)
  <2>1. ident' \in [Caller -> Ident]
    BY <1>0, <1>3 DEF ReadDisp, Ident
  <2>2. QED
    BY <1>0, <1>3, <2>1, LoadingType DEF ReadDisp
<1>4. CASE Mint(c)
  <2>1. CASE Fails(c)
    BY <2>1, FailsType
  <2>2. CASE ~Fails(c)
    <3>1. PICK cert \in {Fresh, Empty} :
            ident' = [ident EXCEPT ![c].cert = cert, ![c].disp = Fresh]
      BY <1>4, <2>2 DEF Mint
    <3>2. ident' \in [Caller -> Ident]
      BY <1>0, <3>1 DEF Ident
    <3>3. QED
      BY <1>0, <1>4, <2>2, <3>2, LoadingType DEF Mint
  <2>3. QED
    BY <2>1, <2>2
<1>5. CASE DecodeFails(c) \/ WriteFails(c)
  BY <1>5, FailsType DEF DecodeFails, WriteFails
<1>6. CASE WriteStep(c)
  <2>1. PICK where \in Loading : Go(c, where)
    BY <1>6 DEF WriteStep, Loading
  <2>2. {kiki', disp', macFile'} \subseteq Nat
    <3>1. ident[c].cert \in Nat /\ ident[c].disp \in Nat
      BY <1>0 DEF Ident
    <3>2. QED
      BY <1>0, <1>6, <3>1 DEF WriteStep
  <2>3. QED
    BY <1>0, <1>6, <2>1, <2>2, LoadingType DEF WriteStep
<1>7. CASE LoadMac(c)
  <2>1. ident' \in [Caller -> Ident]
    BY <1>0, <1>7 DEF LoadMac, Ident
  <2>2. QED
    BY <1>0, <1>7, <2>1, LoadingType DEF LoadMac
<1>8. CASE FillMac(c)
  <2>1. ident[c].mac \in Nat
    BY <1>0 DEF Ident
  <2>2. QED
    BY <1>0, <1>8, <2>1, LoadingType DEF FillMac
<1>9. QED
  BY <1>1, <1>2, <1>3, <1>4, <1>5, <1>6, <1>7, <1>8 DEF LoadIdentity

\* A step of a request after its identity: it goes on, or ends.
LEMMA RequestType ==
    ASSUME TypeOK, NEW r \in Request, NoFiles,
           \/ \E where \in Onwards : Go(r, where) /\ UNCHANGED ident
           \/ \E how \in Ended : Ends(r, how),
           idKnown' \in [Request -> IdWord],
           ackers' \subseteq Request, loops' \subseteq Caller,
           planted' \in Ident, UNCHANGED <<entry, crashes>>,
           faults' \subseteq {"overlap", "torn", "save"}
    PROVE  TypeOK'
<1>1. /\ pc' \in [Caller -> Place] /\ pc'[Main] \notin Onwards \cup Ended
      /\ ident' \in [Caller -> Ident]
  <2>1. CASE \E how \in Ended : Ends(r, how)
    BY <2>1, EndsType
  <2>2. ASSUME NEW where \in Onwards, Go(r, where), UNCHANGED ident
        PROVE  /\ pc' \in [Caller -> Place] /\ pc'[Main] \notin Onwards \cup Ended
               /\ ident' \in [Caller -> Ident]
    <3>1. r \in Caller /\ r # Main /\ Main \in Caller /\ where \in Place
      BY MainCaller, Places
    <3>2. QED
      BY <2>2, <3>1, GoEffect DEF TypeOK
  <2>3. QED
    BY <2>1, <2>2
<1>2. QED
  BY <1>1 DEF NoFiles, TypeOK, configVars, fileVars

LEMMA ServeType ==
    ASSUME TypeOK, NEW r \in Request, Serve(r)
    PROVE  TypeOK'
<1> USE DEF sipVars, envVars
<1>0. /\ r \in Caller /\ ident[r] \in Ident /\ planted \in Ident
      /\ ackers \subseteq Request /\ loops \subseteq Caller
      /\ idKnown \in [Request -> IdWord]
      /\ faults \subseteq {"overlap", "torn", "save"}
      /\ {"discover", "sip", "save", "login", "prime", "first", "second"}
         \subseteq Onwards
      /\ {"paired", "failed"} \subseteq Ended
      /\ \A how \in Ended : Ends(r, how) => idKnown' \in [Request -> IdWord]
  BY EndsType, MainCaller DEF TypeOK, Onwards, Cgi, Ended
<1>1. CASE LoadIdentity(r)
  BY <1>0, <1>1, LoadIdentityType
<1>2. CASE Probe(r)
  BY <1>0, <1>2, RequestType DEF Probe
<1>3. CASE SipDone(r)
  BY <1>0, <1>3, RequestType DEF SipDone
<1>4. CASE Login(r)
  BY <1>0, <1>4, RequestType DEF Login
<1>5. CgiFails(r) => /\ Ends(r, "failed") /\ ackers' \subseteq Request
                     /\ planted' \in Ident /\ idKnown' \in [Request -> IdWord]
  BY <1>0 DEF CgiFails
<1>6. \A answer \in Answers : Accepted(r, answer) =>
        /\ Go(r, "save") /\ UNCHANGED ident /\ ackers' \subseteq Request
        /\ idKnown' \in [Request -> IdWord] /\ planted' \in Ident
  BY <1>0 DEF Accepted, IdFrom, Acknowledges, Answers, IdWord
<1>7. CASE Prime(r)
  BY <1>0, <1>5, <1>7, RequestType DEF Prime
<1>8. CASE FirstAuth(r)
  BY <1>0, <1>5, <1>6, <1>8, RequestType DEF FirstAuth, Answers
<1>9. CASE SecondAuth(r)
  BY <1>0, <1>5, <1>6, <1>9, RequestType DEF SecondAuth
<1>10. CASE Persist(r)
  <2>1. Outcome(r) \in Base
    BY <1>0 DEF Outcome, Base, Ident
  <2>2. /\ mem' = Outcome(r) /\ disk' \in {Outcome(r), disk}
        /\ crossed' \subseteq Request
    BY <1>10 DEF Persist, Saves, Remembers, TypeOK
  <2>3. /\ \E how \in Ended : Ends(r, how)
        /\ loops' \subseteq Caller
        /\ faults' \subseteq {"overlap", "torn", "save"}
        /\ UNCHANGED <<daemon, fileVars, made, ackers, envVars>>
    BY <1>0, <1>10 DEF Persist
  <2>4. QED
    BY <2>1, <2>2, <2>3, EndsType DEF TypeOK, fileVars
<1>11. QED
  BY <1>1, <1>2, <1>3, <1>4, <1>7, <1>8, <1>9, <1>10 DEF Serve

LEMMA NextType == TypeOK /\ [Next]_vars => TypeOK'
<1> SUFFICES ASSUME TypeOK, [Next]_vars
             PROVE  TypeOK'
  OBVIOUS
<1> USE DEF configVars, fileVars, sipVars, envVars
<1>1. ASSUME NEW c \in Caller, Enters(c)
      PROVE  /\ pc' \in [Caller -> Place] /\ pc'[Main] \notin Onwards \cup Ended
             /\ faults' \subseteq {"overlap", "torn", "save"}
  <2>1. "check" \in Place /\ "check" \notin Onwards \cup Ended
    BY DEF Place, Flying, Loading, Onwards, Cgi, Ended
  <2>2. QED
    BY <1>1, <2>1, GoEffect, MainCaller DEF Enters, TypeOK
<1>2. CASE \E r \in Request : Snapshot(r)
  <2>1. PICK r \in Request : Snapshot(r)
    BY <1>2
  <2>2. idKnown' \in [Request -> IdWord]
    BY <2>1 DEF Snapshot, TypeOK, IdWord
  <2>3. QED
    BY <1>1, <2>1, <2>2, MainCaller DEF Snapshot, TypeOK
<1>3. CASE \E r \in Request : Serve(r)
  BY <1>3, ServeType
<1>4. CASE \E r \in Request : Cancel(r)
  <2>1. PICK r \in Request : Cancel(r)
    BY <1>4
  <2>2. QED
    BY <2>1, EndsType DEF Cancel, NoFiles, TypeOK, Ended
<1>5. CASE Boot
  BY <1>1, <1>5, MainCaller DEF Boot, TypeOK
<1>6. CASE MainTask
  <2>1. CASE LoadIdentity(Main)
    BY <2>1, LoadIdentityType, MainCaller
  <2>2. CASE AskElb
    <3>1. CASE Fails(Main)
      BY <3>1, FailsType, MainCaller
    <3>2. CASE ~Fails(Main)
      BY <2>2, <3>2, GoEffect, MainCaller, Places DEF AskElb, OnlyFiles, TypeOK
    <3>3. QED
      BY <3>1, <3>2
  <2>3. CASE StartSip
    <3>1. pc' \in [Caller -> Place] /\ pc'[Main] = "idle"
      BY <2>3, GoEffect, MainCaller, Places DEF StartSip, TypeOK
    <3>2. ident' \in [Caller -> Ident]
      BY <2>3 DEF StartSip, TypeOK, Ident, NoIdent, Absent
    <3>3. QED
      BY <2>3, <3>1, <3>2, MainCaller, Places DEF StartSip, TypeOK
  <2>4. QED
    BY <1>6, <2>1, <2>2, <2>3 DEF MainTask
<1>7. CASE Crash
  <2>1. crashes' \in 0 .. MaxCrashes
    BY <1>7, PairingAssumption DEF Crash, TypeOK
  <2>2. QED
    BY <1>7, <2>1, DiesType DEF Crash
<1>8. CASE AddEntry
  BY <1>8 DEF AddEntry, TypeOK
<1>9. CASE UNCHANGED vars
  BY <1>9 DEF vars, TypeOK
<1>10. QED
  BY <1>2, <1>3, <1>4, <1>5, <1>6, <1>7, <1>8, <1>9 DEF Next

\* Every variable keeps to its values; in particular the main task never is
\* at a place of pair::run.
THEOREM PairingTypeCorrect == Spec => []TypeOK
BY InitType, NextType, PTL DEF Spec

-----------------------------------------------------------------------------
(* OneReaderPerSocket, RegisteredIsSaved, KeepsBaseId.                     *)

LEMMA DiesEffect ==
    ASSUME Dies
    PROVE  /\ daemon' = "down" /\ mem' = NoBase /\ crossed' = {}
           /\ \A r \in Request : idKnown'[r] = "none"
           /\ \A c \in Caller : pc'[c] = "idle" /\ ident'[c] = NoIdent
           /\ ackers' = {} /\ loops' = {}
           /\ faults \subseteq faults'
           /\ UNCHANGED <<disk, kiki, disp, macFile, planted, entry>>
BY DEF Dies, fileVars

LEMMA EndsEffect ==
    ASSUME TypeOK, NEW r \in Request, NEW how \in Ended, Ends(r, how)
    PROVE  /\ pc'[r] = how
           /\ \A d \in Caller : d # r => pc'[d] = pc[d] /\ ident'[d] = ident[d]
           /\ ident'[r] = NoIdent /\ idKnown'[r] = "none"
           /\ \A q \in Request : q # r => idKnown'[q] = idKnown[q]
<1>1. r \in Caller /\ how \in Place /\ Go(r, how)
  BY MainCaller, Places DEF Ends
<1>2. QED
  BY <1>1, GoEffect DEF Ends, TypeOK

\* A step within the identity code goes on to the next place there, to what
\* follows it, or fails.
LEMMA LoadStep ==
    ASSUME TypeOK, NEW c \in Caller, LoadIdentity(c)
    PROVE  /\ pc[c] \in Loading
           /\ \/ Fails(c)
              \/ /\ OnlyFiles
                 /\ \E where \in Loading \cup {WithIdentity(c)} : Go(c, where)
<1> USE DEF Loading, Writing
<1>1. CASE CheckFiles(c)
  BY <1>1 DEF CheckFiles
<1>2. CASE ReadKiki(c) \/ ReadDisp(c)
  BY <1>2 DEF ReadKiki, ReadDisp
<1>3. CASE Mint(c) \/ DecodeFails(c) \/ WriteFails(c)
  BY <1>3 DEF Mint, DecodeFails, WriteFails
<1>4. CASE WriteStep(c)
  BY <1>4 DEF WriteStep
<1>5. CASE LoadMac(c) \/ FillMac(c)
  BY <1>5 DEF LoadMac, FillMac
<1>6. QED
  BY <1>1, <1>2, <1>3, <1>4, <1>5 DEF LoadIdentity

\* The same with what becomes of pc.
LEMMA LoadEffect ==
    ASSUME TypeOK, NEW c \in Caller, LoadIdentity(c)
    PROVE  /\ pc[c] \in Loading
           /\ \/ c = Main /\ Dies /\ UNCHANGED crashes
              \/ /\ c \in Request /\ Ends(c, "failed")
                 /\ faults \subseteq faults'
                 /\ UNCHANGED <<daemon, configVars, fileVars, made, sipVars, envVars>>
              \/ /\ OnlyFiles
                 /\ pc'[c] \in Loading \cup {WithIdentity(c)}
                 /\ \A d \in Caller : d # c => pc'[d] = pc[d]
<1>1. pc[c] \in Loading
  BY LoadStep
<1>2. CASE Fails(c)
  <2>1. c # Main => c \in Request
    BY DEF Caller
  <2>2. QED
    BY <1>1, <1>2, <2>1 DEF Fails
<1>3. CASE ~Fails(c)
  <2>1. PICK where \in Loading \cup {WithIdentity(c)} : OnlyFiles /\ Go(c, where)
    BY <1>3, LoadStep
  <2>2. where \in Place
    BY Places DEF WithIdentity, Onwards
  <2>3. QED
    BY <1>1, <2>1, <2>2, GoEffect DEF TypeOK
<1>4. QED
  BY <1>2, <1>3

\* OneReaderPerSocket with what ends a request's turn at its socket.
ReaderInv ==
    /\ \A r \in ackers : pc[r] \in Cgi \cup {"failed"}
    /\ \A r \in loops \cap Request : pc[r] = "paired"

LEMMA NextReader == TypeOK /\ ReaderInv /\ [Next]_vars => ReaderInv'
<1> SUFFICES ASSUME TypeOK, ReaderInv, [Next]_vars
             PROVE  ReaderInv'
  OBVIOUS
<1> USE DEF ReaderInv, sipVars
<1>1. ackers \subseteq Request /\ loops \subseteq Caller /\ pc \in [Caller -> Place]
      /\ Request \subseteq Caller
  BY MainCaller DEF TypeOK
<1>2. /\ "failed" \in Ended /\ "paired" \in Ended
      /\ Cgi \subseteq Onwards /\ Onwards \subseteq Place
      /\ \A where \in Loading \cup {"discover", "sip", "save", "idle"} :
           where \notin Cgi \cup Ended
      /\ \A where \in Cgi : where \notin Ended
  BY DEF Cgi, Onwards, Ended, Loading, Place, Flying
<1>3. Dies => ReaderInv'
  BY DiesEffect
<1>4. ASSUME NEW c \in Caller, LoadIdentity(c)
      PROVE  ReaderInv'
  <2>1. c \notin ackers /\ (c \in Request => c \notin loops)
    BY <1>2, <1>4, LoadEffect DEF Ended
  <2>2. CASE c \in Request /\ Ends(c, "failed") /\ UNCHANGED sipVars
    BY <1>1, <1>2, <2>1, <2>2, EndsEffect
  <2>3. CASE OnlyFiles /\ \A d \in Caller : d # c => pc'[d] = pc[d]
    BY <1>1, <2>1, <2>3 DEF OnlyFiles
  <2>4. QED
    BY <1>3, <1>4, <2>2, <2>3, LoadEffect
<1>5. ASSUME NEW r \in Request, NEW where \in Place, Go(r, where),
             pc[r] \notin Ended,
             ackers' \subseteq ackers \cup {r},
             r \in ackers' => where \in Cgi \cup {"failed"},
             loops' \subseteq loops \cup {r}, r \in loops' => where = "paired"
      PROVE  ReaderInv'
  BY <1>1, <1>5, GoEffect
<1>6. ASSUME NEW r \in Request, NEW how \in Ended, Ends(r, how),
             pc[r] \notin Ended,
             ackers' \subseteq ackers \cup {r}, r \in ackers' => how = "failed",
             loops' \subseteq loops \cup {r}, r \in loops' => how = "paired"
      PROVE  ReaderInv'
  BY <1>1, <1>6, EndsEffect
<1>7. CASE \E r \in Request : Snapshot(r)
  BY <1>1, <1>2, <1>5, <1>7, Places DEF Snapshot, Enters, Loading, Ended
<1>8. ASSUME NEW r \in Request, Serve(r)
      PROVE  ReaderInv'
  <2>1. CASE LoadIdentity(r)
    BY <1>1, <1>4, <2>1
  <2>2. {"sip", "login", "prime", "first", "second", "save"} \subseteq Place
        /\ {"login", "prime", "first", "second"} \subseteq Cgi
    BY DEF Place, Flying, Onwards, Cgi
  <2>3. r \in loops => pc[r] \in Ended
    BY <1>2
  <2>4. CASE Probe(r)
    BY <1>2, <1>5, <1>6, <2>2, <2>3, <2>4 DEF Probe, Cgi, Ended
  <2>5. CASE SipDone(r)
    BY <1>2, <1>5, <1>6, <2>2, <2>3, <2>5 DEF SipDone, Cgi, Ended
  <2>6. CASE Login(r)
    BY <1>2, <1>5, <1>6, <2>2, <2>3, <2>6 DEF Login, Ended
  <2>7. CASE Prime(r)
    BY <1>2, <1>5, <1>6, <2>2, <2>3, <2>7 DEF Prime, CgiFails, Ended
  <2>8. CASE FirstAuth(r)
    BY <1>2, <1>5, <1>6, <2>2, <2>3, <2>8 DEF FirstAuth, Accepted, CgiFails, Ended
  <2>9. CASE SecondAuth(r)
    BY <1>2, <1>5, <1>6, <2>2, <2>3, <2>9 DEF SecondAuth, Accepted, CgiFails, Ended
  <2>10. CASE Persist(r)
    BY <1>2, <1>6, <2>2, <2>3, <2>10 DEF Persist, Cgi, Ended
  <2>11. QED
    BY <1>8, <2>1, <2>4, <2>5, <2>6, <2>7, <2>8, <2>9, <2>10 DEF Serve
<1>9. CASE \E r \in Request : Cancel(r)
  <2>1. PICK r \in Request : Cancel(r)
    BY <1>9
  <2>2. pc[r] \notin Ended
    BY <2>1 DEF Cancel, Flying, Loading, Onwards, Cgi, Ended
  <2>3. QED
    BY <1>2, <1>6, <2>1, <2>2 DEF Cancel, Ended
<1>10. CASE Boot \/ AskElb \/ StartSip
  <2>1. \A r \in Request : pc'[r] = pc[r] \/ Dies
    <3>1. ASSUME NEW where, Go(Main, where)
          PROVE  \A r \in Request : pc'[r] = pc[r]
      BY <1>1, <3>1, MainCaller DEF Go
    <3>2. QED
      BY <1>10, <3>1 DEF Boot, Enters, AskElb, StartSip, Fails
  <2>2. \/ Dies
        \/ ackers' = ackers /\ loops' \in {loops, loops \cup {Main}}
    BY <1>10 DEF Boot, AskElb, StartSip, Fails, OnlyFiles
  <2>3. QED
    BY <1>1, <1>3, <2>1, <2>2, MainCaller
<1>11. CASE Crash
  BY <1>3, <1>11 DEF Crash
<1>12. CASE AddEntry \/ UNCHANGED vars
  BY <1>12 DEF AddEntry, vars
<1>13. QED
  BY <1>4, <1>7, <1>8, <1>9, <1>10, <1>11, <1>12, MainCaller DEF Next, MainTask

\* At any moment one task reads a request's SIP socket, also when clients
\* give up: the acker is gone before the maintenance loop is spawned.
THEOREM OneReaderPerSocketHolds == Spec => []OneReaderPerSocket
<1>1. Init => ReaderInv
  BY DEF Init, ReaderInv
<1>2. Spec => [](TypeOK /\ ReaderInv)
  BY <1>1, InitType, NextType, NextReader, PTL DEF Spec
<1>3. TypeOK /\ ReaderInv => OneReaderPerSocket
  <2>1. "paired" \notin Cgi \cup {"failed"}
    BY DEF Cgi
  <2>2. QED
    BY <2>1 DEF TypeOK, ReaderInv, OneReaderPerSocket
<1>4. QED
  BY <1>2, <1>3, PTL

\* Whoever has its identity has a MAC.
MacInv ==
    \A c \in Caller :
        pc[c] \in {"newMac", "fillMac"} \cup Onwards => ident[c].mac # Absent

LEMMA NextMac == TypeOK /\ MacInv /\ [Next]_vars => MacInv'
<1> SUFFICES ASSUME TypeOK, MacInv, [Next]_vars
             PROVE  MacInv'
  OBVIOUS
<1> USE DEF MacInv
<1>1. \A where \in {"idle", "elb", "startSip", "check", "paired", "failed"} :
        where \in Place /\ where \notin {"newMac", "fillMac"} \cup Onwards
  BY DEF Place, Flying, Loading, Onwards, Cgi, Ended
<1>2. Dies => MacInv'
  BY <1>1, DiesEffect
<1>3. ASSUME NEW r \in Request, NEW how \in Ended, Ends(r, how)
      PROVE  MacInv'
  BY <1>1, <1>3, EndsEffect DEF Ended
<1>4. ASSUME NEW c \in Caller, NEW where \in Place, Go(c, where),
             \A d \in Caller : d # c => ident'[d] = ident[d],
             where \in {"newMac", "fillMac"} \cup Onwards => ident'[c].mac # Absent
      PROVE  MacInv'
  <2>1. pc'[c] = where /\ \A d \in Caller : d # c => pc'[d] = pc[d]
    BY <1>4, GoEffect DEF TypeOK
  <2>2. QED
    BY <1>4, <2>1
<1>5. ASSUME NEW c \in Caller, LoadIdentity(c)
      PROVE  MacInv'
  <2>1. CASE Fails(c)
    BY <1>2, <1>3, <2>1 DEF Fails, Caller, Ended
  <2>2. CASE ~Fails(c)
    <3>1. \A where \in Loading : where \in Place /\ where \notin Onwards
      BY DEF Place, Flying, Loading, Onwards, Cgi
    <3>2. ASSUME NEW where \in Loading \ {"newMac", "fillMac"}, Go(c, where),
                 \A d \in Caller : d # c => ident'[d] = ident[d]
          PROVE  MacInv'
      BY <1>4, <3>1, <3>2
    <3>3. ident \in [Caller -> Ident]
      BY DEF TypeOK
    <3>4. CASE CheckFiles(c)
      BY <3>2, <3>4 DEF CheckFiles, Loading
    <3>5. CASE ReadKiki(c) \/ ReadDisp(c)
      BY <2>2, <3>2, <3>3, <3>5 DEF ReadKiki, ReadDisp, Loading
    <3>6. CASE Mint(c)
      BY <2>2, <3>2, <3>3, <3>6 DEF Mint, Loading
    <3>7. CASE WriteStep(c)
      BY <1>4, <3>1, <3>7 DEF WriteStep, Loading
    <3>8. "newMac" \in Place /\ "fillMac" \in Place /\ WithIdentity(c) \in Place
      BY Places DEF Loading, WithIdentity, Onwards
    <3>9. CASE LoadMac(c)
      <4>1. Fresh # Absent
        BY DEF Fresh, Absent, TypeOK
      <4>2. CASE macFile = Absent
        <5>1. Go(c, "newMac") /\ ident' = [ident EXCEPT ![c].mac = Fresh]
          BY <3>9, <4>2 DEF LoadMac
        <5>2. ident'[c].mac = Fresh
          BY <3>3, <5>1 DEF Ident
        <5>3. QED
          BY <1>4, <3>3, <3>8, <4>1, <5>1, <5>2
      <4>3. CASE macFile # Absent
        <5>1. Go(c, WithIdentity(c)) /\ ident' = [ident EXCEPT ![c].mac = macFile]
          BY <3>9, <4>3 DEF LoadMac
        <5>2. ident'[c].mac = macFile
          BY <3>3, <5>1 DEF Ident
        <5>3. QED
          BY <1>4, <3>3, <3>8, <4>3, <5>1, <5>2
      <4>4. QED
        BY <4>2, <4>3
    <3>10. CASE FillMac(c)
      BY <1>4, <3>8, <3>10 DEF FillMac
    <3>11. QED
      BY <1>5, <2>2, <3>4, <3>5, <3>6, <3>7, <3>9, <3>10
         DEF LoadIdentity, DecodeFails, WriteFails
  <2>3. QED
    BY <2>1, <2>2
<1>6. ASSUME NEW r \in Request, NEW where \in Onwards, Go(r, where), UNCHANGED ident,
             pc[r] \in Onwards
      PROVE  MacInv'
  BY <1>4, <1>6, MainCaller, Places
<1>7. ASSUME NEW r \in Request, Serve(r)
      PROVE  MacInv'
  <2>1. /\ {"discover", "sip", "login", "prime", "first", "second", "save"}
           \subseteq Onwards
        /\ {"paired", "failed"} \subseteq Ended
    BY DEF Onwards, Cgi, Ended
  <2>2. CASE LoadIdentity(r)
    BY <1>5, <2>2, MainCaller
  <2>3. CASE Probe(r) \/ SipDone(r) \/ Login(r)
    BY <1>3, <1>6, <2>1, <2>3 DEF Probe, SipDone, Login
  <2>4. CASE Prime(r) \/ FirstAuth(r) \/ SecondAuth(r)
    BY <1>3, <1>6, <2>1, <2>4 DEF Prime, FirstAuth, SecondAuth, Accepted, CgiFails
  <2>5. CASE Persist(r)
    BY <1>3, <2>1, <2>5 DEF Persist
  <2>6. QED
    BY <1>7, <2>2, <2>3, <2>4, <2>5 DEF Serve
<1>8. CASE \E r \in Request : Snapshot(r)
  BY <1>1, <1>4, <1>8, MainCaller DEF Snapshot, Enters
<1>9. CASE \E r \in Request : Cancel(r)
  BY <1>3, <1>9 DEF Cancel, Ended
<1>10. CASE Boot
  BY <1>1, <1>4, <1>10, MainCaller DEF Boot, Enters
<1>11. CASE AskElb
  BY <1>1, <1>2, <1>4, <1>11, MainCaller DEF AskElb, Fails
<1>12. CASE StartSip
  BY <1>1, <1>4, <1>12, MainCaller DEF StartSip, TypeOK
<1>13. CASE Crash
  BY <1>2, <1>13 DEF Crash
<1>14. CASE AddEntry \/ UNCHANGED vars
  BY <1>14 DEF AddEntry, vars
<1>15. QED
  BY <1>5, <1>7, <1>8, <1>9, <1>10, <1>11, <1>12, <1>13, <1>14, MainCaller
     DEF Next, MainTask

\* RegisteredIsSaved with what holds before a loop is spawned.
SavedInv ==
    /\ pc[Main] # "idle" => IsPaired(disk)
    /\ loops # {} => IsPaired(disk)
    /\ (entry \/ IsPaired(mem)) /\ "save" \notin faults => IsPaired(disk)

LEMMA NextSaved == TypeOK /\ MacInv /\ SavedInv /\ [Next]_vars => SavedInv'
<1> SUFFICES ASSUME TypeOK, MacInv, SavedInv, [Next]_vars
             PROVE  SavedInv'
  OBVIOUS
<1> USE DEF SavedInv, configVars, sipVars, envVars
<1>1. Dies => SavedInv'
  BY DiesEffect, MainCaller DEF IsPaired
<1>2. ASSUME UNCHANGED <<mem, disk, loops, entry>>, faults \subseteq faults',
             pc'[Main] = pc[Main] \/ pc[Main] # "idle"
      PROVE  SavedInv'
  BY <1>2
<1>4. ASSUME NEW r \in Request, NEW where, Go(r, where)
      PROVE  pc'[Main] = pc[Main]
  BY <1>4, MainCaller DEF Go, TypeOK
<1>5. ASSUME NEW c \in Caller, LoadIdentity(c)
      PROVE  SavedInv'
  <2>1. c = Main => pc[Main] # "idle"
    BY <1>5, LoadEffect DEF Loading
  <2>2. CASE c \in Request /\ Ends(c, "failed") /\ faults \subseteq faults'
             /\ UNCHANGED <<configVars, sipVars, envVars>>
    BY <1>2, <1>4, <2>2 DEF Ends
  <2>3. CASE OnlyFiles /\ \A d \in Caller : d # c => pc'[d] = pc[d]
    BY <1>2, <2>1, <2>3, MainCaller DEF OnlyFiles
  <2>4. QED
    BY <1>1, <1>5, <2>2, <2>3, LoadEffect
<1>6. ASSUME NEW r \in Request, Persist(r)
      PROVE  SavedInv'
  <2>1. ident[r].mac # Absent
    BY <1>6, MainCaller DEF Persist, MacInv, Onwards
  <2>2. IsPaired(Outcome(r))
    BY <2>1 DEF IsPaired, NoBase, Outcome
  <2>3. /\ mem' = Outcome(r) /\ entry' = entry /\ faults \subseteq faults'
        /\ \/ disk' = Outcome(r)
           \/ disk' = disk /\ loops' = loops /\ "save" \in faults'
    BY <1>6 DEF Persist, Saves, Remembers
  <2>4. pc'[Main] = pc[Main]
    BY <1>4, <1>6 DEF Persist, Ends
  <2>5. QED
    BY <2>2, <2>3, <2>4
<1>7. ASSUME NEW r \in Request, Serve(r)
      PROVE  SavedInv'
  <2>1. CASE LoadIdentity(r)
    BY <1>5, <2>1, MainCaller
  <2>2. CASE Probe(r) \/ SipDone(r) \/ Login(r)
    BY <1>2, <1>4, <2>2 DEF Probe, SipDone, Login, Ends, NoFiles
  <2>3. CASE Prime(r) \/ FirstAuth(r) \/ SecondAuth(r)
    BY <1>2, <1>4, <2>3
       DEF Prime, FirstAuth, SecondAuth, Accepted, CgiFails, Ends, NoFiles
  <2>4. QED
    BY <1>6, <1>7, <2>1, <2>2, <2>3 DEF Serve
<1>8. CASE \E r \in Request : Snapshot(r) \/ Cancel(r)
  BY <1>2, <1>4, <1>8 DEF Snapshot, Enters, Cancel, Ends, NoFiles
<1>9. CASE Boot
  BY <1>9 DEF Boot
<1>10. CASE AskElb
  BY <1>1, <1>2, <1>10 DEF AskElb, OnlyFiles, Fails
<1>11. CASE StartSip
  BY <1>11 DEF StartSip
<1>12. CASE Crash
  BY <1>1, <1>12 DEF Crash
<1>13. CASE AddEntry \/ UNCHANGED vars
  BY <1>13 DEF AddEntry, vars
<1>14. QED
  BY <1>5, <1>7, <1>8, <1>9, <1>10, <1>11, <1>12, <1>13, MainCaller
     DEF Next, MainTask

\* A registration that is kept up, and an entry of Home Assistant, stand on a
\* configuration that was written - the latter unless a write of it failed.
THEOREM RegisteredIsSavedHolds == Spec => []RegisteredIsSaved
<1>1. Init => MacInv /\ SavedInv
  <2>1. "idle" \notin {"newMac", "fillMac"} \cup Onwards
    BY DEF Onwards, Cgi
  <2>2. QED
    BY <2>1, MainCaller DEF Init, MacInv, SavedInv, IsPaired
<1>2. Spec => []SavedInv
  BY <1>1, InitType, NextType, NextMac, NextSaved, PTL DEF Spec
<1>3. SavedInv => RegisteredIsSaved
  BY DEF SavedInv, RegisteredIsSaved
<1>4. QED
  BY <1>2, <1>3, PTL

\* Whom nobody overtook has the id that is in memory, or has been told one.
IdInv ==
    /\ daemon = "down" => ~mem.id /\ \A c \in Caller : pc[c] = "idle"
    /\ mem.id => \A r \in Request :
                     pc[r] \in Flying /\ r \notin crossed => idKnown[r] # "none"

LEMMA NextId == TypeOK /\ IdInv /\ [Next]_vars => IdInv'
<1> SUFFICES ASSUME TypeOK, IdInv, [Next]_vars
             PROVE  IdInv'
  OBVIOUS
<1> USE DEF IdInv, configVars
<1>1. /\ pc \in [Caller -> Place] /\ \A r \in Request : r \in Caller
      /\ "idle" \notin Flying \cup Ended /\ Flying \cap Ended = {}
      /\ \A how \in Ended : how \in Place /\ how \notin Flying
      /\ idKnown \in [Request -> IdWord]
  BY MainCaller DEF TypeOK, Place, Flying, Loading, Onwards, Cgi, Ended
<1>2. Dies => IdInv'
  BY <1>1, DiesEffect, MainCaller DEF NoBase
\* What a request does on its way.
<1>3. ASSUME NEW r \in Request, NEW where \in Flying, Go(r, where),
             pc[r] \in Flying, UNCHANGED <<daemon, mem, crossed>>,
             idKnown[r] # "none" => idKnown'[r] # "none",
             \A q \in Request : q # r => idKnown'[q] = idKnown[q]
      PROVE  IdInv'
  <2>1. pc'[r] = where /\ \A q \in Request : q # r => pc'[q] = pc[q]
    BY <1>1, <1>3, GoEffect DEF Place
  <2>2. daemon # "down"
    BY <1>1, <1>3
  <2>3. QED
    BY <1>3, <2>1, <2>2
<1>4. ASSUME NEW r \in Request, NEW how \in Ended, Ends(r, how), daemon' # "down",
             UNCHANGED <<mem, crossed>>
      PROVE  IdInv'
  BY <1>1, <1>4, EndsEffect
<1>5. ASSUME NEW c \in Caller, LoadIdentity(c)
      PROVE  IdInv'
  <2>1. pc[c] \in Loading /\ pc[c] # "idle"
    BY <1>5, LoadEffect DEF Loading
  <2>2. daemon # "down"
    BY <2>1
  <2>3. CASE c \in Request /\ Ends(c, "failed")
             /\ UNCHANGED <<daemon, configVars>>
    BY <1>4, <2>2, <2>3 DEF Ended
  <2>4. CASE OnlyFiles /\ pc'[c] \in Loading \cup {WithIdentity(c)}
             /\ \A d \in Caller : d # c => pc'[d] = pc[d]
    <3>1. c \in Request => pc[c] \in Flying
      BY <2>1 DEF Flying
    <3>2. UNCHANGED <<daemon, mem, crossed, idKnown>>
      BY <2>4 DEF OnlyFiles
    <3>3. QED
      BY <1>1, <2>2, <2>4, <3>1, <3>2
  <2>5. QED
    BY <1>2, <1>5, <2>3, <2>4, LoadEffect
<1>6. ASSUME NEW r \in Request, Persist(r)
      PROVE  IdInv'
  <2>1. PICK how \in Ended : Ends(r, how)
    BY <1>6 DEF Persist, Ended
  <2>2. /\ pc'[r] = how
        /\ \A q \in Request : q # r => pc'[q] = pc[q]
    BY <1>1, <2>1, EndsEffect
  <2>3. \A q \in Request : q # r /\ pc[q] \in Flying => q \in crossed'
    BY <1>6 DEF Persist, Remembers
  <2>4. daemon' # "down"
    <3>1. pc[r] # "idle" /\ daemon' = daemon
      BY <1>6 DEF Persist
    <3>2. QED
      BY <1>1, <3>1
  <2>5. QED
    BY <1>1, <2>2, <2>3, <2>4
<1>7. ASSUME NEW r \in Request, Serve(r)
      PROVE  IdInv'
  <2>1. /\ {"discover", "sip", "login", "prime", "first", "second", "save"}
           \subseteq Flying
        /\ {"paired", "failed"} \subseteq Ended
    BY DEF Flying, Onwards, Cgi, Ended
  <2>2. pc[r] \in Flying => daemon # "down"
    BY <1>1
  <2>3. CASE LoadIdentity(r)
    BY <1>5, <2>3, MainCaller
  <2>4. CASE Probe(r) \/ SipDone(r) \/ Login(r)
    BY <1>3, <1>4, <2>1, <2>2, <2>4 DEF Probe, SipDone, Login, NoFiles
  <2>5. CASE Prime(r)
    BY <1>3, <1>4, <2>1, <2>2, <2>5 DEF Prime, CgiFails, NoFiles
  <2>6. ASSUME NEW answer \in Answers, Accepted(r, answer), pc[r] \in Flying, NoFiles
        PROVE  IdInv'
    <3>1. /\ idKnown[r] # "none" => idKnown'[r] # "none"
          /\ \A q \in Request : q # r => idKnown'[q] = idKnown[q]
      BY <1>1, <2>6 DEF Accepted, IdFrom, Answers
    <3>2. QED
      BY <1>3, <2>1, <2>6, <3>1 DEF Accepted, NoFiles
  <2>7. CASE FirstAuth(r) \/ SecondAuth(r)
    BY <1>3, <1>4, <2>1, <2>2, <2>6, <2>7
       DEF FirstAuth, SecondAuth, CgiFails, NoFiles, Answers
  <2>8. QED
    BY <1>6, <1>7, <2>3, <2>4, <2>5, <2>7 DEF Serve
<1>8. CASE \E r \in Request : Snapshot(r)
  <2>1. PICK r \in Request : Snapshot(r)
    BY <1>8
  <2>2. /\ daemon # "down" /\ Go(r, "check")
        /\ idKnown' = [idKnown EXCEPT ![r] = IF mem.id THEN "known" ELSE "none"]
        /\ UNCHANGED <<daemon, mem, crossed>>
    BY <2>1 DEF Snapshot, Enters
  <2>3. \A q \in Request : q # r => pc'[q] = pc[q]
    BY <1>1, <2>2 DEF Go
  <2>4. mem.id => idKnown'[r] # "none"
    BY <1>1, <2>2
  <2>5. \A q \in Request : q # r => idKnown'[q] = idKnown[q]
    BY <1>1, <2>2
  <2>6. QED
    BY <2>2, <2>3, <2>4, <2>5
<1>9. CASE \E r \in Request : Cancel(r)
  <2>1. PICK r \in Request : Cancel(r)
    BY <1>9
  <2>2. daemon # "down" /\ UNCHANGED <<daemon, mem, crossed>>
    BY <1>1, <2>1 DEF Cancel, NoFiles
  <2>3. QED
    BY <1>4, <2>1, <2>2 DEF Cancel, Ended
<1>10. ASSUME NEW where, Go(Main, where)
       PROVE  \A r \in Request : pc'[r] = pc[r]
  BY <1>1, <1>10, MainCaller DEF Go
<1>11. CASE Boot
  <2>1. \A r \in Request : pc'[r] = "idle"
    <3>1. \A r \in Request : pc[r] = "idle"
      BY <1>1, <1>11 DEF Boot
    <3>2. pc' = pc \/ Go(Main, "check")
      BY <1>11 DEF Boot, Enters
    <3>3. QED
      BY <1>10, <3>1, <3>2
  <2>2. daemon' # "down"
    BY <1>11 DEF Boot
  <2>3. QED
    BY <1>1, <2>1, <2>2
<1>12. CASE AskElb
  <2>1. CASE Fails(Main)
    BY <1>2, <2>1 DEF Fails
  <2>2. CASE ~Fails(Main)
    <3>1. /\ \A r \in Request : pc'[r] = pc[r]
          /\ UNCHANGED <<daemon, mem, crossed, idKnown>>
      BY <1>10, <1>12, <2>2 DEF AskElb, OnlyFiles
    <3>2. daemon # "down"
      BY <1>12, MainCaller DEF AskElb
    <3>3. QED
      BY <3>1, <3>2
  <2>3. QED
    BY <2>1, <2>2
<1>13. CASE StartSip
  <2>1. \A r \in Request : pc'[r] = pc[r]
    BY <1>10, <1>13 DEF StartSip
  <2>2. UNCHANGED <<mem, crossed, idKnown>> /\ daemon' # "down"
    BY <1>13 DEF StartSip
  <2>3. QED
    BY <2>1, <2>2
<1>14. CASE Crash
  BY <1>2, <1>14 DEF Crash
<1>15. CASE AddEntry \/ UNCHANGED vars
  BY <1>15 DEF AddEntry, vars
<1>16. QED
  BY <1>5, <1>7, <1>8, <1>9, <1>11, <1>12, <1>13, <1>14, <1>15, MainCaller
     DEF Next, MainTask

\* Only an outcome replaces [base], in memory and in config.toml; else the
\* process ends, or starts with the file.
LEMMA BaseStep ==
    ASSUME TypeOK, [Next]_vars
    PROVE  \/ UNCHANGED <<mem, disk>>
           \/ disk' = disk /\ (Dies \/ Boot)
           \/ \E r \in Request : /\ Persist(r) /\ mem' = Outcome(r)
                                 /\ disk' \in {disk, Outcome(r)}
<1> USE DEF configVars
<1>1. Dies => disk' = disk
  BY DEF Dies
<1>2. ASSUME NEW c \in Caller, LoadIdentity(c)
      PROVE  Dies \/ UNCHANGED <<mem, disk>>
  BY <1>2, LoadEffect DEF OnlyFiles
<1>3. ASSUME NEW r \in Request, Serve(r), ~Persist(r)
      PROVE  Dies \/ UNCHANGED <<mem, disk>>
  BY <1>2, <1>3, MainCaller
     DEF Serve, Probe, SipDone, Login, Prime, FirstAuth, SecondAuth, NoFiles
<1>4. ASSUME NEW r \in Request, Persist(r)
      PROVE  mem' = Outcome(r) /\ disk' \in {disk, Outcome(r)}
  BY <1>4 DEF Persist, Saves, Remembers
<1>5. (\E r \in Request : Snapshot(r) \/ Cancel(r)) => UNCHANGED <<mem, disk>>
  BY DEF Snapshot, Cancel, NoFiles
<1>6. AskElb \/ StartSip \/ AddEntry \/ UNCHANGED vars =>
        Dies \/ UNCHANGED <<mem, disk>>
  BY DEF AskElb, StartSip, AddEntry, OnlyFiles, Fails, vars
<1>7. (Crash => Dies) /\ (Boot => disk' = disk)
  BY DEF Crash, Boot
<1>8. QED
  BY <1>1, <1>2, <1>3, <1>4, <1>5, <1>6, <1>7, MainCaller DEF Next, MainTask

\* A pairing request that no other one overtakes never loses the base's id:
\* the one in memory when it began stands if the base returns none.  Only an
\* empty id from the base itself replaces it.
THEOREM KeepsBaseIdHolds == Spec => KeepsBaseId
<1>1. Init => IdInv
  BY DEF Init, IdInv, NoBase
<1>2. Spec => [](TypeOK /\ IdInv)
  BY <1>1, InitType, NextType, NextId, PTL DEF Spec
<1>3. TypeOK /\ IdInv /\ [Next]_vars =>
        [mem.id /\ ~mem'.id /\ daemon' # "down" =>
           \E r \in Request : /\ pc[r] = "save" /\ pc'[r] \in Ended
                              /\ r \in crossed \/ idKnown[r] = "empty"]_vars
  <2> SUFFICES ASSUME TypeOK, IdInv, [Next]_vars, mem.id, ~mem'.id, daemon' # "down"
               PROVE  \E r \in Request : /\ pc[r] = "save" /\ pc'[r] \in Ended
                                         /\ r \in crossed \/ idKnown[r] = "empty"
    OBVIOUS
  <2>1. ~Boot
    BY DEF IdInv, Boot
  <2>2. PICK r \in Request : Persist(r) /\ mem' = Outcome(r)
    BY <2>1, BaseStep, DiesEffect
  <2>3. pc[r] = "save" /\ idKnown[r] # "known" /\ idKnown[r] \in IdWord
    BY <2>2 DEF Persist, Outcome, TypeOK
  <2>4. pc'[r] \in Ended
    BY <2>2, EndsEffect DEF Persist, Ended
  <2>5. r \in crossed \/ idKnown[r] # "none"
    BY <2>3 DEF IdInv, Flying, Onwards
  <2>6. QED
    BY <2>3, <2>4, <2>5 DEF IdWord
<1>4. QED
  BY <1>2, <1>3, PTL DEF Spec, KeepsBaseId

-----------------------------------------------------------------------------
(* PresentsOneIdentity and PairingIsDurable.                               *)

\* All three files are there, and tell one identity.
Files    == [cert |-> kiki, disp |-> disp, mac |-> macFile]
Complete == kiki = disp /\ kiki > Empty /\ macFile > Empty

\* What the files hold, but for those that are just being written ...
KeyFiles ==
    \/ disp = Absent
    \/ disp > Empty /\ kiki \in {disp, Empty}
    \/ \E c \in Caller : pc[c] = "fillDisp"

MacFileThere ==
    macFile = Absent \/ macFile > Empty \/ \E c \in Caller : pc[c] = "fillMac"

\* ... and how far whoever is in load_or_mint_with_disp_id has come.
Loads(c) ==
    LET at(places) == pc[c] \in places
    IN /\ at({"mint", "newKiki", "fillKiki", "newDisp"}) => disp = Absent
       /\ at({"newKiki", "fillKiki", "newDisp", "fillDisp", "mac"}) =>
            ident[c].disp > Empty /\ ident[c].cert \in {ident[c].disp, Empty}
       /\ at({"newDisp", "fillDisp", "mac"}) => kiki = ident[c].cert
       /\ at({"readKiki", "readDisp"}) => disp > Empty /\ kiki \in {disp, Empty}
       /\ at({"readDisp"}) => ident[c].cert = kiki /\ kiki = disp
       /\ at({"fillDisp"}) => disp = Empty
       /\ at({"mac"}) => disp = ident[c].disp
       /\ at({"newMac", "fillMac"}) =>
            /\ ident[c].cert = kiki /\ ident[c].disp = disp
            /\ kiki = disp /\ kiki > Empty /\ ident[c].mac > Empty
       /\ at({"newMac"}) => macFile = Absent
       /\ at({"fillMac"}) => macFile = Empty
       /\ at(Onwards) => ident[c] = Files /\ Complete

AloneLoading ==
    \A c, d \in Caller : pc[c] \in Loading /\ pc[d] \in Loading => c = d

\* What the base knows is what the files hold, as soon as it knows anything.
Planted == planted # NoIdent => planted = Files /\ Complete

\* Whoever has an id of the base has it from an answer that took us.
Known == mem.id \/ disk.id \/ \E r \in Request : idKnown[r] = "known"

Saved ==
    /\ Known => planted = Files /\ Complete
    /\ disk.id => disk.mac = macFile

Tidy ==
    /\ AloneLoading /\ KeyFiles /\ MacFileThere
    /\ \A c \in Caller : Loads(c)
    /\ Planted

FilesInv ==
    faults \cap {"overlap", "torn"} = {} =>
        Tidy /\ Saved

LEMMA FileTypes ==
    ASSUME TypeOK
    PROVE  /\ kiki \in Nat /\ disp \in Nat /\ macFile \in Nat /\ made \in Nat
           /\ ident \in [Caller -> Ident]
           /\ \A c \in Caller : /\ ident[c].cert \in Nat /\ ident[c].disp \in Nat
                                /\ ident[c].mac \in Nat
                                /\ ident[c] = [cert |-> ident[c].cert,
                                               disp |-> ident[c].disp,
                                               mac  |-> ident[c].mac]
BY DEF TypeOK, Ident

LEMMA FaultsGrow == [Next]_vars => faults \subseteq faults'
<1>1. Dies => faults \subseteq faults'
  BY DEF Dies
<1>2. \A c : Fails(c) => faults \subseteq faults'
  BY <1>1 DEF Fails
<1>3. \A c : LoadIdentity(c) => faults \subseteq faults'
  BY <1>2 DEF LoadIdentity, CheckFiles, ReadKiki, ReadDisp, Mint, DecodeFails,
              WriteStep, WriteFails, LoadMac, FillMac, OnlyFiles
<1>4. \A r : Serve(r) => faults \subseteq faults'
  BY <1>3 DEF Serve, Probe, SipDone, Login, Prime, FirstAuth, SecondAuth, Persist
<1>5. \A r : Snapshot(r) \/ Cancel(r) => faults \subseteq faults'
  BY DEF Snapshot, Enters, Cancel
<1>6. Boot \/ AskElb \/ StartSip \/ Crash \/ AddEntry => faults \subseteq faults'
  BY <1>1, <1>2 DEF Boot, Enters, AskElb, StartSip, Crash, AddEntry, OnlyFiles
<1>7. UNCHANGED vars => faults \subseteq faults'
  BY DEF vars
<1>8. QED
  BY <1>3, <1>4, <1>5, <1>6, <1>7 DEF Next, MainTask

\* A step of c that leaves the files as they are.
LEMMA FilesKept ==
    ASSUME TypeOK, Tidy, NEW c \in Caller,
           UNCHANGED <<kiki, disp, macFile>>,
           \A d \in Caller : d # c => pc'[d] = pc[d] /\ ident'[d] = ident[d],
           pc[c] \notin {"fillDisp", "fillMac"},
           pc'[c] \in Loading =>
               pc[c] \in Loading \/ \A d \in Caller : d # c => pc[d] \notin Loading,
           Loads(c)',
           planted' = planted \/ (pc[c] \in Onwards /\ planted' = ident[c])
    PROVE  Tidy'
<1>1. AloneLoading'
  BY DEF Tidy, AloneLoading
<1>2. KeyFiles' /\ MacFileThere'
  BY DEF Tidy, KeyFiles, MacFileThere
<1>3. Files' = Files /\ Complete' = Complete
  BY DEF Files, Complete
<1>4. \A d \in Caller : Loads(d)'
  <2> SUFFICES ASSUME NEW d \in Caller, d # c
               PROVE  Loads(d)'
    OBVIOUS
  <2>1. Loads(d)
    BY DEF Tidy
  <2>2. pc'[d] = pc[d] /\ ident'[d] = ident[d]
    OBVIOUS
  <2>3. QED
    BY <1>3, <2>1, <2>2 DEF Loads
<1>5. Planted'
  BY <1>3 DEF Tidy, Planted, Loads
<1>6. QED
  BY <1>1, <1>2, <1>4, <1>5 DEF Tidy

\* A write of c: nobody but c has an identity yet.
LEMMA FilesWritten ==
    ASSUME TypeOK, Tidy, NEW c \in Caller, pc[c] \in Loading, ~Complete,
           \A d \in Caller : d # c => pc'[d] = pc[d],
           ident' = ident, planted' = planted,
           KeyFiles', MacFileThere', Loads(c)'
    PROVE  Tidy'
<1>1. \A d \in Caller : d # c => pc[d] \notin Loading \cup Onwards
  BY DEF Tidy, AloneLoading, Loads
<1>2. AloneLoading'
  BY <1>1 DEF AloneLoading
<1>3. \A d \in Caller : Loads(d)'
  <2> SUFFICES ASSUME NEW d \in Caller, d # c
               PROVE  Loads(d)'
    OBVIOUS
  <2>1. pc'[d] \notin Loading \cup Onwards
    BY <1>1
  <2>2. QED
    BY <2>1 DEF Loads, Loading
<1>4. planted = NoIdent
  BY DEF Tidy, Planted
<1>5. QED
  BY <1>2, <1>3, <1>4 DEF Tidy, Planted

\* One more step of whoever loads or mints the identity.
LEMMA LoadingTidy ==
    ASSUME TypeOK, Tidy, NEW c \in Caller, LoadIdentity(c), ~Fails(c)
    PROVE  Tidy'
<1> USE FileTypes
<1>1. pc[c] \in Loading /\ OnlyFiles
      /\ pc'[c] \in Loading \cup {WithIdentity(c)}
      /\ \A d \in Caller : d # c => pc'[d] = pc[d]
  <2>1. PICK where \in Loading \cup {WithIdentity(c)} : OnlyFiles /\ Go(c, where)
    BY LoadStep
  <2>2. where \in Place
    BY Places DEF WithIdentity, Onwards
  <2>3. QED
    BY <2>1, <2>2, LoadStep, GoEffect DEF TypeOK
<1>2. planted' = planted
  BY <1>1 DEF OnlyFiles, envVars
<1>3. Loads(c) /\ \A d \in Caller : d # c => pc[d] \notin Loading
  BY <1>1 DEF Tidy, AloneLoading
<1>4. \A where \in Loading : where \in Place /\ where \notin Onwards
  BY DEF Place, Flying, Loading, Onwards, Cgi
\* It reads.
<1>5. ASSUME UNCHANGED <<kiki, disp, macFile>>, Loads(c)',
             \A d \in Caller : d # c => ident'[d] = ident[d],
             pc[c] \notin {"fillDisp", "fillMac"}
      PROVE  Tidy'
  BY <1>1, <1>2, <1>3, <1>5, FilesKept
\* It writes.
<1>6. ASSUME ~Complete, ident' = ident, KeyFiles', MacFileThere', Loads(c)'
      PROVE  Tidy'
  BY <1>1, <1>2, <1>6, FilesWritten
<1>7. KeyFiles /\ MacFileThere
  BY DEF Tidy
<1>8. CASE CheckFiles(c)
  <2>1. pc[c] = "check" /\ UNCHANGED <<kiki, disp, macFile, ident>>
        /\ pc'[c] = IF Absent \in {kiki, disp} THEN "mint" ELSE "readKiki"
    BY <1>4, <1>8, GoEffect DEF CheckFiles, fileVars, Loading, TypeOK
  <2>2. disp = Absent \/ (disp > Empty /\ kiki \in {disp, Empty})
    BY <1>3, <1>7, <2>1 DEF KeyFiles, Loading
  <2>3. CASE Absent \in {kiki, disp}
    <3>1. disp = Absent /\ pc'[c] = "mint"
      BY <2>1, <2>2, <2>3 DEF Absent, Empty
    <3>2. Loads(c)'
      BY <1>4, <2>1, <3>1 DEF Loads, Loading
    <3>3. QED
      BY <1>5, <2>1, <3>2
  <2>4. CASE Absent \notin {kiki, disp}
    <3>1. pc'[c] = "readKiki" /\ disp > Empty /\ kiki \in {disp, Empty}
      BY <2>1, <2>2, <2>4
    <3>2. Loads(c)'
      BY <1>4, <2>1, <3>1 DEF Loads, Loading
    <3>3. QED
      BY <1>5, <2>1, <3>2
  <2>5. QED
    BY <2>3, <2>4
<1>9. CASE ReadKiki(c)
  <2>1. /\ pc[c] = "readKiki" /\ UNCHANGED <<kiki, disp, macFile>>
        /\ kiki # Empty /\ ident' = [ident EXCEPT ![c].cert = kiki]
        /\ Go(c, "readDisp")
    BY <1>9 DEF ReadKiki, fileVars
  <2>2. pc'[c] = "readDisp" /\ ident'[c].cert = kiki
        /\ \A d \in Caller : d # c => ident'[d] = ident[d]
    BY <1>4, <2>1, GoEffect DEF Loading, TypeOK, Ident
  <2>3. disp > Empty /\ kiki = disp
    BY <1>3, <2>1 DEF Loads
  <2>4. Loads(c)'
    BY <1>4, <2>1, <2>2, <2>3 DEF Loads, Loading
  <2>5. QED
    BY <1>5, <2>1, <2>2, <2>4
<1>10. CASE ReadDisp(c)
  <2>1. /\ pc[c] = "readDisp" /\ UNCHANGED <<kiki, disp, macFile>>
        /\ ident' = [ident EXCEPT ![c].disp = disp]
        /\ Go(c, "mac")
    BY <1>10 DEF ReadDisp, fileVars
  <2>2. pc'[c] = "mac" /\ ident'[c].disp = disp /\ ident'[c].cert = ident[c].cert
        /\ \A d \in Caller : d # c => ident'[d] = ident[d]
    BY <1>4, <2>1, GoEffect DEF Loading, TypeOK, Ident
  <2>3. disp > Empty /\ ident[c].cert = kiki /\ kiki = disp
    BY <1>3, <2>1 DEF Loads
  <2>4. Loads(c)'
    BY <1>4, <2>1, <2>2, <2>3 DEF Loads, Loading
  <2>5. QED
    BY <1>5, <2>1, <2>2, <2>4
<1>11. CASE Mint(c)
  <2>1. PICK cert \in {Fresh, Empty} :
          /\ pc[c] = "mint" /\ UNCHANGED <<kiki, disp, macFile>>
          /\ ident' = [ident EXCEPT ![c].cert = cert, ![c].disp = Fresh]
          /\ Go(c, "newKiki")
    BY <1>11 DEF Mint, fileVars
  <2>2. pc'[c] = "newKiki" /\ ident'[c].disp = Fresh /\ ident'[c].cert = cert
        /\ \A d \in Caller : d # c => ident'[d] = ident[d]
    BY <1>4, <2>1, GoEffect DEF Loading, TypeOK, Ident
  <2>3. Fresh > Empty /\ disp = Absent
    BY <1>3, <2>1 DEF Fresh, Empty, Loads
  <2>4. Loads(c)'
    <3>1. ident'[c].disp > Empty' /\ ident'[c].cert \in {ident'[c].disp, Empty'}
      BY <2>2, <2>3 DEF Empty
    <3>2. QED
      BY <1>4, <2>1, <2>2, <2>3, <3>1 DEF Loads, Loading, Absent
  <2>5. QED
    BY <1>5, <2>1, <2>2, <2>4
<1>12. CASE WriteStep(c)
  <2> USE DEF Absent, Empty
  <2>1. ident' = ident /\ pc[c] \in Loading
    BY <1>1, <1>12 DEF WriteStep
  <2>2. macFile' = macFile /\ pc[c] # "fillMac" => MacFileThere'
    BY <1>3, <1>7 DEF MacFileThere, Loading
  <2>3. CASE pc[c] = "newKiki"
    <3>1. Go(c, "fillKiki") /\ kiki' = Empty /\ UNCHANGED <<disp, macFile>>
      BY <1>12, <2>3 DEF WriteStep
    <3>2. pc'[c] = "fillKiki"
      BY <1>4, <3>1, GoEffect DEF Loading, TypeOK
    <3>3. disp = Absent /\ ident[c].disp > Empty
          /\ ident[c].cert \in {ident[c].disp, Empty}
      BY <1>3, <2>3 DEF Loads
    <3>4. Loads(c)'
      BY <1>4, <2>1, <3>1, <3>2, <3>3 DEF Loads, Loading
    <3>5. KeyFiles' /\ ~Complete
      BY <3>1, <3>3 DEF KeyFiles, Complete
    <3>6. QED
      BY <1>6, <2>1, <2>2, <2>3, <3>1, <3>4, <3>5
  <2>4. CASE pc[c] = "fillKiki"
    <3>1. Go(c, "newDisp") /\ kiki' = ident[c].cert /\ UNCHANGED <<disp, macFile>>
      BY <1>12, <2>4 DEF WriteStep
    <3>2. pc'[c] = "newDisp"
      BY <1>4, <3>1, GoEffect DEF Loading, TypeOK
    <3>3. disp = Absent /\ ident[c].disp > Empty
          /\ ident[c].cert \in {ident[c].disp, Empty}
      BY <1>3, <2>4 DEF Loads
    <3>4. Loads(c)'
      BY <1>4, <2>1, <3>1, <3>2, <3>3 DEF Loads, Loading
    <3>5. KeyFiles' /\ ~Complete
      BY <3>1, <3>3 DEF KeyFiles, Complete
    <3>6. QED
      BY <1>6, <2>1, <2>2, <2>4, <3>1, <3>4, <3>5
  <2>5. CASE pc[c] = "newDisp"
    <3>1. Go(c, "fillDisp") /\ disp' = Empty /\ UNCHANGED <<kiki, macFile>>
      BY <1>12, <2>5 DEF WriteStep
    <3>2. pc'[c] = "fillDisp"
      BY <1>4, <3>1, GoEffect DEF Loading, TypeOK
    <3>3. disp = Absent /\ kiki = ident[c].cert /\ ident[c].disp > Empty
          /\ ident[c].cert \in {ident[c].disp, Empty}
      BY <1>3, <2>5 DEF Loads
    <3>4. Loads(c)'
      BY <1>4, <2>1, <3>1, <3>2, <3>3 DEF Loads, Loading
    <3>5. KeyFiles' /\ ~Complete
      BY <3>1, <3>2, <3>3 DEF KeyFiles, Complete
    <3>6. QED
      BY <1>6, <2>1, <2>2, <2>5, <3>1, <3>4, <3>5
  <2>6. CASE pc[c] = "fillDisp"
    <3>1. Go(c, "mac") /\ disp' = ident[c].disp /\ UNCHANGED <<kiki, macFile>>
      BY <1>12, <2>6 DEF WriteStep
    <3>2. pc'[c] = "mac"
      BY <1>4, <3>1, GoEffect DEF Loading, TypeOK
    <3>3. disp = Empty /\ kiki = ident[c].cert /\ ident[c].disp > Empty
          /\ ident[c].cert \in {ident[c].disp, Empty}
      BY <1>3, <2>6 DEF Loads
    <3>4. Loads(c)'
      BY <1>4, <2>1, <3>1, <3>2, <3>3 DEF Loads, Loading
    <3>5. KeyFiles' /\ ~Complete
      BY <3>1, <3>3 DEF KeyFiles, Complete
    <3>6. QED
      BY <1>6, <2>1, <2>2, <2>6, <3>1, <3>4, <3>5
  <2>7. CASE pc[c] = "newMac"
    <3>1. Go(c, "fillMac") /\ macFile' = Empty /\ UNCHANGED <<kiki, disp>>
      BY <1>12, <2>7 DEF WriteStep
    <3>2. pc'[c] = "fillMac"
      BY <1>4, <3>1, GoEffect DEF Loading, TypeOK
    <3>3. macFile = Absent /\ ident[c].cert = kiki /\ ident[c].disp = disp
          /\ kiki = disp /\ kiki > Empty /\ ident[c].mac > Empty
      BY <1>3, <2>7 DEF Loads
    <3>4. Loads(c)'
      BY <1>4, <2>1, <3>1, <3>2, <3>3 DEF Loads, Loading
    <3>5. KeyFiles' /\ MacFileThere' /\ ~Complete
      BY <3>1, <3>2, <3>3 DEF KeyFiles, MacFileThere, Complete
    <3>6. QED
      BY <1>6, <2>1, <2>7, <3>1, <3>4, <3>5
  <2>8. QED
    BY <1>12, <2>3, <2>4, <2>5, <2>6, <2>7 DEF WriteStep
<1>13. CASE LoadMac(c)
  <2> USE DEF Absent, Empty
  <2>1. pc[c] = "mac" /\ ident[c].cert # Empty /\ UNCHANGED <<kiki, disp, macFile>>
    BY <1>13 DEF LoadMac, fileVars
  <2>2. kiki = ident[c].cert /\ disp = ident[c].disp /\ kiki = disp /\ kiki > Empty
    BY <1>3, <2>1 DEF Loads
  <2>3. CASE macFile = Absent
    <3>1. ident' = [ident EXCEPT ![c].mac = Fresh] /\ Go(c, "newMac")
      BY <1>13, <2>3 DEF LoadMac
    <3>2. pc'[c] = "newMac"
      BY <1>4, <3>1, GoEffect DEF Loading, TypeOK
    <3>3. ident'[c].mac = Fresh /\ ident'[c].cert = ident[c].cert
          /\ ident'[c].disp = ident[c].disp
          /\ \A d \in Caller : d # c => ident'[d] = ident[d]
      BY <3>1 DEF Ident
    <3>4. Fresh > Empty
      BY DEF Fresh
    <3>5. Loads(c)'
      BY <1>4, <2>1, <2>2, <2>3, <3>2, <3>3, <3>4 DEF Loads, Loading
    <3>6. QED
      BY <1>5, <2>1, <3>3, <3>5
  <2>4. CASE macFile # Absent
    <3>1. ident' = [ident EXCEPT ![c].mac = macFile] /\ Go(c, WithIdentity(c))
      BY <1>13, <2>4 DEF LoadMac
    <3>2. WithIdentity(c) \in {"elb", "discover"} /\ WithIdentity(c) \in Place
          /\ WithIdentity(c) \notin Loading
      BY Places DEF WithIdentity, Onwards, Loading
    <3>3. pc'[c] = WithIdentity(c)
      BY <3>1, <3>2, GoEffect DEF TypeOK
    <3>4. /\ ident'[c] = [cert |-> ident[c].cert, disp |-> ident[c].disp,
                          mac |-> macFile]
          /\ \A d \in Caller : d # c => ident'[d] = ident[d]
      BY <3>1 DEF Ident
    <3>5. macFile > Empty
      BY <1>3, <1>7, <2>1, <2>4 DEF MacFileThere, Loading
    <3>6. ident'[c] = Files' /\ Complete'
      BY <2>1, <2>2, <3>4, <3>5 DEF Files, Complete
    <3>7. Loads(c)'
      BY <3>2, <3>3, <3>6 DEF Loads, Loading
    <3>8. QED
      BY <1>5, <2>1, <3>4, <3>7
  <2>5. QED
    BY <2>3, <2>4
<1>14. CASE FillMac(c)
  <2> USE DEF Absent, Empty
  <2>1. /\ pc[c] = "fillMac" /\ macFile' = ident[c].mac
        /\ UNCHANGED <<kiki, disp, ident>> /\ Go(c, WithIdentity(c))
    BY <1>14 DEF FillMac
  <2>2. WithIdentity(c) \in {"elb", "discover"} /\ WithIdentity(c) \in Place
        /\ WithIdentity(c) \notin Loading
    BY Places DEF WithIdentity, Onwards, Loading
  <2>3. pc'[c] = WithIdentity(c)
    BY <2>1, <2>2, GoEffect DEF TypeOK
  <2>4. macFile = Empty /\ ident[c].cert = kiki /\ ident[c].disp = disp
        /\ kiki = disp /\ kiki > Empty /\ ident[c].mac > Empty
    BY <1>3, <2>1 DEF Loads
  <2>5. ident'[c] = Files' /\ Complete'
    BY <2>1, <2>4 DEF Files, Complete
  <2>6. Loads(c)'
    BY <2>2, <2>3, <2>5 DEF Loads, Loading
  <2>7. KeyFiles' /\ MacFileThere' /\ ~Complete
    BY <2>1, <2>4 DEF KeyFiles, MacFileThere, Complete
  <2>8. QED
    BY <1>6, <2>1, <2>6, <2>7
<1>15. ~DecodeFails(c) /\ ~WriteFails(c)
  BY DEF DecodeFails, WriteFails
<1>16. QED
  BY <1>8, <1>9, <1>10, <1>11, <1>12, <1>13, <1>14, <1>15 DEF LoadIdentity

LEMMA DiesTidy ==
    ASSUME TypeOK, Tidy, Dies, \A c \in Caller : pc[c] \notin Writing
    PROVE  Tidy'
<1>1. /\ \A c \in Caller : pc'[c] = "idle"
      /\ UNCHANGED <<kiki, disp, macFile, planted>>
  BY DiesEffect
<1>2. AloneLoading' /\ \A c \in Caller : Loads(c)'
  BY <1>1 DEF AloneLoading, Loads, Loading, Onwards, Cgi
<1>3. KeyFiles' /\ MacFileThere'
  BY <1>1 DEF Tidy, KeyFiles, MacFileThere, Writing
<1>4. Planted'
  BY <1>1 DEF Tidy, Planted, Files, Complete
<1>5. QED
  BY <1>2, <1>3, <1>4 DEF Tidy

LEMMA EndsTidy ==
    ASSUME TypeOK, Tidy, NEW r \in Request, NEW how \in Ended, Ends(r, how),
           UNCHANGED <<kiki, disp, macFile>>, pc[r] \notin Writing,
           planted' = planted \/ (pc[r] \in Onwards /\ planted' = ident[r])
    PROVE  Tidy'
<1>1. /\ r \in Caller /\ pc'[r] = how
      /\ \A d \in Caller : d # r => pc'[d] = pc[d] /\ ident'[d] = ident[d]
  BY EndsEffect, MainCaller
<1>2. how \notin Loading \cup Onwards
  BY DEF Ended, Loading, Onwards, Cgi
<1>3. Loads(r)'
  BY <1>1, <1>2 DEF Loads, Loading
<1>4. QED
  BY <1>1, <1>2, <1>3, FilesKept DEF Writing

LEMMA FailsTidy ==
    ASSUME TypeOK, Tidy, NEW c \in Caller, Fails(c), "torn" \notin faults'
    PROVE  Tidy'
<1>1. CASE c = Main
  BY <1>1, DiesTidy DEF Fails, Dies
<1>2. CASE c # Main
  <2>1. /\ c \in Request /\ Ends(c, "failed") /\ "failed" \in Ended
        /\ UNCHANGED <<kiki, disp, macFile, planted>> /\ pc[c] \notin Writing
    BY <1>2 DEF Fails, Caller, Ended, fileVars, envVars
  <2>2. QED
    BY <2>1, EndsTidy
<1>3. QED
  BY <1>1, <1>2

\* A request goes on with the identity it has.
LEMMA OnwardsTidy ==
    ASSUME TypeOK, Tidy, NEW r \in Request, NEW where \in Onwards,
           Go(r, where), pc[r] \in Onwards,
           UNCHANGED <<kiki, disp, macFile, ident>>,
           planted' = planted \/ planted' = ident[r]
    PROVE  Tidy'
<1>1. /\ r \in Caller /\ pc'[r] = where /\ where \notin Loading
      /\ \A d \in Caller : d # r => pc'[d] = pc[d] /\ ident'[d] = ident[d]
  BY GoEffect, MainCaller, Places DEF TypeOK
<1>2. ident[r] = Files /\ Complete
  BY <1>1 DEF Tidy, Loads
<1>3. Loads(r)'
  BY <1>1, <1>2 DEF Loads, Loading, Files, Complete
<1>4. pc[r] \notin {"fillDisp", "fillMac"}
  BY DEF Onwards, Cgi
<1>5. QED
  BY <1>1, <1>3, <1>4, FilesKept

\* Somebody enters load_or_mint_with_disp_id, where nobody is.
LEMMA EntersTidy ==
    ASSUME TypeOK, Tidy, NEW c \in Caller, Enters(c), "overlap" \notin faults',
           pc[c] = "idle", UNCHANGED <<kiki, disp, macFile, ident, planted>>
    PROVE  Tidy'
<1>1. "check" \in Loading /\ "check" \in Place /\ "check" \notin Onwards
  BY DEF Place, Flying, Loading, Onwards, Cgi
<1>2. /\ pc'[c] = "check"
      /\ \A d \in Caller : d # c => pc'[d] = pc[d] /\ pc[d] \notin Loading
  BY <1>1, GoEffect DEF Enters, TypeOK
<1>3. Loads(c)'
  BY <1>1, <1>2 DEF Loads
<1>4. QED
  BY <1>2, <1>3, FilesKept

\* The main task starts when nobody is there.
DownIsIdle == daemon = "down" => \A c \in Caller : pc[c] = "idle"

LEMMA NextDown == TypeOK /\ DownIsIdle /\ [Next]_vars => DownIsIdle'
<1> SUFFICES ASSUME TypeOK, DownIsIdle, [Next]_vars
             PROVE  DownIsIdle'
  OBVIOUS
<1>1. Dies => DownIsIdle'
  BY DiesEffect DEF DownIsIdle
<1>2. ASSUME NEW c \in Caller, pc[c] # "idle", daemon' = daemon
      PROVE  DownIsIdle'
  BY <1>2 DEF DownIsIdle
<1>3. "idle" \notin Flying
  BY DEF Flying, Loading, Onwards, Cgi
<1>4. ASSUME NEW c \in Caller, LoadIdentity(c)
      PROVE  DownIsIdle'
  <2>1. pc[c] # "idle"
    BY <1>4, LoadEffect DEF Loading
  <2>2. Dies \/ daemon' = daemon
    BY <1>4, LoadEffect DEF OnlyFiles
  <2>3. QED
    BY <1>1, <1>2, <2>1, <2>2
<1>5. ASSUME NEW r \in Request, Serve(r) \/ Cancel(r)
      PROVE  DownIsIdle'
  <2>1. CASE LoadIdentity(r)
    BY <1>4, <2>1, MainCaller
  <2>2. CASE ~LoadIdentity(r)
    <3>1. pc[r] # "idle" /\ daemon' = daemon
      BY <1>3, <1>5, <2>2
         DEF Serve, Cancel, Probe, SipDone, Login, Prime, FirstAuth, SecondAuth,
             Persist, NoFiles
    <3>2. QED
      BY <1>2, <3>1, MainCaller
  <2>3. QED
    BY <2>1, <2>2
<1>6. CASE \E r \in Request : Snapshot(r)
  BY <1>6 DEF Snapshot, DownIsIdle
<1>7. CASE Boot \/ StartSip
  BY <1>7 DEF Boot, StartSip, DownIsIdle
<1>8. CASE AskElb
  BY <1>1, <1>2, <1>8, MainCaller DEF AskElb, OnlyFiles, Fails
<1>9. CASE Crash
  BY <1>1, <1>9 DEF Crash
<1>10. CASE AddEntry \/ UNCHANGED vars
  BY <1>10 DEF AddEntry, vars, DownIsIdle
<1>11. QED
  BY <1>4, <1>5, <1>6, <1>7, <1>8, <1>9, <1>10, MainCaller DEF Next, MainTask

LEMMA NextTidy ==
    ASSUME TypeOK, DownIsIdle, Tidy, [Next]_vars,
           faults' \cap {"overlap", "torn"} = {}
    PROVE  Tidy'
<1>1. "overlap" \notin faults' /\ "torn" \notin faults'
  OBVIOUS
<1>2. ASSUME NEW c \in Caller, LoadIdentity(c)
      PROVE  Tidy'
  BY <1>1, <1>2, LoadingTidy, FailsTidy
<1>3. {"discover", "sip", "login", "prime", "first", "second", "save"} \subseteq Onwards
      /\ {"paired", "failed"} \subseteq Ended /\ Onwards \cap Writing = {}
  BY DEF Onwards, Cgi, Ended, Writing
<1>4. ASSUME NEW r \in Request, pc[r] \in Onwards,
             UNCHANGED <<kiki, disp, macFile>>, planted' \in {planted, ident[r]},
             \/ ident' = ident /\ \E where \in Onwards : Go(r, where)
             \/ \E how \in Ended : Ends(r, how)
      PROVE  Tidy'
  <2>1. CASE \E how \in Ended : Ends(r, how)
    BY <1>3, <1>4, <2>1, EndsTidy
  <2>2. CASE ident' = ident /\ \E where \in Onwards : Go(r, where)
    BY <1>4, <2>2, OnwardsTidy
  <2>3. QED
    BY <1>4, <2>1, <2>2
<1>5. ASSUME NEW r \in Request, Serve(r)
      PROVE  Tidy'
  <2> USE DEF NoFiles, fileVars, envVars
  <2>1. CASE LoadIdentity(r)
    BY <1>2, <2>1, MainCaller
  <2>2. CASE Probe(r) \/ SipDone(r) \/ Login(r)
    BY <1>3, <1>4, <2>2 DEF Probe, SipDone, Login
  <2>3. \A answer : Accepted(r, answer) =>
          /\ planted' \in {planted, ident[r]} /\ ident' = ident /\ Go(r, "save")
    BY DEF Accepted, Acknowledges
  <2>4. CASE Prime(r) \/ FirstAuth(r) \/ SecondAuth(r)
    BY <1>3, <1>4, <2>3, <2>4 DEF Prime, FirstAuth, SecondAuth, CgiFails
  <2>5. CASE Persist(r)
    BY <1>3, <1>4, <2>5 DEF Persist
  <2>6. QED
    BY <1>5, <2>1, <2>2, <2>4, <2>5 DEF Serve
<1>6. ASSUME NEW r \in Request, Cancel(r)
      PROVE  Tidy'
  <2>1. /\ Ends(r, "failed") /\ pc[r] \notin Writing
        /\ UNCHANGED <<kiki, disp, macFile, planted>>
    BY <1>6 DEF Cancel, NoFiles, fileVars, envVars
  <2>2. QED
    BY <1>3, <2>1, EndsTidy
<1>7. ASSUME NEW r \in Request, Snapshot(r)
      PROVE  Tidy'
  <2>1. /\ Enters(r) /\ pc[r] = "idle"
        /\ UNCHANGED <<kiki, disp, macFile, ident, planted>>
    BY <1>7 DEF Snapshot, fileVars, envVars
  <2>2. QED
    BY <1>1, <2>1, EntersTidy, MainCaller
<1>8. ASSUME UNCHANGED <<kiki, disp, macFile, ident, planted, pc>>
      PROVE  Tidy'
  BY <1>8
     DEF Tidy, AloneLoading, KeyFiles, MacFileThere, Loads, Planted, Files,
         Complete
<1>9. CASE Boot
  <2>1. pc[Main] = "idle" /\ UNCHANGED <<kiki, disp, macFile, ident, planted>>
        /\ (Enters(Main) \/ pc' = pc)
    BY <1>9, MainCaller DEF Boot, DownIsIdle, fileVars, envVars
  <2>2. QED
    BY <1>1, <1>8, <2>1, EntersTidy, MainCaller
<1>10. CASE AskElb \/ StartSip
  <2>1. CASE Fails(Main)
    BY <1>1, <2>1, FailsTidy, MainCaller
  <2>2. CASE ~Fails(Main)
    <3>1. /\ pc[Main] \in {"elb", "startSip"}
          /\ \E where \in {"startSip", "idle"} : Go(Main, where)
          /\ \A d \in Caller : d # Main => ident'[d] = ident[d]
          /\ UNCHANGED <<kiki, disp, macFile, planted>>
      BY <1>10, <2>2 DEF AskElb, StartSip, OnlyFiles, fileVars, envVars, TypeOK
    <3>2. PICK where \in {"startSip", "idle"} : Go(Main, where)
      BY <3>1
    <3>3. /\ pc'[Main] = where /\ where \notin Loading \cup Onwards
          /\ \A d \in Caller : d # Main => pc'[d] = pc[d]
      <4>1. where \in Place /\ where \notin Loading \cup Onwards
        BY <3>2, Places DEF Loading, Onwards, Cgi
      <4>2. QED
        BY <3>2, <4>1, GoEffect, MainCaller DEF TypeOK
    <3>4. Loads(Main)'
      BY <3>2, <3>3 DEF Loads, Loading
    <3>5. QED
      BY <3>1, <3>3, <3>4, FilesKept, MainCaller
  <2>3. QED
    BY <2>1, <2>2
<1>11. CASE Crash
  BY <1>1, <1>11, DiesTidy DEF Crash, Dies
<1>12. CASE AddEntry \/ UNCHANGED vars
  <2>1. UNCHANGED <<kiki, disp, macFile, ident, planted, pc>>
    BY <1>12 DEF AddEntry, vars, fileVars, envVars
  <2>2. QED
    BY <1>8, <2>1
<1>13. QED
  BY <1>2, <1>5, <1>6, <1>7, <1>9, <1>10, <1>11, <1>12, MainCaller
     DEF Next, MainTask

\* The base is told of a request's identity, and nothing else.
LEMMA PlantedStep ==
    ASSUME TypeOK, [Next]_vars
    PROVE  \/ planted' = planted
           \/ \E r \in Request : pc[r] \in Onwards /\ planted' = ident[r]
<1> USE DEF envVars
<1>1. \A c \in Caller : LoadIdentity(c) => planted' = planted
  BY LoadEffect DEF OnlyFiles, Dies
<1>2. ASSUME NEW r \in Request, Prime(r) \/ FirstAuth(r) \/ SecondAuth(r)
      PROVE  pc[r] \in Onwards /\ planted' \in {planted, ident[r]}
  BY <1>2 DEF Prime, FirstAuth, SecondAuth, Accepted, Acknowledges, CgiFails,
              Onwards, Cgi
<1>3. ASSUME NEW r \in Request,
             Snapshot(r) \/ Cancel(r) \/ Probe(r) \/ SipDone(r) \/ Login(r) \/ Persist(r)
      PROVE  planted' = planted
  BY <1>3 DEF Snapshot, Cancel, Probe, SipDone, Login, Persist
<1>4. Boot \/ AskElb \/ StartSip \/ Crash \/ AddEntry \/ UNCHANGED vars =>
        planted' = planted
  BY DEF Boot, AskElb, StartSip, Crash, AddEntry, OnlyFiles, Fails, Dies, vars
<1>5. QED
  BY <1>1, <1>2, <1>3, <1>4, MainCaller DEF Next, MainTask, Serve

\* An id is passed on from memory to a request, from a request to the
\* configuration; or it comes with the answer that took us.
LEMMA KnownStep ==
    ASSUME TypeOK, [Next]_vars, Known'
    PROVE  \/ Known
           \/ \E r \in Request : pc[r] \in Onwards /\ planted' = ident[r]
<1> USE DEF configVars
<1>0. Request \subseteq Caller /\ idKnown \in [Request -> IdWord]
  BY MainCaller DEF TypeOK
<1> DEFINE Kept == \A r \in Request : idKnown'[r] = "known" => idKnown[r] = "known"
<1>1. Dies => Known
  BY DiesEffect DEF Known, NoBase
<1>2. ASSUME UNCHANGED <<mem, disk>>, Kept
      PROVE  Known
  BY <1>2 DEF Known
<1>3. ASSUME NEW r \in Request, NEW how \in Ended, Ends(r, how)
      PROVE  Kept
  BY <1>3, EndsEffect
<1>4. ASSUME NEW c \in Caller, LoadIdentity(c)
      PROVE  Known
  BY <1>1, <1>2, <1>3, <1>4, LoadEffect DEF OnlyFiles, Ended
<1>5. ASSUME NEW r \in Request,
             \/ Cancel(r) \/ Probe(r) \/ SipDone(r) \/ Login(r) \/ Prime(r)
             \/ (CgiFails(r) /\ NoFiles)
      PROVE  Known
  BY <1>0, <1>2, <1>3, <1>5
     DEF Cancel, Probe, SipDone, Login, Prime, CgiFails, NoFiles, Ended
<1>6. ASSUME NEW r \in Request, FirstAuth(r) \/ SecondAuth(r)
      PROVE  Known \/ (pc[r] \in Onwards /\ planted' = ident[r])
  <2>1. pc[r] \in Onwards /\ NoFiles
    BY <1>6 DEF FirstAuth, SecondAuth, Onwards, Cgi
  <2>2. ASSUME NEW answer \in Answers, Accepted(r, answer)
        PROVE  Known \/ planted' = ident[r]
    <3>1. CASE answer = "known"
      BY <2>2, <3>1 DEF Accepted, Acknowledges
    <3>2. CASE answer # "known"
      <4>1. Kept
        BY <1>0, <2>2, <3>2 DEF Accepted, IdFrom, Answers
      <4>2. QED
        BY <1>2, <2>1, <4>1 DEF NoFiles
    <3>3. QED
      BY <3>1, <3>2
  <2>3. CASE CgiFails(r)
    BY <1>5, <2>1, <2>3
  <2>4. CASE UNCHANGED idKnown
    BY <1>2, <2>1, <2>4 DEF NoFiles
  <2>5. QED
    BY <1>6, <2>1, <2>2, <2>3, <2>4 DEF FirstAuth, SecondAuth, Answers
<1>7. ASSUME NEW r \in Request, Persist(r)
      PROVE  Known
  <2>1. Kept
    BY <1>3, <1>7 DEF Persist, Ended
  <2>2. mem' = Outcome(r) /\ disk' \in {disk, Outcome(r)}
    BY <1>7 DEF Persist, Saves, Remembers
  <2>3. Outcome(r).id => idKnown[r] = "known"
    BY DEF Outcome
  <2>4. (mem'.id => Outcome(r).id) /\ (disk'.id => disk.id \/ Outcome(r).id)
    BY <2>2
  <2>5. QED
    BY <2>1, <2>3, <2>4 DEF Known
<1>8. ASSUME NEW r \in Request, Snapshot(r)
      PROVE  Known
  BY <1>0, <1>8 DEF Snapshot, Known
<1>9. CASE Boot
  BY <1>9 DEF Boot, Known
<1>10. CASE AskElb \/ StartSip \/ AddEntry \/ UNCHANGED vars
  BY <1>1, <1>2, <1>10 DEF AskElb, StartSip, AddEntry, OnlyFiles, Fails, vars
<1>11. CASE Crash
  BY <1>1, <1>11 DEF Crash
<1>12. ASSUME NEW r \in Request, Serve(r)
       PROVE  Known \/ (pc[r] \in Onwards /\ planted' = ident[r])
  BY <1>0, <1>4, <1>5, <1>6, <1>7, <1>12 DEF Serve
<1>13. (\E r \in Request : Snapshot(r) \/ Cancel(r)) => Known
  BY <1>5, <1>8
<1>14. QED
  BY <1>4, <1>9, <1>10, <1>11, <1>12, <1>13, MainCaller DEF Next, MainTask

LEMMA NextKept ==
    ASSUME TypeOK, Tidy, Saved, Tidy', [Next]_vars
    PROVE  Saved'
<1>1. \A r \in Request : pc[r] \in Onwards => ident[r] = Files /\ Complete
  BY MainCaller DEF Tidy, Loads
<1>2. Complete => Files # NoIdent
  BY DEF Files, Complete, NoIdent, Absent, Empty
<1>3. Known' => planted' = Files /\ Complete
  BY <1>1, KnownStep, PlantedStep DEF Saved
<1>4. Known' => planted' = Files' /\ Complete'
  BY <1>2, <1>3 DEF Tidy, Planted, NoIdent
<1>5. Known' => macFile' = macFile
  BY <1>3, <1>4 DEF Files
<1>6. ASSUME disk'.id
      PROVE  disk'.mac = macFile'
  <2>1. macFile' = macFile
    BY <1>5, <1>6 DEF Known
  <2>2. CASE disk' = disk
    BY <1>6, <2>1, <2>2 DEF Saved
  <2>3. ASSUME NEW r \in Request, Persist(r), disk' = Outcome(r)
        PROVE  disk'.mac = macFile'
    BY <1>1, <2>1, <2>3 DEF Persist, Outcome, Files, Onwards
  <2>4. QED
    BY <2>2, <2>3, BaseStep
<1>7. QED
  BY <1>4, <1>6 DEF Saved

LEMMA NextFiles == TypeOK /\ DownIsIdle /\ FilesInv /\ [Next]_vars => FilesInv'
BY FaultsGrow, NextTidy, NextKept DEF FilesInv

LEMMA FilesInvariant == Spec => [](TypeOK /\ FilesInv)
<1>1. Init => DownIsIdle /\ FilesInv
  <2> SUFFICES ASSUME Init
               PROVE  DownIsIdle /\ FilesInv
    OBVIOUS
  <2>1. \A c \in Caller : pc[c] = "idle"
    BY DEF Init
  <2>2. AloneLoading /\ KeyFiles /\ MacFileThere /\ \A c \in Caller : Loads(c)
    BY <2>1 DEF Init, AloneLoading, KeyFiles, MacFileThere, Loads, Loading,
                Onwards, Cgi
  <2>3. Planted /\ Saved
    BY DEF Init, Planted, Saved, Known, NoBase
  <2>4. QED
    BY <2>1, <2>2, <2>3 DEF DownIsIdle, FilesInv, Tidy
<1>2. QED
  BY <1>1, InitType, NextType, NextDown, NextFiles, PTL DEF Spec

\* Without a torn write and without two tasks in the identity code, a request
\* shows the base both halves of one minted identity and a MAC.
THEOREM PresentsOneIdentityHolds == Spec => []PresentsOneIdentity
<1>1. FilesInv => PresentsOneIdentity
  <2> SUFFICES ASSUME Tidy, NEW r \in Request, pc[r] \in Onwards
               PROVE  /\ ident[r].cert = ident[r].disp
                      /\ ident[r].cert > Empty /\ ident[r].mac > Empty
    BY DEF FilesInv, PresentsOneIdentity
  <2>1. ident[r] = Files /\ Complete
    BY MainCaller DEF Tidy, Loads
  <2>2. QED
    BY <2>1 DEF Files, Complete
<1>2. QED
  BY <1>1, FilesInvariant, PTL

\* Once config.toml has an id that the base returned, the files hold the
\* identity and the MAC that this base was told, wherever the process is
\* killed.
THEOREM PairingIsDurableHolds == Spec => []PairingIsDurable
<1>1. FilesInv => PairingIsDurable
  BY DEF FilesInv, PairingIsDurable, Saved, Known, Files
<1>2. QED
  BY <1>1, FilesInvariant, PTL
=============================================================================
