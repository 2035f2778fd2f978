------------------------------ MODULE Pairing ------------------------------
(***************************************************************************)
(* Pairing and what survives of it: POST /pair (http.rs), the identity     *)
(* files it loads or mints (identity.rs), pair::run against the base       *)
(* (pair.rs, discover.rs, local_cgi.rs), the saved configuration           *)
(* (config.rs), the start of the daemon from it (main.rs), and the Home    *)
(* Assistant entry that is made from the outcome (config_flow.py).         *)
(*                                                                         *)
(* Requests run concurrently with each other and with the start of a       *)
(* paired daemon.  Every await is a step of its own.  The process may be   *)
(* killed at any moment, a client may give up at any await.                *)
(***************************************************************************)
EXTENDS Naturals

CONSTANTS
    Request,    \* the POST /pair requests of one run of the process
    Main,       \* the main task
    MaxCrashes  \* bound: kills of the process

ASSUME PairingAssumption ==
    /\ Main \notin Request
    /\ MaxCrashes \in Nat

VARIABLES
    daemon,     \* the main task: down, parked (unpaired), starting, serving
    mem,        \* [base] of the configuration in memory
    disk,       \* [base] of config.toml
    kiki,       \* kiki.dat
    disp,       \* its disp_id sidecar
    macFile,    \* its synthetic_mac sidecar
    pc,         \* where each request, and the main task, is
    crossed,    \* requests that another one's outcome has overtaken
    idKnown,    \* the base id a request has, from its snapshot or CGI 108
    ident,      \* the identity a task has loaded or made so far
    made,       \* identities and MACs made so far
    planted,    \* the identity in the base's baseinfo row
    ackers,     \* requests whose ack_notifies_forever runs
    loops,      \* tasks whose maintain_registration runs
    entry,      \* Home Assistant has an entry for this daemon
    crashes,    \* kills left
    faults      \* what went wrong so far

configVars  == <<mem, disk, crossed>>
fileVars    == <<kiki, disp, macFile>>
sipVars     == <<ackers, loops>>
envVars     == <<planted, entry, crashes>>
vars == <<daemon, configVars, fileVars, pc, idKnown, ident, made, sipVars,
          envVars, faults>>

-----------------------------------------------------------------------------
Caller == Request \cup {Main}

\* Contents of a file, or of a field: Absent; Empty, which is truncated
\* but not yet written or does not decode; or something that was made once.
Absent == 0
Empty  == 1
Fresh  == made + 2

NoIdent == [cert |-> Absent, disp |-> Absent, mac |-> Absent]
Ident   == [cert : Nat, disp : Nat, mac : Nat]

\* What [base] tells apart: whether the base's id is known, and our MAC.
NoBase == [id |-> FALSE, mac |-> Absent]
Base   == [id : BOOLEAN, mac : Nat]

\* A request may also have been given an empty id.
IdWord == {"none", "known", "empty"}
IsPaired(base) == base # NoBase

\* Inside load_or_mint_with_disp_id, and there between truncation and write.
Loading == {"check", "readKiki", "readDisp", "mint", "newKiki", "fillKiki",
            "newDisp", "fillDisp", "mac", "newMac", "fillMac"}
Writing == {"fillKiki", "fillDisp", "fillMac"}
\* Inside pair::run: CGI 107, then 108 three times, with the acker beside.
Cgi     == {"login", "prime", "first", "second"}
Onwards == {"discover", "sip", "save"} \cup Cgi
Flying  == Loading \cup Onwards
\* "failed" is any error status, and also that nobody waits for the reply.
Ended   == {"paired", "failed"}
Place   == {"idle", "elb", "startSip"} \cup Flying \cup Ended

Init ==
    /\ daemon = "parked" /\ mem = NoBase /\ disk = NoBase /\ crossed = {}
    /\ kiki = Absent /\ disp = Absent /\ macFile = Absent
    /\ pc = [c \in Caller |-> "idle"]
    /\ idKnown = [r \in Request |-> "none"]
    /\ ident = [c \in Caller |-> NoIdent]
    /\ made = 0 /\ planted = NoIdent
    /\ ackers = {} /\ loops = {} /\ entry = FALSE
    /\ crashes = MaxCrashes /\ faults = {}

Go(c, where) == pc' = [pc EXCEPT ![c] = where]

\* The process ends with everything in memory; a half-written file stays.
Dies ==
    /\ daemon' = "down"
    /\ mem' = NoBase /\ crossed' = {}
    /\ pc' = [c \in Caller |-> "idle"]
    /\ idKnown' = [r \in Request |-> "none"]
    /\ ident' = [c \in Caller |-> NoIdent]
    /\ ackers' = {} /\ loops' = {}
    /\ faults' = IF \E c \in Caller : pc[c] \in Writing
                   THEN faults \cup {"torn"} ELSE faults
    /\ UNCHANGED <<disk, fileVars, made, planted, entry>>

\* A request that is over holds nothing any more.
Ends(r, how) ==
    /\ Go(r, how)
    /\ ident' = [ident EXCEPT ![r] = NoIdent]
    /\ idKnown' = [idKnown EXCEPT ![r] = "none"]

\* An error ends a request; in the main task it ends the process.
Fails(c) ==
    \/ c = Main /\ Dies /\ UNCHANGED crashes
    \/ /\ c # Main
       /\ Ends(c, "failed")
       /\ faults' = IF pc[c] \in Writing THEN faults \cup {"torn"} ELSE faults
       /\ UNCHANGED <<daemon, configVars, fileVars, made, sipVars, envVars>>

-----------------------------------------------------------------------------
(* load_or_mint_with_disp_id, for a request or for the main task.  Nothing *)
(* keeps two of them out of it at once.                                    *)

Enters(c) ==
    /\ Go(c, "check")
    /\ faults' = IF \E d \in Caller \ {c} : pc[d] \in Loading
                   THEN faults \cup {"overlap"} ELSE faults

\* Neither the configuration nor the base is concerned.
OnlyFiles == UNCHANGED <<daemon, configVars, idKnown, sipVars, envVars,
                         faults>>

\* Faulty variant: an identity is minted each time.
MintAlways(c) ==
    /\ pc[c] = "check"
    /\ Go(c, "mint")
    /\ OnlyFiles /\ UNCHANGED <<fileVars, ident, made>>

\* Faulty variant: the sidecar's presence is not checked.
CheckKikiOnly(c) ==
    /\ pc[c] = "check"
    /\ Go(c, IF kiki = Absent THEN "mint" ELSE "readKiki")
    /\ OnlyFiles /\ UNCHANGED <<fileVars, ident, made>>

\* Both files are loaded, or both are minted.  (Files never disappear, so
\* that the two existence checks can be one step.)
CheckFiles(c) ==
    /\ pc[c] = "check"
    /\ Go(c, IF Absent \in {kiki, disp} THEN "mint" ELSE "readKiki")
    /\ OnlyFiles /\ UNCHANGED <<fileVars, ident, made>>

\* A truncated kiki.dat does not decode, nor does a bad one ...
ReadKiki(c) ==
    /\ pc[c] = "readKiki"
    /\ \/ kiki = Empty /\ Fails(c)
       \/ /\ kiki # Empty
          /\ Go(c, "readDisp")
          /\ ident' = [ident EXCEPT ![c].cert = kiki]
          /\ OnlyFiles /\ UNCHANGED <<fileVars, made>>

\* ... but a truncated disp_id is taken for an id.
ReadDisp(c) ==
    /\ pc[c] = "readDisp"
    /\ Go(c, "mac")
    /\ ident' = [ident EXCEPT ![c].disp = disp]
    /\ OnlyFiles /\ UNCHANGED <<fileVars, made>>

\* What the vendor returns is written before it is decoded, so that a key
\* that does not decode is kept, and read again the next time.
Mint(c) ==
    /\ pc[c] = "mint"
    /\ \/ /\ Go(c, "newKiki")
          /\ made' = made + 1
          /\ \E cert \in {Fresh, Empty} :
               ident' = [ident EXCEPT ![c].cert = cert, ![c].disp = Fresh]
          /\ OnlyFiles /\ UNCHANGED fileVars
       \/ Fails(c)

DecodeFails(c) ==
    /\ pc[c] = "mac" /\ ident[c].cert = Empty
    /\ Fails(c)

\* Disk full, no permission: the file stays as it is, perhaps truncated.
WriteFails(c) ==
    /\ pc[c] \in {"newKiki", "newDisp", "newMac"} \cup Writing
    /\ Fails(c)

\* The writes, in their order; each truncates the file and then fills it.
WriteStep(c) ==
    /\ \/ /\ pc[c] = "newKiki" /\ Go(c, "fillKiki")
          /\ kiki' = Empty /\ UNCHANGED <<disp, macFile>>
       \/ /\ pc[c] = "fillKiki" /\ Go(c, "newDisp")
          /\ kiki' = ident[c].cert /\ UNCHANGED <<disp, macFile>>
       \/ /\ pc[c] = "newDisp" /\ Go(c, "fillDisp")
          /\ disp' = Empty /\ UNCHANGED <<kiki, macFile>>
       \/ /\ pc[c] = "fillDisp" /\ Go(c, "mac")
          /\ disp' = ident[c].disp /\ UNCHANGED <<kiki, macFile>>
       \/ /\ pc[c] = "newMac" /\ Go(c, "fillMac")
          /\ macFile' = Empty /\ UNCHANGED <<kiki, disp>>
    /\ OnlyFiles /\ UNCHANGED <<ident, made>>

\* Faulty variant: the main task would pair anew.
WithIdentityPairs(c) == "discover"

\* With its identity a request looks for the base, the main task asks the
\* vendor where to connect.
WithIdentity(c) == IF c = Main THEN "elb" ELSE "discover"

\* A MAC is rolled if there is no file; a truncated one is taken for a MAC.
LoadMac(c) ==
    /\ pc[c] = "mac" /\ ident[c].cert # Empty
    /\ \/ /\ macFile = Absent
          /\ made' = made + 1
          /\ ident' = [ident EXCEPT ![c].mac = Fresh]
          /\ Go(c, "newMac")
       \/ /\ macFile # Absent
          /\ ident' = [ident EXCEPT ![c].mac = macFile]
          /\ Go(c, WithIdentity(c))
          /\ UNCHANGED made
    /\ OnlyFiles /\ UNCHANGED fileVars

FillMac(c) ==
    /\ pc[c] = "fillMac"
    /\ macFile' = ident[c].mac
    /\ Go(c, WithIdentity(c))
    /\ OnlyFiles /\ UNCHANGED <<kiki, disp, ident, made>>

LoadIdentity(c) ==
    \/ CheckFiles(c) \/ ReadKiki(c) \/ ReadDisp(c) \/ Mint(c)
    \/ DecodeFails(c) \/ WriteStep(c) \/ WriteFails(c)
    \/ LoadMac(c) \/ FillMac(c)

-----------------------------------------------------------------------------
(* POST /pair.                                                             *)

\* Faulty variant: the stored id of the base is not passed on.
SnapshotForgets(r) ==
    /\ daemon # "down" /\ pc[r] = "idle"
    /\ Enters(r)
    /\ UNCHANGED <<daemon, configVars, fileVars, idKnown, ident, made, sipVars,
                   envVars>>

\* The configuration is read under its lock, once, before anything else.
Snapshot(r) ==
    /\ daemon # "down" /\ pc[r] = "idle"
    /\ Enters(r)
    /\ idKnown' = [idKnown EXCEPT ![r] = IF mem.id THEN "known" ELSE "none"]
    /\ UNCHANGED <<daemon, configVars, fileVars, ident, made, sipVars, envVars>>

NoFiles == UNCHANGED <<daemon, configVars, fileVars, made>>

\* wait_for_accepting: a probe finds a base that accepts; or the window ends
\* before one does, or a socket fails.  Any other probe changes nothing.
Probe(r) ==
    /\ pc[r] = "discover"
    /\ \/ Go(r, "sip") /\ UNCHANGED <<idKnown, ident>>
       \/ Ends(r, "failed")
    /\ NoFiles /\ UNCHANGED <<sipVars, envVars, faults>>

\* MESSAGE and register(), then the acker is spawned.  If the HTTPS client
\* cannot be built after that, the acker is left behind.
SipDone(r) ==
    /\ pc[r] = "sip"
    /\ \/ /\ Go(r, "login")
          /\ ackers' = ackers \cup {r}
          /\ UNCHANGED <<idKnown, ident>>
       \/ Ends(r, "failed") /\ ackers' \in {ackers, ackers \cup {r}}
    /\ NoFiles /\ UNCHANGED <<loops, envVars, faults>>

\* CGI 107.  Also an answer that cannot be parsed is a success.
Login(r) ==
    /\ pc[r] = "login"
    /\ \/ Go(r, "prime") /\ UNCHANGED <<idKnown, ident, ackers>>
       \/ Ends(r, "failed") /\ ackers' = ackers \ {r}
    /\ NoFiles /\ UNCHANGED <<loops, envVars, faults>>

\* An error on the way to the base or back: it may have planted us or not.
CgiFails(r) ==
    /\ Ends(r, "failed")
    /\ ackers' = ackers \ {r}
    /\ planted' \in {planted, ident[r]}

\* The first 108, without auth fields: its answer is not looked at.
Prime(r) ==
    /\ pc[r] = "prime"
    /\ \/ /\ Go(r, "first")
          /\ planted' \in {planted, ident[r]}
          /\ UNCHANGED <<idKnown, ident, ackers>>
       \/ CgiFails(r)
    /\ NoFiles /\ UNCHANGED <<loops, entry, crashes, faults>>

\* What result 0 may come with: the base's id, an empty vianaID, or none.
Answers == {"known", "empty", "absent"}

\* The id that r is left with.  A vianaID that is present but empty is kept
\* for one; without any, the snapshot's stands.
IdFrom(r, answer) ==
    [idKnown EXCEPT ![r] = IF answer = "absent" THEN @ ELSE answer]

\* A base that returns its id has taken us.  Without one it may have or not,
\* and pair::run goes on all the same.
Acknowledges(r, answer) ==
    planted' \in IF answer = "known" THEN {ident[r]} ELSE {planted, ident[r]}

\* Faulty variant: the acker is left to run beside maintain_registration.
AcceptedKeepsAcker(r, answer) ==
    /\ Go(r, "save")
    /\ idKnown' = IdFrom(r, answer)
    /\ Acknowledges(r, answer)
    /\ UNCHANGED <<ident, ackers>>

Accepted(r, answer) ==
    /\ Go(r, "save")
    /\ ackers' = ackers \ {r}
    /\ idKnown' = IdFrom(r, answer)
    /\ Acknowledges(r, answer)
    /\ UNCHANGED ident

\* The second 108: an answer with a vianaID is taken at once.
FirstAuth(r) ==
    /\ pc[r] = "first"
    /\ \/ \E answer \in {"known", "empty"} : Accepted(r, answer)
       \/ /\ Go(r, "second")
          /\ planted' \in {planted, ident[r]}
          /\ UNCHANGED <<idKnown, ident, ackers>>
       \/ CgiFails(r)
    /\ NoFiles /\ UNCHANGED <<loops, entry, crashes, faults>>

\* The third: accepted with or without an id, or refused.  What cannot be
\* parsed counts as result 0 without one.
SecondAuth(r) ==
    /\ pc[r] = "second"
    /\ \/ \E answer \in Answers : Accepted(r, answer)
       \/ CgiFails(r)
    /\ NoFiles /\ UNCHANGED <<loops, entry, crashes, faults>>

\* The file is written aside and renamed: all of it is new, or nothing.
Saves(base) == disk' = base

\* The outcome of r.  An empty id is stored as none is.
Outcome(r) == [id |-> idKnown[r] = "known", mac |-> ident[r].mac]

\* In memory it replaces what every other request in flight took for [base].
Remembers(r) ==
    /\ mem' = Outcome(r)
    /\ crossed' = crossed \cup {q \in Request \ {r} : pc[q] \in Flying}

\* Faulty variant: the error of save is ignored.
PersistAnyway(r) ==
    /\ pc[r] = "save"
    /\ Remembers(r)
    /\ Ends(r, "paired")
    /\ loops' = loops \cup {r}
    /\ disk' \in {Outcome(r), disk}
    /\ UNCHANGED <<daemon, fileVars, made, ackers, envVars, faults>>

\* [base] is set in memory, then saved.  Only after that the maintenance
\* loop is spawned, on r's socket.
Persist(r) ==
    /\ pc[r] = "save"
    /\ Remembers(r)
    /\ \/ /\ Saves(Outcome(r))
          /\ Ends(r, "paired")
          /\ loops' = loops \cup {r}
          /\ UNCHANGED faults
       \/ /\ Ends(r, "failed")
          /\ faults' = faults \cup {"save"}
          /\ UNCHANGED <<disk, loops>>
    /\ UNCHANGED <<daemon, fileVars, made, ackers, envVars>>

\* The client gives up (Home Assistant after the window and 30 s): the
\* handler is dropped at its await.  A spawned acker is not, nor is a write
\* that has begun.
Cancel(r) ==
    /\ pc[r] \in Flying \ Writing
    /\ Ends(r, "failed")
    /\ NoFiles /\ UNCHANGED <<sipVars, envVars, faults>>

Serve(r) ==
    \/ LoadIdentity(r) \/ Probe(r) \/ SipDone(r) \/ Login(r) \/ Prime(r)
    \/ FirstAuth(r) \/ SecondAuth(r) \/ Persist(r)

-----------------------------------------------------------------------------
(* The process: start, kill, restart by systemd.  (That a socket error may *)
(* end a loop or an acker is left out: it only makes those sets smaller.)  *)

\* Unpaired, the main task waits on the HTTP server for good; paired, it
\* loads the identity while requests are already served.
Boot ==
    /\ daemon = "down"
    /\ mem' = disk
    /\ IF IsPaired(disk)
         THEN daemon' = "starting" /\ Enters(Main)
         ELSE daemon' = "parked" /\ UNCHANGED <<pc, faults>>
    /\ UNCHANGED <<disk, crossed, fileVars, idKnown, ident, made, sipVars,
                   envVars>>

AskElb ==
    /\ pc[Main] = "elb"
    /\ \/ /\ Go(Main, "startSip")
          /\ OnlyFiles /\ UNCHANGED <<fileVars, ident, made>>
       \/ Fails(Main)

\* spawn_startup_sip_maintenance; without success the daemon goes on.
StartSip ==
    /\ pc[Main] = "startSip"
    /\ daemon' = "serving"
    /\ Go(Main, "idle")
    /\ ident' = [ident EXCEPT ![Main] = NoIdent]
    /\ loops' \in {loops, loops \cup {Main}}
    /\ UNCHANGED <<configVars, fileVars, idKnown, made, ackers, envVars,
                   faults>>

Crash ==
    /\ daemon # "down" /\ crashes > 0
    /\ crashes' = crashes - 1
    /\ Dies

\* Home Assistant makes its entry from a request that paired or, later, from
\* what /state says.
AddEntry ==
    /\ daemon # "down" /\ IsPaired(mem) /\ ~entry
    /\ entry' = TRUE
    /\ UNCHANGED <<daemon, configVars, fileVars, pc, idKnown, ident, made,
                   sipVars, planted, crashes, faults>>

MainTask == LoadIdentity(Main) \/ AskElb \/ StartSip

Next ==
    \/ \E r \in Request : Snapshot(r) \/ Serve(r) \/ Cancel(r)
    \/ Boot \/ MainTask \/ Crash \/ AddEntry

Spec == Init /\ [][Next]_vars

-----------------------------------------------------------------------------
\* Every variable keeps to its values, and the main task never pairs.
TypeOK ==
    /\ daemon \in {"down", "parked", "starting", "serving"}
    /\ {mem, disk} \subseteq Base
    /\ {kiki, disp, macFile} \subseteq Nat
    /\ pc \in [Caller -> Place] /\ pc[Main] \notin Onwards \cup Ended
    /\ crossed \subseteq Request
    /\ idKnown \in [Request -> IdWord]
    /\ ident \in [Caller -> Ident]
    /\ made \in Nat /\ planted \in Ident
    /\ ackers \subseteq Request /\ loops \subseteq Caller
    /\ entry \in BOOLEAN /\ crashes \in 0..MaxCrashes
    /\ faults \subseteq {"overlap", "torn", "save"}

\* What a request shows the base is one minted identity, both halves of it,
\* and a MAC, unless two callers were in the identity code at once or a
\* write was cut short, by an error or because the process was killed.
PresentsOneIdentity ==
    faults \cap {"overlap", "torn"} = {} =>
        \A r \in Request :
            pc[r] \in Onwards =>
                /\ ident[r].cert = ident[r].disp
                /\ ident[r].cert > Empty /\ ident[r].mac > Empty

\* A pairing outlives the process: once config.toml has an id that the base
\* itself returned, the files hold the identity which that base knows, and
\* its MAC - whatever requests fail, give up, pair again or are acknowledged
\* with an empty answer, and wherever the process is killed -, short of the
\* faults above.  A [base] without an id promises nothing of the kind.
PairingIsDurable ==
    disk.id /\ faults \cap {"overlap", "torn"} = {} =>
        /\ planted = [cert |-> kiki, disp |-> disp, mac |-> macFile]
        /\ disk.mac = macFile

\* One task reads a request's SIP socket: the request itself, its acker or
\* its maintenance loop.
OneReaderPerSocket ==
    /\ ackers \cap loops = {}
    /\ \A r \in ackers : pc[r] \in Cgi \cup {"failed"}

\* Whom the daemon keeps registered is in config.toml, and an entry of Home
\* Assistant stands for a base that is: not so if a save failed.
RegisteredIsSaved ==
    /\ loops # {} => IsPaired(disk)
    /\ entry /\ "save" \notin faults => IsPaired(disk)

\* Pairing again, also in one process and after failures, never loses the
\* base's id, although the base does not always return it: that takes a
\* request that was overtaken between its snapshot and its outcome, or an
\* answer in which the id is there and empty.
KeepsBaseId ==
    [][mem.id /\ ~mem'.id /\ daemon' # "down" =>
         \E r \in Request : /\ pc[r] = "save" /\ pc'[r] \in Ended
                            /\ r \in crossed \/ idKnown[r] = "empty"]_vars
=============================================================================
