-------------------------- MODULE SelfUpdateProofs --------------------------
(* Proofs about SelfUpdate, for every set of artifacts and directives, with *)
(* or without a pinned key, and any number of overlapping calls.            *)
EXTENDS OtaLoop, TLAPS

LEMMA BlessedAreArtifacts == Blessed \subseteq Artifacts
BY SignedAssumption DEF Blessed, ReleaseManifest

(* What passes the gate is what the directive names, and may be installed. *)
LEMMA GateBlesses ==
    ASSUME NEW d \in UpdateDirective, NEW bytes \in Content, Verified(d, bytes)
    PROVE  bytes = d.sha256 /\ bytes \in Blessed
<1>1. bytes = d.sha256 /\ bytes \in Artifacts
  BY TornAssumption, NoneAssumption DEF Verified, UpdateDirective, Content
<1>2. CASE KeyPinned
  BY <1>1, <1>2 DEF Verified, VerifyReleaseSignature, Blessed
<1>3. CASE ~ KeyPinned
  BY <1>1, <1>3 DEF Blessed
<1> QED
  BY <1>1, <1>2, <1>3

LEMMA InitUpdateInv == Init => UpdateInv
<1> SUFFICES ASSUME Init PROVE UpdateInv
  OBVIOUS
<1>1. TypeOK
  BY OriginalAssumption DEF Init, TypeOK, Content
<1>2. \A p \in Callers : call[p] = Idle /\ call[p].at = "idle"
  BY DEF Init, Idle
<1>3. \A p \in Callers : CallOK(p)
  BY <1>2 DEF CallOK, PastTheGate
<1>4. BakInv
  BY <1>2 DEF BakInv, Rollback
<1> QED
  BY <1>1, <1>3, <1>4, OriginalAssumption, DownAssumption
     DEF Init, UpdateInv, BinIsWhole

(* A call under way.                                                       *)
LEMMA UnderWay ==
    ASSUME UpdateInv, NEW p \in Callers, call[p].at # "idle"
    PROVE  /\ call[p] \in Call /\ call[p] # Idle /\ image # Down
           /\ call[p].d \in Directives /\ call[p].d \in UpdateDirective
           /\ call[p].tmp \in Content /\ call[p].src \in Content \cup {None}
<1>1. call[p] \in {Idle} \cup Call /\ call[p] # Idle
  BY DEF UpdateInv, TypeOK, Idle
<1> QED
  BY <1>1, DirectivesAssumption DEF Call, UpdateInv, CallOK

(* A step of one call leaves what is known of the others.                  *)
LEMMA OneCall ==
    ASSUME UpdateInv, NEW p \in Callers, NEW c \in {Idle} \cup Call,
           call' = [call EXCEPT ![p] = c], image' = image, CallOK(p)'
    PROVE  /\ call' \in [Callers -> {Idle} \cup Call]
           /\ \A q \in Callers : CallOK(q)'
<1>1. call \in [Callers -> {Idle} \cup Call]
  BY DEF UpdateInv, TypeOK
<1>2. ASSUME NEW q \in Callers, q # p
      PROVE  CallOK(q)'
  <2>1. call'[q] = call[q]
    BY <1>1, <1>2
  <2> QED
    BY <1>2, <2>1 DEF UpdateInv, CallOK
<1> QED
  BY <1>1, <1>2

(* So does a step that only moves one call on.                             *)
LEMMA Moves ==
    ASSUME UpdateInv, NEW p \in Callers, NEW from, NEW to, Steps(p, from, to),
           from # "idle", to \in {"verify", "backup", "copy", "swap", "exit"},
           to \in PastTheGate => /\ call[p].tmp = call[p].d.sha256
                                 /\ call[p].tmp \in Blessed,
           to # "copy", image' = image
    PROVE  /\ call' \in [Callers -> {Idle} \cup Call]
           /\ \A q \in Callers : CallOK(q)'
<1> DEFINE c == [call[p] EXCEPT !.at = to]
<1>1. call[p] \in Call /\ image # Down
  BY UnderWay DEF Steps
<1>2. c \in Call /\ c.at = to /\ c.tmp = call[p].tmp /\ c.d = call[p].d
  BY <1>1 DEF Call
<1>3. call' = [call EXCEPT ![p] = c] /\ call'[p] = c
  BY DEF Steps, UpdateInv, TypeOK
<1>4. CallOK(p)'
  BY <1>1, <1>2, <1>3 DEF CallOK
<1> HIDE DEF c
<1> QED
  BY <1>2, <1>3, <1>4, OneCall

(* An error or a clean return.                                             *)
LEMMA Returns ==
    ASSUME UpdateInv, NEW p \in Callers, call' = [call EXCEPT ![p] = Idle],
           image' = image
    PROVE  /\ call' \in [Callers -> {Idle} \cup Call]
           /\ \A q \in Callers : CallOK(q)'
<1>1. call'[p] = Idle /\ call'[p].at = "idle"
  BY DEF UpdateInv, TypeOK, Idle
<1>2. CallOK(p)'
  BY <1>1 DEF CallOK, PastTheGate
<1> QED
  BY <1>2, OneCall

LEMMA EndsInv ==
    ASSUME UpdateInv, Ends("failure")
    PROVE  UpdateInv'
<1>1. \A q \in Callers : call'[q] = Idle /\ call'[q].at = "idle"
  BY DEF Ends, Idle
<1>2. \A q \in Callers : CallOK(q)'
  BY <1>1 DEF CallOK, PastTheGate
<1>3. BakInv'
  BY <1>1 DEF BakInv, Rollback
<1> QED
  BY <1>1, <1>2, <1>3 DEF Ends, UpdateInv, TypeOK, BinIsWhole

(* No call has replaced the binary and is about to exit.                   *)
Unreplaced == \A q \in Callers : call[q].at # "exit"

(* A step of a call that copies nothing and replaces nothing leaves what   *)
(* is known of the rollback copy.                                          *)
LEMMA BakKept ==
    ASSUME UpdateInv, NEW p \in Callers, NEW c,
           call' = [call EXCEPT ![p] = c], UNCHANGED <<bin, bak, mix>>,
           c.at \in {"idle", "download", "verify", "backup"},
           call[p].at \notin {"copy", "exit"}
    PROVE  BakInv'
<1>1. /\ call'[p] = c
      /\ \A q \in Callers \ {p} : call'[q] = call[q]
  BY DEF UpdateInv, TypeOK
<1> SUFFICES ASSUME Unreplaced', NEW q \in Callers
             PROVE  /\ call'[q].at \in {"copy", "swap"} /\ call'[q].src # None =>
                         call'[q].src = bin' /\ mix' \ {Torn} = {bin'}
                    /\ call'[q].at = "copy" => call'[q].src # None
                    /\ Rollback(q)' => bak' = bin'
  BY DEF BakInv, Unreplaced
<1>2. \A r \in Callers : call[r].at # "exit"
  BY <1>1 DEF Unreplaced
<1>3. /\ call[q].at \in {"copy", "swap"} /\ call[q].src # None =>
           call[q].src = bin /\ mix \ {Torn} = {bin}
      /\ call[q].at = "copy" => call[q].src # None
      /\ Rollback(q) => bak = bin
  BY <1>2 DEF UpdateInv, BakInv
<1>4. CASE q = p
  BY <1>1, <1>4 DEF Rollback
<1>5. CASE q # p
  <2>1. call'[q] = call[q]
    BY <1>1, <1>5
  <2>2. ASSUME Rollback(q)'
        PROVE  Rollback(q)
    BY <1>1, <1>2, <2>1, <2>2 DEF Rollback
  <2> QED
    BY <1>3, <2>1, <2>2
<1> QED
  BY <1>4, <1>5

(* A copy that begins is of the binary in place, as are those under way.   *)
LEMMA BakBegins ==
    ASSUME UpdateInv, NEW p \in Callers, Backup(p)
    PROVE  BakInv'
<1> DEFINE c == [[call[p] EXCEPT !.at = "copy"] EXCEPT !.src = bin]
<1>1. call[p] \in Call /\ call[p].at = "backup"
  BY UnderWay DEF Backup, CopyOf
<1>2. c.at = "copy" /\ c.src = bin
  BY <1>1 DEF Call
<1>3. call' = [call EXCEPT ![p] = c]
  BY DEF Backup, CopyOf
<1> HIDE DEF c
<1>4. /\ call'[p] = c
      /\ \A q \in Callers \ {p} : call'[q] = call[q]
  BY <1>3 DEF UpdateInv, TypeOK
<1>5. bin' = bin /\ bin \in Artifacts /\ bin # None /\ bin # Torn
  BY BlessedAreArtifacts, OriginalAssumption, NoneAssumption, TornAssumption
     DEF Backup, CopyOf, UpdateInv, BinIsWhole
<1> SUFFICES ASSUME Unreplaced', NEW q \in Callers
             PROVE  /\ call'[q].at \in {"copy", "swap"} /\ call'[q].src # None =>
                         call'[q].src = bin' /\ mix' \ {Torn} = {bin'}
                    /\ call'[q].at = "copy" => call'[q].src # None
  BY <1>2, <1>4 DEF BakInv, Unreplaced, Rollback
<1>6. \A r \in Callers : call[r].at # "exit"
  BY <1>1, <1>4 DEF Unreplaced
<1>7. \A r \in Callers :
        /\ call[r].at \in {"copy", "swap"} /\ call[r].src # None =>
             call[r].src = bin /\ mix \ {Torn} = {bin}
        /\ call[r].at = "copy" => call[r].src # None
  BY <1>6 DEF UpdateInv, BakInv
<1>8. mix' \ {Torn} = {bin}
  <2>1. CASE \E r \in Callers : Copying(r)
    <3>1. mix \ {Torn} = {bin} /\ mix' = {bin} \cup mix
      BY <1>7, <2>1 DEF Backup, CopyOf, Copying
    <3> QED
      BY <1>5, <3>1
  <2>2. CASE ~ \E r \in Callers : Copying(r)
    BY <1>5, <2>2 DEF Backup, CopyOf
  <2> QED
    BY <2>1, <2>2
<1>9. call'[q].at \in {"copy", "swap"} /\ call'[q].src # None => call'[q].src = bin
  BY <1>2, <1>4, <1>7
<1>10. call'[q].at = "copy" => call'[q].src # None
  BY <1>2, <1>4, <1>5, <1>7
<1> QED
  BY <1>5, <1>8, <1>9, <1>10

(* The last of the copies that overlap leaves the binary whole in the      *)
(* rollback copy.                                                          *)
LEMMA BakEnds ==
    ASSUME UpdateInv, NEW p \in Callers, BackupDone(p)
    PROVE  BakInv'
<1> DEFINE c == [call[p] EXCEPT !.at = "swap"]
<1>1. call[p] \in Call /\ call[p].at = "copy"
  BY UnderWay DEF BackupDone, Steps
<1>2. c.at = "swap" /\ c.src = call[p].src
  BY <1>1 DEF Call
<1>3. call' = [call EXCEPT ![p] = c]
  BY <1>1 DEF BackupDone, Steps, UpdateInv, TypeOK
<1> HIDE DEF c
<1>4. /\ call'[p] = c
      /\ \A q \in Callers \ {p} : call'[q] = call[q]
  BY <1>3 DEF UpdateInv, TypeOK
<1>5. bin' = bin /\ mix' = mix
  BY DEF BackupDone
<1> SUFFICES ASSUME Unreplaced', NEW q \in Callers
             PROVE  /\ call'[q].at \in {"copy", "swap"} /\ call'[q].src # None =>
                         call'[q].src = bin' /\ mix' \ {Torn} = {bin'}
                    /\ call'[q].at = "copy" => call'[q].src # None
                    /\ Rollback(q)' => bak' = bin'
  BY DEF BakInv, Unreplaced
<1>6. \A r \in Callers : call[r].at # "exit"
  BY <1>1, <1>4 DEF Unreplaced
<1>7. \A r \in Callers :
        /\ call[r].at \in {"copy", "swap"} /\ call[r].src # None =>
             call[r].src = bin /\ mix \ {Torn} = {bin}
        /\ call[r].at = "copy" => call[r].src # None
  BY <1>6 DEF UpdateInv, BakInv
<1>8. call'[q].at \in {"copy", "swap"} /\ call'[q].src # None =>
        call'[q].src = bin /\ mix \ {Torn} = {bin}
  BY <1>1, <1>2, <1>4, <1>7
<1>9. call'[q].at = "copy" => call'[q].src # None
  BY <1>2, <1>4, <1>7
<1>10. ASSUME Rollback(q)'
       PROVE  bak' = bin
  <2>1. \A r \in Callers \ {p} : ~ Copying(r)
    BY <1>4, <1>10 DEF Rollback, Copying
  <2>2. mix \ {Torn} = {call[p].src} /\ call[p].src = bin
    BY <1>1, <1>7
  <2> QED
    BY <2>1, <2>2 DEF BackupDone
<1> QED
  BY <1>5, <1>8, <1>9, <1>10

(* A copy that fails leaves its mark.                                      *)
LEMMA BakBreaks ==
    ASSUME UpdateInv, NEW p \in Callers, BackupFails(p)
    PROVE  BakInv'
<1> DEFINE c == [[call[p] EXCEPT !.at = "swap"] EXCEPT !.src = None]
<1>1. call[p] \in Call /\ call[p].at \in {"backup", "copy"}
  BY UnderWay DEF BackupFails
<1>2. c.at = "swap" /\ c.src = None
  BY <1>1 DEF Call
<1>3. call' = [call EXCEPT ![p] = c]
  BY DEF BackupFails
<1> HIDE DEF c
<1>4. /\ call'[p] = c
      /\ \A q \in Callers \ {p} : call'[q] = call[q]
  BY <1>3 DEF UpdateInv, TypeOK
<1>5. /\ bin' = bin /\ bak' = bak /\ mix' \ {Torn} = mix \ {Torn}
      /\ Torn \notin mix' => mix' = mix /\ ~ Copying(p)
  BY DEF BackupFails
<1> SUFFICES ASSUME Unreplaced', NEW q \in Callers
             PROVE  /\ call'[q].at \in {"copy", "swap"} /\ call'[q].src # None =>
                         call'[q].src = bin' /\ mix' \ {Torn} = {bin'}
                    /\ call'[q].at = "copy" => call'[q].src # None
                    /\ Rollback(q)' => bak' = bin'
  BY DEF BakInv, Unreplaced
<1>6. \A r \in Callers : call[r].at # "exit"
  BY <1>1, <1>4 DEF Unreplaced
<1>7. \A r \in Callers :
        /\ call[r].at \in {"copy", "swap"} /\ call[r].src # None =>
             call[r].src = bin /\ mix \ {Torn} = {bin}
        /\ call[r].at = "copy" => call[r].src # None
        /\ Rollback(r) => bak = bin
  BY <1>6 DEF UpdateInv, BakInv
<1>8. call'[q].at \in {"copy", "swap"} /\ call'[q].src # None =>
        call'[q].src = bin /\ mix \ {Torn} = {bin}
  BY <1>2, <1>4, <1>7
<1>9. call'[q].at = "copy" => call'[q].src # None
  BY <1>2, <1>4, <1>7
<1>10. ASSUME Rollback(q)'
       PROVE  bak = bin
  <2>1. q # p /\ call'[q] = call[q] /\ Torn \notin mix'
    BY <1>2, <1>4, <1>10 DEF Rollback
  <2>2. \A r \in Callers : call[r].at # "copy"
    BY <1>4, <1>5, <1>10, <2>1 DEF Rollback, Copying
  <2> QED
    BY <1>5, <1>6, <1>7, <1>10, <2>1, <2>2 DEF Rollback
<1> QED
  BY <1>5, <1>8, <1>9, <1>10

(* A call that has replaced the binary is about to exit.                   *)
LEMMA BakReplaced ==
    ASSUME UpdateInv, NEW p \in Callers, Rename(p)
    PROVE  BakInv'
<1>1. call[p] \in Call /\ call' = [call EXCEPT ![p].at = "exit"]
  BY UnderWay DEF Rename, Steps
<1>2. call'[p].at = "exit"
  BY <1>1 DEF Call, UpdateInv, TypeOK
<1> QED
  BY <1>2 DEF BakInv

LEMMA StepInv ==
    ASSUME UpdateInv, NEW p \in Callers, Step(p)
    PROVE  UpdateInv'
<1> USE DEF PastTheGate
<1>0. /\ bin \in Content /\ bak \in Content \cup {None} /\ bin \in {Original} \cup Blessed
      /\ mix \subseteq Content
      /\ image \in Artifacts \cup {Down} /\ exit \in {"none", "failure"}
      /\ image = Down => exit = "failure"
  BY DEF UpdateInv, TypeOK, BinIsWhole
<1>a. ASSUME UNCHANGED <<image, exit>>,
             bin' \in Content, bin' \in {Original} \cup Blessed,
             bak' \in Content \cup {None}, mix' \subseteq Content,
             call' \in [Callers -> {Idle} \cup Call],
             \A q \in Callers : CallOK(q)', BakInv'
      PROVE  UpdateInv'
  BY <1>0, <1>a DEF UpdateInv, TypeOK, BinIsWhole
<1>1. CASE SelfUpdateStarts(p)
  <2>1. PICK d \in Directives : Begins(p, d)
    BY <1>1 DEF SelfUpdateStarts
  <2> DEFINE c == [at |-> "download", d |-> d, tmp |-> Torn, src |-> None]
  <2>2. c \in Call /\ call' = [call EXCEPT ![p] = c]
    BY <2>1 DEF Call, Content, Begins
  <2>3. call'[p] = c /\ image # Down /\ image' = image
    BY <2>1, <2>2 DEF Begins, UpdateInv, TypeOK
  <2>4. CallOK(p)'
    BY <2>3 DEF CallOK
  <2>6. call[p].at = "idle" /\ UNCHANGED <<bin, bak, mix>>
    <3>1. call[p] = Idle /\ UNCHANGED <<bin, bak, mix>>
      BY <2>1 DEF Begins
    <3> QED
      BY <3>1 DEF Idle
  <2>8. c.at = "download"
    OBVIOUS
  <2> HIDE DEF c
  <2>5. /\ call' \in [Callers -> {Idle} \cup Call]
        /\ \A q \in Callers : CallOK(q)'
    BY <2>2, <2>3, <2>4, OneCall
  <2>7. BakInv'
    BY <2>2, <2>6, <2>8, BakKept
  <2> QED
    BY <1>0, <1>a, <2>1, <2>5, <2>7 DEF Begins
<1>2. CASE Download(p)
  <2>1. PICK a \in Artifacts : call' = [call EXCEPT ![p] = [[@ EXCEPT !.at = "verify"] EXCEPT !.tmp = a]]
    BY <1>2 DEF Download
  <2>2. call[p] \in Call /\ image # Down
    BY <1>2, UnderWay DEF Download
  <2> DEFINE c == [[call[p] EXCEPT !.at = "verify"] EXCEPT !.tmp = a]
  <2>3. c \in Call /\ c.at = "verify"
    BY <2>2 DEF Call, Content
  <2>4. call' = [call EXCEPT ![p] = c] /\ call'[p] = c
    BY <2>1 DEF UpdateInv, TypeOK
  <2>5. CallOK(p)' /\ image' = image
    BY <1>2, <2>2, <2>3, <2>4 DEF CallOK, Download
  <2> HIDE DEF c
  <2>6. /\ call' \in [Callers -> {Idle} \cup Call]
        /\ \A q \in Callers : CallOK(q)'
    BY <2>3, <2>4, <2>5, OneCall
  <2>7. BakInv'
    BY <1>2, <2>3, <2>4, BakKept DEF Download
  <2> QED
    BY <1>0, <1>2, <1>a, <2>6, <2>7 DEF Download
<1>3. CASE Verify(p)
  <2>1. call[p].tmp = call[p].d.sha256 /\ call[p].tmp \in Blessed
    BY <1>3, UnderWay, GateBlesses DEF Verify, Steps
  <2>2. /\ call' \in [Callers -> {Idle} \cup Call]
        /\ \A q \in Callers : CallOK(q)'
    BY <1>3, <2>1, Moves DEF Verify
  <2> DEFINE c == [call[p] EXCEPT !.at = "backup"]
  <2>3. call[p].at = "verify" /\ call[p] \in Call
    BY <1>3, UnderWay DEF Verify, Steps
  <2>4. call' = [call EXCEPT ![p] = c] /\ c.at = "backup"
    BY <1>3, <2>3 DEF Verify, Steps, UpdateInv, TypeOK, Call
  <2> HIDE DEF c
  <2>5. BakInv'
    BY <1>3, <2>3, <2>4, BakKept DEF Verify
  <2> QED
    BY <1>0, <1>3, <1>a, <2>2, <2>5 DEF Verify
<1>4. CASE Backup(p)
  <2>1. call[p] \in Call /\ image # Down /\ CallOK(p) /\ call[p].at = "backup"
    BY <1>4, UnderWay DEF Backup, CopyOf, UpdateInv
  <2> DEFINE c == [[call[p] EXCEPT !.at = "copy"] EXCEPT !.src = bin]
  <2>2. /\ c \in Call /\ c.at = "copy" /\ c.src = bin
        /\ c.tmp = call[p].tmp /\ c.d = call[p].d
    BY <1>0, <2>1 DEF Call
  <2>3. call' = [call EXCEPT ![p] = c] /\ call'[p] = c
    BY <1>4, <2>1 DEF Backup, CopyOf, UpdateInv, TypeOK
  <2>4. CallOK(p)' /\ image' = image
    BY <1>0, <1>4, <2>1, <2>2, <2>3 DEF CallOK, Backup, CopyOf
  <2> HIDE DEF c
  <2>5. /\ call' \in [Callers -> {Idle} \cup Call]
        /\ \A q \in Callers : CallOK(q)'
    BY <2>2, <2>3, <2>4, OneCall
  <2>6. mix' \subseteq Content
    BY <1>0, <1>4 DEF Backup, CopyOf
  <2> QED
    BY <1>0, <1>4, <1>a, <2>5, <2>6, BakBegins DEF Backup, CopyOf, Content
<1>5. CASE BackupDone(p)
  <2>1. call[p].at = "copy" /\ Steps(p, "copy", "swap") /\ image' = image
    BY <1>5 DEF BackupDone, Steps
  <2>2. /\ call[p].tmp = call[p].d.sha256 /\ call[p].tmp \in Blessed
        /\ call[p].src \in Content \cup {None}
    BY <2>1, UnderWay DEF UpdateInv, CallOK
  <2>3. /\ call' \in [Callers -> {Idle} \cup Call]
        /\ \A q \in Callers : CallOK(q)'
    BY <2>1, <2>2, Moves
  <2>4. bak' \in Content \cup {None}
    BY <1>5, <2>2 DEF BackupDone, Content
  <2> QED
    BY <1>0, <1>5, <1>a, <2>3, <2>4, BakEnds DEF BackupDone
<1>5b. CASE BackupFails(p)
  <2>1. call[p] \in Call /\ image # Down /\ CallOK(p) /\ call[p].at \in {"backup", "copy"}
    BY <1>5b, UnderWay DEF BackupFails, UpdateInv
  <2> DEFINE c == [[call[p] EXCEPT !.at = "swap"] EXCEPT !.src = None]
  <2>2. /\ c \in Call /\ c.at = "swap" /\ c.tmp = call[p].tmp /\ c.d = call[p].d
    BY <2>1 DEF Call
  <2>3. call' = [call EXCEPT ![p] = c] /\ call'[p] = c
    BY <1>5b, <2>1 DEF BackupFails, UpdateInv, TypeOK
  <2>4. CallOK(p)' /\ image' = image
    BY <1>5b, <2>1, <2>2, <2>3 DEF CallOK, BackupFails
  <2> HIDE DEF c
  <2>5. /\ call' \in [Callers -> {Idle} \cup Call]
        /\ \A q \in Callers : CallOK(q)'
    BY <2>2, <2>3, <2>4, OneCall
  <2>6. mix' \subseteq Content
    BY <1>0, <1>5b DEF BackupFails, Content
  <2> QED
    BY <1>0, <1>5b, <1>a, <2>5, <2>6, BakBreaks DEF BackupFails
<1>6. CASE Rename(p)
  <2>1. CallOK(p) /\ call[p].at = "swap"
    BY <1>6 DEF UpdateInv, Rename, Steps
  <2>2. call[p].tmp = call[p].d.sha256 /\ call[p].tmp \in Blessed /\ call[p].tmp \in Content
    BY <2>1, UnderWay DEF CallOK
  <2>3. /\ call' \in [Callers -> {Idle} \cup Call]
        /\ \A q \in Callers : CallOK(q)'
    BY <1>6, <2>2, Moves DEF Rename
  <2> QED
    BY <1>0, <1>6, <1>a, <2>2, <2>3, BakReplaced DEF Rename
<1>7. CASE SelfUpdateFails(p)
  <2>1. /\ call' \in [Callers -> {Idle} \cup Call]
        /\ \A q \in Callers : CallOK(q)'
    BY <1>7, Returns DEF SelfUpdateFails
  <2>2. Idle.at = "idle"
    BY DEF Idle
  <2>3. BakInv'
    BY <1>7, <2>2, BakKept DEF SelfUpdateFails
  <2> QED
    BY <1>0, <1>7, <1>a, <2>1, <2>3 DEF SelfUpdateFails
<1>8. CASE Exit(p)
  BY <1>8, EndsInv DEF Exit
<1> QED
  BY <1>1, <1>2, <1>3, <1>4, <1>5, <1>5b, <1>6, <1>7, <1>8 DEF Step, Proceeds

LEMMA RestartInv ==
    ASSUME UpdateInv, Restart
    PROVE  UpdateInv'
<1>1. \A p \in Callers : CallOK(p)'
  BY DownAssumption DEF Restart, UpdateInv, CallOK
<1>2. BakInv'
  BY DEF Restart, UpdateInv, BakInv, Rollback
<1> QED
  BY <1>1, <1>2, DownAssumption DEF Restart, UpdateInv, TypeOK, BinIsWhole

LEMMA NextInv == UpdateInv /\ [Next]_vars => UpdateInv'
<1> SUFFICES ASSUME UpdateInv, [Next]_vars PROVE UpdateInv'
  OBVIOUS
<1>1. CASE UNCHANGED vars
  BY <1>1 DEF vars, UpdateInv, TypeOK, BinIsWhole, BakInv, Rollback, CallOK
<1>2. CASE Next
  BY <1>2, StepInv, EndsInv, RestartInv DEF Next, Crash
<1> QED
  BY <1>1, <1>2

(* Whatever fails or dies, the installed binary is whole and vouched for,  *)
(* and copies of one process that has not replaced it are of it.           *)
THEOREM UpdateInvariant == Spec => []UpdateInv
BY InitUpdateInv, NextInv, PTL DEF Spec

(* The file at binPath is never unverified, partial or missing.            *)
THEOREM UpdateKeepsBin == Spec => []BinIsWhole
<1>1. UpdateInv => BinIsWhole
  BY DEF UpdateInv
<1> QED
  BY <1>1, UpdateInvariant, PTL

(* What a step of a call replaces is what its rollback copy holds.         *)
LEMMA StepKeepsBak ==
    UpdateInv /\ [Next]_vars =>
      [\A p \in Callers : Rollback(p) /\ call'[p].at = "exit" => bak' = bin]_vars
<1> SUFFICES ASSUME UpdateInv, Next, NEW p \in Callers, Rollback(p), call'[p].at = "exit"
             PROVE  bak' = bin
  OBVIOUS
<1>1. bak = bin /\ call[p].at = "swap"
  BY DEF UpdateInv, BakInv, Rollback
<1>2. ASSUME NEW q \in Callers, Step(q), ~ Exit(q)
      PROVE  bak' = bak
  <2>1. CASE BackupDone(q) \/ Backup(q)
    <3>1. PICK c : call' = [call EXCEPT ![q] = c]
      BY <2>1 DEF BackupDone, Steps, Backup, CopyOf
    <3>2. p # q
      BY <1>1, <2>1 DEF BackupDone, Steps, Backup, CopyOf
    <3>3. call'[p] = call[p]
      BY <3>1, <3>2 DEF UpdateInv, TypeOK
    <3> QED
      BY <1>1, <3>3
  <2>2. CASE ~ (BackupDone(q) \/ Backup(q))
    BY <1>2, <2>2 DEF Step, Proceeds, SelfUpdateStarts, Begins, Download, Verify, BackupFails,
                      Rename, SelfUpdateFails
  <2> QED
    BY <2>1, <2>2
<1>3. ASSUME NEW q \in Callers, Exit(q)
      PROVE  bak' = bak
  BY <1>3 DEF Exit, Ends
<1>4. CASE Crash \/ Restart
  BY <1>1, <1>4 DEF Crash, Ends, Restart
<1> QED
  BY <1>1, <1>2, <1>3, <1>4 DEF Next

(* However many calls overlap, fail and die: when one whose copy succeeded *)
(* replaces the binary, and no copy is under way or broke off and no other *)
(* call has replaced it before, the rollback copy is the previous binary.  *)
THEOREM UpdateKeepsPrevious == Spec => BakIsPrevious
BY UpdateInvariant, StepKeepsBak, PTL DEF Spec, BakIsPrevious

(* The types of the variables.                                             *)
THEOREM UpdateTypes == Spec => []TypeOK
<1>1. UpdateInv => TypeOK
  BY DEF UpdateInv
<1> QED
  BY <1>1, UpdateInvariant, PTL

LEMMA InitUpgrade == Init => U!Init
BY DEF Init, U!Init

LEMMA StepUpgrade == UpdateInv /\ [Next]_vars => [U!Next]_(U!vars)
<1> SUFFICES ASSUME UpdateInv, [Next]_vars PROVE U!Next \/ UNCHANGED U!vars
  OBVIOUS
<1>1. ASSUME NEW p \in Callers, Step(p), ~ Exit(p)
      PROVE  U!Next \/ UNCHANGED U!vars
  <2>1. CASE Rename(p)
    <3>1. CallOK(p) /\ call[p].at = "swap" /\ call[p] # Idle
      BY <2>1 DEF UpdateInv, Rename, Steps, Idle
    <3>2. image # Down /\ call[p].tmp \in Blessed
      BY <3>1 DEF CallOK, PastTheGate
    <3> QED
      BY <2>1, <3>2 DEF Rename, U!Next, U!Replace
  <2>2. CASE ~ Rename(p)
    BY <1>1, <2>2 DEF Step, Proceeds, SelfUpdateStarts, Begins, Download, Verify, Backup, CopyOf, BackupDone,
                      BackupFails, SelfUpdateFails, U!vars
  <2> QED
    BY <2>1, <2>2
<1>2. ASSUME NEW p \in Callers, Exit(p)
      PROVE  U!Next
  <2>1. call[p] # Idle /\ CallOK(p) /\ Ends("failure")
    BY <1>2 DEF Exit, Idle, UpdateInv
  <2> QED
    BY <2>1 DEF CallOK, Ends, U!Next, U!Stop
<1>3. CASE Crash
  BY <1>3 DEF Crash, Ends, U!Next, U!Stop
<1>4. CASE Restart
  BY <1>4 DEF Restart, U!Next, U!Start
<1>5. CASE UNCHANGED vars
  BY <1>5 DEF vars, U!vars
<1> QED
  BY <1>1, <1>2, <1>3, <1>4, <1>5 DEF Next

(* Every step of the code is a step of Upgrade, or none: the safety half   *)
(* of ImplementsUpgrade.                                                   *)
THEOREM UpdateImplements == Spec => U!Init /\ [][U!Next]_(U!vars)
BY InitUpgrade, StepUpgrade, UpdateInvariant, PTL DEF Spec

----------------------------------------------------------------------------
(* Answers are directives with a usable URL, or as odd as dock sent them.  *)
AnswerTypeOK ==
    /\ answer \in [Callers -> Directives \cup {None}]
    /\ offer \in Offers \cup {None}

(* A step of the heartbeat loop is a step of SelfUpdate.                   *)
LEMMA LoopSteps ==
    ASSUME AnswerTypeOK, [LoopNext]_loopVars
    PROVE  [Next]_vars /\ AnswerTypeOK'
<1>1. ASSUME NEW p \in Callers, Beat(p)
      PROVE  UNCHANGED vars /\ AnswerTypeOK'
  <2>1. Resolved(offer) \in Directives
    BY <1>1, OffersAssumption DEF Beat, AnswerTypeOK
  <2> QED
    BY <1>1, <2>1 DEF Beat, AnswerTypeOK
<1>2. ASSUME NEW p \in Callers, Applies(p)
      PROVE  [Next]_vars /\ AnswerTypeOK'
  <2>1. answer[p] \in Directives
    BY <1>2 DEF Applies, AnswerTypeOK
  <2>2. [Next]_vars
    BY <1>2, <2>1 DEF Applies, Next, Step, SelfUpdateStarts
  <2> QED
    BY <1>2, <2>2 DEF Applies, AnswerTypeOK
<1>3. ASSUME NEW p \in Callers, Goes(p)
      PROVE  Next /\ AnswerTypeOK'
  BY <1>3 DEF Goes, Next, Step, AnswerTypeOK
<1>4. CASE DockOffers
  BY <1>4 DEF DockOffers, AnswerTypeOK
<1>5. CASE Dies \/ Rises
  BY <1>5 DEF Dies, Rises, Next, AnswerTypeOK
<1>6. CASE UNCHANGED loopVars
  BY <1>6 DEF loopVars, vars, AnswerTypeOK
<1> QED
  BY <1>1, <1>2, <1>3, <1>4, <1>5, <1>6 DEF LoopNext, Loop

(* The heartbeat loop keeps the inductive invariant of SelfUpdate: its     *)
(* callers act on dock's directives only, old ones and odd ones included.  *)
THEOREM LoopInvariant == LoopSpec => []UpdateInv
<1>1. LoopInit => AnswerTypeOK /\ UpdateInv
  BY InitUpdateInv DEF LoopInit, AnswerTypeOK
<1>2. AnswerTypeOK /\ UpdateInv /\ [LoopNext]_loopVars => (AnswerTypeOK /\ UpdateInv)'
  BY LoopSteps, NextInv
<1> QED
  BY <1>1, <1>2, PTL DEF LoopSpec

(* Heartbeats, answers and dock's changes of mind included, the installed  *)
(* binary is never unverified, partial or missing.                         *)
THEOREM LoopKeepsBin == LoopSpec => []BinIsWhole
<1>1. UpdateInv => BinIsWhole
  BY DEF UpdateInv
<1> QED
  BY <1>1, LoopInvariant, PTL

(* Nor does the loop overwrite the rollback copy with anything but the     *)
(* binary that is replaced.                                                *)
THEOREM LoopKeepsPrevious == LoopSpec => BakIsPrevious
<1>1. LoopInit => AnswerTypeOK
  BY DEF LoopInit, AnswerTypeOK
<1>2. AnswerTypeOK /\ [LoopNext]_loopVars => [Next]_vars /\ AnswerTypeOK'
  BY LoopSteps
<1> QED
  BY <1>1, <1>2, StepKeepsBak, LoopInvariant, PTL DEF LoopSpec, BakIsPrevious

(* Every step of the loop is a step of Upgrade, or none.                   *)
THEOREM LoopImplements == LoopSpec => U!Init /\ [][U!Next]_(U!vars)
<1>1. LoopInit => Init /\ AnswerTypeOK
  BY DEF LoopInit, AnswerTypeOK
<1>2. AnswerTypeOK /\ [LoopNext]_loopVars => [Next]_vars /\ AnswerTypeOK'
  BY LoopSteps
<1> QED
  BY <1>1, <1>2, InitUpgrade, StepUpgrade, LoopInvariant, PTL DEF LoopSpec
=============================================================================
