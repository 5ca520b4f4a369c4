----------------------------- MODULE SelfUpdate -----------------------------
(* sdk.SelfUpdate: download beside the binary, verify, keep a rollback     *)
(* copy, rename over the binary and exit, so that the supervisor restarts  *)
(* the process on the new one.  Calls run in goroutines of one process,    *)
(* which can die between any two steps.  Files outlive the process.        *)
EXTENDS Release, FiniteSets

CONSTANTS Callers,     \* goroutines that act on directives
          Directives,  \* what dock sends
          VersionOf,   \* VersionOf[a]: the version that binary a reports
          Original,    \* the binary the operator deployed
          Torn,        \* bytes of no artifact: an empty or partial file
          Down         \* no process

ASSUME DirectivesAssumption == Directives \subseteq UpdateDirective
ASSUME OriginalAssumption == Original \in Artifacts
ASSUME TornAssumption == Torn \notin Artifacts \cup {None}
ASSUME DownAssumption == Down \notin Artifacts

VARIABLES bin,    \* the file at binPath
          bak,    \* the file at binPath.bak
          mix,    \* what the last copies into it were made of, those that
                  \* overlapped: their sources, and Torn when one broke off
          image,  \* what the process runs
          exit,   \* how the last process ended
          call    \* call[p]: the call of goroutine p

vars == <<bin, bak, mix, image, exit, call>>

Content == Artifacts \cup {Torn}

Idle == [at |-> "idle"]

(* d is the directive, tmp the temporary file, src what copyFile copies or *)
(* has copied, None before it begins and when it fails.                    *)
Call == [at : {"download", "verify", "backup", "copy", "swap", "exit"},
         d : Directives, tmp : Content, src : Content \cup {None}]

Init == /\ bin = Original
        /\ bak = None
        /\ mix = {}
        /\ image = Original
        /\ exit = "none"
        /\ call = [p \in Callers |-> Idle]

----------------------------------------------------------------------------
Steps(p, from, to) ==
    /\ call[p].at = from
    /\ call' = [call EXCEPT ![p].at = to]

(* A complete directive is acted on; the temporary file is created empty.  *)
Begins(p, d) ==
    /\ image # Down /\ call[p] = Idle
    /\ IsBinary(d) /\ d.url # "" /\ d.sha256 # None
    /\ call' = [call EXCEPT ![p] = [at |-> "download", d |-> d, tmp |-> Torn, src |-> None]]
    /\ UNCHANGED <<bin, bak, mix, image, exit>>

SelfUpdateStarts(p) == \E d \in Directives : Begins(p, d)

(* Broken variant: the binary itself is the download's target.             *)
DownloadInPlace(p) ==
    /\ call[p].at = "download" /\ call[p].d.url = "absolute"
    /\ \E a \in Artifacts :
         /\ call' = [call EXCEPT ![p] = [[@ EXCEPT !.at = "verify"] EXCEPT !.tmp = a]]
         /\ bin' = a
    /\ UNCHANGED <<bak, mix, image, exit>>

(* Storage serves some artifact; it is written and hashed as it arrives.   *)
(* A URL without a host cannot be fetched.                                 *)
Download(p) ==
    /\ call[p].at = "download" /\ call[p].d.url = "absolute"
    /\ \E a \in Artifacts :
         call' = [call EXCEPT ![p] = [[@ EXCEPT !.at = "verify"] EXCEPT !.tmp = a]]
    /\ UNCHANGED <<bin, bak, mix, image, exit>>

(* sha256, then the signature when a key is pinned, then chmod.            *)
Verify(p) ==
    /\ Steps(p, "verify", "backup")
    /\ Verified(call[p].d, call[p].tmp)
    /\ UNCHANGED <<bin, bak, mix, image, exit>>

Copying(p) == call[p].at = "copy"

CopyOf(p, content) ==
    /\ call[p].at = "backup"
    /\ call' = [call EXCEPT ![p] = [[@ EXCEPT !.at = "copy"] EXCEPT !.src = content]]
    /\ bak' = Torn
    /\ mix' = {content} \cup IF \E q \in Callers : Copying(q) THEN mix ELSE {}
    /\ UNCHANGED <<bin, image, exit>>

(* Broken variant: the rollback copy is made of the new binary.            *)
BackupOfNew(p) == CopyOf(p, call[p].tmp)

(* copyFile opens both files, which truncates the old rollback copy, ...   *)
Backup(p) == CopyOf(p, bin)

(* ... and copies.  Another copy into the same file that is under way may  *)
(* have truncated it since, and one of another binary that overlapped may  *)
(* leave bytes among these or beyond their end.                            *)
BackupDone(p) ==
    /\ Steps(p, "copy", "swap")
    /\ bak' \in {call[p].src} \cup
         {t \in {Torn} : \/ mix \ {Torn} # {call[p].src}
                         \/ \E q \in Callers \ {p} : Copying(q)}
    /\ UNCHANGED <<bin, mix, image, exit>>

(* Its errors are ignored: that of the open, which leaves the old copy,    *)
(* and those that break a copy off.                                        *)
BackupFails(p) ==
    /\ call[p].at \in {"backup", "copy"}
    /\ call' = [call EXCEPT ![p] = [[@ EXCEPT !.at = "swap"] EXCEPT !.src = None]]
    /\ mix' = IF Copying(p) THEN mix \cup {Torn} ELSE mix
    /\ UNCHANGED <<bin, bak, image, exit>>

Rename(p) ==
    /\ Steps(p, "swap", "exit")
    /\ bin' = call[p].tmp
    /\ UNCHANGED <<bak, mix, image, exit>>

(* Any error before the swap: the temporary file is removed, and the       *)
(* caller gets the error.                                                  *)
SelfUpdateFails(p) ==
    /\ call[p].at \in {"download", "verify", "swap"}
    /\ call' = [call EXCEPT ![p] = Idle]
    /\ UNCHANGED <<bin, bak, mix, image, exit>>

(* The process ends, and every call in it with it, wherever it is.         *)
Ends(how) ==
    /\ image' = Down
    /\ exit' = how
    /\ call' = [p \in Callers |-> Idle]
    /\ UNCHANGED <<bin, bak, mix>>

(* Broken variant: a clean exit.                                           *)
ExitZero(p) == call[p].at = "exit" /\ Ends("success")

(* os.Exit with code 42.                                                   *)
Exit(p) == call[p].at = "exit" /\ Ends("failure")

Crash == image # Down /\ Ends("failure")

(* KeepAlive with SuccessfulExit=false: the supervisor restarts what ended *)
(* unsuccessfully.                                                         *)
Restart ==
    /\ image = Down /\ exit = "failure" /\ bin \in Artifacts
    /\ image' = bin
    /\ UNCHANGED <<bin, bak, mix, exit, call>>

(* A call that has begun goes on.                                          *)
Proceeds(p) == \/ Download(p) \/ Verify(p) \/ Backup(p) \/ BackupDone(p)
               \/ BackupFails(p) \/ Rename(p) \/ SelfUpdateFails(p) \/ Exit(p)

Step(p) == SelfUpdateStarts(p) \/ Proceeds(p)

Next == (\E p \in Callers : Step(p)) \/ Crash \/ Restart

(* A goroutine past its rename goes on to exit, and the supervisor         *)
(* restarts; nothing else is bound to happen.                              *)
Spec == /\ Init /\ [][Next]_vars
        /\ \A p \in Callers : WF_vars(Exit(p))
        /\ WF_vars(Restart)

----------------------------------------------------------------------------
(* The types of the variables.                                             *)
TypeOK ==
    /\ bin \in Content
    /\ bak \in Content \cup {None}
    /\ mix \subseteq Content
    /\ image \in Artifacts \cup {Down}
    /\ exit \in {"none", "failure"}
    /\ call \in [Callers -> {Idle} \cup Call]

(* Whatever fails or dies, and however many calls overlap, binPath holds a *)
(* whole binary, the deployed one or one that may be installed: never an   *)
(* unverified, partial or missing one.                                     *)
BinIsWhole == bin \in {Original} \cup Blessed

(* A call whose own copy succeeded replaces a binary that is kept as the   *)
(* rollback copy, unless a copy is under way or broke off, or another call *)
(* has replaced the binary and is about to exit.  Copies that overlapped   *)
(* and all succeeded leave it whole.                                       *)
Rollback(p) ==
    /\ call[p].at = "swap" /\ call[p].src # None
    /\ Torn \notin mix
    /\ \A q \in Callers : call[q].at \notin {"copy", "exit"}

BakIsPrevious ==
    [][\A p \in Callers : Rollback(p) /\ call'[p].at = "exit" => bak' = bin]_vars

(* What the code does is an upgrade in the sense of Upgrade.               *)
U == INSTANCE Upgrade WITH installed <- bin, running <- image

ImplementsUpgrade == U!Spec

(* With a pinned key, what is put in place has the version that dock's     *)
(* directive names, as its signed manifest says.                           *)
VersionsAgree ==
    KeyPinned => \A p \in Callers :
      call[p].at = "exit" => call[p].d.manifest.version = call[p].d.version

----------------------------------------------------------------------------
(* The inductive invariant: past the gate, a call's temporary file is what *)
(* its directive names and may be installed.                               *)
PastTheGate == {"backup", "copy", "swap", "exit"}

CallOK(p) ==
    /\ call[p] # Idle => image # Down
    /\ call[p].at \in PastTheGate =>
         call[p].tmp = call[p].d.sha256 /\ call[p].tmp \in Blessed

(* Until a call replaces the binary, every copy of this process is of it,  *)
(* and so is the rollback copy that such calls leave.                      *)
BakInv ==
    (\A q \in Callers : call[q].at # "exit") =>
      \A p \in Callers :
        /\ call[p].at \in {"copy", "swap"} /\ call[p].src # None =>
             call[p].src = bin /\ mix \ {Torn} = {bin}
        /\ call[p].at = "copy" => call[p].src # None
        /\ Rollback(p) => bak = bin

UpdateInv ==
    /\ TypeOK
    /\ BinIsWhole
    /\ BakInv
    /\ image = Down => exit = "failure"
    /\ \A p \in Callers : CallOK(p)
=============================================================================
