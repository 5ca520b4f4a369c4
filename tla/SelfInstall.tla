---------------------------- MODULE SelfInstall ----------------------------
(* sdk.SelfInstall: download an archive to the system's temporary          *)
(* directory, verify, unpack it into versions/<version> file by file, run  *)
(* its entrypoint there and repoint the symlink current.  An installer is  *)
(* a process of its own; it may fail or die after any step, what it wrote  *)
(* stays, and nothing keeps two of them out of one directory.  What a      *)
(* directory holds is told of the names in archives: a script's own files  *)
(* have other names.                                                       *)
EXTENDS Release, GoMap, Naturals, Sequences

CONSTANTS Installers,  \* processes that install into one destRoot
          Directives,  \* what dock sends
          Files,       \* names of files in archives
          Entrypoint,  \* install.sh
          Contents,    \* Contents[a]: the format and the entries of archive a
          Torn         \* a file that was not written to its end

ASSUME DirectivesAssumption == Directives \subseteq UpdateDirective
(* An entry's name, cleaned, is a file's, the archive's root, or one that  *)
(* is absolute or climbs out.  A long entry exceeds maxArchiveEntryBytes;  *)
(* an odd one is a fifo or a device.                                       *)
Entry == [name : Files \cup {"root", "outside"},
          kind : {"file", "long", "dir", "link", "odd"}]

ASSUME ContentsAssumption ==
    \A a \in Artifacts : Contents[a].format \in Formats /\ Contents[a].entries \in Seq(Entry)
ASSUME TornAssumption == Torn \notin Artifacts

VARIABLES dirs,      \* dirs[v]: the files of versions/v, none when it is absent
          current,   \* the version that destRoot/current points at
          disturbed, \* current's directory was cleared since it was pointed at
          call       \* call[p]: installer p's call

vars == <<dirs, current, disturbed, call>>

Dir == UNION {[S -> Artifacts \cup {Torn}] : S \in SUBSET Files}

Idle == [at |-> "idle"]

(* What a reader of destRoot/current finds there.                          *)
Resolved == IF current = None THEN EmptyMap ELSE dirs[current]

(* archive is the downloaded file, next its entry to unpack; shared when   *)
(* another installer is, or was since the clearing, in the same directory. *)
Call == [at : {"download", "verify", "clear", "unpack", "run", "flip"},
         d : Directives, archive : Artifacts \cup {None}, next : Nat, shared : BOOLEAN]

Init == /\ dirs = [v \in Versions |-> EmptyMap]
        /\ current = None
        /\ disturbed = FALSE
        /\ call = [p \in Installers |-> Idle]

----------------------------------------------------------------------------
Steps(p, from, to) ==
    /\ call[p].at = from
    /\ call' = [call EXCEPT ![p].at = to]

VerDir(p) == InstallVersion(call[p].d)

(* Any archive directive with a sha256 and a version, the live one's too.  *)
SelfInstallStarts(p) ==
    /\ call[p] = Idle
    /\ \E d \in Directives :
         /\ ~ IsBinary(d) /\ d.url # "" /\ d.sha256 # None /\ InstallVersion(d) # None
         /\ call' = [call EXCEPT ![p] = [at |-> "download", d |-> d, archive |-> None,
                                         next |-> 1, shared |-> FALSE]]
    /\ UNCHANGED <<dirs, current, disturbed>>

Download(p) ==
    /\ call[p].at = "download" /\ call[p].d.url = "absolute"
    /\ \E a \in Artifacts :
         call' = [call EXCEPT ![p] = [[@ EXCEPT !.at = "verify"] EXCEPT !.archive = a]]
    /\ UNCHANGED <<dirs, current, disturbed>>

(* Broken variant: what storage served is unpacked without a check.        *)
UnpackFirst(p) ==
    /\ Steps(p, "verify", "clear")
    /\ UNCHANGED <<dirs, current, disturbed>>

Verify(p) ==
    /\ Steps(p, "verify", "clear")
    /\ Verified(call[p].d, call[p].archive)
    /\ UNCHANGED <<dirs, current, disturbed>>

Inside == {"unpack", "run", "flip"}

Others(p) == {q \in Installers \ {p} : call[q].at \in Inside /\ VerDir(q) = VerDir(p)}

(* p goes on as c, and whoever works in its directory is not alone.        *)
Enters(p, c) ==
    call' = [q \in Installers |-> IF q = p THEN c
                                 ELSE IF q \in Others(p) THEN [call[q] EXCEPT !.shared = TRUE]
                                 ELSE call[q]]

Cleared(p) == [[call[p] EXCEPT !.at = "unpack"] EXCEPT !.shared = (Others(p) # {})]

(* Broken variant: what an earlier attempt left stays.                     *)
KeepOldFiles(p) ==
    /\ call[p].at = "clear"
    /\ Enters(p, Cleared(p))
    /\ disturbed' = (disturbed \/ VerDir(p) = current)
    /\ UNCHANGED <<dirs, current>>

(* RemoveAll, then MkdirAll of the version's directory.                    *)
Clear(p) ==
    /\ call[p].at = "clear"
    /\ dirs' = [dirs EXCEPT ![VerDir(p)] = EmptyMap]
    /\ Enters(p, Cleared(p))
    /\ disturbed' = (disturbed \/ VerDir(p) = current)
    /\ UNCHANGED current

(* RemoveAll stops half-way, with an error or because the process dies.    *)
ClearFails(p) ==
    /\ call[p].at = "clear"
    /\ \E kept \in SUBSET DOMAIN dirs[VerDir(p)] :
         dirs' = [dirs EXCEPT ![VerDir(p)] = [f \in kept |-> dirs[VerDir(p)][f]]]
    /\ Enters(p, Idle)
    /\ disturbed' = (disturbed \/ VerDir(p) = current)
    /\ UNCHANGED current

(* safeJoin refuses a name outside; only tar archives are searched for     *)
(* links, and only there are odd entries left out.  A zip's link is        *)
(* written as a file.                                                      *)
Refused(a, e) == \/ e.name = "outside"
                 \/ e.name # "root" /\ Contents[a].format = "tar.gz" /\ e.kind = "link"

Skipped(a, e) == \/ e.name = "root" \/ e.kind = "dir"
                 \/ Contents[a].format = "tar.gz" /\ e.kind = "odd"

Entries(p) == Contents[call[p].archive].entries

AtEntry(p) ==
    /\ call[p].at = "unpack"
    /\ call[p].d.manifest.format = Contents[call[p].archive].format
    /\ call[p].next <= Len(Entries(p))

Current(p) == Entries(p)[call[p].next]

Writes(p) == ~ Refused(call[p].archive, Current(p)) /\ ~ Skipped(call[p].archive, Current(p))

(* The entry's file now holds content.                                     *)
Puts(p, content) == dirs' = [dirs EXCEPT ![VerDir(p)] = Store(@, Current(p).name, content)]

(* One entry is written; LimitReader cuts a long one off without an error. *)
Unpack(p) ==
    /\ AtEntry(p)
    /\ \/ /\ Writes(p)
          /\ Puts(p, IF Current(p).kind = "long" THEN Torn ELSE call[p].archive)
       \/ /\ Skipped(call[p].archive, Current(p)) /\ UNCHANGED dirs
          /\ ~ Refused(call[p].archive, Current(p))
    /\ call' = [call EXCEPT ![p].next = @ + 1]
    /\ UNCHANGED <<current, disturbed>>

(* unpackZip drops the error of a file's Close.                            *)
ZipCloseFails(p) ==
    /\ AtEntry(p) /\ Writes(p) /\ Contents[call[p].archive].format = "zip"
    /\ Puts(p, Torn)
    /\ call' = [call EXCEPT ![p].next = @ + 1]
    /\ UNCHANGED <<current, disturbed>>

(* Broken variant: every error of the unpacking is dropped.                *)
UnpackFailsUnseen(p) ==
    /\ AtEntry(p) /\ Writes(p)
    /\ Puts(p, Torn)
    /\ call' = [call EXCEPT ![p].next = @ + 1]
    /\ UNCHANGED <<current, disturbed>>

(* Writing an entry stops half-way.                                        *)
UnpackFails(p) ==
    /\ AtEntry(p) /\ Writes(p)
    /\ Puts(p, Torn)
    /\ call' = [call EXCEPT ![p] = Idle]
    /\ UNCHANGED <<current, disturbed>>

(* The whole archive is there, the entrypoint among it: it is started.     *)
RunEntrypoint(p) ==
    /\ Steps(p, "unpack", "run")
    /\ call[p].next > Len(Entries(p))
    /\ call[p].d.manifest.format = Contents[call[p].archive].format
    /\ Has(dirs[VerDir(p)], Entrypoint)
    /\ UNCHANGED <<dirs, current, disturbed>>

(* It exits with 0.                                                        *)
EntrypointSucceeds(p) ==
    /\ Steps(p, "run", "flip")
    /\ UNCHANGED <<dirs, current, disturbed>>

(* Broken variant: current is repointed before the archive is unpacked.    *)
FlipEarly(p) ==
    /\ call[p].at = "unpack" /\ current # VerDir(p)
    /\ current' = VerDir(p)
    /\ disturbed' = FALSE
    /\ UNCHANGED <<dirs, call>>

(* A symlink under a temporary name is renamed over current.               *)
RepointSymlink(p) ==
    /\ call[p].at = "flip"
    /\ current' = VerDir(p)
    /\ disturbed' = call[p].shared
    /\ call' = [call EXCEPT ![p] = Idle]
    /\ UNCHANGED dirs

(* Any other error return, or the installer's death between two steps: a   *)
(* bad download, a failed check, a bad archive, a failing entrypoint.      *)
SelfInstallFails(p) ==
    /\ call[p] # Idle
    /\ call' = [call EXCEPT ![p] = Idle]
    /\ UNCHANGED <<dirs, current, disturbed>>

Step(p) == \/ SelfInstallStarts(p) \/ Download(p) \/ Verify(p) \/ Clear(p)
           \/ ClearFails(p) \/ Unpack(p) \/ ZipCloseFails(p) \/ UnpackFails(p)
           \/ RunEntrypoint(p) \/ EntrypointSucceeds(p) \/ RepointSymlink(p)
           \/ SelfInstallFails(p)

Next == \E p \in Installers : Step(p)

Spec == Init /\ [][Next]_vars

----------------------------------------------------------------------------
(* The types of the variables.                                             *)
TypeOK ==
    /\ dirs \in [Versions -> Dir]
    /\ current \in Versions \cup {None}
    /\ disturbed \in BOOLEAN
    /\ call \in [Installers -> {Idle} \cup Call]

(* The entries among the first n of archive a that are written.            *)
Put(a, n) == LET es == Contents[a].entries
             IN  {i \in 1..n : ~ Refused(a, es[i]) /\ ~ Skipped(a, es[i])}

(* A file may be torn where it is too long or the archive is a zip.        *)
Wrote(content, a, e) ==
    \/ content = a /\ e.kind # "long"
    \/ content = Torn /\ (e.kind = "long" \/ Contents[a].format = "zip")

(* What the first n entries of a leave in an empty directory: of each name *)
(* the last entry.                                                         *)
Holds(dir, a, n) ==
    LET es == Contents[a].entries
    IN  /\ \A i \in 1..n : ~ Refused(a, es[i])
        /\ DOMAIN dir = {es[i].name : i \in Put(a, n)}
        /\ \A i \in Put(a, n) :
             (\A j \in Put(a, n) : es[j].name = es[i].name => j <= i) =>
               Wrote(dir[es[i].name], a, es[i])

HoldsAll(dir, a) == Holds(dir, a, Len(Contents[a].entries))

(* No file of an archive that may not be installed is ever written below   *)
(* versions/, however many installers work there.                          *)
OnlyVerifiedFiles ==
    \A v \in Versions : \A f \in DOMAIN dirs[v] : dirs[v][f] \in Blessed \cup {Torn}

(* The entrypoint runs beside exactly the files of its archive, whatever   *)
(* earlier attempts at the same version left behind, unless another        *)
(* installer is in the directory; none but the errors that the code drops  *)
(* can have torn one.                                                      *)
EntryRunsWhole ==
    \A p \in Installers :
      (call[p].at \in {"run", "flip"} /\ ~ call[p].shared) =>
        HoldsAll(dirs[VerDir(p)], call[p].archive)

(* current resolves to the files of a whole archive whose entrypoint is    *)
(* there, unless its version is installed again or was by two at once.     *)
CurrentIsWhole ==
    (current # None /\ ~ disturbed) =>
      Has(Resolved, Entrypoint) /\ \E a \in Blessed : HoldsAll(Resolved, a)

(* An install that fails has not touched what current resolves to.         *)
CurrentUntouched ==
    [][\A p \in Installers :
         (call[p].at # "idle" /\ call'[p] = Idle /\ current' = current) =>
           ~ disturbed']_vars

----------------------------------------------------------------------------
(* The inductive invariant: what is unpacked is verified, and the version  *)
(* directory of an installer that is alone there holds what it has written.*)
InstallerOK(p) ==
    /\ call[p] # Idle => VerDir(p) \in Versions
    /\ call[p].at = "verify" => call[p].archive \in Artifacts
    /\ call[p].at \in Inside \cup {"clear"} => call[p].archive \in Blessed
    /\ call[p].at \in {"download", "verify", "clear"} => call[p].next = 1
    /\ call[p].at \in Inside => call[p].next \in 1 .. Len(Entries(p)) + 1
    /\ (call[p].at \in Inside /\ VerDir(p) = current) => disturbed
    /\ (call[p].at \in Inside /\ ~ call[p].shared) =>
         /\ Others(p) = {}
         /\ Holds(dirs[VerDir(p)], call[p].archive, call[p].next - 1)
    /\ (call[p].at \in {"run", "flip"} /\ ~ call[p].shared) =>
         /\ call[p].next = Len(Entries(p)) + 1
         /\ Has(dirs[VerDir(p)], Entrypoint)

InstallInv ==
    /\ TypeOK
    /\ OnlyVerifiedFiles
    /\ CurrentIsWhole
    /\ \A p \in Installers : InstallerOK(p)
=============================================================================
