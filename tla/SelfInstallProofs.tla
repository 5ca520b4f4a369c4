-------------------------- MODULE SelfInstallProofs --------------------------
(* Proofs about SelfInstall, for any number of installers, any archives    *)
(* and directives, with or without a pinned key.                           *)
EXTENDS SelfInstall, TLAPS

At == {"download", "verify", "clear", "unpack", "run", "flip"}

LEMMA BlessedAreArtifacts == Blessed \subseteq Artifacts
BY SignedAssumption DEF Blessed, ReleaseManifest

(* What passes the gate may be installed.                                  *)
LEMMA GateBlesses ==
    ASSUME NEW d \in UpdateDirective, NEW a \in Artifacts, Verified(d, a)
    PROVE  a \in Blessed
<1>1. CASE KeyPinned
  BY <1>1 DEF Verified, VerifyReleaseSignature, Blessed
<1>2. CASE ~ KeyPinned
  BY <1>2 DEF Blessed
<1> QED
  BY <1>1, <1>2

(* A record of Call, field by field.                                       *)
LEMMA CallRecord ==
    ASSUME NEW c \in Call
    PROVE  /\ c = [at |-> c.at, d |-> c.d, archive |-> c.archive, next |-> c.next,
                   shared |-> c.shared]
           /\ c.at \in At /\ c.d \in Directives /\ c.d \in UpdateDirective
           /\ c.archive \in Artifacts \cup {None} /\ c.next \in Nat /\ c.shared \in BOOLEAN
           /\ c # Idle /\ c.at # "idle"
BY DirectivesAssumption DEF Call, Idle, At

(* What an archive and its entries are.                                    *)
LEMMA Archives ==
    ASSUME NEW a \in Artifacts
    PROVE  /\ Contents[a].entries \in Seq(Entry) /\ Len(Contents[a].entries) \in Nat
           /\ \A i \in 1 .. Len(Contents[a].entries) : Contents[a].entries[i] \in Entry
BY ContentsAssumption

----------------------------------------------------------------------------
(* An empty directory holds the first zero entries of every archive.       *)
LEMMA EmptyHolds == ASSUME NEW a PROVE Holds(EmptyMap, a, 0)
<1>1. 1 .. 0 = {} /\ Put(a, 0) = {}
  BY DEF Put
<1> QED
  BY <1>1 DEF Holds, EmptyMap

(* One more entry is left out.                                             *)
LEMMA SkipHolds ==
    ASSUME NEW a \in Artifacts, NEW n \in 1 .. Len(Contents[a].entries), NEW dir,
           Holds(dir, a, n - 1), ~ Refused(a, Contents[a].entries[n]),
           Skipped(a, Contents[a].entries[n])
    PROVE  Holds(dir, a, n)
<1>1. n \in Nat /\ 1 .. n = (1 .. n - 1) \cup {n}
  BY Archives
<1>2. Put(a, n) = Put(a, n - 1)
  BY <1>1 DEF Put
<1> QED
  BY <1>1, <1>2 DEF Holds

(* One more entry is written.                                              *)
LEMMA PutHolds ==
    ASSUME NEW a \in Artifacts, NEW n \in 1 .. Len(Contents[a].entries), NEW dir, NEW content,
           Holds(dir, a, n - 1), Wrote(content, a, Contents[a].entries[n]),
           ~ Refused(a, Contents[a].entries[n]), ~ Skipped(a, Contents[a].entries[n])
    PROVE  Holds(Store(dir, Contents[a].entries[n].name, content), a, n)
<1> DEFINE es == Contents[a].entries
           new == Store(dir, es[n].name, content)
<1>1. n \in Nat /\ 1 .. n = (1 .. n - 1) \cup {n}
  BY Archives
<1>2. Put(a, n) = Put(a, n - 1) \cup {n} /\ Put(a, n - 1) \subseteq 1 .. n - 1
  BY <1>1 DEF Put
<1>3. /\ \A i \in 1 .. n - 1 : ~ Refused(a, es[i])
      /\ DOMAIN dir = {es[i].name : i \in Put(a, n - 1)}
      /\ \A i \in Put(a, n - 1) :
           (\A j \in Put(a, n - 1) : es[j].name = es[i].name => j <= i) =>
             Wrote(dir[es[i].name], a, es[i])
  BY DEF Holds
<1>4. DOMAIN new = {es[i].name : i \in Put(a, n)}
  BY <1>2, <1>3 DEF Store
<1>5. ASSUME NEW i \in Put(a, n), \A j \in Put(a, n) : es[j].name = es[i].name => j <= i
      PROVE  Wrote(new[es[i].name], a, es[i])
  <2>1. CASE i = n
    <3>1. new[es[i].name] = content
      BY <2>1 DEF Store
    <3> QED
      BY <2>1, <3>1
  <2>2. CASE i # n
    <3>1. i \in Put(a, n - 1) /\ ~ (n <= i)
      BY <1>1, <1>2, <2>2
    <3>2. es[n].name # es[i].name
      BY <1>2, <1>5, <3>1
    <3>3. new[es[i].name] = dir[es[i].name]
      BY <1>3, <3>1, <3>2 DEF Store
    <3>4. Wrote(dir[es[i].name], a, es[i])
      BY <1>2, <1>3, <1>5, <3>1
    <3> QED
      BY <3>3, <3>4
  <2> QED
    BY <2>1, <2>2
<1>6. \A i \in 1 .. n : ~ Refused(a, es[i])
  BY <1>1, <1>3
<1> HIDE DEF new
<1>7. Holds(new, a, n)
  BY <1>4, <1>5, <1>6 DEF Holds
<1> QED
  BY <1>7 DEF new

----------------------------------------------------------------------------
(* Directories.                                                            *)
LEMMA Dirs ==
    /\ EmptyMap \in Dir
    /\ \A dir \in Dir : /\ DOMAIN dir \subseteq Files
                        /\ \A f \in DOMAIN dir : dir[f] \in Artifacts \cup {Torn}
                        /\ \A kept \in SUBSET DOMAIN dir : [f \in kept |-> dir[f]] \in Dir
                        /\ \A f \in Files, x \in Artifacts \cup {Torn} : Store(dir, f, x) \in Dir
<1>1. ASSUME NEW dir, NEW S \in SUBSET Files, dir \in [S -> Artifacts \cup {Torn}]
      PROVE  dir \in Dir
  BY <1>1 DEF Dir
<1>2. EmptyMap \in [{} -> Artifacts \cup {Torn}]
  BY DEF EmptyMap
<1>3. EmptyMap \in Dir
  BY <1>1, <1>2
<1>4. ASSUME NEW dir \in Dir
      PROVE  /\ DOMAIN dir \subseteq Files
             /\ \A f \in DOMAIN dir : dir[f] \in Artifacts \cup {Torn}
             /\ \A kept \in SUBSET DOMAIN dir : [f \in kept |-> dir[f]] \in Dir
             /\ \A f \in Files, x \in Artifacts \cup {Torn} : Store(dir, f, x) \in Dir
  <2>1. PICK S \in SUBSET Files : dir \in [S -> Artifacts \cup {Torn}]
    BY DEF Dir
  <2>2. ASSUME NEW kept \in SUBSET DOMAIN dir
        PROVE  [f \in kept |-> dir[f]] \in Dir
    <3>1. [f \in kept |-> dir[f]] \in [kept -> Artifacts \cup {Torn}] /\ kept \in SUBSET Files
      BY <2>1
    <3> QED
      BY <1>1, <3>1
  <2>3. ASSUME NEW f \in Files, NEW x \in Artifacts \cup {Torn}
        PROVE  Store(dir, f, x) \in Dir
    <3>1. Store(dir, f, x) \in [S \cup {f} -> Artifacts \cup {Torn}] /\ S \cup {f} \in SUBSET Files
      BY <2>1 DEF Store
    <3> QED
      BY <1>1, <3>1
  <2> QED
    BY <2>1, <2>2, <2>3
<1> QED
  BY <1>3, <1>4

(* A call under way.                                                       *)
LEMMA UnderWay ==
    ASSUME InstallInv, NEW p \in Installers, call[p].at # "idle"
    PROVE  /\ call[p] \in Call /\ VerDir(p) \in Versions
           /\ call[p].at \in {"verify", "clear"} \cup Inside => call[p].archive \in Artifacts
<1>1. call[p] \in Call
  BY DEF InstallInv, TypeOK, Idle
<1>2. InstallerOK(p) /\ call[p] # Idle
  BY DEF InstallInv, Idle
<1> QED
  BY <1>1, <1>2, BlessedAreArtifacts DEF InstallerOK

(* A step of installer p leaves what is known of another one, unless it    *)
(* makes it share its directory.                                           *)
LEMMA Bystander ==
    ASSUME InstallInv, NEW q \in Installers,
           \/ call'[q] = call[q]
           \/ call[q].at \in Inside /\ call'[q] = [call[q] EXCEPT !.shared = TRUE],
           call[q].at \in Inside /\ VerDir(q) = current' => disturbed',
           call[q].at \in Inside /\ ~ call'[q].shared =>
             dirs'[VerDir(q)] = dirs[VerDir(q)] /\ Others(q)' = {}
    PROVE  call'[q] \in {Idle} \cup Call /\ InstallerOK(q)'
<1>1. call[q] \in {Idle} \cup Call /\ InstallerOK(q)
  BY DEF InstallInv, TypeOK
<1>2. CASE call'[q] = call[q]
  <2>1. VerDir(q)' = VerDir(q) /\ Entries(q)' = Entries(q)
    BY <1>2 DEF VerDir, Entries
  <2>2. call[q].at \in {"run", "flip"} => call[q].at \in Inside
    BY DEF Inside
  <2> QED
    BY <1>1, <1>2, <2>1, <2>2 DEF InstallerOK
<1>3. CASE call[q].at \in Inside /\ call'[q] = [call[q] EXCEPT !.shared = TRUE]
  <2>1. call[q] \in Call
    BY <1>1, <1>3 DEF Idle, Inside
  <2>2. /\ call'[q] \in Call /\ call'[q].shared
        /\ call'[q].at = call[q].at /\ call'[q].d = call[q].d
        /\ call'[q].archive = call[q].archive /\ call'[q].next = call[q].next
    BY <1>3, <2>1 DEF Call
  <2>3. VerDir(q)' = VerDir(q) /\ Entries(q)' = Entries(q)
    BY <2>2 DEF VerDir, Entries
  <2>4. call[q] # Idle
    BY <2>1, CallRecord
  <2> QED
    BY <1>1, <1>3, <2>2, <2>3, <2>4 DEF InstallerOK, Inside
<1> QED
  BY <1>2, <1>3

(* A step of installer p that does not enter a directory.                  *)
LEMMA OneCall ==
    ASSUME InstallInv, NEW p \in Installers, NEW c \in {Idle} \cup Call,
           call' = [call EXCEPT ![p] = c],
           c.at \in Inside => call[p].at \in Inside /\ c.d = call[p].d,
           \A v \in Versions : dirs'[v] = dirs[v] \/ (call[p].at \in Inside /\ v = VerDir(p)),
           \A q \in Installers \ {p} :
             call[q].at \in Inside /\ VerDir(q) = current' => disturbed',
           InstallerOK(p)'
    PROVE  /\ call' \in [Installers -> {Idle} \cup Call]
           /\ \A q \in Installers : InstallerOK(q)'
<1>1. call \in [Installers -> {Idle} \cup Call] /\ call'[p] = c
      /\ \A q \in Installers \ {p} : call'[q] = call[q]
  BY DEF InstallInv, TypeOK
<1>2. ASSUME NEW q \in Installers \ {p}, call[q].at \in Inside, ~ call'[q].shared
      PROVE  dirs'[VerDir(q)] = dirs[VerDir(q)] /\ Others(q)' = {}
  <2>1. Others(q) = {} /\ VerDir(q) \in Versions
    <3>1. InstallerOK(q) /\ call[q].at # "idle" /\ ~ call[q].shared
      BY <1>1, <1>2 DEF InstallInv, Inside
    <3> QED
      BY <1>2, <3>1, UnderWay DEF InstallerOK
  <2>2. call[p].at \in Inside => VerDir(p) # VerDir(q)
    BY <2>1 DEF Others
  <2>3. ASSUME NEW r \in Installers \ {q}, call'[r].at \in Inside, VerDir(r)' = VerDir(q)'
        PROVE  r \in Others(q)
    <3>1. call[r].at \in Inside /\ call'[r].d = call[r].d
      BY <1>1, <2>3
    <3> QED
      BY <1>1, <2>3, <3>1 DEF VerDir, Others
  <2>4. Others(q)' = {}
    BY <2>1, <2>3 DEF Others
  <2> QED
    BY <2>1, <2>2, <2>4
<1>3. ASSUME NEW q \in Installers \ {p}
      PROVE  InstallerOK(q)'
  BY <1>1, <1>2, Bystander
<1> QED
  BY <1>1, <1>3

(* A step that clears p's directory and tells who works there.             *)
LEMMA EntersOK ==
    ASSUME InstallInv, NEW p \in Installers, NEW c \in {Idle} \cup Call,
           call[p].at = "clear", Enters(p, c), c # Idle => c.d = call[p].d,
           \A v \in Versions : dirs'[v] = dirs[v] \/ v = VerDir(p),
           current' = current, disturbed' = (disturbed \/ VerDir(p) = current)
    PROVE  /\ call'[p] = c /\ (c # Idle => Others(p)' = Others(p))
           /\ \A q \in Installers : call'[q] \in {Idle} \cup Call
           /\ \A q \in Installers \ {p} : InstallerOK(q)'
<1>1. /\ call'[p] = c
      /\ \A q \in Installers \ {p} :
           call'[q] = IF q \in Others(p) THEN [call[q] EXCEPT !.shared = TRUE] ELSE call[q]
  BY DEF Enters
<1>2. ASSUME NEW q \in Installers \ {p}
      PROVE  /\ call'[q].at = call[q].at
             /\ q \in Others(p) => call[q].at \in Inside /\ call'[q].shared
             /\ call[q].at \in Inside => call'[q].d = call[q].d
             /\ call[q].at \in Inside => VerDir(q)' = VerDir(q)
  <2>1. CASE q \in Others(p)
    <3>1. call[q].at \in Inside /\ call'[q] = [call[q] EXCEPT !.shared = TRUE]
      BY <1>1, <2>1 DEF Others
    <3>2. call[q] \in Call
      BY <3>1, UnderWay DEF Inside
    <3> QED
      BY <3>1, <3>2 DEF Call, VerDir
  <2>2. CASE q \notin Others(p)
    BY <1>1, <2>2 DEF VerDir
  <2> QED
    BY <2>1, <2>2
<1>3. c # Idle => VerDir(p)' = VerDir(p)
  BY <1>1 DEF VerDir
<1>4. c # Idle => Others(p)' = Others(p)
  BY <1>2, <1>3 DEF Others
<1>5. ASSUME NEW q \in Installers \ {p}, call[q].at \in Inside, ~ call'[q].shared
      PROVE  dirs'[VerDir(q)] = dirs[VerDir(q)] /\ Others(q)' = {}
  <2>1. q \notin Others(p) /\ call'[q] = call[q] /\ VerDir(q) # VerDir(p)
    BY <1>1, <1>2, <1>5 DEF Others
  <2>2. Others(q) = {} /\ VerDir(q) \in Versions
    <3>1. InstallerOK(q) /\ call[q].at # "idle" /\ ~ call[q].shared
      BY <1>5, <2>1 DEF InstallInv, Inside
    <3> QED
      BY <1>5, <3>1, UnderWay DEF InstallerOK
  <2>3. ASSUME NEW r \in Installers \ {q}, call'[r].at \in Inside, VerDir(r)' = VerDir(q)'
        PROVE  FALSE
    <3>1. CASE r = p
      BY <1>1, <1>2, <1>3, <1>5, <2>1, <2>3, <3>1 DEF Idle, Inside
    <3>2. CASE r # p
      BY <1>2, <1>5, <2>2, <2>3, <3>2 DEF Others
    <3> QED
      BY <3>1, <3>2
  <2> QED
    BY <2>1, <2>2, <2>3 DEF Others
<1>6. ASSUME NEW q \in Installers \ {p}
      PROVE  call'[q] \in {Idle} \cup Call /\ InstallerOK(q)'
  <2>1. call[q].at \in Inside /\ VerDir(q) = current' => disturbed'
    BY DEF InstallInv, InstallerOK
  <2>2. \/ call'[q] = call[q]
        \/ call[q].at \in Inside /\ call'[q] = [call[q] EXCEPT !.shared = TRUE]
    BY <1>1, <1>2
  <2> QED
    BY <1>5, <2>1, <2>2, Bystander
<1> QED
  BY <1>1, <1>4, <1>6

(* What current resolves to stays as it was, or was disturbed.             *)
LEMMA CurrentStays ==
    ASSUME CurrentIsWhole, current' = current, disturbed => disturbed',
           current = None \/ disturbed' \/ dirs'[current] = dirs[current]
    PROVE  CurrentIsWhole'
<1> SUFFICES ASSUME current # None, ~ disturbed'
             PROVE  Has(Resolved, Entrypoint)' /\ \E a \in Blessed : HoldsAll(Resolved, a)'
  BY DEF CurrentIsWhole
<1>1. Resolved' = Resolved
  BY DEF Resolved
<1> QED
  BY <1>1 DEF CurrentIsWhole, HoldsAll, Holds, Has

----------------------------------------------------------------------------
(* A step that touches neither directories nor current.                    *)
LEMMA Quiet ==
    ASSUME InstallInv, NEW p \in Installers, NEW c \in {Idle} \cup Call,
           call' = [call EXCEPT ![p] = c],
           c.at \in Inside => call[p].at \in Inside /\ c.d = call[p].d,
           UNCHANGED <<dirs, current, disturbed>>,
           InstallerOK(p)'
    PROVE  InstallInv'
<1>1. \A q \in Installers \ {p} : call[q].at \in Inside /\ VerDir(q) = current' => disturbed'
  BY DEF InstallInv, InstallerOK
<1>2. call' \in [Installers -> {Idle} \cup Call] /\ \A q \in Installers : InstallerOK(q)'
  BY <1>1, OneCall
<1>3. CurrentIsWhole'
  BY CurrentStays DEF InstallInv
<1> QED
  BY <1>2, <1>3 DEF InstallInv, TypeOK, OnlyVerifiedFiles

(* The invariant of a call that is over.                                   *)
LEMMA IdleOK == ASSUME NEW p, call'[p] = Idle PROVE InstallerOK(p)'
BY DEF InstallerOK, Idle, Inside

LEMMA StartsInv ==
    ASSUME InstallInv, NEW p \in Installers, SelfInstallStarts(p)
    PROVE  InstallInv'
<1>1. PICK d \in Directives :
        /\ ~ IsBinary(d) /\ InstallVersion(d) # None
        /\ call' = [call EXCEPT ![p] = [at |-> "download", d |-> d, archive |-> None,
                                        next |-> 1, shared |-> FALSE]]
  BY DEF SelfInstallStarts
<1> DEFINE c == [at |-> "download", d |-> d, archive |-> None, next |-> 1, shared |-> FALSE]
<1>2. c \in Call
  BY DEF Call
<1>3. call'[p] = c
  BY <1>1 DEF InstallInv, TypeOK
<1>4. InstallVersion(d) \in Versions
  BY <1>1, DirectivesAssumption, NoneAssumption
     DEF UpdateDirective, ReleaseManifest, InstallVersion, IsBinary
<1>5. InstallerOK(p)'
  BY <1>3, <1>4 DEF InstallerOK, VerDir, Inside
<1>6. c.at \notin Inside
  BY DEF Inside
<1> HIDE DEF c
<1>7. call' = [call EXCEPT ![p] = c]
  BY <1>1 DEF c
<1> QED
  BY <1>2, <1>5, <1>6, <1>7, Quiet DEF SelfInstallStarts

LEMMA FailsInv ==
    ASSUME InstallInv, NEW p \in Installers, SelfInstallFails(p)
    PROVE  InstallInv'
<1>1. call' = [call EXCEPT ![p] = Idle] /\ call'[p] = Idle
  BY DEF SelfInstallFails, InstallInv, TypeOK
<1>2. Idle.at \notin Inside
  BY DEF Idle, Inside
<1> QED
  BY <1>1, <1>2, IdleOK, Quiet DEF SelfInstallFails

(* Moving on to the next stage.                                            *)
LEMMA Moves ==
    ASSUME InstallInv, NEW p \in Installers, NEW from, NEW to, Steps(p, from, to),
           from # "idle", to \in At
    PROVE  /\ [call[p] EXCEPT !.at = to] \in Call
           /\ call' = [call EXCEPT ![p] = [call[p] EXCEPT !.at = to]]
           /\ call'[p].at = to /\ call'[p].d = call[p].d /\ call'[p].next = call[p].next
           /\ call'[p].archive = call[p].archive /\ call'[p].shared = call[p].shared
           /\ VerDir(p)' = VerDir(p) /\ Entries(p)' = Entries(p)
<1>1. call[p] \in Call /\ p \in DOMAIN call
  BY UnderWay DEF Steps, InstallInv, TypeOK
<1>2. call' = [call EXCEPT ![p] = [call[p] EXCEPT !.at = to]]
  BY DEF Steps
<1>3. call'[p] = [call[p] EXCEPT !.at = to]
  BY <1>1, <1>2 DEF InstallInv, TypeOK
<1>4. [call[p] EXCEPT !.at = to] \in Call
  BY <1>1 DEF Call, At
<1>5. /\ call'[p].at = to /\ call'[p].d = call[p].d /\ call'[p].next = call[p].next
      /\ call'[p].archive = call[p].archive /\ call'[p].shared = call[p].shared
  BY <1>1, <1>3 DEF Call
<1> QED
  BY <1>2, <1>4, <1>5 DEF VerDir, Entries

LEMMA DownloadInv ==
    ASSUME InstallInv, NEW p \in Installers, Download(p)
    PROVE  InstallInv'
<1>1. PICK a \in Artifacts :
        call' = [call EXCEPT ![p] = [[call[p] EXCEPT !.at = "verify"] EXCEPT !.archive = a]]
  BY DEF Download
<1> DEFINE c == [[call[p] EXCEPT !.at = "verify"] EXCEPT !.archive = a]
<1>2. call[p] \in Call /\ VerDir(p) \in Versions /\ call[p].next = 1
  BY UnderWay DEF Download, InstallInv, InstallerOK
<1>3. c \in Call /\ c.at = "verify" /\ c.archive = a /\ c.d = call[p].d /\ c.next = 1
  BY <1>2 DEF Call
<1> HIDE DEF c
<1>4. call' = [call EXCEPT ![p] = c] /\ call'[p] = c
  BY <1>1 DEF c, InstallInv, TypeOK
<1>5. InstallerOK(p)' /\ c.at \notin Inside
  BY <1>2, <1>3, <1>4 DEF InstallerOK, VerDir, Inside
<1> QED
  BY <1>3, <1>4, <1>5, Quiet DEF Download

LEMMA VerifyInv ==
    ASSUME InstallInv, NEW p \in Installers, Verify(p)
    PROVE  InstallInv'
<1>1. /\ call[p] \in Call /\ VerDir(p) \in Versions /\ call[p].archive \in Artifacts
      /\ call[p].next = 1 /\ call[p].d \in UpdateDirective
  BY UnderWay, CallRecord DEF Verify, Steps, InstallInv, InstallerOK
<1>2. call[p].archive \in Blessed
  BY <1>1, GateBlesses DEF Verify
<1> DEFINE c == [call[p] EXCEPT !.at = "clear"]
<1>3. /\ c \in Call /\ call' = [call EXCEPT ![p] = c]
      /\ call'[p].at = "clear" /\ call'[p].next = 1
      /\ call'[p].archive = call[p].archive /\ VerDir(p)' = VerDir(p)
  BY <1>1, Moves DEF Verify, At
<1>4. InstallerOK(p)'
  BY <1>1, <1>2, <1>3 DEF InstallerOK, Inside
<1>5. c.at \notin Inside
  BY <1>1 DEF Call, Inside
<1> HIDE DEF c
<1> QED
  BY <1>3, <1>4, <1>5, Quiet DEF Verify

(* Clearing the directory, wholly or in part.                              *)
LEMMA ClearsInv ==
    ASSUME InstallInv, NEW p \in Installers, NEW c \in {Idle} \cup Call, NEW dir \in Dir,
           call[p].at = "clear", Enters(p, c), c # Idle => c.d = call[p].d,
           dirs' = [dirs EXCEPT ![VerDir(p)] = dir],
           \A f \in DOMAIN dir : f \in DOMAIN dirs[VerDir(p)] /\ dir[f] = dirs[VerDir(p)][f],
           disturbed' = (disturbed \/ VerDir(p) = current),
           UNCHANGED current,
           InstallerOK(p)'
    PROVE  InstallInv'
<1>1. VerDir(p) \in Versions /\ dirs \in [Versions -> Dir]
  BY UnderWay DEF InstallInv, TypeOK
<1>2. /\ dirs' \in [Versions -> Dir] /\ dirs'[VerDir(p)] = dir
      /\ \A v \in Versions : v # VerDir(p) => dirs'[v] = dirs[v]
  BY <1>1
<1>3. /\ \A q \in Installers : call'[q] \in {Idle} \cup Call
      /\ \A q \in Installers \ {p} : InstallerOK(q)'
  BY <1>2, EntersOK
<1>4. call' \in [Installers -> {Idle} \cup Call]
  BY <1>3 DEF Enters
<1>5. OnlyVerifiedFiles'
  BY <1>1, <1>2 DEF InstallInv, OnlyVerifiedFiles
<1>6. CurrentIsWhole'
  BY <1>1, <1>2, CurrentStays DEF InstallInv, TypeOK
<1> QED
  BY <1>2, <1>3, <1>4, <1>5, <1>6 DEF InstallInv, TypeOK

LEMMA ClearInv ==
    ASSUME InstallInv, NEW p \in Installers, Clear(p)
    PROVE  InstallInv'
<1> DEFINE c == Cleared(p)
<1>1. /\ call[p] \in Call /\ VerDir(p) \in Versions /\ call[p].archive \in Artifacts
      /\ call[p].archive \in Blessed /\ call[p].next = 1 /\ dirs \in [Versions -> Dir]
  BY UnderWay DEF Clear, InstallInv, InstallerOK, TypeOK
<1>2. /\ c \in Call /\ c.at = "unpack" /\ c.d = call[p].d /\ c.next = 1
      /\ c.archive = call[p].archive /\ c.shared = (Others(p) # {})
  BY <1>1 DEF Cleared, Call
<1>3. c # Idle
  BY <1>2, CallRecord
<1>4. /\ \A v \in Versions : dirs'[v] = dirs[v] \/ v = VerDir(p)
      /\ dirs'[VerDir(p)] = EmptyMap
  BY <1>1 DEF Clear
<1> HIDE DEF c
<1>5. Enters(p, c)
  BY DEF Clear, c
<1>6. call'[p] = c /\ Others(p)' = Others(p)
  BY <1>2, <1>3, <1>4, <1>5, EntersOK DEF Clear
<1>7. VerDir(p)' = VerDir(p) /\ Entries(p)' = Entries(p)
  BY <1>2, <1>6 DEF VerDir, Entries
<1>8. Holds(dirs[VerDir(p)], call[p].archive, call[p].next - 1)'
  <2>1. dirs'[VerDir(p)'] = EmptyMap /\ call'[p].next - 1 = 0
    BY <1>2, <1>4, <1>6, <1>7
  <2>2. Holds(EmptyMap, call[p].archive, 0)
    BY EmptyHolds
  <2> QED
    BY <1>2, <1>6, <2>1, <2>2 DEF Holds
<1>9. InstallerOK(p)'
  <2>1. Len(Entries(p)) \in Nat
    BY <1>1, Archives DEF Entries
  <2>2. VerDir(p)' = current' => disturbed'
    BY <1>7 DEF Clear
  <2>3. ~ call'[p].shared => Others(p)' = {}
    BY <1>2, <1>6
  <2>4. call'[p].next \in 1 .. Len(Entries(p)') + 1
    BY <1>2, <1>6, <1>7, <2>1
  <2>5. call'[p].at = "unpack" /\ call'[p].archive \in Blessed /\ VerDir(p)' \in Versions
    BY <1>1, <1>2, <1>6, <1>7
  <2> QED
    BY <1>8, <2>2, <2>3, <2>4, <2>5 DEF InstallerOK, Inside
<1> QED
  BY <1>2, <1>3, <1>5, <1>9, Dirs, ClearsInv DEF Clear, EmptyMap

LEMMA ClearFailsInv ==
    ASSUME InstallInv, NEW p \in Installers, ClearFails(p)
    PROVE  InstallInv'
<1>1. VerDir(p) \in Versions /\ dirs[VerDir(p)] \in Dir
  BY UnderWay DEF ClearFails, InstallInv, TypeOK
<1>2. PICK kept \in SUBSET DOMAIN dirs[VerDir(p)] :
        dirs' = [dirs EXCEPT ![VerDir(p)] = [f \in kept |-> dirs[VerDir(p)][f]]]
  BY DEF ClearFails
<1> DEFINE dir == [f \in kept |-> dirs[VerDir(p)][f]]
<1>3. dir \in Dir /\ \A f \in DOMAIN dir : f \in DOMAIN dirs[VerDir(p)] /\ dir[f] = dirs[VerDir(p)][f]
  BY <1>1, Dirs
<1>4. call'[p] = Idle
  BY DEF ClearFails, Enters
<1> HIDE DEF dir
<1>5. dirs' = [dirs EXCEPT ![VerDir(p)] = dir]
  BY <1>2 DEF dir
<1> QED
  BY <1>3, <1>4, <1>5, IdleOK, ClearsInv DEF ClearFails

----------------------------------------------------------------------------
(* Writing, whole or not, what the archive's next entry says.              *)
LEMMA PutsInv ==
    ASSUME InstallInv, NEW p \in Installers, NEW c \in {Idle} \cup Call, NEW content,
           AtEntry(p), Writes(p), Puts(p, content), content \in {Torn, call[p].archive},
           call' = [call EXCEPT ![p] = c], c.at \in Inside => c.d = call[p].d,
           UNCHANGED <<current, disturbed>>,
           InstallerOK(p)'
    PROVE  InstallInv'
<1>1. /\ call[p] \in Call /\ VerDir(p) \in Versions /\ call[p].archive \in Artifacts
      /\ call[p].archive \in Blessed /\ dirs \in [Versions -> Dir]
      /\ call[p].next \in 1 .. Len(Entries(p)) /\ call[p].at \in Inside
      /\ VerDir(p) = current => disturbed
  BY UnderWay, Archives DEF AtEntry, InstallInv, InstallerOK, TypeOK, Inside, Entries
<1>2. Current(p).name \in Files
  BY <1>1, Archives DEF Current, Entries, Writes, Refused, Skipped, Entry
<1> DEFINE dir == Store(dirs[VerDir(p)], Current(p).name, content)
<1>3. content \in Artifacts \cup {Torn} /\ content \in Blessed \cup {Torn}
  BY <1>1
<1>4. /\ dir \in Dir
      /\ \A f \in DOMAIN dir : \/ f \in DOMAIN dirs[VerDir(p)] /\ dir[f] = dirs[VerDir(p)][f]
                               \/ dir[f] = content
  <2>1. dirs[VerDir(p)] \in Dir
    BY <1>1
  <2>2. dir \in Dir
    BY <1>2, <1>3, <2>1, Dirs
  <2> QED
    BY <2>2 DEF Store
<1> HIDE DEF dir
<1>5. dirs' = [dirs EXCEPT ![VerDir(p)] = dir]
  BY DEF Puts, dir
<1>6. /\ dirs' \in [Versions -> Dir] /\ dirs'[VerDir(p)] = dir
      /\ \A v \in Versions : v # VerDir(p) => dirs'[v] = dirs[v]
  BY <1>1, <1>4, <1>5
<1>7. \A q \in Installers \ {p} : call[q].at \in Inside /\ VerDir(q) = current' => disturbed'
  BY DEF InstallInv, InstallerOK
<1>8. call' \in [Installers -> {Idle} \cup Call] /\ \A q \in Installers : InstallerOK(q)'
  BY <1>1, <1>6, <1>7, OneCall
<1>9. OnlyVerifiedFiles'
  <2> SUFFICES ASSUME NEW v \in Versions, NEW f \in DOMAIN dirs'[v]
               PROVE  dirs'[v][f] \in Blessed \cup {Torn}
    BY DEF OnlyVerifiedFiles
  <2> QED
    BY <1>3, <1>4, <1>6 DEF InstallInv, OnlyVerifiedFiles
<1>10. CurrentIsWhole'
  BY <1>1, <1>6, CurrentStays DEF InstallInv, TypeOK
<1> QED
  BY <1>6, <1>8, <1>9, <1>10 DEF InstallInv, TypeOK

(* An installer at an entry of its archive.                                *)
LEMMA Unpacking ==
    ASSUME InstallInv, NEW p \in Installers, AtEntry(p)
    PROVE  /\ call[p] \in Call /\ VerDir(p) \in Versions /\ call[p].at \in Inside
           /\ call[p].archive \in Artifacts /\ call[p].archive \in Blessed
           /\ call[p].next \in 1 .. Len(Entries(p)) /\ Len(Entries(p)) \in Nat
           /\ dirs \in [Versions -> Dir] /\ InstallerOK(p)
BY UnderWay, Archives DEF AtEntry, InstallInv, InstallerOK, TypeOK, Inside, Entries

(* It moves on to the next entry, when its directory holds this one.       *)
LEMMA NextEntryOK ==
    ASSUME InstallInv, NEW p \in Installers, AtEntry(p),
           call' = [call EXCEPT ![p].next = @ + 1], UNCHANGED <<current, disturbed>>,
           ~ call[p].shared => Holds(dirs'[VerDir(p)], call[p].archive, call[p].next)
    PROVE  LET c == [call[p] EXCEPT !.next = @ + 1]
           IN  /\ c \in Call /\ call' = [call EXCEPT ![p] = c]
               /\ c.at \in Inside /\ c.d = call[p].d
               /\ InstallerOK(p)'
<1> DEFINE c == [call[p] EXCEPT !.next = @ + 1]
<1>1. /\ call[p] \in Call /\ VerDir(p) \in Versions /\ call[p].at = "unpack"
      /\ call[p].archive \in Blessed /\ InstallerOK(p) /\ Len(Entries(p)) \in Nat
      /\ call[p].next \in 1 .. Len(Entries(p))
  BY Unpacking DEF AtEntry
<1>2. /\ c \in Call /\ c.at = "unpack" /\ c.d = call[p].d /\ c.archive = call[p].archive
      /\ c.next = call[p].next + 1 /\ c.shared = call[p].shared
  BY <1>1 DEF Call
<1> HIDE DEF c
<1>3. call' = [call EXCEPT ![p] = c] /\ call'[p] = c
  BY DEF c, InstallInv, TypeOK
<1>4. VerDir(p)' = VerDir(p) /\ Entries(p)' = Entries(p)
  BY <1>2, <1>3 DEF VerDir, Entries
<1>5. Others(p)' = Others(p)
  BY <1>3, <1>4 DEF InstallInv, TypeOK, Others, VerDir
<1>6. ~ call'[p].shared => /\ Others(p)' = {}
                           /\ Holds(dirs[VerDir(p)], call[p].archive, call[p].next - 1)'
  <2> SUFFICES ASSUME ~ call[p].shared
               PROVE  /\ Others(p)' = {}
                      /\ Holds(dirs[VerDir(p)], call[p].archive, call[p].next - 1)'
    BY <1>2, <1>3
  <2>1. Others(p) = {}
    BY <1>1 DEF InstallerOK, Inside
  <2>2. call'[p].next - 1 = call[p].next
    BY <1>1, <1>2, <1>3
  <2>3. PICK dir, a, n : /\ dir = dirs'[VerDir(p)] /\ a = call[p].archive /\ n = call[p].next
                         /\ Holds(dir, a, n)
    OBVIOUS
  <2>4. dirs'[VerDir(p)'] = dir /\ call'[p].archive = a /\ call'[p].next - 1 = n
    BY <1>2, <1>3, <1>4, <2>2, <2>3
  <2>5. Holds(dirs[VerDir(p)], call[p].archive, call[p].next - 1)'
    BY <2>3, <2>4 DEF Holds
  <2> QED
    BY <1>5, <2>1, <2>5
<1>7. VerDir(p)' = current' => disturbed'
  BY <1>1, <1>4 DEF InstallerOK, Inside
<1>8. InstallerOK(p)'
  <2>1. call'[p].next \in 1 .. Len(Entries(p)') + 1
    BY <1>1, <1>2, <1>3, <1>4
  <2>2. call'[p].at = "unpack" /\ call'[p].archive \in Blessed /\ VerDir(p)' \in Versions
    BY <1>1, <1>2, <1>3, <1>4
  <2> QED
    BY <1>6, <1>7, <2>1, <2>2 DEF InstallerOK, Inside
<1>9. c.at \in Inside
  BY <1>2 DEF Inside
<1> QED
  BY <1>2, <1>3, <1>8, <1>9 DEF c

(* What an entry's file holds when the unpacking goes on.                  *)
LEMMA PutsOn ==
    ASSUME InstallInv, NEW p \in Installers, NEW content, AtEntry(p), Writes(p),
           Puts(p, content), content \in {Torn, call[p].archive},
           Wrote(content, call[p].archive, Current(p)),
           call' = [call EXCEPT ![p].next = @ + 1],
           UNCHANGED <<current, disturbed>>
    PROVE  InstallInv'
<1>1. /\ call[p].archive \in Artifacts /\ dirs \in [Versions -> Dir] /\ VerDir(p) \in Versions
      /\ call[p].next \in 1 .. Len(Entries(p)) /\ InstallerOK(p) /\ call[p].at \in Inside
  BY Unpacking
<1>2. dirs'[VerDir(p)] = Store(dirs[VerDir(p)], Current(p).name, content)
  BY <1>1 DEF Puts
<1>3. ~ call[p].shared => Holds(dirs'[VerDir(p)], call[p].archive, call[p].next)
  <2> SUFFICES ASSUME ~ call[p].shared
               PROVE  Holds(dirs'[VerDir(p)], call[p].archive, call[p].next)
    OBVIOUS
  <2>1. Holds(dirs[VerDir(p)], call[p].archive, call[p].next - 1)
    BY <1>1 DEF InstallerOK
  <2> QED
    BY <1>1, <1>2, <2>1, PutHolds DEF Current, Entries, Writes
<1>4. PICK c \in Call : /\ call' = [call EXCEPT ![p] = c] /\ c.d = call[p].d
                        /\ InstallerOK(p)'
  BY <1>3, NextEntryOK
<1> QED
  BY <1>4, PutsInv

LEMMA UnpackInv ==
    ASSUME InstallInv, NEW p \in Installers, Unpack(p) \/ ZipCloseFails(p)
    PROVE  InstallInv'
<1>1. AtEntry(p) /\ call' = [call EXCEPT ![p].next = @ + 1]
      /\ UNCHANGED <<current, disturbed>>
  BY DEF Unpack, ZipCloseFails
<1>2. CASE /\ Writes(p)
           /\ Puts(p, IF Current(p).kind = "long" THEN Torn ELSE call[p].archive)
  <2>1. CASE Current(p).kind = "long"
    BY <1>1, <1>2, <2>1, PutsOn DEF Wrote
  <2>2. CASE Current(p).kind # "long"
    BY <1>1, <1>2, <2>2, PutsOn DEF Wrote
  <2> QED
    BY <2>1, <2>2
<1>3. CASE ZipCloseFails(p)
  BY <1>1, <1>3, PutsOn DEF ZipCloseFails, Wrote
<1>4. CASE /\ Skipped(call[p].archive, Current(p)) /\ UNCHANGED dirs
           /\ ~ Refused(call[p].archive, Current(p))
  <2>1. /\ call[p].archive \in Artifacts /\ InstallerOK(p) /\ call[p].at \in Inside
        /\ call[p].next \in 1 .. Len(Entries(p))
    BY <1>1, Unpacking
  <2>2. ~ call[p].shared => Holds(dirs'[VerDir(p)], call[p].archive, call[p].next)
    <3>1. ~ call[p].shared => Holds(dirs[VerDir(p)], call[p].archive, call[p].next - 1)
      BY <2>1 DEF InstallerOK
    <3> QED
      BY <1>4, <2>1, <3>1, SkipHolds DEF Current, Entries
  <2>3. PICK c \in Call : /\ call' = [call EXCEPT ![p] = c] /\ c.d = call[p].d
                          /\ InstallerOK(p)'
    BY <1>1, <2>2, NextEntryOK
  <2> QED
    BY <1>1, <1>4, <2>1, <2>3, Quiet
<1> QED
  BY <1>2, <1>3, <1>4 DEF Unpack

LEMMA UnpackFailsInv ==
    ASSUME InstallInv, NEW p \in Installers, UnpackFails(p)
    PROVE  InstallInv'
<1>1. call' = [call EXCEPT ![p] = Idle] /\ call'[p] = Idle
  BY DEF UnpackFails, InstallInv, TypeOK
<1>2. Idle.at \notin Inside
  BY DEF Idle, Inside
<1> QED
  BY <1>1, <1>2, IdleOK, PutsInv DEF UnpackFails

----------------------------------------------------------------------------
(* The entrypoint is started, and exits.                                   *)
LEMMA RunsInv ==
    ASSUME InstallInv, NEW p \in Installers, RunEntrypoint(p) \/ EntrypointSucceeds(p)
    PROVE  InstallInv'
<1>1. PICK from \in {"unpack", "run"}, to \in {"run", "flip"} :
        /\ Steps(p, from, to) /\ UNCHANGED <<dirs, current, disturbed>>
        /\ from = "unpack" => call[p].next > Len(Entries(p)) /\ Has(dirs[VerDir(p)], Entrypoint)
  BY DEF RunEntrypoint, EntrypointSucceeds
<1>2. /\ call[p] \in Call /\ VerDir(p) \in Versions /\ call[p].archive \in Artifacts
      /\ call[p].at = from /\ call[p].at \in Inside /\ InstallerOK(p)
      /\ call[p].archive \in Blessed /\ call[p].next \in 1 .. Len(Entries(p)) + 1
      /\ VerDir(p) = current => disturbed
  BY <1>1, UnderWay DEF Steps, InstallInv, InstallerOK, Inside
<1>3. Len(Entries(p)) \in Nat
  BY <1>2, Archives DEF Entries
<1>4. ~ call[p].shared => /\ Others(p) = {}
                          /\ Holds(dirs[VerDir(p)], call[p].archive, call[p].next - 1)
                          /\ call[p].next = Len(Entries(p)) + 1
                          /\ Has(dirs[VerDir(p)], Entrypoint)
  BY <1>1, <1>2, <1>3 DEF InstallerOK
<1> DEFINE c == [call[p] EXCEPT !.at = to]
<1>5. /\ c \in Call /\ call' = [call EXCEPT ![p] = c] /\ call'[p] = c
      /\ call'[p].at = to /\ call'[p].d = call[p].d /\ call'[p].next = call[p].next
      /\ call'[p].archive = call[p].archive /\ call'[p].shared = call[p].shared
      /\ VerDir(p)' = VerDir(p) /\ Entries(p)' = Entries(p)
  BY <1>1, Moves DEF At, InstallInv, TypeOK
<1>6. c.at \in Inside /\ c.d = call[p].d
  BY <1>2 DEF Call, Inside
<1> HIDE DEF c
<1>7. Others(p)' = Others(p)
  BY <1>5 DEF InstallInv, TypeOK, Others, VerDir
<1>8. ~ call'[p].shared => /\ Others(p)' = {}
                           /\ Holds(dirs[VerDir(p)], call[p].archive, call[p].next - 1)'
                           /\ call'[p].next = Len(Entries(p)') + 1
                           /\ Has(dirs[VerDir(p)], Entrypoint)'
  <2> SUFFICES ASSUME ~ call[p].shared
               PROVE  /\ Others(p)' = {}
                      /\ Holds(dirs[VerDir(p)], call[p].archive, call[p].next - 1)'
                      /\ call'[p].next = Len(Entries(p)') + 1
                      /\ Has(dirs[VerDir(p)], Entrypoint)'
    BY <1>5
  <2>1. PICK dir, a, n : /\ dir = dirs[VerDir(p)] /\ a = call[p].archive /\ n = call[p].next - 1
                         /\ Holds(dir, a, n)
    BY <1>4
  <2>2. dirs'[VerDir(p)'] = dir /\ call'[p].archive = a /\ call'[p].next - 1 = n
    BY <1>1, <1>5, <2>1
  <2>3. Holds(dirs[VerDir(p)], call[p].archive, call[p].next - 1)'
    BY <2>1, <2>2 DEF Holds
  <2>4. Has(dirs[VerDir(p)], Entrypoint)'
    BY <1>1, <1>4, <1>5 DEF Has
  <2> QED
    BY <1>4, <1>5, <1>7, <2>3, <2>4
<1>9. InstallerOK(p)'
  <2>1. call'[p].next \in 1 .. Len(Entries(p)') + 1 /\ call'[p].archive \in Blessed
    BY <1>2, <1>5
  <2>2. call'[p].at \in {"run", "flip"} /\ VerDir(p)' \in Versions
    BY <1>2, <1>5
  <2>3. VerDir(p)' = current' => disturbed'
    BY <1>1, <1>2, <1>5
  <2> QED
    BY <1>8, <2>1, <2>2, <2>3 DEF InstallerOK, Inside
<1> QED
  BY <1>1, <1>2, <1>5, <1>6, <1>9, Quiet

(* current is repointed at a directory that holds a whole archive, unless  *)
(* another installer was in it.                                            *)
LEMMA RepointInv ==
    ASSUME InstallInv, NEW p \in Installers, RepointSymlink(p)
    PROVE  InstallInv'
<1>1. /\ call[p] \in Call /\ VerDir(p) \in Versions /\ call[p].archive \in Artifacts
      /\ call[p].at = "flip" /\ InstallerOK(p) /\ call[p].archive \in Blessed
      /\ call[p].shared \in BOOLEAN
  BY UnderWay, CallRecord DEF RepointSymlink, InstallInv, InstallerOK, Inside
<1>2. /\ call' = [call EXCEPT ![p] = Idle] /\ call'[p] = Idle
      /\ current' = VerDir(p) /\ disturbed' = call[p].shared /\ UNCHANGED dirs
  BY DEF RepointSymlink, InstallInv, TypeOK
<1>3. ~ call[p].shared => /\ Others(p) = {}
                          /\ HoldsAll(dirs[VerDir(p)], call[p].archive)
                          /\ Has(dirs[VerDir(p)], Entrypoint)
  <2> SUFFICES ASSUME ~ call[p].shared
               PROVE  /\ Others(p) = {}
                      /\ HoldsAll(dirs[VerDir(p)], call[p].archive)
                      /\ Has(dirs[VerDir(p)], Entrypoint)
    OBVIOUS
  <2>1. /\ Others(p) = {} /\ Has(dirs[VerDir(p)], Entrypoint)
        /\ Holds(dirs[VerDir(p)], call[p].archive, call[p].next - 1)
        /\ call[p].next = Len(Entries(p)) + 1
    BY <1>1 DEF InstallerOK, Inside
  <2>2. call[p].next - 1 = Len(Contents[call[p].archive].entries)
    BY <1>1, <2>1, Archives DEF Entries
  <2> QED
    BY <2>1, <2>2 DEF HoldsAll
<1>4. \A q \in Installers \ {p} : call[q].at \in Inside /\ VerDir(q) = current' => disturbed'
  BY <1>2, <1>3 DEF Others
<1>5. Idle.at \notin Inside
  BY DEF Idle, Inside
<1>6. call' \in [Installers -> {Idle} \cup Call] /\ \A q \in Installers : InstallerOK(q)'
  BY <1>2, <1>4, <1>5, IdleOK, OneCall
<1>7. CurrentIsWhole'
  <2> SUFFICES ASSUME ~ call[p].shared
               PROVE  Has(Resolved, Entrypoint)' /\ \E a \in Blessed : HoldsAll(Resolved, a)'
    BY <1>2 DEF CurrentIsWhole
  <2>1. Resolved' = dirs[VerDir(p)]
    BY <1>1, <1>2, NoneAssumption DEF Resolved
  <2>2. PICK a \in Blessed : HoldsAll(dirs[VerDir(p)], a)
    BY <1>1, <1>3
  <2>3. HoldsAll(Resolved, a)'
    BY <2>1, <2>2 DEF HoldsAll, Holds
  <2> QED
    BY <1>3, <2>1, <2>3 DEF Has
<1> QED
  BY <1>1, <1>2, <1>6, <1>7 DEF InstallInv, TypeOK, OnlyVerifiedFiles

LEMMA StutterInv ==
    ASSUME InstallInv, UNCHANGED vars
    PROVE  InstallInv'
<1>1. UNCHANGED <<dirs, current, disturbed, call>>
  BY DEF vars
<1>2. CurrentIsWhole'
  BY <1>1, CurrentStays DEF InstallInv
<1>3. ASSUME NEW q \in Installers
      PROVE  InstallerOK(q)'
  <2>1. Others(q)' = Others(q) /\ VerDir(q)' = VerDir(q)
    BY <1>1 DEF Others, VerDir
  <2>2. call[q].at \in Inside /\ ~ call[q].shared => Others(q)' = {}
    BY <2>1 DEF InstallInv, InstallerOK
  <2>3. call[q].at \in Inside /\ VerDir(q) = current' => disturbed'
    BY <1>1 DEF InstallInv, InstallerOK
  <2> QED
    BY <1>1, <2>2, <2>3, Bystander
<1> QED
  BY <1>1, <1>2, <1>3 DEF InstallInv, TypeOK, OnlyVerifiedFiles

LEMMA InitInstallInv == Init => InstallInv
<1> SUFFICES ASSUME Init PROVE InstallInv
  OBVIOUS
<1>1. TypeOK
  BY Dirs DEF Init, TypeOK
<1>2. OnlyVerifiedFiles /\ CurrentIsWhole
  BY DEF Init, EmptyMap, OnlyVerifiedFiles, CurrentIsWhole
<1>3. ASSUME NEW p \in Installers PROVE InstallerOK(p)
  BY DEF Init, InstallerOK, Idle, Inside
<1> QED
  BY <1>1, <1>2, <1>3 DEF InstallInv

LEMMA InstallStep == InstallInv /\ [Next]_vars => InstallInv'
<1> SUFFICES ASSUME InstallInv, [Next]_vars PROVE InstallInv'
  OBVIOUS
<1>1. ASSUME NEW p \in Installers, Step(p) PROVE InstallInv'
  BY <1>1, StartsInv, DownloadInv, VerifyInv, ClearInv, ClearFailsInv, UnpackInv,
     UnpackFailsInv, RunsInv, RepointInv, FailsInv DEF Step
<1>2. CASE UNCHANGED vars
  BY <1>2, StutterInv
<1> QED
  BY <1>1, <1>2 DEF Next

----------------------------------------------------------------------------
(* The inductive invariant of the installers.                              *)
THEOREM InstallInvariant == Spec => []InstallInv
BY InitInstallInv, InstallStep, PTL DEF Spec

(* Nothing but what passed the gate is ever written below versions/.       *)
THEOREM InstallWritesVerified == Spec => []OnlyVerifiedFiles
<1>1. InstallInv => OnlyVerifiedFiles
  BY DEF InstallInv
<1> QED
  BY <1>1, InstallInvariant, PTL

(* What current points at is the whole of an archive that may be installed,*)
(* unless its version is being, or was by two at once, installed again.    *)
THEOREM InstallKeepsCurrent == Spec => []CurrentIsWhole
<1>1. InstallInv => CurrentIsWhole
  BY DEF InstallInv
<1> QED
  BY <1>1, InstallInvariant, PTL

(* The entrypoint of an installer that is alone in its directory runs      *)
(* beside exactly the files of its archive.                                *)
THEOREM InstallRunsWhole == Spec => []EntryRunsWhole
<1>1. ASSUME InstallInv PROVE EntryRunsWhole
  <2> SUFFICES ASSUME NEW p \in Installers, call[p].at \in {"run", "flip"}, ~ call[p].shared
               PROVE  HoldsAll(dirs[VerDir(p)], call[p].archive)
    BY DEF EntryRunsWhole
  <2>1. call[p].archive \in Artifacts
    BY <1>1, UnderWay DEF Inside
  <2>2. /\ Holds(dirs[VerDir(p)], call[p].archive, call[p].next - 1)
        /\ call[p].next = Len(Entries(p)) + 1
    BY <1>1 DEF InstallInv, InstallerOK, Inside
  <2>3. call[p].next - 1 = Len(Contents[call[p].archive].entries)
    BY <2>1, <2>2, Archives DEF Entries
  <2> QED
    BY <2>2, <2>3 DEF HoldsAll
<1> QED
  BY <1>1, InstallInvariant, PTL
----------------------------------------------------------------------------
(* What the code does not enforce and would need for more: an installer    *)
(* begins with a version that current does not point at and that no other  *)
(* installer is at.                                                        *)
Apart ==
    \A p \in Installers : SelfInstallStarts(p) =>
      /\ VerDir(p)' # current
      /\ \A q \in Installers \ {p} : call[q] # Idle => VerDir(q) # VerDir(p)'

ApartInv ==
    /\ ~ disturbed
    /\ \A p \in Installers : call[p] # Idle =>
         /\ VerDir(p) # current /\ ~ call[p].shared
         /\ \A q \in Installers \ {p} : call[q] # Idle => VerDir(q) # VerDir(p)

(* A step of one call that stays in its directory, or ends.                *)
LEMMA StaysApart ==
    ASSUME InstallInv, ApartInv, NEW p \in Installers, NEW c,
           call' = [call EXCEPT ![p] = c],
           c = Idle \/ (call[p] # Idle /\ c.d = call[p].d /\ ~ c.shared),
           current' = current, ~ disturbed'
    PROVE  ApartInv'
<1>1. /\ call'[p] = c
      /\ \A q \in Installers \ {p} : call'[q] = call[q]
  BY DEF InstallInv, TypeOK
<1>2. \A q \in Installers : call'[q] # Idle =>
        call[q] # Idle /\ VerDir(q)' = VerDir(q) /\ ~ call'[q].shared
  BY <1>1 DEF VerDir, ApartInv
<1> QED
  BY <1>2 DEF ApartInv

(* So does one that enters a directory, in which nobody else is.           *)
LEMMA EntersApart ==
    ASSUME InstallInv, ApartInv, NEW p \in Installers, call[p].at = "clear", NEW c,
           Enters(p, c)
    PROVE  /\ call' = [call EXCEPT ![p] = c] /\ VerDir(p) # current
           /\ ~ Cleared(p).shared /\ Cleared(p).d = call[p].d
<1>1. call[p] \in Call /\ call[p] # Idle
  BY UnderWay DEF Idle
<1>2. Others(p) = {}
  BY <1>1 DEF ApartInv, Others, Inside, Idle
<1>3. call \in [Installers -> {Idle} \cup Call]
  BY DEF InstallInv, TypeOK
<1> QED
  BY <1>1, <1>2, <1>3 DEF Enters, Cleared, Call, ApartInv

LEMMA ApartStep ==
    ASSUME InstallInv, ApartInv, [Next]_vars, [Apart]_vars
    PROVE  ApartInv'
<1>1. CASE UNCHANGED vars
  BY <1>1 DEF vars, ApartInv, VerDir
<1>2. ASSUME NEW p \in Installers, Step(p), ~ (UNCHANGED vars)
      PROVE  ApartInv'
  <2>0. /\ call \in [Installers -> {Idle} \cup Call]
        /\ call[p].at # "idle" => call[p] \in Call /\ call[p] # Idle /\ ~ call[p].shared
    BY UnderWay DEF InstallInv, TypeOK, Idle, ApartInv
  <2>1. CASE SelfInstallStarts(p)
    <3>1. PICK d : call' = [call EXCEPT ![p] = [at |-> "download", d |-> d, archive |-> None,
                                                next |-> 1, shared |-> FALSE]]
      BY <2>1 DEF SelfInstallStarts
    <3>2. /\ ~ call'[p].shared
          /\ \A q \in Installers \ {p} : call'[q] = call[q] /\ VerDir(q)' = VerDir(q)
      BY <2>0, <3>1 DEF VerDir
    <3>3. /\ VerDir(p)' # current
          /\ \A q \in Installers \ {p} : call[q] # Idle => VerDir(q) # VerDir(p)'
      BY <1>2, <2>1 DEF Apart
    <3>4. current' = current /\ disturbed' = disturbed
      BY <2>1 DEF SelfInstallStarts
    <3> QED
      BY <3>2, <3>3, <3>4 DEF ApartInv
  <2>2. CASE Download(p)
    <3>1. PICK a \in Artifacts :
            call' = [call EXCEPT ![p] = [[@ EXCEPT !.at = "verify"] EXCEPT !.archive = a]]
      BY <2>2 DEF Download
    <3> DEFINE c == [[call[p] EXCEPT !.at = "verify"] EXCEPT !.archive = a]
    <3>2. c.d = call[p].d /\ ~ c.shared /\ call' = [call EXCEPT ![p] = c] /\ call[p] # Idle
      BY <2>0, <2>2, <3>1 DEF Download, Call
    <3> QED
      BY <2>2, <3>2, StaysApart DEF Download, ApartInv
  <2>3. CASE Verify(p) \/ RunEntrypoint(p) \/ EntrypointSucceeds(p)
    <3>1. PICK to : /\ call' = [call EXCEPT ![p].at = to] /\ call[p].at # "idle"
                    /\ UNCHANGED <<current, disturbed>>
      BY <2>3 DEF Verify, RunEntrypoint, EntrypointSucceeds, Steps
    <3> DEFINE c == [call[p] EXCEPT !.at = to]
    <3>2. c.d = call[p].d /\ ~ c.shared /\ call' = [call EXCEPT ![p] = c] /\ call[p] # Idle
      BY <2>0, <3>1 DEF Call
    <3> QED
      BY <3>1, <3>2, StaysApart DEF ApartInv
  <2>4. CASE Clear(p) \/ ClearFails(p)
    <3>1. PICK c \in {Cleared(p), Idle} :
            /\ Enters(p, c) /\ call[p].at = "clear" /\ current' = current
            /\ disturbed' = (disturbed \/ VerDir(p) = current)
      BY <2>4 DEF Clear, ClearFails
    <3>2. /\ call' = [call EXCEPT ![p] = c] /\ VerDir(p) # current
          /\ ~ Cleared(p).shared /\ Cleared(p).d = call[p].d
      BY <3>1, EntersApart
    <3> QED
      BY <2>0, <3>1, <3>2, StaysApart DEF ApartInv
  <2>5. CASE Unpack(p) \/ ZipCloseFails(p)
    <3> DEFINE c == [call[p] EXCEPT !.next = @ + 1]
    <3>1. /\ call' = [call EXCEPT ![p] = c] /\ call[p].at # "idle"
          /\ UNCHANGED <<current, disturbed>>
      BY <2>5 DEF Unpack, ZipCloseFails, AtEntry
    <3>2. c.d = call[p].d /\ ~ c.shared /\ call[p] # Idle
      BY <2>0, <3>1 DEF Call
    <3> QED
      BY <3>1, <3>2, StaysApart DEF ApartInv
  <2>6. CASE UnpackFails(p) \/ SelfInstallFails(p)
    BY <2>6, StaysApart DEF UnpackFails, SelfInstallFails, ApartInv
  <2>7. CASE RepointSymlink(p)
    <3>1. /\ current' = VerDir(p) /\ disturbed' = call[p].shared /\ call[p].at = "flip"
          /\ call' = [call EXCEPT ![p] = Idle]
      BY <2>7 DEF RepointSymlink
    <3>2. /\ call'[p] = Idle
          /\ \A q \in Installers \ {p} : call'[q] = call[q] /\ VerDir(q)' = VerDir(q)
      BY <2>0, <3>1 DEF VerDir
    <3>3. \A q \in Installers \ {p} : call[q] # Idle => VerDir(q) # VerDir(p)
      BY <2>0, <3>1 DEF ApartInv
    <3> QED
      BY <2>0, <3>1, <3>2, <3>3 DEF ApartInv
  <2> QED
    BY <1>2, <2>1, <2>2, <2>3, <2>4, <2>5, <2>6, <2>7 DEF Step
<1> QED
  BY <1>1, <1>2 DEF Next

(* An install that fails leaves alone what current points at, as the       *)
(* comment of SelfInstall says, when installers keep apart from it and     *)
(* from each other: then the live version's directory is never disturbed.  *)
THEOREM InstallApart ==
    Spec /\ [][Apart]_vars => []~ disturbed /\ CurrentUntouched
<1>1. Init => ApartInv
  BY DEF Init, ApartInv
<1>2. InstallInv /\ ApartInv /\ [Next]_vars /\ [Apart]_vars => ApartInv'
  BY ApartStep
<1>3. ApartInv => ~ disturbed
  BY DEF ApartInv
<1>4. ~ disturbed' =>
        [\A p \in Installers : (call[p].at # "idle" /\ call'[p] = Idle /\ current' = current)
                                 => ~ disturbed']_vars
  OBVIOUS
<1> QED
  BY <1>1, <1>2, <1>3, <1>4, InstallInvariant, PTL DEF Spec, CurrentUntouched
=============================================================================
