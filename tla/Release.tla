------------------------------ MODULE Release ------------------------------
(* OTA directives, what a signature covers, and the checks both installers *)
(* make before they touch anything.  An artifact stands for its bytes, and *)
(* so for its sha256; a signature stands for the manifest that was signed. *)
CONSTANTS Artifacts,   \* binaries and archives that storage can serve
          Versions,    \* version names
          None,        \* an absent version, sha256, manifest, signature, file
          Signed,      \* manifests the release service has signed
          KeyPinned    \* whether POLAR_RELEASE_PUBKEY is set

Formats == {"", "binary", "tar.gz", "zip"}

(* notes are left out: canonicalBytes signs everything but them.           *)
ReleaseManifest == [version : Versions \cup {None}, sha256 : Artifacts, format : Formats]

(* A URL is missing, relative to dock, or absolute.                        *)
Urls == {"", "path", "absolute"}

UpdateDirective == [version : Versions \cup {None}, url : Urls,
                    sha256 : Artifacts \cup {None},
                    manifest : ReleaseManifest \cup {None},
                    sig : ReleaseManifest \cup {None}]

ASSUME SignedAssumption == Signed \subseteq ReleaseManifest
ASSUME KeyPinnedAssumption == KeyPinned \in BOOLEAN
ASSUME NoneAssumption == None \notin Artifacts \cup Versions \cup ReleaseManifest

(* SelfApply's choice: no manifest, or no format, means a binary.          *)
IsBinary(d) == d.manifest # None => d.manifest.format \in {"", "binary"}

(* The version an archive is installed under; the manifest's goes first.   *)
InstallVersion(d) == IF d.manifest.version # None THEN d.manifest.version ELSE d.version

(* Broken variant: the manifest's sha256 is not compared with the          *)
(* directive's.                                                            *)
AnySignedManifest(d) == d.sig # None /\ d.sig = d.manifest /\ d.manifest \in Signed

VerifyReleaseSignature(d) ==
    /\ d.manifest # None
    /\ d.sig # None
    /\ d.manifest.sha256 = d.sha256
    /\ d.sig = d.manifest /\ d.manifest \in Signed

(* The gate: the bytes are those the directive names, and with a pinned    *)
(* key the release service vouches for them.                               *)
Verified(d, bytes) == bytes = d.sha256 /\ (KeyPinned => VerifyReleaseSignature(d))

(* What may ever be put in place: with a pinned key, what was signed.      *)
Blessed == IF KeyPinned THEN {m.sha256 : m \in Signed} ELSE Artifacts
=============================================================================
