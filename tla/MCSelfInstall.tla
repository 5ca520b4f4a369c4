--------------------------- MODULE MCSelfInstall ---------------------------
(* Values for SelfInstall's constants: a bundle, the same version recut as *)
(* a zip with a link, one whose second file is too long, one that climbs   *)
(* out of its directory, and one that nobody signed.                       *)
EXTENDS SelfInstall, TLC

CONSTANTS a1, a2, a3, a4, a5, v1, v2, f1, f2, p1, p2

E(name, kind) == [name |-> name, kind |-> kind]

Bundles == [a \in Artifacts |->
    CASE a = a1 -> [format |-> "tar.gz", entries |-> <<E("root", "dir"), E(f1, "file"), E(Entrypoint, "file")>>]
      [] a = a2 -> [format |-> "zip",    entries |-> <<E(Entrypoint, "file"), E(f2, "link")>>]
      [] a = a3 -> [format |-> "tar.gz", entries |-> <<E(Entrypoint, "file"), E(f1, "long"), E(f1, "odd")>>]
      [] a = a4 -> [format |-> "tar.gz", entries |-> <<E(Entrypoint, "file"), E("outside", "dir")>>]
      [] OTHER  -> [format |-> "tar.gz", entries |-> <<E(Entrypoint, "file")>>]]

Manifest(v, a) == [version |-> v, sha256 |-> a, format |-> Bundles[a].format]

Release(v, a) == [version |-> v, url |-> "absolute", sha256 |-> a,
                  manifest |-> Manifest(v, a), sig |-> Manifest(v, a)]

SignedBundles == {Manifest(v1, a1), Manifest(v1, a2), Manifest(None, a3), Manifest(v2, a4)}

(* A release, the same version recut, the next one in a manifest without a *)
(* version, a bad archive, and one nobody signed.                          *)
ManyReleases ==
    {Release(v1, a1), Release(v1, a2), Release(v2, a4), [Release(v2, a5) EXCEPT !.sig = None],
     [Release(v2, a3) EXCEPT !.manifest.version = None, !.sig.version = None]}

OneRelease == {Release(v1, a1)}

InstallSymmetry == Permutations(Installers)
=============================================================================
