----------------------------- MODULE MCReleases -----------------------------
(* Small instances of Releases for TLC: two versions of one skill beside a *)
(* skill without versions.                                                 *)
EXTENDS Releases, TLC

CONSTANTS s1, s2, v1, v2

TwoSkills == {s1, s2}
TwoVersions == {v1, v2}
TwoVersionsOf == v1 :> s1 @@ v2 :> s1
=============================================================================
