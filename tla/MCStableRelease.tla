-------------------------- MODULE MCStableRelease --------------------------
\* Instance for TLC: two releases after the initial one, two targets.
EXTENDS StableRelease, TLC

CONSTANTS r1, r2, m0

VersionDef == (m0 :> 1) @@ (r1 :> 2) @@ (r2 :> 3)
=============================================================================
