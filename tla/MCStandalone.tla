---------------------------- MODULE MCStandalone ----------------------------
(* Small instances of the components of Standalone.                        *)
EXTENDS Standalone

CONSTANTS t1, t2, t3

LatencySamples == {3, 9}
DurationSamples == {5, 60}

Symmetry == Permutations({t1, t2})
=============================================================================
