-------------------------- MODULE MCBundleLifecycle --------------------------
(* Two documents stand for the 18.                                           *)
EXTENDS BundleLifecycle, TLC

CONSTANTS d1, d2, l1, l2, f

TwoDocs == {d1, d2}
TwoLive == {l1, l2}
OneFixture == {f}

MCSymmetry == Permutations(TwoDocs)
==============================================================================
