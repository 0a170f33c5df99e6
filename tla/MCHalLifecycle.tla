---------------------------- MODULE MCHalLifecycle ----------------------------
(* Hosts and failures for the model-checked instances of HalLifecycle.      *)
EXTENDS HalLifecycle, TLC

CONSTANTS h1, h2

TwoHosts == {h1, h2}
AllFailures == {"monitor", "tml", "thread"}
HostSymmetry == Permutations(Hosts)
=============================================================================
