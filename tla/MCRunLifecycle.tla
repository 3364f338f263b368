--------------------------- MODULE MCRunLifecycle ---------------------------
\* Instances of RunLifecycle for TLC.
EXTENDS RunLifecycle, TLC

ClientSymmetry == Permutations(Clients)
=============================================================================
