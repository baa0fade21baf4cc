------------------------------ MODULE MCInstall ------------------------------
\* Instances of InstallTasks.
EXTENDS InstallTasks, TLC

InstallSymmetry ==
  Permutations(Meters) \union Permutations(Sims) \union Permutations(Users)
    \union Permutations(InstallIds) \union Permutations(Keys)
    \union Permutations(InstallRequests)
=============================================================================
