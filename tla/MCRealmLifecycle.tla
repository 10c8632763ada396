-------------------------- MODULE MCRealmLifecycle --------------------------
EXTENDS RealmLifecycle, TLC

CpuSymmetry == Permutations(Cpus)

=============================================================================
