------------------------------ MODULE Granule ------------------------------
(***************************************************************************)
(* The granule table of the RMM (lib/realm/include/granule.h, granule.c):  *)
(* one struct granule per 4K page of memory, with its spinlock, state and  *)
(* reference count, the physical address space EL3 keeps the page in, and  *)
(* whether its bytes are non-zero beyond the structures modelled elsewhere.*)
(* A granule is its index, so the order of granules is the address order.  *)
(***************************************************************************)
EXTENDS Integers, FiniteSets

CONSTANTS Cpus,         \* the PEs that execute RMI commands
          NoCpu,        \* "not locked"
          NumGranules   \* RMM_MAX_GRANULES

ASSUME GranuleAssumption ==
  /\ NumGranules \in Nat \ {0}
  /\ IsFiniteSet(Cpus)
  /\ NoCpu \notin Cpus

Granules  == 1 .. NumGranules
NoGranule == 0                        \* the NULL granule pointer
AnyGranule == 0 .. NumGranules

States == {"NS", "DELEGATED", "RD", "REC", "REC_AUX", "RTT"}

VARIABLES state,     \* granule::state
          lock,      \* granule::lock, the CPU that holds it or NoCpu
          refcount,  \* granule::refcount
          pas,       \* the granule protection table at EL3: "NS" or "REALM"
          junk       \* bytes of the granule are non-zero

granuleVars == <<state, lock, refcount, pas, junk>>

GranuleTypeOK ==
  /\ state    \in [Granules -> States]
  /\ lock     \in [Granules -> Cpus \cup {NoCpu}]
  /\ refcount \in [Granules -> Nat]
  /\ pas      \in [Granules -> {"NS", "REALM"}]
  /\ junk     \in [Granules -> BOOLEAN]

Free(g) == lock[g] = NoCpu

(* granule_lock_on_state_match and find_lock_granule: the spinlock is free *)
(* and the state seen under it is s.                                       *)
CanLock(g, s) == g \in Granules /\ Free(g) /\ state[g] = s

(* find_lock_unused_granule: and the reference count is zero *)
CanLockUnchecked(g, s) == CanLock(g, s)
CanLockUnused(g, s) == CanLock(g, s) /\ refcount[g] = 0

(* granule_lock_on_state_match returns false: out of range, or another state. *)
(* The lock it took for the comparison is released at once.                *)
LockFails(g, s) == g \in Granules => Free(g) /\ state[g] # s

Locked(c, g)  == [lock EXCEPT ![g] = c]
Unlocked(S)   == [g \in Granules |-> IF g \in S THEN NoCpu ELSE lock[g]]

(* __granule_assert_unlocked_invariants: what granule_unlock and           *)
(* granule_lock_on_state_match assert of a granule that nobody holds.      *)
UnlockedInvariant(g) ==
  CASE state[g] \in {"NS", "DELEGATED", "REC_AUX"} -> refcount[g] = 0
    [] state[g] = "REC"                            -> refcount[g] <= 1
    [] state[g] \in {"RD", "RTT"}                  -> TRUE

=============================================================================
