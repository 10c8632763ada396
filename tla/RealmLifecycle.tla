--------------------------- MODULE RealmLifecycle ---------------------------
(***************************************************************************)
(* The RMI commands that create, activate, enter and destroy realms, RECs  *)
(* and translation tables, as several CPUs run them at once                *)
(* (runtime/rmi/granule.c, realm.c, rec.c, run.c, rtt.c, core/vmid.c).     *)
(*                                                                         *)
(* A step runs from one access to shared state to the next: it starts with *)
(* at most one spinlock acquisition, atomic operation or unlocked access,  *)
(* and goes on through the work the CPU does alone under the locks it      *)
(* holds and through the unlocks that follow.  A command that finds the    *)
(* first granule it locks in the wrong state returns an error and changes  *)
(* nothing; such a call is a stuttering step.  An argument the host chose  *)
(* is picked when the command first uses it.                               *)
(***************************************************************************)
EXTENDS Granule

CONSTANTS NumVmids,   \* VMID8_COUNT or VMID16_COUNT
          MaxRoots,   \* the most concatenated root tables, rtt_num_start (16)
          NumAux,     \* rd->num_rec_aux
          MaxRecs,    \* the MPIDRs that mpidr_is_valid accepts
          MaxDepth,   \* levels below the root: RTT_PAGE_LEVEL - rtt_level_start
          MaxKids,    \* entries of a table: S2TTES_PER_S2TT
          Delegated,  \* the granules the host delegated beforehand
          Commands    \* the commands the hosts of this instance issue

AllCommands == {"GRANULE_DELEGATE", "GRANULE_UNDELEGATE", "REALM_CREATE",
                "REALM_ACTIVATE", "REALM_DESTROY", "REC_CREATE", "REC_DESTROY",
                "REC_ENTER", "RTT_CREATE", "RTT_DESTROY"}

ASSUME LifecycleAssumption ==
  /\ NumVmids \in Nat /\ MaxRoots \in Nat \ {0} /\ NumAux \in Nat
  /\ MaxRecs \in Nat /\ MaxDepth \in Nat /\ MaxKids \in Nat
  /\ Delegated \subseteq Granules
  /\ Commands \subseteq AllCommands

Vmids == 0 .. NumVmids - 1
RealmStates == {"NEW", "ACTIVE", "SYSTEM_OFF"}

VARIABLES rd,     \* the struct rd in each granule
          rec,    \* the struct rec in each granule
          kids,   \* the tables that the table entries of each granule point to
          vmids,  \* the bits set in vmids[]
          f       \* each CPU's command in progress: where it is, its locals

vars == <<state, lock, refcount, pas, junk, rd, rec, kids, vmids, f>>

AuxSeqs == [1 .. NumAux -> AnyGranule]
NoAux   == [k \in 1 .. NumAux |-> NoGranule]

(* Granules hold zeroes when they are delegated; these are the structures *)
(* read from a granule of zeroes (REALM_STATE_NEW is 0).                  *)
RdZero  == [state |-> "NEW", vmid |-> 0, root |-> NoGranule, num |-> 0, recs |-> 0]
RecZero == [rd |-> NoGranule, idx |-> 0, aux |-> NoAux, runnable |-> FALSE]

IdleFrame == [pc |-> "idle", obj |-> NoGranule, rd |-> NoGranule,
              root |-> NoGranule, buf |-> NoGranule, vmid |-> 0,
              num |-> 0, aux |-> NoAux, i |-> 0, j |-> 0, used |-> FALSE, op |-> "none"]

Idle(c)      == f[c].pc = "idle"
At(c, l)     == f[c].pc = l
Become(c, nf) == f' = [f EXCEPT ![c] = nf]
Goto(c, l)   == Become(c, [f[c] EXCEPT !.pc = l])
Return(c)    == Become(c, IdleFrame)

(* granule_memzero of the granules in S, whatever structure they held *)
ZeroOut(S) ==
  /\ junk' = [g \in Granules |-> IF g \in S THEN FALSE ELSE junk[g]]
  /\ rd'   = [g \in Granules |-> IF g \in S THEN RdZero ELSE rd[g]]
  /\ rec'  = [g \in Granules |-> IF g \in S THEN RecZero ELSE rec[g]]
  /\ kids' = [g \in Granules |-> IF g \in S THEN {} ELSE kids[g]]

Zeroed(g) == ~junk[g] /\ rd[g] = RdZero /\ rec[g] = RecZero /\ kids[g] = {}

Init ==
  /\ state    = [g \in Granules |-> IF g \in Delegated THEN "DELEGATED" ELSE "NS"]
  /\ lock     = [g \in Granules |-> NoCpu]
  /\ refcount = [g \in Granules |-> 0]
  /\ pas      = [g \in Granules |-> IF g \in Delegated THEN "REALM" ELSE "NS"]
  /\ junk     = [g \in Granules |-> g \notin Delegated]
  /\ rd       = [g \in Granules |-> RdZero]
  /\ rec      = [g \in Granules |-> RecZero]
  /\ kids     = [g \in Granules |-> {}]
  /\ vmids    = {}
  /\ f        = [c \in Cpus |-> IdleFrame]

---------------------------------------------------------------------------
(* The host writes to a page that EL3 lets it reach. *)
HostWrite(g) ==
  /\ pas[g] = "NS" /\ ~junk[g]
  /\ junk' = [junk EXCEPT ![g] = TRUE]
  /\ UNCHANGED <<state, lock, refcount, pas, rd, rec, kids, vmids, f>>

---------------------------------------------------------------------------
(* RMI_GRANULE_DELEGATE: lock, set the state, have EL3 take the page from  *)
(* the host (asc_mark_secure), then zero it and unlock.                    *)
GranuleDelegate(c, g) ==
  /\ "GRANULE_DELEGATE" \in Commands /\ Idle(c) /\ CanLock(g, "NS")
  /\ lock'  = Locked(c, g)
  /\ state' = [state EXCEPT ![g] = "DELEGATED"]
  /\ Become(c, [IdleFrame EXCEPT !.pc = "dl_mark", !.obj = g])
  /\ UNCHANGED <<refcount, pas, junk, rd, rec, kids, vmids>>

DelegateMark(c) ==
  /\ At(c, "dl_mark") /\ Goto(c, "dl_zero")
  /\ pas' = [pas EXCEPT ![f[c].obj] = "REALM"]
  /\ UNCHANGED <<state, lock, refcount, junk, rd, rec, kids, vmids>>

DelegateNoZero(c) ==
  /\ At(c, "dl_zero") /\ Return(c)
  /\ lock' = Unlocked({f[c].obj})
  /\ UNCHANGED <<state, refcount, pas, junk, rd, rec, kids, vmids>>

DelegateZero(c) ==
  /\ At(c, "dl_zero") /\ Return(c)
  /\ ZeroOut({f[c].obj})
  /\ lock' = Unlocked({f[c].obj})
  /\ UNCHANGED <<state, refcount, pas, vmids>>

(* RMI_GRANULE_UNDELEGATE: EL3 gives the page back (asc_mark_nonsecure)    *)
(* before the state says so.                                               *)
MarkNothing(g)   == pas
MarkNonsecure(g) == [pas EXCEPT ![g] = "NS"]

GranuleUndelegate(c, g) ==
  /\ "GRANULE_UNDELEGATE" \in Commands /\ Idle(c) /\ CanLock(g, "DELEGATED")
  /\ lock' = Locked(c, g)
  /\ pas'  = MarkNonsecure(g)
  /\ Become(c, [IdleFrame EXCEPT !.pc = "ud_state", !.obj = g])
  /\ UNCHANGED <<state, refcount, junk, rd, rec, kids, vmids>>

UndelegateState(c) ==
  /\ At(c, "ud_state") /\ Return(c)
  /\ state' = [state EXCEPT ![f[c].obj] = "NS"]
  /\ lock'  = Unlocked({f[c].obj})
  /\ UNCHANGED <<refcount, pas, junk, rd, rec, kids, vmids>>

---------------------------------------------------------------------------
(* RMI_REALM_CREATE.  The k-th granule find_lock_rd_granules locks: the RD *)
(* before the root tables when its address is below theirs, else after.   *)
RcGranuleUnsorted(fr, k) ==
  IF k = fr.num + 1 THEN fr.obj ELSE fr.root + (k - 1)

RcGranule(fr, k) ==
  IF fr.obj < fr.root
  THEN IF k = 1 THEN fr.obj ELSE fr.root + (k - 2)
  ELSE IF k = fr.num + 1 THEN fr.obj ELSE fr.root + (k - 1)

RcHeld(fr) == {RcGranule(fr, k) : k \in 1 .. fr.i}
Roots(g, n) == g .. g + (n - 1)

VmidUnchecked(v) == TRUE
VmidFree(v) == v \notin vmids

(* validate_realm_params ends with vmid_reserve; then the alias check *)
RealmCreate(c, g, base, n, v) ==
  /\ "REALM_CREATE" \in Commands /\ Idle(c)
  /\ VmidFree(v)
  /\ vmids' = vmids \cup {v}
  /\ Become(c, [IdleFrame EXCEPT
                   !.pc = IF g \in Roots(base, n) THEN "rc_vmid" ELSE "rc_lock",
                   !.obj = g, !.root = base, !.num = n, !.vmid = v])
  /\ UNCHANGED <<granuleVars, rd, rec, kids>>

RealmCreateLock(c) ==
  LET fr == f[c]
      g  == RcGranule(fr, fr.i + 1)
  IN  /\ At(c, "rc_lock") /\ CanLock(g, "DELEGATED")
      /\ lock' = Locked(c, g)
      /\ Become(c, [fr EXCEPT !.i = fr.i + 1,
                              !.pc = IF fr.i = fr.num THEN "rc_init" ELSE "rc_lock"])
      /\ UNCHANGED <<state, refcount, pas, junk, rd, rec, kids, vmids>>

RealmCreateLockFails(c) ==
  LET fr == f[c]
  IN  /\ At(c, "rc_lock") /\ LockFails(RcGranule(fr, fr.i + 1), "DELEGATED")
      /\ lock' = Unlocked(RcHeld(fr))
      /\ Become(c, [IdleFrame EXCEPT !.pc = "rc_vmid", !.vmid = fr.vmid])
      /\ UNCHANGED <<state, refcount, pas, junk, rd, rec, kids, vmids>>

(* the error paths release the VMID last *)
RealmCreateFreeVmid(c) ==
  /\ At(c, "rc_vmid") /\ Return(c)
  /\ vmids' = vmids \ {f[c].vmid}
  /\ UNCHANGED <<granuleVars, rd, rec, kids>>

(* fill in the RD and let it go as a RD; the root tables are still locked *)
RealmCreateInit(c) ==
  LET fr == f[c]
  IN  /\ At(c, "rc_init")
      /\ rd' = [rd EXCEPT ![fr.obj] = [state |-> "NEW", vmid |-> fr.vmid,
                                       root |-> fr.root, num |-> fr.num, recs |-> 0]]
      /\ state' = [state EXCEPT ![fr.obj] = "RD"]
      /\ lock'  = Unlocked({fr.obj})
      /\ Become(c, [fr EXCEPT !.pc = "rc_roots", !.i = 0])
      /\ UNCHANGED <<refcount, pas, junk, rec, kids, vmids>>

RealmCreateRoot(c) ==
  LET fr == f[c]
      g  == fr.root + fr.i
  IN  /\ At(c, "rc_roots")
      /\ state' = [state EXCEPT ![g] = "RTT"]
      /\ lock'  = Unlocked({g})
      /\ Become(c, IF fr.i + 1 = fr.num THEN IdleFrame
                   ELSE [fr EXCEPT !.i = fr.i + 1])
      /\ UNCHANGED <<refcount, pas, junk, rd, rec, kids, vmids>>

(* RMI_REALM_ACTIVATE, one critical section of the RD's lock *)
RealmActivate(g) ==
  /\ "REALM_ACTIVATE" \in Commands
  /\ CanLock(g, "RD") /\ rd[g].state = "NEW"
  /\ rd' = [rd EXCEPT ![g].state = "ACTIVE"]
  /\ UNCHANGED <<granuleVars, rec, kids, vmids, f>>

(* RMI_REALM_DESTROY: lock an unused RD and free its VMID, total the root  *)
(* tables' references (total_root_rtt_refcount), free the root tables      *)
(* (free_sl_rtts) and the RD, or give up when a root table is in use.      *)
RealmDestroy(c, g) ==
  /\ "REALM_DESTROY" \in Commands /\ Idle(c)
  /\ CanLockUnused(g, "RD")
  /\ lock'  = Locked(c, g)
  /\ vmids' = vmids \ {rd[g].vmid}
  /\ Become(c, [IdleFrame EXCEPT !.pc = "rd_count", !.obj = g,
                                 !.root = rd[g].root, !.num = rd[g].num])
  /\ UNCHANGED <<state, refcount, pas, junk, rd, rec, kids>>

InUseLeaksRd(fr)   == lock
InUseUnlocksRd(fr) == Unlocked({fr.obj})

(* the reference count of the next root table is added to the total *)
Counted(fr)   == fr.used \/ refcount[fr.root + fr.i] # 0
LastRoot(fr)  == fr.i + 1 = fr.num

RealmDestroyCount(c) ==
  LET fr == f[c]
  IN  /\ At(c, "rd_count") /\ CanLock(fr.root + fr.i, "RTT")
      /\ ~(LastRoot(fr) /\ Counted(fr))
      /\ Become(c, [fr EXCEPT !.used = Counted(fr),
                              !.i  = IF LastRoot(fr) THEN 0 ELSE fr.i + 1,
                              !.pc = IF LastRoot(fr) THEN "rd_roots" ELSE "rd_count"])
      /\ UNCHANGED <<granuleVars, rd, rec, kids, vmids>>

RealmDestroyInUse(c) ==
  LET fr == f[c]
  IN  /\ At(c, "rd_count") /\ CanLock(fr.root + fr.i, "RTT")
      /\ LastRoot(fr) /\ Counted(fr)
      /\ Return(c)
      /\ lock' = InUseUnlocksRd(fr)
      /\ UNCHANGED <<state, refcount, pas, junk, rd, rec, kids, vmids>>

RealmDestroyRoot(c) ==
  LET fr == f[c]
      g  == fr.root + fr.i
  IN  /\ At(c, "rd_roots") /\ CanLock(g, "RTT")
      /\ ZeroOut({g})
      /\ state' = [state EXCEPT ![g] = "DELEGATED"]
      /\ Become(c, [fr EXCEPT !.i  = fr.i + 1,
                              !.pc = IF LastRoot(fr) THEN "rd_free" ELSE "rd_roots"])
      /\ UNCHANGED <<lock, refcount, pas, vmids>>

RealmDestroyFree(c) ==
  /\ At(c, "rd_free") /\ Return(c)
  /\ ZeroOut({f[c].obj})
  /\ state' = [state EXCEPT ![f[c].obj] = "DELEGATED"]
  /\ lock'  = Unlocked({f[c].obj})
  /\ UNCHANGED <<refcount, pas, vmids>>

---------------------------------------------------------------------------
(* find_lock_two_granules locks the lower address first. *)
Lower(a, b)  == IF a < b THEN a ELSE b
Higher(a, b) == IF a < b THEN b ELSE a

(* The state it expects of granule g when obj is to be a fresh granule *)
(* and the other one a RD.                                             *)
Expected(g, obj) == IF g = obj THEN "DELEGATED" ELSE "RD"

(* RMI_REC_CREATE takes the auxiliary granules one by one, DELEGATED to    *)
(* REC_AUX, holding no lock in between.                                    *)
AuxUntaken(a) == state
AuxTaken(a)   == [state EXCEPT ![a] = "REC_AUX"]

RecCreateAux(c, a) ==
  LET fr == f[c]
  IN  /\ "REC_CREATE" \in Commands
      /\ Idle(c) \/ At(c, "rn_aux")
      /\ fr.i < NumAux /\ CanLock(a, "DELEGATED")
      /\ state' = AuxTaken(a)
      /\ Become(c, [fr EXCEPT !.pc = "rn_aux", !.i = fr.i + 1,
                              !.aux = [fr.aux EXCEPT ![fr.i + 1] = a]])
      /\ UNCHANGED <<lock, refcount, pas, junk, rd, rec, kids, vmids>>

RecCreateAuxFails(c, a) ==
  /\ At(c, "rn_aux") /\ f[c].i < NumAux
  /\ LockFails(a, "DELEGATED")
  /\ Goto(c, "rn_undo")
  /\ UNCHANGED <<granuleVars, rd, rec, kids, vmids>>

RecCreateLock1(c, r, g) ==
  LET first == Lower(r, g)
  IN  /\ "REC_CREATE" \in Commands
      /\ Idle(c) \/ At(c, "rn_aux")
      /\ r # g /\ CanLock(first, Expected(first, r))
      /\ lock' = Locked(c, first)
      /\ Become(c, [f[c] EXCEPT !.pc = "rn_lock2", !.obj = r, !.rd = g])
      /\ UNCHANGED <<state, refcount, pas, junk, rd, rec, kids, vmids>>

RecCreateLock1Fails(c, r, g) ==
  LET first == Lower(r, g)
  IN  /\ At(c, "rn_aux")
      /\ r = g \/ LockFails(first, Expected(first, r))
      /\ Goto(c, "rn_undo")
      /\ UNCHANGED <<granuleVars, rd, rec, kids, vmids>>

(* out_free_aux, when there is something to free *)
RecCreateFails(c) ==
  Become(c, IF f[c].i = 0 THEN IdleFrame
            ELSE [IdleFrame EXCEPT !.pc = "rn_undo", !.aux = f[c].aux, !.i = f[c].i])

RecCreateLock2(c) ==
  LET fr     == f[c]
      second == Higher(fr.obj, fr.rd)
  IN  /\ At(c, "rn_lock2") /\ CanLock(second, Expected(second, fr.obj))
      /\ lock' = Locked(c, second)
      /\ Goto(c, "rn_body")
      /\ UNCHANGED <<state, refcount, pas, junk, rd, rec, kids, vmids>>

RecCreateLock2Fails(c) ==
  LET fr     == f[c]
      second == Higher(fr.obj, fr.rd)
  IN  /\ At(c, "rn_lock2") /\ LockFails(second, Expected(second, fr.obj))
      /\ lock' = Unlocked({Lower(fr.obj, fr.rd)})
      /\ RecCreateFails(c)
      /\ UNCHANGED <<state, refcount, pas, junk, rd, rec, kids, vmids>>

(* With both locked: the realm must be NEW, the MPIDR must give the next   *)
(* index and the number of auxiliary granules must be the realm's.         *)
CheckRealmAnyState(fr) == rd[fr.rd].recs < MaxRecs /\ fr.i = NumAux
CheckRealm(fr) ==
  rd[fr.rd].state = "NEW" /\ rd[fr.rd].recs < MaxRecs /\ fr.i = NumAux

CountNoRec(g) == rd
CountRec(g)   == [rd EXCEPT ![g].recs = rd[g].recs + 1]

GetNothing(g) == refcount
GetRd(g)      == [refcount EXCEPT ![g] = refcount[g] + 1]

RecCreateBody(c, runnable) ==
  LET fr == f[c]
      r  == fr.obj
      g  == fr.rd
  IN  /\ At(c, "rn_body") /\ CheckRealm(fr)
      /\ rec' = [rec EXCEPT ![r] = [rd |-> g, idx |-> rd[g].recs,
                                    aux |-> fr.aux, runnable |-> runnable]]
      /\ rd' = CountRec(g)
      /\ refcount' = GetRd(g)
      /\ state' = [state EXCEPT ![r] = "REC"]
      /\ lock' = Unlocked({r, g})
      /\ Return(c)
      /\ UNCHANGED <<pas, junk, kids, vmids>>

(* refused by these checks or by the MPIDR, which need not give the index *)
RecCreateRefused(c) ==
  /\ At(c, "rn_body") /\ RecCreateFails(c)
  /\ lock' = Unlocked({f[c].obj, f[c].rd})
  /\ UNCHANGED <<state, refcount, pas, junk, rd, rec, kids, vmids>>

(* free_rec_aux_granules(.., scrub = false) gives them back *)
RecCreateUndo(c) ==
  LET fr == f[c]
      a  == fr.aux[fr.j + 1]
  IN  /\ At(c, "rn_undo") /\ CanLock(a, "REC_AUX")
      /\ state' = [state EXCEPT ![a] = "DELEGATED"]
      /\ Become(c, IF fr.j + 1 = fr.i THEN IdleFrame
                   ELSE [fr EXCEPT !.j = fr.j + 1])
      /\ UNCHANGED <<lock, refcount, pas, junk, rd, rec, kids, vmids>>

(* RMI_REC_DESTROY: with the unused REC locked, scrub and free the         *)
(* auxiliary granules, then the REC; the RD's reference goes last, without *)
(* any lock.                                                               *)
RecDestroy(c, r) ==
  /\ "REC_DESTROY" \in Commands /\ Idle(c)
  /\ CanLockUnused(r, "REC")
  /\ lock' = Locked(c, r)
  /\ Become(c, [IdleFrame EXCEPT !.pc = IF NumAux = 0 THEN "rx_free" ELSE "rx_aux",
                                 !.obj = r, !.rd = rec[r].rd, !.aux = rec[r].aux])
  /\ UNCHANGED <<state, refcount, pas, junk, rd, rec, kids, vmids>>

RecDestroyAux(c) ==
  LET fr == f[c]
      a  == fr.aux[fr.j + 1]
  IN  /\ At(c, "rx_aux") /\ CanLock(a, "REC_AUX")
      /\ ZeroOut({a})
      /\ state' = [state EXCEPT ![a] = "DELEGATED"]
      /\ Become(c, [fr EXCEPT !.j  = fr.j + 1,
                              !.pc = IF fr.j + 1 = NumAux THEN "rx_free" ELSE "rx_aux"])
      /\ UNCHANGED <<lock, refcount, pas, vmids>>

RecDestroyFree(c) ==
  /\ At(c, "rx_free") /\ Goto(c, "rx_put")
  /\ ZeroOut({f[c].obj})
  /\ state' = [state EXCEPT ![f[c].obj] = "DELEGATED"]
  /\ lock'  = Unlocked({f[c].obj})
  /\ UNCHANGED <<refcount, pas, vmids>>

RecDestroyPut(c) ==
  /\ At(c, "rx_put") /\ Return(c)
  /\ refcount' = [refcount EXCEPT ![f[c].rd] = refcount[f[c].rd] - 1]
  /\ UNCHANGED <<state, lock, pas, junk, rd, rec, kids, vmids>>

---------------------------------------------------------------------------
(* RMI_REC_ENTER.  The run buffer's state is read without its lock; the    *)
(* REC is locked only to check that it is unused and to take the reference *)
(* under which it then runs.                                               *)
RecEnter(c, r, b) ==
  /\ "REC_ENTER" \in Commands /\ Idle(c)
  /\ state[b] = "NS"
  /\ CanLockUnused(r, "REC")
  /\ refcount' = [refcount EXCEPT ![r] = 1]
  /\ Become(c, [IdleFrame EXCEPT !.pc = "en_read", !.obj = r, !.buf = b])
  /\ UNCHANGED <<state, lock, pas, junk, rd, rec, kids, vmids>>

(* ns_buffer_read fails when EL3 has taken the page from the host meanwhile *)
EnterRead(c) ==
  /\ At(c, "en_read")
  /\ Goto(c, IF pas[f[c].buf] = "NS" THEN "en_check" ELSE "en_put")
  /\ UNCHANGED <<granuleVars, rd, rec, kids, vmids>>

(* The realm's state is read without the RD's lock.  The checks that       *)
(* follow it (pending PSCI request, GIC state, MMIO) may refuse as well,   *)
(* and a host call whose buffer faults exits without running the realm.    *)
EnterCheck(c) ==
  /\ At(c, "en_check")
  /\ \/ /\ rd[rec[f[c].obj].rd].state = "ACTIVE" /\ rec[f[c].obj].runnable
        /\ Goto(c, "en_run") \/ Goto(c, "en_exit")
     \/ Goto(c, "en_put")
  /\ UNCHANGED <<granuleVars, rd, rec, kids, vmids>>

(* The realm runs, leaves state in the auxiliary granules, and exits;      *)
(* off: it exited by PSCI_CPU_OFF.                                         *)
EnterRun(c, off) ==
  LET r == f[c].obj
  IN  /\ At(c, "en_run") /\ Goto(c, "en_exit")
      /\ rec'  = [rec EXCEPT ![r].runnable = ~off]
      /\ junk' = [g \in Granules |->
                    junk[g] \/ \E k \in 1 .. NumAux : rec[r].aux[k] = g]
      /\ UNCHANGED <<state, lock, refcount, pas, rd, kids, vmids>>

(* PSCI_SYSTEM_OFF and PSCI_SYSTEM_RESET: system_off_reboot locks the RD   *)
(* (granule_lock asserts it is one) from the running REC.                  *)
SystemOff(c) ==
  LET g == rec[f[c].obj].rd
  IN  /\ At(c, "en_run") /\ Goto(c, "en_exit")
      /\ CanLock(g, "RD")
      /\ rd' = [rd EXCEPT ![g].state = "SYSTEM_OFF"]
      /\ UNCHANGED <<granuleVars, rec, kids, vmids>>

(* ns_buffer_write of rec_run.exit: the page is written only when EL3 still *)
(* gives it to the host                                                     *)
EnterWrite(c) ==
  /\ At(c, "en_exit") /\ Goto(c, "en_put")
  /\ junk' = [junk EXCEPT ![f[c].buf] = junk[f[c].buf] \/ pas[f[c].buf] = "NS"]
  /\ UNCHANGED <<state, lock, refcount, pas, rd, rec, kids, vmids>>

EnterPut(c) ==
  /\ At(c, "en_put") /\ Return(c)
  /\ refcount' = [refcount EXCEPT ![f[c].obj] = refcount[f[c].obj] - 1]
  /\ UNCHANGED <<state, lock, pas, junk, rd, rec, kids, vmids>>

---------------------------------------------------------------------------
(* RTT_CREATE and RTT_DESTROY walk from the root hand over hand: the next  *)
(* table is locked before the current one is released.  Where the walk     *)
(* goes depends on the address the host gave; it is chosen on arrival at   *)
(* each table p at depth d, under its lock: go down to a child, or stop to *)
(* create or to destroy the table obj below p, or stop with an error.      *)
Arrivals(fr, p, d) ==
  LET at == [fr EXCEPT !.rd = NoGranule, !.root = p, !.i = d, !.buf = NoGranule]
  IN  {[at EXCEPT !.pc = "wk_fail"]}
      \cup {[at EXCEPT !.pc = "wk_down", !.buf = q] :
              q \in IF d + 1 < MaxDepth THEN kids[p] ELSE {}}
      \cup (IF fr.op = "create" /\ d < MaxDepth /\ Cardinality(kids[p]) < MaxKids
            THEN {[at EXCEPT !.pc = "wk_end"]} ELSE {})
      \cup (IF fr.op = "destroy" /\ fr.obj \in kids[p]
            THEN {[at EXCEPT !.pc = "wk_tbl"]} ELSE {})

RttCreate(c, t, g) ==
  LET first == Lower(t, g)
  IN  /\ "RTT_CREATE" \in Commands /\ Idle(c) /\ t # g
      /\ CanLock(first, Expected(first, t))
      /\ lock' = Locked(c, first)
      /\ Become(c, [IdleFrame EXCEPT !.pc = "tc_lock2", !.op = "create",
                                     !.obj = t, !.rd = g])
      /\ UNCHANGED <<state, refcount, pas, junk, rd, rec, kids, vmids>>

RttCreateLock2(c) ==
  LET fr     == f[c]
      second == Higher(fr.obj, fr.rd)
  IN  /\ At(c, "tc_lock2") /\ CanLock(second, Expected(second, fr.obj))
      /\ lock' = Locked(c, second)
      /\ Goto(c, "wk_root")
      /\ UNCHANGED <<state, refcount, pas, junk, rd, rec, kids, vmids>>

RttCreateLock2Fails(c) ==
  LET fr     == f[c]
      second == Higher(fr.obj, fr.rd)
  IN  /\ At(c, "tc_lock2") /\ LockFails(second, Expected(second, fr.obj))
      /\ lock' = Unlocked({Lower(fr.obj, fr.rd)})
      /\ Return(c)
      /\ UNCHANGED <<state, refcount, pas, junk, rd, rec, kids, vmids>>

RttDestroy(c, t, g) ==
  /\ "RTT_DESTROY" \in Commands /\ Idle(c)
  /\ CanLock(g, "RD")
  /\ lock' = Locked(c, g)
  /\ Become(c, [IdleFrame EXCEPT !.pc = "wk_root", !.op = "destroy",
                                 !.obj = t, !.rd = g])
  /\ UNCHANGED <<state, refcount, pas, junk, rd, rec, kids, vmids>>

(* The granules an RTT command holds beside the walk: the new table *)
WalkHolds(fr) == IF fr.op = "create" THEN {fr.obj} ELSE {}

(* Bad parameters: validate_rtt_structure_cmds, with the RD locked *)
RttInvalid(c) ==
  /\ At(c, "wk_root") /\ Return(c)
  /\ lock' = Unlocked({f[c].rd} \cup WalkHolds(f[c]))
  /\ UNCHANGED <<state, refcount, pas, junk, rd, rec, kids, vmids>>

(* Lock the first root table, then let the RD go.  The address falls in *)
(* it, or in a table concatenated to it.                                 *)
Concatenated(fr, n) ==
  {[fr EXCEPT !.pc = "wk_sl", !.rd = NoGranule, !.buf = fr.root + k] : k \in 1 .. n - 1}

RttLockRoot(c) ==
  LET fr   == f[c]
      root == rd[fr.rd].root
  IN  /\ At(c, "wk_root") /\ CanLock(root, "RTT")
      /\ lock' = [Unlocked({fr.rd}) EXCEPT ![root] = c]
      /\ \E nf \in Arrivals(fr, root, 0)
                   \cup Concatenated([fr EXCEPT !.root = root], rd[fr.rd].num) :
           Become(c, nf)
      /\ UNCHANGED <<state, refcount, pas, junk, rd, rec, kids, vmids>>

(* rtt_walk_lock_unlock: to the concatenated root table, or one level down *)
RttWalk(c) ==
  LET fr == f[c]
      q  == fr.buf
  IN  /\ fr.pc \in {"wk_sl", "wk_down"} /\ CanLock(q, "RTT")
      /\ lock' = [Unlocked({fr.root}) EXCEPT ![q] = c]
      /\ \E nf \in Arrivals(fr, q, IF fr.pc = "wk_sl" THEN 0 ELSE fr.i + 1) : Become(c, nf)
      /\ UNCHANGED <<state, refcount, pas, junk, rd, rec, kids, vmids>>

RttFail(c) ==
  /\ At(c, "wk_fail") /\ Return(c)
  /\ lock' = Unlocked({f[c].root} \cup WalkHolds(f[c]))
  /\ UNCHANGED <<state, refcount, pas, junk, rd, rec, kids, vmids>>

(* fill the new table, reference and point to it from its parent *)
RttCreateEnd(c) ==
  LET fr == f[c]
  IN  /\ At(c, "wk_end") /\ Return(c)
      /\ kids' = [kids EXCEPT ![fr.root] = kids[fr.root] \cup {fr.obj}]
      /\ refcount' = [refcount EXCEPT ![fr.root] = refcount[fr.root] + 1]
      /\ junk'  = [junk EXCEPT ![fr.obj] = TRUE]
      /\ state' = [state EXCEPT ![fr.obj] = "RTT"]
      /\ lock'  = Unlocked({fr.root, fr.obj})
      /\ UNCHANGED <<pas, rd, rec, vmids>>

(* lock the child and free it, unless it is in use; its entry in the parent *)
(* becomes DESTROYED, which is not zero                                    *)
TableMayBeUsed(t) == TRUE
TableUnused(t)    == refcount[t] = 0

ParentKept(p) == refcount
ParentPut(p)  == [refcount EXCEPT ![p] = refcount[p] - 1]

RttDestroyEnd(c) ==
  LET fr == f[c]
  IN  /\ At(c, "wk_tbl") /\ CanLock(fr.obj, "RTT") /\ TableUnused(fr.obj)
      /\ refcount' = ParentPut(fr.root)
      /\ kids'  = [kids EXCEPT ![fr.root] = kids[fr.root] \ {fr.obj}, ![fr.obj] = {}]
      /\ junk'  = [junk EXCEPT ![fr.root] = TRUE, ![fr.obj] = FALSE]
      /\ state' = [state EXCEPT ![fr.obj] = "DELEGATED"]
      /\ lock'  = Unlocked({fr.root})
      /\ Return(c)
      /\ UNCHANGED <<pas, rd, rec, vmids>>

RttDestroyInUse(c) ==
  LET fr == f[c]
  IN  /\ At(c, "wk_tbl") /\ CanLock(fr.obj, "RTT") /\ refcount[fr.obj] # 0
      /\ lock' = Unlocked({fr.root})
      /\ Return(c)
      /\ UNCHANGED <<state, refcount, pas, junk, rd, rec, kids, vmids>>

---------------------------------------------------------------------------
(* The first step of a command *)
Start(c) ==
  \/ \E g \in Granules : GranuleDelegate(c, g) \/ GranuleUndelegate(c, g)
  \/ \E g, base \in Granules, n \in 1 .. MaxRoots, v \in Vmids :
       RealmCreate(c, g, base, n, v)
  \/ \E g \in Granules : RealmDestroy(c, g)
  \/ \E r \in Granules : RecDestroy(c, r)
  \/ \E r, b \in Granules : RecEnter(c, r, b)
  \/ \E t, g \in Granules : RttCreate(c, t, g) \/ RttDestroy(c, t, g)

(* REC_CREATE's next step uses host parameters as well *)
RecCreateStep(c) ==
  \/ \E a \in Granules : RecCreateAux(c, a) \/ RecCreateAuxFails(c, a)
  \/ \E r, g \in Granules : RecCreateLock1(c, r, g) \/ RecCreateLock1Fails(c, r, g)

(* The steps of a command in progress *)
Work(c) ==
  \/ DelegateMark(c) \/ DelegateZero(c) \/ UndelegateState(c)
  \/ RealmCreateLock(c) \/ RealmCreateLockFails(c) \/ RealmCreateFreeVmid(c)
  \/ RealmCreateInit(c) \/ RealmCreateRoot(c)
  \/ RealmDestroyCount(c) \/ RealmDestroyInUse(c)
  \/ RealmDestroyRoot(c) \/ RealmDestroyFree(c)
  \/ RecCreateLock2(c) \/ RecCreateLock2Fails(c)
  \/ \E runnable \in BOOLEAN : RecCreateBody(c, runnable)
  \/ RecCreateRefused(c) \/ RecCreateUndo(c)
  \/ RecDestroyAux(c) \/ RecDestroyFree(c) \/ RecDestroyPut(c)
  \/ EnterRead(c) \/ EnterCheck(c) \/ EnterWrite(c) \/ EnterPut(c)
  \/ RttCreateLock2(c) \/ RttCreateLock2Fails(c)
  \/ RttInvalid(c) \/ RttLockRoot(c) \/ RttWalk(c) \/ RttFail(c)
  \/ RttCreateEnd(c) \/ RttDestroyEnd(c) \/ RttDestroyInUse(c)

(* The realm's own steps while a CPU runs it *)
RealmRuns(c) == SystemOff(c) \/ \E off \in BOOLEAN : EnterRun(c, off)

Next ==
  \/ \E g \in Granules : HostWrite(g) \/ RealmActivate(g)
  \/ \E c \in Cpus : Start(c) \/ RecCreateStep(c) \/ Work(c) \/ RealmRuns(c)

Spec == Init /\ [][Next]_vars

---------------------------------------------------------------------------
(* Types *)
Labels == {"idle", "dl_mark", "dl_zero", "ud_state",
           "rc_lock", "rc_vmid", "rc_init", "rc_roots",
           "rd_count", "rd_roots", "rd_free",
           "rn_aux", "rn_lock2", "rn_body", "rn_undo",
           "rx_aux", "rx_free", "rx_put",
           "en_read", "en_check", "en_run", "en_exit", "en_put",
           "tc_lock2", "wk_root", "wk_sl", "wk_down", "wk_fail", "wk_end", "wk_tbl"}

RdType  == [state : RealmStates, vmid : Nat, root : Nat, num : Nat, recs : Nat]
RecType == [rd : AnyGranule, idx : Nat, aux : AuxSeqs, runnable : BOOLEAN]
Frame   == [pc : Labels, obj : AnyGranule, rd : AnyGranule, root : Nat,
            buf : Nat, vmid : Nat, num : Nat, aux : AuxSeqs, i : Nat, j : Nat,
            used : BOOLEAN, op : {"none", "create", "destroy"}]

(* Every variable keeps the type the C structures give it. *)
TypeOK ==
  /\ GranuleTypeOK
  /\ rd    \in [Granules -> RdType]
  /\ rec   \in [Granules -> RecType]
  /\ kids  \in [Granules -> SUBSET Granules]
  /\ vmids \subseteq Vmids
  /\ f     \in [Cpus -> Frame]

---------------------------------------------------------------------------
(* The locks that a CPU at this point of its command is to hold *)
Held(fr) ==
  CASE fr.pc \in {"dl_mark", "dl_zero", "ud_state", "rd_count", "rd_roots",
                  "rd_free", "rx_aux", "rx_free"}    -> {fr.obj}
    [] fr.pc \in {"rc_lock", "rc_init"}              -> RcHeld(fr)
    [] fr.pc = "rc_roots"                            -> fr.root + fr.i .. fr.root + (fr.num - 1)
    [] fr.pc \in {"rn_lock2", "tc_lock2"}            -> {Lower(fr.obj, fr.rd)}
    [] fr.pc = "rn_body"                             -> {fr.obj, fr.rd}
    [] fr.pc = "wk_root"                             -> {fr.rd} \cup WalkHolds(fr)
    [] fr.pc \in {"wk_sl", "wk_down", "wk_fail", "wk_end", "wk_tbl"}
                                                     -> {fr.root} \cup WalkHolds(fr)
    [] OTHER                                         -> {}

(* A CPU holds exactly the locks its command took and has not released:    *)
(* no error path leaks a lock, none releases the lock of another CPU.      *)
LockInv == \A g \in Granules, c \in Cpus : lock[g] = c <=> g \in Held(f[c])

(* granule_types.h: "any unlocked granule with state == DELEGATED contains *)
(* only zeroes".  REC_CREATE and REALM_CREATE rely on it for the fields    *)
(* they do not set.                                                        *)
DelegatedZero ==
  \A g \in Granules : Free(g) /\ state[g] = "DELEGATED" => Zeroed(g)

(* The host reaches an unlocked granule exactly when the RMM records it as *)
(* Non-secure, and it never reaches one that holds an RMM structure.       *)
HostReachesOnlyNS ==
  \A g \in Granules : /\ Free(g) => (pas[g] = "NS" <=> state[g] = "NS")
                      /\ pas[g] = "NS" => state[g] \in {"NS", "DELEGATED"}

(* The assertions of __granule_assert_unlocked_invariants hold of every    *)
(* unlocked granule, so that no lock or unlock stops the RMM.              *)
UnlockedInvariants == \A g \in Granules : Free(g) => UnlockedInvariant(g)

---------------------------------------------------------------------------
Recs(g)    == {r \in Granules : state[r] = "REC" /\ rec[r].rd = g}
Putting(g) == {c \in Cpus : f[c].pc \in {"rx_put"} /\ f[c].rd = g}
Inside(r)  == {c \in Cpus : f[c].pc \in {"en_read", "en_check", "en_run", "en_exit", "en_put"}
                            /\ f[c].obj = r}

(* The reference counts count.  A RD: its RECs, and the REC_DESTROYs that  *)
(* have freed the REC and not yet dropped the reference (the "transient    *)
(* over-estimate" of rec.c).  A REC: the CPU that runs it.  A table: the   *)
(* entries that point to a table.                                          *)
RefcountsCount ==
  \A g \in Granules :
    refcount[g] = CASE state[g] = "RD"  -> Cardinality(Recs(g)) + Cardinality(Putting(g))
                    [] state[g] = "REC" -> Cardinality(Inside(g))
                    [] state[g] = "RTT" -> Cardinality(kids[g])
                    [] OTHER            -> 0

(* The REC a CPU is entering, running or leaving is a REC and no other CPU *)
(* is in it; its realm's RD, which rec_enter reads without a lock, is a RD *)
(* and was activated before the realm ran.                                 *)
EnteredRecIsAlive ==
  \A c \in Cpus : \A r \in Granules : c \in Inside(r) =>
    /\ state[r] = "REC" /\ Inside(r) = {c}
    /\ state[rec[r].rd] = "RD"
    /\ f[c].pc \in {"en_run", "en_exit"} => rd[rec[r].rd].state # "NEW"

(* A REC's realm outlives it, and the indexes of a realm's RECs differ and *)
(* are below its rec_count (psci_cpu_on takes an index below the count for *)
(* a REC that was created).                                                *)
RecsBelongToRealm ==
  \A r \in Granules : state[r] = "REC" =>
    /\ state[rec[r].rd] = "RD"
    /\ rec[r].idx < rd[rec[r].rd].recs
    /\ \A q \in Recs(rec[r].rd) : rec[q].idx = rec[r].idx => q = r

(* Each auxiliary granule of a REC is REC_AUX and of this REC only, even   *)
(* though REC_CREATE took them one at a time with no lock held between.    *)
AuxOwned ==
  \A r \in Granules : state[r] = "REC" /\ Free(r) =>
    \A k \in 1 .. NumAux :
      /\ state[rec[r].aux[k]] = "REC_AUX"
      /\ \A q \in Granules, l \in 1 .. NumAux :
           state[q] = "REC" /\ Free(q) /\ rec[q].aux[l] = rec[r].aux[k] => q = r /\ l = k

(* The root tables of a realm whose RD is unlocked and is not waiting for  *)
(* its creator to release them are tables, and only of this realm.  Every  *)
(* other table is pointed to by exactly one entry of one table: none is    *)
(* shared, and none is lost with the memory the host gave for it.          *)
RootsOf(g) == Roots(rd[g].root, rd[g].num)
TreesIntact ==
  /\ \A g, h \in Granules :
       state[g] = "RD" /\ state[h] = "RD" /\ Free(g) /\ Free(h) /\ g # h =>
         RootsOf(g) \cap RootsOf(h) = {}
  /\ \A g \in Granules : state[g] = "RD" /\ Free(g) =>
       \A t \in RootsOf(g) : Free(t) => state[t] = "RTT"
  /\ \A p, t \in Granules : t \in kids[p] =>
       /\ state[p] = "RTT" /\ state[t] = "RTT"
       /\ \A q \in Granules : t \in kids[q] => q = p
       /\ \A g \in Granules : state[g] = "RD" /\ Free(g) => t \notin RootsOf(g)
  /\ \A t \in Granules : state[t] = "RTT" /\ Free(t) =>
       \/ \E p \in Granules : t \in kids[p]
       \/ \E g \in Granules : state[g] = "RD" /\ t \in RootsOf(g)

(* No two realms have the same VMID, save one that is being destroyed: the *)
(* translations of both would share TLB entries.                           *)
VmidExclusive ==
  \A g, h \in Granules :
    /\ state[g] = "RD" /\ Free(g)
    /\ state[h] = "RD" /\ Free(h)
    /\ rd[g].vmid = rd[h].vmid
    => g = h

---------------------------------------------------------------------------
(* "A granule's state can be changed iff the granule is locked and the     *)
(* reference count is zero" (docs/design/locking.rst): a step that changes *)
(* the state of a granule finds it unreferenced and locked by no other     *)
(* CPU than the one that takes the step.                                   *)
StateChangesUnreferenced ==
  [][\A g \in Granules : state'[g] # state[g] =>
       /\ refcount[g] = 0
       /\ \E c \in Cpus : f'[c] # f[c] /\ lock[g] \in {c, NoCpu}]_vars

(* Once a realm is activated no REC joins it, it is never NEW again, and   *)
(* once it is off it stays off, until its RD is destroyed.                 *)
RealmSealed ==
  [][\A g \in Granules :
       state[g] = "RD" /\ state'[g] = "RD" /\ rd[g].state # "NEW" =>
         /\ rd'[g].recs = rd[g].recs
         /\ rd'[g].state \in {rd[g].state, "SYSTEM_OFF"}]_vars

---------------------------------------------------------------------------
(* Each CPU goes on with the command it executes as long as it can; a      *)
(* spinlock is not fair to the CPUs that wait for it.  The host takes a    *)
(* CPU back from a realm that runs.                                        *)
Fairness ==
  \A c \in Cpus : WF_vars(Work(c)) /\ WF_vars(RecCreateStep(c) /\ ~Idle(c))
                  /\ WF_vars(RealmRuns(c))

FairSpec == Spec /\ Fairness

(* No command is stuck: when the hosts stop issuing commands, those in     *)
(* progress all return.  A lock leaked by an error path, or two CPUs that  *)
(* lock the same granules in opposite orders, would violate it.            *)
CommandStarts == \E c \in Cpus : Idle(c) /\ f'[c].pc # "idle"
CommandsReturn == <>[][~CommandStarts]_vars => <>[](\A c \in Cpus : Idle(c))

=============================================================================
