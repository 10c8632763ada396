--------------------------- MODULE LifecycleLocks ---------------------------
(***************************************************************************)
(* Proofs of LockInv and, from it, of HostReachesOnlyNS, for any number of *)
(* CPUs, granules, root tables and auxiliary granules: a CPU holds exactly *)
(* the locks its command took and has not released, and only granules of   *)
(* the Normal world are in the state NS.                                   *)
(*                                                                         *)
(* LockInv is not inductive: that the second lock of a command is not the  *)
(* first again, and that what an error path releases is what was locked,   *)
(* depends on the locals of the command (FrameOK) and on their types       *)
(* (Types).  Each step of a CPU keeps, takes, drops or hands over locks in *)
(* step with Held of its frame, which the lemmas OwnSame, OwnTake, OwnDrop *)
(* and OwnSwap carry to the invariant; there is one lemma for each action. *)
(***************************************************************************)
EXTENDS RealmLifecycle, TLAPS

(* TypeOK, save that a reference count may be any integer: that it is      *)
(* natural depends on what the counts count.                               *)
Types ==
  /\ state    \in [Granules -> States]
  /\ lock     \in [Granules -> Cpus \cup {NoCpu}]
  /\ refcount \in [Granules -> Int]
  /\ pas      \in [Granules -> {"NS", "REALM"}]
  /\ junk     \in [Granules -> BOOLEAN]
  /\ rd       \in [Granules -> RdType]
  /\ rec      \in [Granules -> RecType]
  /\ kids     \in [Granules -> SUBSET Granules]
  /\ vmids \subseteq Vmids
  /\ f        \in [Cpus -> Frame]

(* What the locals of a command satisfy for the locks it says it holds to  *)
(* be distinct, and to be those its next steps take and release.           *)
FrameOK(fr) ==
  /\ fr.pc = "idle" => fr = IdleFrame
  /\ fr.pc \in {"rc_lock", "rc_init"} => fr.obj \notin Roots(fr.root, fr.num) /\ fr.num > 0
  /\ fr.pc = "rc_lock" => fr.i <= fr.num
  /\ fr.pc = "rc_init" => fr.i = fr.num + 1
  /\ fr.pc = "rc_roots" => fr.i < fr.num
  /\ fr.pc \in {"rn_lock2", "rn_body", "tc_lock2"} => fr.obj # fr.rd
  /\ fr.pc = "wk_root" /\ fr.op = "create" => fr.obj # fr.rd
  /\ fr.pc \in {"wk_sl", "wk_down", "wk_fail", "wk_end", "wk_tbl"}
     /\ fr.op = "create" => fr.obj # fr.root
  /\ fr.pc \in {"tc_lock2", "wk_end"} => fr.op = "create"
  /\ fr.pc = "wk_tbl" => fr.op = "destroy"

Locks == /\ LockInv
         /\ \A c \in Cpus : Held(f[c]) \subseteq Granules
         /\ \A c \in Cpus : FrameOK(f[c])

LockIInv == Types /\ Locks

---------------------------------------------------------------------------
(* Frames *)

LEMMA IdleFrameType == IdleFrame \in Frame
  BY GranuleAssumption DEF IdleFrame, Frame, Labels, AnyGranule, NoGranule, NoAux, AuxSeqs

LEMMA GranulesAreAny == Granules \subseteq AnyGranule /\ NoGranule \in AnyGranule
  BY GranuleAssumption DEF Granules, AnyGranule, NoGranule

LEMMA FrameStep ==
  ASSUME Types, NEW c \in Cpus, NEW nf, nf \in Frame, Become(c, nf)
  PROVE  f' \in [Cpus -> Frame]
  BY DEF Become, Types

(* A CPU that holds no lock, at one of these points of a command *)
Lockless == {"idle", "rc_vmid", "rn_aux", "rn_undo", "rx_put",
             "en_read", "en_check", "en_run", "en_exit", "en_put"}

LEMMA LocklessHeld ==
  ASSUME NEW fr, fr.pc \in Lockless
  PROVE  Held(fr) = {}
  BY DEF Lockless, Held

LEMMA LocklessOK ==
  ASSUME NEW fr, fr.pc \in Lockless, fr.pc # "idle"
  PROVE  FrameOK(fr)
  BY DEF Lockless, FrameOK

LEMMA IdleOK == Held(IdleFrame) = {} /\ FrameOK(IdleFrame)
  BY LocklessHeld DEF IdleFrame, Lockless, FrameOK

---------------------------------------------------------------------------
(* Steps of one CPU keep the locks in step with the frames. *)

LEMMA OwnStep ==
  ASSUME LockIInv, NEW c \in Cpus, NEW nf, Become(c, nf), FrameOK(nf),
         Held(nf) \subseteq Granules,
         \A g \in Granules : (lock'[g] = c <=> g \in Held(nf)),
         \A g \in Granules : lock'[g] # lock[g] =>
            lock[g] \in {c, NoCpu} /\ lock'[g] \in {c, NoCpu}
  PROVE  Locks'
<1>1. LockInv'
  <2> SUFFICES ASSUME NEW g \in Granules, NEW d \in Cpus
               PROVE  lock'[g] = d <=> g \in Held(f'[d])
    BY DEF LockInv
  <2>1. CASE d = c
    BY <2>1 DEF LockIInv, Types, Become
  <2>2. CASE d # c
    <3>1. f'[d] = f[d]
      BY <2>2 DEF LockIInv, Types, Become
    <3>2. lock[g] = d <=> g \in Held(f[d])
      BY DEF LockIInv, Locks, LockInv
    <3> QED BY <3>1, <3>2, <2>2, GranuleAssumption
  <2> QED BY <2>1, <2>2
<1>2. \A d \in Cpus : FrameOK(f'[d]) /\ Held(f'[d]) \subseteq Granules
  BY DEF LockIInv, Locks, Types, Become
<1> QED BY <1>1, <1>2 DEF Locks

LEMMA OwnSame ==
  ASSUME LockIInv, NEW c \in Cpus, NEW nf, Become(c, nf), FrameOK(nf),
         lock' = lock, Held(nf) = Held(f[c])
  PROVE  Locks'
  BY OwnStep DEF LockIInv, Locks, LockInv

LEMMA OwnTake ==
  ASSUME LockIInv, NEW c \in Cpus, NEW nf, Become(c, nf), FrameOK(nf),
         NEW g \in Granules, Free(g), lock' = Locked(c, g),
         Held(nf) = Held(f[c]) \cup {g}
  PROVE  Locks'
<1>1. \A h \in Granules : lock'[h] = IF h = g THEN c ELSE lock[h]
  BY DEF LockIInv, Types, Locked
<1>2. /\ \A h \in Granules : lock[h] = c <=> h \in Held(f[c])
      /\ Held(f[c]) \subseteq Granules
  BY DEF LockIInv, Locks, LockInv
<1> HIDE DEF LockIInv
<1> QED BY <1>1, <1>2, OwnStep DEF Free

LEMMA OwnDrop ==
  ASSUME LockIInv, NEW c \in Cpus, NEW nf, Become(c, nf), FrameOK(nf),
         NEW S, S \subseteq Held(f[c]), lock' = Unlocked(S),
         Held(nf) = Held(f[c]) \ S
  PROVE  Locks'
<1>1. \A h \in Granules : lock'[h] = IF h \in S THEN NoCpu ELSE lock[h]
  BY DEF Unlocked
<1>2. /\ \A h \in Granules : lock[h] = c <=> h \in Held(f[c])
      /\ Held(f[c]) \subseteq Granules
  BY DEF LockIInv, Locks, LockInv
<1> QED BY <1>1, <1>2, OwnStep, GranuleAssumption

LEMMA OwnSwap ==
  ASSUME LockIInv, NEW c \in Cpus, NEW nf, Become(c, nf), FrameOK(nf),
         NEW g \in Granules, Free(g), NEW h, h \in Held(f[c]),
         lock' = [Unlocked({h}) EXCEPT ![g] = c],
         Held(nf) = (Held(f[c]) \ {h}) \cup {g}
  PROVE  Locks'
<1>1. \A e \in Granules : lock'[e] = IF e = g THEN c ELSE IF e = h THEN NoCpu ELSE lock[e]
  BY DEF Unlocked
<1>2. /\ \A e \in Granules : lock[e] = c <=> e \in Held(f[c])
      /\ Held(f[c]) \subseteq Granules
  BY DEF LockIInv, Locks, LockInv
<1> QED BY <1>1, <1>2, OwnStep, GranuleAssumption DEF Free

---------------------------------------------------------------------------
(* One lemma for each action. *)

LEMMA HostWriteStep ==
  ASSUME LockIInv, NEW g \in Granules, HostWrite(g)
  PROVE  LockIInv'
<1>1. Types'
  BY DEF LockIInv, Types, HostWrite
<1>2. Locks'
  BY DEF LockIInv, Locks, LockInv, HostWrite
<1> QED BY <1>1, <1>2 DEF LockIInv

LEMMA RealmActivateStep ==
  ASSUME LockIInv, NEW g \in Granules, RealmActivate(g)
  PROVE  LockIInv'
<1>1. rd' \in [Granules -> RdType]
  BY DEF LockIInv, Types, RealmActivate, RdType, RealmStates
<1>2. Types'
  BY <1>1 DEF LockIInv, Types, RealmActivate, granuleVars
<1>3. Locks'
  BY DEF LockIInv, Locks, LockInv, RealmActivate, granuleVars
<1> QED BY <1>2, <1>3 DEF LockIInv

LEMMA GranuleDelegateStep ==
  ASSUME LockIInv, NEW c \in Cpus, NEW g \in Granules, GranuleDelegate(c, g)
  PROVE  LockIInv'
<1> DEFINE nf == [IdleFrame EXCEPT !.pc = "dl_mark", !.obj = g]
<1>1. nf \in Frame /\ nf.pc = "dl_mark" /\ nf.obj = g
  BY IdleFrameType, GranulesAreAny DEF Frame, Labels
<1>2. Become(c, nf) /\ f[c].pc \in Lockless
  BY DEF GranuleDelegate, Idle, Lockless
<1> HIDE DEF nf
<1>3. Types'
  BY <1>1, <1>2, FrameStep DEF LockIInv, Types, GranuleDelegate, States, Locked
<1>4. Held(nf) = {g} /\ FrameOK(nf)
  BY <1>1 DEF Held, FrameOK
<1>5. Locks'
  BY <1>2, <1>4, LocklessHeld, OwnTake DEF GranuleDelegate, CanLock
<1> QED BY <1>3, <1>5 DEF LockIInv

LEMMA DelegateMarkStep ==
  ASSUME LockIInv, NEW c \in Cpus, DelegateMark(c)
  PROVE  LockIInv'
<1> DEFINE nf == [f[c] EXCEPT !.pc = "dl_zero"]
<1>1. nf \in Frame /\ nf.pc = "dl_zero" /\ nf.obj = f[c].obj
  BY DEF LockIInv, Types, Frame, Labels
<1>2. Become(c, nf)
  BY DEF DelegateMark, Goto
<1> HIDE DEF nf
<1>3. Types'
  BY <1>1, <1>2, FrameStep DEF LockIInv, Types, DelegateMark
<1>4. Held(nf) = Held(f[c]) /\ FrameOK(nf)
  BY <1>1 DEF Held, FrameOK, DelegateMark, At
<1>5. Locks'
  BY <1>2, <1>4, OwnSame DEF DelegateMark
<1> QED BY <1>3, <1>5 DEF LockIInv

LEMMA ZeroOutTypes ==
  ASSUME Types, NEW S, ZeroOut(S)
  PROVE  /\ junk' \in [Granules -> BOOLEAN]
         /\ rd'   \in [Granules -> RdType]
         /\ rec'  \in [Granules -> RecType]
         /\ kids' \in [Granules -> SUBSET Granules]
<1>1. RdZero \in RdType
  BY DEF RdZero, RdType, RealmStates, NoGranule
<1>2. RecZero \in RecType
  BY GranuleAssumption DEF RecZero, RecType, NoGranule, AnyGranule, NoAux, AuxSeqs
<1> QED BY <1>1, <1>2 DEF ZeroOut, Types

LEMMA DelegateZeroStep ==
  ASSUME LockIInv, NEW c \in Cpus, DelegateZero(c)
  PROVE  LockIInv'
<1>1. Types'
  BY IdleFrameType, FrameStep, ZeroOutTypes DEF LockIInv, Types, DelegateZero, Return, Unlocked
<1>2. Held(f[c]) = {f[c].obj}
  BY DEF Held, DelegateZero, At
<1>3. Locks'
  BY <1>2, IdleOK, OwnDrop DEF DelegateZero, Return
<1> QED BY <1>1, <1>3 DEF LockIInv

LEMMA GranuleUndelegateStep ==
  ASSUME LockIInv, NEW c \in Cpus, NEW g \in Granules, GranuleUndelegate(c, g)
  PROVE  LockIInv'
<1> DEFINE nf == [IdleFrame EXCEPT !.pc = "ud_state", !.obj = g]
<1>1. nf \in Frame /\ nf.pc = "ud_state" /\ nf.obj = g
  BY IdleFrameType, GranulesAreAny DEF Frame, Labels
<1>2. Become(c, nf) /\ f[c].pc \in Lockless
  BY DEF GranuleUndelegate, Idle, Lockless
<1> HIDE DEF nf
<1>3. Types'
  BY <1>1, <1>2, FrameStep DEF LockIInv, Types, GranuleUndelegate, MarkNonsecure, Locked
<1>4. Held(nf) = {g} /\ FrameOK(nf)
  BY <1>1 DEF Held, FrameOK
<1>5. Locks'
  BY <1>2, <1>4, LocklessHeld, OwnTake DEF GranuleUndelegate, CanLock
<1> QED BY <1>3, <1>5 DEF LockIInv

LEMMA UndelegateStateStep ==
  ASSUME LockIInv, NEW c \in Cpus, UndelegateState(c)
  PROVE  LockIInv'
<1>1. Types'
  BY IdleFrameType, FrameStep DEF LockIInv, Types, UndelegateState, Return, Unlocked, States
<1>2. Held(f[c]) = {f[c].obj}
  BY DEF Held, UndelegateState, At
<1>3. Locks'
  BY <1>2, IdleOK, OwnDrop DEF UndelegateState, Return
<1> QED BY <1>1, <1>3 DEF LockIInv

LEMMA RealmCreateStep ==
  ASSUME LockIInv, NEW c \in Cpus, NEW g \in Granules, NEW base \in Granules,
         NEW n \in 1 .. MaxRoots, NEW v \in Vmids, RealmCreate(c, g, base, n, v)
  PROVE  LockIInv'
<1> DEFINE l  == IF g \in Roots(base, n) THEN "rc_vmid" ELSE "rc_lock"
           nf == [IdleFrame EXCEPT !.pc = l, !.obj = g, !.root = base,
                                   !.num = n, !.vmid = v]
<1>1. /\ nf \in Frame
      /\ nf.pc = l /\ nf.obj = g /\ nf.root = base /\ nf.num = n /\ nf.i = 0
  <2>1. base \in Nat /\ n \in Nat /\ v \in Nat /\ g \in AnyGranule
    BY GranulesAreAny, GranuleAssumption, LifecycleAssumption DEF Granules, Vmids
  <2> QED BY <2>1, IdleFrameType DEF IdleFrame, Frame, Labels
<1>2. Become(c, nf) /\ f[c].pc \in Lockless
  BY DEF RealmCreate, Idle, Lockless
<1>3. l = "rc_vmid" \/ (l = "rc_lock" /\ g \notin Roots(base, n))
  OBVIOUS
<1> HIDE DEF nf, l
<1>4. Types'
  BY <1>1, <1>2, FrameStep DEF LockIInv, Types, RealmCreate, granuleVars
<1>5. Held(nf) = {}
  <2>1. CASE l = "rc_vmid"
    BY <1>1, <2>1, LocklessHeld DEF Lockless
  <2>2. CASE l = "rc_lock"
    <3>1. Held(nf) = RcHeld(nf)
      BY <1>1, <2>2 DEF Held
    <3>2. 1 .. nf.i = {}
      BY <1>1
    <3> QED BY <3>1, <3>2 DEF RcHeld
  <2> QED BY <1>3, <2>1, <2>2
<1>6. FrameOK(nf)
  BY <1>1, <1>3, LifecycleAssumption DEF FrameOK
<1>7. Locks'
  BY <1>2, <1>5, <1>6, LocklessHeld, OwnSame DEF RealmCreate, granuleVars
<1> QED BY <1>4, <1>7 DEF LockIInv

(* What find_lock_rd_granules has locked after one more granule *)
LEMMA RcHeldStep ==
  ASSUME NEW fr \in Frame, NEW nf, nf.obj = fr.obj, nf.root = fr.root,
         nf.num = fr.num, nf.i = fr.i + 1
  PROVE  RcHeld(nf) = RcHeld(fr) \cup {RcGranule(fr, fr.i + 1)}
<1>1. \A k : RcGranule(nf, k) = RcGranule(fr, k)
  BY DEF RcGranule
<1>2. 1 .. nf.i = (1 .. fr.i) \cup {fr.i + 1}
  BY DEF Frame
<1> QED BY <1>1, <1>2 DEF RcHeld

(* and what it has locked when it has locked all *)
LEMMA RcHeldAll ==
  ASSUME NEW fr \in Frame, fr.i = fr.num + 1
  PROVE  RcHeld(fr) = {fr.obj} \cup Roots(fr.root, fr.num)
<1>1. fr.i \in Nat /\ fr.num \in Nat /\ fr.root \in Nat
  BY DEF Frame
<1>2. \A k \in 1 .. fr.i : RcGranule(fr, k) \in {fr.obj} \cup Roots(fr.root, fr.num)
  BY <1>1 DEF RcGranule, Roots
<1>3. \E k \in 1 .. fr.i : RcGranule(fr, k) = fr.obj
  <2>1. RcGranule(fr, 1) = fr.obj \/ RcGranule(fr, fr.num + 1) = fr.obj
    BY DEF RcGranule
  <2> QED BY <1>1, <2>1
<1>4. ASSUME NEW h \in Roots(fr.root, fr.num)
      PROVE  \E k \in 1 .. fr.i : RcGranule(fr, k) = h
  <2>1. h \in fr.root .. fr.root + (fr.num - 1)
    BY DEF Roots
  <2>2. CASE fr.obj < fr.root
    <3>1. h - fr.root + 2 \in 1 .. fr.i /\ RcGranule(fr, h - fr.root + 2) = h
      BY <1>1, <2>1, <2>2 DEF RcGranule
    <3> QED BY <3>1
  <2>3. CASE ~(fr.obj < fr.root)
    <3>1. h - fr.root + 1 \in 1 .. fr.i /\ RcGranule(fr, h - fr.root + 1) = h
      BY <1>1, <2>1, <2>3 DEF RcGranule
    <3> QED BY <3>1
  <2> QED BY <2>2, <2>3
<1> QED BY <1>2, <1>3, <1>4 DEF RcHeld

LEMMA RealmCreateLockStep ==
  ASSUME LockIInv, NEW c \in Cpus, RealmCreateLock(c)
  PROVE  LockIInv'
<1> DEFINE fr == f[c]
           g  == RcGranule(fr, fr.i + 1)
           l  == IF fr.i = fr.num THEN "rc_init" ELSE "rc_lock"
           k  == fr.i + 1
           nf == [fr EXCEPT !.i = k, !.pc = l]
<1>0. fr \in Frame
  BY DEF LockIInv, Types
<1>1. /\ nf \in Frame /\ nf.pc = l
      /\ nf.obj = fr.obj /\ nf.root = fr.root /\ nf.num = fr.num /\ nf.i = k
  <2>1. l \in Labels /\ k \in Nat
    BY <1>0 DEF Labels, Frame
  <2> HIDE DEF l, k
  <2> QED BY <1>0, <2>1 DEF Frame
<1>2. Become(c, nf)
  BY DEF RealmCreateLock
<1>3. FrameOK(fr) /\ fr.pc = "rc_lock"
  BY DEF RealmCreateLock, At, LockIInv, Locks
<1> HIDE DEF nf
<1>4. Types'
  BY <1>1, <1>2, FrameStep DEF LockIInv, Types, RealmCreateLock, Locked
<1>5. Held(nf) = Held(fr) \cup {g}
  BY <1>0, <1>1, <1>3, RcHeldStep DEF Held
<1>6. FrameOK(nf)
  <2>1. fr.i \in Nat /\ fr.num \in Nat
    BY <1>0 DEF Frame
  <2> QED BY <1>1, <1>3, <2>1 DEF FrameOK
<1>7. g \in Granules /\ Free(g) /\ lock' = Locked(c, g)
  BY DEF RealmCreateLock, CanLock
<1> HIDE DEF g
<1>8. Locks'
  BY <1>2, <1>5, <1>6, <1>7, OwnTake
<1> QED BY <1>4, <1>8 DEF LockIInv

LEMMA RealmCreateLockFailsStep ==
  ASSUME LockIInv, NEW c \in Cpus, RealmCreateLockFails(c)
  PROVE  LockIInv'
<1> DEFINE nf == [IdleFrame EXCEPT !.pc = "rc_vmid", !.vmid = f[c].vmid]
<1>1. nf \in Frame /\ nf.pc = "rc_vmid"
  BY IdleFrameType DEF LockIInv, Types, Frame, Labels
<1>2. Become(c, nf) /\ lock' = Unlocked(RcHeld(f[c]))
  BY DEF RealmCreateLockFails
<1> HIDE DEF nf
<1>3. Types'
  BY <1>1, <1>2, FrameStep DEF LockIInv, Types, RealmCreateLockFails, Unlocked
<1>4. Held(nf) = {} /\ FrameOK(nf)
  BY <1>1, LocklessHeld, LocklessOK DEF Lockless
<1>5. Held(f[c]) = RcHeld(f[c])
  BY DEF Held, RealmCreateLockFails, At
<1>6. Locks'
  BY <1>2, <1>4, <1>5, OwnDrop
<1> QED BY <1>3, <1>6 DEF LockIInv

LEMMA RealmCreateFreeVmidStep ==
  ASSUME LockIInv, NEW c \in Cpus, RealmCreateFreeVmid(c)
  PROVE  LockIInv'
<1>1. Types'
  BY IdleFrameType, FrameStep DEF LockIInv, Types, RealmCreateFreeVmid, Return, granuleVars
<1>2. Held(f[c]) = {}
  BY LocklessHeld DEF RealmCreateFreeVmid, At, Lockless
<1>3. Locks'
  BY <1>2, IdleOK, OwnSame DEF RealmCreateFreeVmid, Return, granuleVars
<1> QED BY <1>1, <1>3 DEF LockIInv

LEMMA RealmCreateInitStep ==
  ASSUME LockIInv, NEW c \in Cpus, RealmCreateInit(c)
  PROVE  LockIInv'
<1> DEFINE fr == f[c]
           nf == [fr EXCEPT !.pc = "rc_roots", !.i = 0]
           nr == [state |-> "NEW", vmid |-> fr.vmid, root |-> fr.root,
                  num |-> fr.num, recs |-> 0]
<1>0. fr \in Frame
  BY DEF LockIInv, Types
<1>1. /\ nf \in Frame
      /\ nf.pc = "rc_roots" /\ nf.root = fr.root /\ nf.num = fr.num /\ nf.i = 0
  BY <1>0 DEF Frame, Labels
<1>2. nr \in RdType
  BY <1>0 DEF Frame, RdType, RealmStates
<1>3. Become(c, nf) /\ lock' = Unlocked({fr.obj})
  BY DEF RealmCreateInit
<1>4. rd' = [rd EXCEPT ![fr.obj] = nr]
  BY DEF RealmCreateInit
<1>5. FrameOK(fr) /\ fr.pc = "rc_init"
  BY DEF RealmCreateInit, At, LockIInv, Locks
<1> HIDE DEF nf, nr
<1>6. Types'
  <2>1. rd' \in [Granules -> RdType]
    BY <1>2, <1>4 DEF LockIInv, Types
  <2> QED BY <2>1, <1>1, <1>3, FrameStep DEF LockIInv, Types, RealmCreateInit, Unlocked, States
<1>7. Held(fr) = {fr.obj} \cup Roots(fr.root, fr.num)
  BY <1>0, <1>5, RcHeldAll DEF Held, FrameOK
<1>8. Held(nf) = Roots(fr.root, fr.num)
  <2>1. fr.root \in Nat
    BY <1>0 DEF Frame
  <2> QED BY <1>1, <2>1 DEF Held, Roots
<1>9. FrameOK(nf) /\ fr.obj \notin Roots(fr.root, fr.num)
  BY <1>0, <1>1, <1>5 DEF FrameOK, Frame
<1>10. Locks'
  BY <1>3, <1>7, <1>8, <1>9, OwnDrop
<1> QED BY <1>6, <1>10 DEF LockIInv

LEMMA RealmCreateRootStep ==
  ASSUME LockIInv, NEW c \in Cpus, RealmCreateRoot(c)
  PROVE  LockIInv'
<1> DEFINE fr == f[c]
           g  == fr.root + fr.i
           up == [fr EXCEPT !.i = fr.i + 1]
           nf == IF fr.i + 1 = fr.num THEN IdleFrame ELSE up
<1>1. /\ up \in Frame /\ fr \in Frame
      /\ up.pc = fr.pc /\ up.root = fr.root /\ up.num = fr.num /\ up.i = fr.i + 1
  BY DEF LockIInv, Types, Frame
<1>2. Become(c, nf) /\ lock' = Unlocked({g})
  BY DEF RealmCreateRoot
<1>3. fr.pc = "rc_roots" /\ fr.i < fr.num
  BY DEF RealmCreateRoot, At, LockIInv, Locks, FrameOK
<1>4. fr.root \in Nat /\ fr.num \in Nat /\ fr.i \in Nat
  BY <1>1 DEF Frame
<1> HIDE DEF up
<1>5. Types'
  <2>1. f' \in [Cpus -> Frame]
    BY <1>1, <1>2, IdleFrameType, FrameStep DEF LockIInv
  <2>2. lock' \in [Granules -> Cpus \cup {NoCpu}]
    BY <1>2 DEF LockIInv, Types, Unlocked
  <2>3. /\ state' \in [Granules -> States]
        /\ UNCHANGED <<refcount, pas, junk, rd, rec, kids, vmids>>
    BY DEF LockIInv, Types, RealmCreateRoot, States
  <2> QED BY <2>1, <2>2, <2>3 DEF LockIInv, Types
<1>6. Held(fr) = g .. fr.root + (fr.num - 1)
  BY <1>3 DEF Held
<1>7. Held(nf) = Held(fr) \ {g}
  <2>1. CASE fr.i + 1 = fr.num
    BY <2>1, <1>4, <1>6, IdleOK, SMTT(30)
  <2>2. CASE fr.i + 1 # fr.num
    <3>1. Held(up) = fr.root + up.i .. fr.root + (fr.num - 1)
      BY <1>1, <1>3 DEF Held
    <3> QED BY <3>1, <2>2, <1>1, <1>4, <1>6
  <2> QED BY <2>1, <2>2
<1>8. FrameOK(nf)
  <2>1. CASE fr.i + 1 = fr.num
    BY <2>1, IdleOK
  <2>2. CASE fr.i + 1 # fr.num
    BY <2>2, <1>1, <1>3, <1>4 DEF FrameOK
  <2> QED BY <2>1, <2>2
<1>9. g \in Held(fr)
  BY <1>3, <1>4, <1>6
<1> HIDE DEF nf, g
<1>10. Locks'
  BY <1>2, <1>7, <1>8, <1>9, OwnDrop
<1> QED BY <1>5, <1>10 DEF LockIInv

LEMMA RealmDestroyStep ==
  ASSUME LockIInv, NEW c \in Cpus, NEW g \in Granules, RealmDestroy(c, g)
  PROVE  LockIInv'
<1> DEFINE nf == [IdleFrame EXCEPT !.pc = "rd_count", !.obj = g,
                                   !.root = rd[g].root, !.num = rd[g].num]
<1>1. nf \in Frame /\ nf.pc = "rd_count" /\ nf.obj = g
  <2>1. rd[g].root \in Nat /\ rd[g].num \in Nat
    BY DEF LockIInv, Types, RdType
  <2> QED BY <2>1, IdleFrameType, GranulesAreAny DEF Frame, Labels
<1>2. Become(c, nf) /\ f[c].pc \in Lockless
  BY DEF RealmDestroy, Idle, Lockless
<1> HIDE DEF nf
<1>3. Types'
  BY <1>1, <1>2, FrameStep DEF LockIInv, Types, RealmDestroy, Locked
<1>4. Held(nf) = {g} /\ FrameOK(nf)
  BY <1>1 DEF Held, FrameOK
<1>5. Locks'
  BY <1>2, <1>4, LocklessHeld, OwnTake DEF RealmDestroy, CanLockUnused, CanLock
<1> QED BY <1>3, <1>5 DEF LockIInv

LEMMA RealmDestroyCountStep ==
  ASSUME LockIInv, NEW c \in Cpus, RealmDestroyCount(c)
  PROVE  LockIInv'
<1> DEFINE fr == f[c]
           l  == IF LastRoot(fr) THEN "rd_roots" ELSE "rd_count"
           k  == IF LastRoot(fr) THEN 0 ELSE fr.i + 1
           u  == Counted(fr)
           nf == [fr EXCEPT !.used = u, !.i = k, !.pc = l]
<1>1. nf \in Frame /\ nf.pc = l /\ nf.obj = fr.obj
  <2>1. fr \in Frame
    BY DEF LockIInv, Types
  <2>2. l \in Labels /\ k \in Nat
    BY <2>1 DEF Labels, Frame
  <2>3. u \in BOOLEAN
    BY <2>1 DEF Counted, Frame
  <2> HIDE DEF l, k, u
  <2> QED BY <2>1, <2>2, <2>3 DEF Frame
<1>2. Become(c, nf)
  BY DEF RealmDestroyCount
<1>3. l \in {"rd_roots", "rd_count"}
  OBVIOUS
<1> HIDE DEF nf, l
<1>4. Types'
  BY <1>1, <1>2, FrameStep DEF LockIInv, Types, RealmDestroyCount, granuleVars
<1>5. Held(nf) = Held(f[c]) /\ FrameOK(nf)
  BY <1>1, <1>3 DEF Held, FrameOK, RealmDestroyCount, At
<1>6. Locks'
  BY <1>2, <1>5, OwnSame DEF RealmDestroyCount, granuleVars
<1> QED BY <1>4, <1>6 DEF LockIInv

LEMMA RealmDestroyInUseStep ==
  ASSUME LockIInv, NEW c \in Cpus, RealmDestroyInUse(c)
  PROVE  LockIInv'
<1>1. Types'
  BY IdleFrameType, FrameStep
     DEF LockIInv, Types, RealmDestroyInUse, Return, InUseUnlocksRd, Unlocked
<1>2. Held(f[c]) = {f[c].obj}
  BY DEF Held, RealmDestroyInUse, At
<1>3. Locks'
  BY <1>2, IdleOK, OwnDrop DEF RealmDestroyInUse, Return, InUseUnlocksRd
<1> QED BY <1>1, <1>3 DEF LockIInv

LEMMA RealmDestroyRootStep ==
  ASSUME LockIInv, NEW c \in Cpus, RealmDestroyRoot(c)
  PROVE  LockIInv'
<1> DEFINE fr == f[c]
           l  == IF LastRoot(fr) THEN "rd_free" ELSE "rd_roots"
           k  == fr.i + 1
           nf == [fr EXCEPT !.i = k, !.pc = l]
<1>1. nf \in Frame /\ nf.pc = l /\ nf.obj = fr.obj
  <2>1. fr \in Frame
    BY DEF LockIInv, Types
  <2>2. l \in Labels /\ k \in Nat
    BY <2>1 DEF Labels, Frame
  <2> HIDE DEF l, k
  <2> QED BY <2>1, <2>2 DEF Frame
<1>2. Become(c, nf)
  BY DEF RealmDestroyRoot
<1>3. l \in {"rd_free", "rd_roots"}
  OBVIOUS
<1> HIDE DEF nf, l
<1>4. Types'
  BY <1>1, <1>2, FrameStep, ZeroOutTypes DEF LockIInv, Types, RealmDestroyRoot, States
<1>5. Held(nf) = Held(f[c]) /\ FrameOK(nf)
  BY <1>1, <1>3 DEF Held, FrameOK, RealmDestroyRoot, At
<1>6. Locks'
  BY <1>2, <1>5, OwnSame DEF RealmDestroyRoot
<1> QED BY <1>4, <1>6 DEF LockIInv

LEMMA RealmDestroyFreeStep ==
  ASSUME LockIInv, NEW c \in Cpus, RealmDestroyFree(c)
  PROVE  LockIInv'
<1>1. Types'
  BY IdleFrameType, FrameStep, ZeroOutTypes
     DEF LockIInv, Types, RealmDestroyFree, Return, Unlocked, States
<1>2. Held(f[c]) = {f[c].obj}
  BY DEF Held, RealmDestroyFree, At
<1>3. Locks'
  BY <1>2, IdleOK, OwnDrop DEF RealmDestroyFree, Return
<1> QED BY <1>1, <1>3 DEF LockIInv

LEMMA RecCreateAuxStep ==
  ASSUME LockIInv, NEW c \in Cpus, NEW a \in Granules, RecCreateAux(c, a)
  PROVE  LockIInv'
<1> DEFINE fr == f[c]
           na == [fr.aux EXCEPT ![fr.i + 1] = a]
           k  == fr.i + 1
           nf == [fr EXCEPT !.pc = "rn_aux", !.i = k, !.aux = na]
<1>1. nf \in Frame /\ nf.pc = "rn_aux"
  <2>1. fr \in Frame
    BY DEF LockIInv, Types
  <2>2. fr.aux \in AuxSeqs /\ k \in Nat
    BY <2>1 DEF Frame
  <2>3. na \in AuxSeqs
    BY <2>2, GranulesAreAny DEF AuxSeqs
  <2> HIDE DEF na, k
  <2> QED BY <2>1, <2>2, <2>3 DEF Frame, Labels
<1>2. Become(c, nf) /\ f[c].pc \in Lockless
  BY DEF RecCreateAux, Idle, At, Lockless
<1> HIDE DEF nf
<1>3. Types'
  BY <1>1, <1>2, FrameStep DEF LockIInv, Types, RecCreateAux, AuxTaken, States
<1>4. Held(nf) = {} /\ FrameOK(nf)
  BY <1>1, LocklessHeld, LocklessOK DEF Lockless
<1>5. Locks'
  BY <1>2, <1>4, LocklessHeld, OwnSame DEF RecCreateAux
<1> QED BY <1>3, <1>5 DEF LockIInv

(* A step between two points where no lock is held *)
LEMMA GotoStep ==
  ASSUME LockIInv, NEW c \in Cpus, NEW l \in Labels, Goto(c, l),
         f[c].pc \in Lockless, l \in Lockless, l # "idle", lock' = lock
  PROVE  f' \in [Cpus -> Frame] /\ Locks'
<1> DEFINE nf == [f[c] EXCEPT !.pc = l]
<1>1. nf \in Frame /\ nf.pc = l
  BY DEF LockIInv, Types, Frame
<1>2. Become(c, nf)
  BY DEF Goto
<1> HIDE DEF nf
<1>3. f' \in [Cpus -> Frame]
  BY <1>1, <1>2, FrameStep DEF LockIInv
<1>4. Locks'
  BY <1>1, <1>2, LocklessHeld, LocklessOK, OwnSame
<1> QED BY <1>3, <1>4

LEMMA RecCreateAuxFailsStep ==
  ASSUME LockIInv, NEW c \in Cpus, NEW a \in Granules, RecCreateAuxFails(c, a)
  PROVE  LockIInv'
<1>1. f' \in [Cpus -> Frame] /\ Locks'
  BY GotoStep DEF RecCreateAuxFails, At, Labels, Lockless, granuleVars
<1>2. Types'
  BY <1>1 DEF LockIInv, Types, RecCreateAuxFails, granuleVars
<1> QED BY <1>1, <1>2 DEF LockIInv

LEMMA RecCreateLock1Step ==
  ASSUME LockIInv, NEW c \in Cpus, NEW r \in Granules, NEW g \in Granules,
         RecCreateLock1(c, r, g)
  PROVE  LockIInv'
<1> DEFINE nf == [f[c] EXCEPT !.pc = "rn_lock2", !.obj = r, !.rd = g]
<1>1. nf \in Frame /\ nf.pc = "rn_lock2" /\ nf.obj = r /\ nf.rd = g
  <2>1. f[c] \in Frame
    BY DEF LockIInv, Types
  <2> QED BY <2>1, GranulesAreAny DEF Frame, Labels
<1>2. Become(c, nf) /\ f[c].pc \in Lockless /\ r # g
  BY DEF RecCreateLock1, Idle, At, Lockless
<1> HIDE DEF nf
<1>3. Types'
  BY <1>1, <1>2, FrameStep DEF LockIInv, Types, RecCreateLock1, Locked
<1>4. Held(nf) = {Lower(r, g)} /\ FrameOK(nf)
  BY <1>1, <1>2 DEF Held, FrameOK
<1>5. Locks'
  BY <1>2, <1>4, LocklessHeld, OwnTake DEF RecCreateLock1, CanLock
<1> QED BY <1>3, <1>5 DEF LockIInv

LEMMA RecCreateLock1FailsStep ==
  ASSUME LockIInv, NEW c \in Cpus, NEW r \in Granules, NEW g \in Granules,
         RecCreateLock1Fails(c, r, g)
  PROVE  LockIInv'
<1>1. f' \in [Cpus -> Frame] /\ Locks'
  BY GotoStep DEF RecCreateLock1Fails, At, Labels, Lockless, granuleVars
<1>2. Types'
  BY <1>1 DEF LockIInv, Types, RecCreateLock1Fails, granuleVars
<1> QED BY <1>1, <1>2 DEF LockIInv

(* Where the error paths of REC_CREATE go, whatever they found *)
LEMMA RecCreateFailsStep ==
  ASSUME LockIInv, NEW c \in Cpus, RecCreateFails(c), lock' = Unlocked(Held(f[c]))
  PROVE  f' \in [Cpus -> Frame] /\ Locks'
<1> DEFINE un == [IdleFrame EXCEPT !.pc = "rn_undo", !.aux = f[c].aux, !.i = f[c].i]
           nf == IF f[c].i = 0 THEN IdleFrame ELSE un
<1>1. un \in Frame /\ un.pc = "rn_undo"
  <2>1. f[c].aux \in AuxSeqs /\ f[c].i \in Nat
    BY DEF LockIInv, Types, Frame
  <2> QED BY <2>1, IdleFrameType DEF Frame, Labels
<1>2. Become(c, nf)
  BY DEF RecCreateFails
<1> HIDE DEF un
<1>3. Held(un) = {} /\ FrameOK(un)
  BY <1>1, LocklessHeld, LocklessOK DEF Lockless
<1>4. nf \in Frame /\ Held(nf) = {} /\ FrameOK(nf)
  BY <1>1, <1>3, IdleFrameType, IdleOK
<1> HIDE DEF nf
<1>5. f' \in [Cpus -> Frame]
  BY <1>2, <1>4, FrameStep DEF LockIInv
<1>6. Locks'
  BY <1>2, <1>4, OwnDrop
<1> QED BY <1>5, <1>6

LEMMA LowerHigher ==
  ASSUME NEW a \in Int, NEW b \in Int
  PROVE  {Lower(a, b), Higher(a, b)} = {a, b}
  BY DEF Lower, Higher

LEMMA RecCreateLock2Step ==
  ASSUME LockIInv, NEW c \in Cpus, RecCreateLock2(c)
  PROVE  LockIInv'
<1> DEFINE fr == f[c]
           nf == [fr EXCEPT !.pc = "rn_body"]
<1>1. /\ nf \in Frame /\ nf.pc = "rn_body" /\ nf.obj = fr.obj /\ nf.rd = fr.rd
      /\ fr.obj \in Int /\ fr.rd \in Int
  <2>1. fr \in Frame
    BY DEF LockIInv, Types
  <2> QED BY <2>1, GranuleAssumption DEF Frame, Labels, AnyGranule
<1>2. Become(c, nf) /\ fr.pc = "rn_lock2" /\ FrameOK(fr)
  BY DEF RecCreateLock2, Goto, At, LockIInv, Locks
<1> HIDE DEF nf
<1>3. Types'
  BY <1>1, <1>2, FrameStep DEF LockIInv, Types, RecCreateLock2, Locked
<1>4. Held(nf) = Held(fr) \cup {Higher(fr.obj, fr.rd)}
  BY <1>1, <1>2, LowerHigher DEF Held
<1>5. FrameOK(nf)
  BY <1>1, <1>2 DEF FrameOK
<1>6. Locks'
  BY <1>2, <1>4, <1>5, OwnTake DEF RecCreateLock2, CanLock
<1> QED BY <1>3, <1>6 DEF LockIInv

LEMMA RecCreateLock2FailsStep ==
  ASSUME LockIInv, NEW c \in Cpus, RecCreateLock2Fails(c)
  PROVE  LockIInv'
<1>1. Held(f[c]) = {Lower(f[c].obj, f[c].rd)}
  BY DEF Held, RecCreateLock2Fails, At
<1>2. f' \in [Cpus -> Frame] /\ Locks'
  BY <1>1, RecCreateFailsStep DEF RecCreateLock2Fails
<1>3. Types'
  BY <1>2 DEF LockIInv, Types, RecCreateLock2Fails, Unlocked
<1> QED BY <1>2, <1>3 DEF LockIInv

LEMMA RecCreateBodyStep ==
  ASSUME LockIInv, NEW c \in Cpus, NEW runnable \in BOOLEAN, RecCreateBody(c, runnable)
  PROVE  LockIInv'
<1> DEFINE r  == f[c].obj
           g  == f[c].rd
           nr == [rd |-> g, idx |-> rd[g].recs, aux |-> f[c].aux, runnable |-> runnable]
<1>0. f[c] \in Frame
  BY DEF LockIInv, Types
<1>1. rec' \in [Granules -> RecType]
  <2>1. rec' = [rec EXCEPT ![r] = nr]
    BY DEF RecCreateBody
  <2>2. g \in Granules
    BY DEF RecCreateBody, At, Held, LockIInv, Locks
  <2>3. rd[g].recs \in Nat /\ g \in AnyGranule /\ f[c].aux \in AuxSeqs
    BY <1>0, <2>2, GranulesAreAny DEF LockIInv, Types, Frame, RdType
  <2>4. nr \in RecType
    BY <2>3 DEF RecType
  <2> HIDE DEF nr
  <2> QED BY <2>1, <2>4 DEF LockIInv, Types
<1>2. rd' \in [Granules -> RdType]
  <2> DEFINE n == rd[g].recs + 1
             d == [rd[g] EXCEPT !.recs = n]
  <2>1. rd' = [rd EXCEPT ![g] = d]
    BY DEF RecCreateBody, CountRec
  <2>2. rd \in [Granules -> RdType] /\ g \in Granules
    BY DEF RecCreateBody, At, Held, LockIInv, Locks, Types
  <2>3. rd[g] \in RdType /\ n \in Nat
    BY <2>2 DEF RdType
  <2> HIDE DEF n
  <2>4. d \in RdType
    BY <2>3 DEF RdType
  <2> HIDE DEF d
  <2> QED BY <2>1, <2>2, <2>4
<1>3. refcount' \in [Granules -> Int]
  <2>1. refcount' = [refcount EXCEPT ![g] = refcount[g] + 1] /\ g \in Granules
    BY DEF RecCreateBody, GetRd, At, Held, LockIInv, Locks
  <2> HIDE DEF g
  <2> QED BY <2>1 DEF LockIInv, Types
<1>4. Types'
  BY <1>1, <1>2, <1>3, IdleFrameType, FrameStep
     DEF LockIInv, Types, RecCreateBody, Return, Unlocked, States
<1>5. Held(f[c]) = {r, g}
  BY DEF Held, RecCreateBody, At
<1>6. Locks'
  BY <1>5, IdleOK, OwnDrop DEF RecCreateBody, Return
<1> QED BY <1>4, <1>6 DEF LockIInv

LEMMA RecCreateRefusedStep ==
  ASSUME LockIInv, NEW c \in Cpus, RecCreateRefused(c)
  PROVE  LockIInv'
<1>1. Held(f[c]) = {f[c].obj, f[c].rd}
  BY DEF Held, RecCreateRefused, At
<1>2. f' \in [Cpus -> Frame] /\ Locks'
  BY <1>1, RecCreateFailsStep DEF RecCreateRefused
<1>3. Types'
  BY <1>2 DEF LockIInv, Types, RecCreateRefused, Unlocked
<1> QED BY <1>2, <1>3 DEF LockIInv

LEMMA RecCreateUndoStep ==
  ASSUME LockIInv, NEW c \in Cpus, RecCreateUndo(c)
  PROVE  LockIInv'
<1> DEFINE fr == f[c]
           k  == fr.j + 1
           up == [fr EXCEPT !.j = k]
           nf == IF k = fr.i THEN IdleFrame ELSE up
<1>0. fr \in Frame /\ fr.pc = "rn_undo"
  BY DEF LockIInv, Types, RecCreateUndo, At
<1>1. up \in Frame /\ up.pc = "rn_undo"
  <2>1. k \in Nat
    BY <1>0 DEF Frame
  <2> HIDE DEF k
  <2> QED BY <1>0, <2>1 DEF Frame
<1>2. Become(c, nf)
  BY DEF RecCreateUndo
<1> HIDE DEF up
<1>3. nf \in Frame /\ Held(nf) = {} /\ FrameOK(nf)
  BY <1>1, IdleFrameType, IdleOK, LocklessHeld, LocklessOK DEF Lockless
<1> HIDE DEF nf
<1>4. Types'
  BY <1>2, <1>3, FrameStep DEF LockIInv, Types, RecCreateUndo, States
<1>5. Locks'
  BY <1>0, <1>2, <1>3, LocklessHeld, OwnSame DEF RecCreateUndo, Lockless
<1> QED BY <1>4, <1>5 DEF LockIInv

LEMMA RecDestroyStep ==
  ASSUME LockIInv, NEW c \in Cpus, NEW r \in Granules, RecDestroy(c, r)
  PROVE  LockIInv'
<1> DEFINE l  == IF NumAux = 0 THEN "rx_free" ELSE "rx_aux"
           nf == [IdleFrame EXCEPT !.pc = l, !.obj = r, !.rd = rec[r].rd,
                                   !.aux = rec[r].aux]
<1>1. nf \in Frame /\ nf.pc = l /\ nf.obj = r
  <2>1. rec[r].rd \in AnyGranule /\ rec[r].aux \in AuxSeqs
    BY DEF LockIInv, Types, RecType
  <2>2. l \in Labels
    BY DEF Labels
  <2> HIDE DEF l
  <2> QED BY <2>1, <2>2, IdleFrameType, GranulesAreAny DEF Frame
<1>2. Become(c, nf) /\ f[c].pc \in Lockless
  BY DEF RecDestroy, Idle, Lockless
<1>3. l \in {"rx_free", "rx_aux"}
  OBVIOUS
<1> HIDE DEF nf, l
<1>4. Types'
  BY <1>1, <1>2, FrameStep DEF LockIInv, Types, RecDestroy, Locked
<1>5. Held(nf) = {r} /\ FrameOK(nf)
  BY <1>1, <1>3 DEF Held, FrameOK
<1>6. Locks'
  BY <1>2, <1>5, LocklessHeld, OwnTake DEF RecDestroy, CanLockUnused, CanLock
<1> QED BY <1>4, <1>6 DEF LockIInv

LEMMA RecDestroyAuxStep ==
  ASSUME LockIInv, NEW c \in Cpus, RecDestroyAux(c)
  PROVE  LockIInv'
<1> DEFINE fr == f[c]
           k  == fr.j + 1
           l  == IF k = NumAux THEN "rx_free" ELSE "rx_aux"
           nf == [fr EXCEPT !.j = k, !.pc = l]
<1>1. nf \in Frame /\ nf.pc = l /\ nf.obj = fr.obj
  <2>1. fr \in Frame
    BY DEF LockIInv, Types
  <2>2. l \in Labels /\ k \in Nat
    BY <2>1 DEF Labels, Frame
  <2> HIDE DEF l, k
  <2> QED BY <2>1, <2>2 DEF Frame
<1>2. Become(c, nf)
  BY DEF RecDestroyAux
<1>3. l \in {"rx_free", "rx_aux"}
  OBVIOUS
<1> HIDE DEF nf, l
<1>4. Types'
  BY <1>1, <1>2, FrameStep, ZeroOutTypes DEF LockIInv, Types, RecDestroyAux, States
<1>5. Held(nf) = Held(f[c]) /\ FrameOK(nf)
  BY <1>1, <1>3 DEF Held, FrameOK, RecDestroyAux, At
<1>6. Locks'
  BY <1>2, <1>5, OwnSame DEF RecDestroyAux
<1> QED BY <1>4, <1>6 DEF LockIInv

LEMMA RecDestroyFreeStep ==
  ASSUME LockIInv, NEW c \in Cpus, RecDestroyFree(c)
  PROVE  LockIInv'
<1> DEFINE nf == [f[c] EXCEPT !.pc = "rx_put"]
<1>1. nf \in Frame /\ nf.pc = "rx_put"
  BY DEF LockIInv, Types, Frame, Labels
<1>2. Become(c, nf)
  BY DEF RecDestroyFree, Goto
<1> HIDE DEF nf
<1>3. Types'
  BY <1>1, <1>2, FrameStep, ZeroOutTypes
     DEF LockIInv, Types, RecDestroyFree, Unlocked, States
<1>4. Held(nf) = {} /\ FrameOK(nf)
  BY <1>1, LocklessHeld, LocklessOK DEF Lockless
<1>5. Held(f[c]) = {f[c].obj}
  BY DEF Held, RecDestroyFree, At
<1>6. Locks'
  BY <1>2, <1>4, <1>5, OwnDrop DEF RecDestroyFree
<1> QED BY <1>3, <1>6 DEF LockIInv

(* A reference dropped leaves an integer. *)
LEMMA PutStep ==
  ASSUME Types, NEW g, refcount' = [refcount EXCEPT ![g] = refcount[g] - 1]
  PROVE  refcount' \in [Granules -> Int]
<1>1. CASE g \in Granules
  <2>1. refcount[g] - 1 \in Int
    BY <1>1 DEF Types
  <2> QED BY <2>1 DEF Types
<1>2. CASE g \notin Granules
  BY <1>2 DEF Types
<1> QED BY <1>1, <1>2

LEMMA RecDestroyPutStep ==
  ASSUME LockIInv, NEW c \in Cpus, RecDestroyPut(c)
  PROVE  LockIInv'
<1>1. refcount' \in [Granules -> Int]
  <2> DEFINE g == f[c].rd
  <2>1. refcount' = [refcount EXCEPT ![g] = refcount[g] - 1]
    BY DEF RecDestroyPut
  <2> HIDE DEF g
  <2> QED BY <2>1, PutStep DEF LockIInv
<1>2. Types'
  BY <1>1, IdleFrameType, FrameStep DEF LockIInv, Types, RecDestroyPut, Return
<1>3. Held(f[c]) = {}
  BY LocklessHeld DEF RecDestroyPut, At, Lockless
<1>4. Locks'
  BY <1>3, IdleOK, OwnSame DEF RecDestroyPut, Return
<1> QED BY <1>2, <1>4 DEF LockIInv

LEMMA RecEnterStep ==
  ASSUME LockIInv, NEW c \in Cpus, NEW r \in Granules, NEW b \in Granules,
         RecEnter(c, r, b)
  PROVE  LockIInv'
<1> DEFINE nf == [IdleFrame EXCEPT !.pc = "en_read", !.obj = r, !.buf = b]
<1>1. nf \in Frame /\ nf.pc = "en_read"
  <2>1. r \in AnyGranule /\ b \in Nat
    BY GranulesAreAny, GranuleAssumption DEF Granules
  <2> QED BY <2>1, IdleFrameType DEF Frame, Labels
<1>2. Become(c, nf) /\ f[c].pc \in Lockless
  BY DEF RecEnter, Idle, Lockless
<1> HIDE DEF nf
<1>3. Types'
  BY <1>1, <1>2, FrameStep DEF LockIInv, Types, RecEnter
<1>4. Held(nf) = {} /\ FrameOK(nf)
  BY <1>1, LocklessHeld, LocklessOK DEF Lockless
<1>5. Locks'
  BY <1>2, <1>4, LocklessHeld, OwnSame DEF RecEnter
<1> QED BY <1>3, <1>5 DEF LockIInv

LEMMA EnterReadStep ==
  ASSUME LockIInv, NEW c \in Cpus, EnterRead(c)
  PROVE  LockIInv'
<1>1. f' \in [Cpus -> Frame] /\ Locks'
  BY GotoStep DEF EnterRead, At, Labels, Lockless, granuleVars
<1>2. Types'
  BY <1>1 DEF LockIInv, Types, EnterRead, granuleVars
<1> QED BY <1>1, <1>2 DEF LockIInv

LEMMA EnterCheckStep ==
  ASSUME LockIInv, NEW c \in Cpus, EnterCheck(c)
  PROVE  LockIInv'
<1>1. f' \in [Cpus -> Frame] /\ Locks'
  BY GotoStep DEF EnterCheck, At, Labels, Lockless, granuleVars
<1>2. UNCHANGED <<state, lock, refcount, pas, junk, rd, rec, kids, vmids>>
  BY DEF EnterCheck, granuleVars
<1>3. Types'
  BY <1>1, <1>2 DEF LockIInv, Types
<1> QED BY <1>1, <1>3 DEF LockIInv

LEMMA EnterRunStep ==
  ASSUME LockIInv, NEW c \in Cpus, NEW off \in BOOLEAN, EnterRun(c, off)
  PROVE  LockIInv'
<1>1. f' \in [Cpus -> Frame] /\ Locks'
  BY GotoStep DEF EnterRun, At, Labels, Lockless
<1>2. rec' \in [Granules -> RecType]
  BY ZenonT(60) DEF LockIInv, Types, EnterRun, RecType
<1>3. junk' \in [Granules -> BOOLEAN]
  BY DEF LockIInv, Types, EnterRun
<1>4. UNCHANGED <<state, lock, refcount, pas, rd, kids, vmids>>
  BY DEF EnterRun
<1>5. Types'
  BY <1>1, <1>2, <1>3, <1>4 DEF LockIInv, Types
<1> QED BY <1>1, <1>5 DEF LockIInv

LEMMA SystemOffStep ==
  ASSUME LockIInv, NEW c \in Cpus, SystemOff(c)
  PROVE  LockIInv'
<1>1. f' \in [Cpus -> Frame] /\ Locks'
  BY GotoStep DEF SystemOff, At, Labels, Lockless, granuleVars
<1>2. rd' \in [Granules -> RdType]
  BY ZenonT(60) DEF LockIInv, Types, SystemOff, RdType, RealmStates
<1>3. Types'
  BY <1>1, <1>2 DEF LockIInv, Types, SystemOff, granuleVars
<1> QED BY <1>1, <1>3 DEF LockIInv

LEMMA EnterWriteStep ==
  ASSUME LockIInv, NEW c \in Cpus, EnterWrite(c)
  PROVE  LockIInv'
<1>1. f' \in [Cpus -> Frame] /\ Locks'
  BY GotoStep DEF EnterWrite, At, Labels, Lockless
<1>2. junk' \in [Granules -> BOOLEAN]
  BY DEF LockIInv, Types, EnterWrite
<1>3. Types'
  BY <1>1, <1>2 DEF LockIInv, Types, EnterWrite
<1> QED BY <1>1, <1>3 DEF LockIInv

LEMMA EnterPutStep ==
  ASSUME LockIInv, NEW c \in Cpus, EnterPut(c)
  PROVE  LockIInv'
<1>1. refcount' \in [Granules -> Int]
  <2> DEFINE g == f[c].obj
  <2>1. refcount' = [refcount EXCEPT ![g] = refcount[g] - 1]
    BY DEF EnterPut
  <2> HIDE DEF g
  <2> QED BY <2>1, PutStep DEF LockIInv
<1>2. Types'
  BY <1>1, IdleFrameType, FrameStep DEF LockIInv, Types, EnterPut, Return
<1>3. Held(f[c]) = {}
  BY LocklessHeld DEF EnterPut, At, Lockless
<1>4. Locks'
  BY <1>3, IdleOK, OwnSame DEF EnterPut, Return
<1> QED BY <1>2, <1>4 DEF LockIInv

LEMMA RttCreateStep ==
  ASSUME LockIInv, NEW c \in Cpus, NEW t \in Granules, NEW g \in Granules,
         RttCreate(c, t, g)
  PROVE  LockIInv'
<1> DEFINE nf == [IdleFrame EXCEPT !.pc = "tc_lock2", !.op = "create", !.obj = t, !.rd = g]
<1>1. /\ nf \in Frame /\ nf.pc = "tc_lock2"
      /\ nf.op = "create" /\ nf.obj = t /\ nf.rd = g
  BY IdleFrameType, GranulesAreAny DEF Frame, Labels
<1>2. Become(c, nf) /\ f[c].pc \in Lockless /\ t # g
  BY DEF RttCreate, Idle, Lockless
<1> HIDE DEF nf
<1>3. Types'
  BY <1>1, <1>2, FrameStep DEF LockIInv, Types, RttCreate, Locked
<1>4. Held(nf) = {Lower(t, g)} /\ FrameOK(nf)
  BY <1>1, <1>2 DEF Held, FrameOK
<1>5. Locks'
  BY <1>2, <1>4, LocklessHeld, OwnTake DEF RttCreate, CanLock
<1> QED BY <1>3, <1>5 DEF LockIInv

LEMMA RttCreateLock2Step ==
  ASSUME LockIInv, NEW c \in Cpus, RttCreateLock2(c)
  PROVE  LockIInv'
<1> DEFINE fr == f[c]
           nf == [fr EXCEPT !.pc = "wk_root"]
<1>1. /\ nf \in Frame /\ nf.pc = "wk_root"
      /\ nf.obj = fr.obj /\ nf.rd = fr.rd /\ nf.op = fr.op
      /\ fr.obj \in Int /\ fr.rd \in Int
  <2>1. fr \in Frame
    BY DEF LockIInv, Types
  <2> QED BY <2>1, GranuleAssumption DEF Frame, Labels, AnyGranule
<1>2. Become(c, nf) /\ fr.pc = "tc_lock2" /\ FrameOK(fr)
  BY DEF RttCreateLock2, Goto, At, LockIInv, Locks
<1> HIDE DEF nf
<1>3. Types'
  BY <1>1, <1>2, FrameStep DEF LockIInv, Types, RttCreateLock2, Locked
<1>4. Held(nf) = Held(fr) \cup {Higher(fr.obj, fr.rd)}
  <2>1. Held(nf) = {fr.rd} \cup {fr.obj}
    BY <1>1, <1>2 DEF Held, WalkHolds, FrameOK
  <2>2. Held(fr) = {Lower(fr.obj, fr.rd)}
    BY <1>2 DEF Held
  <2>3. {Lower(fr.obj, fr.rd), Higher(fr.obj, fr.rd)} = {fr.obj, fr.rd}
    BY <1>1, LowerHigher
  <2> QED BY <2>1, <2>2, <2>3
<1>5. FrameOK(nf)
  BY <1>1, <1>2 DEF FrameOK
<1>6. Locks'
  BY <1>2, <1>4, <1>5, OwnTake DEF RttCreateLock2, CanLock
<1> QED BY <1>3, <1>6 DEF LockIInv

LEMMA RttCreateLock2FailsStep ==
  ASSUME LockIInv, NEW c \in Cpus, RttCreateLock2Fails(c)
  PROVE  LockIInv'
<1>1. Types'
  BY IdleFrameType, FrameStep DEF LockIInv, Types, RttCreateLock2Fails, Return, Unlocked
<1>2. Held(f[c]) = {Lower(f[c].obj, f[c].rd)}
  BY DEF Held, RttCreateLock2Fails, At
<1>3. Locks'
  BY <1>2, IdleOK, OwnDrop DEF RttCreateLock2Fails, Return
<1> QED BY <1>1, <1>3 DEF LockIInv

LEMMA RttDestroyStep ==
  ASSUME LockIInv, NEW c \in Cpus, NEW t \in Granules, NEW g \in Granules,
         RttDestroy(c, t, g)
  PROVE  LockIInv'
<1> DEFINE nf == [IdleFrame EXCEPT !.pc = "wk_root", !.op = "destroy", !.obj = t, !.rd = g]
<1>1. nf \in Frame /\ nf.pc = "wk_root" /\ nf.op = "destroy" /\ nf.rd = g
  BY IdleFrameType, GranulesAreAny DEF Frame, Labels
<1>2. Become(c, nf) /\ f[c].pc \in Lockless
  BY DEF RttDestroy, Idle, Lockless
<1> HIDE DEF nf
<1>3. Types'
  BY <1>1, <1>2, FrameStep DEF LockIInv, Types, RttDestroy, Locked
<1>4. Held(nf) = {g} /\ FrameOK(nf)
  BY <1>1 DEF Held, FrameOK, WalkHolds
<1>5. Locks'
  BY <1>2, <1>4, LocklessHeld, OwnTake DEF RttDestroy, CanLock
<1> QED BY <1>3, <1>5 DEF LockIInv

LEMMA RttInvalidStep ==
  ASSUME LockIInv, NEW c \in Cpus, RttInvalid(c)
  PROVE  LockIInv'
<1>1. Types'
  BY IdleFrameType, FrameStep DEF LockIInv, Types, RttInvalid, Return, Unlocked
<1>2. Held(f[c]) = {f[c].rd} \cup WalkHolds(f[c])
  BY DEF Held, RttInvalid, At
<1>3. Locks'
  BY <1>2, IdleOK, OwnDrop DEF RttInvalid, Return
<1> QED BY <1>1, <1>3 DEF LockIInv

(* The frame of a CPU that is at a table of the walk *)
Walking == {"wk_sl", "wk_down", "wk_fail", "wk_end", "wk_tbl"}

LEMMA WalkingHeld ==
  ASSUME NEW fr, fr.pc \in Walking
  PROVE  Held(fr) = {fr.root} \cup WalkHolds(fr)
  BY DEF Walking, Held

LEMMA ArrivalsType ==
  ASSUME Types, NEW fr \in Frame, NEW p \in Granules, NEW d \in Nat,
         NEW nf \in Arrivals(fr, p, d)
  PROVE  /\ nf \in Frame /\ nf.pc \in Walking
         /\ nf.root = p /\ nf.op = fr.op /\ nf.obj = fr.obj
         /\ nf.pc = "wk_end" => nf.op = "create"
         /\ nf.pc = "wk_tbl" => nf.op = "destroy"
<1> DEFINE at == [fr EXCEPT !.rd = NoGranule, !.root = p, !.i = d, !.buf = NoGranule]
<1>1. /\ at \in Frame
      /\ at.root = p /\ at.op = fr.op /\ at.obj = fr.obj
  <2>1. p \in Nat /\ NoGranule \in Nat
    BY GranuleAssumption DEF Granules, NoGranule
  <2> QED BY <2>1, GranulesAreAny DEF Frame
<1> DEFINE stop(l) == [at EXCEPT !.pc = l]
           down(q) == [at EXCEPT !.pc = "wk_down", !.buf = q]
<1>2. \/ nf = stop("wk_fail")
      \/ \E q \in kids[p] : nf = down(q)
      \/ nf = stop("wk_end") /\ fr.op = "create"
      \/ nf = stop("wk_tbl") /\ fr.op = "destroy"
  BY DEF Arrivals
<1> HIDE DEF at
<1>3. ASSUME NEW l \in Labels
      PROVE  /\ stop(l) \in Frame /\ stop(l).pc = l
             /\ stop(l).root = p /\ stop(l).op = fr.op /\ stop(l).obj = fr.obj
  BY <1>1, <1>3 DEF Frame
<1>4. ASSUME NEW q \in kids[p]
      PROVE  /\ down(q) \in Frame /\ down(q).pc = "wk_down"
             /\ down(q).root = p /\ down(q).op = fr.op /\ down(q).obj = fr.obj
  <2>1. q \in Nat
    BY <1>4, GranuleAssumption DEF Types, Granules
  <2> QED BY <2>1, <1>1 DEF Frame, Labels
<1> HIDE DEF stop, down
<1>5. {"wk_fail", "wk_end", "wk_tbl"} \subseteq Labels
  BY DEF Labels
<1>6. \A l \in {"wk_fail", "wk_end", "wk_tbl"} :
         /\ stop(l) \in Frame /\ stop(l).pc = l
         /\ stop(l).root = p /\ stop(l).op = fr.op /\ stop(l).obj = fr.obj
  BY <1>3, <1>5
<1> QED BY <1>2, <1>4, <1>6 DEF Walking

LEMMA RttLockRootStep ==
  ASSUME LockIInv, NEW c \in Cpus, RttLockRoot(c)
  PROVE  LockIInv'
<1> DEFINE fr   == f[c]
           root == rd[fr.rd].root
           at   == [fr EXCEPT !.root = root]
<1>1. fr \in Frame /\ FrameOK(fr) /\ fr.pc = "wk_root"
  BY DEF LockIInv, Types, Locks, RttLockRoot, At
<1>2. root \in Granules /\ Free(root) /\ root \in Nat
  BY GranuleAssumption DEF RttLockRoot, CanLock, Granules
<1>3. PICK nf \in Arrivals(fr, root, 0) \cup Concatenated(at, rd[fr.rd].num) : Become(c, nf)
  BY DEF RttLockRoot
<1>4. at \in Frame /\ at.root = root /\ at.op = fr.op /\ at.obj = fr.obj
  BY <1>1, <1>2 DEF Frame
<1>5. lock' = [Unlocked({fr.rd}) EXCEPT ![root] = c]
  BY DEF RttLockRoot
<1> HIDE DEF root, at
<1>6. /\ nf \in Frame /\ nf.pc \in Walking
      /\ nf.root = root /\ nf.op = fr.op /\ nf.obj = fr.obj
      /\ nf.pc = "wk_end" => nf.op = "create"
      /\ nf.pc = "wk_tbl" => nf.op = "destroy"
  <2>1. CASE nf \in Arrivals(fr, root, 0)
    BY <1>1, <1>2, <2>1, ArrivalsType DEF LockIInv
  <2>2. CASE nf \in Concatenated(at, rd[fr.rd].num)
    <3>1. PICK k \in 1 .. rd[fr.rd].num - 1 :
            nf = [at EXCEPT !.pc = "wk_sl", !.rd = NoGranule, !.buf = at.root + k]
      BY <2>2 DEF Concatenated
    <3> DEFINE q == at.root + k
    <3>2. q \in Nat
      BY <1>2, <1>4, <3>1
    <3>3. nf = [at EXCEPT !.pc = "wk_sl", !.rd = NoGranule, !.buf = q]
      BY <3>1
    <3> HIDE DEF q
    <3>4. /\ nf \in Frame /\ nf.pc = "wk_sl"
          /\ nf.root = at.root /\ nf.op = at.op /\ nf.obj = at.obj
      BY <1>4, <3>2, <3>3, GranulesAreAny DEF Frame, Labels
    <3> QED BY <1>4, <3>4 DEF Walking
  <2> QED BY <1>3, <2>1, <2>2
<1>7. Types'
  BY <1>2, <1>3, <1>6, FrameStep DEF LockIInv, Types, RttLockRoot, Unlocked
<1>8. Held(fr) = {fr.rd} \cup WalkHolds(fr) /\ WalkHolds(nf) = WalkHolds(fr)
  BY <1>1, <1>6 DEF Held, WalkHolds
<1>9. fr.op = "create" => fr.obj # root /\ fr.obj # fr.rd
  <2> SUFFICES ASSUME fr.op = "create" PROVE fr.obj # root /\ fr.obj # fr.rd
    OBVIOUS
  <2>1. fr.obj \in Held(fr)
    BY <1>8 DEF WalkHolds
  <2>2. root \notin Held(fr)
    BY <1>2, GranuleAssumption DEF Free, LockIInv, Locks, LockInv
  <2> QED BY <1>1, <2>1, <2>2 DEF FrameOK
<1>10. Held(nf) = (Held(fr) \ {fr.rd}) \cup {root}
  BY <1>6, <1>8, <1>9, WalkingHeld DEF WalkHolds
<1>11. FrameOK(nf)
  BY <1>6, <1>9 DEF FrameOK, Walking
<1>12. Locks'
  BY <1>2, <1>3, <1>5, <1>8, <1>10, <1>11, OwnSwap
<1> QED BY <1>7, <1>12 DEF LockIInv

LEMMA RttWalkStep ==
  ASSUME LockIInv, NEW c \in Cpus, RttWalk(c)
  PROVE  LockIInv'
<1> DEFINE fr == f[c]
           q  == fr.buf
           d  == IF fr.pc = "wk_sl" THEN 0 ELSE fr.i + 1
<1>1. fr \in Frame /\ FrameOK(fr) /\ fr.pc \in Walking
  BY DEF LockIInv, Types, Locks, RttWalk, Walking
<1>2. q \in Granules /\ Free(q) /\ d \in Nat
  BY <1>1 DEF RttWalk, CanLock, Frame
<1>3. PICK nf \in Arrivals(fr, q, d) : Become(c, nf)
  BY DEF RttWalk
<1>4. lock' = [Unlocked({fr.root}) EXCEPT ![q] = c]
  BY DEF RttWalk
<1> HIDE DEF q, d
<1>5. /\ nf \in Frame /\ nf.pc \in Walking
      /\ nf.root = q /\ nf.op = fr.op /\ nf.obj = fr.obj
      /\ nf.pc = "wk_end" => nf.op = "create"
      /\ nf.pc = "wk_tbl" => nf.op = "destroy"
  BY <1>1, <1>2, ArrivalsType DEF LockIInv
<1>6. Types'
  <2>1. f' \in [Cpus -> Frame]
    BY <1>3, <1>5, FrameStep DEF LockIInv
  <2>2. lock' \in [Granules -> Cpus \cup {NoCpu}]
    BY <1>2, <1>4 DEF LockIInv, Types, Unlocked
  <2> QED BY <2>1, <2>2 DEF LockIInv, Types, RttWalk
<1>7. Held(fr) = {fr.root} \cup WalkHolds(fr) /\ WalkHolds(nf) = WalkHolds(fr)
  BY <1>1, <1>5, WalkingHeld DEF WalkHolds
<1>8. fr.op = "create" => fr.obj # q /\ fr.obj # fr.root
  <2> SUFFICES ASSUME fr.op = "create" PROVE fr.obj # q /\ fr.obj # fr.root
    OBVIOUS
  <2>1. fr.obj \in Held(fr)
    BY <1>7 DEF WalkHolds
  <2>2. q \notin Held(fr)
    BY <1>2, GranuleAssumption DEF Free, LockIInv, Locks, LockInv
  <2> QED BY <1>1, <2>1, <2>2 DEF FrameOK, Walking
<1>9. Held(nf) = (Held(fr) \ {fr.root}) \cup {q}
  BY <1>5, <1>7, <1>8, WalkingHeld DEF WalkHolds
<1>10. FrameOK(nf)
  BY <1>5, <1>8 DEF FrameOK, Walking
<1>11. Locks'
  BY <1>2, <1>3, <1>4, <1>7, <1>9, <1>10, OwnSwap
<1> QED BY <1>6, <1>11 DEF LockIInv

LEMMA RttFailStep ==
  ASSUME LockIInv, NEW c \in Cpus, RttFail(c)
  PROVE  LockIInv'
<1>1. Types'
  BY IdleFrameType, FrameStep DEF LockIInv, Types, RttFail, Return, Unlocked
<1>2. Held(f[c]) = {f[c].root} \cup WalkHolds(f[c])
  BY DEF Held, RttFail, At
<1>3. Locks'
  BY <1>2, IdleOK, OwnDrop DEF RttFail, Return
<1> QED BY <1>1, <1>3 DEF LockIInv

LEMMA RttCreateEndStep ==
  ASSUME LockIInv, NEW c \in Cpus, RttCreateEnd(c)
  PROVE  LockIInv'
<1> DEFINE fr == f[c]
<1>1. fr.pc = "wk_end" /\ fr.op = "create"
  BY DEF RttCreateEnd, At, LockIInv, Locks, FrameOK
<1>2. Held(fr) = {fr.root, fr.obj}
  BY <1>1 DEF Held, WalkHolds
<1>3. fr.root \in Granules /\ fr.obj \in Granules
  BY <1>2 DEF LockIInv, Locks
<1>4. refcount' \in [Granules -> Int] /\ kids' \in [Granules -> SUBSET Granules]
  BY <1>3 DEF RttCreateEnd, LockIInv, Types
<1>5. Types'
  BY <1>4, IdleFrameType, FrameStep DEF LockIInv, Types, RttCreateEnd, Return, Unlocked, States
<1>6. Locks'
  BY <1>2, IdleOK, OwnDrop DEF RttCreateEnd, Return
<1> QED BY <1>5, <1>6 DEF LockIInv

LEMMA RttDestroyEndStep ==
  ASSUME LockIInv, NEW c \in Cpus, RttDestroyEnd(c)
  PROVE  LockIInv'
<1> DEFINE fr == f[c]
<1>1. fr.pc = "wk_tbl" /\ fr.op = "destroy"
  BY DEF RttDestroyEnd, At, LockIInv, Locks, FrameOK
<1>2. Held(fr) = {fr.root}
  BY <1>1 DEF Held, WalkHolds
<1>3. fr.root \in Granules
  BY <1>2 DEF LockIInv, Locks
<1>4. refcount' \in [Granules -> Int]
  BY PutStep DEF RttDestroyEnd, ParentPut, LockIInv
<1>5. kids' \in [Granules -> SUBSET Granules]
  BY <1>3 DEF RttDestroyEnd, LockIInv, Types
<1>6. Types'
  BY <1>4, <1>5, IdleFrameType, FrameStep
     DEF LockIInv, Types, RttDestroyEnd, Return, Unlocked, States
<1>7. Locks'
  BY <1>2, IdleOK, OwnDrop DEF RttDestroyEnd, Return
<1> QED BY <1>6, <1>7 DEF LockIInv

LEMMA RttDestroyInUseStep ==
  ASSUME LockIInv, NEW c \in Cpus, RttDestroyInUse(c)
  PROVE  LockIInv'
<1> DEFINE fr == f[c]
<1>1. fr.pc = "wk_tbl" /\ fr.op = "destroy"
  BY DEF RttDestroyInUse, At, LockIInv, Locks, FrameOK
<1>2. Held(fr) = {fr.root}
  BY <1>1 DEF Held, WalkHolds
<1>3. Types'
  BY IdleFrameType, FrameStep DEF LockIInv, Types, RttDestroyInUse, Return, Unlocked
<1>4. Locks'
  BY <1>2, IdleOK, OwnDrop DEF RttDestroyInUse, Return
<1> QED BY <1>3, <1>4 DEF LockIInv

---------------------------------------------------------------------------
(* The invariant *)

LEMMA LockInit == Init => LockIInv
<1> SUFFICES ASSUME Init PROVE LockIInv
  OBVIOUS
<1>1. RdZero \in RdType
  BY DEF RdZero, RdType, RealmStates, NoGranule
<1>2. RecZero \in RecType
  BY GranuleAssumption DEF RecZero, RecType, NoGranule, AnyGranule, NoAux, AuxSeqs
<1>3. Types
  BY <1>1, <1>2, IdleFrameType DEF Init, Types, States
<1>4. \A c \in Cpus : f[c] = IdleFrame
  BY DEF Init
<1>5. \A g \in Granules : lock[g] = NoCpu
  BY DEF Init
<1>6. Locks
  BY <1>4, <1>5, IdleOK, GranuleAssumption DEF Locks, LockInv
<1> QED BY <1>3, <1>6 DEF LockIInv

LEMMA WorkStep ==
  ASSUME LockIInv, NEW c \in Cpus, Work(c)
  PROVE  LockIInv'
BY DelegateMarkStep, DelegateZeroStep, UndelegateStateStep, RealmCreateLockStep,
   RealmCreateLockFailsStep, RealmCreateFreeVmidStep, RealmCreateInitStep,
   RealmCreateRootStep, RealmDestroyCountStep, RealmDestroyInUseStep,
   RealmDestroyRootStep, RealmDestroyFreeStep, RecCreateLock2Step,
   RecCreateLock2FailsStep, RecCreateBodyStep, RecCreateRefusedStep,
   RecCreateUndoStep, RecDestroyAuxStep, RecDestroyFreeStep, RecDestroyPutStep,
   EnterReadStep, EnterCheckStep, EnterWriteStep, EnterPutStep,
   RttCreateLock2Step, RttCreateLock2FailsStep, RttInvalidStep, RttLockRootStep,
   RttWalkStep, RttFailStep, RttCreateEndStep, RttDestroyEndStep, RttDestroyInUseStep
   DEF Work

LEMMA LockStep == LockIInv /\ [Next]_vars => LockIInv'
<1> SUFFICES ASSUME LockIInv, [Next]_vars PROVE LockIInv'
  OBVIOUS
<1>1. CASE UNCHANGED vars
  BY <1>1 DEF vars, LockIInv, Types, Locks, LockInv
<1>2. ASSUME NEW g \in Granules, HostWrite(g) \/ RealmActivate(g) PROVE LockIInv'
  BY <1>2, HostWriteStep, RealmActivateStep
<1>3. ASSUME NEW c \in Cpus, Start(c) PROVE LockIInv'
  BY <1>3, GranuleDelegateStep, GranuleUndelegateStep, RealmCreateStep, RealmDestroyStep,
     RecDestroyStep, RecEnterStep, RttCreateStep, RttDestroyStep DEF Start
<1>4. ASSUME NEW c \in Cpus, RecCreateStep(c) PROVE LockIInv'
  BY <1>4, RecCreateAuxStep, RecCreateAuxFailsStep, RecCreateLock1Step,
     RecCreateLock1FailsStep DEF RecCreateStep
<1>5. ASSUME NEW c \in Cpus, Work(c) PROVE LockIInv'
  BY <1>5, WorkStep
<1>6. ASSUME NEW c \in Cpus, RealmRuns(c) PROVE LockIInv'
  BY <1>6, SystemOffStep, EnterRunStep DEF RealmRuns
<1> QED BY <1>1, <1>2, <1>3, <1>4, <1>5, <1>6 DEF Next

(* Every variable always has its type, but for the reference counts, which *)
(* are integers.                                                           *)
THEOREM TypesCorrect == Spec => []Types
<1>1. LockIInv => Types
  BY DEF LockIInv
<1> QED BY <1>1, LockInit, LockStep, PTL DEF Spec

(* The lock of a granule is held by a CPU exactly while the command of the *)
(* CPU is between the step that took it and the step that releases it: no  *)
(* error path of realm.c, rec.c, rtt.c and granule.c leaks a lock or drops *)
(* one it does not hold, and no command locks the same granule twice.      *)
THEOREM LocksCorrect == Spec => []LockInv
<1>1. LockIInv => LockInv
  BY DEF LockIInv, Locks
<1> QED BY <1>1, LockInit, LockStep, PTL DEF Spec

---------------------------------------------------------------------------
(***************************************************************************)
(* HostReachesOnlyNS, for any number of CPUs and granules.                 *)
(*                                                                         *)
(* Two facts carry it.  HeldStates: a granule that a CPU holds is in the   *)
(* state that the CPU's place in its command says, because other CPUs      *)
(* change the state of granules only that they hold or that nobody holds.  *)
(* Worlds: EL3's table and the state disagree only for the granule of a    *)
(* command between its two updates, and that granule is locked.            *)
(***************************************************************************)
(* The state of a granule g that a CPU holds at this point of its command *)
HeldState(fr, g) ==
  CASE fr.pc \in {"dl_mark", "dl_zero", "ud_state",
                  "rc_lock", "rc_init", "rc_roots"}  -> "DELEGATED"
    [] fr.pc \in {"rd_count", "rd_roots", "rd_free"} -> "RD"
    [] fr.pc \in {"rx_aux", "rx_free"}               -> "REC"
    [] fr.pc \in {"rn_lock2", "rn_body", "tc_lock2"} -> Expected(g, fr.obj)
    [] fr.pc = "wk_root" -> IF g = fr.rd THEN "RD" ELSE "DELEGATED"
    [] fr.pc \in Walking -> IF g = fr.root THEN "RTT" ELSE "DELEGATED"
    [] OTHER             -> "NS"

HeldStates ==
  \A c \in Cpus, g \in Granules : lock[g] = c => state[g] = HeldState(f[c], g)

(* Between these points and the end of the command the state of the granule *)
(* and EL3's table disagree.                                                *)
Moving == {"dl_mark", "ud_state"}

Worlds ==
  /\ \A g \in Granules : state[g] = "NS" => pas[g] = "NS"
  /\ \A g \in Granules : pas[g] = "NS" /\ state[g] # "NS" =>
       \E c \in Cpus : f[c].pc \in Moving /\ f[c].obj = g
  /\ \A c \in Cpus : f[c].pc = "ud_state" => pas[f[c].obj] = "NS"

WorldIInv == LockIInv /\ HeldStates /\ Worlds

---------------------------------------------------------------------------
(* A step of CPU c disturbs neither part for the other CPUs. *)

LEMMA BecomeIs ==
  ASSUME LockIInv, NEW c \in Cpus, NEW nf, Become(c, nf)
  PROVE  f'[c] = nf /\ \A d \in Cpus : d # c => f'[d] = f[d]
  BY DEF Become, LockIInv, Types

LEMMA HeldStatesStep ==
  ASSUME WorldIInv, LockIInv', NEW c \in Cpus,
         \A d \in Cpus : d # c => f'[d] = f[d],
         \A g \in Granules : state'[g] # state[g] => lock[g] \in {c, NoCpu},
         \A g \in Granules : lock'[g] = c => state'[g] = HeldState(f'[c], g)
  PROVE  HeldStates'
<1> SUFFICES ASSUME NEW d \in Cpus, NEW g \in Granules, lock'[g] = d
             PROVE  state'[g] = HeldState(f'[d], g)
  BY DEF HeldStates
<1>1. CASE d = c
  BY <1>1
<1>2. CASE d # c
  <2>1. f'[d] = f[d]
    BY <1>2
  <2>2. lock[g] = d
    BY <2>1 DEF LockIInv, Locks, LockInv, WorldIInv
  <2>3. state'[g] = state[g]
    BY <1>2, <2>2, GranuleAssumption
  <2> QED BY <2>1, <2>2, <2>3 DEF WorldIInv, HeldStates
<1> QED BY <1>1, <1>2

(* A CPU that holds no lock after the step has no state to answer for. *)
LEMMA LocklessStep ==
  ASSUME WorldIInv, LockIInv', NEW c \in Cpus, NEW nf, Become(c, nf),
         nf.pc \in Lockless,
         \A g \in Granules : state'[g] # state[g] => lock[g] \in {c, NoCpu}
  PROVE  HeldStates'
<1>1. f'[c] = nf /\ \A d \in Cpus : d # c => f'[d] = f[d]
  BY BecomeIs DEF WorldIInv
<1>2. \A g \in Granules : lock'[g] # c
  BY <1>1, LocklessHeld DEF LockIInv, Locks, LockInv
<1> QED BY <1>1, <1>2, HeldStatesStep

LEMMA WorldsStep ==
  ASSUME WorldIInv, NEW c \in Cpus, NEW nf, Become(c, nf),
         f[c].pc \notin Moving, nf.pc \notin Moving, pas' = pas,
         \A g \in Granules : state'[g] # state[g] => state[g] # "NS" /\ state'[g] # "NS"
  PROVE  Worlds'
<1>1. f'[c] = nf /\ \A d \in Cpus : d # c => f'[d] = f[d]
  BY BecomeIs DEF WorldIInv
<1>2. \A g \in Granules : state'[g] = "NS" => pas'[g] = "NS"
  BY DEF WorldIInv, Worlds
<1>3. ASSUME NEW g \in Granules, pas'[g] = "NS", state'[g] # "NS"
      PROVE  \E d \in Cpus : f'[d].pc \in Moving /\ f'[d].obj = g
  <2>1. PICK d \in Cpus : f[d].pc \in Moving /\ f[d].obj = g
    BY <1>3 DEF WorldIInv, Worlds
  <2> QED BY <1>1, <2>1
<1>4. \A d \in Cpus : f'[d].pc = "ud_state" => pas'[f'[d].obj] = "NS"
  BY <1>1 DEF WorldIInv, Worlds, Moving
<1> QED BY <1>2, <1>3, <1>4 DEF Worlds

(* When no granule changes its state, and EL3 none of its worlds *)
LEMMA QuietStep ==
  ASSUME WorldIInv, LockIInv', NEW c \in Cpus, NEW nf, Become(c, nf),
         f[c].pc \notin Moving, nf.pc \in Lockless, pas' = pas, state' = state
  PROVE  WorldIInv'
<1>1. HeldStates'
  BY LocklessStep
<1>2. nf.pc \notin Moving
  BY DEF Lockless, Moving
<1>3. Worlds'
  BY <1>2, WorldsStep
<1> QED BY <1>1, <1>3 DEF WorldIInv

---------------------------------------------------------------------------
(* The actions that leave the CPU without a lock and no granule in another *)
(* state                                                                   *)

LEMMA ReturnIs == \A c : Return(c) => Become(c, IdleFrame) /\ IdleFrame.pc \in Lockless
  BY DEF Return, IdleFrame, Lockless

LEMMA GotoIs ==
  ASSUME LockIInv, NEW c \in Cpus, NEW l, Goto(c, l)
  PROVE  Become(c, [f[c] EXCEPT !.pc = l]) /\ [f[c] EXCEPT !.pc = l].pc = l
  BY DEF Goto, LockIInv, Types, Frame

LEMMA RecCreateFailsIs ==
  ASSUME NEW c \in Cpus, RecCreateFails(c)
  PROVE  \E nf : Become(c, nf) /\ nf.pc \in Lockless
<1> DEFINE nf == IF f[c].i = 0 THEN IdleFrame
                 ELSE [IdleFrame EXCEPT !.pc = "rn_undo", !.aux = f[c].aux, !.i = f[c].i]
<1>1. Become(c, nf) /\ nf.pc \in Lockless
  BY DEF RecCreateFails, IdleFrame, Lockless
<1> HIDE DEF nf
<1> QED BY <1>1

LEMMA QuietActions ==
  ASSUME WorldIInv, LockIInv', NEW c \in Cpus,
         \/ DelegateZero(c) \/ RealmCreateFreeVmid(c) \/ RealmDestroyInUse(c)
         \/ RecDestroyPut(c) \/ EnterPut(c)
         \/ RttCreateLock2Fails(c) \/ RttInvalid(c) \/ RttFail(c) \/ RttDestroyInUse(c)
  PROVE  WorldIInv'
<1>1. Return(c) /\ f[c].pc \notin Moving /\ pas' = pas /\ state' = state
  BY DEF DelegateZero, RealmCreateFreeVmid, RealmDestroyInUse, RecDestroyPut, EnterPut,
         RttCreateLock2Fails, RttInvalid, RttFail, RttDestroyInUse, At, Moving, granuleVars
<1> QED BY <1>1, ReturnIs, QuietStep

LEMMA QuietRecCreates ==
  ASSUME WorldIInv, LockIInv', NEW c \in Cpus, RecCreateLock2Fails(c) \/ RecCreateRefused(c)
  PROVE  WorldIInv'
<1>1. RecCreateFails(c) /\ f[c].pc \notin Moving /\ pas' = pas /\ state' = state
  BY DEF RecCreateLock2Fails, RecCreateRefused, At, Moving
<1> QED BY <1>1, RecCreateFailsIs, QuietStep

LEMMA QuietGotos ==
  ASSUME WorldIInv, LockIInv', NEW c \in Cpus,
         \/ \E a \in Granules : RecCreateAuxFails(c, a)
         \/ \E r, g \in Granules : RecCreateLock1Fails(c, r, g)
         \/ EnterRead(c) \/ EnterCheck(c) \/ EnterWrite(c)
         \/ SystemOff(c) \/ \E off \in BOOLEAN : EnterRun(c, off)
  PROVE  WorldIInv'
<1>1. /\ \E l \in Lockless : Goto(c, l)
      /\ f[c].pc \notin Moving /\ pas' = pas /\ state' = state
  BY DEF RecCreateAuxFails, RecCreateLock1Fails, EnterRead, EnterCheck, EnterWrite,
         SystemOff, EnterRun, At, Moving, Lockless, granuleVars
<1>2. PICK l \in Lockless : Goto(c, l)
  BY <1>1
<1> DEFINE nf == [f[c] EXCEPT !.pc = l]
<1>3. Become(c, nf) /\ nf.pc = l
  BY <1>2, GotoIs DEF WorldIInv
<1> HIDE DEF nf
<1> QED BY <1>1, <1>3, QuietStep

LEMMA QuietRecEnter ==
  ASSUME WorldIInv, LockIInv', NEW c \in Cpus, NEW r \in Granules, NEW b \in Granules,
         RecEnter(c, r, b)
  PROVE  WorldIInv'
<1> DEFINE nf == [IdleFrame EXCEPT !.pc = "en_read", !.obj = r, !.buf = b]
<1>1. Become(c, nf) /\ nf.pc \in Lockless
  BY DEF RecEnter, IdleFrame, Lockless
<1>2. f[c].pc \notin Moving /\ pas' = pas /\ state' = state
  BY DEF RecEnter, Idle, Moving
<1> HIDE DEF nf
<1> QED BY <1>1, <1>2, QuietStep

LEMMA QuietLockFails ==
  ASSUME WorldIInv, LockIInv', NEW c \in Cpus, RealmCreateLockFails(c)
  PROVE  WorldIInv'
<1> DEFINE nf == [IdleFrame EXCEPT !.pc = "rc_vmid", !.vmid = f[c].vmid]
<1>1. Become(c, nf) /\ nf.pc \in Lockless
  BY DEF RealmCreateLockFails, IdleFrame, Lockless
<1>2. f[c].pc \notin Moving /\ pas' = pas /\ state' = state
  BY DEF RealmCreateLockFails, At, Moving
<1> HIDE DEF nf
<1> QED BY <1>1, <1>2, QuietStep

LEMMA QuietRealmCreate ==
  ASSUME WorldIInv, LockIInv', NEW c \in Cpus, NEW g \in Granules, NEW base \in Granules,
         NEW n, NEW v, RealmCreate(c, g, base, n, v)
  PROVE  WorldIInv'
<1> DEFINE l  == IF g \in Roots(base, n) THEN "rc_vmid" ELSE "rc_lock"
           nf == [IdleFrame EXCEPT !.pc = l, !.obj = g, !.root = base,
                                   !.num = n, !.vmid = v]
<1>1. Become(c, nf) /\ nf.pc \notin Moving
  BY DEF RealmCreate, IdleFrame, Moving
<1>2. f[c].pc = "idle" /\ pas' = pas /\ state' = state /\ lock' = lock
  BY DEF RealmCreate, Idle, granuleVars
<1> HIDE DEF nf
<1>3. f'[c] = nf /\ \A d \in Cpus : d # c => f'[d] = f[d]
  BY <1>1, BecomeIs DEF WorldIInv
<1>4. \A h \in Granules : lock'[h] # c
  BY <1>2, LocklessHeld DEF Lockless, WorldIInv, LockIInv, Locks, LockInv
<1>5. HeldStates'
  BY <1>2, <1>3, <1>4, HeldStatesStep
<1>6. Worlds'
  BY <1>1, <1>2, WorldsStep DEF Moving
<1> QED BY <1>5, <1>6 DEF WorldIInv

---------------------------------------------------------------------------
(* The actions that change the state of a granule and hold no lock after   *)

(* A granule that the CPU holds, or that is free, goes from one state to   *)
(* another, neither of them NS.                                            *)
LEMMA ChangeStep ==
  ASSUME WorldIInv, LockIInv', NEW c \in Cpus, NEW nf, Become(c, nf),
         f[c].pc \notin Moving, nf.pc \in Lockless, pas' = pas,
         NEW g, NEW s, s # "NS", state' = [state EXCEPT ![g] = s],
         g \in Granules => lock[g] \in {c, NoCpu} /\ state[g] # "NS"
  PROVE  WorldIInv'
<1>1. \A h \in Granules : state'[h] # state[h] => h = g /\ g \in Granules /\ state'[h] = s
  BY DEF WorldIInv, LockIInv, Types
<1>2. HeldStates'
  BY <1>1, LocklessStep
<1>3. nf.pc \notin Moving
  BY DEF Lockless, Moving
<1>4. Worlds'
  BY <1>1, <1>3, WorldsStep
<1> QED BY <1>2, <1>4 DEF WorldIInv

(* What CPU c knows of a granule that it holds *)
LEMMA HeldIs ==
  ASSUME WorldIInv, NEW c \in Cpus, NEW g \in Held(f[c])
  PROVE  g \in Granules /\ lock[g] = c /\ state[g] = HeldState(f[c], g)
  BY DEF WorldIInv, HeldStates, LockIInv, Locks, LockInv

LEMMA HeldObj ==
  ASSUME WorldIInv, NEW c \in Cpus, NEW l, f[c].pc = l,
         l \in {"dl_mark", "dl_zero", "ud_state", "rd_count", "rd_roots",
                "rd_free", "rx_aux", "rx_free"}
  PROVE  /\ f[c].obj \in Granules /\ lock[f[c].obj] = c
         /\ state[f[c].obj] = IF l \in {"dl_mark", "dl_zero", "ud_state"} THEN "DELEGATED"
                              ELSE IF l \in {"rx_aux", "rx_free"} THEN "REC" ELSE "RD"
<1>1. f[c].obj \in Held(f[c])
  BY DEF Held
<1>2. HeldState(f[c], f[c].obj) =
        IF l \in {"dl_mark", "dl_zero", "ud_state"} THEN "DELEGATED"
        ELSE IF l \in {"rx_aux", "rx_free"} THEN "REC" ELSE "RD"
  BY DEF HeldState, Walking
<1> QED BY <1>1, <1>2, HeldIs

LEMMA RecCreateAuxWorlds ==
  ASSUME WorldIInv, LockIInv', NEW c \in Cpus, NEW a \in Granules, RecCreateAux(c, a)
  PROVE  WorldIInv'
<1> DEFINE fr == f[c]
           na == [fr.aux EXCEPT ![fr.i + 1] = a]
           k  == fr.i + 1
           nf == [fr EXCEPT !.pc = "rn_aux", !.i = k, !.aux = na]
<1>1. Become(c, nf) /\ fr.pc \notin Moving /\ pas' = pas
  BY DEF RecCreateAux, Idle, At, Moving
<1>2. state' = [state EXCEPT ![a] = "REC_AUX"] /\ lock[a] = NoCpu /\ state[a] = "DELEGATED"
  BY DEF RecCreateAux, AuxTaken, CanLock, Free
<1>3. nf.pc \in Lockless
  <2>1. fr \in Frame
    BY DEF WorldIInv, LockIInv, Types
  <2> HIDE DEF k, na
  <2> QED BY <2>1 DEF Frame, Lockless
<1> HIDE DEF nf
<1> QED BY <1>1, <1>2, <1>3, ChangeStep

LEMMA RecCreateUndoWorlds ==
  ASSUME WorldIInv, LockIInv', NEW c \in Cpus, RecCreateUndo(c)
  PROVE  WorldIInv'
<1> DEFINE fr == f[c]
           a  == fr.aux[fr.j + 1]
           k  == fr.j + 1
           up == [fr EXCEPT !.j = k]
           nf == IF k = fr.i THEN IdleFrame ELSE up
<1>1. Become(c, nf) /\ fr.pc = "rn_undo" /\ pas' = pas
  BY DEF RecCreateUndo, At
<1>2. /\ a \in Granules /\ lock[a] = NoCpu /\ state[a] = "REC_AUX"
      /\ state' = [state EXCEPT ![a] = "DELEGATED"]
  BY DEF RecCreateUndo, CanLock, Free
<1>3. up.pc = "rn_undo"
  <2>1. fr \in Frame
    BY DEF WorldIInv, LockIInv, Types
  <2> HIDE DEF k
  <2> QED BY <1>1, <2>1 DEF Frame
<1> HIDE DEF up, a
<1>4. nf.pc \in Lockless
  BY <1>3 DEF IdleFrame, Lockless
<1> HIDE DEF nf
<1> QED BY <1>1, <1>2, <1>4, ChangeStep DEF Moving

LEMMA RecCreateBodyWorlds ==
  ASSUME WorldIInv, LockIInv', NEW c \in Cpus, NEW b, RecCreateBody(c, b)
  PROVE  WorldIInv'
<1> DEFINE r == f[c].obj
<1>1. /\ Return(c) /\ f[c].pc = "rn_body" /\ pas' = pas
      /\ state' = [state EXCEPT ![r] = "REC"]
  BY DEF RecCreateBody, At
<1>2. r \in Held(f[c]) /\ HeldState(f[c], r) = "DELEGATED"
  <2>1. r \in Held(f[c])
    BY <1>1 DEF Held
  <2>2. HeldState(f[c], r) = "DELEGATED"
    BY <1>1 DEF HeldState, Walking, Expected
  <2> QED BY <2>1, <2>2
<1>3. lock[r] = c /\ state[r] = "DELEGATED"
  BY <1>2, HeldIs
<1> HIDE DEF r
<1> QED BY <1>1, <1>3, ReturnIs, ChangeStep DEF Moving

LEMMA RealmDestroyFreeWorlds ==
  ASSUME WorldIInv, LockIInv', NEW c \in Cpus, RealmDestroyFree(c)
  PROVE  WorldIInv'
<1> DEFINE g == f[c].obj
<1>1. /\ Return(c) /\ f[c].pc = "rd_free" /\ pas' = pas
      /\ state' = [state EXCEPT ![g] = "DELEGATED"]
  BY DEF RealmDestroyFree, At
<1>2. lock[g] = c /\ state[g] = "RD"
  BY <1>1, HeldObj
<1> HIDE DEF g
<1> QED BY <1>1, <1>2, ReturnIs, ChangeStep DEF Moving

LEMMA RecDestroyFreeWorlds ==
  ASSUME WorldIInv, LockIInv', NEW c \in Cpus, RecDestroyFree(c)
  PROVE  WorldIInv'
<1> DEFINE r  == f[c].obj
           nf == [f[c] EXCEPT !.pc = "rx_put"]
<1>1. /\ f[c].pc = "rx_free" /\ pas' = pas
      /\ state' = [state EXCEPT ![r] = "DELEGATED"]
  BY DEF RecDestroyFree, At
<1>2. lock[r] = c /\ state[r] = "REC"
  BY <1>1, HeldObj
<1>3. Become(c, nf) /\ nf.pc = "rx_put"
  BY GotoIs DEF RecDestroyFree, WorldIInv
<1> HIDE DEF r, nf
<1> QED BY <1>1, <1>2, <1>3, ChangeStep DEF Moving, Lockless

LEMMA RttCreateEndWorlds ==
  ASSUME WorldIInv, LockIInv', NEW c \in Cpus, RttCreateEnd(c)
  PROVE  WorldIInv'
<1> DEFINE fr == f[c]
           t  == fr.obj
<1>1. /\ Return(c) /\ fr.pc = "wk_end" /\ pas' = pas
      /\ state' = [state EXCEPT ![t] = "RTT"]
  BY DEF RttCreateEnd, At
<1>2. fr.op = "create" /\ fr.root # t
  BY <1>1 DEF WorldIInv, LockIInv, Locks, FrameOK
<1>3. lock[t] = c /\ state[t] = "DELEGATED"
  BY <1>1, <1>2, HeldIs DEF Held, HeldState, WalkHolds, Walking
<1> HIDE DEF t
<1> QED BY <1>1, <1>3, ReturnIs, ChangeStep DEF Moving

LEMMA RttDestroyEndWorlds ==
  ASSUME WorldIInv, LockIInv', NEW c \in Cpus, RttDestroyEnd(c)
  PROVE  WorldIInv'
<1> DEFINE t == f[c].obj
<1>1. /\ Return(c) /\ f[c].pc = "wk_tbl" /\ pas' = pas
      /\ state' = [state EXCEPT ![t] = "DELEGATED"]
      /\ lock[t] = NoCpu /\ state[t] = "RTT"
  BY DEF RttDestroyEnd, At, CanLock, Free
<1> HIDE DEF t
<1> QED BY <1>1, ReturnIs, ChangeStep DEF Moving

---------------------------------------------------------------------------
(* The actions that move a granule between the worlds *)

LEMMA HostWriteWorlds ==
  ASSUME WorldIInv, LockIInv', NEW g \in Granules, HostWrite(g)
  PROVE  WorldIInv'
<1>1. state' = state /\ lock' = lock /\ pas' = pas /\ f' = f
  BY DEF HostWrite
<1>2. HeldStates' /\ Worlds'
  BY <1>1 DEF WorldIInv, HeldStates, Worlds
<1> QED BY <1>2 DEF WorldIInv

LEMMA RealmActivateWorlds ==
  ASSUME WorldIInv, LockIInv', NEW g \in Granules, RealmActivate(g)
  PROVE  WorldIInv'
<1>1. state' = state /\ lock' = lock /\ pas' = pas /\ f' = f
  BY DEF RealmActivate, granuleVars
<1>2. HeldStates' /\ Worlds'
  BY <1>1 DEF WorldIInv, HeldStates, Worlds
<1> QED BY <1>2 DEF WorldIInv

LEMMA GranuleDelegateWorlds ==
  ASSUME WorldIInv, LockIInv', NEW c \in Cpus, NEW g \in Granules, GranuleDelegate(c, g)
  PROVE  WorldIInv'
<1> DEFINE nf == [IdleFrame EXCEPT !.pc = "dl_mark", !.obj = g]
<1>1. Become(c, nf) /\ nf.pc = "dl_mark" /\ nf.obj = g
  BY DEF GranuleDelegate, IdleFrame
<1> HIDE DEF nf
<1>2. f'[c] = nf /\ \A d \in Cpus : d # c => f'[d] = f[d]
  BY <1>1, BecomeIs DEF WorldIInv
<1>3. /\ f[c].pc = "idle" /\ lock[g] = NoCpu /\ state[g] = "NS" /\ pas' = pas
      /\ \A h \in Granules : lock'[h] = IF h = g THEN c ELSE lock[h]
      /\ \A h \in Granules : state'[h] = IF h = g THEN "DELEGATED" ELSE state[h]
  BY DEF GranuleDelegate, Idle, CanLock, Free, Locked, WorldIInv, LockIInv, Types
<1>4. \A h \in Granules : lock[h] # c
  BY <1>3, LocklessHeld DEF Lockless, WorldIInv, LockIInv, Locks, LockInv
<1>5. \A h \in Granules : lock'[h] = c => state'[h] = HeldState(f'[c], h)
  <2>1. HeldState(nf, g) = "DELEGATED"
    BY <1>1 DEF HeldState, Walking
  <2> QED BY <2>1, <1>2, <1>3, <1>4
<1>6. HeldStates'
  BY <1>2, <1>3, <1>5, HeldStatesStep
<1>7. \A h \in Granules : state'[h] = "NS" => pas'[h] = "NS"
  BY <1>3 DEF WorldIInv, Worlds
<1>8. ASSUME NEW h \in Granules, pas'[h] = "NS", state'[h] # "NS"
      PROVE  \E d \in Cpus : f'[d].pc \in Moving /\ f'[d].obj = h
  <2>1. CASE h = g
    BY <2>1, <1>1, <1>2 DEF Moving
  <2>2. CASE h # g
    <3>1. PICK d \in Cpus : f[d].pc \in Moving /\ f[d].obj = h
      BY <1>3, <1>8, <2>2 DEF WorldIInv, Worlds
    <3>2. d # c
      BY <1>3, <3>1 DEF Moving
    <3> QED BY <1>2, <3>1, <3>2
  <2> QED BY <2>1, <2>2
<1>9. \A d \in Cpus : f'[d].pc = "ud_state" => pas'[f'[d].obj] = "NS"
  BY <1>1, <1>2, <1>3 DEF WorldIInv, Worlds
<1>10. Worlds'
  BY <1>7, <1>8, <1>9 DEF Worlds
<1> QED BY <1>6, <1>10 DEF WorldIInv

LEMMA DelegateMarkWorlds ==
  ASSUME WorldIInv, LockIInv', NEW c \in Cpus, DelegateMark(c)
  PROVE  WorldIInv'
<1> DEFINE g  == f[c].obj
           nf == [f[c] EXCEPT !.pc = "dl_zero"]
<1>1. /\ Become(c, nf) /\ nf.pc = "dl_zero"
      /\ f[c].pc = "dl_mark" /\ state' = state /\ lock' = lock
      /\ pas' = [pas EXCEPT ![g] = "REALM"]
  BY GotoIs DEF DelegateMark, At, WorldIInv
<1>2. g \in Granules /\ lock[g] = c /\ state[g] = "DELEGATED"
  BY <1>1, HeldObj
<1> HIDE DEF nf
<1>3. f'[c] = nf /\ \A d \in Cpus : d # c => f'[d] = f[d]
  BY <1>1, BecomeIs DEF WorldIInv
<1>4. \A h \in Granules : lock'[h] = c => state'[h] = HeldState(f'[c], h)
  <2>1. \A h : HeldState(nf, h) = "DELEGATED" /\ HeldState(f[c], h) = "DELEGATED"
    BY <1>1 DEF HeldState, Walking
  <2> QED BY <2>1, <1>1, <1>3 DEF WorldIInv, HeldStates
<1>5. HeldStates'
  BY <1>1, <1>3, <1>4, HeldStatesStep
<1>6. \A h \in Granules : pas'[h] = IF h = g THEN "REALM" ELSE pas[h]
  BY <1>1 DEF WorldIInv, LockIInv, Types
<1>7. \A h \in Granules : state'[h] = "NS" => pas'[h] = "NS"
  BY <1>1, <1>2, <1>6 DEF WorldIInv, Worlds
<1>8. ASSUME NEW h \in Granules, pas'[h] = "NS", state'[h] # "NS"
      PROVE  \E d \in Cpus : f'[d].pc \in Moving /\ f'[d].obj = h
  <2>1. h # g
    BY <1>6, <1>8
  <2>2. PICK d \in Cpus : f[d].pc \in Moving /\ f[d].obj = h
    BY <1>1, <1>6, <1>8, <2>1 DEF WorldIInv, Worlds
  <2> QED BY <1>3, <2>1, <2>2
<1>9. ASSUME NEW d \in Cpus, f'[d].pc = "ud_state"
      PROVE  pas'[f'[d].obj] = "NS"
  <2>1. d # c /\ f'[d] = f[d]
    BY <1>1, <1>3, <1>9
  <2>2. f[d].obj \in Granules /\ lock[f[d].obj] = d
    BY <1>9, <2>1, HeldIs DEF Held
  <2> QED BY <1>2, <1>6, <1>9, <2>1, <2>2 DEF WorldIInv, Worlds
<1>10. Worlds'
  BY <1>7, <1>8, <1>9 DEF Worlds
<1> QED BY <1>5, <1>10 DEF WorldIInv

LEMMA GranuleUndelegateWorlds ==
  ASSUME WorldIInv, LockIInv', NEW c \in Cpus, NEW g \in Granules, GranuleUndelegate(c, g)
  PROVE  WorldIInv'
<1> DEFINE nf == [IdleFrame EXCEPT !.pc = "ud_state", !.obj = g]
<1>1. Become(c, nf) /\ nf.pc = "ud_state" /\ nf.obj = g
  BY DEF GranuleUndelegate, IdleFrame
<1> HIDE DEF nf
<1>2. f'[c] = nf /\ \A d \in Cpus : d # c => f'[d] = f[d]
  BY <1>1, BecomeIs DEF WorldIInv
<1>3. /\ f[c].pc = "idle" /\ lock[g] = NoCpu /\ state[g] = "DELEGATED" /\ state' = state
      /\ \A h \in Granules : lock'[h] = IF h = g THEN c ELSE lock[h]
      /\ \A h \in Granules : pas'[h] = IF h = g THEN "NS" ELSE pas[h]
  BY DEF GranuleUndelegate, MarkNonsecure, Idle, CanLock, Free, Locked,
         WorldIInv, LockIInv, Types
<1>4. \A h \in Granules : lock[h] # c
  BY <1>3, LocklessHeld DEF Lockless, WorldIInv, LockIInv, Locks, LockInv
<1>5. \A h \in Granules : lock'[h] = c => state'[h] = HeldState(f'[c], h)
  <2>1. HeldState(nf, g) = "DELEGATED"
    BY <1>1 DEF HeldState, Walking
  <2> QED BY <2>1, <1>2, <1>3, <1>4
<1>6. HeldStates'
  BY <1>2, <1>3, <1>5, HeldStatesStep
<1>7. \A h \in Granules : state'[h] = "NS" => pas'[h] = "NS"
  BY <1>3 DEF WorldIInv, Worlds
<1>8. ASSUME NEW h \in Granules, pas'[h] = "NS", state'[h] # "NS"
      PROVE  \E d \in Cpus : f'[d].pc \in Moving /\ f'[d].obj = h
  <2>1. CASE h = g
    BY <2>1, <1>1, <1>2 DEF Moving
  <2>2. CASE h # g
    <3>1. PICK d \in Cpus : f[d].pc \in Moving /\ f[d].obj = h
      BY <1>3, <1>8, <2>2 DEF WorldIInv, Worlds
    <3>2. d # c
      BY <1>3, <3>1 DEF Moving
    <3> QED BY <1>2, <3>1, <3>2
  <2> QED BY <2>1, <2>2
<1>9. ASSUME NEW d \in Cpus, f'[d].pc = "ud_state"
      PROVE  pas'[f'[d].obj] = "NS"
  <2>1. CASE d = c
    BY <1>1, <1>2, <1>3, <2>1
  <2>2. CASE d # c
    <3>1. f'[d] = f[d] /\ f[d].obj \in Granules
      BY <1>2, <1>9, <2>2, HeldIs DEF Held
    <3> QED BY <1>3, <1>9, <3>1 DEF WorldIInv, Worlds
  <2> QED BY <2>1, <2>2
<1>10. Worlds'
  BY <1>7, <1>8, <1>9 DEF Worlds
<1> QED BY <1>6, <1>10 DEF WorldIInv

LEMMA UndelegateStateWorlds ==
  ASSUME WorldIInv, LockIInv', NEW c \in Cpus, UndelegateState(c)
  PROVE  WorldIInv'
<1> DEFINE g == f[c].obj
<1>1. /\ Return(c) /\ f[c].pc = "ud_state" /\ pas' = pas
      /\ state' = [state EXCEPT ![g] = "NS"]
  BY DEF UndelegateState, At
<1>2. g \in Granules /\ lock[g] = c /\ state[g] = "DELEGATED" /\ pas[g] = "NS"
  BY <1>1, HeldObj DEF WorldIInv, Worlds
<1>3. f'[c] = IdleFrame /\ \A d \in Cpus : d # c => f'[d] = f[d]
  BY <1>1, ReturnIs, BecomeIs DEF WorldIInv
<1>4. \A h \in Granules : state'[h] = IF h = g THEN "NS" ELSE state[h]
  BY <1>1 DEF WorldIInv, LockIInv, Types
<1>5. HeldStates'
  BY <1>1, <1>2, <1>4, ReturnIs, LocklessStep
<1>6. \A h \in Granules : state'[h] = "NS" => pas'[h] = "NS"
  BY <1>1, <1>2, <1>4 DEF WorldIInv, Worlds
<1>7. ASSUME NEW h \in Granules, pas'[h] = "NS", state'[h] # "NS"
      PROVE  \E d \in Cpus : f'[d].pc \in Moving /\ f'[d].obj = h
  <2>1. PICK d \in Cpus : f[d].pc \in Moving /\ f[d].obj = h
    BY <1>1, <1>4, <1>7 DEF WorldIInv, Worlds
  <2> QED BY <1>3, <1>4, <1>7, <2>1
<1>8. \A d \in Cpus : f'[d].pc = "ud_state" => pas'[f'[d].obj] = "NS"
  BY <1>1, <1>3 DEF IdleFrame, WorldIInv, Worlds
<1>9. Worlds'
  BY <1>6, <1>7, <1>8 DEF Worlds
<1> QED BY <1>5, <1>9 DEF WorldIInv

---------------------------------------------------------------------------
(* The actions that take a lock, or keep some *)

LEMMA HoldStep ==
  ASSUME WorldIInv, LockIInv', NEW c \in Cpus, NEW nf, Become(c, nf),
         f[c].pc \notin Moving, nf.pc \notin Moving, pas' = pas, state' = state,
         \A g \in Granules : lock'[g] = c => state[g] = HeldState(nf, g)
  PROVE  WorldIInv'
<1>1. f'[c] = nf /\ \A d \in Cpus : d # c => f'[d] = f[d]
  BY BecomeIs DEF WorldIInv
<1>2. HeldStates'
  BY <1>1, HeldStatesStep
<1>3. Worlds'
  BY WorldsStep
<1> QED BY <1>2, <1>3 DEF WorldIInv

LEMMA HoldChangeStep ==
  ASSUME WorldIInv, LockIInv', NEW c \in Cpus, NEW nf, Become(c, nf),
         f[c].pc \notin Moving, nf.pc \notin Moving, pas' = pas,
         \A h \in Granules : state'[h] # state[h] =>
           lock[h] \in {c, NoCpu} /\ state[h] # "NS" /\ state'[h] # "NS",
         \A h \in Granules : lock'[h] = c =>
           state'[h] = state[h] /\ state[h] = HeldState(nf, h)
  PROVE  WorldIInv'
<1>1. f'[c] = nf /\ \A d \in Cpus : d # c => f'[d] = f[d]
  BY BecomeIs DEF WorldIInv
<1>2. HeldStates'
  BY <1>1, HeldStatesStep
<1>3. Worlds'
  BY WorldsStep
<1> QED BY <1>2, <1>3 DEF WorldIInv

(* the granules' states are a function, so that a changed one can be read *)
LEMMA StatesTyped ==
  ASSUME WorldIInv
  PROVE  state \in [Granules -> States]
  BY DEF WorldIInv, LockIInv, Types

(* The first lock a command takes *)
LEMMA FirstLockStep ==
  ASSUME WorldIInv, LockIInv', NEW c \in Cpus, NEW nf, Become(c, nf),
         f[c].pc \in Lockless, nf.pc \notin Moving, pas' = pas, state' = state,
         NEW g \in Granules, NEW s, CanLock(g, s), lock' = Locked(c, g),
         HeldState(nf, g) = s
  PROVE  WorldIInv'
<1>1. \A h \in Granules : lock[h] # c
  BY LocklessHeld DEF WorldIInv, LockIInv, Locks, LockInv
<1>2. \A h \in Granules : lock'[h] = c => h = g
  BY <1>1 DEF Locked, WorldIInv, LockIInv, Types
<1>3. f[c].pc \notin Moving
  BY DEF Moving, Lockless
<1> QED BY <1>2, <1>3, HoldStep DEF CanLock

(* One more lock, in the state its place in the command asks for *)
LEMMA NextLockStep ==
  ASSUME WorldIInv, LockIInv', NEW c \in Cpus, NEW nf, Become(c, nf),
         f[c].pc \notin Moving, nf.pc \notin Moving, pas' = pas, state' = state,
         NEW g, NEW s, CanLock(g, s), lock' = Locked(c, g),
         HeldState(nf, g) = s,
         \A h \in Held(f[c]) : HeldState(nf, h) = HeldState(f[c], h)
  PROVE  WorldIInv'
<1>1. \A h \in Granules : lock'[h] = c => h = g \/ h \in Held(f[c])
  BY DEF Locked, WorldIInv, LockIInv, Locks, LockInv, Types
<1>2. \A h \in Granules : lock'[h] = c => state[h] = HeldState(nf, h)
  BY <1>1, HeldIs DEF CanLock
<1> QED BY <1>2, HoldStep

LEMMA RealmCreateLockWorlds ==
  ASSUME WorldIInv, LockIInv', NEW c \in Cpus, RealmCreateLock(c)
  PROVE  WorldIInv'
<1> DEFINE fr == f[c]
           g  == RcGranule(fr, fr.i + 1)
           k  == fr.i + 1
           l  == IF fr.i = fr.num THEN "rc_init" ELSE "rc_lock"
           nf == [fr EXCEPT !.i = k, !.pc = l]
<1>1. /\ Become(c, nf) /\ fr.pc = "rc_lock" /\ pas' = pas /\ state' = state
      /\ CanLock(g, "DELEGATED") /\ lock' = Locked(c, g)
  BY DEF RealmCreateLock, At
<1>2. nf.pc = l /\ l \in {"rc_init", "rc_lock"}
  <2>1. fr \in Frame
    BY DEF WorldIInv, LockIInv, Types
  <2> HIDE DEF k
  <2> QED BY <2>1 DEF Frame
<1> HIDE DEF nf, g, l
<1>3. \A h : HeldState(nf, h) = "DELEGATED" /\ HeldState(fr, h) = "DELEGATED"
  BY <1>1, <1>2 DEF HeldState, Walking
<1> QED BY <1>1, <1>2, <1>3, NextLockStep DEF Moving

LEMMA RealmCreateInitWorlds ==
  ASSUME WorldIInv, LockIInv', NEW c \in Cpus, RealmCreateInit(c)
  PROVE  WorldIInv'
<1> DEFINE fr == f[c]
           g  == fr.obj
           nf == [fr EXCEPT !.pc = "rc_roots", !.i = 0]
<1>1. /\ Become(c, nf) /\ fr.pc = "rc_init" /\ pas' = pas
      /\ state' = [state EXCEPT ![g] = "RD"] /\ lock' = Unlocked({g})
  BY DEF RealmCreateInit, At
<1>2. nf.pc = "rc_roots"
  BY DEF WorldIInv, LockIInv, Types, Frame
<1>3. g \in Held(fr)
  <2>1. fr \in Frame /\ FrameOK(fr)
    BY DEF WorldIInv, LockIInv, Types, Locks
  <2>2. Held(fr) = RcHeld(fr)
    BY <1>1 DEF Held
  <2> QED BY <1>1, <2>1, <2>2, RcHeldAll DEF FrameOK
<1> HIDE DEF nf, g
<1>4. \A h : HeldState(nf, h) = "DELEGATED" /\ HeldState(fr, h) = "DELEGATED"
  BY <1>1, <1>2 DEF HeldState, Walking
<1>5. lock[g] = c /\ state[g] = "DELEGATED"
  BY <1>3, <1>4, HeldIs
<1>6. \A h \in Granules : lock'[h] = c => h # g /\ lock[h] = c
  BY <1>1, GranuleAssumption DEF Unlocked
<1>7. \A h \in Granules : lock'[h] = c => h # g /\ state[h] = HeldState(nf, h)
  BY <1>4, <1>6 DEF WorldIInv, HeldStates
<1>8. fr.pc \notin Moving /\ nf.pc \notin Moving
  BY <1>1, <1>2 DEF Moving
<1>9. \A h \in Granules : state'[h] = IF h = g THEN "RD" ELSE state[h]
  <2>1. state' = [state EXCEPT ![g] = "RD"]
    BY <1>1
  <2>2. state \in [Granules -> States]
    BY StatesTyped
  <2> QED BY <2>1, <2>2
<1> QED BY <1>1, <1>5, <1>7, <1>8, <1>9, HoldChangeStep

LEMMA RealmCreateRootWorlds ==
  ASSUME WorldIInv, LockIInv', NEW c \in Cpus, RealmCreateRoot(c)
  PROVE  WorldIInv'
<1> DEFINE fr == f[c]
           g  == fr.root + fr.i
           k  == fr.i + 1
           up == [fr EXCEPT !.i = k]
           nf == IF k = fr.num THEN IdleFrame ELSE up
<1>0. fr \in Frame /\ FrameOK(fr)
  BY DEF WorldIInv, LockIInv, Types, Locks
<1>1. /\ Become(c, nf) /\ fr.pc = "rc_roots" /\ pas' = pas
      /\ state' = [state EXCEPT ![g] = "RTT"] /\ lock' = Unlocked({g})
  BY DEF RealmCreateRoot, At
<1>2. up.pc = "rc_roots"
  <2> HIDE DEF k
  <2> QED BY <1>0, <1>1 DEF Frame
<1>3. g \in Held(fr)
  <2>1. fr.i < fr.num /\ fr.root \in Nat /\ fr.num \in Nat /\ fr.i \in Nat
    BY <1>0, <1>1 DEF Frame, FrameOK
  <2> QED BY <1>1, <2>1 DEF Held
<1> HIDE DEF up, g
<1>4. \A h : HeldState(up, h) = "DELEGATED" /\ HeldState(fr, h) = "DELEGATED"
  BY <1>1, <1>2 DEF HeldState, Walking
<1>5. g \in Granules /\ lock[g] = c /\ state[g] = "DELEGATED"
  BY <1>3, <1>4, HeldIs
<1>6. \A h \in Granules : lock'[h] = c => h # g /\ lock[h] = c
  BY <1>1, GranuleAssumption DEF Unlocked
<1>7. CASE k = fr.num
  BY <1>1, <1>5, <1>7, ReturnIs, ChangeStep DEF Moving, Return
<1>8. CASE k # fr.num
  <2>1. nf = up
    BY <1>8
  <2>2. \A h \in Granules : lock'[h] = c => h # g /\ state[h] = HeldState(up, h)
    BY <1>4, <1>6 DEF WorldIInv, HeldStates
  <2>3. fr.pc \notin Moving /\ up.pc \notin Moving
    BY <1>1, <1>2 DEF Moving
  <2>4. \A h \in Granules : state'[h] = IF h = g THEN "RTT" ELSE state[h]
    <3>1. state' = [state EXCEPT ![g] = "RTT"]
      BY <1>1
    <3>2. state \in [Granules -> States]
      BY StatesTyped
    <3> QED BY <3>1, <3>2
  <2> QED BY <1>1, <1>5, <2>1, <2>2, <2>3, <2>4, HoldChangeStep
<1> QED BY <1>7, <1>8

LEMMA RealmDestroyWorlds ==
  ASSUME WorldIInv, LockIInv', NEW c \in Cpus, NEW g \in Granules, RealmDestroy(c, g)
  PROVE  WorldIInv'
<1> DEFINE nf == [IdleFrame EXCEPT !.pc = "rd_count", !.obj = g,
                                   !.root = rd[g].root, !.num = rd[g].num]
<1>1. Become(c, nf) /\ nf.pc = "rd_count"
  BY DEF RealmDestroy, IdleFrame
<1> HIDE DEF nf
<1>2. /\ f[c].pc \in Lockless /\ pas' = pas /\ state' = state
      /\ CanLock(g, "RD") /\ lock' = Locked(c, g)
  BY DEF RealmDestroy, Idle, Lockless, CanLockUnused
<1>3. HeldState(nf, g) = "RD"
  BY <1>1 DEF HeldState, Walking
<1> QED BY <1>1, <1>2, <1>3, FirstLockStep DEF Moving

LEMMA RealmDestroyCountWorlds ==
  ASSUME WorldIInv, LockIInv', NEW c \in Cpus, RealmDestroyCount(c)
  PROVE  WorldIInv'
<1> DEFINE fr == f[c]
           l  == IF LastRoot(fr) THEN "rd_roots" ELSE "rd_count"
           k  == IF LastRoot(fr) THEN 0 ELSE fr.i + 1
           u  == Counted(fr)
           nf == [fr EXCEPT !.used = u, !.i = k, !.pc = l]
<1>1. /\ Become(c, nf) /\ fr.pc = "rd_count"
      /\ pas' = pas /\ state' = state /\ lock' = lock
  BY DEF RealmDestroyCount, At, granuleVars
<1>2. nf.pc = l /\ l \in {"rd_roots", "rd_count"}
  <2>1. fr \in Frame
    BY DEF WorldIInv, LockIInv, Types
  <2> HIDE DEF k, u
  <2> QED BY <2>1 DEF Frame
<1> HIDE DEF nf, l
<1>3. \A h : HeldState(nf, h) = "RD" /\ HeldState(fr, h) = "RD"
  BY <1>1, <1>2 DEF HeldState, Walking
<1>4. \A h \in Granules : lock'[h] = c => state[h] = HeldState(nf, h)
  BY <1>1, <1>3 DEF WorldIInv, HeldStates
<1> QED BY <1>1, <1>2, <1>4, HoldStep DEF Moving

LEMMA RealmDestroyRootWorlds ==
  ASSUME WorldIInv, LockIInv', NEW c \in Cpus, RealmDestroyRoot(c)
  PROVE  WorldIInv'
<1> DEFINE fr == f[c]
           g  == fr.root + fr.i
           l  == IF LastRoot(fr) THEN "rd_free" ELSE "rd_roots"
           k  == fr.i + 1
           nf == [fr EXCEPT !.i = k, !.pc = l]
<1>1. /\ Become(c, nf) /\ fr.pc = "rd_roots" /\ pas' = pas /\ lock' = lock
      /\ state' = [state EXCEPT ![g] = "DELEGATED"]
      /\ g \in Granules /\ lock[g] = NoCpu /\ state[g] = "RTT"
  BY DEF RealmDestroyRoot, At, CanLock, Free
<1>2. nf.pc = l /\ l \in {"rd_roots", "rd_free"}
  <2>1. fr \in Frame
    BY DEF WorldIInv, LockIInv, Types
  <2> HIDE DEF k
  <2> QED BY <2>1 DEF Frame
<1> HIDE DEF nf, l, g
<1>3. \A h : HeldState(nf, h) = "RD" /\ HeldState(fr, h) = "RD"
  BY <1>1, <1>2 DEF HeldState, Walking
<1>4. \A h \in Granules : lock'[h] = c => h # g /\ state[h] = HeldState(nf, h)
  BY <1>1, <1>3, GranuleAssumption DEF WorldIInv, HeldStates
<1>5. fr.pc \notin Moving /\ nf.pc \notin Moving
  BY <1>1, <1>2 DEF Moving
<1>6. \A h \in Granules : state'[h] = IF h = g THEN "DELEGATED" ELSE state[h]
  <2>1. state' = [state EXCEPT ![g] = "DELEGATED"]
    BY <1>1
  <2>2. state \in [Granules -> States]
    BY StatesTyped
  <2> QED BY <2>1, <2>2
<1> QED BY <1>1, <1>4, <1>5, <1>6, HoldChangeStep

LEMMA RecCreateLock1Worlds ==
  ASSUME WorldIInv, LockIInv', NEW c \in Cpus, NEW r \in Granules, NEW g \in Granules,
         RecCreateLock1(c, r, g)
  PROVE  WorldIInv'
<1> DEFINE first == Lower(r, g)
           nf == [f[c] EXCEPT !.pc = "rn_lock2", !.obj = r, !.rd = g]
<1>1. Become(c, nf) /\ nf.pc = "rn_lock2" /\ nf.obj = r
  <2>1. f[c] \in Frame
    BY DEF WorldIInv, LockIInv, Types
  <2> QED BY <2>1 DEF RecCreateLock1, Frame
<1> HIDE DEF nf
<1>2. /\ f[c].pc \in Lockless /\ pas' = pas /\ state' = state
      /\ CanLock(first, Expected(first, r)) /\ lock' = Locked(c, first)
  BY DEF RecCreateLock1, Idle, At, Lockless
<1>3. first \in Granules
  BY DEF Lower
<1>4. HeldState(nf, first) = Expected(first, r)
  BY <1>1 DEF HeldState, Walking
<1> HIDE DEF first
<1> QED BY <1>1, <1>2, <1>3, <1>4, FirstLockStep DEF Moving

LEMMA RecCreateLock2Worlds ==
  ASSUME WorldIInv, LockIInv', NEW c \in Cpus, RecCreateLock2(c)
  PROVE  WorldIInv'
<1> DEFINE fr     == f[c]
           second == Higher(fr.obj, fr.rd)
           nf     == [fr EXCEPT !.pc = "rn_body"]
<1>1. /\ Become(c, nf) /\ fr.pc = "rn_lock2" /\ pas' = pas /\ state' = state
      /\ CanLock(second, Expected(second, fr.obj)) /\ lock' = Locked(c, second)
  BY DEF RecCreateLock2, Goto, At
<1>2. nf.pc = "rn_body" /\ nf.obj = fr.obj
  BY DEF WorldIInv, LockIInv, Types, Frame
<1> HIDE DEF nf, second
<1>3. \A h : /\ HeldState(nf, h) = Expected(h, fr.obj)
             /\ HeldState(fr, h) = Expected(h, fr.obj)
  BY <1>1, <1>2 DEF HeldState, Walking
<1> QED BY <1>1, <1>2, <1>3, NextLockStep DEF Moving

LEMMA RecDestroyWorlds ==
  ASSUME WorldIInv, LockIInv', NEW c \in Cpus, NEW r \in Granules, RecDestroy(c, r)
  PROVE  WorldIInv'
<1> DEFINE l  == IF NumAux = 0 THEN "rx_free" ELSE "rx_aux"
           nf == [IdleFrame EXCEPT !.pc = l, !.obj = r, !.rd = rec[r].rd,
                                   !.aux = rec[r].aux]
<1>1. Become(c, nf) /\ nf.pc = l /\ l \in {"rx_free", "rx_aux"}
  BY DEF RecDestroy, IdleFrame
<1> HIDE DEF nf, l
<1>2. /\ f[c].pc \in Lockless /\ pas' = pas /\ state' = state
      /\ CanLock(r, "REC") /\ lock' = Locked(c, r)
  BY DEF RecDestroy, Idle, Lockless, CanLockUnused
<1>3. HeldState(nf, r) = "REC"
  BY <1>1 DEF HeldState, Walking
<1> QED BY <1>1, <1>2, <1>3, FirstLockStep DEF Moving

LEMMA RecDestroyAuxWorlds ==
  ASSUME WorldIInv, LockIInv', NEW c \in Cpus, RecDestroyAux(c)
  PROVE  WorldIInv'
<1> DEFINE fr == f[c]
           a  == fr.aux[fr.j + 1]
           k  == fr.j + 1
           l  == IF k = NumAux THEN "rx_free" ELSE "rx_aux"
           nf == [fr EXCEPT !.j = k, !.pc = l]
<1>1. /\ Become(c, nf) /\ fr.pc = "rx_aux" /\ pas' = pas /\ lock' = lock
      /\ state' = [state EXCEPT ![a] = "DELEGATED"]
      /\ a \in Granules /\ lock[a] = NoCpu /\ state[a] = "REC_AUX"
  BY DEF RecDestroyAux, At, CanLock, Free
<1>2. nf.pc = l /\ l \in {"rx_free", "rx_aux"}
  <2>1. fr \in Frame
    BY DEF WorldIInv, LockIInv, Types
  <2> HIDE DEF k
  <2> QED BY <2>1 DEF Frame
<1> HIDE DEF nf, l, a
<1>3. \A h : HeldState(nf, h) = "REC" /\ HeldState(fr, h) = "REC"
  BY <1>1, <1>2 DEF HeldState, Walking
<1>4. \A h \in Granules : lock'[h] = c => h # a /\ state[h] = HeldState(nf, h)
  BY <1>1, <1>3, GranuleAssumption DEF WorldIInv, HeldStates
<1>5. fr.pc \notin Moving /\ nf.pc \notin Moving
  BY <1>1, <1>2 DEF Moving
<1>6. \A h \in Granules : state'[h] = IF h = a THEN "DELEGATED" ELSE state[h]
  <2>1. state' = [state EXCEPT ![a] = "DELEGATED"]
    BY <1>1
  <2>2. state \in [Granules -> States]
    BY StatesTyped
  <2> QED BY <2>1, <2>2
<1> QED BY <1>1, <1>4, <1>5, <1>6, HoldChangeStep

LEMMA RttCreateWorlds ==
  ASSUME WorldIInv, LockIInv', NEW c \in Cpus, NEW t \in Granules, NEW g \in Granules,
         RttCreate(c, t, g)
  PROVE  WorldIInv'
<1> DEFINE first == Lower(t, g)
           nf == [IdleFrame EXCEPT !.pc = "tc_lock2", !.op = "create", !.obj = t, !.rd = g]
<1>1. Become(c, nf) /\ nf.pc = "tc_lock2" /\ nf.obj = t
  BY DEF RttCreate, IdleFrame
<1> HIDE DEF nf
<1>2. /\ f[c].pc \in Lockless /\ pas' = pas /\ state' = state
      /\ CanLock(first, Expected(first, t)) /\ lock' = Locked(c, first)
  BY DEF RttCreate, Idle, At, Lockless
<1>3. first \in Granules
  BY DEF Lower
<1>4. HeldState(nf, first) = Expected(first, t)
  BY <1>1 DEF HeldState, Walking
<1> HIDE DEF first
<1> QED BY <1>1, <1>2, <1>3, <1>4, FirstLockStep DEF Moving

LEMMA RttCreateLock2Worlds ==
  ASSUME WorldIInv, LockIInv', NEW c \in Cpus, RttCreateLock2(c)
  PROVE  WorldIInv'
<1> DEFINE fr     == f[c]
           second == Higher(fr.obj, fr.rd)
           nf     == [fr EXCEPT !.pc = "wk_root"]
<1>1. /\ Become(c, nf) /\ fr.pc = "tc_lock2" /\ pas' = pas /\ state' = state
      /\ CanLock(second, Expected(second, fr.obj)) /\ lock' = Locked(c, second)
  BY DEF RttCreateLock2, Goto, At
<1>2. nf.pc = "wk_root" /\ nf.obj = fr.obj /\ nf.rd = fr.rd
  BY DEF WorldIInv, LockIInv, Types, Frame
<1>3. fr.obj # fr.rd
  BY <1>1 DEF WorldIInv, LockIInv, Locks, FrameOK
<1>4. second \in {fr.obj, fr.rd}
  BY DEF Higher
<1>5. Held(fr) \subseteq {fr.obj, fr.rd}
  BY <1>1 DEF Held, Lower
<1> HIDE DEF nf, second
<1>6. \A h \in {fr.obj, fr.rd} : /\ HeldState(nf, h) = Expected(h, fr.obj)
                                 /\ HeldState(fr, h) = Expected(h, fr.obj)
  BY <1>1, <1>2, <1>3 DEF HeldState, Walking, Expected
<1> QED BY <1>1, <1>2, <1>4, <1>5, <1>6, NextLockStep DEF Moving

LEMMA RttDestroyWorlds ==
  ASSUME WorldIInv, LockIInv', NEW c \in Cpus, NEW t \in Granules, NEW g \in Granules,
         RttDestroy(c, t, g)
  PROVE  WorldIInv'
<1> DEFINE nf == [IdleFrame EXCEPT !.pc = "wk_root", !.op = "destroy", !.obj = t, !.rd = g]
<1>1. Become(c, nf) /\ nf.pc = "wk_root" /\ nf.rd = g
  BY DEF RttDestroy, IdleFrame
<1> HIDE DEF nf
<1>2. /\ f[c].pc \in Lockless /\ pas' = pas /\ state' = state
      /\ CanLock(g, "RD") /\ lock' = Locked(c, g)
  BY DEF RttDestroy, Idle, Lockless
<1>3. HeldState(nf, g) = "RD"
  BY <1>1 DEF HeldState, Walking
<1> QED BY <1>1, <1>2, <1>3, FirstLockStep DEF Moving

LEMMA RttLockRootWorlds ==
  ASSUME WorldIInv, LockIInv', NEW c \in Cpus, RttLockRoot(c)
  PROVE  WorldIInv'
<1> DEFINE fr   == f[c]
           root == rd[fr.rd].root
           at   == [fr EXCEPT !.root = root]
<1>1. fr \in Frame /\ fr.pc = "wk_root"
  BY DEF WorldIInv, LockIInv, Types, RttLockRoot, At
<1>2. /\ root \in Granules /\ Free(root) /\ root \in Nat /\ state[root] = "RTT"
      /\ pas' = pas /\ state' = state
  BY GranuleAssumption DEF RttLockRoot, CanLock, Granules
<1>3. PICK nf \in Arrivals(fr, root, 0) \cup Concatenated(at, rd[fr.rd].num) : Become(c, nf)
  BY DEF RttLockRoot
<1>4. lock' = [Unlocked({fr.rd}) EXCEPT ![root] = c]
  BY DEF RttLockRoot
<1>5. nf.pc \in Walking /\ nf.root = root
  <2>1. CASE nf \in Arrivals(fr, root, 0)
    BY <1>1, <1>2, <2>1, ArrivalsType DEF WorldIInv, LockIInv
  <2>2. CASE nf \in Concatenated(at, rd[fr.rd].num)
    <3>1. at \in Frame /\ at.root = root
      BY <1>1, <1>2 DEF Frame
    <3>2. PICK k \in 1 .. rd[fr.rd].num - 1 :
            nf = [at EXCEPT !.pc = "wk_sl", !.rd = NoGranule, !.buf = at.root + k]
      BY <2>2 DEF Concatenated
    <3> DEFINE q == at.root + k
    <3> HIDE DEF q, at
    <3> QED BY <3>1, <3>2 DEF Frame, Walking
  <2> QED BY <1>3, <2>1, <2>2
<1> HIDE DEF root, at
<1>6. \A h \in Granules : lock'[h] = c => h = root \/ (lock[h] = c /\ h # fr.rd)
  BY <1>2, <1>4, GranuleAssumption DEF Unlocked
<1>7. \A h \in Granules : HeldState(nf, h) = IF h = root THEN "RTT" ELSE "DELEGATED"
  BY <1>5 DEF HeldState, Walking
<1>8. \A h \in Granules : HeldState(fr, h) = IF h = fr.rd THEN "RD" ELSE "DELEGATED"
  BY <1>1 DEF HeldState, Walking
<1>9. \A h \in Granules : lock'[h] = c => state[h] = HeldState(nf, h)
  BY <1>2, <1>6, <1>7, <1>8 DEF WorldIInv, HeldStates
<1> QED BY <1>1, <1>2, <1>3, <1>5, <1>9, HoldStep DEF Moving, Walking

LEMMA RttWalkWorlds ==
  ASSUME WorldIInv, LockIInv', NEW c \in Cpus, RttWalk(c)
  PROVE  WorldIInv'
<1> DEFINE fr == f[c]
           q  == fr.buf
           d  == IF fr.pc = "wk_sl" THEN 0 ELSE fr.i + 1
<1>1. fr \in Frame /\ fr.pc \in Walking
  BY DEF WorldIInv, LockIInv, Types, RttWalk, Walking
<1>2. /\ q \in Granules /\ Free(q) /\ d \in Nat /\ state[q] = "RTT"
      /\ pas' = pas /\ state' = state
  BY <1>1 DEF RttWalk, CanLock, Frame
<1>3. PICK nf \in Arrivals(fr, q, d) : Become(c, nf)
  BY DEF RttWalk
<1>4. lock' = [Unlocked({fr.root}) EXCEPT ![q] = c]
  BY DEF RttWalk
<1> HIDE DEF q, d
<1>5. nf.pc \in Walking /\ nf.root = q
  BY <1>1, <1>2, ArrivalsType DEF WorldIInv, LockIInv
<1>6. \A h \in Granules : lock'[h] = c => h = q \/ (lock[h] = c /\ h # fr.root)
  BY <1>2, <1>4, GranuleAssumption DEF Unlocked
<1>7. \A h \in Granules : HeldState(nf, h) = IF h = q THEN "RTT" ELSE "DELEGATED"
  BY <1>5 DEF HeldState, Walking
<1>8. \A h \in Granules : HeldState(fr, h) = IF h = fr.root THEN "RTT" ELSE "DELEGATED"
  BY <1>1 DEF HeldState, Walking
<1>9. \A h \in Granules : lock'[h] = c => state[h] = HeldState(nf, h)
  BY <1>2, <1>6, <1>7, <1>8 DEF WorldIInv, HeldStates
<1> QED BY <1>1, <1>2, <1>3, <1>5, <1>9, HoldStep DEF Moving, Walking

---------------------------------------------------------------------------
(* The invariant *)

LEMMA WorldInit == Init => WorldIInv
<1> SUFFICES ASSUME Init PROVE WorldIInv
  OBVIOUS
<1>1. LockIInv
  BY LockInit
<1>2. HeldStates
  BY GranuleAssumption DEF Init, HeldStates
<1>3. Worlds
  BY DEF Init, Worlds, IdleFrame
<1> QED BY <1>1, <1>2, <1>3 DEF WorldIInv

LEMMA WorldWork ==
  ASSUME WorldIInv, LockIInv', NEW c \in Cpus, Work(c)
  PROVE  WorldIInv'
BY QuietActions, QuietRecCreates, QuietGotos, QuietLockFails,
   DelegateMarkWorlds, UndelegateStateWorlds,
   RealmCreateLockWorlds, RealmCreateInitWorlds, RealmCreateRootWorlds,
   RealmDestroyCountWorlds, RealmDestroyRootWorlds, RealmDestroyFreeWorlds,
   RecCreateLock2Worlds, RecCreateBodyWorlds, RecCreateUndoWorlds,
   RecDestroyAuxWorlds, RecDestroyFreeWorlds,
   RttCreateLock2Worlds, RttLockRootWorlds, RttWalkWorlds,
   RttCreateEndWorlds, RttDestroyEndWorlds
   DEF Work

LEMMA WorldStep == WorldIInv /\ [Next]_vars => WorldIInv'
<1> SUFFICES ASSUME WorldIInv, [Next]_vars PROVE WorldIInv'
  OBVIOUS
<1>1. LockIInv'
  BY LockStep DEF WorldIInv
<1>2. CASE UNCHANGED vars
  BY <1>1, <1>2 DEF vars, WorldIInv, HeldStates, Worlds
<1>3. ASSUME NEW g \in Granules, HostWrite(g) \/ RealmActivate(g) PROVE WorldIInv'
  BY <1>1, <1>3, HostWriteWorlds, RealmActivateWorlds
<1>4. ASSUME NEW c \in Cpus, Start(c) PROVE WorldIInv'
  BY <1>1, <1>4, GranuleDelegateWorlds, GranuleUndelegateWorlds, QuietRealmCreate,
     RealmDestroyWorlds, RecDestroyWorlds, QuietRecEnter, RttCreateWorlds,
     RttDestroyWorlds DEF Start
<1>5. ASSUME NEW c \in Cpus, RecCreateStep(c) PROVE WorldIInv'
  BY <1>1, <1>5, RecCreateAuxWorlds, RecCreateLock1Worlds, QuietGotos DEF RecCreateStep
<1>6. ASSUME NEW c \in Cpus, Work(c) PROVE WorldIInv'
  BY <1>1, <1>6, WorldWork
<1>7. ASSUME NEW c \in Cpus, RealmRuns(c) PROVE WorldIInv'
  BY <1>1, <1>7, QuietGotos DEF RealmRuns
<1> QED BY <1>2, <1>3, <1>4, <1>5, <1>6, <1>7 DEF Next

(* A CPU that holds a granule's lock finds the granule in the state its    *)
(* command checked or left it in, so that no command needs a second look   *)
(* at the state (granule_types.h: "A granule's state can be changed iff    *)
(* the granule is locked").                                                *)
THEOREM HeldStatesCorrect == Spec => []HeldStates
<1>1. WorldIInv => HeldStates
  BY DEF WorldIInv
<1> QED BY <1>1, WorldInit, WorldStep, PTL DEF Spec

(* The host reaches an unlocked granule exactly when the RMM records it as *)
(* Non-secure, and never one that holds an RMM structure, for any number   *)
(* of CPUs that delegate, undelegate and use granules at once.             *)
THEOREM WorldsCorrect == Spec => []HostReachesOnlyNS
<1>1. WorldIInv => HostReachesOnlyNS
  <2> SUFFICES ASSUME WorldIInv, NEW g \in Granules
               PROVE  /\ Free(g) => (pas[g] = "NS" <=> state[g] = "NS")
                      /\ pas[g] = "NS" => state[g] \in {"NS", "DELEGATED"}
    BY DEF HostReachesOnlyNS
  <2>1. ASSUME pas[g] = "NS", state[g] # "NS"
        PROVE  ~Free(g) /\ state[g] = "DELEGATED"
    <3>1. PICK c \in Cpus : f[c].pc \in Moving /\ f[c].obj = g
      BY <2>1 DEF WorldIInv, Worlds
    <3>2. lock[g] = c /\ state[g] = "DELEGATED"
      BY <3>1, HeldObj DEF Moving
    <3> QED BY <3>2, GranuleAssumption DEF Free
  <2>2. state[g] = "NS" => pas[g] = "NS"
    BY DEF WorldIInv, Worlds
  <2> QED BY <2>1, <2>2
<1> QED BY <1>1, WorldInit, WorldStep, PTL DEF Spec

=============================================================================
