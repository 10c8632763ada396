-------------------------- MODULE LifecycleContents --------------------------
(***************************************************************************)
(* What granules hold: the auxiliary granules of RECs, the zeroes of free  *)
(* granules, and the VMIDs of realms, for any number of CPUs and granules. *)
(*                                                                         *)
(* REC_CREATE takes the auxiliary granules one at a time and holds no lock *)
(* on them; what keeps each of them to one REC is that the CPU which took  *)
(* it (DELEGATED to REC_AUX) is the only one to have it in its list, until *)
(* the list becomes that of a REC, and later that of the CPU which         *)
(* destroys the REC.  An attempt that fails gives them back without        *)
(* scrubbing them, which is right as no realm has run with them.           *)
(***************************************************************************)
EXTENDS LifecycleTrees

Taking   == {"rn_aux", "rn_lock2", "rn_body", "rn_undo"}
Clearing == {"dl_mark", "dl_zero", "ud_state"}

(* The auxiliary granules that a command has in its list, by index: those  *)
(* REC_CREATE has taken and not given back, those REC_DESTROY is to free.  *)
Taken(fr) ==
  IF fr.pc \in Taking THEN fr.j + 1 .. fr.i
  ELSE IF fr.pc = "rx_aux" THEN fr.j + 1 .. NumAux
  ELSE {}

(* A REC that is not being destroyed has its auxiliary granules. *)
Living(r) == state[r] = "REC" /\ \A c \in Cpus : f[c].pc \in Retiring => f[c].obj # r

SlotFrame(fr) ==
  /\ fr.pc \in {"rn_aux", "rn_lock2", "rn_body"} => fr.j = 0 /\ fr.i <= NumAux
  /\ fr.pc = "rn_aux"  => fr.i > 0
  /\ fr.pc = "rn_undo" => fr.j < fr.i /\ fr.i <= NumAux
  /\ fr.pc = "rx_aux"  => fr.j < NumAux

AuxesTaken ==
  \A c \in Cpus : \A k \in Taken(f[c]) :
    /\ f[c].aux[k] \in Granules /\ state[f[c].aux[k]] = "REC_AUX"
    /\ f[c].pc \in Taking => ~junk[f[c].aux[k]]

AuxesKept ==
  \A r \in Granules : Living(r) =>
    \A k \in 1 .. NumAux : rec[r].aux[k] \in Granules /\ state[rec[r].aux[k]] = "REC_AUX"

AuxesApart ==
  /\ \A c, d \in Cpus : \A k \in Taken(f[c]), l \in Taken(f[d]) :
       f[c].aux[k] = f[d].aux[l] => c = d /\ k = l
  /\ \A r, q \in Granules : Living(r) /\ Living(q) =>
       \A k, l \in 1 .. NumAux : rec[r].aux[k] = rec[q].aux[l] => r = q /\ k = l
  /\ \A c \in Cpus, r \in Granules : Living(r) =>
       \A k \in Taken(f[c]), l \in 1 .. NumAux : f[c].aux[k] # rec[r].aux[l]

Slots == AuxesTaken /\ AuxesKept /\ AuxesApart /\ \A c \in Cpus : SlotFrame(f[c])

(* A granule holds the structure of its state only, and a DELEGATED one    *)
(* only zeroes, save while a CPU has it locked to take it or give it back. *)
Blank ==
  /\ \A g \in Granules : state[g] # "RD"  => rd[g] = RdZero
  /\ \A g \in Granules : state[g] # "REC" => rec[g] = RecZero
  /\ \A g \in Granules : state[g] = "DELEGATED" /\ junk[g] =>
       \E c \in Cpus : f[c].pc \in Clearing /\ f[c].obj = g

ContentIInv == Slots /\ Blank

---------------------------------------------------------------------------
(* Steps that give no granule to a list                                    *)

SlotsShrink ==
  /\ \A d \in Cpus : \A k \in Taken(f'[d]) :
       /\ k \in Taken(f[d]) /\ f'[d].aux[k] = f[d].aux[k]
       /\ f'[d].pc \in Taking => f[d].pc \in Taking
  /\ \A r \in Granules : Living(r)' => Living(r) /\ rec'[r].aux = rec[r].aux
  /\ \A d \in Cpus : SlotFrame(f'[d])

LEMMA SlotsStep ==
  ASSUME Slots, SlotsShrink,
         \A d \in Cpus : \A k \in Taken(f'[d]) :
           /\ state'[f[d].aux[k]] = "REC_AUX"
           /\ f[d].pc \in Taking => ~junk'[f[d].aux[k]],
         \A r \in Granules : Living(r)' =>
           \A k \in 1 .. NumAux : state'[rec[r].aux[k]] = "REC_AUX"
  PROVE  Slots'
<1>1. AuxesTaken'
  BY DEF Slots, SlotsShrink, AuxesTaken
<1>2. AuxesKept'
  BY DEF Slots, SlotsShrink, AuxesKept
<1>3. AuxesApart'
  <2>1. ASSUME NEW c \in Cpus, NEW d \in Cpus, NEW k \in Taken(f'[c]), NEW l \in Taken(f'[d]),
               f'[c].aux[k] = f'[d].aux[l]
        PROVE  c = d /\ k = l
    BY <2>1 DEF Slots, SlotsShrink, AuxesApart
  <2>2. ASSUME NEW r \in Granules, NEW q \in Granules, Living(r)', Living(q)',
               NEW k \in 1 .. NumAux, NEW l \in 1 .. NumAux, rec'[r].aux[k] = rec'[q].aux[l]
        PROVE  r = q /\ k = l
    BY <2>2 DEF Slots, SlotsShrink, AuxesApart
  <2>3. ASSUME NEW c \in Cpus, NEW r \in Granules, Living(r)',
               NEW k \in Taken(f'[c]), NEW l \in 1 .. NumAux
        PROVE  f'[c].aux[k] # rec'[r].aux[l]
    BY <2>3 DEF Slots, SlotsShrink, AuxesApart
  <2> QED BY <2>1, <2>2, <2>3 DEF AuxesApart
<1> QED BY <1>1, <1>2, <1>3 DEF Slots, SlotsShrink

LEMMA SlotsKeep ==
  ASSUME Slots, SlotsShrink,
         \A g \in Granules : state[g] = "REC_AUX" =>
           state'[g] = "REC_AUX" /\ (junk'[g] => junk[g])
  PROVE  Slots'
<1>1. \A d \in Cpus : \A k \in Taken(f'[d]) :
           /\ state'[f[d].aux[k]] = "REC_AUX"
           /\ f[d].pc \in Taking => ~junk'[f[d].aux[k]]
  BY DEF Slots, SlotsShrink, AuxesTaken
<1>2. \A r \in Granules : Living(r)' =>
           \A k \in 1 .. NumAux : state'[rec[r].aux[k]] = "REC_AUX"
  BY DEF Slots, SlotsShrink, AuxesKept
<1> QED BY <1>1, <1>2, SlotsStep

LEMMA ShrinkIs ==
  ASSUME Slots, NEW c \in Cpus, Others(c), SlotFrame(f'[c]),
         \A k \in Taken(f'[c]) : /\ k \in Taken(f[c]) /\ f'[c].aux[k] = f[c].aux[k]
                                 /\ f'[c].pc \in Taking => f[c].pc \in Taking,
         \A r \in Granules : state'[r] = "REC" => state[r] = "REC" /\ rec'[r].aux = rec[r].aux,
         f[c].pc \in Retiring => \/ f'[c].pc \in Retiring /\ f'[c].obj = f[c].obj
                                 \/ state'[f[c].obj] # "REC"
  PROVE  SlotsShrink
<1>1. ASSUME NEW d \in Cpus
      PROVE  SlotFrame(f'[d]) /\ \A k \in Taken(f'[d]) :
               /\ k \in Taken(f[d]) /\ f'[d].aux[k] = f[d].aux[k]
               /\ f'[d].pc \in Taking => f[d].pc \in Taking
  BY DEF Others, Slots
<1>2. ASSUME NEW r \in Granules, Living(r)'
      PROVE  Living(r) /\ rec'[r].aux = rec[r].aux
  <2>1. state'[r] = "REC" /\ \A d \in Cpus : f'[d].pc \in Retiring => f'[d].obj # r
    BY <1>2 DEF Living
  <2> QED BY <2>1 DEF Living, Others
<1> QED BY <1>1, <1>2 DEF SlotsShrink

(* A CPU whose list is empty after the step *)
LEMMA NoSlots ==
  ASSUME NEW fr, fr.pc \notin Taking \cup {"rx_aux"}
  PROVE  SlotFrame(fr) /\ Taken(fr) = {}
  BY DEF SlotFrame, Taken, Taking

LEMMA BlankStep ==
  ASSUME Blank,
         \A g \in Granules : state'[g] # "RD" =>
           rd'[g] = RdZero \/ (rd'[g] = rd[g] /\ state[g] # "RD"),
         \A g \in Granules : state'[g] # "REC" =>
           rec'[g] = RecZero \/ (rec'[g] = rec[g] /\ state[g] # "REC"),
         \A g \in Granules : state'[g] = "DELEGATED" /\ junk'[g] =>
           \/ state[g] = "DELEGATED" /\ junk[g]
           \/ \E e \in Cpus : f'[e].pc \in Clearing /\ f'[e].obj = g,
         \A d \in Cpus : f[d].pc \in Clearing =>
           \/ f'[d].pc \in Clearing /\ f'[d].obj = f[d].obj
           \/ state'[f[d].obj] # "DELEGATED" \/ ~junk'[f[d].obj]
  PROVE  Blank'
<1>1. \A g \in Granules : state'[g] # "RD" => rd'[g] = RdZero'
  BY DEF Blank, RdZero
<1>2. \A g \in Granules : state'[g] # "REC" => rec'[g] = RecZero'
  BY DEF Blank, RecZero
<1>3. ASSUME NEW g \in Granules, state'[g] = "DELEGATED", junk'[g]
      PROVE  \E e \in Cpus : f'[e].pc \in Clearing /\ f'[e].obj = g
  <2>1. CASE state[g] = "DELEGATED" /\ junk[g]
    <3>1. PICK e \in Cpus : f[e].pc \in Clearing /\ f[e].obj = g
      BY <2>1 DEF Blank
    <3> QED BY <1>3, <3>1
  <2> QED BY <1>3, <2>1
<1> QED BY <1>1, <1>2, <1>3 DEF Blank

---------------------------------------------------------------------------
(* Steps of one CPU that change no granule                                 *)

LEMMA PlainContents ==
  ASSUME ContentIInv, NEW c \in Cpus, Others(c), UNCHANGED <<state, junk, rd, rec>>,
         SlotFrame(f'[c]),
         \A k \in Taken(f'[c]) : /\ k \in Taken(f[c]) /\ f'[c].aux[k] = f[c].aux[k]
                                 /\ f'[c].pc \in Taking => f[c].pc \in Taking,
         f[c].pc \notin Retiring,
         f[c].pc \in Clearing => f'[c].pc \in Clearing /\ f'[c].obj = f[c].obj
  PROVE  ContentIInv'
<1>1. SlotsShrink
  BY ShrinkIs DEF ContentIInv
<1>2. Slots'
  BY <1>1, SlotsKeep DEF ContentIInv
<1>3. \A d \in Cpus : f[d].pc \in Clearing => f'[d].pc \in Clearing /\ f'[d].obj = f[d].obj
  BY DEF Others
<1>4. Blank'
  BY <1>3, BlankStep DEF ContentIInv, Blank
<1> QED BY <1>2, <1>4 DEF ContentIInv

LEMMA CalmContents ==
  ASSUME ContentIInv, NEW c \in Cpus, Others(c), UNCHANGED <<state, junk, rd, rec>>,
         f[c].pc \notin Retiring \cup Clearing, f'[c].pc \notin Taking \cup {"rx_aux"}
  PROVE  ContentIInv'
<1>1. SlotFrame(f'[c]) /\ Taken(f'[c]) = {}
  BY NoSlots
<1> QED BY <1>1, PlainContents

LEMMA ReturnContents ==
  ASSUME WorldIInv, ContentIInv, NEW c \in Cpus,
         \/ RealmCreateFreeVmid(c) \/ RealmDestroyInUse(c) \/ RecDestroyPut(c) \/ EnterPut(c)
         \/ RttCreateLock2Fails(c) \/ RttInvalid(c) \/ RttFail(c) \/ RttDestroyInUse(c)
  PROVE  ContentIInv'
<1>1. /\ Return(c) /\ f[c].pc \notin Retiring \cup Clearing
      /\ UNCHANGED <<state, junk, rd, rec>>
  BY DEF RealmCreateFreeVmid, RealmDestroyInUse, RecDestroyPut, EnterPut, RttCreateLock2Fails,
         RttInvalid, RttFail, RttDestroyInUse, At, Retiring, Clearing, granuleVars
<1>2. Others(c) /\ f'[c].pc \notin Taking \cup {"rx_aux"}
  BY <1>1, ReturnsIdle DEF WorldIInv, Taking
<1> QED BY <1>1, <1>2, CalmContents

LEMMA GotoContents ==
  ASSUME WorldIInv, ContentIInv, NEW c \in Cpus,
         RttCreateLock2(c) \/ EnterRead(c) \/ EnterCheck(c)
  PROVE  ContentIInv'
<1>1. /\ \E l \in {"wk_root", "en_check", "en_run", "en_exit", "en_put"} : Goto(c, l)
      /\ f[c].pc \notin Retiring \cup Clearing /\ UNCHANGED <<state, junk, rd, rec>>
  BY DEF RttCreateLock2, EnterRead, EnterCheck, At, Retiring, Clearing, granuleVars
<1>2. Others(c) /\ f'[c].pc \notin Taking \cup {"rx_aux"}
  BY <1>1, Gotos DEF WorldIInv, Taking
<1> QED BY <1>1, <1>2, CalmContents

LEMMA DelegateMarkContents ==
  ASSUME WorldIInv, ContentIInv, NEW c \in Cpus, DelegateMark(c)
  PROVE  ContentIInv'
<1>1. f[c].pc = "dl_mark" /\ Goto(c, "dl_zero") /\ UNCHANGED <<state, junk, rd, rec>>
  BY DEF DelegateMark, At
<1>2. Others(c) /\ f'[c].pc = "dl_zero" /\ f'[c].obj = f[c].obj
  BY <1>1, Gotos DEF WorldIInv
<1>3. SlotFrame(f'[c]) /\ Taken(f'[c]) = {}
  BY <1>2, NoSlots DEF Taking
<1> QED BY <1>1, <1>2, <1>3, PlainContents DEF Retiring, Clearing

LEMMA StartContents ==
  ASSUME WorldIInv, ContentIInv, NEW c \in Cpus,
         NEW g \in Granules, NEW t \in Granules, NEW n, NEW v,
         \/ GranuleUndelegate(c, g) \/ RealmCreate(c, g, t, n, v) \/ RealmDestroy(c, g)
         \/ RecEnter(c, g, t) \/ RttCreate(c, t, g) \/ RttDestroy(c, t, g)
  PROVE  ContentIInv'
<1> DEFINE l  == IF g \in Roots(t, n) THEN "rc_vmid" ELSE "rc_lock"
           ud == [IdleFrame EXCEPT !.pc = "ud_state", !.obj = g]
           rc == [IdleFrame EXCEPT !.pc = l, !.obj = g, !.root = t, !.num = n, !.vmid = v]
           rx == [IdleFrame EXCEPT !.pc = "rd_count", !.obj = g,
                                   !.root = rd[g].root, !.num = rd[g].num]
           en == [IdleFrame EXCEPT !.pc = "en_read", !.obj = g, !.buf = t]
           tc == [IdleFrame EXCEPT !.pc = "tc_lock2", !.op = "create", !.obj = t, !.rd = g]
           td == [IdleFrame EXCEPT !.pc = "wk_root", !.op = "destroy", !.obj = t, !.rd = g]
<1>1. /\ f[c].pc = "idle" /\ UNCHANGED <<state, junk, rd, rec>>
      /\ \/ Become(c, ud) \/ Become(c, rc) \/ Become(c, rx) \/ Become(c, en) \/ Become(c, tc)
         \/ Become(c, td)
  BY DEF GranuleUndelegate, RealmCreate, RealmDestroy, RecEnter, RttCreate, RttDestroy, Idle,
         granuleVars
<1>2. /\ ud.pc = "ud_state" /\ rc.pc \in {"rc_vmid", "rc_lock"} /\ tc.pc = "tc_lock2"
      /\ td.pc = "wk_root" /\ rx.pc = "rd_count" /\ en.pc = "en_read"
  BY DEF IdleFrame
<1> HIDE DEF ud, rc, rx, en, tc, td
<1>3. Others(c) /\ f'[c].pc \notin Taking \cup {"rx_aux"}
  BY <1>1, <1>2, FrameIs DEF WorldIInv, Taking
<1> QED BY <1>1, <1>3, CalmContents DEF Retiring, Clearing

LEMMA WorkContents ==
  ASSUME WorldIInv, ContentIInv, NEW c \in Cpus,
         \/ RealmCreateLock(c) \/ RealmCreateLockFails(c) \/ RealmDestroyCount(c)
         \/ RttLockRoot(c) \/ RttWalk(c)
  PROVE  ContentIInv'
<1> DEFINE fr == f[c]
           l  == IF fr.i = fr.num THEN "rc_init" ELSE "rc_lock"
           m  == IF LastRoot(fr) THEN "rd_roots" ELSE "rd_count"
           k  == fr.i + 1
           i  == IF LastRoot(fr) THEN 0 ELSE fr.i + 1
           u  == Counted(fr)
           up == [fr EXCEPT !.i = k, !.pc = l]
           no == [IdleFrame EXCEPT !.pc = "rc_vmid", !.vmid = fr.vmid]
           ct == [fr EXCEPT !.used = u, !.i = i, !.pc = m]
<1>1. /\ fr.pc \notin Retiring \cup Clearing /\ UNCHANGED <<state, junk, rd, rec>>
      /\ \/ Become(c, up) \/ Become(c, no) \/ Become(c, ct) \/ RttLockRoot(c) \/ RttWalk(c)
  BY DEF RealmCreateLock, RealmCreateLockFails, RealmDestroyCount, RttLockRoot, RttWalk, At,
         Retiring, Clearing, granuleVars
<1>2. /\ up.pc \in {"rc_init", "rc_lock"} /\ no.pc = "rc_vmid"
      /\ ct.pc \in {"rd_roots", "rd_count"}
  <2>1. fr \in Frame
    BY TypesAre
  <2> HIDE DEF k, i, u
  <2> QED BY <2>1 DEF Frame, IdleFrame
<1> HIDE DEF up, no, ct
<1>3. Others(c) /\ f'[c].pc \notin Taking \cup {"rx_aux"}
  <2>1. CASE RttLockRoot(c) \/ RttWalk(c)
    BY <2>1, RootArrives, WalkArrives DEF WorldIInv, Walking, Taking
  <2>2. CASE Become(c, up) \/ Become(c, no) \/ Become(c, ct)
    BY <1>2, <2>2, FrameIs DEF WorldIInv, Taking
  <2> QED BY <1>1, <2>1, <2>2
<1> QED BY <1>1, <1>3, CalmContents


---------------------------------------------------------------------------
(* REC_CREATE's steps that keep its list                                   *)

LEMMA ListContents ==
  ASSUME WorldIInv, ContentIInv, NEW c \in Cpus,
         \/ \E a \in Granules : RecCreateAuxFails(c, a)
         \/ \E r, g \in Granules : RecCreateLock1Fails(c, r, g)
         \/ RecCreateLock2(c)
  PROVE  ContentIInv'
<1>1. /\ \/ f[c].pc = "rn_aux" /\ Goto(c, "rn_undo")
         \/ f[c].pc = "rn_lock2" /\ Goto(c, "rn_body")
      /\ UNCHANGED <<state, junk, rd, rec>>
  BY DEF RecCreateAuxFails, RecCreateLock1Fails, RecCreateLock2, At, granuleVars
<1>2. /\ Others(c) /\ f'[c].aux = f[c].aux /\ f'[c].i = f[c].i /\ f'[c].j = f[c].j
      /\ \/ f[c].pc = "rn_aux" /\ f'[c].pc = "rn_undo"
         \/ f[c].pc = "rn_lock2" /\ f'[c].pc = "rn_body"
  BY <1>1, Gotos DEF WorldIInv
<1>3. SlotFrame(f'[c]) /\ Taken(f'[c]) = Taken(f[c])
  BY <1>2 DEF ContentIInv, Slots, SlotFrame, Taken, Taking
<1> QED BY <1>1, <1>2, <1>3, PlainContents DEF Retiring, Clearing, Taking

LEMMA ListFailsContents ==
  ASSUME WorldIInv, ContentIInv, NEW c \in Cpus, RecCreateLock2Fails(c) \/ RecCreateRefused(c)
  PROVE  ContentIInv'
<1>1. /\ f[c].pc \in {"rn_lock2", "rn_body"} /\ RecCreateFails(c)
      /\ UNCHANGED <<state, junk, rd, rec>>
  BY DEF RecCreateLock2Fails, RecCreateRefused, At
<1>2. /\ Others(c)
      /\ \/ f'[c].pc = "idle"
         \/ /\ f'[c].pc = "rn_undo" /\ f[c].i # 0
            /\ f'[c].aux = f[c].aux /\ f'[c].i = f[c].i /\ f'[c].j = 0
  BY <1>1, FailsIs DEF WorldIInv
<1>3. f[c].i \in Nat
  BY FrameNats
<1>4. SlotFrame(f'[c]) /\ Taken(f'[c]) \subseteq Taken(f[c])
  BY <1>1, <1>2, <1>3 DEF ContentIInv, Slots, SlotFrame, Taken, Taking
<1>5. f'[c].aux = f[c].aux \/ Taken(f'[c]) = {}
  BY <1>2 DEF Taken, Taking
<1> QED BY <1>1, <1>2, <1>4, <1>5, PlainContents DEF Retiring, Clearing, Taking

LEMMA RecCreateLock1Contents ==
  ASSUME WorldIInv, ContentIInv, NEW c \in Cpus, NEW r \in Granules, NEW g \in Granules,
         RecCreateLock1(c, r, g)
  PROVE  ContentIInv'
<1> DEFINE nf == [f[c] EXCEPT !.pc = "rn_lock2", !.obj = r, !.rd = g]
<1>1. f[c].pc \in {"idle", "rn_aux"} /\ Become(c, nf) /\ UNCHANGED <<state, junk, rd, rec>>
  BY DEF RecCreateLock1, Idle, At
<1>2. f[c] \in Frame
  BY TypesAre
<1>3. nf.pc = "rn_lock2" /\ nf.aux = f[c].aux /\ nf.i = f[c].i /\ nf.j = f[c].j
  BY <1>2 DEF Frame
<1>4. Others(c) /\ f'[c] = nf
  BY <1>1, FrameIs DEF WorldIInv
<1> HIDE DEF nf
<1>5. CASE f[c].pc = "idle"
  <2>1. f[c].i = 0 /\ f[c].j = 0
    BY <1>5 DEF WorldIInv, LockIInv, Locks, FrameOK, IdleFrame
  <2>2. NumAux \in Nat
    BY LifecycleAssumption
  <2>3. SlotFrame(f'[c]) /\ Taken(f'[c]) = {}
    BY <1>3, <1>4, <2>1, <2>2 DEF SlotFrame, Taken, Taking
  <2> QED BY <1>1, <1>4, <1>5, <2>3, PlainContents DEF Retiring, Clearing
<1>6. CASE f[c].pc = "rn_aux"
  <2>1. SlotFrame(f'[c]) /\ Taken(f'[c]) = Taken(f[c]) /\ f'[c].aux = f[c].aux
    BY <1>3, <1>4, <1>6 DEF ContentIInv, Slots, SlotFrame, Taken, Taking
  <2> QED BY <1>1, <1>4, <1>6, <2>1, PlainContents DEF Retiring, Clearing, Taking
<1> QED BY <1>1, <1>5, <1>6


---------------------------------------------------------------------------
(* The host's writes, and the states of realms                             *)

LEMMA RestShrink ==
  ASSUME Slots, UNCHANGED <<state, rec, f>>
  PROVE  SlotsShrink
BY DEF Slots, SlotsShrink, Living

LEMMA HostBytes ==
  ASSUME WorldIInv, NEW g \in Granules, pas[g] = "NS"
  PROVE  \/ state[g] = "NS"
         \/ state[g] = "DELEGATED" /\ \E e \in Cpus : f[e].pc \in Clearing /\ f[e].obj = g
<1>1. CASE state[g] # "NS"
  <2>1. PICK e \in Cpus : f[e].pc \in Moving /\ f[e].obj = g
    BY <1>1 DEF WorldIInv, Worlds
  <2>2. state[g] = "DELEGATED"
    <3>1. f[e].pc = "dl_mark" \/ f[e].pc = "ud_state"
      BY <2>1 DEF Moving
    <3> QED BY <2>1, <3>1, HeldObj
  <2> QED BY <2>1, <2>2 DEF Moving, Clearing
<1> QED BY <1>1

(* The bytes of a granule that the host may reach change. *)
LEMMA WriteContents ==
  ASSUME WorldIInv, ContentIInv, SlotsShrink, UNCHANGED <<state, rd, rec>>, NEW g,
         \A h \in Granules : junk'[h] => junk[h] \/ (h = g /\ pas[h] = "NS"),
         \A d \in Cpus : f[d].pc \in Clearing => f'[d].pc \in Clearing /\ f'[d].obj = f[d].obj
  PROVE  ContentIInv'
<1>1. \A h \in Granules : junk'[h] =>
        \/ junk[h] \/ state[h] = "NS"
        \/ state[h] = "DELEGATED" /\ \E e \in Cpus : f[e].pc \in Clearing /\ f[e].obj = h
  BY HostBytes
<1>2. Slots'
  BY <1>1, SlotsKeep DEF ContentIInv
<1>3. Blank'
  BY <1>1, BlankStep DEF ContentIInv, Blank
<1> QED BY <1>2, <1>3 DEF ContentIInv

(* The structure of a RD changes. *)
LEMMA RealmContents ==
  ASSUME ContentIInv, SlotsShrink, UNCHANGED <<state, junk, rec>>,
         \A h \in Granules : rd'[h] # rd[h] => state[h] = "RD",
         \A d \in Cpus : f[d].pc \in Clearing => f'[d].pc \in Clearing /\ f'[d].obj = f[d].obj
  PROVE  ContentIInv'
<1>1. Slots'
  BY SlotsKeep DEF ContentIInv
<1>2. Blank'
  BY BlankStep DEF ContentIInv, Blank
<1> QED BY <1>1, <1>2 DEF ContentIInv

LEMMA HostContents ==
  ASSUME WorldIInv, ContentIInv, NEW g \in Granules,
         HostWrite(g) \/ RealmActivate(g) \/ UNCHANGED vars
  PROVE  ContentIInv'
<1>1. UNCHANGED <<state, rec, f>>
  BY DEF HostWrite, RealmActivate, vars, granuleVars
<1>2. SlotsShrink
  BY <1>1, RestShrink DEF ContentIInv
<1>3. CASE HostWrite(g) \/ UNCHANGED vars
  <2>1. \A h \in Granules : junk'[h] => junk[h] \/ (h = g /\ pas[h] = "NS")
    BY <1>3 DEF HostWrite, vars, WorldIInv, LockIInv, Types
  <2> QED BY <1>1, <1>2, <1>3, <2>1, WriteContents DEF HostWrite, vars
<1>4. CASE RealmActivate(g)
  <2>1. \A h \in Granules : rd'[h] # rd[h] => state[h] = "RD"
    BY <1>4, TypesAre DEF RealmActivate, CanLock
  <2> QED BY <1>1, <1>2, <1>4, <2>1, RealmContents DEF RealmActivate, granuleVars
<1> QED BY <1>3, <1>4

LEMMA ExitShrink ==
  ASSUME Slots, NEW c \in Cpus, Others(c), f[c].pc \in Entered, f'[c].pc \in Entered,
         UNCHANGED <<state, rec>>
  PROVE  SlotsShrink
<1>1. SlotFrame(f'[c]) /\ Taken(f'[c]) = {}
  BY NoSlots DEF Entered, Taking
<1> QED BY <1>1, ShrinkIs DEF Entered, Retiring

LEMMA ExitContents ==
  ASSUME WorldIInv, ContentIInv, NEW c \in Cpus, EnterWrite(c) \/ SystemOff(c)
  PROVE  ContentIInv'
<1>1. /\ f[c].pc \in {"en_exit", "en_run"} /\ UNCHANGED <<state, rec>>
      /\ \E l \in {"en_put", "en_exit"} : Goto(c, l)
  BY DEF EnterWrite, SystemOff, At, granuleVars
<1>2. Others(c) /\ f'[c].pc \in {"en_put", "en_exit"}
  BY <1>1, Gotos DEF WorldIInv
<1>3. SlotsShrink
  BY <1>1, <1>2, ExitShrink DEF ContentIInv, Entered
<1>4. \A d \in Cpus : f[d].pc \in Clearing => f'[d].pc \in Clearing /\ f'[d].obj = f[d].obj
  BY <1>1, <1>2 DEF Others, Clearing
<1>5. CASE EnterWrite(c)
  <2>1. PICK g : g = f[c].buf
    OBVIOUS
  <2>2. junk' = [junk EXCEPT ![g] = junk[g] \/ pas[g] = "NS"]
    BY <1>5, <2>1 DEF EnterWrite
  <2>3. \A h \in Granules : junk'[h] => junk[h] \/ (h = g /\ pas[h] = "NS")
    BY <2>2 DEF WorldIInv, LockIInv, Types
  <2> QED BY <1>3, <1>4, <1>5, <2>3, WriteContents DEF EnterWrite
<1>6. CASE SystemOff(c)
  <2>1. PICK g : g = rec[f[c].obj].rd
    OBVIOUS
  <2>2. CanLock(g, "RD") /\ rd' = [rd EXCEPT ![g].state = "SYSTEM_OFF"]
    BY <1>6, <2>1 DEF SystemOff
  <2>3. \A h \in Granules : rd'[h] # rd[h] => state[h] = "RD"
    BY <2>2, TypesAre DEF CanLock
  <2> QED BY <1>3, <1>4, <1>6, <2>3, RealmContents DEF SystemOff, granuleVars
<1> QED BY <1>5, <1>6


(* The realm writes to the auxiliary granules of the REC that runs, which  *)
(* no command that may give a granule back without scrubbing has taken.    *)
LEMMA EnterRunContents ==
  ASSUME WorldIInv, RecIInv, ContentIInv, NEW c \in Cpus, NEW off \in BOOLEAN, EnterRun(c, off)
  PROVE  ContentIInv'
<1>1. PICK r : r = f[c].obj
  OBVIOUS
<1>2. /\ f[c].pc = "en_run" /\ Goto(c, "en_exit") /\ UNCHANGED <<state, rd>>
      /\ rec' = [rec EXCEPT ![r].runnable = ~off]
      /\ junk' = [g \in Granules |-> junk[g] \/ \E k \in 1 .. NumAux : rec[r].aux[k] = g]
  BY <1>1 DEF EnterRun, At
<1>3. r \in Granules /\ state[r] = "REC"
  BY <1>1, <1>2 DEF RecIInv, RecFrames, RecFrame, Entered
<1>4. Living(r)
  <2>1. c \in Inside(r)
    BY <1>1, <1>2 DEF Inside
  <2>2. refcount[r] # 0
    BY <1>3, <2>1, RecCount
  <2> QED BY <1>3, <2>2 DEF Living, RecIInv, RecFrames, RecFrame
<1>5. Others(c) /\ f'[c].pc = "en_exit"
  BY <1>2, Gotos DEF WorldIInv
<1>6. /\ \A g \in Granules : g # r => rec'[g] = rec[g]
      /\ \A g \in Granules : rec'[g].aux = rec[g].aux
  BY <1>2, TypesAre DEF RecType
<1>7. SlotsShrink
  <2>1. SlotFrame(f'[c]) /\ Taken(f'[c]) = {}
    BY <1>5, NoSlots DEF Taking
  <2> QED BY <1>2, <1>5, <1>6, <2>1, ShrinkIs DEF ContentIInv, Retiring
<1>8. Slots'
  <2>1. \A d \in Cpus : \A k \in Taken(f'[d]) :
           /\ state'[f[d].aux[k]] = "REC_AUX"
           /\ f[d].pc \in Taking => ~junk'[f[d].aux[k]]
    <3> SUFFICES ASSUME NEW d \in Cpus, NEW k \in Taken(f'[d])
                 PROVE  /\ state'[f[d].aux[k]] = "REC_AUX"
                        /\ f[d].pc \in Taking => ~junk'[f[d].aux[k]]
      OBVIOUS
    <3>1. k \in Taken(f[d])
      BY <1>7 DEF SlotsShrink
    <3>2. /\ f[d].aux[k] \in Granules /\ state[f[d].aux[k]] = "REC_AUX"
          /\ f[d].pc \in Taking => ~junk[f[d].aux[k]]
      BY <3>1 DEF ContentIInv, Slots, AuxesTaken
    <3>3. \A l \in 1 .. NumAux : f[d].aux[k] # rec[r].aux[l]
      BY <1>3, <1>4, <3>1 DEF ContentIInv, Slots, AuxesApart
    <3> QED BY <1>2, <3>2, <3>3
  <2>2. \A q \in Granules : Living(q)' =>
           \A k \in 1 .. NumAux : state'[rec[q].aux[k]] = "REC_AUX"
    BY <1>2, <1>7 DEF SlotsShrink, ContentIInv, Slots, AuxesKept
  <2> QED BY <1>7, <2>1, <2>2, SlotsStep DEF ContentIInv
<1>9. Blank'
  <2>1. \A g \in Granules : state'[g] = "DELEGATED" /\ junk'[g] => junk[g]
    <3>1. \A k \in 1 .. NumAux : state[rec[r].aux[k]] = "REC_AUX"
      BY <1>3, <1>4 DEF ContentIInv, Slots, AuxesKept
    <3> QED BY <1>2, <3>1
  <2>2. \A d \in Cpus : f[d].pc \in Clearing => f'[d].pc \in Clearing /\ f'[d].obj = f[d].obj
    BY <1>2, <1>5 DEF Others, Clearing
  <2> QED BY <1>2, <1>3, <1>6, <2>1, <2>2, BlankStep DEF ContentIInv, Blank
<1> QED BY <1>8, <1>9 DEF ContentIInv

---------------------------------------------------------------------------
(* Steps that change the state of one granule, which is in no list         *)

LEMMA ObjContents ==
  ASSUME WorldIInv, ContentIInv, NEW c \in Cpus, Others(c),
         f'[c].pc \notin Taking \cup {"rx_aux"}, NEW g \in Granules, NEW s,
         s \notin {"REC", "REC_AUX"}, state[g] # "REC_AUX", state' = [state EXCEPT ![g] = s],
         \A h \in Granules : h # g => /\ rd'[h] = rd[h] /\ rec'[h] = rec[h]
                                      /\ junk'[h] => junk[h] \/ state[h] = "RTT",
         s # "RD" => rd'[g] = RdZero,
         rec'[g] = RecZero,
         s = "DELEGATED" /\ junk'[g] => f'[c].pc \in Clearing /\ f'[c].obj = g,
         f[c].pc \in Retiring \cup Clearing => f[c].obj = g,
         f[c].pc \in Clearing => s # "DELEGATED" \/ ~junk'[g]
  PROVE  ContentIInv'
<1>1. state \in [Granules -> States]
  BY TypesAre
<1>2. \A h \in Granules : state'[h] = IF h = g THEN s ELSE state[h]
  BY <1>1
<1>3. SlotFrame(f'[c]) /\ Taken(f'[c]) = {}
  BY NoSlots
<1>4. SlotsShrink
  <2>1. \A r \in Granules : state'[r] = "REC" => state[r] = "REC" /\ rec'[r].aux = rec[r].aux
    BY <1>2
  <2>2. f[c].pc \in Retiring => state'[f[c].obj] # "REC"
    BY <1>2
  <2> QED BY <1>3, <2>1, <2>2, ShrinkIs DEF ContentIInv
<1>5. Slots'
  <2>1. \A h \in Granules : state[h] = "REC_AUX" => state'[h] = "REC_AUX" /\ (junk'[h] => junk[h])
    BY <1>2
  <2> QED BY <1>4, <2>1, SlotsKeep DEF ContentIInv
<1>6. Blank'
  <2>1. \A h \in Granules : state'[h] # "RD" =>
           rd'[h] = RdZero \/ (rd'[h] = rd[h] /\ state[h] # "RD")
    BY <1>2
  <2>2. \A h \in Granules : state'[h] # "REC" =>
           rec'[h] = RecZero \/ (rec'[h] = rec[h] /\ state[h] # "REC")
    BY <1>2
  <2>3. \A h \in Granules : state'[h] = "DELEGATED" /\ junk'[h] =>
           \/ state[h] = "DELEGATED" /\ junk[h]
           \/ \E e \in Cpus : f'[e].pc \in Clearing /\ f'[e].obj = h
    BY <1>2
  <2>4. \A d \in Cpus : f[d].pc \in Clearing =>
           \/ f'[d].pc \in Clearing /\ f'[d].obj = f[d].obj
           \/ state'[f[d].obj] # "DELEGATED" \/ ~junk'[f[d].obj]
    BY <1>2 DEF Others
  <2> QED BY <2>1, <2>2, <2>3, <2>4, BlankStep DEF ContentIInv
<1> QED BY <1>5, <1>6 DEF ContentIInv


(* The granule that a command is about to make a RD, a REC or a table *)
LEMMA FreshHeld ==
  ASSUME WorldIInv, NEW c \in Cpus, f[c].pc \in {"rc_init", "rn_body", "wk_end"}
  PROVE  f[c].obj \in Granules /\ lock[f[c].obj] = c /\ state[f[c].obj] = "DELEGATED"
<1>1. FrameOK(f[c])
  BY DEF WorldIInv, LockIInv, Locks
<1>2. f[c].obj \in Held(f[c])
  <2>1. CASE f[c].pc = "rc_init"
    <3>1. f[c] \in Frame /\ f[c].i = f[c].num + 1
      BY <1>1, <2>1, TypesAre DEF FrameOK
    <3>2. f[c].obj \in RcHeld(f[c])
      BY <3>1, RcHeldAll
    <3> QED BY <2>1, <3>2 DEF Held
  <2>2. CASE f[c].pc \in {"rn_body", "wk_end"}
    BY <1>1, <2>2 DEF Held, FrameOK, WalkHolds
  <2> QED BY <2>1, <2>2
<1>3. HeldState(f[c], f[c].obj) = "DELEGATED"
  BY <1>1 DEF HeldState, Walking, Expected, FrameOK
<1> QED BY <1>2, <1>3, HeldIs

LEMMA FreshRootHeld ==
  ASSUME WorldIInv, NEW c \in Cpus, f[c].pc = "rc_roots"
  PROVE  /\ f[c].root + f[c].i \in Granules
         /\ state[f[c].root + f[c].i] = "DELEGATED"
<1>1. FrameOK(f[c])
  BY DEF WorldIInv, LockIInv, Locks
<1>2. f[c].root + f[c].i \in Held(f[c])
  BY <1>1, FrameNats DEF Held, FrameOK
<1>3. HeldState(f[c], f[c].root + f[c].i) = "DELEGATED"
  BY DEF HeldState, Walking
<1> QED BY <1>2, <1>3, HeldIs

LEMMA ZeroOutIs ==
  ASSUME NEW g \in Granules, ZeroOut({g})
  PROVE  /\ \A h \in Granules : h # g => junk'[h] = junk[h] /\ rd'[h] = rd[h] /\ rec'[h] = rec[h]
         /\ ~junk'[g] /\ rd'[g] = RdZero /\ rec'[g] = RecZero
BY DEF ZeroOut

(* The granule is zeroed and becomes DELEGATED. *)
LEMMA ZeroContents ==
  ASSUME WorldIInv, ContentIInv, NEW c \in Cpus, Others(c),
         f'[c].pc \notin Taking \cup {"rx_aux"}, NEW g \in Granules, state[g] # "REC_AUX",
         ZeroOut({g}), state' = [state EXCEPT ![g] = "DELEGATED"],
         f[c].pc \in Retiring \cup Clearing => f[c].obj = g
  PROVE  ContentIInv'
<1>1. \A h \in Granules : h # g => /\ rd'[h] = rd[h] /\ rec'[h] = rec[h]
                                   /\ junk'[h] => junk[h] \/ state[h] = "RTT"
  BY ZeroOutIs
<1>2. ~junk'[g] /\ rd'[g] = RdZero /\ rec'[g] = RecZero
  BY ZeroOutIs
<1>3. "DELEGATED" \notin {"REC", "REC_AUX"} /\ "DELEGATED" # "RD"
  OBVIOUS
<1> QED BY <1>1, <1>2, <1>3, ObjContents

LEMMA GranuleDelegateContents ==
  ASSUME WorldIInv, ContentIInv, NEW c \in Cpus, NEW g \in Granules, GranuleDelegate(c, g)
  PROVE  ContentIInv'
<1> DEFINE nf == [IdleFrame EXCEPT !.pc = "dl_mark", !.obj = g]
<1>1. /\ f[c].pc = "idle" /\ state[g] = "NS" /\ Become(c, nf)
      /\ state' = [state EXCEPT ![g] = "DELEGATED"] /\ UNCHANGED <<junk, rd, rec>>
  BY DEF GranuleDelegate, Idle, CanLock
<1>2. nf.pc = "dl_mark" /\ nf.obj = g
  BY DEF IdleFrame
<1> HIDE DEF nf
<1>3. Others(c) /\ f'[c].pc = "dl_mark" /\ f'[c].obj = g
  BY <1>1, <1>2, FrameIs DEF WorldIInv
<1>4. rd[g] = RdZero /\ rec[g] = RecZero
  BY <1>1 DEF ContentIInv, Blank
<1> QED BY <1>1, <1>3, <1>4, ObjContents DEF Taking, Clearing, Retiring

LEMMA LeaveContents ==
  ASSUME WorldIInv, ContentIInv, NEW c \in Cpus, DelegateZero(c) \/ UndelegateState(c)
  PROVE  ContentIInv'
<1>1. PICK g : g = f[c].obj
  OBVIOUS
<1>2. f[c].pc \in {"dl_zero", "ud_state"} /\ Return(c)
  BY DEF DelegateZero, UndelegateState, At
<1>3. g \in Granules /\ state[g] = "DELEGATED"
  BY <1>1, <1>2, HeldObj
<1>4. Others(c) /\ f'[c].pc = "idle"
  BY <1>2, ReturnsIdle DEF WorldIInv
<1>5. state \in [Granules -> States]
  BY TypesAre
<1>6. CASE DelegateZero(c)
  <2>1. ZeroOut({g}) /\ state' = [state EXCEPT ![g] = "DELEGATED"]
    BY <1>1, <1>3, <1>5, <1>6 DEF DelegateZero
  <2> QED BY <1>1, <1>3, <1>4, <2>1, ZeroContents DEF Taking
<1>7. CASE UndelegateState(c)
  <2>1. state' = [state EXCEPT ![g] = "NS"] /\ UNCHANGED <<junk, rd, rec>>
    BY <1>1, <1>7 DEF UndelegateState
  <2>2. rd[g] = RdZero /\ rec[g] = RecZero
    BY <1>3 DEF ContentIInv, Blank
  <2> QED BY <1>1, <1>3, <1>4, <2>1, <2>2, ObjContents DEF Taking
<1> QED BY <1>6, <1>7

LEMMA RealmCreateInitContents ==
  ASSUME WorldIInv, ContentIInv, NEW c \in Cpus, RealmCreateInit(c)
  PROVE  ContentIInv'
<1> DEFINE nf == [f[c] EXCEPT !.pc = "rc_roots", !.i = 0]
<1>1. PICK g, x : /\ g = f[c].obj
                  /\ f[c].pc = "rc_init" /\ Become(c, nf) /\ UNCHANGED <<junk, rec>>
                  /\ rd' = [rd EXCEPT ![g] = x] /\ state' = [state EXCEPT ![g] = "RD"]
  BY DEF RealmCreateInit, At
<1>2. nf.pc = "rc_roots"
  BY TypesAre DEF Frame
<1> HIDE DEF nf
<1>3. Others(c) /\ f'[c].pc = "rc_roots"
  BY <1>1, <1>2, FrameIs DEF WorldIInv
<1>4. g \in Granules /\ state[g] = "DELEGATED"
  BY <1>1, FreshHeld
<1>5. rec[g] = RecZero
  BY <1>4 DEF ContentIInv, Blank
<1>6. \A h \in Granules : h # g => /\ rd'[h] = rd[h] /\ rec'[h] = rec[h]
                                   /\ junk'[h] => junk[h] \/ state[h] = "RTT"
  BY <1>1, TypesAre
<1>7. f[c].pc \notin Retiring \cup Clearing /\ f'[c].pc \notin Taking \cup {"rx_aux"}
  BY <1>1, <1>3 DEF Taking, Clearing, Retiring
<1>8. rec'[g] = RecZero /\ "RD" \notin {"REC", "REC_AUX"} /\ state[g] # "REC_AUX"
  BY <1>1, <1>4, <1>5
<1> QED BY <1>1, <1>3, <1>4, <1>6, <1>7, <1>8, ObjContents

LEMMA RealmCreateRootContents ==
  ASSUME WorldIInv, ContentIInv, NEW c \in Cpus, RealmCreateRoot(c)
  PROVE  ContentIInv'
<1> DEFINE up == [f[c] EXCEPT !.i = f[c].i + 1]
           nf == IF f[c].i + 1 = f[c].num THEN IdleFrame ELSE up
<1>1. PICK g : /\ g = f[c].root + f[c].i
               /\ f[c].pc = "rc_roots" /\ Become(c, nf) /\ UNCHANGED <<junk, rd, rec>>
               /\ state' = [state EXCEPT ![g] = "RTT"]
  BY DEF RealmCreateRoot, At
<1>2. nf.pc \in {"rc_roots", "idle"}
  BY <1>1, TypesAre DEF Frame, IdleFrame
<1> HIDE DEF nf
<1>3. Others(c) /\ f'[c].pc \in {"rc_roots", "idle"}
  BY <1>1, <1>2, FrameIs DEF WorldIInv
<1>4. g \in Granules /\ state[g] = "DELEGATED"
  BY <1>1, FreshRootHeld
<1>5. rec[g] = RecZero /\ rd[g] = RdZero
  BY <1>4 DEF ContentIInv, Blank
<1> QED BY <1>1, <1>3, <1>4, <1>5, ObjContents DEF Taking, Clearing, Retiring


LEMMA RealmDestroyRootContents ==
  ASSUME WorldIInv, ContentIInv, NEW c \in Cpus, RealmDestroyRoot(c)
  PROVE  ContentIInv'
<1> DEFINE k  == f[c].i + 1
           l  == IF LastRoot(f[c]) THEN "rd_free" ELSE "rd_roots"
           nf == [f[c] EXCEPT !.i = k, !.pc = l]
<1>1. PICK g : /\ g = f[c].root + f[c].i
               /\ f[c].pc = "rd_roots" /\ Become(c, nf) /\ ZeroOut({g})
               /\ g \in Granules /\ state[g] = "RTT"
               /\ state' = [state EXCEPT ![g] = "DELEGATED"]
  BY DEF RealmDestroyRoot, At, CanLock
<1>2. nf.pc \in {"rd_free", "rd_roots"}
  <2> HIDE DEF k
  <2> QED BY TypesAre DEF Frame
<1> HIDE DEF nf
<1>3. Others(c) /\ f'[c].pc \in {"rd_free", "rd_roots"}
  BY <1>1, <1>2, FrameIs DEF WorldIInv
<1>4. f[c].pc \notin Retiring \cup Clearing /\ f'[c].pc \notin Taking \cup {"rx_aux"}
  BY <1>1, <1>3 DEF Taking, Clearing, Retiring
<1> QED BY <1>1, <1>3, <1>4, ZeroContents

LEMMA ObjFreeContents ==
  ASSUME WorldIInv, ContentIInv, NEW c \in Cpus, RealmDestroyFree(c) \/ RecDestroyFree(c)
  PROVE  ContentIInv'
<1>1. PICK g : /\ g = f[c].obj /\ ZeroOut({g})
               /\ f[c].pc \in {"rd_free", "rx_free"} /\ (Return(c) \/ Goto(c, "rx_put"))
               /\ state' = [state EXCEPT ![g] = "DELEGATED"]
  BY DEF RealmDestroyFree, RecDestroyFree, At
<1>2. g \in Granules /\ state[g] # "REC_AUX"
  BY <1>1, HeldObj
<1>3. Others(c) /\ f'[c].pc \in {"idle", "rx_put"}
  BY <1>1, Gotos, ReturnsIdle DEF WorldIInv
<1>4. f'[c].pc \notin Taking \cup {"rx_aux"}
  BY <1>3 DEF Taking
<1> QED BY <1>1, <1>2, <1>3, <1>4, ZeroContents

LEMMA RttCreateEndContents ==
  ASSUME WorldIInv, ContentIInv, NEW c \in Cpus, RttCreateEnd(c)
  PROVE  ContentIInv'
<1>1. PICK g : /\ g = f[c].obj /\ f[c].pc = "wk_end" /\ Return(c) /\ UNCHANGED <<rd, rec>>
               /\ junk' = [junk EXCEPT ![g] = TRUE] /\ state' = [state EXCEPT ![g] = "RTT"]
  BY DEF RttCreateEnd, At
<1>2. g \in Granules /\ state[g] = "DELEGATED"
  BY <1>1, FreshHeld
<1>3. Others(c) /\ f'[c].pc = "idle"
  BY <1>1, ReturnsIdle DEF WorldIInv
<1>4. rec[g] = RecZero /\ rd[g] = RdZero
  BY <1>2 DEF ContentIInv, Blank
<1>5. \A h \in Granules : h # g => /\ rd'[h] = rd[h] /\ rec'[h] = rec[h]
                                   /\ junk'[h] => junk[h] \/ state[h] = "RTT"
  BY <1>1 DEF WorldIInv, LockIInv, Types
<1> QED BY <1>1, <1>2, <1>3, <1>4, <1>5, ObjContents DEF Taking, Clearing, Retiring

LEMMA RttDestroyEndContents ==
  ASSUME WorldIInv, ContentIInv, NEW c \in Cpus, RttDestroyEnd(c)
  PROVE  ContentIInv'
<1>1. PICK g, p : /\ g = f[c].obj /\ p = f[c].root
                  /\ f[c].pc = "wk_tbl" /\ Return(c) /\ UNCHANGED <<rd, rec>>
                  /\ g \in Granules /\ state[g] = "RTT"
                  /\ junk' = [junk EXCEPT ![p] = TRUE, ![g] = FALSE]
                  /\ state' = [state EXCEPT ![g] = "DELEGATED"]
  BY DEF RttDestroyEnd, At, CanLock
<1>2. state[p] = "RTT"
  <2>1. f[c].root \in Held(f[c])
    BY <1>1, WalkingHeld DEF Walking
  <2>2. HeldState(f[c], f[c].root) = "RTT"
    BY <1>1 DEF HeldState, Walking
  <2> QED BY <1>1, <2>1, <2>2, HeldIs
<1>3. Others(c) /\ f'[c].pc = "idle"
  BY <1>1, ReturnsIdle DEF WorldIInv
<1>4. rec[g] = RecZero /\ rd[g] = RdZero
  BY <1>1 DEF ContentIInv, Blank
<1>5. junk \in [Granules -> BOOLEAN]
  BY DEF WorldIInv, LockIInv, Types
<1>6. /\ \A h \in Granules : h # g => /\ rd'[h] = rd[h] /\ rec'[h] = rec[h]
                                      /\ junk'[h] => junk[h] \/ state[h] = "RTT"
      /\ ~junk'[g]
  BY <1>1, <1>2, <1>5
<1> QED BY <1>1, <1>3, <1>4, <1>6, ObjContents DEF Taking, Clearing, Retiring


---------------------------------------------------------------------------
(* An auxiliary granule leaves a list and is DELEGATED again.              *)

HandedBack(a) ==
  /\ state' = [state EXCEPT ![a] = "DELEGATED"]
  /\ \A h \in Granules : h # a => /\ rd'[h] = rd[h] /\ rec'[h] = rec[h]
                                  /\ junk'[h] => junk[h]
  /\ ~junk'[a] /\ rd'[a] = RdZero /\ rec'[a] = RecZero

Drops(c, m) ==
  /\ Others(c) /\ m \in Taken(f[c]) /\ SlotFrame(f'[c])
  /\ \A k \in Taken(f'[c]) : /\ k \in Taken(f[c]) /\ k # m /\ f'[c].aux[k] = f[c].aux[k]
                             /\ f'[c].pc \in Taking => f[c].pc \in Taking
  /\ f[c].pc \notin Clearing
  /\ f[c].pc \in Retiring => f'[c].pc \in Retiring /\ f'[c].obj = f[c].obj

LEMMA BackContents ==
  ASSUME WorldIInv, ContentIInv, NEW c \in Cpus, NEW m, NEW a, a = f[c].aux[m],
         HandedBack(a), Drops(c, m)
  PROVE  ContentIInv'
<1>1. a \in Granules /\ state[a] = "REC_AUX"
  BY DEF Drops, ContentIInv, Slots, AuxesTaken
<1>2. \A h \in Granules : state'[h] = IF h = a THEN "DELEGATED" ELSE state[h]
  BY TypesAre DEF HandedBack
<1>3. SlotsShrink
  <2>1. \A r \in Granules : state'[r] = "REC" => state[r] = "REC" /\ rec'[r].aux = rec[r].aux
    BY <1>2 DEF HandedBack
  <2> QED BY <2>1, ShrinkIs DEF Drops, ContentIInv
<1>4. Slots'
  <2>1. ASSUME NEW d \in Cpus, NEW k \in Taken(f'[d])
        PROVE  /\ state'[f[d].aux[k]] = "REC_AUX"
               /\ f[d].pc \in Taking => ~junk'[f[d].aux[k]]
    <3>1. k \in Taken(f[d]) /\ ~(d = c /\ k = m)
      BY <1>3, <2>1 DEF SlotsShrink, Drops
    <3>2. /\ f[d].aux[k] \in Granules /\ state[f[d].aux[k]] = "REC_AUX"
          /\ f[d].pc \in Taking => ~junk[f[d].aux[k]]
      BY <3>1 DEF ContentIInv, Slots, AuxesTaken
    <3>3. f[d].aux[k] # a
      BY <3>1 DEF Drops, ContentIInv, Slots, AuxesApart
    <3> QED BY <1>2, <3>2, <3>3 DEF HandedBack
  <2>2. ASSUME NEW q \in Granules, Living(q)', NEW k \in 1 .. NumAux
        PROVE  state'[rec[q].aux[k]] = "REC_AUX"
    <3>1. Living(q)
      BY <1>3, <2>2 DEF SlotsShrink
    <3>2. rec[q].aux[k] \in Granules /\ state[rec[q].aux[k]] = "REC_AUX" /\ a # rec[q].aux[k]
      BY <3>1 DEF Drops, ContentIInv, Slots, AuxesKept, AuxesApart
    <3> QED BY <1>2, <3>2
  <2> QED BY <1>3, <2>1, <2>2, SlotsStep DEF ContentIInv
<1>5. Blank'
  <2>1. /\ \A h \in Granules : state'[h] # "RD" =>
             rd'[h] = RdZero \/ (rd'[h] = rd[h] /\ state[h] # "RD")
        /\ \A h \in Granules : state'[h] # "REC" =>
             rec'[h] = RecZero \/ (rec'[h] = rec[h] /\ state[h] # "REC")
    BY <1>2 DEF HandedBack
  <2>2. \A h \in Granules : state'[h] = "DELEGATED" /\ junk'[h] =>
           \/ state[h] = "DELEGATED" /\ junk[h]
           \/ \E e \in Cpus : f'[e].pc \in Clearing /\ f'[e].obj = h
    BY <1>2 DEF HandedBack
  <2>3. \A d \in Cpus : f[d].pc \in Clearing =>
           \/ f'[d].pc \in Clearing /\ f'[d].obj = f[d].obj
           \/ state'[f[d].obj] # "DELEGATED" \/ ~junk'[f[d].obj]
    BY DEF Drops, Others
  <2> QED BY <2>1, <2>2, <2>3, BlankStep DEF ContentIInv
<1> QED BY <1>4, <1>5 DEF ContentIInv

(* Given back without scrubbing: only zeroes, as no realm has used it *)
LEMMA RecCreateUndoContents ==
  ASSUME WorldIInv, ContentIInv, NEW c \in Cpus, RecCreateUndo(c)
  PROVE  ContentIInv'
<1> DEFINE fr == f[c]
           m  == fr.j + 1
           up == [fr EXCEPT !.j = m]
           nf == IF m = fr.i THEN IdleFrame ELSE up
<1>1. PICK a : /\ a = fr.aux[m] /\ fr.pc = "rn_undo" /\ Become(c, nf)
               /\ state' = [state EXCEPT ![a] = "DELEGATED"] /\ UNCHANGED <<junk, rd, rec>>
  BY DEF RecCreateUndo, At
<1>2. fr \in Frame /\ fr.i \in Nat /\ fr.j \in Nat /\ fr.j < fr.i /\ fr.i <= NumAux
  BY <1>1, TypesAre DEF Frame, ContentIInv, Slots, SlotFrame
<1>3. m \in Taken(fr)
  BY <1>1, <1>2 DEF Taken, Taking
<1>4. a \in Granules /\ state[a] = "REC_AUX" /\ ~junk[a]
  BY <1>1, <1>3 DEF ContentIInv, Slots, AuxesTaken, Taking
<1>5. rd[a] = RdZero /\ rec[a] = RecZero
  BY <1>4 DEF ContentIInv, Blank
<1>6. Others(c) /\ f'[c] = nf
  <2> HIDE DEF nf
  <2> QED BY <1>1, FrameIs DEF WorldIInv
<1>9. HandedBack(a)
  BY <1>1, <1>4, <1>5 DEF HandedBack
<1>7. CASE m = fr.i
  <2>1. f'[c].pc = "idle"
    BY <1>6, <1>7 DEF IdleFrame
  <2>2. SlotFrame(f'[c]) /\ Taken(f'[c]) = {}
    BY <2>1, NoSlots DEF Taking
  <2>3. fr.pc \notin Clearing \cup Retiring
    BY <1>1 DEF Clearing, Retiring
  <2>4. Others(c)
    BY <1>6
  <2> HIDE DEF m, nf
  <2>5. Drops(c, m)
    BY <1>3, <2>2, <2>3, <2>4 DEF Drops
  <2> QED BY <1>1, <1>9, <2>5, BackContents
<1>8. CASE m # fr.i
  <2>1. f'[c].pc = "rn_undo" /\ f'[c].j = m /\ f'[c].i = fr.i /\ f'[c].aux = fr.aux
    <3> HIDE DEF m
    <3> QED BY <1>1, <1>2, <1>6, <1>8 DEF Frame
  <2>2. m < fr.i
    BY <1>2, <1>8
  <2>3. SlotFrame(f'[c])
    BY <1>2, <2>1, <2>2 DEF SlotFrame
  <2>4. Taken(f'[c]) = m + 1 .. fr.i /\ Taken(fr) = m .. fr.i
    BY <1>1, <2>1 DEF Taken, Taking
  <2>5. \A k \in Taken(f'[c]) : k \in Taken(fr) /\ k # m
    BY <1>2, <2>4
  <2>6. fr.pc \notin Clearing \cup Retiring /\ fr.pc \in Taking
    BY <1>1 DEF Clearing, Retiring, Taking
  <2>7. Others(c)
    BY <1>6
  <2> HIDE DEF m, nf
  <2>8. Drops(c, m)
    BY <1>3, <2>1, <2>3, <2>5, <2>6, <2>7 DEF Drops
  <2> QED BY <1>1, <1>9, <2>8, BackContents
<1> QED BY <1>7, <1>8

LEMMA RecDestroyAuxContents ==
  ASSUME WorldIInv, ContentIInv, NEW c \in Cpus, RecDestroyAux(c)
  PROVE  ContentIInv'
<1> DEFINE fr == f[c]
           j  == fr.j + 1
           l  == IF j = NumAux THEN "rx_free" ELSE "rx_aux"
           nf == [fr EXCEPT !.j = j, !.pc = l]
<1>1. PICK a, m : /\ m = j /\ a = fr.aux[m] /\ fr.pc = "rx_aux" /\ Become(c, nf)
                  /\ ZeroOut({a}) /\ state' = [state EXCEPT ![a] = "DELEGATED"]
  BY DEF RecDestroyAux, At
<1>2. fr \in Frame /\ m \in Nat /\ m > 0 /\ m <= NumAux /\ NumAux \in Nat
  BY <1>1, TypesAre, LifecycleAssumption DEF Frame, ContentIInv, Slots, SlotFrame
<1>3. m \in Taken(fr) /\ Taken(fr) = m .. NumAux
  BY <1>1, <1>2 DEF Taken, Taking
<1>4. a \in Granules
  BY <1>1, <1>3 DEF ContentIInv, Slots, AuxesTaken
<1>5. \A h \in Granules : h # a => /\ rd'[h] = rd[h] /\ rec'[h] = rec[h]
                                   /\ junk'[h] => junk[h]
  BY <1>1, <1>4, ZeroOutIs
<1>6. ~junk'[a] /\ rd'[a] = RdZero /\ rec'[a] = RecZero
  BY <1>1, <1>4, ZeroOutIs
<1>7. /\ Others(c) /\ f'[c].pc = l /\ f'[c].j = m /\ f'[c].aux = fr.aux /\ f'[c].obj = fr.obj
      /\ m = NumAux => l = "rx_free"
      /\ m # NumAux => l = "rx_aux"
  <2>1. (m = NumAux => l = "rx_free") /\ (m # NumAux => l = "rx_aux")
    BY <1>1
  <2> HIDE DEF j, l
  <2>2. nf.pc = l /\ nf.j = j /\ nf.aux = fr.aux /\ nf.obj = fr.obj
    BY <1>2 DEF Frame
  <2> HIDE DEF nf
  <2> QED BY <1>1, <2>1, <2>2, FrameIs DEF WorldIInv
<1> HIDE DEF l, nf, j
<1>8. /\ fr.pc \notin Clearing /\ f'[c].pc \notin Taking
      /\ fr.pc \in Retiring => f'[c].pc \in Retiring /\ f'[c].obj = fr.obj
  BY <1>1, <1>7 DEF Clearing, Retiring, Taking
<1>9. SlotFrame(f'[c])
  BY <1>2, <1>7 DEF SlotFrame
<1>10. \A k \in Taken(f'[c]) : /\ k \in Taken(fr) /\ k # m /\ f'[c].aux[k] = fr.aux[k]
                               /\ f'[c].pc \in Taking => fr.pc \in Taking
  <2>1. Taken(f'[c]) \subseteq m + 1 .. NumAux
    BY <1>7, <1>8 DEF Taken
  <2>2. \A k \in m + 1 .. NumAux : k \in m .. NumAux /\ k # m
    BY <1>2
  <2> QED BY <1>3, <1>7, <1>8, <2>1, <2>2
<1>11. HandedBack(a)
  BY <1>1, <1>5, <1>6 DEF HandedBack
<1>12. Drops(c, m)
  BY <1>3, <1>7, <1>8, <1>9, <1>10 DEF Drops
<1> QED BY <1>1, <1>11, <1>12, BackContents


---------------------------------------------------------------------------
(* An auxiliary granule enters the list of a REC_CREATE.                   *)

(* Nobody who holds a DELEGATED granule's lock, nobody to clear it *)
LEMMA FreeClean ==
  ASSUME WorldIInv, ContentIInv, NEW a \in Granules, Free(a), state[a] = "DELEGATED"
  PROVE  ~junk[a]
<1>1. ASSUME NEW e \in Cpus, f[e].pc \in Clearing, f[e].obj = a
      PROVE  FALSE
  <2>1. lock[a] = e
    BY <1>1, HeldObj DEF Clearing
  <2> QED BY <2>1, GranuleAssumption DEF Free
<1> QED BY <1>1 DEF ContentIInv, Blank

LEMMA RecCreateAuxContents ==
  ASSUME WorldIInv, ContentIInv, NEW c \in Cpus, NEW a \in Granules, RecCreateAux(c, a)
  PROVE  ContentIInv'
<1> DEFINE fr == f[c]
           n  == fr.i + 1
           na == [fr.aux EXCEPT ![n] = a]
           nf == [fr EXCEPT !.pc = "rn_aux", !.i = n, !.aux = na]
<1>1. PICK k : /\ k = n /\ fr.pc \in {"idle", "rn_aux"} /\ fr.i < NumAux
               /\ Free(a) /\ state[a] = "DELEGATED"
               /\ Become(c, nf) /\ state' = [state EXCEPT ![a] = "REC_AUX"]
               /\ UNCHANGED <<junk, rd, rec>>
  BY DEF RecCreateAux, AuxTaken, CanLock, Idle, At
<1>2. ~junk[a]
  BY <1>1, FreeClean
<1>3. /\ fr \in Frame /\ fr.aux \in AuxSeqs /\ fr.i \in Nat /\ fr.j = 0 /\ NumAux \in Nat
      /\ fr.pc = "idle" => fr.i = 0
  <2>1. fr \in Frame
    BY TypesAre
  <2>2. fr.pc = "idle" => fr.i = 0 /\ fr.j = 0
    BY DEF WorldIInv, LockIInv, Locks, FrameOK, IdleFrame
  <2>3. fr.pc = "rn_aux" => fr.j = 0
    BY DEF ContentIInv, Slots, SlotFrame
  <2> QED BY <1>1, <2>1, <2>2, <2>3, LifecycleAssumption DEF Frame
<1>4. k \in 1 .. NumAux /\ k = fr.i + 1
  BY <1>1, <1>3
<1>5. na[k] = a /\ \A l \in 1 .. NumAux : l # k => na[l] = fr.aux[l]
  BY <1>1, <1>3, <1>4 DEF AuxSeqs
<1>6. /\ Others(c) /\ f'[c].pc = "rn_aux" /\ f'[c].i = k /\ f'[c].j = 0
      /\ f'[c].aux = na
  <2> HIDE DEF n, na
  <2>1. nf.pc = "rn_aux" /\ nf.i = n /\ nf.j = fr.j /\ nf.aux = na
    BY <1>3 DEF Frame
  <2> HIDE DEF nf
  <2> QED BY <1>1, <1>3, <2>1, FrameIs DEF WorldIInv
<1>7. f'[c].aux[k] = a /\ \A l \in 1 .. NumAux : l # k => f'[c].aux[l] = fr.aux[l]
  BY <1>5, <1>6
<1> HIDE DEF n, na, nf
<1>8. Taken(f'[c]) = 1 .. k /\ Taken(fr) = 1 .. fr.i
  BY <1>1, <1>3, <1>6 DEF Taken, Taking
<1>9. \A h \in Granules : state'[h] = IF h = a THEN "REC_AUX" ELSE state[h]
  BY <1>1, TypesAre
<1>10. \A d \in Cpus : \A l \in Taken(f'[d]) :
         \/ d = c /\ l = k /\ f'[d].aux[l] = a
         \/ /\ l \in Taken(f[d]) /\ f'[d].aux[l] = f[d].aux[l]
            /\ f[d].aux[l] \in Granules /\ state[f[d].aux[l]] = "REC_AUX"
            /\ f'[d].pc \in Taking => ~junk[f[d].aux[l]]
  <2> SUFFICES ASSUME NEW d \in Cpus, NEW l \in Taken(f'[d]), ~(d = c /\ l = k)
               PROVE  /\ l \in Taken(f[d]) /\ f'[d].aux[l] = f[d].aux[l]
                      /\ f[d].aux[l] \in Granules /\ state[f[d].aux[l]] = "REC_AUX"
                      /\ f'[d].pc \in Taking => ~junk[f[d].aux[l]]
    BY <1>7
  <2>1. CASE d = c
    <3>1. l \in 1 .. fr.i /\ l \in 1 .. NumAux /\ l # k
      BY <1>3, <1>4, <1>8, <2>1
    <3>2. fr.pc \in Taking
      BY <1>1, <1>3, <3>1 DEF Taking
    <3>3. l \in Taken(f[c]) /\ f'[c].aux[l] = f[c].aux[l]
      BY <1>7, <1>8, <3>1
    <3> QED BY <2>1, <3>2, <3>3 DEF ContentIInv, Slots, AuxesTaken
  <2>2. CASE d # c
    BY <1>6, <2>2 DEF Others, ContentIInv, Slots, AuxesTaken
  <2> QED BY <2>1, <2>2
<1>11. \A r \in Granules : Living(r)' => Living(r) /\ r # a
  <2>1. \A d \in Cpus : f[d].pc \in Retiring => f'[d] = f[d]
    BY <1>1, <1>6 DEF Others, Retiring
  <2> QED BY <1>9, <2>1 DEF Living
<1>12. AuxesTaken'
  BY <1>1, <1>2, <1>9, <1>10 DEF AuxesTaken
<1>13. \A r \in Granules : Living(r)' =>
         \A l \in 1 .. NumAux : /\ rec'[r].aux[l] = rec[r].aux[l] /\ rec[r].aux[l] \in Granules
                                /\ state[rec[r].aux[l]] = "REC_AUX"
  BY <1>1, <1>11 DEF ContentIInv, Slots, AuxesKept
<1>14. AuxesKept'
  BY <1>9, <1>13 DEF AuxesKept
<1>15. AuxesApart'
  <2>1. ASSUME NEW d \in Cpus, NEW e \in Cpus, NEW l \in Taken(f'[d]), NEW m \in Taken(f'[e]),
               f'[d].aux[l] = f'[e].aux[m]
        PROVE  d = e /\ l = m
    <3>1. CASE l \in Taken(f[d]) /\ m \in Taken(f[e]) /\ f'[d].aux[l] = f[d].aux[l]
               /\ f'[e].aux[m] = f[e].aux[m]
      <4>1. f[d].aux[l] = f[e].aux[m]
        BY <2>1, <3>1
      <4> QED BY <3>1, <4>1 DEF ContentIInv, Slots, AuxesApart
    <3> QED BY <1>1, <1>10, <2>1, <3>1
  <2>2. ASSUME NEW r \in Granules, NEW q \in Granules, Living(r)', Living(q)',
               NEW l \in 1 .. NumAux, NEW m \in 1 .. NumAux, rec'[r].aux[l] = rec'[q].aux[m]
        PROVE  r = q /\ l = m
    BY <1>11, <1>13, <2>2 DEF ContentIInv, Slots, AuxesApart
  <2>3. ASSUME NEW d \in Cpus, NEW r \in Granules, Living(r)',
               NEW l \in Taken(f'[d]), NEW m \in 1 .. NumAux
        PROVE  f'[d].aux[l] # rec'[r].aux[m]
    <3>1. CASE l \in Taken(f[d]) /\ f'[d].aux[l] = f[d].aux[l]
      BY <1>11, <1>13, <2>3, <3>1 DEF ContentIInv, Slots, AuxesApart
    <3> QED BY <1>1, <1>10, <1>13, <2>3, <3>1
  <2> QED BY <2>1, <2>2, <2>3 DEF AuxesApart
<1>16. \A d \in Cpus : SlotFrame(f'[d])
  <2>1. SlotFrame(f'[c])
    BY <1>3, <1>4, <1>6 DEF SlotFrame
  <2> QED BY <1>6, <2>1 DEF Others, ContentIInv, Slots
<1>17. Blank'
  <2>1. /\ \A h \in Granules : state'[h] # "RD" => state[h] # "RD"
        /\ \A h \in Granules : state'[h] # "REC" => state[h] # "REC"
        /\ \A h \in Granules : state'[h] = "DELEGATED" => state[h] = "DELEGATED"
    BY <1>1, <1>9
  <2>2. \A d \in Cpus : f[d].pc \in Clearing => f'[d] = f[d]
    BY <1>1, <1>6 DEF Others, Clearing
  <2> QED BY <1>1, <2>1, <2>2, BlankStep DEF ContentIInv, Blank
<1> QED BY <1>12, <1>14, <1>15, <1>16, <1>17 DEF ContentIInv, Slots


---------------------------------------------------------------------------
(* A list becomes that of a REC, and later that of who destroys the REC.   *)

LEMMA RecCreateBodyContents ==
  ASSUME WorldIInv, RecIInv, ContentIInv, NEW c \in Cpus, NEW b, RecCreateBody(c, b)
  PROVE  ContentIInv'
<1> DEFINE fr == f[c]
<1>1. PICK r, g : /\ r = fr.obj /\ g = fr.rd /\ fr.pc = "rn_body" /\ fr.i = NumAux
                  /\ rec' = [rec EXCEPT ![r] = [rd |-> g, idx |-> rd[g].recs,
                                                aux |-> fr.aux, runnable |-> b]]
                  /\ rd' = [rd EXCEPT ![g].recs = rd[g].recs + 1]
                  /\ state' = [state EXCEPT ![r] = "REC"]
                  /\ Return(c) /\ UNCHANGED junk
  BY DEF RecCreateBody, At, CheckRealm, CountRec
<1>2. r \in Granules /\ state[r] = "DELEGATED"
  BY <1>1, FreshHeld
<1>3. g \in Granules /\ state[g] = "RD"
  <2>1. g \in Held(fr)
    BY <1>1 DEF Held
  <2>2. r # g
    BY <1>1 DEF WorldIInv, LockIInv, Locks, FrameOK
  <2>3. HeldState(fr, g) = "RD"
    BY <1>1, <2>2 DEF HeldState, Expected, Walking
  <2> QED BY <2>1, <2>3, HeldIs
<1>4. Taken(fr) = 1 .. NumAux /\ fr.pc \in Taking
  <2>1. fr.j = 0
    BY <1>1 DEF ContentIInv, Slots, SlotFrame
  <2> QED BY <1>1, <2>1 DEF Taken, Taking
<1>5. Others(c) /\ f'[c].pc = "idle"
  BY <1>1, ReturnsIdle DEF WorldIInv
<1>6. SlotFrame(f'[c]) /\ Taken(f'[c]) = {}
  BY <1>5, NoSlots DEF Taking
<1>7. \A h \in Granules : /\ state'[h] = IF h = r THEN "REC" ELSE state[h]
                          /\ h # r => rec'[h] = rec[h]
                          /\ h # g => rd'[h] = rd[h]
  BY <1>1, TypesAre
<1>8. rec'[r].aux = fr.aux
  BY <1>1, <1>2, TypesAre
<1>9. \A d \in Cpus : \A k \in Taken(f'[d]) :
        /\ d # c /\ k \in Taken(f[d]) /\ f'[d] = f[d]
        /\ f[d].aux[k] \in Granules /\ state[f[d].aux[k]] = "REC_AUX"
        /\ f[d].pc \in Taking => ~junk[f[d].aux[k]]
  BY <1>5, <1>6 DEF Others, ContentIInv, Slots, AuxesTaken
<1>10. \A q \in Granules : Living(q)' /\ q # r => Living(q) /\ rec'[q] = rec[q]
  <2>1. \A d \in Cpus : f[d].pc \in Retiring => f'[d] = f[d]
    BY <1>1, <1>5 DEF Others, Retiring
  <2> QED BY <1>7, <2>1 DEF Living
<1>11. \A k \in 1 .. NumAux : fr.aux[k] \in Granules /\ state[fr.aux[k]] = "REC_AUX"
  BY <1>4 DEF ContentIInv, Slots, AuxesTaken
<1>12. AuxesTaken'
  BY <1>1, <1>2, <1>7, <1>9 DEF AuxesTaken
<1>13. AuxesKept'
  <2>1. ASSUME NEW q \in Granules, Living(q)', NEW k \in 1 .. NumAux
        PROVE  rec'[q].aux[k] \in Granules /\ state[rec'[q].aux[k]] = "REC_AUX"
    BY <1>8, <1>10, <1>11, <2>1 DEF ContentIInv, Slots, AuxesKept
  <2> QED BY <1>2, <1>7, <2>1 DEF AuxesKept
<1>14. \A m \in 1 .. NumAux : m \in Taken(f[c]) /\ rec'[r].aux[m] = f[c].aux[m]
  BY <1>4, <1>8
<1>15. AuxesApart'
  <2>1. ASSUME NEW d \in Cpus, NEW e \in Cpus, NEW l \in Taken(f'[d]), NEW m \in Taken(f'[e]),
               f'[d].aux[l] = f'[e].aux[m]
        PROVE  d = e /\ l = m
    BY <1>9, <2>1 DEF ContentIInv, Slots, AuxesApart
  <2>2. ASSUME NEW p \in Granules, NEW q \in Granules, Living(p)', Living(q)', p # r,
               NEW l \in 1 .. NumAux, NEW m \in 1 .. NumAux, rec'[p].aux[l] = rec'[q].aux[m]
        PROVE  p = q /\ l = m
    <3>1. Living(p) /\ rec[p].aux[l] = rec'[q].aux[m]
      BY <1>10, <2>2
    <3>2. CASE q = r
      <4>1. m \in Taken(f[c]) /\ rec[p].aux[l] = f[c].aux[m]
        BY <1>14, <3>1, <3>2
      <4> QED BY <3>1, <4>1 DEF ContentIInv, Slots, AuxesApart
    <3>3. CASE q # r
      BY <1>10, <2>2, <3>1, <3>3 DEF ContentIInv, Slots, AuxesApart
    <3> QED BY <3>2, <3>3
  <2>3. ASSUME NEW l \in 1 .. NumAux, NEW m \in 1 .. NumAux, rec'[r].aux[l] = rec'[r].aux[m]
        PROVE  l = m
    <3>1. l \in Taken(f[c]) /\ m \in Taken(f[c]) /\ f[c].aux[l] = f[c].aux[m]
      BY <1>14, <2>3
    <3> QED BY <3>1 DEF ContentIInv, Slots, AuxesApart
  <2>4. ASSUME NEW d \in Cpus, NEW q \in Granules, Living(q)',
               NEW l \in Taken(f'[d]), NEW m \in 1 .. NumAux
        PROVE  f'[d].aux[l] # rec'[q].aux[m]
    <3>1. d # c /\ l \in Taken(f[d]) /\ f'[d].aux[l] = f[d].aux[l]
      BY <1>9
    <3>2. CASE q = r
      <4>1. m \in Taken(f[c]) /\ rec'[q].aux[m] = f[c].aux[m]
        BY <1>14, <3>2
      <4> QED BY <3>1, <4>1 DEF ContentIInv, Slots, AuxesApart
    <3>3. CASE q # r
      BY <1>10, <2>4, <3>1, <3>3 DEF ContentIInv, Slots, AuxesApart
    <3> QED BY <3>2, <3>3
  <2>5. \A p, q \in Granules : Living(p)' /\ Living(q)' =>
          \A l, m \in 1 .. NumAux : rec'[p].aux[l] = rec'[q].aux[m] => p = q /\ l = m
    BY <2>2, <2>3
  <2> QED BY <2>1, <2>4, <2>5 DEF AuxesApart
<1>16. \A d \in Cpus : SlotFrame(f'[d])
  BY <1>5, <1>6 DEF Others, ContentIInv, Slots
<1>17. Blank'
  <2>1. \A h \in Granules : state'[h] # "RD" => rd'[h] = rd[h] /\ state[h] # "RD"
    BY <1>2, <1>3, <1>7
  <2>2. \A h \in Granules : state'[h] # "REC" => rec'[h] = rec[h] /\ state[h] # "REC"
    BY <1>7
  <2>3. \A h \in Granules : state'[h] = "DELEGATED" => state[h] = "DELEGATED"
    BY <1>7
  <2>4. \A d \in Cpus : f[d].pc \in Clearing => f'[d] = f[d]
    BY <1>1, <1>5 DEF Others, Clearing
  <2> QED BY <1>1, <2>1, <2>2, <2>3, <2>4, BlankStep DEF ContentIInv, Blank
<1> QED BY <1>12, <1>13, <1>15, <1>16, <1>17 DEF ContentIInv, Slots

LEMMA RecDestroyContents ==
  ASSUME WorldIInv, ContentIInv, NEW c \in Cpus, NEW r \in Granules, RecDestroy(c, r)
  PROVE  ContentIInv'
<1> DEFINE l  == IF NumAux = 0 THEN "rx_free" ELSE "rx_aux"
           nf == [IdleFrame EXCEPT !.pc = l, !.obj = r, !.rd = rec[r].rd, !.aux = rec[r].aux]
<1>1. /\ f[c].pc = "idle" /\ Become(c, nf) /\ Free(r) /\ state[r] = "REC"
      /\ UNCHANGED <<state, junk, rd, rec>>
  BY DEF RecDestroy, Idle, CanLockUnused, CanLock
<1>2. NumAux \in Nat
  BY LifecycleAssumption
<1>3. nf.pc = l /\ nf.obj = r /\ nf.aux = rec[r].aux /\ nf.j = 0
  BY DEF IdleFrame
<1>4. Others(c) /\ f'[c].pc = l /\ f'[c].obj = r /\ f'[c].aux = rec[r].aux /\ f'[c].j = 0
  <2> HIDE DEF nf
  <2> QED BY <1>1, <1>3, FrameIs DEF WorldIInv
<1>5. SlotFrame(f'[c]) /\ f'[c].pc \in Retiring /\ f'[c].pc \notin Taking
  BY <1>2, <1>4 DEF SlotFrame, Retiring, Taking
<1>6. Taken(f'[c]) \subseteq 1 .. NumAux
  BY <1>4, <1>5 DEF Taken
<1>7. Living(r)
  <2>1. ASSUME NEW e \in Cpus, f[e].pc \in Retiring, f[e].obj = r
        PROVE  FALSE
    BY <1>1, <2>1, DestroyedObj, GranuleAssumption DEF Free
  <2> QED BY <1>1, <2>1 DEF Living
<1>8. \A q \in Granules : Living(q)' => Living(q) /\ q # r /\ rec'[q] = rec[q]
  <2>1. \A d \in Cpus : f[d].pc \in Retiring => f'[d] = f[d]
    BY <1>1, <1>4 DEF Others, Retiring
  <2> QED BY <1>1, <1>4, <1>5, <2>1 DEF Living
<1> HIDE DEF l, nf
<1>9. \A d \in Cpus : \A k \in Taken(f'[d]) :
        \/ d = c /\ k \in 1 .. NumAux /\ f'[d].aux[k] = rec[r].aux[k]
        \/ k \in Taken(f[d]) /\ f'[d] = f[d]
  BY <1>4, <1>6 DEF Others
<1>10. AuxesTaken'
  <2>1. ASSUME NEW d \in Cpus, NEW k \in Taken(f'[d])
        PROVE  /\ f'[d].aux[k] \in Granules /\ state[f'[d].aux[k]] = "REC_AUX"
               /\ f'[d].pc \in Taking => ~junk[f'[d].aux[k]]
    <3>1. CASE d = c /\ k \in 1 .. NumAux /\ f'[d].aux[k] = rec[r].aux[k]
      BY <1>5, <1>7, <3>1 DEF ContentIInv, Slots, AuxesKept
    <3>2. CASE k \in Taken(f[d]) /\ f'[d] = f[d]
      BY <3>2 DEF ContentIInv, Slots, AuxesTaken
    <3> QED BY <1>9, <3>1, <3>2
  <2> QED BY <1>1, <2>1 DEF AuxesTaken
<1>11. AuxesKept'
  BY <1>1, <1>8 DEF ContentIInv, Slots, AuxesKept
<1>12. AuxesApart'
  <2>1. ASSUME NEW d \in Cpus, NEW e \in Cpus, NEW k \in Taken(f'[d]), NEW m \in Taken(f'[e]),
               f'[d].aux[k] = f'[e].aux[m], d # c
        PROVE  d = e /\ k = m
    <3>1. k \in Taken(f[d]) /\ f[d].aux[k] = f'[e].aux[m]
      BY <1>9, <2>1
    <3>2. CASE e = c /\ m \in 1 .. NumAux /\ f'[e].aux[m] = rec[r].aux[m]
      BY <1>7, <3>1, <3>2 DEF ContentIInv, Slots, AuxesApart
    <3>3. CASE m \in Taken(f[e]) /\ f'[e] = f[e]
      BY <3>1, <3>3 DEF ContentIInv, Slots, AuxesApart
    <3> QED BY <1>9, <3>2, <3>3
  <2>2. ASSUME NEW k \in Taken(f'[c]), NEW m \in Taken(f'[c]), f'[c].aux[k] = f'[c].aux[m]
        PROVE  k = m
    <3>1. k \in 1 .. NumAux /\ m \in 1 .. NumAux /\ rec[r].aux[k] = rec[r].aux[m]
      BY <1>4, <1>6, <2>2
    <3> QED BY <1>7, <3>1 DEF ContentIInv, Slots, AuxesApart
  <2>3. ASSUME NEW p \in Granules, NEW q \in Granules, Living(p)', Living(q)',
               NEW k \in 1 .. NumAux, NEW m \in 1 .. NumAux, rec'[p].aux[k] = rec'[q].aux[m]
        PROVE  p = q /\ k = m
    BY <1>8, <2>3 DEF ContentIInv, Slots, AuxesApart
  <2>4. ASSUME NEW d \in Cpus, NEW q \in Granules, Living(q)',
               NEW k \in Taken(f'[d]), NEW m \in 1 .. NumAux
        PROVE  f'[d].aux[k] # rec'[q].aux[m]
    <3>1. Living(q) /\ q # r /\ rec'[q] = rec[q]
      BY <1>8, <2>4
    <3>2. CASE d = c /\ k \in 1 .. NumAux /\ f'[d].aux[k] = rec[r].aux[k]
      BY <1>7, <3>1, <3>2 DEF ContentIInv, Slots, AuxesApart
    <3>3. CASE k \in Taken(f[d]) /\ f'[d] = f[d]
      BY <3>1, <3>3 DEF ContentIInv, Slots, AuxesApart
    <3> QED BY <1>9, <3>2, <3>3
  <2>5. \A d, e \in Cpus : \A k \in Taken(f'[d]), m \in Taken(f'[e]) :
          f'[d].aux[k] = f'[e].aux[m] => d = e /\ k = m
    BY <2>1, <2>2
  <2> QED BY <2>3, <2>4, <2>5 DEF AuxesApart
<1>13. \A d \in Cpus : SlotFrame(f'[d])
  BY <1>4, <1>5 DEF Others, ContentIInv, Slots
<1>14. Blank'
  <2>1. \A d \in Cpus : f[d].pc \in Clearing => f'[d] = f[d]
    BY <1>1, <1>4 DEF Others, Clearing
  <2> QED BY <1>1, <2>1, BlankStep DEF ContentIInv, Blank
<1> QED BY <1>10, <1>11, <1>12, <1>13, <1>14 DEF ContentIInv, Slots


---------------------------------------------------------------------------
(* The theorems about contents                                             *)

LEMMA ContentInit == Init => ContentIInv
<1> SUFFICES ASSUME Init PROVE ContentIInv
  OBVIOUS
<1>1. \A c \in Cpus : f[c].pc = "idle"
  BY DEF Init, IdleFrame
<1>2. \A c \in Cpus : SlotFrame(f[c]) /\ Taken(f[c]) = {}
  BY <1>1 DEF SlotFrame, Taken, Taking
<1>3. \A g \in Granules : state[g] \in {"NS", "DELEGATED"} /\ rd[g] = RdZero /\ rec[g] = RecZero
                          /\ (junk[g] => state[g] = "NS")
  BY DEF Init
<1>4. Slots
  BY <1>2, <1>3 DEF Slots, AuxesTaken, AuxesKept, AuxesApart, Living
<1>5. Blank
  BY <1>3 DEF Blank
<1> QED BY <1>4, <1>5 DEF ContentIInv

LEMMA ContentWorkStep ==
  ASSUME WorldIInv, RecIInv, ContentIInv, NEW c \in Cpus, Work(c)
  PROVE  ContentIInv'
  BY ReturnContents, GotoContents, DelegateMarkContents, LeaveContents, WorkContents,
     RealmCreateInitContents, RealmCreateRootContents, RealmDestroyRootContents,
     ObjFreeContents, ListContents, ListFailsContents, RecCreateBodyContents,
     RecCreateUndoContents, RecDestroyAuxContents, ExitContents, RttCreateEndContents,
     RttDestroyEndContents
  DEF Work

LEMMA ContentStartStep ==
  ASSUME WorldIInv, ContentIInv, NEW c \in Cpus, Start(c) \/ RecCreateStep(c)
  PROVE  ContentIInv'
<1>1. CASE Start(c)
  BY <1>1, StartContents, GranuleDelegateContents, RecDestroyContents DEF Start
<1>2. CASE RecCreateStep(c)
  BY <1>2, ListContents, RecCreateAuxContents, RecCreateLock1Contents DEF RecCreateStep
<1> QED BY <1>1, <1>2

LEMMA ContentStep == CountIInv /\ ContentIInv /\ [Next]_vars => ContentIInv'
<1> SUFFICES ASSUME CountIInv, ContentIInv, [Next]_vars PROVE ContentIInv'
  OBVIOUS
<1>1. WorldIInv /\ RecIInv
  BY DEF CountIInv
<1>2. CASE UNCHANGED vars
  <2>1. 1 \in Granules
    BY GranuleAssumption DEF Granules
  <2> QED BY <1>1, <1>2, <2>1, HostContents
<1>3. ASSUME NEW g \in Granules, HostWrite(g) \/ RealmActivate(g) PROVE ContentIInv'
  BY <1>1, <1>3, HostContents
<1>4. ASSUME NEW c \in Cpus, RealmRuns(c) PROVE ContentIInv'
  BY <1>1, <1>4, ExitContents, EnterRunContents DEF RealmRuns
<1>5. ASSUME NEW c \in Cpus, Start(c) \/ RecCreateStep(c) \/ Work(c) PROVE ContentIInv'
  BY <1>1, <1>5, ContentStartStep, ContentWorkStep
<1> QED BY <1>2, <1>3, <1>4, <1>5 DEF Next

(* Every auxiliary granule of a REC is REC_AUX and of that REC alone,      *)
(* though rec_create takes them one at a time with no lock held between    *)
(* and several REC_CREATEs and REC_DESTROYs run at once.                   *)
THEOREM AuxesCorrect == Spec => []AuxOwned
<1>1. CountIInv /\ ContentIInv => AuxOwned
  <2> SUFFICES ASSUME CountIInv, ContentIInv PROVE AuxOwned
    OBVIOUS
  <2>1. \A r \in Granules : state[r] = "REC" /\ Free(r) => Living(r)
    BY DestroyedObj, GranuleAssumption DEF CountIInv, Living, Free
  <2> QED BY <2>1 DEF AuxOwned, ContentIInv, Slots, AuxesKept, AuxesApart
<1> QED BY <1>1, CountInit, CountStep, ContentInit, ContentStep, PTL DEF Spec

(* "Any unlocked granule with state == DELEGATED contains only zeroes"     *)
(* (granule_types.h): what every command that takes a granule relies on,   *)
(* and what every path that gives one back, failed ones too, restores.     *)
THEOREM ZeroesCorrect == Spec => []DelegatedZero
<1>1. CountIInv /\ ContentIInv => DelegatedZero
  <2> SUFFICES ASSUME CountIInv, ContentIInv,
                      NEW g \in Granules, Free(g), state[g] = "DELEGATED"
               PROVE  Zeroed(g)
    BY DEF DelegatedZero
  <2>1. ~junk[g]
    BY FreeClean DEF CountIInv
  <2>2. kids[g] = {}
    BY NoKids DEF CountIInv
  <2> QED BY <2>1, <2>2 DEF Zeroed, ContentIInv, Blank
<1> QED BY <1>1, CountInit, CountStep, ContentInit, ContentStep, PTL DEF Spec


---------------------------------------------------------------------------
(* VMIDs.  REALM_CREATE reserves the VMID before it locks a granule;       *)
(* REALM_DESTROY frees it before it looks whether the realm's tables are   *)
(* in use, so that a realm it then leaves alone has lost its VMID.         *)

Creating == {"rc_lock", "rc_vmid", "rc_init"}

(* A realm that no REALM_DESTROY has begun to destroy *)
OpenRealm(g) == state[g] = "RD" /\ \A c \in Cpus : f[c].pc \in Closing => f[c].obj # g

VmidsReserved ==
  /\ \A g \in Granules : OpenRealm(g) => rd[g].vmid \in vmids
  /\ \A c \in Cpus : f[c].pc \in Creating => f[c].vmid \in vmids

VmidsApart ==
  /\ \A g, h \in Granules : OpenRealm(g) /\ OpenRealm(h) /\ rd[g].vmid = rd[h].vmid => g = h
  /\ \A c, d \in Cpus :
       f[c].pc \in Creating /\ f[d].pc \in Creating /\ f[c].vmid = f[d].vmid => c = d
  /\ \A c \in Cpus, g \in Granules :
       f[c].pc \in Creating /\ OpenRealm(g) => f[c].vmid # rd[g].vmid

VmidIInv == VmidsReserved /\ VmidsApart

(* No realm and no command gains a VMID. *)
VmidsKept ==
  /\ \A g \in Granules : OpenRealm(g)' => OpenRealm(g) /\ rd'[g].vmid = rd[g].vmid
  /\ \A d \in Cpus : f'[d].pc \in Creating => f[d].pc \in Creating /\ f'[d].vmid = f[d].vmid

LEMMA VmidSame ==
  ASSUME VmidIInv, VmidsKept, UNCHANGED vmids
  PROVE  VmidIInv'
<1>1. VmidsReserved'
  BY DEF VmidIInv, VmidsReserved, VmidsKept
<1>2. VmidsApart'
  BY DEF VmidIInv, VmidsApart, VmidsKept
<1> QED BY <1>1, <1>2 DEF VmidIInv

(* The realms that are there keep their VMIDs. *)
RdsKept == \A g \in Granules : state'[g] = "RD" => state[g] = "RD" /\ rd'[g].vmid = rd[g].vmid

LEMMA VmidsKeptBy ==
  ASSUME NEW c \in Cpus, Others(c), RdsKept,
         f[c].pc \in Closing => \/ f'[c].pc \in Closing /\ f'[c].obj = f[c].obj
                                \/ state'[f[c].obj] # "RD",
         f'[c].pc \in Creating => f[c].pc \in Creating /\ f'[c].vmid = f[c].vmid
  PROVE  VmidsKept
<1>1. ASSUME NEW g \in Granules, OpenRealm(g)'
      PROVE  OpenRealm(g) /\ rd'[g].vmid = rd[g].vmid
  <2>1. state'[g] = "RD" /\ \A d \in Cpus : f'[d].pc \in Closing => f'[d].obj # g
    BY <1>1 DEF OpenRealm
  <2>2. state[g] = "RD" /\ rd'[g].vmid = rd[g].vmid
    BY <2>1 DEF RdsKept
  <2>3. ASSUME NEW d \in Cpus, f[d].pc \in Closing
        PROVE  f[d].obj # g
    BY <2>1, <2>3 DEF Others
  <2> QED BY <2>2, <2>3 DEF OpenRealm
<1> QED BY <1>1 DEF VmidsKept, Others

LEMMA RdsUnchanged ==
  ASSUME WorldIInv,
         \/ UNCHANGED state
         \/ \E h, s : s # "RD" /\ state' = [state EXCEPT ![h] = s],
         UNCHANGED rd
  PROVE  RdsKept
<1>1. CASE UNCHANGED state
  BY <1>1 DEF RdsKept
<1>2. ASSUME NEW h, NEW s, s # "RD", state' = [state EXCEPT ![h] = s]
      PROVE  \A g \in Granules : state'[g] = "RD" => state[g] = "RD"
  BY <1>2, TypesAre
<1> QED BY <1>1, <1>2 DEF RdsKept

LEMMA RdsZeroed ==
  ASSUME WorldIInv, NEW h \in Granules, ZeroOut({h}), state' = [state EXCEPT ![h] = "DELEGATED"]
  PROVE  RdsKept
<1>1. \A g \in Granules : state'[g] = "RD" => g # h /\ state[g] = "RD"
  BY TypesAre
<1> QED BY <1>1, ZeroOutIs DEF RdsKept

LEMMA RdsWritten ==
  ASSUME WorldIInv, NEW h,
         \/ \E s : rd' = [rd EXCEPT ![h].state = s]
         \/ \E n : rd' = [rd EXCEPT ![h].recs = n],
         \/ UNCHANGED state
         \/ \E r : state' = [state EXCEPT ![r] = "REC"]
  PROVE  RdsKept
<1>1. \A g \in Granules : rd'[g].vmid = rd[g].vmid
  BY TypesAre DEF RdType
<1>2. \A g \in Granules : state'[g] = "RD" => state[g] = "RD"
  BY TypesAre
<1> QED BY <1>1, <1>2 DEF RdsKept

(* Commands that are not about realms *)
LEMMA CalmVmids ==
  ASSUME VmidIInv, NEW c \in Cpus, Others(c), RdsKept, f[c].pc \notin Closing,
         f'[c].pc \notin Creating, UNCHANGED vmids
  PROVE  VmidIInv'
<1>1. VmidsKept
  BY VmidsKeptBy
<1> QED BY <1>1, VmidSame


LEMMA ReturnVmids ==
  ASSUME WorldIInv, VmidIInv, NEW c \in Cpus,
         \/ DelegateZero(c) \/ UndelegateState(c) \/ RttCreateLock2Fails(c) \/ RttInvalid(c)
         \/ RttFail(c) \/ RttCreateEnd(c) \/ RttDestroyEnd(c) \/ RttDestroyInUse(c)
         \/ RecDestroyPut(c) \/ EnterPut(c) \/ \E b \in BOOLEAN : RecCreateBody(c, b)
  PROVE  VmidIInv'
<1>1. Return(c) /\ f[c].pc \notin Closing /\ UNCHANGED vmids
  BY DEF DelegateZero, UndelegateState, RttCreateLock2Fails, RttInvalid, RttFail, RttCreateEnd,
         RttDestroyEnd, RttDestroyInUse, RecDestroyPut, EnterPut, RecCreateBody, At, Closing
<1>2. Others(c) /\ f'[c].pc \notin Creating
  BY <1>1, ReturnsIdle DEF WorldIInv, Creating
<1>3. RdsKept
  <2>1. CASE DelegateZero(c)
    <3>1. PICK h : h = f[c].obj
      OBVIOUS
    <3>2. f[c].pc = "dl_zero" /\ ZeroOut({h}) /\ UNCHANGED state
      BY <2>1, <3>1 DEF DelegateZero, At
    <3>3. h \in Granules /\ state[h] = "DELEGATED"
      BY <3>1, <3>2, HeldObj
    <3>4. state' = [state EXCEPT ![h] = "DELEGATED"]
      BY <3>2, <3>3, TypesAre
    <3> QED BY <3>2, <3>3, <3>4, RdsZeroed
  <2>2. ASSUME NEW b \in BOOLEAN, RecCreateBody(c, b)
        PROVE  RdsKept
    <3>1. PICK r, g : r = f[c].obj /\ g = f[c].rd
      OBVIOUS
    <3>2. /\ rd' = [rd EXCEPT ![g].recs = rd[g].recs + 1]
          /\ state' = [state EXCEPT ![r] = "REC"]
      BY <2>2, <3>1 DEF RecCreateBody, CountRec
    <3> QED BY <3>2, RdsWritten
  <2>3. ASSUME UndelegateState(c) \/ RttCreateEnd(c) \/ RttDestroyEnd(c)
        PROVE  RdsKept
    <3>1. UNCHANGED rd /\ \E h, s : s # "RD" /\ state' = [state EXCEPT ![h] = s]
      BY <2>3 DEF UndelegateState, RttCreateEnd, RttDestroyEnd
    <3> QED BY <3>1, RdsUnchanged
  <2>4. ASSUME \/ RttCreateLock2Fails(c) \/ RttInvalid(c) \/ RttFail(c)
               \/ RttDestroyInUse(c) \/ RecDestroyPut(c) \/ EnterPut(c)
        PROVE  RdsKept
    <3>1. UNCHANGED <<state, rd>>
      BY <2>4 DEF RttCreateLock2Fails, RttInvalid, RttFail, RttDestroyInUse, RecDestroyPut, EnterPut
    <3> QED BY <3>1, RdsUnchanged
  <2> QED BY <2>1, <2>2, <2>3, <2>4
<1> QED BY <1>1, <1>2, <1>3, CalmVmids

LEMMA GotoVmids ==
  ASSUME WorldIInv, VmidIInv, NEW c \in Cpus,
         \/ DelegateMark(c) \/ RecCreateLock2(c) \/ RttCreateLock2(c) \/ RecDestroyFree(c)
         \/ EnterRead(c) \/ EnterCheck(c) \/ EnterWrite(c) \/ SystemOff(c)
         \/ \E off \in BOOLEAN : EnterRun(c, off)
         \/ \E a \in Granules : RecCreateAuxFails(c, a)
         \/ \E r, g \in Granules : RecCreateLock1Fails(c, r, g)
  PROVE  VmidIInv'
<1>1. /\ \E l \in {"dl_zero", "rn_body", "rn_undo", "wk_root", "rx_put"} \cup Entered : Goto(c, l)
      /\ f[c].pc \notin Closing /\ UNCHANGED vmids
  BY DEF DelegateMark, RecCreateLock2, RttCreateLock2, RecDestroyFree, EnterRead, EnterCheck,
         EnterWrite, SystemOff, EnterRun, RecCreateAuxFails, RecCreateLock1Fails, At, Closing,
         Entered
<1>2. Others(c) /\ f'[c].pc \notin Creating
  BY <1>1, Gotos DEF WorldIInv, Creating, Entered
<1>3. RdsKept
  <2>1. CASE RecDestroyFree(c)
    <3>1. PICK h : h = f[c].obj
      OBVIOUS
    <3>2. f[c].pc = "rx_free" /\ ZeroOut({h}) /\ state' = [state EXCEPT ![h] = "DELEGATED"]
      BY <2>1, <3>1 DEF RecDestroyFree, At
    <3>3. h \in Granules
      BY <3>1, <3>2, HeldObj
    <3> QED BY <3>2, <3>3, RdsZeroed
  <2>2. CASE SystemOff(c)
    <3>1. PICK g : g = rec[f[c].obj].rd
      OBVIOUS
    <3>2. rd' = [rd EXCEPT ![g].state = "SYSTEM_OFF"] /\ UNCHANGED state
      BY <2>2, <3>1 DEF SystemOff, granuleVars
    <3> QED BY <3>2, RdsWritten
  <2>3. CASE ~RecDestroyFree(c) /\ ~SystemOff(c)
    <3>1. UNCHANGED <<state, rd>>
      BY <2>3 DEF DelegateMark, RecCreateLock2, RttCreateLock2, EnterRead, EnterCheck,
         EnterWrite, EnterRun, RecCreateAuxFails, RecCreateLock1Fails, granuleVars
    <3> QED BY <3>1, RdsUnchanged
  <2> QED BY <2>1, <2>2, <2>3
<1> QED BY <1>1, <1>2, <1>3, CalmVmids

LEMMA FailVmids ==
  ASSUME WorldIInv, VmidIInv, NEW c \in Cpus, RecCreateLock2Fails(c) \/ RecCreateRefused(c)
  PROVE  VmidIInv'
<1>1. RecCreateFails(c) /\ f[c].pc \notin Closing /\ UNCHANGED <<state, rd, vmids>>
  BY DEF RecCreateLock2Fails, RecCreateRefused, At, Closing
<1>2. Others(c) /\ f'[c].pc \notin Creating
  BY <1>1, FailsIs DEF WorldIInv, Creating
<1> QED BY <1>1, <1>2, RdsUnchanged, CalmVmids

LEMMA StartVmids ==
  ASSUME WorldIInv, VmidIInv, NEW c \in Cpus, NEW g \in Granules, NEW t \in Granules,
         \/ GranuleDelegate(c, g) \/ GranuleUndelegate(c, g) \/ RecDestroy(c, g)
         \/ RecEnter(c, g, t) \/ RttCreate(c, t, g) \/ RttDestroy(c, t, g)
  PROVE  VmidIInv'
<1> DEFINE l  == IF NumAux = 0 THEN "rx_free" ELSE "rx_aux"
           dl == [IdleFrame EXCEPT !.pc = "dl_mark", !.obj = g]
           ud == [IdleFrame EXCEPT !.pc = "ud_state", !.obj = g]
           rx == [IdleFrame EXCEPT !.pc = l, !.obj = g, !.rd = rec[g].rd, !.aux = rec[g].aux]
           en == [IdleFrame EXCEPT !.pc = "en_read", !.obj = g, !.buf = t]
           tc == [IdleFrame EXCEPT !.pc = "tc_lock2", !.op = "create", !.obj = t, !.rd = g]
           td == [IdleFrame EXCEPT !.pc = "wk_root", !.op = "destroy", !.obj = t, !.rd = g]
<1>1. /\ f[c].pc = "idle" /\ UNCHANGED <<rd, vmids>>
      /\ \/ UNCHANGED state
         \/ \E h, s : s # "RD" /\ state' = [state EXCEPT ![h] = s]
      /\ \/ Become(c, dl) \/ Become(c, ud) \/ Become(c, rx) \/ Become(c, en) \/ Become(c, tc)
         \/ Become(c, td)
  BY DEF GranuleDelegate, GranuleUndelegate, RecDestroy, RecEnter, RttCreate, RttDestroy, Idle
<1>2. /\ dl.pc = "dl_mark" /\ ud.pc = "ud_state" /\ rx.pc \in {"rx_free", "rx_aux"}
      /\ tc.pc = "tc_lock2" /\ td.pc = "wk_root" /\ en.pc = "en_read"
  BY DEF IdleFrame
<1> HIDE DEF dl, ud, rx, en, tc, td
<1>3. Others(c) /\ f'[c].pc \notin Creating
  BY <1>1, <1>2, FrameIs DEF WorldIInv, Creating
<1> QED BY <1>1, <1>3, RdsUnchanged, CalmVmids DEF Closing


LEMMA StepVmids ==
  ASSUME WorldIInv, VmidIInv, NEW c \in Cpus,
         \/ \E a \in Granules : RecCreateAux(c, a)
         \/ \E r, g \in Granules : RecCreateLock1(c, r, g)
         \/ RecCreateUndo(c) \/ RealmCreateRoot(c) \/ RttLockRoot(c) \/ RttWalk(c)
  PROVE  VmidIInv'
<1> DEFINE fr == f[c]
           k  == fr.i + 1
           j  == fr.j + 1
           uj == [fr EXCEPT !.j = j]
           ui == [fr EXCEPT !.i = k]
           un == IF j = fr.i THEN IdleFrame ELSE uj
           ro == IF k = fr.num THEN IdleFrame ELSE ui
           na(a) == [fr.aux EXCEPT ![k] = a]
           ax(a) == [fr EXCEPT !.pc = "rn_aux", !.i = k, !.aux = na(a)]
           lk(r, g) == [fr EXCEPT !.pc = "rn_lock2", !.obj = r, !.rd = g]
<1>1. fr \in Frame
  BY TypesAre
<1>2. /\ uj.pc = fr.pc /\ ui.pc = fr.pc /\ IdleFrame.pc = "idle"
      /\ \A a : ax(a).pc = "rn_aux"
      /\ \A r, g : lk(r, g).pc = "rn_lock2"
  <2> HIDE DEF k, j, na
  <2> QED BY <1>1 DEF Frame, IdleFrame
<1>3. fr.pc \notin Closing \cup Creating /\ UNCHANGED <<rd, vmids>>
  BY DEF RecCreateAux, RecCreateLock1, RecCreateUndo, RealmCreateRoot, RttLockRoot, RttWalk,
         At, Idle, Closing, Creating
<1>4. UNCHANGED state \/ \E h, s : s # "RD" /\ state' = [state EXCEPT ![h] = s]
  BY DEF RecCreateAux, AuxTaken, RecCreateLock1, RecCreateUndo, RealmCreateRoot, RttLockRoot,
         RttWalk
<1>5. \/ \E a : Become(c, ax(a))
      \/ \E r, g : Become(c, lk(r, g))
      \/ Become(c, un) \/ Become(c, ro) \/ RttLockRoot(c) \/ RttWalk(c)
  BY DEF RecCreateAux, RecCreateLock1, RecCreateUndo, RealmCreateRoot
<1>6. un.pc \notin Creating /\ ro.pc \notin Creating
  BY <1>2, <1>3 DEF Creating
<1> HIDE DEF ax, lk, un, ro
<1>7. Others(c) /\ f'[c].pc \notin Creating
  <2>1. CASE RttLockRoot(c) \/ RttWalk(c)
    BY <2>1, RootArrives, WalkArrives DEF WorldIInv, Walking, Creating
  <2>2. ASSUME NEW nf, Become(c, nf), nf.pc \notin Creating
        PROVE  Others(c) /\ f'[c].pc \notin Creating
    BY <2>2, FrameIs DEF WorldIInv
  <2>3. /\ \A a : ax(a).pc \notin Creating
        /\ \A r, g : lk(r, g).pc \notin Creating
    BY <1>2 DEF Creating
  <2> QED BY <1>5, <1>6, <2>1, <2>2, <2>3
<1> QED BY <1>3, <1>4, <1>7, RdsUnchanged, CalmVmids

LEMMA RecDestroyAuxVmids ==
  ASSUME WorldIInv, VmidIInv, NEW c \in Cpus, RecDestroyAux(c)
  PROVE  VmidIInv'
<1> DEFINE m  == f[c].j + 1
           l  == IF m = NumAux THEN "rx_free" ELSE "rx_aux"
           nf == [f[c] EXCEPT !.j = m, !.pc = l]
<1>1. PICK a : /\ f[c].pc = "rx_aux" /\ Become(c, nf) /\ a \in Granules /\ ZeroOut({a})
               /\ state' = [state EXCEPT ![a] = "DELEGATED"] /\ UNCHANGED vmids
  BY DEF RecDestroyAux, At, CanLock
<1>2. nf.pc \in {"rx_free", "rx_aux"}
  <2> HIDE DEF m
  <2> QED BY TypesAre DEF Frame
<1> HIDE DEF nf
<1>3. Others(c) /\ f'[c].pc \notin Creating
  BY <1>1, <1>2, FrameIs DEF WorldIInv, Creating
<1>4. RdsKept
  BY <1>1, RdsZeroed
<1> QED BY <1>1, <1>3, <1>4, CalmVmids DEF Closing

LEMMA HostVmids ==
  ASSUME WorldIInv, VmidIInv, NEW g \in Granules,
         HostWrite(g) \/ RealmActivate(g) \/ UNCHANGED vars
  PROVE  VmidIInv'
<1>1. UNCHANGED <<state, vmids, f>>
  BY DEF HostWrite, RealmActivate, vars, granuleVars
<1>2. RdsKept
  <2>1. CASE RealmActivate(g)
    <3>1. rd' = [rd EXCEPT ![g].state = "ACTIVE"]
      BY <2>1 DEF RealmActivate
    <3> QED BY <1>1, <3>1, RdsWritten
  <2>2. CASE HostWrite(g) \/ UNCHANGED vars
    <3>1. UNCHANGED rd
      BY <2>2 DEF HostWrite, vars
    <3> QED BY <1>1, <3>1, RdsUnchanged
  <2> QED BY <2>1, <2>2
<1>3. VmidsKept
  BY <1>1, <1>2 DEF VmidsKept, RdsKept, OpenRealm
<1> QED BY <1>1, <1>3, VmidSame

---------------------------------------------------------------------------
(* The commands about realms                                               *)

LEMMA LockVmids ==
  ASSUME WorldIInv, VmidIInv, NEW c \in Cpus, RealmCreateLock(c) \/ RealmCreateLockFails(c)
  PROVE  VmidIInv'
<1> DEFINE fr == f[c]
           k  == fr.i + 1
           l  == IF fr.i = fr.num THEN "rc_init" ELSE "rc_lock"
           up == [fr EXCEPT !.i = k, !.pc = l]
           no == [IdleFrame EXCEPT !.pc = "rc_vmid", !.vmid = fr.vmid]
<1>1. /\ fr.pc = "rc_lock" /\ (Become(c, up) \/ Become(c, no)) /\ UNCHANGED <<state, rd, vmids>>
  BY DEF RealmCreateLock, RealmCreateLockFails, At
<1>2. up.vmid = fr.vmid /\ no.vmid = fr.vmid
  <2> HIDE DEF k, l
  <2> QED BY TypesAre DEF Frame, IdleFrame
<1> HIDE DEF up, no
<1>3. Others(c) /\ f'[c].vmid = fr.vmid
  BY <1>1, <1>2, FrameIs DEF WorldIInv
<1>4. RdsKept
  BY <1>1, RdsUnchanged
<1>5. VmidsKept
  BY <1>1, <1>3, <1>4, VmidsKeptBy DEF Closing, Creating
<1> QED BY <1>1, <1>5, VmidSame

LEMMA CloseVmids ==
  ASSUME WorldIInv, VmidIInv, NEW c \in Cpus, RealmDestroyCount(c) \/ RealmDestroyRoot(c)
  PROVE  VmidIInv'
<1> DEFINE fr == f[c]
           k  == fr.i + 1
           i  == IF LastRoot(fr) THEN 0 ELSE fr.i + 1
           l  == IF LastRoot(fr) THEN "rd_roots" ELSE "rd_count"
           m  == IF LastRoot(fr) THEN "rd_free" ELSE "rd_roots"
           u  == Counted(fr)
           ct == [fr EXCEPT !.used = u, !.i = i, !.pc = l]
           rt == [fr EXCEPT !.i = k, !.pc = m]
<1>1. /\ fr.pc \in Closing /\ (Become(c, ct) \/ Become(c, rt)) /\ UNCHANGED vmids
  BY DEF RealmDestroyCount, RealmDestroyRoot, At, Closing
<1>2. /\ ct.pc \in Closing /\ ct.obj = fr.obj
      /\ rt.pc \in Closing /\ rt.obj = fr.obj
  <2>1. l \in Closing /\ m \in Closing
    BY DEF Closing
  <2> HIDE DEF k, i, l, m, u
  <2> QED BY <2>1, TypesAre DEF Frame
<1> HIDE DEF ct, rt
<1>3. Others(c) /\ f'[c].pc \in Closing /\ f'[c].obj = fr.obj
  BY <1>1, <1>2, FrameIs DEF WorldIInv
<1>4. RdsKept
  <2>1. CASE RealmDestroyCount(c)
    <3>1. UNCHANGED <<state, rd>>
      BY <2>1 DEF RealmDestroyCount, granuleVars
    <3> QED BY <3>1, RdsUnchanged
  <2>2. CASE RealmDestroyRoot(c)
    <3>1. \E a : /\ a \in Granules /\ ZeroOut({a})
                 /\ state' = [state EXCEPT ![a] = "DELEGATED"]
      BY <2>2 DEF RealmDestroyRoot, CanLock
    <3> QED BY <3>1, RdsZeroed
  <2> QED BY <2>1, <2>2
<1>5. VmidsKept
  BY <1>3, <1>4, VmidsKeptBy DEF Closing, Creating
<1> QED BY <1>1, <1>5, VmidSame

LEMMA RealmDestroyFreeVmids ==
  ASSUME WorldIInv, VmidIInv, NEW c \in Cpus, RealmDestroyFree(c)
  PROVE  VmidIInv'
<1>1. PICK h : /\ h = f[c].obj /\ f[c].pc = "rd_free" /\ Return(c) /\ ZeroOut({h})
               /\ state' = [state EXCEPT ![h] = "DELEGATED"] /\ UNCHANGED vmids
  BY DEF RealmDestroyFree, At
<1>2. h \in Granules
  BY <1>1, HeldObj
<1>3. RdsKept
  BY <1>1, <1>2, RdsZeroed
<1>4. Others(c) /\ f'[c].pc \notin Creating
  BY <1>1, ReturnsIdle DEF WorldIInv, Creating
<1>5. state'[h] # "RD"
  BY <1>1, <1>2, TypesAre
<1>6. VmidsKept
  BY <1>1, <1>3, <1>4, <1>5, VmidsKeptBy
<1> QED BY <1>1, <1>6, VmidSame


(* REALM_CREATE takes a VMID that nobody has. *)
LEMMA RealmCreateVmids ==
  ASSUME WorldIInv, VmidIInv, NEW c \in Cpus, NEW g, NEW base, NEW n, NEW v,
         RealmCreate(c, g, base, n, v)
  PROVE  VmidIInv'
<1> DEFINE l  == IF g \in Roots(base, n) THEN "rc_vmid" ELSE "rc_lock"
           nf == [IdleFrame EXCEPT !.pc = l, !.obj = g, !.root = base, !.num = n, !.vmid = v]
<1>1. /\ f[c].pc = "idle" /\ Become(c, nf) /\ v \notin vmids /\ vmids' = vmids \cup {v}
      /\ UNCHANGED <<state, rd>>
  BY DEF RealmCreate, VmidFree, Idle, granuleVars
<1>2. nf.pc \in Creating \ Closing /\ nf.vmid = v
  <2>1. l \in Creating \ Closing
    BY DEF Creating, Closing
  <2> HIDE DEF l
  <2> QED BY <2>1 DEF IdleFrame
<1> HIDE DEF nf
<1>3. Others(c) /\ f'[c].pc \in Creating \ Closing /\ f'[c].vmid = v
  BY <1>1, <1>2, FrameIs DEF WorldIInv
<1>4. \A h : OpenRealm(h)' => OpenRealm(h)
  BY <1>1, <1>3 DEF OpenRealm, Others, Closing
<1>5. VmidsReserved'
  BY <1>1, <1>3, <1>4 DEF VmidIInv, VmidsReserved, Others
<1>6. VmidsApart'
  <2>1. \A d \in Cpus : d # c /\ f'[d].pc \in Creating => f[d].pc \in Creating /\ f'[d].vmid # v
                                                         /\ f'[d].vmid = f[d].vmid
    BY <1>1, <1>3 DEF VmidIInv, VmidsReserved, Others
  <2>2. \A h \in Granules : OpenRealm(h)' => rd'[h].vmid # v /\ rd'[h].vmid = rd[h].vmid
    BY <1>1, <1>4 DEF VmidIInv, VmidsReserved
  <2> QED BY <1>3, <1>4, <2>1, <2>2 DEF VmidIInv, VmidsApart
<1> QED BY <1>5, <1>6 DEF VmidIInv

(* A REALM_CREATE that fails gives its own VMID back. *)
LEMMA RealmCreateFreeVmids ==
  ASSUME WorldIInv, VmidIInv, NEW c \in Cpus, RealmCreateFreeVmid(c)
  PROVE  VmidIInv'
<1>1. /\ f[c].pc = "rc_vmid" /\ Return(c) /\ vmids' = vmids \ {f[c].vmid}
      /\ UNCHANGED <<state, rd>>
  BY DEF RealmCreateFreeVmid, At, granuleVars
<1>2. Others(c) /\ f'[c].pc = "idle" /\ f[c].pc \in Creating \ Closing
  BY <1>1, ReturnsIdle DEF WorldIInv, Creating, Closing
<1>3. VmidsKept
  <2>1. RdsKept
    BY <1>1, RdsUnchanged
  <2> QED BY <1>2, <2>1, VmidsKeptBy DEF Creating
<1>4. VmidsReserved'
  <2>1. ASSUME NEW g \in Granules, OpenRealm(g)'
        PROVE  rd'[g].vmid \in vmids'
    BY <1>1, <1>2, <1>3, <2>1 DEF VmidIInv, VmidsReserved, VmidsApart, VmidsKept
  <2>2. ASSUME NEW d \in Cpus, f'[d].pc \in Creating
        PROVE  f'[d].vmid \in vmids'
    <3>1. d # c
      BY <1>2, <2>2 DEF Creating
    <3> QED BY <1>1, <1>2, <1>3, <2>2, <3>1 DEF VmidIInv, VmidsReserved, VmidsApart, VmidsKept
  <2> QED BY <2>1, <2>2 DEF VmidsReserved
<1>5. VmidsApart'
  BY <1>3 DEF VmidIInv, VmidsApart, VmidsKept
<1> QED BY <1>4, <1>5 DEF VmidIInv

(* The VMID passes from the command to the realm. *)
LEMMA RealmCreateInitVmids ==
  ASSUME WorldIInv, VmidIInv, NEW c \in Cpus, RealmCreateInit(c)
  PROVE  VmidIInv'
<1> DEFINE nf == [f[c] EXCEPT !.pc = "rc_roots", !.i = 0]
<1>0. PICK r, v, b, n : r = f[c].obj /\ v = f[c].vmid /\ b = f[c].root /\ n = f[c].num
  OBVIOUS
<1>1. /\ f[c].pc = "rc_init" /\ Become(c, nf) /\ UNCHANGED vmids
      /\ rd' = [rd EXCEPT ![r] = [state |-> "NEW", vmid |-> v, root |-> b, num |-> n, recs |-> 0]]
      /\ state' = [state EXCEPT ![r] = "RD"]
  BY <1>0 DEF RealmCreateInit, At
<1>2. nf.pc = "rc_roots"
  BY TypesAre DEF Frame
<1> HIDE DEF nf
<1>3. Others(c) /\ f'[c].pc = "rc_roots" /\ f[c].pc \in Creating \ Closing
  BY <1>1, <1>2, FrameIs DEF WorldIInv, Creating, Closing
<1>4. r \in Granules /\ rd'[r].vmid = v
  <2>1. r \in Granules
    BY <1>0, <1>1, FreshHeld
  <2> QED BY <1>1, <2>1, TypesAre
<1>5. \A g \in Granules : OpenRealm(g)' => g = r \/ (OpenRealm(g) /\ rd'[g].vmid = rd[g].vmid)
  <2>1. \A g \in Granules : g # r => state'[g] = state[g] /\ rd'[g] = rd[g]
    BY <1>1, TypesAre
  <2> QED BY <1>3, <2>1 DEF OpenRealm, Others, Closing
<1>6. \A d \in Cpus : f'[d].pc \in Creating =>
                        d # c /\ f[d].pc \in Creating /\ f'[d].vmid = f[d].vmid
  BY <1>3 DEF Others, Creating
<1>7. \A g \in Granules : g # r /\ OpenRealm(g)' => rd'[g].vmid # v
  BY <1>0, <1>3, <1>5 DEF VmidIInv, VmidsApart
<1>8. \A d \in Cpus : f'[d].pc \in Creating => f'[d].vmid # v
  BY <1>0, <1>3, <1>6 DEF VmidIInv, VmidsApart
<1>9. VmidsReserved'
  BY <1>0, <1>1, <1>3, <1>4, <1>5, <1>6 DEF VmidIInv, VmidsReserved
<1>10. VmidsApart'
  BY <1>4, <1>5, <1>6, <1>7, <1>8 DEF VmidIInv, VmidsApart
<1> QED BY <1>9, <1>10 DEF VmidIInv

(* REALM_DESTROY frees the VMID of the realm that it closes. *)
LEMMA RealmDestroyVmids ==
  ASSUME WorldIInv, VmidIInv, NEW c \in Cpus, NEW g \in Granules, RealmDestroy(c, g)
  PROVE  VmidIInv'
<1> DEFINE b  == rd[g].root
           n  == rd[g].num
           nf == [IdleFrame EXCEPT !.pc = "rd_count", !.obj = g, !.root = b, !.num = n]
<1>1. /\ f[c].pc = "idle" /\ Become(c, nf) /\ lock[g] = NoCpu /\ state[g] = "RD"
      /\ vmids' = vmids \ {rd[g].vmid} /\ UNCHANGED <<state, rd>>
  BY DEF RealmDestroy, Idle, CanLockUnused, CanLock, Free
<1>2. nf.pc = "rd_count" /\ nf.obj = g
  <2> HIDE DEF b, n
  <2> QED BY DEF IdleFrame
<1> HIDE DEF nf
<1>3. Others(c) /\ f'[c].pc = "rd_count" /\ f'[c].obj = g
  BY <1>1, <1>2, FrameIs DEF WorldIInv
<1>4. OpenRealm(g)
  BY <1>1, DestroyedObj, GranuleAssumption DEF OpenRealm
<1>5. ~OpenRealm(g)'
  BY <1>3 DEF OpenRealm, Closing
<1>6. VmidsKept
  <2>1. RdsKept
    BY <1>1, RdsUnchanged
  <2> QED BY <1>1, <1>3, <2>1, VmidsKeptBy DEF Closing, Creating
<1>7. VmidsReserved'
  BY <1>1, <1>4, <1>5, <1>6 DEF VmidIInv, VmidsReserved, VmidsApart, VmidsKept
<1>8. VmidsApart'
  BY <1>6 DEF VmidIInv, VmidsApart, VmidsKept
<1> QED BY <1>7, <1>8 DEF VmidIInv

LEMMA VmidInit == Init => VmidIInv
<1> SUFFICES ASSUME Init PROVE VmidIInv
  OBVIOUS
<1>1. \A c \in Cpus : f[c].pc \notin Creating
  BY DEF Init, IdleFrame, Creating
<1>2. \A g \in Granules : state[g] # "RD"
  BY DEF Init
<1> QED BY <1>1, <1>2 DEF VmidIInv, VmidsReserved, VmidsApart, OpenRealm

LEMMA VmidWorkStep ==
  ASSUME WorldIInv, VmidIInv, NEW c \in Cpus, Work(c), ~RealmDestroyInUse(c)
  PROVE  VmidIInv'
  BY ReturnVmids, GotoVmids, FailVmids, StepVmids, RecDestroyAuxVmids, LockVmids, CloseVmids,
     RealmDestroyFreeVmids, RealmCreateFreeVmids, RealmCreateInitVmids
  DEF Work

LEMMA VmidStartStep ==
  ASSUME WorldIInv, VmidIInv, NEW c \in Cpus, Start(c) \/ RecCreateStep(c)
  PROVE  VmidIInv'
<1>1. CASE Start(c)
  <2>1. ASSUME NEW g \in Granules, NEW t \in Granules,
               \/ GranuleDelegate(c, g) \/ GranuleUndelegate(c, g) \/ RecDestroy(c, g)
               \/ RecEnter(c, g, t) \/ RttCreate(c, t, g) \/ RttDestroy(c, t, g)
        PROVE  VmidIInv'
    BY <2>1, StartVmids
  <2> QED BY <1>1, <2>1, RealmCreateVmids, RealmDestroyVmids DEF Start
<1>2. CASE RecCreateStep(c)
  BY <1>2, GotoVmids, StepVmids DEF RecCreateStep
<1> QED BY <1>1, <1>2

LEMMA VmidStep ==
  CountIInv /\ VmidIInv /\ [Next]_vars
  /\ [\A c \in Cpus : ~RealmDestroyInUse(c)]_vars => VmidIInv'
<1> SUFFICES ASSUME CountIInv, VmidIInv, [Next]_vars,
                    [\A c \in Cpus : ~RealmDestroyInUse(c)]_vars
             PROVE  VmidIInv'
  OBVIOUS
<1>1. WorldIInv
  BY DEF CountIInv
<1>2. CASE UNCHANGED vars
  <2>1. 1 \in Granules
    BY GranuleAssumption DEF Granules
  <2> QED BY <1>1, <1>2, <2>1, HostVmids
<1>3. ASSUME NEW g \in Granules, HostWrite(g) \/ RealmActivate(g) PROVE VmidIInv'
  BY <1>1, <1>3, HostVmids
<1>4. ASSUME NEW c \in Cpus, RealmRuns(c) PROVE VmidIInv'
  BY <1>1, <1>4, GotoVmids DEF RealmRuns
<1>5. ASSUME NEW c \in Cpus, Start(c) \/ RecCreateStep(c) PROVE VmidIInv'
  BY <1>1, <1>5, VmidStartStep
<1>6. ASSUME NEW c \in Cpus, Work(c), ~RealmDestroyInUse(c) PROVE VmidIInv'
  BY <1>1, <1>6, VmidWorkStep
<1> QED BY <1>2, <1>3, <1>4, <1>5, <1>6 DEF Next

(* Two realms that are not being destroyed never have the same VMID, in a  *)
(* behaviour in which no REALM_DESTROY gives up because a table of its     *)
(* realm is in use.  The hypothesis is needed: smc_realm_destroy has freed *)
(* the VMID when it gives up, and the realm goes on with a VMID that the   *)
(* next REALM_CREATE may take.                                             *)
NoDestroyRefused == [][\A c \in Cpus : ~RealmDestroyInUse(c)]_vars

THEOREM VmidsCorrect == Spec /\ NoDestroyRefused => []VmidExclusive
<1>1. CountIInv /\ VmidIInv => VmidExclusive
  <2> SUFFICES ASSUME CountIInv, VmidIInv PROVE VmidExclusive
    OBVIOUS
  <2>1. \A g \in Granules : state[g] = "RD" /\ Free(g) => OpenRealm(g)
    BY DestroyedObj, GranuleAssumption DEF CountIInv, OpenRealm, Free
  <2> QED BY <2>1 DEF VmidExclusive, VmidIInv, VmidsApart
<1> QED BY <1>1, CountInit, CountStep, VmidInit, VmidStep, PTL DEF Spec, NoDestroyRefused
=============================================================================
