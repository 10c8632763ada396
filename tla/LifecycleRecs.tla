---------------------------- MODULE LifecycleRecs ----------------------------
(***************************************************************************)
(* The reference counts of RDs and RECs, for any number of CPUs, granules  *)
(* and RECs: a RD's is the number of its RECs and of the REC_DESTROYs that *)
(* have not dropped their reference yet, a REC's is the number of CPUs in  *)
(* it, which is at most one.                                               *)
(*                                                                         *)
(* The counts change without the lock of the granule (RecDestroyPut,       *)
(* EnterPut), and yet a CPU that locked an unused RD or REC relies on its  *)
(* count to stay zero until it has freed it.  It does, since whoever drops *)
(* a reference still has one to drop, and whoever takes one locks first.   *)
(*                                                                         *)
(* The step is proved here from RootsUnused, that a root table which       *)
(* REALM_DESTROY frees has no reference; LifecycleTrees proves that.       *)
(***************************************************************************)
EXTENDS LifecycleLocks, FiniteSetTheorems

Entered  == {"en_read", "en_check", "en_run", "en_exit", "en_put"}
Retiring == {"rx_aux", "rx_free"}
Closing  == {"rd_count", "rd_roots", "rd_free"}

RecsOwned ==
  /\ \A r \in Granules : state[r] = "REC" => rec[r].rd \in Granules
  /\ RecsBelongToRealm

EnteredAlone ==
  \A c, d \in Cpus : f[c].pc \in Entered /\ f[d].pc \in Entered /\ f[c].obj = f[d].obj
                     => c = d

(* What CPU c relies on about RDs and RECs it may not have locked *)
RecFrame(c) ==
  /\ f[c].pc = "rx_put" => f[c].rd \in Granules /\ state[f[c].rd] = "RD"
  /\ f[c].pc \in Entered => f[c].obj \in Granules /\ state[f[c].obj] = "REC"
  /\ f[c].pc \in {"en_run", "en_exit"} => rd[rec[f[c].obj].rd].state # "NEW"
  /\ f[c].pc \in Retiring => f[c].rd = rec[f[c].obj].rd /\ refcount[f[c].obj] = 0
  /\ f[c].pc \in Closing => refcount[f[c].obj] = 0

RecFrames == \A c \in Cpus : RecFrame(c)

RecsCounted ==
  \A g \in Granules :
    /\ state[g] = "RD"  => refcount[g] = Cardinality(Recs(g)) + Cardinality(Putting(g))
    /\ state[g] = "REC" => refcount[g] = Cardinality(Inside(g))
    /\ state[g] \notin {"RD", "REC", "RTT"} => refcount[g] = 0

RecIInv == RecsOwned /\ EnteredAlone /\ RecFrames /\ RecsCounted

(* The next root table that a REALM_DESTROY frees is not referenced. *)
RootsUnused ==
  \A c \in Cpus : f[c].pc = "rd_roots" => refcount[f[c].root + f[c].i] = 0

---------------------------------------------------------------------------
(* Finite sets *)

LEMMA GranulesFinite == IsFiniteSet(Granules)
  BY FS_Interval, GranuleAssumption DEF Granules

LEMMA CountedSets ==
  ASSUME NEW g
  PROVE  /\ IsFiniteSet(Recs(g)) /\ Cardinality(Recs(g)) \in Nat
         /\ IsFiniteSet(Putting(g)) /\ Cardinality(Putting(g)) \in Nat
         /\ IsFiniteSet(Inside(g)) /\ Cardinality(Inside(g)) \in Nat
<1>1. Recs(g) \in SUBSET Granules /\ Putting(g) \in SUBSET Cpus /\ Inside(g) \in SUBSET Cpus
  BY DEF Recs, Putting, Inside
<1>2. IsFiniteSet(Recs(g)) /\ IsFiniteSet(Putting(g)) /\ IsFiniteSet(Inside(g))
  BY <1>1, FS_Subset, GranulesFinite, GranuleAssumption
<1> QED BY <1>2, FS_CardinalityType

LEMMA EmptyCount ==
  ASSUME NEW S, IsFiniteSet(S)
  PROVE  Cardinality(S) = 0 <=> S = {}
  BY FS_EmptySet

LEMMA InsideIs ==
  ASSUME NEW r
  PROVE  Inside(r) = {c \in Cpus : f[c].pc \in Entered /\ f[c].obj = r}
  BY DEF Inside, Entered

(* The count of a REC is one or zero. *)
LEMMA RecCount ==
  ASSUME RecIInv, NEW r \in Granules, state[r] = "REC"
  PROVE  /\ refcount[r] = 0 => Inside(r) = {}
         /\ \A c \in Inside(r) : Inside(r) = {c} /\ refcount[r] = 1
<1>1. refcount[r] = Cardinality(Inside(r)) /\ IsFiniteSet(Inside(r))
  BY CountedSets DEF RecIInv, RecsCounted
<1>2. refcount[r] = 0 => Inside(r) = {}
  BY <1>1, EmptyCount
<1>3. ASSUME NEW c \in Inside(r) PROVE Inside(r) = {c}
  BY <1>3, InsideIs DEF RecIInv, EnteredAlone
<1>4. ASSUME NEW c \in Inside(r) PROVE refcount[r] = 1
  BY <1>1, <1>3, <1>4, FS_Singleton
<1> QED BY <1>2, <1>3, <1>4

(* Nothing refers to a RD whose count is zero. *)
LEMMA RdCount ==
  ASSUME RecIInv, NEW g \in Granules, state[g] = "RD", refcount[g] = 0
  PROVE  Recs(g) = {} /\ Putting(g) = {}
<1>1. /\ Cardinality(Recs(g)) + Cardinality(Putting(g)) = 0
      /\ Cardinality(Recs(g)) \in Nat /\ Cardinality(Putting(g)) \in Nat
      /\ IsFiniteSet(Recs(g)) /\ IsFiniteSet(Putting(g))
  BY CountedSets DEF RecIInv, RecsCounted
<1>2. Cardinality(Recs(g)) = 0 /\ Cardinality(Putting(g)) = 0
  BY <1>1
<1> QED BY <1>1, <1>2, EmptyCount

(* Nothing refers to a granule that is no RD. *)
LEMMA NoRd ==
  ASSUME RecIInv, NEW g \in Granules, state[g] # "RD"
  PROVE  Recs(g) = {} /\ Putting(g) = {}
<1>1. \A r \in Granules : state[r] = "REC" => rec[r].rd # g
  BY DEF RecIInv, RecsOwned, RecsBelongToRealm
<1>2. \A c \in Cpus : f[c].pc = "rx_put" => f[c].rd # g
  BY DEF RecIInv, RecFrames, RecFrame
<1> QED BY <1>1, <1>2 DEF Recs, Putting

LEMMA NoRec ==
  ASSUME RecIInv, NEW r \in Granules, state[r] # "REC"
  PROVE  Inside(r) = {}
  BY InsideIs DEF RecIInv, RecFrames, RecFrame

---------------------------------------------------------------------------
(* Steps that count nothing and stop nothing from being counted *)

(* A CPU's step leaves it in the REC it was in, and with the reference it  *)
(* is to drop.                                                             *)
SameRole(d) ==
  /\ f'[d].pc \in Entered <=> f[d].pc \in Entered
  /\ f'[d].pc = "rx_put" <=> f[d].pc = "rx_put"
  /\ f[d].pc \in Entered \cup {"rx_put"} => f'[d].obj = f[d].obj /\ f'[d].rd = f[d].rd

(* RDs and RECs stay what they are, to those who count them. *)
RecsKept ==
  /\ \A r \in Granules : state[r] = "REC" => rec'[r].rd = rec[r].rd /\ rec'[r].idx = rec[r].idx
  /\ \A g \in Granules : state[g] = "RD" /\ state'[g] = "RD" =>
       rd'[g].recs = rd[g].recs /\ (rd[g].state # "NEW" => rd'[g].state # "NEW")

(* A granule changes its purpose only when it is not referenced, and no    *)
(* REC comes or goes; the references to RDs and RECs stay as they are.     *)
NoRecChanges ==
  /\ \A g \in Granules : state'[g] # state[g] =>
       state[g] # "REC" /\ state'[g] # "REC" /\ refcount'[g] = 0
  /\ \A g \in Granules : refcount'[g] # refcount[g] => state[g] = "RTT" /\ state'[g] = "RTT"

LEMMA SameSets ==
  ASSUME RecsKept, \A d \in Cpus : f'[d] = f[d] \/ SameRole(d),
         \A g \in Granules : state'[g] = "REC" <=> state[g] = "REC",
         NEW g
  PROVE  Recs(g)' = Recs(g) /\ Putting(g)' = Putting(g) /\ Inside(g)' = Inside(g)
<1>1. Recs(g)' = Recs(g)
  BY DEF Recs, RecsKept
<1>2. \A d \in Cpus : (f'[d].pc = "rx_put" /\ f'[d].rd = g) <=> (f[d].pc = "rx_put" /\ f[d].rd = g)
  BY DEF SameRole
<1>3. \A d \in Cpus : (f'[d].pc \in Entered /\ f'[d].obj = g)
                      <=> (f[d].pc \in Entered /\ f[d].obj = g)
  BY DEF SameRole
<1>4. Putting(g)' = Putting(g)
  BY <1>2 DEF Putting
<1>5. Inside(g)' = Inside(g)
  BY <1>3 DEF Inside, Entered
<1> QED BY <1>1, <1>4, <1>5

(* The granule of a command that destroys a REC, or a realm *)
LEMMA DestroyedObj ==
  ASSUME WorldIInv, NEW c \in Cpus, f[c].pc \in Retiring \cup Closing
  PROVE  /\ f[c].obj \in Granules /\ lock[f[c].obj] = c
         /\ f[c].pc \in Retiring => state[f[c].obj] = "REC"
         /\ f[c].pc \in Closing  => state[f[c].obj] = "RD"
  BY HeldObj DEF Retiring, Closing

(* What CPU d relies on stays as it is. *)
LEMMA KeptFrame ==
  ASSUME RecIInv, NEW d \in Cpus, f'[d] = f[d],
         f[d].pc = "rx_put" => state'[f[d].rd] = "RD",
         f[d].pc \in Entered =>
           /\ state'[f[d].obj] = "REC" /\ rec'[f[d].obj].rd = rec[f[d].obj].rd
           /\ LET g == rec[f[d].obj].rd IN rd[g].state # "NEW" => rd'[g].state # "NEW",
         f[d].pc \in Retiring => rec'[f[d].obj].rd = rec[f[d].obj].rd,
         f[d].pc \in Retiring \cup Closing => refcount'[f[d].obj] = refcount[f[d].obj]
  PROVE  RecFrame(d)'
<1>1. RecFrame(d)
  BY DEF RecIInv, RecFrames
<1> QED BY <1>1 DEF RecFrame, Entered

(* A RD with a reference *)
LEMMA RdUsed ==
  ASSUME RecIInv
  PROVE  /\ \A r \in Granules : state[r] = "REC" =>
              rec[r].rd \in Granules /\ state[rec[r].rd] = "RD" /\ refcount[rec[r].rd] # 0
         /\ \A c \in Cpus : f[c].pc = "rx_put" =>
              f[c].rd \in Granules /\ state[f[c].rd] = "RD" /\ refcount[f[c].rd] # 0
<1>1. ASSUME NEW r \in Granules, state[r] = "REC"
      PROVE  rec[r].rd \in Granules /\ state[rec[r].rd] = "RD" /\ refcount[rec[r].rd] # 0
  <2>1. rec[r].rd \in Granules /\ state[rec[r].rd] = "RD" /\ r \in Recs(rec[r].rd)
    BY <1>1 DEF RecIInv, RecsOwned, RecsBelongToRealm, Recs
  <2> QED BY <2>1, RdCount
<1>2. ASSUME NEW c \in Cpus, f[c].pc = "rx_put"
      PROVE  f[c].rd \in Granules /\ state[f[c].rd] = "RD" /\ refcount[f[c].rd] # 0
  <2>1. f[c].rd \in Granules /\ state[f[c].rd] = "RD" /\ c \in Putting(f[c].rd)
    BY <1>2 DEF RecIInv, RecFrames, RecFrame, Putting
  <2> QED BY <2>1, RdCount
<1> QED BY <1>1, <1>2

LEMMA SameFrame ==
  ASSUME WorldIInv, RecIInv, RecsKept, NoRecChanges, NEW d \in Cpus, f'[d] = f[d]
  PROVE  RecFrame(d)'
<1>1. \A g \in Granules : state[g] = "RD" /\ refcount[g] # 0 => state'[g] = "RD"
  BY DEF NoRecChanges
<1>2. f[d].pc = "rx_put" => state'[f[d].rd] = "RD"
  BY <1>1, RdUsed
<1>3. ASSUME f[d].pc \in Entered
      PROVE  /\ state'[f[d].obj] = "REC" /\ rec'[f[d].obj].rd = rec[f[d].obj].rd
             /\ LET g == rec[f[d].obj].rd IN rd[g].state # "NEW" => rd'[g].state # "NEW"
  <2>1. f[d].obj \in Granules /\ state[f[d].obj] = "REC"
    BY <1>3 DEF RecIInv, RecFrames, RecFrame
  <2>2. /\ rec[f[d].obj].rd \in Granules /\ state[rec[f[d].obj].rd] = "RD"
        /\ state'[rec[f[d].obj].rd] = "RD"
    BY <1>1, <2>1, RdUsed
  <2> QED BY <2>1, <2>2 DEF NoRecChanges, RecsKept
<1>4. f[d].pc \in Retiring \cup Closing => refcount'[f[d].obj] = refcount[f[d].obj]
  BY DestroyedObj DEF NoRecChanges
<1>5. f[d].pc \in Retiring => rec'[f[d].obj].rd = rec[f[d].obj].rd
  BY DestroyedObj DEF RecsKept
<1> QED BY <1>2, <1>3, <1>4, <1>5, KeptFrame

LEMMA RecSame ==
  ASSUME WorldIInv, RecIInv, RecsKept, NoRecChanges,
         \A d \in Cpus : f'[d] = f[d] \/ (SameRole(d) /\ RecFrame(d)')
  PROVE  RecIInv'
<1>1. \A g : Recs(g)' = Recs(g) /\ Putting(g)' = Putting(g) /\ Inside(g)' = Inside(g)
  BY SameSets DEF NoRecChanges
<1>2. RecsOwned'
  <2>1. \A r \in Granules : state'[r] = "REC" => state[r] = "REC" /\ rec'[r].rd = rec[r].rd
                                                 /\ rec'[r].idx = rec[r].idx
    BY DEF RecsKept, NoRecChanges
  <2>2. \A g \in Granules : state[g] = "RD" /\ refcount[g] # 0 =>
                             state'[g] = "RD" /\ rd'[g].recs = rd[g].recs
    BY DEF RecsKept, NoRecChanges
  <2>3. RecsOwned
    BY DEF RecIInv
  <2>4. \A r \in Granules : state[r] = "REC" =>
          /\ rec[r].rd \in Granules /\ state[rec[r].rd] = "RD" /\ refcount[rec[r].rd] # 0
          /\ rec[r].idx < rd[rec[r].rd].recs
          /\ \A q \in Recs(rec[r].rd) : rec[q].idx = rec[r].idx => q = r
    BY <2>3, RdUsed DEF RecsOwned, RecsBelongToRealm
  <2>5. ASSUME NEW r \in Granules, state'[r] = "REC"
        PROVE  /\ rec'[r].rd \in Granules /\ state'[rec'[r].rd] = "RD"
               /\ rec'[r].idx < rd'[rec'[r].rd].recs
               /\ \A q \in Granules : state'[q] = "REC" /\ rec'[q].rd = rec'[r].rd
                                     /\ rec'[q].idx = rec'[r].idx => q = r
    BY <2>1, <2>2, <2>4, <2>5 DEF Recs
  <2> QED BY <2>5 DEF RecsOwned, RecsBelongToRealm, Recs
<1>3. EnteredAlone'
  <2> SUFFICES ASSUME NEW c \in Cpus, NEW d \in Cpus,
                      f'[c].pc \in Entered, f'[d].pc \in Entered, f'[c].obj = f'[d].obj
               PROVE  c = d
    BY DEF EnteredAlone
  <2>1. /\ f[c].pc \in Entered /\ f[c].obj = f'[c].obj
        /\ f[d].pc \in Entered /\ f[d].obj = f'[d].obj
    BY DEF SameRole
  <2> QED BY <2>1 DEF RecIInv, EnteredAlone
<1>4. RecFrames'
  BY SameFrame DEF RecFrames
<1>5. RecsCounted'
  <2> SUFFICES ASSUME NEW g \in Granules
               PROVE  /\ state'[g] = "RD" => refcount'[g] = Cardinality(Recs(g)') + Cardinality(Putting(g)')
                      /\ state'[g] = "REC" => refcount'[g] = Cardinality(Inside(g)')
                      /\ state'[g] \notin {"RD", "REC", "RTT"} => refcount'[g] = 0
    BY DEF RecsCounted
  <2>1. /\ state[g] = "RD" => refcount[g] = Cardinality(Recs(g)) + Cardinality(Putting(g))
        /\ state[g] = "REC" => refcount[g] = Cardinality(Inside(g))
        /\ state[g] \notin {"RD", "REC", "RTT"} => refcount[g] = 0
    BY DEF RecIInv, RecsCounted
  <2>2. CASE state'[g] = state[g]
    <3>1. refcount'[g] = refcount[g] \/ state'[g] = "RTT"
      BY DEF NoRecChanges
    <3> QED BY <1>1, <2>1, <2>2, <3>1
  <2>3. CASE state'[g] # state[g]
    <3>1. state'[g] # "REC" /\ refcount'[g] = 0
      BY <2>3 DEF NoRecChanges
    <3>2. ASSUME state'[g] = "RD"
          PROVE  Cardinality(Recs(g)) = 0 /\ Cardinality(Putting(g)) = 0
      BY <2>3, <3>2, NoRd, FS_EmptySet
    <3> QED BY <1>1, <3>1, <3>2
  <2> QED BY <2>2, <2>3
<1> QED BY <1>2, <1>3, <1>4, <1>5 DEF RecIInv

---------------------------------------------------------------------------
(* What a step does to the frames *)

Others(c) == \A d \in Cpus : d # c => f'[d] = f[d]

LEMMA Gotos ==
  ASSUME LockIInv, NEW c \in Cpus, NEW l, Goto(c, l)
  PROVE  /\ Others(c) /\ f'[c].pc = l
         /\ f'[c].obj = f[c].obj /\ f'[c].rd = f[c].rd /\ f'[c].root = f[c].root
         /\ f'[c].buf = f[c].buf /\ f'[c].num = f[c].num /\ f'[c].aux = f[c].aux
         /\ f'[c].i = f[c].i /\ f'[c].j = f[c].j /\ f'[c].op = f[c].op
         /\ f'[c].vmid = f[c].vmid
  BY DEF Goto, Become, Others, LockIInv, Types, Frame

LEMMA ReturnsIdle ==
  ASSUME LockIInv, NEW c \in Cpus, Return(c)
  PROVE  Others(c) /\ f'[c] = IdleFrame /\ f'[c].pc = "idle"
  BY DEF Return, Become, Others, LockIInv, Types, IdleFrame

LEMMA FrameIs ==
  ASSUME LockIInv, NEW c \in Cpus, NEW nf, Become(c, nf)
  PROVE  Others(c) /\ f'[c] = nf
  BY BecomeIs DEF Others

LEMMA FramesAre == LockIInv => \A c \in Cpus : f[c] \in Frame
  BY DEF LockIInv, Types

(* A REC_CREATE that fails keeps the auxiliary granules it is to give back. *)
LEMMA FailsIs ==
  ASSUME LockIInv, NEW c \in Cpus, RecCreateFails(c)
  PROVE  /\ Others(c)
         /\ \/ f'[c] = IdleFrame /\ f'[c].pc = "idle" /\ f[c].i = 0
            \/ /\ f'[c].pc = "rn_undo" /\ f[c].i # 0
               /\ f'[c].aux = f[c].aux /\ f'[c].i = f[c].i /\ f'[c].j = 0
<1> DEFINE un == [IdleFrame EXCEPT !.pc = "rn_undo", !.aux = f[c].aux, !.i = f[c].i]
           nf == IF f[c].i = 0 THEN IdleFrame ELSE un
<1>1. Become(c, nf)
  BY DEF RecCreateFails
<1>2. un.pc = "rn_undo" /\ un.aux = f[c].aux /\ un.i = f[c].i /\ un.j = 0
  BY DEF IdleFrame
<1>3. IdleFrame.pc = "idle"
  BY DEF IdleFrame
<1> HIDE DEF un
<1> QED BY <1>1, <1>2, <1>3, FrameIs

(* Where a walk goes on from the table p, which it has locked *)
LEMMA ArrivesAt ==
  ASSUME NEW fr \in Frame, NEW p \in Granules, NEW d \in Nat, NEW nf \in Arrivals(fr, p, d)
  PROVE  /\ nf.pc \in Walking \ {"wk_sl"} /\ nf.root = p /\ nf.obj = fr.obj /\ nf.op = fr.op
         /\ nf.pc = "wk_down" => nf.buf \in kids[p]
         /\ nf.pc = "wk_tbl"  => nf.obj \in kids[p]
<1> DEFINE at == [fr EXCEPT !.rd = NoGranule, !.root = p, !.i = d, !.buf = NoGranule]
<1>1. at \in Frame /\ at.root = p /\ at.op = fr.op /\ at.obj = fr.obj
  <2>1. p \in Nat /\ NoGranule \in Nat
    BY GranuleAssumption DEF Granules, NoGranule
  <2> QED BY <2>1, GranulesAreAny DEF Frame
<1> DEFINE stop(l) == [at EXCEPT !.pc = l]
           down(q) == [at EXCEPT !.pc = "wk_down", !.buf = q]
<1>2. \/ nf = stop("wk_fail") \/ nf = stop("wk_end")
      \/ nf = stop("wk_tbl") /\ fr.obj \in kids[p]
      \/ \E q \in kids[p] : nf = down(q)
  BY DEF Arrivals
<1> HIDE DEF at
<1>3. \A l : /\ stop(l).pc = l /\ stop(l).root = p /\ stop(l).obj = fr.obj /\ stop(l).op = fr.op
  BY <1>1 DEF Frame
<1>4. \A q : /\ down(q).pc = "wk_down" /\ down(q).root = p /\ down(q).obj = fr.obj
             /\ down(q).op = fr.op /\ down(q).buf = q
  BY <1>1 DEF Frame
<1> HIDE DEF stop, down
<1> QED BY <1>2, <1>3, <1>4 DEF Walking

LEMMA RootArrives ==
  ASSUME LockIInv, NEW c \in Cpus, RttLockRoot(c)
  PROVE  LET root == rd[f[c].rd].root
         IN  /\ Others(c) /\ f'[c].pc \in Walking
             /\ f'[c].root = root /\ f'[c].obj = f[c].obj /\ f'[c].op = f[c].op
             /\ f'[c].pc = "wk_sl" => \E k \in 1 .. rd[f[c].rd].num - 1 : f'[c].buf = root + k
             /\ f'[c].pc = "wk_down" => f'[c].buf \in kids[root]
             /\ f'[c].pc = "wk_tbl"  => f'[c].obj \in kids[root]
<1> DEFINE root  == rd[f[c].rd].root
           at    == [f[c] EXCEPT !.root = root]
           on(k) == [at EXCEPT !.pc = "wk_sl", !.rd = NoGranule, !.buf = at.root + k]
<1>1. f[c] \in Frame /\ root \in Granules /\ 0 \in Nat
  BY FramesAre DEF RttLockRoot, CanLock
<1>2. PICK nf : /\ Become(c, nf)
                /\ \/ nf \in Arrivals(f[c], root, 0)
                   \/ \E k \in 1 .. rd[f[c].rd].num - 1 : nf = on(k)
  BY DEF RttLockRoot, Concatenated
<1>3. Others(c) /\ f'[c] = nf
  BY <1>2, FrameIs
<1>4. at \in Frame /\ at.root = root /\ at.obj = f[c].obj /\ at.op = f[c].op
  BY <1>1, GranuleAssumption DEF Frame, Granules
<1> HIDE DEF root, at
<1>5. ASSUME NEW k PROVE on(k).pc = "wk_sl" /\ on(k).root = root /\ on(k).obj = f[c].obj
                         /\ on(k).op = f[c].op /\ on(k).buf = root + k
  <2> DEFINE b == at.root + k
  <2>1. b = root + k
    BY <1>4
  <2> HIDE DEF b
  <2> QED BY <1>4, <2>1 DEF Frame
<1> HIDE DEF on
<1>6. CASE nf \in Arrivals(f[c], root, 0)
  BY <1>1, <1>3, <1>6, ArrivesAt DEF root, Walking
<1>7. CASE \E k \in 1 .. rd[f[c].rd].num - 1 : nf = on(k)
  BY <1>3, <1>5, <1>7 DEF root, Walking
<1> QED BY <1>2, <1>6, <1>7

LEMMA WalkArrives ==
  ASSUME LockIInv, NEW c \in Cpus, RttWalk(c)
  PROVE  /\ Others(c) /\ f'[c].pc \in Walking \ {"wk_sl"}
         /\ f'[c].root = f[c].buf /\ f'[c].obj = f[c].obj /\ f'[c].op = f[c].op
         /\ f'[c].pc = "wk_down" => f'[c].buf \in kids[f[c].buf]
         /\ f'[c].pc = "wk_tbl"  => f'[c].obj \in kids[f[c].buf]
<1> DEFINE d == IF f[c].pc = "wk_sl" THEN 0 ELSE f[c].i + 1
<1>1. f[c] \in Frame /\ f[c].buf \in Granules /\ d \in Nat
  BY FramesAre DEF RttWalk, CanLock, Frame
<1>2. PICK nf \in Arrivals(f[c], f[c].buf, d) : Become(c, nf)
  BY DEF RttWalk
<1> HIDE DEF d
<1> QED BY <1>1, <1>2, FrameIs, ArrivesAt

---------------------------------------------------------------------------
(* Steps that RDs and RECs have no part in *)

Counting == Entered \cup {"rx_put"}
Heavy    == Counting \cup Retiring \cup Closing

LEMMA PlainStep ==
  ASSUME WorldIInv, RecIInv, RecsKept, NoRecChanges, NEW c \in Cpus, Others(c),
         f[c].pc \notin Counting, f'[c].pc \notin Heavy
  PROVE  RecIInv'
<1>1. SameRole(c)
  BY DEF SameRole, Counting, Heavy
<1>2. RecFrame(c)'
  BY DEF RecFrame, Counting, Heavy, Entered
<1>3. \A d \in Cpus : f'[d] = f[d] \/ (SameRole(d) /\ RecFrame(d)')
  BY <1>1, <1>2 DEF Others
<1> QED BY <1>3, RecSame

LEMMA QuietRecStep ==
  ASSUME WorldIInv, RecIInv, NEW c \in Cpus, Others(c),
         f[c].pc \notin Counting, f'[c].pc \notin Heavy,
         UNCHANGED <<state, refcount, rd, rec>>
  PROVE  RecIInv'
<1>1. RecsKept
  BY DEF RecsKept
<1> QED BY <1>1, PlainStep DEF NoRecChanges

LEMMA RecQuietReturns ==
  ASSUME WorldIInv, RecIInv, NEW c \in Cpus,
         \/ RealmCreateFreeVmid(c) \/ RealmDestroyInUse(c)
         \/ RttCreateLock2Fails(c) \/ RttInvalid(c) \/ RttFail(c) \/ RttDestroyInUse(c)
  PROVE  RecIInv'
<1>1. /\ Return(c) /\ f[c].pc \notin Counting
      /\ UNCHANGED <<state, refcount, rd, rec>>
  BY DEF RealmCreateFreeVmid, RealmDestroyInUse, RttCreateLock2Fails,
         RttInvalid, RttFail, RttDestroyInUse, At, Counting, Entered, granuleVars
<1>2. Others(c) /\ f'[c].pc \notin Heavy
  BY <1>1, ReturnsIdle DEF WorldIInv, Heavy, Counting, Entered, Retiring, Closing
<1> QED BY <1>1, <1>2, QuietRecStep

LEMMA RecQuietFails ==
  ASSUME WorldIInv, RecIInv, NEW c \in Cpus, RecCreateLock2Fails(c) \/ RecCreateRefused(c)
  PROVE  RecIInv'
<1>1. /\ RecCreateFails(c) /\ f[c].pc \notin Counting
      /\ UNCHANGED <<state, refcount, rd, rec>>
  BY DEF RecCreateLock2Fails, RecCreateRefused, At, Counting, Entered
<1>2. Others(c) /\ f'[c].pc \notin Heavy
  BY <1>1, FailsIs DEF WorldIInv, Heavy, Counting, Entered, Retiring, Closing
<1> QED BY <1>1, <1>2, QuietRecStep

LEMMA RecQuietGotos ==
  ASSUME WorldIInv, RecIInv, NEW c \in Cpus,
         \/ DelegateMark(c) \/ RecCreateLock2(c) \/ RttCreateLock2(c)
         \/ \E a \in Granules : RecCreateAuxFails(c, a)
         \/ \E r, g \in Granules : RecCreateLock1Fails(c, r, g)
  PROVE  RecIInv'
<1>1. /\ \E l \in {"dl_zero", "rn_body", "wk_root", "rn_undo"} : Goto(c, l)
      /\ f[c].pc \notin Counting /\ UNCHANGED <<state, refcount, rd, rec>>
  BY DEF DelegateMark, RecCreateLock2, RttCreateLock2, RecCreateAuxFails,
         RecCreateLock1Fails, At, Counting, Entered, granuleVars
<1>2. Others(c) /\ f'[c].pc \notin Heavy
  BY <1>1, Gotos DEF WorldIInv, Heavy, Counting, Entered, Retiring, Closing
<1> QED BY <1>1, <1>2, QuietRecStep

LEMMA RecQuietStarts ==
  ASSUME WorldIInv, RecIInv, NEW c \in Cpus,
         NEW g \in Granules, NEW t \in Granules, NEW n, NEW v,
         \/ GranuleUndelegate(c, g) \/ RealmCreate(c, g, t, n, v)
         \/ RttCreate(c, t, g) \/ RttDestroy(c, t, g)
  PROVE  RecIInv'
<1> DEFINE l == IF g \in Roots(t, n) THEN "rc_vmid" ELSE "rc_lock"
           ud == [IdleFrame EXCEPT !.pc = "ud_state", !.obj = g]
           rc == [IdleFrame EXCEPT !.pc = l, !.obj = g, !.root = t, !.num = n, !.vmid = v]
           tc == [IdleFrame EXCEPT !.pc = "tc_lock2", !.op = "create", !.obj = t, !.rd = g]
           td == [IdleFrame EXCEPT !.pc = "wk_root", !.op = "destroy", !.obj = t, !.rd = g]
<1>1. /\ f[c].pc \notin Counting /\ UNCHANGED <<state, refcount, rd, rec>>
      /\ Become(c, ud) \/ Become(c, rc) \/ Become(c, tc) \/ Become(c, td)
  BY DEF GranuleUndelegate, RealmCreate, RttCreate, RttDestroy, Idle, Counting, Entered,
         granuleVars
<1>3. ud.pc = "ud_state" /\ rc.pc \in {"rc_vmid", "rc_lock"} /\ tc.pc = "tc_lock2" /\ td.pc = "wk_root"
  BY DEF IdleFrame
<1> HIDE DEF ud, rc, tc, td
<1>2. Others(c) /\ f'[c].pc \notin Heavy
  BY <1>1, <1>3, FrameIs DEF WorldIInv, Heavy, Counting, Entered, Retiring, Closing
<1> QED BY <1>1, <1>2, QuietRecStep

LEMMA RecQuietLock1 ==
  ASSUME WorldIInv, RecIInv, NEW c \in Cpus, NEW r, NEW g, RecCreateLock1(c, r, g)
  PROVE  RecIInv'
<1> DEFINE nf == [f[c] EXCEPT !.pc = "rn_lock2", !.obj = r, !.rd = g]
<1>1. /\ f[c].pc \notin Counting /\ UNCHANGED <<state, refcount, rd, rec>> /\ Become(c, nf)
  BY DEF RecCreateLock1, Idle, At, Counting, Entered
<1>2. nf.pc = "rn_lock2"
  BY FramesAre DEF WorldIInv, Frame
<1> HIDE DEF nf
<1>3. Others(c) /\ f'[c].pc \notin Heavy
  BY <1>1, <1>2, FrameIs DEF WorldIInv, Heavy, Counting, Entered, Retiring, Closing
<1> QED BY <1>1, <1>3, QuietRecStep

LEMMA RecQuietRealmLocks ==
  ASSUME WorldIInv, RecIInv, NEW c \in Cpus, RealmCreateLock(c) \/ RealmCreateLockFails(c)
  PROVE  RecIInv'
<1> DEFINE l  == IF f[c].i = f[c].num THEN "rc_init" ELSE "rc_lock"
           k  == f[c].i + 1
           up == [f[c] EXCEPT !.i = k, !.pc = l]
           no == [IdleFrame EXCEPT !.pc = "rc_vmid", !.vmid = f[c].vmid]
<1>1. /\ f[c].pc \notin Counting /\ UNCHANGED <<state, refcount, rd, rec>>
      /\ Become(c, up) \/ Become(c, no)
  BY DEF RealmCreateLock, RealmCreateLockFails, At, Counting, Entered
<1>2. up.pc \in {"rc_init", "rc_lock"} /\ no.pc = "rc_vmid"
  <2>1. f[c] \in Frame
    BY FramesAre DEF WorldIInv
  <2> HIDE DEF k
  <2> QED BY <2>1 DEF Frame, IdleFrame
<1> HIDE DEF up, no
<1>3. Others(c) /\ f'[c].pc \notin Heavy
  BY <1>1, <1>2, FrameIs DEF WorldIInv, Heavy, Counting, Entered, Retiring, Closing
<1> QED BY <1>1, <1>3, QuietRecStep

LEMMA RecQuietWalks ==
  ASSUME WorldIInv, RecIInv, NEW c \in Cpus, RttLockRoot(c) \/ RttWalk(c)
  PROVE  RecIInv'
<1>1. /\ f[c].pc \notin Counting /\ UNCHANGED <<state, refcount, rd, rec>>
  BY DEF RttLockRoot, RttWalk, At, Counting, Entered
<1>2. Others(c) /\ f'[c].pc \notin Heavy
  <2>1. Others(c) /\ f'[c].pc \in Walking
    BY RootArrives, WalkArrives DEF WorldIInv
  <2> QED BY <2>1 DEF Walking, Heavy, Counting, Entered, Retiring, Closing
<1> QED BY <1>1, <1>2, QuietRecStep


(* A granule changes its purpose, and neither is a RD nor a REC. *)
LEMMA PlainChange ==
  ASSUME WorldIInv, RecIInv, NEW c \in Cpus, Others(c),
         f[c].pc \notin Counting, f'[c].pc \notin Heavy, NEW g, NEW s,
         s \notin {"RD", "REC"}, state' = [state EXCEPT ![g] = s],
         g \in Granules => state[g] \notin {"RD", "REC"} /\ refcount[g] = 0,
         UNCHANGED <<refcount, rd, rec>>
  PROVE  RecIInv'
<1>1. RecsKept
  BY DEF RecsKept
<1>2. \A h \in Granules : state'[h] # state[h] => h = g /\ state'[h] = s
  BY DEF WorldIInv, LockIInv, Types
<1> QED BY <1>1, <1>2, PlainStep DEF NoRecChanges

(* A granule without a purpose is not referenced. *)
LEMMA Uncounted ==
  ASSUME RecIInv, NEW g \in Granules, state[g] \notin {"RD", "REC", "RTT"}
  PROVE  refcount[g] = 0
  BY DEF RecIInv, RecsCounted

LEMMA GranuleDelegateRecs ==
  ASSUME WorldIInv, RecIInv, NEW c \in Cpus, NEW g \in Granules, GranuleDelegate(c, g)
  PROVE  RecIInv'
<1> DEFINE nf == [IdleFrame EXCEPT !.pc = "dl_mark", !.obj = g]
<1>1. /\ f[c].pc \notin Counting /\ UNCHANGED <<refcount, rd, rec>> /\ Become(c, nf)
      /\ state[g] = "NS" /\ state' = [state EXCEPT ![g] = "DELEGATED"]
  BY DEF GranuleDelegate, Idle, CanLock, Counting, Entered
<1>2. nf.pc = "dl_mark"
  BY DEF IdleFrame
<1> HIDE DEF nf
<1>3. Others(c) /\ f'[c].pc \notin Heavy
  BY <1>1, <1>2, FrameIs DEF WorldIInv, Heavy, Counting, Entered, Retiring, Closing
<1> QED BY <1>1, <1>3, Uncounted, PlainChange

LEMMA DelegateZeroRecs ==
  ASSUME WorldIInv, RecIInv, NEW c \in Cpus, DelegateZero(c)
  PROVE  RecIInv'
<1>1. /\ f[c].pc = "dl_zero" /\ f[c].pc \notin Counting /\ Return(c) /\ ZeroOut({f[c].obj})
      /\ UNCHANGED <<state, refcount>>
  BY DEF DelegateZero, At, Counting, Entered
<1>2. state[f[c].obj] = "DELEGATED"
  BY <1>1, HeldObj
<1>3. RecsKept
  BY <1>1, <1>2 DEF RecsKept, ZeroOut
<1>4. Others(c) /\ f'[c].pc \notin Heavy
  BY <1>1, ReturnsIdle DEF WorldIInv, Heavy, Counting, Entered, Retiring, Closing
<1> QED BY <1>1, <1>3, <1>4, PlainStep DEF NoRecChanges

LEMMA UndelegateStateRecs ==
  ASSUME WorldIInv, RecIInv, NEW c \in Cpus, UndelegateState(c)
  PROVE  RecIInv'
<1>1. /\ f[c].pc = "ud_state" /\ f[c].pc \notin Counting /\ Return(c)
      /\ UNCHANGED <<refcount, rd, rec>> /\ state' = [state EXCEPT ![f[c].obj] = "NS"]
  BY DEF UndelegateState, At, Counting, Entered
<1>2. state[f[c].obj] = "DELEGATED"
  BY <1>1, HeldObj
<1>4. Others(c) /\ f'[c].pc \notin Heavy
  BY <1>1, ReturnsIdle DEF WorldIInv, Heavy, Counting, Entered, Retiring, Closing
<1> QED BY <1>1, <1>2, <1>4, Uncounted, PlainChange

LEMMA RealmCreateRootRecs ==
  ASSUME WorldIInv, RecIInv, NEW c \in Cpus, RealmCreateRoot(c)
  PROVE  RecIInv'
<1> DEFINE fr == f[c]
           g  == fr.root + fr.i
           k  == fr.i + 1
           up == [fr EXCEPT !.i = k]
           nf == IF k = fr.num THEN IdleFrame ELSE up
<1>1. /\ fr.pc = "rc_roots" /\ fr.pc \notin Counting /\ Become(c, nf)
      /\ UNCHANGED <<refcount, rd, rec>> /\ state' = [state EXCEPT ![g] = "RTT"]
  BY DEF RealmCreateRoot, At, Counting, Entered
<1>2. g \in Granules /\ state[g] = "DELEGATED"
  <2>1. fr \in Frame /\ fr.i < fr.num
    BY <1>1, FramesAre DEF WorldIInv, LockIInv, Locks, FrameOK
  <2>2. g \in Held(fr)
    <3>1. Held(fr) = fr.root + fr.i .. fr.root + (fr.num - 1)
      BY <1>1 DEF Held
    <3>2. fr.root \in Nat /\ fr.num \in Nat /\ fr.i \in Nat
      BY <2>1 DEF Frame
    <3> QED BY <2>1, <3>1, <3>2
  <2>3. HeldState(fr, g) = "DELEGATED"
    BY <1>1 DEF HeldState, Walking
  <2> HIDE DEF g
  <2> QED BY <2>2, <2>3, HeldIs
<1>3. up.pc = "rc_roots" /\ IdleFrame.pc = "idle"
  <2>1. fr \in Frame
    BY FramesAre DEF WorldIInv
  <2> HIDE DEF k
  <2> QED BY <1>1, <2>1 DEF Frame, IdleFrame
<1> HIDE DEF up, g
<1>4. Others(c) /\ f'[c].pc \notin Heavy
  BY <1>1, <1>3, FrameIs DEF WorldIInv, Heavy, Counting, Entered, Retiring, Closing
<1> QED BY <1>1, <1>2, <1>4, Uncounted, PlainChange

LEMMA RecCreateAuxRecs ==
  ASSUME WorldIInv, RecIInv, NEW c \in Cpus, NEW a \in Granules, RecCreateAux(c, a)
  PROVE  RecIInv'
<1> DEFINE fr == f[c]
           na == [fr.aux EXCEPT ![fr.i + 1] = a]
           k  == fr.i + 1
           nf == [fr EXCEPT !.pc = "rn_aux", !.i = k, !.aux = na]
<1>1. /\ fr.pc \notin Counting /\ Become(c, nf) /\ UNCHANGED <<refcount, rd, rec>>
      /\ state[a] = "DELEGATED" /\ state' = [state EXCEPT ![a] = "REC_AUX"]
  BY DEF RecCreateAux, AuxTaken, Idle, At, CanLock, Counting, Entered
<1>2. nf.pc = "rn_aux"
  <2>1. fr \in Frame
    BY FramesAre DEF WorldIInv
  <2> HIDE DEF k, na
  <2> QED BY <2>1 DEF Frame
<1> HIDE DEF nf
<1>3. Others(c) /\ f'[c].pc \notin Heavy
  BY <1>1, <1>2, FrameIs DEF WorldIInv, Heavy, Counting, Entered, Retiring, Closing
<1> QED BY <1>1, <1>3, Uncounted, PlainChange

LEMMA RecCreateUndoRecs ==
  ASSUME WorldIInv, RecIInv, NEW c \in Cpus, RecCreateUndo(c)
  PROVE  RecIInv'
<1> DEFINE fr == f[c]
           a  == fr.aux[fr.j + 1]
           k  == fr.j + 1
           up == [fr EXCEPT !.j = k]
           nf == IF k = fr.i THEN IdleFrame ELSE up
<1>1. /\ fr.pc = "rn_undo" /\ fr.pc \notin Counting /\ Become(c, nf)
      /\ UNCHANGED <<refcount, rd, rec>>
      /\ a \in Granules /\ state[a] = "REC_AUX" /\ state' = [state EXCEPT ![a] = "DELEGATED"]
  BY DEF RecCreateUndo, At, CanLock, Counting, Entered
<1>2. up.pc = "rn_undo" /\ IdleFrame.pc = "idle"
  <2>1. fr \in Frame
    BY FramesAre DEF WorldIInv
  <2> HIDE DEF k
  <2> QED BY <1>1, <2>1 DEF Frame, IdleFrame
<1> HIDE DEF up, a
<1>3. Others(c) /\ f'[c].pc \notin Heavy
  BY <1>1, <1>2, FrameIs DEF WorldIInv, Heavy, Counting, Entered, Retiring, Closing
<1> QED BY <1>1, <1>3, Uncounted, PlainChange

LEMMA RttCreateEndRecs ==
  ASSUME WorldIInv, RecIInv, NEW c \in Cpus, RttCreateEnd(c)
  PROVE  RecIInv'
<1> DEFINE p == f[c].root
           t == f[c].obj
<1>1. /\ f[c].pc = "wk_end" /\ f[c].pc \notin Counting /\ Return(c)
      /\ UNCHANGED <<rd, rec>> /\ state' = [state EXCEPT ![t] = "RTT"]
      /\ refcount' = [refcount EXCEPT ![p] = refcount[p] + 1]
  BY DEF RttCreateEnd, At, Counting, Entered
<1>2. f[c].op = "create" /\ p # t
  BY <1>1 DEF WorldIInv, LockIInv, Locks, FrameOK
<1>3. t \in Granules /\ state[t] = "DELEGATED" /\ p \in Granules /\ state[p] = "RTT"
  BY <1>1, <1>2, HeldIs DEF Held, HeldState, WalkHolds, Walking
<1> HIDE DEF p, t
<1>4. /\ \A g \in Granules : state'[g] # state[g] => g = t
      /\ state'[p] = "RTT" /\ state'[t] = "RTT"
  BY <1>1, <1>2, <1>3 DEF WorldIInv, LockIInv, Types
<1>5. /\ \A g \in Granules : refcount'[g] # refcount[g] => g = p
      /\ refcount'[t] = 0
  BY <1>1, <1>2, <1>3, Uncounted DEF WorldIInv, LockIInv, Types
<1>6. Others(c) /\ f'[c].pc \notin Heavy
  BY <1>1, ReturnsIdle DEF WorldIInv, Heavy, Counting, Entered, Retiring, Closing
<1>7. RecsKept
  BY <1>1 DEF RecsKept
<1>8. NoRecChanges
  BY <1>1, <1>3, <1>4, <1>5 DEF NoRecChanges
<1> QED BY <1>1, <1>6, <1>7, <1>8, PlainStep

LEMMA RttDestroyEndRecs ==
  ASSUME WorldIInv, RecIInv, NEW c \in Cpus, RttDestroyEnd(c)
  PROVE  RecIInv'
<1> DEFINE p == f[c].root
           t == f[c].obj
<1>1. /\ f[c].pc = "wk_tbl" /\ f[c].pc \notin Counting /\ Return(c)
      /\ UNCHANGED <<rd, rec>> /\ state' = [state EXCEPT ![t] = "DELEGATED"]
      /\ refcount' = [refcount EXCEPT ![p] = refcount[p] - 1]
      /\ t \in Granules /\ state[t] = "RTT" /\ lock[t] = NoCpu /\ refcount[t] = 0
  BY DEF RttDestroyEnd, ParentPut, TableUnused, CanLock, Free, At, Counting, Entered
<1>2. p \in Granules /\ state[p] = "RTT" /\ lock[p] = c
  BY <1>1, HeldIs DEF Held, HeldState, WalkHolds, Walking
<1>3. p # t
  BY <1>1, <1>2, GranuleAssumption
<1> HIDE DEF p, t
<1>4. /\ \A g \in Granules : state'[g] # state[g] => g = t
      /\ state'[p] = "RTT" /\ state'[t] = "DELEGATED"
  BY <1>1, <1>2, <1>3 DEF WorldIInv, LockIInv, Types
<1>5. /\ \A g \in Granules : refcount'[g] # refcount[g] => g = p
      /\ refcount'[t] = 0
  BY <1>1, <1>2, <1>3 DEF WorldIInv, LockIInv, Types
<1>6. Others(c) /\ f'[c].pc \notin Heavy
  BY <1>1, ReturnsIdle DEF WorldIInv, Heavy, Counting, Entered, Retiring, Closing
<1>7. RecsKept
  BY <1>1 DEF RecsKept
<1>8. NoRecChanges
  BY <1>1, <1>2, <1>4, <1>5 DEF NoRecChanges
<1> QED BY <1>1, <1>6, <1>7, <1>8, PlainStep

---------------------------------------------------------------------------
(* Steps that keep every reference: the CPU may be in a REC, or destroy    *)
(* one, or a realm.                                                        *)

LEMMA HostWriteRecs ==
  ASSUME WorldIInv, RecIInv, NEW g, HostWrite(g)
  PROVE  RecIInv'
<1>1. UNCHANGED <<state, refcount, rd, rec, f>>
  BY DEF HostWrite
<1>2. RecsKept
  BY <1>1 DEF RecsKept
<1> QED BY <1>1, <1>2, RecSame DEF NoRecChanges

LEMMA RealmActivateRecs ==
  ASSUME WorldIInv, RecIInv, NEW g, RealmActivate(g)
  PROVE  RecIInv'
<1>1. /\ UNCHANGED <<state, refcount, rec, f>> /\ g \in Granules
      /\ rd' = [rd EXCEPT ![g].state = "ACTIVE"]
  BY DEF RealmActivate, granuleVars, CanLock
<1>2. rd \in [Granules -> RdType]
  BY DEF WorldIInv, LockIInv, Types
<1>3. \A h \in Granules : rd'[h].recs = rd[h].recs /\ rd'[h].state \in {rd[h].state, "ACTIVE"}
  BY <1>1, <1>2 DEF RdType
<1>4. RecsKept
  BY <1>1, <1>3 DEF RecsKept
<1> QED BY <1>1, <1>4, RecSame DEF NoRecChanges

LEMMA RoleStep ==
  ASSUME WorldIInv, RecIInv, RecsKept, NEW c \in Cpus, Others(c), SameRole(c), RecFrame(c)',
         UNCHANGED <<state, refcount>>
  PROVE  RecIInv'
<1>1. \A d \in Cpus : f'[d] = f[d] \/ (SameRole(d) /\ RecFrame(d)')
  BY DEF Others
<1> QED BY <1>1, RecSame DEF NoRecChanges

LEMMA RealmDestroyRecs ==
  ASSUME WorldIInv, RecIInv, NEW c \in Cpus, NEW g \in Granules, RealmDestroy(c, g)
  PROVE  RecIInv'
<1> DEFINE nf == [IdleFrame EXCEPT !.pc = "rd_count", !.obj = g,
                                   !.root = rd[g].root, !.num = rd[g].num]
<1>1. /\ f[c].pc = "idle" /\ Become(c, nf) /\ UNCHANGED <<state, refcount, rd, rec>>
      /\ refcount[g] = 0
  BY DEF RealmDestroy, Idle, CanLockUnused
<1>2. nf.pc = "rd_count" /\ nf.obj = g
  BY DEF IdleFrame
<1> HIDE DEF nf
<1>3. Others(c) /\ f'[c] = nf
  BY <1>1, FrameIs DEF WorldIInv
<1>4. SameRole(c)
  BY <1>1, <1>2, <1>3 DEF SameRole, Entered
<1>5. RecFrame(c)'
  BY <1>1, <1>2, <1>3 DEF RecFrame, Entered, Retiring
<1>6. RecsKept
  BY <1>1 DEF RecsKept
<1> QED BY <1>1, <1>3, <1>4, <1>5, <1>6, RoleStep

LEMMA RealmDestroyCountRecs ==
  ASSUME WorldIInv, RecIInv, NEW c \in Cpus, RealmDestroyCount(c)
  PROVE  RecIInv'
<1> DEFINE fr == f[c]
           l  == IF LastRoot(fr) THEN "rd_roots" ELSE "rd_count"
           k  == IF LastRoot(fr) THEN 0 ELSE fr.i + 1
           u  == Counted(fr)
           nf == [fr EXCEPT !.used = u, !.i = k, !.pc = l]
<1>1. fr.pc = "rd_count" /\ Become(c, nf) /\ UNCHANGED <<state, refcount, rd, rec>>
  BY DEF RealmDestroyCount, At, granuleVars
<1>2. nf.pc \in {"rd_roots", "rd_count"} /\ nf.obj = fr.obj
  <2>1. fr \in Frame
    BY FramesAre DEF WorldIInv
  <2> HIDE DEF k, u
  <2> QED BY <2>1 DEF Frame
<1> HIDE DEF nf
<1>3. Others(c) /\ f'[c] = nf
  BY <1>1, FrameIs DEF WorldIInv
<1>4. SameRole(c)
  BY <1>1, <1>2, <1>3 DEF SameRole, Entered
<1>5. refcount[fr.obj] = 0
  BY <1>1 DEF RecIInv, RecFrames, RecFrame, Closing
<1>6. RecFrame(c)'
  BY <1>1, <1>2, <1>3, <1>5 DEF RecFrame, Entered, Retiring
<1>7. RecsKept
  BY <1>1 DEF RecsKept
<1> QED BY <1>1, <1>3, <1>4, <1>6, <1>7, RoleStep

LEMMA RecDestroyRecs ==
  ASSUME WorldIInv, RecIInv, NEW c \in Cpus, NEW r \in Granules, RecDestroy(c, r)
  PROVE  RecIInv'
<1> DEFINE l  == IF NumAux = 0 THEN "rx_free" ELSE "rx_aux"
           nf == [IdleFrame EXCEPT !.pc = l, !.obj = r, !.rd = rec[r].rd, !.aux = rec[r].aux]
<1>1. /\ f[c].pc = "idle" /\ Become(c, nf) /\ UNCHANGED <<state, refcount, rd, rec>>
      /\ refcount[r] = 0
  BY DEF RecDestroy, Idle, CanLockUnused
<1>2. nf.pc \in {"rx_free", "rx_aux"} /\ nf.obj = r /\ nf.rd = rec[r].rd
  BY DEF IdleFrame
<1> HIDE DEF nf
<1>3. Others(c) /\ f'[c] = nf
  BY <1>1, FrameIs DEF WorldIInv
<1>4. SameRole(c)
  BY <1>1, <1>2, <1>3 DEF SameRole, Entered
<1>5. RecFrame(c)'
  BY <1>1, <1>2, <1>3 DEF RecFrame, Entered, Closing
<1>6. RecsKept
  BY <1>1 DEF RecsKept
<1> QED BY <1>1, <1>3, <1>4, <1>5, <1>6, RoleStep

LEMMA EnterReadRecs ==
  ASSUME WorldIInv, RecIInv, NEW c \in Cpus, EnterRead(c) \/ EnterWrite(c)
  PROVE  RecIInv'
<1>1. /\ f[c].pc \in {"en_read", "en_exit"}
      /\ Goto(c, "en_check") \/ Goto(c, "en_put")
      /\ UNCHANGED <<state, refcount, rd, rec>>
  BY DEF EnterRead, EnterWrite, At, granuleVars
<1>2. Others(c) /\ f'[c].pc \in {"en_check", "en_put"} /\ f'[c].obj = f[c].obj
      /\ f'[c].rd = f[c].rd
  BY <1>1, Gotos DEF WorldIInv
<1>3. SameRole(c)
  BY <1>1, <1>2 DEF SameRole, Entered
<1>4. RecFrame(c)
  BY DEF RecIInv, RecFrames
<1>5. RecFrame(c)'
  BY <1>1, <1>2, <1>4 DEF RecFrame, Entered, Retiring, Closing
<1>6. RecsKept
  BY <1>1 DEF RecsKept
<1> QED BY <1>1, <1>2, <1>3, <1>5, <1>6, RoleStep

LEMMA EnterCheckRecs ==
  ASSUME WorldIInv, RecIInv, NEW c \in Cpus, EnterCheck(c)
  PROVE  RecIInv'
<1>1. /\ f[c].pc = "en_check" /\ UNCHANGED <<state, refcount, rd, rec>>
      /\ \/ /\ rd[rec[f[c].obj].rd].state = "ACTIVE"
            /\ Goto(c, "en_run") \/ Goto(c, "en_exit")
         \/ Goto(c, "en_put")
  BY DEF EnterCheck, At, granuleVars
<1>2. /\ Others(c) /\ f'[c].obj = f[c].obj /\ f'[c].rd = f[c].rd
      /\ \/ f'[c].pc \in {"en_run", "en_exit"} /\ rd[rec[f[c].obj].rd].state = "ACTIVE"
         \/ f'[c].pc = "en_put"
  BY <1>1, Gotos DEF WorldIInv
<1>3. SameRole(c)
  BY <1>1, <1>2 DEF SameRole, Entered
<1>4. RecFrame(c)
  BY DEF RecIInv, RecFrames
<1>5. RecFrame(c)'
  BY <1>1, <1>2, <1>4 DEF RecFrame, Entered, Retiring, Closing
<1>6. RecsKept
  BY <1>1 DEF RecsKept
<1> QED BY <1>1, <1>2, <1>3, <1>5, <1>6, RoleStep

LEMMA EnterRunRecs ==
  ASSUME WorldIInv, RecIInv, NEW c \in Cpus, NEW off \in BOOLEAN, EnterRun(c, off)
  PROVE  RecIInv'
<1> DEFINE r == f[c].obj
<1>1. /\ f[c].pc = "en_run" /\ Goto(c, "en_exit") /\ UNCHANGED <<state, refcount, rd>>
      /\ rec' = [rec EXCEPT ![r].runnable = ~off]
  BY DEF EnterRun, At
<1>2. Others(c) /\ f'[c].pc = "en_exit" /\ f'[c].obj = r /\ f'[c].rd = f[c].rd
  BY <1>1, Gotos DEF WorldIInv
<1>3. SameRole(c)
  BY <1>1, <1>2 DEF SameRole, Entered
<1>4. RecFrame(c)
  BY DEF RecIInv, RecFrames
<1>5. r \in Granules
  BY <1>1, <1>4 DEF RecFrame, Entered
<1>6. \A q \in Granules : rec'[q].rd = rec[q].rd /\ rec'[q].idx = rec[q].idx
  <2>1. rec \in [Granules -> RecType]
    BY DEF WorldIInv, LockIInv, Types
  <2> HIDE DEF r
  <2> QED BY <1>1, <2>1 DEF RecType
<1>7. RecFrame(c)'
  BY <1>1, <1>2, <1>4, <1>5, <1>6 DEF RecFrame, Entered, Retiring, Closing
<1>8. RecsKept
  BY <1>1, <1>6 DEF RecsKept
<1> QED BY <1>1, <1>2, <1>3, <1>7, <1>8, RoleStep

LEMMA SystemOffRecs ==
  ASSUME WorldIInv, RecIInv, NEW c \in Cpus, SystemOff(c)
  PROVE  RecIInv'
<1> DEFINE g == rec[f[c].obj].rd
<1>1. /\ f[c].pc = "en_run" /\ Goto(c, "en_exit") /\ UNCHANGED <<state, refcount, rec>>
      /\ rd' = [rd EXCEPT ![g].state = "SYSTEM_OFF"]
  BY DEF SystemOff, At, granuleVars
<1>2. Others(c) /\ f'[c].pc = "en_exit" /\ f'[c].obj = f[c].obj /\ f'[c].rd = f[c].rd
  BY <1>1, Gotos DEF WorldIInv
<1>3. SameRole(c)
  BY <1>1, <1>2 DEF SameRole, Entered
<1>4. RecFrame(c)
  BY DEF RecIInv, RecFrames
<1>5. g \in Granules
  BY <1>1, <1>4 DEF RecFrame, Entered, RecIInv, RecsOwned
<1>6. \A h \in Granules : rd'[h].recs = rd[h].recs
                         /\ rd'[h].state = IF h = g THEN "SYSTEM_OFF" ELSE rd[h].state
  <2>1. rd \in [Granules -> RdType]
    BY DEF WorldIInv, LockIInv, Types
  <2> HIDE DEF g
  <2> QED BY <1>1, <2>1 DEF RdType
<1>7. RecFrame(c)'
  BY <1>1, <1>2, <1>4, <1>5, <1>6 DEF RecFrame, Entered, Retiring, Closing
<1>8. RecsKept
  BY <1>1, <1>6 DEF RecsKept
<1> QED BY <1>1, <1>2, <1>3, <1>7, <1>8, RoleStep

(* A granule that is neither a RD nor a REC, and is not referenced, is     *)
(* zeroed and given back.                                                  *)
LEMMA GivenBack ==
  ASSUME WorldIInv, RecIInv, NEW c \in Cpus, Others(c), SameRole(c),
         f'[c].pc \in Retiring \cup Closing,
         f'[c].pc \in Retiring <=> f[c].pc \in Retiring,
         f'[c].pc \in Closing <=> f[c].pc \in Closing,
         f'[c].obj = f[c].obj, f'[c].rd = f[c].rd,
         NEW a \in Granules, state[a] \notin {"RD", "REC"}, refcount[a] = 0,
         ZeroOut({a}), state' = [state EXCEPT ![a] = "DELEGATED"], UNCHANGED refcount
  PROVE  RecIInv'
<1>1. RecsKept
  BY DEF RecsKept, ZeroOut
<1>2. \A g \in Granules : state'[g] # state[g] => g = a /\ state'[g] = "DELEGATED"
  BY DEF WorldIInv, LockIInv, Types
<1>3. RecFrame(c) /\ refcount[f[c].obj] = 0
  BY DEF RecIInv, RecFrames, RecFrame
<1>4. /\ f[c].obj \in Granules /\ state[f[c].obj] \in {"RD", "REC"}
      /\ f[c].pc \in Retiring => state[f[c].obj] = "REC"
  BY DestroyedObj
<1>5. RecFrame(c)'
  <2>1. f'[c].pc \notin Entered /\ f'[c].pc # "rx_put"
    BY DEF Retiring, Closing, Entered
  <2>2. f'[c].pc \in Retiring => f'[c].rd = rec'[f'[c].obj].rd
    BY <1>1, <1>3, <1>4 DEF RecFrame, RecsKept
  <2>3. f'[c].pc \notin {"en_run", "en_exit"}
    BY <2>1 DEF Entered
  <2> QED BY <2>1, <2>2, <2>3, <1>3 DEF RecFrame
<1>6. \A d \in Cpus : f'[d] = f[d] \/ (SameRole(d) /\ RecFrame(d)')
  BY <1>5 DEF Others
<1> QED BY <1>1, <1>2, <1>6, RecSame DEF NoRecChanges

LEMMA RealmDestroyRootRecs ==
  ASSUME WorldIInv, RecIInv, RootsUnused, NEW c \in Cpus, RealmDestroyRoot(c)
  PROVE  RecIInv'
<1> DEFINE fr == f[c]
           g  == fr.root + fr.i
           l  == IF LastRoot(fr) THEN "rd_free" ELSE "rd_roots"
           k  == fr.i + 1
           nf == [fr EXCEPT !.i = k, !.pc = l]
<1>1. /\ fr.pc = "rd_roots" /\ Become(c, nf) /\ UNCHANGED refcount /\ ZeroOut({g})
      /\ state' = [state EXCEPT ![g] = "DELEGATED"]
      /\ g \in Granules /\ state[g] = "RTT"
  BY DEF RealmDestroyRoot, At, CanLock
<1>2. refcount[g] = 0
  BY <1>1 DEF RootsUnused
<1>3. nf.pc \in {"rd_roots", "rd_free"} /\ nf.obj = fr.obj /\ nf.rd = fr.rd
  <2>1. fr \in Frame
    BY FramesAre DEF WorldIInv
  <2> HIDE DEF k
  <2> QED BY <2>1 DEF Frame
<1> HIDE DEF nf, g
<1>4. Others(c) /\ f'[c] = nf
  BY <1>1, FrameIs DEF WorldIInv
<1>5. SameRole(c) /\ nf.pc \in Closing /\ fr.pc \in Closing
      /\ nf.pc \notin Retiring /\ fr.pc \notin Retiring
  BY <1>1, <1>3, <1>4 DEF SameRole, Entered, Closing, Retiring
<1> QED BY <1>1, <1>2, <1>3, <1>4, <1>5, GivenBack

LEMMA RecDestroyAuxRecs ==
  ASSUME WorldIInv, RecIInv, NEW c \in Cpus, RecDestroyAux(c)
  PROVE  RecIInv'
<1> DEFINE fr == f[c]
           a  == fr.aux[fr.j + 1]
           k  == fr.j + 1
           l  == IF k = NumAux THEN "rx_free" ELSE "rx_aux"
           nf == [fr EXCEPT !.j = k, !.pc = l]
<1>1. /\ fr.pc = "rx_aux" /\ Become(c, nf) /\ UNCHANGED refcount /\ ZeroOut({a})
      /\ state' = [state EXCEPT ![a] = "DELEGATED"]
      /\ a \in Granules /\ state[a] = "REC_AUX"
  BY DEF RecDestroyAux, At, CanLock
<1>2. refcount[a] = 0
  BY <1>1, Uncounted
<1>3. nf.pc \in {"rx_aux", "rx_free"} /\ nf.obj = fr.obj /\ nf.rd = fr.rd
  <2>1. fr \in Frame
    BY FramesAre DEF WorldIInv
  <2> HIDE DEF k
  <2> QED BY <2>1 DEF Frame
<1> HIDE DEF nf, a
<1>4. Others(c) /\ f'[c] = nf
  BY <1>1, FrameIs DEF WorldIInv
<1>5. SameRole(c) /\ nf.pc \in Retiring /\ fr.pc \in Retiring
      /\ nf.pc \notin Closing /\ fr.pc \notin Closing
  BY <1>1, <1>3, <1>4 DEF SameRole, Entered, Closing, Retiring
<1> QED BY <1>1, <1>2, <1>3, <1>4, <1>5, GivenBack

---------------------------------------------------------------------------
(* Steps that make a RD or free one.  It has no reference then.            *)

LEMMA RealmCreateInitRecs ==
  ASSUME WorldIInv, RecIInv, NEW c \in Cpus, RealmCreateInit(c)
  PROVE  RecIInv'
<1> DEFINE fr == f[c]
           g  == fr.obj
           new == [state |-> "NEW", vmid |-> fr.vmid, root |-> fr.root, num |-> fr.num,
                   recs |-> 0]
           nf == [fr EXCEPT !.pc = "rc_roots", !.i = 0]
<1>1. /\ fr.pc = "rc_init" /\ fr.pc \notin Counting /\ Become(c, nf)
      /\ UNCHANGED <<refcount, rec>> /\ state' = [state EXCEPT ![g] = "RD"]
      /\ rd' = [rd EXCEPT ![g] = new]
  BY DEF RealmCreateInit, At, Counting, Entered
<1>2. nf.pc = "rc_roots"
  BY FramesAre DEF WorldIInv, Frame
<1>3. g \in Held(fr)
  <2>1. fr \in Frame /\ FrameOK(fr)
    BY DEF WorldIInv, LockIInv, Types, Locks
  <2>2. Held(fr) = RcHeld(fr)
    BY <1>1 DEF Held
  <2> QED BY <1>1, <2>1, <2>2, RcHeldAll DEF FrameOK
<1>4. g \in Granules /\ state[g] = "DELEGATED"
  <2>1. HeldState(fr, g) = "DELEGATED"
    BY <1>1 DEF HeldState, Walking
  <2> QED BY <1>3, <2>1, HeldIs
<1> HIDE DEF nf, g, new
<1>5. Others(c) /\ f'[c].pc \notin Heavy
  BY <1>1, <1>2, FrameIs DEF WorldIInv, Heavy, Counting, Entered, Retiring, Closing
<1>6. \A h \in Granules : h # g => state'[h] = state[h] /\ rd'[h] = rd[h]
  BY <1>1 DEF WorldIInv, LockIInv, Types
<1>7. state'[g] = "RD" /\ refcount[g] = 0
  BY <1>1, <1>4, Uncounted DEF WorldIInv, LockIInv, Types
<1>8. RecsKept
  BY <1>1, <1>4, <1>6 DEF RecsKept
<1>9. NoRecChanges
  BY <1>1, <1>4, <1>6, <1>7 DEF NoRecChanges
<1> QED BY <1>1, <1>5, <1>8, <1>9, PlainStep

LEMMA RealmDestroyFreeRecs ==
  ASSUME WorldIInv, RecIInv, NEW c \in Cpus, RealmDestroyFree(c)
  PROVE  RecIInv'
<1> DEFINE g == f[c].obj
<1>1. /\ f[c].pc = "rd_free" /\ f[c].pc \notin Counting /\ Return(c) /\ ZeroOut({g})
      /\ UNCHANGED refcount /\ state' = [state EXCEPT ![g] = "DELEGATED"]
  BY DEF RealmDestroyFree, At, Counting, Entered
<1>2. g \in Granules /\ state[g] = "RD"
  BY <1>1, HeldObj
<1>3. refcount[g] = 0
  BY <1>1 DEF RecIInv, RecFrames, RecFrame, Closing
<1> HIDE DEF g
<1>4. state'[g] = "DELEGATED" /\ \A h \in Granules : h # g => state'[h] = state[h]
  BY <1>1, <1>2 DEF WorldIInv, LockIInv, Types
<1>5. Others(c) /\ f'[c].pc \notin Heavy
  BY <1>1, ReturnsIdle DEF WorldIInv, Heavy, Counting, Entered, Retiring, Closing
<1>6. RecsKept
  BY <1>1, <1>2, <1>4 DEF RecsKept, ZeroOut
<1>7. NoRecChanges
  BY <1>1, <1>2, <1>3, <1>4 DEF NoRecChanges
<1> QED BY <1>1, <1>5, <1>6, <1>7, PlainStep

---------------------------------------------------------------------------
(* Steps that make a REC, free it, or count a reference                    *)

LEMMA RecCreateBodyRecs ==
  ASSUME WorldIInv, RecIInv, NEW c \in Cpus, NEW b, RecCreateBody(c, b)
  PROVE  RecIInv'
<1>0. PICK r, g : r = f[c].obj /\ g = f[c].rd
  OBVIOUS
<1> DEFINE new == [rd |-> g, idx |-> rd[g].recs, aux |-> f[c].aux, runnable |-> b]
<1>1. /\ f[c].pc = "rn_body" /\ Return(c)
      /\ rec' = [rec EXCEPT ![r] = new] /\ state' = [state EXCEPT ![r] = "REC"]
      /\ rd' = [rd EXCEPT ![g].recs = rd[g].recs + 1]
      /\ refcount' = [refcount EXCEPT ![g] = refcount[g] + 1]
  BY <1>0 DEF RecCreateBody, CountRec, GetRd, At
<1>2. /\ r \in Granules /\ lock[r] = c /\ state[r] = "DELEGATED"
      /\ g \in Granules /\ lock[g] = c /\ state[g] = "RD" /\ r # g
  <2>1. r # g
    BY <1>0, <1>1 DEF WorldIInv, LockIInv, Locks, FrameOK
  <2>2. r \in Held(f[c]) /\ g \in Held(f[c])
    BY <1>0, <1>1 DEF Held
  <2>3. HeldState(f[c], r) = "DELEGATED" /\ HeldState(f[c], g) = "RD"
    BY <1>0, <1>1, <2>1 DEF HeldState, Walking, Expected
  <2> QED BY <2>1, <2>2, <2>3, HeldIs
<1>3. new.rd = g /\ new.idx = rd[g].recs
  OBVIOUS
<1> HIDE DEF new
<1>4. /\ state'[r] = "REC" /\ rec'[r].rd = g /\ rec'[r].idx = rd[g].recs
      /\ rd'[g].recs = rd[g].recs + 1 /\ rd'[g].state = rd[g].state
      /\ refcount'[g] = refcount[g] + 1
      /\ rd[g].recs \in Nat
  <2>1. rd \in [Granules -> RdType] /\ state \in [Granules -> States]
        /\ rec \in [Granules -> RecType] /\ refcount \in [Granules -> Int]
    BY DEF WorldIInv, LockIInv, Types
  <2>2. rd[g] \in RdType
    BY <1>2, <2>1
  <2> QED BY <1>1, <1>2, <1>3, <2>1, <2>2 DEF RdType
<1>5. \A h \in Granules : /\ h # r => state'[h] = state[h] /\ rec'[h] = rec[h]
                          /\ h # g => refcount'[h] = refcount[h] /\ rd'[h] = rd[h]
  BY <1>1, <1>2 DEF WorldIInv, LockIInv, Types
<1>6. Others(c) /\ f'[c].pc = "idle"
  BY <1>1, ReturnsIdle DEF WorldIInv
<1>7. RecsOwned'
  <2>1. \A q \in Granules : state[q] = "REC" =>
          /\ rec[q].rd \in Granules /\ state[rec[q].rd] = "RD"
          /\ rec[q].idx < rd[rec[q].rd].recs
          /\ \A p \in Granules : state[p] = "REC" /\ rec[p].rd = rec[q].rd
                                 /\ rec[p].idx = rec[q].idx => p = q
    BY DEF RecIInv, RecsOwned, RecsBelongToRealm, Recs
  <2>2. \A q \in Granules : state[q] = "REC" => rec[q].idx \in Nat
    BY DEF WorldIInv, LockIInv, Types, RecType
  <2>3. ASSUME NEW q \in Granules, state'[q] = "REC"
        PROVE  /\ rec'[q].rd \in Granules /\ state'[rec'[q].rd] = "RD"
               /\ rec'[q].idx < rd'[rec'[q].rd].recs
    <3>1. CASE q = r
      BY <1>2, <1>4, <1>5, <3>1
    <3>2. CASE q # r
      <4>1. state[q] = "REC" /\ rec'[q] = rec[q] /\ rec[q].rd # r
        BY <1>2, <1>5, <2>1, <2>3, <3>2
      <4>2. CASE rec[q].rd = g
        BY <1>2, <1>4, <1>5, <2>1, <2>2, <4>1, <4>2
      <4>3. CASE rec[q].rd # g
        BY <1>5, <2>1, <4>1, <4>3
      <4> QED BY <4>2, <4>3
    <3> QED BY <3>1, <3>2
  <2>4. ASSUME NEW q \in Granules, state'[q] = "REC", NEW p \in Granules, state'[p] = "REC",
               rec'[p].rd = rec'[q].rd, rec'[p].idx = rec'[q].idx
        PROVE  p = q
    <3>1. CASE p # r /\ q # r
      BY <1>5, <2>1, <2>4, <3>1
    <3>2. ASSUME NEW x \in Granules, state'[x] = "REC", x # r, rec'[x].rd = g
          PROVE  rec'[x].idx # rec'[r].idx
      BY <1>4, <1>5, <2>1, <2>2, <3>2
    <3> QED BY <1>2, <1>4, <2>4, <3>1, <3>2
  <2> QED BY <2>3, <2>4 DEF RecsOwned, RecsBelongToRealm, Recs
<1>8. EnteredAlone'
  BY <1>6 DEF Others, EnteredAlone, Entered, RecIInv
<1>9. RecFrames'
  <2> SUFFICES ASSUME NEW d \in Cpus PROVE RecFrame(d)'
    BY DEF RecFrames
  <2>1. CASE d = c
    BY <1>6, <2>1 DEF RecFrame, Entered, Retiring, Closing
  <2>2. CASE d # c
    <3>1. f'[d] = f[d] /\ RecFrame(d)
      BY <1>6, <2>2 DEF Others, RecIInv, RecFrames
    <3>2. f[d].pc = "rx_put" => state'[f[d].rd] = "RD"
      BY <1>2, <1>5, <3>1 DEF RecFrame
    <3>3. ASSUME f[d].pc \in Entered
          PROVE  /\ state'[f[d].obj] = "REC" /\ rec'[f[d].obj].rd = rec[f[d].obj].rd
                 /\ LET k == rec[f[d].obj].rd IN rd[k].state # "NEW" => rd'[k].state # "NEW"
      <4>1. f[d].obj \in Granules /\ state[f[d].obj] = "REC" /\ rec[f[d].obj].rd \in Granules
        BY <3>1, <3>3, RdUsed DEF RecFrame
      <4> QED BY <1>2, <1>4, <1>5, <4>1
    <3>4. ASSUME f[d].pc \in Retiring \cup Closing
          PROVE  /\ refcount'[f[d].obj] = refcount[f[d].obj]
                 /\ f[d].pc \in Retiring => rec'[f[d].obj].rd = rec[f[d].obj].rd
      BY <1>2, <1>5, <2>2, <3>4, DestroyedObj
    <3> QED BY <3>1, <3>2, <3>3, <3>4, KeptFrame
  <2> QED BY <2>1, <2>2
<1>10. RecsCounted'
  <2>1. \A h : Putting(h)' = Putting(h) /\ Inside(h)' = Inside(h)
    <3>1. /\ \A d \in Cpus : f[d].pc = "rx_put" <=> f'[d].pc = "rx_put"
          /\ \A d \in Cpus : f[d].pc \in Entered <=> f'[d].pc \in Entered
          /\ \A d \in Cpus : f[d].pc \in Entered \cup {"rx_put"} => f'[d] = f[d]
      BY <1>1, <1>6 DEF Others, Entered
    <3> QED BY <3>1 DEF Putting, Inside, Entered
  <2>2. Recs(g)' = Recs(g) \cup {r} /\ r \notin Recs(g)
    <3>1. \A q : q \in Recs(g)' <=> q \in Recs(g) \/ q = r
      BY <1>2, <1>4, <1>5 DEF Recs
    <3>2. r \notin Recs(g)
      BY <1>2 DEF Recs
    <3> QED BY <3>1, <3>2
  <2>3. \A h \in Granules : h # g => Recs(h)' = Recs(h)
    BY <1>2, <1>4, <1>5 DEF Recs
  <2>4. Cardinality(Recs(g) \cup {r}) = Cardinality(Recs(g)) + 1
    BY <2>2, CountedSets, FS_AddElement
  <2>5. Cardinality(Inside(r)) = 0
    BY <1>2, NoRec, FS_EmptySet
  <2>6. refcount[r] = 0
    BY <1>2, Uncounted
  <2> SUFFICES ASSUME NEW h \in Granules
               PROVE  /\ state'[h] = "RD" => refcount'[h] = Cardinality(Recs(h)') + Cardinality(Putting(h)')
                      /\ state'[h] = "REC" => refcount'[h] = Cardinality(Inside(h)')
                      /\ state'[h] \notin {"RD", "REC", "RTT"} => refcount'[h] = 0
    BY DEF RecsCounted
  <2>7. /\ state[h] = "RD" => refcount[h] = Cardinality(Recs(h)) + Cardinality(Putting(h))
        /\ state[h] = "REC" => refcount[h] = Cardinality(Inside(h))
        /\ state[h] \notin {"RD", "REC", "RTT"} => refcount[h] = 0
    BY DEF RecIInv, RecsCounted
  <2>8. CASE h = g
    <3>1. state'[g] = "RD" /\ refcount'[g] = refcount[g] + 1
      BY <1>2, <1>4, <1>5
    <3>2. /\ refcount[g] = Cardinality(Recs(g)) + Cardinality(Putting(g))
          /\ Cardinality(Recs(g)) \in Nat /\ Cardinality(Putting(g)) \in Nat
      BY <1>2, <2>7, <2>8, CountedSets
    <3>3. refcount'[g] = Cardinality(Recs(g)') + Cardinality(Putting(g)')
      BY <2>1, <2>2, <2>4, <3>1, <3>2
    <3> QED BY <2>8, <3>1, <3>3
  <2>9. CASE h = r
    BY <1>2, <1>4, <1>5, <2>1, <2>5, <2>6, <2>9
  <2>10. CASE h # g /\ h # r
    BY <1>5, <2>1, <2>3, <2>7, <2>10
  <2> QED BY <2>8, <2>9, <2>10
<1> QED BY <1>7, <1>8, <1>9, <1>10 DEF RecIInv

LEMMA RecDestroyFreeRecs ==
  ASSUME WorldIInv, RecIInv, NEW c \in Cpus, RecDestroyFree(c)
  PROVE  RecIInv'
<1>0. PICK r, g : r = f[c].obj /\ g = f[c].rd
  OBVIOUS
<1>1. /\ f[c].pc = "rx_free" /\ Goto(c, "rx_put") /\ ZeroOut({r})
      /\ state' = [state EXCEPT ![r] = "DELEGATED"] /\ UNCHANGED refcount
  BY <1>0 DEF RecDestroyFree, At
<1>2. /\ r \in Granules /\ lock[r] = c /\ state[r] = "REC"
      /\ refcount[r] = 0 /\ g = rec[r].rd
  BY <1>0, <1>1, HeldObj DEF RecIInv, RecFrames, RecFrame, Retiring
<1>3. g \in Granules /\ state[g] = "RD" /\ g # r
  BY <1>2, RdUsed
<1>4. state'[r] = "DELEGATED" /\ \A h \in Granules : h # r => state'[h] = state[h]
  BY <1>1, <1>2 DEF WorldIInv, LockIInv, Types
<1>5. \A h \in Granules : h # r => rec'[h] = rec[h] /\ rd'[h] = rd[h]
  BY <1>1 DEF ZeroOut
<1>6. Others(c) /\ f'[c].pc = "rx_put" /\ f'[c].rd = g
  BY <1>0, <1>1, Gotos DEF WorldIInv
<1>7. \A d \in Cpus : f[d].pc \in Entered => f[d].obj \in Granules /\ f[d].obj # r
                                             /\ state[f[d].obj] = "REC"
  <2>1. Inside(r) = {}
    BY <1>2, RecCount
  <2> QED BY <2>1, InsideIs DEF RecIInv, RecFrames, RecFrame
<1>8. RecsOwned'
  <2>1. \A q \in Granules : state[q] = "REC" =>
          /\ rec[q].rd \in Granules /\ state[rec[q].rd] = "RD"
          /\ rec[q].idx < rd[rec[q].rd].recs
          /\ \A p \in Granules : state[p] = "REC" /\ rec[p].rd = rec[q].rd
                                 /\ rec[p].idx = rec[q].idx => p = q
    BY DEF RecIInv, RecsOwned, RecsBelongToRealm, Recs
  <2>2. \A q \in Granules : state'[q] = "REC" => state[q] = "REC" /\ q # r /\ rec'[q] = rec[q]
    BY <1>4, <1>5
  <2>3. \A h \in Granules : state[h] = "RD" => state'[h] = "RD" /\ rd'[h] = rd[h]
    BY <1>2, <1>4, <1>5
  <2>4. ASSUME NEW q \in Granules, state'[q] = "REC"
        PROVE  /\ rec'[q].rd \in Granules /\ state'[rec'[q].rd] = "RD"
               /\ rec'[q].idx < rd'[rec'[q].rd].recs
               /\ \A p \in Granules : state'[p] = "REC" /\ rec'[p].rd = rec'[q].rd
                                      /\ rec'[p].idx = rec'[q].idx => p = q
    BY <2>1, <2>2, <2>3, <2>4
  <2> QED BY <2>4 DEF RecsOwned, RecsBelongToRealm, Recs
<1>9. EnteredAlone'
  BY <1>6 DEF Others, EnteredAlone, Entered, RecIInv
<1>10. RecFrames'
  <2> SUFFICES ASSUME NEW d \in Cpus PROVE RecFrame(d)'
    BY DEF RecFrames
  <2>1. CASE d = c
    <3>1. state'[g] = "RD"
      BY <1>3, <1>4
    <3> QED BY <1>3, <1>6, <2>1, <3>1 DEF RecFrame, Entered, Retiring, Closing
  <2>2. CASE d # c
    <3>1. f'[d] = f[d] /\ RecFrame(d)
      BY <1>6, <2>2 DEF Others, RecIInv, RecFrames
    <3>2. f[d].pc = "rx_put" => state'[f[d].rd] = "RD"
      BY <1>2, <1>4, <3>1 DEF RecFrame
    <3>3. ASSUME f[d].pc \in Entered
          PROVE  /\ state'[f[d].obj] = "REC" /\ rec'[f[d].obj].rd = rec[f[d].obj].rd
                 /\ LET k == rec[f[d].obj].rd IN rd[k].state # "NEW" => rd'[k].state # "NEW"
      <4>1. /\ f[d].obj \in Granules /\ state[f[d].obj] = "REC" /\ f[d].obj # r
            /\ rec[f[d].obj].rd \in Granules /\ state[rec[f[d].obj].rd] = "RD"
        BY <1>7, <3>3, RdUsed
      <4> QED BY <1>2, <1>4, <1>5, <4>1
    <3>4. ASSUME f[d].pc \in Retiring \cup Closing
          PROVE  /\ refcount'[f[d].obj] = refcount[f[d].obj]
                 /\ f[d].pc \in Retiring => rec'[f[d].obj].rd = rec[f[d].obj].rd
      BY <1>1, <1>2, <1>5, <2>2, <3>4, DestroyedObj
    <3> QED BY <3>1, <3>2, <3>3, <3>4, KeptFrame
  <2> QED BY <2>1, <2>2
<1>11. RecsCounted'
  <2>1. \A h : Inside(h)' = Inside(h)
    <3>1. /\ \A d \in Cpus : f[d].pc \in Entered <=> f'[d].pc \in Entered
          /\ \A d \in Cpus : f[d].pc \in Entered => f'[d] = f[d]
      BY <1>1, <1>6 DEF Others, Entered
    <3> QED BY <3>1 DEF Inside, Entered
  <2>2. Recs(g)' = Recs(g) \ {r} /\ r \in Recs(g)
    <3>1. \A q : q \in Recs(g)' <=> q \in Recs(g) /\ q # r
      BY <1>4, <1>5 DEF Recs
    <3>2. r \in Recs(g)
      BY <1>2 DEF Recs
    <3> QED BY <3>1, <3>2
  <2>3. Putting(g)' = Putting(g) \cup {c} /\ c \notin Putting(g)
    <3>1. \A d : d \in Putting(g)' <=> d \in Putting(g) \/ d = c
      BY <1>1, <1>6 DEF Putting, Others
    <3>2. c \notin Putting(g)
      BY <1>1 DEF Putting
    <3> QED BY <3>1, <3>2
  <2>4. \A h \in Granules : h # g => Recs(h)' = Recs(h)
    <3> SUFFICES ASSUME NEW h \in Granules, h # g PROVE Recs(h)' = Recs(h)
      OBVIOUS
    <3>1. \A q : q \in Recs(h)' <=> q \in Recs(h)
      BY <1>2, <1>4, <1>5 DEF Recs
    <3> QED BY <3>1
  <2>5. \A h \in Granules : h # g => Putting(h)' = Putting(h)
    <3> SUFFICES ASSUME NEW h \in Granules, h # g PROVE Putting(h)' = Putting(h)
      OBVIOUS
    <3>1. \A d : d \in Putting(h)' <=> d \in Putting(h)
      BY <1>1, <1>6 DEF Putting, Others
    <3> QED BY <3>1
  <2>6. /\ Cardinality(Recs(g) \ {r}) = Cardinality(Recs(g)) - 1
        /\ Cardinality(Putting(g) \cup {c}) = Cardinality(Putting(g)) + 1
    BY <2>2, <2>3, CountedSets, FS_AddElement, FS_RemoveElement
  <2> SUFFICES ASSUME NEW h \in Granules
               PROVE  /\ state'[h] = "RD" => refcount'[h] = Cardinality(Recs(h)') + Cardinality(Putting(h)')
                      /\ state'[h] = "REC" => refcount'[h] = Cardinality(Inside(h)')
                      /\ state'[h] \notin {"RD", "REC", "RTT"} => refcount'[h] = 0
    BY DEF RecsCounted
  <2>7. /\ state[h] = "RD" => refcount[h] = Cardinality(Recs(h)) + Cardinality(Putting(h))
        /\ state[h] = "REC" => refcount[h] = Cardinality(Inside(h))
        /\ state[h] \notin {"RD", "REC", "RTT"} => refcount[h] = 0
    BY DEF RecIInv, RecsCounted
  <2>8. CASE h = g
    <3>1. state'[g] = "RD" /\ refcount'[g] = refcount[g]
      BY <1>1, <1>3, <1>4
    <3>2. /\ refcount[g] = Cardinality(Recs(g)) + Cardinality(Putting(g))
          /\ Cardinality(Recs(g)) \in Nat /\ Cardinality(Putting(g)) \in Nat
      BY <1>3, <2>7, <2>8, CountedSets
    <3>3. refcount'[g] = Cardinality(Recs(g)') + Cardinality(Putting(g)')
      BY <2>2, <2>3, <2>6, <3>1, <3>2
    <3> QED BY <2>8, <3>1, <3>3
  <2>9. CASE h = r
    BY <1>1, <1>2, <1>4, <2>9
  <2>10. CASE h # g /\ h # r
    BY <1>1, <1>4, <2>1, <2>4, <2>5, <2>7, <2>10
  <2> QED BY <2>8, <2>9, <2>10
<1> QED BY <1>8, <1>9, <1>10, <1>11 DEF RecIInv

(* One reference more or less to the granule g, all else the same *)
LEMMA CountOther ==
  ASSUME WorldIInv, RecIInv, UNCHANGED <<state, rd, rec>>, NEW g \in Granules,
         \A h \in Granules : h # g => refcount'[h] = refcount[h],
         NEW c \in Cpus, NEW d \in Cpus, Others(c), d # c,
         f[d].pc \in Retiring \cup Closing => f[d].obj # g
  PROVE  RecFrame(d)'
<1>1. f'[d] = f[d] /\ RecFrame(d)
  BY DEF Others, RecIInv, RecFrames
<1>2. f[d].pc \in Retiring \cup Closing => refcount'[f[d].obj] = refcount[f[d].obj]
  BY DestroyedObj
<1> QED BY <1>1, <1>2 DEF RecFrame

LEMMA RecDestroyPutRecs ==
  ASSUME WorldIInv, RecIInv, NEW c \in Cpus, RecDestroyPut(c)
  PROVE  RecIInv'
<1>0. PICK g : g = f[c].rd
  OBVIOUS
<1>1. /\ f[c].pc = "rx_put" /\ Return(c) /\ UNCHANGED <<state, rd, rec>>
      /\ refcount' = [refcount EXCEPT ![g] = refcount[g] - 1]
  BY <1>0 DEF RecDestroyPut, At
<1>2. g \in Granules /\ state[g] = "RD" /\ c \in Putting(g) /\ refcount[g] # 0
  BY <1>0, <1>1, RdUsed DEF Putting
<1>3. /\ refcount'[g] = refcount[g] - 1
      /\ \A h \in Granules : h # g => refcount'[h] = refcount[h]
  BY <1>1, <1>2 DEF WorldIInv, LockIInv, Types
<1>4. Others(c) /\ f'[c].pc = "idle"
  BY <1>1, ReturnsIdle DEF WorldIInv
<1>5. RecsOwned'
  BY <1>1 DEF RecIInv, RecsOwned, RecsBelongToRealm, Recs
<1>6. EnteredAlone'
  BY <1>4 DEF Others, EnteredAlone, Entered, RecIInv
<1>7. RecFrames'
  <2> SUFFICES ASSUME NEW d \in Cpus PROVE RecFrame(d)'
    BY DEF RecFrames
  <2>1. CASE d = c
    BY <1>4, <2>1 DEF RecFrame, Entered, Retiring, Closing
  <2>2. CASE d # c
    <3>1. f[d].pc \in Retiring \cup Closing => f[d].obj # g
      BY <1>2, DestroyedObj DEF RecIInv, RecFrames, RecFrame
    <3> QED BY <1>1, <1>2, <1>3, <1>4, <2>2, <3>1, CountOther
  <2> QED BY <2>1, <2>2
<1>8. RecsCounted'
  <2>1. \A h : Inside(h)' = Inside(h)
    <3>1. /\ \A d \in Cpus : f[d].pc \in Entered <=> f'[d].pc \in Entered
          /\ \A d \in Cpus : f[d].pc \in Entered => f'[d] = f[d]
      BY <1>1, <1>4 DEF Others, Entered
    <3> QED BY <3>1 DEF Inside, Entered
  <2>2. \A h : Recs(h)' = Recs(h)
    BY <1>1 DEF Recs
  <2>3. Putting(g)' = Putting(g) \ {c}
    <3>1. \A d : d \in Putting(g)' <=> d \in Putting(g) /\ d # c
      BY <1>4 DEF Putting, Others
    <3> QED BY <3>1
  <2>4. \A h \in Granules : h # g => Putting(h)' = Putting(h)
    <3> SUFFICES ASSUME NEW h \in Granules, h # g PROVE Putting(h)' = Putting(h)
      OBVIOUS
    <3>1. \A d : d \in Putting(h)' <=> d \in Putting(h)
      BY <1>0, <1>4 DEF Putting, Others
    <3> QED BY <3>1
  <2>5. Cardinality(Putting(g) \ {c}) = Cardinality(Putting(g)) - 1
    BY <1>2, CountedSets, FS_RemoveElement
  <2> SUFFICES ASSUME NEW h \in Granules
               PROVE  /\ state'[h] = "RD" => refcount'[h] = Cardinality(Recs(h)') + Cardinality(Putting(h)')
                      /\ state'[h] = "REC" => refcount'[h] = Cardinality(Inside(h)')
                      /\ state'[h] \notin {"RD", "REC", "RTT"} => refcount'[h] = 0
    BY DEF RecsCounted
  <2>7. /\ state[h] = "RD" => refcount[h] = Cardinality(Recs(h)) + Cardinality(Putting(h))
        /\ state[h] = "REC" => refcount[h] = Cardinality(Inside(h))
        /\ state[h] \notin {"RD", "REC", "RTT"} => refcount[h] = 0
    BY DEF RecIInv, RecsCounted
  <2>8. CASE h = g
    <3>2. /\ refcount[g] = Cardinality(Recs(g)) + Cardinality(Putting(g))
          /\ Cardinality(Recs(g)) \in Nat /\ Cardinality(Putting(g)) \in Nat
      BY <1>2, <2>7, <2>8, CountedSets
    <3>3. refcount'[g] = Cardinality(Recs(g)') + Cardinality(Putting(g)')
      BY <1>3, <2>2, <2>3, <2>5, <3>2
    <3> QED BY <1>1, <1>2, <2>8, <3>3
  <2>9. CASE h # g
    BY <1>1, <1>3, <2>1, <2>2, <2>4, <2>7, <2>9
  <2> QED BY <2>8, <2>9
<1> QED BY <1>5, <1>6, <1>7, <1>8 DEF RecIInv

LEMMA RecEnterRecs ==
  ASSUME WorldIInv, RecIInv, NEW c \in Cpus, NEW r \in Granules, NEW b \in Granules,
         RecEnter(c, r, b)
  PROVE  RecIInv'
<1> DEFINE nf == [IdleFrame EXCEPT !.pc = "en_read", !.obj = r, !.buf = b]
<1>1. /\ f[c].pc = "idle" /\ Become(c, nf) /\ UNCHANGED <<state, rd, rec>>
      /\ refcount' = [refcount EXCEPT ![r] = 1]
      /\ state[r] = "REC" /\ lock[r] = NoCpu /\ refcount[r] = 0
  BY DEF RecEnter, Idle, CanLockUnused, CanLock, Free
<1>2. nf.pc = "en_read" /\ nf.obj = r
  BY DEF IdleFrame
<1> HIDE DEF nf
<1>3. /\ refcount'[r] = 1
      /\ \A h \in Granules : h # r => refcount'[h] = refcount[h]
  BY <1>1 DEF WorldIInv, LockIInv, Types
<1>4. Others(c) /\ f'[c].pc = "en_read" /\ f'[c].obj = r
  BY <1>1, <1>2, FrameIs DEF WorldIInv
<1>5. RecsOwned'
  BY <1>1 DEF RecIInv, RecsOwned, RecsBelongToRealm, Recs
<1>6. \A d \in Cpus : ~(f[d].pc \in Entered /\ f[d].obj = r)
  <2>1. Inside(r) = {}
    BY <1>1, RecCount
  <2> QED BY <2>1, InsideIs
<1>7. EnteredAlone'
  <2> SUFFICES ASSUME NEW x \in Cpus, NEW y \in Cpus,
                      f'[x].pc \in Entered, f'[y].pc \in Entered, f'[x].obj = f'[y].obj
               PROVE  x = y
    BY DEF EnteredAlone
  <2>1. CASE x # c /\ y # c
    BY <1>4, <2>1 DEF Others, EnteredAlone, RecIInv
  <2>2. CASE x = c \/ y = c
    BY <1>4, <1>6, <2>2 DEF Others
  <2> QED BY <2>1, <2>2
<1>8. RecFrames'
  <2> SUFFICES ASSUME NEW d \in Cpus PROVE RecFrame(d)'
    BY DEF RecFrames
  <2>1. CASE d = c
    BY <1>1, <1>4, <2>1 DEF RecFrame, Entered, Retiring, Closing
  <2>2. CASE d # c
    <3>1. f[d].pc \in Retiring \cup Closing => f[d].obj # r
      BY <1>1, DestroyedObj, GranuleAssumption
    <3> QED BY <1>1, <1>3, <1>4, <2>2, <3>1, CountOther
  <2> QED BY <2>1, <2>2
<1>9. RecsCounted'
  <2>1. \A h : Putting(h)' = Putting(h)
    <3> SUFFICES ASSUME NEW h PROVE Putting(h)' = Putting(h)
      OBVIOUS
    <3>1. \A d : d \in Putting(h)' <=> d \in Putting(h)
      BY <1>1, <1>4 DEF Putting, Others
    <3> QED BY <3>1
  <2>2. \A h : Recs(h)' = Recs(h)
    BY <1>1 DEF Recs
  <2>3. Inside(r)' = {c}
    <3>1. \A d : d \in Inside(r)' <=> d = c
      BY <1>4, <1>6 DEF Inside, Others, Entered
    <3> QED BY <3>1
  <2>4. \A h \in Granules : h # r => Inside(h)' = Inside(h)
    <3> SUFFICES ASSUME NEW h \in Granules, h # r PROVE Inside(h)' = Inside(h)
      OBVIOUS
    <3>1. \A d : d \in Inside(h)' <=> d \in Inside(h)
      BY <1>1, <1>4 DEF Inside, Others
    <3> QED BY <3>1
  <2>5. Cardinality({c}) = 1
    BY FS_Singleton
  <2> SUFFICES ASSUME NEW h \in Granules
               PROVE  /\ state'[h] = "RD" => refcount'[h] = Cardinality(Recs(h)') + Cardinality(Putting(h)')
                      /\ state'[h] = "REC" => refcount'[h] = Cardinality(Inside(h)')
                      /\ state'[h] \notin {"RD", "REC", "RTT"} => refcount'[h] = 0
    BY DEF RecsCounted
  <2>7. /\ state[h] = "RD" => refcount[h] = Cardinality(Recs(h)) + Cardinality(Putting(h))
        /\ state[h] = "REC" => refcount[h] = Cardinality(Inside(h))
        /\ state[h] \notin {"RD", "REC", "RTT"} => refcount[h] = 0
    BY DEF RecIInv, RecsCounted
  <2>8. CASE h = r
    BY <1>1, <1>3, <2>3, <2>5, <2>8
  <2>9. CASE h # r
    BY <1>1, <1>3, <2>1, <2>2, <2>4, <2>7, <2>9
  <2> QED BY <2>8, <2>9
<1> QED BY <1>5, <1>7, <1>8, <1>9 DEF RecIInv

LEMMA EnterPutRecs ==
  ASSUME WorldIInv, RecIInv, NEW c \in Cpus, EnterPut(c)
  PROVE  RecIInv'
<1>0. PICK r : r = f[c].obj
  OBVIOUS
<1>1. /\ f[c].pc = "en_put" /\ Return(c) /\ UNCHANGED <<state, rd, rec>>
      /\ refcount' = [refcount EXCEPT ![r] = refcount[r] - 1]
  BY <1>0 DEF EnterPut, At
<1>2. r \in Granules /\ state[r] = "REC" /\ c \in Inside(r)
  BY <1>0, <1>1, InsideIs DEF RecIInv, RecFrames, RecFrame, Entered
<1>3. Inside(r) = {c} /\ refcount[r] = 1
  BY <1>2, RecCount
<1>4. /\ refcount'[r] = 0
      /\ \A h \in Granules : h # r => refcount'[h] = refcount[h]
  BY <1>1, <1>2, <1>3 DEF WorldIInv, LockIInv, Types
<1>5. Others(c) /\ f'[c].pc = "idle"
  BY <1>1, ReturnsIdle DEF WorldIInv
<1>6. RecsOwned'
  BY <1>1 DEF RecIInv, RecsOwned, RecsBelongToRealm, Recs
<1>7. EnteredAlone'
  BY <1>5 DEF Others, EnteredAlone, Entered, RecIInv
<1>8. RecFrames'
  <2> SUFFICES ASSUME NEW d \in Cpus PROVE RecFrame(d)'
    BY DEF RecFrames
  <2>1. CASE d = c
    BY <1>5, <2>1 DEF RecFrame, Entered, Retiring, Closing
  <2>2. CASE d # c
    <3>1. f[d].pc \in Retiring \cup Closing => f[d].obj # r
      BY <1>3 DEF RecIInv, RecFrames, RecFrame
    <3> QED BY <1>1, <1>2, <1>4, <1>5, <2>2, <3>1, CountOther
  <2> QED BY <2>1, <2>2
<1>9. RecsCounted'
  <2>1. \A h : Putting(h)' = Putting(h)
    <3> SUFFICES ASSUME NEW h PROVE Putting(h)' = Putting(h)
      OBVIOUS
    <3>1. \A d : d \in Putting(h)' <=> d \in Putting(h)
      BY <1>1, <1>5 DEF Putting, Others
    <3> QED BY <3>1
  <2>2. \A h : Recs(h)' = Recs(h)
    BY <1>1 DEF Recs
  <2>3. Inside(r)' = {}
    <3>1. \A d : d \notin Inside(r)'
      <4>1. \A d \in Cpus : d # c => ~(f[d].pc \in Entered /\ f[d].obj = r)
        BY <1>3, InsideIs
      <4> QED BY <1>5, <4>1 DEF Inside, Others, Entered
    <3> QED BY <3>1
  <2>4. \A h \in Granules : h # r => Inside(h)' = Inside(h)
    <3> SUFFICES ASSUME NEW h \in Granules, h # r PROVE Inside(h)' = Inside(h)
      OBVIOUS
    <3>1. \A d : d \in Inside(h)' <=> d \in Inside(h)
      BY <1>0, <1>5 DEF Inside, Others
    <3> QED BY <3>1
  <2>5. Cardinality({}) = 0
    BY FS_EmptySet
  <2> SUFFICES ASSUME NEW h \in Granules
               PROVE  /\ state'[h] = "RD" => refcount'[h] = Cardinality(Recs(h)') + Cardinality(Putting(h)')
                      /\ state'[h] = "REC" => refcount'[h] = Cardinality(Inside(h)')
                      /\ state'[h] \notin {"RD", "REC", "RTT"} => refcount'[h] = 0
    BY DEF RecsCounted
  <2>7. /\ state[h] = "RD" => refcount[h] = Cardinality(Recs(h)) + Cardinality(Putting(h))
        /\ state[h] = "REC" => refcount[h] = Cardinality(Inside(h))
        /\ state[h] \notin {"RD", "REC", "RTT"} => refcount[h] = 0
    BY DEF RecIInv, RecsCounted
  <2>8. CASE h = r
    BY <1>1, <1>2, <1>4, <2>3, <2>5, <2>8
  <2>9. CASE h # r
    BY <1>1, <1>4, <2>1, <2>2, <2>4, <2>7, <2>9
  <2> QED BY <2>8, <2>9
<1> QED BY <1>6, <1>7, <1>8, <1>9 DEF RecIInv

---------------------------------------------------------------------------

LEMMA RecInit == Init => RecIInv
<1> SUFFICES ASSUME Init PROVE RecIInv
  OBVIOUS
<1>1. \A g \in Granules : state[g] \notin {"RD", "REC"} /\ refcount[g] = 0
  BY DEF Init
<1>2. \A c \in Cpus : f[c].pc = "idle"
  BY DEF Init, IdleFrame
<1>3. RecsOwned
  BY <1>1 DEF RecsOwned, RecsBelongToRealm
<1>4. EnteredAlone /\ RecFrames
  BY <1>2 DEF EnteredAlone, RecFrames, RecFrame, Entered, Retiring, Closing
<1>5. RecsCounted
  BY <1>1 DEF RecsCounted
<1> QED BY <1>3, <1>4, <1>5 DEF RecIInv

LEMMA RecStartStep ==
  ASSUME WorldIInv, RecIInv, NEW c \in Cpus, Start(c)
  PROVE  RecIInv'
  BY GranuleDelegateRecs, RecQuietStarts, RealmDestroyRecs, RecDestroyRecs, RecEnterRecs
  DEF Start

LEMMA RecCreateStepRecs ==
  ASSUME WorldIInv, RecIInv, NEW c \in Cpus, RecCreateStep(c)
  PROVE  RecIInv'
  BY RecCreateAuxRecs, RecQuietGotos, RecQuietLock1 DEF RecCreateStep

LEMMA RecWorkStep ==
  ASSUME WorldIInv, RecIInv, RootsUnused, NEW c \in Cpus, Work(c)
  PROVE  RecIInv'
  BY RecQuietReturns, RecQuietFails, RecQuietGotos, RecQuietRealmLocks, RecQuietWalks,
     DelegateZeroRecs, UndelegateStateRecs, RealmCreateInitRecs, RealmCreateRootRecs,
     RealmDestroyCountRecs, RealmDestroyRootRecs, RealmDestroyFreeRecs,
     RecCreateBodyRecs, RecCreateUndoRecs, RecDestroyAuxRecs, RecDestroyFreeRecs,
     RecDestroyPutRecs, EnterReadRecs, EnterCheckRecs, EnterPutRecs,
     RttCreateEndRecs, RttDestroyEndRecs
  DEF Work

LEMMA RecStep ==
  ASSUME WorldIInv, RecIInv, RootsUnused, [Next]_vars
  PROVE  RecIInv'
<1>1. CASE UNCHANGED vars
  <2>1. UNCHANGED <<state, refcount, rd, rec, f>>
    BY <1>1 DEF vars
  <2>2. RecsKept /\ NoRecChanges
    BY <2>1 DEF RecsKept, NoRecChanges
  <2> QED BY <2>1, <2>2, RecSame
<1>2. ASSUME NEW g \in Granules, HostWrite(g) \/ RealmActivate(g) PROVE RecIInv'
  BY <1>2, HostWriteRecs, RealmActivateRecs
<1>3. ASSUME NEW c \in Cpus, Start(c) \/ RecCreateStep(c) \/ Work(c) \/ RealmRuns(c)
      PROVE  RecIInv'
  BY <1>3, RecStartStep, RecCreateStepRecs, RecWorkStep, SystemOffRecs, EnterRunRecs
  DEF RealmRuns
<1> QED BY <1>1, <1>2, <1>3 DEF Next
=============================================================================
