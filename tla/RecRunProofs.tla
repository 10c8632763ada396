---------------------------- MODULE RecRunProofs ----------------------------
(***************************************************************************)
(* Proofs about RecRun for any number of CPUs and RECs: types, that a REC  *)
(* is entered once, that each CPU allocates from the heap of the REC it    *)
(* runs, that PSCI_COMPLETE leaves running RECs alone, who owns the FPU,   *)
(* that no instruction of the realm is skipped, that an attestation token  *)
(* is of one measurement, and that RecRun implements Vcpu.                 *)
(*                                                                         *)
(* Two kinds of step change a REC.  A CPU that has entered it rewrites it  *)
(* (Rewrites, which all the handlers of exits come down to); a CPU that    *)
(* has locked it while its count is zero answers a PSCI request.           *)
(***************************************************************************)
EXTENDS RecRun, TLAPS

Entering == {"read", "admit"}
Looping  == {"guest", "extend", "token", "leave", "save"}
Inner    == {"guest", "extend", "token"}
Holding  == Entering \cup Looping
Locking  == {"psci", "turn_on", "answer"}

CpuType == [pc : Labels, rec : Recs \cup {NoRec}, target : Recs \cup {NoRec}, rem : 0 .. Torn]
FpuType == [of : Recs \cup {NoRec}, ns : Recs \cup {NoRec}, trap : BOOLEAN]
RdType  == [off : BOOLEAN, lock : Cpus \cup {NoCpu}, rem : 0 .. Torn]

(* The last exit lets the host emulate an access or inject an abort. *)
Emulable(x) == "dabt" \in x.last /\ "ext" \notin x.last /\ "par" \notin x.last

(* What a REC is like for a CPU that has it, at a label, with its FPU. *)
PcFits(x, l) ==
  /\ x.pc # "skipped"
  /\ Emulable(x) => x.pc = "here"
  /\ ~x.on => x.last = {}
  /\ l \in Inner => x.last = {} /\ x.pc = "here" /\ x.on

FpuFits(u, x, l, r) ==
  /\ u.trap => u.of = NoRec
  /\ ~u.trap => l \in Looping \ {"save"} /\ u = [of |-> r, ns |-> NoRec, trap |-> FALSE]
  /\ x.used <=> ~u.trap

WorkingAt(c) ==
  /\ cpu[c].pc \in Holding \cup Locking => cpu[c].rec \in Recs
  /\ cpu[c].pc = "extend" => cpu[c].rem \in 0 .. MaxRem
  /\ cpu[c].pc \in Locking => /\ cpu[c].target \in Recs /\ cpu[c].rec # cpu[c].target
                              /\ held[cpu[c].rec] = c /\ held[cpu[c].target] = c
  /\ cpu[c].pc \in {"turn_on", "answer"} => ref[cpu[c].rec] = 0
  /\ cpu[c].pc = "turn_on" => ref[cpu[c].target] = 0 /\ ~rec[cpu[c].target].on

Working == \A c \in Cpus : WorkingAt(c)

HeapOwned == \A c \in Cpus : heap[c] = IF InLoop(c) THEN cpu[c].rec ELSE NoRec

FpuOwned ==
  /\ \A c \in Cpus : IF cpu[c].pc \in Holding
                     THEN FpuFits(fpu[c], rec[cpu[c].rec], cpu[c].pc, cpu[c].rec)
                     ELSE fpu[c].trap /\ fpu[c].of = NoRec
  /\ \A r \in Recs : ~Entered(r) => ~rec[r].used

PcFollows ==
  /\ \A r \in Recs : PcFits(rec[r], "host")
  /\ \A c \in Cpus : cpu[c].pc \in Inner => PcFits(rec[cpu[c].rec], cpu[c].pc)

Base == TypeOK /\ EnteredOnce /\ Working

RunIInv ==
  /\ Base
  /\ HeapOwned
  /\ ~FpuAtRel2 => FpuOwned
  /\ Polite => PcFollows

(* A CPU that has a REC goes on with it. *)
Rewrites(c) ==
  LET r == cpu[c].rec
  IN \E x \in RecType, q \in CpuType :
       /\ rec' = [rec EXCEPT ![r] = x] /\ cpu' = [cpu EXCEPT ![c] = q]
       /\ q.pc \in Holding /\ q.rec = r
       /\ q.pc = "extend" => q.rem \in 0 .. MaxRem
       /\ UNCHANGED <<ref, held>>
       /\ rd' \in RdType /\ fpu' \in [Cpus -> FpuType]
       /\ heap' = [heap EXCEPT ![c] = IF q.pc \in Looping THEN r ELSE NoRec]
       /\ ~FpuAtRel2 => /\ fpu' = [fpu EXCEPT ![c] = fpu'[c]]
                        /\ FpuFits(fpu'[c], x, q.pc, r)
       /\ Polite => PcFits(x, q.pc)

-----------------------------------------------------------------------------
LEMMA CpuHere ==
  ASSUME RunIInv, NEW c \in Cpus
  PROVE  cpu[c] \in CpuType
BY DEF RunIInv, Base, TypeOK, CpuType

LEMMA HoldsHolding ==
  ASSUME NEW c \in Cpus, NEW r
  PROVE  Holds(c, r) <=> cpu[c].rec = r /\ cpu[c].pc \in Holding
  BY DEF Holds, Holding, Entering, Looping

LEMMA InLoopLooping ==
  ASSUME NEW c \in Cpus
  PROVE  InLoop(c) <=> cpu[c].pc \in Looping
  BY DEF InLoop, Looping

LEMMA Sole ==
  ASSUME Base, NEW c \in Cpus, NEW d \in Cpus, cpu[c].pc \in Holding, cpu[d].pc \in Holding,
         cpu[c].rec = cpu[d].rec
  PROVE  c = d
  BY HoldsHolding DEF Base, EnteredOnce, Working, WorkingAt

LEMMA HeldOut ==
  ASSUME Base, NEW c \in Cpus, NEW d \in Cpus, NEW r \in Recs,
         cpu[c].pc \in Holding, cpu[c].rec = r
  PROVE  /\ ref[r] = 1
         /\ cpu[d].pc \in {"turn_on", "answer"} => cpu[d].rec # r
         /\ cpu[d].pc = "turn_on" => cpu[d].target # r
  BY HoldsHolding DEF Base, EnteredOnce, Entered, Working, WorkingAt

LEMMA RewritesBase ==
  ASSUME Base, NEW c \in Cpus, cpu[c].pc \in Holding, Rewrites(c)
  PROVE  Base'
<1> DEFINE r == cpu[c].rec
<1> PICK x \in RecType, q \in CpuType :
       /\ rec' = [rec EXCEPT ![r] = x] /\ cpu' = [cpu EXCEPT ![c] = q]
       /\ q.pc \in Holding /\ q.rec = r
       /\ q.pc = "extend" => q.rem \in 0 .. MaxRem
       /\ UNCHANGED <<ref, held>>
       /\ rd' \in RdType /\ fpu' \in [Cpus -> FpuType]
       /\ heap' = [heap EXCEPT ![c] = IF q.pc \in Looping THEN r ELSE NoRec]
  BY DEF Rewrites
<1>1. r \in Recs
  BY DEF Base, Working, WorkingAt
<1>2. TypeOK'
  BY <1>1 DEF Base, TypeOK, CpuType, RdType, FpuType
<1>3. \A d \in Cpus : /\ (cpu[d].pc \in Holding)' <=> cpu[d].pc \in Holding
                      /\ (cpu[d].rec)' = cpu[d].rec
                      /\ d # c => cpu'[d] = cpu[d]
                      /\ d = c => cpu'[d] = q
  BY DEF Base, TypeOK
<1>4. EnteredOnce'
  <2>1. \A s \in Recs, d \in Cpus : Holds(d, s)' <=> Holds(d, s)
    BY <1>3 DEF Holds, Holding, Entering, Looping
  <2> QED BY <2>1 DEF Base, EnteredOnce, Entered
<1>5. Working'
  <2> SUFFICES ASSUME NEW d \in Cpus PROVE WorkingAt(d)'
    BY DEF Working
  <2>1. CASE d = c
    BY <2>1, <1>1, <1>3 DEF WorkingAt, Holding, Entering, Looping, Locking
  <2>2. CASE d # c
    <3>1. cpu[d].pc = "turn_on" => cpu[d].target # r
      BY <1>1, HeldOut
    <3>2. cpu[d].pc = "turn_on" => rec'[cpu[d].target] = rec[cpu[d].target]
      BY <3>1 DEF Base, TypeOK, Working, WorkingAt, Locking
    <3> QED BY <2>2, <1>3, <3>2 DEF Base, Working, WorkingAt
  <2> QED BY <2>1, <2>2
<1> QED BY <1>2, <1>4, <1>5 DEF Base

LEMMA RewritesHeap ==
  ASSUME Base, HeapOwned, NEW c \in Cpus, cpu[c].pc \in Holding, Rewrites(c)
  PROVE  HeapOwned'
<1> PICK x \in RecType, q \in CpuType :
       /\ cpu' = [cpu EXCEPT ![c] = q] /\ q.pc \in Holding /\ q.rec = cpu[c].rec
       /\ heap' = [heap EXCEPT ![c] = IF q.pc \in Looping THEN cpu[c].rec ELSE NoRec]
  BY DEF Rewrites
<1> QED BY InLoopLooping DEF Base, TypeOK, HeapOwned, InLoop, Looping

LEMMA RewritesFpu ==
  ASSUME Base, FpuOwned, ~FpuAtRel2, NEW c \in Cpus, cpu[c].pc \in Holding, Rewrites(c)
  PROVE  FpuOwned'
<1> DEFINE r == cpu[c].rec
<1> PICK x \in RecType, q \in CpuType :
       /\ rec' = [rec EXCEPT ![r] = x] /\ cpu' = [cpu EXCEPT ![c] = q]
       /\ q.pc \in Holding /\ q.rec = r
       /\ fpu' = [fpu EXCEPT ![c] = fpu'[c]] /\ FpuFits(fpu'[c], x, q.pc, r)
  BY DEF Rewrites
<1>1. r \in Recs
  BY DEF Base, Working, WorkingAt
<1>2. ASSUME NEW d \in Cpus
      PROVE  (IF cpu[d].pc \in Holding
              THEN FpuFits(fpu[d], rec[cpu[d].rec], cpu[d].pc, cpu[d].rec)
              ELSE fpu[d].trap /\ fpu[d].of = NoRec)'
  <2>1. CASE d = c
    BY <2>1, <1>1 DEF Base, TypeOK
  <2>2. CASE d # c
    <3>1. cpu'[d] = cpu[d] /\ fpu'[d] = fpu[d]
      BY <2>2 DEF Base, TypeOK
    <3>2. cpu[d].pc \in Holding => rec'[cpu[d].rec] = rec[cpu[d].rec]
      BY <2>2, Sole DEF Base, TypeOK, Working, WorkingAt
    <3> QED BY <3>1, <3>2 DEF FpuOwned, FpuFits
  <2> QED BY <2>1, <2>2
<1>3. ASSUME NEW s \in Recs, ~Entered(s)'
      PROVE  ~rec'[s].used
  <2>1. s # r
    BY <1>3, HoldsHolding DEF Entered, Holds, Holding, Entering, Looping, Base, TypeOK
  <2>2. ~Entered(s)
    <3>1. \A d \in Cpus : Holds(d, s) => Holds(d, s)'
      BY <2>1 DEF Holds, Base, TypeOK
    <3> QED BY <3>1, <1>3 DEF Entered
  <2> QED BY <2>1, <2>2 DEF FpuOwned, Base, TypeOK
<1> QED BY <1>2, <1>3 DEF FpuOwned

LEMMA RewritesPc ==
  ASSUME Base, PcFollows, Polite, NEW c \in Cpus, cpu[c].pc \in Holding, Rewrites(c)
  PROVE  PcFollows'
<1> DEFINE r == cpu[c].rec
<1> PICK x \in RecType, q \in CpuType :
       /\ rec' = [rec EXCEPT ![r] = x] /\ cpu' = [cpu EXCEPT ![c] = q]
       /\ q.pc \in Holding /\ q.rec = r /\ PcFits(x, q.pc)
  BY DEF Rewrites
<1>1. r \in Recs
  BY DEF Base, Working, WorkingAt
<1>2. PcFits(x, "host")
  BY DEF PcFits, Inner
<1>3. ASSUME NEW s \in Recs
      PROVE  PcFits(rec'[s], "host")
  BY <1>1, <1>2 DEF PcFollows, Base, TypeOK
<1>4. ASSUME NEW d \in Cpus, cpu'[d].pc \in Inner
      PROVE  PcFits(rec'[cpu'[d].rec], cpu'[d].pc)
  <2>1. CASE d = c
    BY <2>1, <1>1 DEF Base, TypeOK
  <2>2. CASE d # c
    <3>1. cpu'[d] = cpu[d] /\ cpu[d].pc \in Holding
      BY <2>2, <1>4 DEF Base, TypeOK, Inner, Holding, Looping
    <3>2. rec'[cpu[d].rec] = rec[cpu[d].rec]
      BY <2>2, <3>1, Sole DEF Base, TypeOK, Working, WorkingAt
    <3> QED BY <1>4, <3>1, <3>2 DEF PcFollows
  <2> QED BY <2>1, <2>2
<1> QED BY <1>3, <1>4 DEF PcFollows

LEMMA Rewriting ==
  ASSUME RunIInv, NEW c \in Cpus, cpu[c].pc \in Holding, Rewrites(c)
  PROVE  RunIInv'
BY RewritesBase, RewritesHeap, RewritesFpu, RewritesPc DEF RunIInv

-----------------------------------------------------------------------------
(* What the handlers of exits make of a REC. *)

LEMMA Shapes ==
  ASSUME NEW x \in RecType
  PROVE  /\ Advanced(x) \in RecType /\ Injected(x) \in RecType
         /\ Between(x) \in RecType /\ Activated(x) \in RecType
         /\ \A y \in {Advanced(x), Injected(x), Between(x), Activated(x)} :
              y.used = x.used /\ y.last = x.last /\ y.on = x.on
         /\ x.pc = "here" => Advanced(x).pc = "past" /\ Injected(x).pc = "vector"
         /\ Between(x).pc = "next"
         /\ x.pc # "skipped" => Activated(x).pc = "here"
  BY DEF RecType, Advanced, Injected, Between, Activated

LEMMA Here ==
  ASSUME RunIInv, NEW c \in Cpus, cpu[c].pc \in Holding
  PROVE  /\ cpu[c].rec \in Recs /\ rec[cpu[c].rec] \in RecType
         /\ Polite => PcFits(rec[cpu[c].rec], "host")
         /\ Polite /\ cpu[c].pc \in Inner => PcFits(rec[cpu[c].rec], cpu[c].pc)
         /\ ~FpuAtRel2 => FpuFits(fpu[c], rec[cpu[c].rec], cpu[c].pc, cpu[c].rec)
  BY DEF RunIInv, Base, TypeOK, Working, WorkingAt, RecType, FpuOwned, PcFollows

(* The FPU, if the RMM computes, and the descriptor, if it is written. *)
Kept(c) == /\ UNCHANGED <<ref, held, heap>>
           /\ rd' \in RdType
           /\ UNCHANGED fpu \/ Computes(c)

LEMMA KeptFpu ==
  ASSUME RunIInv, NEW c \in Cpus, Kept(c)
  PROVE  /\ fpu' \in [Cpus -> FpuType]
         /\ ~FpuAtRel2 => fpu' = fpu
<1>1. fpu \in [Cpus -> FpuType]
  BY DEF RunIInv, Base, TypeOK, FpuType
<1>2. [fpu EXCEPT ![c].trap = TRUE] \in [Cpus -> FpuType]
  BY <1>1 DEF FpuType
<1> QED BY <1>1, <1>2, RecRunAssumption DEF Kept, Computes

LEMMA Goes ==
  ASSUME RunIInv, NEW c \in Cpus, cpu[c].pc \in Holding,
         NEW l \in Looping \ {"extend"}, NEW x \in RecType,
         Go(c, l), Becomes(cpu[c].rec, x),
         UNCHANGED <<ref, held>>, rd' \in RdType, fpu' \in [Cpus -> FpuType],
         heap' = [heap EXCEPT ![c] = cpu[c].rec],
         ~FpuAtRel2 => /\ fpu' = [fpu EXCEPT ![c] = fpu'[c]]
                       /\ FpuFits(fpu'[c], x, l, cpu[c].rec),
         Polite => PcFits(x, l)
  PROVE  Rewrites(c)
<1> DEFINE q == [cpu[c] EXCEPT !.pc = l]
<1>1. cpu[c] \in CpuType /\ q \in CpuType /\ q.pc = l /\ q.rec = cpu[c].rec
  <2>1. cpu[c] \in CpuType
    BY DEF RunIInv, Base, TypeOK, CpuType
  <2>2. l \in Labels
    BY DEF Looping, Labels
  <2> QED BY <2>1, <2>2 DEF CpuType
<1>2. cpu' = [cpu EXCEPT ![c] = q]
  BY DEF Go
<1>3. q.pc \in Holding /\ q.pc # "extend" /\ q.pc \in Looping
  BY <1>1 DEF Holding
<1> HIDE DEF q
<1> QED BY <1>1, <1>2, <1>3 DEF Rewrites, Becomes

LEMMA GoesOn ==
  ASSUME RunIInv, NEW c \in Cpus, cpu[c].pc \in Looping, Kept(c),
         NEW l \in Looping \ {"extend", "save"}, NEW x \in RecType,
         Go(c, l), Becomes(cpu[c].rec, x),
         x.used = rec[cpu[c].rec].used, Polite => PcFits(x, l)
  PROVE  Rewrites(c)
<1>1. cpu[c].pc \in Holding
  BY DEF Holding
<1>2. heap' = [heap EXCEPT ![c] = cpu[c].rec]
  BY InLoopLooping DEF RunIInv, Base, TypeOK, HeapOwned, Kept
<1>3. ~FpuAtRel2 => /\ fpu' = [fpu EXCEPT ![c] = fpu'[c]]
                    /\ FpuFits(fpu'[c], x, l, cpu[c].rec)
  BY <1>1, KeptFpu, Here DEF FpuFits, RunIInv, Base, TypeOK
<1> QED BY <1>1, <1>2, <1>3, KeptFpu, Goes DEF Kept

LEMMA StaysOn ==
  ASSUME RunIInv, NEW c \in Cpus, cpu[c].pc \in Inner, Kept(c),
         NEW x \in RecType, Stays(c, x), x.used = rec[cpu[c].rec].used,
         Polite => x.last = {} /\ x.on /\ x.pc # "skipped"
  PROVE  Rewrites(c)
<1>1. cpu[c].pc \in Looping
  BY DEF Inner, Looping
<1>2. CASE TimerChanged(x)
  <2>1. Go(c, "leave") /\ Becomes(cpu[c].rec, x)
    BY <1>2 DEF Stays, Iterate
  <2>2. Polite => PcFits(x, "leave")
    BY DEF PcFits, Emulable, Inner
  <2> QED BY <1>1, <2>1, <2>2, GoesOn DEF Looping
<1>3. CASE ~TimerChanged(x)
  <2> DEFINE y == Activated(x)
  <2>1. Go(c, "guest") /\ Becomes(cpu[c].rec, y)
    BY <1>3 DEF Stays, Iterate
  <2>2. y \in RecType /\ y.used = rec[cpu[c].rec].used
    BY Shapes
  <2>3. Polite => PcFits(y, "guest")
    BY Shapes DEF PcFits, Emulable, Inner
  <2> HIDE DEF y
  <2> QED BY <1>1, <2>1, <2>2, <2>3, GoesOn DEF Looping
<1> QED BY <1>2, <1>3

LEMMA LeavesOn ==
  ASSUME RunIInv, NEW c \in Cpus, cpu[c].pc \in Inner, Kept(c),
         NEW x \in RecType, Leaves(c, x), x.used = rec[cpu[c].rec].used,
         Polite => PcFits(x, "host")
  PROVE  Rewrites(c)
<1>1. Polite => PcFits(x, "leave")
  BY DEF PcFits, Inner
<1>2. cpu[c].pc \in Looping
  BY DEF Inner, Looping
<1> QED BY <1>1, <1>2, GoesOn DEF Leaves, Looping

(* A REC inside the realm, and what every handler starts from. *)
LEMMA AtWork ==
  ASSUME RunIInv, NEW c \in Cpus, cpu[c].pc \in Inner
  PROVE  /\ Running(c) \in RecType /\ Running(c) = rec[cpu[c].rec]
         /\ rd \in RdType
         /\ cpu[c].pc \in Holding
         /\ Polite => Running(c).last = {} /\ Running(c).pc = "here" /\ Running(c).on
  BY Here DEF Running, Inner, Holding, Looping, PcFits, RunIInv, Base, TypeOK, RdType

LEMMA StaysKeeps ==
  ASSUME RunIInv, NEW c \in Cpus, cpu[c].pc \in Inner, Kept(c),
         NEW x \in RecType, Stays(c, x), x.used = Running(c).used,
         Polite => x.last = {} /\ x.on /\ x.pc # "skipped"
  PROVE  RunIInv'
  BY StaysOn, Rewriting, AtWork

LEMMA LeavesKeeps ==
  ASSUME RunIInv, NEW c \in Cpus, cpu[c].pc \in Inner, Kept(c),
         NEW x \in RecType, Leaves(c, x), x.used = Running(c).used,
         Polite => PcFits(x, "host")
  PROVE  RunIInv'
  BY LeavesOn, Rewriting, AtWork

(* The REC behind its instruction, and what else a handler notes in it. *)
LEMMA Advances ==
  ASSUME RunIInv, NEW c \in Cpus, cpu[c].pc \in Inner
  PROVE  LET y == Advanced(Running(c))
         IN /\ y \in RecType /\ y.used = Running(c).used
            /\ Polite => y.last = {} /\ y.pc # "skipped" /\ y.on
<1>1. Running(c) \in RecType
  BY AtWork
<1>2. Polite => Running(c).last = {} /\ Running(c).pc = "here" /\ Running(c).on
  BY AtWork
<1> QED BY <1>1, <1>2, Shapes

LEMMA Notes ==
  ASSUME NEW y \in RecType, NEW b \in BOOLEAN
  PROVE  \A z \in {[y EXCEPT !.on = b], [y EXCEPT !.ripas = b], [y EXCEPT !.call = b],
                   [y EXCEPT !.serror = b]} :
           z \in RecType /\ z.used = y.used /\ z.last = y.last /\ z.pc = y.pc
BY DEF RecType

(* Nothing is left for the next entry but what the REC waits for. *)
LEMMA LeavesEmpty ==
  ASSUME RunIInv, NEW c \in Cpus, cpu[c].pc \in Inner, Kept(c),
         NEW x \in RecType, Leaves(c, x), x.used = Running(c).used,
         Polite => x.last = {} /\ x.pc # "skipped"
  PROVE  RunIInv'
  BY LeavesKeeps DEF PcFits, Emulable, Inner

LEMMA GuestKept ==
  ASSUME RunIInv, NEW c \in Cpus, At(c, "guest") \/ At(c, "token"),
         UNCHANGED <<ref, held, rd, heap>>, UNCHANGED fpu \/ Computes(c)
  PROVE  cpu[c].pc \in Inner /\ Kept(c)
  BY DEF At, Inner, Kept, RunIInv, Base, TypeOK, RdType

LEMMA ToHostKeeps ==
  ASSUME RunIInv, NEW c \in Cpus, NEW k, ToHost(c, k)
  PROVE  RunIInv'
<1>1. cpu[c].pc \in Inner /\ Kept(c)
  BY GuestKept DEF ToHost, May
<1> QED BY <1>1, AtWork, Shapes, LeavesEmpty DEF ToHost

LEMMA ToRealmKeeps ==
  ASSUME RunIInv, NEW c \in Cpus, NEW k, ToRealm(c, k)
  PROVE  RunIInv'
<1>1. cpu[c].pc \in Inner /\ Kept(c)
  BY GuestKept DEF ToRealm, May
<1> QED BY <1>1, AtWork, Shapes, StaysKeeps DEF ToRealm

LEMMA UndefKeeps ==
  ASSUME RunIInv, NEW c \in Cpus, Undef(c)
  PROVE  RunIInv'
<1>1. cpu[c].pc \in Inner /\ Kept(c)
  BY GuestKept DEF Undef, May
<1> QED BY <1>1, AtWork, Shapes, StaysKeeps DEF Undef

LEMMA InterruptKeeps ==
  ASSUME RunIInv, NEW c \in Cpus, Interrupt(c)
  PROVE  RunIInv'
<1>1. cpu[c].pc \in Inner /\ Kept(c)
  BY GuestKept DEF Interrupt
<1> QED BY <1>1, AtWork, Shapes, LeavesEmpty DEF Interrupt

LEMMA CpuOffKeeps ==
  ASSUME RunIInv, NEW c \in Cpus, CpuOff(c)
  PROVE  RunIInv'
<1> DEFINE x == [Advanced(Running(c)) EXCEPT !.on = FALSE]
<1>1. cpu[c].pc \in Inner /\ Kept(c)
  BY GuestKept DEF CpuOff, May
<1>2. Leaves(c, x)
  BY DEF CpuOff
<1> DEFINE y == Advanced(Running(c))
<1>3. /\ y \in RecType /\ y.used = Running(c).used
      /\ Polite => y.last = {} /\ y.pc # "skipped"
  BY <1>1, Advances
<1>4. x = [y EXCEPT !.on = FALSE]
  OBVIOUS
<1> HIDE DEF x, y
<1>5. x \in RecType /\ x.used = Running(c).used /\ (Polite => x.last = {} /\ x.pc # "skipped")
  BY <1>3, <1>4 DEF RecType
<1> QED BY <1>1, <1>2, <1>5, LeavesEmpty

LEMMA PsciKeeps ==
  ASSUME RunIInv, NEW c \in Cpus, NEW k \in {"on", "info", "wide"}, Psci(c, k)
  PROVE  RunIInv'
<1>1. cpu[c].pc \in Inner /\ Kept(c)
  BY GuestKept DEF Psci, May
<1>2. PICK p \in {"on", "info"}, t \in Recs \cup {NoRec} :
        Leaves(c, [Advanced(Running(c)) EXCEPT !.psci = p, !.about = t])
  BY DEF Psci
<1> DEFINE y == Advanced(Running(c))
           x == [y EXCEPT !.psci = p, !.about = t]
<1>3. /\ y \in RecType /\ y.used = Running(c).used
      /\ Polite => y.last = {} /\ y.pc # "skipped"
  BY <1>1, Advances
<1>4. Leaves(c, x)
  BY <1>2
<1> HIDE DEF y
<1>5. x \in RecType /\ x.used = y.used /\ x.last = y.last /\ x.pc = y.pc
  BY <1>3 DEF RecType
<1> HIDE DEF x
<1> QED BY <1>1, <1>3, <1>4, <1>5, LeavesEmpty

LEMMA SystemOffKeeps ==
  ASSUME RunIInv, NEW c \in Cpus, SystemOff(c)
  PROVE  RunIInv'
<1>1. cpu[c].pc \in Inner /\ Kept(c)
  BY DEF SystemOff, May, At, Inner, Kept, RunIInv, Base, TypeOK, RdType
<1> QED BY <1>1, AtWork, Shapes, LeavesEmpty DEF SystemOff

LEMMA IpaStateSetKeeps ==
  ASSUME RunIInv, NEW c \in Cpus, IpaStateSet(c)
  PROVE  RunIInv'
<1> DEFINE x == [Advanced(Running(c)) EXCEPT !.ripas = TRUE]
<1>1. cpu[c].pc \in Inner /\ Kept(c)
  BY GuestKept DEF IpaStateSet, May
<1>2. Leaves(c, x)
  BY DEF IpaStateSet
<1>3. x \in RecType /\ x.used = Running(c).used /\ (Polite => x.last = {} /\ x.pc # "skipped")
  BY <1>1, Advances, Notes, ZenonT(60)
<1> HIDE DEF x
<1> QED BY <1>1, <1>2, <1>3, LeavesEmpty

LEMMA LooksKeeps ==
  ASSUME RunIInv, NEW c \in Cpus, NEW k, Looks(c, k)
  PROVE  RunIInv'
<1>1. cpu[c].pc \in Inner /\ Kept(c)
  BY GuestKept DEF Looks, May
<1>2. Leaves(c, Running(c)) \/ Stays(c, Advanced(Running(c)))
  BY DEF Looks
<1> QED BY <1>1, <1>2, AtWork, Shapes, LeavesEmpty, StaysKeeps

LEMMA HostCallKeeps ==
  ASSUME RunIInv, NEW c \in Cpus, HostCall(c)
  PROVE  RunIInv'
<1> DEFINE x == [Advanced(Running(c)) EXCEPT !.call = TRUE]
<1>1. cpu[c].pc \in Inner /\ Kept(c)
  BY GuestKept DEF HostCall, May
<1>2. Leaves(c, x) \/ Leaves(c, Running(c)) \/ Stays(c, Advanced(Running(c)))
  BY DEF HostCall, Walks
<1>3. x \in RecType /\ x.used = Running(c).used /\ (Polite => x.last = {} /\ x.pc # "skipped")
  BY <1>1, Advances, Notes, ZenonT(60)
<1> HIDE DEF x
<1> QED BY <1>1, <1>2, <1>3, AtWork, Shapes, LeavesEmpty, StaysKeeps

LEMMA InstructionAbortKeeps ==
  ASSUME RunIInv, NEW c \in Cpus, InstructionAbort(c)
  PROVE  RunIInv'
<1>1. cpu[c].pc \in Inner /\ Kept(c)
  BY GuestKept DEF InstructionAbort, May
<1>2. \/ Stays(c, Injected(Running(c))) \/ Leaves(c, Running(c))
      \/ Leaves(c, Injected(Running(c)))
  BY DEF InstructionAbort
<1> QED BY <1>1, <1>2, AtWork, Shapes, LeavesEmpty, StaysKeeps

LEMMA MmioKeeps ==
  ASSUME RunIInv, NEW c \in Cpus, Mmio(c)
  PROVE  RunIInv'
<1>1. cpu[c].pc \in Inner /\ Kept(c)
  BY GuestKept DEF Mmio, May
<1>2. PICK l \in Syndromes : Leaves(c, [Running(c) EXCEPT !.last = l])
  BY DEF Mmio, Syndromes
<1> DEFINE x == [Running(c) EXCEPT !.last = l]
<1>3. x \in RecType /\ x.used = Running(c).used
  BY <1>1, AtWork DEF RecType
<1>4. Polite => x.pc = "here" /\ x.on
  BY <1>1, AtWork DEF RecType
<1>5. Leaves(c, x)
  BY <1>2
<1> HIDE DEF x
<1>6. Polite => PcFits(x, "host")
  BY <1>4 DEF PcFits, Inner
<1> QED BY <1>1, <1>3, <1>5, <1>6, LeavesKeeps

LEMMA DataAbortKeeps ==
  ASSUME RunIInv, NEW c \in Cpus, DataAbort(c)
  PROVE  RunIInv'
<1> DEFINE Last(l) == [Running(c) EXCEPT !.last = l]
<1>1. cpu[c].pc \in Inner /\ Kept(c)
  BY GuestKept DEF DataAbort, May
<1>2. \/ Stays(c, Injected(Running(c)))
      \/ \E l \in Syndromes : Leaves(c, Last(l))
      \/ Leaves(c, Injected(Last({"dabt", "ext"})))
  BY DEF DataAbort, Syndromes
<1>3. \A l \in Syndromes : /\ Last(l) \in RecType /\ Last(l).used = Running(c).used
                           /\ Last(l).last = l
                           /\ Polite => Last(l).pc = "here" /\ Last(l).on
  BY <1>1, AtWork DEF RecType
<1>4. {"dabt", "ext"} \in Syndromes
  BY DEF Syndromes
<1> HIDE DEF Last
<1>5. CASE Stays(c, Injected(Running(c)))
  BY <1>1, <1>5, AtWork, Shapes, StaysKeeps
<1>6. CASE \E l \in Syndromes : Leaves(c, Last(l))
  <2>1. PICK l \in Syndromes : Leaves(c, Last(l))
    BY <1>6
  <2>2. Polite => PcFits(Last(l), "host")
    BY <1>3 DEF PcFits, Inner
  <2> QED BY <1>1, <1>3, <2>1, <2>2, LeavesKeeps
<1>7. CASE Leaves(c, Injected(Last({"dabt", "ext"})))
  <2> DEFINE x == Injected(Last({"dabt", "ext"}))
  <2>1. x \in RecType /\ x.used = Running(c).used /\ x.last = {"dabt", "ext"}
        /\ (Polite => x.pc = "vector" /\ x.on)
    BY <1>3, <1>4, Shapes
  <2>2. Leaves(c, x)
    BY <1>7
  <2> HIDE DEF x
  <2>3. Polite => PcFits(x, "host")
    BY <2>1 DEF PcFits, Emulable, Inner
  <2> QED BY <1>1, <2>1, <2>2, <2>3, LeavesKeeps
<1> QED BY <1>2, <1>5, <1>6, <1>7

LEMMA SErrorKeeps ==
  ASSUME RunIInv, NEW c \in Cpus, SError(c)
  PROVE  RunIInv'
<1>1. cpu[c].pc \in Inner /\ Kept(c)
  BY GuestKept DEF SError, May
<1>2. PICK b \in BOOLEAN : Leaves(c, [Between(Running(c)) EXCEPT !.serror = b])
  BY DEF SError
<1> DEFINE y == Between(Running(c))
           x == [y EXCEPT !.serror = b]
<1>3. y \in RecType /\ y.used = Running(c).used /\ y.last = Running(c).last /\ y.pc = "next"
  BY <1>1, AtWork, Shapes
<1>4. Leaves(c, x)
  BY <1>2
<1> HIDE DEF y
<1>5. x \in RecType /\ x.used = y.used /\ x.last = y.last /\ x.pc = y.pc
  BY <1>3, Notes
<1> HIDE DEF x
<1> QED BY <1>1, <1>3, <1>4, <1>5, AtWork, LeavesEmpty

LEMMA MeasurementReadKeeps ==
  ASSUME RunIInv, NEW c \in Cpus, MeasurementRead(c)
  PROVE  RunIInv'
<1>1. cpu[c].pc \in Inner /\ Kept(c)
  BY GuestKept DEF MeasurementRead, May
<1> QED BY <1>1, Advances, StaysKeeps DEF MeasurementRead

LEMMA TokenInitKeeps ==
  ASSUME RunIInv, NEW c \in Cpus, TokenInit(c)
  PROVE  RunIInv'
<1>1. cpu[c].pc \in Inner /\ Kept(c)
  BY GuestKept DEF TokenInit, May
<1>2. rd.rem \in 0 .. Torn /\ 0 \in 0 .. Torn
  BY AtWork, <1>1, RecRunAssumption DEF RdType, Torn
<1>3. PICK t \in {"NOT_STARTED", "IN_PROGRESS"}, n \in 0 .. Torn :
        Stays(c, Advanced([Running(c) EXCEPT !.token = t, !.snap = n]))
  BY <1>2 DEF TokenInit, GivenUp
<1> DEFINE x == Running(c)
           y == [x EXCEPT !.token = t, !.snap = n]
<1>4. x \in RecType /\ x = Running(c)
  BY <1>1, AtWork
<1>5. Stays(c, Advanced(y))
  BY <1>3
<1> HIDE DEF x
<1>6. /\ y \in RecType /\ y.used = x.used /\ y.last = x.last
      /\ y.pc = x.pc /\ y.on = x.on
  BY <1>4 DEF RecType
<1> HIDE DEF y
<1> QED BY <1>1, <1>4, <1>5, <1>6, AtWork, Shapes, StaysKeeps

LEMMA TokenRefusedKeeps ==
  ASSUME RunIInv, NEW c \in Cpus, TokenRefused(c)
  PROVE  RunIInv'
<1>1. cpu[c].pc \in Inner /\ Kept(c)
  BY GuestKept DEF TokenRefused
<1> QED BY <1>1, Advances, StaysKeeps DEF TokenRefused

LEMMA TokenInterruptedKeeps ==
  ASSUME RunIInv, NEW c \in Cpus, TokenInterrupted(c)
  PROVE  RunIInv'
<1>1. cpu[c].pc \in Inner /\ Kept(c)
  BY GuestKept DEF TokenInterrupted
<1>2. PICK t \in {"IN_PROGRESS", "WRITE_IN_PROGRESS"} :
        Leaves(c, [Running(c) EXCEPT !.token = t])
  BY DEF TokenInterrupted
<1> DEFINE y == [Running(c) EXCEPT !.token = t]
<1>3. /\ y \in RecType /\ y.used = Running(c).used /\ y.last = Running(c).last
      /\ y.pc = Running(c).pc
  BY <1>1, AtWork DEF RecType
<1>4. Leaves(c, y)
  BY <1>2
<1> HIDE DEF y
<1> QED BY <1>1, <1>3, <1>4, AtWork, LeavesEmpty

LEMMA TokenWriteKeeps ==
  ASSUME RunIInv, NEW c \in Cpus, TokenWrite(c)
  PROVE  RunIInv'
<1> DEFINE x == Running(c)
           y == GivenUp(x)
<1>1. cpu[c].pc \in Inner /\ Kept(c)
  BY GuestKept DEF TokenWrite
<1>2. Leaves(c, Running(c)) \/ Stays(c, Advanced(y))
  BY DEF TokenWrite
<1>3. x \in RecType /\ x = Running(c) /\ 0 \in 0 .. Torn
  BY <1>1, AtWork, RecRunAssumption DEF Torn
<1> HIDE DEF x
<1>4. /\ y \in RecType /\ y.used = x.used /\ y.last = x.last
      /\ y.pc = x.pc /\ y.on = x.on
  BY <1>3 DEF GivenUp, RecType
<1> HIDE DEF y
<1> QED BY <1>1, <1>2, <1>3, <1>4, AtWork, Shapes, StaysKeeps, LeavesEmpty

LEMMA TokenContinueKeeps ==
  ASSUME RunIInv, NEW c \in Cpus, TokenContinue(c)
  PROVE  RunIInv'
<1>1. cpu[c].pc \in Inner /\ Kept(c) /\ cpu[c].pc \in Looping
  BY GuestKept DEF TokenContinue, May, At, Looping
<1>2. Becomes(cpu[c].rec, Running(c))
  BY DEF TokenContinue, Becomes, Running, RunIInv, Base, TypeOK
<1>3. Polite => PcFits(Running(c), "token")
  BY <1>1, AtWork, Here DEF PcFits, Inner
<1>4. Rewrites(c)
  BY <1>1, <1>2, <1>3, AtWork, GoesOn DEF TokenContinue, Looping
<1> QED BY <1>1, <1>4, AtWork, Rewriting

LEMMA ExtendWriteKeeps ==
  ASSUME RunIInv, NEW c \in Cpus, ExtendWrite(c)
  PROVE  RunIInv'
<1>1. cpu[c].pc \in Inner
  BY DEF ExtendWrite, At, Inner
<1>2. cpu[c].rem + 1 \in 0 .. Torn
  BY RecRunAssumption DEF ExtendWrite, At, RunIInv, Base, Working, WorkingAt, Torn
<1>3. Kept(c)
  BY <1>1, <1>2, AtWork DEF Kept, ExtendWrite, RdType
<1> QED BY <1>1, <1>3, Advances, StaysKeeps DEF ExtendWrite

LEMMA ExtendKeeps ==
  ASSUME RunIInv, NEW c \in Cpus, Extend(c)
  PROVE  RunIInv'
<1> DEFINE q == [cpu[c] EXCEPT !.pc = "extend", !.rem = rd.rem]
<1>1. cpu[c].pc \in Inner /\ cpu[c].pc \in Looping
  BY DEF Extend, May, At, Inner, Looping
<1>2. rd.rem \in 0 .. MaxRem /\ rd.rem \in 0 .. Torn /\ Torn \in 0 .. Torn
  BY <1>1, AtWork, RecRunAssumption DEF Extend, RdType, Torn
<1>3. Kept(c)
  BY <1>1, <1>2, AtWork DEF Kept, Extend, RdType
<1>4. q \in CpuType /\ q.pc = "extend" /\ q.rem = rd.rem /\ q.rec = cpu[c].rec
  BY <1>2, CpuHere DEF CpuType, Labels
<1>5. cpu' = [cpu EXCEPT ![c] = q] /\ rec' = [rec EXCEPT ![cpu[c].rec] = Running(c)]
  BY DEF Extend, Running, RunIInv, Base, TypeOK
<1>6. heap' = [heap EXCEPT ![c] = cpu[c].rec]
  BY <1>1, InLoopLooping DEF RunIInv, Base, TypeOK, HeapOwned, Extend
<1>7. Polite => PcFits(Running(c), "extend")
  BY <1>1, AtWork, Here DEF PcFits, Inner
<1>8. ~FpuAtRel2 => /\ fpu' = [fpu EXCEPT ![c] = fpu'[c]]
                    /\ FpuFits(fpu'[c], Running(c), "extend", cpu[c].rec)
  <2>1. ~FpuAtRel2 => fpu' = fpu
    BY <1>3, KeptFpu
  <2>2. ~FpuAtRel2 => FpuFits(fpu[c], Running(c), "guest", cpu[c].rec)
    BY <1>1, AtWork, Here DEF Extend, May, At
  <2>3. ~FpuAtRel2 => FpuFits(fpu[c], Running(c), "extend", cpu[c].rec)
    BY <2>2 DEF FpuFits, Looping
  <2> QED BY <2>1, <2>3 DEF RunIInv, Base, TypeOK
<1>9. UNCHANGED <<ref, held>> /\ rd' \in RdType /\ fpu' \in [Cpus -> FpuType]
  BY <1>3, KeptFpu DEF Kept
<1>10. q.pc \in Looping /\ q.pc \in Holding /\ Running(c) \in RecType
  BY <1>1, <1>4, AtWork DEF Looping, Holding
<1> HIDE DEF q
<1>11. Rewrites(c)
  BY <1>2, <1>4, <1>5, <1>6, <1>7, <1>8, <1>9, <1>10 DEF Rewrites
<1> QED BY <1>1, <1>11, AtWork, Rewriting

(* A REC is changed while its CPU stays where it is. *)
LEMMA Standing ==
  ASSUME RunIInv, NEW c \in Cpus, cpu[c].pc \in Holding, NEW x \in RecType,
         Becomes(cpu[c].rec, x), UNCHANGED <<ref, held, rd, cpu, fpu, heap>>,
         LET y == rec[cpu[c].rec]
         IN x.used = y.used /\ x.last = y.last /\ x.pc = y.pc /\ x.on = y.on
  PROVE  RunIInv'
<1> DEFINE q == cpu[c]
<1>1. q \in CpuType /\ cpu' = [cpu EXCEPT ![c] = q]
  BY DEF RunIInv, Base, TypeOK, CpuType
<1>2. q.pc \in Holding /\ (q.pc = "extend" => q.rem \in 0 .. MaxRem)
  BY DEF RunIInv, Base, Working, WorkingAt
<1>3. rd' \in RdType /\ fpu' \in [Cpus -> FpuType]
  BY DEF RunIInv, Base, TypeOK, RdType, FpuType
<1>4. heap' = [heap EXCEPT ![c] = IF q.pc \in Looping THEN cpu[c].rec ELSE NoRec]
  BY InLoopLooping DEF RunIInv, Base, TypeOK, HeapOwned
<1>5. ~FpuAtRel2 => fpu' = [fpu EXCEPT ![c] = fpu'[c]] /\ FpuFits(fpu'[c], x, q.pc, cpu[c].rec)
  BY Here DEF FpuFits, RunIInv, Base, TypeOK
<1>6. Polite => PcFits(x, q.pc)
  <2>1. Polite => PcFits(rec[cpu[c].rec], q.pc)
    BY Here DEF PcFits, Inner
  <2> QED BY <2>1 DEF PcFits, Emulable
<1>7. Rewrites(c)
  <2> HIDE DEF q
  <2>1. q.rec = cpu[c].rec
    BY DEF q
  <2> QED BY <2>1, <1>1, <1>2, <1>3, <1>4, <1>5, <1>6 DEF Rewrites, Becomes
<1> QED BY <1>7, Rewriting

LEMMA TokenSignKeeps ==
  ASSUME RunIInv, NEW c \in Cpus, TokenSign(c)
  PROVE  RunIInv'
<1> DEFINE y == Running(c)
           x == [y EXCEPT !.token = "WRITE_IN_PROGRESS"]
<1>1. cpu[c].pc \in Inner
  BY DEF TokenSign, At, Inner
<1>2. y \in RecType /\ y = rec[cpu[c].rec] /\ cpu[c].pc \in Holding
  BY <1>1, AtWork
<1>3. Becomes(cpu[c].rec, x) /\ UNCHANGED <<ref, held, rd, cpu, fpu, heap>>
  BY DEF TokenSign
<1> HIDE DEF y
<1>4. x \in RecType /\ x.used = y.used /\ x.last = y.last /\ x.pc = y.pc /\ x.on = y.on
  BY <1>2 DEF RecType
<1> HIDE DEF x
<1> QED BY <1>2, <1>3, <1>4, Standing

LEMMA TimerKeeps ==
  ASSUME RunIInv, NEW c \in Cpus, cpu[c].pc \in Holding, NEW b \in BOOLEAN,
         Becomes(cpu[c].rec, [rec[cpu[c].rec] EXCEPT !.output = b]),
         UNCHANGED <<ref, held, rd, cpu, fpu, heap>>
  PROVE  RunIInv'
<1> DEFINE y == rec[cpu[c].rec]
           x == [y EXCEPT !.output = b]
<1>1. y \in RecType
  BY Here
<1>2. Becomes(cpu[c].rec, x)
  OBVIOUS
<1>3. x \in RecType /\ x.used = y.used /\ x.last = y.last /\ x.pc = y.pc /\ x.on = y.on
  BY <1>1 DEF RecType
<1> HIDE DEF x
<1> QED BY <1>2, <1>3, Standing

LEMMA TimerFiresKeeps ==
  ASSUME RunIInv, NEW c \in Cpus, TimerFires(c)
  PROVE  RunIInv'
BY TimerKeeps DEF TimerFires, Holding, Looping, Entering

LEMMA TimerStopsKeeps ==
  ASSUME RunIInv, NEW c \in Cpus, TimerStops(c)
  PROVE  RunIInv'
BY TimerKeeps DEF TimerStops, At, Running, Holding, Looping

-----------------------------------------------------------------------------
(* Steps that hand the FPU over. *)

LEMMA FpuTrapKeeps ==
  ASSUME RunIInv, NEW c \in Cpus, FpuTrap(c)
  PROVE  RunIInv'
<1> DEFINE r == cpu[c].rec
           y == Running(c)
           x == [y EXCEPT !.used = TRUE]
           u == [of |-> r, ns |-> fpu[c].of, trap |-> FALSE]
<1>1. cpu[c].pc \in Inner /\ fpu[c].trap
  BY DEF FpuTrap, May, At, Inner
<1>2. /\ y \in RecType /\ y = rec[r] /\ r \in Recs /\ cpu[c].pc \in Holding
      /\ Polite => y.last = {} /\ y.pc = "here" /\ y.on
  BY <1>1, AtWork, Here
<1>3. Stays(c, x)
  BY DEF FpuTrap
<1>4. fpu' = [fpu EXCEPT ![c] = u] /\ UNCHANGED <<ref, held, rd, heap>>
  BY DEF FpuTrap, RunIInv, Base, TypeOK
<1>5. fpu' \in [Cpus -> FpuType] /\ fpu'[c] = u /\ fpu' = [fpu EXCEPT ![c] = fpu'[c]]
  BY <1>2, <1>4 DEF RunIInv, Base, TypeOK, FpuType
<1>6. ~FpuAtRel2 => u = [of |-> r, ns |-> NoRec, trap |-> FALSE]
  BY <1>1, <1>2, Here DEF FpuFits
<1>7. heap' = [heap EXCEPT ![c] = r] /\ rd' \in RdType
  BY <1>1, <1>4, InLoopLooping DEF RunIInv, Base, TypeOK, HeapOwned, Inner, Looping, RdType
<1> HIDE DEF y
<1>8. x \in RecType /\ x.used /\ x.last = y.last /\ x.pc = y.pc /\ x.on = y.on
  BY <1>2 DEF RecType
<1> HIDE DEF x
<1>9. ASSUME NEW l \in {"leave", "guest"}, NEW z \in RecType, Go(c, l), Becomes(r, z), z.used,
             Polite => PcFits(z, l)
      PROVE  Rewrites(c)
  <2>1. ~FpuAtRel2 => FpuFits(fpu'[c], z, l, r)
    BY <1>5, <1>6, <1>9 DEF FpuFits, Looping
  <2>2. l \in Looping \ {"extend"}
    BY DEF Looping
  <2> QED BY <1>2, <1>4, <1>5, <1>7, <1>9, <2>1, <2>2, Goes
<1>10. CASE TimerChanged(x)
  <2>1. Go(c, "leave") /\ Becomes(r, x)
    BY <1>3, <1>10 DEF Stays, Iterate
  <2>2. Polite => PcFits(x, "leave")
    BY <1>2, <1>8 DEF PcFits, Emulable, Inner
  <2> QED BY <1>2, <1>8, <1>9, <2>1, <2>2, Rewriting
<1>11. CASE ~TimerChanged(x)
  <2> DEFINE z == Activated(x)
  <2>1. Go(c, "guest") /\ Becomes(r, z)
    BY <1>3, <1>11 DEF Stays, Iterate
  <2>2. z \in RecType /\ z.used /\ (Polite => z.last = {} /\ z.pc = "here" /\ z.on)
    BY <1>2, <1>8, Shapes
  <2> HIDE DEF z
  <2>3. Polite => PcFits(z, "guest")
    BY <2>2 DEF PcFits, Emulable, Inner
  <2> QED BY <1>2, <1>9, <2>1, <2>2, <2>3, Rewriting
<1> QED BY <1>10, <1>11

LEMMA LeaveKeeps ==
  ASSUME RunIInv, NEW c \in Cpus, Leave(c)
  PROVE  RunIInv'
<1> DEFINE r == cpu[c].rec
           y == rec[r]
           x == [y EXCEPT !.used = FALSE, !.told = y.output]
<1>1. cpu[c].pc \in Holding /\ cpu[c].pc = "leave"
  BY DEF Leave, At, Holding, Looping
<1>2. r \in Recs /\ y \in RecType
  BY <1>1, Here
<1>3. Go(c, "save") /\ Becomes(r, x) /\ RestoreNs(c, y.used) /\ UNCHANGED <<ref, held, rd, heap>>
  BY DEF Leave
<1>4. fpu \in [Cpus -> FpuType]
  BY DEF RunIInv, Base, TypeOK, FpuType
<1>5. fpu' \in [Cpus -> FpuType] /\ fpu' = [fpu EXCEPT ![c] = fpu'[c]]
  BY <1>3, <1>4 DEF RestoreNs, FpuType
<1>6. ~FpuAtRel2 => fpu'[c].trap /\ fpu'[c].of = NoRec
  <2>1. ~FpuAtRel2 => FpuFits(fpu[c], y, cpu[c].pc, r)
    BY <1>1, Here
  <2>2. CASE y.used
    BY <1>3, <1>4, <2>1, <2>2 DEF RestoreNs, FpuFits, FpuType
  <2>3. CASE ~y.used
    BY <1>3, <2>1, <2>3 DEF RestoreNs, FpuFits
  <2> QED BY <2>2, <2>3
<1>7. heap' = [heap EXCEPT ![c] = r] /\ rd' \in RdType
  BY <1>1, <1>3, InLoopLooping DEF RunIInv, Base, TypeOK, HeapOwned, Looping, RdType
<1>8. Polite => PcFits(y, "host")
  BY <1>1, Here
<1> HIDE DEF y
<1>9. /\ x \in RecType /\ ~x.used /\ x.last = y.last /\ x.pc = y.pc /\ x.on = y.on
  BY <1>2 DEF RecType
<1> HIDE DEF x
<1>10. Polite => PcFits(x, "save")
  BY <1>8, <1>9 DEF PcFits, Emulable, Inner
<1>11. ~FpuAtRel2 => FpuFits(fpu'[c], x, "save", r)
  BY <1>6, <1>9 DEF FpuFits
<1>12. Rewrites(c)
  BY <1>1, <1>3, <1>5, <1>7, <1>9, <1>10, <1>11, Goes DEF Looping
<1> QED BY <1>1, <1>12, Rewriting

LEMMA EnterAdmitKeeps ==
  ASSUME RunIInv, NEW c \in Cpus, EnterAdmit(c)
  PROVE  RunIInv'
<1> DEFINE q == [cpu[c] EXCEPT !.pc = "admit"]
           x == rec[cpu[c].rec]
<1>1. cpu[c].pc = "read" /\ cpu[c].pc \in Holding
  BY DEF EnterAdmit, At, Holding, Entering
<1>2. cpu' = [cpu EXCEPT ![c] = q] /\ UNCHANGED <<rec, ref, held, rd, fpu, heap>>
  BY DEF EnterAdmit, Go
<1>3. q \in CpuType /\ q.pc = "admit" /\ q.rec = cpu[c].rec
  BY CpuHere DEF CpuType, Labels
<1>4. x \in RecType /\ rec' = [rec EXCEPT ![cpu[c].rec] = x]
  BY <1>1, <1>2, Here DEF RunIInv, Base, TypeOK
<1>5. rd' \in RdType /\ fpu' \in [Cpus -> FpuType]
  BY <1>2 DEF RunIInv, Base, TypeOK, RdType, FpuType
<1>6. heap' = [heap EXCEPT ![c] = NoRec] /\ "admit" \notin Looping /\ "admit" \in Holding
  BY <1>1, <1>2, InLoopLooping DEF RunIInv, Base, TypeOK, HeapOwned, Looping, Holding, Entering
<1>7. ~FpuAtRel2 => /\ fpu' = [fpu EXCEPT ![c] = fpu'[c]]
                    /\ FpuFits(fpu'[c], x, "admit", cpu[c].rec)
  BY <1>1, <1>2, Here DEF FpuFits, Looping, RunIInv, Base, TypeOK
<1>8. Polite => PcFits(x, "admit")
  BY <1>1, Here DEF PcFits, Inner
<1> HIDE DEF q, x
<1>9. /\ q.pc \in Holding /\ q.pc \notin Looping /\ q.pc # "extend"
      /\ ~FpuAtRel2 => FpuFits(fpu'[c], x, q.pc, cpu[c].rec)
      /\ Polite => PcFits(x, q.pc)
  BY <1>3, <1>6, <1>7, <1>8
<1>10. heap' = [heap EXCEPT ![c] = IF q.pc \in Looping THEN cpu[c].rec ELSE NoRec]
  BY <1>6, <1>9
<1>11. Rewrites(c)
  BY <1>2, <1>3, <1>4, <1>5, <1>7, <1>9, <1>10 DEF Rewrites
<1> QED BY <1>1, <1>11, Rewriting

(* What a polite host asks for moves the REC from the instruction it left. *)
LEMMA Emulation ==
  ASSUME NEW x \in RecType, NEW f \in Flags(x), ~MmioFails(x, f)
  PROVE  /\ MmioDone(x, f) \in RecType /\ MmioDone(x, f).used = x.used
         /\ MmioDone(x, f).last = x.last /\ MmioDone(x, f).on = x.on
         /\ Polite /\ PcFits(x, "host") => MmioDone(x, f).pc # "skipped"
         /\ Polite /\ f.mmio => ~f.sea
         /\ Polite /\ f.sea /\ ~SeaFails(x, f) => Emulable(x)
<1>1. MmioDone(x, f) \in RecType /\ MmioDone(x, f).used = x.used
      /\ MmioDone(x, f).last = x.last /\ MmioDone(x, f).on = x.on
  BY Shapes DEF MmioDone
<1>2. ASSUME Polite, f.mmio PROVE Emulable(x)
  <2>1. x.last \in Syndromes /\ "shown" \in x.last
    BY <1>2 DEF Flags, RecType
  <2> QED BY <2>1 DEF Syndromes, Emulable
<1>3. Polite /\ PcFits(x, "host") => MmioDone(x, f).pc # "skipped"
  <2>1. CASE f.mmio
    BY <2>1, <1>2, Shapes DEF MmioDone, PcFits
  <2>2. CASE ~f.mmio
    BY <2>2 DEF MmioDone, PcFits
  <2> QED BY <2>1, <2>2
<1>4. Polite /\ f.mmio => ~f.sea
  BY DEF Flags
<1>5. Polite /\ f.sea /\ ~SeaFails(x, f) => Emulable(x)
  BY DEF Flags, SeaFails, Emulable
<1> QED BY <1>1, <1>3, <1>4, <1>5

LEMMA Emulated ==
  ASSUME NEW x \in RecType, NEW f \in Flags(x), ~MmioFails(x, f), ~SeaFails(x, f),
         x.on, Polite => PcFits(x, "host")
  PROVE  LET z == LastDone(CallDone(RipasDone(SeaDone(MmioDone(x, f), f))))
         IN /\ z \in RecType /\ z.used = x.used /\ z.on
            /\ z.last = {} /\ (Polite => z.pc # "skipped")
<1> DEFINE m == MmioDone(x, f)
           y == SeaDone(m, f)
           z == LastDone(CallDone(RipasDone(y)))
<1>1. /\ m \in RecType /\ m.used = x.used /\ m.last = x.last /\ m.on = x.on
      /\ Polite => m.pc # "skipped"
  BY Emulation
<1>2. f.sea /\ Polite => m = x /\ x.pc = "here"
  <2>1. f.sea /\ Polite => ~f.mmio /\ Emulable(x)
    BY Emulation
  <2> QED BY <2>1 DEF MmioDone, PcFits
<1> HIDE DEF m
<1>3. /\ y \in RecType /\ y.used = x.used /\ y.on
      /\ Polite => y.pc # "skipped"
  <2>1. CASE f.sea
    <3>1. y = Injected(m)
      BY <2>1 DEF SeaDone
    <3>2. Injected(m) \in RecType /\ Injected(m).used = m.used /\ Injected(m).on = m.on
      BY <1>1, Shapes
    <3>3. Polite => Injected(m).pc # "skipped"
      BY <1>1, <1>2, <2>1, Shapes
    <3> QED BY <1>1, <3>1, <3>2, <3>3
  <2>2. CASE ~f.sea
    BY <1>1, <2>2 DEF SeaDone
  <2> QED BY <2>1, <2>2
<1> HIDE DEF y
<1>4. /\ z \in RecType /\ z.used = x.used /\ z.on
      /\ z.last = {} /\ (Polite => z.pc # "skipped")
  <2>1. {} \in Syndromes
    BY DEF Syndromes
  <2> DEFINE v == RipasDone(y)
             w == CallDone(v)
  <2>2. v \in RecType /\ v.used = x.used /\ v.on /\ (Polite => v.pc # "skipped")
    BY <1>3, ZenonT(60) DEF RipasDone, RecType
  <2> HIDE DEF v
  <2>3. w \in RecType /\ w.used = x.used /\ w.on /\ (Polite => w.pc # "skipped")
    BY <2>2, ZenonT(60) DEF CallDone, RecType
  <2> HIDE DEF w
  <2>4. LET u == LastDone(w) IN
        /\ u \in RecType /\ u.used = x.used /\ u.on
        /\ u.last = {} /\ (Polite => u.pc # "skipped")
    BY <2>1, <2>3 DEF LastDone, RecType
  <2> QED BY <2>4 DEF v, w
<1> QED BY <1>4 DEF y, m

LEMMA RunLoopKeeps ==
  ASSUME RunIInv, NEW c \in Cpus, RunLoop(c)
  PROVE  RunIInv'
<1> DEFINE r == cpu[c].rec
           x == rec[r]
<1>1. cpu[c].pc \in Holding /\ cpu[c].pc = "admit"
  BY DEF RunLoop, At, Holding, Entering
<1>2. /\ r \in Recs /\ x \in RecType
      /\ Polite => PcFits(x, "host")
      /\ ~FpuAtRel2 => FpuFits(fpu[c], x, "admit", r)
  BY <1>1, Here
<1>3. PICK f \in Flags(x) :
        /\ ~MmioFails(x, f) /\ ~SeaFails(x, f)
        /\ Iterate(c, LastDone(CallDone(RipasDone(SeaDone(MmioDone(x, f), f)))))
  BY DEF RunLoop
<1>4. Schedulable(x) /\ AssignHeap(c, r) /\ UNCHANGED <<ref, held, rd, fpu>>
  BY DEF RunLoop
<1>5. heap' = [heap EXCEPT ![c] = r]
  BY <1>1, <1>4, InLoopLooping DEF AssignHeap, RunIInv, Base, TypeOK, HeapOwned, Looping
<1>6. rd' \in RdType /\ fpu' \in [Cpus -> FpuType] /\ fpu' = [fpu EXCEPT ![c] = fpu'[c]]
      /\ fpu'[c] = fpu[c]
  BY <1>4 DEF RunIInv, Base, TypeOK, RdType, FpuType
<1> DEFINE z == LastDone(CallDone(RipasDone(SeaDone(MmioDone(x, f), f))))
<1>9. /\ z \in RecType /\ z.used = x.used /\ z.on
      /\ z.last = {} /\ (Polite => z.pc # "skipped")
  <2>1. x.on
    BY <1>4 DEF Schedulable
  <2> QED BY <1>2, <1>3, <2>1, Emulated
<1>10. Iterate(c, z)
  BY <1>3
<1> HIDE DEF z
<1>11. ASSUME NEW l \in {"leave", "guest"}, NEW w \in RecType, Go(c, l), Becomes(r, w),
              w.used = x.used, Polite => PcFits(w, l)
       PROVE  RunIInv'
  <2>1. ~FpuAtRel2 => FpuFits(fpu'[c], w, l, r)
    BY <1>2, <1>6, <1>11 DEF FpuFits, Looping
  <2>2. l \in Looping \ {"extend"}
    BY DEF Looping
  <2>3. Rewrites(c)
    BY <1>1, <1>4, <1>5, <1>6, <1>11, <2>1, <2>2, Goes
  <2> QED BY <1>1, <2>3, Rewriting
<1>12. CASE TimerChanged(z)
  <2>1. Go(c, "leave") /\ Becomes(r, z)
    BY <1>10, <1>12 DEF Iterate
  <2>2. Polite => PcFits(z, "leave")
    BY <1>9 DEF PcFits, Emulable, Inner
  <2> QED BY <1>9, <1>11, <2>1, <2>2
<1>13. CASE ~TimerChanged(z)
  <2> DEFINE w == Activated(z)
  <2>1. Go(c, "guest") /\ Becomes(r, w)
    BY <1>10, <1>13 DEF Iterate
  <2>2. w \in RecType /\ w.used = x.used /\ w.on /\ w.last = {} /\ (Polite => w.pc = "here")
    BY <1>9, Shapes
  <2> HIDE DEF w
  <2>3. Polite => PcFits(w, "guest")
    BY <2>2 DEF PcFits, Emulable, Inner
  <2> QED BY <1>11, <2>1, <2>2, <2>3
<1> QED BY <1>12, <1>13

-----------------------------------------------------------------------------
(* The reference of a REC is put, and the CPU is back at the host. *)
LEMMA Returns ==
  ASSUME RunIInv, NEW c \in Cpus, cpu[c].pc \in Entering \cup {"save"}, NEW x \in RecType,
         Becomes(cpu[c].rec, x), Put(cpu[c].rec), Home(c), UNCHANGED <<held, rd, fpu>>,
         heap' = [heap EXCEPT ![c] = NoRec],
         x.used = rec[cpu[c].rec].used, Polite => PcFits(x, "host")
  PROVE  RunIInv'
<1> DEFINE r == cpu[c].rec
<1>1. cpu[c].pc \in Holding /\ r \in Recs
  BY Here DEF Holding, Looping
<1>2. Holds(c, r) /\ ref[r] = 1
  BY <1>1, HoldsHolding, HeldOut DEF RunIInv
<1>3. /\ cpu' = [cpu EXCEPT ![c] = AtHost] /\ rec' = [rec EXCEPT ![r] = x]
      /\ ref' = [ref EXCEPT ![r] = 0]
  BY <1>1, <1>2 DEF Home, Becomes, Put, RunIInv, Base, TypeOK
<1>4. AtHost \in CpuType /\ AtHost.pc = "host" /\ "host" \notin Holding
  BY RecRunAssumption DEF AtHost, CpuType, Labels, Torn, Holding, Entering, Looping
<1>5. TypeOK'
  BY <1>1, <1>3, <1>4 DEF RunIInv, Base, TypeOK, CpuType
<1>6. \A d \in Cpus : cpu'[d] = IF d = c THEN AtHost ELSE cpu[d]
  BY <1>3 DEF RunIInv, Base, TypeOK
<1>7. \A s \in Recs : Entered(s)' <=> Entered(s) /\ s # r
  <2>1. \A d \in Cpus, s \in Recs : Holds(d, s)' <=> Holds(d, s) /\ d # c
    BY <1>4, <1>6 DEF Holds, AtHost
  <2>2. \A d \in Cpus, s \in Recs : Holds(d, s) /\ d # c => s # r
    BY <1>1, <1>2 DEF RunIInv, Base, EnteredOnce
  <2>3. \A s \in Recs : Holds(c, s) => s = r
    BY DEF Holds
  <2> QED BY <2>1, <2>2, <2>3 DEF Entered
<1>8. EnteredOnce'
  <2>1. \A s \in Recs : ref'[s] = IF s = r THEN 0 ELSE ref[s]
    BY <1>3 DEF RunIInv, Base, TypeOK
  <2>2. \A d \in Cpus, s \in Recs : Holds(d, s)' => Holds(d, s)
    BY <1>4, <1>6 DEF Holds, AtHost
  <2> QED BY <1>7, <2>1, <2>2 DEF RunIInv, Base, EnteredOnce
<1>9. Working'
  <2> SUFFICES ASSUME NEW d \in Cpus PROVE WorkingAt(d)'
    BY DEF Working
  <2>1. CASE d = c
    BY <2>1, <1>4, <1>6 DEF WorkingAt, Locking, Holding, Entering, Looping
  <2>2. CASE d # c
    <3>1. WorkingAt(d) /\ (cpu[d].pc = "turn_on" => cpu[d].target # r)
      BY <1>1, HeldOut DEF RunIInv, Base, Working
    <3>2. cpu[d].pc = "turn_on" => rec'[cpu[d].target] = rec[cpu[d].target]
      BY <1>3, <3>1 DEF RunIInv, Base, TypeOK, WorkingAt, Locking
    <3>3. \A s \in Recs : ref[s] = 0 => ref'[s] = 0
      BY <1>3 DEF RunIInv, Base, TypeOK
    <3> QED BY <2>2, <1>6, <3>1, <3>2, <3>3 DEF WorkingAt, Locking
  <2> QED BY <2>1, <2>2
<1>10. HeapOwned'
  BY <1>4, <1>6 DEF RunIInv, Base, TypeOK, HeapOwned, InLoop
<1>11. ASSUME ~FpuAtRel2 PROVE FpuOwned'
  <2>1. FpuFits(fpu[c], rec[r], cpu[c].pc, r)
    BY <1>1, <1>11, Here
  <2>2. fpu[c].trap /\ fpu[c].of = NoRec /\ ~x.used
    BY <2>1 DEF FpuFits, Entering, Looping
  <2>3. ASSUME NEW d \in Cpus, d # c, cpu[d].pc \in Holding
        PROVE  rec'[cpu[d].rec] = rec[cpu[d].rec]
    BY <1>1, <1>3, <2>3, Sole DEF RunIInv, Base, TypeOK, Working, WorkingAt
  <2>4. \A s \in Recs : ~Entered(s)' => ~rec'[s].used
    BY <1>3, <1>7, <1>11, <2>2 DEF RunIInv, FpuOwned, Base, TypeOK
  <2> QED BY <1>4, <1>6, <1>11, <2>2, <2>3, <2>4 DEF RunIInv, FpuOwned
<1>12. ASSUME Polite PROVE PcFollows'
  <2>1. ASSUME NEW d \in Cpus, d # c, cpu[d].pc \in Inner
        PROVE  rec'[cpu[d].rec] = rec[cpu[d].rec]
    <3>1. cpu[d].pc \in Holding
      BY <2>1 DEF Inner, Holding, Looping
    <3> QED BY <1>1, <1>3, <2>1, <3>1, Sole DEF RunIInv, Base, TypeOK, Working, WorkingAt
  <2>2. \A s \in Recs : PcFits(rec'[s], "host")
    BY <1>3, <1>12 DEF RunIInv, PcFollows, Base, TypeOK
  <2> QED BY <1>4, <1>6, <1>12, <2>1, <2>2 DEF RunIInv, PcFollows, Inner
<1> QED BY <1>5, <1>8, <1>9, <1>10, <1>11, <1>12 DEF RunIInv, Base

LEMMA RefusedKeeps ==
  ASSUME RunIInv, NEW c \in Cpus, cpu[c].pc \in Entering, NEW x \in RecType,
         Becomes(cpu[c].rec, x), Refused(c),
         x.used = rec[cpu[c].rec].used, Polite => PcFits(x, "host")
  PROVE  RunIInv'
<1>1. heap' = [heap EXCEPT ![c] = NoRec]
  BY InLoopLooping DEF Refused, RunIInv, Base, TypeOK, HeapOwned, Entering, Looping
<1> QED BY <1>1, Returns DEF Refused

LEMMA SaveKeeps ==
  ASSUME RunIInv, NEW c \in Cpus, Save(c)
  PROVE  RunIInv'
<1> DEFINE y == rec[cpu[c].rec]
           x == [y EXCEPT !.saved = y.output]
<1>1. cpu[c].pc = "save" /\ cpu[c].pc \in Holding
  BY DEF Save, At, Holding, Looping
<1>2. y \in RecType /\ (Polite => PcFits(y, "host"))
  BY <1>1, Here
<1>3. /\ Becomes(cpu[c].rec, x) /\ heap' = [heap EXCEPT ![c] = NoRec]
      /\ Put(cpu[c].rec) /\ Home(c) /\ UNCHANGED <<held, rd, fpu>>
  BY DEF Save, UnassignHeap
<1> HIDE DEF y
<1>4. x \in RecType /\ x.used = y.used /\ x.last = y.last /\ x.pc = y.pc /\ x.on = y.on
  BY <1>2 DEF RecType
<1> HIDE DEF x
<1>5. Polite => PcFits(x, "host")
  BY <1>2, <1>4 DEF PcFits, Emulable, Inner
<1>6. x.used = rec[cpu[c].rec].used
  BY <1>4 DEF y
<1> QED BY <1>1, <1>3, <1>4, <1>5, <1>6, Returns

LEMMA UnchangedKeeps ==
  ASSUME RunIInv, NEW c \in Cpus, cpu[c].pc \in Entering, UNCHANGED rec, Refused(c)
  PROVE  RunIInv'
<1>1. cpu[c].pc \in Holding
  BY DEF Holding
<1>2. Becomes(cpu[c].rec, rec[cpu[c].rec])
  BY DEF Becomes, RunIInv, Base, TypeOK
<1> QED BY <1>1, <1>2, Here, RefusedKeeps

LEMMA EnterRefusedKeeps ==
  ASSUME RunIInv, NEW c \in Cpus, EnterRefused(c)
  PROVE  RunIInv'
BY UnchangedKeeps DEF EnterRefused, Refused, At, Entering

LEMMA EnterUnschedulableKeeps ==
  ASSUME RunIInv, NEW c \in Cpus, EnterUnschedulable(c)
  PROVE  RunIInv'
BY UnchangedKeeps DEF EnterUnschedulable, At, Entering

LEMMA EnterGicInvalidKeeps ==
  ASSUME RunIInv, NEW c \in Cpus, EnterGicInvalid(c)
  PROVE  RunIInv'
BY UnchangedKeeps DEF EnterGicInvalid, At, Entering

(* The emulated access stays done: the REC is past it, and not emulable in  *)
(* a way that matters, because a polite host does not ask for both.        *)
LEMMA EnterEmulationFailsKeeps ==
  ASSUME RunIInv, NEW c \in Cpus, EnterEmulationFails(c)
  PROVE  RunIInv'
<1> DEFINE x == rec[cpu[c].rec]
<1>1. cpu[c].pc \in Entering /\ cpu[c].pc \in Holding /\ Refused(c)
  BY DEF EnterEmulationFails, At, Entering, Holding
<1>2. x \in RecType
  BY <1>1, Here
<1>3. Polite => PcFits(x, "host")
  BY <1>1, Here
<1>4. PICK f \in Flags(x) :
        \/ UNCHANGED rec
        \/ ~MmioFails(x, f) /\ SeaFails(x, f) /\ Becomes(cpu[c].rec, MmioDone(x, f))
  BY DEF EnterEmulationFails
<1>5. CASE UNCHANGED rec
  BY <1>1, <1>5, UnchangedKeeps
<1>6. CASE ~MmioFails(x, f) /\ SeaFails(x, f) /\ Becomes(cpu[c].rec, MmioDone(x, f))
  <2> DEFINE m == MmioDone(x, f)
  <2>1. m \in RecType /\ m.used = x.used
    BY <1>2, <1>6, Emulation
  <2>2. Polite => ~f.mmio
    BY <1>2, <1>6, Emulation DEF SeaFails
  <2>3. Polite => PcFits(m, "host")
    BY <1>3, <2>2 DEF MmioDone
  <2>4. Becomes(cpu[c].rec, m)
    BY <1>6
  <2> HIDE DEF m
  <2> QED BY <1>1, <2>1, <2>3, <2>4, RefusedKeeps
<1> QED BY <1>4, <1>5, <1>6

LEMMA EnterCallFaultsKeeps ==
  ASSUME RunIInv, NEW c \in Cpus, EnterCallFaults(c)
  PROVE  RunIInv'
<1> DEFINE y == rec[cpu[c].rec]
           x == [RipasDone(y) EXCEPT !.told = FALSE]
<1>1. cpu[c].pc \in Entering /\ cpu[c].pc \in Holding /\ Refused(c)
  BY DEF EnterCallFaults, At, Entering, Holding
<1>2. y \in RecType
  BY <1>1, Here
<1>3. Polite => PcFits(y, "host")
  BY <1>1, Here
<1>4. Becomes(cpu[c].rec, x)
  BY DEF EnterCallFaults
<1>5. x \in RecType /\ x.used = y.used /\ x.last = y.last /\ x.pc = y.pc /\ x.on = y.on
  <2> HIDE DEF y
  <2> QED BY <1>2 DEF RipasDone, RecType
<1> HIDE DEF x
<1>6. Polite => PcFits(x, "host")
  BY <1>3, <1>5 DEF PcFits, Emulable, Inner
<1> QED BY <1>1, <1>4, <1>5, <1>6, RefusedKeeps

(* A free REC is entered: nobody has it, and nobody decides about it. *)
LEMMA RecEnterKeeps ==
  ASSUME RunIInv, NEW c \in Cpus, NEW r \in Recs, RecEnter(c, r)
  PROVE  RunIInv'
<1> DEFINE q == [cpu[c] EXCEPT !.pc = "read", !.rec = r]
<1>1. /\ cpu[c].pc = "host" /\ held[r] = NoCpu /\ ref[r] = 0
      /\ ref' = [ref EXCEPT ![r] = 1] /\ cpu' = [cpu EXCEPT ![c] = q]
      /\ UNCHANGED <<rec, held, rd, fpu, heap>>
  <2>1. cpu[c].pc = "host" /\ RefFree(r) /\ UNCHANGED <<rec, held, rd, fpu, heap>>
    BY DEF RecEnter, At
  <2>2. ref' = [ref EXCEPT ![r] = @ + 1] /\ ref[r] = 0
    BY <2>1 DEF RecEnter, RefFree
  <2>3. cpu' = [cpu EXCEPT ![c] = q]
    BY DEF RecEnter, RunIInv, Base, TypeOK
  <2> QED BY <2>1, <2>2, <2>3 DEF RefFree, RunIInv, Base, TypeOK
<1>2. q \in CpuType /\ q.pc = "read" /\ q.rec = r
  BY CpuHere DEF CpuType, Labels
<1> HIDE DEF q
<1>3. TypeOK'
  BY <1>1, <1>2 DEF RunIInv, Base, TypeOK, CpuType
<1>4. \A d \in Cpus : cpu'[d] = IF d = c THEN q ELSE cpu[d]
  BY <1>1 DEF RunIInv, Base, TypeOK
<1>5. \A s \in Recs : ref'[s] = IF s = r THEN 1 ELSE ref[s]
  BY <1>1 DEF RunIInv, Base, TypeOK
<1>6. ~Entered(r)
  BY <1>1 DEF RunIInv, Base, EnteredOnce
<1>7. \A d \in Cpus, s \in Recs : Holds(d, s)' <=> Holds(d, s) \/ (d = c /\ s = r)
  BY <1>1, <1>2, <1>4 DEF Holds
<1>8. EnteredOnce'
  <2>1. \A s \in Recs : Entered(s)' <=> Entered(s) \/ s = r
    BY <1>7 DEF Entered
  <2>2. \A d \in Cpus : ~Holds(d, r)
    BY <1>6 DEF Entered
  <2> QED BY <1>5, <1>6, <1>7, <2>1, <2>2 DEF RunIInv, Base, EnteredOnce
<1>9. Working'
  <2> SUFFICES ASSUME NEW d \in Cpus PROVE WorkingAt(d)'
    BY DEF Working
  <2>1. CASE d = c
    BY <2>1, <1>2, <1>4 DEF WorkingAt, Locking, Holding, Entering, Looping
  <2>2. CASE d # c
    <3>1. WorkingAt(d)
      BY DEF RunIInv, Base, Working
    <3>2. cpu[d].pc \in Locking => cpu[d].rec # r /\ cpu[d].target # r
      BY <1>1, <3>1, RecRunAssumption DEF WorkingAt
    <3> QED BY <2>2, <1>1, <1>4, <1>5, <3>1, <3>2 DEF WorkingAt, Locking
  <2> QED BY <2>1, <2>2
<1>10. HeapOwned'
  BY <1>1, <1>2, <1>4 DEF RunIInv, HeapOwned, InLoop
<1>11. ASSUME ~FpuAtRel2 PROVE FpuOwned'
  <2>1. fpu[c].trap /\ fpu[c].of = NoRec /\ ~rec[r].used
    BY <1>1, <1>6, <1>11 DEF RunIInv, FpuOwned, Holding, Entering, Looping
  <2>2. FpuFits(fpu[c], rec[r], "read", r)
    BY <2>1 DEF FpuFits
  <2>3. \A s \in Recs : ~Entered(s)' => ~Entered(s)
    BY <1>7 DEF Entered
  <2> QED BY <1>1, <1>2, <1>4, <1>11, <2>2, <2>3 DEF RunIInv, FpuOwned, Holding, Entering
<1>12. ASSUME Polite PROVE PcFollows'
  BY <1>1, <1>2, <1>4, <1>12 DEF RunIInv, PcFollows, Inner
<1> QED BY <1>3, <1>8, <1>9, <1>10, <1>11, <1>12 DEF RunIInv, Base

-----------------------------------------------------------------------------
(* RMI_PSCI_COMPLETE changes only RECs it has locked and nobody has entered. *)
LEMMA Completing ==
  ASSUME RunIInv, NEW c \in Cpus, cpu[c].pc \in Locking \cup {"host"}, NEW q \in CpuType,
         cpu' = [cpu EXCEPT ![c] = q], q.pc \in Locking \cup {"host"},
         rec' \in [Recs -> RecType], held' \in [Recs -> Cpus \cup {NoCpu}],
         \A s \in Recs : rec'[s] # rec[s] => ref[s] = 0 /\ held[s] = c,
         \A s \in Recs : rec'[s].used = rec[s].used,
         Polite => \A s \in Recs : PcFits(rec'[s], "host"),
         \A s \in Recs : held'[s] # held[s] => held[s] \in {NoCpu, c},
         UNCHANGED <<ref, rd, fpu, heap>>, WorkingAt(c)'
  PROVE  RunIInv'
<1>1. TypeOK'
  BY DEF RunIInv, Base, TypeOK, CpuType
<1>2. \A d \in Cpus : cpu'[d] = IF d = c THEN q ELSE cpu[d]
  BY DEF RunIInv, Base, TypeOK
<1>3. /\ cpu[c].pc \notin Holding /\ q.pc \notin Holding
      /\ cpu[c].pc \notin Looping /\ q.pc \notin Looping
      /\ cpu[c].pc \notin Inner /\ q.pc \notin Inner
  BY DEF Locking, Holding, Entering, Looping, Inner
<1>4. \A d \in Cpus, s \in Recs : Holds(d, s)' <=> Holds(d, s)
  BY <1>2, <1>3 DEF Holds, Holding, Entering, Looping
<1>5. \A s \in Recs : Entered(s)' <=> Entered(s)
  BY <1>4 DEF Entered
<1>6. EnteredOnce'
  BY <1>4, <1>5 DEF RunIInv, Base, EnteredOnce
<1>7. Working'
  <2> SUFFICES ASSUME NEW d \in Cpus, d # c PROVE WorkingAt(d)'
    BY DEF Working
  <2>1. WorkingAt(d)
    BY DEF RunIInv, Base, Working
  <2>2. \A s \in Recs : held[s] = d => held'[s] = d /\ rec'[s] = rec[s]
    BY RecRunAssumption
  <2> QED BY <1>2, <2>1, <2>2 DEF WorkingAt, Locking
<1>8. HeapOwned'
  BY <1>2, <1>3 DEF RunIInv, HeapOwned, InLoop, Looping
<1>9. \A d \in Cpus : cpu[d].pc \in Holding => rec'[cpu[d].rec] = rec[cpu[d].rec]
  <2>1. \A d \in Cpus : cpu[d].pc \in Holding => cpu[d].rec \in Recs /\ ref[cpu[d].rec] = 1
    BY HeldOut, Here DEF RunIInv
  <2> QED BY <2>1
<1>10. ASSUME ~FpuAtRel2 PROVE FpuOwned'
  BY <1>2, <1>3, <1>5, <1>9, <1>10 DEF RunIInv, FpuOwned
<1>11. ASSUME Polite PROVE PcFollows'
  <2>1. \A d \in Cpus : cpu[d].pc \in Inner => rec'[cpu[d].rec] = rec[cpu[d].rec]
    BY <1>9 DEF Inner, Holding, Looping
  <2> QED BY <1>2, <1>3, <1>11, <2>1 DEF RunIInv, PcFollows
<1> QED BY <1>1, <1>6, <1>7, <1>8, <1>10, <1>11 DEF RunIInv, Base

(* What RMI_PSCI_COMPLETE leaves alone at its start and its end. *)
LEMMA PsciLockKeeps ==
  ASSUME RunIInv, NEW c \in Cpus, NEW a \in Recs, NEW b \in Recs, PsciLock(c, a, b)
  PROVE  RunIInv'
<1> DEFINE q == [cpu[c] EXCEPT !.pc = "psci", !.rec = a, !.target = b]
<1>1. /\ cpu[c].pc = "host" /\ a # b /\ held[a] = NoCpu /\ held[b] = NoCpu
      /\ held' = [held EXCEPT ![a] = c, ![b] = c] /\ cpu' = [cpu EXCEPT ![c] = q]
      /\ UNCHANGED <<rec, ref, rd, fpu, heap>>
  BY DEF PsciLock, At, RunIInv, Base, TypeOK
<1>2. q \in CpuType /\ q.pc = "psci" /\ q.rec = a /\ q.target = b
  BY CpuHere DEF CpuType, Labels
<1> HIDE DEF q
<1>3. /\ held' \in [Recs -> Cpus \cup {NoCpu}] /\ held'[a] = c /\ held'[b] = c
      /\ \A s \in Recs : held'[s] # held[s] => held[s] \in {NoCpu, c}
  BY <1>1 DEF RunIInv, Base, TypeOK
<1>4. cpu'[c] = q
  BY <1>1 DEF RunIInv, Base, TypeOK
<1>5. WorkingAt(c)'
  BY <1>1, <1>2, <1>3, <1>4 DEF WorkingAt, Locking, Holding, Entering, Looping
<1>6. rec' \in [Recs -> RecType] /\ (Polite => \A s \in Recs : PcFits(rec'[s], "host"))
  BY <1>1 DEF RunIInv, Base, TypeOK, PcFollows
<1> QED BY <1>1, <1>2, <1>3, <1>5, <1>6, Completing DEF Locking

(* Both RECs are unlocked, and the CPU is back at the host. *)
LEMMA Completed ==
  ASSUME RunIInv, NEW c \in Cpus, cpu[c].pc \in Locking,
         Unlock(cpu[c].rec, cpu[c].target), Home(c), UNCHANGED <<ref, rd, fpu, heap>>,
         rec' \in [Recs -> RecType],
         \A s \in Recs : rec'[s] # rec[s] => ref[s] = 0 /\ held[s] = c,
         \A s \in Recs : rec'[s].used = rec[s].used,
         Polite => \A s \in Recs : PcFits(rec'[s], "host")
  PROVE  RunIInv'
<1>1. /\ AtHost \in CpuType /\ AtHost.pc = "host"
      /\ cpu' = [cpu EXCEPT ![c] = AtHost] /\ cpu'[c] = AtHost
  BY RecRunAssumption DEF AtHost, CpuType, Labels, Torn, Home, RunIInv, Base, TypeOK
<1>2. WorkingAt(c)'
  BY <1>1 DEF WorkingAt, Locking, Holding, Entering, Looping
<1>3. /\ cpu[c].rec \in Recs /\ cpu[c].target \in Recs
      /\ held[cpu[c].rec] = c /\ held[cpu[c].target] = c
  BY DEF RunIInv, Base, Working, WorkingAt
<1>4. /\ held' \in [Recs -> Cpus \cup {NoCpu}]
      /\ \A s \in Recs : held'[s] # held[s] => held[s] \in {NoCpu, c}
  BY <1>3 DEF Unlock, RunIInv, Base, TypeOK
<1> QED BY <1>1, <1>2, <1>4, Completing

LEMMA PsciRefusedKeeps ==
  ASSUME RunIInv, NEW c \in Cpus, PsciRefused(c)
  PROVE  RunIInv'
<1>1. rec' \in [Recs -> RecType] /\ (Polite => \A s \in Recs : PcFits(rec'[s], "host"))
  BY DEF PsciRefused, RunIInv, Base, TypeOK, PcFollows
<1> QED BY <1>1, Completed DEF PsciRefused, At, Locking

LEMMA PsciReadKeeps ==
  ASSUME RunIInv, NEW c \in Cpus, PsciRead(c)
  PROVE  RunIInv'
<1> DEFINE l == IF rec[cpu[c].rec].psci = "on" /\ ~SeenOn(cpu[c].target)
                THEN "turn_on" ELSE "answer"
           q == [cpu[c] EXCEPT !.pc = l]
<1>1. /\ cpu[c].pc = "psci" /\ Answerable(cpu[c].rec, cpu[c].target)
      /\ cpu' = [cpu EXCEPT ![c] = q] /\ UNCHANGED <<rec, ref, held, rd, fpu, heap>>
  BY DEF PsciRead, At, Go
<1>2. /\ l \in {"turn_on", "answer"}
      /\ l = "turn_on" => ref[cpu[c].target] = 0 /\ ~rec[cpu[c].target].on
  BY DEF SeenOn
<1> HIDE DEF l
<1>3. q \in CpuType /\ q.pc = l /\ q.rec = cpu[c].rec /\ q.target = cpu[c].target
  BY <1>2, CpuHere DEF CpuType, Labels
<1> HIDE DEF q
<1>4. cpu'[c] = q /\ WorkingAt(c)
  BY <1>1 DEF RunIInv, Base, TypeOK, Working
<1>5. WorkingAt(c)'
  BY <1>1, <1>2, <1>3, <1>4 DEF WorkingAt, Locking, Holding, Entering, Looping, Answerable
<1>6. rec' \in [Recs -> RecType] /\ (Polite => \A s \in Recs : PcFits(rec'[s], "host"))
  BY <1>1 DEF RunIInv, Base, TypeOK, PcFollows
<1>7. held' \in [Recs -> Cpus \cup {NoCpu}]
  BY <1>1 DEF RunIInv, Base, TypeOK
<1> QED BY <1>1, <1>2, <1>3, <1>5, <1>6, <1>7, Completing DEF Locking

LEMMA AnswerShapes ==
  ASSUME NEW x \in RecType
  PROVE  /\ Answered(x) \in RecType /\ Reset(x) \in RecType
         /\ Answered(x).used = x.used /\ Reset(x).used = x.used
         /\ PcFits(x, "host") => PcFits(Answered(x), "host")
         /\ ~x.on /\ PcFits(x, "host") => PcFits(Reset(x), "host")
<1>1. /\ Answered(x) \in RecType /\ Answered(x).used = x.used /\ Answered(x).pc = x.pc
      /\ Answered(x).last = x.last /\ Answered(x).on = x.on
  BY DEF Answered, RecType
<1>2. /\ Reset(x) \in RecType /\ Reset(x).used = x.used /\ Reset(x).pc = "next"
      /\ Reset(x).last = x.last /\ Reset(x).on
  BY DEF Reset, RecType
<1> QED BY <1>1, <1>2 DEF PcFits, Emulable, Inner

LEMMA AnswerKeeps ==
  ASSUME RunIInv, NEW c \in Cpus, Answer(c)
  PROVE  RunIInv'
<1> DEFINE a == cpu[c].rec
<1>1. /\ cpu[c].pc = "answer" /\ rec' = [rec EXCEPT ![a] = Answered(rec[a])]
      /\ Unlock(a, cpu[c].target) /\ Home(c) /\ UNCHANGED <<ref, rd, fpu, heap>>
  BY DEF Answer, At, Becomes
<1>2. a \in Recs /\ held[a] = c /\ ref[a] = 0
  BY <1>1 DEF RunIInv, Base, Working, WorkingAt, Locking
<1>3. \A s \in Recs : rec[s] \in RecType /\ (Polite => PcFits(rec[s], "host"))
  BY DEF RunIInv, Base, TypeOK, PcFollows
<1>4. \A s \in Recs : rec'[s] = IF s = a THEN Answered(rec[s]) ELSE rec[s]
  BY <1>1 DEF RunIInv, Base, TypeOK
<1>5. rec' \in [Recs -> RecType]
  BY <1>1, <1>2, <1>3, AnswerShapes DEF RunIInv, Base, TypeOK
<1>6. Polite => \A s \in Recs : PcFits(rec'[s], "host")
  BY <1>3, <1>4, AnswerShapes
<1>7. \A s \in Recs : rec'[s].used = rec[s].used
  BY <1>3, <1>4, AnswerShapes
<1> QED BY <1>1, <1>2, <1>4, <1>5, <1>6, <1>7, Completed DEF Locking

LEMMA TurnOnKeeps ==
  ASSUME RunIInv, NEW c \in Cpus, TurnOn(c)
  PROVE  RunIInv'
<1> DEFINE a == cpu[c].rec
           b == cpu[c].target
<1>1. /\ cpu[c].pc = "turn_on" /\ rec' = [rec EXCEPT ![a] = Answered(@), ![b] = Reset(@)]
      /\ Unlock(a, b) /\ Home(c) /\ UNCHANGED <<ref, rd, fpu, heap>>
  BY DEF TurnOn, At
<1>2. /\ a \in Recs /\ b \in Recs /\ a # b /\ held[a] = c /\ held[b] = c
      /\ ref[a] = 0 /\ ref[b] = 0 /\ ~rec[b].on
  BY <1>1 DEF RunIInv, Base, Working, WorkingAt, Locking
<1>3. \A s \in Recs : rec[s] \in RecType /\ (Polite => PcFits(rec[s], "host"))
  BY DEF RunIInv, Base, TypeOK, PcFollows
<1>4. \A s \in Recs : rec'[s] = IF s = a THEN Answered(rec[s])
                                ELSE IF s = b THEN Reset(rec[s]) ELSE rec[s]
  BY <1>1, <1>2 DEF RunIInv, Base, TypeOK
<1>5. rec' \in [Recs -> RecType]
  <2>1. Answered(rec[a]) \in RecType /\ Reset(rec[b]) \in RecType
    BY <1>2, <1>3, AnswerShapes
  <2> QED BY <1>1, <1>2, <2>1 DEF RunIInv, Base, TypeOK
<1>6. Polite => \A s \in Recs : PcFits(rec'[s], "host")
  BY <1>2, <1>3, <1>4, AnswerShapes
<1>7. \A s \in Recs : rec'[s].used = rec[s].used
  BY <1>3, <1>4, AnswerShapes
<1> QED BY <1>1, <1>2, <1>4, <1>5, <1>6, <1>7, Completed DEF Locking

-----------------------------------------------------------------------------
LEMMA RunInit == Init => RunIInv
<1> SUFFICES ASSUME Init PROVE RunIInv
  OBVIOUS
<1>1. AtHost \in CpuType /\ AtHost.pc = "host" /\ 0 \in 0 .. Torn
  BY RecRunAssumption DEF AtHost, CpuType, Labels, Torn
<1>2. \A c \in Cpus : cpu[c] = AtHost /\ heap[c] = NoRec /\ fpu[c].trap /\ fpu[c].of = NoRec
  BY DEF Init
<1>3. \A r \in Recs : /\ rec[r] \in RecType /\ ~rec[r].used
                      /\ rec[r].pc = "next" /\ rec[r].last = {}
  <2>1. {} \in Syndromes
    BY DEF Syndromes
  <2>2. ASSUME NEW r \in Recs
        PROVE  \E b \in BOOLEAN :
                 rec[r] = [on |-> b, psci |-> "none", about |-> NoRec, ripas |-> FALSE,
                           call |-> FALSE, last |-> {}, pc |-> "next",
                           token |-> "NOT_STARTED", snap |-> 0, used |-> FALSE,
                           serror |-> FALSE, output |-> FALSE, saved |-> FALSE,
                           told |-> FALSE]
    BY DEF Init
  <2> SUFFICES ASSUME NEW r \in Recs
               PROVE  /\ rec[r] \in RecType /\ ~rec[r].used
                      /\ rec[r].pc = "next" /\ rec[r].last = {}
    OBVIOUS
  <2>3. PICK b \in BOOLEAN :
                 rec[r] = [on |-> b, psci |-> "none", about |-> NoRec, ripas |-> FALSE,
                           call |-> FALSE, last |-> {}, pc |-> "next",
                           token |-> "NOT_STARTED", snap |-> 0, used |-> FALSE,
                           serror |-> FALSE, output |-> FALSE, saved |-> FALSE,
                           told |-> FALSE]
    BY <2>2
  <2> QED BY <1>1, <2>1, <2>3 DEF RecType
<1>4. TypeOK
  <2>1. rec \in [Recs -> RecType]
    BY <1>3 DEF Init
  <2> QED BY <1>1, <2>1 DEF Init, TypeOK, CpuType
<1>5. EnteredOnce
  BY <1>1, <1>2 DEF Init, EnteredOnce, Entered, Holds
<1>6. Working
  BY <1>1, <1>2 DEF Working, WorkingAt, Holding, Entering, Looping, Locking
<1>7. HeapOwned
  BY <1>1, <1>2 DEF HeapOwned, InLoop
<1>8. FpuOwned
  BY <1>1, <1>2, <1>3 DEF FpuOwned, Holding, Entering, Looping
<1>9. PcFollows
  BY <1>1, <1>2, <1>3 DEF PcFollows, PcFits, Emulable, Inner
<1> QED BY <1>4, <1>5, <1>6, <1>7, <1>8, <1>9 DEF RunIInv, Base

LEMMA HostKeeps ==
  ASSUME RunIInv, NEW c \in Cpus, Host(c)
  PROVE  RunIInv'
BY RecEnterKeeps, PsciLockKeeps DEF Host

LEMMA RmmKeeps ==
  ASSUME RunIInv, NEW c \in Cpus, Rmm(c)
  PROVE  RunIInv'
BY EnterRefusedKeeps, EnterAdmitKeeps, EnterUnschedulableKeeps, EnterGicInvalidKeeps,
   EnterEmulationFailsKeeps, EnterCallFaultsKeeps, RunLoopKeeps, LeaveKeeps, SaveKeeps,
   ExtendWriteKeeps, TokenRefusedKeeps, TokenSignKeeps, TokenInterruptedKeeps, TokenWriteKeeps,
   PsciRefusedKeeps, PsciReadKeeps, TurnOnKeeps, AnswerKeeps
   DEF Rmm

LEMMA RealmKeeps ==
  ASSUME RunIInv, NEW c \in Cpus, Realm(c)
  PROVE  RunIInv'
BY ToHostKeeps, ToRealmKeeps, UndefKeeps, CpuOffKeeps, PsciKeeps, SystemOffKeeps,
   IpaStateSetKeeps, LooksKeeps, HostCallKeeps, InstructionAbortKeeps, MmioKeeps,
   DataAbortKeeps, FpuTrapKeeps, SErrorKeeps, TimerFiresKeeps, TimerStopsKeeps,
   ExtendKeeps, MeasurementReadKeeps, TokenInitKeeps, TokenContinueKeeps
   DEF Realm, Wfx, Suspend, Engine, Icc, Call, PsciCall, Sysreg, DevMem, RealmConfig, IpaStateGet

LEMMA RunNext == RunIInv /\ [Next]_vars => RunIInv'
<1> SUFFICES ASSUME RunIInv, [Next]_vars PROVE RunIInv'
  OBVIOUS
<1>1. ASSUME NEW c \in Cpus, Host(c) \/ Rmm(c) \/ Realm(c) \/ Interrupt(c)
      PROVE  RunIInv'
  BY <1>1, HostKeeps, RmmKeeps, RealmKeeps, InterruptKeeps
<1>2. CASE UNCHANGED vars
  <2>1. rec' = rec /\ ref' = ref /\ held' = held /\ rd' = rd /\ cpu' = cpu /\ fpu' = fpu
        /\ heap' = heap
    BY <1>2 DEF vars
  <2>2. Base'
    BY <2>1 DEF RunIInv, Base, TypeOK, EnteredOnce, Entered, Holds, Working, WorkingAt
  <2>3. HeapOwned' /\ (~FpuAtRel2 => FpuOwned') /\ (Polite => PcFollows')
    BY <2>1 DEF RunIInv, HeapOwned, InLoop, FpuOwned, Entered, Holds, PcFollows
  <2> QED BY <2>2, <2>3 DEF RunIInv
<1> QED BY <1>1, <1>2 DEF Next

(* RunIInv holds of every reachable state, for any programs of the RECs and *)
(* whatever the host does.                                                 *)
THEOREM RunInvariant == Spec => []RunIInv
BY RunInit, RunNext, PTL DEF Spec

(* Types: every field of a REC, of a CPU and of the descriptor is what the *)
(* code can write to it.                                                   *)
THEOREM RunTypes == Spec => []TypeOK
<1>1. RunIInv => TypeOK
  BY DEF RunIInv, Base
<1> QED BY <1>1, RunInvariant, PTL

(* One CPU at most has entered a REC, and the count of the granule says if *)
(* one has: granule_get, atomic_granule_put_release and the locks of       *)
(* RMI_REC_ENTER and RMI_PSCI_COMPLETE.                                    *)
THEOREM RecEnteredOnce == Spec => []EnteredOnce
<1>1. RunIInv => EnteredOnce
  BY DEF RunIInv, Base
<1> QED BY <1>1, RunInvariant, PTL

(* buffer_alloc_ctx_assign and unassign: a CPU allocates from the heap of  *)
(* the REC it runs, and no two from the same.                              *)
THEOREM HeapOfOwnRec == Spec => []HeapAssigned
<1>1. ASSUME RunIInv PROVE HeapAssigned
  <2>1. ASSUME NEW c \in Cpus, NEW d \in Cpus, heap[c] = heap[d], heap[c] # NoRec
        PROVE  c = d
    <3>1. InLoop(c) /\ InLoop(d) /\ cpu[c].rec = cpu[d].rec
      BY <1>1, <2>1 DEF RunIInv, HeapOwned
    <3>2. cpu[c].pc \in Holding /\ cpu[d].pc \in Holding
      BY <3>1, InLoopLooping DEF Holding
    <3> QED BY <1>1, <3>1, <3>2, Sole DEF RunIInv
  <2> QED BY <1>1, <2>1 DEF RunIInv, HeapOwned, HeapAssigned
<1> QED BY <1>1, RunInvariant, PTL

(* The lazy switch of the FPU (rec_exit's FPU trap, rec_run_loop's end):   *)
(* without FPU use in the RMM itself, its registers are never mixed up.    *)
THEOREM FpuNeverMixed == ~FpuAtRel2 => (Spec => []FpuBelongs)
<1>1. ASSUME ~FpuAtRel2, RunIInv PROVE FpuBelongs
  <2> SUFFICES ASSUME NEW c \in Cpus
               PROVE  /\ ~fpu[c].trap => InLoop(c) /\ fpu[c] = [of |-> cpu[c].rec,
                                                              ns |-> NoRec, trap |-> FALSE]
                      /\ fpu[c].of = NoRec \/ InLoop(c)
                      /\ InLoop(c) => (Running(c).used <=> fpu[c].of = cpu[c].rec)
    BY DEF FpuBelongs
  <2>1. CASE cpu[c].pc \in Holding
    <3>1. FpuFits(fpu[c], rec[cpu[c].rec], cpu[c].pc, cpu[c].rec) /\ cpu[c].rec \in Recs
      BY <1>1, <2>1, Here
    <3>2. cpu[c].rec # NoRec
      BY <3>1, RecRunAssumption
    <3> QED BY <3>1, <3>2, InLoopLooping DEF FpuFits, Running
  <2>2. CASE cpu[c].pc \notin Holding
    <3>1. fpu[c].trap /\ fpu[c].of = NoRec /\ ~InLoop(c)
      BY <1>1, <2>2, InLoopLooping DEF RunIInv, FpuOwned, Holding
    <3> QED BY <3>1
  <2> QED BY <2>1, <2>2
<1>2. CASE ~FpuAtRel2
  <2>1. RunIInv => FpuBelongs
    BY <1>1, <1>2
  <2>2. Spec => []FpuBelongs
    BY <2>1, RunInvariant, PTL
  <2> QED BY <2>2
<1> QED BY <1>2

(* complete_mmio_emulation, complete_sea_insertion, advance_pc and the     *)
(* injections: with a host that emulates only what it was shown, the realm *)
(* neither skips an instruction nor sees a fault of another.               *)
THEOREM NoInstructionSkipped == Polite => (Spec => []PcAdvancedOnce)
<1>1. ASSUME Polite, RunIInv PROVE PcAdvancedOnce
  BY <1>1 DEF RunIInv, PcFollows, PcFits, PcAdvancedOnce
<1>2. CASE Polite
  <2>1. RunIInv => PcAdvancedOnce
    BY <1>1, <1>2
  <2>2. Spec => []PcAdvancedOnce
    BY <2>1, RunInvariant, PTL
  <2> QED BY <2>2
<1> QED BY <1>2

-----------------------------------------------------------------------------
(* A step leaves the other CPUs where they are, and a CPU that answers a   *)
(* PSCI request ends with TurnOn or Answer.                                *)
LEMMA Ends ==
  ASSUME Base, NEW c \in Cpus, NEW d \in Cpus,
         Host(d) \/ Rmm(d) \/ Realm(d) \/ Interrupt(d),
         cpu[c].pc \in {"turn_on", "answer"}, cpu'[c] # cpu[c]
  PROVE  TurnOn(c) \/ Answer(c)
<1>1. CASE Host(d)
  <2>1. cpu[d].pc = "host" /\ \E q : cpu' = [cpu EXCEPT ![d] = q]
    BY <1>1 DEF Host, RecEnter, PsciLock, At, Base, TypeOK
  <2> QED BY <2>1 DEF Base, TypeOK
<1>2. CASE Rmm(d)
  <2>1. /\ \E q : cpu' = [cpu EXCEPT ![d] = q]
        /\ cpu[d].pc \notin {"turn_on", "answer"} \/ TurnOn(d) \/ Answer(d)
    BY <1>2 DEF Rmm, EnterRefused, EnterAdmit, EnterUnschedulable, EnterGicInvalid,
                EnterEmulationFails, EnterCallFaults, RunLoop, Leave, Save, ExtendWrite,
                TokenRefused, TokenSign, TokenInterrupted, TokenWrite, PsciRefused, PsciRead,
                TurnOn, Answer, At, Go, Home, Refused, Stays, Leaves, Iterate, Base, TypeOK
  <2> QED BY <2>1 DEF Base, TypeOK
<1>3. CASE Realm(d)
  <2>1. cpu[d].pc \notin {"turn_on", "answer"}
    BY <1>3 DEF Realm, Wfx, Suspend, Engine, Icc, Call, PsciCall, Sysreg, DevMem, Undef, CpuOff,
                Psci, SystemOff, IpaStateSet, RealmConfig, IpaStateGet, HostCall,
                InstructionAbort, Mmio, DataAbort, FpuTrap, SError, TimerFires, TimerStops,
                Extend, MeasurementRead, TokenInit, TokenContinue, ToHost, ToRealm, Looks,
                May, At
  <2>2. (\E l : Go(d, l)) \/ UNCHANGED cpu \/ Extend(d)
    <3>1. \A x : (Stays(d, x) => \E l : Go(d, l)) /\ (Leaves(d, x) => \E l : Go(d, l))
      BY DEF Stays, Iterate, Leaves
    <3> QED BY <1>3, <3>1 DEF Realm, Wfx, Suspend, Engine, Icc, Call, PsciCall, Sysreg, DevMem,
                Undef, CpuOff, Psci, SystemOff, IpaStateSet, RealmConfig, IpaStateGet, HostCall,
                InstructionAbort, Mmio, DataAbort, FpuTrap, SError, TimerFires, TimerStops,
                MeasurementRead, TokenInit, TokenContinue, ToHost, ToRealm, Looks, Walks
  <2>3. c # d => cpu'[c] = cpu[c]
    BY <2>2 DEF Go, Extend, Base, TypeOK
  <2> QED BY <2>1, <2>3
<1>4. CASE Interrupt(d)
  <2>1. cpu[d].pc = "guest" /\ \E q : cpu' = [cpu EXCEPT ![d] = q]
    BY <1>4 DEF Interrupt, Leaves, Go, At, Base, TypeOK
  <2> QED BY <2>1 DEF Base, TypeOK
<1> QED BY <1>1, <1>2, <1>3, <1>4

(* psci_complete changes no REC that a CPU has entered, whichever CPUs     *)
(* enter which RECs between its read of a reference count and its writes.  *)
THEOREM RunningRecsLeftAlone == Spec => PsciLeavesRunningAlone
<1>1. ASSUME RunIInv, [Next]_vars, NEW c \in Cpus, PsciStep(c), NEW r \in Recs, Entered(r)
      PROVE  rec'[r] = rec[r]
  <2>1. cpu[c].pc \in {"turn_on", "answer"} /\ cpu'[c] # cpu[c]
    BY <1>1 DEF PsciStep
  <2>2. TurnOn(c) \/ Answer(c)
    BY <1>1, <2>1, Ends DEF Next, vars, RunIInv
  <2>3. /\ cpu[c].rec \in Recs /\ ref[cpu[c].rec] = 0
        /\ cpu[c].pc = "turn_on" => cpu[c].target \in Recs /\ ref[cpu[c].target] = 0
    BY <1>1, <2>1 DEF RunIInv, Base, Working, WorkingAt, Locking
  <2>4. ref[r] = 1
    BY <1>1 DEF RunIInv, Base, EnteredOnce
  <2>5. rec \in [Recs -> RecType]
    BY <1>1 DEF RunIInv, Base, TypeOK
  <2> QED BY <2>2, <2>3, <2>4, <2>5 DEF TurnOn, Answer, At, Becomes
<1>2. RunIInv /\ [Next]_vars
      => [\A c \in Cpus : PsciStep(c) => \A r \in Recs : Entered(r) => rec'[r] = rec[r]]_vars
  BY <1>1
<1> QED BY <1>2, RunInvariant, PTL DEF Spec, PsciLeavesRunningAlone

---------------------------------------------------------------------------
(* Tokens are of one measurement: the realm's measurement is torn exactly  *)
(* while a CPU that extends it holds the descriptor's lock, and what       *)
(* RSI_ATTESTATION_TOKEN_INIT copied was whole, and is no newer than what  *)
(* the realm measures now.                                                 *)
(* No newer than n; a token that was given up has no measurement. *)
NotAfter(x, n) == x.token # "NOT_STARTED" => x.snap <= n

Measured ==
  /\ \A r \in Recs : rec[r].snap \in 0 .. MaxRem
  /\ rd.lock = NoCpu => rd.rem \in 0 .. MaxRem /\ \A r \in Recs : NotAfter(rec[r], rd.rem)
  /\ rd.lock # NoCpu => rd.rem = Torn /\ cpu[rd.lock].pc = "extend"
  /\ \A c \in Cpus : cpu[c].pc = "extend" =>
       /\ rd.lock = c
       /\ cpu[c].rem \in 0 .. MaxRem - 1
       /\ \A r \in Recs : NotAfter(rec[r], cpu[c].rem)

(* What a step that does not extend does to a token: it keeps its          *)
(* measurement, gives it up, or takes the one of the realm.                *)
Behind(x, y) ==
  \/ y.snap = x.snap /\ (y.token # "NOT_STARTED" => x.token # "NOT_STARTED")
  \/ y.snap = 0
  \/ rd.lock = NoCpu /\ y.snap = rd.rem
SameToken(x, y) == y.snap = x.snap /\ y.token = x.token

LEMMA Behinds ==
  ASSUME Base, Measured, \A d \in Cpus : (cpu'[d].pc = "extend" <=> cpu[d].pc = "extend")
                                         /\ (cpu[d].pc = "extend" => cpu'[d].rem = cpu[d].rem),
         rd'.lock = rd.lock, rd'.rem = rd.rem,
         \A r \in Recs : Behind(rec[r], rec'[r])
  PROVE  Measured'
<1>1. MaxRem \in Nat /\ NoCpu \notin Cpus
  BY RecRunAssumption
<1>2. rd.lock \in Cpus \cup {NoCpu}
  BY DEF Base, TypeOK
<1>3. \A r \in Recs : rec'[r].snap \in 0 .. MaxRem
  BY <1>1 DEF Measured, Behind
<1>4. ASSUME NEW n \in 0 .. MaxRem, \A r \in Recs : NotAfter(rec[r], n),
             rd.lock = NoCpu => n = rd.rem
      PROVE  \A r \in Recs : NotAfter(rec'[r], n)
  BY <1>1, <1>4 DEF Behind, NotAfter
<1>5. rd'.lock = NoCpu => rd'.rem \in 0 .. MaxRem /\ \A r \in Recs : NotAfter(rec'[r], rd'.rem)
  BY <1>4 DEF Measured
<1>6. rd'.lock # NoCpu => rd'.rem = Torn /\ cpu'[rd'.lock].pc = "extend"
  BY <1>2 DEF Measured
<1>7. ASSUME NEW d \in Cpus, cpu'[d].pc = "extend"
      PROVE  /\ rd'.lock = d /\ cpu'[d].rem \in 0 .. MaxRem - 1
             /\ \A r \in Recs : NotAfter(rec'[r], cpu'[d].rem)
  <2>1. /\ rd.lock = d /\ cpu[d].rem \in 0 .. MaxRem - 1 /\ cpu'[d].rem = cpu[d].rem
        /\ \A r \in Recs : NotAfter(rec[r], cpu[d].rem)
    BY <1>7 DEF Measured
  <2>2. cpu[d].rem \in 0 .. MaxRem /\ rd.lock # NoCpu
    BY <1>1, <2>1
  <2>3. \A r \in Recs : NotAfter(rec'[r], cpu[d].rem)
    BY <1>4, <2>1, <2>2
  <2> QED BY <2>1, <2>3
<1> QED BY <1>3, <1>5, <1>6, <1>7 DEF Measured, Torn

(* CPU c goes to a label, goes home or stays, and leaves x in its REC. *)
Goings(c) == (\E l \in Labels \ {"extend"} : Go(c, l)) \/ Home(c) \/ cpu' = cpu

LEMMA Quiet ==
  ASSUME Base, Measured, NEW c \in Cpus, cpu[c].pc # "extend", Goings(c),
         rd'.lock = rd.lock, rd'.rem = rd.rem,
         \A r \in Recs : Behind(rec[r], rec'[r])
  PROVE  Measured'
<1>1. AtHost.pc # "extend"
  BY DEF AtHost
<1>2. \A d \in Cpus : (cpu'[d].pc = "extend" <=> cpu[d].pc = "extend")
                      /\ (cpu[d].pc = "extend" => cpu'[d].rem = cpu[d].rem)
  BY <1>1 DEF Goings, Go, Home, Base, TypeOK
<1> QED BY <1>2, Behinds

LEMMA BehindSame ==
  ASSUME NEW x, NEW y, SameToken(x, y)
  PROVE  Behind(x, y)
  BY DEF Behind, SameToken

LEMMA Becoming ==
  ASSUME Base, NEW c \in Cpus, NEW x, Becomes(cpu[c].rec, x), Behind(rec[cpu[c].rec], x)
  PROVE  \A r \in Recs : Behind(rec[r], rec'[r])
<1>1. \A r \in Recs : rec'[r] = IF r = cpu[c].rec THEN x ELSE rec[r]
  BY DEF Becomes, Base, TypeOK
<1> QED BY <1>1, BehindSame DEF SameToken

LEMMA Keeping ==
  ASSUME rec' = rec
  PROVE  \A r \in Recs : Behind(rec[r], rec'[r])
  BY DEF Behind

LEMMA StaysQuiet ==
  ASSUME Base, Measured, NEW c \in Cpus, cpu[c].pc \in Inner \ {"extend"}, NEW x \in RecType,
         Stays(c, x), Behind(rec[cpu[c].rec], x), rd'.lock = rd.lock, rd'.rem = rd.rem
  PROVE  Measured'
<1>1. Goings(c)
  BY DEF Stays, Iterate, Goings, Labels
<1>2. \E y : Becomes(cpu[c].rec, y) /\ SameToken(x, y)
  <2>1. SameToken(x, Activated(x)) /\ SameToken(x, x)
    BY DEF Activated, SameToken, RecType
  <2> QED BY <2>1 DEF Stays, Iterate
<1>3. PICK y : Becomes(cpu[c].rec, y) /\ SameToken(x, y)
  BY <1>2
<1>4. Behind(rec[cpu[c].rec], y)
  BY <1>3 DEF SameToken, Behind
<1> QED BY <1>1, <1>3, <1>4, Becoming, Quiet

LEMMA LeavesQuiet ==
  ASSUME Base, Measured, NEW c \in Cpus, cpu[c].pc \in Inner \ {"extend"}, NEW x,
         Leaves(c, x), Behind(rec[cpu[c].rec], x), rd'.lock = rd.lock, rd'.rem = rd.rem
  PROVE  Measured'
<1>1. Goings(c)
  BY DEF Leaves, Goings, Labels
<1> QED BY <1>1, Becoming, Quiet DEF Leaves

-----------------------------------------------------------------------------
(* The REC of a CPU in the realm, and what handlers do to its token. *)
LEMMA InRealmQuiet ==
  ASSUME Base, NEW c \in Cpus, At(c, "guest") \/ At(c, "token")
  PROVE  /\ cpu[c].pc \in Inner \ {"extend"}
         /\ Running(c) = rec[cpu[c].rec] /\ Running(c) \in RecType
  BY DEF At, Inner, Running, Base, TypeOK, Working, WorkingAt, Holding, Looping

LEMMA HandlersQuiet ==
  ASSUME Base, Measured, NEW c \in Cpus, At(c, "guest") \/ At(c, "token"), NEW x,
         rd'.lock = rd.lock, rd'.rem = rd.rem, Behind(Running(c), x),
         Leaves(c, x) \/ (x \in RecType /\ Stays(c, x))
  PROVE  Measured'
  BY InRealmQuiet, StaysQuiet, LeavesQuiet

LEMMA TokensKept ==
  ASSUME NEW x \in RecType
  PROVE  /\ Advanced(x) \in RecType /\ Injected(x) \in RecType /\ Between(x) \in RecType
         /\ Behind(x, x)
         /\ Behind(x, Advanced(x)) /\ Behind(x, Injected(x)) /\ Behind(x, Between(x))
<1>1. Advanced(x) \in RecType /\ Injected(x) \in RecType /\ Between(x) \in RecType
  BY Shapes
<1>2. SameToken(x, x) /\ SameToken(x, Advanced(x))
  BY DEF SameToken, Advanced, RecType
<1>3. SameToken(x, Injected(x))
  BY DEF SameToken, Injected, RecType
<1>4. SameToken(x, Between(x))
  BY DEF SameToken, Between, RecType
<1> QED BY <1>1, <1>2, <1>3, <1>4, BehindSame

(* Notes of other things leave the token alone. *)
LEMMA NotesKept ==
  ASSUME NEW x \in RecType, NEW y \in RecType, Behind(x, y)
  PROVE  /\ \A b : Behind(x, [y EXCEPT !.on = b]) /\ Behind(x, [y EXCEPT !.ripas = b])
                   /\ Behind(x, [y EXCEPT !.call = b]) /\ Behind(x, [y EXCEPT !.serror = b])
                   /\ Behind(x, [y EXCEPT !.used = b]) /\ Behind(x, [y EXCEPT !.output = b])
                   /\ Behind(x, [y EXCEPT !.saved = b]) /\ Behind(x, [y EXCEPT !.told = b])
                   /\ Behind(x, [y EXCEPT !.last = b])
         /\ \A k, t : Behind(x, [y EXCEPT !.psci = k, !.about = t])
  BY DEF Behind, RecType

LEMMA ToHostMeasured ==
  ASSUME Base, Measured, NEW c \in Cpus, NEW k, ToHost(c, k)
  PROVE  Measured'
  BY InRealmQuiet, TokensKept, HandlersQuiet DEF ToHost, May

LEMMA ToRealmMeasured ==
  ASSUME Base, Measured, NEW c \in Cpus, NEW k, ToRealm(c, k)
  PROVE  Measured'
  BY InRealmQuiet, TokensKept, HandlersQuiet DEF ToRealm, May

LEMMA UndefMeasured ==
  ASSUME Base, Measured, NEW c \in Cpus, Undef(c)
  PROVE  Measured'
  BY InRealmQuiet, TokensKept, HandlersQuiet DEF Undef, May

LEMMA InterruptMeasured ==
  ASSUME Base, Measured, NEW c \in Cpus, Interrupt(c)
  PROVE  Measured'
  BY InRealmQuiet, TokensKept, HandlersQuiet DEF Interrupt

LEMMA LooksMeasured ==
  ASSUME Base, Measured, NEW c \in Cpus, NEW k, Looks(c, k)
  PROVE  Measured'
<1>1. At(c, "guest") /\ rd' = rd
      /\ (Leaves(c, Running(c)) \/ Stays(c, Advanced(Running(c))))
  BY DEF Looks, May, Walks
<1> QED BY <1>1, InRealmQuiet, TokensKept, HandlersQuiet

LEMMA MeasurementReadMeasured ==
  ASSUME Base, Measured, NEW c \in Cpus, MeasurementRead(c)
  PROVE  Measured'
  BY InRealmQuiet, TokensKept, HandlersQuiet DEF MeasurementRead, May

LEMMA InstructionAbortMeasured ==
  ASSUME Base, Measured, NEW c \in Cpus, InstructionAbort(c)
  PROVE  Measured'
<1>1. /\ At(c, "guest") /\ rd' = rd
      /\ \/ Stays(c, Injected(Running(c))) \/ Leaves(c, Running(c))
         \/ Leaves(c, Injected(Running(c)))
  BY DEF InstructionAbort, May
<1> QED BY <1>1, InRealmQuiet, TokensKept, HandlersQuiet

LEMMA MmioMeasured ==
  ASSUME Base, Measured, NEW c \in Cpus, Mmio(c)
  PROVE  Measured'
<1>1. At(c, "guest") /\ rd' = rd /\ \E l : Leaves(c, [Running(c) EXCEPT !.last = l])
  BY DEF Mmio, May
<1>2. PICK l : Leaves(c, [Running(c) EXCEPT !.last = l])
  BY <1>1
<1>3. Behind(Running(c), [Running(c) EXCEPT !.last = l])
  BY <1>1, InRealmQuiet, TokensKept, NotesKept
<1> QED BY <1>1, <1>2, <1>3, HandlersQuiet

LEMMA DataAbortMeasured ==
  ASSUME Base, Measured, NEW c \in Cpus, DataAbort(c)
  PROVE  Measured'
<1> DEFINE x == Running(c)
           ext == [x EXCEPT !.last = {"dabt", "ext"}]
<1>1. At(c, "guest") /\ rd' = rd
      /\ \/ Stays(c, Injected(x)) \/ Leaves(c, Injected(ext))
         \/ \E l : Leaves(c, [x EXCEPT !.last = l])
  BY DEF DataAbort, May
<1>2. x \in RecType
  BY <1>1, InRealmQuiet
<1>3. Behind(x, Injected(ext))
  <2>1. SameToken(x, ext) /\ SameToken(ext, Injected(ext))
    BY <1>2 DEF SameToken, Injected, RecType
  <2> QED BY <2>1 DEF SameToken, Behind
<1>4. CASE \E l : Leaves(c, [x EXCEPT !.last = l])
  <2>1. PICK l : Leaves(c, [x EXCEPT !.last = l])
    BY <1>4
  <2>2. Behind(x, [x EXCEPT !.last = l])
    BY <1>2, TokensKept, NotesKept
  <2> QED BY <1>1, <2>1, <2>2, HandlersQuiet
<1>5. CASE Stays(c, Injected(x))
  BY <1>1, <1>2, <1>5, TokensKept, HandlersQuiet
<1>6. CASE Leaves(c, Injected(ext))
  BY <1>1, <1>3, <1>6, HandlersQuiet
<1> QED BY <1>1, <1>4, <1>5, <1>6

LEMMA SErrorMeasured ==
  ASSUME Base, Measured, NEW c \in Cpus, SError(c)
  PROVE  Measured'
<1>1. At(c, "guest") /\ rd' = rd
      /\ \E b : Leaves(c, [Between(Running(c)) EXCEPT !.serror = b])
  BY DEF SError, May
<1>2. PICK b : Leaves(c, [Between(Running(c)) EXCEPT !.serror = b])
  BY <1>1
<1>3. Behind(Running(c), [Between(Running(c)) EXCEPT !.serror = b])
  BY <1>1, InRealmQuiet, TokensKept, NotesKept
<1> QED BY <1>1, <1>2, <1>3, HandlersQuiet

LEMMA RequestsMeasured ==
  ASSUME Base, Measured, NEW c \in Cpus,
         CpuOff(c) \/ IpaStateSet(c) \/ HostCall(c) \/ \E k : Psci(c, k)
  PROVE  Measured'
<1> DEFINE y == Advanced(Running(c))
<1>1. /\ At(c, "guest") /\ rd' = rd
      /\ \/ Leaves(c, [y EXCEPT !.on = FALSE]) \/ Leaves(c, [y EXCEPT !.ripas = TRUE])
         \/ Leaves(c, [y EXCEPT !.call = TRUE]) \/ Stays(c, y) \/ Leaves(c, Running(c))
         \/ \E k, t : Leaves(c, [y EXCEPT !.psci = k, !.about = t])
  BY DEF CpuOff, IpaStateSet, HostCall, Psci, May, Walks
<1>2. Running(c) \in RecType /\ y \in RecType /\ Behind(Running(c), y)
      /\ Behind(Running(c), Running(c))
  BY <1>1, InRealmQuiet, TokensKept
<1> HIDE DEF y
<1>3. CASE \E k, t : Leaves(c, [y EXCEPT !.psci = k, !.about = t])
  <2>1. PICK k, t : Leaves(c, [y EXCEPT !.psci = k, !.about = t])
    BY <1>3
  <2>2. Behind(Running(c), [y EXCEPT !.psci = k, !.about = t])
    BY <1>2, NotesKept
  <2> QED BY <1>1, <2>1, <2>2, HandlersQuiet
<1>4. \A b : /\ Behind(Running(c), [y EXCEPT !.on = b])
             /\ Behind(Running(c), [y EXCEPT !.ripas = b])
             /\ Behind(Running(c), [y EXCEPT !.call = b])
  BY <1>2, NotesKept
<1> QED BY <1>1, <1>2, <1>3, <1>4, HandlersQuiet

LEMMA SystemOffMeasured ==
  ASSUME Base, Measured, NEW c \in Cpus, SystemOff(c)
  PROVE  Measured'
<1>1. /\ At(c, "guest") /\ Leaves(c, Advanced(Running(c)))
      /\ rd' = [rd EXCEPT !.off = TRUE]
  BY DEF SystemOff, May
<1>2. rd'.lock = rd.lock /\ rd'.rem = rd.rem
  BY <1>1 DEF Base, TypeOK
<1> QED BY <1>1, <1>2, InRealmQuiet, TokensKept, HandlersQuiet

LEMMA FpuTrapMeasured ==
  ASSUME Base, Measured, NEW c \in Cpus, FpuTrap(c)
  PROVE  Measured'
<1> DEFINE y == [Running(c) EXCEPT !.used = TRUE]
<1>1. At(c, "guest") /\ Stays(c, y) /\ rd' = rd
  BY DEF FpuTrap, May
<1>2. Running(c) \in RecType
  BY <1>1, InRealmQuiet
<1>3. Behind(Running(c), y)
  BY <1>2, TokensKept, NotesKept
<1>4. y \in RecType
  BY <1>2 DEF RecType
<1> QED BY <1>1, <1>3, <1>4, HandlersQuiet

-----------------------------------------------------------------------------
(* Steps with no handler, and those of the descriptor and the token. *)
LEMMA GoesQuiet ==
  ASSUME Base, Measured, NEW c \in Cpus, cpu[c].pc # "extend", Goings(c), rd' = rd,
         rec' = rec \/ \E x : Becomes(cpu[c].rec, x) /\ Behind(rec[cpu[c].rec], x)
  PROVE  Measured'
  BY Keeping, Becoming, Quiet

LEMMA TimerMeasured ==
  ASSUME Base, Measured, NEW c \in Cpus, TimerFires(c) \/ TimerStops(c)
  PROVE  Measured'
<1>1. /\ cpu[c].pc \in Holding \ {"extend"} /\ cpu' = cpu /\ rd' = rd
      /\ \E b : Becomes(cpu[c].rec, [rec[cpu[c].rec] EXCEPT !.output = b])
  BY DEF TimerFires, TimerStops, Running, At, Holding, Entering, Looping
<1>2. PICK b : Becomes(cpu[c].rec, [rec[cpu[c].rec] EXCEPT !.output = b])
  BY <1>1
<1>3. rec[cpu[c].rec] \in RecType
  BY <1>1 DEF Base, TypeOK, Working, WorkingAt
<1>4. Behind(rec[cpu[c].rec], [rec[cpu[c].rec] EXCEPT !.output = b])
  BY <1>3, TokensKept, NotesKept
<1> QED BY <1>1, <1>2, <1>4, GoesQuiet DEF Goings

LEMMA EntersMeasured ==
  ASSUME Base, Measured, NEW c \in Cpus,
         EnterRefused(c) \/ EnterAdmit(c) \/ EnterUnschedulable(c) \/ EnterGicInvalid(c)
           \/ PsciRefused(c) \/ PsciRead(c) \/ TokenContinue(c)
  PROVE  Measured'
<1>1. cpu[c].pc # "extend" /\ rec' = rec /\ rd' = rd
  BY DEF EnterRefused, EnterAdmit, EnterUnschedulable, EnterGicInvalid, Refused, PsciRefused,
         PsciRead, TokenContinue, May, At
<1>2. Goings(c)
  BY DEF EnterRefused, EnterAdmit, EnterUnschedulable, EnterGicInvalid, Refused, PsciRefused,
         PsciRead, TokenContinue, Goings, Labels
<1> QED BY <1>1, <1>2, GoesQuiet

LEMMA EmulatedKept ==
  ASSUME NEW x \in RecType, NEW f
  PROVE  /\ MmioDone(x, f) \in RecType /\ SeaDone(x, f) \in RecType
         /\ SameToken(x, MmioDone(x, f)) /\ SameToken(x, SeaDone(x, f))
<1>1. SameToken(x, x) /\ SameToken(x, Advanced(x)) /\ SameToken(x, Injected(x))
  BY DEF SameToken, Advanced, Injected, RecType
<1> QED BY <1>1, Shapes DEF MmioDone, SeaDone

LEMMA EnterEmulationFailsMeasured ==
  ASSUME Base, Measured, NEW c \in Cpus, EnterEmulationFails(c)
  PROVE  Measured'
<1> DEFINE x == rec[cpu[c].rec]
<1>1. /\ cpu[c].pc = "admit" /\ Home(c) /\ rd' = rd
      /\ rec' = rec \/ \E f : Becomes(cpu[c].rec, MmioDone(x, f))
  BY DEF EnterEmulationFails, Refused, At
<1>2. x \in RecType
  BY <1>1 DEF Base, TypeOK, Working, WorkingAt, Holding, Entering
<1>3. \A f : Behind(x, MmioDone(x, f))
  BY <1>2, EmulatedKept, BehindSame
<1> QED BY <1>1, <1>3, GoesQuiet DEF Goings

LEMMA EnterCallFaultsMeasured ==
  ASSUME Base, Measured, NEW c \in Cpus, EnterCallFaults(c)
  PROVE  Measured'
<1> DEFINE x == rec[cpu[c].rec]
           y == [RipasDone(x) EXCEPT !.told = FALSE]
<1>1. /\ cpu[c].pc = "admit" /\ Home(c) /\ rd' = rd /\ Becomes(cpu[c].rec, y)
  BY DEF EnterCallFaults, Refused, At
<1>2. x \in RecType
  BY <1>1 DEF Base, TypeOK, Working, WorkingAt, Holding, Entering
<1>3. Behind(x, y)
  BY <1>2 DEF Behind, RipasDone, RecType
<1> QED BY <1>1, <1>3, GoesQuiet DEF Goings

LEMMA RunLoopMeasured ==
  ASSUME Base, Measured, NEW c \in Cpus, RunLoop(c)
  PROVE  Measured'
<1> PICK z : z = rec[cpu[c].rec]
  OBVIOUS
<1>1. cpu[c].pc = "admit" /\ rd' = rd
  BY DEF RunLoop, At
<1>2. z \in RecType
  BY <1>1 DEF Base, TypeOK, Working, WorkingAt, Holding, Entering
<1>3. PICK f : Iterate(c, LastDone(CallDone(RipasDone(SeaDone(MmioDone(z, f), f)))))
  BY DEF RunLoop
<1> DEFINE e == SeaDone(MmioDone(z, f), f)
           x == LastDone(CallDone(RipasDone(e)))
<1>4. e \in RecType /\ SameToken(z, e)
  BY <1>2, EmulatedKept DEF SameToken
<1>5. Iterate(c, x)
  BY <1>3
<1> HIDE DEF e
<1>6. SameToken(e, x) /\ SameToken(e, Activated(x))
  <2>1. RipasDone(e) \in RecType /\ SameToken(e, RipasDone(e))
    BY <1>4 DEF SameToken, RipasDone, RecType
  <2>2. CallDone(RipasDone(e)) \in RecType /\ SameToken(e, CallDone(RipasDone(e)))
    BY <2>1 DEF SameToken, CallDone, RecType
  <2>3. {} \in Syndromes
    BY DEF Syndromes
  <2>4. x \in RecType /\ SameToken(e, x)
    BY <2>2, <2>3 DEF SameToken, LastDone, RecType
  <2> HIDE DEF x
  <2>5. SameToken(x, Activated(x))
    BY <2>4 DEF SameToken, Activated, RecType
  <2> QED BY <2>4, <2>5 DEF SameToken
<1> HIDE DEF x
<1>7. Goings(c)
  BY <1>5 DEF Iterate, Goings, Labels
<1>8. \E y : Becomes(cpu[c].rec, y) /\ SameToken(e, y)
  BY <1>5, <1>6 DEF Iterate
<1>9. \E y : Becomes(cpu[c].rec, y) /\ Behind(z, y)
  BY <1>4, <1>8, BehindSame DEF SameToken
<1> QED BY <1>1, <1>7, <1>9, GoesQuiet

LEMMA LeaveMeasured ==
  ASSUME Base, Measured, NEW c \in Cpus, Leave(c) \/ Save(c)
  PROVE  Measured'
<1> DEFINE x == rec[cpu[c].rec]
<1>1. cpu[c].pc \in {"leave", "save"} /\ rd' = rd
      /\ \/ Becomes(cpu[c].rec, [x EXCEPT !.used = FALSE, !.told = x.output])
         \/ Becomes(cpu[c].rec, [x EXCEPT !.saved = x.output])
  BY DEF Leave, Save, At
<1>2. x \in RecType
  BY <1>1 DEF Base, TypeOK, Working, WorkingAt, Holding, Looping
<1>3. Behind(x, [x EXCEPT !.used = FALSE, !.told = x.output])
      /\ Behind(x, [x EXCEPT !.saved = x.output])
  BY <1>2 DEF Behind, RecType
<1>4. Goings(c)
  BY DEF Leave, Save, Goings, Labels
<1> QED BY <1>1, <1>3, <1>4, GoesQuiet

LEMMA AsideMeasured ==
  ASSUME Base, Measured, NEW c \in Cpus,
         (\E r \in Recs : RecEnter(c, r)) \/ (\E a, b \in Recs : PsciLock(c, a, b))
  PROVE  Measured'
<1>1. /\ cpu[c].pc = "host" /\ rec' = rec /\ rd' = rd
      /\ \E q : cpu' = [cpu EXCEPT ![c] = q] /\ q.pc # "extend"
  <2>1. CASE \E r \in Recs : RecEnter(c, r)
    <3>1. PICK r \in Recs : RecEnter(c, r)
      BY <2>1
    <3>2. cpu' = [cpu EXCEPT ![c] = [cpu[c] EXCEPT !.pc = "read", !.rec = r]]
      BY <3>1 DEF RecEnter, Base, TypeOK
    <3>3. [cpu[c] EXCEPT !.pc = "read", !.rec = r].pc = "read"
      BY DEF Base, TypeOK
    <3> QED BY <3>1, <3>2, <3>3 DEF RecEnter, At
  <2>2. CASE \E a, b \in Recs : PsciLock(c, a, b)
    <3>1. PICK a, b \in Recs : PsciLock(c, a, b)
      BY <2>2
    <3>2. cpu' = [cpu EXCEPT ![c] = [cpu[c] EXCEPT !.pc = "psci", !.rec = a, !.target = b]]
      BY <3>1 DEF PsciLock, Base, TypeOK
    <3>3. [cpu[c] EXCEPT !.pc = "psci", !.rec = a, !.target = b].pc = "psci"
      BY DEF Base, TypeOK
    <3> QED BY <3>1, <3>2, <3>3 DEF PsciLock, At
  <2> QED BY <2>1, <2>2
<1>2. PICK q : cpu' = [cpu EXCEPT ![c] = q] /\ q.pc # "extend"
  BY <1>1
<1>3. \A d \in Cpus : (cpu'[d].pc = "extend" <=> cpu[d].pc = "extend")
                      /\ (cpu[d].pc = "extend" => cpu'[d].rem = cpu[d].rem)
  BY <1>1, <1>2 DEF Base, TypeOK
<1> QED BY <1>1, <1>3, Keeping, Behinds

LEMMA AnswersMeasured ==
  ASSUME Base, Measured, NEW c \in Cpus, Answer(c) \/ TurnOn(c)
  PROVE  Measured'
<1>1. /\ cpu[c].pc \in {"answer", "turn_on"} /\ Home(c) /\ rd' = rd
      /\ cpu[c].rec \in Recs /\ cpu[c].target \in Recs /\ cpu[c].rec # cpu[c].target
  BY DEF Answer, TurnOn, At, Base, Working, WorkingAt, Locking
<1>2. \A x \in RecType : SameToken(x, Answered(x)) /\ SameToken(x, Reset(x)) /\ SameToken(x, x)
  BY DEF SameToken, Answered, Reset, RecType
<1>3. \A r \in Recs : rec'[r] \in {rec[r], Answered(rec[r]), Reset(rec[r])}
  BY <1>1 DEF Answer, TurnOn, Becomes, Base, TypeOK
<1>4. \A r \in Recs : Behind(rec[r], rec'[r])
  BY <1>2, <1>3, BehindSame DEF Base, TypeOK
<1> QED BY <1>1, <1>4, Quiet DEF Goings

(* The measurement is taken under the descriptor's lock. *)
LEMMA ExtendMeasured ==
  ASSUME Base, Measured, NEW c \in Cpus, Extend(c)
  PROVE  Measured'
<1>1. MaxRem \in Nat /\ NoCpu \notin Cpus
  BY RecRunAssumption
<1>2. /\ rd.lock = NoCpu /\ rd.rem < MaxRem /\ rec' = rec
      /\ rd' = [rd EXCEPT !.lock = c, !.rem = Torn]
      /\ cpu' = [cpu EXCEPT ![c].pc = "extend", ![c].rem = rd.rem]
  BY DEF Extend, RdFree
<1>3. rd'.lock = c /\ rd'.rem = Torn
  BY <1>2 DEF Base, TypeOK
<1>4. cpu'[c].pc = "extend" /\ cpu'[c].rem = rd.rem
  BY <1>2 DEF Base, TypeOK
<1>5. \A d \in Cpus \ {c} : cpu'[d] = cpu[d]
  BY <1>2 DEF Base, TypeOK
<1>6. /\ rd.rem \in 0 .. MaxRem - 1
      /\ \A r \in Recs : NotAfter(rec[r], rd.rem)
      /\ \A r \in Recs : rec[r].snap \in 0 .. MaxRem
      /\ \A d \in Cpus : cpu[d].pc # "extend"
  BY <1>1, <1>2 DEF Measured
<1> QED BY <1>1, <1>2, <1>3, <1>4, <1>5, <1>6 DEF Measured, NotAfter

LEMMA ExtendWriteMeasured ==
  ASSUME Base, Measured, NEW c \in Cpus, ExtendWrite(c)
  PROVE  Measured'
<1>1. MaxRem \in Nat /\ NoCpu \notin Cpus
  BY RecRunAssumption
<1> DEFINE x == Advanced(Running(c))
<1>2. /\ cpu[c].pc = "extend" /\ Stays(c, x)
      /\ rd' = [rd EXCEPT !.lock = NoCpu, !.rem = cpu[c].rem + 1]
  BY DEF ExtendWrite, At
<1>3. /\ rd.lock = c /\ cpu[c].rem \in 0 .. MaxRem - 1
      /\ \A r \in Recs : NotAfter(rec[r], cpu[c].rem)
      /\ \A r \in Recs : rec[r].snap \in 0 .. MaxRem
  BY <1>2 DEF Measured
<1>4. \A d \in Cpus \ {c} : cpu[d].pc # "extend"
  BY <1>3 DEF Measured
<1>5. rd'.lock = NoCpu /\ rd'.rem = cpu[c].rem + 1
  BY <1>2 DEF Base, TypeOK
<1>6. \A d \in Cpus : cpu'[d].pc # "extend"
  BY <1>2, <1>4 DEF Stays, Iterate, Go, Base, TypeOK
<1>7. cpu[c].rec \in Recs /\ Running(c) \in RecType /\ Running(c) = rec[cpu[c].rec]
  BY <1>2 DEF Running, Base, TypeOK, Working, WorkingAt, Holding, Looping
<1>8. SameToken(Running(c), x) /\ x \in RecType
  BY <1>7, Shapes DEF SameToken, Advanced, RecType
<1> HIDE DEF x
<1>9. SameToken(x, Activated(x))
  BY <1>8 DEF SameToken, Activated, RecType
<1>10. \A r \in Recs : SameToken(rec[r], rec'[r])
  BY <1>2, <1>7, <1>8, <1>9 DEF Stays, Iterate, Becomes, SameToken, Base, TypeOK
<1>11. rd'.rem \in 0 .. MaxRem
  BY <1>1, <1>3, <1>5
<1>12. \A r \in Recs : NotAfter(rec'[r], rd'.rem) /\ rec'[r].snap \in 0 .. MaxRem
  BY <1>1, <1>3, <1>5, <1>10 DEF NotAfter, SameToken
<1> QED BY <1>1, <1>5, <1>6, <1>11, <1>12 DEF Measured

LEMMA GivenUpKept ==
  ASSUME NEW x \in RecType
  PROVE  /\ GivenUp(x) \in RecType /\ Behind(x, GivenUp(x))
         /\ Advanced(GivenUp(x)) \in RecType /\ Behind(x, Advanced(GivenUp(x)))
<1>1. 0 \in 0 .. Torn
  BY RecRunAssumption DEF Torn
<1>2. GivenUp(x) \in RecType /\ GivenUp(x).snap = 0
  BY <1>1 DEF GivenUp, RecType
<1>3. \A y \in RecType : SameToken(y, Advanced(y))
  BY DEF SameToken, Advanced, RecType
<1>4. Advanced(GivenUp(x)).snap = 0
  BY <1>2, <1>3 DEF SameToken
<1> QED BY <1>2, <1>4, Shapes DEF Behind

LEMMA TokenInitMeasured ==
  ASSUME Base, Measured, NEW c \in Cpus, TokenInit(c)
  PROVE  Measured'
<1> DEFINE x == Running(c)
           z == [x EXCEPT !.token = "IN_PROGRESS", !.snap = rd.rem]
<1>1. /\ At(c, "guest") /\ rd' = rd
      /\ Stays(c, Advanced(GivenUp(x))) \/ (rd.lock = NoCpu /\ Stays(c, Advanced(z)))
  BY DEF TokenInit, May, SnapshotReady, RdFree
<1>2. rd.rem \in 0 .. Torn
  BY DEF Base, TypeOK
<1>3. x \in RecType
  BY <1>1, InRealmQuiet
<1>4. z \in RecType /\ z.snap = rd.rem
  BY <1>2, <1>3 DEF RecType
<1>5. CASE Stays(c, Advanced(GivenUp(x)))
  BY <1>1, <1>3, <1>5, GivenUpKept, HandlersQuiet
<1>6. CASE rd.lock = NoCpu /\ Stays(c, Advanced(z))
  <2> HIDE DEF z
  <2>1. Advanced(z) \in RecType /\ Advanced(z).snap = rd.rem
    BY <1>4, Shapes DEF Advanced, RecType
  <2>2. Behind(x, Advanced(z))
    BY <1>6, <2>1 DEF Behind
  <2> QED BY <1>1, <1>6, <2>1, <2>2, HandlersQuiet
<1> QED BY <1>1, <1>5, <1>6

LEMMA TokenSignMeasured ==
  ASSUME Base, Measured, NEW c \in Cpus, TokenSign(c)
  PROVE  Measured'
<1> DEFINE x == [Running(c) EXCEPT !.token = "WRITE_IN_PROGRESS"]
<1>1. /\ At(c, "token") /\ cpu' = cpu /\ rd' = rd /\ Becomes(cpu[c].rec, x)
      /\ Running(c).token = "IN_PROGRESS"
  BY DEF TokenSign
<1>2. Behind(rec[cpu[c].rec], x)
  BY <1>1, InRealmQuiet DEF Behind, RecType
<1> QED BY <1>1, <1>2, GoesQuiet DEF Goings, At

LEMMA TokenInterruptedMeasured ==
  ASSUME Base, Measured, NEW c \in Cpus, TokenInterrupted(c)
  PROVE  Measured'
<1>1. PICK t : Leaves(c, [Running(c) EXCEPT !.token = t])
  BY DEF TokenInterrupted
<1>2. Behind(Running(c), [Running(c) EXCEPT !.token = t])
  BY InRealmQuiet DEF TokenInterrupted, Behind, RecType
<1> QED BY <1>1, <1>2, HandlersQuiet DEF TokenInterrupted

LEMMA TokenEndsMeasured ==
  ASSUME Base, Measured, NEW c \in Cpus, TokenRefused(c) \/ TokenWrite(c)
  PROVE  Measured'
<1>1. /\ At(c, "token") /\ rd' = rd
      /\ \/ Stays(c, Advanced(Running(c))) \/ Leaves(c, Running(c))
         \/ Stays(c, Advanced(GivenUp(Running(c))))
  BY DEF TokenRefused, TokenWrite, Walks
<1>2. Running(c) \in RecType
  BY <1>1, InRealmQuiet
<1> QED BY <1>1, <1>2, TokensKept, GivenUpKept, HandlersQuiet

-----------------------------------------------------------------------------
LEMMA NextMeasured ==
  ASSUME Base, Measured, [Next]_vars
  PROVE  Measured'
<1>1. ASSUME NEW c \in Cpus, Host(c) \/ Rmm(c)
      PROVE  Measured'
  BY <1>1, AsideMeasured, EntersMeasured, EnterEmulationFailsMeasured, EnterCallFaultsMeasured,
     RunLoopMeasured, LeaveMeasured, ExtendWriteMeasured, TokenEndsMeasured, TokenSignMeasured,
     TokenInterruptedMeasured, AnswersMeasured
     DEF Host, Rmm
<1>2. ASSUME NEW c \in Cpus, Realm(c) \/ Interrupt(c)
      PROVE  Measured'
  BY <1>2, ToHostMeasured, ToRealmMeasured, UndefMeasured, InterruptMeasured, LooksMeasured,
     RequestsMeasured, SystemOffMeasured, InstructionAbortMeasured, MmioMeasured,
     DataAbortMeasured, FpuTrapMeasured, SErrorMeasured, TimerMeasured, ExtendMeasured,
     MeasurementReadMeasured, TokenInitMeasured, EntersMeasured
     DEF Realm, Wfx, Suspend, Engine, Icc, Call, PsciCall, Sysreg, DevMem, RealmConfig,
         IpaStateGet
<1>3. CASE UNCHANGED vars
  BY <1>3, Keeping, Behinds DEF vars
<1> QED BY <1>1, <1>2, <1>3 DEF Next

LEMMA InitMeasured ==
  ASSUME Init
  PROVE  Measured
<1>1. AtHost.pc = "host"
  BY DEF AtHost
<1>2. MaxRem \in Nat
  BY RecRunAssumption
<1>3. \A r \in Recs : rec[r].snap = 0 /\ rec[r].token = "NOT_STARTED"
  BY DEF Init
<1>4. rd.lock = NoCpu /\ rd.rem = 0 /\ \A c \in Cpus : cpu[c].pc = "host"
  BY <1>1 DEF Init
<1> QED BY <1>2, <1>3, <1>4 DEF Measured, NotAfter

(* handle_rsi_attest_token_init reads the measurement under the RD's lock, *)
(* which RSI_MEASUREMENT_EXTEND holds while it writes: a token is of one   *)
(* measurement, and nothing is signed that the realm did not measure.      *)
THEOREM TokensWhole == Spec => []TokenOfOneMeasurement
<1>1. ASSUME RunIInv, Measured PROVE TokenOfOneMeasurement
  <2>1. MaxRem \in Nat /\ NoCpu \notin Cpus /\ Torn = MaxRem + 1
    BY RecRunAssumption DEF Torn
  <2>2. rd.lock \in Cpus \cup {NoCpu}
    BY <1>1 DEF RunIInv, Base, TypeOK
  <2>3. ASSUME NEW r \in Recs PROVE rec[r].snap # Torn
    BY <1>1, <2>1 DEF Measured
  <2>4. rd.rem = Torn <=> \E c \in Cpus : At(c, "extend") /\ rd.lock = c
    BY <1>1, <2>1, <2>2 DEF Measured, At
  <2>5. ASSUME NEW r \in Recs, rec[r].token # "NOT_STARTED" PROVE rd.rem >= rec[r].snap
    <3>1. CASE rd.lock = NoCpu
      BY <1>1, <2>1, <2>5, <3>1 DEF Measured, NotAfter
    <3>2. CASE rd.lock # NoCpu
      BY <1>1, <2>1, <2>5, <3>2 DEF Measured
    <3> QED BY <3>1, <3>2
  <2> QED BY <2>3, <2>4, <2>5 DEF TokenOfOneMeasurement
<1>2. Init => Measured
  BY InitMeasured
<1>3. RunIInv /\ Measured /\ [Next]_vars => Measured'
  BY NextMeasured DEF RunIInv
<1>4. RunIInv /\ Measured => TokenOfOneMeasurement
  BY <1>1
<1> QED BY <1>2, <1>3, <1>4, RunInvariant, PTL DEF Spec

-----------------------------------------------------------------------------
(***************************************************************************)
(* RecRun implements Vcpu: whatever locks, counts and unlocked reads do in *)
(* between, each step of the RMM is one step of what it promises a realm   *)
(* about its RECs, or none.                                                *)
(*                                                                         *)
(* Nearly every step is a turn: a CPU goes on with the REC that only it    *)
(* has entered, and what the realm knows of the other RECs stays.  Turned  *)
(* says what becomes of this one; Stutters, StaysFollows and LeavesFollows *)
(* are the turns that most handlers come down to.                          *)
(***************************************************************************)
(* What the mapping Promise makes of the state. *)
Modes == [r \in Recs |-> IF Inside(r) THEN "in" ELSE IF rec[r].on THEN "idle" ELSE "off"]
Owes == [r \in Recs |-> IF rec[r].psci # "none" THEN "psci"
                        ELSE IF rec[r].ripas THEN "ripas"
                        ELSE IF rec[r].call THEN "call" ELSE "none"]
Admits == {r \in Recs : \E c \in Cpus : At(c, "admit") /\ cpu[c].rec = r}

(* One REC, when a CPU at a label has it. *)
ModeAt(x, l) == IF l \in Inner THEN "in" ELSE IF x.on THEN "idle" ELSE "off"
Owing(x) == IF x.psci # "none" THEN "psci"
            ELSE IF x.ripas THEN "ripas"
            ELSE IF x.call THEN "call" ELSE "none"

(* A REC waits for one answer at most, for none while it runs; and the     *)
(* request that RMI_PSCI_COMPLETE is about to answer is still there.       *)
OneRequest(x) == /\ x.psci # "none" => ~x.ripas /\ ~x.call
                 /\ x.ripas => ~x.call
Free(x) == x.on /\ x.psci = "none" /\ ~x.ripas /\ ~x.call

AskedAt(c) == /\ cpu[c].pc \in Inner => Free(rec[cpu[c].rec])
              /\ cpu[c].pc \in {"turn_on", "answer"} => rec[cpu[c].rec].psci # "none"

Asked == /\ \A r \in Recs : OneRequest(rec[r])
         /\ \A c \in Cpus : AskedAt(c)

Follows == Asked' /\ (Promise!Next \/ UNCHANGED Promise!vars)

(* Two records that ask for the same. *)
Same(x, y) == y.on = x.on /\ y.psci = x.psci /\ y.ripas = x.ripas /\ y.call = x.call

(* CPU c goes on with its REC, now x, and is q itself; or has returned it. *)
Turns(c, x, q) ==
  /\ cpu[c].pc \in Holding
  /\ rec' = [rec EXCEPT ![cpu[c].rec] = x]
  /\ cpu' = [cpu EXCEPT ![c] = q]
  /\ q.pc \in Holding \cup {"host"}
  /\ q.pc \in Holding => q.rec = cpu[c].rec

-----------------------------------------------------------------------------
LEMMA InsideInner ==
  ASSUME NEW r
  PROVE  Inside(r) <=> \E c \in Cpus : cpu[c].rec = r /\ cpu[c].pc \in Inner
  BY DEF Inside, Inner

LEMMA TurnsOthers ==
  ASSUME Base, NEW c \in Cpus, NEW x, NEW q, Turns(c, x, q)
  PROVE  /\ cpu[c].rec \in Recs
         /\ rec'[cpu[c].rec] = x /\ cpu'[c] = q
         /\ \A s \in Recs \ {cpu[c].rec} : rec'[s] = rec[s]
         /\ \A d \in Cpus \ {c} :
              /\ cpu'[d] = cpu[d]
              /\ cpu[d].pc \in Holding => cpu[d].rec \in Recs /\ cpu[d].rec # cpu[c].rec
              /\ cpu[d].pc \in {"turn_on", "answer"} =>
                   cpu[d].rec \in Recs /\ cpu[d].rec # cpu[c].rec
<1>1. cpu[c].rec \in Recs
  BY DEF Turns, Base, Working, WorkingAt
<1>2. /\ rec'[cpu[c].rec] = x /\ cpu'[c] = q
      /\ \A s \in Recs \ {cpu[c].rec} : rec'[s] = rec[s]
      /\ \A d \in Cpus \ {c} : cpu'[d] = cpu[d]
  BY <1>1 DEF Turns, Base, TypeOK
<1>3. ASSUME NEW d \in Cpus \ {c}, cpu[d].pc \in Holding
      PROVE  cpu[d].rec \in Recs /\ cpu[d].rec # cpu[c].rec
  BY <1>3, Sole DEF Turns, Base, Working, WorkingAt
<1>4. ASSUME NEW d \in Cpus \ {c}, cpu[d].pc \in {"turn_on", "answer"}
      PROVE  cpu[d].rec \in Recs /\ cpu[d].rec # cpu[c].rec
  <2>1. cpu[d].rec \in Recs
    BY <1>4 DEF Base, Working, WorkingAt, Locking
  <2>2. cpu[d].rec # cpu[c].rec
    BY <1>1, <1>4, HeldOut DEF Turns
  <2> QED BY <2>1, <2>2
<1> QED BY <1>1, <1>2, <1>3, <1>4

(* The other RECs are as they were; this one is as x and the label say. *)
LEMMA Turned ==
  ASSUME Base, NEW c \in Cpus, NEW x, NEW q, Turns(c, x, q), NEW r, r = cpu[c].rec
  PROVE  /\ r \in Recs
         /\ Modes[r] = ModeAt(rec[r], cpu[c].pc) /\ Owes[r] = Owing(rec[r])
         /\ r \in Admits <=> cpu[c].pc = "admit"
         /\ Modes' = [Modes EXCEPT ![r] = ModeAt(x, q.pc)]
         /\ Owes' = [Owes EXCEPT ![r] = Owing(x)]
         /\ Admits' = IF q.pc = "admit" THEN Admits \cup {r} ELSE Admits \ {r}
<1>1. /\ r \in Recs /\ rec'[r] = x /\ cpu'[c] = q
      /\ \A s \in Recs \ {r} : rec'[s] = rec[s]
      /\ \A d \in Cpus \ {c} : cpu'[d] = cpu[d] /\ (cpu[d].pc \in Holding => cpu[d].rec # r)
  BY TurnsOthers
<1>2. /\ cpu[c].pc \in Holding /\ q.pc \in Holding \cup {"host"}
      /\ q.pc \in Holding => q.rec = r
  BY DEF Turns
<1>3. Inner \subseteq Holding /\ "admit" \in Holding /\ "host" \notin Inner
  BY DEF Inner, Holding, Entering, Looping
<1>4. Inside(r) <=> cpu[c].pc \in Inner
  BY <1>1, <1>3, InsideInner
<1>5. Inside(r)' <=> q.pc \in Inner
  <2>1. Inside(r)' <=> \E d \in Cpus : cpu'[d].rec = r /\ cpu'[d].pc \in Inner
    BY DEF Inside, Inner
  <2> QED BY <1>1, <1>2, <1>3, <2>1
<1>6. ASSUME NEW s \in Recs, s # r
      PROVE  Inside(s)' <=> Inside(s)
  <2>1. \A d \in Cpus : (cpu'[d].rec = s /\ cpu'[d].pc \in Inner)
                        <=> (cpu[d].rec = s /\ cpu[d].pc \in Inner)
    BY <1>1, <1>2, <1>3, <1>6
  <2> QED BY <2>1 DEF Inside, Inner
<1>7. Modes[r] = ModeAt(rec[r], cpu[c].pc) /\ Owes[r] = Owing(rec[r])
  BY <1>1, <1>4 DEF Modes, ModeAt, Owes, Owing
<1>8. r \in Admits <=> cpu[c].pc = "admit"
  BY <1>1, <1>3 DEF Admits, At
<1>9. Modes' = [Modes EXCEPT ![r] = ModeAt(x, q.pc)]
  BY <1>1, <1>5, <1>6 DEF Modes, ModeAt
<1>10. Owes' = [Owes EXCEPT ![r] = Owing(x)]
  <2>1. \A s \in Recs \ {r} : Owes'[s] = Owes[s]
    BY <1>1 DEF Owes
  <2>2. Owes'[r] = Owing(x)
    BY <1>1 DEF Owes, Owing
  <2>3. Owes = [s \in Recs |-> Owes[s]] /\ Owes' = [s \in Recs |-> Owes'[s]]
    BY DEF Owes
  <2> QED BY <1>1, <2>1, <2>2, <2>3
<1>11. Admits' = IF q.pc = "admit" THEN Admits \cup {r} ELSE Admits \ {r}
  <2>1. ASSUME NEW s \in Recs
        PROVE  s \in Admits' <=> \E d \in Cpus : cpu'[d].pc = "admit" /\ cpu'[d].rec = s
    BY DEF Admits, At
  <2>2. ASSUME NEW s \in Recs, s # r
        PROVE  s \in Admits' <=> s \in Admits
    BY <1>1, <1>2, <1>3, <2>1, <2>2 DEF Admits, At
  <2>3. r \in Admits' <=> q.pc = "admit"
    BY <1>1, <1>2, <1>3, <2>1
  <2>4. Admits \subseteq Recs /\ Admits' \subseteq Recs
    BY DEF Admits
  <2> QED BY <1>1, <2>2, <2>3, <2>4
<1> QED BY <1>1, <1>7, <1>8, <1>9, <1>10, <1>11

LEMMA TurnsAsked ==
  ASSUME Base, Asked, NEW c \in Cpus, NEW x, NEW q, Turns(c, x, q),
         OneRequest(x), q.pc \in Inner => Free(x)
  PROVE  Asked'
<1>1. ASSUME NEW s \in Recs PROVE OneRequest(rec'[s])
  BY TurnsOthers DEF Asked
<1>2. ASSUME NEW d \in Cpus PROVE AskedAt(d)'
  <2>1. CASE d = c
    <3>1. q.pc \notin {"turn_on", "answer"}
      BY DEF Turns, Holding, Entering, Looping
    <3>2. q.pc \in Inner => q.rec = cpu[c].rec
      BY DEF Turns, Inner, Holding, Looping
    <3> QED BY <2>1, <3>1, <3>2, TurnsOthers DEF AskedAt
  <2>2. CASE d # c
    <3>1. cpu'[d] = cpu[d]
      BY <2>2, TurnsOthers
    <3>2. cpu[d].pc \in Inner \cup {"turn_on", "answer"} => rec'[cpu[d].rec] = rec[cpu[d].rec]
      BY <2>2, TurnsOthers DEF Inner, Holding, Looping
    <3> QED BY <3>1, <3>2 DEF Asked, AskedAt
  <2> QED BY <2>1, <2>2
<1> QED BY <1>1, <1>2 DEF Asked

-----------------------------------------------------------------------------
(* The steps of Vcpu, in terms of the mapping. *)
LEMMA MappedStutter ==
  ASSUME Modes' = Modes, Owes' = Owes, Admits' = Admits, rd'.off = rd.off
  PROVE  UNCHANGED Promise!vars
  BY DEF Promise!vars, Modes, Owes, Admits

LEMMA MappedAdmit ==
  ASSUME NEW r \in Recs, ~rd.off, r \notin Admits, Modes[r] # "in",
         Admits' = Admits \cup {r}, Modes' = Modes, Owes' = Owes, rd'.off = rd.off
  PROVE  Promise!Next
<1>1. Promise!Admit(r)
  BY DEF Promise!Admit, Modes, Owes, Admits
<1> QED BY <1>1 DEF Promise!Next

LEMMA MappedRefuse ==
  ASSUME NEW r \in Recs, r \in Admits,
         Admits' = Admits \ {r}, Modes' = Modes, Owes' = Owes, rd'.off = rd.off
  PROVE  Promise!Next
<1>1. Promise!Refuse(r)
  BY DEF Promise!Refuse, Modes, Owes, Admits
<1> QED BY <1>1 DEF Promise!Next

LEMMA MappedResume ==
  ASSUME NEW r \in Recs, NEW m \in {"idle", "in"},
         r \in Admits, Modes[r] = "idle", Owes[r] # "psci",
         Modes' = [Modes EXCEPT ![r] = m], Owes' = [Owes EXCEPT ![r] = "none"],
         Admits' = Admits \ {r}, rd'.off = rd.off
  PROVE  Promise!Next
<1>1. Promise!Resume(r, m)
  BY DEF Promise!Resume, Modes, Owes, Admits
<1> QED BY <1>1 DEF Promise!Next

LEMMA MappedStop ==
  ASSUME NEW r \in Recs, NEW q \in {"psci", "ripas", "call", "none"}, Modes[r] = "in",
         Modes' = [Modes EXCEPT ![r] = "idle"], Owes' = [Owes EXCEPT ![r] = q],
         Admits' = Admits, rd'.off = rd.off
  PROVE  Promise!Next
<1>1. Promise!Stop(r, q)
  BY DEF Promise!Stop, Modes, Owes, Admits
<1> QED BY <1>1 DEF Promise!Next, Promise!Requests

LEMMA MappedTurnOff ==
  ASSUME NEW r \in Recs, Modes[r] = "in", Modes' = [Modes EXCEPT ![r] = "off"],
         Owes' = Owes, Admits' = Admits, rd'.off = rd.off
  PROVE  Promise!Next
<1>1. Promise!TurnOff(r)
  BY DEF Promise!TurnOff, Modes, Owes, Admits
<1> QED BY <1>1 DEF Promise!Next

LEMMA MappedHalt ==
  ASSUME NEW r \in Recs, Modes[r] = "in", Modes' = [Modes EXCEPT ![r] = "idle"],
         Owes' = Owes, Admits' = Admits, rd'.off = TRUE
  PROVE  Promise!Next
<1>1. Promise!Halt(r)
  BY DEF Promise!Halt, Modes, Owes, Admits
<1> QED BY <1>1 DEF Promise!Next

LEMMA MappedTurnOn ==
  ASSUME NEW a \in Recs, NEW b \in Recs,
         Owes[a] = "psci", Modes[b] = "off", b \notin Admits,
         Modes' = [Modes EXCEPT ![b] = "idle"], Owes' = [Owes EXCEPT ![a] = "none"],
         Admits' = Admits, rd'.off = rd.off
  PROVE  Promise!Next
<1>1. Promise!TurnOn(a, b)
  BY DEF Promise!TurnOn, Modes, Owes, Admits
<1> QED BY <1>1 DEF Promise!Next

LEMMA MappedAnswer ==
  ASSUME NEW a \in Recs, Owes[a] = "psci", a \notin Admits,
         Owes' = [Owes EXCEPT ![a] = "none"],
         Modes' = Modes, Admits' = Admits, rd'.off = rd.off
  PROVE  Promise!Next
<1>1. Promise!Answer(a)
  BY DEF Promise!Answer, Modes, Owes, Admits
<1> QED BY <1>1 DEF Promise!Next

-----------------------------------------------------------------------------
(* Turns that the realm does not notice, and turns that take a REC out. *)
LEMMA TurnsStutter ==
  ASSUME Base, Asked, NEW c \in Cpus, NEW x, NEW q, Turns(c, x, q),
         Same(rec[cpu[c].rec], x), rd'.off = rd.off,
         cpu[c].pc \in Inner <=> q.pc \in Inner,
         cpu[c].pc = "admit" <=> q.pc = "admit"
  PROVE  Follows
<1> PICK r : r = cpu[c].rec
  OBVIOUS
<1>1. /\ r \in Recs
      /\ Modes[r] = ModeAt(rec[r], cpu[c].pc) /\ Owes[r] = Owing(rec[r])
      /\ r \in Admits <=> cpu[c].pc = "admit"
      /\ Modes' = [Modes EXCEPT ![r] = ModeAt(x, q.pc)]
      /\ Owes' = [Owes EXCEPT ![r] = Owing(x)]
      /\ Admits' = IF q.pc = "admit" THEN Admits \cup {r} ELSE Admits \ {r}
  BY Turned
<1>2. ModeAt(x, q.pc) = Modes[r] /\ Owing(x) = Owes[r]
  BY <1>1 DEF ModeAt, Owing, Same
<1>3. Modes' = Modes /\ Owes' = Owes
  BY <1>1, <1>2 DEF Modes, Owes
<1>4. Admits' = Admits
  BY <1>1
<1>5. OneRequest(x)
  BY <1>1 DEF Asked, OneRequest, Same
<1>6. q.pc \in Inner => Free(x)
  BY DEF Asked, AskedAt, Free, Same
<1>7. Asked'
  BY <1>5, <1>6, TurnsAsked
<1>8. UNCHANGED Promise!vars
  BY <1>3, <1>4, MappedStutter
<1> QED BY <1>7, <1>8 DEF Follows

LEMMA TurnsStop ==
  ASSUME Base, Asked, NEW c \in Cpus, NEW x, NEW q, Turns(c, x, q),
         cpu[c].pc \in Inner, q.pc \notin Inner, q.pc # "admit",
         x.on, OneRequest(x), rd'.off = rd.off
  PROVE  Follows
<1> PICK r : r = cpu[c].rec
  OBVIOUS
<1>1. /\ r \in Recs
      /\ Modes[r] = ModeAt(rec[r], cpu[c].pc)
      /\ r \in Admits <=> cpu[c].pc = "admit"
      /\ Modes' = [Modes EXCEPT ![r] = ModeAt(x, q.pc)]
      /\ Owes' = [Owes EXCEPT ![r] = Owing(x)]
      /\ Admits' = IF q.pc = "admit" THEN Admits \cup {r} ELSE Admits \ {r}
  BY Turned
<1>2. ModeAt(x, q.pc) = "idle" /\ Modes[r] = "in"
  BY <1>1 DEF ModeAt
<1>3. Owing(x) \in {"psci", "ripas", "call", "none"}
  BY DEF Owing
<1>4. Admits' = Admits
  BY <1>1 DEF Inner
<1>5. Asked'
  BY TurnsAsked
<1>6. Promise!Next
  BY <1>1, <1>2, <1>3, <1>4, MappedStop
<1> QED BY <1>5, <1>6 DEF Follows

LEMMA GoTurns ==
  ASSUME Base, NEW c \in Cpus, cpu[c].pc \in Holding, NEW l \in Holding, NEW x,
         Go(c, l), Becomes(cpu[c].rec, x)
  PROVE  \E q : Turns(c, x, q) /\ q.pc = l
<1> DEFINE q == [cpu[c] EXCEPT !.pc = l]
<1>1. cpu[c] \in CpuType
  BY DEF Base, TypeOK, CpuType
<1>2. q.pc = l /\ q.rec = cpu[c].rec
  BY <1>1 DEF CpuType
<1>3. cpu' = [cpu EXCEPT ![c] = q]
  BY DEF Go
<1> HIDE DEF q
<1> QED BY <1>2, <1>3 DEF Turns, Becomes

LEMMA HomeTurns ==
  ASSUME Base, NEW c \in Cpus, cpu[c].pc \in Holding, NEW x, Home(c), Becomes(cpu[c].rec, x)
  PROVE  Turns(c, x, AtHost) /\ AtHost.pc = "host"
<1>1. AtHost.pc = "host" /\ "host" \notin Holding
  BY DEF AtHost, Holding, Entering, Looping
<1> QED BY <1>1 DEF Turns, Home, Becomes

LEMMA RecKept ==
  ASSUME Base, NEW c \in Cpus, cpu[c].pc \in Holding, rec' = rec
  PROVE  Becomes(cpu[c].rec, rec[cpu[c].rec])
  BY DEF Base, TypeOK, Becomes

LEMMA StaysFollows ==
  ASSUME Base, Asked, NEW c \in Cpus, cpu[c].pc \in Inner, NEW x \in RecType,
         Stays(c, x), Same(rec[cpu[c].rec], x), rd'.off = rd.off
  PROVE  Follows
<1>1. /\ cpu[c].pc \in Holding /\ cpu[c].pc # "admit"
      /\ "leave" \in Holding /\ "guest" \in Holding /\ "guest" \in Inner
      /\ "leave" \notin Inner
  BY DEF Inner, Holding, Looping
<1>2. Free(x) /\ OneRequest(x)
  BY DEF Asked, AskedAt, Free, OneRequest, Same
<1>3. CASE TimerChanged(x)
  <2>1. Go(c, "leave") /\ Becomes(cpu[c].rec, x)
    BY <1>3 DEF Stays, Iterate
  <2>2. PICK q : Turns(c, x, q) /\ q.pc = "leave"
    BY <1>1, <2>1, GoTurns
  <2> QED BY <1>1, <1>2, <2>2, TurnsStop DEF Free
<1>4. CASE ~TimerChanged(x)
  <2> DEFINE y == Activated(x)
  <2>1. Go(c, "guest") /\ Becomes(cpu[c].rec, y)
    BY <1>4 DEF Stays, Iterate
  <2>2. Same(x, y)
    BY DEF Same, Activated, RecType
  <2> HIDE DEF y
  <2>3. Same(rec[cpu[c].rec], y)
    BY <2>2 DEF Same
  <2>4. PICK q : Turns(c, y, q) /\ q.pc = "guest"
    BY <1>1, <2>1, GoTurns
  <2> QED BY <1>1, <2>3, <2>4, TurnsStutter
<1> QED BY <1>3, <1>4

LEMMA LeavesFollows ==
  ASSUME Base, Asked, NEW c \in Cpus, cpu[c].pc \in Inner, NEW x,
         Leaves(c, x), x.on, OneRequest(x), rd'.off = rd.off
  PROVE  Follows
<1>1. /\ cpu[c].pc \in Holding /\ cpu[c].pc # "admit"
      /\ "leave" \in Holding /\ "leave" \notin Inner
  BY DEF Inner, Holding, Looping
<1>2. PICK q : Turns(c, x, q) /\ q.pc = "leave"
  BY <1>1, GoTurns DEF Leaves
<1> QED BY <1>1, <1>2, TurnsStop

(* What the handlers make of a REC, but for requests. *)
LEMMA Sames ==
  ASSUME NEW x \in RecType
  PROVE  /\ Advanced(x) \in RecType /\ Injected(x) \in RecType /\ Between(x) \in RecType
         /\ Same(x, x)
         /\ Same(x, Advanced(x)) /\ Same(x, Injected(x)) /\ Same(x, Between(x))
         /\ GivenUp(x) \in RecType /\ Same(x, GivenUp(x))
         /\ \A l \in Syndromes : [x EXCEPT !.last = l] \in RecType
                                 /\ Same(x, [x EXCEPT !.last = l])
<1>1. Advanced(x) \in RecType /\ Injected(x) \in RecType /\ Between(x) \in RecType
  BY Shapes
<1>2. Same(x, x)
  BY DEF Same
<1>3. Same(x, Advanced(x))
  BY DEF Same, Advanced, RecType
<1>4. Same(x, Injected(x))
  BY DEF Same, Injected, RecType
<1>5. Same(x, Between(x))
  BY DEF Same, Between, RecType
<1>6. GivenUp(x) \in RecType /\ Same(x, GivenUp(x))
  <2>1. 0 \in 0 .. Torn
    BY RecRunAssumption DEF Torn
  <2>2. GivenUp(x) \in RecType
    BY <2>1 DEF GivenUp, RecType
  <2>3. Same(x, GivenUp(x))
    BY DEF Same, GivenUp, RecType
  <2> QED BY <2>2, <2>3
<1>7. \A l \in Syndromes : [x EXCEPT !.last = l] \in RecType
                           /\ Same(x, [x EXCEPT !.last = l])
  BY DEF Same, RecType
<1> QED BY <1>1, <1>2, <1>3, <1>4, <1>5, <1>6, <1>7

LEMMA InRealm ==
  ASSUME Base, Asked, NEW c \in Cpus, At(c, "guest") \/ At(c, "token") \/ At(c, "extend")
  PROVE  /\ cpu[c].pc \in Inner /\ cpu[c].rec \in Recs
         /\ Running(c) = rec[cpu[c].rec] /\ Running(c) \in RecType /\ Free(Running(c))
  BY DEF At, Inner, Running, Base, TypeOK, Working, WorkingAt, Holding, Looping, Asked, AskedAt

LEMMA StaysSame ==
  ASSUME Base, Asked, NEW c \in Cpus, cpu[c].pc \in Inner, NEW x \in RecType,
         Stays(c, x), Same(Running(c), x), rd'.off = rd.off
  PROVE  Follows
  BY StaysFollows DEF Running

LEMMA LeavesSame ==
  ASSUME Base, Asked, NEW c \in Cpus, cpu[c].pc \in Inner, NEW x,
         Leaves(c, x), Same(Running(c), x), rd'.off = rd.off
  PROVE  Follows
<1>1. x.on /\ OneRequest(x)
  BY DEF Asked, AskedAt, Running, Free, OneRequest, Same
<1> QED BY <1>1, LeavesFollows

-----------------------------------------------------------------------------
(* What the realm does. *)
LEMMA ToHostFollows ==
  ASSUME Base, Asked, NEW c \in Cpus, NEW k, ToHost(c, k)
  PROVE  Follows
  BY InRealm, Sames, LeavesSame DEF ToHost, May

LEMMA ToRealmFollows ==
  ASSUME Base, Asked, NEW c \in Cpus, NEW k, ToRealm(c, k)
  PROVE  Follows
  BY InRealm, Sames, StaysSame DEF ToRealm, May

LEMMA UndefFollows ==
  ASSUME Base, Asked, NEW c \in Cpus, Undef(c)
  PROVE  Follows
  BY InRealm, Sames, StaysSame DEF Undef, May

LEMMA InterruptFollows ==
  ASSUME Base, Asked, NEW c \in Cpus, Interrupt(c)
  PROVE  Follows
  BY InRealm, Sames, LeavesSame DEF Interrupt

LEMMA LooksFollows ==
  ASSUME Base, Asked, NEW c \in Cpus, NEW k, Looks(c, k)
  PROVE  Follows
<1>1. At(c, "guest") /\ rd' = rd
      /\ (Leaves(c, Running(c)) \/ Stays(c, Advanced(Running(c))))
  BY DEF Looks, May, Walks
<1> QED BY <1>1, InRealm, Sames, LeavesSame, StaysSame

LEMMA MeasurementReadFollows ==
  ASSUME Base, Asked, NEW c \in Cpus, MeasurementRead(c)
  PROVE  Follows
  BY InRealm, Sames, StaysSame DEF MeasurementRead, May

LEMMA InstructionAbortFollows ==
  ASSUME Base, Asked, NEW c \in Cpus, InstructionAbort(c)
  PROVE  Follows
<1>1. /\ At(c, "guest") /\ rd' = rd
      /\ \/ Stays(c, Injected(Running(c))) \/ Leaves(c, Running(c))
         \/ Leaves(c, Injected(Running(c)))
  BY DEF InstructionAbort, May
<1> QED BY <1>1, InRealm, Sames, LeavesSame, StaysSame

LEMMA MmioFollows ==
  ASSUME Base, Asked, NEW c \in Cpus, Mmio(c)
  PROVE  Follows
<1>1. PICK l \in {{"dabt"}, {"dabt", "isv", "shown"}} :
        Leaves(c, [Running(c) EXCEPT !.last = l])
  BY DEF Mmio
<1>2. l \in Syndromes
  BY DEF Syndromes
<1> QED BY <1>1, <1>2, InRealm, Sames, LeavesSame DEF Mmio, May

LEMMA DataAbortFollows ==
  ASSUME Base, Asked, NEW c \in Cpus, DataAbort(c)
  PROVE  Follows
<1> DEFINE x == Running(c)
           ext == [x EXCEPT !.last = {"dabt", "ext"}]
<1>1. At(c, "guest") /\ rd' = rd
  BY DEF DataAbort, May
<1>2. x \in RecType
  BY <1>1, InRealm
<1>3. ext \in RecType /\ Same(x, ext)
  <2>1. {"dabt", "ext"} \in Syndromes
    BY DEF Syndromes
  <2> QED BY <1>2, <2>1, Sames
<1>4. Same(x, Injected(ext))
  <2>1. Same(ext, Injected(ext))
    BY <1>3, Sames
  <2> QED BY <1>3, <2>1 DEF Same
<1>5. \/ Stays(c, Injected(x)) \/ Leaves(c, ext) \/ Leaves(c, Injected(ext))
      \/ \E l \in {{}, {"dabt", "par", "isv"}, {"dabt", "isv"}} : Leaves(c, [x EXCEPT !.last = l])
  BY DEF DataAbort
<1>6. CASE \E l \in {{}, {"dabt", "par", "isv"}, {"dabt", "isv"}} :
             Leaves(c, [x EXCEPT !.last = l])
  <2>1. PICK l \in Syndromes : Leaves(c, [x EXCEPT !.last = l])
    BY <1>6 DEF Syndromes
  <2> QED BY <1>1, <1>2, <2>1, InRealm, Sames, LeavesSame
<1>7. CASE Stays(c, Injected(x))
  BY <1>1, <1>2, <1>7, InRealm, Sames, StaysSame
<1>8. CASE Leaves(c, ext)
  BY <1>1, <1>3, <1>8, InRealm, LeavesSame
<1>9. CASE Leaves(c, Injected(ext))
  BY <1>1, <1>4, <1>9, InRealm, LeavesSame
<1> QED BY <1>5, <1>6, <1>7, <1>8, <1>9

LEMMA SErrorFollows ==
  ASSUME Base, Asked, NEW c \in Cpus, SError(c)
  PROVE  Follows
<1>1. PICK b \in BOOLEAN : Leaves(c, [Between(Running(c)) EXCEPT !.serror = b])
  BY DEF SError
<1> DEFINE y == Between(Running(c))
           z == [y EXCEPT !.serror = b]
<1>2. y \in RecType /\ Same(Running(c), y)
  BY InRealm, Sames DEF SError, May
<1>3. Same(y, z)
  BY <1>2 DEF Same, RecType
<1>4. Same(Running(c), z)
  BY <1>2, <1>3 DEF Same
<1> QED BY <1>1, <1>4, InRealm, LeavesSame DEF SError, May

LEMMA FpuTrapFollows ==
  ASSUME Base, Asked, NEW c \in Cpus, FpuTrap(c)
  PROVE  Follows
<1> DEFINE y == [Running(c) EXCEPT !.used = TRUE]
<1>1. At(c, "guest") /\ Stays(c, y) /\ rd' = rd
  BY DEF FpuTrap, May
<1>2. y \in RecType /\ Same(Running(c), y)
  BY <1>1, InRealm DEF Same, RecType
<1> QED BY <1>1, <1>2, InRealm, StaysSame

LEMMA AdvancedFree ==
  ASSUME NEW x \in RecType, Free(x)
  PROVE  Advanced(x) \in RecType /\ Free(Advanced(x))
  BY Sames DEF Same, Free

(* Calls and exits that leave a request. *)
LEMMA Requests ==
  ASSUME NEW x \in RecType, Free(x), NEW k \in {"on", "info"}, NEW t
  PROVE  LET y == Advanced(x)
             p == [y EXCEPT !.psci = k, !.about = t]
             i == [y EXCEPT !.ripas = TRUE]
             h == [y EXCEPT !.call = TRUE]
         IN /\ p.on /\ OneRequest(p)
            /\ i.on /\ OneRequest(i)
            /\ h.on /\ OneRequest(h)
<1> DEFINE y == Advanced(x)
<1>1. y \in RecType /\ Free(y)
  BY AdvancedFree
<1> HIDE DEF y
<1>2. [y EXCEPT !.psci = k, !.about = t].on /\ OneRequest([y EXCEPT !.psci = k, !.about = t])
  BY <1>1 DEF Free, OneRequest, RecType
<1>3. [y EXCEPT !.ripas = TRUE].on /\ OneRequest([y EXCEPT !.ripas = TRUE])
  BY <1>1 DEF Free, OneRequest, RecType
<1>4. [y EXCEPT !.call = TRUE].on /\ OneRequest([y EXCEPT !.call = TRUE])
  BY <1>1 DEF Free, OneRequest, RecType
<1> USE DEF y
<1> QED BY <1>2, <1>3, <1>4

LEMMA PsciFollows ==
  ASSUME Base, Asked, NEW c \in Cpus, NEW k \in {"on", "info", "wide"}, Psci(c, k)
  PROVE  Follows
<1> DEFINE m == IF k = "info" THEN k ELSE "on"
<1>1. At(c, "guest") /\ rd' = rd
  BY DEF Psci, May
<1>2. \E t : Leaves(c, [Advanced(Running(c)) EXCEPT !.psci = m, !.about = t])
  BY DEF Psci
<1>3. m \in {"on", "info"}
  OBVIOUS
<1> HIDE DEF m
<1>4. PICK t : Leaves(c, [Advanced(Running(c)) EXCEPT !.psci = m, !.about = t])
  BY <1>2
<1> QED BY <1>1, <1>3, <1>4, InRealm, Requests, LeavesFollows

LEMMA IpaStateSetFollows ==
  ASSUME Base, Asked, NEW c \in Cpus, IpaStateSet(c)
  PROVE  Follows
<1>1. /\ At(c, "guest") /\ rd' = rd
      /\ Leaves(c, [Advanced(Running(c)) EXCEPT !.ripas = TRUE])
  BY DEF IpaStateSet, May
<1>2. "on" \in {"on", "info"}
  OBVIOUS
<1> QED BY <1>1, <1>2, InRealm, Requests, LeavesFollows

LEMMA HostCallFollows ==
  ASSUME Base, Asked, NEW c \in Cpus, HostCall(c)
  PROVE  Follows
<1>1. /\ At(c, "guest") /\ rd' = rd
      /\ \/ Leaves(c, [Advanced(Running(c)) EXCEPT !.call = TRUE])
         \/ Stays(c, Advanced(Running(c))) \/ Leaves(c, Running(c))
  BY DEF HostCall, May, Walks
<1>2. CASE Leaves(c, [Advanced(Running(c)) EXCEPT !.call = TRUE])
  <2>1. "on" \in {"on", "info"}
    OBVIOUS
  <2> QED BY <1>1, <1>2, <2>1, InRealm, Requests, LeavesFollows
<1>3. CASE Stays(c, Advanced(Running(c)))
  BY <1>1, <1>3, InRealm, Sames, StaysSame
<1>4. CASE Leaves(c, Running(c))
  BY <1>1, <1>4, InRealm, Sames, LeavesSame
<1> QED BY <1>1, <1>2, <1>3, <1>4

(* A REC that turns itself off, and one that turns the realm off, leave    *)
(* with no request.                                                        *)
LEMMA Left ==
  ASSUME Base, Asked, NEW c \in Cpus, At(c, "guest"), NEW x, Leaves(c, x),
         OneRequest(x), Owing(x) = "none"
  PROVE  /\ Asked' /\ cpu[c].rec \in Recs
         /\ Modes[cpu[c].rec] = "in"
         /\ Modes' = [Modes EXCEPT ![cpu[c].rec] = IF x.on THEN "idle" ELSE "off"]
         /\ Owes' = Owes /\ Admits' = Admits
<1>1. /\ cpu[c].pc \in Holding /\ cpu[c].pc # "admit" /\ cpu[c].pc \in Inner
      /\ "leave" \in Holding /\ "leave" \notin Inner
  BY DEF At, Inner, Holding, Looping
<1>2. PICK q : Turns(c, x, q) /\ q.pc = "leave"
  BY <1>1, GoTurns DEF Leaves
<1>3. Asked'
  BY <1>1, <1>2, TurnsAsked
<1> PICK r : r = cpu[c].rec
  OBVIOUS
<1>4. /\ r \in Recs
      /\ Modes[r] = ModeAt(rec[r], cpu[c].pc) /\ Owes[r] = Owing(rec[r])
      /\ r \in Admits <=> cpu[c].pc = "admit"
      /\ Modes' = [Modes EXCEPT ![r] = ModeAt(x, q.pc)]
      /\ Owes' = [Owes EXCEPT ![r] = Owing(x)]
      /\ Admits' = IF q.pc = "admit" THEN Admits \cup {r} ELSE Admits \ {r}
  BY <1>2, Turned
<1>5. Modes[r] = "in" /\ ModeAt(x, q.pc) = IF x.on THEN "idle" ELSE "off"
  BY <1>1, <1>2, <1>4 DEF ModeAt
<1>6. Owes[r] = "none"
  BY <1>1, <1>4 DEF Asked, AskedAt, Free, Owing
<1>7. Owes' = Owes
  BY <1>4, <1>6 DEF Owes
<1>8. Admits' = Admits
  BY <1>1, <1>2, <1>4
<1> QED BY <1>3, <1>4, <1>5, <1>7, <1>8

LEMMA CpuOffFollows ==
  ASSUME Base, Asked, NEW c \in Cpus, CpuOff(c)
  PROVE  Follows
<1> DEFINE y == Advanced(Running(c))
           x == [y EXCEPT !.on = FALSE]
<1>1. At(c, "guest") /\ Leaves(c, x) /\ rd' = rd
  BY DEF CpuOff, May
<1>2. y \in RecType /\ Free(y)
  BY <1>1, InRealm, AdvancedFree
<1>3. ~x.on /\ OneRequest(x) /\ Owing(x) = "none"
  <2> HIDE DEF y
  <2> QED BY <1>2 DEF Free, OneRequest, Owing, RecType
<1> HIDE DEF x
<1>4. /\ Asked' /\ cpu[c].rec \in Recs /\ Modes[cpu[c].rec] = "in"
      /\ Modes' = [Modes EXCEPT ![cpu[c].rec] = "off"]
      /\ Owes' = Owes /\ Admits' = Admits
  BY <1>1, <1>3, Left
<1> QED BY <1>1, <1>4, MappedTurnOff DEF Follows

LEMMA SystemOffFollows ==
  ASSUME Base, Asked, NEW c \in Cpus, SystemOff(c)
  PROVE  Follows
<1> DEFINE y == Advanced(Running(c))
<1>1. At(c, "guest") /\ Leaves(c, y) /\ rd' = [rd EXCEPT !.off = TRUE]
  BY DEF SystemOff, May
<1>2. Free(y)
  BY <1>1, InRealm, AdvancedFree
<1>3. y.on /\ OneRequest(y) /\ Owing(y) = "none"
  BY <1>2 DEF Free, OneRequest, Owing
<1> HIDE DEF y
<1>4. /\ Asked' /\ cpu[c].rec \in Recs /\ Modes[cpu[c].rec] = "in"
      /\ Modes' = [Modes EXCEPT ![cpu[c].rec] = "idle"]
      /\ Owes' = Owes /\ Admits' = Admits
  BY <1>1, <1>3, Left
<1>5. rd'.off = TRUE
  BY <1>1 DEF Base, TypeOK
<1> QED BY <1>4, <1>5, MappedHalt DEF Follows

-----------------------------------------------------------------------------
(* Measurement and token, and the timer. *)
LEMMA Stands ==
  ASSUME Base, Asked, NEW c \in Cpus, cpu[c].pc \in Holding, NEW x,
         Becomes(cpu[c].rec, x), cpu' = cpu, Same(rec[cpu[c].rec], x), rd' = rd
  PROVE  Follows
<1>1. cpu' = [cpu EXCEPT ![c] = cpu[c]]
  BY DEF Base, TypeOK
<1>2. Turns(c, x, cpu[c])
  BY <1>1 DEF Turns, Becomes
<1> QED BY <1>2, TurnsStutter

LEMMA HereFollows ==
  ASSUME Base, NEW c \in Cpus, cpu[c].pc \in Holding
  PROVE  cpu[c].rec \in Recs /\ rec[cpu[c].rec] \in RecType
  BY DEF Base, TypeOK, Working, WorkingAt

LEMMA TimerFiresFollows ==
  ASSUME Base, Asked, NEW c \in Cpus, TimerFires(c)
  PROVE  Follows
<1> DEFINE x == [rec[cpu[c].rec] EXCEPT !.output = TRUE]
<1>1. /\ cpu[c].pc \in Holding /\ Becomes(cpu[c].rec, x)
      /\ cpu' = cpu /\ rd' = rd
  BY DEF TimerFires, Holding, Entering, Looping
<1>2. Same(rec[cpu[c].rec], x)
  BY <1>1, HereFollows DEF Same, RecType
<1> HIDE DEF x
<1> QED BY <1>1, <1>2, Stands

LEMMA TimerStopsFollows ==
  ASSUME Base, Asked, NEW c \in Cpus, TimerStops(c)
  PROVE  Follows
<1> DEFINE x == [rec[cpu[c].rec] EXCEPT !.output = FALSE]
<1>1. /\ cpu[c].pc \in Holding /\ Becomes(cpu[c].rec, x)
      /\ cpu' = cpu /\ rd' = rd
  BY DEF TimerStops, Running, At, Holding, Looping
<1>2. Same(rec[cpu[c].rec], x)
  BY <1>1, HereFollows DEF Same, RecType
<1> HIDE DEF x
<1> QED BY <1>1, <1>2, Stands

LEMMA TokenSignFollows ==
  ASSUME Base, Asked, NEW c \in Cpus, TokenSign(c)
  PROVE  Follows
<1> DEFINE x == [rec[cpu[c].rec] EXCEPT !.token = "WRITE_IN_PROGRESS"]
<1>1. /\ cpu[c].pc \in Holding /\ Becomes(cpu[c].rec, x)
      /\ cpu' = cpu /\ rd' = rd
  BY DEF TokenSign, Running, At, Holding, Looping
<1>2. Same(rec[cpu[c].rec], x)
  BY <1>1, HereFollows DEF Same, RecType
<1> HIDE DEF x
<1> QED BY <1>1, <1>2, Stands

LEMMA TokenRefusedFollows ==
  ASSUME Base, Asked, NEW c \in Cpus, TokenRefused(c)
  PROVE  Follows
  BY InRealm, Sames, StaysSame DEF TokenRefused

LEMMA TokenInterruptedFollows ==
  ASSUME Base, Asked, NEW c \in Cpus, TokenInterrupted(c)
  PROVE  Follows
<1>1. PICK t : Leaves(c, [Running(c) EXCEPT !.token = t])
  BY DEF TokenInterrupted
<1>2. Same(Running(c), [Running(c) EXCEPT !.token = t])
  BY InRealm DEF TokenInterrupted, Same, RecType
<1> QED BY <1>1, <1>2, InRealm, LeavesSame DEF TokenInterrupted

LEMMA TokenWriteFollows ==
  ASSUME Base, Asked, NEW c \in Cpus, TokenWrite(c)
  PROVE  Follows
<1> DEFINE y == GivenUp(Running(c))
<1>1. /\ At(c, "token") /\ rd' = rd
      /\ Leaves(c, Running(c)) \/ Stays(c, Advanced(y))
  BY DEF TokenWrite, Walks
<1>2. y \in RecType /\ Same(Running(c), y)
  BY <1>1, InRealm, Sames
<1> HIDE DEF y
<1>3. Advanced(y) \in RecType /\ Same(Running(c), Advanced(y))
  BY <1>2, Sames DEF Same
<1>4. CASE Leaves(c, Running(c))
  BY <1>1, <1>4, InRealm, Sames, LeavesSame
<1>5. CASE Stays(c, Advanced(y))
  BY <1>1, <1>3, <1>5, InRealm, StaysSame
<1> QED BY <1>1, <1>4, <1>5

LEMMA TokenInitFollows ==
  ASSUME Base, Asked, NEW c \in Cpus, TokenInit(c)
  PROVE  Follows
<1> DEFINE y == GivenUp(Running(c))
           z == [Running(c) EXCEPT !.token = "IN_PROGRESS", !.snap = rd.rem]
<1>1. /\ At(c, "guest") /\ rd' = rd
      /\ Stays(c, Advanced(y)) \/ Stays(c, Advanced(z))
  BY DEF TokenInit, May
<1>2. rd.rem \in 0 .. Torn
  BY DEF Base, TypeOK
<1>3. Running(c) \in RecType
  BY <1>1, InRealm
<1>4. y \in RecType /\ Same(Running(c), y)
  BY <1>3, Sames
<1>5. z \in RecType
  BY <1>2, <1>3 DEF RecType
<1>6. Same(Running(c), z)
  BY <1>3 DEF Same, RecType
<1> HIDE DEF y, z
<1>7. Advanced(y) \in RecType /\ Same(Running(c), Advanced(y))
  BY <1>4, Sames DEF Same
<1>8. Advanced(z) \in RecType /\ Same(Running(c), Advanced(z))
  BY <1>5, <1>6, Sames DEF Same
<1> QED BY <1>1, <1>7, <1>8, InRealm, StaysSame

LEMMA ExtendWriteFollows ==
  ASSUME Base, Asked, NEW c \in Cpus, ExtendWrite(c)
  PROVE  Follows
<1>1. /\ At(c, "extend") /\ Stays(c, Advanced(Running(c)))
      /\ rd' = [rd EXCEPT !.lock = NoCpu, !.rem = cpu[c].rem + 1]
  BY DEF ExtendWrite
<1>2. rd'.off = rd.off
  BY <1>1 DEF Base, TypeOK
<1> QED BY <1>1, <1>2, InRealm, Sames, StaysSame

(* A CPU that only takes its REC to another label. *)
LEMMA Moves ==
  ASSUME Base, Asked, NEW c \in Cpus, cpu[c].pc \in Holding, rec' = rec,
         NEW q, cpu' = [cpu EXCEPT ![c] = q], q.pc \in Holding, q.rec = cpu[c].rec,
         cpu[c].pc \in Inner <=> q.pc \in Inner,
         cpu[c].pc = "admit" <=> q.pc = "admit", rd'.off = rd.off
  PROVE  Follows
<1>1. Turns(c, rec[cpu[c].rec], q)
  BY RecKept DEF Turns, Becomes
<1>2. Same(rec[cpu[c].rec], rec[cpu[c].rec])
  BY DEF Same
<1> QED BY <1>1, <1>2, TurnsStutter

LEMMA ExtendFollows ==
  ASSUME Base, Asked, NEW c \in Cpus, Extend(c)
  PROVE  Follows
<1> DEFINE q == [cpu[c] EXCEPT !.pc = "extend", !.rem = rd.rem]
<1>1. cpu[c].pc = "guest" /\ rec' = rec /\ rd' = [rd EXCEPT !.lock = c, !.rem = Torn]
  BY DEF Extend, May, At
<1>2. cpu' = [cpu EXCEPT ![c] = q]
  BY DEF Extend, Base, TypeOK
<1>3. q.pc = "extend" /\ q.rec = cpu[c].rec
  BY DEF Base, TypeOK
<1>4. rd'.off = rd.off
  BY <1>1 DEF Base, TypeOK
<1> HIDE DEF q
<1> QED BY <1>1, <1>2, <1>3, <1>4, Moves DEF Inner, Holding, Looping

LEMMA TokenContinueFollows ==
  ASSUME Base, Asked, NEW c \in Cpus, TokenContinue(c)
  PROVE  Follows
<1> DEFINE q == [cpu[c] EXCEPT !.pc = "token"]
<1>1. cpu[c].pc = "guest" /\ rec' = rec /\ rd' = rd /\ cpu' = [cpu EXCEPT ![c] = q]
  BY DEF TokenContinue, May, At, Go
<1>2. q.pc = "token" /\ q.rec = cpu[c].rec
  BY DEF Base, TypeOK
<1> HIDE DEF q
<1> QED BY <1>1, <1>2, Moves DEF Inner, Holding, Looping

-----------------------------------------------------------------------------
(* RMI_REC_ENTER: entered, admitted or not, run, and returned. *)
LEMMA LeaveFollows ==
  ASSUME Base, Asked, NEW c \in Cpus, Leave(c)
  PROVE  Follows
<1> DEFINE r == cpu[c].rec
           x == [rec[r] EXCEPT !.used = FALSE, !.told = rec[r].output]
<1>1. cpu[c].pc = "leave" /\ Becomes(r, x) /\ Go(c, "save") /\ rd' = rd
  BY DEF Leave, At
<1>2. Same(rec[r], x)
  BY <1>1, HereFollows DEF Same, RecType, Holding, Looping
<1> HIDE DEF x
<1>3. PICK q : Turns(c, x, q) /\ q.pc = "save"
  BY <1>1, GoTurns DEF Holding, Looping
<1> QED BY <1>1, <1>2, <1>3, TurnsStutter DEF Inner

LEMMA SaveFollows ==
  ASSUME Base, Asked, NEW c \in Cpus, Save(c)
  PROVE  Follows
<1> DEFINE r == cpu[c].rec
           x == [rec[r] EXCEPT !.saved = rec[r].output]
<1>1. cpu[c].pc = "save" /\ Becomes(r, x) /\ Home(c) /\ rd' = rd
  BY DEF Save, At
<1>2. Same(rec[r], x)
  BY <1>1, HereFollows DEF Same, RecType, Holding, Looping
<1> HIDE DEF x
<1>3. Turns(c, x, AtHost) /\ AtHost.pc = "host"
  BY <1>1, HomeTurns DEF Holding, Looping
<1> QED BY <1>1, <1>2, <1>3, TurnsStutter DEF Inner

LEMMA EnterRefusedFollows ==
  ASSUME Base, Asked, NEW c \in Cpus, EnterRefused(c)
  PROVE  Follows
<1>1. cpu[c].pc = "read" /\ cpu[c].pc \in Holding /\ Home(c) /\ rec' = rec /\ rd' = rd
  BY DEF EnterRefused, At, Holding, Entering
<1>2. Turns(c, rec[cpu[c].rec], AtHost) /\ AtHost.pc = "host"
  BY <1>1, RecKept, HomeTurns
<1>3. Same(rec[cpu[c].rec], rec[cpu[c].rec])
  BY DEF Same
<1> QED BY <1>1, <1>2, <1>3, TurnsStutter DEF Inner

LEMMA EnterAdmitFollows ==
  ASSUME Base, Asked, NEW c \in Cpus, EnterAdmit(c)
  PROVE  Follows
<1> PICK r : r = cpu[c].rec
  OBVIOUS
<1>1. /\ cpu[c].pc = "read" /\ cpu[c].pc \in Holding /\ "admit" \in Holding
      /\ Go(c, "admit") /\ ~rd.off /\ rec' = rec /\ rd' = rd
  BY DEF EnterAdmit, RealmRuns, At, Holding, Entering
<1>2. PICK q : Turns(c, rec[r], q) /\ q.pc = "admit"
  BY <1>1, RecKept, GoTurns
<1>3. /\ r \in Recs
      /\ Modes[r] = ModeAt(rec[r], cpu[c].pc) /\ Owes[r] = Owing(rec[r])
      /\ r \in Admits <=> cpu[c].pc = "admit"
      /\ Modes' = [Modes EXCEPT ![r] = ModeAt(rec[r], q.pc)]
      /\ Owes' = [Owes EXCEPT ![r] = Owing(rec[r])]
      /\ Admits' = IF q.pc = "admit" THEN Admits \cup {r} ELSE Admits \ {r}
  BY <1>2, Turned
<1>4. ModeAt(rec[r], q.pc) = Modes[r] /\ Modes[r] # "in"
  BY <1>1, <1>2, <1>3 DEF ModeAt, Inner
<1>5. Modes' = Modes /\ Owes' = Owes
  BY <1>3, <1>4 DEF Modes, Owes
<1>6. Asked'
  <2>1. OneRequest(rec[r]) /\ q.pc \notin Inner
    BY <1>2, <1>3 DEF Asked, Inner
  <2> QED BY <1>2, <2>1, TurnsAsked
<1>7. Promise!Next
  BY <1>1, <1>2, <1>3, <1>4, <1>5, MappedAdmit
<1> QED BY <1>6, <1>7 DEF Follows

LEMMA RefusedFollows ==
  ASSUME Base, Asked, NEW c \in Cpus, At(c, "admit"), Refused(c), NEW x,
         Becomes(cpu[c].rec, x), Same(rec[cpu[c].rec], x)
  PROVE  Follows
<1> PICK r : r = cpu[c].rec
  OBVIOUS
<1>1. cpu[c].pc = "admit" /\ cpu[c].pc \in Holding /\ Home(c) /\ rd' = rd
  BY DEF Refused, At, Holding, Entering
<1>2. Turns(c, x, AtHost) /\ AtHost.pc = "host"
  BY <1>1, HomeTurns
<1>3. /\ r \in Recs
      /\ Modes[r] = ModeAt(rec[r], cpu[c].pc) /\ Owes[r] = Owing(rec[r])
      /\ r \in Admits <=> cpu[c].pc = "admit"
      /\ Modes' = [Modes EXCEPT ![r] = ModeAt(x, AtHost.pc)]
      /\ Owes' = [Owes EXCEPT ![r] = Owing(x)]
      /\ Admits' = IF AtHost.pc = "admit" THEN Admits \cup {r} ELSE Admits \ {r}
  BY <1>2, Turned
<1>4. ModeAt(x, AtHost.pc) = Modes[r] /\ Owing(x) = Owes[r]
  BY <1>1, <1>2, <1>3 DEF ModeAt, Owing, Same, Inner
<1>5. Modes' = Modes /\ Owes' = Owes /\ Admits' = Admits \ {r}
  BY <1>2, <1>3, <1>4 DEF Modes, Owes
<1>6. Asked'
  <2>1. OneRequest(x) /\ AtHost.pc \notin Inner
    BY <1>2, <1>3 DEF Asked, OneRequest, Same, Inner
  <2> QED BY <1>2, <2>1, TurnsAsked
<1>7. Promise!Next
  BY <1>1, <1>3, <1>5, MappedRefuse
<1> QED BY <1>6, <1>7 DEF Follows

LEMMA EnterUnschedulableFollows ==
  ASSUME Base, Asked, NEW c \in Cpus, EnterUnschedulable(c) \/ EnterGicInvalid(c)
  PROVE  Follows
<1>1. At(c, "admit") /\ Refused(c) /\ rec' = rec
  BY DEF EnterUnschedulable, EnterGicInvalid
<1>2. Becomes(cpu[c].rec, rec[cpu[c].rec])
  BY <1>1, RecKept DEF At, Holding, Entering
<1> QED BY <1>1, <1>2, RefusedFollows DEF Same

LEMMA EmulatedSame ==
  ASSUME NEW x \in RecType, NEW f
  PROVE  /\ MmioDone(x, f) \in RecType /\ Same(x, MmioDone(x, f))
         /\ SeaDone(x, f) \in RecType /\ Same(x, SeaDone(x, f))
  BY Sames DEF MmioDone, SeaDone

LEMMA EnterEmulationFailsFollows ==
  ASSUME Base, Asked, NEW c \in Cpus, EnterEmulationFails(c)
  PROVE  Follows
<1> DEFINE x == rec[cpu[c].rec]
<1>1. At(c, "admit") /\ Refused(c)
      /\ (rec' = rec \/ \E f : Becomes(cpu[c].rec, MmioDone(x, f)))
  BY DEF EnterEmulationFails
<1>2. cpu[c].pc \in Holding
  BY <1>1 DEF At, Holding, Entering
<1>3. CASE rec' = rec
  BY <1>1, <1>2, <1>3, RecKept, RefusedFollows DEF Same
<1>4. CASE \E f : Becomes(cpu[c].rec, MmioDone(x, f))
  <2>1. PICK f : Becomes(cpu[c].rec, MmioDone(x, f))
    BY <1>4
  <2> QED BY <1>1, <1>2, <2>1, HereFollows, EmulatedSame, RefusedFollows
<1> QED BY <1>1, <1>3, <1>4

LEMMA EnterCallFaultsFollows ==
  ASSUME Base, Asked, NEW c \in Cpus, EnterCallFaults(c)
  PROVE  Follows
<1> DEFINE x == rec[cpu[c].rec]
           y == [RipasDone(x) EXCEPT !.told = FALSE]
<1>1. At(c, "admit") /\ Refused(c) /\ x.call /\ Becomes(cpu[c].rec, y)
  BY DEF EnterCallFaults
<1>2. x \in RecType /\ OneRequest(x)
  BY <1>1, HereFollows DEF At, Holding, Entering, Asked
<1>3. ~x.ripas
  BY <1>1, <1>2 DEF OneRequest
<1>4. y.on = x.on /\ y.psci = x.psci /\ ~y.ripas /\ y.call = x.call
  BY <1>2 DEF RipasDone, RecType
<1>5. x.ripas = y.ripas
  BY <1>2, <1>3, <1>4 DEF RipasDone, RecType
<1>6. Same(x, y)
  BY <1>4, <1>5 DEF Same
<1> HIDE DEF y
<1> QED BY <1>1, <1>6, RefusedFollows

LEMMA RunLoopFollows ==
  ASSUME Base, Asked, NEW c \in Cpus, RunLoop(c)
  PROVE  Follows
<1> PICK r : r = cpu[c].rec
  OBVIOUS
<1>1. /\ cpu[c].pc = "admit" /\ cpu[c].pc \in Holding
      /\ "leave" \in Holding /\ "guest" \in Holding
      /\ Schedulable(rec[r]) /\ rd' = rd
  BY DEF RunLoop, At, Holding, Entering, Looping
<1>2. PICK f : Iterate(c, LastDone(CallDone(RipasDone(SeaDone(MmioDone(rec[r], f), f)))))
  BY DEF RunLoop
<1>3. rec[r] \in RecType
  BY <1>1, HereFollows
<1> DEFINE e == SeaDone(MmioDone(rec[r], f), f)
           x == LastDone(CallDone(RipasDone(e)))
<1>4. e \in RecType /\ e.on /\ e.psci = "none"
  BY <1>1, <1>3, EmulatedSame DEF Same, Schedulable
<1>5. x \in RecType /\ Free(x)
  <2> HIDE DEF e
  <2>1. RipasDone(e) \in RecType /\ RipasDone(e).on /\ RipasDone(e).psci = "none"
        /\ ~RipasDone(e).ripas
    BY <1>4 DEF RipasDone, RecType
  <2>2. CallDone(RipasDone(e)) \in RecType /\ Free(CallDone(RipasDone(e)))
    BY <2>1 DEF CallDone, RecType, Free
  <2>3. {} \in Syndromes
    BY DEF Syndromes
  <2>4. \A y \in RecType : Free(y) => LastDone(y) \in RecType /\ Free(LastDone(y))
    BY <2>3 DEF LastDone, RecType, Free
  <2> QED BY <2>2, <2>4
<1>6. Iterate(c, x)
  BY <1>2
<1> HIDE DEF e, x
<1>7. \E q, y : /\ Turns(c, y, q) /\ Free(y) /\ q.pc \in {"guest", "leave"}
  <2>1. CASE TimerChanged(x)
    <3>1. Go(c, "leave") /\ Becomes(cpu[c].rec, x)
      BY <1>6, <2>1 DEF Iterate
    <3> QED BY <1>1, <1>5, <3>1, GoTurns
  <2>2. CASE ~TimerChanged(x)
    <3>1. Go(c, "guest") /\ Becomes(cpu[c].rec, Activated(x))
      BY <1>6, <2>2 DEF Iterate
    <3>2. Free(Activated(x))
      BY <1>5 DEF Activated, Free, RecType
    <3> QED BY <1>1, <3>1, <3>2, GoTurns
  <2> QED BY <2>1, <2>2
<1>8. PICK q, y : Turns(c, y, q) /\ Free(y) /\ q.pc \in {"guest", "leave"}
  BY <1>7
<1>9. /\ r \in Recs
      /\ Modes[r] = ModeAt(rec[r], cpu[c].pc) /\ Owes[r] = Owing(rec[r])
      /\ r \in Admits <=> cpu[c].pc = "admit"
      /\ Modes' = [Modes EXCEPT ![r] = ModeAt(y, q.pc)]
      /\ Owes' = [Owes EXCEPT ![r] = Owing(y)]
      /\ Admits' = IF q.pc = "admit" THEN Admits \cup {r} ELSE Admits \ {r}
  BY <1>8, Turned
<1>10. Modes[r] = "idle" /\ Owes[r] # "psci"
  BY <1>1, <1>9 DEF ModeAt, Owing, Schedulable, Inner
<1>11. ModeAt(y, q.pc) \in {"idle", "in"} /\ Owing(y) = "none"
  BY <1>8 DEF ModeAt, Owing, Free, Inner
<1>12. Asked'
  BY <1>8, TurnsAsked DEF Free, OneRequest
<1>13. Promise!Next
  BY <1>1, <1>8, <1>9, <1>10, <1>11, MappedResume
<1> QED BY <1>12, <1>13 DEF Follows

-----------------------------------------------------------------------------
(* RMI_PSCI_COMPLETE, by a CPU that is inside no REC. *)
Outside == Labels \ (Inner \cup {"admit"})

LEMMA AsideInside ==
  ASSUME Base, NEW c \in Cpus, NEW q, cpu[c].pc \in Outside, q.pc \in Outside,
         cpu' = [cpu EXCEPT ![c] = q]
  PROVE  (\A s \in Recs : Inside(s)' <=> Inside(s)) /\ Admits' = Admits
<1>1. cpu'[c] = q /\ \A d \in Cpus \ {c} : cpu'[d] = cpu[d]
  BY DEF Base, TypeOK
<1>2. ASSUME NEW s \in Recs
      PROVE  Inside(s)' <=> Inside(s)
  <2>1. \A d \in Cpus : (cpu'[d].rec = s /\ cpu'[d].pc \in Inner)
                        <=> (cpu[d].rec = s /\ cpu[d].pc \in Inner)
    BY <1>1 DEF Outside
  <2> QED BY <2>1 DEF Inside, Inner
<1>3. ASSUME NEW s \in Recs
      PROVE  s \in Admits' <=> s \in Admits
  <2>1. \A d \in Cpus : (cpu'[d].pc = "admit" /\ cpu'[d].rec = s)
                        <=> (cpu[d].pc = "admit" /\ cpu[d].rec = s)
    BY <1>1 DEF Outside
  <2> QED BY <2>1 DEF Admits, At
<1>4. Admits \subseteq Recs /\ Admits' \subseteq Recs
  BY DEF Admits
<1>5. Admits' = Admits
  BY <1>3, <1>4
<1> QED BY <1>2, <1>5

LEMMA AsideFollows ==
  ASSUME Base, Asked, NEW c \in Cpus, NEW q, cpu[c].pc \in Outside, q.pc \in Outside,
         cpu' = [cpu EXCEPT ![c] = q], rec' = rec, rd' = rd,
         q.pc \in {"turn_on", "answer"} => rec[q.rec].psci # "none"
  PROVE  Follows
<1>1. Modes' = Modes /\ Owes' = Owes /\ Admits' = Admits
  BY AsideInside DEF Modes, Owes
<1>2. cpu'[c] = q /\ \A d \in Cpus \ {c} : cpu'[d] = cpu[d]
  BY DEF Base, TypeOK
<1>3. ASSUME NEW d \in Cpus PROVE AskedAt(d)'
  BY <1>2 DEF Asked, AskedAt, Outside
<1>4. Asked'
  BY <1>3 DEF Asked
<1> QED BY <1>1, <1>4, MappedStutter DEF Follows

LEMMA RecEnterFollows ==
  ASSUME Base, Asked, NEW c \in Cpus, NEW r \in Recs, RecEnter(c, r)
  PROVE  Follows
<1> DEFINE q == [cpu[c] EXCEPT !.pc = "read", !.rec = r]
<1>1. cpu[c].pc = "host" /\ rec' = rec /\ rd' = rd
  BY DEF RecEnter, At
<1>2. cpu' = [cpu EXCEPT ![c] = q]
  BY DEF RecEnter, Base, TypeOK
<1>3. q.pc = "read"
  BY DEF Base, TypeOK
<1> HIDE DEF q
<1> QED BY <1>1, <1>2, <1>3, AsideFollows DEF Outside, Labels, Inner

LEMMA PsciLockFollows ==
  ASSUME Base, Asked, NEW c \in Cpus, NEW a \in Recs, NEW b \in Recs, PsciLock(c, a, b)
  PROVE  Follows
<1> DEFINE q == [cpu[c] EXCEPT !.pc = "psci", !.rec = a, !.target = b]
<1>1. cpu[c].pc = "host" /\ rec' = rec /\ rd' = rd
  BY DEF PsciLock, At
<1>2. cpu' = [cpu EXCEPT ![c] = q]
  BY DEF PsciLock, Base, TypeOK
<1>3. q.pc = "psci"
  BY DEF Base, TypeOK
<1> HIDE DEF q
<1> QED BY <1>1, <1>2, <1>3, AsideFollows DEF Outside, Labels, Inner

LEMMA PsciRefusedFollows ==
  ASSUME Base, Asked, NEW c \in Cpus, PsciRefused(c)
  PROVE  Follows
<1>1. cpu[c].pc = "psci" /\ rec' = rec /\ rd' = rd /\ cpu' = [cpu EXCEPT ![c] = AtHost]
  BY DEF PsciRefused, At, Home
<1>2. AtHost.pc = "host"
  BY DEF AtHost
<1> QED BY <1>1, <1>2, AsideFollows DEF Outside, Labels, Inner

LEMMA PsciReadFollows ==
  ASSUME Base, Asked, NEW c \in Cpus, PsciRead(c)
  PROVE  Follows
<1> DEFINE l == IF rec[cpu[c].rec].psci = "on" /\ ~SeenOn(cpu[c].target)
                THEN "turn_on" ELSE "answer"
           q == [cpu[c] EXCEPT !.pc = l]
<1>1. /\ cpu[c].pc = "psci" /\ rec[cpu[c].rec].psci # "none"
      /\ rec' = rec /\ rd' = rd /\ cpu' = [cpu EXCEPT ![c] = q]
  BY DEF PsciRead, Answerable, At, Go
<1>2. l \in {"turn_on", "answer"}
  OBVIOUS
<1> HIDE DEF l
<1>3. q.pc = l /\ q.rec = cpu[c].rec
  BY DEF Base, TypeOK
<1> HIDE DEF q
<1>4. cpu[c].pc \in Outside /\ q.pc \in Outside
  BY <1>1, <1>2, <1>3 DEF Outside, Labels, Inner
<1> QED BY <1>1, <1>3, <1>4, AsideFollows

(* The two RECs of a completion: locked by c, entered by nobody. *)
LEMMA Completion ==
  ASSUME Base, Asked, NEW c \in Cpus, cpu[c].pc \in {"turn_on", "answer"}
  PROVE  /\ cpu[c].pc \in Outside
         /\ cpu[c].rec \in Recs /\ cpu[c].target \in Recs /\ cpu[c].rec # cpu[c].target
         /\ OneRequest(rec[cpu[c].rec]) /\ rec[cpu[c].rec].psci # "none"
         /\ \A d \in Cpus : cpu[d].pc \in Holding => cpu[d].rec # cpu[c].rec
         /\ \A d \in Cpus : d # c /\ cpu[d].pc \in {"turn_on", "answer"} =>
                              cpu[d].rec # cpu[c].rec /\ cpu[d].rec # cpu[c].target
         /\ cpu[c].pc = "turn_on" =>
              /\ ~rec[cpu[c].target].on
              /\ \A d \in Cpus : cpu[d].pc \in Holding => cpu[d].rec # cpu[c].target
<1>1. /\ cpu[c].rec \in Recs /\ cpu[c].target \in Recs /\ cpu[c].rec # cpu[c].target
      /\ held[cpu[c].rec] = c /\ held[cpu[c].target] = c
      /\ cpu[c].pc = "turn_on" => ~rec[cpu[c].target].on
  BY DEF Base, Working, WorkingAt, Locking
<1>2. \A d \in Cpus : d # c /\ cpu[d].pc \in {"turn_on", "answer"} =>
                        cpu[d].rec # cpu[c].rec /\ cpu[d].rec # cpu[c].target
  BY <1>1 DEF Base, Working, WorkingAt, Locking
<1>3. \A d \in Cpus : cpu[d].pc \in Holding => cpu[d].rec # cpu[c].rec
  BY <1>1, HeldOut
<1>4. cpu[c].pc = "turn_on" =>
        \A d \in Cpus : cpu[d].pc \in Holding => cpu[d].rec # cpu[c].target
  BY <1>1, HeldOut
<1>5. OneRequest(rec[cpu[c].rec]) /\ rec[cpu[c].rec].psci # "none"
  BY <1>1 DEF Asked, AskedAt
<1>6. cpu[c].pc \in Outside
  BY DEF Outside, Labels, Inner
<1> QED BY <1>1, <1>2, <1>3, <1>4, <1>5, <1>6

LEMMA AnsweredShape ==
  ASSUME NEW x \in RecType
  PROVE  /\ Answered(x).on = x.on /\ Answered(x).psci = "none"
         /\ Answered(x).ripas = x.ripas /\ Answered(x).call = x.call
         /\ Reset(x).on /\ Reset(x).psci = x.psci
         /\ Reset(x).ripas = x.ripas /\ Reset(x).call = x.call
  BY DEF Answered, Reset, RecType

LEMMA AnswerFollows ==
  ASSUME Base, Asked, NEW c \in Cpus, Answer(c)
  PROVE  Follows
<1> PICK a : a = cpu[c].rec
  OBVIOUS
<1>1. /\ cpu[c].pc = "answer" /\ rec' = [rec EXCEPT ![a] = Answered(rec[a])]
      /\ cpu' = [cpu EXCEPT ![c] = AtHost] /\ rd' = rd
  BY DEF Answer, At, Becomes, Home
<1>2. /\ cpu[c].pc \in Outside /\ a \in Recs
      /\ OneRequest(rec[a]) /\ rec[a].psci # "none"
      /\ \A d \in Cpus : cpu[d].pc \in Holding => cpu[d].rec # a
      /\ \A d \in Cpus : d # c /\ cpu[d].pc \in {"turn_on", "answer"} => cpu[d].rec # a
  BY <1>1, Completion
<1>3. /\ rec'[a] = Answered(rec[a]) /\ rec[a] \in RecType
      /\ \A s \in Recs \ {a} : rec'[s] = rec[s]
      /\ cpu'[c] = AtHost /\ \A d \in Cpus \ {c} : cpu'[d] = cpu[d]
  BY <1>1, <1>2 DEF Base, TypeOK
<1>4. AtHost.pc = "host" /\ "host" \in Outside /\ "admit" \in Holding /\ Inner \subseteq Holding
  BY DEF AtHost, Outside, Labels, Inner, Holding, Entering, Looping
<1>5. /\ rec'[a].on = rec[a].on /\ rec'[a].psci = "none"
      /\ ~rec'[a].ripas /\ ~rec'[a].call
  BY <1>2, <1>3, AnsweredShape DEF OneRequest
<1>6. (\A s \in Recs : Inside(s)' <=> Inside(s)) /\ Admits' = Admits
  BY <1>1, <1>2, <1>4, AsideInside
<1>7. Modes' = Modes
  BY <1>3, <1>5, <1>6 DEF Modes
<1>8. Owes[a] = "psci" /\ Owes' = [Owes EXCEPT ![a] = "none"]
  BY <1>2, <1>3, <1>5 DEF Owes
<1>9. a \notin Admits
  BY <1>2, <1>4 DEF Admits, At
<1>10. Promise!Next
  BY <1>1, <1>2, <1>6, <1>7, <1>8, <1>9, MappedAnswer
<1>11. \A s \in Recs : OneRequest(rec'[s])
  BY <1>3, <1>5 DEF Asked, OneRequest
<1>12. ASSUME NEW d \in Cpus PROVE AskedAt(d)'
  <2>1. CASE d = c
    BY <2>1, <1>3, <1>4 DEF AskedAt, Outside
  <2>2. CASE d # c
    <3>1. cpu[d].pc \in Inner \cup {"turn_on", "answer"} => cpu[d].rec \in Recs \ {a}
      BY <2>2, <1>2, <1>4 DEF Base, Working, WorkingAt, Locking
    <3> QED BY <2>2, <1>3, <3>1 DEF Asked, AskedAt
  <2> QED BY <2>1, <2>2
<1>13. Asked'
  BY <1>11, <1>12 DEF Asked
<1> QED BY <1>10, <1>13 DEF Follows

LEMMA TurnOnFollows ==
  ASSUME Base, Asked, NEW c \in Cpus, TurnOn(c)
  PROVE  Follows
<1> PICK a, b : a = cpu[c].rec /\ b = cpu[c].target
  OBVIOUS
<1>1. /\ cpu[c].pc = "turn_on"
      /\ rec' = [rec EXCEPT ![a] = Answered(@), ![b] = Reset(@)]
      /\ cpu' = [cpu EXCEPT ![c] = AtHost] /\ rd' = rd
  BY DEF TurnOn, At, Home
<1>2. /\ cpu[c].pc \in Outside /\ a \in Recs /\ b \in Recs /\ a # b
      /\ OneRequest(rec[a]) /\ rec[a].psci # "none" /\ ~rec[b].on
      /\ \A d \in Cpus : cpu[d].pc \in Holding => cpu[d].rec # a /\ cpu[d].rec # b
      /\ \A d \in Cpus : d # c /\ cpu[d].pc \in {"turn_on", "answer"} =>
                           cpu[d].rec # a /\ cpu[d].rec # b
  BY <1>1, Completion
<1>3. /\ rec'[a] = Answered(rec[a]) /\ rec[a] \in RecType
      /\ rec'[b] = Reset(rec[b]) /\ rec[b] \in RecType
      /\ \A s \in Recs \ {a, b} : rec'[s] = rec[s]
      /\ cpu'[c] = AtHost /\ \A d \in Cpus \ {c} : cpu'[d] = cpu[d]
  BY <1>1, <1>2 DEF Base, TypeOK
<1>4. AtHost.pc = "host" /\ "host" \in Outside /\ "admit" \in Holding /\ Inner \subseteq Holding
  BY DEF AtHost, Outside, Labels, Inner, Holding, Entering, Looping
<1>5. /\ rec'[a].on = rec[a].on /\ rec'[a].psci = "none"
      /\ ~rec'[a].ripas /\ ~rec'[a].call
  BY <1>2, <1>3, AnsweredShape DEF OneRequest
<1>6. /\ rec'[b].on /\ rec'[b].psci = rec[b].psci
      /\ rec'[b].ripas = rec[b].ripas /\ rec'[b].call = rec[b].call
  BY <1>3, AnsweredShape
<1>7. (\A s \in Recs : Inside(s)' <=> Inside(s)) /\ Admits' = Admits
  BY <1>1, <1>2, <1>4, AsideInside
<1>8. ~Inside(b) /\ b \notin Admits
  BY <1>2, <1>4, InsideInner DEF Admits, At
<1>9. Modes[b] = "off" /\ Modes' = [Modes EXCEPT ![b] = "idle"]
  BY <1>2, <1>3, <1>5, <1>6, <1>7, <1>8 DEF Modes
<1>10. Owes[a] = "psci" /\ Owes' = [Owes EXCEPT ![a] = "none"]
  BY <1>2, <1>3, <1>5, <1>6 DEF Owes
<1>11. Promise!Next
  BY <1>1, <1>2, <1>7, <1>8, <1>9, <1>10, MappedTurnOn
<1>12. \A s \in Recs : OneRequest(rec'[s])
  BY <1>3, <1>5, <1>6 DEF Asked, OneRequest
<1>13. ASSUME NEW d \in Cpus PROVE AskedAt(d)'
  <2>1. CASE d = c
    BY <2>1, <1>3, <1>4 DEF AskedAt, Outside
  <2>2. CASE d # c
    <3>1. cpu[d].pc \in Inner \cup {"turn_on", "answer"} => cpu[d].rec \in Recs \ {a, b}
      BY <2>2, <1>2, <1>4 DEF Base, Working, WorkingAt, Locking
    <3> QED BY <2>2, <1>3, <3>1 DEF Asked, AskedAt
  <2> QED BY <2>1, <2>2
<1>14. Asked'
  BY <1>12, <1>13 DEF Asked
<1> QED BY <1>11, <1>14 DEF Follows

-----------------------------------------------------------------------------
LEMMA HostFollows ==
  ASSUME Base, Asked, NEW c \in Cpus, Host(c)
  PROVE  Follows
BY RecEnterFollows, PsciLockFollows DEF Host

LEMMA RmmFollows ==
  ASSUME Base, Asked, NEW c \in Cpus, Rmm(c)
  PROVE  Follows
BY EnterRefusedFollows, EnterAdmitFollows, EnterUnschedulableFollows,
   EnterEmulationFailsFollows, EnterCallFaultsFollows, RunLoopFollows, LeaveFollows,
   SaveFollows, ExtendWriteFollows, TokenRefusedFollows, TokenSignFollows,
   TokenInterruptedFollows, TokenWriteFollows, PsciRefusedFollows, PsciReadFollows,
   TurnOnFollows, AnswerFollows
   DEF Rmm

LEMMA RealmFollows ==
  ASSUME Base, Asked, NEW c \in Cpus, Realm(c)
  PROVE  Follows
BY ToHostFollows, ToRealmFollows, UndefFollows, CpuOffFollows, PsciFollows, SystemOffFollows,
   IpaStateSetFollows, LooksFollows, HostCallFollows, InstructionAbortFollows, MmioFollows,
   DataAbortFollows, FpuTrapFollows, SErrorFollows, TimerFiresFollows, TimerStopsFollows,
   ExtendFollows, MeasurementReadFollows, TokenInitFollows, TokenContinueFollows
   DEF Realm, Wfx, Suspend, Engine, Icc, Call, PsciCall, Sysreg, DevMem, RealmConfig, IpaStateGet

LEMMA NextFollows ==
  ASSUME Base, Asked, [Next]_vars
  PROVE  Follows
<1>1. ASSUME NEW c \in Cpus, Host(c) \/ Rmm(c) \/ Realm(c) \/ Interrupt(c)
      PROVE  Follows
  BY <1>1, HostFollows, RmmFollows, RealmFollows, InterruptFollows
<1>2. CASE UNCHANGED vars
  <2>1. rec' = rec /\ cpu' = cpu /\ rd' = rd
    BY <1>2 DEF vars
  <2>2. Asked'
    BY <2>1 DEF Asked, AskedAt
  <2>3. Modes' = Modes /\ Owes' = Owes /\ Admits' = Admits
    BY <2>1 DEF Modes, Inside, Owes, Admits, At
  <2> QED BY <2>1, <2>2, <2>3, MappedStutter DEF Follows
<1> QED BY <1>1, <1>2 DEF Next

LEMMA InitFollows ==
  ASSUME Init
  PROVE  Asked /\ Promise!Init
<1>1. AtHost.pc = "host"
  BY DEF AtHost
<1>2. \A c \in Cpus : cpu[c].pc = "host"
  BY <1>1 DEF Init
<1>3. \A r \in Recs : /\ rec[r].on \in BOOLEAN /\ rec[r].psci = "none"
                      /\ ~rec[r].ripas /\ ~rec[r].call
  BY DEF Init
<1>4. Asked
  BY <1>2, <1>3 DEF Asked, AskedAt, OneRequest, Inner
<1>5. \A r \in Recs : ~Inside(r)
  BY <1>2 DEF Inside
<1>6. Modes \in [Recs -> {"off", "idle"}]
  BY <1>5 DEF Modes
<1>7. Owes = [r \in Recs |-> "none"]
  BY <1>3 DEF Owes
<1>8. Admits = {}
  BY <1>2 DEF Admits, At
<1>9. rd.off = FALSE
  BY DEF Init
<1>10. Promise!Init
  BY <1>6, <1>7, <1>8, <1>9 DEF Promise!Init, Modes, Owes, Admits
<1> QED BY <1>4, <1>10

(* RecRun implements Vcpu: through reference counts, locks and reads       *)
(* without one, RMI_REC_ENTER, the exits and RMI_PSCI_COMPLETE do to the   *)
(* RECs of a realm only what it is promised: a request is answered once,   *)
(* before its REC runs on; CPU_ON starts only a REC that is off and that   *)
(* nobody enters; nothing is admitted to a realm that was turned off.      *)
THEOREM RefinesVcpu == Spec => ImplementsVcpu
<1>1. Init => Asked /\ Promise!Init
  BY InitFollows
<1>2. RunIInv /\ Asked /\ [Next]_vars => Asked' /\ [Promise!Next]_(Promise!vars)
  BY NextFollows DEF RunIInv, Follows
<1> QED BY <1>1, <1>2, RunInvariant, PTL DEF Spec, ImplementsVcpu, Promise!Spec
=============================================================================
