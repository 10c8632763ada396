------------------------------- MODULE RecRun -------------------------------
(***************************************************************************)
(* How the RECs of one realm run (runtime/rmi/run.c, runtime/core/run.c,   *)
(* runtime/core/exit.c, runtime/rsi): RMI_REC_ENTER takes the REC's only   *)
(* reference, answers what the REC waits for, and runs it until something  *)
(* the RMM does not handle itself takes it back to the host; PSCI requests *)
(* of one REC about another are completed by the host with                 *)
(* RMI_PSCI_COMPLETE, on any CPU, while RECs run.                          *)
(*                                                                         *)
(* A step of a CPU is the code between two accesses to what CPUs share:    *)
(* the REC granules' reference counts and locks, the realm descriptor, and *)
(* a REC's fields as RMI_PSCI_COMPLETE sees them.  What only the running   *)
(* CPU touches is done in one step.                                        *)
(***************************************************************************)
EXTENDS Integers, FiniteSets

CONSTANTS Cpus, NoCpu,
          Recs,        \* the RECs of the realm; it is ACTIVE to start with
          NoRec,
          Program,     \* bound: the kinds of exception each REC may take
          Timed,       \* bound: the RECs that use a timer
          MaxRem,      \* bound on extensions of the measurement
          Polite,      \* the host emulates only what was reported to it as emulatable
          FpuAtRel2    \* RMM_FPU_USE_AT_REL2: the RMM hashes and signs with the FPU

Kinds == {"wfx", "undef", "sysreg", "icc", "iabort", "dabort", "mmio", "fpu", "serror",
          "call", "psci", "suspend", "off", "on", "info", "wide", "system",
          "init", "continue", "extend", "read", "config", "get_ripas", "set_ripas",
          "hostcall", "devmem", "engine"}

ASSUME RecRunAssumption ==
  /\ IsFiniteSet(Cpus) /\ NoCpu \notin Cpus
  /\ IsFiniteSet(Recs) /\ NoRec \notin Recs
  /\ Program \in [Recs -> SUBSET Kinds]
  /\ Timed \subseteq Recs
  /\ MaxRem \in Nat
  /\ Polite \in BOOLEAN /\ FpuAtRel2 \in BOOLEAN

VARIABLES rec,     \* struct rec
          ref,     \* the reference count of each REC granule
          held,    \* its lock
          rd,      \* the realm descriptor: state, lock, extensible measurement
          cpu,     \* what each CPU is executing
          fpu,     \* FPU registers and trap of each CPU, and the saved Normal world ones
          heap     \* ctx_per_cpu: the attestation heap in use on each CPU

vars == <<rec, ref, held, rd, cpu, fpu, heap>>

(* rec->last_run_info as the complete_* functions test it: the last exit was *)
(* a data abort, external, at a protected address, with a valid instruction *)
(* syndrome (ISV), and with an ISV that rec_exit shows to the host too.     *)
(* A protected address without ISV allows nothing, as no abort at all.     *)
Syndromes == {{}, {"dabt", "ext"}, {"dabt", "par", "isv"},
              {"dabt"}, {"dabt", "isv"}, {"dabt", "isv", "shown"}}

Torn == MaxRem + 1       \* the measurement while it is written

RecType ==
  [on     : BOOLEAN,                          \* runnable
   psci   : {"none", "on", "info"},           \* psci_info.pending and regs[0]
   about  : Recs \cup {NoRec},                \* the REC that regs[1] names, if any
   ripas  : BOOLEAN,                          \* set_ripas.start # set_ripas.end
   call   : BOOLEAN,                          \* host_call
   last   : Syndromes,
   pc     : {"here", "past", "vector",         \* from the instruction that exited
             "next", "skipped"},              \* no instruction exited; one was missed
   token  : {"NOT_STARTED", "IN_PROGRESS", "WRITE_IN_PROGRESS"},
   snap   : 0 .. Torn,                        \* the measurement in the token
   used   : BOOLEAN,                          \* fpu_ctx.used
   serror : BOOLEAN,                          \* serror_info.inject
   output : BOOLEAN,                          \* the timer's output is asserted
   saved  : BOOLEAN,                          \* and was when the REC was saved
   told   : BOOLEAN]                          \* and as the host was last told

Labels == {"host", "read", "admit", "guest", "extend", "token", "leave", "save",
           "psci", "turn_on", "answer"}

TypeOK ==
  /\ rec  \in [Recs -> RecType]
  /\ ref  \in [Recs -> Nat]
  /\ held \in [Recs -> Cpus \cup {NoCpu}]
  /\ rd   \in [off : BOOLEAN, lock : Cpus \cup {NoCpu}, rem : 0 .. Torn]
  /\ cpu  \in [Cpus -> [pc : Labels, rec : Recs \cup {NoRec}, target : Recs \cup {NoRec},
                        rem : 0 .. Torn]]
  /\ fpu  \in [Cpus -> [of : Recs \cup {NoRec}, ns : Recs \cup {NoRec}, trap : BOOLEAN]]
  /\ heap \in [Cpus -> Recs \cup {NoRec}]

AtHost == [pc |-> "host", rec |-> NoRec, target |-> NoRec, rem |-> 0]

Init ==
  /\ rec \in [Recs -> {[on |-> b, psci |-> "none", about |-> NoRec, ripas |-> FALSE,
                        call |-> FALSE, last |-> {}, pc |-> "next",
                        token |-> "NOT_STARTED", snap |-> 0, used |-> FALSE,
                        serror |-> FALSE, output |-> FALSE, saved |-> FALSE,
                        told |-> FALSE] : b \in BOOLEAN}]
  /\ ref  = [r \in Recs |-> 0]
  /\ held = [r \in Recs |-> NoCpu]
  /\ rd   = [off |-> FALSE, lock |-> NoCpu, rem |-> 0]
  /\ cpu  = [c \in Cpus |-> AtHost]
  /\ fpu  = [c \in Cpus |-> [of |-> NoRec, ns |-> NoRec, trap |-> TRUE]]
  /\ heap = [c \in Cpus |-> NoRec]

At(c, l)  == cpu[c].pc = l
Go(c, l)  == cpu' = [cpu EXCEPT ![c].pc = l]
Home(c)   == cpu' = [cpu EXCEPT ![c] = AtHost]
PutTwice(r) == ref' = [ref EXCEPT ![r] = @ - 2]
Put(r)    == ref' = [ref EXCEPT ![r] = @ - 1]
Becomes(r, x) == rec' = [rec EXCEPT ![r] = x]

(* advance_pc, and an exception injected into the realm: the realm goes on *)
(* after the instruction, or at its vector as if the instruction faulted.  *)
Advanced(x) == [x EXCEPT !.pc = IF @ = "here" THEN "past" ELSE "skipped"]
Injected(x) == [x EXCEPT !.pc = IF @ = "here" THEN "vector" ELSE "skipped"]

(***************************************************************************)
(* RMI_REC_ENTER, up to the run loop.                                      *)
(***************************************************************************)
RefIgnored(r) == held[r] = NoCpu
RefFree(r) == held[r] = NoCpu /\ ref[r] = 0

RecEnter(c, r) ==
  /\ At(c, "host") /\ RefFree(r)
  /\ ref' = [ref EXCEPT ![r] = @ + 1]
  /\ cpu' = [cpu EXCEPT ![c].pc = "read", ![c].rec = r]
  /\ UNCHANGED <<rec, held, rd, fpu, heap>>

(* The run structure cannot be read, or the realm is not ACTIVE.  The      *)
(* state is read without the descriptor's lock.                            *)
RealmAnyState == TRUE
RealmRuns == ~rd.off

EnterRefused(c) ==
  /\ At(c, "read")
  /\ Put(cpu[c].rec) /\ Home(c)
  /\ UNCHANGED <<rec, held, rd, fpu, heap>>

EnterAdmit(c) ==
  /\ At(c, "read") /\ RealmRuns
  /\ Go(c, "admit")
  /\ UNCHANGED <<rec, ref, held, rd, fpu, heap>>

(* The entry flags EMUL_MMIO and INJECT_SEA.  A polite host asks for one of *)
(* them, if what the RMM remembers of the last exit was shown to it.       *)
Flags(x) ==
  {f \in [mmio : BOOLEAN, sea : BOOLEAN] :
     Polite => /\ ~(f.mmio /\ f.sea)
               /\ f.mmio => "shown" \in x.last
               /\ f.sea  => "ext" \notin x.last}

SchedulableUnanswered(x) == x.on
Schedulable(x) == x.on /\ x.psci = "none"
MmioFails(x, f) == f.mmio /\ ~({"dabt", "isv"} \subseteq x.last)
SeaFails(x, f)  == f.sea /\ ("dabt" \notin x.last \/ "par" \in x.last)

MmioDone(x, f) == IF f.mmio THEN Advanced(x) ELSE x
SeaDone(x, f)  == IF f.sea THEN Injected(x) ELSE x
RipasDone(x)   == [x EXCEPT !.ripas = FALSE]
CallDone(x)    == [x EXCEPT !.call = FALSE]
LastKept(x)    == x
LastDone(x)    == [x EXCEPT !.last = {}]

Refused(c) ==
  /\ Put(cpu[c].rec) /\ Home(c)
  /\ UNCHANGED <<held, rd, fpu, heap>>

EnterUnschedulable(c) ==
  /\ At(c, "admit") /\ ~Schedulable(rec[cpu[c].rec])
  /\ Refused(c)
  /\ UNCHANGED rec

(* The virtual interrupts or the GIC control bits of the entry are not valid. *)
EnterGicInvalid(c) ==
  /\ At(c, "admit") /\ Schedulable(rec[cpu[c].rec])
  /\ Refused(c)
  /\ UNCHANGED rec

(* Flags the last exit does not allow.  An emulation done before the SEA   *)
(* is found not to be allowed stays done.                                  *)
EnterEmulationFails(c) ==
  LET x == rec[cpu[c].rec]
  IN /\ At(c, "admit") /\ Schedulable(x)
     /\ \E f \in Flags(x) :
          \/ MmioFails(x, f) /\ UNCHANGED rec
          \/ ~MmioFails(x, f) /\ SeaFails(x, f) /\ Becomes(cpu[c].rec, MmioDone(x, f))
     /\ Refused(c)

(* The page of a pending host call is not mapped: back to the host with a  *)
(* data abort, the call still pending, no timer state reported.            *)
EnterCallFaults(c) ==
  LET x == rec[cpu[c].rec]
  IN /\ At(c, "admit") /\ Schedulable(x) /\ x.call
     /\ Becomes(cpu[c].rec, [RipasDone(x) EXCEPT !.told = FALSE])
     /\ Refused(c)

(***************************************************************************)
(* The run loop.                                                           *)
(***************************************************************************)
(* check_pending_timers, then activate_events and run_realm: the realm     *)
(* runs if no timer output differs from the one saved at the last exit.    *)
TimerChanged(x) == x.output # x.saved
Activated(x) == [x EXCEPT !.pc = IF @ = "skipped" THEN @ ELSE "here", !.serror = FALSE]

Iterate(c, x) ==
  /\ Go(c, IF TimerChanged(x) THEN "leave" ELSE "guest")
  /\ Becomes(cpu[c].rec, IF TimerChanged(x) THEN x ELSE Activated(x))

(* buffer_alloc_ctx_assign: a heap that is in use already stays. *)
AssignHeap(c, r) == heap' = [heap EXCEPT ![c] = IF @ = NoRec THEN r ELSE @]
KeepHeap(c)      == UNCHANGED heap
UnassignHeap(c)  == heap' = [heap EXCEPT ![c] = NoRec]

RunLoop(c) ==
  LET r == cpu[c].rec
      x == rec[r]
  IN /\ At(c, "admit") /\ Schedulable(x)
     /\ \E f \in Flags(x) :
          /\ ~MmioFails(x, f) /\ ~SeaFails(x, f)
          /\ Iterate(c, LastDone(CallDone(RipasDone(SeaDone(MmioDone(x, f), f)))))
     /\ AssignHeap(c, r)
     /\ UNCHANGED <<ref, held, rd, fpu>>

(* After the loop: the FPU goes back to the Normal world if the realm had  *)
(* it (RMM code that touches the FPU while the trap is on would take the   *)
(* trap itself), the timers are reported, then the realm state is saved.   *)
KeepFpu(c, used) == UNCHANGED fpu
RestoreNs(c, used) ==
  IF used THEN fpu' = [fpu EXCEPT ![c].of = fpu[c].ns, ![c].trap = TRUE]
          ELSE UNCHANGED fpu

Leave(c) ==
  LET r == cpu[c].rec
  IN /\ At(c, "leave") /\ (rec[r].used => ~fpu[c].trap)
     /\ Becomes(r, [rec[r] EXCEPT !.used = FALSE, !.told = rec[r].output])
     /\ RestoreNs(c, rec[r].used)
     /\ Go(c, "save")
     /\ UNCHANGED <<ref, held, rd, heap>>

Save(c) ==
  LET r == cpu[c].rec
  IN /\ At(c, "save")
     /\ Becomes(r, [rec[r] EXCEPT !.saved = rec[r].output])
     /\ UnassignHeap(c)
     /\ Put(r) /\ Home(c)
     /\ UNCHANGED <<held, rd, fpu>>

(***************************************************************************)
(* What the realm does, handle_realm_exit.  A handler that returns true    *)
(* goes round the loop, one that returns false leaves it.                  *)
(***************************************************************************)
RdFree == rd.lock = NoCpu

May(c, k) == At(c, "guest") /\ k \in Program[cpu[c].rec]
Running(c) == rec[cpu[c].rec]

Stays(c, x)  == Iterate(c, x)
Leaves(c, x) == Go(c, "leave") /\ Becomes(cpu[c].rec, x)

(* FPU_ALLOW, where the RMM computes: the registers are saved and restored, *)
(* and the trap is on afterwards.                                          *)
Computes(c) ==
  fpu' = IF FpuAtRel2 THEN [fpu EXCEPT ![c].trap = TRUE] ELSE fpu

(* The realm is stopped between two instructions. *)
Between(x) == [x EXCEPT !.pc = "next"]

Interrupt(c) ==
  /\ At(c, "guest")
  /\ Leaves(c, Between(Running(c)))
  /\ UNCHANGED <<ref, held, rd, fpu, heap>>

(* The host emulates it, and the realm goes on after it. *)
ToHost(c, k) ==
  /\ May(c, k)
  /\ Leaves(c, Advanced(Running(c)))
  /\ UNCHANGED <<ref, held, rd, fpu, heap>>

Wfx(c)     == ToHost(c, "wfx")
Suspend(c) == ToHost(c, "suspend")
Engine(c)  == ToHost(c, "engine")
Icc(c)     == ToHost(c, "icc")

(* Answered at once: calls that are unknown, refused for their arguments or *)
(* need nothing of the host, and registers the RMM emulates itself.        *)
ToRealm(c, k) ==
  /\ May(c, k)
  /\ Stays(c, Advanced(Running(c)))
  /\ UNCHANGED <<ref, held, rd, fpu, heap>>

Call(c)     == ToRealm(c, "call")
PsciCall(c) == ToRealm(c, "psci")
Sysreg(c)   == ToRealm(c, "sysreg")
DevMem(c)   == RdFree /\ ToRealm(c, "devmem")

Undef(c) ==
  /\ May(c, "undef")
  /\ Stays(c, Injected(Running(c)))
  /\ UNCHANGED <<ref, held, rd, fpu, heap>>

CpuOff(c) ==
  /\ May(c, "off")
  /\ Leaves(c, [Advanced(Running(c)) EXCEPT !.on = FALSE])
  /\ UNCHANGED <<ref, held, rd, fpu, heap>>

(* PSCI CPU_ON and AFFINITY_INFO about another REC wait for the host.  An   *)
(* SMC32 call is checked on the low halves of its arguments; if the rest is *)
(* not zero, the registers left for the host's answer name no REC.         *)
Psci(c, k) ==
  /\ May(c, k)
  /\ \E t \in Recs \ {cpu[c].rec} :
       Leaves(c, [Advanced(Running(c)) EXCEPT !.psci = IF k = "info" THEN k ELSE "on",
                                              !.about = IF k = "wide" THEN NoRec ELSE t])
  /\ UNCHANGED <<ref, held, rd, fpu, heap>>

(* SYSTEM_OFF and SYSTEM_RESET. *)
SystemOff(c) ==
  /\ May(c, "system") /\ RdFree
  /\ rd' = [rd EXCEPT !.off = TRUE]
  /\ Leaves(c, Advanced(Running(c)))
  /\ UNCHANGED <<ref, held, fpu, heap>>

IpaStateSet(c) ==
  /\ May(c, "set_ripas")
  /\ Leaves(c, [Advanced(Running(c)) EXCEPT !.ripas = TRUE])
  /\ UNCHANGED <<ref, held, rd, fpu, heap>>

(* Calls that name a page of the realm: it is found, it is empty (an error *)
(* for the realm), or its translation is missing: then the host gets a     *)
(* data abort to handle, and the realm makes the call again.               *)
Walks == {"success", "empty", "abort"}

Looks(c, k) ==
  /\ May(c, k)
  /\ \E w \in Walks : IF w = "abort" THEN Leaves(c, Running(c))
                                    ELSE Stays(c, Advanced(Running(c)))
  /\ UNCHANGED <<ref, held, rd, fpu, heap>>

RealmConfig(c) == Looks(c, "config")
IpaStateGet(c) == Looks(c, "get_ripas")

HostCall(c) ==
  LET x == Running(c)
  IN /\ May(c, "hostcall")
     /\ \E w \in Walks :
          CASE w = "success" -> Leaves(c, [Advanced(x) EXCEPT !.call = TRUE])
            [] w = "empty"   -> Stays(c, Advanced(x))
            [] w = "abort"   -> Leaves(c, x)
     /\ UNCHANGED <<ref, held, rd, fpu, heap>>

(* External, told to the REC if it is recoverable; at an unprotected or    *)
(* empty address, which is the realm's fault; or the host is to map it.    *)
InstructionAbort(c) ==
  LET x == Running(c)
  IN /\ May(c, "iabort")
     /\ Stays(c, Injected(x)) \/ Leaves(c, x) \/ Leaves(c, Injected(x))
     /\ UNCHANGED <<ref, held, rd, fpu, heap>>

(* Emulatable by the host, or not because the syndrome does not tell how. *)
Mmio(c) ==
  /\ May(c, "mmio")
  /\ \E l \in {{"dabt"}, {"dabt", "isv", "shown"}} :
       Leaves(c, [Running(c) EXCEPT !.last = l])
  /\ UNCHANGED <<ref, held, rd, fpu, heap>>

(* At an empty address; external (the REC is told if it is recoverable); or *)
(* protected or from AArch32, where ISV is kept from the host only.        *)
DataAbort(c) ==
  LET x == Running(c)
      Last(l) == [x EXCEPT !.last = l]
  IN /\ May(c, "dabort")
     /\ \/ Stays(c, Injected(x))
        \/ Leaves(c, Last({"dabt", "ext"})) \/ Leaves(c, Injected(Last({"dabt", "ext"})))
        \/ \E l \in {{}, {"dabt", "par", "isv"}, {"dabt", "isv"}} :
             Leaves(c, Last(l))
     /\ UNCHANGED <<ref, held, rd, fpu, heap>>

(* The first use of the FPU: what is in it is taken for the Normal world's. *)
FpuTrap(c) ==
  LET r == cpu[c].rec
  IN /\ May(c, "fpu") /\ fpu[c].trap
     /\ fpu' = [fpu EXCEPT ![c] = [of |-> r, ns |-> @.of, trap |-> FALSE]]
     /\ Stays(c, [Running(c) EXCEPT !.used = TRUE])
     /\ UNCHANGED <<ref, held, rd, heap>>

SError(c) ==
  /\ May(c, "serror")
  /\ \E b \in BOOLEAN : Leaves(c, [Between(Running(c)) EXCEPT !.serror = b])
  /\ UNCHANGED <<ref, held, rd, fpu, heap>>

(* The output rises at any time.  It is looked at before the realm runs, as *)
(* an interrupt while it runs, when it is reported and when it is saved;   *)
(* rising anywhere else is as if it rose at the next of these.             *)
TimerFires(c) ==
  LET r == cpu[c].rec
  IN /\ cpu[c].pc \in {"admit", "guest", "save"}
     /\ r \in Timed /\ ~rec[r].output
     /\ Becomes(r, [rec[r] EXCEPT !.output = TRUE])
     /\ UNCHANGED <<ref, held, rd, cpu, fpu, heap>>

TimerStops(c) ==
  /\ At(c, "guest") /\ Running(c).output
  /\ Becomes(cpu[c].rec, [Running(c) EXCEPT !.output = FALSE])
  /\ UNCHANGED <<ref, held, rd, cpu, fpu, heap>>

(***************************************************************************)
(* Measurements and the attestation token (runtime/rsi/realm_attest.c).    *)
(***************************************************************************)
(* The measurement is read, hashed and written under the descriptor's lock. *)
Extend(c) ==
  /\ May(c, "extend") /\ RdFree /\ rd.rem < MaxRem
  /\ rd' = [rd EXCEPT !.lock = c, !.rem = Torn]
  /\ cpu' = [cpu EXCEPT ![c].pc = "extend", ![c].rem = rd.rem]
  /\ Computes(c)
  /\ UNCHANGED <<rec, ref, held, heap>>

ExtendWrite(c) ==
  /\ At(c, "extend")
  /\ rd' = [rd EXCEPT !.lock = NoCpu, !.rem = cpu[c].rem + 1]
  /\ Stays(c, Advanced(Running(c)))
  /\ UNCHANGED <<ref, held, fpu, heap>>

MeasurementRead(c) ==
  /\ May(c, "read") /\ RdFree
  /\ Stays(c, Advanced(Running(c)))
  /\ UNCHANGED <<ref, held, rd, fpu, heap>>

(* An operation under way is given up, with what it has on the heap, even  *)
(* if the call then fails.                                                 *)
GivenUp(x) == [x EXCEPT !.token = "NOT_STARTED", !.snap = 0]
SnapshotUnlocked == TRUE
SnapshotReady == RdFree

TokenInit(c) ==
  LET x == Running(c)
  IN /\ May(c, "init")
     /\ \/ Stays(c, Advanced(GivenUp(x)))
        \/ /\ SnapshotReady
           /\ Stays(c, Advanced([x EXCEPT !.token = "IN_PROGRESS", !.snap = rd.rem]))
     /\ IF x.token = "NOT_STARTED" THEN UNCHANGED fpu ELSE Computes(c)
     /\ UNCHANGED <<ref, held, rd, heap>>

TokenContinue(c) ==
  /\ May(c, "continue")
  /\ Go(c, "token")
  /\ Computes(c)
  /\ UNCHANGED <<rec, ref, held, rd, heap>>

(* No token was started, it was for another address, or its page is empty. *)
TokenRefused(c) ==
  /\ At(c, "token")
  /\ Stays(c, Advanced(Running(c)))
  /\ UNCHANGED <<ref, held, rd, fpu, heap>>

(* The signing cycle that is the last; those before change nothing here. *)
TokenSign(c) ==
  /\ At(c, "token") /\ Running(c).token = "IN_PROGRESS"
  /\ Becomes(cpu[c].rec, [Running(c) EXCEPT !.token = "WRITE_IN_PROGRESS"])
  /\ UNCHANGED <<ref, held, rd, cpu, fpu, heap>>

(* An interrupt is pending after a cycle: the realm repeats the call. *)
TokenInterrupted(c) ==
  /\ At(c, "token") /\ Running(c).token = "IN_PROGRESS"
  /\ \E t \in {"IN_PROGRESS", "WRITE_IN_PROGRESS"} :
       Leaves(c, [Running(c) EXCEPT !.token = t])
  /\ UNCHANGED <<ref, held, rd, fpu, heap>>

Signed(x) == x.token = "WRITE_IN_PROGRESS"

TokenWrite(c) ==
  /\ At(c, "token") /\ Signed(Running(c))
  /\ \E w \in Walks \ {"empty"} :
       IF w = "abort" THEN Leaves(c, Running(c))
                      ELSE Stays(c, Advanced(GivenUp(Running(c))))
  /\ UNCHANGED <<ref, held, rd, fpu, heap>>

(***************************************************************************)
(* RMI_PSCI_COMPLETE: a is the calling REC, b the target.                  *)
(***************************************************************************)
Unlock(a, b) == held' = [held EXCEPT ![a] = NoCpu, ![b] = NoCpu]

PsciLock(c, a, b) ==
  /\ At(c, "host") /\ a # b /\ held[a] = NoCpu /\ held[b] = NoCpu
  /\ held' = [held EXCEPT ![a] = c, ![b] = c]
  /\ cpu' = [cpu EXCEPT ![c].pc = "psci", ![c].rec = a, ![c].target = b]
  /\ UNCHANGED <<rec, ref, rd, fpu, heap>>

(* The caller does not run and waits for an answer about this target. *)
Answerable(a, b) == ref[a] = 0 /\ rec[a].psci # "none" /\ rec[a].about = b

PsciRefused(c) ==
  LET a == cpu[c].rec
      b == cpu[c].target
  IN /\ At(c, "psci") /\ ~Answerable(a, b)
     /\ Unlock(a, b) /\ Home(c)
     /\ UNCHANGED <<rec, ref, rd, fpu, heap>>

(* The target is seen to be off only if nothing runs it. *)
SeenOnFlagOnly(b) == rec[b].on
SeenOn(b) == ref[b] # 0 \/ rec[b].on

PsciRead(c) ==
  LET a == cpu[c].rec
      b == cpu[c].target
  IN /\ At(c, "psci") /\ Answerable(a, b)
     /\ Go(c, IF rec[a].psci = "on" /\ ~SeenOn(b) THEN "turn_on" ELSE "answer")
     /\ UNCHANGED <<rec, ref, held, rd, fpu, heap>>

Answered(x) == [x EXCEPT !.psci = "none", !.about = NoRec]
Reset(x)    == [x EXCEPT !.on = TRUE, !.pc = "next"]

TurnOn(c) ==
  LET a == cpu[c].rec
      b == cpu[c].target
  IN /\ At(c, "turn_on")
     /\ rec' = [rec EXCEPT ![a] = Answered(@), ![b] = Reset(@)]
     /\ Unlock(a, b) /\ Home(c)
     /\ UNCHANGED <<ref, rd, fpu, heap>>

Answer(c) ==
  LET a == cpu[c].rec
      b == cpu[c].target
  IN /\ At(c, "answer")
     /\ Becomes(a, Answered(rec[a]))
     /\ Unlock(a, b) /\ Home(c)
     /\ UNCHANGED <<ref, rd, fpu, heap>>

-----------------------------------------------------------------------------
Host(c) ==
  \/ \E r \in Recs : RecEnter(c, r)
  \/ \E a, b \in Recs : PsciLock(c, a, b)

Rmm(c) ==
  \/ EnterRefused(c) \/ EnterAdmit(c) \/ EnterUnschedulable(c) \/ EnterGicInvalid(c)
  \/ EnterEmulationFails(c) \/ EnterCallFaults(c)
  \/ RunLoop(c) \/ Leave(c) \/ Save(c)
  \/ ExtendWrite(c)
  \/ TokenRefused(c) \/ TokenSign(c) \/ TokenInterrupted(c) \/ TokenWrite(c)
  \/ PsciRefused(c) \/ PsciRead(c) \/ TurnOn(c) \/ Answer(c)

Realm(c) ==
  \/ Wfx(c) \/ Suspend(c) \/ Engine(c) \/ Icc(c)
  \/ Call(c) \/ PsciCall(c) \/ Sysreg(c) \/ DevMem(c) \/ Undef(c)
  \/ CpuOff(c) \/ (\E k \in {"on", "info", "wide"} : Psci(c, k)) \/ SystemOff(c)
  \/ IpaStateSet(c) \/ RealmConfig(c) \/ IpaStateGet(c) \/ HostCall(c)
  \/ InstructionAbort(c) \/ Mmio(c) \/ DataAbort(c) \/ FpuTrap(c)
  \/ SError(c) \/ TimerFires(c) \/ TimerStops(c)
  \/ Extend(c) \/ MeasurementRead(c) \/ TokenInit(c) \/ TokenContinue(c)

Next == \E c \in Cpus : Host(c) \/ Rmm(c) \/ Realm(c) \/ Interrupt(c)

Spec == Init /\ [][Next]_vars

(* The RMM's own steps follow one another, and an interrupt of the Normal  *)
(* world that is pending whenever the realm runs is taken some time.       *)
FairSpec == Spec /\ \A c \in Cpus : WF_vars(Rmm(c)) /\ SF_vars(Interrupt(c))

-----------------------------------------------------------------------------
Holds(c, r) == cpu[c].rec = r /\ cpu[c].pc \in {"read", "admit", "guest", "extend", "token",
                                                "leave", "save"}
Entered(r) == \E c \in Cpus : Holds(c, r)
InLoop(c)  == cpu[c].pc \in {"guest", "extend", "token", "leave", "save"}

(* The code reads and writes a REC without a lock because its reference    *)
(* count says that one CPU, and only one, has entered it (run.c, rec.c).   *)
EnteredOnce ==
  \A r \in Recs :
    /\ ref[r] = IF Entered(r) THEN 1 ELSE 0
    /\ \A c, d \in Cpus : Holds(c, r) /\ Holds(d, r) => c = d

(* RMI_PSCI_COMPLETE changes neither the calling nor the target REC while  *)
(* a CPU runs it, or is on its way out with it: what it wrote would be     *)
(* overwritten or used half way.                                           *)
PsciStep(c) == cpu[c].pc \in {"turn_on", "answer"} /\ cpu'[c].pc = "host"
PsciLeavesRunningAlone ==
  [][\A c \in Cpus : PsciStep(c) => \A r \in Recs : Entered(r) => rec'[r] = rec[r]]_vars

(* The attestation heap a CPU allocates from is that of the REC it runs,   *)
(* and two CPUs never allocate from the same heap.                         *)
HeapAssigned ==
  /\ \A c \in Cpus : heap[c] = IF InLoop(c) THEN cpu[c].rec ELSE NoRec
  /\ \A c, d \in Cpus : heap[c] = heap[d] /\ heap[c] # NoRec => c = d

(* While the trap is off the FPU holds the values of the REC that runs and *)
(* the Normal world's are saved; on any other occasion it holds the Normal *)
(* world's, and whoever needs them at the end of the run loop gets them.   *)
FpuBelongs ==
  \A c \in Cpus :
    /\ ~fpu[c].trap => InLoop(c) /\ fpu[c] = [of |-> cpu[c].rec, ns |-> NoRec, trap |-> FALSE]
    /\ fpu[c].of = NoRec \/ InLoop(c)
    /\ InLoop(c) => (Running(c).used <=> fpu[c].of = cpu[c].rec)

(* The FPU trap is off when the RMM saves the realm's registers at the end *)
(* of the run loop, as fpu_helpers.h asks of every caller.                 *)
FpuOpenWhenSaved == \A c \in Cpus : At(c, "leave") /\ Running(c).used => ~fpu[c].trap

(* A token is of one measurement, never of one that another REC is just    *)
(* extending; and nothing is delivered but what INIT took and was signed.  *)
TokenOfOneMeasurement ==
  \A r \in Recs :
    /\ rec[r].snap # Torn
    /\ rd.rem = Torn <=> \E c \in Cpus : At(c, "extend") /\ rd.lock = c
    /\ rec[r].token # "NOT_STARTED" => rd.rem >= rec[r].snap

(* Whatever it waited for and however often the host entered it in vain,   *)
(* the realm goes on at the instruction it left, behind it, or at its      *)
(* vector: no instruction is skipped and none faults for another.          *)
PcAdvancedOnce == \A r \in Recs : rec[r].pc # "skipped"

(* A realm in SYSTEM_OFF comes to rest: RECs that run when one of them     *)
(* turns the realm off leave it, and no entry of the host brings one back. *)
OffQuiesces == <>[](rd.off => \A c \in Cpus : ~At(c, "guest"))

(* The host has been told of a timer output that the RMM masks for the     *)
(* realm: nobody else will make the realm see that interrupt.              *)
HostKnowsTimer == \A c \in Cpus : At(c, "guest") /\ Running(c).saved => Running(c).told

(* The RECs as the realm knows them. *)
Inside(r) == \E c \in Cpus : cpu[c].rec = r /\ cpu[c].pc \in {"guest", "extend", "token"}

Promise == INSTANCE Vcpu WITH
  mode     <- [r \in Recs |-> IF Inside(r) THEN "in" ELSE IF rec[r].on THEN "idle" ELSE "off"],
  owed     <- [r \in Recs |-> IF rec[r].psci # "none" THEN "psci"
                              ELSE IF rec[r].ripas THEN "ripas"
                              ELSE IF rec[r].call THEN "call" ELSE "none"],
  admitted <- {r \in Recs : \E c \in Cpus : At(c, "admit") /\ cpu[c].rec = r},
  halted   <- rd.off

(* With reference counts, locks and unlocked reads in between, the RMM     *)
(* keeps the promise of Vcpu: requests are answered once and before the    *)
(* REC runs on, CPU_ON starts only what is off, nothing enters a realm     *)
(* that was off when it was admitted.                                      *)
ImplementsVcpu == Promise!Spec

=============================================================================
