# TLA+ models of the Realm Management Monitor (acai-rmm)

The RMM runs at R-EL2 of an Arm CCA machine. The Normal world host calls it
with RMI commands, realms call it with RSI and PSCI, and it calls EL3 to move
pages between physical address spaces. Several CPUs execute commands at once;
they share one table of *granules*, each with a spinlock, a state and a
reference count, and everything else (realm descriptors, RECs, stage 2 tables,
realm memory) lives in granules the host delegated. This directory models the
commands that decide what a granule is used for, how the RECs of a realm run and
what they wait for, the stage 2 tables, and the memory the monitor manages for
itself; and it proves part of what makes them correct. Paths below are relative to the
repository; `src/` stands for it.

## Inventory

| Part | State | Operations | What is hard | What makes it correct |
|---|---|---|---|---|
| Granule table (`lib/realm/src/granule.c`, `include/granule.h`) | state, lock, refcount of each page | `find_lock_*`, `granule_unlock_transition`, atomic get/put | locks by address for host-chosen granules, by structure for internal ones; counts read without a lock | every lock released by its holder, no cycle, a state changes only unreferenced |
| Delegation (`rmi/granule.c`, `lib/asc`) | EL3's physical address space | DELEGATE, UNDELEGATE | the order of state, PAS and zeroing | the host reaches NS pages only; DELEGATED is zero |
| Realm (`rmi/realm.c`, `core/vmid.c`) | `struct rd`, root tables, VMID bitmap | CREATE, ACTIVATE, DESTROY | up to 17 locks, failure in the middle, IN_USE after the first effects | roots exclusive, VMID exclusive, a sealed realm gains nothing |
| REC (`rmi/rec.c`) | `struct rec`, auxiliary granules, `rd->rec_count` | CREATE, DESTROY, PSCI_COMPLETE | auxiliary granules taken one at a time with no lock held between; counts dropped late | auxiliary granules owned by one REC, counts exact, indexes unique |
| REC entry (`rmi/run.c`, `core/run.c`, `core/exit.c`) | the REC's registers, pending requests | REC_ENTER, exits, completions | unlocked reads of the realm's state, the host's page taken away meanwhile | an entered REC is alive, entered once, its realm activated |
| Stage 2 tables (`rmi/rtt.c`, `lib/realm/src/s2tt.c`) | entries, counts, TLBs | RTT_CREATE, FOLD, DESTROY, MAP/UNMAP, READ_ENTRY, DATA_CREATE/DESTROY, INIT/SET_RIPAS | hand over hand walks, break before make, folding 512 entries into one and back | a table is in one place, memory at one page, no stale translation to what is given back |
| Measurement (`rmi/rtt.c`, `realm.c`, `lib/measurement`) | RIM and REMs in the RD | extended by CREATE commands and RSI | INIT_RIPAS and device attach extend it without the RD's lock | the RIM is a chain with no lost link |
| Device attach (`rmi/rtt.c`, `rsi/dev_mem.c`) | device ranges in data granules | `check_dev_addr_space`, RSI device memory | a long walk with locks, error paths | no lock leaked, no unlocked write |
| PSCI (`rsi/psci.c`) | runnable flags, pending PSCI | CPU_ON, CPU_OFF, AFFINITY_INFO, SYSTEM_OFF/RESET | the target REC may be running | runs only what was turned on |
| RSI (`rsi/memory.c`, `host_call.c`, `realm_attest.c`, `config.c`) | pending requests, token context | IPA state, host call, attestation | retries after faults and interrupts | a request is neither lost nor done twice |
| Exits and system registers (`core/exit.c`, `inject_exp.c`, `sysregs.c`) | `rec->last_run_info`, the realm's pc | every exception class | what an exit leaves for the next entry to complete | no instruction skipped, none faults for another |
| FPU (`core/run.c`, `exit.c`, `fpu_helpers.h`) | trap and owner on each CPU | lazy switch, FPU use of the RMM itself | the trap is turned off and on in several places | nobody sees or loses another's registers |
| Timers, GIC (`lib/timers`, `lib/gic`) | outputs asserted, saved, reported | compared before a realm runs | the output changes between the two places that look at it | the host knows what the RMM masks |
| Allocator (`lib/allocator`) | two chains of blocks per REC's heap | calloc, free | splitting, merging, sizes that wrap around | blocks tile the buffer |
| Stage 1 tables (`lib/xlat`) | regions, tables, per-CPU tables | add regions, make tables, map and unmap a page | blocks and pages of overlapping alignments, two sizes of space | a translation for each region and no other |
| Slot buffers (`lib/realm/src/buffer.c`) | each CPU's windows | map, unmap with TLBI | stale translations, CPUs powered off and on | a window shows one page of its world |
| Boot, EL3 interface, libc, drivers, platforms | | | | |

The components interact by shared granules (all), by the RD's and RECs'
reference counts (realm, REC, entry), by table entries (walks), and by the
order in which locks are taken: address order for granules the host names, then
RD, root table, table by table, data granule (`docs/design/locking.rst`,
`lib/realm/include/granule_types.h:13-65`).

`PROJECT.json` lists every component with its status, and each hazard at the
line where it bites with the properties that guard it.

## Modules

    Granule ── RealmLifecycle ─┬─ MCRealmLifecycle      (runs lifecycle_*)
                               └─ LifecycleLocks ── LifecycleRecs ──  (proofs)
                                    LifecycleTrees ── LifecycleContents
    IpaSpace ── Stage2 ──────┬─ MCStage2                (runs stage2_*)
                             └─ Stage2Proofs ── Stage2Implements       (proofs)
    Vcpu ────── RecRun ──────┬─ MCRecRun                (run rec_run)
                             └─ RecRunProofs            (proofs)
    Arena ───── Heap ──┬─ MonitorMemory ── MCMonitorMemory   (run memory)
    Windows ─── Xlat ──┘
    DeviceAttach ────────────┬─ MCDeviceAttach          (runs device_*)
                             └─ DeviceProofs            (proofs)

Granule is the table that all commands share; IpaSpace, Vcpu, Arena and Windows
are abstract specifications.

**Granule** is the granule table: `state`, `lock`, `refcount`, EL3's `pas` and
`junk` (bytes beyond the structures modelled elsewhere are non-zero). A granule
is its index, so comparing numbers is comparing addresses. `CanLock`,
`CanLockUnused` and `LockFails` are what `granule_lock_on_state_match`,
`find_lock_unused_granule` and their failures see.

**RealmLifecycle** composes the commands of `rmi/granule.c`, `realm.c`, `rec.c`,
`run.c` and the locking part of `rtt.c` on several CPUs. `f[c]` is CPU c's
command in progress: where it is and its C locals. One action is one stretch of
code from an access to shared state to the next: at most one lock acquisition,
atomic operation or unlocked access, then the work done under locks already held
and the unlocks that follow. This is sound because what is written in between is
protected by those locks; what is *not* protected has steps of its own: the
VMID, the auxiliary granules, the REC's atomic count, the RD's state as
`rec_enter` reads it, the host's run page, and the two halves of a delegation
around the call to EL3. `HostWrite` interleaves the host's stores everywhere.

| Code | Actions |
|---|---|
| `smc_granule_delegate`, `undelegate` | `GranuleDelegate`, `DelegateMark`, `DelegateZero`; `GranuleUndelegate`, `UndelegateState` |
| `smc_realm_create` with `find_lock_rd_granules` | `RealmCreate` (VMID), `RealmCreateLock` per granule, `...LockFails`, `...FreeVmid`, `...Init`, `...Root` per root |
| `smc_realm_activate` | `RealmActivate` |
| `smc_realm_destroy` | `RealmDestroy`, `RealmDestroyCount`/`InUse`, `...Root`, `...Free` |
| `smc_rec_create` | `RecCreateAux` per granule, `...Lock1`, `...Lock2`, `...Body`, `...Refused`, `...Undo` |
| `smc_rec_destroy` | `RecDestroy`, `...Aux`, `...Free`, `...Put` |
| `smc_rec_enter` | `RecEnter`, `EnterRead`, `EnterCheck`, `EnterRun` (with `SystemOff`), `EnterWrite`, `EnterPut` |
| `smc_rtt_create`, `smc_rtt_destroy`, `rtt_walk_lock_unlock` | `RttCreate`, `RttDestroy`, `RttLockRoot`, `RttWalk` per level, `RttCreateEnd`, `RttDestroyEnd`, error steps |

There the tables are sets of children (`kids`); entries are Stage2's matter.

**Stage2** has the entries. `tbl[t]` is the contents of table t (a granule, or
the realm itself for its root), `refs` the counts, `tlb` what the MMUs have
cached, including intermediate walk entries, `req` the REC's pending RIPAS
change. An entry keeps the fields the code tells apart: descriptor type, HIPAS,
RIPAS, NS, address. The predicates (`IsValid`, `IsTable`, `MapsBlock`, ...) are
those of `s2tt.c`, with the constants of its bit patterns where these matter
(`Check` compares a two-bit type with the whole of `S2TTE_BLOCK`, as line 584
does). A command is one step up to its first visible write, then one step for
each invalidation and for the entry that is made after it. The walk is part of
the first step, because RealmLifecycle has it lock by lock and shows
(`TreesIntact`) that it arrives where the tree says; a table on the way has a
live entry, so no command frees it. Break before make is therefore three steps:
zero written, TLBI, entry made. `MmuReads` may cache any entry at any time.

`Asserts` is the build type: with assertions (Debug) a failed one stops the CPU
with its locks (`lib/libc/src/assert.c` spins); without them (`Release`, the
default, `docs/getting_started/build-options.rst`) execution falls through.

**IpaSpace** is the promise to a realm, page by page and with no tables: what
DATA_CREATE, DATA_DESTROY, RTT_DESTROY, INIT_RIPAS, SET_RIPAS and the host's
mappings may do to a page, and that nothing else may. `Stage2` implements it by
the mapping `Space`: a page's state is what the leaf entry says, a break before
make in progress counts as the old entry, a realm is sealed when it was
activated and no INIT_RIPAS that saw it NEW is still under way.

**RecRun** is what happens between an entry and an exit, for the RECs of one
realm that is ACTIVE, and what RMI_PSCI_COMPLETE does to them from another CPU.
`rec[r]` is the part of `struct rec` that anyone decides by: runnable, the
pending PSCI call and the REC it names, pending RIPAS change and host call, the
syndrome of the last exit, the token's state and the measurement in it, whether
the FPU is in use, the timer's output as it is, was saved and was reported.
`ref` and `held` are the REC granules' count and lock, `rd` the state, lock and
one extensible measurement of the realm, `fpu` and `heap` what each CPU has
loaded. The pc of a realm is not a number but where it stands in relation to the
instruction that last exited: *here*, *past* it, at the *vector*, or, when no
instruction exited, *next*; a completion that moves a pc which is not *here*
makes it *skipped*. One action is the code between two accesses to what CPUs
share.

| Code | Actions |
|---|---|
| `smc_rec_enter` up to the loop (`rmi/run.c`) | `RecEnter`, `EnterRefused`, `EnterAdmit`, `EnterUnschedulable`, `EnterGicInvalid`, `EnterEmulationFails`, `EnterCallFaults` |
| `rec_run_loop` (`core/run.c`) | `RunLoop`, `Leave` (FPU back, timers reported), `Save` |
| `handle_realm_exit`, aborts, traps (`core/exit.c`) | `Interrupt`, `Wfx`, `Icc`, `Sysreg`, `Undef`, `InstructionAbort`, `Mmio`, `DataAbort`, `FpuTrap`, `SError`, `TimerFires`, `TimerStops` |
| PSCI by a REC (`rsi/psci.c`) | `PsciCall`, `Suspend`, `CpuOff`, `Psci` (CPU_ON, AFFINITY_INFO), `SystemOff` |
| RSI (`rsi/memory.c`, `config.c`, `host_call.c`, `realm_attest.c`, `dev_mem.c`) | `Call`, `Engine`, `DevMem`, `IpaStateSet`, `IpaStateGet`, `RealmConfig`, `HostCall`, `MeasurementRead`, `Extend`, `ExtendWrite`, `TokenInit`, `TokenContinue`, `TokenRefused`, `TokenSign`, `TokenInterrupted`, `TokenWrite` |
| `smc_psci_complete` (`rmi/rec.c`) | `PsciLock`, `PsciRefused`, `PsciRead`, `TurnOn`, `Answer` |

A handler that returns true goes round the loop (`Stays`), one that returns false
leaves it (`Leaves`). A call that names a page of the realm finds it, finds it
empty, or finds no translation (`Walks`): the tables themselves are Stage2's.

**Vcpu** is the promise about RECs, with no CPU, lock or count: a REC is off,
idle or inside; a request that took it out is answered once before it runs
again; CPU_ON starts only a REC that is off and that nobody enters; a realm
turned off admits no REC. In the mapping `Promise` a REC is inside from RunLoop
to the exit that leaves the loop, and admitted from `EnterAdmit` on, because the
realm's state is read there, without a lock, and not again.

**Heap** is the allocator call by call (`Calloc`, `FreePtr`, `HeapReinit`): the
headers in the buffer with both chains, each store of `memory_alloc.c` guarded
as it is there. The size of a request is computed modulo `Wrap`. It is one step
per call since a heap has one user at a time (RecRun's `HeapAssigned`).
**Arena** promises what a caller relies on: memory inside the buffer, large
enough, overlapping nothing in use, little wasted, refused only for want of room.
The mapping takes a handed out block's `span` from its header.

**Xlat** is the library of translation tables and the slots made with it, for one
context at a time: `AddRegion` and `Seal` (`xlat_mmap_add_region`,
`xlat_ctx_cfg_init`), `InitTables` (`xlat_init_tables_ctx` with the recursion
over regions, blocks and tables), `EnableMmu`, `SlotInit` (the cached last
table), `GranuleMap`, `BufferUnmap` and `TlbiVa` of `buffer.c`, `PowerOff`;
`TlbFill` is the MMU, which may cache any valid entry of a slot at any time, in
all TLBs that share entries. `Asserts` is the build: in a Debug build
`xlat_table_get_empty` stops a boot that runs out of tables, and in a Release
build, the default, it returns the memory after the last one, all of whose words
are one of `Beyond`. Where the tables suffice, the two builds make the same ones. **Windows** promises that a window shows one page,
of the world it is for, to its own CPU, and nothing once it is shut.
**MonitorMemory** puts the two together as alternatives, for they share no state.

**DeviceAttach** follows the locks and the measurement of what a realm is built
of, a device included. `smc_data_create` is `DataCreate`, `...Lock`, `...Root`,
`...Walk`, `...Read`, `...Map`, `...Fails`; for a device, `check_dev_addr_space` and
`do_full_table_walk_check` go range by range after the command's own locks are gone
(`RangeIsData`, `CheckRd`, `CheckRoot`, `CheckWalk`, `CheckFails`, `CheckPasses`),
then it is attached and measured (`AttachRead`, `AttachExtend`). `smc_rtt_init_ripas`
is `InitRipas...`, the measured part of `smc_rec_create` is `RecCreate...`,
RSI_DEV_MEM is `DevMem...`, of which `DevMemBeyond` is a round past the realm's
addresses: the variable it unlocks by is not initialised, and holds what the round
before left in it. DATA_DESTROY and REALM_ACTIVATE come in between. The
realm initial measurement `rim` is the sequence of links that were hashed into
it: each `..._measure` function copies it (`Reads`), and writes the copy with one
more link (`Extends`), in two steps of which other CPUs may come between. A release
frees a lock whoever holds it, as `spinlock_release` does.

## Runs

| Run | Question | Instance |
|---|---|---|
| `lifecycle_rec` | counts, entered RECs, sealed realms, state changes, VMIDs; who owns auxiliary granules when creations race and roll back | 2 CPUs, 6 granules, 2 auxiliary granules |
| `lifecycle_rtt` | locks, table counts, trees while walks are under way | 2 CPUs, 4 granules, 2 concatenated roots, depth 2 |
| `lifecycle_world` | delegation, zeroing, the host's stores; does every command return | 2 CPUs, 3 granules, all Non-secure at first, all lifecycle commands, fairness |
| `lifecycle_vmid` | *violation*: a realm that could not be destroyed has lost its VMID | 1 CPU |
| `stage2_tlb` | counts, trees, memory, TLBs | 2 CPUs, 3 granules, 2 entries per table, a root and its tables, one cached entry, Debug |
| `stage2_space` | do the tables implement IpaSpace | 2 CPUs, the commands on protected memory and RIPAS |
| `stage2_fold` | *violation*: Release, a fold leaves an entry to a freed table | 1 CPU, 3 granules |
| `rec_run` | entries, PSCI between RECs, heaps, FPU, tokens, pcs; does RecRun implement Vcpu; does a realm turned off come to rest | 2 CPUs, 2 RECs, every exception shared out between them, 1 extension, a polite host, fairness |
| `memory` | chains of the allocator, translations of regions, slots; do they implement Arena and Windows | a 38-byte buffer and one too small; spaces of 32, 128 and 4 pages, 4 entries per table, 3 slots, 2 CPUs, Debug |
| `device_build` | which measurements can be lost, what measures an active realm, is every page accounted for | 2 CPUs, 2 pages, 2 page tables, 3 addresses of which 2 have a table, devices of one page, 2 links before the last commands start |
| `device_rim` | *violation*: a measurement is made of an old one, and a link is lost | the same |
| `device_attach` | *violation*: a failed attach leaves a page table locked | the same, devices of two pages too |

Bounds, and why they are enough for what is asked: two CPUs suffice for every
race between two commands, and the locks involve at most two CPUs at a time in a
wait; the proofs below are for any number. Five or six granules are one realm
with a root, a REC with an auxiliary granule, and one or two spare ones over
which commands compete; the host's run page is one of them. The three of
`lifecycle_world` are a realm with its root and a REC or a table, each of which
the other CPU may be delegating or taking back meanwhile; the order of the locks of
concatenated roots is left to `lifecycle_rtt`, whose deadlock check sees a cycle. `E = 2` entries per
table keep all cases apart (uniform, mixed, consecutive, not consecutive). With
`StartLevel = 2` a root entry is a level 2 block or points to a page table,
which is where folding and splitting happen. `MaxCached = 1` is enough for the
two TLB properties, since each speaks of one cached entry at a time. The host's
address in `NsPas` is 0, which is also a granule's number: the host may map any
page. Stage2 has one pending RIPAS request per realm, that of one REC.
Symmetry permutes CPUs (and realms), in runs of invariants and safety only;
`lifecycle_world` has none. `stage2_*` runs switch the deadlock check off because
a stopped CPU (a failed assertion with locks held) is a behaviour of the code.
In a Debug build the passing `stage2_tlb` stops at the assertions which `stage2_fold`
and `EntriesRecognised` (below) are about; in a Release build these two fail.

In `rec_run` two RECs are the caller and the target of a PSCI call and two CPUs
the one that runs and the one that completes. The kinds of exception are shared
out between the RECs (`Program`) because most of them leave no trace in the REC:
what can follow what is a matter of one REC's state, and the kinds that meet
another REC's (extend and init, the PSCI calls, `system`) are on different RECs.
`Polite` is an assumption on the host, which `PcAdvancedOnce` needs: it emulates
an access only if that exit reported an instruction syndrome, and asks for one
of emulation and abort. `FpuAtRel2 = FALSE` is the build without
`RMM_FPU_USE_AT_REL2`.

In `memory`, `Header = 4`, `Unit = 2` and `Wrap = 64` let 2 * 33 wrap around and
9 * 7 overflow when rounded; six blocks fit in 38 bytes, more than enough for a free block
with free neighbours on both sides. `Entries = 4` and the two sizes of low space
start the tables at level 1 and level 0; the regions are blocks, pages, both at
once, out of order, overlapping, unaligned, wrapping around, and beyond `MaxPa`.
Three slots are rounded up to a space of four. Its deadlock check is off because
a boot that meets an error or an assertion stops (`halted`). Some choices of
regions need more tables than the space has, one a single region of sixteen pages
in the space of 32: the Debug build of `memory` stops there, so that
`TranslatesRegions` is about the other choices, whose tables a Release build makes
just so. What a Release build makes of the rest is below. `Beyond` is an invalid word, a block and a pointer to a table.
`lifecycle_*` and `rec_run` are checked for deadlock.

In `device_*` two page tables let two walks of the same realm end at different
locks, and two pages are enough for the second round of the loop that unlocks the
RD again. `device_build` leaves that round out, since nothing that the RD's lock
protects holds once it happened: with devices of two pages `SealedRim` fails too,
by a REC_CREATE that measures after REALM_ACTIVATE. These runs do not check for deadlock because a leaked lock
(`device_attach`) stops everybody in the end.

**Fairness** (`FairSpec`): weak fairness of each CPU's command in progress, of
the steps of REC_CREATE that take what the host's parameters name, and of a
running realm giving the CPU back (the host interrupts it). The code justifies
no more: `spinlock_acquire` is not fair, so no CPU is promised a lock others keep
taking. `CommandsReturn` therefore says that commands all return *once no new
ones start*, which a leaked lock or a cycle of waiting CPUs would break. This is
`docs/design/locking.rst`'s "at least one of them makes forward progress".
RecRun's `FairSpec` is weak fairness of the RMM's own steps on each CPU, which
follow one another with nothing to wait for, and strong fairness of `Interrupt`:
an interrupt of the Normal world that is pending each time the realm runs is
taken some time, because the RMM never masks it while the realm runs. `OffQuiesces`
needs both: a REC that keeps making calls which the RMM answers at once is inside
again and again, and leaves only for an interrupt.

## What the runs found

* `smc_realm_destroy` frees the VMID before it checks that the root tables are
  unused (`rmi/realm.c:381`, `385`). After `RMI_ERROR_IN_USE` the realm lives on
  and another realm gets the same VMID: `lifecycle_vmid`. In `lifecycle_rec`,
  where no realm has tables below its root, VMIDs are exclusive.
* `RTT_FOLD`'s "should not happen" (`rmi/rtt.c:400`) happens for a full table of
  pages in any but consecutive order: `stage2_fold`.
* RTT_INIT_RIPAS (`rmi/rtt.c:1336`) and an attach (`1087`) extend the initial
  measurement without the RD's lock, against `realm.h:58`, and a link may be lost:
  `device_rim`, which finds the first; without RTT_INIT_RIPAS among its commands it
  finds the second. Both may also change the measurement of a realm that is active
  already. `device_build` shows that these two are the only commands that can do
  either, as long as the RD is not unlocked by another.
* `do_full_table_walk_check` returns with the page table locked when nothing is
  mapped at an address of the device (`rmi/rtt.c:913`): `device_attach`.

Seen by checking a definition that no run lists, or with other constants:

* `s2tte_check` recognises no level 2 block (`lib/realm/src/s2tt.c:584`) because it
  compares two masked bits with a pattern of more: Stage2's `EntriesRecognised`
  fails at the first block that RTT_MAP_UNPROTECTED makes.
* `xlat_table_get_empty` (`lib/xlat/src/xlat_tables_core.c:53`) only asserts that a table is
  left, so the check of its result (`297`) never fails. In a Release build a boot
  with too few tables does not fail, as `plat/common/CMakeLists.txt:15` says it does,
  but uses memory that belongs to something else and that nobody has cleared: with
  `Asserts = FALSE` Xlat's `TablesSuffice` fails, and `TranslatesRegions` with it.
* Stage2's `TlbCoherent` fails in a Release build without RTT_FOLD: RTT_CREATE over a
  level 2 block that RTT_MAP_UNPROTECTED made writes the table's entry without
  an invalidation (`rmi/rtt.c:153-249`: no case matches, and the last one only asserts).
* RecRun's `HostKnowsTimer` fails: the timer may fire between
  `report_timer_state_to_ns` and `save_realm_state`, or the state may be cleared
  when a host call faults on entry (`EnterCallFaults`). The output is then saved
  as known although `core/run.c` says that any change is reported to the host.
* With `Polite = FALSE` `PcAdvancedOnce` fails: `complete_mmio_emulation` has
  moved the pc when `complete_sea_insertion` refuses the entry, and an entry after
  an external abort may inject one more.
* With `FpuAtRel2 = TRUE` `FpuOpenWhenSaved` fails: `FPU_ALLOW` leaves the trap
  on, so that saving the realm's FPU at the end of the loop traps in the RMM,
  against the requirement in `fpu_helpers.h:66-67`.
* DeviceAttach's `MutualExclusion` fails in the instance of `device_attach`:
  `do_full_table_walk_check` also unlocks the RD in its loop (`rmi/rtt.c:896`), so
  with a second page it releases a lock that another CPU holds by then.
* RSI_DEV_MEM releases a table that the failed walk released already
  (`dev_mem.c:53`). With `Ranges = {}` DeviceAttach's `SomeoneMoves` holds:
  RSI_DEV_MEM locks many pages, but only below the RD's lock.
* In `rsi/psci.c`'s completion, `default: assert(false)` is reachable: the call is
  dispatched on the low 32 bits of a function number whose 64 bits are compared
  later. An SMC32 CPU_ON with garbage in the high halves of its arguments names a
  REC that no PSCI_COMPLETE can name, and is never answered (the kind `wide`).

Met while modelling, modelled as they are, and contradicting no property:
`update_ripas` or's the RIPAS bit (`rtt.c:1238`), so unassigned RAM does not
become EMPTY and assigned EMPTY memory does not become valid although the request
advances (IpaSpace's `Takes` is the honest statement); `RTT_INIT_RIPAS` may write
after `REALM_ACTIVATE` when it checked before (`rtt.c:1314`; IpaSpace's
`InitRipas` may seal the realm in the same step for this reason);
`rtt_create` raises the new table's count before it changes its state, against
the letter of `locking.rst`, though under the table's lock; `xlat_mmap_add_ctx` stops
at the first region of size 0; the test for a region that covers part of a block
(`xlat_tables_core.c`) is true of any region; `find_xlat_last_table` takes a valid
level 3 page for a table and so serves for pages that are not mapped, which is
what `buffer.c` uses it for; `memory_alloc.c:351` asserts the opposite of what its
verification returns, in code that nothing enables.

## Proofs

TLAPS checks these for every number of CPUs, granules, VMIDs, roots, RECs and
auxiliary granules, from `GranuleAssumption` and `LifecycleAssumption` alone; those
of RecRun's modules for every number of CPUs and RECs, every `Program`, `Timed`
and `MaxRem`, from `RecRunAssumption` alone; those of DeviceProofs for every
number of CPUs, pages, page tables, addresses and lists of ranges, from
`DeviceAssumption` alone; and those of Stage2's modules for every number of CPUs,
realms, granules and cached entries, every size `E` of a table, every starting
level and every choice of commands, from `Stage2Assumption`, `NoneAssumption`
(`None` is no entry) and `EvenAssumption`. The last one, that `E` is even, is true
of the code, where `E` is `S2TTES_PER_S2TT`, 512; only the refinement needs it, for
which no entry may map pages of both halves of the IPA space. The theorems are
about `Spec`, without fairness. A hypothesis is named in the third column.

| Theorem | Module | States |
|---|---|---|
| `TypesCorrect` | LifecycleLocks | the types of all variables and frames, a reference count being any integer: what the next three rest on |
| `LocksCorrect` | LifecycleLocks | `LockInv`: a granule is locked by c exactly when c's command is to hold it there |
| `HeldStatesCorrect` | LifecycleLocks | a held granule is in the state the command found it in |
| `WorldsCorrect` | LifecycleLocks | `HostReachesOnlyNS` |
| `AllTypesCorrect` | LifecycleTrees | `TypeOK`: in particular no count is ever negative |
| `CountsCorrect` | LifecycleTrees | `RefcountsCount`, of RDs, RECs and tables |
| `UnlockedInvariantsCorrect` | LifecycleTrees | `UnlockedInvariants`: the code's own assertions hold |
| `EnteredRecsCorrect` | LifecycleTrees | `EnteredRecIsAlive` |
| `RecsOwnedCorrect` | LifecycleTrees | `RecsBelongToRealm` |
| `TreesCorrect` | LifecycleTrees | `TreesIntact` |
| `StateChangesCorrect` | LifecycleTrees | the action property `StateChangesUnreferenced` |
| `SealedCorrect` | LifecycleTrees | the action property `RealmSealed` |
| `AuxesCorrect` | LifecycleContents | `AuxOwned` |
| `ZeroesCorrect` | LifecycleContents | `DelegatedZero` |
| `VmidsCorrect` | LifecycleContents | `VmidExclusive`, if no `RealmDestroyInUse` is ever taken (`NoDestroyRefused`): the step that `lifecycle_vmid` shows to break it |
| `TableTypesCorrect` | Stage2Proofs | `TypeOK`: counts in `0 .. E`; if `FoldsFit`, as in the next three |
| `TableCountsCorrect` | Stage2Proofs | `RefcountIsLive` |
| `TablesPlacedOnce` | Stage2Proofs | `TableEntriesPointToTables` |
| `MemoryMappedOnce` | Stage2Proofs | `DataMappedOnce` |
| `TlbReachesOwnCorrect` | Stage2Implements | `TlbReachesOwn`, if `FoldsFit` |
| `TlbCoherentCorrect` | Stage2Implements | `TlbCoherent`, if `FoldsFit` and `CreatesFit` |
| `RefinesIpaSpace` | Stage2Implements | the refinement `ImplementsIpaSpace`, if `FoldsFit` |
| `PagesCorrect` | DeviceProofs | `PagesAccounted`, if no device has two pages (`SinglePages`), as in the next three |
| `LinksCorrect` | DeviceProofs | `LostOnlyToUnlocked` |
| `SealedRimCorrect` | DeviceProofs | the action property `SealedRim` |
| `ExclusionCorrect` | DeviceProofs | `MutualExclusion`, which two pages break (above) |
| `RunInvariant`, `RunTypes` | RecRunProofs | the inductive invariant of RecRun, and its types |
| `RecEnteredOnce` | RecRunProofs | `EnteredOnce` |
| `HeapOfOwnRec` | RecRunProofs | `HeapAssigned` |
| `RunningRecsLeftAlone` | RecRunProofs | the action property `PsciLeavesRunningAlone` |
| `FpuNeverMixed` | RecRunProofs | `FpuBelongs`, if `~FpuAtRel2` |
| `NoInstructionSkipped` | RecRunProofs | `PcAdvancedOnce`, if `Polite` |
| `TokensWhole` | RecRunProofs | `TokenOfOneMeasurement` |
| `RefinesVcpu` | RecRunProofs | the refinement `ImplementsVcpu` |

*Locks.* `LockInv` is not inductive: the locks a frame is to hold (`Held`) may lie
outside the table, or overlap those of another frame, unless the frame's fields
are consistent (`obj # rd` between the two locks of REC_CREATE, `i <= num` in the
loops over roots, ...). `LockIInv` adds types, `Held(f[c]) \subseteq Granules`
and `FrameOK`, one condition per label. Each action then falls into one of four
cases, each a lemma: it keeps its locks (`OwnSame`), takes one (`OwnTake`), drops
some (`OwnDrop`) or swaps one for another (`OwnSwap`). There is one lemma per
action, and the step theorem dispatches on the disjuncts of `Next`.

*Worlds.* `HostReachesOnlyNS` needs to know that nobody changes the state of a
granule that another CPU holds in mid-delegation. `WorldIInv` adds `HeldStates`
(the expected state of each held granule, by label) and `Worlds` (a granule that
is NS is in the Normal world; one in the Normal world that is not NS is held by
a CPU between the two halves of a delegation). By `LocksCorrect`'s invariant two
CPUs never hold one granule, so `HeldStates` of one survives the step of another.

*Counts of RDs and RECs* (LifecycleRecs). `RecIInv` says what each reference
is: a RD's are its RECs and the REC_DESTROYs that have freed their REC and not yet
dropped the RD (`RecsCounted`), a REC's the CPUs in it, of which there is one at
most (`EnteredAlone`); a REC's RD is a RD (`RecsOwned`). Counts go down without a
lock (`RecDestroyPut`, `EnterPut`), and REALM_DESTROY and REC_DESTROY rely on a
zero they read earlier (`RecFrames`): it stays zero, because a command raises a
count only with the granule locked, and one that lowers it is itself counted. The
step is proved from `RootsUnused`, that a root table about to be freed is not
referenced, because freeing one changes state and count of a granule as well.

*Trees* (LifecycleTrees). `TreeIInv` proves `RootsUnused` in turn. A table is a root
of one realm or the child of one table, never both, and its count is the number
of its children (`Forest`). A realm that is being created owns roots that are not
tables yet, and one that is being destroyed has lost those freed so far (`Gone`):
the invariants speak of `RootTable`, which takes both into account. That no walk
is under way in a realm while its roots are freed rests on hand over hand
locking, stated for each label of a walk. The two parts are proved inductive
together (`CountIInv`), and the eight theorems of the module follow from it.

*Contents* (LifecycleContents). `Slots`: the auxiliary granules in the list of a
command (`Taken`) or of a REC that is not being destroyed are REC_AUX, and no granule is
in two lists or twice in one, although nobody holds their locks. `Blank`: a
granule holds the structure of its state only, and a DELEGATED one zeroes only,
save for the granule a CPU has locked between two halves of a delegation. Most actions
only shrink the lists (`SlotsShrink`). `VmidIInv` says that realms that are not
being destroyed, and realms being created, have reserved VMIDs of their own;
`RealmDestroyInUse` is the one step that does not keep it.

*Stage 2* (Stage2Proofs). The walk is recursive and the properties follow it from
the root; the invariant, `Safe`, goes the other way. Every table in use has a place
`p`, a realm, the first page it is for, and a level, and no two the same
(`PlacesDiffer`); a table's entry that points to a table points to the one whose
place is below (`ChildrenPlaced`), and every table hangs below some entry
(`ParentsExist`). That the places are consistent with the addresses commands
take is arithmetic (`SpotAt`, `BlockOf`, `ChildBase`): an address has one digit in base `E`
per level. The memory of an entry (`Mem`) is a range of granules for a
block and one for a page; `Memory` says that the ranges of any two entries are
disjoint, DATA, and in the protected half. Both parts are about the tables as
they would be if no break before make were in progress (`View`), so four shapes
of step are left: an entry written anew (`Put`), an entry split into a table
(`SplitTree`), a table merged into an entry (`MergeTree`), a granule freed
(`FreeDying`). What a CPU in the middle of a command relies on is its frame's
(`MakeOK`: the table cut off has no reference and the memory of the entry to come;
`FreeOK`), and the locked tables of two CPUs differ (`LocksDiffer`). `Counted` is
`RefcountIsLive` with the locked tables left out, whose count a frame knows to
within one. `p` changes when a table is made, so `Safe` says that there is one;
TLC cannot enumerate such places, and checks the properties that follow from it
instead. The four theorems follow by two lemmas about walks: what they
find lies in its place (`EntriesPlaced`), and what has a place is found
(`TablesFound`).

`FoldsFit` is: the build is a Debug one, or no RTT_FOLD changes a table for which a
Debug build's assertions fail. Without it the theorems are false: in a Release
build such a fold leaves an entry that points to a freed table, which is what
`stage2_fold` shows. The other assertions, of RTT_CREATE and RTT_READ_ENTRY, are not
needed for any of the four.

*Translations cached* (Stage2Implements). An entry that an MMU has cached stays
when the tables change, so what is cached has to be related to the commands that
are still to invalidate it. `TlbState` says of each one that it sits in a table
in use, where its address leads, and that it is either what the view has there or
`Stale`: a frame has taken just this entry from just this table, the address is in
the range it is about to invalidate, and what it was is what the frame
gives back afterwards. For a break before make there is `BreakKnown`: the table that
is cut off has only invalid entries, the range invalidated has the entry broken,
and between this and the make nothing is cached of that entry. That other CPUs refill
their caches from the tables meanwhile is no case of its own: they read what is
there. In a Release build RTT_CREATE overwrites a level 2 block, which it does not
recognise, with a table of unassigned entries and never invalidates it; with
`FoldsFit` such a block maps the host's memory. `TlbReachesOwn`
is not about the host's memory and needs no more than `FoldsFit`; `TlbCoherent`
is, and is false without `CreatesFit`: a Debug build, or no such RTT_CREATE.
`TlbState(p, w)` watches the host's entries only where `w` is true, so that both
follow from one proof.

*IpaSpace.* The mapped state is found by a walk for every page (`Leaf`). `Shows`
says the same without walks: whichever entry of a table in use maps a page in the
view, the page is what this entry says (`Seen`), and some entry maps it. Since
the view leaves breaks in progress out, a break changes no page; the make may. Four
shapes of step are left here too: an entry rewritten (`Rewritten`: its pages
change, all in the same way, and no other), an entry split into a table and a
table merged into an entry (`Divided`: page by page the entry's or the table's),
and a step that leaves view and places alone. What a break hides is in the frame:
the entry to be is like the table below it (`Like`, for RTT_FOLD), so that the
merge is a stutter, or the table has no memory and its pages are lost (`Lost`, for
RTT_DESTROY), so that it is `Destroy` at the step that makes the entry. Splits
are stutters except where RTT_CREATE does not recognise a block, which is
`Unmap`. For DATA_CREATE that the granule is given to no other page is `Memory`;
for the commands on a range of pages, that they find it of one kind is the entry
they rewrite; that these pages are all in the protected half or none is where an even
`E` comes in.

*Devices* (DeviceProofs). `DeviceIInv` has the locks that count while a command
is under way (`LocksAt`: the RD's, and that of the page it creates), what the
command relies on of what it has seen (`SeenAt`: the page is not DATA, the entry
is unassigned, the realm is NEW), what it has copied of the RIM (`CurrentAt`), and
where each page is (`Accounted`). It says nothing of the locks of tables, of
which RSI_DEV_MEM releases those of others, and a failed attach keeps one: that an
entry found unassigned is so when the page is mapped follows from the RD's lock,
and that an entry is taken away once from the step that writes it. With a second
page `CheckRoot` releases the RD of whoever holds it, so `LocksAt` fails, which is
why `SinglePages` is a hypothesis. A step that changes only locks and a job keeps
the rest (`CalmStep`); nearly all do.

*RecRun.* `RunIInv` adds to the properties what each relies on. `Working`: a CPU
in RMI_PSCI_COMPLETE has the locks of its two RECs, and once it has looked, the
caller's count is zero, and the target's too if it is about to be turned on; these
stay zero because an entry needs the lock to be free. `FpuOwned`: a REC is marked
as using the FPU exactly while its CPU's trap is off, between `FpuTrap` and
`Leave`. `PcFollows`: a REC whose last exit can be emulated stands *here*, and
inside the realm it stands *here* with nothing to emulate, so whatever a polite
host asks for moves it once. The FPU's part assumes `~FpuAtRel2` and the pc's part
`Polite`; the others hold without. Handlers differ only in the record they write,
so the forty-odd actions come down to three shapes, each a lemma: a CPU goes on
with its REC (`Rewriting`, through `Goes` for the loop and `Standing` for a change
in place), returns it (`Returns`), or completes a PSCI call (`Completing`).

*Tokens.* `Measured` says that the measurement is torn exactly while the CPU
that has the descriptor's lock extends it, that this CPU remembers what it was,
and that no token is of a later one. Only the two steps of an extension and the
one of INIT matter to it; of every other one it is enough that a token keeps its
measurement, gives it up or takes the realm's (`Behind`).

*Vcpu.* The refinement needs `Asked` besides `RunIInv`'s part that holds without
assumptions (`Base`): a REC waits for one answer at most, for none while it is
inside the realm, and the request that PSCI_COMPLETE saw is still there when it
answers. All but six actions are *turns* of a CPU with the REC it has entered.
Since no other CPU is in that REC, a turn changes the mapped state at this REC
only (`Turned`), to what its record and the CPU's label say; so a step is a
stutter if these agree before and after, and else one of `Admit`, `Refuse`,
`Resume`, `Stop`, `TurnOff`, `Halt`. The two RECs of a completion are entered by
nobody, which makes `TurnOn` and `Answer` what they are in Vcpu.

Only model-checked: the monitor's memory (Xlat's tables are made by RECURSIVE
operators, which TLAPS does not take, and the chains of Heap by recursion over
data); RecRun's `OffQuiesces` and liveness, with the deadlock checks and
DeviceAttach's `SomeoneMoves` (TLAPS has neither fairness nor ENABLED).

## Not modelled, and the plan

Left out on purpose: parameter validation and feature registers (they only
decide whether a command fails), register contents, GIC list registers, SVE
contexts, cryptography and CBOR, the handshake of boot, SMC dispatch, libc,
drivers, platforms: straight-line code, data, or I/O with no state that several
steps share. Hazards without a property in a run are the level 2 blocks and the
translation tables that run out (both above), and these:

* EL3's part of a device attach, and virtual SErrors that are masked at an exit.
* VMIDs as words of a bitmap: a shift by more than 63 is undefined in C, and
  taken modulo 64 by the Arm instruction used (`aarch64/atomics.h:99`), so the set
  in RealmLifecycle is what it computes.
* The copies of DATA_CREATE and REC_CREATE from a Normal world page whose state was
  read without a lock (`rtt.c:1109`, `rec.c:194`). Only rec_enter has its copies step by
  step. REC_CREATE's comes before its first change of state, so that one that fails
  is no step, and what it reads is whatever granules the steps that follow choose.
* A range of RSI_DEV_MEM that begins outside the realm's addresses: it unlocks by a
  pointer that nothing in the command has set. One that runs past their end is
  modelled (`DevMemBeyond`).

What further work would add: DATA_CREATE's copy step by step; several pending RIPAS
requests of a realm, one per REC, in Stage2; and `BlocksTile` without recursion, as
a statement about the headers, so that it can be proved too.
