---------------------------- MODULE DeviceAttach ----------------------------
(***************************************************************************)
(* What a realm is built of, the locks that takes, and the realm initial   *)
(* measurement (RIM).  RMI_DATA_CREATE may attach a device: the ranges its *)
(* page lists are looked up in the stage 2 tables (check_dev_addr_space,   *)
(* do_full_table_walk_check) after the locks of the command itself are     *)
(* given back (runtime/rmi/rtt.c).  RSI_DEV_MEM hands pages of the device  *)
(* over while it runs (runtime/rsi/dev_mem.c).  RMI_DATA_DESTROY takes     *)
(* pages away in between.  DATA_CREATE, RTT_INIT_RIPAS, REC_CREATE and an  *)
(* attached device each extend the RIM: its old value is copied, hashed    *)
(* with what is measured, and written back.                                *)
(*                                                                         *)
(* One realm, never destroyed, its RD below its pages in memory; its root  *)
(* table and page tables below it, always there; every page of it is RAM,  *)
(* so that RTT_INIT_RIPAS changes no entry.  A step of a CPU takes at most *)
(* one lock and then works under those it has.                             *)
(***************************************************************************)
EXTENDS Naturals, FiniteSets, Sequences

CONSTANTS Cpus, NoCpu,
          Pages,       \* granules that become the realm's memory
          NumIpas,     \* bound: the protected addresses 0 .. NumIpas - 1
          PageTables,  \* the page tables below the root
          TableOf,     \* the page table of each address that has one
          Ranges,      \* bound: the lists of <<IPA, PA>> a device's page may hold
          MaxSize,     \* bound: the number of pages RSI_DEV_MEM is called with
          MaxLinks,    \* bound: nothing starts to be measured after so many links
          Commands     \* bound: the commands that are called

Ipas == 0 .. NumIpas - 1
Tabled == DOMAIN TableOf

Rd == "rd"
Root == "root"
Unassigned == "unassigned"
Destroyed == "destroyed"
NoPage == "no page"

Granules == {Rd, Root} \cup PageTables \cup Pages

(* The granules are distinct, and the tables translate some of the         *)
(* addresses; a list of ranges may name any page at any address.           *)
ASSUME DeviceAssumption ==
  /\ IsFiniteSet(Cpus) /\ NoCpu \notin Cpus
  /\ NumIpas \in Nat /\ MaxSize \in Nat /\ MaxLinks \in Nat
  /\ Tabled \subseteq Ipas /\ \A i \in Tabled : TableOf[i] \in PageTables
  /\ {Rd, Root} \cap (PageTables \cup Pages) = {} /\ PageTables \cap Pages = {}
  /\ {Unassigned, Destroyed, NoPage} \cap Pages = {}
  /\ Ranges \subseteq Seq(Ipas \X Pages)

VARIABLES lock,     \* who holds each granule's lock
          leaf,     \* what the page tables say of each address
          data,     \* the pages that are in the state DATA, the others are DELEGATED
          active,   \* the realm is ACTIVE, or still NEW
          rim,      \* the RIM: a hash of hashes, as the links it is made of
          job       \* the command of each CPU, and its locals

vars == <<lock, leaf, data, active, rim, job>>
memory == <<leaf, data>>

Idle == [pc |-> "idle", kind |-> "none", page |-> NoPage, ipa |-> 0, ranges |-> <<>>, k |-> 1,
         rim |-> <<>>, left |-> 0, found |-> {}]

Init ==
  /\ lock = [g \in Granules |-> NoCpu]
  /\ leaf = [i \in Ipas |-> Unassigned]
  /\ data = {} /\ active = FALSE /\ rim = <<>>
  /\ job = [c \in Cpus |-> Idle]

At(c, l) == job[c].pc = l
Go(c, l) == job' = [job EXCEPT ![c].pc = l]
Return(c) == job' = [job EXCEPT ![c] = Idle]

(* Take one granule's lock and release others; spinlock_release does not   *)
(* look at who holds what it releases.                                     *)
Locks(c, g, gs) ==
  /\ lock[g] = NoCpu
  /\ lock' = [h \in Granules |-> IF h \in gs THEN NoCpu ELSE IF h = g THEN c ELSE lock[h]]
Unlocks(gs) == lock' = [h \in Granules |-> IF h \in gs THEN NoCpu ELSE lock[h]]

(* rtt_walk_lock_unlock from the locked root: the lock that is held where  *)
(* it ends, wi.g_llt.                                                      *)
Llt(i) == IF i \in Tabled THEN TableOf[i] ELSE Root

Walk(c, i, next) ==
  /\ Go(c, next)
  /\ IF i \in Tabled THEN Locks(c, TableOf[i], {Root}) ELSE UNCHANGED lock
  /\ UNCHANGED <<memory, active, rim>>

MapsPage(i) == i \in Tabled /\ leaf[i] \in Pages

(* data_granule_measure, rec_params_measure, ripas_granule_measure: the    *)
(* RIM is copied into a descriptor, whose hash becomes the RIM.            *)
Reads(c, next) == job' = [job EXCEPT ![c].pc = next, ![c].rim = rim]
Extends(c, link) == rim' = Append(job[c].rim, link)

(***************************************************************************)
(* RMI_DATA_CREATE, of contents or of a device's page, and                 *)
(* RMI_DATA_CREATE_UNKNOWN                                                 *)
(***************************************************************************)
DataCreate(c, kind, p, i, ranges) ==
  /\ At(c, "idle") /\ "DATA_CREATE" \in Commands
  /\ kind # "unknown" => Len(rim) < MaxLinks
  /\ Locks(c, Rd, {})
  /\ job' = [job EXCEPT ![c] = [Idle EXCEPT !.pc = "create_page", !.kind = kind, !.page = p,
                                            !.ipa = i, !.ranges = ranges]]
  /\ UNCHANGED <<memory, active, rim>>

(* Mutant: a page in any state. *)
DataCreateLockAnyState(c) ==
  /\ At(c, "create_page")
  /\ IF job[c].kind # "unknown" /\ active
     THEN lock[job[c].page] = NoCpu /\ Unlocks({Rd}) /\ Return(c)
     ELSE Locks(c, job[c].page, {}) /\ Go(c, "create_root")
  /\ UNCHANGED <<memory, active, rim>>

(* A page that is not DELEGATED, or contents for a realm that is not NEW. *)
DataCreateLock(c) ==
  /\ At(c, "create_page")
  /\ IF job[c].page \in data \/ (job[c].kind # "unknown" /\ active)
     THEN lock[job[c].page] = NoCpu /\ Unlocks({Rd}) /\ Return(c)
     ELSE Locks(c, job[c].page, {}) /\ Go(c, "create_root")
  /\ UNCHANGED <<memory, active, rim>>

DataCreateRoot(c) ==
  /\ At(c, "create_root")
  /\ Locks(c, Root, {}) /\ Go(c, "create_walk")
  /\ UNCHANGED <<memory, active, rim>>

DataCreateWalk(c) == At(c, "create_walk") /\ Walk(c, job[c].ipa, "create")

DataCreateFails(c) ==
  /\ At(c, "create")
  /\ Unlocks({Llt(job[c].ipa), Rd, job[c].page}) /\ Return(c)
  /\ UNCHANGED <<memory, active, rim>>

(* The contents are copied and measured before the page is mapped. *)
DataCreateRead(c) ==
  LET j == job[c]
  IN /\ At(c, "create") /\ j.ipa \in Tabled /\ leaf[j.ipa] = Unassigned
     /\ j.kind # "unknown" /\ Reads(c, "create_map")
     /\ UNCHANGED <<lock, memory, active, rim>>

DataCreateMap(c) ==
  LET j == job[c]
  IN /\ \/ At(c, "create_map") /\ Extends(c, "data")
        \/ /\ At(c, "create") /\ j.kind = "unknown" /\ UNCHANGED rim
           /\ j.ipa \in Tabled /\ leaf[j.ipa] = Unassigned
     /\ leaf' = [leaf EXCEPT ![j.ipa] = j.page]
     /\ data' = data \cup {j.page}
     /\ Unlocks({Llt(j.ipa), Rd, j.page})
     /\ IF j.kind = "device" THEN Go(c, "ranges") ELSE Return(c)
     /\ UNCHANGED active

(***************************************************************************)
(* The ranges of a device, with no lock held at first.                     *)
(***************************************************************************)
DevRange(c) == job[c].ranges[job[c].k]
Last(c)  == job[c].k = Len(job[c].ranges)
Again(c, l) == job' = [job EXCEPT ![c].pc = l, ![c].k = @ + 1]
FromTheFirst(c, l) == job' = [job EXCEPT ![c].pc = l, ![c].k = 1]

(* check_dev_addr_space: each page is DATA, one by one, for a moment. *)
RangeIsData(c) ==
  /\ At(c, "ranges")
  /\ IF job[c].ranges = <<>> THEN FromTheFirst(c, "check_rd")
     ELSE /\ lock[DevRange(c)[2]] = NoCpu
          /\ IF DevRange(c)[2] \notin data THEN Return(c)
             ELSE IF Last(c) THEN FromTheFirst(c, "check_rd") ELSE Again(c, "ranges")
  /\ UNCHANGED <<lock, memory, active, rim>>

(* do_full_table_walk_check.  Without a range it returns with the RD       *)
(* locked.                                                                 *)
CheckRd(c) ==
  /\ At(c, "check_rd")
  /\ Locks(c, Rd, {})
  /\ IF job[c].ranges = <<>> THEN Go(c, "attach") ELSE Go(c, "check_root")
  /\ UNCHANGED <<memory, active, rim>>

(* The RD is unlocked with every root that is locked. *)
CheckRoot(c) ==
  /\ At(c, "check_root")
  /\ Locks(c, Root, {Rd}) /\ Go(c, "check_walk")
  /\ UNCHANGED <<memory, active, rim>>

CheckWalk(c) == At(c, "check_walk") /\ Walk(c, DevRange(c)[1], "check")

(* The walk ended above the last level; or nothing is mapped, and the      *)
(* table stays locked; or it is another page.                              *)
CheckFails(c) ==
  LET i == DevRange(c)[1]
  IN /\ At(c, "check")
     /\ \/ i \notin Tabled /\ Unlocks({Root})
        \/ i \in Tabled /\ ~MapsPage(i) /\ UNCHANGED lock
        \/ MapsPage(i) /\ leaf[i] # DevRange(c)[2] /\ Unlocks({Llt(i)})
     /\ Return(c)
     /\ UNCHANGED <<memory, active, rim>>

CheckPasses(c) ==
  /\ At(c, "check") /\ MapsPage(DevRange(c)[1]) /\ leaf[DevRange(c)[1]] = DevRange(c)[2]
  /\ Unlocks({Llt(DevRange(c)[1])})
  /\ IF Last(c) THEN Go(c, "attach") ELSE Again(c, "check_root")
  /\ UNCHANGED <<memory, active, rim>>

(* The device is attached and measured, with no lock taken for it. *)
AttachRead(c) ==
  /\ At(c, "attach") /\ Reads(c, "attach_measure")
  /\ UNCHANGED <<lock, memory, active, rim>>

AttachExtend(c) ==
  /\ At(c, "attach_measure") /\ Extends(c, "attach") /\ Return(c)
  /\ UNCHANGED <<lock, memory, active>>

(***************************************************************************)
(* RMI_RTT_INIT_RIPAS: the realm is seen NEW under the RD's lock, which is *)
(* released at the root table.                                             *)
(***************************************************************************)
InitRipas(c, i) ==
  /\ At(c, "idle") /\ "RTT_INIT_RIPAS" \in Commands /\ Len(rim) < MaxLinks
  /\ ~active /\ Locks(c, Rd, {})
  /\ job' = [job EXCEPT ![c] = [Idle EXCEPT !.pc = "ripas_root", !.ipa = i]]
  /\ UNCHANGED <<memory, active, rim>>

InitRipasRoot(c) ==
  /\ At(c, "ripas_root")
  /\ Locks(c, Root, {Rd}) /\ Go(c, "ripas_walk")
  /\ UNCHANGED <<memory, active, rim>>

InitRipasWalk(c) == At(c, "ripas_walk") /\ Walk(c, job[c].ipa, "ripas")

(* Another level than that where the walk ended, or an entry in use. *)
InitRipasFails(c) ==
  /\ At(c, "ripas")
  /\ Unlocks({Llt(job[c].ipa)}) /\ Return(c)
  /\ UNCHANGED <<memory, active, rim>>

InitRipasRead(c) ==
  /\ At(c, "ripas") /\ leaf[job[c].ipa] = Unassigned
  /\ Reads(c, "ripas_measure")
  /\ UNCHANGED <<lock, memory, active, rim>>

InitRipasExtend(c) ==
  /\ At(c, "ripas_measure") /\ Extends(c, "ripas")
  /\ Unlocks({Llt(job[c].ipa)}) /\ Return(c)
  /\ UNCHANGED <<memory, active>>

(***************************************************************************)
(* RMI_REC_CREATE, of which the RD's lock and the measurement matter here. *)
(***************************************************************************)
RecCreate(c) ==
  /\ At(c, "idle") /\ "REC_CREATE" \in Commands /\ Len(rim) < MaxLinks
  /\ Locks(c, Rd, {}) /\ Go(c, "rec")
  /\ UNCHANGED <<memory, active, rim>>

RecCreateFails(c) ==
  /\ At(c, "rec") /\ Unlocks({Rd}) /\ Return(c)
  /\ UNCHANGED <<memory, active, rim>>

(* Mutant: the RD is unlocked before the measurement. *)
RecCreateReadUnlocks(c) ==
  /\ At(c, "rec") /\ ~active /\ Reads(c, "rec_measure") /\ Unlocks({Rd})
  /\ UNCHANGED <<memory, active, rim>>

(* Mutant: for a realm in any state. *)
RecCreateReadAnyState(c) ==
  /\ At(c, "rec") /\ Reads(c, "rec_measure")
  /\ UNCHANGED <<lock, memory, active, rim>>

RecCreateRead(c) ==
  /\ At(c, "rec") /\ ~active /\ Reads(c, "rec_measure")
  /\ UNCHANGED <<lock, memory, active, rim>>

RecCreateExtend(c) ==
  /\ At(c, "rec_measure") /\ Extends(c, "rec")
  /\ Unlocks({Rd}) /\ Return(c)
  /\ UNCHANGED <<memory, active>>

(***************************************************************************)
(* RMI_DATA_DESTROY, RMI_REALM_ACTIVATE                                    *)
(***************************************************************************)
DataDestroy(c, i) ==
  /\ At(c, "idle") /\ "DATA_DESTROY" \in Commands
  /\ Locks(c, Rd, {})
  /\ job' = [job EXCEPT ![c] = [Idle EXCEPT !.pc = "destroy_root", !.ipa = i]]
  /\ UNCHANGED <<memory, active, rim>>

DataDestroyRoot(c) ==
  /\ At(c, "destroy_root")
  /\ Locks(c, Root, {Rd}) /\ Go(c, "destroy_walk")
  /\ UNCHANGED <<memory, active, rim>>

DataDestroyWalk(c) == At(c, "destroy_walk") /\ Walk(c, job[c].ipa, "destroy")

DataDestroyEntry(c) ==
  LET i == job[c].ipa
  IN /\ At(c, "destroy")
     /\ IF MapsPage(i)
        THEN /\ leaf' = [leaf EXCEPT ![i] = Destroyed]
             /\ job' = [job EXCEPT ![c].pc = "destroy_page", ![c].page = leaf[i]]
             /\ UNCHANGED lock
        ELSE Unlocks({Llt(i)}) /\ Return(c) /\ UNCHANGED leaf
     /\ UNCHANGED <<data, active, rim>>

DataDestroyPage(c) ==
  /\ At(c, "destroy_page") /\ lock[job[c].page] = NoCpu
  /\ data' = data \ {job[c].page}
  /\ Unlocks({Llt(job[c].ipa)}) /\ Return(c)
  /\ UNCHANGED <<leaf, active, rim>>

Activate(c) ==
  /\ At(c, "idle") /\ "REALM_ACTIVATE" \in Commands /\ lock[Rd] = NoCpu
  /\ active' = TRUE
  /\ UNCHANGED <<lock, memory, rim, job>>

(***************************************************************************)
(* RSI_DEV_MEM, by a REC of the realm: the RD, and every page found so far, *)
(* stay locked to the end.  No command that takes the RD first can be      *)
(* between it and the page table, so none waits for those pages there.     *)
(* The first address is one of the realm's; the range may run past them.   *)
(***************************************************************************)
DevMem(c, i, n) ==
  /\ At(c, "idle") /\ "DEV_MEM" \in Commands /\ active
  /\ Locks(c, Rd, {})
  /\ job' = [job EXCEPT ![c] = [Idle EXCEPT !.pc = "dev", !.ipa = i, !.left = n]]
  /\ UNCHANGED <<memory, active, rim>>

(* For an address that is none of the realm's, realm_ipa_to_pa leaves the  *)
(* result alone: the table to unlock is then what the stack still has of   *)
(* the round before, that of the last address.                             *)
DevMemBeyond(c) ==
  /\ At(c, "dev") /\ job[c].left > 0 /\ job[c].ipa \notin Ipas
  /\ Unlocks({Llt(job[c].ipa - 1)})
  /\ job' = [job EXCEPT ![c].left = @ - 1]
  /\ UNCHANGED <<memory, active, rim>>

DevMemRoot(c) ==
  /\ At(c, "dev") /\ job[c].left > 0 /\ job[c].ipa \in Ipas
  /\ Locks(c, Root, {}) /\ Go(c, "dev_walk")
  /\ UNCHANGED <<memory, active, rim>>

DevMemWalk(c) == At(c, "dev_walk") /\ Walk(c, job[c].ipa, "dev_entry")

(* realm_ipa_to_pa has released the table of a walk that failed; its       *)
(* caller releases it once more, and goes round with the same address.     *)
DevMemFails(c) ==
  /\ At(c, "dev_entry") /\ ~MapsPage(job[c].ipa)
  /\ Unlocks({Llt(job[c].ipa)}) /\ Go(c, "dev_unlock")
  /\ UNCHANGED <<memory, active, rim>>

DevMemUnlock(c) ==
  /\ At(c, "dev_unlock")
  /\ Unlocks({Llt(job[c].ipa)})
  /\ job' = [job EXCEPT ![c].pc = "dev", ![c].left = @ - 1]
  /\ UNCHANGED <<memory, active, rim>>

DevMemPage(c) ==
  LET j == job[c]
      p == leaf[j.ipa]
  IN /\ At(c, "dev_entry") /\ MapsPage(j.ipa)
     /\ Locks(c, p, {Llt(j.ipa)})
     /\ job' = [job EXCEPT ![c].pc = "dev", ![c].ipa = @ + 1, ![c].left = @ - 1,
                           ![c].found = @ \cup {p}]
     /\ UNCHANGED <<memory, active, rim>>

(* The pages found are the first of the array that is unlocked, since an   *)
(* address that has failed once fails again while the RD is locked.        *)
DevMemEnd(c) ==
  /\ At(c, "dev") /\ job[c].left = 0
  /\ Unlocks(job[c].found \cup {Rd}) /\ Return(c)
  /\ UNCHANGED <<memory, active, rim>>

-----------------------------------------------------------------------------
Call(c) ==
  \/ \E p \in Pages, i \in Ipas :
       \/ \E r \in Ranges : DataCreate(c, "device", p, i, r)
       \/ \E k \in {"data", "unknown"} : DataCreate(c, k, p, i, <<>>)
  \/ \E i \in Ipas : DataDestroy(c, i) \/ InitRipas(c, i)
  \/ RecCreate(c)
  \/ \E i \in Ipas, n \in 1 .. MaxSize : DevMem(c, i, n)
  \/ Activate(c)

Step(c) ==
  \/ DataCreateLock(c) \/ DataCreateRoot(c) \/ DataCreateWalk(c)
  \/ DataCreateFails(c) \/ DataCreateRead(c) \/ DataCreateMap(c)
  \/ RangeIsData(c) \/ CheckRd(c) \/ CheckRoot(c) \/ CheckWalk(c)
  \/ CheckFails(c) \/ CheckPasses(c) \/ AttachRead(c) \/ AttachExtend(c)
  \/ InitRipasRoot(c) \/ InitRipasWalk(c) \/ InitRipasFails(c)
  \/ InitRipasRead(c) \/ InitRipasExtend(c)
  \/ RecCreateFails(c) \/ RecCreateRead(c) \/ RecCreateExtend(c)
  \/ DataDestroyRoot(c) \/ DataDestroyWalk(c) \/ DataDestroyEntry(c) \/ DataDestroyPage(c)
  \/ DevMemBeyond(c) \/ DevMemRoot(c) \/ DevMemWalk(c) \/ DevMemFails(c)
  \/ DevMemUnlock(c) \/ DevMemPage(c) \/ DevMemEnd(c)

Next == \E c \in Cpus : Call(c) \/ Step(c)

Spec == Init /\ [][Next]_vars

-----------------------------------------------------------------------------
(* When CPUs are trying to enter their critical sections, at least one of  *)
(* them makes forward progress (docs/design/locking.rst): a command under  *)
(* way can go on, or the one it waits for can.                             *)
SomeoneMoves == (\E c \in Cpus : ~At(c, "idle")) => ENABLED (\E c \in Cpus : Step(c))

(* When one process is in a critical section that accesses shared          *)
(* resources, no other may be in one that accesses any of them             *)
(* (docs/design/locking.rst): two CPUs are never between taking the lock   *)
(* of the RD and releasing it, each for a command of its own. A device of  *)
(* two pages breaks it: CheckWalk releases the RD once more.               *)
InRdSection(c) ==
  \/ job[c].pc \in {"create_page", "create_root", "create_walk", "create", "create_map",
                    "rec", "rec_measure", "ripas_root", "destroy_root",
                    "dev", "dev_walk", "dev_entry", "dev_unlock"}
  \/ At(c, "check_root") /\ job[c].k = 1
MutualExclusion == \A c, d \in Cpus : InRdSection(c) /\ InRdSection(d) => c = d

(* Every member of struct rd but its state is accessed with the RD's lock  *)
(* held (lib/realm/include/realm.h): what a command has copied of the RIM  *)
(* is still the RIM when the command writes the hash of it, and no link    *)
(* that another command made meanwhile is lost. RTT_INIT_RIPAS breaks it.  *)
Measuring(c) == job[c].pc \in {"create_map", "attach_measure", "ripas_measure", "rec_measure"}
RimReadIsCurrent == \A c \in Cpus : Measuring(c) => job[c].rim = rim

(* Commands that measure under the RD's lock lose no link of one another:  *)
(* only RTT_INIT_RIPAS and an attach come between what they read and what  *)
(* they write, though they walk tables and wait for pages on their way.    *)
LostOnlyToUnlocked ==
  \A c \in Cpus : (At(c, "create_map") \/ At(c, "rec_measure")) =>
    rim = job[c].rim \/ (rim # <<>> /\ rim[Len(rim)] \in {"ripas", "attach"})

(* The RIM of a realm that is ACTIVE is that of its activation, but for    *)
(* commands that saw it NEW and gave up the RD's lock before they          *)
(* measured: contents and RECs are not measured any more.                  *)
SealedRim ==
  [][active /\ rim' # rim => rim'[Len(rim')] \in {"ripas", "attach"}]_vars

(* A page is DATA exactly while one address maps it or one DATA_DESTROY    *)
(* has still to give it back, whichever of a device's checks failed.       *)
PagesAccounted ==
  \A p \in Pages :
    Cardinality({i \in Ipas : leaf[i] = p})
      + Cardinality({c \in Cpus : At(c, "destroy_page") /\ job[c].page = p})
    = IF p \in data THEN 1 ELSE 0

=============================================================================
