------------------------------- MODULE Stage2 -------------------------------
(***************************************************************************)
(* The stage 2 translation tables of the realms, entry by entry, and the   *)
(* commands that change them (runtime/rmi/rtt.c, lib/realm/src/s2tt.c),    *)
(* with the MMU of a running realm reading and caching the same entries.   *)
(*                                                                         *)
(* A command locks the realm's RD, walks hand over hand to the table it    *)
(* changes and does its work under that table's lock.  A table on the way  *)
(* cannot be freed meanwhile, since an entry of it is live; so the walk    *)
(* and the checks are part of the command's first step, and the steps are  *)
(* the writes and invalidations the MMU can tell apart.  (RealmLifecycle   *)
(* has the walk lock by lock.)  A command that returns an error changes    *)
(* nothing, and is a stuttering step.                                      *)
(***************************************************************************)
EXTENDS Integers, FiniteSets, Sequences

CONSTANTS Cpus, Realms,
          None,         \* no table, realm, granule or entry: a model value
          NumGranules,  \* the granules given for tables and data
          E,            \* S2TTES_PER_S2TT
          StartLevel,   \* realm_rtt_starting_level
          NsPas,        \* the addresses the host maps as unprotected memory
          Commands,     \* the commands of the host and the realms of this instance
          MaxCached,    \* bound: the entries the MMUs have cached at a time
          Asserts       \* a Debug build: a failed assertion stops the CPU

AllCommands == {"RTT_CREATE", "RTT_FOLD", "RTT_DESTROY", "RTT_READ_ENTRY",
                "MAP_UNPROTECTED", "DATA_CREATE", "INIT_RIPAS", "SET_RIPAS"}

ASSUME Stage2Assumption ==
  /\ Commands \subseteq AllCommands
  /\ NumGranules \in Nat /\ E \in Nat \ {0, 1} /\ StartLevel \in 0 .. 2
  /\ NsPas \subseteq Nat /\ MaxCached \in Nat /\ Asserts \in BOOLEAN
  /\ None \notin Cpus \cup Realms \cup Nat /\ Realms \cap Nat = {}
ASSUME EvenAssumption == E % 2 = 0   \* 512: no entry maps pages of both halves

RTT_PAGE_LEVEL == 3
RTT_MIN_BLOCK_LEVEL == 2
Levels   == StartLevel .. RTT_PAGE_LEVEL
Granules == 0 .. NumGranules - 1
Tables   == Granules \cup Realms    \* a realm names its own root table
Slots    == 0 .. E - 1

(* Addresses count pages: what one entry at level l maps (s2tte_map_size), *)
(* the part of an address above it, and the index of its entry.            *)
Pages(l)      == <<E * E * E, E * E, E, 1>>[l + 1]
Align(a, l)   == a - (a % Pages(l))
Aligned(a, l) == a % Pages(l) = 0
Index(i, l)   == (i \div Pages(l)) % E
Block(a, l)   == Align(a, l) .. Align(a, l) + Pages(l) - 1

NumIpas  == E * Pages(StartLevel)
Ipas     == 0 .. NumIpas - 1
InPar(i) == 2 * i < NumIpas          \* addr_in_par: the lower half
Ripas    == {"EMPTY", "RAM"}

VARIABLES gstate,  \* the state of each granule
          tbl,     \* the entries of each table
          refs,    \* the reference count of each table
          tlb,     \* the entries that some MMU has cached
          active,  \* the realms that are no longer REALM_STATE_NEW
          req,     \* each realm's pending rec->set_ripas
          f        \* each CPU's command in progress

vars == <<gstate, tbl, refs, tlb, active, req, f>>

---------------------------------------------------------------------------
(* Entries.  The HIPAS and RIPAS bits mean something in an invalid         *)
(* descriptor only; in a valid one the RIPAS bit is S2AP[0], which is set. *)
S2TTE_Lx_INVALID == 0
S2TTE_L012_BLOCK == 1
S2TTE_L012_TABLE == 3
S2TTE_L3_PAGE    == 3
S2TTE_ATTRS      == 4    \* the attributes, all above DESC_TYPE_MASK
S2TTE_BLOCK      == S2TTE_ATTRS + S2TTE_L012_BLOCK

Entries == [desc : {S2TTE_Lx_INVALID, S2TTE_L012_BLOCK, S2TTE_L3_PAGE},
            hipas : {"UNASSIGNED", "ASSIGNED", "DESTROYED", "NONE"}, ripas : Ripas,
            ns : BOOLEAN, pa : Granules \cup NsPas \cup {None}]
ASSUME NoneAssumption == None \notin Entries

Invalid(h, s, pa) == [desc |-> S2TTE_Lx_INVALID, hipas |-> h, ripas |-> s,
                      ns |-> FALSE, pa |-> pa]
Mapping(d, ns, pa) == [desc |-> d, hipas |-> "NONE", ripas |-> "RAM",
                       ns |-> ns, pa |-> pa]
LeafDesc(l) == IF l = RTT_PAGE_LEVEL THEN S2TTE_L3_PAGE ELSE S2TTE_L012_BLOCK

CreateUnassigned(s)    == Invalid("UNASSIGNED", s, None)
CreateInvalidNs        == CreateUnassigned("EMPTY")        \* both are 0
CreateDestroyed        == Invalid("DESTROYED", "EMPTY", None)
CreateAssignedEmpty(p) == Invalid("ASSIGNED", "EMPTY", p)
CreateValid(p, l)      == Mapping(LeafDesc(l), FALSE, p)
CreateValidNs(p, l)    == Mapping(LeafDesc(l), TRUE, p)
CreateTable(g)         == Mapping(S2TTE_L012_TABLE, FALSE, g)

HasHipas(e, h)  == e.desc = S2TTE_Lx_INVALID /\ e.hipas = h
IsUnassigned(e) == HasHipas(e, "UNASSIGNED")
IsDestroyed(e)  == HasHipas(e, "DESTROYED")
IsAssigned(e)   == HasHipas(e, "ASSIGNED")
IsTable(e, l)   == l < RTT_PAGE_LEVEL /\ e.desc = S2TTE_L012_TABLE

(* s2tte_check compares the descriptor type with S2TTE_BLOCK, attributes   *)
(* included, at level 2.                                                   *)
Check(e, l, ns) ==
  /\ e.ns = ns
  /\ \/ l = RTT_PAGE_LEVEL /\ e.desc = S2TTE_L3_PAGE
     \/ l = RTT_MIN_BLOCK_LEVEL /\ e.desc = S2TTE_BLOCK
IsValid(e, l)   == Check(e, l, FALSE)
IsValidNs(e, l) == Check(e, l, TRUE)

Recognised(e, l) == \/ IsUnassigned(e) \/ IsDestroyed(e) \/ IsAssigned(e)
                    \/ IsValid(e, l) \/ IsValidNs(e, l) \/ IsTable(e, l)

(* What a table looks like below an entry e at level l - 1: s2tt_init_* *)
ZeroEntry  == CreateUnassigned("EMPTY")
ZeroTable  == [k \in Slots |-> ZeroEntry]
Uniform(e) == [k \in Slots |-> e]
Consecutive(e, l) ==
  [k \in Slots |-> [e EXCEPT !.pa = Align(e.pa, l - 1) + k * Pages(l)]]

UnfoldedToZero(e, l) == ZeroTable
Unfolded(e, l) ==
  CASE IsUnassigned(e)     -> Uniform(CreateUnassigned(e.ripas))
    [] IsDestroyed(e)      -> Uniform(CreateDestroyed)
    [] IsAssigned(e)       -> Consecutive(CreateAssignedEmpty(e.pa), l)
    [] IsValid(e, l - 1)   -> Consecutive(CreateValid(e.pa, l), l)
    [] IsValidNs(e, l - 1) -> Consecutive(CreateValidNs(e.pa, l), l)
    [] OTHER               -> ZeroTable

(* table_is_*_block and table_maps_*_block, of a table at level l *)
MapsBlock(tb, l, kind) ==
  /\ kind = Slots
  /\ \A k \in Slots : Align(tb[k].pa, l) = Align(tb[0].pa, l) + k * Pages(l)
  /\ Aligned(Align(tb[0].pa, l), l - 1)
MapsAssigned(tb, l) == MapsBlock(tb, l, {k \in Slots : IsAssigned(tb[k])})
MapsValid(tb, l)    == MapsBlock(tb, l, {k \in Slots : IsValid(tb[k], l)})
MapsValidNs(tb, l)  == MapsBlock(tb, l, {k \in Slots : IsValidNs(tb[k], l)})

IsUniform(tb) ==
  \/ \A k \in Slots : IsDestroyed(tb[k])
  \/ \A k \in Slots : IsUnassigned(tb[k]) /\ tb[k].ripas = tb[0].ripas

(* The entry that takes the place of table tb, to which e points.  The     *)
(* last branch is the one that "should not happen".                        *)
Folded(tb, e, l) ==
  CASE IsUniform(tb)       -> tb[0]
    [] MapsAssigned(tb, l) -> CreateAssignedEmpty(Align(tb[0].pa, l - 1))
    [] MapsValid(tb, l)    -> CreateValid(Align(tb[0].pa, l - 1), l - 1)
    [] MapsValidNs(tb, l)  -> CreateValidNs(Align(tb[0].pa, l - 1), l - 1)
    [] OTHER               -> e

---------------------------------------------------------------------------
IdleFrame == [pc |-> "idle", r |-> None, rd |-> None, llt |-> None, idx |-> 0,
              sub |-> None, old |-> None, new |-> None, span |-> {},
              then |-> "idle", gs |-> "none"]

Idle(c)       == f[c].pc = "idle"
Become(c, nf) == f' = [f EXCEPT ![c] = nf]
Return(c)     == Become(c, IdleFrame)

(* The locks the commands in progress hold: the table they change, the     *)
(* table or data granule below it, and for RTT_SET_RIPAS the RD and REC.   *)
Free(t)   == \A c \in Cpus : t \notin {f[c].llt, f[c].sub}
RdFree(r) == \A c \in Cpus : f[c].rd # r

(* t's entry for page i at level l *)
At(t, i, l) == tbl[t][Index(i, l)]

(* The table at level l on the way to page i of realm r, or None when the *)
(* walk ends before (rtt_walk_lock_unlock: last_level # l).                *)
TableAt(r, i) ==
  LET T[l \in Levels] ==
        IF l = StartLevel THEN r
        ELSE LET t == T[l - 1]
             IN  IF t # None /\ IsTable(At(t, i, l - 1), l - 1) THEN At(t, i, l - 1).pa
                 ELSE None
  IN  T

Init ==
  /\ gstate = [g \in Granules |-> "DELEGATED"]
  /\ tbl    = [t \in Tables |-> ZeroTable]
  /\ refs   = [t \in Tables |-> 0]
  /\ tlb    = {}
  /\ active = {}
  /\ req    = [r \in Realms |-> [addr |-> 0, end |-> 0, ripas |-> "EMPTY"]]
  /\ f      = [c \in Cpus |-> IdleFrame]

---------------------------------------------------------------------------
(* Break before make: c has written 0 to the entry of page i at level l of *)
(* table t; the pages in span are to be invalidated; then the entry        *)
(* becomes new, and table g below it gets the state gs.                    *)
Breaks(c, r, t, i, l, g, new, span, gs) ==
  Become(c, [IdleFrame EXCEPT !.pc = "tlbi", !.then = "make", !.r = r, !.llt = t,
                              !.idx = Index(i, l), !.sub = g, !.old = At(t, i, l),
                              !.new = new, !.span = span, !.gs = gs])

(* An assertion failed: the CPU spins in __assert_func, its locks held. *)
Stops(c, t, g) ==
  Become(c, [IdleFrame EXCEPT !.pc = "stuck", !.llt = t, !.sub = g])

(* The granule found by find_lock_granule in the state DELEGATED *)
TakeAny(g) == Free(g)
Takable(g) == gstate[g] = "DELEGATED" /\ Free(g)

(* RMI_RTT_CREATE: g becomes the table at level l for page i, below the    *)
(* entry e of its parent t, which gains a reference unless it maps a block *)
(* whose parts the new table now counts.                                   *)
ReferencedNot(t, g, e)   == refs
ReferencedAbove(t, g, e) == [refs EXCEPT ![t] = refs[t] + 1]
Referenced(t, g, e) ==
  IF IsUnassigned(e) \/ IsDestroyed(e)
  THEN [refs EXCEPT ![t] = refs[t] + 1]
  ELSE [refs EXCEPT ![g] = refs[g] + E]

RttCreate(c, r, i, l, g) ==
  LET t == TableAt(r, i)[l - 1]
      e == At(t, i, l - 1)
      breaks == IsValid(e, l - 1) \/ IsValidNs(e, l - 1)
  IN  /\ t # None /\ Free(t)
      /\ Takable(g)
      /\ ~IsTable(e, l - 1)
      /\ Asserts => Recognised(e, l - 1)
      /\ refs' = IF Recognised(e, l - 1) THEN Referenced(t, g, e) ELSE refs
      /\ tbl' = [tbl EXCEPT ![g] = Unfolded(e, l),
                            ![t][Index(i, l - 1)] = IF breaks THEN ZeroEntry
                                                    ELSE CreateTable(g)]
      /\ IF breaks
         THEN /\ Breaks(c, r, t, i, l - 1, g, CreateTable(g), {i}, "RTT")
              /\ UNCHANGED gstate
         ELSE /\ gstate' = [gstate EXCEPT ![g] = "RTT"]
              /\ UNCHANGED f
      /\ UNCHANGED <<tlb, active, req>>

RttCreateAsserts(c, r, i, l, g) ==
  LET t == TableAt(r, i)[l - 1]
  IN  /\ Asserts /\ t # None /\ Free(t)
      /\ Takable(g)
      /\ ~Recognised(At(t, i, l - 1), l - 1)
      /\ Stops(c, t, g)
      /\ UNCHANGED <<gstate, tbl, refs, tlb, active, req>>

(* RMI_RTT_FOLD: the table at level l for page i goes, when its entries    *)
(* are all of one kind with no reference, or are all live.                 *)
Foldable(g, l) == \/ refs[g] = 0 /\ IsUniform(tbl[g])
                  \/ refs[g] = E /\ l > RTT_MIN_BLOCK_LEVEL

(* s2tte_pa asserts that the first entry is no table at the level above,   *)
(* where a table's descriptor is a page's; the last assertion is that of   *)
(* the case that "should not happen".                                      *)
FoldFails(g, l) ==
  /\ refs[g] = E
  /\ \/ IsTable(tbl[g][0], l - 1)
     \/ ~(MapsAssigned(tbl[g], l) \/ MapsValid(tbl[g], l) \/ MapsValidNs(tbl[g], l))

FoldSpan(e, i, l) ==
  IF IsValid(e, l - 1) \/ IsValidNs(e, l - 1) THEN i .. i + Pages(l - 1) - 1 ELSE {i}

RttFold(c, r, i, l) ==
  LET t == TableAt(r, i)[l - 1]
      g == TableAt(r, i)[l]
  IN  /\ g # None /\ Free(t) /\ Free(g) /\ gstate[g] = "RTT"
      /\ Foldable(g, l)
      /\ Asserts => ~FoldFails(g, l)
      /\ refs' = IF refs[g] = 0 THEN [refs EXCEPT ![t] = refs[t] - 1]
                 ELSE [refs EXCEPT ![g] = refs[g] - E]
      /\ tbl' = [tbl EXCEPT ![t][Index(i, l - 1)] = ZeroEntry]
      /\ LET new == Folded(tbl[g], At(t, i, l - 1), l)
         IN  Breaks(c, r, t, i, l - 1, g, new, FoldSpan(new, i, l), "DELEGATED")
      /\ UNCHANGED <<gstate, tlb, active, req>>

RttFoldAsserts(c, r, i, l) ==
  LET t == TableAt(r, i)[l - 1]
      g == TableAt(r, i)[l]
  IN  /\ Asserts /\ g # None /\ Free(t) /\ Free(g)
      /\ Foldable(g, l) /\ FoldFails(g, l)
      /\ Stops(c, t, g)
      /\ UNCHANGED <<gstate, tbl, refs, tlb, active, req>>

(* RMI_RTT_DESTROY: the table at level l for page i goes, unless it is in *)
(* use; in the protected half its pages are DESTROYED.                    *)
UnusedOrNot(g) == TRUE
Unused(g)      == refs[g] = 0

RttDestroy(c, r, i, l) ==
  LET t == TableAt(r, i)[l - 1]
      g == TableAt(r, i)[l]
      new == IF InPar(i) THEN CreateDestroyed ELSE CreateInvalidNs
  IN  /\ g # None /\ Free(t) /\ Free(g) /\ gstate[g] = "RTT"
      /\ Unused(g)
      /\ refs' = [refs EXCEPT ![t] = refs[t] - 1]
      /\ tbl' = [tbl EXCEPT ![t][Index(i, l - 1)] = ZeroEntry]
      /\ Breaks(c, r, t, i, l - 1, g, new, {i}, "DELEGATED")
      /\ UNCHANGED <<gstate, tlb, active, req>>

(* The invalidation completes on every CPU (dsb). *)
Covers(x, i) == i \in Block(x.ipa, x.lvl)
InvalidatedNothing(r, span) == {}
Invalidated(r, span) == {x \in tlb : x.r = r /\ \E i \in span : Covers(x, i)}

Tlbi(c) ==
  /\ f[c].pc = "tlbi"
  /\ tlb' = tlb \ Invalidated(f[c].r, f[c].span)
  /\ IF f[c].then = "idle" THEN Return(c) ELSE Become(c, [f[c] EXCEPT !.pc = f[c].then])
  /\ UNCHANGED <<gstate, tbl, refs, active, req>>

(* The new entry is written; the table that is given back is zeroed. *)
Make(c) ==
  LET fr == f[c]
  IN  /\ fr.pc = "make" /\ Return(c)
      /\ tbl' = [tbl EXCEPT ![fr.llt][fr.idx] = fr.new,
                            ![fr.sub] = IF fr.gs = "DELEGATED" THEN ZeroTable
                                        ELSE tbl[fr.sub]]
      /\ gstate' = [gstate EXCEPT ![fr.sub] = fr.gs]
      /\ UNCHANGED <<refs, tlb, active, req>>

---------------------------------------------------------------------------
(* RMI_RTT_MAP_UNPROTECTED and RMI_RTT_UNMAP_UNPROTECTED.  No reference is *)
(* taken on what the host maps: it may be any address.                     *)
MapNs(r, i, l, pa) ==
  LET t == TableAt(r, i)[l]
  IN  /\ ~InPar(i) /\ t # None /\ Free(t)
      /\ IsUnassigned(At(t, i, l))
      /\ tbl' = [tbl EXCEPT ![t][Index(i, l)] = CreateValidNs(pa, l)]
      /\ refs' = [refs EXCEPT ![t] = refs[t] + 1]
      /\ UNCHANGED <<gstate, tlb, active, req, f>>

UnmapNs(c, r, i, l) ==
  LET t == TableAt(r, i)[l]
  IN  /\ t # None /\ Free(t)
      /\ IsValidNs(At(t, i, l), l)
      /\ tbl' = [tbl EXCEPT ![t][Index(i, l)] = CreateInvalidNs]
      /\ refs' = [refs EXCEPT ![t] = refs[t] - 1]
      /\ Become(c, [IdleFrame EXCEPT !.pc = "tlbi", !.r = r, !.llt = t, !.span = {i}])
      /\ UNCHANGED <<gstate, tlb, active, req>>

(* RMI_RTT_READ_ENTRY changes nothing, but it asserts that it knows the    *)
(* entry at which the walk to level l ends.                                *)
ReadEntryAsserts(c, r, i, l) ==
  LET t == TableAt(r, i)[l]
  IN  /\ Asserts /\ t # None /\ Free(t)
      /\ ~Recognised(At(t, i, l), l)
      /\ Stops(c, t, None)
      /\ UNCHANGED <<gstate, tbl, refs, tlb, active, req>>

(* RMI_DATA_CREATE (of a realm that is NEW) and RMI_DATA_CREATE_UNKNOWN,   *)
(* with the RD locked throughout                                           *)
DataCreate(r, i, g) ==
  LET l == RTT_PAGE_LEVEL
      t == TableAt(r, i)[l]
      e == At(t, i, l)
  IN  /\ InPar(i) /\ t # None /\ Free(t) /\ RdFree(r) /\ Takable(g)
      /\ IsUnassigned(e)
      /\ tbl' = [tbl EXCEPT ![t][Index(i, l)] = IF e.ripas = "EMPTY" THEN CreateAssignedEmpty(g)
                                                ELSE CreateValid(g, l)]
      /\ refs' = [refs EXCEPT ![t] = refs[t] + 1]
      /\ gstate' = [gstate EXCEPT ![g] = "DATA"]
      /\ UNCHANGED <<tlb, active, req, f>>

(* RMI_DATA_DESTROY: change the entry, invalidate it if it was valid, then *)
(* zero the granule and give it back.                                      *)
DestroyAtOnce(e)    == "free"
DestroyContinues(e) == IF IsValid(e, RTT_PAGE_LEVEL) THEN "tlbi" ELSE "free"

DataDestroy(c, r, i) ==
  LET l == RTT_PAGE_LEVEL
      t == TableAt(r, i)[l]
      e == At(t, i, l)
  IN  /\ t # None /\ Free(t)
      /\ IsValid(e, l) \/ IsAssigned(e)
      /\ tbl' = [tbl EXCEPT ![t][Index(i, l)] = IF IsValid(e, l) THEN CreateDestroyed
                                                ELSE CreateUnassigned("EMPTY")]
      /\ Become(c, [IdleFrame EXCEPT !.pc = DestroyContinues(e),
                                     !.then = "free", !.r = r, !.llt = t, !.sub = e.pa,
                                     !.span = {i}])
      /\ UNCHANGED <<gstate, refs, tlb, active, req>>

DataFree(c) ==
  /\ f[c].pc = "free" /\ Return(c)
  /\ refs'   = [refs EXCEPT ![f[c].llt] = refs[f[c].llt] - 1]
  /\ gstate' = [gstate EXCEPT ![f[c].sub] = "DELEGATED"]
  /\ UNCHANGED <<tbl, tlb, active, req>>

---------------------------------------------------------------------------
(* RMI_RTT_INIT_RIPAS finds the realm NEW under the RD's lock, which it    *)
(* gives up before it walks on and writes the entry.                       *)
SetRam(e) == [e EXCEPT !.ripas = "RAM"]

InitRipas(c, r) ==
  /\ r \notin active /\ RdFree(r)
  /\ Become(c, [IdleFrame EXCEPT !.pc = "ripas", !.r = r])
  /\ UNCHANGED <<gstate, tbl, refs, tlb, active, req>>

InitRipasWrite(c, i, l) ==
  LET t == TableAt(f[c].r, i)[l]
  IN  /\ f[c].pc = "ripas" /\ InPar(i) /\ t # None /\ Free(t)
      /\ IsUnassigned(At(t, i, l))
      /\ tbl' = [tbl EXCEPT ![t][Index(i, l)] = SetRam(At(t, i, l))]
      /\ Return(c)
      /\ UNCHANGED <<gstate, refs, tlb, active, req>>

InitRipasFails(c) ==
  /\ f[c].pc = "ripas" /\ Return(c)
  /\ UNCHANGED <<gstate, tbl, refs, tlb, active, req>>

(* update_ripas: a valid entry becomes invalid when its memory becomes     *)
(* EMPTY; in an invalid one the RIPAS bit is or'ed.                        *)
Updatable(e, l) == ~IsTable(e, l) /\ (IsValid(e, l) \/ IsUnassigned(e) \/ IsAssigned(e))
Updated(e, l, s) ==
  CASE IsValid(e, l) /\ s = "EMPTY"  -> CreateAssignedEmpty(e.pa)
    [] ~IsValid(e, l) /\ s = "RAM"   -> SetRam(e)
    [] OTHER                         -> e

(* RMI_RTT_SET_RIPAS: the next part of the region the realm's REC asked    *)
(* for, with the RD and the REC locked throughout.                         *)
SetRipas(c, r, l) ==
  LET i == req[r].addr
      s == req[r].ripas
      t == TableAt(r, i)[l]
      e == At(t, i, l)
  IN  /\ RdFree(r) /\ Aligned(i, l) /\ i + Pages(l) <= req[r].end
      /\ t # None /\ Free(t) /\ Updatable(e, l)
      /\ tbl' = [tbl EXCEPT ![t][Index(i, l)] = Updated(e, l, s)]
      /\ req' = [req EXCEPT ![r].addr = i + Pages(l)]
      /\ IF IsValid(e, l) /\ s = "EMPTY"
         THEN Become(c, [IdleFrame EXCEPT !.pc = "tlbi", !.r = r, !.rd = r, !.llt = t,
                                          !.span = {i}])
         ELSE UNCHANGED f
      /\ UNCHANGED <<gstate, refs, tlb, active>>

---------------------------------------------------------------------------
(* RMI_REALM_ACTIVATE *)
Activate(r) ==
  /\ r \notin active /\ RdFree(r)
  /\ active' = active \cup {r}
  /\ UNCHANGED <<gstate, tbl, refs, tlb, req, f>>

(* RSI_IPA_STATE_SET: the REC asks for pages a .. b - 1 to be s and exits; *)
(* at its next entry complete_set_ripas ends the request.  (It keeps addr   *)
(* and ripas, which nothing reads before the next request sets them.)      *)
RealmAsks(r, a, b, s) ==
  /\ r \in active /\ req[r].end = 0
  /\ req' = [req EXCEPT ![r] = [addr |-> a, end |-> b, ripas |-> s]]
  /\ UNCHANGED <<gstate, tbl, refs, tlb, active, f>>

RealmResumes(r) ==
  /\ req[r].end # 0 /\ RdFree(r)
  /\ req' = [req EXCEPT ![r] = [addr |-> 0, end |-> 0, ripas |-> "EMPTY"]]
  /\ UNCHANGED <<gstate, tbl, refs, tlb, active, f>>

(* The MMU of a CPU in the realm reads an entry for page i, in a table it  *)
(* reaches from the root or by an entry it has cached, and caches it.      *)
MmuReaches(r, i) ==
  {p \in {[t |-> TableAt(r, i)[l], lvl |-> l] : l \in Levels} : p.t # None}
    \cup {[t |-> x.e.pa, lvl |-> x.lvl + 1] :
            x \in {y \in tlb : y.r = r /\ Covers(y, i) /\ IsTable(y.e, y.lvl)}}

MmuReads(r, i) ==
  /\ r \in active /\ Cardinality(tlb) < MaxCached
  /\ \E p \in MmuReaches(r, i) :
       LET e == At(p.t, i, p.lvl)
       IN  /\ e.desc # S2TTE_Lx_INVALID
           /\ tlb' = tlb \cup {[r |-> r, lvl |-> p.lvl, ipa |-> Align(i, p.lvl), e |-> e]}
  /\ UNCHANGED <<gstate, tbl, refs, active, req, f>>

---------------------------------------------------------------------------
(* The addresses a command takes for level l: validate_map_addr *)
Addresses(l) == {i \in Ipas : Aligned(i, l)}
TableLevels  == StartLevel + 1 .. RTT_PAGE_LEVEL
MapLevels    == {l \in Levels : l >= RTT_MIN_BLOCK_LEVEL}

TableCommand(c, r) ==
  \E l \in TableLevels, i \in Ipas :
    /\ i \in Addresses(l)
    /\ \/ /\ "RTT_CREATE" \in Commands
          /\ \E g \in Granules : RttCreate(c, r, i, l, g) \/ RttCreateAsserts(c, r, i, l, g)
       \/ "RTT_FOLD" \in Commands /\ (RttFold(c, r, i, l) \/ RttFoldAsserts(c, r, i, l))
       \/ "RTT_DESTROY" \in Commands /\ RttDestroy(c, r, i, l)

EntryCommand(c, r) ==
  \E l \in Levels : \E i \in Addresses(l) :
    \/ /\ "MAP_UNPROTECTED" \in Commands /\ l \in MapLevels
       /\ \/ \E pa \in NsPas : Aligned(pa, l) /\ MapNs(r, i, l, pa)
          \/ UnmapNs(c, r, i, l)
    \/ "RTT_READ_ENTRY" \in Commands /\ ReadEntryAsserts(c, r, i, l)

PageCommand(c, r) ==
  /\ "DATA_CREATE" \in Commands
  /\ \E i \in Ipas : DataDestroy(c, r, i) \/ \E g \in Granules : DataCreate(r, i, g)

Work(c) ==
  \/ Tlbi(c) \/ Make(c) \/ DataFree(c) \/ InitRipasFails(c)
  \/ \E l \in Levels : \E i \in Addresses(l) : InitRipasWrite(c, i, l)

Realm(r) ==
  \/ \E i \in Ipas : MmuReads(r, i)
  \/ RealmResumes(r)
  \/ \E a, b \in Ipas, s \in Ripas : 
       "SET_RIPAS" \in Commands /\ a <= b /\ InPar(b) /\ RealmAsks(r, a, b + 1, s)

Next ==
  \/ \E c \in Cpus : Work(c)
  \/ \E c \in Cpus, r \in Realms :
       /\ Idle(c)
       /\ \/ TableCommand(c, r) \/ EntryCommand(c, r) \/ PageCommand(c, r)
          \/ "INIT_RIPAS" \in Commands /\ InitRipas(c, r)
          \/ \E l \in Levels : SetRipas(c, r, l)
  \/ \E r \in Realms : Activate(r) \/ Realm(r)

Spec == Init /\ [][Next]_vars

---------------------------------------------------------------------------
(* A reference count never wraps, and an entry is one the code creates. *)
TypeOK ==
  /\ gstate \in [Granules -> {"DELEGATED", "RTT", "DATA"}]
  /\ tbl \in [Tables -> [Slots -> Entries]]
  /\ refs \in [Tables -> 0 .. E]
  /\ active \subseteq Realms
  /\ \A r \in Realms : req[r].addr \in 0 .. req[r].end
  /\ \A c \in Cpus : f[c].pc \in {"idle", "tlbi", "make", "free", "ripas", "stuck"}

(* The tables as they are but for breaks before makes in progress *)
Breaking(c, t, k) == f[c].then = "make" /\ f[c].llt = t /\ f[c].idx = k
Entry(t, k) ==
  IF \E c \in Cpus : Breaking(c, t, k)
  THEN f[CHOOSE c \in Cpus : Breaking(c, t, k)].old
  ELSE tbl[t][k]

(* The entry for page i at level l, None when the walk ends before *)
EntryAt(r, i) ==
  LET W[l \in Levels] ==
        IF l = StartLevel THEN Entry(r, Index(i, l))
        ELSE LET e == W[l - 1]
             IN  IF e # None /\ IsTable(e, l - 1) THEN Entry(e.pa, Index(i, l)) ELSE None
  IN  W

(* The entry that decides page i, with its level *)
Leaf(r, i) ==
  LET W == EntryAt(r, i)
  IN  CHOOSE x \in {[lvl |-> l, e |-> W[l]] : l \in Levels} : x.e # None /\ ~IsTable(x.e, x.lvl)

(* The granule that realm memory at page i of realm r is in *)
HasMemory(r, i) == LET e == Leaf(r, i).e IN ~e.ns /\ e.pa # None
MemoryAt(r, i)  == LET x == Leaf(r, i) IN x.e.pa + (i - Align(i, x.lvl))

---------------------------------------------------------------------------
(* A table that no command is changing has one reference for each of its   *)
(* entries that points to a table, to memory, or to what the host mapped.  *)
(* RTT_DESTROY, RTT_FOLD and REALM_DESTROY give tables back by this count. *)
Live(e) == e.desc # S2TTE_Lx_INVALID \/ IsAssigned(e)
RefcountIsLive ==
  \A t \in Tables : Free(t) => refs[t] = Cardinality({k \in Slots : Live(tbl[t][k])})

(* rtt.c: "A table descriptor S2TTE always points to a TABLE granule", and *)
(* no two of them to the same one.                                         *)
PointsTo(r, i, l, t) ==
  LET e == EntryAt(r, i)[l]
  IN  Aligned(i, l) /\ e # None /\ IsTable(e, l) /\ e.pa = t
Spots(t) == {s \in Realms \X Ipas \X Levels : PointsTo(s[1], s[2], s[3], t)}
TableEntriesPointToTables ==
  \A g \in Granules : /\ gstate[g] # "RTT" => Spots(g) = {}
                      /\ gstate[g] = "RTT" => Cardinality(Spots(g)) = 1

(* Memory is at one page of one realm, in its protected half; a granule    *)
(* that is at none is not DATA, unless DATA_DESTROY is about to free it.   *)
DataMappedOnce ==
  /\ \A r \in Realms, i \in Ipas : HasMemory(r, i) =>
       /\ InPar(i) /\ gstate[MemoryAt(r, i)] = "DATA"
       /\ \A q \in Realms, j \in Ipas :
            <<q, j>> # <<r, i>> /\ HasMemory(q, j) => MemoryAt(q, j) # MemoryAt(r, i)
  /\ \A g \in Granules : gstate[g] = "DATA" =>
       \/ \E r \in Realms, i \in Ipas : HasMemory(r, i) /\ MemoryAt(r, i) = g
       \/ \E c \in Cpus : f[c].pc \in {"tlbi", "free"} /\ f[c].sub = g

(* Whatever an MMU has cached leads to memory and to tables that are still *)
(* the realm's: a granule is given back only after the last translation to *)
(* it is gone.                                                             *)
TlbReachesOwn ==
  \A x \in tlb :
    IF IsTable(x.e, x.lvl) THEN gstate[x.e.pa] = "RTT"
    ELSE x.e.ns \/ \A g \in x.e.pa .. x.e.pa + (Pages(x.lvl) - 1) : gstate[g] = "DATA"

(* What an MMU has cached is what the tables say, unless a command is      *)
(* about to invalidate it.                                                 *)
TlbCoherent ==
  \A x \in tlb :
    \/ x.e = EntryAt(x.r, x.ipa)[x.lvl]
    \/ \E c \in Cpus : f[c].pc = "tlbi" /\ f[c].r = x.r /\ \E i \in f[c].span : Covers(x, i)

(* s2tt.c: "Returns true if @s2tte is a page or block s2tte, and NS=1", and *)
(* the same of NS=0: a valid entry is one of the kinds the commands know.  *)
EntriesRecognised ==
  \A r \in Realms, i \in Ipas : Recognised(Leaf(r, i).e, Leaf(r, i).lvl)

---------------------------------------------------------------------------
(* The state of page i of realm r as RTT_READ_ENTRY and the MMU see it *)
PageState(r, i) ==
  LET x == Leaf(r, i)
      e == x.e
  IN  [hipas  |-> CASE e.desc = S2TTE_Lx_INVALID -> e.hipas
                    [] e.ns -> "VALID_NS" [] OTHER -> "ASSIGNED",
       ripas  |-> IF e.ns \/ IsAssigned(e) THEN "EMPTY" ELSE e.ripas,
       memory |-> IF e.ns \/ e.pa = None THEN {} ELSE {e.pa + (i - Align(i, x.lvl))}]

Settled(r) == r \in active /\ \A c \in Cpus : ~(f[c].pc = "ripas" /\ f[c].r = r)

Space == INSTANCE IpaSpace WITH
  Protected <- {i \in Ipas : InPar(i)},
  Regions   <- {Block(i, l) : i \in Ipas, l \in Levels},
  page      <- [r \in Realms |-> [i \in Ipas |-> PageState(r, i)]],
  sealed    <- {r \in Realms : Settled(r)},
  asked     <- [r \in Realms |-> [pages |-> req[r].addr .. req[r].end - 1,
                                  ripas |-> req[r].ripas]]

(* The tables implement the IPA space: every step of a command is a step   *)
(* of IpaSpace, or changes nothing there.  In particular the intermediate  *)
(* states of a break before make, RTT_CREATE and RTT_FOLD cannot be told   *)
(* apart by a realm, save for the aborts it takes meanwhile.               *)
ImplementsIpaSpace == Space!Spec

=============================================================================
