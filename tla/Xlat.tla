-------------------------------- MODULE Xlat --------------------------------
(***************************************************************************)
(* The monitor's own translation tables (lib/xlat) and the slot buffers    *)
(* made of them (lib/realm/src/buffer.c).  A behaviour follows one context *)
(* of the library: the runtime's, low in the address space, whose tables   *)
(* all CPUs share, or the slot buffers', high, whose regions are shared    *)
(* and whose tables each CPU has for itself.  Addresses are page numbers.  *)
(***************************************************************************)
EXTENDS Integers, FiniteSets, SequencesExt

CONSTANTS Cpus, Primary,  \* the CPU of the cold boot
          Entries,        \* bound: XLAT_TABLE_ENTRIES
          Top,            \* bound: the first page number that is not one
          Low,            \* the pages below Low have no bit of HIGH_REGION_MASK
          MaxPa,          \* xlat_arch_get_max_supported_pa
          Spaces,         \* the contexts: region, size, mmap_num, tables_num
          Regions,        \* bound: the regions that get added, per context's region
          NumSlots,       \* NR_CPU_SLOTS
          SlotPages,      \* bound: the pages slots are mapped to
          Asserts,        \* a Debug build; assertions of a Release build are empty
          Beyond          \* bound: the words, all alike, that lie past the tables

(* A power of two, since TxSZ can say no other size. *)
RoundedSlots == CHOOSE n \in {2 ^ k : k \in 0 .. 20} : NumSlots <= n /\ n < 2 * NumSlots

ASSUME XlatAssumption ==
  /\ Primary \in Cpus
  /\ Entries \in Nat \ {0, 1} /\ Top \in Nat /\ Low \in 0 .. Top /\ MaxPa \in Nat
  /\ NumSlots \in Nat \ {0, 1} /\ SlotPages \subseteq Nat
  /\ Asserts \in BOOLEAN /\ Beyond # {}
  /\ \A s \in Spaces : s.region = "high" => s.size = RoundedSlots /\ s.size <= Entries

VARIABLES space,   \* which context this is
          cfg,     \* struct xlat_ctx_cfg: mmap, max_mapped_va_offset, initialized
          tbls,    \* struct xlat_ctx_tbls of each CPU: tables (0 the base table), next_table
          te,      \* te_cache
          pc,      \* where a CPU is: Off, MmuOn, Ready, or the slot it is unmapping
          tlb,     \* what each CPU's TLB holds of the slots
          halted   \* "no", or what stopped the boot: "boot", an error; "panic", "assert"

xlatVars == <<space, cfg, tbls, te, pc, tlb, halted>>

(***************************************************************************)
(* Levels, blocks, descriptors                                             *)
(***************************************************************************)
MaxLevel == 3
INVALID  == 0
BLOCK    == 1
TABLE    == 3   \* and, at level 3, a page

Off   == -3
MmuOn == -2
Ready == -1

Block(level) == Entries ^ (MaxLevel - level)

BaseLevel(size) ==
  CHOOSE l \in 0 .. MaxLevel : /\ l = MaxLevel \/ size > Block(l)
                               /\ \A k \in 0 .. l - 1 : size <= Block(k)

(* The space TCR_EL2.TxSZ gives, from the trailing zeros of the size. *)
TxSize(size) == Max({n \in {2 ^ k : k \in 0 .. 20} : size % n = 0})

(* What the macros make of each context. *)
Shape == [s \in Spaces |-> [level   |-> BaseLevel(s.size),
                            entries |-> s.size \div Block(BaseLevel(s.size)),
                            reach   |-> TxSize(s.size),
                            start   |-> BaseLevel(TxSize(s.size))]]

Invalid == [type |-> INVALID]

(* xlat_desc: nothing that is writable, or a device, can be executed. *)
XlatDesc(attr, pa, level) ==
  IF attr.mem = "transient" THEN Invalid
  ELSE [type |-> IF level = MaxLevel THEN TABLE ELSE BLOCK,
        to   |-> pa,
        ns   |-> attr.ns,
        mem  |-> attr.mem,
        rw   |-> attr.rw,
        x    |-> attr.exec /\ ~attr.rw /\ attr.mem # "device"]

TableDesc(id) == [type |-> TABLE, to |-> id]

Owner(c) == IF space.region = "high" THEN c ELSE Primary
BaseVa   == IF space.region = "high" THEN Top - space.size ELSE 0
EndOf(r) == r.va + r.size

(***************************************************************************)
(* Adding regions, before the tables are made.                             *)
(***************************************************************************)
Apart(a, la, b, lb) == a + la - 1 < b \/ a > b + lb - 1

(* The region as the context keeps it: high ones relative to its base. *)
Placed(r) == [r EXCEPT !.va = @ - BaseVa]

InRegion(r) ==
  IF space.region = "low" THEN r.va < Low /\ (r.va + r.size) % Top < Low
                          ELSE r.va >= BaseVa

(* mmap_add_region_check; the arithmetic is that of the addresses. *)
Fits(r) ==
  LET end_pa == (r.pa + r.size - 1) % Top
      end_va == (r.va + r.size - 1) % Top
  IN /\ r.aligned
     /\ r.granularity \in {Block(1), Block(2), Block(3)}
     /\ r.pa <= end_pa /\ r.va <= end_va
     /\ end_va < space.size
     /\ end_pa <= MaxPa
     /\ Len(cfg.mmap) < space.mmap_num
     /\ \A i \in DOMAIN cfg.mmap :
          LET m == cfg.mmap[i]
          IN Apart(r.va, r.size, m.va, m.size) /\ Apart(r.pa, r.size, m.pa, m.size)

AddRegion(r) ==
  /\ ~cfg.initialized /\ pc[Primary] = Off /\ halted = "no"
  /\ IF InRegion(r) /\ Fits(Placed(r))
     THEN LET m  == Placed(r)
              at == Cardinality({i \in DOMAIN cfg.mmap : cfg.mmap[i].va < m.va}) + 1
          IN /\ cfg' = [cfg EXCEPT !.mmap = InsertAt(@, at, m),
                                   !.max_va = IF EndOf(m) - 1 > @ THEN EndOf(m) - 1 ELSE @]
             /\ UNCHANGED halted
     ELSE halted' = "boot" /\ UNCHANGED cfg
  /\ UNCHANGED <<space, tbls, te, pc, tlb>>

(* The last region was added: no more can be, by any CPU. *)
Seal ==
  /\ ~cfg.initialized /\ cfg.mmap # <<>> /\ halted = "no"
  /\ cfg' = [cfg EXCEPT !.initialized = TRUE]
  /\ UNCHANGED <<space, tbls, te, pc, tlb, halted>>

(***************************************************************************)
(* Making the tables.  t is the set of tables as it grows: tab, next, end  *)
(* (where mapping stopped), bad (how it failed, or "no"), and beyond, what *)
(* the memory after the last table holds.                                  *)
(***************************************************************************)
(* Mutant: the page the block would map to is not looked at. *)
AnyPage(r, pa, level) == level >= 1 /\ r.granularity >= Block(level)

BlockFits(r, pa, level) ==
  pa % Block(level) = 0 /\ level >= 1 /\ r.granularity >= Block(level)

MapAction(r, type, pa, va, level) ==
  LET covered == r.va <= va /\ EndOf(r) >= va + Block(level)
  IN IF covered /\ level = MaxLevel
     THEN CASE type = TABLE   -> "none"
            [] type = INVALID -> "write"
            [] OTHER          -> "panic"
     ELSE CASE type = TABLE /\ level < MaxLevel -> "recurse"
            [] type = INVALID /\ covered ->
                 IF BlockFits(r, pa, level) THEN "write" ELSE "create"
            [] type = INVALID /\ ~covered /\ level < MaxLevel -> "create"
            [] type = BLOCK /\ covered -> "none"
            [] OTHER -> "panic"

NewTable == [i \in 0 .. Entries - 1 |-> Invalid]

(* xlat_table_get_empty: that a table is left is only asserted.  The one   *)
(* after the last is returned too, though nobody has cleared it; what      *)
(* writing to it destroys is not modelled.                                 *)
HasEmpty(t)   == t.next <= space.tables_num
EmptyTable(t) == IF HasEmpty(t) THEN NewTable ELSE [i \in 0 .. Entries - 1 |-> t.beyond]

RECURSIVE MapTable(_, _, _, _, _), MapFrom(_, _, _, _, _, _)

MapTable(t, r, id, base, level) ==
  LET start == IF r.va > base THEN r.va - (r.va % Block(level)) ELSE base
  IN MapFrom(t, r, id, base, level, (start - base) \div Block(level))

MapFrom(t, r, id, base, level, i) ==
  LET va     == base + i * Block(level)
      after  == va + Block(level)
      pa     == r.pa + va - r.va
      desc   == t.tab[id][i]
      action == MapAction(r, desc.type, pa, va, level)
      new    == [t EXCEPT !.tab = t.tab @@ (t.next :> EmptyTable(t)), !.next = @ + 1]
      below  == action \in {"create", "recurse"}
      u == CASE action = "none"  -> t
             [] action = "panic" -> [t EXCEPT !.bad = "panic"]
             [] action = "write" -> [t EXCEPT !.tab[id][i] = XlatDesc(r.attr, pa, level)]
             [] action = "recurse" -> MapTable(t, r, desc.to, va, level + 1)
             [] action = "create" /\ Asserts /\ ~HasEmpty(t) -> [t EXCEPT !.bad = "assert"]
             [] OTHER -> MapTable([new EXCEPT !.tab[id][i] = TableDesc(t.next)],
                                  r, t.next, va, level + 1)
      entries == IF level = Shape[space].level THEN Shape[space].entries ELSE Entries
  IN IF u.bad # "no" \/ (below /\ u.end # after) THEN u
     ELSE IF EndOf(r) <= after \/ i + 1 >= entries THEN [u EXCEPT !.end = after]
     ELSE MapFrom(u, r, id, base, level, i + 1)

RECURSIVE MapAll(_, _)
MapAll(t, rs) ==
  IF rs = <<>> \/ t.bad # "no" THEN t
  ELSE LET u == MapTable(t, Head(rs), 0, 0, Shape[space].level)
       IN MapAll(IF u.bad = "no" /\ u.end # EndOf(Head(rs)) THEN [u EXCEPT !.bad = "boot"]
                                                            ELSE u, Tail(rs))

Empty(beyond) ==
  [tab |-> (0 :> NewTable), next |-> 1, end |-> 0, bad |-> "no", beyond |-> beyond]

(* The tables of the context a CPU boots with, once the regions are known. *)
InitTables(c) ==
  /\ cfg.initialized /\ halted = "no"
  /\ pc[c] = Off /\ Owner(c) = c /\ tbls[c] = <<>>
  /\ c # Primary => te[Primary] # <<>>
  /\ \E beyond \in Beyond :
       LET t == MapAll(Empty(beyond), cfg.mmap)
       IN IF t.bad = "no" THEN /\ tbls' = [tbls EXCEPT ![c] = <<[tab |-> t.tab, next |-> t.next]>>]
                               /\ UNCHANGED halted
                          ELSE halted' = t.bad /\ UNCHANGED tbls
  /\ UNCHANGED <<space, cfg, te, pc, tlb>>

(***************************************************************************)
(* What the MMU makes of the tables.                                       *)
(***************************************************************************)
RECURSIVE WalkFrom(_, _, _, _)
WalkFrom(tab, id, level, va) ==
  LET d == tab[id][(va \div Block(level)) % Entries]
  IN CASE d.type = TABLE /\ level < MaxLevel -> WalkFrom(tab, d.to, level + 1, va)
       [] d.type = TABLE /\ level = MaxLevel -> {d}
       [] d.type = BLOCK /\ level \in {1, 2} ->
            {[d EXCEPT !.type = TABLE, !.to = @ - (@ % Block(level)) + (va % Block(level))]}
       [] OTHER -> {}

(* The translation of an offset va by the MMU of c: none, or a page of it. *)
Walk(c, va) ==
  IF tbls[Owner(c)] = <<>> \/ va >= Shape[space].reach THEN {}
  ELSE WalkFrom(tbls[Owner(c)][1].tab, 0, Shape[space].start, va)

(* Mutant: CnP is set for the slots too. *)
SharingSlots(c) == Cpus

(* TTBR.CnP, and the CPUs whose TLBs may share what they hold. *)
CnP == space.region # "high"
Sharing(c) == IF CnP THEN Cpus ELSE {c}

EnableMmu(c) ==
  /\ pc[c] = Off /\ tbls[Owner(c)] # <<>> /\ halted = "no"
  /\ pc' = [pc EXCEPT ![c] = MmuOn]
  /\ tlb' = [tlb EXCEPT ![c] = [s \in 0 .. NumSlots - 1 |-> {}]]
  /\ UNCHANGED <<space, cfg, tbls, te, halted>>

(***************************************************************************)
(* xlat_get_table_from_va: the table that holds the entry of va.  A page   *)
(* and a table look the same, so only an entry that is still empty is ever *)
(* found at the last level.                                                *)
(***************************************************************************)
RECURSIVE FindFrom(_, _, _, _, _)
FindFrom(tab, id, level, entries, off) ==
  LET i == (off \div Block(level)) % Entries
      d == tab[id][i]
  IN CASE i < entries /\ d.type = TABLE /\ level < MaxLevel ->
            FindFrom(tab, d.to, level + 1, Entries, off)
       [] i < entries /\ (d.type = BLOCK \/ (d.type = INVALID /\ level = MaxLevel)) ->
            <<[table |-> id, level |-> level, base_va |-> BaseVa,
               entries |-> IF id = 0 THEN Shape[space].entries ELSE Entries]>>
       [] OTHER -> <<>>

TableOf(c, va) ==
  IF va > cfg.max_va + BaseVa \/ va < BaseVa THEN <<>>
  ELSE FindFrom(tbls[Owner(c)][1].tab, 0, Shape[space].level, Shape[space].entries,
                va - BaseVa)

(* slot_buf_init *)
SlotVa(s) == Top - space.size + s

SlotInit(c) ==
  /\ pc[c] = MmuOn /\ space.region = "high" /\ halted = "no"
  /\ IF te[c] = <<>> /\ TableOf(c, SlotVa(0)) = <<>>
     THEN halted' = "boot" /\ UNCHANGED <<te, pc>>
     ELSE /\ te' = [te EXCEPT ![c] = IF @ = <<>> THEN TableOf(c, SlotVa(0)) ELSE @]
          /\ pc' = [pc EXCEPT ![c] = Ready]
          /\ UNCHANGED halted
  /\ UNCHANGED <<space, cfg, tbls, tlb>>

(***************************************************************************)
(* Slots                                                                   *)
(***************************************************************************)
(* xlat_get_pte_from_table, through te_cache *)
PteIndex(c, va) == ((va - te[c][1].base_va) \div Block(te[c][1].level)) % Entries
HasPte(c, va)   == va >= te[c][1].base_va /\ PteIndex(c, va) < te[c][1].entries
Pte(c, va)      == tbls[Owner(c)][1].tab[te[c][1].table][PteIndex(c, va)]

WritePte(c, va, desc) ==
  tbls' = [tbls EXCEPT ![Owner(c)][1].tab[te[c][1].table][PteIndex(c, va)] = desc]

(* An entry that holds something refuses: the caller gets no address. *)
MapPage(c, va, pa, attr) ==
  /\ HasPte(c, va) /\ Pte(c, va) = Invalid
  /\ pa <= MaxPa
  /\ WritePte(c, va, XlatDesc(attr, pa, te[c][1].level))

(* The entry first; its TLBI and the barrier after it are TlbiVa. *)
UnmapPage(c, va) ==
  /\ HasPte(c, va)
  /\ WritePte(c, va, Invalid)

SlotAttr(ns) == [mem |-> "memory", rw |-> TRUE, exec |-> FALSE, ns |-> ns]

(* granule_map, and ns_granule_map for the slot of the Host's memory *)
GranuleMap(c, s, pa) ==
  /\ pc[c] = Ready /\ halted = "no"
  /\ MapPage(c, SlotVa(s), pa, SlotAttr(s = 0))
  /\ UNCHANGED <<space, cfg, te, pc, tlb, halted>>

(* buffer_unmap of what the same CPU mapped *)
BufferUnmap(c, s) ==
  /\ pc[c] = Ready /\ halted = "no"
  /\ Pte(c, SlotVa(s)) # Invalid
  /\ UnmapPage(c, SlotVa(s))
  /\ pc' = [pc EXCEPT ![c] = s]
  /\ UNCHANGED <<space, cfg, te, tlb, halted>>

(* Every TLB of the shareable domain drops the page. *)
TlbiVa(c, s) ==
  /\ pc[c] = s /\ halted = "no"
  /\ tlb' = [d \in Cpus |-> [tlb[d] EXCEPT ![s] = {}]]
  /\ pc' = [pc EXCEPT ![c] = Ready]
  /\ UNCHANGED <<space, cfg, tbls, te, halted>>

(* The MMU of a CPU walks, for a load or on its own, and keeps the result. *)
TlbFill(c, s) ==
  /\ pc[c] \notin {Off, MmuOn} /\ space.region = "high" /\ halted = "no"
  /\ Walk(c, s) # {} /\ tlb[c][s] = {}
  /\ tlb' = [d \in Cpus |-> IF d \in Sharing(c) THEN [tlb[d] EXCEPT ![s] = Walk(c, s)]
                                                ELSE tlb[d]]
  /\ UNCHANGED <<space, cfg, tbls, te, pc, halted>>

(* EL3 turns a CPU off that is not in the monitor: assert_cpu_slots_empty. *)
PowerOff(c) ==
  /\ halted = "no"
  /\ \/ pc[c] = MmuOn /\ space.region = "low"
     \/ pc[c] = Ready /\ \A s \in 0 .. NumSlots - 1 : Pte(c, SlotVa(s)) = Invalid
  /\ pc' = [pc EXCEPT ![c] = Off]
  /\ UNCHANGED <<space, cfg, tbls, te, tlb, halted>>

-----------------------------------------------------------------------------
XlatInit ==
  /\ space \in Spaces
  /\ cfg = [mmap |-> <<>>, max_va |-> 0, initialized |-> FALSE]
  /\ tbls = [c \in Cpus |-> <<>>]
  /\ te = [c \in Cpus |-> <<>>]
  /\ pc = [c \in Cpus |-> Off]
  /\ tlb = [c \in Cpus |-> [s \in 0 .. NumSlots - 1 |-> {}]]
  /\ halted = "no"

XlatNext ==
  \/ \E r \in Regions[space.region] : AddRegion(r)
  \/ Seal
  \/ \E c \in Cpus : InitTables(c) \/ EnableMmu(c) \/ SlotInit(c) \/ PowerOff(c)
  \/ \E c \in Cpus, s \in 0 .. NumSlots - 1 :
       \/ \E pa \in SlotPages : GranuleMap(c, s, pa)
       \/ BufferUnmap(c, s) \/ TlbiVa(c, s) \/ TlbFill(c, s)

-----------------------------------------------------------------------------
XlatTypeOK ==
  /\ space \in Spaces
  /\ cfg.max_va \in 0 .. Top - 1 /\ cfg.initialized \in BOOLEAN
  /\ Len(cfg.mmap) <= space.mmap_num
  /\ \A c \in Cpus :
       /\ pc[c] \in Off .. NumSlots - 1
       /\ tbls[c] # <<>> => DOMAIN tbls[c][1].tab = 0 .. tbls[c][1].next - 1
       /\ te[c] # <<>> => te[c][1].table \in DOMAIN tbls[Owner(c)][1].tab
  /\ halted \in {"no", "boot", "panic", "assert"}

(* The regions that ask for an address. *)
Wanted(va) == {m \in ToSet(cfg.mmap) : m.va <= va /\ va < EndOf(m) /\ m.attr.mem # "transient"}

(* Every address of a region that was accepted is translated to the page   *)
(* asked for, with the access asked for, whatever blocks and tables the    *)
(* regions before it left behind; nothing else is translated, nothing to a *)
(* page that does not exist; nothing can be both written and executed; and *)
(* none of the panics of the library that say "expected" is reached.  This *)
(* is of a Debug build: in a Release build a boot that runs out of tables  *)
(* goes on in memory that is none, which TablesSuffice is about.           *)
TranslatesRegions ==
  /\ halted # "panic"
  /\ space.region = "low" /\ tbls[Primary] # <<>> =>
       \A va \in 0 .. space.size - 1 :
         LET got == Walk(Primary, va)
         IN /\ Cardinality(got) = Cardinality(Wanted(va))
            /\ \A d \in got, m \in Wanted(va) :
                 /\ d.to = m.pa + va - m.va /\ d.to <= MaxPa
                 /\ d.ns = m.attr.ns /\ d.rw = m.attr.rw
                 /\ d.x => m.attr.exec /\ ~d.rw

(* "In case when there are not enough tables the xlat tables creation will *)
(* fail" (plat/common/CMakeLists.txt): tables that were made lie all among *)
(* those that were allocated.  A Release build breaks it.                  *)
TablesSuffice ==
  \A c \in Cpus : tbls[c] # <<>> => tbls[c][1].next - 1 <= space.tables_num

(* What a load of c through a slot may reach: its tables, and its TLB. *)
Shows(c, s) ==
  IF pc[c] = Off \/ space.region # "high" THEN {}
  ELSE {[page |-> d.to, ns |-> d.ns] : d \in Walk(c, s) \cup tlb[c][s]}

AWindow == INSTANCE Windows WITH
  Slots <- 0 .. NumSlots - 1,
  NsSlot <- 0,
  shutting <- [c \in Cpus |-> IF pc[c] \in 0 .. NumSlots - 1 THEN {pc[c]} ELSE {}],
  shows <- [c \in Cpus |-> [s \in 0 .. NumSlots - 1 |-> Shows(c, s)]]

(* A CPU that maps a granule reaches that granule through the slot, and no *)
(* other CPU does; once it has unmapped it, nothing does.                  *)
SlotsAreWindows == AWindow!Spec
=============================================================================
