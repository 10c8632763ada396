-------------------------- MODULE Stage2Implements --------------------------
(***************************************************************************)
(* For any number of CPUs, realms, granules and cached entries: what the   *)
(* MMUs of a realm's CPUs have cached of its stage 2 tables, and that the  *)
(* walks and commands of Stage2 implement the flat IpaSpace.               *)
(***************************************************************************)
EXTENDS Stage2Proofs

---------------------------------------------------------------------------
(* The entry of a page in its table, and the pages that an entry maps *)
LEMMA SameEntryOfTable ==
  ASSUME NEW l \in Levels, NEW i \in Ipas, NEW j \in Ipas, NEW r, NEW q,
         PlaceOf(r, i, l) = PlaceOf(q, j, l), Index(i, l) = Index(j, l)
  PROVE  r = q /\ Align(i, l) = Align(j, l)
<1>1. r = q /\ Base(i, l) = Base(j, l)
  BY DEF PlaceOf
<1> QED BY <1>1, BlockOf

LEMMA PagesOfEntry ==
  ASSUME NEW l \in Levels, NEW a \in Ipas, Align(a, l) = a, NEW i \in Block(a, l)
  PROVE  i \in Ipas /\ Align(i, l) = a /\ Index(i, l) = Index(a, l) /\ Base(i, l) = Base(a, l)
<1>1. PICK b \in Ipas : b = Base(a, l) /\ Base(b, l) = b
  BY BlockOf
<1>2. PICK k \in Slots : k = Index(a, l)
  BY BlockOf
<1>3. a = Start(b, k, l) /\ a \in Nat
  BY <1>1, <1>2, BlockOf
<1>4. PICK o \in 0 .. Pages(l) - 1 : i = Start(b, k, l) + o
  <2>1. Pages(l) \in Nat
    BY PagesAre, LevelsAre
  <2>2. i - a \in 0 .. Pages(l) - 1 /\ i = a + (i - a)
    BY <1>3, <2>1 DEF Block
  <2> QED BY <1>3, <2>2
<1>5. i \in Ipas /\ Align(i, l) = Start(b, k, l) /\ Base(i, l) = b /\ Index(i, l) = k
  BY <1>1, <1>4, SpotAt
<1> QED BY <1>1, <1>2, <1>3, <1>5

LEMMA EntryOfPage ==
  ASSUME NEW l \in Levels, NEW i \in Ipas, NEW a, a = Align(i, l)
  PROVE  /\ a \in Ipas /\ Align(a, l) = a /\ Index(a, l) = Index(i, l) /\ Base(a, l) = Base(i, l)
         /\ i \in Block(a, l)
<1>1. PICK b \in Ipas : b = Base(i, l) /\ Base(b, l) = b
  BY BlockOf
<1>2. PICK k \in Slots : k = Index(i, l)
  BY BlockOf
<1>3. a = Start(b, k, l) /\ a \in Nat /\ i - a \in 0 .. Pages(l) - 1
  BY <1>1, <1>2, BlockOf
<1>4. Pages(l) \in Nat /\ Pages(l) > 0 /\ i \in Int
  BY PagesAre, LevelsAre DEF Ipas
<1>5. 0 \in 0 .. Pages(l) - 1 /\ a = Start(b, k, l) + 0
  BY <1>3, <1>4
<1>6. a \in Ipas /\ Align(a, l) = a /\ Base(a, l) = b /\ Index(a, l) = k
  BY <1>1, <1>3, <1>5, SpotAt
<1>7. i \in Block(a, l)
  BY <1>3, <1>4, <1>6 DEF Block
<1> QED BY <1>1, <1>2, <1>6, <1>7

---------------------------------------------------------------------------
(* The caches.  A cached entry is the one at its place, or a command has    *)
(* overwritten that with an invalid one and is about to invalidate it.     *)
(* Release builds overwrite blocks that the host has mapped and never      *)
(* invalidate them; these are watched only when w is TRUE.                 *)
Slot(x)       == Index(x.ipa, x.lvl)
Sits(p, x, t) == p[t] = PlaceOf(x.r, x.ipa, x.lvl)
Watched(w, x) == w \/ ~x.e.ns

Cached(x) ==
  /\ x.r \in Realms /\ x.lvl \in Levels /\ x.ipa \in Ipas /\ Align(x.ipa, x.lvl) = x.ipa
  /\ Good(x.e, x.lvl) /\ x.e.desc # 0

(* The frame fr has taken the entry x from table t, and not invalidated it. *)
Stale(V, x, t, fr) ==
  /\ fr.pc = "tlbi" /\ fr.then # "make" /\ fr.r = x.r /\ fr.llt = t
  /\ x.lvl = 3 /\ x.ipa \in fr.span
  /\ \/ x.e.ns
     \/ fr.then = "free" /\ fr.sub = x.e.pa
     \/ fr.then = "idle" /\ Mem(x.e, 3) = Mem(V[t][Slot(x)], 3)

Known(V, G, F, p, x) ==
  \E t \in Used(G) : /\ Sits(p, x, t)
                     /\ \/ x.e = V[t][Slot(x)]
                        \/ \E c \in Cpus : Stale(V, x, t, F[c])

(* A break invalidates the entry that it breaks, and nothing is cached of   *)
(* the table below it.                                                     *)
BreakKnown(T, L, p, w, fr) ==
  fr.then = "make" =>
    /\ \A j \in Slots : T[fr.sub][j].desc = 0
    /\ \E i \in Ipas : /\ i \in fr.span /\ p[fr.llt] = PlaceOf(fr.r, i, p[fr.llt].lvl)
                       /\ fr.idx = Index(i, p[fr.llt].lvl)
    /\ fr.pc = "make" => \A x \in L : Watched(w, x) /\ Sits(p, x, fr.llt) => Slot(x) # fr.idx

TlbState(p, w) ==
  /\ \A x \in tlb : Cached(x) /\ (Watched(w, x) => Known(View(tbl, f), gstate, f, p, x))
  /\ \A c \in Cpus : BreakKnown(tbl, tlb, p, w, f[c])

(* Only CPU c moves, and q gives the tables their places afterwards. *)
OthersStay(p, q, c) ==
  /\ \A d \in Cpus : d # c => f'[d] = f[d]
  /\ \A d \in Cpus : d # c =>
       \A u \in Locks(f[d]) : /\ tbl'[u] = tbl[u] /\ q[u] = p[u]
                              /\ u \in Used(gstate) => u \in Used(gstate')

LEMMA LockedView ==
  ASSUME NEW p, SafeState(p), NEW q, SafeState(q)', NEW c \in Cpus, OthersStay(p, q, c),
         NEW d \in Cpus, d # c, NEW u \in Locks(f[d])
  PROVE  \A j \in Slots : View(tbl', f')[u][j] = View(tbl, f)[u][j]
<1>1. OneMoves(f, f', c)
  BY DEF OneMoves, OthersStay, SafeState, StateOK, Typed
<1>2. f \in [Cpus -> Frames] /\ LocksDiffer(f) /\ LocksDiffer(f')
  BY <1>1 DEF OneMoves
<1>3. u \in Tables /\ u # None
  BY <1>2, NoneIsNoTable DEF Locks, Frames, Tables
<1>4. u \notin Locks(f[c]) /\ u \notin Locks(f'[c])
  BY <1>1, <1>2 DEF LocksDiffer, OneMoves
<1>5. \A j : ~BreakAt(f[c], u, j) /\ ~BreakAt(f'[c], u, j)
  BY <1>3, <1>4 DEF BreakAt, Locks
<1>6. tbl'[u] = tbl[u]
  BY DEF OthersStay
<1>7. \A j \in Slots : tbl'[u][j] = tbl[u][j] => View(tbl', f')[u][j] = View(tbl, f)[u][j]
  BY <1>1, <1>3, <1>5, OthersView
<1> QED BY <1>6, <1>7

(* What was cached of an entry as it is stays known: the entry stays, or   *)
(* CPU c is about to invalidate it.                                        *)
Followed(w, p, q, c) ==
  \A x \in tlb' : \A t \in Used(gstate) :
    Cached(x) /\ Watched(w, x) /\ Sits(p, x, t) /\ x.e = View(tbl, f)[t][Slot(x)] =>
      /\ t \in Used(gstate') /\ q[t] = p[t]
      /\ x.e = View(tbl', f')[t][Slot(x)] \/ Stale(View(tbl', f'), x, t, f'[c])

LEMMA TlbStep ==
  ASSUME NEW w, NEW p, SafeState(p), TlbState(p, w), NEW q, SafeState(q)', NEW c \in Cpus,
         OthersStay(p, q, c), tlb' \subseteq tlb,
         \A x \in tlb' : \A t : ~Stale(View(tbl, f), x, t, f[c]),
         Followed(w, p, q, c), BreakKnown(tbl', tlb', q, w, f'[c])
  PROVE  TlbState(q, w)'
<1> DEFINE V == View(tbl, f)
           V2 == View(tbl', f')
<1>0. f \in [Cpus -> Frames] /\ FramesOK(tbl, gstate, f, refs, p)
  BY DEF SafeState, StateOK, Typed
<1>1. ASSUME NEW x \in tlb', Watched(w, x) PROVE Known(V2, gstate', f', q, x)
  <2>1. Cached(x) /\ Known(V, gstate, f, p, x)
    BY <1>1 DEF TlbState
  <2>2. PICK t \in Used(gstate) :
          Sits(p, x, t) /\ (x.e = V[t][Slot(x)] \/ \E d \in Cpus : Stale(V, x, t, f[d]))
    BY <2>1 DEF Known
  <2> HIDE DEF V, V2
  <2>3. CASE x.e = V[t][Slot(x)]
    <3>1. /\ t \in Used(gstate') /\ q[t] = p[t]
          /\ x.e = V2[t][Slot(x)] \/ Stale(V2, x, t, f'[c])
      BY <1>1, <2>1, <2>2, <2>3 DEF Followed, V, V2
    <3> QED BY <2>2, <3>1 DEF Known, Sits
  <2>4. CASE \E d \in Cpus : Stale(V, x, t, f[d])
    <3>1. PICK d \in Cpus : Stale(V, x, t, f[d])
      BY <2>4
    <3>2. d # c
      BY <3>1 DEF V
    <3>3. t \in Locks(f[d]) /\ f'[d] = f[d]
      BY <2>2, <3>1, <3>2, NoneIsNoTable DEF Stale, Locks, OthersStay
    <3>4. q[t] = p[t] /\ t \in Used(gstate')
      BY <2>2, <3>2, <3>3 DEF OthersStay
    <3>5. Slot(x) \in Slots
      BY <2>1, BlockOf DEF Cached, Slot
    <3>6. V2[t][Slot(x)] = V[t][Slot(x)]
      BY <3>2, <3>3, <3>5, LockedView DEF V, V2
    <3>7. Stale(V2, x, t, f'[d])
      BY <3>1, <3>3, <3>6 DEF Stale
    <3> QED BY <2>2, <3>4, <3>7 DEF Known, Sits
  <2> QED BY <2>2, <2>3, <2>4
<1>2. ASSUME NEW d \in Cpus, d # c PROVE BreakKnown(tbl', tlb', q, w, f'[d])
  <2>1. f'[d] = f[d] /\ BreakKnown(tbl, tlb, p, w, f[d])
    BY <1>2 DEF OthersStay, TlbState
  <2> SUFFICES ASSUME f[d].then = "make" PROVE BreakKnown(tbl', tlb', q, w, f[d])
    BY <2>1 DEF BreakKnown
  <2>2. MakeOK(tbl, gstate, refs, p, f[d])
    BY <1>0 DEF FramesOK, FrameOK
  <2>3. f[d].llt \in Locks(f[d]) /\ f[d].sub \in Locks(f[d])
    BY <2>2, NoneIsNoTable DEF MakeOK, Locks
  <2>4. tbl'[f[d].sub] = tbl[f[d].sub] /\ q[f[d].llt] = p[f[d].llt]
    BY <1>2, <2>3 DEF OthersStay
  <2> QED BY <2>1, <2>4 DEF BreakKnown, Sits
<1> QED BY <1>1, <1>2 DEF TlbState

---------------------------------------------------------------------------
(* A command writes an entry that maps nothing, or prepares to invalidate   *)
(* the mapping that it takes away.                                         *)
Takes(fr, r, i, l, t, a, e) ==
  /\ l = 3 /\ fr.pc = "tlbi" /\ fr.then # "make" /\ fr.r = r /\ fr.llt = t /\ i \in fr.span
  /\ \/ a.ns
     \/ fr.then = "free" /\ fr.sub = a.pa
     \/ fr.then = "idle" /\ Mem(e, 3) = Mem(a, 3)

Overwrites(t, k, e) == tbl' = [tbl EXCEPT ![t][k] = e]

(* CPU c writes entry k of t, and is in no break before or after. *)
LEMMA ViewMoves ==
  ASSUME NEW F, NEW H, NEW c, OneMoves(F, H, c), F[c].then # "make", H[c].then # "make",
         NEW T, NEW T2, NEW t \in Tables, NEW k \in Slots, Unlocked(F, t),
         \A u \in Tables, j \in Slots : (u = t /\ j = k) \/ T2[u][j] = T[u][j]
  PROVE  /\ View(T2, H)[t][k] = T2[t][k]
         /\ \A u \in Tables, j \in Slots :
              (u = t /\ j = k) \/ View(T2, H)[u][j] = View(T, F)[u][j]
<1>1. \A u, j : ~BreakAt(F[c], u, j) /\ ~BreakAt(H[c], u, j)
  BY DEF BreakAt
<1>2. \A d \in Cpus : ~BreakAt(H[d], t, k)
  BY <1>1, NoneIsNoTable DEF OneMoves, Unlocked, Locks, BreakAt
<1>3. View(T2, H)[t][k] = T2[t][k]
  BY <1>2, ViewIs DEF OneMoves
<1>4. ASSUME NEW u \in Tables, NEW j \in Slots, T2[u][j] = T[u][j]
      PROVE  View(T2, H)[u][j] = View(T, F)[u][j]
  BY <1>1, <1>4, OthersView
<1> QED BY <1>3, <1>4

LEMMA WriteTlb ==
  ASSUME NEW w, NEW p, SafeState(p), TlbState(p, w), SafeState(p)', NEW c \in Cpus,
         \A d \in Cpus : d # c => f'[d] = f[d],
         f[c].pc # "tlbi", f[c].then # "make", f'[c].then # "make",
         NEW r, NEW i \in Ipas, NEW l, NEW t, NEW k, Spot(p, r, i, l, t, k),
         NEW e, Overwrites(t, k, e),
         tbl[t][k].desc = 0 \/ e = tbl[t][k] \/ Takes(f'[c], r, i, l, t, tbl[t][k], e),
         Used(gstate') = Used(gstate), UNCHANGED tlb
  PROVE  TlbState(p, w)'
<1> DEFINE V == View(tbl, f)
           V2 == View(tbl', f')
           a == tbl[t][k]
<1>1. /\ t \in Used(gstate) /\ t \in Tables /\ k \in Slots /\ k = Index(i, l) /\ l \in Levels
      /\ p[t] = PlaceOf(r, i, l) /\ Unlocked(f, t) /\ V[t][k] = a
  BY DEF Spot
<1>2. /\ tbl \in [Tables -> [Slots -> Entries]] /\ tbl' \in [Tables -> [Slots -> Entries]]
      /\ f \in [Cpus -> Frames] /\ f' \in [Cpus -> Frames] /\ LocksDiffer(f) /\ LocksDiffer(f')
  BY DEF SafeState, StateOK, Typed
<1>3. /\ tbl'[t][k] = e /\ \A u \in Tables : u # t => tbl'[u] = tbl[u]
      /\ \A u \in Tables, j \in Slots : (u = t /\ j = k) \/ tbl'[u][j] = tbl[u][j]
  BY <1>1, <1>2 DEF Overwrites
<1>4. OneMoves(f, f', c)
  BY <1>2 DEF OneMoves
<1>5. f[c].then # "make" /\ f'[c].then # "make" /\ Unlocked(f, t)
  BY <1>1
<1>6. /\ View(tbl', f')[t][k] = tbl'[t][k]
      /\ \A u \in Tables, j \in Slots : (u = t /\ j = k) \/ View(tbl', f')[u][j] = View(tbl, f)[u][j]
  <2> DEFINE T2 == tbl'
             H  == f'
  <2>1. \A u \in Tables, j \in Slots : (u = t /\ j = k) \/ T2[u][j] = tbl[u][j]
    BY <1>3
  <2>2. OneMoves(f, H, c) /\ H[c].then # "make"
    BY <1>4, <1>5
  <2>3. t \in Tables /\ k \in Slots
    BY <1>1
  <2> HIDE DEF T2, H, V, V2, a
  <2>4. /\ View(T2, H)[t][k] = T2[t][k]
        /\ \A u \in Tables, j \in Slots : (u = t /\ j = k) \/ View(T2, H)[u][j] = View(tbl, f)[u][j]
    BY <1>5, <2>1, <2>2, <2>3, ViewMoves
  <2> QED BY <2>4 DEF T2, H
<1>7. V2[t][k] = e
  BY <1>3, <1>6
<1>8. OthersStay(p, p, c)
  BY <1>1, <1>2, <1>3 DEF OthersStay, Unlocked, Locks, Frames, Tables
<1>9. tlb' \subseteq tlb /\ \A x \in tlb' : \A u : ~Stale(V, x, u, f[c])
  BY DEF Stale
<1>10. BreakKnown(tbl', tlb', p, w, f'[c])
  BY DEF BreakKnown
<1> HIDE DEF V, V2, a
<1>11. ASSUME NEW x \in tlb', NEW u \in Used(gstate), Cached(x), Sits(p, x, u),
              x.e = V[u][Slot(x)]
       PROVE  u \in Used(gstate') /\ (x.e = V2[u][Slot(x)] \/ Stale(V2, x, u, f'[c]))
  <2>1. u \in Tables /\ Slot(x) \in Slots /\ x.lvl \in Levels /\ x.ipa \in Ipas /\ x.e.desc # 0
    BY <1>11, UsedAreTables, BlockOf DEF Cached, Slot
  <2>2. CASE u # t \/ Slot(x) # k
    BY <1>6, <1>11, <2>1, <2>2 DEF V, V2
  <2>3. CASE u = t /\ Slot(x) = k
    <3>1. PlaceOf(x.r, x.ipa, x.lvl) = PlaceOf(r, i, l)
      BY <1>1, <1>11, <2>3 DEF Sits
    <3>2. x.lvl = l /\ x.r = r
      BY <3>1 DEF PlaceOf
    <3>3. x.e = a /\ a.desc # 0
      BY <1>1, <1>11, <2>1, <2>3
    <3>4. CASE e = a
      BY <1>7, <2>3, <3>3, <3>4
    <3>5. CASE Takes(f'[c], r, i, l, t, a, e)
      <4>1. l = 3
        BY <3>5 DEF Takes
      <4>2. Align(x.ipa, l) = Align(i, l)
        BY <1>1, <2>1, <2>3, <3>1, <3>2, SameEntryOfTable DEF Slot
      <4>3. x.ipa = i
        BY <2>1, <4>1, <4>2, AlignPage DEF Ipas
      <4>4. Stale(V2, x, t, f'[c])
        BY <1>7, <2>3, <3>2, <3>3, <3>5, <4>3 DEF Takes, Stale
      <4> QED BY <2>3, <4>4
    <3> QED BY <3>3, <3>4, <3>5 DEF a
  <2> QED BY <2>2, <2>3
<1>12. Followed(w, p, p, c)
  BY <1>11 DEF Followed, V, V2
<1> QED BY <1>8, <1>9, <1>10, <1>12, TlbStep DEF V, V2

LEMMA IdleFrameHere ==
  ASSUME NEW p, SafeState(p), NEW c \in Cpus, Idle(c)
  PROVE  f[c].then = "idle" /\ f[c].pc = "idle" /\ f[c] = IdleFrame /\ Locks(f[c]) = {}
BY IdleIsFrame DEF Idle, SafeState, StateOK, FramesOK, FrameOK, IdleFrame

(* The frame that a command leaves, and the others. *)
LEMMA FrameChanged ==
  ASSUME NEW p, SafeState(p), NEW c \in Cpus, NEW nf, f' = [f EXCEPT ![c] = nf]
  PROVE  f'[c] = nf /\ \A d \in Cpus : d # c => f'[d] = f[d]
BY DEF SafeState, StateOK, Typed

LEMMA MapNsTlb ==
  ASSUME NEW w, NEW p, SafeState(p), TlbState(p, w), NEW c \in Cpus, Idle(c),
         NEW r \in Realms, NEW l \in Levels, l \in MapLevels, NEW i \in Ipas,
         NEW pa \in NsPas, MapNs(r, i, l, pa)
  PROVE  TlbState(p, w)'
<1> DEFINE t == TableAt(r, i)[l]
           k == Index(i, l)
           e == CreateValidNs(pa, l)
<1>1. t # None /\ Free(t) /\ IsUnassigned(tbl[t][k]) /\ Overwrites(t, k, e)
      /\ UNCHANGED <<gstate, tlb, f>>
  BY DEF MapNs, At, Overwrites
<1>2. Spot(p, r, i, l, t, k)
  BY <1>1, WalkSpot
<1>3. SafeState(p)'
  BY MapNsSafe
<1> HIDE DEF t, k, e
<1>4. tbl[t][k].desc = 0
  BY <1>1, <1>2, DeadEntry DEF Spot
<1>5. f[c].pc # "tlbi" /\ f[c].then # "make" /\ f'[c].then # "make"
  BY <1>1, IdleFrameHere
<1> QED BY <1>1, <1>2, <1>3, <1>4, <1>5, WriteTlb

LEMMA UnmapNsTlb ==
  ASSUME NEW w, NEW p, SafeState(p), TlbState(p, w), NEW c \in Cpus, Idle(c),
         NEW r \in Realms, NEW l \in Levels, NEW i \in Ipas, UnmapNs(c, r, i, l)
  PROVE  TlbState(p, w)'
<1> DEFINE t == TableAt(r, i)[l]
           k == Index(i, l)
           e == CreateInvalidNs
           nf == UnmapFrame(r, t, i)
<1>1. t # None /\ Free(t) /\ IsValidNs(tbl[t][k], l) /\ Overwrites(t, k, e)
      /\ UNCHANGED <<gstate, tlb>> /\ f' = [f EXCEPT ![c] = nf]
  BY DEF UnmapNs, At, Overwrites, Become, UnmapFrame
<1>2. Spot(p, r, i, l, t, k)
  BY <1>1, WalkSpot
<1>3. SafeState(p)'
  BY UnmapNsSafe
<1>4. nf.pc = "tlbi" /\ nf.then = "idle" /\ nf.r = r /\ nf.llt = t /\ nf.span = {i}
  BY DEF UnmapFrame, IdleFrame
<1> HIDE DEF t, k, e, nf
<1>5. l = 3 /\ tbl[t][k].ns
  BY <1>1, <1>2, LevelIs, NoValidBlock DEF Spot, IsValidNs, Check
<1>6. f'[c] = nf /\ \A d \in Cpus : d # c => f'[d] = f[d]
  BY <1>1, FrameChanged
<1>7. f[c].pc # "tlbi" /\ f[c].then # "make" /\ f'[c].then # "make"
  BY <1>4, <1>6, IdleFrameHere
<1>8. Takes(f'[c], r, i, l, t, tbl[t][k], e)
  BY <1>4, <1>5, <1>6 DEF Takes
<1> QED BY <1>1, <1>2, <1>3, <1>6, <1>7, <1>8, WriteTlb

LEMMA InitRipasWriteTlb ==
  ASSUME NEW w, NEW p, SafeState(p), TlbState(p, w), NEW c \in Cpus,
         NEW l \in Levels, NEW i \in Ipas, InitRipasWrite(c, i, l)
  PROVE  TlbState(p, w)'
<1> DEFINE r == f[c].r
           t == TableAt(r, i)[l]
           k == Index(i, l)
           e == SetRam(tbl[t][k])
<1>1. t # None /\ Free(t) /\ IsUnassigned(tbl[t][k]) /\ Overwrites(t, k, e) /\ f[c].pc = "ripas"
      /\ UNCHANGED <<gstate, tlb>> /\ f' = [f EXCEPT ![c] = IdleFrame]
  BY DEF InitRipasWrite, At, Overwrites, Return, Become
<1>2. r \in Realms /\ f[c].then = "idle"
  BY <1>1 DEF SafeState, StateOK, FramesOK, FrameOK
<1>3. Spot(p, r, i, l, t, k)
  BY <1>1, <1>2, WalkSpot
<1>4. SafeState(p)'
  BY InitRipasWriteSafe
<1> HIDE DEF t, k, e, r
<1>5. tbl[t][k].desc = 0
  BY <1>1, <1>3, DeadEntry DEF Spot
<1>6. f'[c] = IdleFrame /\ \A d \in Cpus : d # c => f'[d] = f[d]
  BY <1>1, FrameChanged
<1>7. f[c].pc # "tlbi" /\ f[c].then # "make" /\ f'[c].then # "make"
  BY <1>1, <1>2, <1>6, IdleIsFrame
<1> QED BY <1>1, <1>3, <1>4, <1>5, <1>6, <1>7, WriteTlb

LEMMA SetRipasTlb ==
  ASSUME NEW w, NEW p, SafeState(p), TlbState(p, w), Requests(req), NEW c \in Cpus, Idle(c),
         NEW r \in Realms, NEW l \in Levels, SetRipas(c, r, l)
  PROVE  TlbState(p, w)'
<1> DEFINE i == req[r].addr
           s == req[r].ripas
           t == TableAt(r, i)[l]
           k == Index(i, l)
           a == tbl[t][k]
           e == Updated(a, l, s)
           nf == EmptyFrame(r, t, i)
<1>1. i \in Ipas
  <2>1. PICK P \in Nat : P > 0 /\ P = Pages(l)
    BY PagesAre, LevelIs
  <2>2. i \in Nat /\ req[r].end \in 0 .. NumIpas /\ NumIpas \in Int
    BY LevelIs, LevelsAre, PagesAre, EPositive DEF Requests, NumIpas
  <2>3. i + P <= req[r].end
    BY <2>1 DEF SetRipas
  <2> QED BY <2>1, <2>2, <2>3 DEF Ipas
<1>2. t # None /\ Free(t) /\ Updatable(a, l) /\ Overwrites(t, k, e) /\ UNCHANGED <<gstate, tlb>>
  BY DEF SetRipas, At, Overwrites
<1>3. IF IsValid(a, l) /\ s = "EMPTY" THEN f' = [f EXCEPT ![c] = nf] ELSE f' = f
  BY DEF SetRipas, At, Become, EmptyFrame
<1>4. Spot(p, r, i, l, t, k)
  BY <1>1, <1>2, WalkSpot
<1>5. SafeState(p)'
  BY SetRipasSafe
<1>6. nf.pc = "tlbi" /\ nf.then = "idle" /\ nf.r = r /\ nf.llt = t /\ nf.span = {i}
  BY DEF EmptyFrame, IdleFrame
<1> HIDE DEF t, k, nf, s
<1>7. Good(a, l)
  BY <1>4 DEF Spot
<1>8. CASE IsValid(a, l) /\ s = "EMPTY"
  <2>1. l = 3 /\ a.pa \in Granules /\ Mem(a, l) = {a.pa}
    BY <1>7, <1>8, ValidEntry
  <2>2. Mem(e, 3) = {a.pa}
    <3>1. e = CreateAssignedEmpty(a.pa)
      BY <1>8 DEF Updated
    <3>2. a.pa \in Int /\ Aligned(a.pa, l)
      BY <2>1, PagesAre DEF Granules, Aligned
    <3>3. Good(e, l) /\ IsAssigned(e) /\ e.pa = a.pa
      BY <2>1, <3>1, <3>2, NewEntries
    <3>4. Mem(e, l) = a.pa .. a.pa + 1 - 1
      BY <2>1, <3>3, AssignedEntry, PagesAre
    <3>5. a.pa .. a.pa + 1 - 1 = {a.pa}
      BY <3>2
    <3> QED BY <2>1, <3>4, <3>5
  <2>3. f' = [f EXCEPT ![c] = nf]
    BY <1>3, <1>8
  <2>4. f'[c] = nf /\ \A d \in Cpus : d # c => f'[d] = f[d]
    BY <2>3, FrameChanged
  <2>5. f[c].pc # "tlbi" /\ f[c].then # "make" /\ f'[c].then # "make"
    BY <1>6, <2>4, IdleFrameHere
  <2> HIDE DEF a, e, i
  <2>6. Takes(f'[c], r, i, l, t, a, e)
    BY <1>6, <2>1, <2>2, <2>4 DEF Takes
  <2> QED BY <1>1, <1>2, <1>4, <1>5, <2>4, <2>5, <2>6, WriteTlb DEF a
<1>9. CASE ~(IsValid(a, l) /\ s = "EMPTY")
  <2>1. f' = f
    BY <1>3, <1>9
  <2>2. a.desc = 0 \/ e = a
    <3>1. CASE ~IsValid(a, l) /\ s = "RAM"
      <4>1. IsUnassigned(a) \/ IsAssigned(a)
        BY <1>2, <3>1 DEF Updatable
      <4> QED BY <1>7, <4>1, DeadEntry, AssignedEntry
    <3>2. CASE ~(~IsValid(a, l) /\ s = "RAM")
      BY <1>9, <3>2 DEF Updated
    <3> QED BY <3>1, <3>2
  <2>3. f[c].pc # "tlbi" /\ f[c].then # "make" /\ f'[c].then # "make"
    BY <2>1, IdleFrameHere
  <2>4. \A d \in Cpus : d # c => f'[d] = f[d]
    BY <2>1
  <2> HIDE DEF a, e, i
  <2> QED BY <1>1, <1>2, <1>4, <1>5, <2>2, <2>3, <2>4, WriteTlb DEF a
<1> QED BY <1>8, <1>9

LEMMA DataCreateTlb ==
  ASSUME NEW w, NEW p, SafeState(p), TlbState(p, w), NEW c \in Cpus, Idle(c),
         NEW r \in Realms, NEW i \in Ipas, NEW g \in Granules, DataCreate(r, i, g)
  PROVE  TlbState(p, w)'
<1> DEFINE l == RTT_PAGE_LEVEL
           t == TableAt(r, i)[l]
           k == Index(i, l)
           a == tbl[t][k]
           e == IF a.ripas = "EMPTY" THEN CreateAssignedEmpty(g) ELSE CreateValid(g, l)
<1>1. l = 3 /\ l \in Levels
  BY LevelsAre DEF RTT_PAGE_LEVEL
<1>2. /\ t # None /\ Free(t) /\ IsUnassigned(a) /\ Overwrites(t, k, e) /\ UNCHANGED <<tlb, f>>
      /\ gstate[g] = "DELEGATED" /\ gstate' = [gstate EXCEPT ![g] = "DATA"]
  BY DEF DataCreate, At, Takable, Overwrites
<1>3. Spot(p, r, i, l, t, k)
  BY <1>1, <1>2, WalkSpot
<1>4. SafeState(p)'
  BY DataCreateSafe
<1> HIDE DEF t, k, e
<1>5. a.desc = 0
  BY <1>1, <1>2, <1>3, DeadEntry DEF Spot
<1>6. Used(gstate') = Used(gstate)
  BY <1>2 DEF Used, SafeState, StateOK, Typed
<1>7. f[c].pc # "tlbi" /\ f[c].then # "make" /\ f'[c].then # "make"
      /\ \A d \in Cpus : d # c => f'[d] = f[d]
  BY <1>2, IdleFrameHere
<1> HIDE DEF l
<1> QED BY <1>2, <1>3, <1>4, <1>5, <1>6, <1>7, WriteTlb

LEMMA DataDestroyTlb ==
  ASSUME NEW w, NEW p, SafeState(p), TlbState(p, w), NEW c \in Cpus, Idle(c),
         NEW r \in Realms, NEW i \in Ipas, DataDestroy(c, r, i)
  PROVE  TlbState(p, w)'
<1> DEFINE l == RTT_PAGE_LEVEL
           t == TableAt(r, i)[l]
           k == Index(i, l)
           a == tbl[t][k]
           e == IF IsValid(a, l) THEN CreateDestroyed ELSE CreateUnassigned("EMPTY")
           pc == DestroyContinues(a)
           nf == [IdleFrame EXCEPT !.pc = pc, !.then = "free", !.r = r, !.llt = t, !.sub = a.pa,
                                   !.span = {i}]
<1>1. l = 3 /\ l \in Levels
  BY LevelsAre DEF RTT_PAGE_LEVEL
<1>2. /\ t # None /\ Free(t) /\ (IsValid(a, l) \/ IsAssigned(a)) /\ Overwrites(t, k, e)
      /\ UNCHANGED <<gstate, tlb>> /\ f' = [f EXCEPT ![c] = nf]
  BY DEF DataDestroy, Become, At, Overwrites
<1>3. Spot(p, r, i, l, t, k)
  BY <1>1, <1>2, WalkSpot
<1>4. SafeState(p)'
  BY DataDestroySafe
<1>5. /\ nf.pc = pc /\ nf.then = "free" /\ nf.r = r /\ nf.llt = t /\ nf.sub = a.pa /\ nf.span = {i}
      /\ IsValid(a, l) => pc = "tlbi"
  BY DEF IdleFrame, DestroyContinues
<1> HIDE DEF t, k, e, nf, pc
<1>6. f'[c] = nf /\ \A d \in Cpus : d # c => f'[d] = f[d]
  BY <1>2, FrameChanged
<1>7. f[c].pc # "tlbi" /\ f[c].then # "make" /\ f'[c].then # "make"
  BY <1>5, <1>6, IdleFrameHere
<1>8. a.desc = 0 \/ Takes(f'[c], r, i, l, t, a, e)
  <2>1. CASE IsAssigned(a)
    BY <1>1, <1>3, <2>1, AssignedEntry DEF Spot
  <2>2. CASE IsValid(a, l)
    BY <1>1, <1>5, <1>6, <2>2 DEF Takes
  <2> QED BY <1>2, <2>1, <2>2
<1> HIDE DEF l
<1> QED BY <1>2, <1>3, <1>4, <1>6, <1>7, <1>8, WriteTlb

---------------------------------------------------------------------------
(* The steps that write no entry *)
LEMMA FrameTlb ==
  ASSUME NEW w, NEW p, SafeState(p), TlbState(p, w), SafeState(p)', NEW c \in Cpus,
         \A d \in Cpus : d # c => f'[d] = f[d],
         f[c].pc # "tlbi", f[c].then # "make", f'[c].then # "make",
         Used(gstate') = Used(gstate), UNCHANGED <<tbl, tlb>>
  PROVE  TlbState(p, w)'
<1>1. OneMoves(f, f', c)
  BY DEF SafeState, StateOK, Typed, OneMoves
<1>2. \A u, j : ~BreakAt(f[c], u, j) /\ ~BreakAt(f'[c], u, j)
  BY DEF BreakAt
<1>3. \A u \in Tables, j \in Slots : View(tbl', f')[u][j] = View(tbl, f)[u][j]
  BY <1>1, <1>2, OthersView
<1>4. OthersStay(p, p, c)
  BY DEF OthersStay
<1>5. tlb' \subseteq tlb /\ \A x \in tlb' : \A t : ~Stale(View(tbl, f), x, t, f[c])
  BY DEF Stale
<1>6. BreakKnown(tbl', tlb', p, w, f'[c])
  BY DEF BreakKnown
<1>7. ASSUME NEW x \in tlb', NEW t \in Used(gstate), Cached(x), x.e = View(tbl, f)[t][Slot(x)]
      PROVE  t \in Used(gstate') /\ x.e = View(tbl', f')[t][Slot(x)]
  <2>1. t \in Tables /\ Slot(x) \in Slots
    BY <1>7, UsedAreTables, BlockOf DEF Cached, Slot
  <2> QED BY <1>3, <1>7, <2>1
<1>8. Followed(w, p, p, c)
  BY <1>7 DEF Followed
<1> QED BY <1>4, <1>5, <1>6, <1>8, TlbStep

LEMMA StopsTlb ==
  ASSUME NEW w, NEW p, SafeState(p), TlbState(p, w), SafeState(p)', NEW c \in Cpus, Idle(c),
         NEW t, NEW g, Stops(c, t, g), UNCHANGED <<gstate, tbl, tlb>>
  PROVE  TlbState(p, w)'
<1> DEFINE nf == [IdleFrame EXCEPT !.pc = "stuck", !.llt = t, !.sub = g]
<1>1. f' = [f EXCEPT ![c] = nf] /\ nf.then = "idle"
  BY DEF Stops, Become, IdleFrame
<1> HIDE DEF nf
<1>2. f'[c] = nf /\ \A d \in Cpus : d # c => f'[d] = f[d]
  BY <1>1, FrameChanged
<1>3. f[c].pc # "tlbi" /\ f[c].then # "make" /\ f'[c].then # "make"
  BY <1>1, <1>2, IdleFrameHere
<1> QED BY <1>2, <1>3, FrameTlb

LEMMA InitRipasTlb ==
  ASSUME NEW w, NEW p, SafeState(p), TlbState(p, w), NEW c \in Cpus, Idle(c),
         NEW r \in Realms, InitRipas(c, r)
  PROVE  TlbState(p, w)'
<1> DEFINE nf == [IdleFrame EXCEPT !.pc = "ripas", !.r = r]
<1>1. f' = [f EXCEPT ![c] = nf] /\ nf.then = "idle" /\ UNCHANGED <<gstate, tbl, tlb>>
  BY DEF InitRipas, Become, IdleFrame
<1> HIDE DEF nf
<1>2. f'[c] = nf /\ \A d \in Cpus : d # c => f'[d] = f[d]
  BY <1>1, FrameChanged
<1>3. f[c].pc # "tlbi" /\ f[c].then # "make" /\ f'[c].then # "make"
  BY <1>1, <1>2, IdleFrameHere
<1>4. SafeState(p)'
  BY InitRipasSafe
<1> QED BY <1>1, <1>2, <1>3, <1>4, FrameTlb

LEMMA InitRipasFailsTlb ==
  ASSUME NEW w, NEW p, SafeState(p), TlbState(p, w), NEW c \in Cpus, InitRipasFails(c)
  PROVE  TlbState(p, w)'
<1>1. f[c].pc = "ripas" /\ f' = [f EXCEPT ![c] = IdleFrame] /\ Return(c)
      /\ UNCHANGED <<gstate, tbl, refs, tlb>>
  BY DEF InitRipasFails, Return, Become
<1>2. f'[c] = IdleFrame /\ \A d \in Cpus : d # c => f'[d] = f[d]
  BY <1>1, FrameChanged
<1>3. f[c].then = "idle"
  BY <1>1 DEF SafeState, StateOK, FramesOK, FrameOK
<1>4. f[c].pc # "tlbi" /\ f[c].then # "make" /\ f'[c].then # "make"
  BY <1>1, <1>2, <1>3, IdleIsFrame
<1>5. SafeState(p)'
  BY <1>1, <1>3, ReturnSafe
<1> QED BY <1>1, <1>2, <1>4, <1>5, FrameTlb

LEMMA DataFreeTlb ==
  ASSUME NEW w, NEW p, SafeState(p), TlbState(p, w), NEW c \in Cpus, DataFree(c)
  PROVE  TlbState(p, w)'
<1>1. /\ f[c].pc = "free" /\ f' = [f EXCEPT ![c] = IdleFrame] /\ UNCHANGED <<tbl, tlb>>
      /\ gstate' = [gstate EXCEPT ![f[c].sub] = "DELEGATED"]
  BY DEF DataFree, Return, Become
<1>2. f'[c] = IdleFrame /\ \A d \in Cpus : d # c => f'[d] = f[d]
  BY <1>1, FrameChanged
<1>3. f[c].then = "free" /\ f[c].sub \in Granules /\ gstate[f[c].sub] = "DATA"
  BY <1>1 DEF SafeState, StateOK, FramesOK, FrameOK, FreeOK, MakeOK, Typed, Frames
<1>4. f[c].pc # "tlbi" /\ f[c].then # "make" /\ f'[c].then # "make"
  BY <1>1, <1>2, <1>3, IdleIsFrame
<1>5. SafeState(p)'
  BY DataFreeSafe
<1>6. Used(gstate') = Used(gstate)
  BY <1>1, <1>3 DEF Used, SafeState, StateOK, Typed
<1> QED BY <1>1, <1>2, <1>4, <1>5, <1>6, FrameTlb

---------------------------------------------------------------------------
(* The start of a break: the table below maps nothing. *)
LEMMA ViewBreaks ==
  ASSUME NEW F, NEW H, NEW c, OneMoves(F, H, c), F[c].then # "make",
         NEW T, NEW T2, NEW t \in Tables, NEW k \in Slots,
         \A u, j : BreakAt(H[c], u, j) <=> u = t /\ j = k,
         H[c].old = View(T, F)[t][k],
         \A u \in Tables, j \in Slots : (u = t /\ j = k) \/ T2[u][j] = T[u][j]
  PROVE  \A u \in Tables, j \in Slots : View(T2, H)[u][j] = View(T, F)[u][j]
<1>1. View(T2, H)[t][k] = View(T, F)[t][k]
  BY ViewIs DEF OneMoves
<1>2. ASSUME NEW u \in Tables, NEW j \in Slots, ~(u = t /\ j = k)
      PROVE  View(T2, H)[u][j] = View(T, F)[u][j]
  <2>1. ~BreakAt(F[c], u, j) /\ ~BreakAt(H[c], u, j)
    BY <1>2 DEF BreakAt
  <2>2. T2[u][j] = T[u][j]
    BY <1>2
  <2> QED BY <2>1, <2>2, OthersView
<1> QED BY <1>1, <1>2

LEMMA BreakTlb ==
  ASSUME NEW w, NEW p, SafeState(p), TlbState(p, w), SafeState(p)', NEW c \in Cpus, Idle(c),
         NEW r \in Realms, NEW i \in Ipas, NEW l, NEW t, NEW k, Spot(p, r, i, l, t, k),
         NEW g \in Granules, g # t, \A j \in Slots : tbl[g][j].desc = 0,
         NEW new \in Entries, NEW span \in SUBSET Int, i \in span,
         NEW nf, BreakFrame(nf, r, t, k, g, new, span),
         f' = [f EXCEPT ![c] = nf], BreakWrites(tbl', t, k), UNCHANGED <<gstate, tlb>>
  PROVE  TlbState(p, w)'
<1>1. /\ t \in Used(gstate) /\ t \in Tables /\ k \in Slots /\ k = Index(i, l) /\ l \in Levels
      /\ p[t] = PlaceOf(r, i, l) /\ p[t].lvl = l /\ Unlocked(f, t)
      /\ View(tbl, f)[t][k] = tbl[t][k] /\ tbl[t][k] \in Entries
  BY DEF Spot, Good
<1>2. /\ nf.pc = "tlbi" /\ nf.then = "make" /\ nf.r = r /\ nf.llt = t
      /\ nf.idx = k /\ nf.sub = g /\ nf.old = tbl[t][k] /\ nf.span = span
  BY DEF BreakFrame, IdleFrame
<1>3. f'[c] = nf /\ \A d \in Cpus : d # c => f'[d] = f[d]
  BY FrameChanged
<1>4. OneMoves(f, f', c) /\ f'[c] \in Frames
  BY <1>3 DEF SafeState, StateOK, Typed, OneMoves
<1>5. /\ \A u \in Tables : u # t => tbl'[u] = tbl[u]
      /\ \A u \in Tables, j \in Slots : (u = t /\ j = k) \/ tbl'[u][j] = tbl[u][j]
  BY <1>1 DEF BreakWrites, SafeState, StateOK, Typed
<1>7. \A u \in Tables, j \in Slots : View(tbl', f')[u][j] = View(tbl, f)[u][j]
  <2> DEFINE H  == f'
             T2 == tbl'
  <2>1. OneMoves(f, H, c) /\ f[c].then # "make"
    BY <1>4, IdleFrameHere
  <2>2. \A u, j : BreakAt(H[c], u, j) <=> u = t /\ j = k
    BY <1>2, <1>3 DEF BreakAt
  <2>3. H[c].old = View(tbl, f)[t][k]
    BY <1>1, <1>2, <1>3
  <2>4. t \in Tables /\ k \in Slots
    BY <1>1
  <2>5. \A u \in Tables, j \in Slots : (u = t /\ j = k) \/ T2[u][j] = tbl[u][j]
    BY <1>5
  <2> HIDE DEF H, T2
  <2>6. \A u \in Tables, j \in Slots : View(T2, H)[u][j] = View(tbl, f)[u][j]
    BY <2>1, <2>2, <2>3, <2>4, <2>5, ViewBreaks
  <2> QED BY <2>6 DEF H, T2
<1>8. OthersStay(p, p, c)
  BY <1>1, <1>3, <1>4, <1>5 DEF OthersStay, OneMoves, Unlocked, Locks, Frames, Tables
<1>9. tlb' \subseteq tlb /\ \A x \in tlb' : \A u : ~Stale(View(tbl, f), x, u, f[c])
  BY IdleFrameHere DEF Stale
<1>10. BreakKnown(tbl', tlb', p, w, f'[c])
  <2>1. \A j \in Slots : tbl'[g][j].desc = 0
    BY <1>5 DEF Tables
  <2> QED BY <1>1, <1>2, <1>3, <2>1 DEF BreakKnown
<1>11. ASSUME NEW x \in tlb', NEW u \in Used(gstate), Cached(x), x.e = View(tbl, f)[u][Slot(x)]
       PROVE  u \in Used(gstate') /\ x.e = View(tbl', f')[u][Slot(x)]
  <2>1. u \in Tables /\ Slot(x) \in Slots
    BY <1>11, UsedAreTables, BlockOf DEF Cached, Slot
  <2> QED BY <1>7, <1>11, <2>1
<1>12. Followed(w, p, p, c)
  BY <1>11 DEF Followed
<1>13. SafeState(p) /\ TlbState(p, w) /\ SafeState(p)' /\ c \in Cpus
  OBVIOUS
<1> QED BY <1>8, <1>9, <1>10, <1>12, <1>13, TlbStep

LEMMA RttDestroyTlb ==
  ASSUME NEW w, NEW p, SafeState(p), TlbState(p, w), NEW c \in Cpus, Idle(c), NEW r \in Realms,
         NEW i \in Ipas, NEW l \in TableLevels, RttDestroy(c, r, i, l)
  PROVE  TlbState(p, w)'
<1> DEFINE t == TableAt(r, i)[l - 1]
           g == TableAt(r, i)[l]
           k == Index(i, l - 1)
           new == IF InPar(i) THEN CreateDestroyed ELSE CreateInvalidNs
           nf == [IdleFrame EXCEPT !.pc = "tlbi", !.then = "make", !.r = r, !.llt = t, !.idx = k,
                                   !.sub = g, !.old = tbl[t][k], !.new = new, !.span = {i},
                                   !.gs = "DELEGATED"]
<1>1. g # None /\ Free(t) /\ Free(g) /\ refs[g] = 0
  BY DEF RttDestroy, Unused
<1>2. tbl' = [tbl EXCEPT ![t][k] = ZeroEntry] /\ UNCHANGED <<gstate, tlb>> /\ f' = [f EXCEPT ![c] = nf]
  BY DEF RttDestroy, Breaks, Become, At
<1>3. BreakFrame(nf, r, t, k, g, new, {i}) /\ {i} \in SUBSET Int /\ i \in {i}
  BY DEF BreakFrame, Ipas
<1>4. BreakWrites(tbl', t, k)
  BY <1>2 DEF BreakWrites
<1> HIDE DEF nf
<1>5. /\ Spot(p, r, i, l - 1, t, k) /\ l \in Levels /\ l - 1 \in Levels /\ g \in Granules /\ g # t
      /\ refs[g] = LiveCount(tbl[g]) /\ \A j \in Slots : Good(tbl[g][j], l)
  BY <1>1, WalkChild
<1>6. new \in Entries
  BY <1>5, NewEntries DEF Good
<1>7. SafeState(p)'
  BY RttDestroySafe
<1> HIDE DEF t, g, k, new
<1>8. \A j \in Slots : tbl[g][j].desc = 0
  BY <1>1, <1>5, LiveCountIs, DeadEntry
<1> QED BY <1>2, <1>3, <1>4, <1>5, <1>6, <1>7, <1>8, BreakTlb

LEMMA RttFoldTlb ==
  ASSUME NEW w, NEW p, SafeState(p), TlbState(p, w), ~BadFold, NEW c \in Cpus, Idle(c),
         NEW r \in Realms, NEW i \in Ipas, NEW l \in TableLevels, RttFold(c, r, i, l)
  PROVE  TlbState(p, w)'
<1> DEFINE t == TableAt(r, i)[l - 1]
           g == TableAt(r, i)[l]
           k == Index(i, l - 1)
           new == Folded(tbl[g], tbl[t][k], l)
           span == FoldSpan(new, i, l)
           nf == [IdleFrame EXCEPT !.pc = "tlbi", !.then = "make", !.r = r, !.llt = t, !.idx = k,
                                   !.sub = g, !.old = tbl[t][k], !.new = new, !.span = span,
                                   !.gs = "DELEGATED"]
<1>1. g # None /\ Free(t) /\ Free(g) /\ Foldable(g, l) /\ ~FoldFails(g, l)
  BY DEF RttFold, BadFold
<1>2. tbl' = [tbl EXCEPT ![t][k] = ZeroEntry] /\ UNCHANGED <<gstate, tlb>> /\ f' = [f EXCEPT ![c] = nf]
  BY DEF RttFold, Breaks, Become, At
<1>3. /\ Spot(p, r, i, l - 1, t, k) /\ l \in Levels /\ l - 1 \in Levels /\ g \in Granules /\ g # t
      /\ refs[g] = LiveCount(tbl[g]) /\ \A j \in Slots : Good(tbl[g][j], l)
  BY <1>1, WalkChild
<1>4. span \in SUBSET Int /\ i \in span
  <2>1. PICK n \in Nat : n = Pages(l - 1) /\ n > 0
    BY <1>3, PagesAre, LevelIs
  <2>2. span = i .. i + n - 1 \/ span = {i}
    BY <2>1 DEF FoldSpan
  <2> QED BY <2>1, <2>2 DEF Ipas
<1> HIDE DEF span
<1>5. BreakFrame(nf, r, t, k, g, new, span)
  BY DEF BreakFrame
<1>6. BreakWrites(tbl', t, k)
  BY <1>2 DEF BreakWrites
<1> HIDE DEF nf
<1>7. SafeState(p)'
  BY RttFoldSafe
<1> HIDE DEF t, g, k
<1>8. new \in Entries /\ \A j \in Slots : tbl[g][j].desc = 0
  <2>0. 0 \in Slots /\ E # 0
    BY EPositive DEF Slots
  <2>1. CASE refs[g] = 0
    <3>1. IsUniform(tbl[g])
      BY <1>1, <2>0, <2>1 DEF Foldable
    <3>2. new \in Entries
      BY <1>3, <3>1, FoldsDead DEF Good
    <3>3. \A j \in Slots : tbl[g][j].desc = 0
      BY <1>3, <2>1, LiveCountIs, DeadEntry
    <3> QED BY <3>2, <3>3
  <2>2. CASE refs[g] # 0
    <3>1. refs[g] = E /\ l = 3
      BY <1>1, <1>3, <2>2, LevelIs DEF Foldable, RTT_MIN_BLOCK_LEVEL
    <3>2. \A j \in Slots : Live(tbl[g][j])
      BY <1>3, <3>1, LiveCountIs
    <3>3. FullTable(g) /\ new = CreateAssignedEmpty(tbl[g][0].pa)
      BY <1>1, <1>3, <3>1, <3>2, FoldsFull
    <3>4. \A j \in Slots : tbl[g][j].desc = 0
      BY <1>3, <3>3, AssignedEntry DEF FullTable
    <3>5. tbl[g][0].pa \in Granules /\ Aligned(tbl[g][0].pa, 2)
      <4>1. tbl[g][0].pa \in Granules /\ tbl[g][0].pa % E = 0
        BY <1>3, <2>0, <3>3, AssignedEntry DEF FullTable
      <4> QED BY <4>1, PagesAre DEF Aligned
    <3>6. new \in Entries
      BY <3>3, <3>5, LevelsAre, NewEntries DEF Good
    <3> QED BY <3>4, <3>6
  <2> QED BY <2>1, <2>2
<1> HIDE DEF new
<1> QED BY <1>2, <1>3, <1>4, <1>5, <1>6, <1>7, <1>8, BreakTlb

(* A cached entry of the table that the command takes is invalidated. *)
LEMMA TlbiTlb ==
  ASSUME NEW w, NEW p, SafeState(p), TlbState(p, w), NEW c \in Cpus, Tlbi(c)
  PROVE  TlbState(p, w)'
<1> DEFINE fr == f[c]
           nf == IF fr.then = "idle" THEN IdleFrame ELSE [fr EXCEPT !.pc = fr.then]
<1>1. /\ fr.pc = "tlbi" /\ UNCHANGED <<gstate, tbl>> /\ tlb' = tlb \ Invalidated(fr.r, fr.span)
      /\ f' = [f EXCEPT ![c] = nf]
  BY DEF Tlbi, Return, Become
<1>2. f'[c] = nf /\ \A d \in Cpus : d # c => f'[d] = f[d]
  <2> HIDE DEF nf
  <2> QED BY <1>1, FrameChanged
<1>3. SafeState(p)' /\ f \in [Cpus -> Frames] /\ f' \in [Cpus -> Frames] /\ fr \in Frames
      /\ LocksDiffer(f) /\ LocksDiffer(f')
  BY TlbiSafe DEF SafeState, StateOK, Typed
<1>4. /\ nf.then = fr.then
      /\ fr.then # "idle" => /\ nf.llt = fr.llt /\ nf.idx = fr.idx /\ nf.sub = fr.sub
                             /\ nf.old = fr.old /\ nf.r = fr.r /\ nf.span = fr.span
  BY <1>3 DEF IdleFrame, Frames
<1> HIDE DEF nf
<1>5. View(tbl', f') = View(tbl, f)
  <2> DEFINE H == f'
  <2>1. SameWork(f, H)
    BY <1>2, <1>4 DEF SameWork
  <2>2. H \in [Cpus -> Frames] /\ LocksDiffer(H)
    BY <1>3
  <2> HIDE DEF H
  <2>3. View(tbl, H) = View(tbl, f)
    BY <1>3, <2>1, <2>2, SameView
  <2> QED BY <1>1, <2>3 DEF H
<1>6. \A x \in tlb' : Cached(x) /\ x \in tlb /\ ~(x.r = fr.r /\ \E i \in fr.span : Covers(x, i))
  BY <1>1 DEF Invalidated, TlbState
<1>7. \A x \in tlb' : \A t : ~Stale(View(tbl, f), x, t, fr)
  <2> SUFFICES ASSUME NEW x \in tlb', x.r = fr.r, x.ipa \in fr.span PROVE FALSE
    BY DEF Stale
  <2>1. Covers(x, x.ipa)
    BY <1>6, EntryOfPage DEF Cached, Covers
  <2> QED BY <1>6, <2>1
<1>8. OthersStay(p, p, c)
  BY <1>1, <1>2 DEF OthersStay
<1>9. BreakKnown(tbl', tlb', p, w, f'[c])
  <2> SUFFICES ASSUME fr.then = "make" PROVE BreakKnown(tbl', tlb', p, w, nf)
    BY <1>2, <1>4 DEF BreakKnown
  <2>1. BreakKnown(tbl, tlb, p, w, fr)
    BY DEF TlbState
  <2>2. MakeOK(tbl, gstate, refs, p, fr)
    BY DEF SafeState, StateOK, FramesOK, FrameOK
  <2>3. PICK l \in Levels : l = p[fr.llt].lvl
    BY <2>2, UsedAreTables DEF MakeOK, SafeState, StateOK, Shape, TreeTyped, Places
  <2>4. PICK i \in Ipas : i \in fr.span /\ p[fr.llt] = PlaceOf(fr.r, i, l) /\ fr.idx = Index(i, l)
    BY <2>1, <2>3 DEF BreakKnown
  <2>5. ASSUME NEW x \in tlb', Sits(p, x, fr.llt), Slot(x) = fr.idx PROVE FALSE
    <3>1. PlaceOf(x.r, x.ipa, x.lvl) = PlaceOf(fr.r, i, l)
      BY <2>4, <2>5 DEF Sits
    <3>2. x.lvl = l /\ x.r = fr.r /\ x.ipa \in Ipas /\ Align(x.ipa, l) = x.ipa
      BY <1>6, <3>1 DEF PlaceOf, Cached
    <3>3. Align(x.ipa, l) = Align(i, l)
      BY <2>4, <2>5, <3>1, <3>2, SameEntryOfTable DEF Slot
    <3>4. i \in Block(x.ipa, l)
      BY <3>2, <3>3, EntryOfPage
    <3> QED BY <1>6, <2>4, <3>2, <3>4 DEF Covers
  <2> QED BY <1>1, <1>4, <2>1, <2>5 DEF BreakKnown
<1>10. tlb' \subseteq tlb
  BY <1>6
<1>11. Followed(w, p, p, c)
  BY <1>1, <1>5 DEF Followed
<1> QED BY <1>3, <1>7, <1>8, <1>9, <1>10, <1>11, TlbStep

---------------------------------------------------------------------------
(* The end of a break: nothing is cached of the entry, nor of the table. *)
LEMMA OthersViewHere ==
  ASSUME NEW F, NEW H, NEW c, OneMoves(F, H, c), NEW T, NEW T2
  PROVE  \A u \in Tables, j \in Slots :
           T2[u][j] = T[u][j] /\ ~BreakAt(F[c], u, j) /\ ~BreakAt(H[c], u, j)
             => View(T2, H)[u][j] = View(T, F)[u][j]
<1>1. \A T1, T3 : \A u \in Tables, j \in Slots :
        T3[u][j] = T1[u][j] /\ ~BreakAt(F[c], u, j) /\ ~BreakAt(H[c], u, j)
          => View(T3, H)[u][j] = View(T1, F)[u][j]
  BY OthersView
<1> QED BY <1>1

SameBut(T, T2, t, k, g) ==
  \A u \in Tables, j \in Slots : (u = t /\ j = k) \/ u = g \/ T2[u][j] = T[u][j]
EndsBreak(fr, nf, t, k, g) ==
  fr.llt = t /\ fr.idx = k /\ g \in Locks(fr) /\ g # t /\ nf.then # "make"

LEMMA ViewEnds ==
  ASSUME NEW F, NEW H, NEW c, OneMoves(F, H, c), NEW T, NEW T2,
         NEW t \in Tables, NEW k \in Slots, NEW g \in Tables,
         EndsBreak(F[c], H[c], t, k, g), SameBut(T, T2, t, k, g)
  PROVE  /\ SameBut(View(T, F), View(T2, H), t, k, g)
         /\ \A j \in Slots : View(T, F)[g][j] = T[g][j]
<1>1. \A u, j : ~BreakAt(H[c], u, j) /\ (BreakAt(F[c], u, j) => u = t /\ j = k)
  BY DEF BreakAt, EndsBreak
<1>5. \A u \in Tables, j \in Slots :
        T2[u][j] = T[u][j] /\ ~BreakAt(F[c], u, j) /\ ~BreakAt(H[c], u, j)
          => View(T2, H)[u][j] = View(T, F)[u][j]
  BY OthersViewHere
<1>2. ASSUME NEW u \in Tables, NEW j \in Slots, ~(u = t /\ j = k), u # g
      PROVE  View(T2, H)[u][j] = View(T, F)[u][j]
  <2>1. ~BreakAt(F[c], u, j) /\ ~BreakAt(H[c], u, j)
    BY <1>1, <1>2
  <2>2. T2[u][j] = T[u][j]
    BY <1>2 DEF SameBut
  <2> QED BY <1>5, <2>1, <2>2
<1>3. ASSUME NEW j \in Slots PROVE View(T, F)[g][j] = T[g][j]
  <2>1. \A d \in Cpus : d # c => g \notin Locks(F[d])
    BY DEF OneMoves, LocksDiffer, EndsBreak
  <2>2. \A d \in Cpus : ~BreakAt(F[d], g, j)
    BY <1>1, <2>1, NoneIsNoTable DEF BreakAt, Locks, EndsBreak
  <2> QED BY <2>2, ViewIs DEF OneMoves
<1> QED BY <1>2, <1>3 DEF SameBut

LEMMA MakeTlb ==
  ASSUME NEW w, NEW p, SafeState(p), TlbState(p, w), NEW c \in Cpus, Make(c)
  PROVE  TlbState(p, w)'
<1>0. PICK t, k, g, l : t = f[c].llt /\ k = f[c].idx /\ g = f[c].sub /\ l = p[t].lvl
  OBVIOUS
<1> DEFINE V == View(tbl, f)
           V2 == View(tbl', f')
<1>1. /\ f \in [Cpus -> Frames] /\ LocksDiffer(f) /\ tbl \in [Tables -> [Slots -> Entries]]
      /\ gstate \in [Granules -> {"DELEGATED", "RTT", "DATA"}]
      /\ p \in [Tables -> Places] /\ FrameOK(tbl, gstate, refs, p, f[c]) /\ Shape(V, gstate, p)
  BY DEF SafeState, StateOK, Typed, FramesOK, Shape, TreeTyped
<1>2. f[c].pc = "make" /\ f[c].then = "make" /\ MakeOK(tbl, gstate, refs, p, f[c])
  <2>1. f[c].pc = "make" /\ f[c].then \in {"idle", "make", "free"}
    BY <1>1 DEF Make, Frames
  <2>2. f[c].then = "make"
    BY <1>1, <2>1 DEF FrameOK, FreeOK
  <2> QED BY <1>1, <2>1, <2>2 DEF FrameOK
<1>3. /\ t \in Used(gstate) /\ t \in Tables /\ k \in Slots /\ g \in Granules /\ g \in Tables
      /\ f[c].old.pa = g /\ IsTable(f[c].old, l) /\ f[c].gs = "DELEGATED"
  BY <1>0, <1>1, <1>2, UsedAreTables DEF MakeOK, Frames, Tables
<1>4. /\ tbl' = [tbl EXCEPT ![t][k] = f[c].new, ![g] = ZeroTable] /\ UNCHANGED tlb
      /\ gstate' = [gstate EXCEPT ![g] = "DELEGATED"] /\ f' = [f EXCEPT ![c] = IdleFrame]
  BY <1>0, <1>3 DEF Make, Return, Become
<1>5. g # t
  <2>1. BreakAt(f[c], t, k)
    BY <1>0, <1>2 DEF BreakAt
  <2>2. V[t][k] = f[c].old
    BY <1>1, <1>3, <2>1, ViewIs
  <2>3. Points(V, p, t, k) /\ V[t][k].pa = g
    BY <1>0, <1>3, <2>2 DEF Points
  <2>4. p[g] = Child(p[t], k) /\ l \in Levels
    BY <1>0, <1>1, <1>3, <2>3 DEF Shape, ChildrenPlaced, Places
  <2> QED BY <1>0, <2>4, LevelIs DEF Child
<1>6. SafeState(p)' /\ f' \in [Cpus -> Frames] /\ LocksDiffer(f')
  BY MakeSafe DEF SafeState, StateOK, Typed
<1>7. f'[c] = IdleFrame /\ \A d \in Cpus : d # c => f'[d] = f[d]
  BY <1>4, FrameChanged
<1>8. Locks(f[c]) = {t, g}
  BY <1>0, <1>3, NoneIsNoTable DEF Locks
<1>9. /\ \A u \in Tables : u # t /\ u # g => tbl'[u] = tbl[u]
      /\ \A u \in Tables, j \in Slots : (u = t /\ j = k) \/ u = g \/ tbl'[u][j] = tbl[u][j]
  BY <1>1, <1>3, <1>4, <1>5
<1>10. /\ \A u \in Tables, j \in Slots : (u = t /\ j = k) \/ u = g \/ V2[u][j] = V[u][j]
       /\ \A j \in Slots : V[g][j] = tbl[g][j]
  <2> DEFINE H  == f'
             T2 == tbl'
  <2>1. OneMoves(f, H, c) /\ H[c].then # "make"
    BY <1>1, <1>6, <1>7, IdleIsFrame DEF OneMoves
  <2>2. SameBut(tbl, T2, t, k, g)
    BY <1>9 DEF SameBut
  <2>3. EndsBreak(f[c], H[c], t, k, g)
    BY <1>0, <1>5, <1>8, <2>1 DEF EndsBreak
  <2>4. t \in Tables /\ k \in Slots /\ g \in Tables
    BY <1>3
  <2> HIDE DEF H, T2, V, V2
  <2>5. SameBut(View(tbl, f), View(T2, H), t, k, g) /\ \A j \in Slots : View(tbl, f)[g][j] = tbl[g][j]
    BY <2>1, <2>2, <2>3, <2>4, ViewEnds
  <2> QED BY <2>5 DEF H, T2, V, V2, SameBut
<1>11. \A u : u \in Used(gstate) /\ u # g => u \in Used(gstate')
  BY <1>1, <1>3, <1>4 DEF Used
<1>12. OthersStay(p, p, c)
  <2>1. \A d \in Cpus : d # c => t \notin Locks(f[d]) /\ g \notin Locks(f[d])
    BY <1>1, <1>8 DEF LocksDiffer
  <2>2. \A d \in Cpus : Locks(f[d]) \subseteq Tables
    BY <1>1 DEF Locks, Frames, Tables
  <2> QED BY <1>7, <1>9, <1>11, <2>1, <2>2 DEF OthersStay
<1>13. tlb' \subseteq tlb /\ \A x \in tlb' : \A u : ~Stale(V, x, u, f[c])
  BY <1>2, <1>4 DEF Stale
<1>14. BreakKnown(tbl', tlb', p, w, f'[c])
  BY <1>7, IdleIsFrame DEF BreakKnown
<1>15. BreakKnown(tbl, tlb, p, w, f[c])
  BY DEF TlbState
<1>16. ASSUME NEW x \in tlb', NEW u \in Used(gstate), Cached(x), Watched(w, x), Sits(p, x, u),
              x.e = V[u][Slot(x)]
       PROVE  u \in Used(gstate') /\ p[u] = p[u] /\ x.e = V2[u][Slot(x)]
  <2>1. u \in Tables /\ Slot(x) \in Slots /\ x \in tlb /\ x.e.desc # 0
    BY <1>4, <1>16, UsedAreTables, BlockOf DEF Cached, Slot
  <2>2. u # g
    BY <1>0, <1>2, <1>10, <1>15, <1>16, <2>1 DEF BreakKnown
  <2>3. ~(u = t /\ Slot(x) = k)
    BY <1>0, <1>2, <1>15, <1>16, <2>1 DEF BreakKnown
  <2> HIDE DEF V, V2
  <2> QED BY <1>10, <1>11, <1>16, <2>1, <2>2, <2>3
<1>17. Followed(w, p, p, c)
  BY <1>16 DEF Followed
<1> QED BY <1>6, <1>12, <1>13, <1>14, <1>17, TlbStep

---------------------------------------------------------------------------
(* A new table takes the place of an entry that was not cached, except for *)
(* a block of the host's memory.                                           *)
LEMMA UnknownIsNs ==
  ASSUME NEW e, NEW l \in Levels, l < 3, Good(e, l), ~IsTable(e, l), e.desc # 0
  PROVE  ~Recognised(e, l) /\ e.ns
<1>1. ~IsValid(e, l) /\ ~IsValidNs(e, l)
  BY NoValidBlock
<1>2. ~Recognised(e, l)
  BY <1>1 DEF Recognised, IsUnassigned, IsDestroyed, IsAssigned, HasHipas, S2TTE_Lx_INVALID
<1>3. e.ns
  BY DEF Good, IsTable, RTT_PAGE_LEVEL, S2TTE_L012_TABLE
<1> QED BY <1>2, <1>3

LEMMA RttCreateTlb ==
  ASSUME NEW w, NEW p, SafeState(p), TlbState(p, w), NEW c \in Cpus, Idle(c), NEW r \in Realms,
         NEW i \in Ipas, NEW l \in TableLevels, NEW g \in Granules, RttCreate(c, r, i, l, g),
         w => Recognised(At(TableAt(r, i)[l - 1], i, l - 1), l - 1)
  PROVE  \E q : SafeState(q)' /\ TlbState(q, w)'
<1>0. PICK t, k : t = TableAt(r, i)[l - 1] /\ k = Index(i, l - 1)
  OBVIOUS
<1>1. t # None /\ Free(t) /\ Takable(g) /\ ~IsTable(tbl[t][k], l - 1)
  BY <1>0 DEF RttCreate, At
<1>2. l \in Levels /\ l - 1 \in Levels /\ l - 1 < 3
  BY Stage2Assumption DEF Levels, TableLevels, RTT_PAGE_LEVEL
<1>3. Spot(p, r, i, l - 1, t, k)
  BY <1>0, <1>1, <1>2, WalkSpot
<1>4. /\ t \in Used(gstate) /\ t \in Tables /\ k \in Slots /\ Unlocked(f, t)
      /\ View(tbl, f)[t][k] = tbl[t][k] /\ Good(tbl[t][k], l - 1)
      /\ ~IsValid(tbl[t][k], l - 1) /\ ~IsValidNs(tbl[t][k], l - 1)
  BY <1>2, <1>3, NoValidBlock DEF Spot
<1>5. /\ tbl' = [tbl EXCEPT ![g] = Unfolded(tbl[t][k], l), ![t][k] = CreateTable(g)]
      /\ gstate' = [gstate EXCEPT ![g] = "RTT"] /\ UNCHANGED <<f, tlb>>
  BY <1>0, <1>4 DEF RttCreate, At
<1>6. w => Recognised(tbl[t][k], l - 1)
  BY <1>0 DEF At
<1>7. PICK q : SafeState(q)' /\ q = [p EXCEPT ![g] = Child(p[t], k)]
  BY <1>0, RttCreateSafe
<1>8. gstate[g] = "DELEGATED" /\ Unlocked(f, g) /\ g \notin Used(gstate) /\ g \in Tables
  BY <1>1, NoneIsNoTable DEF Takable, Free, Unlocked, Locks, Used, Tables
<1>9. /\ f \in [Cpus -> Frames] /\ LocksDiffer(f) /\ tbl \in [Tables -> [Slots -> Entries]]
      /\ gstate \in [Granules -> {"DELEGATED", "RTT", "DATA"}] /\ p \in [Tables -> Places]
  BY DEF SafeState, StateOK, Typed, Shape, TreeTyped
<1>10. /\ \A u \in Tables : u # t /\ u # g => tbl'[u] = tbl[u]
       /\ \A u \in Tables, j \in Slots : (u = t /\ j = k) \/ u = g \/ tbl'[u][j] = tbl[u][j]
  BY <1>4, <1>5, <1>8, <1>9
<1>11. /\ \A u : u # g => q[u] = p[u]
       /\ \A u : u \in Used(gstate) => u \in Used(gstate')
  BY <1>5, <1>7, <1>8, <1>9 DEF Used
<1>12. \A u \in Tables, j \in Slots : (u = t /\ j = k) \/ u = g \/ View(tbl', f')[u][j] = View(tbl, f)[u][j]
  <2> DEFINE T2 == tbl'
  <2>1. \A u \in Tables, j \in Slots : (u = t /\ j = k) \/ u = g \/ T2[u][j] = tbl[u][j]
    BY <1>10
  <2> HIDE DEF T2
  <2>2. \A u \in Tables, j \in Slots : T2[u][j] = tbl[u][j] => View(T2, f)[u][j] = View(tbl, f)[u][j]
    BY <1>9, SameEntry
  <2>3. \A u \in Tables, j \in Slots : (u = t /\ j = k) \/ u = g \/ View(T2, f)[u][j] = View(tbl, f)[u][j]
    BY <2>1, <2>2
  <2> QED BY <1>5, <2>3 DEF T2
<1>13. OthersStay(p, q, c)
  <2>1. \A d \in Cpus : Locks(f[d]) \subseteq Tables
    BY <1>9 DEF Locks, Frames, Tables
  <2> QED BY <1>4, <1>5, <1>8, <1>10, <1>11, <2>1 DEF OthersStay, Unlocked
<1>14. tlb' \subseteq tlb /\ \A x \in tlb' : \A u : ~Stale(View(tbl, f), x, u, f[c])
  BY <1>5, IdleFrameHere DEF Stale
<1>15. BreakKnown(tbl', tlb', q, w, f'[c])
  BY <1>5, IdleFrameHere DEF BreakKnown
<1>16. ASSUME NEW x \in tlb', NEW u \in Used(gstate), Cached(x), Watched(w, x),
              x.e = View(tbl, f)[u][Slot(x)]
       PROVE  u \in Used(gstate') /\ q[u] = p[u] /\ x.e = View(tbl', f')[u][Slot(x)]
  <2>1. u \in Tables /\ u # g /\ Slot(x) \in Slots /\ x.e.desc # 0
    BY <1>8, <1>16, UsedAreTables, BlockOf DEF Cached, Slot
  <2>2. ~(u = t /\ Slot(x) = k)
    <3> SUFFICES ASSUME u = t, Slot(x) = k PROVE FALSE
      OBVIOUS
    <3>1. x.e = tbl[t][k]
      BY <1>4, <1>16
    <3>2. ~Recognised(tbl[t][k], l - 1) /\ x.e.ns
      BY <1>1, <1>2, <1>4, <2>1, <3>1, UnknownIsNs
    <3> QED BY <1>6, <1>16, <3>2 DEF Watched
  <2> QED BY <1>11, <1>12, <1>16, <2>1, <2>2
<1>17. Followed(w, p, q, c)
  BY <1>16 DEF Followed
<1>18. TlbState(q, w)'
  BY <1>7, <1>13, <1>14, <1>15, <1>17, TlbStep
<1> QED BY <1>7, <1>18

---------------------------------------------------------------------------
(* The MMU reads an entry. *)
Reading(r, i, l, t) == [r |-> r, lvl |-> l, ipa |-> Align(i, l), e |-> tbl[t][Index(i, l)]]

LEMMA ReadKnown ==
  ASSUME NEW w, NEW p, SafeState(p), TlbState(p, w), NEW r \in Realms, NEW i \in Ipas,
         NEW l \in Levels, NEW t \in Used(gstate), p[t] = PlaceOf(r, i, l),
         NEW x, x = Reading(r, i, l, t), x.e.desc # 0,
         tlb' = tlb \cup {x}, UNCHANGED <<gstate, tbl, refs, f>>
  PROVE  TlbState(p, w)'
<1>1. PICK k : k = Index(i, l)
  OBVIOUS
<1>2. /\ x.r = r /\ x.lvl = l /\ x.ipa = Align(i, l) /\ x.e = tbl[t][k] /\ k \in Slots
  BY <1>1, BlockOf DEF Reading
<1>3. x.ipa \in Ipas /\ Align(x.ipa, l) = x.ipa /\ Slot(x) = k /\ Sits(p, x, t)
  BY <1>1, <1>2, EntryOfPage DEF Slot, Sits, PlaceOf
<1>4. /\ f \in [Cpus -> Frames] /\ LocksDiffer(f) /\ t \in Tables
      /\ Shape(View(tbl, f), gstate, p) /\ FramesOK(tbl, gstate, f, refs, p)
  BY UsedAreTables DEF SafeState, StateOK, Typed
<1>5. \A d \in Cpus : ~BreakAt(f[d], t, k)
  <2> SUFFICES ASSUME NEW d \in Cpus, f[d].then = "make", f[d].llt = t, f[d].idx = k PROVE FALSE
    BY DEF BreakAt
  <2>1. tbl[t][k] = ZeroEntry
    BY <1>4 DEF FramesOK, FrameOK, MakeOK
  <2> QED BY <1>2, <2>1 DEF ZeroEntry, CreateUnassigned, Invalid, S2TTE_Lx_INVALID
<1>6. View(tbl, f)[t][k] = x.e
  BY <1>2, <1>4, <1>5, ViewIs
<1>7. Good(x.e, l)
  <2>1. p[t].lvl = l
    BY DEF PlaceOf
  <2> QED BY <1>2, <1>4, <1>6, <2>1 DEF Shape, EntriesGood
<1>8. Cached(x) /\ Known(View(tbl, f), gstate, f, p, x)
  BY <1>2, <1>3, <1>6, <1>7 DEF Cached, Known
<1>9. ASSUME NEW d \in Cpus PROVE BreakKnown(tbl, tlb', p, w, f[d])
  <2>1. BreakKnown(tbl, tlb, p, w, f[d])
    BY DEF TlbState
  <2> SUFFICES ASSUME f[d].then = "make", Sits(p, x, f[d].llt) PROVE Slot(x) # f[d].idx
    BY <2>1 DEF BreakKnown
  <2>2. f[d].llt \in Used(gstate)
    BY <1>4 DEF FramesOK, FrameOK, MakeOK
  <2>3. f[d].llt = t
    BY <1>3, <1>4, <2>2 DEF Sits, Shape, PlacesDiffer
  <2> QED BY <1>3, <1>5, <2>3 DEF BreakAt
<1> QED BY <1>8, <1>9 DEF TlbState

(* Where a cached entry leads the MMU, if it is a table's *)
LEMMA CachedTable ==
  ASSUME NEW w, NEW p, SafeState(p), TlbState(p, w), NEW x \in tlb, IsTable(x.e, x.lvl)
  PROVE  /\ x.r \in Realms /\ x.lvl \in Levels /\ x.lvl + 1 \in Levels
         /\ x.e.pa \in Granules /\ gstate[x.e.pa] = "RTT"
         /\ \A i \in Block(x.ipa, x.lvl) : i \in Ipas /\ p[x.e.pa] = PlaceOf(x.r, i, x.lvl + 1)
<1>1. Cached(x)
  BY DEF TlbState
<1>2. x.lvl \in Levels /\ x.lvl < 3 /\ x.e.desc = 3 /\ ~x.e.ns
  BY <1>1 DEF Cached, Good, LeafDesc, IsTable, RTT_PAGE_LEVEL, S2TTE_L012_TABLE, S2TTE_L012_BLOCK
<1>3. x.lvl + 1 \in Levels /\ x.lvl + 1 # StartLevel /\ (x.lvl + 1) - 1 = x.lvl
  BY <1>2, Stage2Assumption DEF Levels, RTT_PAGE_LEVEL
<1>4. PICK t \in Used(gstate) : Sits(p, x, t) /\ x.e = View(tbl, f)[t][Slot(x)]
  <2>1. Known(View(tbl, f), gstate, f, p, x)
    BY <1>2 DEF TlbState, Watched
  <2>2. \A t, c : ~Stale(View(tbl, f), x, t, f[c])
    BY <1>2 DEF Stale
  <2> QED BY <2>1, <2>2 DEF Known
<1>5. Slot(x) \in Slots /\ p[t].lvl = x.lvl
  BY <1>1, <1>4, BlockOf DEF Cached, Slot, Sits, PlaceOf
<1>6. Points(View(tbl, f), p, t, Slot(x))
  BY <1>4, <1>5 DEF Points
<1>7. /\ x.e.pa \in Granules /\ gstate[x.e.pa] = "RTT" /\ p[x.e.pa] = Child(p[t], Slot(x))
  BY <1>4, <1>5, <1>6 DEF SafeState, StateOK, Shape, ChildrenPlaced
<1>8. ASSUME NEW i \in Block(x.ipa, x.lvl)
      PROVE  i \in Ipas /\ p[x.e.pa] = PlaceOf(x.r, i, x.lvl + 1)
  <2>1. i \in Ipas /\ Index(i, x.lvl) = Slot(x) /\ Base(i, x.lvl) = Base(x.ipa, x.lvl)
    BY <1>1, PagesOfEntry DEF Cached, Slot
  <2>2. p[t] = PlaceOf(x.r, i, x.lvl)
    BY <1>4, <2>1 DEF Sits, PlaceOf
  <2>3. Child(PlaceOf(x.r, i, x.lvl), Index(i, x.lvl)) = PlaceOf(x.r, i, x.lvl + 1)
    BY <1>3, <2>1, ChildOfPlace
  <2> QED BY <1>7, <2>1, <2>2, <2>3
<1> QED BY <1>1, <1>2, <1>3, <1>7, <1>8 DEF Cached

LEMMA MmuReadsTlb ==
  ASSUME NEW w, NEW p, SafeState(p), TlbState(p, w), NEW r \in Realms, NEW i \in Ipas,
         MmuReads(r, i)
  PROVE  TlbState(p, w)'
<1>1. PICK s \in MmuReaches(r, i) :
        /\ At(s.t, i, s.lvl).desc # 0
        /\ tlb' = tlb \cup {[r |-> r, lvl |-> s.lvl, ipa |-> Align(i, s.lvl), e |-> At(s.t, i, s.lvl)]}
        /\ UNCHANGED <<gstate, tbl, refs, f>>
  BY DEF MmuReads, S2TTE_Lx_INVALID
<1>2. s.lvl \in Levels /\ s.t \in Used(gstate) /\ p[s.t] = PlaceOf(r, i, s.lvl)
  <2>1. CASE \E l \in Levels : s = [t |-> TableAt(r, i)[l], lvl |-> l] /\ s.t # None
    <3>1. PICK l \in Levels : s = [t |-> TableAt(r, i)[l], lvl |-> l] /\ s.t # None
      BY <2>1
    <3>2. s.t = TableAt(r, i)[l] /\ s.lvl = l /\ TableAt(r, i)[l] # None
      BY <3>1
    <3> QED BY <3>2, WalkPlaces
  <2>2. CASE \E y \in tlb : /\ y.r = r /\ Covers(y, i) /\ IsTable(y.e, y.lvl)
                            /\ s = [t |-> y.e.pa, lvl |-> y.lvl + 1]
    <3>1. PICK y \in tlb : /\ y.r = r /\ Covers(y, i) /\ IsTable(y.e, y.lvl)
                           /\ s = [t |-> y.e.pa, lvl |-> y.lvl + 1]
      BY <2>2
    <3>2. i \in Block(y.ipa, y.lvl) /\ s.t = y.e.pa /\ s.lvl = y.lvl + 1
      BY <3>1 DEF Covers
    <3> QED BY <3>1, <3>2, CachedTable DEF Used
  <2> QED BY <2>1, <2>2 DEF MmuReaches
<1>3. PICK t, l : t = s.t /\ l = s.lvl
  OBVIOUS
<1>4. PICK x : x = Reading(r, i, l, t)
  OBVIOUS
<1>5. tlb' = tlb \cup {x} /\ x.e.desc # 0
  BY <1>1, <1>3, <1>4 DEF Reading, At
<1>6. l \in Levels /\ t \in Used(gstate) /\ p[t] = PlaceOf(r, i, l)
  BY <1>2, <1>3
<1> QED BY <1>1, <1>4, <1>5, <1>6, ReadKnown

---------------------------------------------------------------------------
(* RTT_CREATE overwrites a block of the host's memory, which a Debug build  *)
(* stops at: it asserts that it knows the entry.                           *)
BadCreate ==
  \E c \in Cpus, r \in Realms, l \in TableLevels, i \in Ipas, g \in Granules :
    RttCreate(c, r, i, l, g) /\ ~Recognised(At(TableAt(r, i)[l - 1], i, l - 1), l - 1)

LEMMA TableCommandTlb ==
  ASSUME NEW w, NEW p, SafeState(p), TlbState(p, w), ~BadFold, w => ~BadCreate,
         NEW c \in Cpus, Idle(c), NEW r \in Realms, TableCommand(c, r)
  PROVE  \E q : SafeState(q)' /\ TlbState(q, w)'
<1>1. PICK l \in TableLevels, i \in Ipas :
        \/ \E g \in Granules : RttCreate(c, r, i, l, g) \/ RttCreateAsserts(c, r, i, l, g)
        \/ RttFold(c, r, i, l) \/ RttFoldAsserts(c, r, i, l)
        \/ RttDestroy(c, r, i, l)
  BY DEF TableCommand
<1>2. l \in Levels /\ l - 1 \in Levels
  BY Stage2Assumption DEF Levels, TableLevels, RTT_PAGE_LEVEL
<1>3. CASE \E g \in Granules : RttCreate(c, r, i, l, g)
  <2>1. PICK g \in Granules : RttCreate(c, r, i, l, g)
    BY <1>3
  <2>2. w => Recognised(At(TableAt(r, i)[l - 1], i, l - 1), l - 1)
    BY <2>1 DEF BadCreate
  <2> QED BY <2>1, <2>2, RttCreateTlb
<1>4. CASE \E g \in Granules : RttCreateAsserts(c, r, i, l, g)
  <2>1. PICK g \in Granules : RttCreateAsserts(c, r, i, l, g)
    BY <1>4
  <2>2. PICK t : t = TableAt(r, i)[l - 1]
    OBVIOUS
  <2>3. t # None /\ Free(t) /\ Takable(g) /\ Stops(c, t, g) /\ UNCHANGED <<gstate, tbl, refs, tlb>>
    BY <2>1, <2>2 DEF RttCreateAsserts
  <2>4. t \in Used(gstate) /\ Unlocked(f, t)
    BY <1>2, <2>2, <2>3, WalkSpot DEF Spot
  <2>5. gstate[g] # "DATA" /\ Unlocked(f, g)
    BY <2>3 DEF Takable, Free, Unlocked, Locks
  <2>6. SafeState(p)'
    BY <2>3, <2>4, <2>5, StopsSafe
  <2> QED BY <2>3, <2>6, StopsTlb
<1>5. CASE RttFold(c, r, i, l)
  BY <1>5, RttFoldSafe, RttFoldTlb
<1>6. CASE RttFoldAsserts(c, r, i, l)
  <2>1. PICK t, g : t = TableAt(r, i)[l - 1] /\ g = TableAt(r, i)[l]
    OBVIOUS
  <2>2. /\ g # None /\ Free(t) /\ Free(g) /\ Stops(c, t, g)
        /\ UNCHANGED <<gstate, tbl, refs, tlb>>
    BY <1>6, <2>1 DEF RttFoldAsserts
  <2>3. PICK k : k = Index(i, l - 1)
    OBVIOUS
  <2>4. Spot(p, r, i, l - 1, t, k) /\ g \in Granules /\ gstate[g] = "RTT" /\ Unlocked(f, g)
    BY <2>1, <2>2, <2>3, WalkChild
  <2>5. t \in Used(gstate) /\ Unlocked(f, t)
    BY <2>4 DEF Spot
  <2>6. SafeState(p)'
    BY <2>2, <2>4, <2>5, StopsSafe
  <2> QED BY <2>2, <2>6, StopsTlb
<1>7. CASE RttDestroy(c, r, i, l)
  BY <1>7, RttDestroySafe, RttDestroyTlb
<1> QED BY <1>1, <1>3, <1>4, <1>5, <1>6, <1>7

LEMMA EntryCommandTlb ==
  ASSUME NEW w, NEW p, SafeState(p), TlbState(p, w), NEW c \in Cpus, Idle(c), NEW r \in Realms,
         EntryCommand(c, r)
  PROVE  TlbState(p, w)'
<1>1. PICK l \in Levels, i \in Ipas :
        \/ l \in MapLevels /\ \E pa \in NsPas : MapNs(r, i, l, pa)
        \/ UnmapNs(c, r, i, l)
        \/ ReadEntryAsserts(c, r, i, l)
  BY DEF EntryCommand, Addresses
<1>2. CASE l \in MapLevels /\ \E pa \in NsPas : MapNs(r, i, l, pa)
  BY <1>2, MapNsTlb
<1>3. CASE UnmapNs(c, r, i, l)
  BY <1>3, UnmapNsTlb
<1>4. CASE ReadEntryAsserts(c, r, i, l)
  <2>1. PICK t : t = TableAt(r, i)[l]
    OBVIOUS
  <2>2. Stops(c, t, None) /\ UNCHANGED <<gstate, tbl, tlb>>
    BY <1>4, <2>1 DEF ReadEntryAsserts
  <2>3. SafeState(p)'
    <3>1. t # None /\ Free(t) /\ UNCHANGED refs
      BY <1>4, <2>1 DEF ReadEntryAsserts
    <3>2. t \in Used(gstate) /\ Unlocked(f, t)
      BY <2>1, <3>1, WalkSpot DEF Spot
    <3> QED BY <2>2, <3>1, <3>2, StopsSafe
  <2> QED BY <2>2, <2>3, StopsTlb
<1> QED BY <1>1, <1>2, <1>3, <1>4

LEMMA WorkTlb ==
  ASSUME NEW w, NEW p, SafeState(p), TlbState(p, w), NEW c \in Cpus, Work(c)
  PROVE  TlbState(p, w)'
<1>1. CASE \E l \in Levels, i \in Ipas : InitRipasWrite(c, i, l)
  BY <1>1, InitRipasWriteTlb
<1> QED BY <1>1, TlbiTlb, MakeTlb, DataFreeTlb, InitRipasFailsTlb DEF Work, Addresses

LEMMA PageCommandTlb ==
  ASSUME NEW w, NEW p, SafeState(p), TlbState(p, w), NEW c \in Cpus, Idle(c), NEW r \in Realms,
         PageCommand(c, r)
  PROVE  TlbState(p, w)'
BY DataDestroyTlb, DataCreateTlb DEF PageCommand

LEMMA TlbKept ==
  ASSUME NEW w, NEW p, SafeState(p), TlbState(p, w), UNCHANGED <<gstate, tbl, refs, tlb, f>>
  PROVE  SafeState(p)' /\ TlbState(p, w)'
BY DEF SafeState, TlbState

LEMMA NextTlb ==
  ASSUME NEW w, NEW p, SafeState(p), TlbState(p, w), Requests(req), [Next]_vars,
         ~BadFold, w => ~BadCreate
  PROVE  \E q : SafeState(q)' /\ TlbState(q, w)'
<1>1. CASE UNCHANGED <<gstate, tbl, refs, tlb, f>>
  BY <1>1, TlbKept
<1>2. CASE \E c \in Cpus : Work(c)
  BY <1>2, WorkSafe, WorkTlb
<1>3. CASE \E c \in Cpus, r \in Realms : Idle(c) /\ TableCommand(c, r)
  BY <1>3, TableCommandTlb
<1>4. CASE \E c \in Cpus, r \in Realms : Idle(c) /\ EntryCommand(c, r)
  BY <1>4, EntryCommandSafe, EntryCommandTlb
<1>5. CASE \E c \in Cpus, r \in Realms : Idle(c) /\ PageCommand(c, r)
  BY <1>5, PageCommandSafe, PageCommandTlb
<1>6. CASE \E c \in Cpus, r \in Realms : Idle(c) /\ InitRipas(c, r)
  BY <1>6, InitRipasSafe, InitRipasTlb
<1>7. CASE \E c \in Cpus, r \in Realms : Idle(c) /\ \E l \in Levels : SetRipas(c, r, l)
  BY <1>7, SetRipasSafe, SetRipasTlb
<1>8. CASE \E r \in Realms : Activate(r)
  BY <1>1, <1>8 DEF Activate
<1>9. CASE \E r \in Realms : \E i \in Ipas : MmuReads(r, i)
  <2>1. PICK r \in Realms, i \in Ipas : MmuReads(r, i)
    BY <1>9
  <2>2. UNCHANGED <<gstate, tbl, refs, f>>
    BY <2>1 DEF MmuReads
  <2>3. SafeState(p)'
    BY <2>2 DEF SafeState
  <2> QED BY <2>1, <2>3, MmuReadsTlb
<1>10. CASE \E r \in Realms : RealmResumes(r)
  BY <1>1, <1>10 DEF RealmResumes
<1>11. CASE \E r \in Realms, a, b \in Ipas, s \in Ripas : RealmAsks(r, a, b + 1, s)
  BY <1>1, <1>11 DEF RealmAsks
<1>12. CASE UNCHANGED vars
  BY <1>1, <1>12 DEF vars
<1> QED
  BY <1>2, <1>3, <1>4, <1>5, <1>6, <1>7, <1>8, <1>9, <1>10, <1>11, <1>12 DEF Next, Realm

---------------------------------------------------------------------------
TlbSafe(w) == (\E p : SafeState(p) /\ TlbState(p, w)) /\ Requests(req)

LEMMA InitTlb == ASSUME Init, NEW w PROVE TlbSafe(w)
<1>1. PICK p : SafeState(p)
  BY InitSafe DEF Safe
<1>2. Requests(req)
  BY InitSafe DEF Safe
<1>3. tlb = {} /\ \A c \in Cpus : f[c] = IdleFrame
  BY DEF Init
<1>4. TlbState(p, w)
  BY <1>3, IdleIsFrame DEF TlbState, BreakKnown
<1> QED BY <1>1, <1>2, <1>4 DEF TlbSafe

LEMMA TlbStays ==
  ASSUME NEW w, TlbSafe(w), Safe, Safe', [Next]_vars, ~BadFold, w => ~BadCreate
  PROVE  TlbSafe(w)'
<1>1. PICK p : SafeState(p) /\ TlbState(p, w)
  BY DEF TlbSafe
<1>2. PICK q : SafeState(q)' /\ TlbState(q, w)'
  BY <1>1, NextTlb DEF Safe
<1> QED BY <1>2 DEF TlbSafe, Safe

LEMMA AssertsFit == Asserts => ~BadFold /\ ~BadCreate
<1> SUFFICES ASSUME Asserts PROVE ~BadFold /\ ~BadCreate
  OBVIOUS
<1>1. ~BadFold
  <2> SUFFICES ASSUME NEW c \in Cpus, NEW r \in Realms, NEW l \in TableLevels, NEW i \in Ipas,
                      RttFold(c, r, i, l)
               PROVE  ~FoldFails(TableAt(r, i)[l], l)
    BY DEF BadFold
  <2> DEFINE g == TableAt(r, i)[l]
  <2>1. Asserts => ~FoldFails(g, l)
    BY DEF RttFold
  <2> QED BY <2>1
<1>2. ~BadCreate
  <2> SUFFICES ASSUME NEW c \in Cpus, NEW r \in Realms, NEW l \in TableLevels, NEW i \in Ipas,
                      NEW g \in Granules, RttCreate(c, r, i, l, g)
               PROVE  Recognised(At(TableAt(r, i)[l - 1], i, l - 1), l - 1)
    BY DEF BadCreate
  <2> DEFINE e == At(TableAt(r, i)[l - 1], i, l - 1)
  <2>1. Asserts => Recognised(e, l - 1)
    BY DEF RttCreate
  <2> QED BY <2>1
<1> QED BY <1>1, <1>2

(* A Debug build; or a Release build, as long as no table is created over a *)
(* block that the host has mapped.                                         *)
CreatesFit == Asserts \/ [][~BadCreate]_vars

LEMMA OwnTlbCorrect == Spec /\ FoldsFit => []TlbSafe(FALSE)
<1>1. Init => TlbSafe(FALSE)
  BY InitTlb
<1>2. TlbSafe(FALSE) /\ Safe /\ Safe' /\ [Next]_vars /\ [~BadFold]_vars => TlbSafe(FALSE)'
  <2>1. CASE UNCHANGED vars
    BY <2>1 DEF TlbSafe, TlbState, SafeState, vars
  <2> QED BY <2>1, TlbStays
<1>3. Asserts => (TlbSafe(FALSE) /\ Safe /\ Safe' /\ [Next]_vars => TlbSafe(FALSE)')
  BY AssertsFit, TlbStays
<1>4. Asserts => (Spec => []TlbSafe(FALSE))
  <2> SUFFICES ASSUME Asserts PROVE Spec => []TlbSafe(FALSE)
    OBVIOUS
  <2>1. TlbSafe(FALSE) /\ Safe /\ Safe' /\ [Next]_vars => TlbSafe(FALSE)'
    BY <1>3
  <2>2. Spec => []Safe
    <3>1. FoldsFit
      BY DEF FoldsFit
    <3> QED BY <3>1, SafeCorrect
  <2> QED BY <1>1, <2>1, <2>2, PTL DEF Spec
<1>5. Spec /\ [][~BadFold]_vars => []TlbSafe(FALSE)
  <2>1. Spec /\ [][~BadFold]_vars => []Safe
    BY SafeCorrect, PTL DEF FoldsFit
  <2> QED BY <1>1, <1>2, <2>1, PTL DEF Spec
<1> QED BY <1>4, <1>5, PTL DEF FoldsFit

LEMMA AllTlbCorrect == Spec /\ FoldsFit /\ CreatesFit => []TlbSafe(TRUE)
<1>1. Init => TlbSafe(TRUE)
  BY InitTlb
<1>2. TlbSafe(TRUE) /\ Safe /\ Safe' /\ [Next]_vars /\ [~BadFold]_vars /\ [~BadCreate]_vars
        => TlbSafe(TRUE)'
  <2>1. CASE UNCHANGED vars
    BY <2>1 DEF TlbSafe, TlbState, SafeState, vars
  <2> QED BY <2>1, TlbStays
<1>3. Asserts => (TlbSafe(TRUE) /\ Safe /\ Safe' /\ [Next]_vars => TlbSafe(TRUE)')
  BY AssertsFit, TlbStays
<1>4. Asserts => (Spec => []TlbSafe(TRUE))
  <2> SUFFICES ASSUME Asserts PROVE Spec => []TlbSafe(TRUE)
    OBVIOUS
  <2>1. TlbSafe(TRUE) /\ Safe /\ Safe' /\ [Next]_vars => TlbSafe(TRUE)'
    BY <1>3
  <2>2. Spec => []Safe
    <3>1. FoldsFit
      BY DEF FoldsFit
    <3> QED BY <3>1, SafeCorrect
  <2> QED BY <1>1, <2>1, <2>2, PTL DEF Spec
<1>5. Spec /\ [][~BadFold]_vars /\ [][~BadCreate]_vars => []TlbSafe(TRUE)
  <2>1. Spec /\ [][~BadFold]_vars => []Safe
    BY SafeCorrect, PTL DEF FoldsFit
  <2> QED BY <1>1, <1>2, <2>1, PTL DEF Spec
<1> QED BY <1>4, <1>5, PTL DEF FoldsFit, CreatesFit

(* Whatever an MMU has cached leads to a table or to memory that is still   *)
(* the realm's: RTT_FOLD, RTT_DESTROY and DATA_DESTROY give a granule back  *)
(* after the last translation to it is gone, while other CPUs go on filling *)
(* the caches from the tables that are being changed.                       *)
THEOREM TlbReachesOwnCorrect == Spec /\ FoldsFit => []TlbReachesOwn
<1>1. TlbSafe(FALSE) => TlbReachesOwn
  <2> SUFFICES ASSUME NEW p, SafeState(p), TlbState(p, FALSE), NEW x \in tlb
               PROVE  IF IsTable(x.e, x.lvl) THEN gstate[x.e.pa] = "RTT"
                      ELSE x.e.ns \/ \A g \in x.e.pa .. x.e.pa + (Pages(x.lvl) - 1) : gstate[g] = "DATA"
    BY DEF TlbSafe, TlbReachesOwn
  <2>1. CASE IsTable(x.e, x.lvl)
    BY <2>1, CachedTable
  <2>2. CASE ~IsTable(x.e, x.lvl) /\ ~x.e.ns
    <3>1. Cached(x) /\ Known(View(tbl, f), gstate, f, p, x)
      BY <2>2 DEF TlbState, Watched
    <3>2. x.lvl = 3 /\ x.e.pa \in Granules
      BY <2>2, <3>1, LevelIs DEF Cached, Good, IsTable, RTT_PAGE_LEVEL, S2TTE_L012_TABLE
    <3>3. x.e.pa .. x.e.pa + (Pages(3) - 1) = {x.e.pa} /\ Mem(x.e, 3) = {x.e.pa}
      <4>1. x.e.pa \in Int /\ Pages(3) = 1 /\ x.e.pa # None
        BY <3>2, PagesAre, NoneIsNoTable DEF Granules
      <4>2. x.e.pa .. x.e.pa + (Pages(3) - 1) = {x.e.pa}
            /\ x.e.pa .. x.e.pa + Pages(3) - 1 = {x.e.pa}
        BY <4>1
      <4> QED BY <2>2, <3>2, <4>1, <4>2 DEF Mem
    <3>4. PICK t \in Used(gstate) :
            Sits(p, x, t) /\ (x.e = View(tbl, f)[t][Slot(x)]
                              \/ \E c \in Cpus : Stale(View(tbl, f), x, t, f[c]))
      BY <3>1 DEF Known
    <3>5. p[t].lvl = 3 /\ Slot(x) \in Slots
      BY <3>1, <3>2, <3>4, BlockOf DEF Sits, PlaceOf, Cached, Slot
    <3>6. CASE Mem(x.e, 3) = Mem(View(tbl, f)[t][Slot(x)], 3)
      <4>1. x.e.pa \in Holds(View(tbl, f), p, t, Slot(x))
        BY <3>3, <3>5, <3>6 DEF Holds
      <4>2. gstate[x.e.pa] = "DATA"
        BY <3>4, <3>5, <4>1 DEF SafeState, StateOK, Memory, MemoryIsData
      <4> QED BY <2>2, <3>2, <3>3, <4>2
    <3>7. CASE \E c \in Cpus : f[c].then = "free" /\ f[c].sub = x.e.pa
      <4>1. gstate[x.e.pa] = "DATA"
        BY <3>7 DEF SafeState, StateOK, FramesOK, FrameOK, FreeOK
      <4> QED BY <2>2, <3>2, <3>3, <4>1
    <3> QED BY <2>2, <3>4, <3>6, <3>7 DEF Stale
  <2>3. CASE ~IsTable(x.e, x.lvl) /\ x.e.ns
    BY <2>3
  <2> QED BY <2>1, <2>2, <2>3
<1> QED BY <1>1, OwnTlbCorrect, PTL

(* What an MMU has cached is what the tables say, unless a command is about *)
(* to invalidate it: no command forgets an invalidation, or asks for it too *)
(* early, in a Debug build.                                                *)
THEOREM TlbCoherentCorrect == Spec /\ FoldsFit /\ CreatesFit => []TlbCoherent
<1>1. TlbSafe(TRUE) => TlbCoherent
  <2> SUFFICES ASSUME NEW p, SafeState(p), TlbState(p, TRUE), NEW x \in tlb
               PROVE  \/ x.e = EntryAt(x.r, x.ipa)[x.lvl]
                      \/ \E c \in Cpus : /\ f[c].pc = "tlbi" /\ f[c].r = x.r
                                         /\ \E i \in f[c].span : Covers(x, i)
    BY DEF TlbSafe, TlbCoherent
  <2>1. Cached(x) /\ Known(View(tbl, f), gstate, f, p, x)
    BY DEF TlbState, Watched
  <2>2. PICK t \in Used(gstate) :
          Sits(p, x, t) /\ (x.e = View(tbl, f)[t][Slot(x)]
                            \/ \E c \in Cpus : Stale(View(tbl, f), x, t, f[c]))
    BY <2>1 DEF Known
  <2>3. CASE x.e = View(tbl, f)[t][Slot(x)]
    <3>1. Path(p, x.r, x.ipa, x.lvl, t)
      BY <2>1, <2>2, TablesFound DEF Cached, Sits
    <3>2. EntryAt(x.r, x.ipa)[x.lvl] = Entry(t, Slot(x)) /\ Slot(x) \in Slots /\ t \in Tables
      BY <2>1, <3>1, BlockOf, UsedAreTables DEF Path, Slot, Cached
    <3> QED BY <2>3, <3>2, EntryIs
  <2>4. CASE \E c \in Cpus : Stale(View(tbl, f), x, t, f[c])
    <3>1. Covers(x, x.ipa)
      BY <2>1, EntryOfPage DEF Cached, Covers
    <3> QED BY <2>4, <3>1 DEF Stale
  <2> QED BY <2>2, <2>3, <2>4
<1> QED BY <1>1, AllTlbCorrect, PTL

---------------------------------------------------------------------------
(***************************************************************************)
(* Stage2 implements IpaSpace.  The pages of a realm are read off the      *)
(* entries that map them, as the view has them (Shows); so a step is       *)
(* followed page by page once it is known what it does to the view: it     *)
(* rewrites one entry, splits one into a table, merges a table into one,   *)
(* or leaves it alone.                                                     *)
(***************************************************************************)
(* What a realm sees of the page that lies o pages into an entry *)
Seen(e, o) ==
  [hipas  |-> CASE e.desc = S2TTE_Lx_INVALID -> e.hipas
                [] e.ns -> "VALID_NS" [] OTHER -> "ASSIGNED",
   ripas  |-> IF e.ns \/ IsAssigned(e) THEN "EMPTY" ELSE e.ripas,
   memory |-> IF e.ns \/ e.pa = None THEN {} ELSE {e.pa + o}]

(* What the mapping Space makes of the state *)
Paged   == [r \in Realms |-> [i \in Ipas |-> PageState(r, i)]]
Sealed  == {r \in Realms : Settled(r)}
Waiting == [r \in Realms |-> [pages |-> req[r].addr .. req[r].end - 1, ripas |-> req[r].ripas]]

(* Page i of realm r lies o pages into entry k of table t. *)
LiesIn(V, G, p, t, k, o, r, i) ==
  /\ t \in Used(G) /\ k \in Slots /\ ~Points(V, p, t, k)
  /\ o \in 0 .. Pages(p[t].lvl) - 1 /\ r = p[t].r /\ i = Start(p[t].base, k, p[t].lvl) + o

Shows(V, G, p, P) ==
  /\ \A t, k, o, r, i : LiesIn(V, G, p, t, k, o, r, i) =>
       r \in Realms /\ i \in Ipas /\ P[r][i] = Seen(V[t][k], o)
  /\ \A r \in Realms, i \in Ipas : \E t, k, o : LiesIn(V, G, p, t, k, o, r, i)

LEMMA DecidedIs ==
  ASSUME NEW r, NEW i, NEW l, NEW e, Leaf(r, i) = [lvl |-> l, e |-> e],
         NEW o, o = i - Align(i, l)
  PROVE  PageState(r, i) = Seen(e, o)
<1>1. Leaf(r, i).lvl = l /\ Leaf(r, i).e = e
  OBVIOUS
<1> QED BY <1>1 DEF PageState, Seen

LEMMA ShowsNow ==
  ASSUME NEW p
  PROVE  SafeState(p) => Shows(View(tbl, f), gstate, p, Paged)
<1> SUFFICES ASSUME SafeState(p) PROVE Shows(View(tbl, f), gstate, p, Paged)
  OBVIOUS
<1> DEFINE V == View(tbl, f)
<1>1. ASSUME NEW t, NEW k, NEW o, NEW r, NEW i, LiesIn(V, gstate, p, t, k, o, r, i)
      PROVE  r \in Realms /\ i \in Ipas /\ Paged[r][i] = Seen(V[t][k], o)
  <2>1. PICK l : l = p[t].lvl
    OBVIOUS
  <2>2. PICK e : e = Entry(t, k)
    OBVIOUS
  <2>3. /\ t \in Used(gstate) /\ k \in Slots /\ ~Points(V, p, t, k)
        /\ o \in 0 .. Pages(l) - 1 /\ r = p[t].r /\ i = Start(p[t].base, k, l) + o
    BY <1>1, <2>1 DEF LiesIn
  <2>4. e = V[t][k] /\ ~IsTable(Entry(t, k), l)
    BY <2>1, <2>2, <2>3, UsedEntry
  <2>5. PICK s \in Realms, j \in Ipas : Decides(p, s, j, t, k, l, o) /\ o = j - Align(j, l)
    <3>1. t \in Used(gstate) /\ k \in Slots /\ l = p[t].lvl /\ o \in 0 .. Pages(l) - 1
      BY <2>1, <2>3
    <3>2. ~IsTable(Entry(t, k), l)
      BY <2>4
    <3> HIDE DEF V
    <3> QED BY <3>1, <3>2, EntryDecides
  <2>6. s = r /\ j = i /\ Leaf(r, i) = [lvl |-> l, e |-> e]
    BY <2>2, <2>3, <2>5 DEF Decides
  <2>7. PageState(r, i) = Seen(e, o)
    BY <2>5, <2>6, DecidedIs
  <2> QED BY <2>4, <2>5, <2>6, <2>7 DEF Paged
<1>2. ASSUME NEW r \in Realms, NEW i \in Ipas
      PROVE  \E t, k, o : LiesIn(V, gstate, p, t, k, o, r, i)
  <2>1. PICK t, k, l, o : Decides(p, r, i, t, k, l, o)
    BY PageDecided
  <2>2. /\ t \in Used(gstate) /\ k \in Slots /\ o \in 0 .. Pages(l) - 1
        /\ p[t].r = r /\ p[t].lvl = l /\ i = Start(p[t].base, k, l) + o /\ ~IsTable(Entry(t, k), l)
    BY <2>1 DEF Decides
  <2>3. ~Points(V, p, t, k)
    BY <2>2, UsedEntry
  <2>4. LiesIn(V, gstate, p, t, k, o, r, i)
    BY <2>2, <2>3 DEF LiesIn
  <2> QED BY <2>4
<1> HIDE DEF V
<1>3. Shows(V, gstate, p, Paged)
  BY <1>1, <1>2 DEF Shows
<1> QED BY <1>3 DEF V

LEMMA ShowsNext ==
  ASSUME NEW p
  PROVE  SafeState(p)' => Shows(View(tbl', f'), gstate', p, Paged')
<1>1. SafeState(p) => Shows(View(tbl, f), gstate, p, Paged)
  BY ShowsNow
<1>2. SafeState(p)' => Shows(View(tbl, f), gstate, p, Paged)'
  BY <1>1, PTL
<1> QED BY <1>2 DEF Shows, LiesIn, View, ViewAt, Used, Points

---------------------------------------------------------------------------
(* An entry is rewritten. *)
Rewritten(P, Q, r, a, n, e, new) ==
  \A s \in Realms, j \in Ipas :
    IF s = r /\ j \in a .. a + n - 1
    THEN P[s][j] = Seen(e, j - a) /\ Q[s][j] = Seen(new, j - a)
    ELSE Q[s][j] = P[s][j]

OneEntry(V, W, G, t, k) ==
  \A u \in Used(G), j \in Slots : (u = t /\ j = k) \/ W[u][j] = V[u][j]

LEMMA PagesRewritten ==
  ASSUME NEW V, NEW W, NEW G, NEW H, NEW p, NEW P, NEW Q, Shows(V, G, p, P), Shows(W, H, p, Q),
         Used(H) = Used(G), NEW t \in Used(G), NEW k \in Slots,
         ~Points(V, p, t, k), ~Points(W, p, t, k), OneEntry(V, W, G, t, k),
         NEW a \in Nat, a = Start(p[t].base, k, p[t].lvl), NEW n \in Nat, n = Pages(p[t].lvl),
         NEW e, e = V[t][k], NEW new, new = W[t][k], NEW r, r = p[t].r
  PROVE  Rewritten(P, Q, r, a, n, e, new)
<1>1. ASSUME NEW j \in Ipas, j \in a .. a + n - 1
      PROVE  P[r][j] = Seen(e, j - a) /\ Q[r][j] = Seen(new, j - a)
  <2>1. PICK o : o = j - a
    OBVIOUS
  <2>2. o \in 0 .. n - 1 /\ j = a + o
    BY <1>1, <2>1
  <2>3. LiesIn(V, G, p, t, k, o, r, j) /\ LiesIn(W, H, p, t, k, o, r, j)
    BY <2>2 DEF LiesIn
  <2> QED BY <2>1, <2>3 DEF Shows
<1>2. ASSUME NEW s \in Realms, NEW j \in Ipas, ~(s = r /\ j \in a .. a + n - 1)
      PROVE  Q[s][j] = P[s][j]
  <2>1. PICK u, i, o : LiesIn(V, G, p, u, i, o, s, j)
    BY DEF Shows
  <2>2. ~(u = t /\ i = k)
    <3>1. SUFFICES ASSUME u = t, i = k PROVE FALSE
      OBVIOUS
    <3>2. o \in 0 .. n - 1 /\ s = r /\ j = a + o
      BY <2>1, <3>1 DEF LiesIn
    <3> QED BY <3>2, <1>2
  <2>3. u \in Used(G) /\ i \in Slots /\ W[u][i] = V[u][i]
    BY <2>1, <2>2 DEF LiesIn, OneEntry
  <2>4. LiesIn(W, H, p, u, i, o, s, j)
    BY <2>1, <2>3 DEF LiesIn, Points
  <2> QED BY <2>1, <2>3, <2>4 DEF Shows
<1> QED BY <1>1, <1>2 DEF Rewritten

---------------------------------------------------------------------------
(* How a realm sees the entries of each kind *)

(* The RIPAS of an entry that is not invalid, or of destroyed pages *)
Clear(e) ==
  /\ IsDestroyed(e) => e.ripas = "EMPTY"
  /\ e.desc # S2TTE_Lx_INVALID => e.ripas = "RAM"

LEMMA SeenIs ==
  ASSUME NEW e, NEW l \in Levels, Good(e, l), NEW o
  PROVE  /\ IsUnassigned(e) => Seen(e, o) = Space!Unassigned(e.ripas)
         /\ IsDestroyed(e) /\ Clear(e) => Seen(e, o) = Space!Destroyed
         /\ IsAssigned(e) => Seen(e, o) = Space!Assigned("EMPTY", e.pa + o)
         /\ IsValid(e, l) /\ Clear(e) => Seen(e, o) = Space!Assigned("RAM", e.pa + o)
         /\ e.ns => Seen(e, o) = Space!MappedNs
         /\ e.ripas \in Ripas
<1>1. None \notin Granules /\ S2TTE_Lx_INVALID = 0 /\ LeafDesc(l) # 0 /\ Granules \subseteq Int
  BY NoneIsNoTable DEF S2TTE_Lx_INVALID, LeafDesc, S2TTE_L3_PAGE, S2TTE_L012_BLOCK, Granules
<1>2. ASSUME IsUnassigned(e) PROVE Seen(e, o) = Space!Unassigned(e.ripas)
  <2>1. e.desc = 0 /\ ~e.ns /\ e.hipas = "UNASSIGNED" /\ e.pa = None
    BY <1>1, <1>2 DEF Good, IsUnassigned, HasHipas
  <2>2. ~(e.ns \/ IsAssigned(e)) /\ (e.ns \/ e.pa = None) /\ e.desc = S2TTE_Lx_INVALID
    BY <1>1, <2>1 DEF IsAssigned, HasHipas
  <2> QED BY <2>1, <2>2 DEF Seen, Space!Unassigned
<1>3. ASSUME IsDestroyed(e), Clear(e) PROVE Seen(e, o) = Space!Destroyed
  BY <1>1, <1>3 DEF Good, Seen, Space!Destroyed, IsDestroyed, IsAssigned, HasHipas, Clear
<1>4. ASSUME IsAssigned(e) PROVE Seen(e, o) = Space!Assigned("EMPTY", e.pa + o)
  BY <1>1, <1>4 DEF Good, Seen, Space!Assigned, IsAssigned, HasHipas
<1>5. ASSUME IsValid(e, l), Clear(e) PROVE Seen(e, o) = Space!Assigned("RAM", e.pa + o)
  <2>1. e.desc = 3 /\ e.pa \in Granules /\ ~e.ns
    BY <1>5, ValidEntry DEF IsValid, Check
  <2>2. ~(e.ns \/ IsAssigned(e)) /\ ~(e.ns \/ e.pa = None) /\ e.desc # S2TTE_Lx_INVALID
    BY <1>1, <2>1 DEF IsAssigned, HasHipas
  <2>3. e.ripas = "RAM"
    BY <1>5, <2>2 DEF Clear
  <2> QED BY <2>1, <2>2, <2>3 DEF Seen, Space!Assigned
<1>6. ASSUME e.ns PROVE Seen(e, o) = Space!MappedNs
  BY <1>1, <1>6 DEF Good, Seen, Space!MappedNs
<1>7. e.ripas \in Ripas
  BY DEF Good, Entries
<1> QED BY <1>2, <1>3, <1>4, <1>5, <1>6, <1>7

(* The pages of an entry *)
Regions == {Block(i, l) : i \in Ipas, l \in Levels}

LEMMA BlockIs ==
  ASSUME NEW i \in Ipas, NEW l \in Levels, NEW a, a = Align(i, l), NEW n, n = Pages(l)
  PROVE  /\ a \in Nat /\ n \in Nat /\ n > 0 /\ Block(i, l) = a .. a + n - 1 /\ a .. a + n - 1 \subseteq Ipas
         /\ a .. a + n - 1 \in Regions /\ i \in a .. a + n - 1
         /\ a \in Ipas /\ Align(a, l) = a
<1>1. a \in Nat /\ a \in Ipas /\ i \in Block(a, l) /\ Align(a, l) = a
  BY EntryOfPage, BlockOf DEF Ipas
<1>2. n \in Nat /\ n > 0
  BY PagesAre, LevelsAre
<1>3. Block(i, l) = a .. a + n - 1 /\ Block(a, l) = a .. a + n - 1
  BY <1>1 DEF Block
<1>4. \A j \in Block(a, l) : j \in Ipas
  BY <1>1, PagesOfEntry
<1>5. Block(i, l) \in Regions
  BY DEF Regions
<1> QED BY <1>1, <1>2, <1>3, <1>4, <1>5

(* What a step does to the pages S of realm r; the others are as they were. *)
Moves(r, S) ==
  Paged' = [Paged EXCEPT ![r] = [j \in Ipas |-> IF j \in S THEN Paged'[r][j] ELSE Paged[r][j]]]

LEMMA OthersAs ==
  ASSUME NEW r \in Realms, NEW S,
         \A s \in Realms, j \in Ipas : (s = r /\ j \in S) \/ Paged'[s][j] = Paged[s][j]
  PROVE  Moves(r, S)
<1>1. Paged = [s \in Realms |-> Paged[s]] /\ \A s \in Realms : Paged[s] = [j \in Ipas |-> Paged[s][j]]
  BY DEF Paged
<1>2. Paged' = [s \in Realms |-> Paged'[s]] /\ \A s \in Realms : Paged'[s] = [j \in Ipas |-> Paged'[s][j]]
  BY DEF Paged
<1>3. ASSUME NEW s \in Realms
      PROVE  Paged'[s] = IF s = r THEN [j \in Ipas |-> IF j \in S THEN Paged'[r][j] ELSE Paged[r][j]]
                         ELSE Paged[s]
  <2>1. CASE s = r
    <3>1. \A j \in Ipas : Paged'[r][j] = IF j \in S THEN Paged'[r][j] ELSE Paged[r][j]
      BY <2>1
    <3> QED BY <1>2, <2>1, <3>1
  <2>2. CASE s # r
    <3>1. \A j \in Ipas : Paged'[s][j] = Paged[s][j]
      BY <2>2
    <3> QED BY <1>1, <1>2, <2>2, <3>1
  <2> QED BY <2>1, <2>2
<1> QED BY <1>1, <1>2, <1>3 DEF Moves

Rewrites(r, i, l, e, new) ==
  Rewritten(Paged, Paged', r, Align(i, l), Pages(l), e, new)

LEMMA RewritesIs ==
  ASSUME NEW r \in Realms, NEW i \in Ipas, NEW l \in Levels, NEW e, NEW new,
         Rewrites(r, i, l, e, new), NEW S, S = Block(i, l), NEW a, a = Align(i, l)
  PROVE  /\ S \subseteq Ipas /\ S \in Regions /\ a \in Nat /\ i \in S
         /\ S = a .. a + Pages(l) - 1
         /\ \A j \in S : Paged[r][j] = Seen(e, j - a) /\ Paged'[r][j] = Seen(new, j - a)
         /\ Moves(r, S)
<1>1. /\ S \subseteq Ipas /\ S \in Regions /\ a \in Nat /\ i \in S
      /\ S = a .. a + Pages(l) - 1
  BY BlockIs
<1>2. /\ \A s \in Realms, j \in Ipas : (s = r /\ j \in S) \/ Paged'[s][j] = Paged[s][j]
      /\ \A j \in S : Paged[r][j] = Seen(e, j - a) /\ Paged'[r][j] = Seen(new, j - a)
  BY <1>1 DEF Rewrites, Rewritten
<1> QED BY <1>1, <1>2, OthersAs

Calm == UNCHANGED <<Sealed, Waiting>>

---------------------------------------------------------------------------
(* The steps of IpaSpace *)
LEMMA MapStep ==
  ASSUME NEW r \in Realms, NEW i \in Ipas, NEW l \in Levels, NEW e, NEW new,
         Rewrites(r, i, l, e, new), Good(e, l), Good(new, l), Calm,
         IsUnassigned(e), new.ns, ~InPar(Align(i, l))
  PROVE  Space!Next
<1>1. PICK a, S : a = Align(i, l) /\ S = Block(i, l)
  OBVIOUS
<1>2. /\ S \subseteq Ipas /\ S \in Regions /\ a \in Nat /\ S = a .. a + Pages(l) - 1
      /\ \A j \in S : Paged[r][j] = Seen(e, j - a) /\ Paged'[r][j] = Seen(new, j - a)
      /\ Moves(r, S)
  BY <1>1, RewritesIs
<1>3. S \cap {j \in Ipas : InPar(j)} = {}
  <2>1. NumIpas \in Int
    BY PagesAre, LevelsAre, EPositive, ProductPositive DEF NumIpas
  <2>2. ~(2 * a < NumIpas) /\ Pages(l) \in Nat
    BY <1>1, PagesAre, LevelsAre DEF InPar
  <2>3. \A j \in S : j >= a /\ j \in Nat /\ ~(2 * j < NumIpas)
    BY <1>2, <2>1, <2>2
  <2> QED BY <2>3 DEF InPar
<1>4. \A j \in S : Paged[r][j].hipas = "UNASSIGNED" /\ Paged'[r][j] = Space!MappedNs
  <2>1. \A o : Seen(e, o) = Space!Unassigned(e.ripas) /\ Seen(new, o) = Space!MappedNs
    BY SeenIs
  <2> QED BY <1>2, <2>1 DEF Space!Unassigned
<1>5. Space!Map(r, S)
  <2>1. Paged' = [Paged EXCEPT ![r] = [j \in Ipas |-> IF j \in S THEN Space!MappedNs ELSE Paged[r][j]]]
    BY <1>2, <1>4 DEF Moves
  <2> QED BY <1>3, <1>4, <2>1 DEF Space!Map, Space!AllAre, Space!Change, Calm, Paged, Sealed, Waiting
<1> QED BY <1>2, <1>5 DEF Space!Next, Regions

(* Also what RTT_CREATE does to a block of the host's memory *)
LEMMA UnmapStep ==
  ASSUME NEW r \in Realms, NEW i \in Ipas, NEW l \in Levels, NEW e, NEW new,
         Rewrites(r, i, l, e, new), Good(e, l), Good(new, l), Calm,
         e.ns, IsUnassigned(new), new.ripas = "EMPTY"
  PROVE  Space!Next
<1>1. PICK a, S : a = Align(i, l) /\ S = Block(i, l)
  OBVIOUS
<1>2. /\ S \subseteq Ipas /\ S \in Regions
      /\ \A j \in S : Paged[r][j] = Seen(e, j - a) /\ Paged'[r][j] = Seen(new, j - a)
      /\ Moves(r, S)
  BY <1>1, RewritesIs
<1>3. \A j \in S : Paged[r][j].hipas = "VALID_NS" /\ Paged'[r][j] = Space!Unassigned("EMPTY")
  <2>1. \A o : Seen(e, o) = Space!MappedNs /\ Seen(new, o) = Space!Unassigned("EMPTY")
    BY SeenIs
  <2> QED BY <1>2, <2>1 DEF Space!MappedNs
<1>4. Space!Unmap(r, S)
  <2>1. Paged' = [Paged EXCEPT ![r] = [j \in Ipas |-> IF j \in S THEN Space!Unassigned("EMPTY")
                                                      ELSE Paged[r][j]]]
    BY <1>2, <1>3 DEF Moves
  <2> QED BY <1>3, <2>1 DEF Space!Unmap, Space!AllAre, Space!Change, Calm, Paged, Sealed, Waiting
<1> QED BY <1>2, <1>4 DEF Space!Next, Regions

(* The pages of an entry lie in one half of the IPA space. *)
LEMMA BlockInHalf ==
  ASSUME NEW i \in Ipas, NEW l \in Levels, InPar(i), NEW j \in Block(i, l)
  PROVE  InPar(j)
<1>1. PICK P \in Nat : /\ P > 0 /\ P = Pages(l)
                       /\ l = StartLevel => NumIpas = P * E
                       /\ l # StartLevel => \E m \in Nat : NumIpas = (P * E) * m
  BY TablePages
<1>2. PICK h \in Nat : E = 2 * h
  <2>1. PICK h \in Nat : E = 2 * h
    BY EvenAssumption, EPositive, Multiple
  <2> QED BY <2>1
<1>3. PICK z \in Nat : NumIpas = 2 * (P * z)
  <2>1. CASE l = StartLevel
    <3>1. NumIpas = P * (2 * h)
      BY <1>1, <1>2, <2>1
    <3>2. P * (2 * h) = 2 * (P * h)
      BY <1>1, <1>2
    <3> QED BY <3>1, <3>2
  <2>2. CASE l # StartLevel
    <3>1. PICK m \in Nat : NumIpas = (P * (2 * h)) * m
      BY <1>1, <1>2, <2>2
    <3>2. (P * (2 * h)) * m = 2 * (P * (h * m)) /\ h * m \in Nat
      BY <1>1, <1>2
    <3> QED BY <3>1, <3>2
  <2> QED BY <2>1, <2>2
<1>4. PICK a \in Nat : a = Align(i, l)
  BY BlockOf
<1>5. PICK q \in Nat : a = P * q
  <2>1. i \in Nat /\ i \in Int
    BY DEF Ipas
  <2>2. PICK d \in Nat, x \in 0 .. P - 1 : i = P * d + x
    BY <1>1, <2>1, Quotient
  <2>3. d \in Int /\ P \in Nat /\ P > 0
    BY <1>1, <2>2
  <2>4. i % P = x
    BY <2>1, <2>2, <2>3, Division
  <2>5. P * d \in Int /\ x \in Int
    BY <1>1, <2>2
  <2>6. a = i - x
    BY <1>1, <1>4, <2>4 DEF Align
  <2>7. a = P * d
    BY <2>2, <2>5, <2>6
  <2> QED BY <2>2, <2>7
<1>6. P * q + P <= P * z
  <2>1. i \in Nat /\ i >= a
    BY <1>1, <1>4, EntryOfPage, BlockOf DEF Ipas
  <2>2. P * z \in Nat /\ P * q \in Nat
    BY <1>1, <1>3, <1>5
  <2>3. P * q < P * z
    BY <1>3, <1>5, <2>1, <2>2 DEF InPar
  <2>4. q < z
    <3>1. SUFFICES ASSUME z <= q PROVE FALSE
      BY <1>3, <1>5
    <3>2. CASE z = q
      BY <2>2, <2>3, <3>2
    <3>3. CASE z < q
      <4>1. P * z + P <= P * q
        BY <1>1, <1>3, <1>5, <3>3, Multiples
      <4> QED BY <1>1, <2>2, <2>3, <4>1
    <3> QED BY <3>1, <3>2, <3>3, <1>3, <1>5
  <2> QED BY <1>1, <1>3, <1>5, <2>4, Multiples
<1>7. j \in a .. a + P - 1
  BY <1>1, <1>4 DEF Block
<1>8. P * z \in Nat /\ P * q \in Nat
  BY <1>1, <1>3, <1>5
<1> QED BY <1>1, <1>3, <1>5, <1>6, <1>7, <1>8 DEF InPar

LEMMA PageBlock ==
  ASSUME NEW i \in Ipas
  PROVE  Block(i, 3) = {i} /\ Align(i, 3) = i /\ i \in Int
<1>1. i \in Int /\ Align(i, 3) = i /\ Pages(3) = 1
  BY AlignPage, PagesAre DEF Ipas
<1> QED BY <1>1 DEF Block

LEMMA PageRewritten ==
  ASSUME NEW r \in Realms, NEW i \in Ipas, NEW e, NEW new, Rewrites(r, i, 3, e, new)
  PROVE  Paged[r][i] = Seen(e, 0) /\ Paged'[r][i] = Seen(new, 0) /\ Moves(r, {i})
<1>1. Block(i, 3) = {i} /\ Align(i, 3) = i /\ i \in Int /\ 3 \in Levels
  BY PageBlock, LevelsAre
<1>2. PICK a, S : a = Align(i, 3) /\ S = Block(i, 3)
  OBVIOUS
<1>3. /\ \A j \in S : Paged[r][j] = Seen(e, j - a) /\ Paged'[r][j] = Seen(new, j - a)
      /\ Moves(r, S)
  BY <1>1, <1>2, RewritesIs
<1>4. i - i = 0 /\ a = i /\ S = {i}
  BY <1>1, <1>2
<1> QED BY <1>3, <1>4

LEMMA DataCreateStep ==
  ASSUME NEW r \in Realms, NEW i \in Ipas, NEW e, NEW new, NEW g \in Granules,
         Rewrites(r, i, 3, e, new), Good(e, 3), Good(new, 3), Clear(new), Calm, InPar(i),
         IsUnassigned(e), new.pa = g, ~Space!Given(g),
         \/ e.ripas = "EMPTY" /\ IsAssigned(new)
         \/ e.ripas = "RAM" /\ IsValid(new, 3)
  PROVE  Space!Next
<1>2. Paged[r][i] = Seen(e, 0) /\ Paged'[r][i] = Seen(new, 0) /\ Moves(r, {i})
  BY PageRewritten
<1>3. Seen(e, 0) = Space!Unassigned(e.ripas) /\ Seen(new, 0) = Space!Assigned(e.ripas, g)
  <2>1. g + 0 = g
    BY DEF Granules
  <2>2. Seen(e, 0) = Space!Unassigned(e.ripas)
    BY LevelsAre, SeenIs
  <2>3. IsAssigned(new) => Seen(new, 0) = Space!Assigned("EMPTY", g + 0)
    BY LevelsAre, SeenIs
  <2>4. IsValid(new, 3) => Seen(new, 0) = Space!Assigned("RAM", g + 0)
    BY LevelsAre, SeenIs
  <2> QED BY <2>1, <2>2, <2>3, <2>4
<1>4. /\ Paged[r][i].hipas = "UNASSIGNED" /\ Paged[r][i].ripas = e.ripas
      /\ Paged'[r][i] = Space!Assigned(Paged[r][i].ripas, g)
  BY <1>2, <1>3 DEF Space!Unassigned
<1>5. Space!DataCreate(r, i, g)
  <2>1. Paged' = [Paged EXCEPT ![r] = [j \in Ipas |-> IF j \in {i} THEN Space!Assigned(Paged[r][j].ripas, g)
                                                      ELSE Paged[r][j]]]
    <3>1. \A j \in Ipas : (IF j \in {i} THEN Paged'[r][j] ELSE Paged[r][j])
                          = IF j \in {i} THEN Space!Assigned(Paged[r][j].ripas, g) ELSE Paged[r][j]
      BY <1>4
    <3> QED BY <1>2, <3>1 DEF Moves
  <2> QED BY <1>4, <2>1 DEF Space!DataCreate, Space!AllAre, Space!Change, Calm, Paged, Sealed, Waiting
<1> QED BY <1>5 DEF Space!Next

LEMMA DataDestroyStep ==
  ASSUME NEW r \in Realms, NEW i \in Ipas, NEW e, NEW new,
         Rewrites(r, i, 3, e, new), Good(e, 3), Clear(e), Good(new, 3), Clear(new), Calm,
         \/ IsAssigned(e) /\ IsUnassigned(new) /\ new.ripas = "EMPTY"
         \/ IsValid(e, 3) /\ IsDestroyed(new)
  PROVE  Space!Next
<1>2. Paged[r][i] = Seen(e, 0) /\ Paged'[r][i] = Seen(new, 0) /\ Moves(r, {i})
  BY PageRewritten
<1>3. /\ IsAssigned(e) => Seen(e, 0) = Space!Assigned("EMPTY", e.pa + 0)
      /\ IsValid(e, 3) => Seen(e, 0) = Space!Assigned("RAM", e.pa + 0)
  BY LevelsAre, SeenIs
<1>4. /\ IsUnassigned(new) /\ new.ripas = "EMPTY" => Seen(new, 0) = Space!Unassigned("EMPTY")
      /\ IsDestroyed(new) => Seen(new, 0) = Space!Destroyed
  BY LevelsAre, SeenIs
<1>5. /\ Paged[r][i].hipas = "ASSIGNED"
      /\ Paged'[r][i] = IF Paged[r][i].ripas = "RAM" THEN Space!Destroyed ELSE Space!Unassigned("EMPTY")
  BY <1>2, <1>3, <1>4 DEF Space!Assigned
<1>6. Space!DataDestroy(r, i)
  <2>1. Paged' = [Paged EXCEPT ![r] = [j \in Ipas |->
                    IF j \in {i} THEN (IF Paged[r][j].ripas = "RAM" THEN Space!Destroyed
                                       ELSE Space!Unassigned("EMPTY"))
                    ELSE Paged[r][j]]]
    <3>1. \A j \in Ipas : (IF j \in {i} THEN Paged'[r][j] ELSE Paged[r][j])
                          = IF j \in {i} THEN (IF Paged[r][j].ripas = "RAM" THEN Space!Destroyed
                                               ELSE Space!Unassigned("EMPTY"))
                            ELSE Paged[r][j]
      BY <1>5
    <3> QED BY <1>2, <3>1 DEF Moves
  <2> QED BY <1>5, <2>1 DEF Space!DataDestroy, Space!AllAre, Space!Change, Calm, Paged, Sealed, Waiting
<1> QED BY <1>6 DEF Space!Next

(* A table with no memory goes; S are its pages. *)
Loses(r, S, v) ==
  /\ \A j \in S : Paged[r][j].hipas \in {"UNASSIGNED", "DESTROYED"}
  /\ \A j \in S : Paged'[r][j] = v

LEMMA DestroyStep ==
  ASSUME NEW r \in Realms, NEW i \in Ipas, NEW l \in Levels, NEW S, S = Block(i, l), Moves(r, S),
         Loses(r, S, IF InPar(i) THEN Space!Destroyed ELSE Space!Unassigned("EMPTY")), Calm
  PROVE  Space!Next
<1>1. S \subseteq Ipas /\ S \in Regions /\ i \in S
  BY BlockIs
<1>2. InPar(i) <=> S \subseteq {j \in Ipas : InPar(j)}
  BY <1>1, BlockInHalf
<1>3. PICK v : v = IF S \subseteq {j \in Ipas : InPar(j)} THEN Space!Destroyed ELSE Space!Unassigned("EMPTY")
  OBVIOUS
<1>4. /\ \A j \in S : Paged[r][j].hipas \in {"UNASSIGNED", "DESTROYED"}
      /\ \A j \in S : Paged'[r][j] = v
  BY <1>2, <1>3 DEF Loses
<1>5. Paged' = [Paged EXCEPT ![r] = [j \in Ipas |-> IF j \in S THEN v ELSE Paged[r][j]]]
  BY <1>4 DEF Moves
<1>6. Space!Destroy(r, S)
  BY <1>3, <1>4, <1>5 DEF Space!Destroy, Space!Change, Calm, Paged, Sealed, Waiting
<1> QED BY <1>1, <1>6 DEF Space!Next, Regions

LEMMA InitRipasStep ==
  ASSUME NEW r \in Realms, NEW i \in Ipas, NEW l \in Levels, NEW e, NEW new,
         Rewrites(r, i, l, e, new), Good(e, l), Good(new, l), InPar(i),
         IsUnassigned(e), IsUnassigned(new), new.ripas = "RAM",
         r \notin Sealed, Sealed' \in {Sealed, Sealed \cup {r}}, Waiting' = Waiting
  PROVE  Space!Next
<1>1. PICK a, S : a = Align(i, l) /\ S = Block(i, l)
  OBVIOUS
<1>2. /\ S \subseteq Ipas /\ S \in Regions
      /\ \A j \in S : Paged[r][j] = Seen(e, j - a) /\ Paged'[r][j] = Seen(new, j - a)
      /\ Moves(r, S)
  BY <1>1, RewritesIs
<1>3. S \subseteq {j \in Ipas : InPar(j)}
  BY <1>1, <1>2, BlockInHalf
<1>4. \A j \in S : Paged[r][j].hipas = "UNASSIGNED" /\ Paged'[r][j] = Space!Unassigned("RAM")
  <2>1. \A o : Seen(e, o) = Space!Unassigned(e.ripas) /\ Seen(new, o) = Space!Unassigned("RAM")
    BY SeenIs
  <2>2. Space!Unassigned(e.ripas).hipas = "UNASSIGNED"
    BY DEF Space!Unassigned
  <2> QED BY <1>2, <2>1, <2>2
<1>5. Paged' = [Paged EXCEPT ![r] = [j \in Ipas |-> IF j \in S THEN Space!Unassigned("RAM")
                                                    ELSE Paged[r][j]]]
  BY <1>2, <1>4 DEF Moves
<1>6. Space!InitRipas(r, S)
  BY <1>3, <1>4, <1>5 DEF Space!InitRipas, Space!AllAre, Space!Change, Paged, Sealed, Waiting
<1> QED BY <1>2, <1>6 DEF Space!Next, Regions

(* What RTT_SET_RIPAS promises to make of a page *)
Told(x, s) == IF Space!Takes(x, s) THEN [x EXCEPT !.ripas = s] ELSE x

LEMMA ToldIs ==
  ASSUME NEW g, NEW s \in Ripas
  PROVE  /\ Space!Assigned(s, g).hipas = "ASSIGNED" /\ Space!Unassigned(s).hipas = "UNASSIGNED"
         /\ Told(Space!Assigned("EMPTY", g), s) = Space!Assigned("EMPTY", g)
         /\ Told(Space!Assigned("RAM", g), s) = Space!Assigned(s, g)
         /\ \A q : Told(Space!Unassigned(q), s) = IF s = "RAM" THEN Space!Unassigned("RAM")
                                                  ELSE Space!Unassigned(q)
<1>1. Space!Assigned(s, g).hipas = "ASSIGNED" /\ Space!Unassigned(s).hipas = "UNASSIGNED"
  BY DEF Space!Assigned, Space!Unassigned
<1>2. ASSUME NEW q
      PROVE  Told(Space!Unassigned(q), s) = IF s = "RAM" THEN Space!Unassigned("RAM")
                                            ELSE Space!Unassigned(q)
  <2>1. Space!Takes(Space!Unassigned(q), s) <=> s = "RAM"
    BY DEF Space!Takes, Space!Unassigned, Ripas
  <2>2. [Space!Unassigned(q) EXCEPT !.ripas = "RAM"] = Space!Unassigned("RAM")
    BY DEF Space!Unassigned
  <2> QED BY <2>1, <2>2 DEF Told
<1>3. ASSUME NEW q \in Ripas
      PROVE  Told(Space!Assigned(q, g), s) = IF s = "EMPTY" THEN Space!Assigned("EMPTY", g)
                                             ELSE Space!Assigned(q, g)
  <2>1. Space!Takes(Space!Assigned(q, g), s) <=> s = "EMPTY"
    BY DEF Space!Takes, Space!Assigned, Ripas
  <2>2. [Space!Assigned(q, g) EXCEPT !.ripas = "EMPTY"] = Space!Assigned("EMPTY", g)
    BY DEF Space!Assigned
  <2> QED BY <2>1, <2>2 DEF Told
<1>4. {"EMPTY", "RAM"} = Ripas
  BY DEF Ripas
<1> QED BY <1>1, <1>2, <1>3, <1>4

LEMMA SetRipasStep ==
  ASSUME NEW r \in Realms, NEW l \in Levels, NEW i \in Ipas, NEW e, NEW new, Requests(req),
         Rewrites(r, i, l, e, new), Good(e, l), Good(new, l), Clear(e), Clear(new),
         Updatable(e, l), i = req[r].addr, Aligned(i, l), i + Pages(l) <= req[r].end,
         new = Updated(e, l, req[r].ripas), req' = [req EXCEPT ![r].addr = i + Pages(l)],
         Sealed' = Sealed
  PROVE  Space!Next
<1>1. PICK n, S, x, s : n = Pages(l) /\ S = Block(i, l) /\ x = req[r].end /\ s = req[r].ripas
  OBVIOUS
<1>2. Align(i, l) = i
  <2>1. i \in Int
    BY DEF Ipas
  <2> QED BY <2>1 DEF Aligned, Align
<1>3. /\ S \subseteq Ipas /\ S \in Regions /\ i \in Nat /\ S = i .. i + n - 1
      /\ \A j \in S : Paged[r][j] = Seen(e, j - i) /\ Paged'[r][j] = Seen(new, j - i)
      /\ Moves(r, S)
  BY <1>1, <1>2, RewritesIs
<1>4. n \in Nat /\ n > 0 /\ x \in Int /\ s \in Ripas /\ i + n <= x
  <2>1. n \in Nat /\ n > 0
    BY <1>1, PagesAre, LevelsAre
  <2>2. x \in 0 .. NumIpas /\ s \in Ripas
    BY <1>1 DEF Requests
  <2>3. x \in Int
    BY <2>2
  <2> QED BY <1>1, <2>1, <2>2, <2>3
<1>5. Waiting[r].pages = i .. x - 1 /\ Waiting[r].ripas = s
  BY <1>1 DEF Waiting
<1>6. /\ S \subseteq i .. x - 1
      /\ \A j \in S, k \in (i .. x - 1) \ S : j < k
      /\ (i .. x - 1) \ S = i + n .. x - 1
  BY <1>3, <1>4
<1>7. Waiting' = [Waiting EXCEPT ![r].pages = Waiting[r].pages \ S]
  <2>1. req'[r].addr = i + n /\ req'[r].end = x /\ req'[r].ripas = s
    BY <1>1 DEF Requests
  <2>2. \A q \in Realms : q # r => req'[q] = req[q]
    BY DEF Requests
  <2>3. Waiting'[r] = [pages |-> i + n .. x - 1, ripas |-> s]
    BY <2>1 DEF Waiting
  <2>4. \A q \in Realms : q # r => Waiting'[q] = Waiting[q]
    BY <2>2 DEF Waiting
  <2>5. Waiting[r] = [pages |-> i .. x - 1, ripas |-> s]
    BY <1>1 DEF Waiting
  <2>6. Waiting = [q \in Realms |-> Waiting[q]] /\ Waiting' = [q \in Realms |-> Waiting'[q]]
    BY DEF Waiting
  <2>7. [Waiting[r] EXCEPT !.pages = Waiting[r].pages \ S] = [pages |-> i + n .. x - 1, ripas |-> s]
    <3>1. PICK w, A, B : w = Waiting[r] /\ A = i .. x - 1 /\ B = i + n .. x - 1
      OBVIOUS
    <3>2. w.pages \ S = B
      BY <1>5, <1>6, <3>1
    <3>3. w = [pages |-> A, ripas |-> s]
      BY <2>5, <3>1
    <3>4. [w EXCEPT !.pages = B] = [pages |-> B, ripas |-> s]
      BY <3>3
    <3> QED BY <3>1, <3>2, <3>4
  <2> QED BY <2>3, <2>4, <2>6, <2>7
<1>8. /\ \/ \A j \in S : Paged[r][j].hipas = "ASSIGNED"
         \/ \A j \in S : Paged[r][j].hipas = "UNASSIGNED"
      /\ \A j \in S : Paged'[r][j] = Told(Paged[r][j], s)
  <2> DEFINE g(j) == e.pa + (j - i)
  <2> HIDE DEF g
  <2>0. "EMPTY" \in Ripas /\ "RAM" \in Ripas /\ (s = "RAM" \/ s = "EMPTY") /\ e.ripas \in Ripas
    BY <1>4 DEF Ripas, Good, Entries
  <2>1. CASE IsUnassigned(e)
    <3>1. ~IsValid(e, l) /\ e.desc = 0
      BY <2>1 DEF IsValid, Check, IsUnassigned, HasHipas, S2TTE_Lx_INVALID, S2TTE_L3_PAGE,
                  S2TTE_BLOCK, S2TTE_ATTRS, S2TTE_L012_BLOCK
    <3>2. IsUnassigned(new) /\ new.ripas = IF s = "RAM" THEN "RAM" ELSE e.ripas
      BY <1>1, <2>0, <2>1, <3>1 DEF Updated, SetRam, IsUnassigned, HasHipas, Good, Entries
    <3>3. \A j \in S : Paged[r][j] = Space!Unassigned(e.ripas)
      BY <1>3, <2>1, SeenIs
    <3>4. \A j \in S : Paged'[r][j] = Space!Unassigned(new.ripas)
      BY <1>3, <3>2, SeenIs
    <3> QED BY <2>0, <3>2, <3>3, <3>4, ToldIs
  <2>2. CASE IsAssigned(e)
    <3>1. ~IsValid(e, l) /\ e.desc = 0
      BY <2>2 DEF IsValid, Check, IsAssigned, HasHipas, S2TTE_Lx_INVALID, S2TTE_L3_PAGE,
                  S2TTE_BLOCK, S2TTE_ATTRS, S2TTE_L012_BLOCK
    <3>2. IsAssigned(new) /\ new.pa = e.pa
      BY <1>1, <1>4, <2>2, <3>1 DEF Updated, SetRam, IsAssigned, HasHipas, Good, Entries
    <3>3. \A j \in S : Paged[r][j] = Space!Assigned("EMPTY", g(j))
      BY <1>3, <2>2, SeenIs DEF g
    <3>4. \A j \in S : Paged'[r][j] = Space!Assigned("EMPTY", g(j))
      BY <1>3, <3>2, SeenIs DEF g
    <3> QED BY <2>0, <3>3, <3>4, ToldIs
  <2>3. CASE IsValid(e, l)
    <3>1. l = 3 /\ e.pa \in Granules /\ e.desc = 3
      BY <2>3, ValidEntry
    <3>2. \A j \in S : Paged[r][j] = Space!Assigned("RAM", g(j))
      BY <1>3, <2>3, SeenIs DEF g
    <3>3. \A j \in S : Paged'[r][j] = Space!Assigned(s, g(j))
      <4>1. CASE s = "RAM"
        <5>1. new = e
          BY <1>1, <2>3, <4>1 DEF Updated
        <5> QED BY <1>3, <3>2, <4>1, <5>1
      <4>2. CASE s = "EMPTY"
        <5>1. new = CreateAssignedEmpty(e.pa)
          BY <1>1, <2>3, <4>2 DEF Updated
        <5>2. IsAssigned(new) /\ new.pa = e.pa
          BY <5>1 DEF CreateAssignedEmpty, Invalid, IsAssigned, HasHipas
        <5> QED BY <1>3, <4>2, <5>2, SeenIs DEF g
      <4> QED BY <2>0, <4>1, <4>2
    <3> QED BY <2>0, <3>2, <3>3, ToldIs
  <2> QED BY <2>1, <2>2, <2>3 DEF Updatable
<1>9. Paged' = [Paged EXCEPT ![r] = [j \in Ipas |-> IF j \in S THEN Told(Paged[r][j], s)
                                                    ELSE Paged[r][j]]]
  <2>1. \A j \in Ipas : (IF j \in S THEN Paged'[r][j] ELSE Paged[r][j])
                        = IF j \in S THEN Told(Paged[r][j], s) ELSE Paged[r][j]
    BY <1>8
  <2> QED BY <1>3, <2>1 DEF Moves
<1>10. Space!SetRipas(r, S)
  <2>1. /\ S \subseteq Waiting[r].pages
        /\ \A j \in S, k \in Waiting[r].pages \ S : j < k
    BY <1>5, <1>6
  <2> QED BY <1>5, <1>7, <1>8, <1>9, <2>1 DEF Space!SetRipas, Space!AllAre, Space!Change,
             Told, Paged, Sealed, Waiting
<1> QED BY <1>3, <1>10 DEF Space!Next, Regions

---------------------------------------------------------------------------
(* The realms whose contents are settled, and the requests *)
Stutters == UNCHANGED <<Paged, Sealed, Waiting>>
Seals(r) == r \notin Sealed /\ (Sealed' = Sealed \/ Sealed' = Sealed \cup {r})

LEMMA SealedKept ==
  ASSUME active' = active, NEW c, \A d \in Cpus : d # c => f'[d] = f[d],
         f[c].pc # "ripas", f'[c].pc # "ripas" \/ f'[c].r \notin active
  PROVE  Sealed' = Sealed
<1>1. ASSUME NEW r \in Realms
      PROVE  Settled(r)' <=> Settled(r)
  <2>1. SUFFICES ASSUME r \in active
        PROVE  (\A d \in Cpus : ~(f'[d].pc = "ripas" /\ f'[d].r = r))
                 <=> (\A d \in Cpus : ~(f[d].pc = "ripas" /\ f[d].r = r))
    BY DEF Settled
  <2>2. \A d \in Cpus : (f'[d].pc = "ripas" /\ f'[d].r = r) <=> (f[d].pc = "ripas" /\ f[d].r = r)
    BY <2>1
  <2> QED BY <2>2
<1> QED BY <1>1 DEF Sealed

LEMMA SealedByReturn ==
  ASSUME active' = active, NEW c \in Cpus, \A d \in Cpus : d # c => f'[d] = f[d],
         f[c].pc = "ripas", f'[c].pc # "ripas", NEW r, r = f[c].r
  PROVE  Seals(r)
<1>1. ~Settled(r)
  BY DEF Settled
<1>2. ASSUME NEW q \in Realms, q # r
      PROVE  Settled(q)' <=> Settled(q)
  <2>1. \A d \in Cpus : (f'[d].pc = "ripas" /\ f'[d].r = q) <=> (f[d].pc = "ripas" /\ f[d].r = q)
    BY <1>2
  <2> QED BY <2>1 DEF Settled
<1>3. r \notin Sealed
  BY <1>1 DEF Sealed
<1>4. \A q \in Realms : q # r => (q \in Sealed' <=> q \in Sealed)
  BY <1>2 DEF Sealed
<1>5. Sealed \subseteq Realms /\ Sealed' \subseteq Realms
  BY DEF Sealed
<1> QED BY <1>3, <1>4, <1>5 DEF Seals

LEMMA SealedByActivate ==
  ASSUME NEW r \in Realms, Activate(r)
  PROVE  Seals(r)
<1>1. r \notin Sealed
  BY DEF Activate, Sealed, Settled
<1>2. \A q \in Realms : q # r => (q \in Sealed' <=> q \in Sealed)
  BY DEF Activate, Sealed, Settled
<1>3. Sealed \subseteq Realms /\ Sealed' \subseteq Realms
  BY DEF Sealed
<1> QED BY <1>1, <1>2, <1>3 DEF Seals

SpaceStep == [Space!Next]_(Space!vars)

LEMMA StepOf ==
  Space!Next \/ Stutters => SpaceStep
BY DEF SpaceStep, Stutters, Space!vars, Paged, Sealed, Waiting

LEMMA SealStep ==
  ASSUME NEW r \in Realms, Seals(r), Paged' = Paged, Waiting' = Waiting
  PROVE  SpaceStep
<1>1. CASE Sealed' = Sealed
  BY <1>1, StepOf DEF Stutters
<1>2. CASE Sealed' = Sealed \cup {r}
  <2>1. Space!Seal(r)
    BY <1>2 DEF Seals, Space!Seal, Paged, Sealed, Waiting
  <2>2. Space!Next
    BY <2>1 DEF Space!Next
  <2> QED BY <2>2, StepOf
<1> QED BY <1>1, <1>2 DEF Seals

LEMMA AskStep ==
  ASSUME NEW r \in Realms, NEW a \in Ipas, NEW b \in Ipas, NEW s \in Ripas, a <= b, InPar(b),
         RealmAsks(r, a, b + 1, s), Requests(req), Paged' = Paged
  PROVE  SpaceStep
<1>1. a \in Int /\ b \in Int /\ InPar(a)
  <2>1. NumIpas \in Int
    BY PagesAre, LevelsAre, EPositive, ProductPositive DEF NumIpas
  <2>2. a \in Int /\ b \in Int
    BY DEF Ipas
  <2> QED BY <2>1, <2>2 DEF InPar
<1>2. PICK A : A = a .. b
  OBVIOUS
<1>3. a .. (b + 1) - 1 = A
  BY <1>1, <1>2
<1>4. req'[r].addr = a /\ req'[r].end = b + 1 /\ req'[r].ripas = s
      /\ \A q \in Realms : q # r => req'[q] = req[q]
  BY DEF RealmAsks, Requests
<1>5. Waiting' = [Waiting EXCEPT ![r] = [pages |-> A, ripas |-> s]]
  <2>1. Waiting'[r] = [pages |-> A, ripas |-> s]
    BY <1>3, <1>4 DEF Waiting
  <2>2. \A q \in Realms : q # r => Waiting'[q] = Waiting[q]
    BY <1>4 DEF Waiting
  <2>3. Waiting = [q \in Realms |-> Waiting[q]] /\ Waiting' = [q \in Realms |-> Waiting'[q]]
    BY DEF Waiting
  <2> QED BY <2>1, <2>2, <2>3
<1>6. Sealed' = Sealed
  BY DEF RealmAsks, Sealed, Settled
<1>7. Space!Ask(r)
  <2>1. \E x, y \in {j \in Ipas : InPar(j)}, z \in {"EMPTY", "RAM"} :
          Waiting' = [Waiting EXCEPT ![r] = [pages |-> x .. y, ripas |-> z]]
    BY <1>1, <1>2, <1>5 DEF Ripas
  <2> QED BY <1>6, <2>1 DEF Space!Ask, Paged, Sealed, Waiting
<1>8. Space!Next
  BY <1>7 DEF Space!Next
<1> QED BY <1>8, StepOf

LEMMA ResumeStep ==
  ASSUME NEW r \in Realms, RealmResumes(r), Requests(req), Paged' = Paged
  PROVE  SpaceStep
<1>1. 0 .. 0 - 1 = {}
  OBVIOUS
<1>2. req'[r].addr = 0 /\ req'[r].end = 0 /\ req'[r].ripas = "EMPTY"
      /\ \A q \in Realms : q # r => req'[q] = req[q]
  BY DEF RealmResumes, Requests
<1>3. Waiting' = [Waiting EXCEPT ![r] = Space!Nothing]
  <2>1. Waiting'[r] = [pages |-> {}, ripas |-> "EMPTY"]
    BY <1>1, <1>2 DEF Waiting
  <2>2. \A q \in Realms : q # r => Waiting'[q] = Waiting[q]
    BY <1>2 DEF Waiting
  <2>3. Waiting = [q \in Realms |-> Waiting[q]] /\ Waiting' = [q \in Realms |-> Waiting'[q]]
    BY DEF Waiting
  <2> QED BY <2>1, <2>2, <2>3 DEF Space!Nothing
<1>4. Sealed' = Sealed
  BY DEF RealmResumes, Sealed, Settled
<1>5. Space!Resume(r)
  BY <1>3, <1>4 DEF Space!Resume, Paged, Sealed, Waiting
<1>6. Space!Next
  BY <1>5 DEF Space!Next
<1> QED BY <1>6, StepOf

---------------------------------------------------------------------------
(* What makes a break invisible: the entry to be is for the table below    *)
(* it as it is, or that table has no memory and its pages are lost.        *)
Like(tb, e, l) ==
  \A j \in Slots, o \in 0 .. Pages(l) - 1 : Seen(tb[j], o) = Seen(e, j * Pages(l) + o)
Lost(tb, e, i) ==
  /\ \A j \in Slots : IsUnassigned(tb[j]) \/ IsDestroyed(tb[j])
  /\ e = IF InPar(i) THEN CreateDestroyed ELSE CreateInvalidNs
BreakMeans(T, p, fr) ==
  LET x == p[fr.llt]
  IN  \/ Like(T[fr.sub], fr.new, x.lvl + 1)
      \/ Lost(T[fr.sub], fr.new, Start(x.base, fr.idx, x.lvl))
FrameMeans(T, p, fr) ==
  fr.then = "make" => Clear(fr.new) /\ Clear(fr.old) /\ BreakMeans(T, p, fr)

SeenState(p) ==
  /\ \A t \in Tables, k \in Slots : Clear(tbl[t][k])
  /\ \A c \in Cpus : FrameMeans(tbl, p, f[c])

LEMMA SeenStep ==
  ASSUME NEW p, SafeState(p), SeenState(p), NEW q, NEW c \in Cpus, OthersStay(p, q, c),
         \A t \in Tables, k \in Slots : Clear(tbl'[t][k]), FrameMeans(tbl', q, f'[c])
  PROVE  SeenState(q)'
<1>1. ASSUME NEW d \in Cpus, d # c
      PROVE  FrameMeans(tbl', q, f'[d])
  <2>1. SUFFICES ASSUME f[d].then = "make" PROVE FrameMeans(tbl', q, f[d])
    BY <1>1 DEF OthersStay, FrameMeans
  <2>2. MakeOK(tbl, gstate, refs, p, f[d])
    BY <2>1 DEF SafeState, StateOK, FramesOK, FrameOK
  <2>3. f[d].llt \in Locks(f[d]) /\ f[d].sub \in Locks(f[d])
    BY <2>2, NoneIsNoTable DEF MakeOK, Locks
  <2>4. tbl'[f[d].sub] = tbl[f[d].sub] /\ q[f[d].llt] = p[f[d].llt]
    BY <1>1, <2>3 DEF OthersStay
  <2>5. FrameMeans(tbl, p, f[d])
    BY DEF SeenState
  <2> QED BY <2>4, <2>5 DEF FrameMeans, BreakMeans
<1> QED BY <1>1 DEF SeenState

LEMMA ViewClear ==
  ASSUME NEW p, SafeState(p), SeenState(p), NEW t \in Tables, NEW k \in Slots
  PROVE  Clear(View(tbl, f)[t][k])
<1>1. View(tbl, f)[t][k] = ViewAt(tbl, f, t, k)
  BY DEF View
<1>2. CASE \E c \in Cpus : BreakAt(f[c], t, k)
  <2>1. PICK c \in Cpus : BreakAt(f[c], t, k) /\ ViewAt(tbl, f, t, k) = f[c].old
    BY <1>2 DEF ViewAt
  <2> QED BY <1>1, <2>1 DEF SeenState, FrameMeans, BreakAt
<1>3. CASE ~\E c \in Cpus : BreakAt(f[c], t, k)
  BY <1>1, <1>3 DEF ViewAt, SeenState
<1> QED BY <1>2, <1>3

LEMMA PagesKept ==
  ASSUME NEW V, NEW W, NEW G, NEW H, NEW p, NEW P, NEW Q, Shows(V, G, p, P), Shows(W, H, p, Q),
         Used(H) = Used(G), \A u \in Used(G), j \in Slots : W[u][j] = V[u][j]
  PROVE  \A r \in Realms, i \in Ipas : Q[r][i] = P[r][i]
<1> SUFFICES ASSUME NEW r \in Realms, NEW i \in Ipas PROVE Q[r][i] = P[r][i]
  OBVIOUS
<1>1. PICK t, k, o : LiesIn(V, G, p, t, k, o, r, i)
  BY DEF Shows
<1>2. W[t][k] = V[t][k]
  BY <1>1 DEF LiesIn
<1>3. LiesIn(W, H, p, t, k, o, r, i)
  BY <1>1, <1>2 DEF LiesIn, Points
<1> QED BY <1>1, <1>2, <1>3 DEF Shows

LEMMA PagedIs ==
  ASSUME \A r \in Realms, i \in Ipas : Paged'[r][i] = Paged[r][i]
  PROVE  Paged' = Paged
<1>1. Paged = [r \in Realms |-> Paged[r]] /\ \A r \in Realms : Paged[r] = [i \in Ipas |-> Paged[r][i]]
  BY DEF Paged
<1>2. Paged' = [r \in Realms |-> Paged'[r]] /\ \A r \in Realms : Paged'[r] = [i \in Ipas |-> Paged'[r][i]]
  BY DEF Paged
<1>3. \A r \in Realms : Paged'[r] = Paged[r]
  BY <1>1, <1>2
<1> QED BY <1>1, <1>2, <1>3

LEMMA ViewKept ==
  ASSUME NEW p, SafeState(p), SafeState(p)', Used(gstate') = Used(gstate),
         \A u \in Tables, j \in Slots : View(tbl', f')[u][j] = View(tbl, f)[u][j]
  PROVE  Paged' = Paged
<1>1. Shows(View(tbl, f), gstate, p, Paged) /\ Shows(View(tbl', f'), gstate', p, Paged')
  BY ShowsNow, ShowsNext
<1>2. \A u \in Used(gstate), j \in Slots : View(tbl', f')[u][j] = View(tbl, f)[u][j]
  BY UsedAreTables
<1>3. PICK V, W, G, H, P, Q : /\ V = View(tbl, f) /\ W = View(tbl', f') /\ G = gstate /\ H = gstate'
                              /\ P = Paged /\ Q = Paged'
  OBVIOUS
<1>4. Shows(V, G, p, P) /\ Shows(W, H, p, Q) /\ Used(H) = Used(G)
      /\ \A u \in Used(G), j \in Slots : W[u][j] = V[u][j]
  BY <1>1, <1>2, <1>3
<1>5. \A r \in Realms, i \in Ipas : Q[r][i] = P[r][i]
  BY <1>4, PagesKept
<1> QED BY <1>3, <1>5, PagedIs

---------------------------------------------------------------------------
(* A command writes one entry. *)
Writ(t, k, e) ==
  /\ View(tbl', f')[t][k] = e /\ View(tbl, f)[t][k] = tbl[t][k] /\ tbl'[t][k] = e
  /\ \A u \in Tables, j \in Slots : (u = t /\ j = k) \/ View(tbl', f')[u][j] = View(tbl, f)[u][j]
  /\ \A u \in Tables, j \in Slots : (u = t /\ j = k) \/ tbl'[u][j] = tbl[u][j]

LEMMA WriteView ==
  ASSUME NEW p, SafeState(p), SafeState(p)', NEW c \in Cpus,
         \A d \in Cpus : d # c => f'[d] = f[d], f[c].then # "make", f'[c].then # "make",
         NEW r, NEW i \in Ipas, NEW l, NEW t, NEW k, Spot(p, r, i, l, t, k),
         NEW e, Overwrites(t, k, e), Used(gstate') = Used(gstate)
  PROVE  Writ(t, k, e) /\ Good(e, l) /\ OthersStay(p, p, c)
<1>1. /\ t \in Used(gstate) /\ t \in Tables /\ k \in Slots /\ p[t].lvl = l
      /\ Unlocked(f, t) /\ View(tbl, f)[t][k] = tbl[t][k]
  BY DEF Spot
<1>2. /\ tbl \in [Tables -> [Slots -> Entries]]
      /\ f \in [Cpus -> Frames] /\ f' \in [Cpus -> Frames] /\ LocksDiffer(f) /\ LocksDiffer(f')
  BY DEF SafeState, StateOK, Typed
<1>3. /\ tbl'[t][k] = e /\ \A u \in Tables : u # t => tbl'[u] = tbl[u]
      /\ \A u \in Tables, j \in Slots : (u = t /\ j = k) \/ tbl'[u][j] = tbl[u][j]
  BY <1>1, <1>2 DEF Overwrites
<1>4. OneMoves(f, f', c)
  BY <1>2 DEF OneMoves
<1>5. /\ View(tbl', f')[t][k] = tbl'[t][k]
      /\ \A u \in Tables, j \in Slots : (u = t /\ j = k) \/ View(tbl', f')[u][j] = View(tbl, f)[u][j]
  <2> DEFINE T2 == tbl'
             H  == f'
  <2>1. \A u \in Tables, j \in Slots : (u = t /\ j = k) \/ T2[u][j] = tbl[u][j]
    BY <1>3
  <2>2. OneMoves(f, H, c) /\ f[c].then # "make" /\ H[c].then # "make" /\ Unlocked(f, t)
    BY <1>1, <1>4
  <2>3. t \in Tables /\ k \in Slots
    BY <1>1
  <2> HIDE DEF T2, H
  <2>4. /\ View(T2, H)[t][k] = T2[t][k]
        /\ \A u \in Tables, j \in Slots : (u = t /\ j = k) \/ View(T2, H)[u][j] = View(tbl, f)[u][j]
    BY <2>1, <2>2, <2>3, ViewMoves
  <2> QED BY <2>4 DEF T2, H
<1>6. OthersStay(p, p, c)
  BY <1>1, <1>2, <1>3 DEF OthersStay, Unlocked, Locks, Frames, Tables
<1>7. Good(e, l)
  <2>1. Shape(View(tbl, f), gstate, p)'
    BY DEF SafeState, StateOK
  <2>2. EntriesGood(View(tbl', f'), gstate', p)
    BY <2>1 DEF Shape, EntriesGood, View, ViewAt, Used
  <2>3. Good(View(tbl', f')[t][k], p[t].lvl)
    BY <1>1, <2>2 DEF EntriesGood
  <2> QED BY <1>1, <1>3, <1>5, <2>3
<1> QED BY <1>1, <1>3, <1>5, <1>6, <1>7 DEF Writ

LEMMA WriteSeen ==
  ASSUME NEW p, SafeState(p), SeenState(p), SafeState(p)', NEW c \in Cpus,
         \A d \in Cpus : d # c => f'[d] = f[d], f[c].then # "make", f'[c].then # "make",
         NEW r \in Realms, NEW i \in Ipas, NEW l, NEW t, NEW k, Spot(p, r, i, l, t, k),
         NEW e, Overwrites(t, k, e), Clear(e), ~IsTable(e, l), NEW a, a = tbl[t][k], ~IsTable(a, l),
         Used(gstate') = Used(gstate)
  PROVE  /\ SeenState(p)' /\ Rewrites(r, i, l, a, e)
         /\ Good(a, l) /\ Good(e, l) /\ Clear(a) /\ l \in Levels
<1>1. /\ t \in Used(gstate) /\ t \in Tables /\ k \in Slots /\ k = Index(i, l) /\ l \in Levels
      /\ p[t] = PlaceOf(r, i, l) /\ p[t].lvl = l /\ Good(a, l)
  BY DEF Spot
<1>2. /\ View(tbl', f')[t][k] = e /\ View(tbl, f)[t][k] = a /\ Good(e, l)
      /\ \A u \in Tables, j \in Slots : (u = t /\ j = k) \/ View(tbl', f')[u][j] = View(tbl, f)[u][j]
      /\ \A u \in Tables, j \in Slots : (u = t /\ j = k) \/ tbl'[u][j] = tbl[u][j]
      /\ tbl'[t][k] = e /\ OthersStay(p, p, c)
  <2>1. Writ(t, k, e) /\ Good(e, l) /\ OthersStay(p, p, c)
    BY WriteView
  <2> QED BY <2>1 DEF Writ
<1>3. SeenState(p)'
  <2>1. \A u \in Tables, j \in Slots : Clear(tbl'[u][j])
    BY <1>2 DEF SeenState
  <2>2. FrameMeans(tbl', p, f'[c])
    BY DEF FrameMeans
  <2> QED BY <1>2, <2>1, <2>2, SeenStep
<1>4. Shows(View(tbl, f), gstate, p, Paged) /\ Shows(View(tbl', f'), gstate', p, Paged')
  BY ShowsNow, ShowsNext
<1>5. PICK b, n : b = Align(i, l) /\ n = Pages(l)
  OBVIOUS
<1>6. b \in Nat /\ n \in Nat /\ b = Start(p[t].base, k, p[t].lvl) /\ n = Pages(p[t].lvl) /\ r = p[t].r
  BY <1>1, <1>5, BlockOf, PagesAre, LevelsAre DEF PlaceOf
<1>7. PICK V, W, G, H, P, Q : /\ V = View(tbl, f) /\ W = View(tbl', f') /\ G = gstate /\ H = gstate'
                              /\ P = Paged /\ Q = Paged'
  OBVIOUS
<1>8. Shows(V, G, p, P) /\ Shows(W, H, p, Q) /\ Used(H) = Used(G) /\ t \in Used(G) /\ k \in Slots
  BY <1>1, <1>4, <1>7
<1>9. ~Points(V, p, t, k) /\ ~Points(W, p, t, k) /\ a = V[t][k] /\ e = W[t][k]
  BY <1>1, <1>2, <1>7 DEF Points
<1>10. OneEntry(V, W, G, t, k)
  BY <1>2, <1>7, UsedAreTables DEF OneEntry
<1>11. Rewritten(P, Q, r, b, n, a, e)
  BY <1>6, <1>8, <1>9, <1>10, PagesRewritten
<1>12. Clear(a)
  BY <1>1 DEF SeenState
<1> QED BY <1>1, <1>2, <1>3, <1>5, <1>7, <1>11, <1>12 DEF Rewrites

(* A step that writes none, and is in no break *)
LEMMA FrameSeen ==
  ASSUME NEW p, SafeState(p), SeenState(p), SafeState(p)', NEW c \in Cpus,
         \A d \in Cpus : d # c => f'[d] = f[d], f[c].then # "make", f'[c].then # "make",
         Used(gstate') = Used(gstate), UNCHANGED tbl
  PROVE  SeenState(p)' /\ Paged' = Paged
<1>1. OneMoves(f, f', c)
  BY DEF SafeState, StateOK, Typed, OneMoves
<1>2. \A u, j : ~BreakAt(f[c], u, j) /\ ~BreakAt(f'[c], u, j)
  BY DEF BreakAt
<1>3. \A u \in Tables, j \in Slots : View(tbl', f')[u][j] = View(tbl, f)[u][j]
  BY <1>1, <1>2, OthersView
<1>4. OthersStay(p, p, c)
  BY DEF OthersStay
<1>5. \A u \in Tables, j \in Slots : Clear(tbl'[u][j])
  BY DEF SeenState
<1>6. FrameMeans(tbl', p, f'[c])
  BY DEF FrameMeans
<1> QED BY <1>3, <1>4, <1>5, <1>6, SeenStep, ViewKept

---------------------------------------------------------------------------
(* The commands that write one entry *)
LEMMA ClearEntries ==
  /\ \A s : LET e == CreateUnassigned(s) IN Clear(e) /\ IsUnassigned(e) /\ e.ripas = s
  /\ LET e == CreateDestroyed IN Clear(e) /\ IsDestroyed(e)
  /\ LET e == CreateInvalidNs IN Clear(e) /\ IsUnassigned(e) /\ e.ripas = "EMPTY"
  /\ Clear(ZeroEntry) /\ IsUnassigned(ZeroEntry) /\ ZeroEntry.ripas = "EMPTY"
  /\ \A g : LET e == CreateAssignedEmpty(g) IN Clear(e) /\ IsAssigned(e) /\ e.pa = g
  /\ \A g, l : LET e == CreateValid(g, l) IN Clear(e) /\ e.pa = g
  /\ \A g, l : LET e == CreateValidNs(g, l) IN Clear(e) /\ e.ns
  /\ \A g : Clear(CreateTable(g))
BY DEF CreateUnassigned, CreateDestroyed, CreateInvalidNs, ZeroEntry, CreateAssignedEmpty, CreateValid,
       CreateValidNs, CreateTable, Invalid, Mapping, Clear, IsUnassigned, IsDestroyed, IsAssigned,
       HasHipas

LEMMA ClearRam ==
  ASSUME NEW e, NEW l, Good(e, l), IsUnassigned(e) \/ IsAssigned(e)
  PROVE  LET n == SetRam(e)
         IN  Clear(n) /\ n.ripas = "RAM" /\ n.pa = e.pa
             /\ (IsUnassigned(e) => IsUnassigned(n)) /\ (IsAssigned(e) => IsAssigned(n))
BY DEF SetRam, Good, Entries, Clear, IsUnassigned, IsDestroyed, IsAssigned, HasHipas

LEMMA CalmKept ==
  ASSUME UNCHANGED <<active, req>>, NEW c, \A d \in Cpus : d # c => f'[d] = f[d],
         f[c].pc # "ripas", f'[c].pc # "ripas"
  PROVE  Calm
<1>1. Sealed' = Sealed
  BY SealedKept
<1> QED BY <1>1 DEF Calm, Waiting

LEMMA MapNsPages ==
  ASSUME NEW p, SafeState(p), SeenState(p), NEW c \in Cpus, Idle(c),
         NEW r \in Realms, NEW l \in Levels, l \in MapLevels, NEW i \in Ipas, Aligned(i, l),
         NEW pa \in NsPas, MapNs(r, i, l, pa)
  PROVE  SeenState(p)' /\ SpaceStep
<1>0. PICK t, k, a, e : t = TableAt(r, i)[l] /\ k = Index(i, l) /\ a = tbl[t][k] /\ e = CreateValidNs(pa, l)
  OBVIOUS
<1>1. t # None /\ Free(t) /\ IsUnassigned(a) /\ Overwrites(t, k, e) /\ ~InPar(i)
      /\ UNCHANGED <<gstate, tlb, f, active, req>>
  BY <1>0 DEF MapNs, At, Overwrites
<1>2. Spot(p, r, i, l, t, k)
  BY <1>0, <1>1, WalkSpot
<1>3. SafeState(p)'
  BY MapNsSafe
<1>4. ~IsTable(a, l) /\ Good(a, l)
  BY <1>0, <1>1, <1>2, DeadEntry DEF Spot
<1>5. e.ns /\ Clear(e) /\ ~IsTable(e, l)
  <2>1. l \in {2, 3}
    BY LevelIs DEF MapLevels, RTT_MIN_BLOCK_LEVEL
  <2>2. Good(e, l) /\ e.ns
    BY <1>0, <2>1, NewEntries
  <2> QED BY <1>0, <2>2, NsEntry, ClearEntries
<1>6. f[c].pc # "ripas" /\ f[c].then # "make" /\ f'[c] = f[c] /\ \A d \in Cpus : d # c => f'[d] = f[d]
  BY <1>1, IdleFrameHere
<1>7. SeenState(p)' /\ Rewrites(r, i, l, a, e) /\ Good(e, l)
  BY <1>0, <1>1, <1>2, <1>3, <1>4, <1>5, <1>6, WriteSeen
<1>8. Calm
  BY <1>1, <1>6, CalmKept
<1>9. Align(i, l) = i
  BY DEF Aligned, Align, Ipas
<1>10. Space!Next
  BY <1>1, <1>4, <1>5, <1>7, <1>8, <1>9, MapStep
<1> QED BY <1>7, <1>10, StepOf

LEMMA UnmapNsPages ==
  ASSUME NEW p, SafeState(p), SeenState(p), NEW c \in Cpus, Idle(c),
         NEW r \in Realms, NEW l \in Levels, NEW i \in Ipas, UnmapNs(c, r, i, l)
  PROVE  SeenState(p)' /\ SpaceStep
<1>0. PICK t, k, a, e, nf : /\ t = TableAt(r, i)[l] /\ k = Index(i, l) /\ a = tbl[t][k]
                            /\ e = CreateInvalidNs /\ nf = UnmapFrame(r, t, i)
  OBVIOUS
<1>1. t # None /\ Free(t) /\ IsValidNs(a, l) /\ Overwrites(t, k, e)
      /\ UNCHANGED <<gstate, tlb, active, req>> /\ f' = [f EXCEPT ![c] = nf]
  BY <1>0 DEF UnmapNs, At, Overwrites, Become, UnmapFrame
<1>2. Spot(p, r, i, l, t, k)
  BY <1>0, <1>1, WalkSpot
<1>3. SafeState(p)'
  BY UnmapNsSafe
<1>4. nf.pc = "tlbi" /\ nf.then = "idle"
  BY <1>0 DEF UnmapFrame, IdleFrame
<1>5. a.ns /\ ~IsTable(a, l) /\ Good(a, l)
  BY <1>0, <1>1, <1>2, NsEntry DEF Spot, IsValidNs, Check
<1>6. f'[c] = nf /\ \A d \in Cpus : d # c => f'[d] = f[d]
  BY <1>1, FrameChanged
<1>7. f[c].pc # "ripas" /\ f[c].then # "make" /\ f'[c].then # "make" /\ f'[c].pc # "ripas"
  BY <1>4, <1>6, IdleFrameHere
<1>8. Clear(e) /\ IsUnassigned(e) /\ e.ripas = "EMPTY" /\ ~IsTable(e, l)
  <2>1. Good(e, l) /\ ~Live(e)
    BY <1>0, NewEntries
  <2> QED BY <1>0, <2>1, ClearEntries, DeadEntry
<1>9. SeenState(p)' /\ Rewrites(r, i, l, a, e) /\ Good(e, l)
  BY <1>0, <1>1, <1>2, <1>3, <1>5, <1>6, <1>7, <1>8, WriteSeen
<1>10. Calm
  BY <1>1, <1>6, <1>7, CalmKept
<1>11. Space!Next
  BY <1>5, <1>8, <1>9, <1>10, UnmapStep
<1> QED BY <1>9, <1>11, StepOf

LEMMA InitRipasWritePages ==
  ASSUME NEW p, SafeState(p), SeenState(p), NEW c \in Cpus,
         NEW l \in Levels, NEW i \in Ipas, InitRipasWrite(c, i, l)
  PROVE  SeenState(p)' /\ SpaceStep
<1>0. PICK r, t, k, a, e : /\ r = f[c].r /\ t = TableAt(r, i)[l] /\ k = Index(i, l) /\ a = tbl[t][k]
                           /\ e = SetRam(a)
  OBVIOUS
<1>1. t # None /\ Free(t) /\ IsUnassigned(a) /\ Overwrites(t, k, e) /\ f[c].pc = "ripas" /\ InPar(i)
      /\ UNCHANGED <<gstate, tlb, active, req>> /\ f' = [f EXCEPT ![c] = IdleFrame]
  BY <1>0 DEF InitRipasWrite, At, Overwrites, Return, Become
<1>2. r \in Realms /\ f[c].then = "idle"
  BY <1>0, <1>1 DEF SafeState, StateOK, FramesOK, FrameOK
<1>3. Spot(p, r, i, l, t, k)
  BY <1>0, <1>1, <1>2, WalkSpot
<1>4. SafeState(p)'
  BY InitRipasWriteSafe
<1>5. ~IsTable(a, l) /\ Good(a, l)
  BY <1>0, <1>1, <1>3, DeadEntry DEF Spot
<1>6. f'[c] = IdleFrame /\ \A d \in Cpus : d # c => f'[d] = f[d]
  BY <1>1, FrameChanged
<1>7. f[c].then # "make" /\ f'[c].then # "make" /\ f'[c].pc # "ripas"
  BY <1>2, <1>6, IdleIsFrame DEF IdleFrame
<1>8. Clear(e) /\ IsUnassigned(e) /\ e.ripas = "RAM" /\ ~IsTable(e, l)
  BY <1>0, <1>1, <1>5, ClearRam, RamEntry
<1>9. SeenState(p)' /\ Rewrites(r, i, l, a, e) /\ Good(e, l)
  <2>1. Overwrites(t, k, e) /\ a = tbl[t][k] /\ Used(gstate') = Used(gstate)
    BY <1>0, <1>1
  <2> QED BY <1>2, <1>3, <1>4, <1>5, <1>6, <1>7, <1>8, <2>1, WriteSeen
<1>10. Seals(r)
  BY <1>0, <1>1, <1>6, <1>7, SealedByReturn
<1>11. Waiting' = Waiting
  BY <1>1 DEF Waiting
<1>12. Space!Next
  BY <1>1, <1>2, <1>5, <1>8, <1>9, <1>10, <1>11, InitRipasStep DEF Seals
<1> QED BY <1>9, <1>12, StepOf

LEMMA FreshGranule ==
  ASSUME NEW p, SafeState(p), NEW g \in Granules, gstate[g] # "DATA"
  PROVE  ~Space!Given(g)
<1> SUFFICES ASSUME NEW r \in Realms, NEW i \in Ipas, g \in Paged[r][i].memory PROVE FALSE
  BY DEF Space!Given, Paged
<1>1. HasMemory(r, i) /\ MemoryAt(r, i) = g
  BY DEF Paged, PageState, HasMemory, MemoryAt
<1>2. PICK t, k, l, o : Decides(p, r, i, t, k, l, o) /\ o = i - Align(i, l)
  BY PageDecided
<1>3. gstate[MemoryAt(r, i)] = "DATA"
  BY <1>1, <1>2, MemoryHeld
<1> QED BY <1>1, <1>3

LEMMA DataCreatePages ==
  ASSUME NEW p, SafeState(p), SeenState(p), NEW c \in Cpus, Idle(c),
         NEW r \in Realms, NEW i \in Ipas, NEW g \in Granules, DataCreate(r, i, g)
  PROVE  SeenState(p)' /\ SpaceStep
<1>0. PICK t, k, a, e : /\ t = TableAt(r, i)[3] /\ k = Index(i, 3) /\ a = tbl[t][k]
                        /\ e = IF a.ripas = "EMPTY" THEN CreateAssignedEmpty(g) ELSE CreateValid(g, 3)
  OBVIOUS
<1>1. RTT_PAGE_LEVEL = 3 /\ 3 \in Levels
  BY LevelsAre DEF RTT_PAGE_LEVEL
<1>2. /\ t # None /\ Free(t) /\ IsUnassigned(a) /\ Overwrites(t, k, e) /\ InPar(i)
      /\ UNCHANGED <<tlb, f, active, req>>
      /\ gstate[g] = "DELEGATED" /\ gstate' = [gstate EXCEPT ![g] = "DATA"]
  BY <1>0, <1>1 DEF DataCreate, At, Takable, Overwrites
<1>3. Spot(p, r, i, 3, t, k)
  BY <1>0, <1>1, <1>2, WalkSpot
<1>4. SafeState(p)'
  BY DataCreateSafe
<1>5. ~IsTable(a, 3) /\ Good(a, 3) /\ a.ripas \in Ripas
  BY <1>0, <1>1, <1>2, <1>3, DeadEntry DEF Spot, Good, Entries
<1>6. Used(gstate') = Used(gstate)
  BY <1>2 DEF Used, SafeState, StateOK, Typed
<1>7. f[c].pc # "ripas" /\ f[c].then # "make" /\ f'[c] = f[c] /\ \A d \in Cpus : d # c => f'[d] = f[d]
  BY <1>2, IdleFrameHere
<1>8. /\ Clear(e) /\ e.pa = g /\ ~IsTable(e, 3)
      /\ \/ a.ripas = "EMPTY" /\ IsAssigned(e)
         \/ a.ripas = "RAM" /\ IsValid(e, 3)
  <2>1. Aligned(g, 3)
    BY PagesAre DEF Aligned, Granules
  <2>2. LET x == CreateAssignedEmpty(g) IN Good(x, 3) /\ IsAssigned(x) /\ Clear(x) /\ x.pa = g
    BY <1>1, <2>1, NewEntries, ClearEntries
  <2>3. LET x == CreateValid(g, 3) IN Good(x, 3) /\ IsValid(x, 3) /\ Clear(x) /\ x.pa = g
    BY <1>1, NewEntries, ClearEntries
  <2>4. ~IsTable(e, 3)
    BY DEF IsTable, RTT_PAGE_LEVEL
  <2> QED BY <1>0, <1>5, <2>2, <2>3, <2>4 DEF Ripas
<1>9. SeenState(p)' /\ Rewrites(r, i, 3, a, e) /\ Good(e, 3)
  <2>1. Overwrites(t, k, e) /\ a = tbl[t][k]
    BY <1>0, <1>2
  <2> QED BY <1>1, <1>3, <1>4, <1>5, <1>6, <1>7, <1>8, <2>1, WriteSeen
<1>10. Calm
  BY <1>2, <1>7, CalmKept
<1>11. ~Space!Given(g)
  BY <1>2, FreshGranule
<1>12. Space!Next
  BY <1>2, <1>5, <1>8, <1>9, <1>10, <1>11, DataCreateStep
<1> QED BY <1>9, <1>12, StepOf

LEMMA DataDestroyPages ==
  ASSUME NEW p, SafeState(p), SeenState(p), NEW c \in Cpus, Idle(c),
         NEW r \in Realms, NEW i \in Ipas, DataDestroy(c, r, i)
  PROVE  SeenState(p)' /\ SpaceStep
<1>0. PICK t, k, a : t = TableAt(r, i)[3] /\ k = Index(i, 3) /\ a = tbl[t][k]
  OBVIOUS
<1>1. PICK e, nf : /\ e = IF IsValid(a, 3) THEN CreateDestroyed ELSE CreateUnassigned("EMPTY")
                   /\ nf = [IdleFrame EXCEPT !.pc = DestroyContinues(a), !.then = "free", !.r = r,
                                             !.llt = t, !.sub = a.pa, !.span = {i}]
  OBVIOUS
<1>2. RTT_PAGE_LEVEL = 3 /\ 3 \in Levels
  BY LevelsAre DEF RTT_PAGE_LEVEL
<1>3. /\ t # None /\ Free(t) /\ (IsValid(a, 3) \/ IsAssigned(a)) /\ Overwrites(t, k, e)
      /\ UNCHANGED <<gstate, tlb, active, req>> /\ f' = [f EXCEPT ![c] = nf]
  BY <1>0, <1>1, <1>2 DEF DataDestroy, Become, At, Overwrites
<1>4. Spot(p, r, i, 3, t, k)
  BY <1>0, <1>2, <1>3, WalkSpot
<1>5. SafeState(p)'
  BY DataDestroySafe
<1>6. nf.pc \in {"tlbi", "free"} /\ nf.then = "free"
  BY <1>1 DEF IdleFrame, DestroyContinues
<1>7. f'[c] = nf /\ \A d \in Cpus : d # c => f'[d] = f[d]
  BY <1>3, FrameChanged
<1>8. f[c].pc # "ripas" /\ f[c].then # "make" /\ f'[c].then # "make" /\ f'[c].pc # "ripas"
  BY <1>6, <1>7, IdleFrameHere
<1>9. /\ Clear(e) /\ ~IsTable(e, 3) /\ ~IsTable(a, 3)
      /\ \/ IsAssigned(a) /\ IsUnassigned(e) /\ e.ripas = "EMPTY"
         \/ IsValid(a, 3) /\ IsDestroyed(e)
  <2>1. ~IsTable(e, 3) /\ ~IsTable(a, 3)
    BY DEF IsTable, RTT_PAGE_LEVEL
  <2> QED BY <1>1, <1>3, <2>1, ClearEntries
<1>10. SeenState(p)' /\ Rewrites(r, i, 3, a, e) /\ Good(a, 3) /\ Good(e, 3) /\ Clear(a)
  BY <1>0, <1>3, <1>4, <1>5, <1>7, <1>8, <1>9, WriteSeen
<1>11. Calm
  BY <1>3, <1>7, <1>8, CalmKept
<1>12. Space!Next
  BY <1>9, <1>10, <1>11, DataDestroyStep
<1> QED BY <1>10, <1>12, StepOf

LEMMA SetRipasPages ==
  ASSUME NEW p, SafeState(p), SeenState(p), Requests(req), NEW c \in Cpus, Idle(c),
         NEW r \in Realms, NEW l \in Levels, SetRipas(c, r, l)
  PROVE  SeenState(p)' /\ SpaceStep
<1>0. PICK i, s : i = req[r].addr /\ s = req[r].ripas
  OBVIOUS
<1>1. PICK t, k, a : t = TableAt(r, i)[l] /\ k = Index(i, l) /\ a = tbl[t][k]
  OBVIOUS
<1>2. PICK e, nf : e = Updated(a, l, s) /\ nf = EmptyFrame(r, t, i)
  OBVIOUS
<1>3. i \in Ipas
  <2>1. PICK P \in Nat : P > 0 /\ P = Pages(l)
    BY PagesAre, LevelIs
  <2>2. i \in Nat /\ req[r].end \in 0 .. NumIpas /\ NumIpas \in Int
    BY <1>0, LevelIs, LevelsAre, PagesAre, EPositive DEF Requests, NumIpas
  <2>3. i + P <= req[r].end
    BY <1>0, <2>1 DEF SetRipas
  <2> QED BY <2>1, <2>2, <2>3 DEF Ipas
<1>4. /\ t # None /\ Free(t) /\ Updatable(a, l) /\ Overwrites(t, k, e)
      /\ UNCHANGED <<gstate, tlb, active>>
      /\ Aligned(i, l) /\ i + Pages(l) <= req[r].end /\ req' = [req EXCEPT ![r].addr = i + Pages(l)]
  BY <1>0, <1>1, <1>2 DEF SetRipas, At, Overwrites
<1>5. f' = [f EXCEPT ![c] = nf] \/ f' = f
  BY <1>0, <1>1, <1>2 DEF SetRipas, At, Become, EmptyFrame
<1>6. Spot(p, r, i, l, t, k)
  BY <1>1, <1>3, <1>4, WalkSpot
<1>7. SafeState(p)'
  BY SetRipasSafe
<1>8. nf.pc = "tlbi" /\ nf.then = "idle"
  BY <1>2 DEF EmptyFrame, IdleFrame
<1>9. f[c].pc # "ripas" /\ f[c].then # "make"
  BY IdleFrameHere
<1>10. /\ \A d \in Cpus : d # c => f'[d] = f[d]
       /\ f'[c].then # "make" /\ f'[c].pc # "ripas"
  <2>1. CASE f' = [f EXCEPT ![c] = nf]
    BY <1>8, <2>1, FrameChanged
  <2>2. CASE f' = f
    BY <1>9, <2>2
  <2> QED BY <1>5, <2>1, <2>2
<1>11. Good(a, l) /\ ~IsTable(a, l) /\ Clear(a)
  BY <1>1, <1>4, <1>6 DEF Spot, Updatable, SeenState
<1>12. Clear(e) /\ ~IsTable(e, l)
  <2>1. CASE IsValid(a, l) /\ s = "EMPTY"
    <3>1. e = CreateAssignedEmpty(a.pa)
      BY <1>2, <2>1 DEF Updated
    <3>2. Clear(e) /\ IsAssigned(e)
      BY <3>1, ClearEntries
    <3>3. ~IsTable(e, l)
      BY <3>2 DEF IsTable, IsAssigned, HasHipas, S2TTE_Lx_INVALID, S2TTE_L012_TABLE
    <3> QED BY <3>2, <3>3
  <2>2. CASE ~IsValid(a, l) /\ s = "RAM"
    <3>1. IsUnassigned(a) \/ IsAssigned(a)
      BY <1>4, <2>2 DEF Updatable
    <3>2. e = SetRam(a)
      BY <1>2, <2>2 DEF Updated
    <3> QED BY <1>11, <3>1, <3>2, ClearRam, RamEntry
  <2>3. CASE ~(IsValid(a, l) /\ s = "EMPTY") /\ ~(~IsValid(a, l) /\ s = "RAM")
    <3>1. e = a
      BY <1>2, <2>3 DEF Updated
    <3> QED BY <1>11, <3>1
  <2> QED BY <2>1, <2>2, <2>3
<1>13. SeenState(p)' /\ Rewrites(r, i, l, a, e) /\ Good(e, l)
  <2>1. gstate' = gstate
    BY <1>4
  <2>2. Used(gstate') = Used(gstate)
    BY <2>1
  <2> QED BY <1>1, <1>3, <1>4, <1>6, <1>7, <1>9, <1>10, <1>11, <1>12, <2>2, WriteSeen
<1>14. Sealed' = Sealed
  BY <1>4, <1>9, <1>10, SealedKept
<1>15. Space!Next
  BY <1>0, <1>2, <1>3, <1>4, <1>11, <1>12, <1>13, <1>14, SetRipasStep
<1> QED BY <1>13, <1>15, StepOf

---------------------------------------------------------------------------
(* The steps that write no entry *)
LEMMA StopsPages ==
  ASSUME NEW p, SafeState(p), SeenState(p), SafeState(p)', NEW c \in Cpus, Idle(c),
         NEW t, NEW g, Stops(c, t, g), UNCHANGED <<gstate, tbl, active, req>>
  PROVE  SeenState(p)' /\ SpaceStep
<1>0. PICK nf : nf = [IdleFrame EXCEPT !.pc = "stuck", !.llt = t, !.sub = g]
  OBVIOUS
<1>1. f' = [f EXCEPT ![c] = nf] /\ nf.then = "idle" /\ nf.pc = "stuck"
  BY <1>0 DEF Stops, Become, IdleFrame
<1>2. f'[c] = nf /\ \A d \in Cpus : d # c => f'[d] = f[d]
  BY <1>1, FrameChanged
<1>3. f[c].pc # "ripas" /\ f'[c].pc # "ripas" /\ f[c].then # "make" /\ f'[c].then # "make"
  BY <1>1, <1>2, IdleFrameHere
<1>4. SeenState(p)' /\ Paged' = Paged
  BY <1>2, <1>3, FrameSeen
<1>5. Calm
  BY <1>2, <1>3, CalmKept
<1> QED BY <1>4, <1>5, StepOf DEF Calm, Stutters

LEMMA InitRipasPages ==
  ASSUME NEW p, SafeState(p), SeenState(p), NEW c \in Cpus, Idle(c), NEW r \in Realms, InitRipas(c, r)
  PROVE  SeenState(p)' /\ SpaceStep
<1>0. PICK nf : nf = [IdleFrame EXCEPT !.pc = "ripas", !.r = r]
  OBVIOUS
<1>1. /\ f' = [f EXCEPT ![c] = nf] /\ nf.then = "idle" /\ nf.r = r /\ r \notin active
      /\ UNCHANGED <<gstate, tbl, refs, active, req>>
  BY <1>0 DEF InitRipas, Become, IdleFrame
<1>2. f'[c] = nf /\ \A d \in Cpus : d # c => f'[d] = f[d]
  BY <1>1, FrameChanged
<1>3. f[c].pc # "ripas" /\ f[c].then # "make" /\ f'[c].then # "make"
  BY <1>1, <1>2, IdleFrameHere
<1>4. SafeState(p)'
  BY InitRipasSafe
<1>5. SeenState(p)' /\ Paged' = Paged
  BY <1>1, <1>2, <1>3, <1>4, FrameSeen
<1>6. Sealed' = Sealed
  BY <1>1, <1>2, <1>3, SealedKept
<1> QED BY <1>1, <1>5, <1>6, StepOf DEF Stutters, Waiting

LEMMA InitRipasFailsPages ==
  ASSUME NEW p, SafeState(p), SeenState(p), NEW c \in Cpus, InitRipasFails(c)
  PROVE  SeenState(p)' /\ SpaceStep
<1>1. /\ f[c].pc = "ripas" /\ f' = [f EXCEPT ![c] = IdleFrame]
      /\ UNCHANGED <<gstate, tbl, refs, active, req>> /\ Return(c)
  BY DEF InitRipasFails, Return, Become
<1>2. PICK r : r = f[c].r
  OBVIOUS
<1>3. r \in Realms /\ f[c].then = "idle"
  BY <1>1, <1>2 DEF SafeState, StateOK, FramesOK, FrameOK
<1>4. f'[c] = IdleFrame /\ \A d \in Cpus : d # c => f'[d] = f[d]
  BY <1>1, FrameChanged
<1>5. f[c].then # "make" /\ f'[c].then # "make" /\ f'[c].pc # "ripas"
  BY <1>3, <1>4, IdleIsFrame DEF IdleFrame
<1>6. SafeState(p)'
  BY <1>1, <1>3, ReturnSafe
<1>7. SeenState(p)' /\ Paged' = Paged
  BY <1>1, <1>4, <1>5, <1>6, FrameSeen
<1>8. Seals(r)
  BY <1>1, <1>2, <1>4, <1>5, SealedByReturn
<1>9. Waiting' = Waiting
  BY <1>1 DEF Waiting
<1> QED BY <1>3, <1>7, <1>8, <1>9, SealStep

LEMMA DataFreePages ==
  ASSUME NEW p, SafeState(p), SeenState(p), NEW c \in Cpus, DataFree(c)
  PROVE  SeenState(p)' /\ SpaceStep
<1>1. /\ f[c].pc = "free" /\ f' = [f EXCEPT ![c] = IdleFrame] /\ UNCHANGED <<tbl, active, req>>
      /\ gstate' = [gstate EXCEPT ![f[c].sub] = "DELEGATED"]
  BY DEF DataFree, Return, Become
<1>2. f'[c] = IdleFrame /\ \A d \in Cpus : d # c => f'[d] = f[d]
  BY <1>1, FrameChanged
<1>3. f[c].then = "free" /\ f[c].sub \in Granules /\ gstate[f[c].sub] = "DATA"
  BY <1>1 DEF SafeState, StateOK, FramesOK, FrameOK, FreeOK, MakeOK, Typed, Frames
<1>4. f[c].pc # "ripas" /\ f[c].then # "make" /\ f'[c].then # "make" /\ f'[c].pc # "ripas"
  BY <1>1, <1>2, <1>3, IdleIsFrame DEF IdleFrame
<1>5. SafeState(p)'
  BY DataFreeSafe
<1>6. Used(gstate') = Used(gstate)
  BY <1>1, <1>3 DEF Used, SafeState, StateOK, Typed
<1>7. SeenState(p)' /\ Paged' = Paged
  BY <1>1, <1>2, <1>4, <1>5, <1>6, FrameSeen
<1>8. Calm
  BY <1>1, <1>2, <1>4, CalmKept
<1> QED BY <1>7, <1>8, StepOf DEF Calm, Stutters

LEMMA TlbiPages ==
  ASSUME NEW p, SafeState(p), SeenState(p), NEW c \in Cpus, Tlbi(c)
  PROVE  SeenState(p)' /\ SpaceStep
<1>0. PICK fr, nf : fr = f[c] /\ nf = IF fr.then = "idle" THEN IdleFrame ELSE [fr EXCEPT !.pc = fr.then]
  OBVIOUS
<1>1. fr.pc = "tlbi" /\ UNCHANGED <<gstate, tbl, active, req>> /\ f' = [f EXCEPT ![c] = nf]
  BY <1>0 DEF Tlbi, Return, Become
<1>2. f'[c] = nf /\ \A d \in Cpus : d # c => f'[d] = f[d]
  BY <1>1, FrameChanged
<1>3. SafeState(p)' /\ f \in [Cpus -> Frames] /\ f' \in [Cpus -> Frames] /\ fr \in Frames
      /\ LocksDiffer(f) /\ LocksDiffer(f')
  BY <1>0, TlbiSafe DEF SafeState, StateOK, Typed
<1>4. /\ nf.then = fr.then /\ nf.pc # "ripas"
      /\ fr.then # "idle" => /\ nf.llt = fr.llt /\ nf.idx = fr.idx /\ nf.sub = fr.sub
                             /\ nf.old = fr.old /\ nf.new = fr.new
  BY <1>0, <1>3 DEF IdleFrame, Frames
<1>5. View(tbl', f') = View(tbl, f)
  <2> DEFINE H == f'
  <2>1. SameWork(f, H)
    BY <1>0, <1>2, <1>4 DEF SameWork
  <2>2. H \in [Cpus -> Frames] /\ LocksDiffer(H)
    BY <1>3
  <2> HIDE DEF H
  <2>3. View(tbl, H) = View(tbl, f)
    BY <1>3, <2>1, <2>2, SameView
  <2> QED BY <1>1, <2>3 DEF H
<1>6. OthersStay(p, p, c)
  BY <1>1, <1>2 DEF OthersStay
<1>7. FrameMeans(tbl', p, f'[c])
  <2>1. FrameMeans(tbl, p, fr)
    BY <1>0 DEF SeenState
  <2> QED BY <1>1, <1>2, <1>4, <2>1 DEF FrameMeans, BreakMeans
<1>8. \A t \in Tables, k \in Slots : Clear(tbl'[t][k])
  BY <1>1 DEF SeenState
<1>9. SeenState(p)'
  BY <1>6, <1>7, <1>8, SeenStep
<1>10. Paged' = Paged
  BY <1>1, <1>3, <1>5, ViewKept
<1>11. f[c].pc # "ripas" /\ f'[c].pc # "ripas"
  BY <1>0, <1>1, <1>2, <1>4
<1>12. Calm
  BY <1>1, <1>2, <1>11, CalmKept
<1> QED BY <1>9, <1>10, <1>12, StepOf DEF Calm, Stutters

---------------------------------------------------------------------------
(* The start of a break *)
StartsBreak(fr, nf, t, k, e) ==
  fr.then # "make" /\ nf.then = "make" /\ nf.llt = t /\ nf.idx = k /\ nf.old = e
SameElse(T, T2, t, k) == \A u \in Tables, j \in Slots : (u = t /\ j = k) \/ T2[u][j] = T[u][j]
SameAll(V, W) == \A u \in Tables, j \in Slots : W[u][j] = V[u][j]

LEMMA BreakView ==
  ASSUME NEW F, NEW H, NEW c, OneMoves(F, H, c), NEW T, NEW T2, NEW t \in Tables, NEW k \in Slots,
         StartsBreak(F[c], H[c], t, k, View(T, F)[t][k]), SameElse(T, T2, t, k)
  PROVE  SameAll(View(T, F), View(T2, H))
<1>1. \A u, j : BreakAt(H[c], u, j) <=> u = t /\ j = k
  BY DEF BreakAt, StartsBreak
<1>2. F[c].then # "make" /\ H[c].old = View(T, F)[t][k]
  BY DEF StartsBreak
<1>3. \A u \in Tables, j \in Slots : (u = t /\ j = k) \/ T2[u][j] = T[u][j]
  BY DEF SameElse
<1>4. View(T2, H)[t][k] = View(T, F)[t][k]
  BY <1>1, <1>2, ViewIs DEF OneMoves
<1>5. ASSUME NEW u \in Tables, NEW j \in Slots, ~(u = t /\ j = k)
      PROVE  View(T2, H)[u][j] = View(T, F)[u][j]
  <2>1. ~BreakAt(F[c], u, j) /\ ~BreakAt(H[c], u, j) /\ T2[u][j] = T[u][j]
    BY <1>1, <1>2, <1>3, <1>5 DEF BreakAt
  <2> QED BY <2>1, OthersViewHere
<1> QED BY <1>4, <1>5 DEF SameAll

LEMMA BreakPages ==
  ASSUME NEW p, SafeState(p), SeenState(p), SafeState(p)', NEW c \in Cpus, Idle(c),
         NEW r \in Realms, NEW i \in Ipas, NEW l, NEW t, NEW k, Spot(p, r, i, l, t, k),
         NEW g \in Granules, g # t, NEW new, Clear(new), NEW span,
         Like(tbl[g], new, l + 1) \/ Lost(tbl[g], new, Start(p[t].base, k, l)),
         NEW nf, BreakFrame(nf, r, t, k, g, new, span),
         f' = [f EXCEPT ![c] = nf], BreakWrites(tbl', t, k), UNCHANGED <<gstate, active, req>>
  PROVE  SeenState(p)' /\ SpaceStep
<1>1. /\ t \in Used(gstate) /\ t \in Tables /\ k \in Slots /\ p[t].lvl = l /\ Unlocked(f, t)
      /\ View(tbl, f)[t][k] = tbl[t][k]
  BY DEF Spot
<1>2. /\ nf.pc = "tlbi" /\ nf.then = "make" /\ nf.llt = t
      /\ nf.idx = k /\ nf.sub = g /\ nf.old = tbl[t][k] /\ nf.new = new
  BY DEF BreakFrame, IdleFrame
<1>3. f'[c] = nf /\ \A d \in Cpus : d # c => f'[d] = f[d]
  BY FrameChanged
<1>4. OneMoves(f, f', c) /\ f'[c] \in Frames
  BY <1>3 DEF SafeState, StateOK, Typed, OneMoves
<1>5. /\ \A u \in Tables : u # t => tbl'[u] = tbl[u]
      /\ \A u \in Tables, j \in Slots : (u = t /\ j = k) \/ tbl'[u][j] = tbl[u][j]
      /\ tbl'[t][k] = ZeroEntry
  BY <1>1 DEF BreakWrites, SafeState, StateOK, Typed
<1>6. SameAll(View(tbl, f), View(tbl', f'))
  <2> DEFINE H  == f'
             T2 == tbl'
  <2>1. OneMoves(f, H, c) /\ t \in Tables /\ k \in Slots
    BY <1>1, <1>4
  <2>2. StartsBreak(f[c], H[c], t, k, View(tbl, f)[t][k])
    BY <1>1, <1>2, <1>3, IdleFrameHere DEF StartsBreak
  <2>3. SameElse(tbl, T2, t, k)
    BY <1>5 DEF SameElse
  <2> HIDE DEF H, T2
  <2>4. SameAll(View(tbl, f), View(T2, H))
    BY <2>1, <2>2, <2>3, BreakView
  <2> QED BY <2>4 DEF H, T2
<1>7. OthersStay(p, p, c)
  BY <1>1, <1>3, <1>4, <1>5 DEF OthersStay, OneMoves, Unlocked, Locks, Frames, Tables
<1>8. \A u \in Tables, j \in Slots : Clear(tbl'[u][j])
  BY <1>5, ClearEntries DEF SeenState
<1>9. FrameMeans(tbl', p, f'[c])
  <2>1. tbl'[g] = tbl[g]
    BY <1>5 DEF Tables
  <2>2. Clear(tbl[t][k])
    BY <1>1 DEF SeenState
  <2> QED BY <1>1, <1>2, <1>3, <2>1, <2>2 DEF FrameMeans, BreakMeans
<1>10. SeenState(p)'
  BY <1>7, <1>8, <1>9, SeenStep
<1>11. Paged' = Paged
  BY <1>6, ViewKept DEF SameAll
<1>12. f[c].pc # "ripas" /\ f'[c].pc # "ripas"
  BY <1>2, <1>3, IdleFrameHere
<1>13. Calm
  BY <1>3, <1>12, CalmKept
<1> QED BY <1>10, <1>11, <1>13, StepOf DEF Calm, Stutters

LEMMA DeadKinds ==
  ASSUME NEW e, NEW l, Good(e, l), ~Live(e)
  PROVE  IsUnassigned(e) \/ IsDestroyed(e)
BY DEF Good, Live, IsUnassigned, IsDestroyed, IsAssigned, HasHipas, S2TTE_Lx_INVALID, LeafDesc,
       S2TTE_L3_PAGE, S2TTE_L012_BLOCK

LEMMA SameHalf ==
  ASSUME NEW i \in Ipas, NEW l \in Levels
  PROVE  InPar(Align(i, l)) <=> InPar(i)
<1>1. PICK a : a = Align(i, l)
  OBVIOUS
<1>2. a \in Ipas /\ Align(a, l) = a /\ i \in Block(a, l)
  BY <1>1, EntryOfPage
<1>3. a \in Block(i, l)
  <2>1. a \in Nat /\ Pages(l) \in Nat /\ Pages(l) > 0 /\ Block(i, l) = a .. a + Pages(l) - 1
    BY <1>1, BlockIs
  <2> QED BY <2>1
<1> QED BY <1>1, <1>2, <1>3, BlockInHalf

LEMMA RttDestroyPages ==
  ASSUME NEW p, SafeState(p), SeenState(p), NEW c \in Cpus, Idle(c), NEW r \in Realms,
         NEW i \in Ipas, NEW l \in TableLevels, RttDestroy(c, r, i, l)
  PROVE  SeenState(p)' /\ SpaceStep
<1>0. PICK t, g, k, new, nf :
        /\ t = TableAt(r, i)[l - 1] /\ g = TableAt(r, i)[l] /\ k = Index(i, l - 1)
        /\ new = IF InPar(i) THEN CreateDestroyed ELSE CreateInvalidNs
        /\ nf = [IdleFrame EXCEPT !.pc = "tlbi", !.then = "make", !.r = r,
                                  !.llt = TableAt(r, i)[l - 1], !.idx = Index(i, l - 1),
                                  !.sub = TableAt(r, i)[l],
                                  !.old = tbl[TableAt(r, i)[l - 1]][Index(i, l - 1)],
                                  !.new = IF InPar(i) THEN CreateDestroyed ELSE CreateInvalidNs,
                                  !.span = {i}, !.gs = "DELEGATED"]
  OBVIOUS
<1>1. g # None /\ Free(t) /\ Free(g) /\ refs[g] = 0
  BY <1>0 DEF RttDestroy, Unused
<1>2. /\ tbl' = [tbl EXCEPT ![t][k] = ZeroEntry] /\ UNCHANGED <<gstate, tlb, active, req>>
      /\ f' = [f EXCEPT ![c] = nf]
  BY <1>0 DEF RttDestroy, Breaks, Become, At
<1>3. BreakFrame(nf, r, t, k, g, new, {i})
  BY <1>0 DEF BreakFrame
<1>4. BreakWrites(tbl', t, k)
  BY <1>2 DEF BreakWrites
<1>5. /\ Spot(p, r, i, l - 1, t, k) /\ l \in Levels /\ l - 1 \in Levels /\ g \in Granules /\ g # t
      /\ refs[g] = LiveCount(tbl[g]) /\ \A j \in Slots : Good(tbl[g][j], l)
  BY <1>0, <1>1, WalkChild
<1>6. Clear(new)
  BY <1>0, ClearEntries
<1>7. SafeState(p)'
  BY RttDestroySafe
<1>8. \A j \in Slots : IsUnassigned(tbl[g][j]) \/ IsDestroyed(tbl[g][j])
  BY <1>1, <1>5, LiveCountIs, DeadKinds
<1>9. Lost(tbl[g], new, Start(p[t].base, k, l - 1))
  <2>1. p[t] = PlaceOf(r, i, l - 1) /\ k = Index(i, l - 1)
    BY <1>5 DEF Spot
  <2>2. Start(p[t].base, k, l - 1) = Align(i, l - 1)
    BY <1>5, <2>1, BlockOf DEF PlaceOf
  <2>3. InPar(Align(i, l - 1)) <=> InPar(i)
    BY <1>5, SameHalf
  <2> QED BY <1>0, <1>8, <2>2, <2>3 DEF Lost
<1>10. UNCHANGED <<gstate, active, req>> /\ f' = [f EXCEPT ![c] = nf]
  BY <1>2
<1> QED BY <1>3, <1>4, <1>5, <1>6, <1>7, <1>9, <1>10, BreakPages

LEMMA RttFoldPages ==
  ASSUME NEW p, SafeState(p), SeenState(p), ~BadFold, NEW c \in Cpus, Idle(c),
         NEW r \in Realms, NEW i \in Ipas, NEW l \in TableLevels, RttFold(c, r, i, l)
  PROVE  SeenState(p)' /\ SpaceStep
<1>0. PICK t, g, k : t = TableAt(r, i)[l - 1] /\ g = TableAt(r, i)[l] /\ k = Index(i, l - 1)
  OBVIOUS
<1>1. PICK new : new = Folded(tbl[g], tbl[t][k], l)
  OBVIOUS
<1>2. PICK span : span = FoldSpan(new, i, l)
  OBVIOUS
<1>3. PICK nf :
        nf = [IdleFrame EXCEPT !.pc = "tlbi", !.then = "make", !.r = r, !.llt = t, !.idx = k,
                               !.sub = g, !.old = tbl[t][k], !.new = new, !.span = span,
                               !.gs = "DELEGATED"]
  OBVIOUS
<1>4. g # None /\ Free(t) /\ Free(g) /\ Foldable(g, l) /\ ~FoldFails(g, l)
  BY <1>0 DEF RttFold, BadFold
<1>5. /\ tbl' = [tbl EXCEPT ![t][k] = ZeroEntry] /\ UNCHANGED <<gstate, tlb, active, req>>
      /\ f' = [f EXCEPT ![c] = nf]
  BY <1>0, <1>1, <1>2, <1>3 DEF RttFold, Breaks, Become, At
<1>6. /\ Spot(p, r, i, l - 1, t, k) /\ l \in Levels /\ l - 1 \in Levels /\ g \in Granules /\ g # t
      /\ refs[g] = LiveCount(tbl[g]) /\ \A j \in Slots : Good(tbl[g][j], l)
  BY <1>0, <1>4, WalkChild
<1>7. BreakFrame(nf, r, t, k, g, new, span) /\ BreakWrites(tbl', t, k)
  BY <1>3, <1>5 DEF BreakFrame, BreakWrites
<1>8. SafeState(p)'
  BY RttFoldSafe
<1>9. l \in Int /\ (l - 1) + 1 = l
  BY <1>6, LevelIs
<1>10. Clear(new) /\ Like(tbl[g], new, l)
  <2>0. 0 \in Slots /\ E # 0
    BY EPositive DEF Slots
  <2>1. CASE refs[g] = 0
    <3>1. IsUniform(tbl[g])
      BY <1>4, <2>0, <2>1 DEF Foldable
    <3>2. new = tbl[g][0]
      BY <1>1, <1>6, <3>1, FoldsDead
    <3>3. \A j \in Slots : Clear(tbl[g][j])
      BY <1>6 DEF SeenState, Tables
    <3>4. ASSUME NEW j \in Slots, NEW o, NEW x PROVE Seen(tbl[g][j], o) = Seen(new, x)
      <4>1. CASE \A m \in Slots : IsDestroyed(tbl[g][m])
        <5>1. IsDestroyed(tbl[g][j]) /\ IsDestroyed(new) /\ Clear(tbl[g][j]) /\ Clear(new)
          BY <2>0, <3>2, <3>3, <4>1
        <5>2. Good(tbl[g][j], l) /\ Good(new, l)
          BY <1>6, <2>0, <3>2
        <5>3. Seen(tbl[g][j], o) = Space!Destroyed
          BY <1>6, <5>1, <5>2, SeenIs
        <5>4. Seen(new, x) = Space!Destroyed
          BY <1>6, <5>1, <5>2, SeenIs
        <5> QED BY <5>3, <5>4
      <4>2. CASE \A m \in Slots : IsUnassigned(tbl[g][m]) /\ tbl[g][m].ripas = tbl[g][0].ripas
        <5>1. IsUnassigned(tbl[g][j]) /\ IsUnassigned(new) /\ tbl[g][j].ripas = new.ripas
          BY <2>0, <3>2, <4>2
        <5>2. Good(tbl[g][j], l) /\ Good(new, l)
          BY <1>6, <2>0, <3>2
        <5>3. Seen(tbl[g][j], o) = Space!Unassigned(tbl[g][j].ripas)
          BY <1>6, <5>1, <5>2, SeenIs
        <5>4. Seen(new, x) = Space!Unassigned(new.ripas)
          BY <1>6, <5>1, <5>2, SeenIs
        <5> QED BY <5>1, <5>3, <5>4
      <4> QED BY <3>1, <4>1, <4>2 DEF IsUniform
    <3> QED BY <2>0, <3>2, <3>3, <3>4 DEF Like
  <2>2. CASE refs[g] # 0
    <3>1. refs[g] = E /\ l = 3
      BY <1>4, <1>6, <2>2, LevelIs DEF Foldable, RTT_MIN_BLOCK_LEVEL
    <3>2. \A j \in Slots : Live(tbl[g][j])
      BY <1>6, <3>1, LiveCountIs
    <3>3. FullTable(g) /\ new = CreateAssignedEmpty(tbl[g][0].pa)
      BY <1>1, <1>4, <1>6, <3>1, <3>2, FoldsFull
    <3>4. PICK b : b = tbl[g][0].pa
      OBVIOUS
    <3>5. b \in Granules /\ Aligned(b, 2)
      <4>1. b \in Granules /\ b % E = 0
        BY <1>6, <2>0, <3>3, <3>4, AssignedEntry DEF FullTable
      <4> QED BY <4>1, PagesAre DEF Aligned
    <3>6. Good(new, 2) /\ IsAssigned(new) /\ new.pa = b
      BY <3>3, <3>4, <3>5, LevelsAre, NewEntries
    <3>7. ASSUME NEW j \in Slots, NEW o \in 0 .. Pages(l) - 1
          PROVE  Seen(tbl[g][j], o) = Seen(new, j * Pages(l) + o)
      <4>1. Pages(l) = 1
        BY <3>1, PagesAre
      <4>2. j \in Int /\ o = 0 /\ b \in Int
        BY <3>5, <4>1 DEF Slots, Granules
      <4>3. j * Pages(l) + o = j
        BY <4>1, <4>2
      <4>4. IsAssigned(tbl[g][j]) /\ tbl[g][j].pa = b + j /\ Good(tbl[g][j], l)
        BY <1>6, <3>3, <3>4 DEF FullTable
      <4>5. Seen(tbl[g][j], o) = Space!Assigned("EMPTY", tbl[g][j].pa + o)
        BY <1>6, <4>4, SeenIs
      <4>6. tbl[g][j].pa + o = b + j
        BY <4>2, <4>4
      <4>7. Seen(new, j) = Space!Assigned("EMPTY", b + j)
        BY <3>6, LevelsAre, SeenIs
      <4> QED BY <4>3, <4>5, <4>6, <4>7
    <3>8. Clear(new)
      BY <3>3, ClearEntries
    <3> QED BY <3>7, <3>8 DEF Like
  <2> QED BY <2>1, <2>2
<1>11. UNCHANGED <<gstate, active, req>> /\ f' = [f EXCEPT ![c] = nf]
  BY <1>5
<1>12. Spot(p, r, i, l - 1, t, k) /\ g \in Granules /\ g # t
  BY <1>6
<1>13. Clear(new) /\ Like(tbl[g], new, (l - 1) + 1)
  BY <1>9, <1>10
<1> QED BY <1>7, <1>8, <1>11, <1>12, <1>13, BreakPages

---------------------------------------------------------------------------
(* A table g below entry k of t divides the pages of an entry e: e is in   *)
(* the view V, and the table, tb, in the view W.                           *)
Finer(V, G, p, W, H, q, t, k, g) ==
  /\ t \in Used(G) /\ k \in Slots /\ g \notin Used(G) /\ Used(H) = Used(G) \cup {g}
  /\ q[g] = Child(p[t], k) /\ \A u : u # g => q[u] = p[u]
  /\ \A u \in Used(G), j \in Slots : (u = t /\ j = k) \/ W[u][j] = V[u][j]
  /\ ~Points(V, p, t, k) /\ \A j \in Slots : ~Points(W, q, g, j)

Divided(P, Q, r, a, l, e, tb) ==
  \A s \in Realms, j \in Ipas :
    IF s = r /\ j \in a .. a + Pages(l) - 1
    THEN \E m \in Slots, o \in 0 .. Pages(l + 1) - 1 :
           P[s][j] = Seen(e, m * Pages(l + 1) + o) /\ Q[s][j] = Seen(tb[m], o)
    ELSE Q[s][j] = P[s][j]

LEMMA Digit2 ==
  ASSUME NEW n \in Nat, n > 0, NEW o \in 0 .. n * E - 1
  PROVE  \E m \in Slots, x \in 0 .. n - 1 : o = m * n + x
<1>1. n * E \in Nat /\ o \in Nat
  BY EPositive
<1>2. PICK m \in Nat, x \in 0 .. n - 1 : o = n * m + x
  BY <1>1, Quotient
<1>3. m < E
  <2>1. SUFFICES ASSUME m >= E PROVE FALSE
    BY EPositive
  <2>2. n * m \in Nat
    BY <1>2
  <2>3. CASE m = E
    BY <1>1, <1>2, <2>2, <2>3
  <2>4. CASE m > E
    <3>1. n * E + n <= n * m
      BY <2>4, EPositive, Multiples
    <3> QED BY <1>1, <1>2, <2>2, <3>1
  <2> QED BY <2>1, <2>3, <2>4, EPositive
<1>4. m \in Slots /\ n * m = m * n
  BY <1>2, <1>3, EPositive DEF Slots
<1> QED BY <1>2, <1>4

LEMMA PagesDivided ==
  ASSUME NEW V, NEW G, NEW p, NEW P, Shows(V, G, p, P), NEW W, NEW H, NEW q, NEW Q, Shows(W, H, q, Q),
         NEW t, NEW k, NEW g, Finer(V, G, p, W, H, q, t, k, g),
         NEW l, l = p[t].lvl, l \in 0 .. 2, NEW a \in Nat, a = Start(p[t].base, k, l),
         NEW e, e = V[t][k], NEW tb, \A m \in Slots : W[g][m] = tb[m], NEW r, r = p[t].r
  PROVE  Divided(P, Q, r, a, l, e, tb)
<1>0. PICK n, n1 : n = Pages(l) /\ n1 = Pages(l + 1)
  OBVIOUS
<1>1. n1 \in Nat /\ n1 > 0 /\ n = n1 * E /\ n \in Nat /\ l \in Int
  BY <1>0, PagesAre, PagesStep
<1>2. q[g].lvl = l + 1 /\ q[g].base = a /\ q[g].r = r
  BY DEF Finer, Child
<1>3. ASSUME NEW j \in Ipas, j \in a .. a + n - 1
      PROVE  \E m \in Slots, o \in 0 .. n1 - 1 :
               P[r][j] = Seen(e, m * n1 + o) /\ Q[r][j] = Seen(tb[m], o)
  <2>1. PICK x : x = j - a
    OBVIOUS
  <2>2. x \in 0 .. n1 * E - 1 /\ j = a + x /\ x \in 0 .. n - 1
    BY <1>1, <1>3, <2>1
  <2>3. PICK m \in Slots, o \in 0 .. n1 - 1 : x = m * n1 + o
    BY <1>1, <2>2, Digit2
  <2>4. LiesIn(V, G, p, t, k, x, r, j)
    BY <1>0, <2>2 DEF LiesIn, Finer
  <2>5. j = Start(a, m, l + 1) + o
    <3>1. m * n1 \in Int /\ o \in Int /\ m \in Int
      BY <1>1 DEF Slots
    <3>2. j = (a + m * n1) + o
      BY <2>2, <2>3, <3>1
    <3> QED BY <1>0, <3>2 DEF Start
  <2>6. LiesIn(W, H, q, g, m, o, r, j)
    <3>1. g \in Used(H) /\ ~Points(W, q, g, m)
      BY DEF Finer
    <3> QED BY <1>0, <1>2, <2>5, <3>1 DEF LiesIn
  <2>7. P[r][j] = Seen(e, x) /\ Q[r][j] = Seen(tb[m], o)
    BY <2>4, <2>6 DEF Shows
  <2> QED BY <2>3, <2>7
<1>4. ASSUME NEW s \in Realms, NEW j \in Ipas, ~(s = r /\ j \in a .. a + n - 1)
      PROVE  Q[s][j] = P[s][j]
  <2>1. PICK u, i, o : LiesIn(V, G, p, u, i, o, s, j)
    BY DEF Shows
  <2>2. ~(u = t /\ i = k)
    <3>1. SUFFICES ASSUME u = t, i = k PROVE FALSE
      OBVIOUS
    <3>2. o \in 0 .. n - 1 /\ s = r /\ j = a + o
      BY <1>0, <2>1, <3>1 DEF LiesIn
    <3> QED BY <1>1, <1>4, <3>2
  <2>3. u \in Used(G) /\ i \in Slots /\ W[u][i] = V[u][i] /\ u # g /\ u \in Used(H) /\ q[u] = p[u]
    BY <2>1, <2>2 DEF LiesIn, Finer
  <2>4. LiesIn(W, H, q, u, i, o, s, j)
    BY <2>1, <2>3 DEF LiesIn, Points
  <2> QED BY <2>1, <2>3, <2>4 DEF Shows
<1> QED BY <1>0, <1>3, <1>4 DEF Divided

LEMMA LikeSame ==
  ASSUME NEW P, NEW Q, NEW r, NEW a, NEW l, NEW e, NEW tb, Divided(P, Q, r, a, l, e, tb),
         Like(tb, e, l + 1)
  PROVE  \A s \in Realms, j \in Ipas : Q[s][j] = P[s][j]
BY DEF Divided, Like

LEMMA LostStep ==
  ASSUME NEW r \in Realms, NEW l \in Levels, l + 1 \in Levels, NEW a \in Ipas, Align(a, l) = a,
         NEW e, NEW tb, Divided(Paged', Paged, r, a, l, e, tb), Lost(tb, e, a), Good(e, l),
         \A m \in Slots : Good(tb[m], l + 1) /\ Clear(tb[m]), Calm
  PROVE  Space!Next
<1>1. PICK S, v : S = Block(a, l)
                  /\ v = IF InPar(a) THEN Space!Destroyed ELSE Space!Unassigned("EMPTY")
  OBVIOUS
<1>2. S = a .. a + Pages(l) - 1
  BY <1>1 DEF Block
<1>3. ASSUME NEW o PROVE Seen(e, o) = v
  <2>1. CASE InPar(a)
    <3>1. e = CreateDestroyed
      BY <2>1 DEF Lost
    <3>2. IsDestroyed(e) /\ Clear(e)
      BY <3>1, ClearEntries
    <3> QED BY <1>1, <2>1, <3>2, SeenIs
  <2>2. CASE ~InPar(a)
    <3>1. e = CreateInvalidNs
      BY <2>2 DEF Lost
    <3>2. IsUnassigned(e) /\ e.ripas = "EMPTY"
      BY <3>1, ClearEntries
    <3>3. Seen(e, o) = Space!Unassigned(e.ripas)
      BY <3>2, SeenIs
    <3> QED BY <1>1, <2>2, <3>2, <3>3
  <2> QED BY <2>1, <2>2
<1>4. ASSUME NEW m \in Slots, NEW o PROVE Seen(tb[m], o).hipas \in {"UNASSIGNED", "DESTROYED"}
  <2>1. PICK b : b = tb[m]
    OBVIOUS
  <2>2. Good(b, l + 1) /\ Clear(b) /\ (IsUnassigned(b) \/ IsDestroyed(b))
    BY <2>1 DEF Lost
  <2>3. CASE IsUnassigned(b)
    <3>1. Seen(b, o) = Space!Unassigned(b.ripas)
      BY <2>2, <2>3, SeenIs
    <3> QED BY <2>1, <3>1 DEF Space!Unassigned
  <2>4. CASE IsDestroyed(b)
    <3>1. Seen(b, o) = Space!Destroyed
      BY <2>2, <2>4, SeenIs
    <3> QED BY <2>1, <3>1 DEF Space!Destroyed
  <2> QED BY <2>2, <2>3, <2>4
<1>5. S \subseteq Ipas
  <2>1. PICK n : n = Pages(l)
    OBVIOUS
  <2>2. a = Align(a, l)
    OBVIOUS
  <2>3. a .. a + n - 1 \subseteq Ipas
    BY <2>1, <2>2, BlockIs
  <2> QED BY <1>2, <2>1, <2>3
<1>6. Loses(r, S, v)
  <2>1. ASSUME NEW j \in S
        PROVE  Paged[r][j].hipas \in {"UNASSIGNED", "DESTROYED"} /\ Paged'[r][j] = v
    <3>1. j \in Ipas /\ j \in a .. a + Pages(l) - 1
      BY <1>2, <1>5
    <3>2. PICK m \in Slots, o \in 0 .. Pages(l + 1) - 1 :
            Paged'[r][j] = Seen(e, m * Pages(l + 1) + o) /\ Paged[r][j] = Seen(tb[m], o)
      BY <3>1 DEF Divided
    <3> QED BY <1>3, <1>4, <3>2
  <2> QED BY <2>1 DEF Loses
<1>7. Moves(r, S)
  <2>1. \A s \in Realms, j \in Ipas : (s = r /\ j \in S) \/ Paged'[s][j] = Paged[s][j]
    BY <1>2 DEF Divided
  <2> QED BY <2>1, OthersAs
<1> QED BY <1>1, <1>6, <1>7, DestroyStep

LEMMA MakePages ==
  ASSUME NEW p, SafeState(p), SeenState(p), NEW c \in Cpus, Make(c)
  PROVE  SeenState(p)' /\ SpaceStep
<1>0. PICK t, k, g, l, new, tb : /\ t = f[c].llt /\ k = f[c].idx /\ g = f[c].sub /\ l = p[t].lvl
                                 /\ new = f[c].new /\ tb = tbl[f[c].sub]
  OBVIOUS
<1> DEFINE V == View(tbl, f)
           V2 == View(tbl', f')
<1>1. /\ f \in [Cpus -> Frames] /\ LocksDiffer(f) /\ tbl \in [Tables -> [Slots -> Entries]]
      /\ gstate \in [Granules -> {"DELEGATED", "RTT", "DATA"}]
      /\ p \in [Tables -> Places] /\ FrameOK(tbl, gstate, refs, p, f[c]) /\ Shape(V, gstate, p)
  BY DEF SafeState, StateOK, Typed, FramesOK, Shape, TreeTyped
<1>2. f[c].pc = "make" /\ f[c].then = "make" /\ MakeOK(tbl, gstate, refs, p, f[c])
  <2>1. f[c].pc = "make" /\ f[c].then \in {"idle", "make", "free"}
    BY <1>1 DEF Make, Frames
  <2>2. f[c].then = "make"
    BY <1>1, <2>1 DEF FrameOK, FreeOK
  <2> QED BY <1>1, <2>1, <2>2 DEF FrameOK
<1>3. /\ t \in Used(gstate) /\ t \in Tables /\ k \in Slots /\ g \in Granules /\ g \in Tables
      /\ f[c].old.pa = g /\ IsTable(f[c].old, l) /\ f[c].gs = "DELEGATED" /\ gstate[g] = "RTT"
      /\ Good(new, l) /\ ~IsTable(new, l) /\ l < 3 /\ \A j \in Slots : ~IsTable(tb[j], l + 1)
  BY <1>0, <1>1, <1>2, UsedAreTables DEF MakeOK, Frames, Tables
<1>4. /\ tbl' = [tbl EXCEPT ![t][k] = new, ![g] = ZeroTable] /\ UNCHANGED <<active, req>>
      /\ gstate' = [gstate EXCEPT ![g] = "DELEGATED"] /\ f' = [f EXCEPT ![c] = IdleFrame]
  BY <1>0, <1>3 DEF Make, Return, Become
<1>5. g # t /\ p[g] = Child(p[t], k) /\ l \in Levels /\ p[t].r \in Realms
      /\ p[t].base \in Ipas /\ Base(p[t].base, l) = p[t].base
  <2>1. BreakAt(f[c], t, k)
    BY <1>0, <1>2 DEF BreakAt
  <2>2. V[t][k] = f[c].old
    BY <1>1, <1>3, <2>1, ViewIs
  <2>3. Points(V, p, t, k) /\ V[t][k].pa = g
    BY <1>0, <1>3, <2>2 DEF Points
  <2>4. p[g] = Child(p[t], k) /\ l \in Levels /\ p[t].base \in Ipas
    BY <1>0, <1>1, <1>3, <2>3 DEF Shape, ChildrenPlaced, Places
  <2>5. p[t].r \in Realms /\ Base(p[t].base, l) = p[t].base
    BY <1>0, <1>1, <1>3 DEF Shape, PlacesGood
  <2> QED BY <1>0, <2>4, <2>5, LevelIs DEF Child
<1>6. SafeState(p)' /\ f' \in [Cpus -> Frames] /\ LocksDiffer(f')
  BY MakeSafe DEF SafeState, StateOK, Typed
<1>7. f'[c] = IdleFrame /\ \A d \in Cpus : d # c => f'[d] = f[d]
  BY <1>4, FrameChanged
<1>8. Locks(f[c]) = {t, g}
  BY <1>0, <1>3, NoneIsNoTable DEF Locks
<1>9. /\ \A u \in Tables : u # t /\ u # g => tbl'[u] = tbl[u]
      /\ \A u \in Tables, j \in Slots : (u = t /\ j = k) \/ u = g \/ tbl'[u][j] = tbl[u][j]
      /\ tbl'[t][k] = new /\ tbl'[g] = ZeroTable
  BY <1>1, <1>3, <1>4, <1>5
<1>10. /\ \A u \in Tables, j \in Slots : (u = t /\ j = k) \/ u = g \/ V2[u][j] = V[u][j]
       /\ \A j \in Slots : V[g][j] = tbl[g][j]
  <2> DEFINE H  == f'
             T2 == tbl'
  <2>1. OneMoves(f, H, c) /\ H[c].then # "make"
    BY <1>1, <1>6, <1>7, IdleIsFrame DEF OneMoves
  <2>2. SameBut(tbl, T2, t, k, g)
    BY <1>9 DEF SameBut
  <2>3. EndsBreak(f[c], H[c], t, k, g)
    BY <1>0, <1>5, <1>8, <2>1 DEF EndsBreak
  <2>4. t \in Tables /\ k \in Slots /\ g \in Tables
    BY <1>3
  <2> HIDE DEF H, T2, V, V2
  <2>5. SameBut(View(tbl, f), View(T2, H), t, k, g) /\ \A j \in Slots : View(tbl, f)[g][j] = tbl[g][j]
    BY <2>1, <2>2, <2>3, <2>4, ViewEnds
  <2> QED BY <2>5 DEF H, T2, V, V2, SameBut
<1>11. Used(gstate) = Used(gstate') \cup {g} /\ g \notin Used(gstate') /\ t \in Used(gstate')
  BY <1>1, <1>3, <1>4, <1>5, NoneIsNoTable DEF Used
<1>12. OthersStay(p, p, c)
  <2>1. \A d \in Cpus : d # c => t \notin Locks(f[d]) /\ g \notin Locks(f[d])
    BY <1>1, <1>8 DEF LocksDiffer
  <2>2. \A d \in Cpus : Locks(f[d]) \subseteq Tables
    BY <1>1 DEF Locks, Frames, Tables
  <2> QED BY <1>7, <1>9, <1>11, <2>1, <2>2 DEF OthersStay
<1>13. FrameMeans(tbl, p, f[c])
  BY DEF SeenState
<1>14. Clear(new) /\ (Like(tb, new, l + 1) \/ Lost(tb, new, Start(p[t].base, k, l)))
  BY <1>0, <1>2, <1>13 DEF FrameMeans, BreakMeans
<1>15. \A u \in Tables, j \in Slots : Clear(tbl'[u][j])
  <2>1. \A j \in Slots : ZeroTable[j] = ZeroEntry
    BY DEF ZeroTable
  <2> QED BY <1>9, <1>14, <2>1, ClearEntries DEF SeenState
<1>16. FrameMeans(tbl', p, f'[c])
  BY <1>7, IdleIsFrame DEF FrameMeans
<1>17. SeenState(p)'
  BY <1>12, <1>15, <1>16, SeenStep
<1>18. V2[t][k] = new
  <2>1. \A d \in Cpus : ~BreakAt(f'[d], t, k)
    <3>1. \A d \in Cpus : d # c => t \notin Locks(f[d])
      BY <1>1, <1>8 DEF LocksDiffer
    <3> QED BY <1>3, <1>7, <3>1, IdleIsFrame, NoneIsNoTable DEF BreakAt, Locks
  <2> DEFINE H  == f'
             T2 == tbl'
  <2>2. H \in [Cpus -> Frames] /\ LocksDiffer(H) /\ \A d \in Cpus : ~BreakAt(H[d], t, k)
    BY <1>6, <2>1
  <2>3. t \in Tables /\ k \in Slots
    BY <1>3
  <2> HIDE DEF H, T2
  <2>4. View(T2, H)[t][k] = T2[t][k]
    BY <2>2, <2>3, ViewIs
  <2> QED BY <1>9, <2>4 DEF H, T2
<1>19. PICK a, r : a = Start(p[t].base, k, l) /\ r = p[t].r
  OBVIOUS
<1>20. l + 1 \in Levels /\ l \in 0 .. 2 /\ a \in Ipas /\ Align(a, l) = a /\ a \in Nat
  <2>1. l + 1 \in Levels /\ a \in Ipas
    BY <1>3, <1>5, <1>19, ChildBase
  <2>2. 0 \in 0 .. Pages(l) - 1 /\ a = Start(p[t].base, k, l) + 0
    <3>1. Pages(l) \in Nat /\ Pages(l) > 0 /\ a \in Int
      BY <1>5, <2>1, PagesAre, LevelsAre DEF Ipas
    <3> QED BY <1>19, <3>1
  <2>3. Align(a, l) = Start(p[t].base, k, l) /\ Start(p[t].base, k, l) \in Nat
    BY <1>3, <1>5, <2>2, SpotAt
  <2> QED BY <1>3, <1>5, <1>19, <2>1, <2>3, LevelIs
<1>21. Divided(Paged', Paged, r, a, l, new, tb)
  <2>1. Shows(V, gstate, p, Paged) /\ Shows(V2, gstate', p, Paged')
    BY <1>6, ShowsNow, ShowsNext
  <2>2. PICK X, Y, G, H, P, Q : /\ X = V2 /\ Y = V /\ G = gstate' /\ H = gstate
                                /\ P = Paged' /\ Q = Paged
    OBVIOUS
  <2>3. Finer(X, G, p, Y, H, p, t, k, g)
    <3>1. \A u \in Used(G), j \in Slots : (u = t /\ j = k) \/ Y[u][j] = X[u][j]
      BY <1>10, <1>11, <2>2, UsedAreTables
    <3>2. ~Points(X, p, t, k)
      BY <1>0, <1>3, <1>18, <2>2 DEF Points
    <3>3. \A j \in Slots : ~Points(Y, p, g, j)
      <4>1. p[g].lvl = l + 1
        BY <1>0, <1>5 DEF Child
      <4> QED BY <1>0, <1>3, <1>10, <2>2, <4>1 DEF Points
    <3> QED BY <1>3, <1>5, <1>11, <2>2, <3>1, <3>2, <3>3 DEF Finer
  <2>4. Shows(X, G, p, P) /\ Shows(Y, H, p, Q)
    BY <2>1, <2>2
  <2>5. new = X[t][k] /\ \A m \in Slots : Y[g][m] = tb[m]
    BY <1>0, <1>10, <1>18, <2>2
  <2>6. l = p[t].lvl /\ l \in 0 .. 2 /\ a \in Nat /\ a = Start(p[t].base, k, l) /\ r = p[t].r
    BY <1>0, <1>19, <1>20
  <2> HIDE DEF V, V2
  <2>7. Divided(P, Q, r, a, l, new, tb)
    BY <2>3, <2>4, <2>5, <2>6, PagesDivided
  <2> QED BY <2>2, <2>7
<1>22. Calm
  <2>1. f[c].pc # "ripas" /\ f'[c].pc # "ripas"
    BY <1>2, <1>7 DEF IdleFrame
  <2> QED BY <1>4, <1>7, <2>1, CalmKept
<1>23. CASE Like(tb, new, l + 1)
  <2>1. PICK P, Q : P = Paged' /\ Q = Paged
    OBVIOUS
  <2>2. Divided(P, Q, r, a, l, new, tb)
    BY <1>21, <2>1
  <2>3. \A s \in Realms, j \in Ipas : Q[s][j] = P[s][j]
    BY <1>23, <2>2, LikeSame
  <2>4. Paged' = Paged
    BY <2>1, <2>3, PagedIs
  <2> QED BY <1>17, <1>22, <2>4, StepOf DEF Calm, Stutters
<1>24. CASE Lost(tb, new, a)
  <2>1. \A m \in Slots : Good(tb[m], l + 1) /\ Clear(tb[m])
    <3>1. p[g].lvl = l + 1
      BY <1>0, <1>5 DEF Child
    <3>2. \A m \in Slots : Good(V[g][m], l + 1)
      BY <1>1, <1>11, <3>1 DEF Shape, EntriesGood
    <3> QED BY <1>0, <1>3, <1>10, <3>2 DEF SeenState
  <2>2. Space!Next
    BY <1>3, <1>5, <1>19, <1>20, <1>21, <1>22, <1>24, <2>1, LostStep
  <2> QED BY <1>17, <2>2, StepOf
<1> QED BY <1>14, <1>19, <1>23, <1>24

---------------------------------------------------------------------------
(* RTT_CREATE: the table is for the pages of the entry as they are, or for *)
(* a block of the host's memory, which it drops.                           *)
LEMMA UnfoldedSeen ==
  ASSUME NEW l \in TableLevels, NEW e, Good(e, l - 1), ~IsTable(e, l - 1), Clear(e),
         NEW tb, tb = Unfolded(e, l)
  PROVE  /\ \A j \in Slots : Clear(tb[j]) /\ tb[j].desc = 0
         /\ Like(tb, e, l) \/ (e.ns /\ tb = ZeroTable)
<1>1. l \in Levels /\ l - 1 \in Levels /\ l - 1 < 3
  BY Stage2Assumption DEF Levels, TableLevels, RTT_PAGE_LEVEL
<1>2. ~IsValid(e, l - 1) /\ ~IsValidNs(e, l - 1)
  BY <1>1, NoValidBlock
<1>3. \A s, d : /\ CreateUnassigned(s).desc = 0 /\ CreateDestroyed.desc = 0
                /\ CreateAssignedEmpty(d).desc = 0 /\ ZeroEntry.desc = 0
  BY DEF CreateUnassigned, CreateDestroyed, CreateAssignedEmpty, ZeroEntry, Invalid, S2TTE_Lx_INVALID
<1>4. CASE IsUnassigned(e)
  <2>1. PICK x : x = CreateUnassigned(e.ripas)
    OBVIOUS
  <2>2. ~IsDestroyed(e) /\ ~IsAssigned(e) /\ e.ripas \in Ripas
    BY <1>4 DEF IsUnassigned, IsDestroyed, IsAssigned, HasHipas, Good, Entries
  <2>3. tb = [j \in Slots |-> x]
    BY <1>2, <1>4, <2>1, <2>2 DEF Unfolded, Uniform
  <2>4. Good(x, l) /\ Clear(x) /\ IsUnassigned(x) /\ x.ripas = e.ripas /\ x.desc = 0
    BY <1>1, <1>3, <2>1, <2>2, NewEntries, ClearEntries
  <2>5. ASSUME NEW o, NEW y PROVE Seen(x, o) = Seen(e, y)
    <3>1. Seen(x, o) = Space!Unassigned(x.ripas)
      BY <1>1, <2>4, SeenIs
    <3>2. Seen(e, y) = Space!Unassigned(e.ripas)
      BY <1>1, <1>4, SeenIs
    <3> QED BY <2>4, <3>1, <3>2
  <2> QED BY <2>3, <2>4, <2>5 DEF Like
<1>5. CASE IsDestroyed(e)
  <2>1. PICK x : x = CreateDestroyed
    OBVIOUS
  <2>2. ~IsUnassigned(e) /\ ~IsAssigned(e)
    BY <1>5 DEF IsUnassigned, IsDestroyed, IsAssigned, HasHipas
  <2>3. tb = [j \in Slots |-> x]
    BY <1>2, <1>5, <2>1, <2>2 DEF Unfolded, Uniform
  <2>4. Good(x, l) /\ Clear(x) /\ IsDestroyed(x) /\ x.desc = 0
    BY <1>1, <1>3, <2>1, NewEntries, ClearEntries
  <2>5. ASSUME NEW o, NEW y PROVE Seen(x, o) = Seen(e, y)
    <3>1. Seen(x, o) = Space!Destroyed
      BY <1>1, <2>4, SeenIs
    <3>2. Seen(e, y) = Space!Destroyed
      BY <1>1, <1>5, SeenIs
    <3> QED BY <3>1, <3>2
  <2> QED BY <2>3, <2>4, <2>5 DEF Like
<1>6. CASE IsAssigned(e)
  <2>1. PICK b : b = e.pa
    OBVIOUS
  <2>2. l = 3 /\ b \in Granules /\ tb = [j \in Slots |-> CreateAssignedEmpty(b + j)]
    BY <1>6, <2>1, UnfoldsAssigned
  <2>3. Pages(l) = 1 /\ b \in Int /\ Slots \subseteq Int
    BY <2>2, PagesAre DEF Granules, Slots
  <2>4. \A j \in Slots : Clear(tb[j]) /\ IsAssigned(tb[j]) /\ tb[j].pa = b + j /\ tb[j].desc = 0
    BY <1>3, <2>2, ClearEntries
  <2>5. ASSUME NEW j \in Slots, NEW o \in 0 .. Pages(l) - 1
        PROVE  Seen(tb[j], o) = Seen(e, j * Pages(l) + o)
    <3>1. o = 0 /\ j * Pages(l) + o = j /\ (b + j) + o = b + j
      BY <2>3
    <3>2. Seen(e, j) = Space!Assigned("EMPTY", b + j)
      BY <1>1, <1>6, <2>1, SeenIs
    <3>3. Seen(tb[j], o) = Space!Assigned("EMPTY", (b + j) + o)
      <4>1. PICK x : x = tb[j]
        OBVIOUS
      <4>2. IsAssigned(x) /\ x.pa = b + j
        BY <2>4, <4>1
      <4>3. x.hipas = "ASSIGNED" /\ x.desc = S2TTE_Lx_INVALID
        BY <4>2 DEF IsAssigned, HasHipas
      <4>4. ~x.ns /\ x.pa # None
        <5>1. x = CreateAssignedEmpty(b + j)
          BY <2>2, <4>1
        <5>2. b \in Nat /\ j \in Nat /\ None \notin Nat
          BY <2>2, EPositive, Stage2Assumption DEF Slots, Granules
        <5> QED BY <4>2, <5>1, <5>2 DEF CreateAssignedEmpty, Invalid
      <4> QED BY <4>1, <4>2, <4>3, <4>4 DEF Seen, Space!Assigned
    <3> QED BY <3>1, <3>2, <3>3
  <2> QED BY <2>4, <2>5 DEF Like
<1>7. CASE ~Recognised(e, l - 1)
  <2>1. ~IsUnassigned(e) /\ ~IsDestroyed(e) /\ ~IsAssigned(e)
    BY <1>7 DEF Recognised
  <2>2. tb = ZeroTable
    BY <1>2, <2>1 DEF Unfolded
  <2>3. e.ns
    BY <1>1, <2>1 DEF Good, IsUnassigned, IsDestroyed, IsAssigned, HasHipas, IsTable, RTT_PAGE_LEVEL,
                      S2TTE_L012_TABLE, S2TTE_Lx_INVALID
  <2>4. \A j \in Slots : tb[j] = ZeroEntry
    BY <2>2 DEF ZeroTable
  <2> QED BY <1>3, <2>2, <2>3, <2>4, ClearEntries
<1> QED BY <1>2, <1>4, <1>5, <1>6, <1>7 DEF Recognised

LEMMA DropStep ==
  ASSUME NEW r \in Realms, NEW l \in Levels, NEW i \in Ipas, NEW a, a = Align(i, l), NEW e, Good(e, l),
         e.ns, Divided(Paged, Paged', r, a, l, e, ZeroTable), Calm
  PROVE  Space!Next
<1>1. Good(ZeroEntry, l) /\ IsUnassigned(ZeroEntry) /\ ZeroEntry.ripas = "EMPTY"
  BY NewEntries, ClearEntries
<1>2. \A o : Seen(e, o) = Space!MappedNs
  BY SeenIs
<1>3. \A o : Seen(ZeroEntry, o) = Space!Unassigned(ZeroEntry.ripas)
  BY <1>1, SeenIs
<1>4. ASSUME NEW s \in Realms, NEW j \in Ipas
      PROVE  IF s = r /\ j \in a .. a + Pages(l) - 1
             THEN Paged[s][j] = Seen(e, j - a) /\ Paged'[s][j] = Seen(ZeroEntry, j - a)
             ELSE Paged'[s][j] = Paged[s][j]
  <2>1. CASE s = r /\ j \in a .. a + Pages(l) - 1
    <3>1. PICK m \in Slots, o \in 0 .. Pages(l + 1) - 1 :
              Paged[s][j] = Seen(e, m * Pages(l + 1) + o) /\ Paged'[s][j] = Seen(ZeroTable[m], o)
      BY <2>1 DEF Divided
    <3>2. ZeroTable[m] = ZeroEntry
      BY DEF ZeroTable
    <3>3. Paged[s][j] = Space!MappedNs /\ Paged'[s][j] = Space!Unassigned(ZeroEntry.ripas)
      BY <1>2, <1>3, <3>1, <3>2
    <3> QED BY <1>2, <1>3, <2>1, <3>3
  <2>2. CASE ~(s = r /\ j \in a .. a + Pages(l) - 1)
    BY <2>2 DEF Divided
  <2> QED BY <2>1, <2>2
<1>5. Rewrites(r, i, l, e, ZeroEntry)
  BY <1>4 DEF Rewrites, Rewritten
<1>6. PICK z : z = ZeroEntry
  OBVIOUS
<1> QED BY <1>1, <1>5, <1>6, UnmapStep

LEMMA RttCreatePages ==
  ASSUME NEW p, SafeState(p), SeenState(p), NEW c \in Cpus, Idle(c), NEW r \in Realms,
         NEW i \in Ipas, NEW l \in TableLevels, NEW g \in Granules, RttCreate(c, r, i, l, g)
  PROVE  \E q : SafeState(q)' /\ SeenState(q)' /\ SpaceStep
<1>0. PICK t, k, e, tb, m : /\ t = TableAt(r, i)[l - 1] /\ k = Index(i, l - 1) /\ m = l - 1
                            /\ e = tbl[TableAt(r, i)[l - 1]][Index(i, l - 1)]
                            /\ tb = Unfolded(tbl[TableAt(r, i)[l - 1]][Index(i, l - 1)], l)
  OBVIOUS
<1>1. t # None /\ Free(t) /\ Takable(g) /\ ~IsTable(e, m)
  BY <1>0 DEF RttCreate, At
<1>2. l \in Levels /\ m \in Levels /\ m < 3 /\ m + 1 = l /\ m \in 0 .. 2
  <2>1. l \in Levels /\ l - 1 \in Levels /\ l - 1 < 3
    BY Stage2Assumption DEF Levels, TableLevels, RTT_PAGE_LEVEL
  <2> QED BY <1>0, <2>1, LevelIs
<1>3. Spot(p, r, i, m, t, k)
  BY <1>0, <1>1, <1>2, WalkSpot
<1>4. /\ t \in Used(gstate) /\ t \in Tables /\ k \in Slots /\ Unlocked(f, t) /\ e = tbl[t][k]
      /\ View(tbl, f)[t][k] = e /\ Good(e, m) /\ p[t] = PlaceOf(r, i, m) /\ p[t].lvl = m
      /\ ~IsValid(e, m) /\ ~IsValidNs(e, m)
  BY <1>0, <1>2, <1>3, NoValidBlock DEF Spot
<1>5. /\ tbl' = [tbl EXCEPT ![g] = tb, ![t][k] = CreateTable(g)]
      /\ gstate' = [gstate EXCEPT ![g] = "RTT"] /\ UNCHANGED <<f, active, req>>
  BY <1>0, <1>4 DEF RttCreate, At
<1>6. /\ \A j \in Slots : Clear(tb[j]) /\ tb[j].desc = 0
      /\ Like(tb, e, l) \/ (e.ns /\ tb = ZeroTable)
  <2>1. Clear(e)
    BY <1>4 DEF SeenState
  <2>2. Good(e, l - 1) /\ ~IsTable(e, l - 1) /\ tb = Unfolded(e, l)
    BY <1>0, <1>1, <1>4
  <2> QED BY <2>1, <2>2, UnfoldedSeen
<1>7. PICK q : SafeState(q)' /\ q = [p EXCEPT ![g] = Child(p[t], k)]
  BY <1>0, RttCreateSafe
<1>8. gstate[g] = "DELEGATED" /\ Unlocked(f, g) /\ g \notin Used(gstate) /\ g \in Tables /\ g # t
  BY <1>1, <1>4, NoneIsNoTable DEF Takable, Free, Unlocked, Locks, Used, Tables
<1>9. /\ f \in [Cpus -> Frames] /\ LocksDiffer(f) /\ tbl \in [Tables -> [Slots -> Entries]]
      /\ gstate \in [Granules -> {"DELEGATED", "RTT", "DATA"}] /\ p \in [Tables -> Places]
  BY DEF SafeState, StateOK, Typed, Shape, TreeTyped
<1>10. /\ \A u \in Tables : u # t /\ u # g => tbl'[u] = tbl[u]
       /\ \A u \in Tables, j \in Slots : (u = t /\ j = k) \/ u = g \/ tbl'[u][j] = tbl[u][j]
       /\ tbl'[g] = tb /\ tbl'[t][k] = CreateTable(g)
  BY <1>4, <1>5, <1>8, <1>9
<1>11. /\ q[g] = Child(p[t], k) /\ \A u : u # g => q[u] = p[u]
       /\ Used(gstate') = Used(gstate) \cup {g}
  <2>1. q[g] = Child(p[t], k) /\ \A u : u # g => q[u] = p[u]
    BY <1>7, <1>8, <1>9
  <2>2. gstate'[g] = "RTT" /\ \A x \in Granules : x # g => gstate'[x] = gstate[x]
    BY <1>5, <1>9
  <2> QED BY <2>1, <2>2 DEF Used
<1>12. /\ \A u \in Tables, j \in Slots : (u = t /\ j = k) \/ u = g \/ View(tbl', f')[u][j] = View(tbl, f)[u][j]
       /\ \A j \in Slots : View(tbl', f')[g][j] = tb[j]
  <2> DEFINE T2 == tbl'
  <2>1. \A u \in Tables, j \in Slots : (u = t /\ j = k) \/ u = g \/ T2[u][j] = tbl[u][j]
    BY <1>10
  <2> HIDE DEF T2
  <2>2. \A u \in Tables, j \in Slots : T2[u][j] = tbl[u][j] => View(T2, f)[u][j] = View(tbl, f)[u][j]
    BY <1>9, SameEntry
  <2>3. \A u \in Tables, j \in Slots : (u = t /\ j = k) \/ u = g \/ View(T2, f)[u][j] = View(tbl, f)[u][j]
    BY <2>1, <2>2
  <2>4. \A j \in Slots : View(T2, f)[g][j] = T2[g][j]
    BY <1>8, <1>9, ViewUnlocked
  <2>5. f' = f
    BY <1>5
  <2> QED BY <1>10, <2>3, <2>4, <2>5 DEF T2
<1>13. OthersStay(p, q, c)
  <2>1. \A d \in Cpus : Locks(f[d]) \subseteq Tables
    BY <1>9 DEF Locks, Frames, Tables
  <2> QED BY <1>4, <1>5, <1>8, <1>10, <1>11, <2>1 DEF OthersStay, Unlocked
<1>14. SeenState(q)'
  <2>1. \A u \in Tables, j \in Slots : Clear(tbl'[u][j])
    BY <1>6, <1>10, ClearEntries DEF SeenState
  <2>2. FrameMeans(tbl', q, f'[c])
    BY <1>5, IdleFrameHere DEF FrameMeans
  <2> QED BY <1>13, <2>1, <2>2, SeenStep
<1>15. PICK a : a = Align(i, m)
  OBVIOUS
<1>16. a \in Nat /\ a = Start(p[t].base, k, m) /\ p[t].r = r
  <2>1. k = Index(i, m)
    BY <1>0
  <2> QED BY <1>2, <1>4, <1>15, <2>1, BlockOf DEF PlaceOf
<1>17. Divided(Paged, Paged', r, a, m, e, tb)
  <2>1. Shows(View(tbl, f), gstate, p, Paged) /\ Shows(View(tbl', f'), gstate', q, Paged')
    BY <1>7, ShowsNow, ShowsNext
  <2>2. PICK V, W, G, H, P, Q : /\ V = View(tbl, f) /\ W = View(tbl', f') /\ G = gstate /\ H = gstate'
                                /\ P = Paged /\ Q = Paged'
    OBVIOUS
  <2>3. Finer(V, G, p, W, H, q, t, k, g)
    <3>1. \A u \in Used(G), j \in Slots : (u = t /\ j = k) \/ W[u][j] = V[u][j]
      BY <1>8, <1>12, <2>2, UsedAreTables
    <3>2. ~Points(V, p, t, k)
      BY <1>1, <1>4, <2>2 DEF Points
    <3>3. \A j \in Slots : ~Points(W, q, g, j)
      BY <1>6, <1>12, <2>2 DEF Points, IsTable, S2TTE_L012_TABLE
    <3> QED BY <1>4, <1>8, <1>11, <2>2, <3>1, <3>2, <3>3 DEF Finer
  <2>4. Shows(V, G, p, P) /\ Shows(W, H, q, Q)
    BY <2>1, <2>2
  <2>5. e = V[t][k] /\ \A j \in Slots : W[g][j] = tb[j]
    BY <1>4, <1>12, <2>2
  <2>6. m = p[t].lvl /\ m \in 0 .. 2 /\ a \in Nat /\ a = Start(p[t].base, k, m) /\ r = p[t].r
    BY <1>2, <1>4, <1>16
  <2>7. Divided(P, Q, r, a, m, e, tb)
    BY <2>3, <2>4, <2>5, <2>6, PagesDivided
  <2> QED BY <2>2, <2>7
<1>18. Calm
  <2>1. f[c].pc # "ripas" /\ f'[c].pc # "ripas" /\ \A d \in Cpus : d # c => f'[d] = f[d]
    BY <1>5, IdleFrameHere
  <2> QED BY <1>5, <2>1, CalmKept
<1>19. CASE Like(tb, e, l)
  <2>1. PICK P, Q : P = Paged /\ Q = Paged'
    OBVIOUS
  <2>2. Divided(P, Q, r, a, m, e, tb) /\ Like(tb, e, m + 1)
    BY <1>2, <1>17, <1>19, <2>1
  <2>3. \A s \in Realms, j \in Ipas : Q[s][j] = P[s][j]
    BY <2>2, LikeSame
  <2>4. Paged' = Paged
    BY <2>1, <2>3, PagedIs
  <2>5. SpaceStep
    BY <1>18, <2>4, StepOf DEF Calm, Stutters
  <2> QED BY <1>7, <1>14, <2>5
<1>20. CASE e.ns /\ tb = ZeroTable
  <2>1. Space!Next
    BY <1>2, <1>4, <1>15, <1>17, <1>18, <1>20, DropStep
  <2>2. SpaceStep
    BY <2>1, StepOf
  <2> QED BY <1>7, <1>14, <2>2
<1> QED BY <1>6, <1>19, <1>20

---------------------------------------------------------------------------
LEMMA TableCommandPages ==
  ASSUME NEW p, SafeState(p), SeenState(p), ~BadFold, NEW c \in Cpus, Idle(c), NEW r \in Realms,
         TableCommand(c, r)
  PROVE  \E q : SafeState(q)' /\ SeenState(q)' /\ SpaceStep
<1>1. PICK l \in TableLevels, i \in Ipas :
        \/ \E g \in Granules : RttCreate(c, r, i, l, g) \/ RttCreateAsserts(c, r, i, l, g)
        \/ RttFold(c, r, i, l) \/ RttFoldAsserts(c, r, i, l)
        \/ RttDestroy(c, r, i, l)
  BY DEF TableCommand
<1>2. l \in Levels /\ l - 1 \in Levels
  BY Stage2Assumption DEF Levels, TableLevels, RTT_PAGE_LEVEL
<1>3. CASE \E g \in Granules : RttCreate(c, r, i, l, g)
  BY <1>3, RttCreatePages
<1>4. CASE \E g \in Granules : RttCreateAsserts(c, r, i, l, g)
  <2>1. PICK g \in Granules : RttCreateAsserts(c, r, i, l, g)
    BY <1>4
  <2>2. PICK t : t = TableAt(r, i)[l - 1]
    OBVIOUS
  <2>3. /\ t # None /\ Free(t) /\ Takable(g) /\ Stops(c, t, g)
        /\ UNCHANGED <<gstate, tbl, refs, active, req>>
    BY <2>1, <2>2 DEF RttCreateAsserts
  <2>4. t \in Used(gstate) /\ Unlocked(f, t)
    BY <1>2, <2>2, <2>3, WalkSpot DEF Spot
  <2>5. gstate[g] # "DATA" /\ Unlocked(f, g)
    BY <2>3 DEF Takable, Free, Unlocked, Locks
  <2>6. SafeState(p)'
    BY <2>3, <2>4, <2>5, StopsSafe
  <2> QED BY <2>3, <2>6, StopsPages
<1>5. CASE RttFold(c, r, i, l)
  BY <1>5, RttFoldSafe, RttFoldPages
<1>6. CASE RttFoldAsserts(c, r, i, l)
  <2>1. PICK t, g : t = TableAt(r, i)[l - 1] /\ g = TableAt(r, i)[l]
    OBVIOUS
  <2>2. /\ g # None /\ Free(t) /\ Free(g) /\ Stops(c, t, g)
        /\ UNCHANGED <<gstate, tbl, refs, active, req>>
    BY <1>6, <2>1 DEF RttFoldAsserts
  <2>3. PICK k : k = Index(i, l - 1)
    OBVIOUS
  <2>4. Spot(p, r, i, l - 1, t, k) /\ g \in Granules /\ gstate[g] = "RTT" /\ Unlocked(f, g)
    BY <2>1, <2>2, <2>3, WalkChild
  <2>5. t \in Used(gstate) /\ Unlocked(f, t)
    BY <2>4 DEF Spot
  <2>6. SafeState(p)'
    BY <2>2, <2>4, <2>5, StopsSafe
  <2> QED BY <2>2, <2>6, StopsPages
<1>7. CASE RttDestroy(c, r, i, l)
  BY <1>7, RttDestroySafe, RttDestroyPages
<1> QED BY <1>1, <1>3, <1>4, <1>5, <1>6, <1>7

LEMMA EntryCommandPages ==
  ASSUME NEW p, SafeState(p), SeenState(p), NEW c \in Cpus, Idle(c), NEW r \in Realms,
         EntryCommand(c, r)
  PROVE  SeenState(p)' /\ SpaceStep
<1>1. PICK l \in Levels, i \in Ipas :
        /\ Aligned(i, l)
        /\ \/ l \in MapLevels /\ \E pa \in NsPas : MapNs(r, i, l, pa)
           \/ UnmapNs(c, r, i, l)
           \/ ReadEntryAsserts(c, r, i, l)
  BY DEF EntryCommand, Addresses
<1>2. CASE l \in MapLevels /\ \E pa \in NsPas : MapNs(r, i, l, pa)
  BY <1>1, <1>2, MapNsPages
<1>3. CASE UnmapNs(c, r, i, l)
  BY <1>3, UnmapNsPages
<1>4. CASE ReadEntryAsserts(c, r, i, l)
  <2>1. PICK t : t = TableAt(r, i)[l]
    OBVIOUS
  <2>2. t # None /\ Free(t) /\ Stops(c, t, None) /\ UNCHANGED <<gstate, tbl, refs, active, req>>
    BY <1>4, <2>1 DEF ReadEntryAsserts
  <2>3. t \in Used(gstate) /\ Unlocked(f, t)
    BY <2>1, <2>2, WalkSpot DEF Spot
  <2>4. SafeState(p)'
    BY <2>2, <2>3, StopsSafe
  <2> QED BY <2>2, <2>4, StopsPages
<1> QED BY <1>1, <1>2, <1>3, <1>4

LEMMA WorkPages ==
  ASSUME NEW p, SafeState(p), SeenState(p), NEW c \in Cpus, Work(c)
  PROVE  SeenState(p)' /\ SpaceStep
<1>1. CASE \E l \in Levels, i \in Ipas : InitRipasWrite(c, i, l)
  BY <1>1, InitRipasWritePages
<1> QED BY <1>1, TlbiPages, MakePages, DataFreePages, InitRipasFailsPages DEF Work, Addresses

LEMMA PageCommandPages ==
  ASSUME NEW p, SafeState(p), SeenState(p), NEW c \in Cpus, Idle(c), NEW r \in Realms,
         PageCommand(c, r)
  PROVE  SeenState(p)' /\ SpaceStep
BY DataDestroyPages, DataCreatePages DEF PageCommand

LEMMA TablesKept ==
  ASSUME NEW p, SafeState(p), SeenState(p), UNCHANGED <<gstate, tbl, refs, f>>
  PROVE  SafeState(p)' /\ SeenState(p)' /\ Paged' = Paged
<1>1. SafeState(p)' /\ SeenState(p)'
  BY DEF SafeState, SeenState
<1>2. UNCHANGED gstate /\ UNCHANGED View(tbl, f)
  BY DEF View, ViewAt
<1>3. \A u \in Tables, j \in Slots : View(tbl', f')[u][j] = View(tbl, f)[u][j]
  BY <1>2
<1>4. Used(gstate') = Used(gstate)
  BY <1>2
<1> QED BY <1>1, <1>3, <1>4, ViewKept

LEMMA CalmStutters ==
  ASSUME Paged' = Paged, UNCHANGED <<active, req, f>>
  PROVE  SpaceStep
<1>1. Sealed' = Sealed /\ Waiting' = Waiting
  BY DEF Sealed, Settled, Waiting
<1> QED BY <1>1, StepOf DEF Stutters

LEMMA NextPages ==
  ASSUME NEW p, SafeState(p), SeenState(p), Requests(req), [Next]_vars, ~BadFold
  PROVE  \E q : SafeState(q)' /\ SeenState(q)' /\ SpaceStep
<1>1. CASE UNCHANGED <<gstate, tbl, refs, active, req, f>>
  BY <1>1, TablesKept, CalmStutters
<1>2. CASE \E c \in Cpus : Work(c)
  BY <1>2, WorkSafe, WorkPages
<1>3. CASE \E c \in Cpus, r \in Realms : Idle(c) /\ TableCommand(c, r)
  BY <1>3, TableCommandPages
<1>4. CASE \E c \in Cpus, r \in Realms : Idle(c) /\ EntryCommand(c, r)
  BY <1>4, EntryCommandSafe, EntryCommandPages
<1>5. CASE \E c \in Cpus, r \in Realms : Idle(c) /\ PageCommand(c, r)
  BY <1>5, PageCommandSafe, PageCommandPages
<1>6. CASE \E c \in Cpus, r \in Realms : Idle(c) /\ InitRipas(c, r)
  BY <1>6, InitRipasSafe, InitRipasPages
<1>7. CASE \E c \in Cpus, r \in Realms : Idle(c) /\ \E l \in Levels : SetRipas(c, r, l)
  BY <1>7, SetRipasSafe, SetRipasPages
<1>8. CASE \E r \in Realms : Activate(r)
  <2>1. PICK r \in Realms : Activate(r)
    BY <1>8
  <2>2. UNCHANGED <<gstate, tbl, refs, req, f>>
    BY <2>1 DEF Activate
  <2>3. SafeState(p)' /\ SeenState(p)' /\ Paged' = Paged
    BY <2>2, TablesKept
  <2>4. Seals(r) /\ Waiting' = Waiting
    BY <2>1, <2>2, SealedByActivate DEF Waiting
  <2>5. SpaceStep
    BY <2>3, <2>4, SealStep
  <2> QED BY <2>3, <2>5
<1>9. CASE \E r \in Realms : \E i \in Ipas : MmuReads(r, i)
  BY <1>1, <1>9 DEF MmuReads
<1>10. CASE \E r \in Realms : RealmResumes(r)
  <2>1. PICK r \in Realms : RealmResumes(r)
    BY <1>10
  <2>2. UNCHANGED <<gstate, tbl, refs, f>>
    BY <2>1 DEF RealmResumes
  <2>3. SafeState(p)' /\ SeenState(p)' /\ Paged' = Paged
    BY <2>2, TablesKept
  <2>4. SpaceStep
    BY <2>1, <2>3, ResumeStep
  <2> QED BY <2>3, <2>4
<1>11. CASE \E r \in Realms, a, b \in Ipas, s \in Ripas : a <= b /\ InPar(b) /\ RealmAsks(r, a, b + 1, s)
  <2>1. PICK r \in Realms, a \in Ipas, b \in Ipas, s \in Ripas :
          a <= b /\ InPar(b) /\ RealmAsks(r, a, b + 1, s)
    BY <1>11
  <2>2. UNCHANGED <<gstate, tbl, refs, f>>
    BY <2>1 DEF RealmAsks
  <2>3. SafeState(p)' /\ SeenState(p)' /\ Paged' = Paged
    BY <2>2, TablesKept
  <2>4. SpaceStep
    BY <2>1, <2>3, AskStep
  <2> QED BY <2>3, <2>4
<1>12. CASE UNCHANGED vars
  BY <1>1, <1>12 DEF vars
<1> QED
  BY <1>2, <1>3, <1>4, <1>5, <1>6, <1>7, <1>8, <1>9, <1>10, <1>11, <1>12 DEF Next, Realm

---------------------------------------------------------------------------
PagesSafe == (\E p : SafeState(p) /\ SeenState(p)) /\ Requests(req)

LEMMA InitPages == Init => PagesSafe /\ Space!Init
<1> SUFFICES ASSUME Init PROVE PagesSafe /\ Space!Init
  OBVIOUS
<1>1. PICK p : SafeState(p)
  BY InitSafe DEF Safe
<1>2. Requests(req)
  BY InitSafe DEF Safe
<1>3. /\ \A t \in Tables, k \in Slots : tbl[t][k] = ZeroEntry
      /\ \A c \in Cpus : f[c] = IdleFrame
  BY DEF Init, ZeroTable
<1>4. SeenState(p)
  BY <1>3, IdleIsFrame, ClearEntries DEF SeenState, FrameMeans
<1>5. PagesSafe
  BY <1>1, <1>2, <1>4 DEF PagesSafe
<1>6. \A r \in Realms, i \in Ipas : Paged[r][i] = Space!Unassigned("EMPTY")
  <2>1. PICK V, P : V = View(tbl, f) /\ P = Paged
    OBVIOUS
  <2>2. Shows(V, gstate, p, P) /\ Shape(V, gstate, p)
    BY <1>1, <2>1, ShowsNow DEF SafeState, StateOK
  <2>3. \A t \in Tables, k \in Slots : V[t][k] = ZeroEntry
    <3>1. \A c \in Cpus : \A t, k : ~BreakAt(f[c], t, k)
      BY <1>3, IdleIsFrame DEF BreakAt
    <3> QED BY <1>3, <2>1, <3>1 DEF View, ViewAt
  <2>4. \A o : Seen(ZeroEntry, o) = Space!Unassigned("EMPTY")
    <3>1. PICK z : z = ZeroEntry
      OBVIOUS
    <3>2. Good(z, 3) /\ IsUnassigned(z) /\ z.ripas = "EMPTY"
      BY <3>1, LevelsAre, NewEntries, ClearEntries
    <3>3. \A o : Seen(z, o) = Space!Unassigned(z.ripas)
      BY <3>2, LevelsAre, SeenIs
    <3> QED BY <3>1, <3>2, <3>3
  <2>5. ASSUME NEW r \in Realms, NEW i \in Ipas PROVE P[r][i] = Space!Unassigned("EMPTY")
    <3>1. PICK t, k, o : LiesIn(V, gstate, p, t, k, o, r, i)
      BY <2>2 DEF Shows
    <3>2. V[t][k] = ZeroEntry
      BY <2>3, <3>1, UsedAreTables DEF LiesIn
    <3> QED BY <2>2, <2>4, <3>1, <3>2 DEF Shows
  <2> QED BY <2>1, <2>5
<1>7. Paged = [r \in Realms |-> [i \in Ipas |-> Space!Unassigned("EMPTY")]]
  <2>1. PICK u : u = Space!Unassigned("EMPTY")
    OBVIOUS
  <2>2. \A r \in Realms : Paged[r] = [i \in Ipas |-> PageState(r, i)]
    BY DEF Paged
  <2>3. \A r \in Realms : Paged[r] = [i \in Ipas |-> u]
    BY <1>6, <2>1, <2>2
  <2>4. Paged = [r \in Realms |-> Paged[r]]
    BY DEF Paged
  <2> QED BY <2>1, <2>3, <2>4
<1>8. Sealed = {}
  BY DEF Init, Sealed, Settled
<1>9. Waiting = [r \in Realms |-> Space!Nothing]
  <2>1. 0 .. 0 - 1 = {}
    OBVIOUS
  <2>2. \A r \in Realms : req[r].addr = 0 /\ req[r].end = 0 /\ req[r].ripas = "EMPTY"
    BY DEF Init
  <2> QED BY <2>1, <2>2 DEF Waiting, Space!Nothing
<1>10. Space!Init
  BY <1>7, <1>8, <1>9 DEF Space!Init, Paged, Sealed, Waiting
<1> QED BY <1>5, <1>10

LEMMA PagesFollow ==
  ASSUME PagesSafe, Safe', [Next]_vars, ~BadFold
  PROVE  PagesSafe' /\ SpaceStep
<1>1. PICK p : SafeState(p) /\ SeenState(p)
  BY DEF PagesSafe
<1>2. PICK q : SafeState(q)' /\ SeenState(q)' /\ SpaceStep
  BY <1>1, NextPages DEF PagesSafe
<1> QED BY <1>2 DEF PagesSafe, Safe

LEMMA PagesStutter ==
  ASSUME PagesSafe, UNCHANGED vars
  PROVE  PagesSafe' /\ SpaceStep
<1>1. PICK p : SafeState(p) /\ SeenState(p)
  BY DEF PagesSafe
<1>2. UNCHANGED <<gstate, tbl, refs, f>> /\ UNCHANGED <<active, req, f>>
  BY DEF vars
<1>3. SafeState(p)' /\ SeenState(p)' /\ Paged' = Paged
  BY <1>1, <1>2, TablesKept
<1>4. SpaceStep
  BY <1>2, <1>3, CalmStutters
<1>5. Requests(req)'
  BY <1>2 DEF PagesSafe
<1> QED BY <1>3, <1>4, <1>5 DEF PagesSafe

(* The tables implement the IPA space: a realm finds its pages as the      *)
(* commands promise, whatever tables and blocks they are mapped by; a      *)
(* break before make, RTT_CREATE and RTT_FOLD change nothing it can tell,  *)
(* and the interleavings of the CPUs' commands no more than that.          *)
THEOREM RefinesIpaSpace == Spec /\ FoldsFit => ImplementsIpaSpace
<1>1. Init => PagesSafe /\ Space!Init
  BY InitPages
<1>2. PagesSafe /\ Safe' /\ [Next]_vars /\ [~BadFold]_vars => PagesSafe' /\ SpaceStep
  <2>1. CASE UNCHANGED vars
    BY <2>1, PagesStutter
  <2> QED BY <2>1, PagesFollow
<1>3. Asserts => (PagesSafe /\ Safe' /\ [Next]_vars => PagesSafe' /\ SpaceStep)
  BY AssertsFit, PagesFollow
<1>4. Asserts => (Spec => ImplementsIpaSpace)
  <2> SUFFICES ASSUME Asserts PROVE Spec => ImplementsIpaSpace
    OBVIOUS
  <2>1. PagesSafe /\ Safe' /\ [Next]_vars => PagesSafe' /\ SpaceStep
    BY <1>3
  <2>2. Spec => []Safe
    <3>1. FoldsFit
      BY DEF FoldsFit
    <3> QED BY <3>1, SafeCorrect
  <2> QED BY <1>1, <2>1, <2>2, PTL DEF Spec, ImplementsIpaSpace, Space!Spec, SpaceStep
<1>5. Spec /\ [][~BadFold]_vars => ImplementsIpaSpace
  <2>1. Spec /\ [][~BadFold]_vars => []Safe
    BY SafeCorrect, PTL DEF FoldsFit
  <2> QED BY <1>1, <1>2, <2>1, PTL DEF Spec, ImplementsIpaSpace, Space!Spec, SpaceStep
<1> QED BY <1>4, <1>5, PTL DEF FoldsFit

=============================================================================
