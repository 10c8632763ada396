---------------------------- MODULE LifecycleTrees ----------------------------
(***************************************************************************)
(* The translation tables and their reference counts, for any number of    *)
(* CPUs and granules, and the theorems about all reference counts.         *)
(*                                                                         *)
(* Each table is a root table of one realm, or an entry of one table       *)
(* points to it, and its count is the number of its entries that point to  *)
(* a table.  REALM_DESTROY reads the counts of the root tables one at a    *)
(* time, holding only the RD, and then frees them: a count of zero it has  *)
(* read must stay zero.  It does, since only a walk locks a table, a walk  *)
(* of the realm starts under the lock of the RD, and one that had started  *)
(* holds the first root table or has gone below the root.                  *)
(***************************************************************************)
EXTENDS LifecycleRecs

Owning  == {"rc_roots", "rd_roots", "rd_free"}
Tending == Closing \cup {"rc_roots", "wk_sl", "wk_down", "wk_tbl"}

(* REALM_DESTROY has freed the root table t of the realm g. *)
Gone(g, t) ==
  \E c \in Cpus : /\ f[c].obj = g
                  /\ \/ f[c].pc = "rd_free"
                     \/ f[c].pc = "rd_roots" /\ t < f[c].root + f[c].i

RootTable(g, t) == state[g] = "RD" /\ t \in RootsOf(g) /\ ~Gone(g, t)

(* REALM_CREATE has not made the granule t a table yet. *)
Opened(g, t) ==
  \E c \in Cpus : f[c].pc = "rc_roots" /\ f[c].obj = g /\ t \in Held(f[c])

RootsKnown ==
  \A g \in Granules : state[g] = "RD" => rd[g].num > 0 /\ RootsOf(g) \subseteq Granules

RootsAre ==
  \A g, t \in Granules : RootTable(g, t) => state[t] = "RTT" \/ Opened(g, t)

RootsDisjoint ==
  \A g, h, t \in Granules : RootTable(g, t) /\ RootTable(h, t) => g = h

KidsOwned ==
  \A p, t \in Granules : t \in kids[p] =>
    /\ state[p] = "RTT" /\ state[t] = "RTT"
    /\ \A q \in Granules : t \in kids[q] => q = p
    /\ \A g \in Granules : ~RootTable(g, t)

TablesPlaced ==
  \A t \in Granules : state[t] = "RTT" =>
    (\E p \in Granules : t \in kids[p]) \/ (\E g \in Granules : RootTable(g, t))

TablesCounted ==
  \A t \in Granules : state[t] = "RTT" => refcount[t] = Cardinality(kids[t])

Forest == RootsKnown /\ RootsAre /\ RootsDisjoint /\ KidsOwned /\ TablesPlaced /\ TablesCounted

(* The root tables whose counts REALM_DESTROY has read, and not freed yet *)
Read(fr) ==
  IF fr.pc = "rd_count" THEN fr.root .. fr.root + (fr.i - 1)
  ELSE IF fr.pc = "rd_roots" THEN fr.root + fr.i .. fr.root + (fr.num - 1)
  ELSE {}

CloseFrame(c) ==
  /\ f[c].pc \in Closing => f[c].root = rd[f[c].obj].root /\ f[c].num = rd[f[c].obj].num
  /\ f[c].pc \in {"rd_count", "rd_roots"} => f[c].i < f[c].num
  /\ f[c].pc \in {"rd_roots", "rd_free"} =>
       \A d \in Cpus : f[d].pc = "rc_roots" => f[d].obj # f[c].obj
  /\ \A t \in Read(f[c]) :
       /\ state[t] = "RTT" /\ lock[t] = NoCpu
       /\ (f[c].pc = "rd_count" /\ f[c].used) \/ refcount[t] = 0

OpenFrame(c) ==
  f[c].pc = "rc_roots" =>
    /\ f[c].obj \in Granules /\ state[f[c].obj] = "RD"
    /\ rd[f[c].obj].root = f[c].root /\ rd[f[c].obj].num = f[c].num

WalkFrame(c) ==
  /\ f[c].pc = "wk_sl" => \E g \in Granules : /\ RootTable(g, f[c].root)
                                              /\ RootTable(g, f[c].buf)
                                              /\ rd[g].root = f[c].root
  /\ f[c].pc = "wk_down" => f[c].buf \in kids[f[c].root]
  /\ f[c].pc = "wk_tbl"  => f[c].obj \in kids[f[c].root]

TreeFrame(c) == CloseFrame(c) /\ OpenFrame(c) /\ WalkFrame(c)

TreeIInv  == Forest /\ \A c \in Cpus : TreeFrame(c)
CountIInv == WorldIInv /\ RecIInv /\ TreeIInv

---------------------------------------------------------------------------
(* What the invariant says of the frames                                   *)

LEMMA TypesAre ==
  ASSUME WorldIInv
  PROVE  /\ state \in [Granules -> States] /\ lock \in [Granules -> Cpus \cup {NoCpu}]
         /\ refcount \in [Granules -> Int] /\ rd \in [Granules -> RdType]
         /\ rec \in [Granules -> RecType] /\ kids \in [Granules -> SUBSET Granules]
         /\ f \in [Cpus -> Frame]
  BY DEF WorldIInv, LockIInv, Types

LEMMA RootsAreNat ==
  ASSUME WorldIInv, NEW g \in Granules
  PROVE  rd[g].root \in Nat /\ rd[g].num \in Nat
  BY TypesAre DEF RdType

LEMMA FrameNats ==
  ASSUME WorldIInv, NEW c \in Cpus
  PROVE  /\ f[c].root \in Nat /\ f[c].num \in Nat /\ f[c].i \in Nat /\ f[c].used \in BOOLEAN
  BY TypesAre DEF Frame

LEMMA GoneHolds ==
  ASSUME WorldIInv, NEW g, NEW t, Gone(g, t)
  PROVE  \E c \in Cpus : /\ f[c].obj = g /\ g \in Granules /\ lock[g] = c
                         /\ \/ f[c].pc = "rd_free"
                            \/ f[c].pc = "rd_roots" /\ t < f[c].root + f[c].i
  BY HeldObj DEF Gone

LEMMA OpenedHolds ==
  ASSUME WorldIInv, NEW g, NEW t, Opened(g, t)
  PROVE  \E c \in Cpus : /\ f[c].pc = "rc_roots" /\ f[c].obj = g /\ t \in Granules
                         /\ lock[t] = c /\ state[t] = "DELEGATED"
<1>1. PICK c \in Cpus : f[c].pc = "rc_roots" /\ f[c].obj = g /\ t \in Held(f[c])
  BY DEF Opened
<1>2. HeldState(f[c], t) = "DELEGATED"
  BY <1>1 DEF HeldState, Walking
<1> QED BY <1>1, <1>2, HeldIs

(* The granules of a realm whose RD nobody holds for its destruction *)
LEMMA NotGone ==
  ASSUME WorldIInv, NEW g \in Granules, NEW t,
         \A d \in Cpus : lock[g] = d => f[d].pc \notin {"rd_free", "rd_roots"}
  PROVE  ~Gone(g, t)
  BY GoneHolds

LEMMA ClosedHolds ==
  ASSUME WorldIInv, NEW c \in Cpus, f[c].pc \in Closing
  PROVE  f[c].obj \in Granules /\ lock[f[c].obj] = c /\ state[f[c].obj] = "RD"
  BY HeldObj DEF Closing

(* A root table that was read is one still. *)
LEMMA ReadIs ==
  ASSUME WorldIInv, TreeIInv, NEW c \in Cpus, NEW t \in Read(f[c])
  PROVE  /\ t \in Granules /\ f[c].obj \in Granules /\ lock[f[c].obj] = c
         /\ RootTable(f[c].obj, t) /\ f[c].pc \in {"rd_count", "rd_roots"}
<1> DEFINE fr == f[c]
           g  == f[c].obj
<1>1. fr.pc \in {"rd_count", "rd_roots"} /\ fr.pc \in Closing
  BY DEF Read, Closing
<1>2. g \in Granules /\ lock[g] = c /\ state[g] = "RD"
  BY <1>1, ClosedHolds
<1>3. fr.root = rd[g].root /\ fr.num = rd[g].num /\ fr.i < fr.num
  BY <1>1 DEF TreeIInv, TreeFrame, CloseFrame
<1>4. t \in RootsOf(g)
  <2>1. fr.root \in Nat /\ fr.num \in Nat /\ fr.i \in Nat
    BY FrameNats
  <2>2. t \in fr.root .. fr.root + (fr.num - 1)
    BY <1>1, <1>3, <2>1 DEF Read
  <2> QED BY <1>3, <2>2 DEF RootsOf, Roots
<1>5. ~Gone(g, t)
  <2>1. CASE fr.pc = "rd_count"
    BY <1>2, <2>1, NotGone
  <2>2. CASE fr.pc = "rd_roots"
    <3>1. fr.root \in Nat /\ fr.num \in Nat /\ fr.i \in Nat
      BY FrameNats
    <3>2. ~(t < fr.root + fr.i)
      BY <2>2, <3>1 DEF Read
    <3> QED BY <1>2, <2>2, <3>2, GoneHolds
  <2> QED BY <1>1, <2>1, <2>2
<1>6. t \in Granules
  BY <1>2, <1>4 DEF TreeIInv, Forest, RootsKnown
<1> QED BY <1>1, <1>2, <1>4, <1>5, <1>6 DEF RootTable

LEMMA ReadFacts ==
  ASSUME TreeIInv, NEW c \in Cpus, NEW t \in Read(f[c])
  PROVE  /\ state[t] = "RTT" /\ lock[t] = NoCpu
         /\ (f[c].pc = "rd_count" /\ f[c].used) \/ refcount[t] = 0
  BY DEF TreeIInv, TreeFrame, CloseFrame

LEMMA TreeRoots == ASSUME TreeIInv, WorldIInv PROVE RootsUnused
<1> SUFFICES ASSUME NEW c \in Cpus, f[c].pc = "rd_roots"
             PROVE  refcount[f[c].root + f[c].i] = 0
  BY DEF RootsUnused
<1> DEFINE t == f[c].root + f[c].i
<1>1. t \in Read(f[c])
  <2>1. f[c].root \in Nat /\ f[c].num \in Nat /\ f[c].i \in Nat
    BY FrameNats
  <2>2. f[c].i < f[c].num
    BY DEF TreeIInv, TreeFrame, CloseFrame
  <2> QED BY <2>1, <2>2 DEF Read
<1> HIDE DEF t
<1>2. refcount[t] = 0
  BY <1>1, ReadFacts
<1> QED BY <1>2 DEF t

(* A granule that is no table has no children. *)
LEMMA NoKids ==
  ASSUME WorldIInv, TreeIInv, NEW g \in Granules, state[g] # "RTT" \/ refcount[g] = 0
  PROVE  kids[g] = {}
<1>1. kids[g] \subseteq Granules
  BY TypesAre
<1>2. IsFiniteSet(kids[g])
  BY <1>1, FS_Subset, GranulesFinite
<1>3. CASE state[g] # "RTT"
  BY <1>1, <1>3 DEF TreeIInv, Forest, KidsOwned
<1>4. CASE state[g] = "RTT" /\ refcount[g] = 0
  BY <1>2, <1>4, EmptyCount DEF TreeIInv, Forest, TablesCounted
<1> QED BY <1>3, <1>4

---------------------------------------------------------------------------
(* Steps that leave the forest as it is                                    *)

LEMMA ForestSame ==
  ASSUME TreeIInv, RootsKnown',
         \A g, t \in Granules : RootTable(g, t)' <=> RootTable(g, t),
         \A g, t \in Granules : Opened(g, t) => Opened(g, t)',
         \A t \in Granules : state'[t] = "RTT" <=> state[t] = "RTT",
         \A t \in Granules : kids'[t] = kids[t],
         \A t \in Granules : state[t] = "RTT" => refcount'[t] = refcount[t]
  PROVE  Forest'
<1>1. RootsAre'
  BY DEF TreeIInv, Forest, RootsAre
<1>2. RootsDisjoint'
  BY DEF TreeIInv, Forest, RootsDisjoint
<1>3. KidsOwned'
  <2> SUFFICES ASSUME NEW p \in Granules, NEW t \in Granules, t \in kids'[p]
               PROVE  /\ state'[p] = "RTT" /\ state'[t] = "RTT"
                      /\ \A q \in Granules : t \in kids'[q] => q = p
                      /\ \A g \in Granules : ~RootTable(g, t)'
    BY DEF KidsOwned
  <2>1. t \in kids[p]
    OBVIOUS
  <2> QED BY <2>1 DEF TreeIInv, Forest, KidsOwned
<1>4. TablesPlaced'
  <2> SUFFICES ASSUME NEW t \in Granules, state'[t] = "RTT"
               PROVE  \/ \E p \in Granules : t \in kids'[p]
                      \/ \E g \in Granules : RootTable(g, t)'
    BY DEF TablesPlaced
  <2>1. (\E p \in Granules : t \in kids[p]) \/ (\E g \in Granules : RootTable(g, t))
    BY DEF TreeIInv, Forest, TablesPlaced
  <2> QED BY <2>1
<1>5. TablesCounted'
  BY DEF TreeIInv, Forest, TablesCounted
<1> QED BY <1>1, <1>2, <1>3, <1>4, <1>5 DEF Forest

(* The frame of a CPU that does not move *)
LEMMA FrameSame ==
  ASSUME WorldIInv, TreeIInv, NEW d \in Cpus, f'[d] = f[d],
         f[d].pc \in Closing \cup {"rc_roots"} =>
           LET g == f[d].obj
           IN  state'[g] = "RD" /\ rd'[g].root = rd[g].root /\ rd'[g].num = rd[g].num,
         \A t \in Read(f[d]) :
           state'[t] = "RTT" /\ lock'[t] = NoCpu /\ refcount'[t] = refcount[t],
         f[d].pc \in {"rd_roots", "rd_free"} =>
           \A e \in Cpus : f'[e].pc = "rc_roots" => f'[e].obj # f[d].obj,
         WalkFrame(d)'
  PROVE  TreeFrame(d)'
<1>1. CloseFrame(d) /\ OpenFrame(d)
  BY DEF TreeIInv, TreeFrame
<1>2. CloseFrame(d)'
  BY <1>1 DEF CloseFrame, Closing
<1>3. OpenFrame(d)'
  BY <1>1 DEF OpenFrame
<1> QED BY <1>2, <1>3 DEF TreeFrame

(* A CPU that has no part in a realm's tables *)
LEMMA FrameIdle ==
  ASSUME NEW d \in Cpus, f'[d].pc \notin Tending
  PROVE  TreeFrame(d)'
<1>1. CloseFrame(d)'
  BY DEF CloseFrame, Tending, Closing, Read
<1>2. OpenFrame(d)' /\ WalkFrame(d)'
  BY DEF OpenFrame, WalkFrame, Tending
<1> QED BY <1>1, <1>2 DEF TreeFrame

(* Only a walk locks a table. *)
LEMMA TablesStayFree ==
  ASSUME WorldIInv, WorldIInv', NEW c \in Cpus, Others(c), f'[c].pc \notin Walking,
         NEW t \in Granules, lock[t] = NoCpu, state'[t] = "RTT"
  PROVE  lock'[t] = NoCpu
<1> SUFFICES ASSUME lock'[t] # NoCpu PROVE FALSE
  OBVIOUS
<1>1. PICK d \in Cpus : lock'[t] = d
  BY TypesAre DEF WorldIInv, LockIInv, Types
<1>2. t \in Held(f'[d]) /\ state'[t] = HeldState(f'[d], t)
  BY <1>1 DEF WorldIInv, LockIInv, Locks, LockInv, HeldStates
<1>3. CASE d # c
  <2>1. t \in Held(f[d])
    BY <1>2, <1>3 DEF Others
  <2> QED BY <2>1, HeldIs, GranuleAssumption
<1>4. CASE d = c
  BY <1>2, <1>4 DEF HeldState, Expected
<1> QED BY <1>3, <1>4

TreesKept ==
  /\ \A g \in Granules : state'[g] # state[g] =>
       state[g] \notin {"RD", "RTT"} /\ state'[g] \notin {"RD", "RTT"}
  /\ \A g \in Granules : state[g] = "RD" =>
       rd'[g].root = rd[g].root /\ rd'[g].num = rd[g].num
  /\ \A g \in Granules : kids'[g] = kids[g]
  /\ \A g \in Granules : state[g] = "RTT" => refcount'[g] = refcount[g]

LEMMA RootsSame ==
  ASSUME TreesKept,
         \A d \in Cpus : f'[d] = f[d] \/ (f[d].pc \notin Owning /\ f'[d].pc \notin Owning)
  PROVE  /\ \A g, t \in Granules : RootTable(g, t)' <=> RootTable(g, t)
         /\ \A g, t \in Granules : Opened(g, t)' <=> Opened(g, t)
<1>1. ASSUME NEW g \in Granules, NEW t \in Granules
      PROVE  Gone(g, t)' <=> Gone(g, t)
  BY DEF Gone, Owning
<1>2. ASSUME NEW g \in Granules, NEW t \in Granules
      PROVE  RootTable(g, t)' <=> RootTable(g, t)
  BY <1>1 DEF RootTable, TreesKept, RootsOf, Roots
<1>3. ASSUME NEW g \in Granules, NEW t \in Granules
      PROVE  Opened(g, t)' <=> Opened(g, t)
  BY DEF Opened, Owning
<1> QED BY <1>2, <1>3

LEMMA KeepForest ==
  ASSUME WorldIInv, TreeIInv, TreesKept,
         \A g, t \in Granules : RootTable(g, t)' <=> RootTable(g, t),
         \A g, t \in Granules : Opened(g, t)' <=> Opened(g, t),
         \A d \in Cpus : f'[d].pc = "rc_roots" => f'[d] = f[d],
         \A d \in Cpus : \/ f'[d] = f[d] /\ \A t \in Read(f[d]) : lock'[t] = NoCpu
                         \/ TreeFrame(d)'
  PROVE  TreeIInv'
<1>1. \A g, t \in Granules : RootTable(g, t)' <=> RootTable(g, t)
  OBVIOUS
<1>2. RootsKnown'
  BY DEF RootsKnown, TreesKept, TreeIInv, Forest, RootsOf, Roots
<1>3. Forest'
  BY <1>1, <1>2, ForestSame DEF TreesKept
<1>4. ASSUME NEW d \in Cpus, f'[d] = f[d], \A t \in Read(f[d]) : lock'[t] = NoCpu
      PROVE  TreeFrame(d)'
  <2>1. f'[d] = f[d] /\ TreeFrame(d)
    BY <1>4 DEF TreeIInv
  <2>2. f[d].pc \in Closing \cup {"rc_roots"} =>
          LET g == f[d].obj
          IN  state'[g] = "RD" /\ rd'[g].root = rd[g].root /\ rd'[g].num = rd[g].num
    BY <2>1, ClosedHolds DEF TreesKept, TreeFrame, OpenFrame
  <2>3. \A t \in Read(f[d]) :
           state'[t] = "RTT" /\ lock'[t] = NoCpu /\ refcount'[t] = refcount[t]
    BY <1>4, ReadFacts, ReadIs DEF TreesKept
  <2>4. f[d].pc \in {"rd_roots", "rd_free"} =>
           \A e \in Cpus : f'[e].pc = "rc_roots" => f'[e].obj # f[d].obj
    BY <2>1 DEF TreeFrame, CloseFrame
  <2>5. WalkFrame(d)'
    <3>1. f[d].pc \in {"wk_sl", "wk_down", "wk_tbl"} => f[d].root \in Granules
      BY HeldIs DEF Held
    <3>2. f[d].pc \in {"wk_down", "wk_tbl"} => kids'[f[d].root] = kids[f[d].root]
      BY <3>1 DEF TreesKept
    <3>3. ASSUME f[d].pc = "wk_sl"
          PROVE  \E g \in Granules : /\ RootTable(g, f[d].root)' /\ RootTable(g, f[d].buf)'
                                     /\ rd'[g].root = f[d].root
      <4>1. PICK g \in Granules : /\ RootTable(g, f[d].root) /\ RootTable(g, f[d].buf)
                                  /\ rd[g].root = f[d].root
        BY <2>1, <3>3 DEF TreeFrame, WalkFrame
      <4>2. PICK x, y : x = f[d].root /\ y = f[d].buf
        OBVIOUS
      <4>3. state[g] = "RD" /\ x \in Granules /\ y \in Granules
        BY <4>1, <4>2 DEF RootTable, TreeIInv, Forest, RootsKnown
      <4>4. RootTable(g, x)' /\ RootTable(g, y)' /\ rd'[g].root = x
        BY <1>1, <4>1, <4>2, <4>3 DEF TreesKept
      <4>5. f'[d].root = x /\ f'[d].buf = y
        BY <2>1, <4>2
      <4> QED BY <2>1, <4>4, <4>5
    <3> QED BY <2>1, <3>2, <3>3 DEF WalkFrame, TreeFrame
  <2> QED BY <2>1, <2>2, <2>3, <2>4, <2>5, FrameSame
<1>5. \A d \in Cpus : TreeFrame(d)'
  BY <1>4
<1> QED BY <1>3, <1>5 DEF TreeIInv

LEMMA KeepTrees ==
  ASSUME WorldIInv, TreeIInv, TreesKept,
         \A d \in Cpus : \/ f'[d] = f[d] /\ \A t \in Read(f[d]) : lock'[t] = NoCpu
                         \/ f[d].pc \notin Owning /\ f'[d].pc \notin Owning /\ TreeFrame(d)'
  PROVE  TreeIInv'
<1>1. \A d \in Cpus : f'[d].pc = "rc_roots" => f'[d] = f[d]
  BY DEF Owning
<1>2. \A d \in Cpus : f'[d] = f[d] \/ (f[d].pc \notin Owning /\ f'[d].pc \notin Owning)
  OBVIOUS
<1> QED BY <1>1, <1>2, RootsSame, KeepForest

(* A step that neither is about a tree, nor locks a table *)
LEMMA QuietTrees ==
  ASSUME WorldIInv, WorldIInv', TreeIInv, TreesKept, NEW c \in Cpus, Others(c),
         f[c].pc \notin Owning, f'[c].pc \notin Tending \cup Walking
  PROVE  TreeIInv'
<1>1. TreeFrame(c)'
  BY FrameIdle
<1>2. ASSUME NEW d \in Cpus, NEW t \in Read(f[d])
      PROVE  lock'[t] = NoCpu
  <2>1. t \in Granules /\ state[t] = "RTT" /\ lock[t] = NoCpu
    BY <1>2, ReadFacts, ReadIs
  <2>2. state'[t] = "RTT"
    BY <2>1 DEF TreesKept
  <2> QED BY <2>1, <2>2, TablesStayFree
<1>3. f'[c].pc \notin Owning
  BY DEF Owning, Tending, Closing
<1> QED BY <1>1, <1>2, <1>3, KeepTrees DEF Others

LEMMA TreesUnchanged ==
  UNCHANGED <<state, refcount, rd, kids>> => TreesKept
  BY DEF TreesKept

(* A granule changes its purpose, and is no RD and no table. *)
LEMMA TreesSpared ==
  ASSUME WorldIInv, NEW g, NEW s, state' = [state EXCEPT ![g] = s],
         g \in Granules => state[g] \notin {"RD", "RTT"}, s \notin {"RD", "RTT"},
         UNCHANGED <<refcount, rd, kids>>
  PROVE  TreesKept
  BY TypesAre DEF TreesKept

(* A granule that is no RD and no table is zeroed. *)
LEMMA TreesZero ==
  ASSUME WorldIInv, TreeIInv, NEW g \in Granules, state[g] \notin {"RD", "RTT"}, ZeroOut({g}),
         \/ UNCHANGED state
         \/ state' = [state EXCEPT ![g] = "DELEGATED"],
         UNCHANGED refcount
  PROVE  TreesKept
<1>1. \A h \in Granules : kids'[h] = kids[h]
  BY NoKids DEF ZeroOut
<1>2. \A h \in Granules : h # g => rd'[h] = rd[h] /\ state'[h] = state[h]
  BY TypesAre DEF ZeroOut
<1>3. state'[g] \notin {"RD", "RTT"}
  BY TypesAre
<1> QED BY <1>1, <1>2, <1>3 DEF TreesKept

(* A reference to a granule that is no table *)
LEMMA TreesReferenced ==
  ASSUME WorldIInv, NEW g, NEW n, refcount' = [refcount EXCEPT ![g] = n],
         g \in Granules => state[g] # "RTT", UNCHANGED <<state, rd, kids>>
  PROVE  TreesKept
  BY TypesAre DEF TreesKept

---------------------------------------------------------------------------
(* The actions that have no part in the trees                              *)

Quiet(c) == /\ Others(c) /\ f[c].pc \notin Owning
            /\ f'[c].pc \notin Tending \cup Walking

LEMMA QuietReturn ==
  ASSUME WorldIInv, NEW c \in Cpus, Return(c), f[c].pc \notin Owning
  PROVE  Quiet(c)
<1>1. Others(c) /\ f'[c].pc = "idle"
  BY ReturnsIdle DEF WorldIInv
<1> QED BY <1>1 DEF Quiet, Tending, Closing, Walking

LEMMA QuietGoto ==
  ASSUME WorldIInv, NEW c \in Cpus, NEW l, Goto(c, l), f[c].pc \notin Owning,
         l \notin Tending \cup Walking
  PROVE  Quiet(c)
<1>1. Others(c) /\ f'[c].pc = l
  BY Gotos DEF WorldIInv
<1> QED BY <1>1 DEF Quiet

LEMMA QuietBecome ==
  ASSUME WorldIInv, NEW c \in Cpus, NEW nf, Become(c, nf), f[c].pc \notin Owning,
         nf.pc \notin Tending \cup Walking
  PROVE  Quiet(c)
<1>1. Others(c) /\ f'[c] = nf
  BY FrameIs DEF WorldIInv
<1> QED BY <1>1 DEF Quiet

LEMMA QuietStepTrees ==
  ASSUME WorldIInv, WorldIInv', TreeIInv, NEW c \in Cpus, Quiet(c), TreesKept
  PROVE  TreeIInv'
  BY QuietTrees DEF Quiet

LEMMA ReturnTrees ==
  ASSUME WorldIInv, WorldIInv', RecIInv, TreeIInv, NEW c \in Cpus,
         \/ DelegateZero(c) \/ UndelegateState(c) \/ RealmCreateFreeVmid(c)
         \/ RealmDestroyInUse(c) \/ RecDestroyPut(c) \/ EnterPut(c)
         \/ RttCreateLock2Fails(c) \/ RttInvalid(c) \/ RttFail(c) \/ RttDestroyInUse(c)
  PROVE  TreeIInv'
<1>1. Return(c) /\ f[c].pc \notin Owning
  BY DEF DelegateZero, UndelegateState, RealmCreateFreeVmid, RealmDestroyInUse,
         RecDestroyPut, EnterPut, RttCreateLock2Fails, RttInvalid, RttFail,
         RttDestroyInUse, At, Owning
<1>2. Quiet(c)
  BY <1>1, QuietReturn
<1>3. CASE DelegateZero(c)
  <2>1. f[c].obj \in Granules /\ state[f[c].obj] = "DELEGATED"
    BY <1>3, HeldObj DEF DelegateZero, At
  <2>2. TreesKept
    BY <1>3, <2>1, TreesZero DEF DelegateZero
  <2> QED BY <1>2, <2>2, QuietStepTrees
<1>4. CASE UndelegateState(c)
  <2>1. state[f[c].obj] = "DELEGATED"
    BY <1>4, HeldObj DEF UndelegateState, At
  <2>2. TreesKept
    BY <1>4, <2>1, TreesSpared DEF UndelegateState
  <2> QED BY <1>2, <2>2, QuietStepTrees
<1>5. CASE RecDestroyPut(c)
  <2>1. state[f[c].rd] = "RD"
    BY <1>5 DEF RecDestroyPut, At, RecIInv, RecFrames, RecFrame
  <2>2. TreesKept
    BY <1>5, <2>1, TreesReferenced DEF RecDestroyPut
  <2> QED BY <1>2, <2>2, QuietStepTrees
<1>6. CASE EnterPut(c)
  <2>1. state[f[c].obj] = "REC"
    BY <1>6 DEF EnterPut, At, Entered, RecIInv, RecFrames, RecFrame
  <2>2. TreesKept
    BY <1>6, <2>1, TreesReferenced DEF EnterPut
  <2> QED BY <1>2, <2>2, QuietStepTrees
<1>7. CASE \/ RealmCreateFreeVmid(c) \/ RealmDestroyInUse(c) \/ RttCreateLock2Fails(c)
           \/ RttInvalid(c) \/ RttFail(c) \/ RttDestroyInUse(c)
  <2>1. UNCHANGED <<state, refcount, rd, kids>>
    BY <1>7 DEF RealmCreateFreeVmid, RealmDestroyInUse, RttCreateLock2Fails, RttInvalid,
                RttFail, RttDestroyInUse, granuleVars
  <2> QED BY <1>2, <2>1, TreesUnchanged, QuietStepTrees
<1> QED BY <1>3, <1>4, <1>5, <1>6, <1>7

LEMMA GotoTrees ==
  ASSUME WorldIInv, WorldIInv', TreeIInv, NEW c \in Cpus,
         \/ DelegateMark(c) \/ RecCreateLock2(c) \/ RttCreateLock2(c)
         \/ EnterRead(c) \/ EnterCheck(c) \/ EnterWrite(c)
         \/ \E off \in BOOLEAN : EnterRun(c, off)
         \/ \E a \in Granules : RecCreateAuxFails(c, a)
         \/ \E r, g \in Granules : RecCreateLock1Fails(c, r, g)
  PROVE  TreeIInv'
<1>1. /\ \E l \in {"dl_zero", "rn_body", "wk_root", "rn_undo", "en_check", "en_run",
                   "en_exit", "en_put"} : Goto(c, l)
      /\ f[c].pc \notin Owning /\ UNCHANGED <<state, refcount, rd, kids>>
  BY DEF DelegateMark, RecCreateLock2, RttCreateLock2, EnterRead, EnterCheck, EnterWrite,
         EnterRun, RecCreateAuxFails, RecCreateLock1Fails, At, Owning, granuleVars
<1>2. Quiet(c)
  BY <1>1, QuietGoto DEF Tending, Closing, Walking
<1> QED BY <1>1, <1>2, TreesUnchanged, QuietStepTrees

LEMMA FailTrees ==
  ASSUME WorldIInv, WorldIInv', TreeIInv, NEW c \in Cpus,
         RecCreateLock2Fails(c) \/ RecCreateRefused(c)
  PROVE  TreeIInv'
<1>1. RecCreateFails(c) /\ f[c].pc \notin Owning /\ UNCHANGED <<state, refcount, rd, kids>>
  BY DEF RecCreateLock2Fails, RecCreateRefused, At, Owning
<1>2. Quiet(c)
  BY <1>1, FailsIs DEF WorldIInv, Quiet, Tending, Closing, Walking
<1> QED BY <1>1, <1>2, TreesUnchanged, QuietStepTrees

LEMMA StartTrees ==
  ASSUME WorldIInv, WorldIInv', TreeIInv, NEW c \in Cpus,
         NEW g \in Granules, NEW t \in Granules, NEW n, NEW v,
         \/ GranuleUndelegate(c, g) \/ RealmCreate(c, g, t, n, v) \/ RecDestroy(c, g)
         \/ RttCreate(c, t, g) \/ RttDestroy(c, t, g)
  PROVE  TreeIInv'
<1> DEFINE l  == IF g \in Roots(t, n) THEN "rc_vmid" ELSE "rc_lock"
           x  == IF NumAux = 0 THEN "rx_free" ELSE "rx_aux"
           ud == [IdleFrame EXCEPT !.pc = "ud_state", !.obj = g]
           rc == [IdleFrame EXCEPT !.pc = l, !.obj = g, !.root = t, !.num = n, !.vmid = v]
           rx == [IdleFrame EXCEPT !.pc = x, !.obj = g, !.rd = rec[g].rd, !.aux = rec[g].aux]
           tc == [IdleFrame EXCEPT !.pc = "tc_lock2", !.op = "create", !.obj = t, !.rd = g]
           td == [IdleFrame EXCEPT !.pc = "wk_root", !.op = "destroy", !.obj = t, !.rd = g]
<1>1. /\ f[c].pc \notin Owning /\ UNCHANGED <<state, refcount, rd, kids>>
      /\ Become(c, ud) \/ Become(c, rc) \/ Become(c, rx) \/ Become(c, tc) \/ Become(c, td)
  BY DEF GranuleUndelegate, RealmCreate, RecDestroy, RttCreate, RttDestroy, Idle, Owning,
         granuleVars
<1>2. /\ ud.pc = "ud_state" /\ rc.pc \in {"rc_vmid", "rc_lock"} /\ tc.pc = "tc_lock2"
      /\ td.pc = "wk_root" /\ rx.pc \in {"rx_free", "rx_aux"}
  BY DEF IdleFrame
<1> HIDE DEF ud, rc, rx, tc, td
<1>3. Quiet(c)
  BY <1>1, <1>2, QuietBecome DEF Tending, Closing, Walking
<1> QED BY <1>1, <1>3, TreesUnchanged, QuietStepTrees

LEMMA ChangeTrees ==
  ASSUME WorldIInv, WorldIInv', RecIInv, TreeIInv, NEW c \in Cpus,
         \/ \E g \in Granules : GranuleDelegate(c, g)
         \/ \E a \in Granules : RecCreateAux(c, a)
         \/ RecCreateUndo(c)
  PROVE  TreeIInv'
<1> DEFINE fr == f[c]
           k  == fr.i + 1
           j  == fr.j + 1
           up == [fr EXCEPT !.j = j]
           un == IF j = fr.i THEN IdleFrame ELSE up
           dl(g) == [IdleFrame EXCEPT !.pc = "dl_mark", !.obj = g]
           na(a) == [fr.aux EXCEPT ![k] = a]
           ax(a) == [fr EXCEPT !.pc = "rn_aux", !.i = k, !.aux = na(a)]
<1>1. PICK g, s :
        /\ g \in Granules /\ state[g] \notin {"RD", "RTT"} /\ s \notin {"RD", "RTT"}
        /\ state' = [state EXCEPT ![g] = s] /\ UNCHANGED <<refcount, rd, kids>>
        /\ fr.pc \in {"idle", "rn_aux", "rn_undo"}
        /\ fr.pc = "rn_undo" => Become(c, un)
        /\ fr.pc # "rn_undo" => Become(c, dl(g)) \/ Become(c, ax(g))
  <2>1. CASE \E g \in Granules : GranuleDelegate(c, g)
    BY <2>1 DEF GranuleDelegate, Idle, CanLock
  <2>2. CASE \E a \in Granules : RecCreateAux(c, a)
    BY <2>2 DEF RecCreateAux, AuxTaken, Idle, At, CanLock
  <2>3. CASE RecCreateUndo(c)
    <3> DEFINE a == fr.aux[fr.j + 1]
    <3>1. /\ a \in Granules /\ state[a] = "REC_AUX" /\ fr.pc = "rn_undo" /\ Become(c, un)
          /\ state' = [state EXCEPT ![a] = "DELEGATED"] /\ UNCHANGED <<refcount, rd, kids>>
      BY <2>3 DEF RecCreateUndo, At, CanLock
    <3> HIDE DEF a, un
    <3> QED BY <3>1
  <2> QED BY <2>1, <2>2, <2>3
<1>2. dl(g).pc = "dl_mark" /\ ax(g).pc = "rn_aux" /\ up.pc = fr.pc /\ IdleFrame.pc = "idle"
  <2>1. fr \in Frame
    BY TypesAre
  <2> HIDE DEF k, j, na
  <2> QED BY <2>1 DEF Frame, IdleFrame
<1> HIDE DEF dl, ax, up
<1>3. Quiet(c)
  <2>1. fr.pc \notin Owning
    BY <1>1 DEF Owning
  <2>2. CASE fr.pc = "rn_undo"
    <3>1. Become(c, un) /\ un.pc \notin Tending \cup Walking
      BY <1>1, <1>2, <2>2 DEF Tending, Closing, Walking
    <3> HIDE DEF un
    <3> QED BY <2>1, <3>1, QuietBecome
  <2>3. CASE fr.pc # "rn_undo"
    BY <1>1, <1>2, <2>1, <2>3, QuietBecome DEF Tending, Closing, Walking
  <2> QED BY <2>2, <2>3
<1>4. TreesKept
  BY <1>1, TreesSpared
<1> QED BY <1>3, <1>4, QuietStepTrees

LEMMA RealmLockTrees ==
  ASSUME WorldIInv, WorldIInv', TreeIInv, NEW c \in Cpus,
         \/ RealmCreateLock(c) \/ RealmCreateLockFails(c)
         \/ \E r, g \in Granules : RecCreateLock1(c, r, g)
  PROVE  TreeIInv'
<1> DEFINE fr == f[c]
           l  == IF fr.i = fr.num THEN "rc_init" ELSE "rc_lock"
           k  == fr.i + 1
           up == [fr EXCEPT !.i = k, !.pc = l]
           no == [IdleFrame EXCEPT !.pc = "rc_vmid", !.vmid = fr.vmid]
           rn(r, g) == [fr EXCEPT !.pc = "rn_lock2", !.obj = r, !.rd = g]
<1>1. /\ fr.pc \notin Owning /\ UNCHANGED <<state, refcount, rd, kids>>
      /\ Become(c, up) \/ Become(c, no) \/ \E r, g \in Granules : Become(c, rn(r, g))
  BY DEF RealmCreateLock, RealmCreateLockFails, RecCreateLock1, Idle, At, Owning
<1>2. /\ up.pc \in {"rc_init", "rc_lock"} /\ no.pc = "rc_vmid"
      /\ \A r, g \in Granules : rn(r, g).pc = "rn_lock2"
  <2>1. fr \in Frame
    BY TypesAre
  <2> HIDE DEF k
  <2> QED BY <2>1 DEF Frame, IdleFrame
<1> HIDE DEF up, no, rn
<1>3. Quiet(c)
  BY <1>1, <1>2, QuietBecome DEF Tending, Closing, Walking
<1> QED BY <1>1, <1>3, TreesUnchanged, QuietStepTrees

LEMMA RecEnterTrees ==
  ASSUME WorldIInv, WorldIInv', TreeIInv, NEW c \in Cpus, NEW r \in Granules,
         NEW b \in Granules, RecEnter(c, r, b)
  PROVE  TreeIInv'
<1> DEFINE nf == [IdleFrame EXCEPT !.pc = "en_read", !.obj = r, !.buf = b]
<1>1. /\ f[c].pc \notin Owning /\ Become(c, nf) /\ UNCHANGED <<state, rd, kids>>
      /\ refcount' = [refcount EXCEPT ![r] = 1] /\ state[r] = "REC"
  BY DEF RecEnter, Idle, CanLockUnused, CanLock, Owning
<1>2. nf.pc = "en_read"
  BY DEF IdleFrame
<1> HIDE DEF nf
<1>3. Quiet(c)
  BY <1>1, <1>2, QuietBecome DEF Tending, Closing, Walking
<1>4. TreesKept
  BY <1>1, TreesReferenced
<1> QED BY <1>3, <1>4, QuietStepTrees

LEMMA RecCreateBodyTrees ==
  ASSUME WorldIInv, WorldIInv', TreeIInv, NEW c \in Cpus, NEW b, RecCreateBody(c, b)
  PROVE  TreeIInv'
<1> DEFINE r == f[c].obj
           g == f[c].rd
<1>1. /\ f[c].pc = "rn_body" /\ Return(c) /\ UNCHANGED kids
      /\ state' = [state EXCEPT ![r] = "REC"]
      /\ rd' = [rd EXCEPT ![g].recs = rd[g].recs + 1]
      /\ refcount' = [refcount EXCEPT ![g] = refcount[g] + 1]
  BY DEF RecCreateBody, CountRec, GetRd, At
<1>2. /\ r \in Granules /\ state[r] = "DELEGATED" /\ g \in Granules /\ state[g] = "RD"
  <2>1. r # g
    BY <1>1 DEF WorldIInv, LockIInv, Locks, FrameOK
  <2>2. r \in Held(f[c]) /\ g \in Held(f[c])
    BY <1>1 DEF Held
  <2>3. HeldState(f[c], r) = "DELEGATED" /\ HeldState(f[c], g) = "RD"
    BY <1>1, <2>1 DEF HeldState, Walking, Expected
  <2> QED BY <2>1, <2>2, <2>3, HeldIs
<1> HIDE DEF r, g
<1>3. TreesKept
  <2>1. \A h \in Granules : rd'[h].root = rd[h].root /\ rd'[h].num = rd[h].num
    BY <1>1, TypesAre DEF RdType
  <2>2. \A h \in Granules : h # r => state'[h] = state[h]
    BY <1>1, TypesAre
  <2>3. state'[r] = "REC"
    BY <1>1, <1>2, TypesAre
  <2>4. \A h \in Granules : state[h] = "RTT" => refcount'[h] = refcount[h]
    BY <1>1, <1>2, TypesAre
  <2> QED BY <1>1, <1>2, <2>1, <2>2, <2>3, <2>4 DEF TreesKept
<1>4. Quiet(c)
  BY <1>1, QuietReturn DEF Owning
<1> QED BY <1>3, <1>4, QuietStepTrees

LEMMA RecDestroyTrees ==
  ASSUME WorldIInv, WorldIInv', TreeIInv, NEW c \in Cpus, RecDestroyAux(c) \/ RecDestroyFree(c)
  PROVE  TreeIInv'
<1> DEFINE fr == f[c]
           a  == fr.aux[fr.j + 1]
           k  == fr.j + 1
           l  == IF k = NumAux THEN "rx_free" ELSE "rx_aux"
           nf == [fr EXCEPT !.j = k, !.pc = l]
<1>1. CASE RecDestroyAux(c)
  <2>1. /\ fr.pc = "rx_aux" /\ Become(c, nf) /\ UNCHANGED refcount /\ ZeroOut({a})
        /\ state' = [state EXCEPT ![a] = "DELEGATED"] /\ a \in Granules /\ state[a] = "REC_AUX"
    BY <1>1 DEF RecDestroyAux, At, CanLock
  <2>2. nf.pc \in {"rx_aux", "rx_free"}
    <3>1. fr \in Frame
      BY TypesAre
    <3> HIDE DEF k
    <3> QED BY <3>1 DEF Frame
  <2> HIDE DEF nf, a
  <2>3. TreesKept
    BY <2>1, TreesZero
  <2>4. Quiet(c)
    BY <2>1, <2>2, QuietBecome DEF Owning, Tending, Closing, Walking
  <2> QED BY <2>3, <2>4, QuietStepTrees
<1>2. CASE RecDestroyFree(c)
  <2>1. fr.obj \in Granules /\ state[fr.obj] = "REC"
    BY <1>2, HeldObj DEF RecDestroyFree, At
  <2>2. TreesKept
    BY <1>2, <2>1, TreesZero DEF RecDestroyFree
  <2>3. Quiet(c)
    BY <1>2, QuietGoto DEF RecDestroyFree, At, Owning, Tending, Closing, Walking
  <2> QED BY <2>2, <2>3, QuietStepTrees
<1> QED BY <1>1, <1>2

LEMMA SystemOffTrees ==
  ASSUME WorldIInv, WorldIInv', TreeIInv, NEW c \in Cpus, SystemOff(c)
  PROVE  TreeIInv'
<1> DEFINE g == rec[f[c].obj].rd
<1>1. /\ f[c].pc = "en_run" /\ Goto(c, "en_exit") /\ UNCHANGED <<state, refcount, kids>>
      /\ rd' = [rd EXCEPT ![g].state = "SYSTEM_OFF"]
  BY DEF SystemOff, At, granuleVars
<1> HIDE DEF g
<1>2. TreesKept
  <2>1. \A h \in Granules : rd'[h].root = rd[h].root /\ rd'[h].num = rd[h].num
    BY <1>1, TypesAre DEF RdType
  <2> QED BY <1>1, <2>1 DEF TreesKept
<1>3. Quiet(c)
  BY <1>1, QuietGoto DEF Owning, Tending, Closing, Walking
<1> QED BY <1>2, <1>3, QuietStepTrees

LEMMA HostTrees ==
  ASSUME WorldIInv, TreeIInv, NEW g \in Granules,
         HostWrite(g) \/ RealmActivate(g) \/ UNCHANGED vars
  PROVE  TreeIInv'
<1>1. UNCHANGED <<state, lock, refcount, kids, f>>
  BY DEF HostWrite, RealmActivate, granuleVars, vars
<1>2. rd' = rd \/ rd' = [rd EXCEPT ![g].state = "ACTIVE"]
  BY DEF HostWrite, RealmActivate, vars
<1>3. \A h \in Granules : rd'[h].root = rd[h].root /\ rd'[h].num = rd[h].num
  BY <1>2, TypesAre DEF RdType
<1>4. TreesKept
  BY <1>1, <1>3 DEF TreesKept
<1>5. \A d \in Cpus : f'[d] = f[d] /\ \A t \in Read(f[d]) : lock'[t] = NoCpu
  BY <1>1, ReadFacts
<1> QED BY <1>4, <1>5, KeepTrees

---------------------------------------------------------------------------
(* REALM_DESTROY                                                           *)

LEMMA RealmDestroyTrees ==
  ASSUME WorldIInv, WorldIInv', TreeIInv, NEW c \in Cpus, NEW g \in Granules,
         RealmDestroy(c, g)
  PROVE  TreeIInv'
<1> DEFINE nf == [IdleFrame EXCEPT !.pc = "rd_count", !.obj = g,
                                   !.root = rd[g].root, !.num = rd[g].num]
<1>1. /\ f[c].pc = "idle" /\ Become(c, nf) /\ UNCHANGED <<state, refcount, rd, kids>>
      /\ state[g] = "RD"
  BY DEF RealmDestroy, Idle, CanLockUnused, CanLock
<1>2. /\ nf.pc = "rd_count" /\ nf.obj = g /\ nf.root = rd[g].root /\ nf.num = rd[g].num
      /\ nf.i = 0
  BY DEF IdleFrame
<1> HIDE DEF nf
<1>3. Others(c) /\ f'[c] = nf
  BY <1>1, FrameIs DEF WorldIInv
<1>4. TreesKept
  BY <1>1, TreesUnchanged
<1>5. TreeFrame(c)'
  <2>1. Read(nf) = {}
    BY <1>2, RootsAreNat DEF Read
  <2>2. rd[g].num > 0
    BY <1>1 DEF TreeIInv, Forest, RootsKnown
  <2>3. CloseFrame(c)'
    BY <1>1, <1>2, <1>3, <2>1, <2>2 DEF CloseFrame
  <2>4. OpenFrame(c)' /\ WalkFrame(c)'
    BY <1>2, <1>3 DEF OpenFrame, WalkFrame
  <2> QED BY <2>3, <2>4 DEF TreeFrame
<1>6. ASSUME NEW d \in Cpus, NEW t \in Read(f[d])
      PROVE  lock'[t] = NoCpu
  <2>1. t \in Granules /\ state'[t] = "RTT" /\ lock[t] = NoCpu
    BY <1>1, ReadIs, ReadFacts
  <2> QED BY <1>2, <1>3, <2>1, TablesStayFree DEF Walking
<1>7. f[c].pc \notin Owning /\ f'[c].pc \notin Owning
  BY <1>1, <1>2, <1>3 DEF Owning
<1> QED BY <1>3, <1>4, <1>5, <1>6, <1>7, KeepTrees DEF Others

LEMMA RealmDestroyCountTrees ==
  ASSUME WorldIInv, TreeIInv, NEW c \in Cpus, RealmDestroyCount(c)
  PROVE  TreeIInv'
<1> DEFINE fr == f[c]
           l  == IF LastRoot(fr) THEN "rd_roots" ELSE "rd_count"
           k  == IF LastRoot(fr) THEN 0 ELSE fr.i + 1
           u  == Counted(fr)
           nf == [fr EXCEPT !.used = u, !.i = k, !.pc = l]
<1>0. PICK g, r, n, i, x : /\ g = fr.obj /\ r = fr.root /\ n = fr.num /\ i = fr.i
                           /\ x = fr.root + fr.i
  OBVIOUS
<1>1. /\ fr.pc = "rd_count" /\ Become(c, nf) /\ UNCHANGED <<state, lock, refcount, rd, kids>>
      /\ x \in Granules /\ state[x] = "RTT" /\ lock[x] = NoCpu
      /\ LastRoot(fr) => ~Counted(fr)
  BY <1>0 DEF RealmDestroyCount, At, granuleVars, CanLock, Free
<1>2. /\ nf.pc = l /\ nf.obj = g /\ nf.root = r /\ nf.num = n /\ nf.i = k /\ nf.used = u
  <2>1. fr \in Frame
    BY TypesAre
  <2> HIDE DEF k, u, l
  <2> QED BY <1>0, <2>1 DEF Frame
<1>3. /\ r \in Nat /\ n \in Nat /\ i \in Nat /\ i < n /\ x = r + i
      /\ g \in Granules /\ lock[g] = c /\ state[g] = "RD"
      /\ r = rd[g].root /\ n = rd[g].num
  <2>1. fr.pc \in Closing
    BY <1>1 DEF Closing
  <2> QED BY <1>0, <1>1, <2>1, ClosedHolds, FrameNats DEF TreeIInv, TreeFrame, CloseFrame
<1>4. LastRoot(fr) <=> i = n - 1
  BY <1>0, <1>3 DEF LastRoot
<1>5. u <=> fr.used \/ refcount[x] # 0
  BY <1>0 DEF Counted
<1> HIDE DEF nf, u
<1>6. Others(c) /\ f'[c] = nf
  BY <1>1, FrameIs DEF WorldIInv
<1>7. \A t \in r .. r + i : /\ state[t] = "RTT" /\ lock[t] = NoCpu
                            /\ u \/ refcount[t] = 0
  <2>1. CASE i = 0
    BY <1>1, <1>3, <1>5, <2>1
  <2>2. Read(fr) = r .. r + (i - 1)
    BY <1>0, <1>1 DEF Read
  <2> QED BY <1>1, <1>3, <1>5, <2>2, ReadFacts
<1>8. TreesKept
  BY <1>1, TreesUnchanged
<1>9. \A h, t \in Granules : RootTable(h, t)' <=> RootTable(h, t)
  <2> SUFFICES ASSUME NEW h \in Granules, NEW t \in Granules
               PROVE  RootTable(h, t)' <=> RootTable(h, t)
    OBVIOUS
  <2>1. CASE h = g /\ t \in RootsOf(g)
    <3>1. ~(t < r + 0)
      BY <1>3, <2>1 DEF RootsOf, Roots
    <3>2. ~Gone(h, t)
      BY <1>0, <1>1, <1>3, <2>1, NotGone
    <3>3. ~Gone(h, t)'
      <4>1. \A d \in Cpus : d # c => f[d].obj # g \/ f[d].pc \notin {"rd_free", "rd_roots"}
        BY <1>3, HeldObj
      <4>2. nf.pc = "rd_roots" => k = 0
        BY <1>2
      <4>3. nf.pc # "rd_free"
        BY <1>2
      <4> QED BY <1>2, <1>6, <2>1, <3>1, <4>1, <4>2, <4>3 DEF Gone, Others
    <3> QED BY <1>1, <2>1, <3>2, <3>3 DEF RootTable, RootsOf
  <2>2. CASE h # g
    <3>1. Gone(h, t)' <=> Gone(h, t)
      BY <1>0, <1>2, <1>6, <2>2 DEF Gone, Others
    <3> QED BY <1>1, <3>1 DEF RootTable, RootsOf
  <2>3. CASE h = g /\ t \notin RootsOf(g)
    BY <1>1, <2>3 DEF RootTable, RootsOf
  <2> QED BY <2>1, <2>2, <2>3
<1>10. \A h, t \in Granules : Opened(h, t)' <=> Opened(h, t)
  BY <1>1, <1>2, <1>6 DEF Opened, Others
<1>11. TreeFrame(c)'
  <2>1. CloseFrame(c)'
    <3>1. CASE LastRoot(fr)
      <4>1. nf.pc = "rd_roots" /\ nf.i = 0 /\ ~u
        BY <1>1, <1>2, <3>1 DEF u
      <4>2. Read(nf) = r .. r + i
        BY <1>2, <1>3, <1>4, <3>1, <4>1 DEF Read
      <4>3. ASSUME NEW d \in Cpus, f[d].pc = "rc_roots", f[d].obj = g
            PROVE  FALSE
        <5>1. f[d].root = r /\ f[d].num = n
          BY <1>3, <4>3 DEF TreeIInv, TreeFrame, OpenFrame
        <5>2. f[d].i \in Nat /\ f[d].i < n
          BY <4>3, <5>1, FrameNats DEF WorldIInv, LockIInv, Locks, FrameOK
        <5>3. r + f[d].i \in Held(f[d])
          BY <1>3, <4>3, <5>1, <5>2 DEF Held
        <5>4. lock[r + f[d].i] = d
          BY <5>3, HeldIs
        <5>5. r + f[d].i \in r .. r + i
          BY <1>3, <1>4, <3>1, <5>2
        <5> QED BY <1>7, <5>4, <5>5, GranuleAssumption
      <4>4. \A d \in Cpus : f'[d].pc = "rc_roots" => f'[d].obj # g
        BY <1>6, <4>1, <4>3 DEF Others
      <4>5. /\ f'[c].pc = "rd_roots" /\ f'[c].obj = g /\ f'[c].root = r /\ f'[c].num = n
            /\ f'[c].i = 0 /\ Read(f'[c]) = r .. r + i
        BY <1>2, <1>6, <4>1, <4>2
      <4> QED BY <1>1, <1>3, <1>7, <4>1, <4>4, <4>5 DEF CloseFrame
    <3>2. CASE ~LastRoot(fr)
      <4>1. nf.pc = "rd_count" /\ nf.i = i + 1 /\ i + 1 < n
        BY <1>0, <1>2, <1>3, <1>4, <3>2
      <4>2. Read(nf) = r .. r + i
        BY <1>2, <1>3, <4>1 DEF Read
      <4>3. /\ f'[c].pc = "rd_count" /\ f'[c].obj = g /\ f'[c].root = r /\ f'[c].num = n
            /\ f'[c].i = i + 1 /\ Read(f'[c]) = r .. r + i /\ f'[c].used = u
        BY <1>2, <1>6, <4>1, <4>2
      <4> QED BY <1>1, <1>3, <1>7, <4>1, <4>3 DEF CloseFrame
    <3> QED BY <3>1, <3>2
  <2>2. OpenFrame(c)' /\ WalkFrame(c)'
    BY <1>2, <1>6 DEF OpenFrame, WalkFrame
  <2> QED BY <2>1, <2>2 DEF TreeFrame
<1>12. \A d \in Cpus : f'[d].pc = "rc_roots" => f'[d] = f[d]
  BY <1>2, <1>6 DEF Others
<1>13. \A d \in Cpus : d # c => f'[d] = f[d] /\ \A t \in Read(f[d]) : lock'[t] = NoCpu
  BY <1>1, <1>6, ReadFacts DEF Others
<1> QED BY <1>8, <1>9, <1>10, <1>11, <1>12, <1>13, KeepForest

(* The next root table is free, unused and a root table of this realm. *)
LEMMA NextRoot ==
  ASSUME WorldIInv, TreeIInv, NEW c \in Cpus, f[c].pc = "rd_roots"
  PROVE  f[c].root + f[c].i \in Read(f[c])
<1>1. f[c].root \in Nat /\ f[c].num \in Nat /\ f[c].i \in Nat
  BY FrameNats
<1>2. f[c].i < f[c].num
  BY DEF TreeIInv, TreeFrame, CloseFrame
<1> QED BY <1>1, <1>2 DEF Read

(* A walk in the realm's concatenated root tables holds the first of them. *)
LEMMA NoWalkInRoots ==
  ASSUME WorldIInv, TreeIInv, NEW c \in Cpus, f[c].pc = "rd_roots",
         NEW d \in Cpus, f[d].pc = "wk_sl", NEW h, RootTable(h, f[d].root), rd[h].root = f[d].root
  PROVE  h # f[c].obj
<1> SUFFICES ASSUME h = f[c].obj PROVE FALSE
  OBVIOUS
<1>1. /\ f[c].root = f[d].root /\ f[c].i \in Nat /\ f[c].root \in Nat
  BY FrameNats DEF TreeIInv, TreeFrame, CloseFrame, Closing
<1>2. f[d].root \in Held(f[d])
  BY DEF Held
<1>3. lock[f[d].root] = d
  BY <1>2, HeldIs
<1>4. CASE f[c].i = 0
  <2>1. f[d].root \in Read(f[c])
    BY <1>1, <1>4, NextRoot
  <2> QED BY <1>3, <2>1, ReadFacts, GranuleAssumption
<1>5. CASE f[c].i # 0
  <2>1. f[d].root < f[c].root + f[c].i
    BY <1>1, <1>5
  <2> QED BY <2>1 DEF RootTable, Gone
<1> QED BY <1>4, <1>5

LEMMA RealmDestroyRootTrees ==
  ASSUME WorldIInv, TreeIInv, NEW c \in Cpus, RealmDestroyRoot(c)
  PROVE  TreeIInv'
<1> DEFINE fr == f[c]
           l  == IF LastRoot(fr) THEN "rd_free" ELSE "rd_roots"
           k  == fr.i + 1
           nf == [fr EXCEPT !.i = k, !.pc = l]
<1>0. PICK g, r, n, i, x : /\ g = fr.obj /\ r = fr.root /\ n = fr.num /\ i = fr.i
                           /\ x = fr.root + fr.i
  OBVIOUS
<1>1. /\ fr.pc = "rd_roots" /\ Become(c, nf) /\ UNCHANGED <<lock, refcount>> /\ ZeroOut({x})
      /\ state' = [state EXCEPT ![x] = "DELEGATED"]
  BY <1>0 DEF RealmDestroyRoot, At, CanLock
<1>2. /\ nf.pc = l /\ nf.obj = g /\ nf.root = r /\ nf.num = n /\ nf.i = i + 1
  <2>1. fr \in Frame /\ k = i + 1
    BY <1>0, TypesAre
  <2> HIDE DEF k, l
  <2> QED BY <1>0, <2>1 DEF Frame
<1>3. /\ r \in Nat /\ n \in Nat /\ i \in Nat /\ i < n /\ x = r + i
      /\ g \in Granules /\ lock[g] = c /\ state[g] = "RD"
      /\ r = rd[g].root /\ n = rd[g].num
      /\ \A d \in Cpus : f[d].pc = "rc_roots" => f[d].obj # g
  <2>1. fr.pc \in Closing
    BY <1>1 DEF Closing
  <2> QED BY <1>0, <1>1, <2>1, ClosedHolds, FrameNats DEF TreeIInv, TreeFrame, CloseFrame
<1>4. LastRoot(fr) <=> i + 1 = n
  BY <1>0 DEF LastRoot
<1>5. /\ x \in Granules /\ state[x] = "RTT" /\ lock[x] = NoCpu /\ refcount[x] = 0
      /\ RootTable(g, x)
  <2>1. x \in Read(fr)
    BY <1>0, <1>1, NextRoot
  <2> QED BY <1>0, <1>1, <2>1, ReadFacts, ReadIs
<1> HIDE DEF nf
<1>6. Others(c) /\ f'[c] = nf
  BY <1>1, FrameIs DEF WorldIInv
<1>7. /\ state'[x] = "DELEGATED"
      /\ \A h \in Granules : h # x => state'[h] = state[h] /\ rd'[h] = rd[h]
  BY <1>1, <1>5, TypesAre DEF ZeroOut
<1>8. \A h \in Granules : kids'[h] = kids[h]
  BY <1>1, <1>5, NoKids DEF ZeroOut
<1>9. \A h, t \in Granules : RootTable(h, t)' <=> RootTable(h, t) /\ t # x
  <2> SUFFICES ASSUME NEW h \in Granules, NEW t \in Granules
               PROVE  RootTable(h, t)' <=> RootTable(h, t) /\ t # x
    OBVIOUS
  <2>1. CASE h = g
    <3>1. \A d \in Cpus : d # c => f[d].obj # g \/ f[d].pc \notin {"rd_free", "rd_roots"}
      BY <1>3, HeldObj
    <3>2. Gone(g, t) <=> t < r + i
      BY <1>0, <1>1, <3>1 DEF Gone
    <3>3. Gone(g, t)' <=> nf.pc = "rd_free" \/ t < r + (i + 1)
      <4>1. f'[c].obj = g /\ f'[c].root = r /\ f'[c].i = i + 1 /\ f'[c].pc = nf.pc
            /\ nf.pc \in {"rd_free", "rd_roots"}
        BY <1>2, <1>6
      <4>2. \A d \in Cpus : d # c => f'[d].obj # g \/ f'[d].pc \notin {"rd_free", "rd_roots"}
        BY <1>6, <3>1 DEF Others
      <4> QED BY <4>1, <4>2 DEF Gone
    <3>4. g # x
      BY <1>3, <1>5
    <3>5. t \in Int
      BY DEF Granules
    <3>6. t \in RootsOf(g) <=> r <= t /\ t <= r + (n - 1)
      BY <1>3, <3>5 DEF RootsOf, Roots
    <3>7. t \in RootsOf(g)' <=> r <= t /\ t <= r + (n - 1)
      <4>1. rd'[g] = rd[g]
        BY <1>3, <1>7, <3>4
      <4> QED BY <1>3, <3>5, <4>1 DEF RootsOf, Roots
    <3>8. state'[g] = "RD"
      BY <1>3, <1>7, <3>4
    <3>9. nf.pc = "rd_free" <=> i + 1 = n
      BY <1>2, <1>4
    <3>10. RootTable(g, t) <=> r <= t /\ t <= r + (n - 1) /\ ~(t < r + i)
      BY <1>3, <3>2, <3>6 DEF RootTable
    <3>11. RootTable(g, t)' <=> r <= t /\ t <= r + (n - 1) /\ ~(i + 1 = n \/ t < r + (i + 1))
      BY <3>3, <3>7, <3>8, <3>9 DEF RootTable
    <3> QED BY <1>3, <2>1, <3>5, <3>10, <3>11
  <2>2. CASE h # g
    <3>1. Gone(h, t)' <=> Gone(h, t)
      BY <1>0, <1>2, <1>6, <2>2 DEF Gone, Others
    <3>2. RootTable(h, t)' <=> RootTable(h, t)
      BY <1>5, <1>7, <3>1 DEF RootTable, RootsOf
    <3>3. RootTable(h, t) => t # x
      BY <1>3, <1>5, <2>2 DEF TreeIInv, Forest, RootsDisjoint
    <3> QED BY <3>2, <3>3
  <2> QED BY <2>1, <2>2
<1>10. \A h, t : Opened(h, t) => Opened(h, t)'
  BY <1>1, <1>6 DEF Opened, Others
<1>11. \A h \in Granules : ~(x \in kids[h])
  BY <1>3, <1>5 DEF TreeIInv, Forest, KidsOwned
<1>12. Forest'
  <2>1. RootsKnown'
    BY <1>5, <1>7 DEF TreeIInv, Forest, RootsKnown, RootsOf
  <2>2. RootsAre'
    BY <1>7, <1>9, <1>10 DEF TreeIInv, Forest, RootsAre
  <2>3. RootsDisjoint'
    BY <1>9 DEF TreeIInv, Forest, RootsDisjoint
  <2>4. KidsOwned'
    <3> SUFFICES ASSUME NEW p \in Granules, NEW t \in Granules, t \in kids'[p]
                 PROVE  /\ state'[p] = "RTT" /\ state'[t] = "RTT"
                        /\ \A q \in Granules : t \in kids'[q] => q = p
                        /\ \A h \in Granules : ~RootTable(h, t)'
      BY DEF KidsOwned
    <3>1. t \in kids[p] /\ t # x
      BY <1>8, <1>11
    <3>2. p # x
      BY <1>5, <3>1, NoKids
    <3> QED BY <1>7, <1>8, <1>9, <3>1, <3>2 DEF TreeIInv, Forest, KidsOwned
  <2>5. TablesPlaced'
    <3> SUFFICES ASSUME NEW t \in Granules, state'[t] = "RTT"
                 PROVE  \/ \E p \in Granules : t \in kids'[p]
                        \/ \E h \in Granules : RootTable(h, t)'
      BY DEF TablesPlaced
    <3>1. t # x /\ state[t] = "RTT"
      BY <1>7
    <3>2. (\E p \in Granules : t \in kids[p]) \/ (\E h \in Granules : RootTable(h, t))
      BY <3>1 DEF TreeIInv, Forest, TablesPlaced
    <3> QED BY <1>8, <1>9, <3>1, <3>2
  <2>6. TablesCounted'
    BY <1>1, <1>7, <1>8 DEF TreeIInv, Forest, TablesCounted
  <2> QED BY <2>1, <2>2, <2>3, <2>4, <2>5, <2>6 DEF Forest
<1>13. TreeFrame(c)'
  <2>1. \A d \in Cpus : f'[d].pc = "rc_roots" => f'[d].obj # g
    BY <1>2, <1>3, <1>6 DEF Others
  <2>2. rd'[g] = rd[g]
    BY <1>3, <1>5, <1>7
  <2>3. /\ f'[c].pc = nf.pc /\ f'[c].obj = g /\ f'[c].root = r /\ f'[c].num = n
        /\ f'[c].i = i + 1 /\ nf.pc \in {"rd_free", "rd_roots"}
    BY <1>2, <1>6
  <2>4. CASE nf.pc = "rd_free"
    <3>1. Read(f'[c]) = {}
      BY <2>3, <2>4 DEF Read
    <3> QED BY <1>3, <2>1, <2>2, <2>3, <2>4, <3>1
            DEF TreeFrame, CloseFrame, OpenFrame, WalkFrame
  <2>5. CASE nf.pc = "rd_roots"
    <3>0. i + 1 # n
      <4>1. ~LastRoot(fr)
        BY <1>2, <2>5
      <4> QED BY <1>4, <4>1
    <3>1. i + 1 < n
      <4>1. i \in Nat /\ n \in Nat /\ i < n
        BY <1>3
      <4> QED BY <3>0, <4>1
    <3>2. Read(f'[c]) = r + (i + 1) .. r + (n - 1)
      BY <2>3, <2>5 DEF Read
    <3>3. Read(f[c]) = r + i .. r + (n - 1)
      BY <1>0, <1>1 DEF Read
    <3>4. ASSUME NEW t \in Read(f'[c])
          PROVE  state'[t] = "RTT" /\ lock'[t] = NoCpu /\ refcount'[t] = 0
      <4>1. t \in Read(f[c]) /\ t # x
        BY <1>3, <3>2, <3>3, <3>4
      <4> QED BY <1>1, <1>7, <4>1, ReadIs, ReadFacts
    <3>5. CloseFrame(c)'
      BY <1>3, <2>1, <2>2, <2>3, <2>5, <3>1, <3>4 DEF CloseFrame
    <3> QED BY <2>3, <2>5, <3>5 DEF TreeFrame, OpenFrame, WalkFrame
  <2> QED BY <2>3, <2>4, <2>5
<1>14. ASSUME NEW d \in Cpus, d # c PROVE TreeFrame(d)'
  <2>1. f'[d] = f[d] /\ TreeFrame(d)
    BY <1>6, <1>14 DEF Others, TreeIInv
  <2>2. f[d].pc \in Closing \cup {"rc_roots"} =>
          LET h == f[d].obj
          IN  state'[h] = "RD" /\ rd'[h].root = rd[h].root /\ rd'[h].num = rd[h].num
    BY <1>5, <1>7, <2>1, ClosedHolds DEF TreeFrame, OpenFrame
  <2>3. ASSUME NEW t \in Read(f[d])
        PROVE  state'[t] = "RTT" /\ lock'[t] = NoCpu /\ refcount'[t] = refcount[t]
    <3>1. t \in Granules /\ RootTable(f[d].obj, t) /\ f[d].obj \in Granules
          /\ lock[f[d].obj] = d
      BY ReadIs
    <3>2. t # x
      BY <1>3, <1>5, <1>14, <3>1 DEF TreeIInv, Forest, RootsDisjoint
    <3> QED BY <1>1, <1>7, <3>1, <3>2, ReadFacts
  <2>4. f[d].pc \in {"rd_roots", "rd_free"} =>
           \A e \in Cpus : f'[e].pc = "rc_roots" => f'[e].obj # f[d].obj
    BY <1>2, <1>6, <2>1 DEF TreeFrame, CloseFrame, Others
  <2>5. WalkFrame(d)'
    <3>1. f[d].pc \in {"wk_sl", "wk_down", "wk_tbl"} => f[d].root \in Granules
      BY HeldIs DEF Held
    <3>2. f[d].pc \in {"wk_down", "wk_tbl"} => kids'[f[d].root] = kids[f[d].root]
      BY <1>8, <3>1
    <3>3. ASSUME f[d].pc = "wk_sl"
          PROVE  \E h \in Granules : /\ RootTable(h, f[d].root)' /\ RootTable(h, f[d].buf)'
                                     /\ rd'[h].root = f[d].root
      <4>0. PICK a, b : a = f[d].root /\ b = f[d].buf
        OBVIOUS
      <4>1. PICK h \in Granules : RootTable(h, a) /\ RootTable(h, b) /\ rd[h].root = a
        BY <2>1, <3>3, <4>0 DEF TreeFrame, WalkFrame
      <4>2. h # g
        BY <1>0, <1>1, <3>3, <4>0, <4>1, NoWalkInRoots
      <4>3. state[h] = "RD" /\ a \in Granules /\ b \in Granules
        BY <4>1 DEF RootTable, TreeIInv, Forest, RootsKnown
      <4>4. a # x /\ b # x
        BY <1>3, <1>5, <4>1, <4>2, <4>3 DEF TreeIInv, Forest, RootsDisjoint
      <4>5. RootTable(h, a)' /\ RootTable(h, b)' /\ rd'[h].root = a
        BY <1>5, <1>7, <1>9, <4>1, <4>3, <4>4
      <4>6. f'[d].root = a /\ f'[d].buf = b
        BY <2>1, <4>0
      <4> QED BY <2>1, <4>5, <4>6
    <3> QED BY <2>1, <3>2, <3>3 DEF WalkFrame, TreeFrame
  <2> QED BY <2>1, <2>2, <2>3, <2>4, <2>5, FrameSame
<1> QED BY <1>12, <1>13, <1>14 DEF TreeIInv

LEMMA RealmDestroyFreeTrees ==
  ASSUME WorldIInv, TreeIInv, NEW c \in Cpus, RealmDestroyFree(c)
  PROVE  TreeIInv'
<1>0. PICK g : g = f[c].obj
  OBVIOUS
<1>1. /\ f[c].pc = "rd_free" /\ Return(c) /\ ZeroOut({g}) /\ UNCHANGED refcount
      /\ state' = [state EXCEPT ![g] = "DELEGATED"] /\ lock' = Unlocked({g})
  BY <1>0 DEF RealmDestroyFree, At
<1>2. g \in Granules /\ lock[g] = c /\ state[g] = "RD"
  BY <1>0, <1>1, HeldObj
<1>3. \A d \in Cpus : f[d].pc = "rc_roots" => f[d].obj # g
  BY <1>0, <1>1 DEF TreeIInv, TreeFrame, CloseFrame
<1>4. /\ state'[g] = "DELEGATED"
      /\ \A h \in Granules : h # g => state'[h] = state[h] /\ rd'[h] = rd[h]
      /\ \A h \in Granules : kids'[h] = kids[h]
  BY <1>1, <1>2, NoKids, TypesAre DEF ZeroOut
<1>5. Others(c) /\ f'[c].pc = "idle"
  BY <1>1, ReturnsIdle DEF WorldIInv
<1>6. \A h, t \in Granules : RootTable(h, t)' <=> RootTable(h, t)
  <2> SUFFICES ASSUME NEW h \in Granules, NEW t \in Granules
               PROVE  RootTable(h, t)' <=> RootTable(h, t)
    OBVIOUS
  <2>1. CASE h = g
    <3>1. Gone(g, t)
      BY <1>0, <1>1 DEF Gone
    <3> QED BY <1>4, <2>1, <3>1 DEF RootTable
  <2>2. CASE h # g
    <3>1. Gone(h, t)' <=> Gone(h, t)
      BY <1>0, <1>1, <1>5, <2>2 DEF Gone, Others
    <3> QED BY <1>4, <2>2, <3>1 DEF RootTable, RootsOf
  <2> QED BY <2>1, <2>2
<1>7. \A h, t \in Granules : Opened(h, t) => Opened(h, t)'
  BY <1>1, <1>5 DEF Opened, Others
<1>8. RootsKnown'
  BY <1>4 DEF TreeIInv, Forest, RootsKnown, RootsOf
<1>9. Forest'
  <2>1. \A t \in Granules : state'[t] = "RTT" <=> state[t] = "RTT"
    BY <1>2, <1>4
  <2> QED BY <1>1, <1>4, <1>6, <1>7, <1>8, <2>1, ForestSame
<1>10. TreeFrame(c)'
  BY <1>5, FrameIdle DEF Tending, Closing
<1>11. ASSUME NEW d \in Cpus, d # c PROVE TreeFrame(d)'
  <2>1. f'[d] = f[d] /\ TreeFrame(d)
    BY <1>5, <1>11 DEF Others, TreeIInv
  <2>2. ASSUME f[d].pc \in Closing \cup {"rc_roots"}
        PROVE  LET h == f[d].obj
               IN  state'[h] = "RD" /\ rd'[h].root = rd[h].root /\ rd'[h].num = rd[h].num
    <3>1. f[d].obj \in Granules /\ f[d].obj # g /\ state[f[d].obj] = "RD"
      BY <1>2, <1>3, <1>11, <2>1, <2>2, ClosedHolds DEF TreeFrame, OpenFrame
    <3> QED BY <1>4, <3>1
  <2>3. ASSUME NEW t \in Read(f[d])
        PROVE  state'[t] = "RTT" /\ lock'[t] = NoCpu /\ refcount'[t] = refcount[t]
    <3>1. t \in Granules /\ state[t] = "RTT" /\ lock[t] = NoCpu
      BY ReadIs, ReadFacts
    <3> QED BY <1>1, <1>2, <1>4, <3>1 DEF Unlocked
  <2>4. f[d].pc \in {"rd_roots", "rd_free"} =>
           \A e \in Cpus : f'[e].pc = "rc_roots" => f'[e].obj # f[d].obj
    BY <1>5, <2>1 DEF TreeFrame, CloseFrame, Others
  <2>5. WalkFrame(d)'
    <3>1. f[d].pc \in {"wk_sl", "wk_down", "wk_tbl"} => f[d].root \in Granules
      BY HeldIs DEF Held
    <3>2. f[d].pc \in {"wk_down", "wk_tbl"} => kids'[f[d].root] = kids[f[d].root]
      BY <1>4, <3>1
    <3>3. ASSUME f[d].pc = "wk_sl"
          PROVE  \E h \in Granules : /\ RootTable(h, f[d].root)' /\ RootTable(h, f[d].buf)'
                                     /\ rd'[h].root = f[d].root
      <4>0. PICK a, b : a = f[d].root /\ b = f[d].buf
        OBVIOUS
      <4>1. PICK h \in Granules : RootTable(h, a) /\ RootTable(h, b) /\ rd[h].root = a
        BY <2>1, <3>3, <4>0 DEF TreeFrame, WalkFrame
      <4>2. state[h] = "RD" /\ a \in Granules /\ b \in Granules
        BY <4>1 DEF RootTable, TreeIInv, Forest, RootsKnown
      <4>3. h # g
        BY <1>0, <1>1, <4>1 DEF RootTable, Gone
      <4>5. RootTable(h, a)' /\ RootTable(h, b)' /\ rd'[h].root = a
        BY <1>4, <1>6, <4>1, <4>2, <4>3
      <4>6. f'[d].root = a /\ f'[d].buf = b
        BY <2>1, <4>0
      <4> QED BY <2>1, <4>5, <4>6
    <3> QED BY <2>1, <3>2, <3>3 DEF WalkFrame, TreeFrame
  <2> QED BY <2>1, <2>2, <2>3, <2>4, <2>5, FrameSame
<1> QED BY <1>9, <1>10, <1>11 DEF TreeIInv


---------------------------------------------------------------------------
(* REALM_CREATE                                                            *)

(* A walk goes on when no root table and no entry below it is lost. *)
LEMMA WalkSame ==
  ASSUME WorldIInv, TreeIInv, NEW d \in Cpus, f'[d] = f[d],
         \A g, t \in Granules : RootTable(g, t) => RootTable(g, t)' /\ rd'[g].root = rd[g].root,
         \A p \in Granules : lock[p] = d => kids[p] \subseteq kids'[p]
  PROVE  WalkFrame(d)'
<1>0. PICK a, b, o : a = f[d].root /\ b = f[d].buf /\ o = f[d].obj
  OBVIOUS
<1>1. WalkFrame(d)
  BY DEF TreeIInv, TreeFrame
<1>2. f[d].pc \in {"wk_down", "wk_tbl"} => a \in Granules /\ lock[a] = d
  BY <1>0, HeldIs DEF Held
<1>3. f[d].pc = "wk_down" => b \in kids'[a]
  BY <1>0, <1>1, <1>2 DEF WalkFrame
<1>4. f[d].pc = "wk_tbl" => o \in kids'[a]
  BY <1>0, <1>1, <1>2 DEF WalkFrame
<1>5. ASSUME f[d].pc = "wk_sl"
      PROVE  \E g \in Granules : RootTable(g, a)' /\ RootTable(g, b)' /\ rd'[g].root = a
  <2>1. PICK g \in Granules : RootTable(g, a) /\ RootTable(g, b) /\ rd[g].root = a
    BY <1>0, <1>1, <1>5 DEF WalkFrame
  <2>2. a \in Granules /\ b \in Granules
    BY <2>1 DEF RootTable, TreeIInv, Forest, RootsKnown
  <2> QED BY <2>1, <2>2
<1>6. f'[d].pc = f[d].pc /\ f'[d].root = a /\ f'[d].buf = b /\ f'[d].obj = o
  BY <1>0
<1> QED BY <1>3, <1>4, <1>5, <1>6 DEF WalkFrame

LEMMA RealmCreateInitTrees ==
  ASSUME WorldIInv, TreeIInv, NEW c \in Cpus, RealmCreateInit(c)
  PROVE  TreeIInv'
<1> DEFINE fr == f[c]
           nf == [fr EXCEPT !.pc = "rc_roots", !.i = 0]
<1>0. PICK g, r, n : g = fr.obj /\ r = fr.root /\ n = fr.num
  OBVIOUS
<1>1. /\ fr.pc = "rc_init" /\ Become(c, nf) /\ UNCHANGED <<refcount, kids>>
      /\ rd' = [rd EXCEPT ![g] = [state |-> "NEW", vmid |-> fr.vmid,
                                  root |-> r, num |-> n, recs |-> 0]]
      /\ state' = [state EXCEPT ![g] = "RD"] /\ lock' = Unlocked({g})
  BY <1>0 DEF RealmCreateInit, At
<1>2. /\ nf.pc = "rc_roots" /\ nf.obj = g /\ nf.root = r /\ nf.num = n /\ nf.i = 0
  <2>1. fr \in Frame
    BY TypesAre
  <2> QED BY <1>0, <2>1 DEF Frame
<1> HIDE DEF nf
<1>3. /\ r \in Nat /\ n \in Nat /\ n > 0 /\ g \notin Roots(r, n)
      /\ \A h \in {g} \cup Roots(r, n) : h \in Granules /\ lock[h] = c /\ state[h] = "DELEGATED"
  <2>1. fr \in Frame
    BY TypesAre
  <2>2. FrameOK(fr)
    BY DEF WorldIInv, LockIInv, Locks
  <2>3. fr.i = fr.num + 1 /\ fr.num > 0 /\ fr.obj \notin Roots(fr.root, fr.num)
    BY <1>1, <2>2 DEF FrameOK
  <2>4. Held(fr) = {g} \cup Roots(r, n)
    BY <1>0, <1>1, <2>1, <2>3, RcHeldAll DEF Held
  <2>5. \A h : HeldState(fr, h) = "DELEGATED"
    BY <1>1 DEF HeldState, Walking
  <2> QED BY <1>0, <2>3, <2>4, <2>5, HeldIs, FrameNats
<1>4. Others(c) /\ f'[c] = nf
  BY <1>1, FrameIs DEF WorldIInv
<1>5. /\ state'[g] = "RD" /\ rd'[g].root = r /\ rd'[g].num = n
      /\ \A h \in Granules : h # g => state'[h] = state[h] /\ rd'[h] = rd[h]
  BY <1>1, <1>3, TypesAre
<1>6. Held(nf) = Roots(r, n)
  BY <1>2, <1>3 DEF Held, Roots
<1>7. \A d \in Cpus : d # c => f[d].obj # g \/ f[d].pc \notin {"rd_free", "rd_roots"}
  BY <1>3, HeldObj
<1>8. \A h, t \in Granules : RootTable(h, t)' <=> RootTable(h, t) \/ (h = g /\ t \in Roots(r, n))
  <2> SUFFICES ASSUME NEW h \in Granules, NEW t \in Granules
               PROVE  RootTable(h, t)' <=> RootTable(h, t) \/ (h = g /\ t \in Roots(r, n))
    OBVIOUS
  <2>1. CASE h = g
    <3>1. ~RootTable(g, t)
      BY <1>3 DEF RootTable
    <3>2. ~Gone(g, t)'
      BY <1>2, <1>4, <1>7 DEF Gone, Others
    <3>3. RootsOf(g)' = Roots(r, n)
      BY <1>5 DEF RootsOf, Roots
    <3> QED BY <1>5, <2>1, <3>1, <3>2, <3>3 DEF RootTable
  <2>2. CASE h # g
    <3>1. Gone(h, t)' <=> Gone(h, t)
      BY <1>1, <1>2, <1>4 DEF Gone, Others
    <3> QED BY <1>5, <2>2, <3>1 DEF RootTable, RootsOf
  <2> QED BY <2>1, <2>2
<1>9. \A h, t : Opened(h, t) => Opened(h, t)'
  BY <1>1, <1>4 DEF Opened, Others
<1>10. \A t \in Roots(r, n) : Opened(g, t)'
  BY <1>2, <1>4, <1>6 DEF Opened
<1>11. \A h \in Granules, t \in Roots(r, n) : ~RootTable(h, t)
  <2> SUFFICES ASSUME NEW h \in Granules, NEW t \in Roots(r, n), RootTable(h, t) PROVE FALSE
    OBVIOUS
  <2>1. t \in Granules /\ lock[t] = c /\ state[t] = "DELEGATED"
    BY <1>3
  <2>2. Opened(h, t)
    BY <2>1 DEF TreeIInv, Forest, RootsAre
  <2> QED BY <1>1, <2>1, <2>2, OpenedHolds
<1>12. Forest'
  <2>1. RootsKnown'
    <3>1. Roots(r, n) \subseteq Granules
      BY <1>3
    <3> QED BY <1>3, <1>5, <3>1 DEF TreeIInv, Forest, RootsKnown, RootsOf, Roots
  <2>2. RootsAre'
    BY <1>3, <1>5, <1>8, <1>9, <1>10 DEF TreeIInv, Forest, RootsAre
  <2>3. RootsDisjoint'
    BY <1>8, <1>11 DEF TreeIInv, Forest, RootsDisjoint
  <2>4. KidsOwned'
    <3> SUFFICES ASSUME NEW p \in Granules, NEW t \in Granules, t \in kids'[p]
                 PROVE  /\ state'[p] = "RTT" /\ state'[t] = "RTT"
                        /\ \A q \in Granules : t \in kids'[q] => q = p
                        /\ \A h \in Granules : ~RootTable(h, t)'
      BY DEF KidsOwned
    <3>1. t \in kids[p] /\ kids' = kids
      BY <1>1
    <3>2. state[p] = "RTT" /\ state[t] = "RTT"
      BY <3>1 DEF TreeIInv, Forest, KidsOwned
    <3>3. t \notin Roots(r, n) /\ t # g /\ p # g
      BY <1>3, <3>2
    <3> QED BY <1>5, <1>8, <3>1, <3>2, <3>3 DEF TreeIInv, Forest, KidsOwned
  <2>5. TablesPlaced'
    <3> SUFFICES ASSUME NEW t \in Granules, state'[t] = "RTT"
                 PROVE  \/ \E p \in Granules : t \in kids'[p]
                        \/ \E h \in Granules : RootTable(h, t)'
      BY DEF TablesPlaced
    <3>1. state[t] = "RTT"
      BY <1>5
    <3>2. (\E p \in Granules : t \in kids[p]) \/ (\E h \in Granules : RootTable(h, t))
      BY <3>1 DEF TreeIInv, Forest, TablesPlaced
    <3> QED BY <1>1, <1>8, <3>2
  <2>6. TablesCounted'
    BY <1>1, <1>5 DEF TreeIInv, Forest, TablesCounted
  <2> QED BY <2>1, <2>2, <2>3, <2>4, <2>5, <2>6 DEF Forest
<1>13. TreeFrame(c)'
  <2>1. /\ f'[c].pc = "rc_roots" /\ f'[c].obj = g /\ f'[c].root = r /\ f'[c].num = n
    BY <1>2, <1>4
  <2>2. CloseFrame(c)' /\ WalkFrame(c)'
    BY <2>1 DEF CloseFrame, WalkFrame, Closing, Read
  <2>3. OpenFrame(c)'
    BY <1>3, <1>5, <2>1 DEF OpenFrame
  <2> QED BY <2>2, <2>3 DEF TreeFrame
<1>14. ASSUME NEW d \in Cpus, d # c PROVE TreeFrame(d)'
  <2>1. f'[d] = f[d] /\ TreeFrame(d)
    BY <1>4, <1>14 DEF Others, TreeIInv
  <2>2. ASSUME f[d].pc \in Closing \cup {"rc_roots"}
        PROVE  LET h == f[d].obj
               IN  /\ state'[h] = "RD" /\ rd'[h].root = rd[h].root /\ rd'[h].num = rd[h].num
                   /\ h # g
    <3>1. f[d].obj \in Granules /\ state[f[d].obj] = "RD"
      BY <2>1, <2>2, ClosedHolds DEF TreeFrame, OpenFrame
    <3> QED BY <1>3, <1>5, <3>1
  <2>3. ASSUME NEW t \in Read(f[d])
        PROVE  state'[t] = "RTT" /\ lock'[t] = NoCpu /\ refcount'[t] = refcount[t]
    <3>1. t \in Granules /\ state[t] = "RTT" /\ lock[t] = NoCpu
      BY ReadIs, ReadFacts
    <3> QED BY <1>1, <1>3, <1>5, <3>1 DEF Unlocked
  <2>4. f[d].pc \in {"rd_roots", "rd_free"} =>
           \A e \in Cpus : f'[e].pc = "rc_roots" => f'[e].obj # f[d].obj
    BY <1>2, <1>4, <2>1, <2>2 DEF TreeFrame, CloseFrame, Others, Closing
  <2>5. WalkFrame(d)'
    <3>1. \A h, t \in Granules : RootTable(h, t) => RootTable(h, t)' /\ rd'[h].root = rd[h].root
      BY <1>3, <1>5, <1>8 DEF RootTable
    <3> QED BY <1>1, <2>1, <3>1, WalkSame
  <2> QED BY <2>1, <2>2, <2>3, <2>4, <2>5, FrameSame
<1> QED BY <1>12, <1>13, <1>14 DEF TreeIInv


LEMMA RealmCreateRootTrees ==
  ASSUME WorldIInv, RecIInv, TreeIInv, NEW c \in Cpus, RealmCreateRoot(c)
  PROVE  TreeIInv'
<1> DEFINE fr == f[c]
           k  == fr.i + 1
           up == [fr EXCEPT !.i = k]
           nf == IF k = fr.num THEN IdleFrame ELSE up
<1>0. PICK g, r, n, i, x : /\ g = fr.obj /\ r = fr.root /\ n = fr.num /\ i = fr.i
                           /\ x = fr.root + fr.i
  OBVIOUS
<1>1. /\ fr.pc = "rc_roots" /\ Become(c, nf) /\ UNCHANGED <<refcount, rd, kids>>
      /\ state' = [state EXCEPT ![x] = "RTT"] /\ lock' = Unlocked({x})
  BY <1>0 DEF RealmCreateRoot, At
<1>2. /\ IdleFrame.pc = "idle" /\ up.pc = "rc_roots" /\ up.obj = g /\ up.root = r
      /\ up.num = n /\ up.i = i + 1
  <2>1. fr \in Frame /\ k = i + 1
    BY <1>0, TypesAre
  <2> HIDE DEF k
  <2> QED BY <1>0, <1>1, <2>1 DEF Frame, IdleFrame
<1>3. /\ r \in Nat /\ n \in Nat /\ i \in Nat /\ i < n /\ x = r + i
      /\ g \in Granules /\ state[g] = "RD" /\ rd[g].root = r /\ rd[g].num = n
  <2>1. FrameOK(fr) /\ OpenFrame(c)
    BY DEF WorldIInv, LockIInv, Locks, TreeIInv, TreeFrame
  <2> QED BY <1>0, <1>1, <2>1, FrameNats DEF FrameOK, OpenFrame
<1>4. /\ Held(fr) = r + i .. r + (n - 1)
      /\ x \in Granules /\ lock[x] = c /\ state[x] = "DELEGATED"
  <2>1. Held(fr) = r + i .. r + (n - 1)
    BY <1>0, <1>1 DEF Held
  <2>2. x \in Held(fr)
    BY <1>3, <2>1
  <2>3. HeldState(fr, x) = "DELEGATED"
    BY <1>1 DEF HeldState, Walking
  <2> QED BY <2>1, <2>2, <2>3, HeldIs
<1> HIDE DEF up
<1>5. Others(c) /\ f'[c] = nf
  BY <1>1, FrameIs DEF WorldIInv
<1>6. /\ state'[x] = "RTT"
      /\ \A h \in Granules : h # x => state'[h] = state[h]
      /\ \A h \in Granules : state'[h] = "RD" <=> state[h] = "RD"
  BY <1>1, <1>4, TypesAre
<1>7. f'[c].pc \in {"idle", "rc_roots"}
  BY <1>2, <1>5
<1>8. \A h, t \in Granules : RootTable(h, t)' <=> RootTable(h, t)
  <2> SUFFICES ASSUME NEW h \in Granules, NEW t \in Granules
               PROVE  RootTable(h, t)' <=> RootTable(h, t)
    OBVIOUS
  <2>1. Gone(h, t)' <=> Gone(h, t)
    BY <1>1, <1>5, <1>7 DEF Gone, Others
  <2> QED BY <1>1, <1>6, <2>1 DEF RootTable, RootsOf
<1>9. \A h, t \in Granules : Opened(h, t) => Opened(h, t)' \/ t = x
  <2> SUFFICES ASSUME NEW h \in Granules, NEW t \in Granules, Opened(h, t), t # x
               PROVE  Opened(h, t)'
    OBVIOUS
  <2>1. PICK d \in Cpus : f[d].pc = "rc_roots" /\ f[d].obj = h /\ t \in Held(f[d])
    BY DEF Opened
  <2>2. CASE d # c
    BY <1>5, <2>1, <2>2 DEF Opened, Others
  <2>3. CASE d = c
    <3>1. t \in r + i .. r + (n - 1) /\ t # r + i
      BY <1>3, <1>4, <2>1, <2>3
    <3>2. i + 1 # n
      <4>1. r \in Nat /\ n \in Nat /\ i \in Nat
        BY <1>3
      <4> QED BY <3>1, <4>1
    <3>3. f'[c] = up
      BY <1>0, <1>5, <3>2
    <3>4. Held(up) = r + (i + 1) .. r + (n - 1)
      BY <1>2 DEF Held
    <3>5. t \in Held(up)
      <4>1. r \in Nat /\ n \in Nat /\ i \in Nat
        BY <1>3
      <4> QED BY <3>1, <3>4, <4>1
    <3>6. h = g
      BY <1>0, <2>1, <2>3
    <3> QED BY <1>2, <3>3, <3>5, <3>6 DEF Opened
  <2> QED BY <2>2, <2>3
<1>10. RootTable(g, x)
  <2>1. x \in RootsOf(g)
    BY <1>3 DEF RootsOf, Roots
  <2>2. \A d \in Cpus : f[d].pc \in {"rd_roots", "rd_free"} => f[d].obj # g
    BY <1>0, <1>1 DEF TreeIInv, TreeFrame, CloseFrame
  <2>3. ~Gone(g, x)
    BY <2>2 DEF Gone
  <2> QED BY <1>3, <2>1, <2>3 DEF RootTable
<1>11. refcount[x] = 0 /\ kids[x] = {}
  BY <1>4, Uncounted, NoKids
<1>12. Forest'
  <2>1. RootsKnown'
    BY <1>1, <1>6 DEF TreeIInv, Forest, RootsKnown, RootsOf
  <2>2. RootsAre'
    BY <1>6, <1>8, <1>9 DEF TreeIInv, Forest, RootsAre
  <2>3. RootsDisjoint'
    BY <1>8 DEF TreeIInv, Forest, RootsDisjoint
  <2>4. KidsOwned'
    <3> SUFFICES ASSUME NEW p \in Granules, NEW t \in Granules, t \in kids'[p]
                 PROVE  /\ state'[p] = "RTT" /\ state'[t] = "RTT"
                        /\ \A q \in Granules : t \in kids'[q] => q = p
                        /\ \A h \in Granules : ~RootTable(h, t)'
      BY DEF KidsOwned
    <3>1. t \in kids[p] /\ kids' = kids
      BY <1>1
    <3> QED BY <1>6, <1>8, <3>1 DEF TreeIInv, Forest, KidsOwned
  <2>5. TablesPlaced'
    <3> SUFFICES ASSUME NEW t \in Granules, state'[t] = "RTT"
                 PROVE  \/ \E p \in Granules : t \in kids'[p]
                        \/ \E h \in Granules : RootTable(h, t)'
      BY DEF TablesPlaced
    <3>1. CASE t = x
      BY <1>3, <1>8, <1>10, <3>1
    <3>2. CASE t # x
      <4>1. state[t] = "RTT"
        BY <1>6, <3>2
      <4>2. (\E p \in Granules : t \in kids[p]) \/ (\E h \in Granules : RootTable(h, t))
        BY <4>1 DEF TreeIInv, Forest, TablesPlaced
      <4> QED BY <1>1, <1>8, <4>2
    <3> QED BY <3>1, <3>2
  <2>6. TablesCounted'
    <3>1. Cardinality(kids[x]) = 0
      BY <1>11, FS_EmptySet
    <3> QED BY <1>1, <1>6, <1>11, <3>1 DEF TreeIInv, Forest, TablesCounted
  <2> QED BY <2>1, <2>2, <2>3, <2>4, <2>5, <2>6 DEF Forest
<1>13. TreeFrame(c)'
  <2>1. CASE f'[c] = IdleFrame
    BY <1>2, <2>1, FrameIdle DEF Tending, Closing
  <2>2. CASE f'[c] = up
    <3>1. /\ f'[c].pc = "rc_roots" /\ f'[c].obj = g /\ f'[c].root = r /\ f'[c].num = n
      BY <1>2, <2>2
    <3>2. CloseFrame(c)' /\ WalkFrame(c)'
      BY <3>1 DEF CloseFrame, WalkFrame, Closing, Read
    <3>3. OpenFrame(c)'
      BY <1>1, <1>3, <1>6, <3>1 DEF OpenFrame
    <3> QED BY <3>2, <3>3 DEF TreeFrame
  <2> QED BY <1>5, <2>1, <2>2
<1>14. ASSUME NEW d \in Cpus, d # c PROVE TreeFrame(d)'
  <2>1. f'[d] = f[d] /\ TreeFrame(d)
    BY <1>5, <1>14 DEF Others, TreeIInv
  <2>2. ASSUME f[d].pc \in Closing \cup {"rc_roots"}
        PROVE  LET h == f[d].obj
               IN  state'[h] = "RD" /\ rd'[h].root = rd[h].root /\ rd'[h].num = rd[h].num
    <3>1. f[d].obj \in Granules /\ state[f[d].obj] = "RD"
      BY <2>1, <2>2, ClosedHolds DEF TreeFrame, OpenFrame
    <3> QED BY <1>1, <1>6, <3>1
  <2>3. ASSUME NEW t \in Read(f[d])
        PROVE  state'[t] = "RTT" /\ lock'[t] = NoCpu /\ refcount'[t] = refcount[t]
    <3>1. t \in Granules /\ state[t] = "RTT" /\ lock[t] = NoCpu
      BY ReadIs, ReadFacts
    <3> QED BY <1>1, <1>6, <3>1 DEF Unlocked
  <2>4. f[d].pc \in {"rd_roots", "rd_free"} =>
           \A e \in Cpus : f'[e].pc = "rc_roots" => f'[e].obj # f[d].obj
    <3>1. \A e \in Cpus : f'[e].pc = "rc_roots" => f[e].pc = "rc_roots" /\ f'[e].obj = f[e].obj
      BY <1>0, <1>1, <1>2, <1>5 DEF Others
    <3> QED BY <2>1, <3>1 DEF TreeFrame, CloseFrame
  <2>5. WalkFrame(d)'
    BY <1>1, <1>8, <2>1, WalkSame
  <2> QED BY <2>1, <2>2, <2>3, <2>4, <2>5, FrameSame
<1> QED BY <1>12, <1>13, <1>14 DEF TreeIInv

---------------------------------------------------------------------------
(* The walks of RTT_CREATE and RTT_DESTROY                                 *)

(* A walk arrives at a table that no REALM_DESTROY has read the count of. *)
LEMMA WalkTrees ==
  ASSUME WorldIInv, TreeIInv, NEW c \in Cpus, Others(c), f'[c].pc \in Walking,
         f[c].pc \notin Owning, UNCHANGED <<state, refcount, rd, kids>>, WalkFrame(c)',
         NEW q \in Granules, NEW h, lock' = [Unlocked({h}) EXCEPT ![q] = c],
         \A d \in Cpus : q \notin Read(f[d])
  PROVE  TreeIInv'
<1>1. TreeFrame(c)'
  BY DEF TreeFrame, CloseFrame, OpenFrame, Walking, Closing, Read
<1>2. ASSUME NEW d \in Cpus, NEW t \in Read(f[d])
      PROVE  lock'[t] = NoCpu
  <2>1. t \in Granules /\ lock[t] = NoCpu /\ t # q
    BY <1>2, ReadIs, ReadFacts
  <2> QED BY <2>1 DEF Unlocked
<1>3. TreesKept
  BY TreesUnchanged
<1>4. f'[c].pc \notin Owning
  BY DEF Owning, Walking
<1> QED BY <1>1, <1>2, <1>3, <1>4, KeepTrees DEF Others

LEMMA RttLockRootTrees ==
  ASSUME WorldIInv, TreeIInv, NEW c \in Cpus, RttLockRoot(c)
  PROVE  TreeIInv'
<1>0. PICK g, q, n : g = f[c].rd /\ q = rd[g].root /\ n = rd[g].num
  OBVIOUS
<1>1. /\ f[c].pc = "wk_root" /\ q \in Granules /\ lock' = [Unlocked({g}) EXCEPT ![q] = c]
      /\ UNCHANGED <<state, refcount, rd, kids>>
  BY <1>0 DEF RttLockRoot, At, CanLock
<1>2. /\ Others(c) /\ f'[c].pc \in Walking /\ f'[c].root = q
      /\ f'[c].pc = "wk_sl" => \E k \in 1 .. n - 1 : f'[c].buf = q + k
      /\ f'[c].pc = "wk_down" => f'[c].buf \in kids[q]
      /\ f'[c].pc = "wk_tbl"  => f'[c].obj \in kids[q]
  BY <1>0, RootArrives DEF WorldIInv
<1>3. g \in Granules /\ lock[g] = c /\ state[g] = "RD"
  <2>1. g \in Held(f[c])
    BY <1>0, <1>1 DEF Held
  <2>2. HeldState(f[c], g) = "RD"
    BY <1>0, <1>1 DEF HeldState, Walking
  <2> QED BY <2>1, <2>2, HeldIs
<1>4. \A t : ~Gone(g, t)
  BY <1>1, <1>3, NotGone
<1>5. q \in Nat /\ n \in Nat /\ n > 0 /\ RootsOf(g) = q .. q + (n - 1)
  BY <1>0, <1>3, RootsAreNat DEF TreeIInv, Forest, RootsKnown, RootsOf, Roots
<1>6. \A t \in q .. q + (n - 1) : t \in Granules /\ RootTable(g, t)
  BY <1>3, <1>4, <1>5 DEF RootTable, TreeIInv, Forest, RootsKnown
<1>7. \A h, t \in Granules : RootTable(h, t)' <=> RootTable(h, t)
  <2>1. TreesKept
    BY <1>1, TreesUnchanged
  <2>2. f[c].pc \notin Owning /\ f'[c].pc \notin Owning
    BY <1>1, <1>2 DEF Owning, Walking
  <2> QED BY <1>2, <2>1, <2>2, RootsSame DEF Others
<1>8. WalkFrame(c)'
  <2>1. ASSUME f'[c].pc = "wk_sl"
        PROVE  RootTable(g, q)' /\ rd'[g].root = q /\ \E b : f'[c].buf = b /\ RootTable(g, b)'
    <3>1. PICK k \in 1 .. n - 1 : f'[c].buf = q + k
      BY <1>2, <2>1
    <3>2. PICK b : b = q + k
      OBVIOUS
    <3>3. q \in q .. q + (n - 1) /\ b \in q .. q + (n - 1)
      BY <1>5, <3>1, <3>2
    <3>4. RootTable(g, q)' /\ RootTable(g, b)'
      BY <1>3, <1>6, <1>7, <3>3
    <3>5. f'[c].buf = b /\ rd'[g].root = q
      BY <1>0, <1>1, <3>1, <3>2
    <3> QED BY <3>4, <3>5
  <2>2. f'[c].pc = "wk_down" => f'[c].buf \in kids'[q]
    BY <1>1, <1>2
  <2>3. f'[c].pc = "wk_tbl" => f'[c].obj \in kids'[q]
    BY <1>1, <1>2
  <2>4. f'[c].root = q
    BY <1>2
  <2> QED BY <1>3, <2>1, <2>2, <2>3, <2>4 DEF WalkFrame
<1>9. ASSUME NEW d \in Cpus, q \in Read(f[d])
      PROVE  FALSE
  <2>1. /\ f[d].obj \in Granules /\ lock[f[d].obj] = d /\ RootTable(f[d].obj, q)
        /\ f[d].pc \in {"rd_count", "rd_roots"}
    BY <1>9, ReadIs
  <2>2. RootTable(g, q)
    BY <1>5, <1>6
  <2>3. f[d].obj = g
    BY <1>1, <1>3, <2>1, <2>2 DEF TreeIInv, Forest, RootsDisjoint
  <2> QED BY <1>1, <1>3, <2>1, <2>3
<1>10. f[c].pc \notin Owning
  BY <1>1 DEF Owning
<1> QED BY <1>1, <1>2, <1>8, <1>9, <1>10, WalkTrees

LEMMA RttWalkTrees ==
  ASSUME WorldIInv, TreeIInv, NEW c \in Cpus, RttWalk(c)
  PROVE  TreeIInv'
<1>0. PICK r, q : r = f[c].root /\ q = f[c].buf
  OBVIOUS
<1>1. /\ f[c].pc \in {"wk_sl", "wk_down"} /\ q \in Granules
      /\ lock' = [Unlocked({r}) EXCEPT ![q] = c] /\ UNCHANGED <<state, refcount, rd, kids>>
  BY <1>0 DEF RttWalk, CanLock
<1>2. /\ Others(c) /\ f'[c].pc \in Walking \ {"wk_sl"} /\ f'[c].root = q
      /\ f'[c].pc = "wk_down" => f'[c].buf \in kids[q]
      /\ f'[c].pc = "wk_tbl"  => f'[c].obj \in kids[q]
  BY <1>0, WalkArrives DEF WorldIInv
<1>3. WalkFrame(c)'
  BY <1>1, <1>2 DEF WalkFrame
<1>4. r \in Granules /\ lock[r] = c
  <2>1. r \in Held(f[c])
    BY <1>0, <1>1 DEF Held
  <2> QED BY <2>1, HeldIs
<1>5. WalkFrame(c)
  BY DEF TreeIInv, TreeFrame
<1>6. ASSUME NEW d \in Cpus, q \in Read(f[d])
      PROVE  FALSE
  <2>1. /\ f[d].obj \in Granules /\ RootTable(f[d].obj, q)
        /\ f[d].pc \in {"rd_count", "rd_roots"}
    BY <1>6, ReadIs
  <2>2. CASE f[c].pc = "wk_down"
    <3>1. q \in kids[r]
      BY <1>0, <1>5, <2>2 DEF WalkFrame
    <3> QED BY <1>1, <1>4, <2>1, <3>1 DEF TreeIInv, Forest, KidsOwned
  <2>3. CASE f[c].pc = "wk_sl"
    <3>1. PICK h \in Granules : RootTable(h, r) /\ RootTable(h, q) /\ rd[h].root = r
      BY <1>0, <1>5, <2>3 DEF WalkFrame
    <3>2. f[d].obj = h
      BY <1>1, <2>1, <3>1 DEF TreeIInv, Forest, RootsDisjoint
    <3>3. f[d].pc = "rd_count"
      BY <1>0, <2>1, <2>3, <3>1, <3>2, NoWalkInRoots
    <3>4. f[d].root = r
      BY <3>1, <3>2, <3>3 DEF TreeIInv, TreeFrame, CloseFrame, Closing
    <3>5. r \in Nat /\ f[d].i \in Nat /\ Read(f[d]) = r .. r + (f[d].i - 1)
      BY <3>3, <3>4, FrameNats DEF Read
    <3>6. r \in Read(f[d])
      BY <1>6, <3>5
    <3> QED BY <1>4, <3>6, ReadFacts, GranuleAssumption
  <2> QED BY <1>1, <2>2, <2>3
<1>7. f[c].pc \notin Owning
  BY <1>1 DEF Owning
<1> QED BY <1>1, <1>2, <1>3, <1>6, <1>7, WalkTrees


LEMMA RttCreateEndTrees ==
  ASSUME WorldIInv, RecIInv, TreeIInv, NEW c \in Cpus, RttCreateEnd(c)
  PROVE  TreeIInv'
<1>0. PICK p, t : p = f[c].root /\ t = f[c].obj
  OBVIOUS
<1>1. /\ f[c].pc = "wk_end" /\ Return(c) /\ UNCHANGED rd
      /\ kids' = [kids EXCEPT ![p] = kids[p] \cup {t}]
      /\ refcount' = [refcount EXCEPT ![p] = refcount[p] + 1]
      /\ state' = [state EXCEPT ![t] = "RTT"] /\ lock' = Unlocked({p, t})
  BY <1>0 DEF RttCreateEnd, At
<1>2. /\ p \in Granules /\ lock[p] = c /\ state[p] = "RTT"
      /\ t \in Granules /\ lock[t] = c /\ state[t] = "DELEGATED"
  <2>1. f[c].op = "create" /\ t # p
    BY <1>0, <1>1 DEF WorldIInv, LockIInv, Locks, FrameOK
  <2>2. p \in Held(f[c]) /\ t \in Held(f[c])
    BY <1>0, <1>1, <2>1 DEF Held, WalkHolds
  <2>3. HeldState(f[c], p) = "RTT" /\ HeldState(f[c], t) = "DELEGATED"
    BY <1>0, <1>1, <2>1 DEF HeldState, Walking
  <2> QED BY <2>2, <2>3, HeldIs
<1>3. Others(c) /\ f'[c].pc = "idle"
  BY <1>1, ReturnsIdle DEF WorldIInv
<1>4. /\ state'[t] = "RTT"
      /\ \A h \in Granules : h # t => state'[h] = state[h]
      /\ kids'[p] = kids[p] \cup {t} /\ refcount'[p] = refcount[p] + 1
      /\ \A h \in Granules : h # p => kids'[h] = kids[h] /\ refcount'[h] = refcount[h]
  BY <1>1, <1>2, TypesAre
<1>5. \A h, s \in Granules : RootTable(h, s)' <=> RootTable(h, s)
  <2> SUFFICES ASSUME NEW h \in Granules, NEW s \in Granules
               PROVE  RootTable(h, s)' <=> RootTable(h, s)
    OBVIOUS
  <2>1. Gone(h, s)' <=> Gone(h, s)
    BY <1>1, <1>3 DEF Gone, Others
  <2> QED BY <1>1, <1>2, <1>4, <2>1 DEF RootTable, RootsOf
<1>6. \A h, s : Opened(h, s) => Opened(h, s)'
  BY <1>1, <1>3 DEF Opened, Others
<1>7. kids[t] = {} /\ refcount[t] = 0 /\ p # t
  BY <1>2, NoKids, Uncounted
<1>8. /\ \A h \in Granules : ~RootTable(h, t)
      /\ \A q \in Granules : t \notin kids[q]
  <2>1. ASSUME NEW h \in Granules, RootTable(h, t) PROVE FALSE
    <3>1. Opened(h, t)
      BY <1>2, <2>1 DEF TreeIInv, Forest, RootsAre
    <3> QED BY <1>1, <1>2, <3>1, OpenedHolds
  <2> QED BY <1>2, <2>1 DEF TreeIInv, Forest, KidsOwned
<1>9. Forest'
  <2>1. RootsKnown'
    BY <1>1, <1>4 DEF TreeIInv, Forest, RootsKnown, RootsOf
  <2>2. RootsAre'
    BY <1>4, <1>5, <1>6 DEF TreeIInv, Forest, RootsAre
  <2>3. RootsDisjoint'
    BY <1>5 DEF TreeIInv, Forest, RootsDisjoint
  <2>4. KidsOwned'
    <3> SUFFICES ASSUME NEW q \in Granules, NEW s \in Granules, s \in kids'[q]
                 PROVE  /\ state'[q] = "RTT" /\ state'[s] = "RTT"
                        /\ \A o \in Granules : s \in kids'[o] => o = q
                        /\ \A h \in Granules : ~RootTable(h, s)'
      BY DEF KidsOwned
    <3>1. CASE s = t
      BY <1>2, <1>4, <1>5, <1>7, <1>8, <3>1
    <3>2. CASE s # t
      <4>1. \A o \in Granules : s \in kids'[o] => s \in kids[o]
        BY <1>4, <3>2
      <4> QED BY <1>4, <1>5, <4>1 DEF TreeIInv, Forest, KidsOwned
    <3> QED BY <3>1, <3>2
  <2>5. TablesPlaced'
    <3> SUFFICES ASSUME NEW s \in Granules, state'[s] = "RTT"
                 PROVE  \/ \E q \in Granules : s \in kids'[q]
                        \/ \E h \in Granules : RootTable(h, s)'
      BY DEF TablesPlaced
    <3>1. CASE s = t
      BY <1>2, <1>4, <3>1
    <3>2. CASE s # t
      <4>1. state[s] = "RTT"
        BY <1>4, <3>2
      <4>2. (\E q \in Granules : s \in kids[q]) \/ (\E h \in Granules : RootTable(h, s))
        BY <4>1 DEF TreeIInv, Forest, TablesPlaced
      <4>3. \A q \in Granules : kids[q] \subseteq kids'[q]
        BY <1>4
      <4> QED BY <1>5, <4>2, <4>3
    <3> QED BY <3>1, <3>2
  <2>6. TablesCounted'
    <3>1. refcount'[t] = Cardinality(kids'[t])
      BY <1>2, <1>4, <1>7, FS_EmptySet
    <3>2. refcount'[p] = Cardinality(kids'[p])
      <4>1. IsFiniteSet(kids[p])
        BY <1>2, TypesAre, FS_Subset, GranulesFinite
      <4>2. Cardinality(kids[p] \cup {t}) = Cardinality(kids[p]) + 1
        BY <1>2, <1>8, <4>1, FS_AddElement
      <4> QED BY <1>2, <1>4, <4>2 DEF TreeIInv, Forest, TablesCounted
    <3> QED BY <1>4, <3>1, <3>2 DEF TreeIInv, Forest, TablesCounted
  <2> QED BY <2>1, <2>2, <2>3, <2>4, <2>5, <2>6 DEF Forest
<1>10. TreeFrame(c)'
  BY <1>3, FrameIdle DEF Tending, Closing
<1>11. ASSUME NEW d \in Cpus, d # c PROVE TreeFrame(d)'
  <2>1. f'[d] = f[d] /\ TreeFrame(d)
    BY <1>3, <1>11 DEF Others, TreeIInv
  <2>2. ASSUME f[d].pc \in Closing \cup {"rc_roots"}
        PROVE  LET h == f[d].obj
               IN  state'[h] = "RD" /\ rd'[h].root = rd[h].root /\ rd'[h].num = rd[h].num
    <3>1. f[d].obj \in Granules /\ state[f[d].obj] = "RD"
      BY <2>1, <2>2, ClosedHolds DEF TreeFrame, OpenFrame
    <3> QED BY <1>1, <1>2, <1>4, <3>1
  <2>3. ASSUME NEW s \in Read(f[d])
        PROVE  state'[s] = "RTT" /\ lock'[s] = NoCpu /\ refcount'[s] = refcount[s]
    <3>1. s \in Granules /\ state[s] = "RTT" /\ lock[s] = NoCpu
      BY ReadIs, ReadFacts
    <3>2. s # p
      BY <1>2, <3>1, GranuleAssumption
    <3> QED BY <1>1, <1>4, <3>1, <3>2 DEF Unlocked
  <2>4. f[d].pc \in {"rd_roots", "rd_free"} =>
           \A e \in Cpus : f'[e].pc = "rc_roots" => f'[e].obj # f[d].obj
    BY <1>3, <2>1 DEF TreeFrame, CloseFrame, Others
  <2>5. WalkFrame(d)'
    <3>1. \A q \in Granules : lock[q] = d => kids[q] \subseteq kids'[q]
      BY <1>4
    <3> QED BY <1>1, <1>5, <2>1, <3>1, WalkSame
  <2> QED BY <2>1, <2>2, <2>3, <2>4, <2>5, FrameSame
<1> QED BY <1>9, <1>10, <1>11 DEF TreeIInv

LEMMA RttDestroyEndTrees ==
  ASSUME WorldIInv, TreeIInv, NEW c \in Cpus, RttDestroyEnd(c)
  PROVE  TreeIInv'
<1>0. PICK p, t : p = f[c].root /\ t = f[c].obj
  OBVIOUS
<1>1. /\ f[c].pc = "wk_tbl" /\ Return(c) /\ UNCHANGED rd
      /\ kids' = [kids EXCEPT ![p] = kids[p] \ {t}, ![t] = {}]
      /\ refcount' = [refcount EXCEPT ![p] = refcount[p] - 1]
      /\ state' = [state EXCEPT ![t] = "DELEGATED"] /\ lock' = Unlocked({p})
      /\ t \in Granules /\ lock[t] = NoCpu /\ state[t] = "RTT" /\ refcount[t] = 0
  BY <1>0 DEF RttDestroyEnd, At, CanLock, Free, TableUnused, ParentPut
<1>2. p \in Granules /\ lock[p] = c /\ state[p] = "RTT" /\ p # t
  <2>1. p \in Held(f[c]) /\ HeldState(f[c], p) = "RTT"
    BY <1>0, <1>1 DEF Held, HeldState, Walking
  <2> QED BY <1>1, <2>1, HeldIs, GranuleAssumption
<1>3. Others(c) /\ f'[c].pc = "idle"
  BY <1>1, ReturnsIdle DEF WorldIInv
<1>4. /\ state'[t] = "DELEGATED"
      /\ \A h \in Granules : h # t => state'[h] = state[h]
      /\ kids'[p] = kids[p] \ {t} /\ refcount'[p] = refcount[p] - 1 /\ kids'[t] = {}
      /\ \A h \in Granules : h # p => refcount'[h] = refcount[h]
      /\ \A h \in Granules : h # p /\ h # t => kids'[h] = kids[h]
  BY <1>1, <1>2, TypesAre
<1>5. \A h, s \in Granules : RootTable(h, s)' <=> RootTable(h, s)
  <2> SUFFICES ASSUME NEW h \in Granules, NEW s \in Granules
               PROVE  RootTable(h, s)' <=> RootTable(h, s)
    OBVIOUS
  <2>1. Gone(h, s)' <=> Gone(h, s)
    BY <1>1, <1>3 DEF Gone, Others
  <2> QED BY <1>1, <1>4, <2>1 DEF RootTable, RootsOf
<1>6. \A h, s : Opened(h, s) => Opened(h, s)'
  BY <1>1, <1>3 DEF Opened, Others
<1>7. t \in kids[p] /\ kids[t] = {}
  BY <1>0, <1>1, NoKids DEF TreeIInv, TreeFrame, WalkFrame
<1>8. /\ \A h \in Granules : ~RootTable(h, t)
      /\ \A q \in Granules : t \in kids[q] => q = p
  BY <1>1, <1>2, <1>7 DEF TreeIInv, Forest, KidsOwned
<1>9. \A q, s \in Granules : s \in kids'[q] <=> s \in kids[q] /\ s # t
  BY <1>2, <1>4, <1>7, <1>8
<1>10. Forest'
  <2>1. RootsKnown'
    BY <1>1, <1>4 DEF TreeIInv, Forest, RootsKnown, RootsOf
  <2>2. RootsAre'
    BY <1>4, <1>5, <1>6, <1>8 DEF TreeIInv, Forest, RootsAre
  <2>3. RootsDisjoint'
    BY <1>5 DEF TreeIInv, Forest, RootsDisjoint
  <2>4. KidsOwned'
    <3> SUFFICES ASSUME NEW q \in Granules, NEW s \in Granules, s \in kids'[q]
                 PROVE  /\ state'[q] = "RTT" /\ state'[s] = "RTT"
                        /\ \A o \in Granules : s \in kids'[o] => o = q
                        /\ \A h \in Granules : ~RootTable(h, s)'
      BY DEF KidsOwned
    <3>1. s # t /\ q # t /\ s \in kids[q]
      BY <1>7, <1>9
    <3>2. \A o \in Granules : s \in kids'[o] => s \in kids[o]
      BY <1>9
    <3> QED BY <1>4, <1>5, <3>1, <3>2 DEF TreeIInv, Forest, KidsOwned
  <2>5. TablesPlaced'
    <3> SUFFICES ASSUME NEW s \in Granules, state'[s] = "RTT"
                 PROVE  \/ \E q \in Granules : s \in kids'[q]
                        \/ \E h \in Granules : RootTable(h, s)'
      BY DEF TablesPlaced
    <3>1. s # t /\ state[s] = "RTT"
      BY <1>4
    <3>2. (\E q \in Granules : s \in kids[q]) \/ (\E h \in Granules : RootTable(h, s))
      BY <3>1 DEF TreeIInv, Forest, TablesPlaced
    <3> QED BY <1>5, <1>9, <3>1, <3>2
  <2>6. TablesCounted'
    <3>1. refcount'[p] = Cardinality(kids'[p])
      <4>1. IsFiniteSet(kids[p])
        BY <1>2, TypesAre, FS_Subset, GranulesFinite
      <4>2. Cardinality(kids[p] \ {t}) = Cardinality(kids[p]) - 1
        BY <1>7, <4>1, FS_RemoveElement
      <4> QED BY <1>2, <1>4, <4>2 DEF TreeIInv, Forest, TablesCounted
    <3> QED BY <1>4, <3>1 DEF TreeIInv, Forest, TablesCounted
  <2> QED BY <2>1, <2>2, <2>3, <2>4, <2>5, <2>6 DEF Forest
<1>11. TreeFrame(c)'
  BY <1>3, FrameIdle DEF Tending, Closing
<1>12. ASSUME NEW d \in Cpus, d # c PROVE TreeFrame(d)'
  <2>1. f'[d] = f[d] /\ TreeFrame(d)
    BY <1>3, <1>12 DEF Others, TreeIInv
  <2>2. ASSUME f[d].pc \in Closing \cup {"rc_roots"}
        PROVE  LET h == f[d].obj
               IN  state'[h] = "RD" /\ rd'[h].root = rd[h].root /\ rd'[h].num = rd[h].num
    <3>1. f[d].obj \in Granules /\ state[f[d].obj] = "RD"
      BY <2>1, <2>2, ClosedHolds DEF TreeFrame, OpenFrame
    <3> QED BY <1>1, <1>4, <3>1
  <2>3. ASSUME NEW s \in Read(f[d])
        PROVE  state'[s] = "RTT" /\ lock'[s] = NoCpu /\ refcount'[s] = refcount[s]
    <3>1. /\ s \in Granules /\ state[s] = "RTT" /\ lock[s] = NoCpu
          /\ f[d].obj \in Granules /\ RootTable(f[d].obj, s)
      BY ReadIs, ReadFacts
    <3>2. s # p /\ s # t
      BY <1>2, <1>8, <3>1, GranuleAssumption
    <3> QED BY <1>1, <1>4, <3>1, <3>2 DEF Unlocked
  <2>4. f[d].pc \in {"rd_roots", "rd_free"} =>
           \A e \in Cpus : f'[e].pc = "rc_roots" => f'[e].obj # f[d].obj
    BY <1>3, <2>1 DEF TreeFrame, CloseFrame, Others
  <2>5. WalkFrame(d)'
    <3>1. \A q \in Granules : lock[q] = d => kids[q] \subseteq kids'[q]
      BY <1>2, <1>4, <1>7, <1>12
    <3> QED BY <1>1, <1>5, <2>1, <3>1, WalkSame
  <2> QED BY <2>1, <2>2, <2>3, <2>4, <2>5, FrameSame
<1> QED BY <1>10, <1>11, <1>12 DEF TreeIInv


---------------------------------------------------------------------------
(* The invariant                                                           *)

LEMMA TreeInit == Init => TreeIInv
<1> SUFFICES ASSUME Init PROVE TreeIInv
  OBVIOUS
<1>1. \A g \in Granules : state[g] \notin {"RD", "RTT"} /\ kids[g] = {}
  BY DEF Init
<1>2. \A c \in Cpus : f[c].pc = "idle"
  BY DEF Init, IdleFrame
<1>3. \A g, t \in Granules : ~RootTable(g, t)
  BY <1>1 DEF RootTable
<1>4. Forest
  BY <1>1, <1>3 DEF Forest, RootsKnown, RootsAre, RootsDisjoint, KidsOwned, TablesPlaced,
                    TablesCounted
<1>5. \A c \in Cpus : TreeFrame(c)
  BY <1>2 DEF TreeFrame, CloseFrame, OpenFrame, WalkFrame, Closing, Read
<1> QED BY <1>4, <1>5 DEF TreeIInv

LEMMA TreeWorkStep ==
  ASSUME WorldIInv, WorldIInv', RecIInv, TreeIInv, NEW c \in Cpus, Work(c)
  PROVE  TreeIInv'
  BY ReturnTrees, GotoTrees, FailTrees, ChangeTrees, RealmLockTrees, RecCreateBodyTrees,
     RecDestroyTrees, RealmCreateInitTrees, RealmCreateRootTrees, RealmDestroyCountTrees,
     RealmDestroyRootTrees, RealmDestroyFreeTrees, RttLockRootTrees, RttWalkTrees,
     RttCreateEndTrees, RttDestroyEndTrees
  DEF Work

LEMMA TreeStartStep ==
  ASSUME WorldIInv, WorldIInv', RecIInv, TreeIInv, NEW c \in Cpus, Start(c)
  PROVE  TreeIInv'
  BY ChangeTrees, StartTrees, RealmDestroyTrees, RecEnterTrees DEF Start

LEMMA TreeStep ==
  ASSUME WorldIInv, WorldIInv', RecIInv, TreeIInv, [Next]_vars
  PROVE  TreeIInv'
<1>1. CASE UNCHANGED vars
  <2>1. 1 \in Granules
    BY GranuleAssumption DEF Granules
  <2> QED BY <1>1, <2>1, HostTrees
<1>2. ASSUME NEW g \in Granules, HostWrite(g) \/ RealmActivate(g) PROVE TreeIInv'
  BY <1>2, HostTrees
<1>3. ASSUME NEW c \in Cpus, RecCreateStep(c) PROVE TreeIInv'
  BY <1>3, ChangeTrees, GotoTrees, RealmLockTrees DEF RecCreateStep
<1>4. ASSUME NEW c \in Cpus, RealmRuns(c) PROVE TreeIInv'
  BY <1>4, SystemOffTrees, GotoTrees DEF RealmRuns
<1>5. ASSUME NEW c \in Cpus, Start(c) \/ Work(c) PROVE TreeIInv'
  BY <1>5, TreeStartStep, TreeWorkStep
<1> QED BY <1>1, <1>2, <1>3, <1>4, <1>5 DEF Next

LEMMA CountInit == Init => CountIInv
  BY WorldInit, RecInit, TreeInit DEF CountIInv

LEMMA CountStep == CountIInv /\ [Next]_vars => CountIInv'
<1> SUFFICES ASSUME CountIInv, [Next]_vars PROVE CountIInv'
  OBVIOUS
<1>1. WorldIInv /\ RecIInv /\ TreeIInv
  BY DEF CountIInv
<1>2. WorldIInv'
  BY <1>1, WorldStep
<1>3. RecIInv'
  BY <1>1, TreeRoots, RecStep
<1>4. TreeIInv'
  BY <1>1, <1>2, TreeStep
<1> QED BY <1>2, <1>3, <1>4 DEF CountIInv

---------------------------------------------------------------------------
(* The theorems                                                            *)

LEMMA AllCounted == CountIInv => RefcountsCount
<1> SUFFICES ASSUME CountIInv, NEW g \in Granules
             PROVE  refcount[g] =
                      CASE state[g] = "RD"  -> Cardinality(Recs(g)) + Cardinality(Putting(g))
                        [] state[g] = "REC" -> Cardinality(Inside(g))
                        [] state[g] = "RTT" -> Cardinality(kids[g])
                        [] OTHER            -> 0
  BY DEF RefcountsCount
<1>1. /\ state[g] = "RD"  => refcount[g] = Cardinality(Recs(g)) + Cardinality(Putting(g))
      /\ state[g] = "REC" => refcount[g] = Cardinality(Inside(g))
      /\ state[g] \notin {"RD", "REC", "RTT"} => refcount[g] = 0
  BY DEF CountIInv, RecIInv, RecsCounted
<1>2. state[g] = "RTT" => refcount[g] = Cardinality(kids[g])
  BY DEF CountIInv, TreeIInv, Forest, TablesCounted
<1> QED BY <1>1, <1>2

LEMMA CountsAreNat == CountIInv => refcount \in [Granules -> Nat]
<1> SUFFICES ASSUME CountIInv, NEW g \in Granules PROVE refcount[g] \in Nat
  BY TypesAre DEF CountIInv
<1>1. IsFiniteSet(kids[g])
  BY TypesAre, FS_Subset, GranulesFinite DEF CountIInv
<1>2. Cardinality(kids[g]) \in Nat
  BY <1>1, FS_CardinalityType
<1> QED BY <1>2, CountedSets DEF CountIInv, RecIInv, RecsCounted, TreeIInv, Forest, TablesCounted

(* Every variable keeps the type the C structures give it; in particular   *)
(* no reference count is ever taken below zero, though RDs, RECs and       *)
(* tables drop theirs in different commands and some without a lock        *)
(* (atomic_granule_put, granule.h).                                        *)
THEOREM AllTypesCorrect == Spec => []TypeOK
<1>1. CountIInv => TypeOK
  BY CountsAreNat DEF CountIInv, WorldIInv, LockIInv, Types, TypeOK, GranuleTypeOK
<1> QED BY <1>1, CountInit, CountStep, PTL DEF Spec

(* The reference counts count: of a RD its RECs and the REC_DESTROYs that  *)
(* have not dropped its reference, of a REC the CPUs in it, of a table the *)
(* entries that point to tables, at every moment between the steps of any  *)
(* number of CPUs.                                                         *)
THEOREM CountsCorrect == Spec => []RefcountsCount
  BY AllCounted, CountInit, CountStep, PTL DEF Spec

(* The assertions that granule_unlock and granule_lock_on_state_match make *)
(* (__granule_assert_unlocked_invariants) never fail.                      *)
THEOREM UnlockedInvariantsCorrect == Spec => []UnlockedInvariants
<1>1. CountIInv => UnlockedInvariants
  <2> SUFFICES ASSUME CountIInv, NEW g \in Granules PROVE UnlockedInvariant(g)
    BY DEF UnlockedInvariants
  <2>1. state[g] \in States
    BY TypesAre DEF CountIInv
  <2>2. state[g] \in {"NS", "DELEGATED", "REC_AUX"} => refcount[g] = 0
    BY Uncounted DEF CountIInv
  <2>3. state[g] = "REC" => refcount[g] <= 1
    <3> SUFFICES ASSUME state[g] = "REC" PROVE refcount[g] <= 1
      OBVIOUS
    <3>1. refcount[g] = Cardinality(Inside(g)) /\ IsFiniteSet(Inside(g))
      BY CountedSets DEF CountIInv, RecIInv, RecsCounted
    <3>2. CASE Inside(g) = {}
      BY <3>1, <3>2, FS_EmptySet
    <3>3. CASE Inside(g) # {}
      BY <3>3, RecCount DEF CountIInv
    <3> QED BY <3>2, <3>3
  <2> QED BY <2>1, <2>2, <2>3 DEF UnlockedInvariant, States
<1> QED BY <1>1, CountInit, CountStep, PTL DEF Spec

(* While a CPU is in a REC (smc_rec_enter), the REC stays a REC and that   *)
(* CPU's alone, and the RD that rec_enter reads without its lock stays a   *)
(* RD; the realm does not run before it is activated.                      *)
THEOREM EnteredRecsCorrect == Spec => []EnteredRecIsAlive
<1>1. CountIInv => EnteredRecIsAlive
  <2> SUFFICES ASSUME CountIInv, NEW c \in Cpus, NEW r \in Granules, c \in Inside(r)
               PROVE  /\ state[r] = "REC" /\ Inside(r) = {c}
                      /\ state[rec[r].rd] = "RD"
                      /\ f[c].pc \in {"en_run", "en_exit"} => rd[rec[r].rd].state # "NEW"
    BY DEF EnteredRecIsAlive
  <2>1. RecIInv /\ f[c].pc \in Entered /\ f[c].obj = r
    BY InsideIs DEF CountIInv
  <2>2. RecFrame(c)
    BY <2>1 DEF RecIInv, RecFrames
  <2>3. state[r] = "REC" /\ (f[c].pc \in {"en_run", "en_exit"} => rd[rec[r].rd].state # "NEW")
    BY <2>1, <2>2 DEF RecFrame
  <2>4. Inside(r) = {c}
    BY <2>1, <2>3, RecCount
  <2>5. state[rec[r].rd] = "RD"
    BY <2>1, <2>3, RdUsed
  <2> QED BY <2>3, <2>4, <2>5
<1> QED BY <1>1, CountInit, CountStep, PTL DEF Spec

(* A realm outlives its RECs, whatever order the host destroys them in,    *)
(* and the indexes of its RECs differ and are below its rec_count.         *)
THEOREM RecsOwnedCorrect == Spec => []RecsBelongToRealm
<1>1. CountIInv => RecsBelongToRealm
  BY DEF CountIInv, RecIInv, RecsOwned
<1> QED BY <1>1, CountInit, CountStep, PTL DEF Spec

(* No two realms share a table, and no table is lost: each is a root of    *)
(* one realm or below exactly one entry (rtt.c, realm.c).                  *)
THEOREM TreesCorrect == Spec => []TreesIntact
<1>1. CountIInv => TreesIntact
  <2> SUFFICES ASSUME CountIInv PROVE TreesIntact
    OBVIOUS
  <2>1. WorldIInv /\ Forest
    BY DEF CountIInv, TreeIInv
  <2>2. ASSUME NEW g \in Granules, state[g] = "RD", Free(g), NEW t \in RootsOf(g)
        PROVE  t \in Granules /\ RootTable(g, t)
    <3>1. ~Gone(g, t)
      BY <2>1, <2>2, NotGone, GranuleAssumption DEF Free
    <3> QED BY <2>1, <2>2, <3>1 DEF RootTable, Forest, RootsKnown
  <2>3. ASSUME NEW g \in Granules, NEW h \in Granules, state[g] = "RD", state[h] = "RD",
               Free(g), Free(h), g # h
        PROVE  RootsOf(g) \cap RootsOf(h) = {}
    BY <2>1, <2>2, <2>3 DEF Forest, RootsDisjoint
  <2>4. ASSUME NEW g \in Granules, state[g] = "RD", Free(g), NEW t \in RootsOf(g), Free(t)
        PROVE  state[t] = "RTT"
    <3>1. t \in Granules /\ RootTable(g, t)
      BY <2>2, <2>4
    <3>2. ~Opened(g, t)
      BY <2>1, <2>4, OpenedHolds, GranuleAssumption DEF Free
    <3> QED BY <2>1, <3>1, <3>2 DEF Forest, RootsAre
  <2>5. ASSUME NEW p \in Granules, NEW t \in Granules, t \in kids[p]
        PROVE  /\ state[p] = "RTT" /\ state[t] = "RTT"
               /\ \A q \in Granules : t \in kids[q] => q = p
               /\ \A g \in Granules : state[g] = "RD" /\ Free(g) => t \notin RootsOf(g)
    BY <2>1, <2>2, <2>5 DEF Forest, KidsOwned
  <2>6. ASSUME NEW t \in Granules, state[t] = "RTT"
        PROVE  \/ \E p \in Granules : t \in kids[p]
               \/ \E g \in Granules : state[g] = "RD" /\ t \in RootsOf(g)
    BY <2>1, <2>6 DEF Forest, TablesPlaced, RootTable
  <2> QED BY <2>3, <2>4, <2>5, <2>6 DEF TreesIntact
<1> QED BY <1>1, CountInit, CountStep, PTL DEF Spec


---------------------------------------------------------------------------
(* What no step does                                                       *)

Unreferenced ==
  \A g \in Granules : state'[g] # state[g] =>
    /\ refcount[g] = 0
    /\ \E c \in Cpus : f'[c] # f[c] /\ lock[g] \in {c, NoCpu}

LEMMA UnreferencedChange ==
  ASSUME CountIInv, NEW c \in Cpus, f'[c] # f[c],
         NEW h, NEW s, state' = [state EXCEPT ![h] = s],
         h \in Granules => refcount[h] = 0 /\ lock[h] \in {c, NoCpu}
  PROVE  Unreferenced
  BY TypesAre DEF CountIInv, Unreferenced

LEMMA Moves ==
  ASSUME WorldIInv, NEW c \in Cpus,
         \/ Return(c) /\ ~Idle(c)
         \/ \E l : Goto(c, l) /\ l # f[c].pc
         \/ \E nf : Become(c, nf) /\ (nf.pc # f[c].pc \/ nf.i # f[c].i \/ nf.j # f[c].j)
  PROVE  f'[c] # f[c]
  BY ReturnsIdle, Gotos, FrameIs DEF WorldIInv, Idle

(* The changes to the granule the command is about, which it has locked *)
LEMMA ObjChanges ==
  ASSUME CountIInv, NEW c \in Cpus,
         \/ UndelegateState(c) \/ RealmCreateInit(c) \/ RealmDestroyFree(c)
         \/ RecDestroyFree(c) \/ RecCreateBody(c, TRUE) \/ RecCreateBody(c, FALSE)
         \/ RttCreateEnd(c)
  PROVE  Unreferenced
<1> DEFINE fr == f[c]
           g  == fr.obj
           nf == [fr EXCEPT !.pc = "rc_roots", !.i = 0]
<1>1. WorldIInv /\ RecIInv /\ TreeIInv
  BY DEF CountIInv
<1>2. PICK s : state' = [state EXCEPT ![g] = s]
  BY DEF UndelegateState, RealmCreateInit, RealmDestroyFree, RecDestroyFree, RecCreateBody,
         RttCreateEnd
<1>3. f'[c] # fr
  <2>1. CASE RealmCreateInit(c)
    <3>1. nf.pc = "rc_roots"
      BY <1>1, TypesAre DEF Frame
    <3>2. Become(c, nf) /\ fr.pc = "rc_init"
      BY <2>1 DEF RealmCreateInit, At
    <3> HIDE DEF nf
    <3> QED BY <1>1, <3>1, <3>2, Moves
  <2>2. CASE RecDestroyFree(c)
    BY <1>1, <2>2, Moves DEF RecDestroyFree, At
  <2>3. CASE \/ UndelegateState(c) \/ RealmDestroyFree(c) \/ RttCreateEnd(c)
             \/ RecCreateBody(c, TRUE) \/ RecCreateBody(c, FALSE)
    BY <1>1, <2>3, Moves DEF UndelegateState, RealmDestroyFree, RttCreateEnd, RecCreateBody, At, Idle
  <2> QED BY <2>1, <2>2, <2>3
<1>4. g \in Granules /\ lock[g] = c /\ refcount[g] = 0
  <2>1. CASE UndelegateState(c)
    BY <1>1, <2>1, HeldObj, Uncounted DEF UndelegateState, At
  <2>2. CASE RealmDestroyFree(c) \/ RecDestroyFree(c)
    <3>1. fr.pc \in {"rd_free", "rx_free"} /\ RecFrame(c)
      BY <1>1, <2>2 DEF RealmDestroyFree, RecDestroyFree, At, RecIInv, RecFrames
    <3> QED BY <1>1, <3>1, DestroyedObj DEF RecFrame, Retiring, Closing
  <2>3. CASE RealmCreateInit(c) \/ RecCreateBody(c, TRUE) \/ RecCreateBody(c, FALSE)
             \/ RttCreateEnd(c)
    <3>1. fr.pc \in {"rc_init", "rn_body", "wk_end"}
      BY <2>3 DEF RealmCreateInit, RecCreateBody, RttCreateEnd, At
    <3>2. FrameOK(fr)
      BY <1>1 DEF WorldIInv, LockIInv, Locks
    <3>3. g \in Held(fr)
      <4>1. CASE fr.pc = "rc_init"
        <5>1. fr \in Frame /\ fr.i = fr.num + 1
          BY <1>1, <3>2, <4>1, TypesAre DEF FrameOK
        <5>2. g \in RcHeld(fr)
          BY <5>1, RcHeldAll
        <5> QED BY <4>1, <5>2 DEF Held
      <4>2. CASE fr.pc \in {"rn_body", "wk_end"}
        BY <3>2, <4>2 DEF Held, FrameOK, WalkHolds
      <4> QED BY <3>1, <4>1, <4>2
    <3>4. HeldState(fr, g) = "DELEGATED"
      BY <3>1, <3>2 DEF HeldState, Walking, Expected, FrameOK
    <3> QED BY <1>1, <3>3, <3>4, HeldIs, Uncounted
  <2> QED BY <2>1, <2>2, <2>3
<1> HIDE DEF g
<1> QED BY <1>2, <1>3, <1>4, UnreferencedChange

(* The changes to a granule that the step itself locks *)
LEMMA FreshChanges ==
  ASSUME CountIInv, NEW c \in Cpus,
         \/ \E g \in Granules : GranuleDelegate(c, g) \/ RecCreateAux(c, g)
         \/ RecCreateUndo(c) \/ RecDestroyAux(c)
  PROVE  Unreferenced
<1> DEFINE fr == f[c]
           a  == fr.aux[fr.j + 1]
           k  == fr.i + 1
           j  == fr.j + 1
           l  == IF j = NumAux THEN "rx_free" ELSE "rx_aux"
           up == [fr EXCEPT !.j = j]
           un == IF j = fr.i THEN IdleFrame ELSE up
           xa == [fr EXCEPT !.j = j, !.pc = l]
           dl(g) == [IdleFrame EXCEPT !.pc = "dl_mark", !.obj = g]
           na(g) == [fr.aux EXCEPT ![k] = g]
           ax(g) == [fr EXCEPT !.pc = "rn_aux", !.i = k, !.aux = na(g)]
<1>1. WorldIInv /\ RecIInv /\ fr \in Frame /\ fr.i \in Nat /\ fr.j \in Nat
  <2>1. WorldIInv /\ RecIInv /\ fr \in Frame
    BY TypesAre DEF CountIInv
  <2> QED BY <2>1 DEF Frame
<1>2. /\ up.j = j /\ xa.j = j /\ j # fr.j /\ k # fr.i /\ IdleFrame.pc = "idle"
      /\ \A g : dl(g).pc = "dl_mark" /\ ax(g).i = k
  <2>1. j # fr.j /\ k # fr.i
    BY <1>1
  <2> HIDE DEF j, k, na, l
  <2> QED BY <1>1, <2>1 DEF Frame, IdleFrame
<1> HIDE DEF up, xa, dl, ax, j, k
<1>3. PICK g, s : /\ g \in Granules /\ lock[g] = NoCpu /\ f'[c] # fr
                  /\ state' = [state EXCEPT ![g] = s]
                  /\ state[g] \notin {"RD", "REC", "RTT"}
  <2>1. ASSUME NEW g \in Granules, GranuleDelegate(c, g)
        PROVE  /\ lock[g] = NoCpu /\ f'[c] # fr /\ state[g] = "NS"
               /\ state' = [state EXCEPT ![g] = "DELEGATED"]
    <3>1. Become(c, dl(g)) /\ fr.pc = "idle"
      BY <2>1 DEF GranuleDelegate, Idle, dl
    <3> QED BY <1>1, <1>2, <2>1, <3>1, Moves DEF GranuleDelegate, CanLock, Free
  <2>2. ASSUME NEW g \in Granules, RecCreateAux(c, g)
        PROVE  /\ lock[g] = NoCpu /\ f'[c] # fr /\ state[g] = "DELEGATED"
               /\ state' = [state EXCEPT ![g] = "REC_AUX"]
    <3>1. Become(c, ax(g))
      BY <2>2 DEF RecCreateAux, ax, k
    <3> QED BY <1>1, <1>2, <2>2, <3>1, Moves DEF RecCreateAux, AuxTaken, CanLock, Free
  <2>3. ASSUME RecCreateUndo(c) \/ RecDestroyAux(c)
        PROVE  /\ a \in Granules /\ lock[a] = NoCpu /\ f'[c] # fr /\ state[a] = "REC_AUX"
               /\ state' = [state EXCEPT ![a] = "DELEGATED"]
    <3>1. (Become(c, un) /\ fr.pc = "rn_undo") \/ Become(c, xa)
      BY <2>3 DEF RecCreateUndo, RecDestroyAux, xa, j, At, up
    <3>2. fr.pc = "rn_undo" => un.pc # fr.pc \/ un.j # fr.j
      BY <1>2
    <3> HIDE DEF un
    <3>3. f'[c] # fr
      BY <1>1, <1>2, <3>1, <3>2, Moves
    <3> QED BY <2>3, <3>3 DEF RecCreateUndo, RecDestroyAux, CanLock, Free
  <2> HIDE DEF a
  <2> QED BY <2>1, <2>2, <2>3
<1> QED BY <1>1, <1>3, Uncounted, UnreferencedChange

(* The changes to the tables *)
LEMMA TableChanges ==
  ASSUME CountIInv, NEW c \in Cpus,
         RealmCreateRoot(c) \/ RealmDestroyRoot(c) \/ RttDestroyEnd(c)
  PROVE  Unreferenced
<1> DEFINE fr == f[c]
           l  == IF LastRoot(fr) THEN "rd_free" ELSE "rd_roots"
           k  == fr.i + 1
           up == [fr EXCEPT !.i = k]
           nf == IF k = fr.num THEN IdleFrame ELSE up
           xf == [fr EXCEPT !.i = k, !.pc = l]
           x  == fr.root + fr.i
<1>1. WorldIInv /\ RecIInv /\ TreeIInv /\ fr \in Frame /\ fr.i \in Nat
  BY TypesAre, FrameNats DEF CountIInv
<1>2. up.i = k /\ xf.i = k /\ k # fr.i /\ IdleFrame.pc = "idle"
  <2>1. k # fr.i
    BY <1>1
  <2> HIDE DEF k, l
  <2> QED BY <1>1, <2>1 DEF Frame, IdleFrame
<1>3. CASE RealmCreateRoot(c)
  <2>1. fr.pc = "rc_roots" /\ Become(c, nf) /\ state' = [state EXCEPT ![x] = "RTT"]
    BY <1>3 DEF RealmCreateRoot, At
  <2>2. nf.pc # fr.pc \/ nf.i # fr.i
    BY <1>2, <2>1
  <2> HIDE DEF nf
  <2>3. f'[c] # fr
    BY <1>1, <2>1, <2>2, Moves
  <2>4. x \in Granules => refcount[x] = 0 /\ lock[x] = c
    <3>1. FrameOK(fr)
      BY <1>1 DEF WorldIInv, LockIInv, Locks
    <3>2. x \in Held(fr)
      BY <1>1, <2>1, <3>1, FrameNats DEF Held, FrameOK
    <3>3. HeldState(fr, x) = "DELEGATED"
      BY <2>1 DEF HeldState, Walking
    <3> QED BY <1>1, <3>2, <3>3, HeldIs, Uncounted
  <2> HIDE DEF x
  <2> QED BY <2>1, <2>3, <2>4, UnreferencedChange
<1>4. CASE RealmDestroyRoot(c)
  <2>1. /\ fr.pc = "rd_roots" /\ Become(c, xf) /\ state' = [state EXCEPT ![x] = "DELEGATED"]
        /\ lock[x] = NoCpu
    BY <1>4 DEF RealmDestroyRoot, At, CanLock, Free
  <2> HIDE DEF xf, k
  <2>2. f'[c] # fr
    BY <1>1, <1>2, <2>1, Moves
  <2>3. refcount[x] = 0
    BY <1>1, <2>1, TreeRoots DEF RootsUnused
  <2> HIDE DEF x
  <2> QED BY <2>1, <2>2, <2>3, UnreferencedChange
<1>5. CASE RttDestroyEnd(c)
  <2>1. /\ fr.pc = "wk_tbl" /\ Return(c) /\ state' = [state EXCEPT ![fr.obj] = "DELEGATED"]
        /\ refcount[fr.obj] = 0 /\ lock[fr.obj] = NoCpu
    BY <1>5 DEF RttDestroyEnd, At, CanLock, Free, TableUnused
  <2>2. f'[c] # fr
    BY <1>1, <2>1, Moves DEF Idle
  <2> QED BY <2>1, <2>2, UnreferencedChange
<1> QED BY <1>3, <1>4, <1>5

LEMMA NextUnreferenced ==
  ASSUME CountIInv, [Next]_vars
  PROVE  Unreferenced
<1>1. CASE UNCHANGED state
  BY <1>1 DEF Unreferenced
<1>2. ASSUME NEW g \in Granules, HostWrite(g) \/ RealmActivate(g) PROVE UNCHANGED state
  BY <1>2 DEF HostWrite, RealmActivate, granuleVars
<1>3. ASSUME NEW c \in Cpus, Start(c) PROVE Unreferenced \/ UNCHANGED state
  BY <1>3, FreshChanges
  DEF Start, GranuleUndelegate, RealmCreate, RealmDestroy, RecDestroy, RecEnter, RttCreate,
      RttDestroy, granuleVars
<1>4. ASSUME NEW c \in Cpus, RecCreateStep(c) PROVE Unreferenced \/ UNCHANGED state
  BY <1>4, FreshChanges
  DEF RecCreateStep, RecCreateAuxFails, RecCreateLock1, RecCreateLock1Fails, granuleVars
<1>5. ASSUME NEW c \in Cpus, Work(c) PROVE Unreferenced \/ UNCHANGED state
  BY <1>5, ObjChanges, FreshChanges, TableChanges
  DEF Work, DelegateMark, DelegateZero, RealmCreateLock, RealmCreateLockFails,
      RealmCreateFreeVmid, RealmDestroyCount, RealmDestroyInUse, RecCreateLock2,
      RecCreateLock2Fails, RecCreateRefused, RecDestroyPut, EnterRead, EnterCheck, EnterWrite,
      EnterPut, RttCreateLock2, RttCreateLock2Fails, RttInvalid, RttLockRoot, RttWalk, RttFail,
      RttDestroyInUse, granuleVars
<1>6. ASSUME NEW c \in Cpus, RealmRuns(c) PROVE UNCHANGED state
  BY <1>6 DEF RealmRuns, SystemOff, EnterRun, granuleVars
<1>7. CASE UNCHANGED vars
  BY <1>7, <1>1 DEF vars
<1> QED BY <1>1, <1>2, <1>3, <1>4, <1>5, <1>6, <1>7 DEF Next

(* A granule's state changes only when nothing refers to the granule and   *)
(* no other CPU holds it (locking.rst), though the commands look at the    *)
(* count, and lock the granule, in steps of their own.                     *)
THEOREM StateChangesCorrect == Spec => StateChangesUnreferenced
<1>1. CountIInv /\ [Next]_vars => [Unreferenced]_vars
  BY NextUnreferenced
<1> QED BY <1>1, CountInit, CountStep, PTL
        DEF Spec, StateChangesUnreferenced, Unreferenced


SealedStep ==
  \A g \in Granules :
    state[g] = "RD" /\ state'[g] = "RD" /\ rd[g].state # "NEW" =>
      /\ rd'[g].recs = rd[g].recs
      /\ rd'[g].state \in {rd[g].state, "SYSTEM_OFF"}

(* A RD that is written is new, or no RD before or after. *)
LEMMA RdWritten ==
  ASSUME WorldIInv, NEW h,
         \A g \in Granules : g # h => rd'[g] = rd[g],
         h \in Granules => \/ state[h] # "RD" \/ state'[h] # "RD" \/ rd[h].state = "NEW"
  PROVE  SealedStep
  BY DEF SealedStep

LEMMA NextSealed ==
  ASSUME WorldIInv, [Next]_vars
  PROVE  SealedStep
<1>1. CASE UNCHANGED rd
  BY <1>1 DEF SealedStep
<1>2. ASSUME NEW g \in Granules, HostWrite(g) \/ RealmActivate(g)
      PROVE  SealedStep \/ UNCHANGED rd
  <2>1. ASSUME RealmActivate(g)
        PROVE  rd[g].state = "NEW" /\ \A h \in Granules : h # g => rd'[h] = rd[h]
    BY <2>1, TypesAre DEF RealmActivate
  <2> QED BY <1>2, <2>1, RdWritten DEF HostWrite
<1>3. ASSUME NEW c \in Cpus, Start(c) \/ RecCreateStep(c) PROVE UNCHANGED rd
  BY <1>3
  DEF Start, GranuleDelegate, GranuleUndelegate, RealmCreate, RealmDestroy, RecDestroy,
      RecEnter, RttCreate, RttDestroy, RecCreateStep, RecCreateAux, RecCreateAuxFails,
      RecCreateLock1, RecCreateLock1Fails
<1>4. ASSUME NEW c \in Cpus, Work(c) PROVE SealedStep \/ UNCHANGED rd
  <2>1. ASSUME DelegateZero(c) \/ RealmDestroyFree(c) \/ RecDestroyFree(c)
        PROVE  SealedStep
    <3>1. PICK g : g = f[c].obj
      OBVIOUS
    <3>2. \A h \in Granules : h # g => rd'[h] = rd[h]
      BY <2>1, <3>1 DEF DelegateZero, RealmDestroyFree, RecDestroyFree, ZeroOut
    <3>3. g \in Granules /\ (state[g] # "RD" \/ state'[g] # "RD")
      BY <2>1, <3>1, HeldObj, TypesAre DEF DelegateZero, RealmDestroyFree, RecDestroyFree, At
    <3> QED BY <3>2, <3>3, RdWritten
  <2>2. ASSUME RealmDestroyRoot(c) \/ RecDestroyAux(c)
        PROVE  SealedStep
    <3>1. PICK a \in Granules : state[a] \in {"RTT", "REC_AUX"} /\ ZeroOut({a})
      BY <2>2 DEF RealmDestroyRoot, RecDestroyAux, CanLock
    <3>2. \A h \in Granules : h # a => rd'[h] = rd[h]
      BY <3>1 DEF ZeroOut
    <3> QED BY <3>1, <3>2, RdWritten
  <2>3. ASSUME RealmCreateInit(c)
        PROVE  SealedStep
    <3>1. PICK g : g = f[c].obj
      OBVIOUS
    <3>2. \A h \in Granules : h # g => rd'[h] = rd[h]
      BY <2>3, <3>1, TypesAre DEF RealmCreateInit
    <3>3. state[g] = "DELEGATED"
      <4>1. f[c] \in Frame /\ f[c].i = f[c].num + 1 /\ f[c].pc = "rc_init"
        BY <2>3, TypesAre DEF RealmCreateInit, At, WorldIInv, LockIInv, Locks, FrameOK
      <4>2. g \in Held(f[c]) /\ HeldState(f[c], g) = "DELEGATED"
        BY <3>1, <4>1, RcHeldAll DEF Held, HeldState, Walking
      <4> QED BY <4>2, HeldIs
    <3> QED BY <3>2, <3>3, RdWritten
  <2>4. ASSUME NEW b, RecCreateBody(c, b)
        PROVE  SealedStep
    <3>1. PICK g : g = f[c].rd
      OBVIOUS
    <3>2. rd[g].state = "NEW" /\ rd' = [rd EXCEPT ![g].recs = rd[g].recs + 1]
      BY <2>4, <3>1 DEF RecCreateBody, CheckRealm, CountRec
    <3>3. \A h \in Granules : h # g => rd'[h] = rd[h]
      BY <3>2, TypesAre
    <3> QED BY <3>2, <3>3, RdWritten
  <2> QED
    BY <1>4, <2>1, <2>2, <2>3, <2>4
    DEF Work, DelegateMark, UndelegateState, RealmCreateLock, RealmCreateLockFails,
        RealmCreateFreeVmid, RealmCreateRoot, RealmDestroyCount, RealmDestroyInUse,
        RecCreateLock2, RecCreateLock2Fails, RecCreateRefused, RecCreateUndo, RecDestroyPut,
        EnterRead, EnterCheck, EnterWrite, EnterPut, RttCreateLock2, RttCreateLock2Fails,
        RttInvalid, RttLockRoot, RttWalk, RttFail, RttCreateEnd, RttDestroyEnd,
        RttDestroyInUse
<1>5. ASSUME NEW c \in Cpus, RealmRuns(c) PROVE SealedStep \/ UNCHANGED rd
  <2>1. ASSUME SystemOff(c)
        PROVE  SealedStep
    <3>1. PICK g : rd' = [rd EXCEPT ![g].state = "SYSTEM_OFF"]
      BY <2>1 DEF SystemOff
    <3>2. \A h \in Granules : /\ rd'[h].recs = rd[h].recs
                              /\ rd'[h].state \in {rd[h].state, "SYSTEM_OFF"}
      BY <3>1, TypesAre DEF RdType
    <3> QED BY <3>2 DEF SealedStep
  <2> QED BY <1>5, <2>1 DEF RealmRuns, EnterRun
<1>6. CASE UNCHANGED vars
  BY <1>1, <1>6 DEF vars
<1> QED BY <1>1, <1>2, <1>3, <1>4, <1>5, <1>6 DEF Next

(* Activation seals a realm: no REC joins it afterwards, and it is never   *)
(* NEW again, nor ACTIVE once it is off, as long as its RD lives.          *)
THEOREM SealedCorrect == Spec => RealmSealed
<1>1. WorldIInv /\ [Next]_vars => [SealedStep]_vars
  BY NextSealed
<1> QED BY <1>1, WorldInit, WorldStep, PTL DEF Spec, RealmSealed, SealedStep
=============================================================================
