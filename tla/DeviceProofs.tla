---------------------------- MODULE DeviceProofs ----------------------------
(***************************************************************************)
(* The initial measurement and the pages of a realm while devices are      *)
(* attached, for any number of CPUs, pages, page tables and addresses, and *)
(* any lists of ranges that name one page at most (SinglePages): with two, *)
(* CheckRoot releases the RD of whoever holds it then.                     *)
(*                                                                         *)
(* What the commands do under the RD's lock excludes one another, and so   *)
(* does what they do to a page they have locked.  Nothing rests on the     *)
(* locks of the tables, of which RSI_DEV_MEM releases those of others and  *)
(* a failed attach keeps one.                                              *)
(***************************************************************************)
EXTENDS DeviceAttach, SequenceTheorems, FiniteSetTheorems, TLAPS

SinglePages == \A r \in Ranges : Len(r) <= 1

Labels == {"idle", "create_page", "create_root", "create_walk", "create", "create_map",
           "ranges", "check_rd", "check_root", "check_walk", "check", "attach",
           "attach_measure", "ripas_root", "ripas_walk", "ripas", "ripas_measure",
           "rec", "rec_measure", "destroy_root", "destroy_walk", "destroy", "destroy_page",
           "dev", "dev_walk", "dev_entry", "dev_unlock"}
Links == {"data", "attach", "ripas", "rec"}

Job == [pc : Labels, kind : {"none", "device", "data", "unknown"}, page : Pages \cup {NoPage},
        ipa : Nat, ranges : Ranges \cup {<<>>}, k : Nat, rim : Seq(Links), left : Int,
        found : SUBSET Pages]

Types ==
  /\ lock \in [Granules -> Cpus \cup {NoCpu}]
  /\ leaf \in [Ipas -> Pages \cup {Unassigned, Destroyed}]
  /\ data \subseteq Pages /\ active \in BOOLEAN /\ rim \in Seq(Links)
  /\ job \in [Cpus -> Job]

InPage == {"create_root", "create_walk", "create", "create_map"}

(* The locks that count, while CPU c has them *)
LocksAt(c) ==
  /\ InRdSection(c) => lock[Rd] = c
  /\ job[c].pc \in InPage => lock[job[c].page] = c
  /\ job[c].pc \in {"dev", "dev_walk", "dev_entry", "dev_unlock"} =>
       \A p \in job[c].found : lock[p] = c

(* What a command still relies on of what it has seen *)
SeenAt(c) ==
  /\ job[c].pc \in InPage \cup {"create_page", "destroy_page"} => job[c].page \in Pages
  /\ job[c].pc \in InPage => /\ job[c].page \notin data
                             /\ job[c].kind # "unknown" => ~active
  /\ At(c, "create_map") => /\ job[c].kind # "unknown" /\ job[c].ipa \in Tabled
                            /\ leaf[job[c].ipa] = Unassigned
  /\ At(c, "rec_measure") => ~active
  /\ job[c].pc \in {"check_root", "check_walk", "check"} => job[c].ranges # <<>>
  /\ job[c].k = 1

LastIsUnlocked == rim # <<>> /\ rim[Len(rim)] \in {"ripas", "attach"}
CurrentAt(c) ==
  job[c].pc \in {"create_map", "rec_measure"} => rim = job[c].rim \/ LastIsUnlocked

(* A page is at one address, or with one DATA_DESTROY, or at none. *)
Mapped(p)  == {i \in Ipas : leaf[i] = p}
Leaving(p) == {c \in Cpus : At(c, "destroy_page") /\ job[c].page = p}
Accounted(p) ==
  \/ p \notin data /\ Mapped(p) = {} /\ Leaving(p) = {}
  \/ p \in data /\ Leaving(p) = {} /\ \E i \in Ipas : Mapped(p) = {i}
  \/ p \in data /\ Mapped(p) = {} /\ \E c \in Cpus : Leaving(p) = {c}

DeviceIInv ==
  /\ SinglePages /\ Types
  /\ \A c \in Cpus : LocksAt(c) /\ SeenAt(c) /\ CurrentAt(c)
  /\ \A p \in Pages : Accounted(p)

---------------------------------------------------------------------------
Others(c) == \A d \in Cpus : d # c => job'[d] = job[d]

(* CPU c takes free locks and gives back its own, of the RD and of pages. *)
Fair(c) == \A g \in {Rd} \cup Pages : lock'[g] = lock[g] \/ lock[g] \in {c, NoCpu}

LEMMA OthersLocks ==
  ASSUME DeviceIInv, NEW c \in Cpus, Others(c), Fair(c), LocksAt(c)', NEW d \in Cpus
  PROVE  LocksAt(d)'
<1>1. CASE d = c
  BY <1>1
<1>2. CASE d # c
  <2>1. job'[d] = job[d] /\ LocksAt(d) /\ SeenAt(d) /\ job[d].found \subseteq Pages
    BY <1>2 DEF Others, DeviceIInv, Types, Job
  <2>2. \A g \in {Rd} \cup Pages : lock[g] = d => lock'[g] = d
    BY <1>2, DeviceAssumption DEF Fair
  <2> QED BY <2>1, <2>2 DEF LocksAt, SeenAt, InRdSection, At
<1> QED BY <1>1, <1>2

(* A step that changes nothing but locks and CPU c's own command *)
LEMMA CalmStep ==
  ASSUME DeviceIInv, NEW c \in Cpus, Others(c), Fair(c), UNCHANGED <<leaf, data, active, rim>>,
         lock' \in [Granules -> Cpus \cup {NoCpu}], job' \in [Cpus -> Job],
         LocksAt(c)', SeenAt(c)', CurrentAt(c)',
         job[c].pc # "destroy_page" /\ job'[c].pc # "destroy_page"
  PROVE  DeviceIInv'
<1>1. Types' /\ SinglePages
  BY DEF DeviceIInv, Types
<1>2. \A d \in Cpus : LocksAt(d)'
  BY OthersLocks
<1>3. \A d \in Cpus : SeenAt(d)' /\ CurrentAt(d)'
  BY DEF DeviceIInv, Others, SeenAt, CurrentAt, At, LastIsUnlocked
<1>4. \A p \in Pages : Mapped(p)' = Mapped(p) /\ Leaving(p)' = Leaving(p)
  BY DEF Mapped, Leaving, Others, At
<1>5. \A p \in Pages : Accounted(p)'
  BY <1>4 DEF DeviceIInv, Accounted
<1> QED BY <1>1, <1>2, <1>3, <1>5 DEF DeviceIInv, SinglePages

---------------------------------------------------------------------------
(* What the operators that steps are made of do to a job and to the locks  *)
LEMMA IdleJob == Idle \in Job
<1>1. <<>> \in Seq(Links)
  BY EmptySeq
<1> QED BY <1>1 DEF Idle, Job, Labels

LEMMA IpasAreNat == Ipas \subseteq Nat
<1>1. NumIpas \in Nat
  BY DeviceAssumption
<1> QED BY <1>1 DEF Ipas

LEMMA JobStep ==
  ASSUME Types, NEW c \in Cpus, NEW j \in Job, job' = [job EXCEPT ![c] = j]
  PROVE  Others(c) /\ job'[c] = j /\ job' \in [Cpus -> Job]
BY DEF Types, Others

LEMMA GoStep ==
  ASSUME Types, NEW c \in Cpus, NEW l \in Labels, Go(c, l)
  PROVE  /\ Others(c) /\ job' \in [Cpus -> Job]
         /\ job'[c] = [job[c] EXCEPT !.pc = l]
<1>1. job[c] \in Job
  BY DEF Types
<1>2. [job[c] EXCEPT !.pc = l] \in Job
  BY <1>1 DEF Job
<1>3. job' = [job EXCEPT ![c] = [job[c] EXCEPT !.pc = l]]
  BY DEF Go, Types
<1> QED BY <1>2, <1>3, JobStep

LEMMA ReturnStep ==
  ASSUME Types, NEW c \in Cpus, Return(c)
  PROVE  Others(c) /\ job' \in [Cpus -> Job] /\ job'[c] = Idle
BY IdleJob, JobStep DEF Return

LEMMA ReadsStep ==
  ASSUME Types, NEW c \in Cpus, NEW l \in Labels, Reads(c, l)
  PROVE  /\ Others(c) /\ job' \in [Cpus -> Job]
         /\ job'[c] = [job[c] EXCEPT !.pc = l, !.rim = rim]
<1>1. job[c] \in Job /\ rim \in Seq(Links)
  BY DEF Types
<1>2. [job[c] EXCEPT !.pc = l, !.rim = rim] \in Job
  BY <1>1 DEF Job
<1>3. job' = [job EXCEPT ![c] = [job[c] EXCEPT !.pc = l, !.rim = rim]]
  BY DEF Reads, Types
<1> QED BY <1>2, <1>3, JobStep

(* What is released is CPU c's own, or the lock of a table. *)
Own(c, gs) == \A h \in gs \cap ({Rd} \cup Pages) : lock[h] = c
Keeps(c, gs) == \A h \in ({Rd} \cup Pages) \ gs : lock[h] = c => lock'[h] = c
Locked == lock' \in [Granules -> Cpus \cup {NoCpu}]

LEMMA RdGranule == Rd \in Granules /\ Root \in Granules /\ Pages \subseteq Granules
BY DEF Granules

LEMMA LocksStep ==
  ASSUME Types, NEW c \in Cpus, NEW g \in Granules, NEW gs, Locks(c, g, gs), Own(c, gs)
  PROVE  Locked /\ Fair(c) /\ Keeps(c, gs) /\ (g \notin gs => lock'[g] = c)
<1>1. {Rd} \cup Pages \subseteq Granules
  BY DEF Granules
<1> QED BY <1>1 DEF Types, Locks, Own, Keeps, Fair, Locked

LEMMA UnlocksStep ==
  ASSUME Types, NEW c \in Cpus, NEW gs, Unlocks(gs), Own(c, gs)
  PROVE  Locked /\ Fair(c) /\ Keeps(c, gs)
<1>1. {Rd} \cup Pages \subseteq Granules
  BY DEF Granules
<1> QED BY <1>1 DEF Types, Unlocks, Own, Keeps, Fair, Locked

LEMMA SameLocks ==
  ASSUME Types, NEW c \in Cpus, UNCHANGED lock
  PROVE  Locked /\ Fair(c) /\ Keeps(c, {})
BY DEF Types, Keeps, Fair, Locked

LEMMA TablesApart ==
  ASSUME NEW i
  PROVE  Llt(i) \in Granules /\ Llt(i) \notin {Rd} \cup Pages /\ Root \notin {Rd} \cup Pages
<1>1. Rd # Root
  BY DEF Rd, Root
<1> QED BY <1>1, DeviceAssumption DEF Llt, Granules, Tabled

LEMMA OwnTables ==
  ASSUME NEW c, NEW i
  PROVE  Own(c, {Llt(i)}) /\ Own(c, {Root}) /\ Own(c, {})
BY TablesApart DEF Own

LEMMA TakesStep ==
  ASSUME Types, NEW c \in Cpus, NEW g \in Granules, Locks(c, g, {})
  PROVE  Locked /\ Fair(c) /\ Keeps(c, {}) /\ lock'[g] = c
<1>1. Own(c, {})
  BY DEF Own
<1> QED BY <1>1, LocksStep

(* The lock of the root for that of the RD *)
LEMMA RootStep ==
  ASSUME Types, NEW c \in Cpus, Locks(c, Root, {Rd}), lock[Rd] = c
  PROVE  Locked /\ Fair(c) /\ Keeps(c, {Rd})
<1>1. Own(c, {Rd}) /\ Root \in Granules
  BY DEF Own, Granules
<1> QED BY <1>1, LocksStep

LEMMA WalkStep ==
  ASSUME Types, NEW c \in Cpus, NEW i, NEW l \in Labels, Walk(c, i, l)
  PROVE  /\ Locked /\ Fair(c) /\ Keeps(c, {Root})
         /\ Others(c) /\ job' \in [Cpus -> Job] /\ job'[c] = [job[c] EXCEPT !.pc = l]
<1>1. CASE i \in Tabled
  <2>1. TableOf[i] \in Granules /\ Locks(c, TableOf[i], {Root}) /\ Own(c, {Root})
    BY <1>1, DeviceAssumption, OwnTables DEF Walk, Granules
  <2> QED BY <2>1, LocksStep, GoStep DEF Walk
<1>2. CASE i \notin Tabled
  <2>1. Locked /\ Fair(c) /\ Keeps(c, {})
    BY <1>2, SameLocks DEF Walk
  <2> QED BY <2>1, GoStep DEF Walk, Keeps
<1> QED BY <1>1, <1>2

---------------------------------------------------------------------------
(* The steps that change nothing but locks and a job: what is left to show *)
(* of each is that the command still has its locks and what it relies on.  *)
LEMMA CurrentJob ==
  ASSUME DeviceIInv, NEW c \in Cpus
  PROVE  Types /\ job[c] \in Job /\ LocksAt(c) /\ SeenAt(c) /\ CurrentAt(c)
BY DEF DeviceIInv, Types

Calm == UNCHANGED <<leaf, data, active, rim>>
Stands(c) == LocksAt(c) /\ SeenAt(c) /\ CurrentAt(c)
Steps(c) == Others(c) /\ job' \in [Cpus -> Job]

LEMMA CalmQed ==
  ASSUME DeviceIInv, NEW c \in Cpus, Calm, Steps(c), Locked, Fair(c), Stands(c)',
         job[c].pc # "destroy_page" /\ job'[c].pc # "destroy_page"
  PROVE  DeviceIInv'
BY CalmStep DEF Calm, Stands, Steps, Locked

(* A command that is over has nothing. *)
LEMMA IdleStands ==
  ASSUME NEW c \in Cpus, job'[c] = Idle
  PROVE  Stands(c)' /\ job'[c].pc # "destroy_page"
BY DEF Stands, LocksAt, SeenAt, CurrentAt, InRdSection, InPage, At, Idle

LEMMA DataCreateStep ==
  ASSUME DeviceIInv, NEW c \in Cpus, NEW kind \in {"device", "data", "unknown"},
         NEW p \in Pages, NEW i \in Ipas, NEW r \in Ranges \cup {<<>>},
         DataCreate(c, kind, p, i, r)
  PROVE  DeviceIInv'
<1> USE CurrentJob
<1> DEFINE j == [Idle EXCEPT !.pc = "create_page", !.kind = kind, !.page = p, !.ipa = i,
                             !.ranges = r]
<1>1. j \in Job
  <2>1. i \in Nat /\ "create_page" \in Labels
    BY IpasAreNat DEF Labels
  <2> QED BY <2>1, IdleJob DEF Job
<1>2. Steps(c) /\ job'[c] = j
  BY <1>1, JobStep DEF DataCreate, Steps
<1>3. Locked /\ Fair(c) /\ lock'[Rd] = c
  BY TakesStep, RdGranule DEF DataCreate
<1>4. Stands(c)'
  BY <1>2, <1>3 DEF Stands, LocksAt, SeenAt, CurrentAt, InRdSection, InPage, At, Idle
<1> QED BY <1>2, <1>3, <1>4, CalmQed DEF DataCreate, Calm, memory, At, Idle

LEMMA DataCreateLockStep ==
  ASSUME DeviceIInv, NEW c \in Cpus, DataCreateLock(c)
  PROVE  DeviceIInv'
<1> USE CurrentJob
<1>1. At(c, "create_page") /\ Calm /\ lock[Rd] = c
  BY DEF DataCreateLock, Calm, memory, LocksAt, InRdSection, At
<1> DEFINE refused == job[c].page \in data \/ (job[c].kind # "unknown" /\ active)
<1>2. CASE refused
  <2>1. Unlocks({Rd}) /\ Return(c)
    BY <1>2 DEF DataCreateLock
  <2>2. Locked /\ Fair(c)
    BY <2>1, <1>1, UnlocksStep DEF Own
  <2>3. Steps(c) /\ job'[c] = Idle
    BY <2>1, ReturnStep DEF Steps
  <2> QED BY <1>1, <2>2, <2>3, IdleStands, CalmQed DEF At
<1>3. CASE ~refused
  <2>1. Locks(c, job[c].page, {}) /\ Go(c, "create_root")
    BY <1>3 DEF DataCreateLock
  <2>2. job[c].page \in Pages
    BY <1>1 DEF SeenAt, At
  <2>3. Locked /\ Fair(c) /\ Keeps(c, {}) /\ lock'[job[c].page] = c
    BY <2>1, <2>2, TakesStep, RdGranule
  <2>4. Steps(c) /\ job'[c] = [job[c] EXCEPT !.pc = "create_root"]
    BY <2>1, GoStep DEF Steps, Labels
  <2>5. Stands(c)'
    BY <1>1, <1>3, <2>2, <2>3, <2>4
    DEF Stands, LocksAt, SeenAt, CurrentAt, InRdSection, InPage, At, Keeps, Calm, Job
  <2> QED BY <1>1, <2>3, <2>4, <2>5, CalmQed DEF At, Job
<1> QED BY <1>2, <1>3

LEMMA DataCreateRootStep ==
  ASSUME DeviceIInv, NEW c \in Cpus, DataCreateRoot(c)
  PROVE  DeviceIInv'
<1> USE CurrentJob
<1>1. At(c, "create_root") /\ Calm
  BY DEF DataCreateRoot, Calm, memory
<1>2. Locked /\ Fair(c) /\ Keeps(c, {})
  BY TakesStep, RdGranule DEF DataCreateRoot
<1>3. Steps(c) /\ job'[c] = [job[c] EXCEPT !.pc = "create_walk"]
  BY GoStep DEF DataCreateRoot, Steps, Labels
<1>4. Stands(c)'
  BY <1>1, <1>2, <1>3
  DEF Stands, LocksAt, SeenAt, CurrentAt, InRdSection, InPage, At, Keeps, Calm, Job
<1> QED BY <1>1, <1>2, <1>3, <1>4, CalmQed DEF At, Job

LEMMA DataCreateWalkStep ==
  ASSUME DeviceIInv, NEW c \in Cpus, DataCreateWalk(c)
  PROVE  DeviceIInv'
<1> USE CurrentJob
<1>1. At(c, "create_walk") /\ Calm /\ Walk(c, job[c].ipa, "create")
  BY DEF DataCreateWalk, Walk, Calm, memory
<1>2. /\ Locked /\ Fair(c) /\ Keeps(c, {Root})
      /\ Steps(c) /\ job'[c] = [job[c] EXCEPT !.pc = "create"]
  BY <1>1, WalkStep DEF Steps, Labels
<1>3. Stands(c)'
  BY <1>1, <1>2, TablesApart
  DEF Stands, LocksAt, SeenAt, CurrentAt, InRdSection, InPage, At, Keeps, Calm, Job
<1> QED BY <1>1, <1>2, <1>3, CalmQed DEF At, Job

(* A command ends: it gives back locks of its own. *)
LEMMA EndStep ==
  ASSUME DeviceIInv, NEW c \in Cpus, NEW gs, Own(c, gs), Unlocks(gs), Return(c), Calm,
         job[c].pc # "destroy_page"
  PROVE  DeviceIInv'
<1>1. Locked /\ Fair(c)
  BY CurrentJob, UnlocksStep
<1>2. Steps(c) /\ job'[c] = Idle
  BY CurrentJob, ReturnStep DEF Steps
<1> QED BY <1>1, <1>2, IdleStands, CalmQed

LEMMA DataCreateFailsStep ==
  ASSUME DeviceIInv, NEW c \in Cpus, DataCreateFails(c)
  PROVE  DeviceIInv'
<1>1. At(c, "create") /\ Calm /\ lock[Rd] = c /\ lock[job[c].page] = c
  BY CurrentJob DEF DataCreateFails, Calm, memory, LocksAt, InRdSection, InPage, At
<1>2. Own(c, {Llt(job[c].ipa), Rd, job[c].page})
  BY <1>1, TablesApart DEF Own
<1> QED BY <1>1, <1>2, EndStep DEF DataCreateFails, At

LEMMA DataCreateReadStep ==
  ASSUME DeviceIInv, NEW c \in Cpus, DataCreateRead(c)
  PROVE  DeviceIInv'
<1> USE CurrentJob
<1>1. /\ At(c, "create") /\ Calm /\ job[c].kind # "unknown" /\ UNCHANGED lock
      /\ job[c].ipa \in Tabled /\ leaf[job[c].ipa] = Unassigned
  BY DEF DataCreateRead, Calm, memory
<1>2. Locked /\ Fair(c) /\ Keeps(c, {})
  BY <1>1, SameLocks
<1>3. Steps(c) /\ job'[c] = [job[c] EXCEPT !.pc = "create_map", !.rim = rim]
  BY ReadsStep DEF DataCreateRead, Steps, Labels
<1>4. Stands(c)'
  BY <1>1, <1>2, <1>3
  DEF Stands, LocksAt, SeenAt, CurrentAt, InRdSection, InPage, At, Keeps, Calm, Job
<1> QED BY <1>1, <1>2, <1>3, <1>4, CalmQed DEF At, Job

(* The ranges *)
LEMMA OneRange ==
  ASSUME DeviceIInv, NEW c \in Cpus, job[c].ranges # <<>>
  PROVE  Len(job[c].ranges) = 1 /\ Last(c) /\ DevRange(c) \in Ipas \X Pages
<1>1. job[c].ranges \in Ranges /\ job[c].k = 1
  BY CurrentJob DEF Job, SeenAt
<1>2. job[c].ranges \in Seq(Ipas \X Pages) /\ Len(job[c].ranges) <= 1
  BY <1>1, DeviceAssumption DEF DeviceIInv, SinglePages
<1>3. Len(job[c].ranges) \in Nat /\ Len(job[c].ranges) # 0
  BY <1>2, LenProperties, EmptySeq
<1>4. Len(job[c].ranges) = 1
  <2>1. \A n \in Nat : n <= 1 /\ n # 0 => n = 1
    OBVIOUS
  <2> QED BY <1>2, <1>3, <2>1
<1>5. job[c].ranges[1] \in Ipas \X Pages
  BY <1>2, <1>4, ElementOfSeq
<1> QED BY <1>1, <1>4, <1>5 DEF Last, DevRange

LEMMA FirstStep ==
  ASSUME Types, NEW c \in Cpus, NEW l \in Labels, FromTheFirst(c, l)
  PROVE  /\ Others(c) /\ job' \in [Cpus -> Job]
         /\ job'[c] = [job[c] EXCEPT !.pc = l, !.k = 1]
<1>1. job[c] \in Job
  BY DEF Types
<1>2. [job[c] EXCEPT !.pc = l, !.k = 1] \in Job
  BY <1>1 DEF Job
<1>3. job' = [job EXCEPT ![c] = [job[c] EXCEPT !.pc = l, !.k = 1]]
  BY DEF FromTheFirst, Types
<1> QED BY <1>2, <1>3, JobStep

LEMMA RangeIsDataStep ==
  ASSUME DeviceIInv, NEW c \in Cpus, RangeIsData(c)
  PROVE  DeviceIInv'
<1> USE CurrentJob
<1>1. At(c, "ranges") /\ Calm /\ UNCHANGED lock
  BY DEF RangeIsData, Calm, memory
<1>2. Locked /\ Fair(c) /\ Keeps(c, {})
  BY <1>1, SameLocks
<1>3. FromTheFirst(c, "check_rd") \/ Return(c)
  BY OneRange DEF RangeIsData
<1>4. CASE FromTheFirst(c, "check_rd")
  <2>1. Steps(c) /\ job'[c] = [job[c] EXCEPT !.pc = "check_rd", !.k = 1]
    BY <1>4, FirstStep DEF Steps, Labels
  <2>2. Stands(c)'
    BY <1>1, <1>2, <2>1
    DEF Stands, LocksAt, SeenAt, CurrentAt, InRdSection, InPage, At, Keeps, Calm, Job
  <2> QED BY <1>1, <1>2, <2>1, <2>2, CalmQed DEF At, Job
<1>5. CASE Return(c)
  <2>1. Steps(c) /\ job'[c] = Idle
    BY <1>5, ReturnStep DEF Steps
  <2> QED BY <1>1, <1>2, <2>1, IdleStands, CalmQed DEF At
<1> QED BY <1>3, <1>4, <1>5

LEMMA CheckRdStep ==
  ASSUME DeviceIInv, NEW c \in Cpus, CheckRd(c)
  PROVE  DeviceIInv'
<1> USE CurrentJob
<1>1. At(c, "check_rd") /\ Calm
  BY DEF CheckRd, Calm, memory
<1>2. Locked /\ Fair(c) /\ Keeps(c, {}) /\ lock'[Rd] = c
  BY TakesStep, RdGranule DEF CheckRd
<1>3. PICK l \in {"attach", "check_root"} :
        Go(c, l) /\ (l = "check_root" => job[c].ranges # <<>>)
  BY DEF CheckRd
<1>4. Steps(c) /\ job'[c] = [job[c] EXCEPT !.pc = l]
  BY <1>3, GoStep DEF Steps, Labels
<1>5. Stands(c)'
  BY <1>1, <1>2, <1>3, <1>4
  DEF Stands, LocksAt, SeenAt, CurrentAt, InRdSection, InPage, At, Keeps, Calm, Job
<1> QED BY <1>1, <1>2, <1>4, <1>5, CalmQed DEF At, Job

LEMMA CheckRootStep ==
  ASSUME DeviceIInv, NEW c \in Cpus, CheckRoot(c)
  PROVE  DeviceIInv'
<1> USE CurrentJob
<1>1. At(c, "check_root") /\ Calm /\ lock[Rd] = c
  BY DEF CheckRoot, Calm, memory, LocksAt, InRdSection, SeenAt
<1>2. Locked /\ Fair(c) /\ Keeps(c, {Rd})
  BY <1>1, RootStep DEF CheckRoot
<1>3. Steps(c) /\ job'[c] = [job[c] EXCEPT !.pc = "check_walk"]
  BY GoStep DEF CheckRoot, Steps, Labels
<1>4. Stands(c)'
  BY <1>1, <1>2, <1>3
  DEF Stands, LocksAt, SeenAt, CurrentAt, InRdSection, InPage, At, Keeps, Calm, Job
<1> QED BY <1>1, <1>2, <1>3, <1>4, CalmQed DEF At, Job

LEMMA CheckWalkStep ==
  ASSUME DeviceIInv, NEW c \in Cpus, CheckWalk(c)
  PROVE  DeviceIInv'
<1> USE CurrentJob
<1>1. At(c, "check_walk") /\ Calm /\ Walk(c, DevRange(c)[1], "check")
  BY DEF CheckWalk, Walk, Calm, memory
<1>2. /\ Locked /\ Fair(c) /\ Keeps(c, {Root})
      /\ Steps(c) /\ job'[c] = [job[c] EXCEPT !.pc = "check"]
  BY <1>1, WalkStep DEF Steps, Labels
<1>3. Stands(c)'
  BY <1>1, <1>2, TablesApart
  DEF Stands, LocksAt, SeenAt, CurrentAt, InRdSection, InPage, At, Keeps, Calm, Job
<1> QED BY <1>1, <1>2, <1>3, CalmQed DEF At, Job

LEMMA CheckFailsStep ==
  ASSUME DeviceIInv, NEW c \in Cpus, CheckFails(c)
  PROVE  DeviceIInv'
<1> USE CurrentJob
<1>1. At(c, "check") /\ Calm /\ Return(c)
  BY DEF CheckFails, Calm, memory
<1>2. CASE UNCHANGED lock
  <2>1. Locked /\ Fair(c)
    BY <1>2, SameLocks
  <2>2. Steps(c) /\ job'[c] = Idle
    BY <1>1, ReturnStep DEF Steps
  <2> QED BY <1>1, <2>1, <2>2, IdleStands, CalmQed DEF At
<1>3. CASE Unlocks({Root})
  BY <1>1, <1>3, OwnTables, EndStep DEF At
<1>4. CASE Unlocks({Llt(DevRange(c)[1])})
  BY <1>1, <1>4, OwnTables, EndStep DEF At
<1> QED BY <1>2, <1>3, <1>4 DEF CheckFails

LEMMA CheckPassesStep ==
  ASSUME DeviceIInv, NEW c \in Cpus, CheckPasses(c)
  PROVE  DeviceIInv'
<1> USE CurrentJob
<1>1. At(c, "check") /\ Calm /\ Unlocks({Llt(DevRange(c)[1])})
  BY DEF CheckPasses, Calm, memory
<1>2. Go(c, "attach")
  BY <1>1, OneRange DEF CheckPasses, SeenAt, At
<1>3. Locked /\ Fair(c) /\ Keeps(c, {Llt(DevRange(c)[1])})
  BY <1>1, OwnTables, UnlocksStep
<1>4. Steps(c) /\ job'[c] = [job[c] EXCEPT !.pc = "attach"]
  BY <1>2, GoStep DEF Steps, Labels
<1>5. Stands(c)'
  BY <1>1, <1>3, <1>4, TablesApart
  DEF Stands, LocksAt, SeenAt, CurrentAt, InRdSection, InPage, At, Keeps, Calm, Job
<1> QED BY <1>1, <1>3, <1>4, <1>5, CalmQed DEF At, Job

LEMMA AttachReadStep ==
  ASSUME DeviceIInv, NEW c \in Cpus, AttachRead(c)
  PROVE  DeviceIInv'
<1> USE CurrentJob
<1>1. At(c, "attach") /\ Calm /\ UNCHANGED lock
  BY DEF AttachRead, Calm, memory
<1>2. Locked /\ Fair(c) /\ Keeps(c, {})
  BY <1>1, SameLocks
<1>3. Steps(c) /\ job'[c] = [job[c] EXCEPT !.pc = "attach_measure", !.rim = rim]
  BY ReadsStep DEF AttachRead, Steps, Labels
<1>4. Stands(c)'
  BY <1>1, <1>2, <1>3
  DEF Stands, LocksAt, SeenAt, CurrentAt, InRdSection, InPage, At, Keeps, Calm, Job
<1> QED BY <1>1, <1>2, <1>3, <1>4, CalmQed DEF At, Job

LEMMA InitRipasStep ==
  ASSUME DeviceIInv, NEW c \in Cpus, NEW i \in Ipas, InitRipas(c, i)
  PROVE  DeviceIInv'
<1> USE CurrentJob
<1> DEFINE j == [Idle EXCEPT !.pc = "ripas_root", !.ipa = i]
<1>1. j \in Job
  <2>1. i \in Nat /\ "ripas_root" \in Labels
    BY IpasAreNat DEF Labels
  <2> QED BY <2>1, IdleJob DEF Job
<1>2. Steps(c) /\ job'[c] = j
  BY <1>1, JobStep DEF InitRipas, Steps
<1>3. Locked /\ Fair(c) /\ lock'[Rd] = c
  BY TakesStep, RdGranule DEF InitRipas
<1>4. Stands(c)'
  BY <1>2, <1>3 DEF Stands, LocksAt, SeenAt, CurrentAt, InRdSection, InPage, At, Idle
<1> QED BY <1>2, <1>3, <1>4, CalmQed DEF InitRipas, Calm, memory, At, Idle

LEMMA InitRipasRootStep ==
  ASSUME DeviceIInv, NEW c \in Cpus, InitRipasRoot(c)
  PROVE  DeviceIInv'
<1> USE CurrentJob
<1>1. At(c, "ripas_root") /\ Calm /\ lock[Rd] = c
  BY DEF InitRipasRoot, Calm, memory, LocksAt, InRdSection, At
<1>2. Locked /\ Fair(c) /\ Keeps(c, {Rd})
  BY <1>1, RootStep DEF InitRipasRoot
<1>3. Steps(c) /\ job'[c] = [job[c] EXCEPT !.pc = "ripas_walk"]
  BY GoStep DEF InitRipasRoot, Steps, Labels
<1>4. Stands(c)'
  BY <1>1, <1>2, <1>3
  DEF Stands, LocksAt, SeenAt, CurrentAt, InRdSection, InPage, At, Keeps, Calm, Job
<1> QED BY <1>1, <1>2, <1>3, <1>4, CalmQed DEF At, Job

LEMMA InitRipasWalkStep ==
  ASSUME DeviceIInv, NEW c \in Cpus, InitRipasWalk(c)
  PROVE  DeviceIInv'
<1> USE CurrentJob
<1>1. At(c, "ripas_walk") /\ Calm /\ Walk(c, job[c].ipa, "ripas")
  BY DEF InitRipasWalk, Walk, Calm, memory
<1>2. /\ Locked /\ Fair(c) /\ Keeps(c, {Root})
      /\ Steps(c) /\ job'[c] = [job[c] EXCEPT !.pc = "ripas"]
  BY <1>1, WalkStep DEF Steps, Labels
<1>3. Stands(c)'
  BY <1>1, <1>2, TablesApart
  DEF Stands, LocksAt, SeenAt, CurrentAt, InRdSection, InPage, At, Keeps, Calm, Job
<1> QED BY <1>1, <1>2, <1>3, CalmQed DEF At, Job

LEMMA InitRipasFailsStep ==
  ASSUME DeviceIInv, NEW c \in Cpus, InitRipasFails(c)
  PROVE  DeviceIInv'
<1>1. At(c, "ripas") /\ Calm
  BY DEF InitRipasFails, Calm, memory
<1> QED BY <1>1, OwnTables, EndStep DEF InitRipasFails, At

LEMMA InitRipasReadStep ==
  ASSUME DeviceIInv, NEW c \in Cpus, InitRipasRead(c)
  PROVE  DeviceIInv'
<1> USE CurrentJob
<1>1. At(c, "ripas") /\ Calm /\ UNCHANGED lock
  BY DEF InitRipasRead, Calm, memory
<1>2. Locked /\ Fair(c) /\ Keeps(c, {})
  BY <1>1, SameLocks
<1>3. Steps(c) /\ job'[c] = [job[c] EXCEPT !.pc = "ripas_measure", !.rim = rim]
  BY ReadsStep DEF InitRipasRead, Steps, Labels
<1>4. Stands(c)'
  BY <1>1, <1>2, <1>3
  DEF Stands, LocksAt, SeenAt, CurrentAt, InRdSection, InPage, At, Keeps, Calm, Job
<1> QED BY <1>1, <1>2, <1>3, <1>4, CalmQed DEF At, Job

LEMMA RecCreateStep ==
  ASSUME DeviceIInv, NEW c \in Cpus, RecCreate(c)
  PROVE  DeviceIInv'
<1> USE CurrentJob
<1>1. At(c, "idle") /\ Calm
  BY DEF RecCreate, Calm, memory
<1>2. Locked /\ Fair(c) /\ Keeps(c, {}) /\ lock'[Rd] = c
  BY TakesStep, RdGranule DEF RecCreate
<1>3. Steps(c) /\ job'[c] = [job[c] EXCEPT !.pc = "rec"]
  BY GoStep DEF RecCreate, Steps, Labels
<1>4. Stands(c)'
  BY <1>1, <1>2, <1>3
  DEF Stands, LocksAt, SeenAt, CurrentAt, InRdSection, InPage, At, Keeps, Calm, Job
<1> QED BY <1>1, <1>2, <1>3, <1>4, CalmQed DEF At, Job

LEMMA RecCreateFailsStep ==
  ASSUME DeviceIInv, NEW c \in Cpus, RecCreateFails(c)
  PROVE  DeviceIInv'
<1>1. At(c, "rec") /\ Calm /\ lock[Rd] = c
  BY CurrentJob DEF RecCreateFails, Calm, memory, LocksAt, InRdSection, At
<1>2. Own(c, {Rd})
  BY <1>1 DEF Own
<1> QED BY <1>1, <1>2, EndStep DEF RecCreateFails, At

LEMMA RecCreateReadStep ==
  ASSUME DeviceIInv, NEW c \in Cpus, RecCreateRead(c)
  PROVE  DeviceIInv'
<1> USE CurrentJob
<1>1. At(c, "rec") /\ Calm /\ UNCHANGED lock /\ ~active
  BY DEF RecCreateRead, Calm, memory
<1>2. Locked /\ Fair(c) /\ Keeps(c, {})
  BY <1>1, SameLocks
<1>3. Steps(c) /\ job'[c] = [job[c] EXCEPT !.pc = "rec_measure", !.rim = rim]
  BY ReadsStep DEF RecCreateRead, Steps, Labels
<1>4. Stands(c)'
  BY <1>1, <1>2, <1>3
  DEF Stands, LocksAt, SeenAt, CurrentAt, InRdSection, InPage, At, Keeps, Calm, Job
<1> QED BY <1>1, <1>2, <1>3, <1>4, CalmQed DEF At, Job

LEMMA DataDestroyStep ==
  ASSUME DeviceIInv, NEW c \in Cpus, NEW i \in Ipas, DataDestroy(c, i)
  PROVE  DeviceIInv'
<1> USE CurrentJob
<1> DEFINE j == [Idle EXCEPT !.pc = "destroy_root", !.ipa = i]
<1>1. j \in Job
  <2>1. i \in Nat /\ "destroy_root" \in Labels
    BY IpasAreNat DEF Labels
  <2> QED BY <2>1, IdleJob DEF Job
<1>2. Steps(c) /\ job'[c] = j
  BY <1>1, JobStep DEF DataDestroy, Steps
<1>3. Locked /\ Fair(c) /\ lock'[Rd] = c
  BY TakesStep, RdGranule DEF DataDestroy
<1>4. Stands(c)'
  BY <1>2, <1>3 DEF Stands, LocksAt, SeenAt, CurrentAt, InRdSection, InPage, At, Idle
<1> QED BY <1>2, <1>3, <1>4, CalmQed DEF DataDestroy, Calm, memory, At, Idle

LEMMA DataDestroyRootStep ==
  ASSUME DeviceIInv, NEW c \in Cpus, DataDestroyRoot(c)
  PROVE  DeviceIInv'
<1> USE CurrentJob
<1>1. At(c, "destroy_root") /\ Calm /\ lock[Rd] = c
  BY DEF DataDestroyRoot, Calm, memory, LocksAt, InRdSection, At
<1>2. Locked /\ Fair(c) /\ Keeps(c, {Rd})
  BY <1>1, RootStep DEF DataDestroyRoot
<1>3. Steps(c) /\ job'[c] = [job[c] EXCEPT !.pc = "destroy_walk"]
  BY GoStep DEF DataDestroyRoot, Steps, Labels
<1>4. Stands(c)'
  BY <1>1, <1>2, <1>3
  DEF Stands, LocksAt, SeenAt, CurrentAt, InRdSection, InPage, At, Keeps, Calm, Job
<1> QED BY <1>1, <1>2, <1>3, <1>4, CalmQed DEF At, Job

LEMMA DataDestroyWalkStep ==
  ASSUME DeviceIInv, NEW c \in Cpus, DataDestroyWalk(c)
  PROVE  DeviceIInv'
<1> USE CurrentJob
<1>1. At(c, "destroy_walk") /\ Calm /\ Walk(c, job[c].ipa, "destroy")
  BY DEF DataDestroyWalk, Walk, Calm, memory
<1>2. /\ Locked /\ Fair(c) /\ Keeps(c, {Root})
      /\ Steps(c) /\ job'[c] = [job[c] EXCEPT !.pc = "destroy"]
  BY <1>1, WalkStep DEF Steps, Labels
<1>3. Stands(c)'
  BY <1>1, <1>2, TablesApart
  DEF Stands, LocksAt, SeenAt, CurrentAt, InRdSection, InPage, At, Keeps, Calm, Job
<1> QED BY <1>1, <1>2, <1>3, CalmQed DEF At, Job

(* RSI_DEV_MEM *)
LEMMA DevMemStep ==
  ASSUME DeviceIInv, NEW c \in Cpus, NEW i \in Ipas, NEW n \in 1 .. MaxSize, DevMem(c, i, n)
  PROVE  DeviceIInv'
<1> USE CurrentJob
<1> DEFINE j == [Idle EXCEPT !.pc = "dev", !.ipa = i, !.left = n]
<1>1. j \in Job
  <2>1. i \in Nat /\ "dev" \in Labels
    BY IpasAreNat DEF Labels
  <2>2. n \in Int
    BY DeviceAssumption
  <2> QED BY <2>1, <2>2, IdleJob DEF Job
<1>2. Steps(c) /\ job'[c] = j
  BY <1>1, JobStep DEF DevMem, Steps
<1>3. Locked /\ Fair(c) /\ lock'[Rd] = c
  BY TakesStep, RdGranule DEF DevMem
<1>4. Stands(c)'
  BY <1>2, <1>3 DEF Stands, LocksAt, SeenAt, CurrentAt, InRdSection, InPage, At, Idle
<1> QED BY <1>2, <1>3, <1>4, CalmQed DEF DevMem, Calm, memory, At, Idle

LEMMA DevMemBeyondStep ==
  ASSUME DeviceIInv, NEW c \in Cpus, DevMemBeyond(c)
  PROVE  DeviceIInv'
<1> USE CurrentJob
<1>1. At(c, "dev") /\ Calm /\ Unlocks({Llt(job[c].ipa - 1)})
  BY DEF DevMemBeyond, Calm, memory
<1>2. Locked /\ Fair(c) /\ Keeps(c, {Llt(job[c].ipa - 1)})
  BY <1>1, OwnTables, UnlocksStep
<1>3. PICK n \in Int : n = job[c].left - 1
  BY DEF Job
<1> DEFINE j == [job[c] EXCEPT !.left = n]
<1>4. j \in Job
  BY DEF Job
<1>5. job' = [job EXCEPT ![c] = j]
  BY <1>3 DEF DevMemBeyond, Types
<1>6. Steps(c) /\ job'[c] = j
  BY <1>4, <1>5, JobStep DEF Steps
<1>7. Stands(c)'
  BY <1>1, <1>2, <1>6, TablesApart
  DEF Stands, LocksAt, SeenAt, CurrentAt, InRdSection, InPage, At, Keeps, Calm, Job
<1> QED BY <1>1, <1>2, <1>6, <1>7, CalmQed DEF At, Job

LEMMA DevMemRootStep ==
  ASSUME DeviceIInv, NEW c \in Cpus, DevMemRoot(c)
  PROVE  DeviceIInv'
<1> USE CurrentJob
<1>1. At(c, "dev") /\ Calm
  BY DEF DevMemRoot, Calm, memory
<1>2. Locked /\ Fair(c) /\ Keeps(c, {})
  BY TakesStep, RdGranule DEF DevMemRoot
<1>3. Steps(c) /\ job'[c] = [job[c] EXCEPT !.pc = "dev_walk"]
  BY GoStep DEF DevMemRoot, Steps, Labels
<1>4. Stands(c)'
  BY <1>1, <1>2, <1>3
  DEF Stands, LocksAt, SeenAt, CurrentAt, InRdSection, InPage, At, Keeps, Calm, Job
<1> QED BY <1>1, <1>2, <1>3, <1>4, CalmQed DEF At, Job

LEMMA DevMemWalkStep ==
  ASSUME DeviceIInv, NEW c \in Cpus, DevMemWalk(c)
  PROVE  DeviceIInv'
<1> USE CurrentJob
<1>1. At(c, "dev_walk") /\ Calm /\ Walk(c, job[c].ipa, "dev_entry")
  BY DEF DevMemWalk, Walk, Calm, memory
<1>2. /\ Locked /\ Fair(c) /\ Keeps(c, {Root})
      /\ Steps(c) /\ job'[c] = [job[c] EXCEPT !.pc = "dev_entry"]
  BY <1>1, WalkStep DEF Steps, Labels
<1>3. Stands(c)'
  BY <1>1, <1>2, TablesApart
  DEF Stands, LocksAt, SeenAt, CurrentAt, InRdSection, InPage, At, Keeps, Calm, Job
<1> QED BY <1>1, <1>2, <1>3, CalmQed DEF At, Job

LEMMA DevMemFailsStep ==
  ASSUME DeviceIInv, NEW c \in Cpus, DevMemFails(c)
  PROVE  DeviceIInv'
<1> USE CurrentJob
<1>1. At(c, "dev_entry") /\ Calm /\ Unlocks({Llt(job[c].ipa)})
  BY DEF DevMemFails, Calm, memory
<1>2. Locked /\ Fair(c) /\ Keeps(c, {Llt(job[c].ipa)})
  BY <1>1, OwnTables, UnlocksStep
<1>3. Steps(c) /\ job'[c] = [job[c] EXCEPT !.pc = "dev_unlock"]
  BY GoStep DEF DevMemFails, Steps, Labels
<1>4. Stands(c)'
  BY <1>1, <1>2, <1>3, TablesApart
  DEF Stands, LocksAt, SeenAt, CurrentAt, InRdSection, InPage, At, Keeps, Calm, Job
<1> QED BY <1>1, <1>2, <1>3, <1>4, CalmQed DEF At, Job

LEMMA DevMemUnlockStep ==
  ASSUME DeviceIInv, NEW c \in Cpus, DevMemUnlock(c)
  PROVE  DeviceIInv'
<1> USE CurrentJob
<1>1. At(c, "dev_unlock") /\ Calm /\ Unlocks({Llt(job[c].ipa)})
  BY DEF DevMemUnlock, Calm, memory
<1>2. Locked /\ Fair(c) /\ Keeps(c, {Llt(job[c].ipa)})
  BY <1>1, OwnTables, UnlocksStep
<1>3. PICK n \in Int : n = job[c].left - 1
  BY DEF Job
<1> DEFINE j == [job[c] EXCEPT !.pc = "dev", !.left = n]
<1>4. j \in Job
  BY DEF Job, Labels
<1>5. job' = [job EXCEPT ![c] = j]
  BY <1>3 DEF DevMemUnlock, Types
<1>6. Steps(c) /\ job'[c] = j
  BY <1>4, <1>5, JobStep DEF Steps
<1>7. Stands(c)'
  BY <1>1, <1>2, <1>6, TablesApart
  DEF Stands, LocksAt, SeenAt, CurrentAt, InRdSection, InPage, At, Keeps, Calm, Job
<1> QED BY <1>1, <1>2, <1>6, <1>7, CalmQed DEF At, Job

LEMMA DevMemPageStep ==
  ASSUME DeviceIInv, NEW c \in Cpus, DevMemPage(c)
  PROVE  DeviceIInv'
<1> USE CurrentJob
<1>1. PICK p \in Pages : p = leaf[job[c].ipa]
  BY DEF DevMemPage, MapsPage
<1>2. At(c, "dev_entry") /\ Calm /\ Locks(c, p, {Llt(job[c].ipa)})
  BY <1>1 DEF DevMemPage, Calm, memory
<1>3. Locked /\ Fair(c) /\ Keeps(c, {Llt(job[c].ipa)}) /\ lock'[p] = c
  <2>1. p \in Granules /\ p \notin {Llt(job[c].ipa)} /\ Own(c, {Llt(job[c].ipa)})
    BY TablesApart, RdGranule, OwnTables
  <2> QED BY <1>2, <2>1, LocksStep
<1>4. PICK n \in Int : n = job[c].left - 1
  BY DEF Job
<1>5. PICK i \in Nat : i = job[c].ipa + 1
  BY DEF Job
<1> DEFINE j == [job[c] EXCEPT !.pc = "dev", !.ipa = i, !.left = n, !.found = @ \cup {p}]
<1>6. j \in Job
  BY DEF Job, Labels
<1>7. job' = [job EXCEPT ![c] = j]
  BY <1>1, <1>4, <1>5 DEF DevMemPage, Types
<1>8. Steps(c) /\ job'[c] = j
  BY <1>6, <1>7, JobStep DEF Steps
<1>9. Stands(c)'
  BY <1>2, <1>3, <1>8, TablesApart
  DEF Stands, LocksAt, SeenAt, CurrentAt, InRdSection, InPage, At, Keeps, Calm, Job
<1> QED BY <1>2, <1>3, <1>8, <1>9, CalmQed DEF At, Job

LEMMA DevMemEndStep ==
  ASSUME DeviceIInv, NEW c \in Cpus, DevMemEnd(c)
  PROVE  DeviceIInv'
<1>1. At(c, "dev") /\ Calm /\ lock[Rd] = c /\ \A p \in job[c].found : lock[p] = c
  BY CurrentJob DEF DevMemEnd, Calm, memory, LocksAt, InRdSection, At
<1>2. Own(c, job[c].found \cup {Rd})
  BY <1>1 DEF Own
<1> QED BY <1>1, <1>2, EndStep DEF DevMemEnd, At

---------------------------------------------------------------------------
(* The steps that measure                                                  *)
LEMMA ExtendStep ==
  ASSUME Types, NEW c \in Cpus, NEW l \in Links, Extends(c, l)
  PROVE  rim' \in Seq(Links) /\ rim' # <<>> /\ rim'[Len(rim')] = l
<1>1. PICK s \in Seq(Links) : s = job[c].rim
  BY DEF Types, Job
<1>2. rim' = Append(s, l)
  BY <1>1 DEF Extends
<1>3. /\ Append(s, l) \in Seq(Links) /\ Append(s, l) # <<>>
      /\ Len(Append(s, l)) = Len(s) + 1 /\ Append(s, l)[Len(s) + 1] = l
  BY AppendProperties
<1> QED BY <1>2, <1>3

(* A step that changes the RIM, what the others rely on it included        *)
LEMMA MeasureStep ==
  ASSUME DeviceIInv, NEW c \in Cpus, UNCHANGED <<leaf, data, active>>, rim' \in Seq(Links),
         Steps(c), Locked, Fair(c), Stands(c)', \A d \in Cpus : d # c => CurrentAt(d)',
         job[c].pc # "destroy_page" /\ job'[c].pc # "destroy_page"
  PROVE  DeviceIInv'
<1>1. Types' /\ SinglePages
  BY DEF DeviceIInv, Types, Steps, Locked
<1>2. \A d \in Cpus : LocksAt(d)'
  BY OthersLocks DEF Stands, Steps
<1>3. \A d \in Cpus : SeenAt(d)'
  BY DEF DeviceIInv, Others, SeenAt, At, Stands, Steps
<1>4. \A p \in Pages : Mapped(p)' = Mapped(p) /\ Leaving(p)' = Leaving(p)
  BY DEF Mapped, Leaving, Others, At, Steps
<1>5. \A p \in Pages : Accounted(p)'
  BY <1>4 DEF DeviceIInv, Accounted
<1>6. \A d \in Cpus : CurrentAt(d)'
  BY DEF Stands
<1> QED BY <1>1, <1>2, <1>3, <1>5, <1>6 DEF DeviceIInv, SinglePages

LEMMA AttachExtendStep ==
  ASSUME DeviceIInv, NEW c \in Cpus, AttachExtend(c)
  PROVE  DeviceIInv'
<1> USE CurrentJob
<1>1. At(c, "attach_measure") /\ UNCHANGED <<leaf, data, active>> /\ UNCHANGED lock
  BY DEF AttachExtend, memory
<1>2. rim' \in Seq(Links) /\ LastIsUnlocked'
  BY ExtendStep DEF AttachExtend, Links, LastIsUnlocked
<1>3. Steps(c) /\ job'[c] = Idle
  BY ReturnStep DEF AttachExtend, Steps
<1>4. Locked /\ Fair(c)
  BY <1>1, SameLocks
<1>5. \A d \in Cpus : CurrentAt(d)'
  BY <1>2 DEF CurrentAt
<1> QED BY <1>1, <1>2, <1>3, <1>4, <1>5, IdleStands, MeasureStep DEF At

LEMMA InitRipasExtendStep ==
  ASSUME DeviceIInv, NEW c \in Cpus, InitRipasExtend(c)
  PROVE  DeviceIInv'
<1> USE CurrentJob
<1>1. At(c, "ripas_measure") /\ UNCHANGED <<leaf, data, active>>
  BY DEF InitRipasExtend, memory
<1>2. rim' \in Seq(Links) /\ LastIsUnlocked'
  BY ExtendStep DEF InitRipasExtend, Links, LastIsUnlocked
<1>3. Steps(c) /\ job'[c] = Idle
  BY ReturnStep DEF InitRipasExtend, Steps
<1>4. Locked /\ Fair(c)
  BY OwnTables, UnlocksStep DEF InitRipasExtend
<1>5. \A d \in Cpus : CurrentAt(d)'
  BY <1>2 DEF CurrentAt
<1> QED BY <1>1, <1>2, <1>3, <1>4, <1>5, IdleStands, MeasureStep DEF At

(* While a CPU is in its section of the RD, no other is. *)
LEMMA Alone ==
  ASSUME DeviceIInv, NEW c \in Cpus, InRdSection(c), NEW d \in Cpus, d # c
  PROVE  ~InRdSection(d) /\ job[d].pc \notin InPage /\ ~At(d, "rec_measure")
BY DEF DeviceIInv, LocksAt, InRdSection, InPage, At

LEMMA RecCreateExtendStep ==
  ASSUME DeviceIInv, NEW c \in Cpus, RecCreateExtend(c)
  PROVE  DeviceIInv'
<1> USE CurrentJob
<1>1. /\ At(c, "rec_measure") /\ UNCHANGED <<leaf, data, active>>
      /\ InRdSection(c) /\ lock[Rd] = c
  BY DEF RecCreateExtend, memory, InRdSection, LocksAt, At
<1>2. rim' \in Seq(Links)
  BY ExtendStep DEF RecCreateExtend, Links
<1>3. Steps(c) /\ job'[c] = Idle
  BY ReturnStep DEF RecCreateExtend, Steps
<1>4. Locked /\ Fair(c)
  <2>1. Own(c, {Rd})
    BY <1>1 DEF Own
  <2> QED BY <2>1, UnlocksStep DEF RecCreateExtend
<1>5. \A d \in Cpus : d # c => CurrentAt(d)'
  BY <1>1, <1>3, Alone DEF CurrentAt, Others, Steps, InPage, At
<1> QED BY <1>1, <1>2, <1>3, <1>4, <1>5, IdleStands, MeasureStep DEF At

---------------------------------------------------------------------------
(* The steps that map a page and take it away                              *)
LEMMA Distinct ==
  ASSUME NEW p \in Pages
  PROVE  p # Unassigned /\ p # Destroyed
BY DeviceAssumption

LEMMA DataCreateMapStep ==
  ASSUME DeviceIInv, NEW c \in Cpus, DataCreateMap(c)
  PROVE  DeviceIInv'
<1> USE CurrentJob
<1>1. At(c, "create_map") \/ At(c, "create")
  BY DEF DataCreateMap
<1>2. PICK p \in Pages, i \in Ipas : p = job[c].page /\ i = job[c].ipa /\ leaf[i] = Unassigned
  <2>1. job[c].page \in Pages /\ job[c].ipa \in Tabled /\ leaf[job[c].ipa] = Unassigned
    BY <1>1 DEF DataCreateMap, SeenAt, InPage, At
  <2> QED BY <2>1, DeviceAssumption
<1>3. /\ leaf' = [leaf EXCEPT ![i] = p] /\ data' = data \cup {p} /\ UNCHANGED active
      /\ Unlocks({Llt(i), Rd, p})
  BY <1>2 DEF DataCreateMap
<1>4. InRdSection(c) /\ lock[Rd] = c /\ lock[p] = c /\ p \notin data /\ i \in Ipas
  BY <1>1, <1>2 DEF InRdSection, LocksAt, SeenAt, InPage, At
<1>5. Locked /\ Fair(c) /\ Keeps(c, {Llt(i), Rd, p})
  <2>1. Own(c, {Llt(i), Rd, p})
    BY <1>4, TablesApart DEF Own
  <2> QED BY <1>3, <2>1, UnlocksStep
<1>6. rim' \in Seq(Links)
  BY ExtendStep DEF DataCreateMap, Links, Types
<1>7. /\ Steps(c)
      /\ job'[c] = [job[c] EXCEPT !.pc = "ranges"] \/ job'[c] = Idle
  <2>1. Go(c, "ranges") \/ Return(c)
    BY DEF DataCreateMap
  <2> QED BY <2>1, GoStep, ReturnStep DEF Steps, Labels
<1>8. Types' /\ SinglePages
  BY <1>3, <1>5, <1>6, <1>7 DEF DeviceIInv, Types, Steps, Locked
<1>9. LocksAt(c)' /\ SeenAt(c)' /\ CurrentAt(c)'
  BY <1>7 DEF LocksAt, SeenAt, CurrentAt, InRdSection, InPage, At, Idle, Job
<1>10. \A d \in Cpus : LocksAt(d)'
  BY <1>5, <1>7, <1>9, OthersLocks DEF Steps
<1>11. \A d \in Cpus : SeenAt(d)' /\ CurrentAt(d)'
  <2>1. \A d \in Cpus : d # c =>
          /\ job'[d] = job[d] /\ job[d].pc \notin InPage /\ ~At(d, "rec_measure")
          /\ SeenAt(d)
    BY <1>4, <1>7, Alone, CurrentJob DEF Steps, Others
  <2>2. \A d \in Cpus : d # c => SeenAt(d)' /\ CurrentAt(d)'
    BY <2>1 DEF SeenAt, CurrentAt, InPage, At
  <2> QED BY <1>9, <2>2
<1>12. \A q \in Pages : Leaving(q)' = Leaving(q)
  <2>1. job[c].pc # "destroy_page" /\ job'[c].pc # "destroy_page"
    BY <1>1, <1>7 DEF At, Idle, Job
  <2>2. \A d \in Cpus : d # c => job'[d] = job[d]
    BY <1>7 DEF Steps, Others
  <2> QED BY <2>1, <2>2 DEF Leaving, At
<1>13. \A q \in Pages : Accounted(q)'
  <2>1. Mapped(p) = {} /\ Leaving(p) = {}
    BY <1>4 DEF DeviceIInv, Accounted
  <2>2. Mapped(p)' = {i}
    BY <1>3, <2>1 DEF Mapped, Types
  <2>3. Accounted(p)'
    BY <1>3, <1>12, <2>1, <2>2 DEF Accounted
  <2>4. \A q \in Pages : q # p => Mapped(q)' = Mapped(q)
    BY <1>2, <1>3, Distinct DEF Mapped, Types
  <2>5. \A q \in Pages : q # p => Accounted(q)'
    BY <1>3, <1>12, <2>4 DEF Accounted, DeviceIInv
  <2> QED BY <2>3, <2>5
<1> QED BY <1>8, <1>10, <1>11, <1>13 DEF DeviceIInv, SinglePages

LEMMA DataDestroyEntryStep ==
  ASSUME DeviceIInv, NEW c \in Cpus, DataDestroyEntry(c)
  PROVE  DeviceIInv'
<1> USE CurrentJob
<1>1. At(c, "destroy") /\ UNCHANGED <<data, active, rim>>
  BY DEF DataDestroyEntry
<1>2. CASE ~MapsPage(job[c].ipa)
  <2>1. Calm /\ Unlocks({Llt(job[c].ipa)}) /\ Return(c)
    BY <1>1, <1>2 DEF DataDestroyEntry, Calm
  <2> QED BY <1>1, <2>1, OwnTables, EndStep DEF At
<1>3. CASE MapsPage(job[c].ipa)
  <2>1. PICK p \in Pages, i \in Ipas : p = leaf[i] /\ i = job[c].ipa
    BY <1>3, DeviceAssumption DEF MapsPage
  <2>2. leaf' = [leaf EXCEPT ![i] = Destroyed] /\ UNCHANGED lock
    BY <1>3, <2>1 DEF DataDestroyEntry
  <2> DEFINE j == [job[c] EXCEPT !.pc = "destroy_page", !.page = p]
  <2>3. j \in Job
    BY DEF Job, Labels
  <2>4. job' = [job EXCEPT ![c] = j]
    BY <1>3, <2>1 DEF DataDestroyEntry, Types
  <2>5. Steps(c) /\ job'[c] = j
    BY <2>3, <2>4, JobStep DEF Steps
  <2>6. Locked /\ Fair(c) /\ Keeps(c, {})
    BY <2>2, SameLocks
  <2>7. Types' /\ SinglePages
    BY <1>1, <2>2, <2>5, <2>6 DEF DeviceIInv, Types, Steps, Locked
  <2>8. LocksAt(c)' /\ SeenAt(c)' /\ CurrentAt(c)'
    BY <1>1, <2>5 DEF LocksAt, SeenAt, CurrentAt, InRdSection, InPage, At, Job
  <2>9. \A d \in Cpus : LocksAt(d)'
    BY <2>5, <2>6, <2>8, OthersLocks DEF Steps
  <2>10. \A d \in Cpus : SeenAt(d)' /\ CurrentAt(d)'
    <3>1. \A d \in Cpus : d # c => job'[d] = job[d] /\ SeenAt(d) /\ CurrentAt(d)
      BY <2>5, CurrentJob DEF Steps, Others
    <3>2. \A k \in Ipas : leaf[k] = Unassigned => leaf'[k] = Unassigned
      BY <2>1, <2>2, Distinct DEF Types
    <3>3. \A d \in Cpus : d # c => SeenAt(d)'
      BY <1>1, <3>1, <3>2, DeviceAssumption DEF SeenAt, At
    <3>4. \A d \in Cpus : d # c => CurrentAt(d)'
      BY <1>1, <3>1 DEF CurrentAt, LastIsUnlocked
    <3> QED BY <2>8, <3>3, <3>4
  <2>11. p \in data /\ Leaving(p) = {} /\ Mapped(p) = {i}
    <3>1. i \in Mapped(p)
      BY <2>1 DEF Mapped
    <3> QED BY <3>1 DEF DeviceIInv, Accounted
  <2>12. /\ job[c].pc # "destroy_page" /\ job'[c].pc = "destroy_page" /\ job'[c].page = p
        /\ \A d \in Cpus : d # c => job'[d] = job[d]
    BY <1>1, <2>5 DEF At, Steps, Others, Job
  <2>13. Mapped(p)' = {} /\ Leaving(p)' = {c}
    <3>1. Mapped(p)' = {}
      BY <2>2, <2>11, Distinct DEF Mapped, Types
    <3>2. Leaving(p)' = {c}
      BY <2>12, <2>11 DEF Leaving, At
    <3> QED BY <3>1, <3>2
  <2>14. \A q \in Pages : q # p => Mapped(q)' = Mapped(q) /\ Leaving(q)' = Leaving(q)
    <3>1. \A q \in Pages : q # p => Mapped(q)' = Mapped(q)
      BY <2>1, <2>2, Distinct DEF Mapped, Types
    <3>2. \A q \in Pages : q # p => Leaving(q)' = Leaving(q)
      BY <2>12 DEF Leaving, At
    <3> QED BY <3>1, <3>2
  <2>15. \A q \in Pages : Accounted(q)'
    <3>1. Accounted(p)'
      BY <1>1, <2>11, <2>13 DEF Accounted
    <3>2. \A q \in Pages : q # p => Accounted(q)'
      BY <1>1, <2>14 DEF Accounted, DeviceIInv
    <3> QED BY <3>1, <3>2
  <2> QED BY <2>7, <2>9, <2>10, <2>15 DEF DeviceIInv, SinglePages
<1> QED BY <1>2, <1>3

LEMMA DataDestroyPageStep ==
  ASSUME DeviceIInv, NEW c \in Cpus, DataDestroyPage(c)
  PROVE  DeviceIInv'
<1> USE CurrentJob
<1>1. At(c, "destroy_page") /\ UNCHANGED <<leaf, active, rim>>
  BY DEF DataDestroyPage
<1>2. PICK p \in Pages : p = job[c].page
  BY <1>1 DEF SeenAt, At
<1>3. data' = data \ {p} /\ Unlocks({Llt(job[c].ipa)})
  BY <1>2 DEF DataDestroyPage
<1>4. Locked /\ Fair(c)
  BY <1>3, OwnTables, UnlocksStep
<1>5. Steps(c) /\ job'[c] = Idle
  BY ReturnStep DEF DataDestroyPage, Steps
<1>6. Types' /\ SinglePages
  BY <1>1, <1>3, <1>4, <1>5 DEF DeviceIInv, Types, Steps, Locked
<1>7. Stands(c)'
  BY <1>5, IdleStands
<1>8. \A d \in Cpus : LocksAt(d)'
  BY <1>4, <1>5, <1>7, OthersLocks DEF Steps, Stands
<1>9. \A d \in Cpus : SeenAt(d)' /\ CurrentAt(d)'
  <2>1. \A d \in Cpus : d # c => job'[d] = job[d] /\ SeenAt(d) /\ CurrentAt(d)
    BY <1>5, CurrentJob DEF Steps, Others
  <2>2. \A d \in Cpus : d # c => SeenAt(d)'
    BY <1>1, <1>3, <2>1 DEF SeenAt, At
  <2>3. \A d \in Cpus : d # c => CurrentAt(d)'
    BY <1>1, <2>1 DEF CurrentAt, LastIsUnlocked
  <2> QED BY <1>7, <2>2, <2>3 DEF Stands
<1>10. \A q \in Pages : Mapped(q)' = Mapped(q)
  BY <1>1 DEF Mapped
<1>11. Accounted(p)'
  <2>1. c \in Leaving(p)
    BY <1>1, <1>2 DEF Leaving
  <2>2. Mapped(p) = {} /\ Leaving(p) = {c}
    BY <2>1 DEF DeviceIInv, Accounted
  <2>3. Leaving(p)' = {}
    BY <1>5, <2>2 DEF Leaving, At, Steps, Others, Idle
  <2> QED BY <1>3, <1>10, <2>2, <2>3 DEF Accounted
<1>12. \A q \in Pages : q # p => Accounted(q)'
  <2>1. \A q \in Pages : q # p => Leaving(q)' = Leaving(q)
    BY <1>2, <1>5 DEF Leaving, At, Steps, Others, Idle
  <2> QED BY <1>3, <1>10, <2>1 DEF Accounted, DeviceIInv
<1>13. \A q \in Pages : Accounted(q)'
  BY <1>11, <1>12
<1> QED BY <1>6, <1>8, <1>9, <1>13 DEF DeviceIInv, SinglePages

LEMMA ActivateStep ==
  ASSUME DeviceIInv, NEW c \in Cpus, Activate(c)
  PROVE  DeviceIInv'
<1>1. UNCHANGED <<lock, leaf, data, rim, job>> /\ active' = TRUE /\ lock[Rd] = NoCpu
  BY DEF Activate, memory
<1>2. \A d \in Cpus : job[d].pc \notin InPage /\ ~At(d, "rec_measure")
  BY <1>1, DeviceAssumption DEF DeviceIInv, LocksAt, InRdSection, InPage, At
<1>3. \A d \in Cpus : SeenAt(d)'
  BY <1>1, <1>2 DEF DeviceIInv, SeenAt, InPage, At
<1>4. \A d \in Cpus : LocksAt(d)' /\ CurrentAt(d)'
  BY <1>1 DEF DeviceIInv, LocksAt, CurrentAt, LastIsUnlocked, InRdSection, At
<1>5. Types' /\ SinglePages
  BY <1>1 DEF DeviceIInv, Types
<1>6. \A p \in Pages : Accounted(p)'
  BY <1>1 DEF DeviceIInv, Accounted, Mapped, Leaving, At
<1> QED BY <1>3, <1>4, <1>5, <1>6 DEF DeviceIInv, SinglePages

---------------------------------------------------------------------------
LEMMA DeviceInit ==
  ASSUME SinglePages, Init
  PROVE  DeviceIInv
<1>1. \A c \in Cpus : job[c] = Idle
  BY DEF Init
<1>2. Types
  <2>1. <<>> \in Seq(Links)
    BY EmptySeq
  <2> QED BY <2>1, IdleJob DEF Init, Types
<1>3. \A c \in Cpus : LocksAt(c) /\ SeenAt(c) /\ CurrentAt(c)
  BY <1>1 DEF LocksAt, SeenAt, CurrentAt, InRdSection, InPage, At, Idle
<1>4. \A p \in Pages : Mapped(p) = {} /\ Leaving(p) = {}
  BY <1>1, Distinct DEF Init, Mapped, Leaving, At, Idle
<1>5. \A p \in Pages : Accounted(p)
  BY <1>4 DEF Init, Accounted
<1> QED BY <1>2, <1>3, <1>5 DEF DeviceIInv

LEMMA CallStep ==
  ASSUME DeviceIInv, NEW c \in Cpus, Call(c)
  PROVE  DeviceIInv'
<1>1. CASE \E p \in Pages, i \in Ipas :
             \/ \E r \in Ranges : DataCreate(c, "device", p, i, r)
             \/ \E k \in {"data", "unknown"} : DataCreate(c, k, p, i, <<>>)
  BY <1>1, DataCreateStep
<1>2. CASE \E i \in Ipas : DataDestroy(c, i) \/ InitRipas(c, i)
  BY <1>2, DataDestroyStep, InitRipasStep
<1>3. CASE RecCreate(c)
  BY <1>3, RecCreateStep
<1>4. CASE \E i \in Ipas, n \in 1 .. MaxSize : DevMem(c, i, n)
  BY <1>4, DevMemStep
<1>5. CASE Activate(c)
  BY <1>5, ActivateStep
<1> QED BY <1>1, <1>2, <1>3, <1>4, <1>5 DEF Call

LEMMA StepStep ==
  ASSUME DeviceIInv, NEW c \in Cpus, Step(c)
  PROVE  DeviceIInv'
BY DataCreateLockStep, DataCreateRootStep, DataCreateWalkStep, DataCreateFailsStep,
   DataCreateReadStep, DataCreateMapStep, RangeIsDataStep, CheckRdStep, CheckRootStep,
   CheckWalkStep, CheckFailsStep, CheckPassesStep, AttachReadStep, AttachExtendStep,
   InitRipasRootStep, InitRipasWalkStep, InitRipasFailsStep, InitRipasReadStep,
   InitRipasExtendStep, RecCreateFailsStep, RecCreateReadStep, RecCreateExtendStep,
   DataDestroyRootStep, DataDestroyWalkStep, DataDestroyEntryStep, DataDestroyPageStep,
   DevMemBeyondStep, DevMemRootStep, DevMemWalkStep, DevMemFailsStep, DevMemUnlockStep,
   DevMemPageStep, DevMemEndStep DEF Step

LEMMA DeviceStep ==
  ASSUME DeviceIInv, [Next]_vars
  PROVE  DeviceIInv'
<1>1. CASE Next
  BY <1>1, CallStep, StepStep DEF Next
<1>2. CASE UNCHANGED vars
  <2>1. UNCHANGED <<lock, leaf, data, active, rim, job>>
    BY <1>2 DEF vars
  <2>2. Types' /\ SinglePages
    BY <2>1 DEF DeviceIInv, Types
  <2>3. \A c \in Cpus : LocksAt(c)' /\ SeenAt(c)' /\ CurrentAt(c)'
    BY <2>1 DEF DeviceIInv, LocksAt, SeenAt, CurrentAt, LastIsUnlocked, InRdSection, At
  <2>4. \A p \in Pages : Accounted(p)'
    BY <2>1 DEF DeviceIInv, Accounted, Mapped, Leaving, At
  <2> QED BY <2>2, <2>3, <2>4 DEF DeviceIInv, SinglePages
<1> QED BY <1>1, <1>2

LEMMA DeviceInductive == SinglePages /\ Spec => []DeviceIInv
<1>1. SinglePages /\ Init => DeviceIInv
  BY DeviceInit
<1>2. DeviceIInv /\ [Next]_vars => DeviceIInv'
  BY DeviceStep
<1> QED BY <1>1, <1>2, PTL DEF Spec

(* A page is DATA exactly while one address maps it or one DATA_DESTROY    *)
(* has still to give it back, with commands that walk the tables while     *)
(* RSI_DEV_MEM releases their locks and with every failure of an attach.   *)
THEOREM PagesCorrect == SinglePages /\ Spec => []PagesAccounted
<1>1. DeviceIInv => PagesAccounted
  <2> SUFFICES ASSUME DeviceIInv, NEW p \in Pages
               PROVE  Cardinality(Mapped(p)) + Cardinality(Leaving(p))
                      = IF p \in data THEN 1 ELSE 0
    BY DEF PagesAccounted, Mapped, Leaving
  <2>1. Cardinality({}) = 0 /\ \A x : Cardinality({x}) = 1
    BY FS_EmptySet, FS_Singleton
  <2>2. Accounted(p)
    BY DEF DeviceIInv
  <2>3. \/ p \notin data /\ Cardinality(Mapped(p)) = 0 /\ Cardinality(Leaving(p)) = 0
        \/ p \in data /\ Cardinality(Mapped(p)) = 1 /\ Cardinality(Leaving(p)) = 0
        \/ p \in data /\ Cardinality(Mapped(p)) = 0 /\ Cardinality(Leaving(p)) = 1
    BY <2>1, <2>2, Zenon DEF Accounted
  <2> QED BY <2>3, SMT
<1> QED BY <1>1, DeviceInductive, PTL

(* What DATA_CREATE and REC_CREATE have read of the RIM is what they       *)
(* replace, unless RTT_INIT_RIPAS or an attach has measured meanwhile: no  *)
(* other link is ever lost.                                                *)
THEOREM LinksCorrect == SinglePages /\ Spec => []LostOnlyToUnlocked
<1>1. DeviceIInv => LostOnlyToUnlocked
  BY DEF DeviceIInv, LostOnlyToUnlocked, CurrentAt, LastIsUnlocked, At
<1> QED BY <1>1, DeviceInductive, PTL

(* Two commands are never between taking the RD's lock and releasing it,   *)
(* if no device has two pages: that is what CheckRoot breaks.              *)
THEOREM ExclusionCorrect == SinglePages /\ Spec => []MutualExclusion
<1>1. DeviceIInv => MutualExclusion
  BY DEF DeviceIInv, MutualExclusion, LocksAt
<1> QED BY <1>1, DeviceInductive, PTL

(* Contents and RECs are not measured once the realm is ACTIVE: the RIM of *)
(* its activation changes only by the commands that measure after they     *)
(* have given up the RD's lock.                                            *)
THEOREM SealedRimCorrect == SinglePages /\ Spec => SealedRim
<1>1. ASSUME DeviceIInv, [Next]_vars, active, rim' # rim
      PROVE  rim'[Len(rim')] \in {"ripas", "attach"}
  <2>1. PICK c \in Cpus : Call(c) \/ Step(c)
    BY <1>1 DEF Next, vars
  <2>2. Types /\ SeenAt(c)
    BY <1>1, CurrentJob
  <2>3. CASE Call(c)
    BY <1>1, <2>3 DEF Call, DataCreate, DataDestroy, InitRipas, RecCreate, DevMem, Activate
  <2>4. CASE Step(c)
    <3>1. ~DataCreateMap(c) /\ ~RecCreateExtend(c)
      <4>1. SUFFICES ~(At(c, "create_map") /\ Extends(c, "data")) /\ ~At(c, "rec_measure")
        BY <1>1 DEF DataCreateMap, RecCreateExtend
      <4> QED BY <1>1, <2>2 DEF SeenAt, InPage, At
    <3>2. AttachExtend(c) \/ InitRipasExtend(c)
      BY <1>1, <2>4, <3>1
      DEF Step, DataCreateLock, DataCreateRoot, DataCreateWalk, DataCreateFails,
          DataCreateRead, RangeIsData, CheckRd, CheckRoot, CheckWalk, CheckFails,
          CheckPasses, AttachRead, InitRipasRoot, InitRipasWalk, InitRipasFails,
          InitRipasRead, RecCreateFails, RecCreateRead, DataDestroyRoot, DataDestroyWalk,
          DataDestroyEntry, DataDestroyPage, DevMemBeyond, DevMemRoot, DevMemWalk,
          DevMemFails, DevMemUnlock, DevMemPage, DevMemEnd, Walk
    <3>3. "attach" \in Links /\ "ripas" \in Links
      BY DEF Links
    <3> QED BY <2>2, <3>2, <3>3, ExtendStep DEF AttachExtend, InitRipasExtend
  <2> QED BY <2>1, <2>3, <2>4
<1>2. DeviceIInv /\ [Next]_vars
        => [active /\ rim' # rim => rim'[Len(rim')] \in {"ripas", "attach"}]_vars
  BY <1>1
<1> QED BY <1>2, DeviceInductive, PTL DEF SealedRim, Spec

=============================================================================
