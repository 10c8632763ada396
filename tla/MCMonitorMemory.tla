--------------------------- MODULE MCMonitorMemory ---------------------------
EXTENDS MonitorMemory

CONSTANTS c1, c2

MCCpus    == {c1, c2}
MCBuffers == {<<1, 38>>, <<0, 5>>}
MCRequests == {<<1, 1>>, <<1, 4>>, <<2, 4>>, <<2, 33>>, <<0, 3>>, <<9, 7>>}

(* Two sizes of the runtime's space: tables from level 1 and from level 0. *)
MCSpaces == {[region |-> "low", size |-> 32, mmap_num |-> 3, tables_num |-> 4],
             [region |-> "low", size |-> 128, mmap_num |-> 3, tables_num |-> 5],
             [region |-> "high", size |-> 4, mmap_num |-> 1, tables_num |-> 0]}

Code == [mem |-> "memory", ns |-> FALSE, rw |-> FALSE, exec |-> TRUE]
Data == [mem |-> "memory", ns |-> FALSE, rw |-> TRUE, exec |-> TRUE]
Uart == [mem |-> "device", ns |-> FALSE, rw |-> TRUE, exec |-> FALSE]
Slot == [mem |-> "transient", ns |-> FALSE, rw |-> FALSE, exec |-> FALSE]

(* Nothing, a block, and a pointer to the base table. *)
MCBeyond == {Invalid} \cup
            {[type |-> t, to |-> 0, ns |-> FALSE, mem |-> "memory", rw |-> TRUE, x |-> FALSE] :
              t \in {BLOCK, TABLE}}

R(va, pa, size, granularity, attr) ==
  [va |-> va, pa |-> pa, size |-> size, granularity |-> granularity,
   attr |-> attr, aligned |-> TRUE]

MCRegions == [
  low  |-> {R(0, 0, 16, 16, Code), R(4, 4, 4, 4, Code), R(3, 3, 6, 16, Data),
            R(16, 33, 16, 16, Data), R(9, 64, 1, 1, Uart), R(20, 96, 5, 4, Uart),
            R(64, 0, 64, 16, Data), R(30, 40, 4, 1, Data), R(12, 126, 4, 1, Data),
            R(24, 254, 4, 1, Data),
            [R(8, 8, 4, 1, Data) EXCEPT !.aligned = FALSE]},
  high |-> {R(252, 0, 4, 1, Slot), R(248, 0, 4, 1, Slot), R(254, 0, 4, 1, Slot)}]
=============================================================================
