---------------------------- MODULE MonitorMemory ----------------------------
(***************************************************************************)
(* The memory the monitor manages for itself: the heaps of the RECs, and   *)
(* the translation tables with the slots made of them.  They share no      *)
(* state, so a behaviour follows one of them and leaves the other alone.   *)
(***************************************************************************)
EXTENDS Heap, Xlat

VARIABLE subject   \* "heap" or "tables"

vars == <<heapVars, xlatVars, subject>>

Init ==
  /\ HeapInit /\ XlatInit /\ subject \in {"heap", "tables"}
  /\ subject = "tables" => heap = NoHeap
  /\ subject = "heap" => space = CHOOSE s \in Spaces : TRUE

Next ==
  \/ subject = "heap"   /\ HeapNext /\ UNCHANGED <<xlatVars, subject>>
  \/ subject = "tables" /\ XlatNext /\ UNCHANGED <<heapVars, subject>>

Spec == Init /\ [][Next]_vars

TypeOK == HeapTypeOK /\ XlatTypeOK
=============================================================================
