-------------------------------- MODULE Arena --------------------------------
(***************************************************************************)
(* What an allocator promises whoever calls it, and nothing of how: what   *)
(* it hands out lies inside the buffer, is as large as was asked for and   *)
(* overlaps nothing that is in use; it wastes less than a header and two   *)
(* units on a request; and it refuses only what no run of free bytes can   *)
(* hold.  Heap implements this.                                            *)
(***************************************************************************)
EXTENDS Integers

CONSTANTS Header, Unit   \* bytes in front of what is handed out, and alignment

VARIABLES lo, hi,        \* the buffer: the bytes lo .. hi - 1
          used,          \* what is handed out
          refused        \* the size last refused, or 0

vars == <<lo, hi, used, refused>>

Bytes(b)   == b.at - Header .. b.at + b.span - 1
RoundUp(l) == ((l + Unit - 1) \div Unit) * Unit
Free       == (lo .. hi - 1) \ UNION {Bytes(b) : b \in used}
Holds(n)   == \E a \in Free : a .. a + n - 1 \subseteq Free

Init ==
  /\ lo \in Nat /\ hi \in Nat
  /\ used = {} /\ refused = 0

(* All that was handed out is forgotten, and the buffer may be another. *)
Reinit ==
  /\ lo' \in Nat /\ hi' \in Nat
  /\ used' = {} /\ refused' = 0

Alloc(l) ==
  /\ \E a \in Free, slack \in 0 .. Header + 2 * Unit - 2 :
       LET b == [at |-> a + Header, len |-> l, span |-> l + slack]
       IN /\ Bytes(b) \subseteq Free
          /\ used' = used \cup {b}
  /\ refused' = 0
  /\ UNCHANGED <<lo, hi>>

Refuse ==
  /\ refused' \in Nat
  /\ refused' > 0 => ~Holds(Header + RoundUp(refused'))
  /\ UNCHANGED <<lo, hi, used>>

Give(b) ==
  /\ used' = used \ {b}
  /\ refused' = 0
  /\ UNCHANGED <<lo, hi>>

Next ==
  \/ Reinit
  \/ Refuse
  \/ \E b \in used' : Alloc(b.len)
  \/ \E b \in used : Give(b)

Spec == Init /\ [][Next]_vars

=============================================================================
