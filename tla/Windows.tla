------------------------------- MODULE Windows -------------------------------
(***************************************************************************)
(* What the slot buffers promise the commands that use them: every CPU has *)
(* windows of its own; a window is shut or shows one page, and must be     *)
(* shut before it shows another; the first window shows the Host's memory  *)
(* and the others Realm memory; while a window is being shut it may still  *)
(* show its page, once it is shut it shows nothing; and no CPU opens or    *)
(* shuts a window of another.  Xlat implements this.                       *)
(***************************************************************************)
CONSTANTS Cpus, Slots, NsSlot

VARIABLES shows,     \* shows[c][s]: what a load of c through window s may reach
          shutting   \* the windows each CPU is shutting

vars == <<shows, shutting>>

Init ==
  /\ shows = [c \in Cpus |-> [s \in Slots |-> {}]]
  /\ shutting = [c \in Cpus |-> {}]

Open(c, s) ==
  /\ shows[c][s] = {} /\ shutting[c] = {}
  /\ \E w \in shows'[c][s] :
       /\ w.ns <=> s = NsSlot
       /\ shows' = [shows EXCEPT ![c][s] = {w}]
  /\ UNCHANGED shutting

(* What is being shut goes dark in its own time. *)
Fade == \A c \in Cpus, s \in Slots :
          \/ shows'[c][s] = shows[c][s]
          \/ shows'[c][s] = {} /\ s \in shutting[c] \cup shutting'[c]

StartShut(c, s) ==
  /\ shows[c][s] # {}
  /\ shutting' = [shutting EXCEPT ![c] = {s}]
  /\ Fade

EndShut(c, s) ==
  /\ s \in shutting[c] /\ shows'[c][s] = {}
  /\ shutting' = [shutting EXCEPT ![c] = {}]
  /\ Fade

Next == \E c \in Cpus, s \in Slots : Open(c, s) \/ StartShut(c, s) \/ EndShut(c, s)

Spec == Init /\ [][Next]_vars

=============================================================================
