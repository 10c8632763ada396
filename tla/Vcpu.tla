-------------------------------- MODULE Vcpu --------------------------------
(***************************************************************************)
(* What the RMM promises a realm about its RECs, with no CPU, no lock and  *)
(* no reference count in sight: a REC is off, idle (in the host's hands)   *)
(* or inside the realm; a request that took it out of the realm is         *)
(* answered once, before it runs again; CPU_ON starts no REC but one that  *)
(* is off; and once the realm is halted no REC is admitted any more.       *)
(* RecRun implements this.                                                 *)
(***************************************************************************)
CONSTANT Recs

VARIABLES mode,      \* where each REC is
          owed,      \* the request each REC waits to have answered
          admitted,  \* RECs the host enters and the RMM has not let in yet
          halted     \* PSCI SYSTEM_OFF or SYSTEM_RESET was called

vars == <<mode, owed, admitted, halted>>

Requests == {"psci", "ripas", "call"}

Init ==
  /\ mode \in [Recs -> {"off", "idle"}]
  /\ owed = [r \in Recs |-> "none"]
  /\ admitted = {}
  /\ halted = FALSE

Admit(r) ==
  /\ ~halted /\ r \notin admitted /\ mode[r] # "in"
  /\ admitted' = admitted \cup {r}
  /\ UNCHANGED <<mode, owed, halted>>

Refuse(r) ==
  /\ r \in admitted
  /\ admitted' = admitted \ {r}
  /\ UNCHANGED <<mode, owed, halted>>

(* The answer to what it owes is in its registers when it runs again.  It  *)
(* may be back with the host before its first instruction.                 *)
Resume(r, m) ==
  /\ r \in admitted /\ mode[r] = "idle" /\ owed[r] # "psci"
  /\ mode' = [mode EXCEPT ![r] = m]
  /\ owed' = [owed EXCEPT ![r] = "none"]
  /\ admitted' = admitted \ {r}
  /\ UNCHANGED halted

(* It goes back to the host, with a request or for another reason. *)
Stop(r, q) ==
  /\ mode[r] = "in"
  /\ mode' = [mode EXCEPT ![r] = "idle"]
  /\ owed' = [owed EXCEPT ![r] = q]
  /\ UNCHANGED <<admitted, halted>>

TurnOff(r) ==
  /\ mode[r] = "in"
  /\ mode' = [mode EXCEPT ![r] = "off"]
  /\ UNCHANGED <<owed, admitted, halted>>

(* Any REC may halt the realm; it is out of the realm itself at once, the  *)
(* others leave when they next do.                                         *)
Halt(r) ==
  /\ mode[r] = "in"
  /\ mode' = [mode EXCEPT ![r] = "idle"]
  /\ halted' = TRUE
  /\ UNCHANGED <<owed, admitted>>

(* CPU_ON takes effect with its answer, only on a REC that is off and that *)
(* nobody enters.                                                          *)
TurnOn(a, b) ==
  /\ owed[a] = "psci" /\ mode[b] = "off" /\ b \notin admitted
  /\ mode' = [mode EXCEPT ![b] = "idle"]
  /\ owed' = [owed EXCEPT ![a] = "none"]
  /\ UNCHANGED <<admitted, halted>>

(* A PSCI request answered with no effect: already on, or AFFINITY_INFO. *)
Answer(a) ==
  /\ owed[a] = "psci" /\ a \notin admitted
  /\ owed' = [owed EXCEPT ![a] = "none"]
  /\ UNCHANGED <<mode, admitted, halted>>

Next ==
  \/ \E r \in Recs : Admit(r) \/ Refuse(r) \/ TurnOff(r) \/ Halt(r) \/ Answer(r)
  \/ \E r \in Recs, m \in {"idle", "in"} : Resume(r, m)
  \/ \E r \in Recs, q \in Requests \cup {"none"} : Stop(r, q)
  \/ \E a, b \in Recs : TurnOn(a, b)

Spec == Init /\ [][Next]_vars

=============================================================================
