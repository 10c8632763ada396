------------------------------ MODULE MCRecRun ------------------------------
EXTENDS RecRun, TLC

CONSTANTS r1, r2

(* Exceptions that leave no trace in the REC, for one of them; the others  *)
(* are shared out.                                                         *)
Plain == {"wfx", "call", "psci", "undef", "suspend", "engine", "sysreg", "icc",
          "config", "get_ripas", "devmem", "iabort"}

Programs ==
  r1 :> Plain \cup {"init", "continue", "dabort", "mmio", "fpu", "off", "serror"}
    @@
  r2 :> {"call", "extend", "read", "on", "info", "wide", "system", "set_ripas",
         "hostcall"}

=============================================================================
