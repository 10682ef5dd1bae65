----------------------------- MODULE StateHosts -----------------------------
(* The hosts that share state, and the thread each runs a function in:     *)
(* common to the registry (StateMaster) and the values (StateValue).       *)
CONSTANTS
  Host, Thread,
  HostOf           \* the host of every thread

ASSUME HostAssumption == HostOf \in [Thread -> Host]
=============================================================================
