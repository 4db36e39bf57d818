----------------------------- MODULE MCTracing ------------------------------
(***************************************************************************)
(* Tracing with the script, and tracers that are started and signalled by  *)
(* hand, at any time and as often as one likes (howto-trace-and-process-   *)
(* overheads.md describes the script; ftcat -s is used by hand only).      *)
(***************************************************************************)
EXTENDS TraceSession

CONSTANT ByHand     \* the tracers that are also used without the script

HandInit ==
    /\ Init
    /\ AUTO = FALSE /\ spc = "none" /\ last = {} /\ PIDS = {} /\ COUNT = 0
    /\ announced = FALSE /\ usr1 = "no"

HandNext ==
    /\ spc = "none" /\ Next /\ UNCHANGED script
    /\ \A t \in Tracers \ ByHand : pc'[t] = "none"

ScriptNext == spc # "none" /\ SessionNext

TracingSpec ==
    /\ SessionInit \/ HandInit
    /\ [][ScriptNext \/ HandNext]_session
    /\ SessionFairness
=============================================================================
