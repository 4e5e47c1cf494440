----------------------------- MODULE MCSessions -----------------------------
(***************************************************************************)
(* Small instances of Sessions. The commands that say nothing about slots,  *)
(* and the probe, are given before T7's first pass: they and the slots have *)
(* no state in common but the registry of markets, which is filled by then. *)
(***************************************************************************)
EXTENDS Sessions

MCPeriod == [tf \in {"5M", "15M"} |-> IF tf = "5M" THEN 1 ELSE 3]

MCSessionNext ==
    \/ TradingNext /\ (probe # "IDLE" => t7_at' = t7_at)
    \/ t7_at = "start" /\ DeskNext

MCSessionSpec == SessionInit /\ [][MCSessionNext]_session_vars

\* The queues to T3 and of the simulator are looked at as long as the probe
\* may: after that nothing depends on them.
SessionView ==
    <<slot_vars, exec_mode, sim_on, session, strat_on, armed, probe_vars,
      IF t7_at \in {"boot", "start"} THEN <<simq, intents>> ELSE <<>> >>

\* T7 and the map alone, for long runs of rotations.
RotationsNext ==
    \/ T7Next /\ UNCHANGED <<t2_vars, probe_vars>>
    \/ T2TakesSlotEvent

RotationsSpec == SessionInit /\ [][RotationsNext]_session_vars
=============================================================================
