-------------------------- MODULE MCExecScenarios ---------------------------
(***************************************************************************)
(* Two instances of the store in one run.  In "fills", with the constants  *)
(* of the configuration, two orders and two trades crowd the map of orders *)
(* while time stands still.  In "evict" the second order never comes, the  *)
(* clock runs, and records are swept while messages are still under way.   *)
(* A behaviour keeps to one of them: their states add, not multiply.       *)
(***************************************************************************)
EXTENDS MCExecStateStore

VARIABLE scenario

Evict ==
    INSTANCE ExecStateStore WITH
        SweepInterval <- 1, MaxTime <- 3,
        Stages <- {"MINED", "CONFIRMED", "FAILED"}

ScenariosInit ==
    /\ scenario \in {"fills", "evict"}
    /\ Init

ScenariosNext ==
    /\ UNCHANGED scenario
    /\ \/ scenario = "fills" /\ Next
       \/ scenario = "evict" /\ Evict!Next /\ exch_orders'["o2"].state = "NONE"

ScenariosSpec == ScenariosInit /\ [][ScenariosNext]_<<scenario, vars>>
=============================================================================
