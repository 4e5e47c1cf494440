------------------------------ MODULE Rotation ------------------------------
(***************************************************************************)
(* The rotation of the market and the end of the process: the coordinator *)
(* on the main thread (T7, rotation/rotation_coordinator.cpp) followed by *)
(* the shutdown cascade of main.cpp, the strategy scheduler (T2), the two *)
(* WebSocket threads T0 and T1 that the coordinator stops and starts, the *)
(* gateway (T3) as the consumer of the exec queue, and the shutdown       *)
(* thread, which runs beside them all.                                    *)
(*                                                                         *)
(* T7 and T2 share one atomic, the rotation phase.  Markets are reduced   *)
(* to whether a next one is known, queues to their lengths; the moment at *)
(* which a window comes near its end is left open.                        *)
(***************************************************************************)
EXTENDS Integers, FiniteSets

CONSTANTS
  ExecCap,   \* capacity of strategy_to_exec_queue
  UserCap    \* capacity of the queue from T1 to T2

ASSUME CapsAssumption == ExecCap \in Nat \ {0} /\ UserCap \in Nat \ {0}

VARIABLES
  phase,      \* rotation_phase_, shared by T7 and T2
  t7,         \* where T7 is: the coordinator, then the cascade
  next,       \* does next_market_ hold a market?
  t2,         \* the scheduler: "run", "paused" in the handshake, "stopped"
  enabled,    \* is the strategy enabled?
  t3,         \* the gateway: "run" or "stopped"
  ws,         \* ws[w]: does thread w exist (is its std::thread joinable)?
  stopped,    \* stopped[w]: has the once_flag of w's stop been used?
  sd,         \* where the shutdown thread is
  shutdown,   \* g_shutdown
  fatal,      \* g_fatal
  stop,       \* the components whose request_shutdown was called
  exec_len,   \* intents waiting for T3
  user_len,   \* user updates waiting for T2
  ended       \* "no", "returned" from main, or "terminated" (std::terminate)

t7vars == <<t7, next>>
t2vars == <<t2, enabled>>
wsvars == <<ws, stopped>>
flags  == <<shutdown, fatal, stop>>
queues == <<exec_len, user_len>>
vars   == <<phase, t7vars, t2vars, t3, wsvars, sd, flags, queues, ended>>

Phase == {"NORMAL", "PAUSE_REQUESTED", "PAUSED", "RESUME_REQUESTED"}
Ws    == {"T0", "T1"}

\* Where T7 rewrites what T2 reads: the registered markets, the current and the
\* next one, the subscriptions and the timing context (steps 5 to 9).
Rewriting == {"swap", "restart0", "restart1", "timing"}

\* Where T7 registers markets beside T2, outside a rotation: with the first
\* timing context at boot (Phases B and C), and a next market found by the poll.
Registering == {"register0", "register"}

T7Places == Rewriting \cup Registering \cup
  {"boot", "start0", "start1", "loop", "rotate", "waitPaused", "stop0", "stop1",
   "drain", "waitNormal", "phaseF", "waitF", "casc0", "casc1", "casc2",
   "join2", "casc3", "join3", "last"}

\* The places of the threads and the lengths of the queues ...
PlacesType ==
  /\ phase \in Phase
  /\ t7 \in T7Places
  /\ t2 \in {"run", "paused", "stopped"}
  /\ t3 \in {"run", "stopped"}
  /\ sd \in {"watch", "stop0", "stop1", "request", "done"}
  /\ stop \subseteq {"T2", "T3", "T7"}
  /\ exec_len \in 0 .. ExecCap
  /\ user_len \in 0 .. UserCap
  /\ ended \in {"no", "returned", "terminated"}

\* ... and what is a flag.
FlagsType ==
  /\ next \in BOOLEAN
  /\ enabled \in BOOLEAN
  /\ ws \in [Ws -> BOOLEAN]
  /\ stopped \in [Ws -> BOOLEAN]
  /\ shutdown \in BOOLEAN
  /\ fatal \in BOOLEAN

\* Every variable keeps its type; the two queues stay within their capacities.
TypeOK == PlacesType /\ FlagsType

Init ==
  /\ phase = "NORMAL"
  /\ t7 = "boot"
  /\ next = FALSE
  /\ t2 = "run"
  /\ enabled \in BOOLEAN
  /\ t3 = "run"
  /\ ws = [w \in Ws |-> FALSE]
  /\ stopped = [w \in Ws |-> FALSE]
  /\ sd = "watch"
  /\ shutdown = FALSE
  /\ fatal = FALSE
  /\ stop = {}
  /\ exec_len = 0
  /\ user_len = 0
  /\ ended = "no"

-----------------------------------------------------------------------------
(* Starting and stopping a WebSocket thread (main.cpp).                    *)

\* start_market_ws, start_user_ws: a new client and a new std::thread.  To
\* assign to a std::thread that is still joinable is std::terminate.
Start(w) ==
  IF ws[w] THEN ended' = "terminated" /\ UNCHANGED wsvars
           ELSE ws' = [ws EXCEPT ![w] = TRUE] /\ UNCHANGED <<stopped, ended>>

\* stop_market_ws, stop_user_ws: under std::call_once, ask the client to stop
\* and join its thread.  A second call finds the once_flag used.
Stop(w) ==
  IF stopped[w] THEN UNCHANGED wsvars
                ELSE /\ ws' = [ws EXCEPT ![w] = FALSE]
                     /\ stopped' = [stopped EXCEPT ![w] = TRUE]

Running == ended = "no"

\* What the loops of T7 look at: stop_requested_ and shutdown_flag_ ...
Stopping == shutdown \/ "T7" \in stop

\* ... and fatal_flag_ as well in the main loop and in sleep_ms.
Ending == Stopping \/ fatal

-----------------------------------------------------------------------------
(* T7: RotationCoordinator::run and execute_rotation.                      *)

Goto(from, to) == Running /\ t7 = from /\ t7' = to

\* Phase A: discover the current market (ten tries) and perhaps the next.
\* Without a current market, or when the process is ending, run returns.
T7Boots ==
  /\ \/ Goto("boot", "register0") /\ ~Stopping /\ next' \in BOOLEAN
     \/ Goto("boot", "casc0") /\ UNCHANGED next
  /\ UNCHANGED <<phase, t2vars, t3, wsvars, sd, flags, queues, ended>>

\* Phases B and C, and the registration of a next market in the main loop:
\* register_market_full, no handshake with T2.
T7Registers ==
  /\ Goto("register0", "start0") \/ Goto("register", "loop")
  /\ UNCHANGED <<phase, next, t2vars, t3, wsvars, sd, flags, queues, ended>>

\* Mutant: a rotation starts the market feed again and forgets the user feed.
T7StartsMarketOnly ==
  /\ \/ Goto("start0", "start1") /\ Start("T0")
     \/ Goto("start1", "loop") /\ Start("T1")
     \/ Goto("restart0", "timing") /\ Start("T0")
  /\ UNCHANGED <<phase, next, t2vars, t3, sd, flags, queues>>

\* Phase D, and step 8 of a rotation: start T0, then T1.
T7Starts ==
  /\ \/ Goto("start0", "start1") /\ Start("T0")
     \/ Goto("start1", "loop") /\ Start("T1")
     \/ Goto("restart0", "restart1") /\ Start("T0")
     \/ Goto("restart1", "timing") /\ Start("T1")
  /\ UNCHANGED <<phase, next, t2vars, t3, sd, flags, queues>>

\* A turn of the main loop: it ends, or the window is near its end and a next
\* market is known, or the poll for the next market finds it.
T7Loops ==
  /\ \/ Goto("loop", "phaseF") /\ Ending /\ UNCHANGED next
     \/ Goto("loop", "rotate") /\ ~Ending /\ next /\ UNCHANGED next
     \/ Goto("loop", "register") /\ ~Ending /\ ~next /\ next' = TRUE
  /\ UNCHANGED <<phase, t2vars, t3, wsvars, sd, flags, queues, ended>>

\* Step 1 of execute_rotation.
T7RequestsPause ==
  /\ Goto("rotate", "waitPaused")
  /\ phase' = "PAUSE_REQUESTED"
  /\ UNCHANGED <<next, t2vars, t3, wsvars, sd, flags, queues, ended>>

\* Mutant: the rotation goes on without the acknowledgement of T2.
T7GoesOnUnpaused ==
  /\ \/ Goto("waitPaused", "loop") /\ Stopping
     \/ Goto("waitPaused", "stop0") /\ ~Stopping
  /\ UNCHANGED <<phase, next, t2vars, t3, wsvars, sd, flags, queues, ended>>

\* Step 2: wait until T2 is paused; a rotation cut short by the end of the
\* process returns here, and leaves the phase as it is.
T7SeesPaused ==
  /\ \/ Goto("waitPaused", "loop") /\ Stopping
     \/ Goto("waitPaused", "stop0") /\ phase = "PAUSED" /\ ~Stopping
  /\ UNCHANGED <<phase, next, t2vars, t3, wsvars, sd, flags, queues, ended>>

\* Step 3: stop T0 and T1.
T7Stops ==
  /\ \/ Goto("stop0", "stop1") /\ Stop("T0")
     \/ Goto("stop1", "drain") /\ Stop("T1")
  /\ UNCHANGED <<phase, next, t2vars, t3, sd, flags, queues, ended>>

\* Step 4: wait for the exec queue to drain, for three seconds at most; the
\* rotation is given up when the process ends and the queue is not empty.
T7Drains ==
  /\ \/ Goto("drain", "swap") /\ (exec_len = 0 \/ ~Ending)
     \/ Goto("drain", "loop") /\ exec_len > 0 /\ Ending
  /\ UNCHANGED <<phase, next, t2vars, t3, wsvars, sd, flags, queues, ended>>

\* Steps 5 to 7: register the new next market if one was found, swap.
T7Swaps ==
  /\ Goto("swap", "restart0")
  /\ next' \in BOOLEAN
  /\ UNCHANGED <<phase, t2vars, t3, wsvars, sd, flags, queues, ended>>

\* Mutant: the resume is only asked for when there is a next market.
T7ResumesIfNext ==
  /\ Goto("timing", "waitNormal")
  /\ phase' = IF next THEN "RESUME_REQUESTED" ELSE phase
  /\ UNCHANGED <<next, t2vars, t3, wsvars, sd, flags, queues, ended>>

\* Mutant: T7 does not wait for T2 after asking it to resume.
T7ResumesAndGoesOn ==
  /\ Goto("timing", "loop")
  /\ phase' = "RESUME_REQUESTED"
  /\ UNCHANGED <<next, t2vars, t3, wsvars, sd, flags, queues, ended>>

\* Steps 9 and 10: write the timing context, ask T2 to resume.
T7RequestsResume ==
  /\ Goto("timing", "waitNormal")
  /\ phase' = "RESUME_REQUESTED"
  /\ UNCHANGED <<next, t2vars, t3, wsvars, sd, flags, queues, ended>>

\* The wait for T2's acknowledgement ends execute_rotation.
T7SeesNormal ==
  /\ Goto("waitNormal", "loop")
  /\ phase = "NORMAL" \/ Stopping
  /\ UNCHANGED <<phase, next, t2vars, t3, wsvars, sd, flags, queues, ended>>

\* Phase F: when no handshake is under way, ask T2 to pause, wait for at most a
\* second, and if it did, ask it to resume.
T7Winds ==
  /\ \/ Goto("phaseF", "waitF") /\ phase = "NORMAL" /\ phase' = "PAUSE_REQUESTED"
     \/ Goto("phaseF", "casc0") /\ phase # "NORMAL" /\ UNCHANGED phase
     \/ Goto("waitF", "casc0") /\ phase = "PAUSED" /\ phase' = "RESUME_REQUESTED"
     \/ Goto("waitF", "casc0") /\ UNCHANGED phase
  /\ UNCHANGED <<next, t2vars, t3, wsvars, sd, flags, queues, ended>>

\* The cascade of main: stop T0 and T1, then ask T2 and T3 to stop and join each.
T7Cascades ==
  /\ \/ Goto("casc0", "casc1") /\ Stop("T0") /\ UNCHANGED stop
     \/ Goto("casc1", "casc2") /\ Stop("T1") /\ UNCHANGED stop
     \/ Goto("casc2", "join2") /\ stop' = stop \cup {"T2"} /\ UNCHANGED wsvars
     \/ Goto("join2", "casc3") /\ t2 = "stopped" /\ UNCHANGED <<stop, wsvars>>
     \/ Goto("casc3", "join3") /\ stop' = stop \cup {"T3"} /\ UNCHANGED wsvars
     \/ Goto("join3", "last") /\ t3 = "stopped" /\ UNCHANGED <<stop, wsvars>>
  /\ UNCHANGED <<phase, next, t2vars, t3, sd, shutdown, fatal, queues, ended>>

\* The end of main: set g_shutdown, join the shutdown thread and return.  The
\* destructor of a std::thread that is still joinable is std::terminate.
T7Returns ==
  /\ Running
  /\ t7 = "last"
  /\ \/ ~shutdown /\ shutdown' = TRUE /\ UNCHANGED ended
     \/ /\ shutdown /\ sd = "done" /\ UNCHANGED shutdown
        /\ ended' = IF \E w \in Ws : ws[w] THEN "terminated" ELSE "returned"
  /\ UNCHANGED <<phase, t7vars, t2vars, t3, wsvars, sd, fatal, stop, queues>>

T7 ==
  \/ T7Boots \/ T7Registers \/ T7Starts \/ T7Loops \/ T7RequestsPause \/ T7SeesPaused
  \/ T7Stops \/ T7Drains \/ T7Swaps \/ T7RequestsResume \/ T7SeesNormal
  \/ T7Winds \/ T7Cascades \/ T7Returns

-----------------------------------------------------------------------------
(* T2: the part of StrategyScheduler::run that takes part in the handshake. *)

\* A turn of the loop: an update is taken from T1, an enabled strategy sends an
\* intent, the operator switches the strategy on or off.
T2Works ==
  /\ Running
  /\ t2 = "run" /\ "T2" \notin stop
  /\ \/ user_len > 0 /\ user_len' = user_len - 1 /\ UNCHANGED <<exec_len, enabled>>
     \/ /\ enabled /\ exec_len < ExecCap /\ exec_len' = exec_len + 1
        /\ UNCHANGED <<user_len, enabled>>
     \/ enabled' = ~enabled /\ UNCHANGED queues
  /\ UNCHANGED <<phase, t7vars, t2, t3, wsvars, sd, flags, ended>>

\* An exception ends the loop and sets the fatal flag.
T2Throws ==
  /\ Running
  /\ t2 = "run" /\ t2' = "stopped"
  /\ fatal' = TRUE
  /\ UNCHANGED <<phase, t7vars, enabled, t3, wsvars, sd, shutdown, stop, queues, ended>>

\* Mutant: a cancel is queued whether or not there is room for it.
T2PausesUnbounded ==
  /\ Running
  /\ t2 = "run" /\ "T2" \notin stop
  /\ phase = "PAUSE_REQUESTED"
  /\ exec_len' \in exec_len .. exec_len + ExecCap
  /\ enabled' = FALSE
  /\ phase' = "PAUSED"
  /\ t2' = "paused"
  /\ UNCHANGED <<t7vars, t3, wsvars, sd, flags, user_len, ended>>

\* A pause: cancels for the working orders (as many as the queue takes), the
\* strategy off, the acknowledgement.
T2Pauses ==
  /\ Running
  /\ t2 = "run" /\ "T2" \notin stop
  /\ phase = "PAUSE_REQUESTED"
  /\ exec_len' \in exec_len .. ExecCap
  /\ enabled' = FALSE
  /\ phase' = "PAUSED"
  /\ t2' = "paused"
  /\ UNCHANGED <<t7vars, t3, wsvars, sd, flags, user_len, ended>>

\* A resume: the new timing context, the strategy on, the acknowledgement.
T2Resumes ==
  /\ Running
  /\ t2 = "paused" /\ "T2" \notin stop
  /\ phase = "RESUME_REQUESTED"
  /\ enabled' = TRUE
  /\ phase' = "NORMAL"
  /\ t2' = "run"
  /\ UNCHANGED <<t7vars, t3, wsvars, sd, flags, queues, ended>>

T2Stops ==
  /\ Running
  /\ t2 # "stopped" /\ "T2" \in stop
  /\ t2' = "stopped"
  /\ UNCHANGED <<phase, t7vars, enabled, t3, wsvars, sd, flags, queues, ended>>

-----------------------------------------------------------------------------
(* The other threads.                                                      *)

\* T1 hands an update to T2; a full queue is fatal.
T1Pushes ==
  /\ Running
  /\ ws["T1"]
  /\ IF user_len < UserCap
       THEN user_len' = user_len + 1 /\ UNCHANGED fatal
       ELSE fatal' = TRUE /\ UNCHANGED user_len
  /\ UNCHANGED <<phase, t7vars, t2vars, t3, wsvars, sd, shutdown, stop, exec_len, ended>>

T3Takes ==
  /\ Running
  /\ t3 = "run" /\ exec_len > 0
  /\ exec_len' = exec_len - 1
  /\ UNCHANGED <<phase, t7vars, t2vars, t3, wsvars, sd, flags, user_len, ended>>

\* The io_context of the gateway is stopped; what the queue holds stays there.
T3Stops ==
  /\ Running
  /\ t3 = "run" /\ "T3" \in stop
  /\ t3' = "stopped"
  /\ UNCHANGED <<phase, t7vars, t2vars, wsvars, sd, flags, queues, ended>>

\* SIGINT or SIGTERM.
Signal ==
  /\ Running
  /\ ~shutdown /\ shutdown' = TRUE
  /\ UNCHANGED <<phase, t7vars, t2vars, t3, wsvars, sd, fatal, stop, queues, ended>>

\* Mutant: the shutdown thread waits for g_shutdown alone.
SDWakesOnSignal ==
  /\ Running
  /\ sd = "watch" /\ shutdown
  /\ sd' = "stop0"
  /\ UNCHANGED <<phase, t7vars, t2vars, t3, wsvars, flags, queues, ended>>

\* The shutdown thread: wake up, and turn a fatal error into a shutdown.
SDWakes ==
  /\ Running
  /\ sd = "watch" /\ (shutdown \/ fatal)
  /\ sd' = "stop0"
  /\ shutdown' = TRUE
  /\ UNCHANGED <<phase, t7vars, t2vars, t3, wsvars, fatal, stop, queues, ended>>

\* Then stop T0 and T1, and ask T3 and T7 to stop.
SDStops ==
  /\ Running
  /\ \/ sd = "stop0" /\ sd' = "stop1" /\ Stop("T0") /\ UNCHANGED stop
     \/ sd = "stop1" /\ sd' = "request" /\ Stop("T1") /\ UNCHANGED stop
     \/ sd = "request" /\ sd' = "done" /\ stop' = stop \cup {"T3", "T7"} /\ UNCHANGED wsvars
  /\ UNCHANGED <<phase, t7vars, t2vars, t3, shutdown, fatal, queues, ended>>

Next ==
  \/ T7
  \/ T2Works \/ T2Throws \/ T2Pauses \/ T2Resumes \/ T2Stops
  \/ T1Pushes \/ T3Takes \/ T3Stops \/ Signal \/ SDWakes \/ SDStops

Spec == Init /\ [][Next]_vars

\* Every thread goes on with its loop while the process lives; its waits are
\* spins, sleeps of bounded length and joins.  No fairness for the signal, for
\* an exception or for T1's and T3's traffic.
Fairness ==
  /\ WF_vars(T7)
  /\ WF_vars(T2Pauses) /\ WF_vars(T2Resumes) /\ WF_vars(T2Stops)
  /\ WF_vars(T3Stops)
  /\ WF_vars(SDWakes) /\ WF_vars(SDStops)

FairSpec == Spec /\ Fairness

-----------------------------------------------------------------------------
(* Properties.                                                             *)

\* While T7 rewrites the markets, the subscriptions and the timing context
\* (steps 5 to 9 of execute_rotation) T2 is not running: it is paused, or it
\* has left its loop for good.  No shutdown, exception or full queue that cuts
\* into the handshake lets T2 run beside the rewriting.  It is a property of
\* execute_rotation alone: when T7 registers markets at boot or in its main loop
\* (Registering), T2 runs and may look the same maps up.
T2QuietWhileRewriting == t7 \in Rewriting => t2 # "run"

\* The phase only ever goes round NORMAL, PAUSE_REQUESTED, PAUSED,
\* RESUME_REQUESTED, NORMAL, and T2 alone makes the steps to PAUSED and back to
\* NORMAL (rotation_coordinator.h 27): T7 never overwrites a request that T2
\* has not answered, whatever cuts a rotation short.
PhaseGoesRound ==
  [][ /\ (phase = "NORMAL" /\ phase' # phase) => phase' = "PAUSE_REQUESTED" /\ t7' # t7
      /\ (phase = "PAUSE_REQUESTED" /\ phase' # phase) => phase' = "PAUSED" /\ t2' # t2
      /\ (phase = "PAUSED" /\ phase' # phase) => phase' = "RESUME_REQUESTED" /\ t7' # t7
      /\ (phase = "RESUME_REQUESTED" /\ phase' # phase) => phase' = "NORMAL" /\ t2' # t2
    ]_vars

\* T2 goes back to quoting only on live feeds: when it resumes, T0 and T1 have
\* both been started again, unless the process is ending.
ResumesOnLiveFeeds ==
  [][ (t2 = "paused" /\ t2' = "run") => Ending \/ \A w \in Ws : ws[w] ]_vars

\* A pause of T2 ends: the handshake resumes it, or the cascade stops it, also
\* when a signal, a fatal error or an exception falls anywhere in a rotation.
PauseEnds == t2 = "paused" ~> (t2 # "paused" \/ ended # "no")

\* A shutdown that was asked for, or a fatal error, ends the process: none of
\* the waits of T7 (which do not all look at g_fatal) and none of the joins
\* blocks for ever.
ShutdownEnds == (shutdown \/ fatal) ~> ended # "no"

\* "Producers stop before consumers" (ARCHITECTURE.md, 5.9; the order of the
\* cascade in main.cpp 1610-1611): when the scheduler has been joined, the two
\* WebSocket threads that feed it have been joined too.
ProducersStopFirst == t7 = "casc3" => \A w \in Ws : ~ws[w]
=============================================================================
