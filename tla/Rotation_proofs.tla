--------------------------- MODULE Rotation_proofs ---------------------------
(***************************************************************************)
(* The handshake of T7 and T2, for queues of any capacity.  The invariant  *)
(* ties the phase to where T7 is and to what T2 does; an interrupted       *)
(* rotation may leave the phase anywhere, but only when the process ends.  *)
(***************************************************************************)
EXTENDS Rotation, TLAPS

\* What the phase says about T2, as long as T2 is in its loop.
T2Inv ==
  /\ t2 = "run" => phase \in {"NORMAL", "PAUSE_REQUESTED"}
  /\ t2 = "paused" => phase \in {"PAUSED", "RESUME_REQUESTED"}

\* What the place of T7 says about the phase.
T7Inv ==
  /\ t7 \in {"boot", "register0", "start0", "start1", "rotate"} => phase = "NORMAL"
  /\ t7 \in {"loop", "register"} => phase = "NORMAL" \/ Ending
  /\ t7 \in {"waitPaused", "waitF"} => phase \in {"PAUSE_REQUESTED", "PAUSED"}
  /\ t7 \in {"stop0", "stop1", "drain"} \cup Rewriting => phase = "PAUSED"
  /\ t7 = "waitNormal" => phase \in {"RESUME_REQUESTED", "NORMAL"}
  /\ t7 \in {"phaseF", "waitF"} => Ending

\* When the feeds may be down.
FeedInv ==
  /\ sd # "watch" => shutdown
  /\ t7 \in {"restart1", "timing", "waitNormal"} => ws["T0"] \/ shutdown
  /\ t7 \in {"timing", "waitNormal"} => ws["T1"] \/ shutdown
  /\ phase = "RESUME_REQUESTED" => t7 = "waitNormal" \/ Ending

IInv == TypeOK /\ T2Inv /\ T7Inv /\ FeedInv

-----------------------------------------------------------------------------
\* The initial state of the threads satisfies the invariant.
LEMMA InitEstablishes == Init => IInv
<1> SUFFICES ASSUME Init PROVE IInv OBVIOUS
<1>1. PlacesType BY CapsAssumption DEF Init, PlacesType, Phase, T7Places, Registering
<1>2. FlagsType BY Zenon DEF Init, FlagsType
<1>3. T2Inv /\ T7Inv /\ FeedInv BY DEF Init, T2Inv, T7Inv, FeedInv, Rewriting
<1> QED BY <1>1, <1>2, <1>3 DEF IInv, TypeOK

\* Every step keeps the places of the threads and the lengths of the queues.
LEMMA PlacesStep ==
  ASSUME PlacesType, [Next]_vars
  PROVE  PlacesType'
<1> USE CapsAssumption DEF PlacesType, Phase, T7Places, Rewriting, Registering, t7vars, t2vars,
       wsvars, flags, queues
<1>1. CASE T7Boots BY <1>1 DEF T7Boots, Goto
<1>2. CASE T7Starts BY <1>2 DEF T7Starts, Goto, Start
<1>3. CASE T7Loops BY <1>3 DEF T7Loops, Goto
<1>4. CASE T7RequestsPause BY <1>4 DEF T7RequestsPause, Goto
<1>5. CASE T7SeesPaused BY <1>5 DEF T7SeesPaused, Goto
<1>6. CASE T7Stops BY <1>6 DEF T7Stops, Goto
<1>7. CASE T7Drains BY <1>7 DEF T7Drains, Goto
<1>8. CASE T7Swaps BY <1>8 DEF T7Swaps, Goto
<1>9. CASE T7RequestsResume BY <1>9 DEF T7RequestsResume, Goto
<1>10. CASE T7SeesNormal BY <1>10 DEF T7SeesNormal, Goto
<1>11. CASE T7Winds BY <1>11 DEF T7Winds, Goto
<1>12. CASE T7Cascades
  <2>1. stop' \subseteq {"T2", "T3", "T7"} BY <1>12, Zenon DEF T7Cascades
  <2> QED BY <1>12, <2>1 DEF T7Cascades, Goto
<1>13. CASE T7Returns BY <1>13 DEF T7Returns
<1>14. CASE T2Works BY <1>14 DEF T2Works
<1>15. CASE T2Throws BY <1>15 DEF T2Throws
<1>16. CASE T2Pauses BY <1>16 DEF T2Pauses
<1>17. CASE T2Resumes BY <1>17 DEF T2Resumes
<1>18. CASE T2Stops BY <1>18 DEF T2Stops
<1>19. CASE T1Pushes BY <1>19 DEF T1Pushes
<1>20. CASE T3Takes BY <1>20 DEF T3Takes
<1>21. CASE T3Stops BY <1>21 DEF T3Stops
<1>22. CASE Signal BY <1>22 DEF Signal
<1>23. CASE SDWakes BY <1>23 DEF SDWakes
<1>24. CASE SDStops
  <2>1. stop' \subseteq {"T2", "T3", "T7"} BY <1>24, Zenon DEF SDStops
  <2> QED BY <1>24, <2>1 DEF SDStops
<1>25. CASE T7Registers BY <1>25 DEF T7Registers, Goto
<1>26. CASE UNCHANGED vars BY <1>26 DEF vars
<1> QED BY <1>1, <1>2, <1>3, <1>4, <1>5, <1>6, <1>7, <1>8, <1>9, <1>10, <1>11, <1>12,
       <1>13, <1>14, <1>15, <1>16, <1>17, <1>18, <1>19, <1>20, <1>21, <1>22, <1>23,
       <1>24, <1>25, <1>26 DEF Next, T7


\* Every step keeps the flags Boolean.
LEMMA FlagsStep ==
  ASSUME FlagsType, [Next]_vars
  PROVE  FlagsType'
<1> USE DEF FlagsType, t7vars, t2vars, wsvars, flags, queues
<1>1. CASE T7Boots BY <1>1 DEF T7Boots, Goto
<1>2. CASE T7Starts BY <1>2 DEF T7Starts, Goto, Start
<1>3. CASE T7Loops BY <1>3 DEF T7Loops, Goto
<1>4. CASE T7RequestsPause BY <1>4 DEF T7RequestsPause, Goto
<1>5. CASE T7SeesPaused BY <1>5 DEF T7SeesPaused, Goto
<1>6. CASE T7Stops BY <1>6 DEF T7Stops, Goto, Stop
<1>7. CASE T7Drains BY <1>7 DEF T7Drains, Goto
<1>8. CASE T7Swaps BY <1>8 DEF T7Swaps, Goto
<1>9. CASE T7RequestsResume BY <1>9 DEF T7RequestsResume, Goto
<1>10. CASE T7SeesNormal BY <1>10 DEF T7SeesNormal, Goto
<1>11. CASE T7Winds BY <1>11 DEF T7Winds, Goto
<1>12. CASE T7Cascades BY <1>12 DEF T7Cascades, Goto, Stop
<1>13. CASE T7Returns BY <1>13 DEF T7Returns
<1>14. CASE T2Works BY <1>14 DEF T2Works
<1>15. CASE T2Throws BY <1>15 DEF T2Throws
<1>16. CASE T2Pauses BY <1>16 DEF T2Pauses
<1>17. CASE T2Resumes BY <1>17 DEF T2Resumes
<1>18. CASE T2Stops BY <1>18 DEF T2Stops
<1>19. CASE T1Pushes BY <1>19 DEF T1Pushes
<1>20. CASE T3Takes BY <1>20 DEF T3Takes
<1>21. CASE T3Stops BY <1>21 DEF T3Stops
<1>22. CASE Signal BY <1>22 DEF Signal
<1>23. CASE SDWakes BY <1>23 DEF SDWakes
<1>24. CASE SDStops BY <1>24 DEF SDStops, Stop
<1>25. CASE T7Registers BY <1>25 DEF T7Registers, Goto
<1>26. CASE UNCHANGED vars BY <1>26 DEF vars
<1> QED BY <1>1, <1>2, <1>3, <1>4, <1>5, <1>6, <1>7, <1>8, <1>9, <1>10, <1>11, <1>12,
       <1>13, <1>14, <1>15, <1>16, <1>17, <1>18, <1>19, <1>20, <1>21, <1>22, <1>23,
       <1>24, <1>25, <1>26 DEF Next, T7


\* T2 alone leaves the phases that keep it paused.
LEMMA T2Step ==
  ASSUME TypeOK, T2Inv, T7Inv, [Next]_vars
  PROVE  T2Inv'
<1> USE DEF TypeOK, PlacesType, FlagsType, T2Inv, T7Inv, Phase, Rewriting, t7vars,
       t2vars, wsvars, flags, queues
<1>1. CASE T7Boots BY <1>1 DEF T7Boots, Goto
<1>2. CASE T7Starts BY <1>2 DEF T7Starts, Goto, Start
<1>3. CASE T7Loops BY <1>3 DEF T7Loops, Goto
<1>4. CASE T7RequestsPause BY <1>4 DEF T7RequestsPause, Goto
<1>5. CASE T7SeesPaused BY <1>5 DEF T7SeesPaused, Goto
<1>6. CASE T7Stops BY <1>6 DEF T7Stops, Goto, Stop
<1>7. CASE T7Drains BY <1>7 DEF T7Drains, Goto
<1>8. CASE T7Swaps BY <1>8 DEF T7Swaps, Goto
<1>9. CASE T7RequestsResume BY <1>9 DEF T7RequestsResume, Goto
<1>10. CASE T7SeesNormal BY <1>10 DEF T7SeesNormal, Goto
<1>11. CASE T7Winds BY <1>11 DEF T7Winds, Goto
<1>12. CASE T7Cascades BY <1>12 DEF T7Cascades, Goto, Stop
<1>13. CASE T7Returns BY <1>13 DEF T7Returns
<1>14. CASE T2Works BY <1>14 DEF T2Works
<1>15. CASE T2Throws BY <1>15 DEF T2Throws
<1>16. CASE T2Pauses BY <1>16 DEF T2Pauses
<1>17. CASE T2Resumes BY <1>17 DEF T2Resumes
<1>18. CASE T2Stops BY <1>18 DEF T2Stops
<1>19. CASE T1Pushes BY <1>19 DEF T1Pushes
<1>20. CASE T3Takes BY <1>20 DEF T3Takes
<1>21. CASE T3Stops BY <1>21 DEF T3Stops
<1>22. CASE Signal BY <1>22 DEF Signal
<1>23. CASE SDWakes BY <1>23 DEF SDWakes
<1>24. CASE SDStops BY <1>24 DEF SDStops, Stop
<1>25. CASE T7Registers BY <1>25 DEF T7Registers, Goto
<1>26. CASE UNCHANGED vars BY <1>26 DEF vars
<1> QED BY <1>1, <1>2, <1>3, <1>4, <1>5, <1>6, <1>7, <1>8, <1>9, <1>10, <1>11, <1>12,
       <1>13, <1>14, <1>15, <1>16, <1>17, <1>18, <1>19, <1>20, <1>21, <1>22, <1>23,
       <1>24, <1>25, <1>26 DEF Next, T7


\* T7 moves on only when the phase allows it, or gives up when the process ends.
LEMMA T7Step ==
  ASSUME TypeOK, T2Inv, T7Inv, [Next]_vars
  PROVE  T7Inv'
<1> USE DEF TypeOK, PlacesType, FlagsType, T2Inv, T7Inv, Ending, Stopping, Phase,
       Rewriting, t7vars, t2vars, wsvars, flags, queues
<1>1. CASE T7Boots BY <1>1 DEF T7Boots, Goto
<1>2. CASE T7Starts BY <1>2 DEF T7Starts, Goto, Start
<1>3. CASE T7Loops BY <1>3 DEF T7Loops, Goto
<1>4. CASE T7RequestsPause BY <1>4 DEF T7RequestsPause, Goto
<1>5. CASE T7SeesPaused BY <1>5 DEF T7SeesPaused, Goto
<1>6. CASE T7Stops BY <1>6 DEF T7Stops, Goto, Stop
<1>7. CASE T7Drains BY <1>7 DEF T7Drains, Goto
<1>8. CASE T7Swaps BY <1>8 DEF T7Swaps, Goto
<1>9. CASE T7RequestsResume BY <1>9 DEF T7RequestsResume, Goto
<1>10. CASE T7SeesNormal BY <1>10 DEF T7SeesNormal, Goto
<1>11. CASE T7Winds BY <1>11 DEF T7Winds, Goto
<1>12. CASE T7Cascades BY <1>12 DEF T7Cascades, Goto, Stop
<1>13. CASE T7Returns BY <1>13 DEF T7Returns
<1>14. CASE T2Works BY <1>14 DEF T2Works
<1>15. CASE T2Throws BY <1>15 DEF T2Throws
<1>16. CASE T2Pauses BY <1>16 DEF T2Pauses
<1>17. CASE T2Resumes BY <1>17 DEF T2Resumes
<1>18. CASE T2Stops BY <1>18 DEF T2Stops
<1>19. CASE T1Pushes BY <1>19 DEF T1Pushes
<1>20. CASE T3Takes BY <1>20 DEF T3Takes
<1>21. CASE T3Stops BY <1>21 DEF T3Stops
<1>22. CASE Signal BY <1>22 DEF Signal
<1>23. CASE SDWakes BY <1>23 DEF SDWakes
<1>24. CASE SDStops BY <1>24 DEF SDStops, Stop
<1>25. CASE T7Registers BY <1>25 DEF T7Registers, Goto
<1>26. CASE UNCHANGED vars BY <1>26 DEF vars
<1> QED BY <1>1, <1>2, <1>3, <1>4, <1>5, <1>6, <1>7, <1>8, <1>9, <1>10, <1>11, <1>12,
       <1>13, <1>14, <1>15, <1>16, <1>17, <1>18, <1>19, <1>20, <1>21, <1>22, <1>23,
       <1>24, <1>25, <1>26 DEF Next, T7


\* The feeds are up again before the resume, unless the shutdown thread stopped them.
LEMMA FeedStep ==
  ASSUME TypeOK, T2Inv, T7Inv, FeedInv, [Next]_vars
  PROVE  FeedInv'
<1> USE DEF TypeOK, PlacesType, FlagsType, T7Inv, FeedInv, Ending, Stopping, Phase, Ws,
       Rewriting, t7vars, t2vars, wsvars, flags, queues
<1>1. CASE T7Boots BY <1>1 DEF T7Boots, Goto
<1>2. CASE T7Starts BY <1>2 DEF T7Starts, Goto, Start
<1>3. CASE T7Loops BY <1>3 DEF T7Loops, Goto
<1>4. CASE T7RequestsPause BY <1>4 DEF T7RequestsPause, Goto
<1>5. CASE T7SeesPaused BY <1>5 DEF T7SeesPaused, Goto
<1>6. CASE T7Stops BY <1>6 DEF T7Stops, Goto, Stop
<1>7. CASE T7Drains BY <1>7 DEF T7Drains, Goto
<1>8. CASE T7Swaps BY <1>8 DEF T7Swaps, Goto
<1>9. CASE T7RequestsResume BY <1>9 DEF T7RequestsResume, Goto
<1>10. CASE T7SeesNormal BY <1>10 DEF T7SeesNormal, Goto
<1>11. CASE T7Winds BY <1>11 DEF T7Winds, Goto
<1>12. CASE T7Cascades BY <1>12 DEF T7Cascades, Goto, Stop
<1>13. CASE T7Returns BY <1>13 DEF T7Returns
<1>14. CASE T2Works BY <1>14 DEF T2Works
<1>15. CASE T2Throws BY <1>15 DEF T2Throws
<1>16. CASE T2Pauses BY <1>16 DEF T2Pauses
<1>17. CASE T2Resumes BY <1>17 DEF T2Resumes
<1>18. CASE T2Stops BY <1>18 DEF T2Stops
<1>19. CASE T1Pushes BY <1>19 DEF T1Pushes
<1>20. CASE T3Takes BY <1>20 DEF T3Takes
<1>21. CASE T3Stops BY <1>21 DEF T3Stops
<1>22. CASE Signal BY <1>22 DEF Signal
<1>23. CASE SDWakes BY <1>23 DEF SDWakes
<1>24. CASE SDStops BY <1>24 DEF SDStops, Stop
<1>25. CASE T7Registers BY <1>25 DEF T7Registers, Goto
<1>26. CASE UNCHANGED vars BY <1>26 DEF vars
<1> QED BY <1>1, <1>2, <1>3, <1>4, <1>5, <1>6, <1>7, <1>8, <1>9, <1>10, <1>11, <1>12,
       <1>13, <1>14, <1>15, <1>16, <1>17, <1>18, <1>19, <1>20, <1>21, <1>22, <1>23,
       <1>24, <1>25, <1>26 DEF Next, T7


\* The invariant holds in every state of every behaviour.
LEMMA Invariance == Spec => []IInv
<1>1. IInv /\ [Next]_vars => IInv'
  BY PlacesStep, FlagsStep, T2Step, T7Step, FeedStep DEF IInv, TypeOK
<1> QED BY InitEstablishes, <1>1, PTL DEF Spec

\* Every variable keeps its type and no queue exceeds its capacity, however the
\* threads interleave.
THEOREM TypeCorrect == Spec => []TypeOK
BY Invariance, PTL DEF IInv

\* Whatever cuts into the handshake, T2 does not run during steps 5 to 9 of
\* execute_rotation, which rewrite the markets, the subscriptions and the timing
\* context.  T7's registrations outside a rotation (Registering) are not covered:
\* T2 is running then.
THEOREM QuietRotation == Spec => []T2QuietWhileRewriting
<1>1. IInv => T2QuietWhileRewriting
  BY DEF IInv, T2Inv, T7Inv, T2QuietWhileRewriting
<1> QED BY Invariance, <1>1, PTL

\* Only five of the steps write the phase.
LEMMA PhaseStays ==
  ASSUME [Next]_vars, phase' # phase
  PROVE  T7RequestsPause \/ T7RequestsResume \/ T7Winds \/ T2Pauses \/ T2Resumes
BY DEF Next, T7, vars, T7Boots, T7Registers, T7Starts, T7Loops, T7SeesPaused, T7Stops, T7Drains,
       T7Swaps, T7SeesNormal, T7Cascades, T7Returns, T2Works, T2Throws, T2Stops,
       T1Pushes, T3Takes, T3Stops, Signal, SDWakes, SDStops

\* T7 and T2 take turns with the phase (rotation_coordinator.h 27): each writes it
\* only where the other has answered, also in Phase F of an interrupted rotation.
THEOREM TakingTurns == Spec => PhaseGoesRound
<1> DEFINE A ==
  /\ (phase = "NORMAL" /\ phase' # phase) => phase' = "PAUSE_REQUESTED" /\ t7' # t7
  /\ (phase = "PAUSE_REQUESTED" /\ phase' # phase) => phase' = "PAUSED" /\ t2' # t2
  /\ (phase = "PAUSED" /\ phase' # phase) => phase' = "RESUME_REQUESTED" /\ t7' # t7
  /\ (phase = "RESUME_REQUESTED" /\ phase' # phase) => phase' = "NORMAL" /\ t2' # t2
<1>1. ASSUME IInv, [Next]_vars PROVE A
  <2>1. CASE phase' = phase BY <2>1
  <2>2. CASE phase' # phase
    <3> USE DEF IInv, T2Inv, T7Inv
    <3>1. CASE T7RequestsPause BY <1>1, <3>1 DEF T7RequestsPause, Goto
    <3>2. CASE T7RequestsResume BY <1>1, <3>2 DEF T7RequestsResume, Goto, Rewriting
    <3>3. CASE T7Winds BY <1>1, <3>3 DEF T7Winds, Goto
    <3>4. CASE T2Pauses BY <1>1, <3>4 DEF T2Pauses
    <3>5. CASE T2Resumes BY <1>1, <3>5 DEF T2Resumes
    <3> QED BY <1>1, <2>2, <3>1, <3>2, <3>3, <3>4, <3>5, PhaseStays
  <2> QED BY <2>1, <2>2
<1>2. IInv /\ [Next]_vars => [A]_vars BY <1>1
<1> QED BY Invariance, <1>2, PTL DEF Spec, PhaseGoesRound

\* T2 resumes only on feeds that T7 has started again, unless the process ends.
THEOREM LiveFeeds == Spec => ResumesOnLiveFeeds
<1> DEFINE A == (t2 = "paused" /\ t2' = "run") => Ending \/ \A w \in Ws : ws[w]
<1>1. ASSUME IInv, [Next]_vars, t2 = "paused", t2' = "run" PROVE Ending \/ \A w \in Ws : ws[w]
  <2>1. T2Resumes
    BY <1>1 DEF Next, T7, vars, t2vars, T7Boots, T7Registers, T7Starts, T7Loops, T7RequestsPause,
           T7SeesPaused, T7Stops, T7Drains, T7Swaps, T7RequestsResume, T7SeesNormal,
           T7Winds, T7Cascades, T7Returns, T2Works, T2Throws, T2Pauses, T2Stops,
           T1Pushes, T3Takes, T3Stops, Signal, SDWakes, SDStops
  <2>2. phase = "RESUME_REQUESTED" BY <2>1 DEF T2Resumes
  <2>3. Ending \/ t7 = "waitNormal" BY <1>1, <2>2 DEF IInv, FeedInv
  <2> QED BY <1>1, <2>3 DEF IInv, FeedInv, Ending, Stopping, Ws
<1>2. IInv /\ [Next]_vars => [A]_vars BY <1>1
<1> QED BY Invariance, <1>2, PTL DEF Spec, ResumesOnLiveFeeds
=============================================================================
