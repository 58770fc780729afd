----------------------------- MODULE SpeedMatcher -----------------------------
(* speedmatcher.cpp: it drives a locomotive at every throttle step, waits until *)
(* the speedometer shows a steady speed, and then writes a speed table into the *)
(* decoder. Two timers, the abort button, the answers of the command station    *)
(* and the results of the programmer come in any order.                         *)
EXTENDS Integers, Sequences

CONSTANTS
    NUM_STEPS,         \* throttle steps that are measured
    STABLE_REQUIRED,   \* ticks without a change that make a speed steady
    STABLE_TOLERANCE,  \* a smaller change is none, in km/h
    MAX_WAIT_TICKS,    \* ticks after which a speed is taken as it is
    Kph,               \* what the speedometer may show
    MaxKph,            \* the speed that the user wants for the last step
    MaxRuns            \* bound: how often the user starts

ASSUME StepsAssumption == NUM_STEPS \in Nat \ {0}
ASSUME TicksAssumption ==
    STABLE_REQUIRED \in Nat \ {0} /\ MAX_WAIT_TICKS \in Nat \ {0} /\ STABLE_TOLERANCE \in Nat
ASSUME KphAssumption == Kph \subseteq Nat /\ MaxKph \in Nat
ASSUME RunsAssumption == MaxRuns \in Nat

Steps == 1..NUM_STEPS
Runs == 1..MaxRuns

VARIABLES
    state,
    throttle,      \* m_throttle: that of which run, 0 if it is null
    programming,   \* m_programmer exists
    m_currentStep, m_measuredKph, m_currentSpeedKph, m_lastCheckedKph, m_stableCount, m_waitTicks,
    ticking,       \* m_stabilizationTimer is running
    delaying,      \* m_phaseTimer is running
    writes,        \* the steps whose CV is not written yet
    table,         \* what was submitted for the CV of each step, 0 if nothing was
    crashed,       \* a null pointer was followed, or what was freed was used
    runs,          \* how often the user has started
    asking, held,  \* throttles that the command station has not given a slot yet, or has
    trainSpeed,    \* what the throttle last told the locomotive, in percent
    measured,      \* history: [run, speed] of the run and train speed of each measurement
    orphaned,      \* history: throttles that were let go before they had a slot
    calm           \* history: no abort while a timer ticks, no measurement without a slot

step == <<m_currentStep, m_measuredKph, m_lastCheckedKph, m_stableCount, m_waitTicks>>
bus == <<asking, held, trainSpeed>>
vars == <<state, throttle, programming, step, m_currentSpeedKph, ticking, delaying, writes,
          table, crashed, runs, bus, measured, orphaned, calm>>

States == {"Idle", "AcquiringThrottle", "Stabilizing", "StoppingLoco"}
Nothing == [run |-> 0, speed |-> 0]

TypeOK ==
    /\ state \in States
    /\ throttle \in {0} \cup Runs
    /\ programming \in BOOLEAN /\ ticking \in BOOLEAN /\ delaying \in BOOLEAN
    /\ m_currentStep \in 0..NUM_STEPS
    /\ m_measuredKph \in [Steps -> Kph \cup {0}]
    /\ m_currentSpeedKph \in Kph \cup {0}
    /\ m_lastCheckedKph \in Kph \cup {0, -1}
    /\ m_stableCount \in 0..STABLE_REQUIRED
    /\ m_waitTicks \in 0..MAX_WAIT_TICKS
    /\ writes \in Seq(Steps)
    /\ table \in [Steps -> 0..255]
    /\ crashed \in BOOLEAN /\ calm \in BOOLEAN
    /\ runs \in 0..MaxRuns
    /\ asking \subseteq Runs /\ held \subseteq Runs /\ orphaned \subseteq Runs
    /\ trainSpeed \in 0..100
    /\ measured \in [Steps -> [run : {0} \cup Runs, speed : 0..100]]

Init ==
    /\ state = "Idle" /\ throttle = 0 /\ programming = FALSE
    /\ m_currentStep = 0 /\ m_measuredKph = [s \in Steps |-> 0]
    /\ m_currentSpeedKph = 0 /\ m_lastCheckedKph = -1
    /\ m_stableCount = 0 /\ m_waitTicks = 0
    /\ ticking = FALSE /\ delaying = FALSE
    /\ writes = <<>> /\ table = [s \in Steps |-> 0]
    /\ crashed = FALSE /\ runs = 0
    /\ asking = {} /\ held = {} /\ trainSpeed = 0
    /\ measured = [s \in Steps |-> Nothing]
    /\ orphaned = {} /\ calm = TRUE

(* std::round of a / b. *)
Round(a, b) == (2 * a + b) \div (2 * b)
Percent(s) == Round(100 * s, NUM_STEPS)
Abs(n) == IF n < 0 THEN -n ELSE n

-------------------------------------------------------------------------------
(* The throttle and the locomotive. *)

(* setSpeed has no effect before the throttle has its slot. *)
SetSpeed(percent) == trainSpeed' = IF throttle \in held THEN percent ELSE trainSpeed

(* releaseLocomotive, and m_throttle is reset; the connection keeps the object, so *)
(* a throttle that is still asking will get its slot.                              *)
ReleaseThrottle ==
    /\ held' = held \ {throttle}
    /\ orphaned' = orphaned \cup (asking \cap {throttle})
    /\ throttle' = 0
    /\ asking' = asking

Acquired ==
    /\ \E t \in asking : asking' = asking \ {t} /\ held' = held \cup {t}
    /\ UNCHANGED <<state, throttle, programming, step, m_currentSpeedKph, ticking, delaying,
                   writes, table, crashed, runs, trainSpeed, measured, orphaned, calm>>

onSpeedUpdated ==
    /\ \E kph \in Kph : m_currentSpeedKph' = kph
    /\ UNCHANGED <<state, throttle, programming, step, ticking, delaying, writes, table,
                   crashed, runs, bus, measured, orphaned, calm>>

-------------------------------------------------------------------------------
(* Buttons. *)

onStartClicked ==
    /\ state = "Idle"
    /\ runs < MaxRuns
    /\ runs' = runs + 1
    /\ throttle' = runs + 1 /\ asking' = asking \cup {runs + 1}
    /\ programming' = TRUE
    /\ state' = "AcquiringThrottle"
    /\ delaying' = TRUE
    /\ UNCHANGED <<step, m_currentSpeedKph, ticking, writes, table, crashed, held, trainSpeed,
                   measured, orphaned, calm>>

(* Mutation: the locomotive is let go at the speed it has. *)
on_abortButton_clickedRolling ==
    /\ state # "Idle"
    /\ ReleaseThrottle /\ trainSpeed' = trainSpeed
    /\ programming' = FALSE /\ writes' = <<>>
    /\ state' = "Idle"
    /\ calm' = (calm /\ ~ticking)
    /\ UNCHANGED <<step, m_currentSpeedKph, ticking, delaying, table, crashed, runs, measured>>

(* No timer is stopped. The programmer is destroyed, and with it its queue. *)
on_abortButton_clicked ==
    /\ state # "Idle"
    /\ SetSpeed(0) /\ ReleaseThrottle
    /\ programming' = FALSE /\ writes' = <<>>
    /\ state' = "Idle"
    /\ calm' = (calm /\ ~ticking)
    /\ UNCHANGED <<step, m_currentSpeedKph, ticking, delaying, table, crashed, runs, measured>>

-------------------------------------------------------------------------------
(* Measuring. *)

(* startStep, with a throttle. *)
StartStep(s) ==
    /\ m_currentStep' = s
    /\ state' = "Stabilizing"
    /\ m_stableCount' = 0 /\ m_waitTicks' = 0 /\ m_lastCheckedKph' = -1
    /\ SetSpeed(Percent(s))
    /\ ticking' = TRUE

(* Mutation: it goes on where the run before it was. *)
BeginMeasurementAtCurrent ==
    /\ m_measuredKph' = [s \in Steps |-> 0]
    /\ measured' = [s \in Steps |-> Nothing]
    /\ calm' = (calm /\ throttle \in held)
    /\ StartStep(IF m_currentStep = 0 THEN 1 ELSE m_currentStep)

BeginMeasurement ==
    /\ m_measuredKph' = [s \in Steps |-> 0]
    /\ measured' = [s \in Steps |-> Nothing]
    /\ calm' = (calm /\ throttle \in held)
    /\ StartStep(1)

(* The tick that ends a step: the speed is steady, or it was waited for too long. *)
StableCount(same) == IF same THEN m_stableCount + 1 ELSE 0
Steady(same) == StableCount(same) >= STABLE_REQUIRED \/ m_waitTicks + 1 >= MAX_WAIT_TICKS

Same == Abs(m_currentSpeedKph - m_lastCheckedKph) <= STABLE_TOLERANCE

Record ==
    /\ m_measuredKph' = [m_measuredKph EXCEPT ![m_currentStep] = m_currentSpeedKph]
    /\ measured' = [measured EXCEPT ![m_currentStep] = [run |-> throttle, speed |-> trainSpeed]]

TickWaits ==
    /\ ~Steady(Same)
    /\ m_waitTicks' = m_waitTicks + 1
    /\ m_stableCount' = StableCount(Same)
    /\ m_lastCheckedKph' = IF Same THEN m_lastCheckedKph ELSE m_currentSpeedKph
    /\ UNCHANGED <<m_currentStep, m_measuredKph, state, ticking, delaying, crashed, trainSpeed, measured>>

TickNextStep ==
    /\ Steady(Same) /\ throttle # 0 /\ m_currentStep < NUM_STEPS
    /\ Record
    /\ StartStep(m_currentStep + 1)
    /\ UNCHANGED <<delaying, crashed>>

TickLastStep ==
    /\ Steady(Same) /\ throttle # 0 /\ m_currentStep = NUM_STEPS
    /\ Record
    /\ ticking' = FALSE
    /\ state' = "StoppingLoco"
    /\ SetSpeed(0)
    /\ delaying' = TRUE
    /\ m_waitTicks' = m_waitTicks + 1 /\ m_stableCount' = StableCount(Same)
    /\ m_lastCheckedKph' = IF Same THEN m_lastCheckedKph ELSE m_currentSpeedKph
    /\ UNCHANGED <<m_currentStep, crashed>>

(* After an abort there is no throttle. *)
TickCrashes ==
    /\ Steady(Same) /\ throttle = 0
    /\ crashed' = TRUE
    /\ UNCHANGED <<step, state, ticking, delaying, trainSpeed, measured>>

onStabilizationTick ==
    /\ ticking
    /\ TickWaits \/ TickNextStep \/ TickLastStep \/ TickCrashes
    /\ UNCHANGED <<throttle, programming, m_currentSpeedKph, writes, table, runs, asking, held,
                   orphaned, calm>>

-------------------------------------------------------------------------------
(* Programming. *)

(* Mutation: nothing keeps it in a byte. *)
computeCVValueUnclamped(s) ==
    Round(255 * s * MaxKph, NUM_STEPS * m_measuredKph[NUM_STEPS])

(* Of a linear table, the part that gives the last step the speed that is wanted. *)
computeCVValue(s) ==
    LET cv == Round(255 * s * MaxKph, NUM_STEPS * m_measuredKph[NUM_STEPS])
    IN  IF cv < 1 THEN 1 ELSE IF cv > 255 THEN 255 ELSE cv

FinishMatching ==
    /\ ReleaseThrottle
    /\ programming' = FALSE
    /\ state' = "Idle"

BeginProgramming ==
    IF m_measuredKph[NUM_STEPS] <= 0
    THEN FinishMatching /\ UNCHANGED <<writes, table>>
    ELSE /\ writes' = [s \in Steps |-> s]
         /\ table' = [s \in Steps |-> computeCVValue(s)]
         /\ UNCHANGED <<state, throttle, programming, asking, held, orphaned>>

(* Mutation: nothing follows when the locomotive has stopped. *)
onPhaseTimerExpiredNoProgramming ==
    /\ delaying
    /\ delaying' = FALSE
    /\ \/ /\ state = "AcquiringThrottle"
          /\ BeginMeasurement
          /\ UNCHANGED <<throttle, programming, writes, table, asking, held, orphaned>>
       \/ /\ state = "StoppingLoco"
          /\ UNCHANGED <<writes, table, state, throttle, programming, asking, held, orphaned>>
          /\ UNCHANGED <<step, ticking, measured, trainSpeed, calm>>
       \/ /\ state \notin {"AcquiringThrottle", "StoppingLoco"}
          /\ UNCHANGED <<state, throttle, programming, step, ticking, writes, table, bus,
                         measured, orphaned, calm>>
    /\ UNCHANGED <<m_currentSpeedKph, crashed, runs>>

onPhaseTimerExpired ==
    /\ delaying
    /\ delaying' = FALSE
    /\ \/ /\ state = "AcquiringThrottle"
          /\ BeginMeasurement
          /\ UNCHANGED <<throttle, programming, writes, table, asking, held, orphaned>>
       \/ /\ state = "StoppingLoco"
          /\ BeginProgramming
          /\ UNCHANGED <<step, ticking, measured, trainSpeed, calm>>
       \/ /\ state \notin {"AcquiringThrottle", "StoppingLoco"}
          /\ UNCHANGED <<state, throttle, programming, step, ticking, writes, table, bus,
                         measured, orphaned, calm>>
    /\ UNCHANGED <<m_currentSpeedKph, crashed, runs>>

(* The programmer calls back for each result in turn. The last one destroys the *)
(* programmer, which then goes on with its queue: undefined behaviour.          *)
ResultCompleted ==
    /\ programming /\ writes # <<>>
    /\ writes' = Tail(writes)
    /\ IF Head(writes) = NUM_STEPS
       THEN FinishMatching /\ crashed' \in BOOLEAN
       ELSE UNCHANGED <<state, throttle, programming, asking, held, orphaned, crashed>>
    /\ UNCHANGED <<step, m_currentSpeedKph, ticking, delaying, table, runs, trainSpeed,
                   measured, calm>>

-------------------------------------------------------------------------------
Next ==
    /\ ~crashed
    /\ \/ onStartClicked \/ on_abortButton_clicked
       \/ Acquired \/ onSpeedUpdated
       \/ onStabilizationTick \/ onPhaseTimerExpired
       \/ ResultCompleted

(* Timers of an event loop that runs fire, and the programmer ends its requests. *)
Spec ==
    /\ Init /\ [][Next]_vars
    /\ WF_vars(~crashed /\ onStabilizationTick)
    /\ WF_vars(~crashed /\ onPhaseTimerExpired)
    /\ WF_vars(~crashed /\ ResultCompleted)

-------------------------------------------------------------------------------
(* Properties. *)

(* However a run ends, and also after a crash, the locomotive was told to stop, *)
(* and no throttle keeps a slot but one that was let go before it had one.      *)
AtRest == state = "Idle" => trainSpeed = 0 /\ held \subseteq orphaned

(* A speed table is written from measurements of this run only, each of them taken *)
(* while the locomotive ran at its step; until a run is aborted while it measures, *)
(* or begins to measure without a slot.                                            *)
MeasuredAtItsStep ==
    calm /\ writes # <<>> => \A s \in Steps : measured[s] = [run |-> throttle, speed |-> Percent(s)]

(* A run does not hang, however unsteady the speed is and whatever comes between. *)
RunEnds == state # "Idle" ~> state = "Idle" \/ crashed
=============================================================================
