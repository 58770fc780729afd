------------------------------- MODULE DccProof -------------------------------
(* Proofs about the two programs for DCC decoders. About SpeedMatcher, for       *)
(* every number of steps, every speedometer and every number of runs; about      *)
(* DccDecoder, for every size of bytes and packets: its types, that a packet is   *)
(* only handed on checked unless another one came, and that the second packet    *)
(* without noise is found.                                                       *)
EXTENDS SpeedMatcher, DccDecoder, FiniteSetTheorems, SequenceTheorems, TLAPS

-------------------------------------------------------------------------------
(* The speed matcher. *)

\* A tick finds counters that have not reached their limits, and a step to measure.
Counting ==
    ticking => /\ m_currentStep \in Steps
               /\ m_stableCount < STABLE_REQUIRED /\ m_waitTicks < MAX_WAIT_TICKS

\* Only a throttle that was let go too early is held, or will be, beside that of the run.
Throttles ==
    /\ state = "Idle" => throttle = 0
    /\ state # "Idle" => throttle # 0
    /\ held \cup asking \subseteq orphaned \cup {throttle}
    /\ trainSpeed # 0 => throttle \in held

\* While the locomotive stops, and the decoder is written, nothing sets a speed. The CVs
\* that are left are the last ones, in their order.
Stopping ==
    /\ state = "StoppingLoco" => ~ticking /\ trainSpeed = 0
    /\ writes # <<>> => state = "StoppingLoco" /\ ~delaying
    /\ \A i \in 1..Len(writes) : writes[i] = NUM_STEPS - Len(writes) + i

\* The measurements of the steps before s are those of the throttle's own run.
MeasuredBefore(s) ==
    \A i \in Steps : i < s => measured[i] = [run |-> throttle, speed |-> Percent(i)]

Measuring ==
    calm =>
      /\ ticking => state = "Stabilizing"
      /\ state = "Stabilizing" =>
           throttle \in held /\ trainSpeed = Percent(m_currentStep) /\ MeasuredBefore(m_currentStep)
      /\ state = "StoppingLoco" => MeasuredBefore(NUM_STEPS + 1)

IInv == TypeOK /\ Counting /\ Throttles /\ Stopping /\ Measuring

-------------------------------------------------------------------------------
(* Arithmetic. *)

\* What \div is, for a divisor that is not zero.
LEMMA DivBounds ==
    ASSUME NEW a \in Nat, NEW b \in Nat \ {0}
    PROVE  a \div b \in Nat /\ b * (a \div b) <= a
OBVIOUS

\* The rounded share of a step is a percentage.
LEMMA PercentBound == \A s \in 0..NUM_STEPS : Percent(s) \in 0..100
<1>. SUFFICES ASSUME NEW s \in 0..NUM_STEPS PROVE Percent(s) \in 0..100
  OBVIOUS
<1>. DEFINE n == NUM_STEPS
            a == 2 * (100 * s) + n
            b == 2 * n
            q == a \div b
<1>1. /\ n \in Nat \ {0} /\ a \in Nat /\ b \in Nat \ {0} /\ b = 2 * n /\ a <= 201 * n
  BY StepsAssumption
<1>. HIDE DEF n, a, b
<1>2. q \in Nat /\ b * q <= a
  BY <1>1, DivBounds
<1>. HIDE DEF q
<1>3. ASSUME q >= 101 PROVE FALSE
  <2>1. b * q >= b * 101
    BY <1>3, <1>1, <1>2
  <2>. QED BY <2>1, <1>1, <1>2
<1>4. q \in 0..100
  BY <1>2, <1>3
<1>. QED BY <1>4 DEF q, n, a, b, Percent, Round

\* computeCVValue: a byte that is not zero, whatever was measured for the last step.
LEMMA CVIsAByte ==
    ASSUME TypeOK, m_measuredKph[NUM_STEPS] > 0, NEW s \in Steps
    PROVE  computeCVValue(s) \in 1..255
<1>1. NUM_STEPS \in Nat \ {0} /\ m_measuredKph[NUM_STEPS] \in Nat \ {0} /\ s \in Nat /\ MaxKph \in Nat
  <2>1. NUM_STEPS \in Nat \ {0} /\ NUM_STEPS \in Steps /\ s \in Nat
    BY StepsAssumption DEF Steps
  <2>2. m_measuredKph[NUM_STEPS] \in Kph \cup {0}
    BY <2>1 DEF TypeOK
  <2>3. \A kph \in Kph \cup {0} : kph \in Nat
    BY KphAssumption
  <2>4. m_measuredKph[NUM_STEPS] \in Nat
    BY <2>2, <2>3, Zenon
  <2>. QED BY <2>1, <2>4, KphAssumption
<1>. DEFINE b == NUM_STEPS * m_measuredKph[NUM_STEPS]
            a == 255 * s * MaxKph
            cv == Round(a, b)
<1>2. a \in Nat /\ b \in Nat \ {0}
  BY <1>1
<1>. HIDE DEF a, b
<1>3. 2 * a + b \in Nat /\ 2 * b \in Nat \ {0}
  BY <1>2
<1>4. cv \in Nat
  BY <1>3, DivBounds DEF Round
<1>. HIDE DEF cv
<1>5. computeCVValue(s) = IF cv < 1 THEN 1 ELSE IF cv > 255 THEN 255 ELSE cv
  BY DEF computeCVValue, cv, a, b
<1>. QED BY <1>4, <1>5

-------------------------------------------------------------------------------
(* The invariant. *)

\* What is known of the steps and of Percent in every proof below.
LEMMA StepFacts ==
    /\ NUM_STEPS \in Nat \ {0} /\ STABLE_REQUIRED \in Nat \ {0} /\ MAX_WAIT_TICKS \in Nat \ {0}
    /\ 1 \in Steps /\ NUM_STEPS \in Steps /\ Steps = 1..NUM_STEPS
    /\ \A s \in Steps : Percent(s) \in 0..100
BY StepsAssumption, TicksAssumption, PercentBound DEF Steps

LEMMA InitHolds == Init => IInv
<1>. SUFFICES ASSUME Init PROVE IInv
  OBVIOUS
<1>1. TypeOK
  <2>1. /\ runs \in 0..MaxRuns /\ m_currentStep \in 0..NUM_STEPS
        /\ m_stableCount \in 0..STABLE_REQUIRED /\ m_waitTicks \in 0..MAX_WAIT_TICKS
    BY StepFacts, RunsAssumption DEF Init
  <2>2. measured \in [Steps -> [run : {0} \cup Runs, speed : 0..100]]
    BY DEF Init, Nothing
  <2>3. writes \in Seq(Steps) /\ table \in [Steps -> 0..255] /\ m_measuredKph \in [Steps -> Kph \cup {0}]
    BY DEF Init
  <2>4. asking \subseteq Runs /\ held \subseteq Runs /\ orphaned \subseteq Runs /\ trainSpeed \in 0..100
    BY DEF Init
  <2>. QED BY <2>1, <2>2, <2>3, <2>4 DEF Init, TypeOK, States
<1>2. Counting /\ Throttles /\ Stopping /\ Measuring
  BY DEF Init, Counting, Throttles, Stopping, Measuring
<1>. QED BY <1>1, <1>2 DEF IInv

LEMMA StartKeeps == IInv /\ onStartClicked => IInv'
<1>. SUFFICES ASSUME IInv, onStartClicked PROVE IInv'
  OBVIOUS
<1>. USE DEF IInv, onStartClicked, step
<1>1. runs + 1 \in Runs /\ runs + 1 \in 0..MaxRuns /\ runs + 1 # 0
  BY RunsAssumption DEF TypeOK, Runs
<1>2. trainSpeed = 0 /\ writes = <<>>
  BY DEF TypeOK, Runs, Throttles, Stopping
<1>3. TypeOK'
  BY <1>1 DEF TypeOK, States
<1>4. Counting' /\ Stopping'
  BY <1>2 DEF Counting, Stopping
<1>5. Throttles'
  <2>1. held \cup asking \subseteq orphaned
    BY DEF TypeOK, Throttles, Runs
  <2>. QED BY <1>1, <1>2, <2>1 DEF Throttles
<1>6. Measuring'
  BY DEF Measuring
<1>. QED BY <1>3, <1>4, <1>5, <1>6

LEMMA AbortKeeps == IInv /\ on_abortButton_clicked => IInv'
<1>. SUFFICES ASSUME IInv, on_abortButton_clicked PROVE IInv'
  OBVIOUS
<1>. USE DEF IInv, on_abortButton_clicked, ReleaseThrottle, SetSpeed, step
<1>1. trainSpeed' = 0 /\ throttle' = 0 /\ state' = "Idle" /\ writes' = <<>>
  BY DEF Throttles
<1>2. TypeOK'
  <2>1. held' \subseteq Runs /\ asking' \subseteq Runs /\ orphaned' \subseteq Runs
    BY DEF TypeOK
  <2>2. writes' \in Seq(Steps) /\ state' \in States
    BY <1>1 DEF TypeOK, States
  <2>3. calm' \in BOOLEAN /\ programming' \in BOOLEAN
    BY DEF TypeOK
  <2>4. trainSpeed' \in 0..100 /\ throttle' \in {0} \cup Runs
    BY <1>1
  <2>. QED BY <2>1, <2>2, <2>3, <2>4 DEF TypeOK
<1>3. Counting'
  BY DEF Counting
<1>4. Throttles' /\ Stopping'
  BY <1>1 DEF Throttles, Stopping
<1>5. Measuring'
  BY <1>1 DEF Measuring
<1>. QED BY <1>2, <1>3, <1>4, <1>5

LEMMA AcquiredKeeps == IInv /\ Acquired => IInv'
<1>. SUFFICES ASSUME IInv, Acquired PROVE IInv'
  OBVIOUS
<1>. USE DEF IInv, Acquired, step
<1>1. held \subseteq held' /\ held' \cup asking' \subseteq held \cup asking
  OBVIOUS
<1>2. TypeOK'
  BY ZenonT(60) DEF TypeOK
<1>3. Counting' /\ Stopping'
  BY DEF Counting, Stopping
<1>4. Throttles'
  BY <1>1 DEF Throttles
<1>5. Measuring'
  BY <1>1 DEF Measuring, MeasuredBefore
<1>. QED BY <1>2, <1>3, <1>4, <1>5

LEMMA SpeedUpdatedKeeps == IInv /\ onSpeedUpdated => IInv'
<1>. SUFFICES ASSUME IInv, onSpeedUpdated PROVE IInv'
  OBVIOUS
<1>. USE DEF IInv, onSpeedUpdated, step, bus
<1>1. TypeOK'
  BY DEF TypeOK
<1>2. Counting' /\ Stopping' /\ Throttles' /\ Measuring'
  BY DEF Counting, Stopping, Throttles, Measuring, MeasuredBefore
<1>. QED BY <1>1, <1>2


\* startStep: the counters are reset, and the locomotive is told the speed of the step.
LEMMA StartStepType ==
    ASSUME IInv, NEW s \in Steps, StartStep(s)
    PROVE  /\ m_currentStep' \in 0..NUM_STEPS /\ m_currentStep' \in Steps
           /\ m_stableCount' = 0 /\ m_waitTicks' = 0 /\ m_lastCheckedKph' \in Kph \cup {0, -1}
           /\ m_stableCount' \in 0..STABLE_REQUIRED /\ m_waitTicks' \in 0..MAX_WAIT_TICKS
           /\ trainSpeed' \in 0..100
           /\ state' = "Stabilizing" /\ ticking'
BY StepFacts DEF IInv, TypeOK, StartStep, SetSpeed

\* A tick takes the counters to their limits at most.
LEMMA CountersAdvance ==
    ASSUME IInv, ticking
    PROVE  /\ m_waitTicks + 1 \in 0..MAX_WAIT_TICKS
           /\ \A same \in BOOLEAN : StableCount(same) \in 0..STABLE_REQUIRED
           /\ \A same \in BOOLEAN : ~Steady(same) =>
                StableCount(same) < STABLE_REQUIRED /\ m_waitTicks + 1 < MAX_WAIT_TICKS
BY StepFacts DEF IInv, TypeOK, Counting, StableCount, Steady

LEMMA TickWaitsKeeps ==
    IInv /\ ticking /\ TickWaits
      /\ UNCHANGED <<throttle, programming, m_currentSpeedKph, writes, table, runs, asking, held,
                     orphaned, calm>>
      => IInv'
<1>. SUFFICES ASSUME IInv, ticking, TickWaits,
                     UNCHANGED <<throttle, programming, m_currentSpeedKph, writes, table, runs,
                                 asking, held, orphaned, calm>>
              PROVE  IInv'
  OBVIOUS
<1>. USE DEF IInv, TickWaits
<1>1. Same \in BOOLEAN
  BY DEF Same
<1>2. /\ m_waitTicks' \in 0..MAX_WAIT_TICKS /\ m_waitTicks' < MAX_WAIT_TICKS
      /\ m_stableCount' \in 0..STABLE_REQUIRED /\ m_stableCount' < STABLE_REQUIRED
  BY <1>1, CountersAdvance
<1>3. m_lastCheckedKph' \in Kph \cup {0, -1}
  BY DEF TypeOK
<1>4. TypeOK'
  BY <1>2, <1>3 DEF TypeOK
<1>5. Counting'
  BY <1>2 DEF Counting
<1>6. Throttles' /\ Stopping' /\ Measuring'
  BY DEF Throttles, Stopping, Measuring, MeasuredBefore
<1>. QED BY <1>4, <1>5, <1>6

LEMMA RecordType ==
    ASSUME IInv, ticking, Record
    PROVE  /\ m_measuredKph' \in [Steps -> Kph \cup {0}]
           /\ measured' \in [Steps -> [run : {0} \cup Runs, speed : 0..100]]
           /\ \A i \in Steps : measured'[i] = IF i = m_currentStep
                                             THEN [run |-> throttle, speed |-> trainSpeed]
                                             ELSE measured[i]
<1>1. m_currentStep \in Steps
  BY DEF IInv, Counting
<1>2. [run |-> throttle, speed |-> trainSpeed] \in [run : {0} \cup Runs, speed : 0..100]
  BY DEF IInv, TypeOK
<1>. QED BY <1>1, <1>2 DEF IInv, TypeOK, Record

LEMMA TickNextStepKeeps ==
    IInv /\ ticking /\ TickNextStep
      /\ UNCHANGED <<throttle, programming, m_currentSpeedKph, writes, table, runs, asking, held,
                     orphaned, calm>>
      => IInv'
<1>. SUFFICES ASSUME IInv, ticking, TickNextStep,
                     UNCHANGED <<throttle, programming, m_currentSpeedKph, writes, table, runs,
                                 asking, held, orphaned, calm>>
              PROVE  IInv'
  OBVIOUS
<1>1. m_currentStep \in Steps /\ m_currentStep + 1 \in Steps /\ m_currentStep < m_currentStep + 1
  BY StepFacts DEF IInv, Counting, TickNextStep
<1>2. StartStep(m_currentStep + 1) /\ Record /\ UNCHANGED <<delaying, crashed>> /\ throttle # 0
  BY DEF TickNextStep
<1>3. state' = "Stabilizing" /\ m_currentStep' = m_currentStep + 1 /\ ticking' = TRUE
      /\ trainSpeed' = IF throttle \in held THEN Percent(m_currentStep + 1) ELSE trainSpeed
  BY <1>2 DEF StartStep, SetSpeed
<1>4. TypeOK'
  <2>1. /\ m_currentStep' \in 0..NUM_STEPS /\ m_lastCheckedKph' \in Kph \cup {0, -1}
        /\ m_stableCount' \in 0..STABLE_REQUIRED /\ m_waitTicks' \in 0..MAX_WAIT_TICKS
        /\ trainSpeed' \in 0..100
    BY <1>1, <1>2, StartStepType
  <2>2. /\ m_measuredKph' \in [Steps -> Kph \cup {0}]
        /\ measured' \in [Steps -> [run : {0} \cup Runs, speed : 0..100]]
    BY <1>2, RecordType
  <2>. QED BY <1>2, <1>3, <2>1, <2>2 DEF IInv, TypeOK, States
<1>5. Counting'
  <2>1. m_currentStep' \in Steps /\ m_stableCount' = 0 /\ m_waitTicks' = 0
    BY <1>1, <1>2, StartStepType
  <2>. QED BY <2>1, StepFacts DEF Counting
<1>6. Throttles' /\ Stopping'
  BY <1>2, <1>3 DEF IInv, Throttles, Stopping
<1>7. Measuring'
  <2>. SUFFICES ASSUME calm
                PROVE  /\ throttle' \in held' /\ trainSpeed' = Percent(m_currentStep')
                       /\ \A i \in Steps : i < m_currentStep' =>
                            measured'[i] = [run |-> throttle', speed |-> Percent(i)]
    BY <1>3 DEF Measuring, MeasuredBefore, Percent, Round
  <2>1. state = "Stabilizing"
    BY DEF IInv, Measuring
  <2>2. throttle \in held /\ trainSpeed = Percent(m_currentStep) /\ MeasuredBefore(m_currentStep)
    BY <2>1 DEF IInv, Measuring
  <2>3. ASSUME NEW i \in Steps, i < m_currentStep + 1
        PROVE  measured'[i] = [run |-> throttle, speed |-> Percent(i)]
    <3>1. i = m_currentStep \/ i < m_currentStep
      BY <1>1, <2>3, StepFacts
    <3>. QED BY <1>2, <2>2, <3>1, RecordType DEF MeasuredBefore
  <2>. QED BY <1>3, <2>2, <2>3
<1>. QED BY <1>4, <1>5, <1>6, <1>7 DEF IInv

LEMMA TickLastStepKeeps ==
    IInv /\ ticking /\ TickLastStep
      /\ UNCHANGED <<throttle, programming, m_currentSpeedKph, writes, table, runs, asking, held,
                     orphaned, calm>>
      => IInv'
<1>. SUFFICES ASSUME IInv, ticking, TickLastStep,
                     UNCHANGED <<throttle, programming, m_currentSpeedKph, writes, table, runs,
                                 asking, held, orphaned, calm>>
              PROVE  IInv'
  OBVIOUS
<1>1. /\ m_currentStep = NUM_STEPS /\ Record /\ throttle # 0 /\ ticking' = FALSE
      /\ state' = "StoppingLoco" /\ delaying' = TRUE /\ UNCHANGED <<m_currentStep, crashed>>
  BY DEF TickLastStep
<1>2. trainSpeed' = 0
  BY DEF IInv, Throttles, TickLastStep, SetSpeed
<1>3. TypeOK'
  <2>1. Same \in BOOLEAN
    BY DEF Same
  <2>2. m_waitTicks' \in 0..MAX_WAIT_TICKS /\ m_stableCount' \in 0..STABLE_REQUIRED
    BY <2>1, CountersAdvance DEF TickLastStep
  <2>3. m_lastCheckedKph' \in Kph \cup {0, -1}
    BY DEF IInv, TypeOK, TickLastStep
  <2>4. /\ m_measuredKph' \in [Steps -> Kph \cup {0}]
        /\ measured' \in [Steps -> [run : {0} \cup Runs, speed : 0..100]]
    BY <1>1, RecordType
  <2>5. trainSpeed' \in 0..100 /\ state' \in States
    BY <1>1, <1>2 DEF States
  <2>6. m_currentStep' \in 0..NUM_STEPS /\ crashed' \in BOOLEAN
    BY <1>1 DEF IInv, TypeOK
  <2>7. delaying' \in BOOLEAN /\ ticking' \in BOOLEAN
    BY <1>1, Zenon
  <2>. QED BY <2>2, <2>3, <2>4, <2>5, <2>6, <2>7 DEF IInv, TypeOK
<1>4. Counting' /\ Throttles' /\ Stopping'
  BY <1>1, <1>2 DEF IInv, Counting, Throttles, Stopping
<1>5. Measuring'
  <2>. SUFFICES ASSUME calm PROVE MeasuredBefore(NUM_STEPS + 1)'
    BY <1>1 DEF Measuring
  <2>1. trainSpeed = Percent(NUM_STEPS) /\ MeasuredBefore(NUM_STEPS)
    BY <1>1 DEF IInv, Measuring
  <2>2. ASSUME NEW i \in Steps PROVE measured'[i] = [run |-> throttle, speed |-> Percent(i)]
    <3>1. i = NUM_STEPS \/ i < NUM_STEPS
      BY StepFacts
    <3>. QED BY <1>1, <2>1, <3>1, RecordType DEF MeasuredBefore
  <2>. QED BY <2>2 DEF MeasuredBefore
<1>. QED BY <1>3, <1>4, <1>5 DEF IInv

LEMMA TickCrashesKeeps ==
    IInv /\ ticking /\ TickCrashes
      /\ UNCHANGED <<throttle, programming, m_currentSpeedKph, writes, table, runs, asking, held,
                     orphaned, calm>>
      => IInv'
<1>. SUFFICES ASSUME IInv, TickCrashes,
                     UNCHANGED <<throttle, programming, m_currentSpeedKph, writes, table, runs,
                                 asking, held, orphaned, calm>>
              PROVE  IInv'
  OBVIOUS
<1>. USE DEF IInv, TickCrashes, step
<1>1. TypeOK'
  BY DEF TypeOK
<1>2. Counting' /\ Throttles' /\ Stopping' /\ Measuring'
  BY DEF Counting, Throttles, Stopping, Measuring, MeasuredBefore
<1>. QED BY <1>1, <1>2


LEMMA TickKeeps == IInv /\ onStabilizationTick => IInv'
BY TickWaitsKeeps, TickNextStepKeeps, TickLastStepKeeps, TickCrashesKeeps DEF onStabilizationTick

\* A run that ends by itself ends with the locomotive at rest and gives its slot back.
LEMMA FinishKeeps ==
    ASSUME IInv, state = "StoppingLoco", FinishMatching,
           writes' = <<>>, table' = table, delaying' \in BOOLEAN, crashed' \in BOOLEAN,
           UNCHANGED <<step, ticking, trainSpeed, measured, calm, m_currentSpeedKph, runs>>
    PROVE  IInv'
<1>. USE DEF IInv, FinishMatching, ReleaseThrottle, step
<1>1. trainSpeed' = 0 /\ throttle' = 0 /\ state' = "Idle" /\ ~ticking'
  BY DEF Stopping
<1>2. TypeOK'
  <2>1. held' \subseteq Runs /\ asking' \subseteq Runs /\ orphaned' \subseteq Runs
    BY DEF TypeOK
  <2>2. state' \in States /\ programming' \in BOOLEAN /\ throttle' \in {0} \cup Runs
    BY <1>1 DEF States
  <2>3. trainSpeed' \in 0..100 /\ writes' \in Seq(Steps)
    BY <1>1
  <2>. QED BY <2>1, <2>2, <2>3 DEF TypeOK
<1>3. Counting' /\ Throttles' /\ Stopping'
  BY <1>1 DEF Counting, Throttles, Stopping
<1>4. Measuring'
  BY <1>1 DEF Measuring
<1>. QED BY <1>2, <1>3, <1>4

LEMMA PhaseTimerKeeps == IInv /\ onPhaseTimerExpired => IInv'
<1>. SUFFICES ASSUME IInv, onPhaseTimerExpired PROVE IInv'
  OBVIOUS
<1>1. delaying' = FALSE /\ UNCHANGED <<m_currentSpeedKph, crashed, runs>>
  BY DEF onPhaseTimerExpired
<1>2. CASE /\ state = "AcquiringThrottle" /\ BeginMeasurement
           /\ UNCHANGED <<throttle, programming, writes, table, asking, held, orphaned>>
  <2>1. StartStep(1) /\ measured' = [s \in Steps |-> Nothing] /\ calm' = (calm /\ throttle \in held)
        /\ m_measuredKph' = [s \in Steps |-> 0]
    BY <1>2 DEF BeginMeasurement
  <2>2. state' = "Stabilizing" /\ m_currentStep' = 1 /\ ticking' = TRUE
        /\ trainSpeed' = IF throttle \in held THEN Percent(1) ELSE trainSpeed
    BY <2>1 DEF StartStep, SetSpeed
  <2>3. /\ m_currentStep' \in 0..NUM_STEPS /\ m_currentStep' \in Steps
        /\ m_stableCount' = 0 /\ m_waitTicks' = 0 /\ m_lastCheckedKph' \in Kph \cup {0, -1}
        /\ m_stableCount' \in 0..STABLE_REQUIRED /\ m_waitTicks' \in 0..MAX_WAIT_TICKS
        /\ trainSpeed' \in 0..100
    BY <2>1, StartStepType, StepFacts
  <2>4. TypeOK'
    <3>1. /\ m_measuredKph' \in [Steps -> Kph \cup {0}]
          /\ measured' \in [Steps -> [run : {0} \cup Runs, speed : 0..100]]
      BY <2>1 DEF Nothing
    <3>2. calm' \in BOOLEAN /\ state' \in States /\ ticking' \in BOOLEAN /\ delaying' \in BOOLEAN
      BY <1>1, <2>1, <2>2 DEF States
    <3>. QED BY <1>1, <1>2, <2>3, <3>1, <3>2 DEF IInv, TypeOK
  <2>5. Counting' /\ Throttles'
    BY <1>2, <2>2, <2>3, StepFacts DEF IInv, Counting, Throttles
  <2>6. Stopping'
    BY <1>2, <2>2 DEF IInv, Stopping
  <2>7. Measuring'
    <3>1. calm' => throttle' \in held' /\ trainSpeed' = Percent(1)
      BY <1>2, <2>1, <2>2
    <3>2. \A i \in Steps : ~(i < m_currentStep')
      BY <2>2, StepFacts
    <3>. QED BY <2>2, <3>1, <3>2 DEF Measuring, MeasuredBefore, Percent, Round
  <2>. QED BY <2>4, <2>5, <2>6, <2>7 DEF IInv
<1>3. CASE /\ state = "StoppingLoco" /\ BeginProgramming
           /\ UNCHANGED <<step, ticking, measured, trainSpeed, calm>>
  <2>1. CASE m_measuredKph[NUM_STEPS] <= 0
    <3>1. FinishMatching /\ UNCHANGED <<writes, table>>
      BY <1>3, <2>1 DEF BeginProgramming
    <3>2. writes' = <<>>
      BY <3>1 DEF IInv, Stopping, onPhaseTimerExpired
    <3>3. delaying' \in BOOLEAN /\ crashed' \in BOOLEAN
      BY <1>1 DEF IInv, TypeOK
    <3>. QED BY <1>1, <1>3, <3>1, <3>2, <3>3, FinishKeeps
  <2>2. CASE ~(m_measuredKph[NUM_STEPS] <= 0)
    <3>1. /\ writes' = [s \in Steps |-> s] /\ table' = [s \in Steps |-> computeCVValue(s)]
          /\ UNCHANGED <<state, throttle, programming, asking, held, orphaned>>
      BY <1>3, <2>2 DEF BeginProgramming
    <3>2. writes' \in Seq(Steps) /\ table' \in [Steps -> 0..255]
      <4>1. m_measuredKph[NUM_STEPS] > 0
        <5>1. m_measuredKph[NUM_STEPS] \in Kph \cup {0}
          BY StepFacts DEF IInv, TypeOK
        <5>2. \A kph \in Kph \cup {0} : kph \in Nat
          BY KphAssumption
        <5>3. m_measuredKph[NUM_STEPS] \in Nat
          BY <5>1, <5>2, Zenon
        <5>. QED BY <2>2, <5>3
      <4>2. \A s \in Steps : computeCVValue(s) \in 1..255
        BY <4>1, CVIsAByte DEF IInv
      <4>3. [s \in Steps |-> s] \in Seq(Steps)
        BY StepFacts
      <4>. QED BY <3>1, <4>2, <4>3
    <3>3. TypeOK'
      BY <1>1, <1>3, <3>1, <3>2 DEF IInv, TypeOK, step
    <3>4. Counting' /\ Throttles'
      BY <1>3, <3>1 DEF IInv, Counting, Throttles, step
    <3>5. Stopping'
      <4>1. Len(writes') = NUM_STEPS /\ \A i \in 1..NUM_STEPS : writes'[i] = i
        BY <3>1, StepFacts
      <4>2. \A i \in 1..NUM_STEPS : i = NUM_STEPS - NUM_STEPS + i
        BY StepsAssumption
      <4>3. ~ticking' /\ trainSpeed' = 0 /\ state' = "StoppingLoco" /\ ~delaying'
        BY <1>1, <1>3, <3>1 DEF IInv, Stopping
      <4>. QED BY <4>1, <4>2, <4>3 DEF Stopping
    <3>6. Measuring'
      BY <1>3, <3>1 DEF IInv, Measuring, MeasuredBefore, Percent, Round, step
    <3>. QED BY <3>3, <3>4, <3>5, <3>6 DEF IInv
  <2>. QED BY <2>1, <2>2 DEF BeginProgramming
<1>4. CASE /\ state \notin {"AcquiringThrottle", "StoppingLoco"}
           /\ UNCHANGED <<state, throttle, programming, step, ticking, writes, table, bus,
                          measured, orphaned, calm>>
  <2>. USE DEF IInv, step, bus
  <2>1. TypeOK'
    BY <1>1, <1>4 DEF TypeOK
  <2>2. Counting' /\ Throttles' /\ Stopping' /\ Measuring'
    BY <1>1, <1>4 DEF Counting, Throttles, Stopping, Measuring, MeasuredBefore
  <2>. QED BY <2>1, <2>2
<1>. QED BY <1>2, <1>3, <1>4 DEF onPhaseTimerExpired


LEMMA ResultKeeps == IInv /\ ResultCompleted => IInv'
<1>. SUFFICES ASSUME IInv, ResultCompleted PROVE IInv'
  OBVIOUS
<1>1. /\ writes # <<>> /\ writes' = Tail(writes) /\ writes' \in Seq(Steps)
      /\ state = "StoppingLoco" /\ writes \in Seq(Steps)
      /\ UNCHANGED <<step, m_currentSpeedKph, ticking, delaying, table, runs, trainSpeed, measured, calm>>
  BY DEF IInv, TypeOK, Stopping, ResultCompleted
<1>2. CASE Head(writes) = NUM_STEPS
  <2>1. FinishMatching /\ crashed' \in BOOLEAN
    BY <1>2 DEF ResultCompleted
  <2>2. writes' = <<>>
    <3>1. writes[1] = NUM_STEPS - Len(writes) + 1 /\ writes[1] = NUM_STEPS /\ Len(writes) \in Nat
      BY <1>1, <1>2 DEF IInv, Stopping
    <3>2. \A n, l \in Nat : n = n - l + 1 => l = 1
      OBVIOUS
    <3>3. NUM_STEPS = NUM_STEPS - Len(writes) + 1
      BY <3>1, Zenon
    <3>4. Len(writes) = 1
      BY <3>1, <3>2, <3>3, StepsAssumption
    <3>. QED BY <1>1, <3>4
  <2>3. delaying' \in BOOLEAN
    BY <1>1 DEF IInv, TypeOK
  <2>. QED BY <1>1, <2>1, <2>2, <2>3, FinishKeeps
<1>3. CASE Head(writes) # NUM_STEPS
  <2>. USE DEF IInv, step
  <2>1. UNCHANGED <<state, throttle, programming, asking, held, orphaned, crashed>>
    BY <1>3 DEF ResultCompleted
  <2>2. TypeOK'
    BY <1>1, <2>1 DEF TypeOK
  <2>3. Counting' /\ Throttles'
    BY <1>1, <2>1 DEF Counting, Throttles
  <2>4. Stopping'
    <3>1. Len(writes') = Len(writes) - 1 /\ Len(writes) \in Nat
      BY <1>1
    <3>2. \A i \in 1..Len(writes') : i + 1 \in 1..Len(writes) /\ writes'[i] = writes[i + 1]
      BY <1>1, <3>1
    <3>3. ASSUME NEW i \in 1..Len(writes') PROVE writes'[i] = NUM_STEPS - Len(writes') + i
      <4>1. writes[i + 1] = NUM_STEPS - Len(writes) + (i + 1)
        BY <3>2 DEF Stopping
      <4>. QED BY <3>1, <3>2, <4>1, StepsAssumption
    <3>4. state' = "StoppingLoco" /\ ~ticking' /\ trainSpeed' = 0 /\ ~delaying'
      BY <1>1, <2>1 DEF Stopping
    <3>. QED BY <3>3, <3>4 DEF Stopping
  <2>5. Measuring'
    BY <1>1, <2>1 DEF Measuring, MeasuredBefore, Percent, Round
  <2>. QED BY <2>2, <2>3, <2>4, <2>5
<1>. QED BY <1>2, <1>3

LEMMA NextKeeps == IInv /\ [Next]_vars => IInv'
<1>1. CASE Next
  BY <1>1, StartKeeps, AbortKeeps, AcquiredKeeps, SpeedUpdatedKeeps, TickKeeps, PhaseTimerKeeps,
     ResultKeeps DEF Next
<1>2. CASE UNCHANGED vars
  <2>. USE <1>2 DEF vars, step, bus
  <2>1. IInv => TypeOK'
    BY DEF IInv, TypeOK
  <2>2. IInv => Counting' /\ Throttles' /\ Stopping' /\ Measuring'
    BY DEF IInv, Counting, Throttles, Stopping, Measuring, MeasuredBefore, Percent, Round
  <2>. QED BY <2>1, <2>2 DEF IInv
<1>. QED BY <1>1, <1>2

\* The invariant holds in every state, whatever the timers, the user, the command
\* station and the programmer do, and in whatever order.
THEOREM Invariance == Spec => []IInv
BY InitHolds, NextKeeps, PTL DEF Spec

\* Every variable keeps its type: no counter passes its limit, and each CV is a byte.
THEOREM TypeCorrect == Spec => []TypeOK
<1>1. IInv => TypeOK
  BY DEF IInv
<1>. QED BY <1>1, Invariance, PTL

\* When no run is going on, also after an abort at any moment, the locomotive was told
\* to stop and every slot was given back, but for a throttle let go before it had one.
THEOREM EndsAtRest == Spec => []AtRest
<1>1. IInv => AtRest
  BY DEF IInv, TypeOK, Runs, Throttles, AtRest
<1>. QED BY <1>1, Invariance, PTL

\* Every CV that is written comes from measurements of this run, each taken while the
\* locomotive was told the speed of its step, as long as nothing confused the run.
THEOREM MeasuredAsTold == Spec => []MeasuredAtItsStep
<1>1. IInv => MeasuredAtItsStep
  <2>. SUFFICES ASSUME IInv, calm, writes # <<>>, NEW s \in Steps
                PROVE  measured[s] = [run |-> throttle, speed |-> Percent(s)]
    BY DEF MeasuredAtItsStep
  <2>1. MeasuredBefore(NUM_STEPS + 1) /\ s < NUM_STEPS + 1
    BY StepFacts DEF IInv, Stopping, Measuring
  <2>. QED BY <2>1 DEF MeasuredBefore
<1>. QED BY <1>1, Invariance, PTL

\* The decoder is programmed in peace.
Programming ==
    writes # <<>> => /\ state = "StoppingLoco" /\ trainSpeed = 0 /\ ~ticking /\ ~delaying
                     /\ Head(writes) = NUM_STEPS - Len(writes) + 1

\* While CVs are written nothing sets a speed, no timer runs and the CVs follow their
\* order: a tick that is left over from a run before cannot drive the locomotive then.
THEOREM ProgrammingIsQuiet == Spec => []Programming
<1>1. IInv => Programming
  <2>. SUFFICES ASSUME IInv, writes # <<>>
                PROVE  /\ state = "StoppingLoco" /\ trainSpeed = 0 /\ ~ticking /\ ~delaying
                       /\ Head(writes) = NUM_STEPS - Len(writes) + 1
    BY DEF Programming
  <2>1. writes \in Seq(Steps) /\ 1 \in 1..Len(writes)
    BY DEF IInv, TypeOK
  <2>. QED BY <2>1 DEF IInv, Stopping
<1>. QED BY <1>1, Invariance, PTL

-------------------------------------------------------------------------------
(* The decoder. *)

(* What the interrupt works with, typed; a byte is complete before its end is *)
(* expected, and a packet that is found has bytes.                            *)
ParseOK ==
    /\ num_1_bits \in 0..(ONES - 1)
    /\ parse_state \in ParseStates
    /\ packet_data \in [Index -> Byte]
    /\ packet_data_pos \in 0..PACKET_BYTES
    /\ (parse_state = "DATA_BYTE" => packet_data_pos < PACKET_BYTES)
    /\ (parse_state = "BYTE_START_BIT" => packet_data_pos \in 1..(PACKET_BYTES - 1))
    /\ working_byte \in Byte
    /\ working_byte_bit \in 0..(BYTE_BITS - 1)
    /\ last_packet \in [Index -> Byte]
    /\ last_packet_len \in 0..PACKET_BYTES
    /\ last_packet_valid \in BOOLEAN
    /\ (last_packet_valid => last_packet_len >= 1)
    /\ overtaken \in BOOLEAN
    /\ found \in Seq(Byte)

(* The check so far is true of the packet, unless another one came meanwhile. *)
CheckTrue ==
    /\ (pc = "checking" => len >= 1 /\ x <= len - 1)
    /\ ((pc = "checking" /\ ~overtaken) =>
            (len = last_packet_len /\ xor_data = XorOfFirst(last_packet, x)))
    /\ ((pc = "handing" /\ ~overtaken) =>
            XorOfFirst(last_packet, last_packet_len) = {})

DecoderIInv == DecoderTypeOK /\ ParseOK /\ CheckTrue

(* Nothing that the main program looks at changes, or it is noted. *)
Noted ==
    \/ UNCHANGED <<last_packet, last_packet_len, overtaken>>
    \/ overtaken' = (pc # "idle")

-------------------------------------------------------------------------------
(* The exclusive or of a packet, one byte more at a time. *)

LEMMA XorNone == ASSUME NEW p PROVE XorOfFirst(p, 0) = {}
<1>1. \A b : {i \in 1..0 : b \in p[i]} = {}
  OBVIOUS
<1>2. Cardinality({}) = 0
  BY FS_EmptySet
<1>. QED BY <1>1, <1>2 DEF XorOfFirst

LEMMA XorStep ==
    ASSUME NEW p \in [Index -> Byte], NEW n \in Nat, n + 1 <= PACKET_BYTES
    PROVE  XorOfFirst(p, n + 1) = Xor(XorOfFirst(p, n), p[n + 1])
<1>. DEFINE Having(b, m) == {i \in 1..m : b \in p[i]}
<1>1. ASSUME NEW b
      PROVE  /\ Cardinality(Having(b, n)) \in Nat
             /\ Cardinality(Having(b, n + 1)) =
                   IF b \in p[n + 1] THEN Cardinality(Having(b, n)) + 1 ELSE Cardinality(Having(b, n))
  <2>1. IsFiniteSet(Having(b, n))
    <3>1. IsFiniteSet(1..n)
      BY FS_Interval
    <3>2. Having(b, n) \in SUBSET (1..n)
      OBVIOUS
    <3>. QED BY ONLY <3>1, <3>2, FS_Subset
  <2>2. Cardinality(Having(b, n)) \in Nat
    BY ONLY <2>1, FS_CardinalityType
  <2>3. Having(b, n + 1) = IF b \in p[n + 1] THEN Having(b, n) \cup {n + 1} ELSE Having(b, n)
    OBVIOUS
  <2>4. n + 1 \notin Having(b, n)
    OBVIOUS
  <2>5. Cardinality(Having(b, n) \cup {n + 1}) = Cardinality(Having(b, n)) + 1
    <3>. HIDE DEF Having
    <3>. QED BY ONLY <2>1, <2>4, FS_AddElement
  <2>. HIDE DEF Having
  <2>. QED BY <2>2, <2>3, <2>5
<1>2. p[n + 1] \subseteq 0..(BYTE_BITS - 1)
  BY BitsAssumption DEF Byte, Index
<1>3. XorOfFirst(p, n) = {b \in 0..(BYTE_BITS - 1) : Cardinality(Having(b, n)) % 2 = 1}
  BY DEF XorOfFirst
<1>4. XorOfFirst(p, n + 1) = {b \in 0..(BYTE_BITS - 1) : Cardinality(Having(b, n + 1)) % 2 = 1}
  BY DEF XorOfFirst
<1>. HIDE DEF Having
<1>5. \A b : Cardinality(Having(b, n + 1)) % 2 = 1 <=>
                ((Cardinality(Having(b, n)) % 2 = 1) # (b \in p[n + 1]))
  <2>. TAKE b
  <2>1. CASE b \in p[n + 1]
    BY <1>1, <2>1
  <2>2. CASE b \notin p[n + 1]
    BY <1>1, <2>2
  <2>. QED BY <2>1, <2>2
<1>. DEFINE odd(b)  == Cardinality(Having(b, n)) % 2 = 1
            odd1(b) == Cardinality(Having(b, n + 1)) % 2 = 1
            first   == XorOfFirst(p, n)
<1>6. \A b \in 0..(BYTE_BITS - 1) : odd1(b) <=> (b \in (first \ p[n + 1]) \cup (p[n + 1] \ first))
  <2>. SUFFICES ASSUME NEW b \in 0..(BYTE_BITS - 1)
                PROVE  odd1(b) <=> (b \in (first \ p[n + 1]) \cup (p[n + 1] \ first))
    OBVIOUS
  <2>1. (b \in first) <=> odd(b)
    BY <1>3
  <2>2. odd1(b) <=> (odd(b) # (b \in p[n + 1]))
    BY <1>5
  <2>. HIDE DEF odd, odd1, first
  <2>3. odd(b) \in BOOLEAN /\ odd1(b) \in BOOLEAN
    BY DEF odd, odd1
  <2>. QED BY <2>1, <2>2, <2>3
<1>7. first \subseteq 0..(BYTE_BITS - 1)
  BY <1>3
<1>. HIDE DEF first
<1>8. {b \in 0..(BYTE_BITS - 1) : odd1(b)} = (first \ p[n + 1]) \cup (p[n + 1] \ first)
  <2>. HIDE DEF odd1
  <2>. QED BY <1>2, <1>6, <1>7
<1>. QED BY <1>4, <1>8 DEF Xor, first

LEMMA XorType == ASSUME NEW p, NEW n PROVE XorOfFirst(p, n) \in Byte
BY DEF XorOfFirst, Byte

-------------------------------------------------------------------------------
(* The interrupt. *)

LEMMA Numbers ==
    /\ BYTE_BITS \in Nat /\ BYTE_BITS >= 1
    /\ PACKET_BYTES \in Nat /\ PACKET_BYTES >= 2
    /\ ONES \in Nat /\ ONES > 0
BY BitsAssumption, PreambleAssumption

LEMMA FullOK ==
    ASSUME ParseOK, NEW byte \in Byte, parse_state = "DATA_BYTE", ByteFull(byte), NoPacket
    PROVE  ParseOK' /\ Noted
<1>1. packet_data_pos + 1 \in Index /\ packet_data_pos' = packet_data_pos + 1
  BY Numbers DEF ParseOK, ByteFull, Index
<1>2. packet_data' \in [Index -> Byte]
  BY <1>1 DEF ParseOK, ByteFull
<1>3. /\ working_byte' \in Byte /\ working_byte_bit' \in 0..(BYTE_BITS - 1)
      /\ num_1_bits' \in 0..(ONES - 1) /\ parse_state' \in ParseStates
      /\ (parse_state' = "BYTE_START_BIT" => packet_data_pos' \in 1..(PACKET_BYTES - 1))
      /\ parse_state' # "DATA_BYTE"
  BY <1>1, Numbers DEF ParseOK, ByteFull, Byte, Index, ParseStates
<1>. QED BY <1>1, <1>2, <1>3 DEF ParseOK, NoPacket, last, Noted, Index

LEMMA DataOK ==
    ASSUME ParseOK, NEW one \in BOOLEAN, parse_state = "DATA_BYTE", DataBit(one)
    PROVE  ParseOK' /\ Noted
<1>. DEFINE byte == IF one THEN working_byte \cup {working_byte_bit} ELSE working_byte
<1>1. byte \in Byte
  BY DEF ParseOK, Byte
<1>2. NoPacket
  BY DEF DataBit
<1>3. CASE working_byte_bit = 0
  <2>1. ByteFull(byte)
    BY <1>3 DEF DataBit
  <2>. HIDE DEF byte
  <2>. QED BY ONLY ParseOK, <1>1, <1>2, <2>1, FullOK, parse_state = "DATA_BYTE"
<1>4. CASE working_byte_bit # 0
  <2>1. /\ working_byte' = byte /\ working_byte_bit' = working_byte_bit - 1
        /\ UNCHANGED <<num_1_bits, parse_state, packet_data, packet_data_pos>>
    BY <1>4 DEF DataBit
  <2>. HIDE DEF byte
  <2>. QED BY <1>1, <1>2, <1>4, <2>1, Numbers DEF ParseOK, NoPacket, last, Noted
<1>. QED BY <1>3, <1>4

LEMMA DoneOK ==
    ASSUME ParseOK, parse_state = "BYTE_START_BIT", PacketDone
    PROVE  ParseOK' /\ Noted
<1>1. packet_data \in Seq(Byte) /\ Len(packet_data) = PACKET_BYTES
  BY Numbers DEF ParseOK, Index
<1>2. packet_data_pos \in 1..(PACKET_BYTES - 1)
  BY DEF ParseOK
<1>3. SubSeq(packet_data, 1, packet_data_pos) \in Seq(Byte)
  BY ONLY <1>1, <1>2, Numbers
<1>4. Zeroes \in [Index -> Byte]
  BY DEF Zeroes, Byte
<1>5. (pc # "idle") \in BOOLEAN
  OBVIOUS
<1>. QED BY <1>2, <1>3, <1>4, <1>5, Numbers DEF ParseOK, PacketDone, Noted, ParseStates

LEMMA WholeBitOK ==
    ASSUME ParseOK, NEW one \in BOOLEAN, WholeBit(one)
    PROVE  ParseOK' /\ Noted
<1>1. CASE PreambleOne
  <2>1. num_1_bits' \in 0..(ONES - 1)
    BY <1>1, Numbers DEF ParseOK, PreambleOne
  <2>. QED BY <1>1, <2>1 DEF ParseOK, PreambleOne, NoPacket, last, Noted
<1>2. CASE PreambleZero /\ parse_state = "PREAMBLE"
  <2>1. CASE num_1_bits >= MIN_PREAMBLE
    BY <1>2, <2>1, Numbers DEF ParseOK, PreambleZero, NoPacket, last, Noted, Byte, ParseStates
  <2>2. CASE ~(num_1_bits >= MIN_PREAMBLE)
    BY <1>2, <2>2, Numbers DEF ParseOK, PreambleZero, NoPacket, last, Noted
  <2>. QED BY <2>1, <2>2
<1>3. CASE parse_state = "DATA_BYTE" /\ DataBit(one)
  BY ONLY <1>3, ParseOK, DataOK, one \in BOOLEAN
<1>4. CASE parse_state = "BYTE_START_BIT" /\ NextByte
  BY <1>4, Numbers DEF ParseOK, NextByte, NoPacket, last, Noted, ParseStates
<1>5. CASE parse_state = "BYTE_START_BIT" /\ PacketDone
  BY ONLY <1>5, ParseOK, DoneOK
<1>. QED BY <1>1, <1>2, <1>3, <1>4, <1>5 DEF WholeBit

LEMMA InvalidOK ==
    ASSUME ParseOK, InvalidBit
    PROVE  ParseOK' /\ Noted
BY Numbers DEF ParseOK, InvalidBit, NoPacket, last, Noted

LEMMA KeptOK ==
    ASSUME ParseOK, UNCHANGED parse, UNCHANGED <<last, found, overtaken>>
    PROVE  ParseOK' /\ Noted
BY DEF ParseOK, parse, last, Noted

LEMMA EdgeOfOK ==
    ASSUME ParseOK, previous_timing \in Halves \cup {"none"}, NEW kind \in Halves, EdgeOf(kind)
    PROVE  /\ ParseOK' /\ Noted
           /\ previous_timing' \in Halves \cup {"none"}
<1>1. (kind = "one") \in BOOLEAN
  OBVIOUS
<1>2. WholeBit(kind = "one") => ParseOK' /\ Noted
  BY ONLY <1>1, ParseOK, WholeBitOK
<1>3. InvalidBit => ParseOK' /\ Noted
  BY ONLY ParseOK, InvalidOK
<1>4. (UNCHANGED parse /\ NoPacket) => ParseOK' /\ Noted
  BY ONLY ParseOK, KeptOK DEF NoPacket
<1>. QED BY <1>2, <1>3, <1>4, Zenon DEF EdgeOf, polarity_changed, rising_or_falling

(* If the main program is not at work, or is told, its check stays true. *)
LEMMA StillTrue ==
    ASSUME CheckTrue, ParseOK, Noted, UNCHANGED main
    PROVE  CheckTrue'
<1>1. CASE UNCHANGED <<last_packet, last_packet_len, overtaken>>
  BY <1>1 DEF CheckTrue, main
<1>2. CASE overtaken' = (pc # "idle")
  BY <1>2 DEF CheckTrue, main
<1>. QED BY <1>1, <1>2 DEF Noted

-------------------------------------------------------------------------------
(* What comes over the track. *)

LEMMA EdgesType ==
    ASSUME NEW bits, Len(bits) \in Nat
    PROVE  EdgesOf(bits) \in Seq({"one", "zero"})
<1>. DEFINE each == IF decoding_scheme = "IRQ_BOTH" THEN 2 ELSE 1
<1>1. each * Len(bits) \in Nat
  OBVIOUS
<1>2. ASSUME NEW k \in Nat
      PROVE  [i \in 1..k |-> IF bits[(i - 1) \div each + 1] THEN "one" ELSE "zero"] \in Seq({"one", "zero"})
  OBVIOUS
<1>. QED BY <1>1, <1>2 DEF EdgesOf

LEMMA BitsLength ==
    ASSUME NEW p, NEW n \in Nat, Len(p) \in Nat
    PROVE  Len(BitsOfPacket(p, n)) \in Nat /\ Len(BitsOfPacket(p, n)) = n + (BYTE_BITS + 1) * Len(p) + 1
<1>. DEFINE k == n + (BYTE_BITS + 1) * Len(p) + 1
<1>1. k \in Nat
  <2>1. \A l, m \in Nat : l * m \in Nat
    OBVIOUS
  <2>2. BYTE_BITS + 1 \in Nat
    BY Numbers
  <2>3. (BYTE_BITS + 1) * Len(p) \in Nat
    BY ONLY <2>1, <2>2, Len(p) \in Nat
  <2>. QED BY ONLY <2>3, n \in Nat
<1>. DEFINE f(i) ==
        \/ i <= n
        \/ i = n + (BYTE_BITS + 1) * Len(p) + 1
        \/ LET place == (i - n - 1) % (BYTE_BITS + 1)
           IN  place # 0 /\ (BYTE_BITS - place) \in p[(i - n - 1) \div (BYTE_BITS + 1) + 1]
<1>2. BitsOfPacket(p, n) = [i \in 1..k |-> f(i)]
  BY Zenon DEF BitsOfPacket
<1>. HIDE DEF k, f
<1>3. Len([i \in 1..k |-> f(i)]) = k
  BY <1>1
<1>. QED BY <1>1, <1>2, <1>3 DEF k

-------------------------------------------------------------------------------
(* Each action keeps the invariant. *)

LEMMA StartPacketInd == ASSUME DecoderIInv, StartPacket PROVE DecoderIInv'
<1>0. PICK k \in DataBytes, n \in Preambles : \E data \in [1..k -> Data] :
         /\ packet' = data \o <<XorOf(data)>>
         /\ rest' = EdgesOf(BitsOfPacket(packet', n))
  BY DEF StartPacket
<1>1. PICK data \in [1..k -> Data] :
         /\ packet' = data \o <<XorOf(data)>>
         /\ rest' = EdgesOf(BitsOfPacket(packet', n))
  BY <1>0
<1>2. k \in Nat /\ n \in Nat /\ data \in Seq(Byte)
  <2>1. k \in Nat /\ n \in Nat /\ Data \subseteq Byte
    BY TrackAssumption, PreambleAssumption, Numbers
  <2>. QED BY <2>1
<1>3. XorOf(data) \in Byte
  BY XorType DEF XorOf
<1>4. packet' \in Seq(Byte)
  <2>. DEFINE end == XorOf(data)
  <2>. HIDE DEF end
  <2>1. end \in Byte
    BY <1>3 DEF end
  <2>2. data \o <<end>> \in Seq(Byte)
    BY ONLY <1>2, <2>1
  <2>. QED BY <1>1, <2>2 DEF end
<1>5. Len(packet') \in Nat
  <2>1. ASSUME NEW q \in Seq(Byte) PROVE Len(q) \in Nat
    OBVIOUS
  <2>. QED BY ONLY <1>4, <2>1
<1>6. rest' \in Seq({"one", "zero"})
  <2>1. Len(BitsOfPacket(packet', n)) \in Nat
    BY ONLY <1>2, <1>5, BitsLength
  <2>2. EdgesOf(BitsOfPacket(packet', n)) \in Seq({"one", "zero"})
    BY ONLY <2>1, EdgesType
  <2>. QED BY <1>1, <2>2
<1>7. clean' \in 0..2
  BY DEF DecoderIInv, DecoderTypeOK, StartPacket
<1>8. ParseOK'
  BY DEF DecoderIInv, ParseOK, StartPacket, parse, last
<1>9. DecoderTypeOK'
  BY <1>4, <1>6, <1>7, <1>8 DEF DecoderIInv, DecoderTypeOK, ParseOK, StartPacket, edges, main
<1>10. CheckTrue'
  BY DEF DecoderIInv, CheckTrue, StartPacket, last, main
<1>. QED BY <1>8, <1>9, <1>10 DEF DecoderIInv

LEMMA EdgeInd == ASSUME DecoderIInv, Edge PROVE DecoderIInv'
<1>1. Head(rest) \in Halves /\ Tail(rest) \in Seq({"one", "zero"})
  <2>1. rest \in Seq({"one", "zero"}) /\ rest # <<>>
    BY DEF DecoderIInv, DecoderTypeOK, Edge
  <2>. QED BY ONLY <2>1 DEF Halves
<1>2. ParseOK' /\ Noted /\ previous_timing' \in Halves \cup {"none"}
  <2>1. ParseOK /\ previous_timing \in Halves \cup {"none"} /\ EdgeOf(Head(rest))
    BY DEF DecoderIInv, DecoderTypeOK, Edge
  <2>. QED BY ONLY <1>1, <2>1, EdgeOfOK
<1>3. UNCHANGED main
  BY DEF Edge
<1>4. CheckTrue'
  BY ONLY <1>2, <1>3, DecoderIInv, StillTrue DEF DecoderIInv
<1>5. DecoderTypeOK'
  BY <1>1, <1>2, <1>3 DEF DecoderIInv, DecoderTypeOK, ParseOK, Edge, main
<1>. QED BY <1>2, <1>4, <1>5 DEF DecoderIInv

LEMMA NoiseInd == ASSUME DecoderIInv, Noise PROVE DecoderIInv'
<1>1. ParseOK' /\ Noted /\ previous_timing' \in Halves \cup {"none"}
  <2>1. ParseOK /\ previous_timing \in Halves \cup {"none"}
    BY DEF DecoderIInv, DecoderTypeOK
  <2>2. ASSUME NEW half \in Halves, EdgeOf(half)
        PROVE  ParseOK' /\ Noted /\ previous_timing' \in Halves \cup {"none"}
    BY ONLY <2>1, <2>2, EdgeOfOK
  <2>3. CASE FirstEdge
    BY <2>1, <2>3, Numbers DEF FirstEdge, ParseOK, NoPacket, last, Noted, ParseStates
  <2>4. CASE UNCHANGED <<parse, previous_timing, last, found, overtaken>>
    BY <2>1, <2>4 DEF ParseOK, parse, last, Noted
  <2>. QED BY <2>2, <2>3, <2>4 DEF Noise
<1>2. UNCHANGED main /\ UNCHANGED <<decoding_scheme, packet>>
  BY DEF Noise
<1>3. CheckTrue'
  BY ONLY <1>1, <1>2, DecoderIInv, StillTrue DEF DecoderIInv
<1>4. rest' \in Seq({"one", "zero"})
  <2>1. rest \in Seq({"one", "zero"})
    BY DEF DecoderIInv, DecoderTypeOK
  <2>2. rest # <<>> => Tail(rest) \in Seq({"one", "zero"})
    BY ONLY <2>1
  <2>. QED BY <2>1, <2>2 DEF Noise
<1>5. noise' \in 0..MaxNoise /\ clean' \in 0..2
  BY TrackAssumption DEF DecoderIInv, DecoderTypeOK, Noise
<1>6. DecoderTypeOK'
  BY <1>1, <1>2, <1>4, <1>5 DEF DecoderIInv, DecoderTypeOK, ParseOK, main
<1>. QED BY <1>1, <1>3, <1>6 DEF DecoderIInv

LEMMA PumpInd == ASSUME DecoderIInv, pump_packet PROVE DecoderIInv'
<1>1. ParseOK'
  BY DEF DecoderIInv, ParseOK, pump_packet, parse
<1>2. DecoderTypeOK'
  BY <1>1, Numbers DEF DecoderIInv, DecoderTypeOK, ParseOK, pump_packet, edges, track, Byte
<1>3. XorOfFirst(last_packet, 0) = {}
  BY XorNone
<1>4. CheckTrue'
  BY <1>3 DEF DecoderIInv, CheckTrue, ParseOK, pump_packet
<1>. QED BY <1>1, <1>2, <1>4 DEF DecoderIInv

LEMMA ReadByteInd == ASSUME DecoderIInv, ReadByte PROVE DecoderIInv'
<1>1. ParseOK'
  BY DEF DecoderIInv, ParseOK, ReadByte, parse, last
<1>2. x \in Nat /\ x + 1 <= PACKET_BYTES /\ x + 1 <= len - 1 /\ last_packet \in [Index -> Byte]
  BY Numbers DEF DecoderIInv, DecoderTypeOK, ReadByte
<1>3. last_packet[x + 1] \in Byte
  BY <1>2, Numbers DEF Index
<1>4. xor_data' \in Byte /\ x' \in 0..PACKET_BYTES
  <2>1. \A s, t \in Byte : Xor(s, t) \in Byte
    BY DEF Xor, Byte
  <2>2. xor_data \in Byte /\ xor_data' = Xor(xor_data, last_packet[x + 1]) /\ x' = x + 1
    BY DEF DecoderIInv, DecoderTypeOK, ReadByte
  <2>. QED BY <1>2, <1>3, <2>1, <2>2, Numbers
<1>5. XorOfFirst(last_packet, x + 1) = Xor(XorOfFirst(last_packet, x), last_packet[x + 1])
  BY ONLY <1>2, XorStep
<1>6. CheckTrue'
  BY <1>2, <1>5 DEF DecoderIInv, CheckTrue, ReadByte, last
<1>7. DecoderTypeOK'
  BY <1>1, <1>4 DEF DecoderIInv, DecoderTypeOK, ParseOK, ReadByte, edges, track
<1>. QED BY <1>1, <1>6, <1>7 DEF DecoderIInv

LEMMA ReadLastByteInd == ASSUME DecoderIInv, ReadLastByte PROVE DecoderIInv'
<1>1. ParseOK'
  BY DEF DecoderIInv, ParseOK, ReadLastByte, parse, last
<1>2. DecoderTypeOK'
  BY <1>1, Numbers DEF DecoderIInv, DecoderTypeOK, ParseOK, ReadLastByte, edges, track, Byte
<1>3. CheckTrue'
  <2>1. SUFFICES ASSUME pc' = "handing", ~overtaken'
                 PROVE  XorOfFirst(last_packet', last_packet_len') = {}
    BY DEF CheckTrue, ReadLastByte
  <2>2. /\ x = len - 1 /\ len = last_packet_len /\ xor_data = XorOfFirst(last_packet, x)
        /\ xor_data = last_packet[len]
        /\ UNCHANGED <<last_packet, last_packet_len>>
    BY <2>1 DEF DecoderIInv, DecoderTypeOK, CheckTrue, ReadLastByte, last
  <2>3. x \in Nat /\ x + 1 <= PACKET_BYTES /\ x + 1 = len /\ last_packet \in [Index -> Byte]
    BY SMTT(30), <2>2, Numbers DEF DecoderIInv, DecoderTypeOK
  <2>4. XorOfFirst(last_packet, x + 1) = Xor(XorOfFirst(last_packet, x), last_packet[x + 1])
    BY ONLY <2>3, XorStep
  <2>5. \A s : Xor(s, s) = {}
    BY DEF Xor
  <2>. QED BY <2>2, <2>3, <2>4, <2>5
<1>. QED BY <1>1, <1>2, <1>3 DEF DecoderIInv

LEMMA HandOnInd == ASSUME DecoderIInv, HandOn PROVE DecoderIInv'
<1>1. ParseOK'
  BY DEF DecoderIInv, ParseOK, HandOn, parse, last
<1>2. DecoderTypeOK'
  BY <1>1 DEF DecoderIInv, DecoderTypeOK, ParseOK, HandOn, edges, track
<1>3. CheckTrue'
  BY DEF CheckTrue, HandOn
<1>. QED BY <1>1, <1>2, <1>3 DEF DecoderIInv

LEMMA InitInd == DecoderInit => DecoderIInv
<1>. SUFFICES ASSUME DecoderInit PROVE DecoderIInv
  OBVIOUS
<1>1. Zeroes \in [Index -> Byte] /\ {} \in Byte
  BY DEF Zeroes, Byte
<1>2. <<>> \in Seq(Byte) /\ <<>> \in Seq({"one", "zero"})
  OBVIOUS
<1>3. ParseOK
  <2>1. 0 \in 0..(ONES - 1) /\ 0 \in 0..PACKET_BYTES /\ 0 \in 0..(BYTE_BITS - 1)
    BY Numbers
  <2>2. /\ num_1_bits \in 0..(ONES - 1)
        /\ packet_data_pos \in 0..PACKET_BYTES /\ packet_data_pos < PACKET_BYTES
        /\ last_packet_len \in 0..PACKET_BYTES
        /\ working_byte_bit \in 0..(BYTE_BITS - 1)
    BY <2>1, Numbers DEF DecoderInit
  <2>3. /\ packet_data \in [Index -> Byte] /\ last_packet \in [Index -> Byte]
        /\ working_byte \in Byte /\ found \in Seq(Byte)
    BY <1>1, <1>2 DEF DecoderInit
  <2>4. /\ parse_state = "PREAMBLE" /\ last_packet_valid = FALSE /\ overtaken = FALSE
    BY DEF DecoderInit
  <2>. QED BY <2>2, <2>3, <2>4 DEF ParseOK, ParseStates
<1>4. DecoderTypeOK
  BY <1>1, <1>2, <1>3, Numbers, TrackAssumption DEF DecoderInit, DecoderTypeOK, ParseOK
<1>5. CheckTrue
  BY DEF DecoderInit, CheckTrue
<1>. QED BY <1>3, <1>4, <1>5 DEF DecoderIInv

LEMMA NextInd == ASSUME DecoderIInv, [DecoderNext]_decoderVars PROVE DecoderIInv'
<1>1. CASE UNCHANGED decoderVars
  BY <1>1 DEF DecoderIInv, DecoderTypeOK, ParseOK, CheckTrue, decoderVars, edges, parse, last, main, track
<1>. QED BY <1>1, StartPacketInd, EdgeInd, NoiseInd, PumpInd, ReadByteInd, ReadLastByteInd,
            HandOnInd DEF DecoderNext

-------------------------------------------------------------------------------
(* The inductive invariant: types, a byte is complete before its end is expected, *)
(* and the check so far is true of the packet unless another one came.            *)
THEOREM DecoderInvariance == DecoderSpec => []DecoderIInv
BY InitInd, NextInd, PTL DEF DecoderSpec

(* For every number of bits and bytes, and every noise on the track, no byte is *)
(* written past the end of packet_data (dcc_decoder_process_whole_bit).         *)
THEOREM DecoderTypeCorrect == DecoderSpec => []DecoderTypeOK
BY DecoderInvariance, PTL DEF DecoderIInv

(* A packet is handed on checked, or another one came while it was checked *)
(* (dcc_decoder_pump_packet).                                              *)
THEOREM HandedChecked == DecoderSpec => []HandedIsChecked
<1>1. DecoderIInv => HandedIsChecked
  BY DEF DecoderIInv, CheckTrue, HandedIsChecked
<1>. QED BY <1>1, DecoderInvariance, PTL
-------------------------------------------------------------------------------
(* A packet without noise: how far the decoder has read it. *)

Width == BYTE_BITS + 1
Total(n) == n + Width * Len(packet) + 1
KindOf(n, b) == IF BitsOfPacket(packet, n)[b] THEN "one" ELSE "zero"

(* The packet after a disturbance begins in any state; ones lead back to the  *)
(* preamble: at most a byte of them until the byte is full, and one to end it. *)
Falling(b) ==
    /\ (parse_state = "DATA_BYTE" => working_byte_bit <= BYTE_BITS - 1 - b)
    /\ (parse_state = "BYTE_START_BIT" => b <= BYTE_BITS)

(* The packet after that one begins in the preamble, and its ones are counted. *)
OnesCounted(b) ==
    /\ parse_state = "PREAMBLE"
    /\ b <= num_1_bits /\ num_1_bits <= b + BYTE_BITS + 1

(* The bit at place s of byte q + 1 was read, and all before it. *)
InByte(q, s) ==
    /\ \A j \in 1..q : packet_data[j] = packet[j]
    /\ s < BYTE_BITS =>
          /\ parse_state = "DATA_BYTE" /\ packet_data_pos = q
          /\ working_byte_bit = BYTE_BITS - 1 - s
          /\ \A j : j \in working_byte <=> (j \in packet[q + 1] /\ j >= BYTE_BITS - s)
    /\ s = BYTE_BITS =>
          /\ parse_state = "BYTE_START_BIT" /\ packet_data_pos = q + 1
          /\ packet_data[q + 1] = packet[q + 1]
          /\ working_byte = {} /\ working_byte_bit = BYTE_BITS - 1

(* It goes by unseen: a byte has too few ones for a preamble. *)
PassesBy(s) ==
    /\ parse_state = "PREAMBLE" /\ num_1_bits <= s
    /\ (clean = 1 \/ Len(packet) = PACKET_BYTES)

Ended ==
    /\ parse_state = "PREAMBLE" /\ num_1_bits <= BYTE_BITS + 1
    /\ ((clean = 2 /\ Len(packet) < PACKET_BYTES) => found = packet)

(* b bits of the packet, with n ones before it, were read. *)
Seen(n, b) ==
    \/ b <= n /\ clean = 1 /\ Falling(b)
    \/ b <= n /\ clean = 2 /\ OnesCounted(b)
    \/ \E q \in 0..(Len(packet) - 1), s \in 0..BYTE_BITS :
          b = n + 1 + Width * q + s /\ (InByte(q, s) \/ PassesBy(s))
    \/ b = Total(n) /\ Ended

(* What is left of the packet on the track: whole bits, or halves, the first of *)
(* them perhaps the second half of a bit.                                       *)
BitsLeft(n, b) ==
    /\ Len(rest) = Total(n) - b
    /\ \A i \in 1..(Total(n) - b) : rest[i] = KindOf(n, b + i)

HalvesLeft(n, b) ==
    /\ Len(rest) = 2 * (Total(n) - b)
    /\ \A i \in 1..(Total(n) - b) :
          rest[2 * i - 1] = KindOf(n, b + i) /\ rest[2 * i] = KindOf(n, b + i)

SecondHalfLeft(n, b) ==
    /\ Len(rest) = 2 * (Total(n) - b) - 1
    /\ rest[1] = KindOf(n, b + 1)
    /\ \A i \in 1..(Total(n) - b - 1) :
          rest[2 * i] = KindOf(n, b + 1 + i) /\ rest[2 * i + 1] = KindOf(n, b + 1 + i)

(* The edges tell bits; or halves in step; or, in the preamble after a           *)
(* disturbance, the second half of each one together with the first of the next. *)
Rising(n, b) == decoding_scheme = "IRQ_RISING_OR_FALLING" /\ BitsLeft(n, b) /\ Seen(n, b)

Between(n, b) ==
    /\ decoding_scheme = "IRQ_BOTH" /\ HalvesLeft(n, b) /\ Seen(n, b)
    /\ \/ previous_timing = "none"
       \/ b = 0 /\ clean = 1 /\ previous_timing # "one"

Within(n, b) ==
    /\ decoding_scheme = "IRQ_BOTH" /\ b < Total(n) /\ SecondHalfLeft(n, b) /\ Seen(n, b)
    /\ previous_timing = KindOf(n, b + 1)

OffBetween(n, b) ==
    /\ decoding_scheme = "IRQ_BOTH" /\ clean = 1 /\ b <= n /\ HalvesLeft(n, b) /\ Seen(n, b)
    /\ previous_timing = "one"

OffWithin(n, b) ==
    /\ decoding_scheme = "IRQ_BOTH" /\ clean = 1 /\ b < n /\ SecondHalfLeft(n, b) /\ Seen(n, b + 1)
    /\ previous_timing = "none"

Placed(n, b) ==
    Rising(n, b) \/ Between(n, b) \/ Within(n, b) \/ OffBetween(n, b) \/ OffWithin(n, b)

(* One packet, the first after a disturbance or one after that. *)
OnePacket == packet \in Seq(Byte) /\ Len(packet) \in 1..PACKET_BYTES /\ clean \in {1, 2}

(* The decoder is somewhere in the packet that comes without noise. *)
OnTrack ==
    clean \in {1, 2} =>
        /\ Len(packet) \in 1..PACKET_BYTES
        /\ \E n \in Preambles : \E b \in 0..Total(n) : Placed(n, b)

FoundIInv == DecoderIInv /\ OnTrack

-------------------------------------------------------------------------------
(* The bits of a packet. *)

LEMMA WidthFacts ==
    /\ Width \in Nat /\ Width = BYTE_BITS + 1 /\ Width >= 2
    /\ \A q \in Nat : Width * q \in Nat /\ Width * (q + 1) = Width * q + Width
    /\ \A q, l \in Nat : q < l => Width * q + Width <= Width * l
<1>. DEFINE w == Width
<1>1. w \in Nat /\ Width = BYTE_BITS + 1 /\ Width >= 2
  BY Numbers DEF Width
<1>. HIDE DEF w
<1>2. \A q \in Nat : w * q \in Nat /\ w * (q + 1) = w * q + w
  BY ONLY <1>1
<1>3. \A q, l \in Nat : q < l => w * q + w <= w * l
  BY ONLY <1>1
<1>. QED BY <1>1, <1>2, <1>3 DEF w

LEMMA TotalFacts ==
    ASSUME NEW n \in Nat, Len(packet) \in Nat
    PROVE  /\ Total(n) \in Nat /\ Total(n) = n + Width * Len(packet) + 1
           /\ Total(n) > n
           /\ \A q \in Nat, s \in Nat : (q < Len(packet) /\ s <= BYTE_BITS) =>
                 n + 1 + Width * q + s < Total(n)
<1>1. Width * Len(packet) \in Nat
  BY WidthFacts
<1>2. \A q \in Nat : q < Len(packet) => Width * q \in Nat /\ Width * q + Width <= Width * Len(packet)
  BY WidthFacts
<1>3. Width = BYTE_BITS + 1 /\ BYTE_BITS \in Nat
  BY WidthFacts, Numbers
<1>. QED BY ONLY <1>1, <1>2, <1>3, n \in Nat DEF Total

LEMMA Division ==
    ASSUME NEW w \in Nat, w > 0, NEW q \in Nat, NEW r \in 0..(w - 1)
    PROVE  (w * q + r) % w = r /\ (w * q + r) \div w = q
OBVIOUS

LEMMA BitsAre ==
    ASSUME NEW n \in Nat, Len(packet) \in Nat
    PROVE  /\ \A b \in 1..Total(n) :
                 BitsOfPacket(packet, n)[b] =
                   (\/ b <= n
                    \/ b = Total(n)
                    \/ /\ (b - n - 1) % Width # 0
                       /\ (BYTE_BITS - ((b - n - 1) % Width)) \in packet[(b - n - 1) \div Width + 1])
           /\ Len(BitsOfPacket(packet, n)) = Total(n)
<1>. DEFINE f(i) ==
        \/ i <= n
        \/ i = Total(n)
        \/ LET place == (i - n - 1) % Width
           IN  place # 0 /\ (BYTE_BITS - place) \in packet[(i - n - 1) \div Width + 1]
            g(i) ==
        \/ i <= n
        \/ i = Total(n)
        \/ /\ (i - n - 1) % Width # 0
           /\ (BYTE_BITS - ((i - n - 1) % Width)) \in packet[(i - n - 1) \div Width + 1]
<1>1. BitsOfPacket(packet, n) = [i \in 1..Total(n) |-> f(i)]
  BY Zenon DEF BitsOfPacket, Total, Width
<1>2. \A i : f(i) = g(i)
  BY Zenon
<1>3. Total(n) \in Nat
  BY TotalFacts
<1>. HIDE DEF f
<1>4. \A b \in 1..Total(n) : BitsOfPacket(packet, n)[b] = f(b)
  BY ONLY <1>1, Zenon
<1>5. Len([i \in 1..Total(n) |-> f(i)]) = Total(n)
  BY ONLY <1>3
<1>6. \A b \in 1..Total(n) : BitsOfPacket(packet, n)[b] = g(b)
  <2>. HIDE DEF g
  <2>. QED BY ONLY <1>2, <1>4, Zenon
<1>. QED BY ONLY <1>1, <1>5, <1>6, Zenon

LEMMA KindsAre ==
    ASSUME NEW n \in Nat, Len(packet) \in Nat
    PROVE  /\ \A b \in 1..n : KindOf(n, b) = "one"
           /\ KindOf(n, Total(n)) = "one"
           /\ \A q \in 0..(Len(packet) - 1), s \in 0..BYTE_BITS :
                 KindOf(n, n + 1 + Width * q + s) =
                    IF s # 0 /\ (BYTE_BITS - s) \in packet[q + 1] THEN "one" ELSE "zero"
<1>0. Total(n) \in Nat /\ Total(n) > n
  BY TotalFacts
<1>1. ASSUME NEW b \in 1..Total(n), b <= n \/ b = Total(n)
      PROVE  KindOf(n, b) = "one"
  <2>1. BitsOfPacket(packet, n)[b] = TRUE
    BY ONLY <1>1, BitsAre, n \in Nat, Len(packet) \in Nat, Zenon
  <2>. QED BY ONLY <2>1, Zenon DEF KindOf
<1>2. /\ \A b \in 1..n : b \in 1..Total(n) /\ b <= n
      /\ Total(n) \in 1..Total(n)
  BY ONLY <1>0, n \in Nat
<1>3. ASSUME NEW q \in 0..(Len(packet) - 1), NEW s \in 0..BYTE_BITS
      PROVE  KindOf(n, n + 1 + Width * q + s) =
                IF s # 0 /\ (BYTE_BITS - s) \in packet[q + 1] THEN "one" ELSE "zero"
  <2>. DEFINE z == Width * q
              b == n + 1 + z + s
              w == Width
  <2>0. q \in Nat /\ q < Len(packet) /\ w \in Nat /\ w = BYTE_BITS + 1
    BY WidthFacts
  <2>1. z \in Nat /\ w \in Nat /\ w > 0 /\ s \in 0..(w - 1) /\ q \in Nat /\ q < Len(packet)
    <3>1. z \in Nat
      BY <2>0, WidthFacts
    <3>. QED BY ONLY <2>0, <3>1, Numbers, s \in 0..BYTE_BITS
  <2>2. b < Total(n)
    <3>1. s \in Nat /\ s <= BYTE_BITS
      BY Numbers
    <3>2. n + 1 + Width * q + s < Total(n)
      <4>. HIDE DEF z, b, w
      <4>. QED BY ONLY <2>1, <3>1, TotalFacts, n \in Nat, Len(packet) \in Nat
    <3>. QED BY <3>2
  <2>3. (z + s) % w = s /\ (z + s) \div w = q
    <3>. HIDE DEF w
    <3>1. (w * q + s) % w = s /\ (w * q + s) \div w = q
      BY ONLY <2>1, Division
    <3>. QED BY <3>1 DEF w
  <2>. HIDE DEF z
  <2>4. b \in 1..Total(n) /\ b - n - 1 = z + s /\ ~(b <= n) /\ b # Total(n)
    BY ONLY <2>1, <2>2, <1>0, n \in Nat, s \in 0..BYTE_BITS, Numbers
  <2>5. (b - n - 1) % Width = s /\ (b - n - 1) \div Width = q
    BY ONLY <2>3, <2>4 DEF w
  <2>. HIDE DEF b
  <2>6. BitsOfPacket(packet, n)[b] = (s # 0 /\ (BYTE_BITS - s) \in packet[q + 1])
    <3>1. BitsOfPacket(packet, n)[b] =
             (\/ b <= n
              \/ b = Total(n)
              \/ /\ (b - n - 1) % Width # 0
                 /\ (BYTE_BITS - ((b - n - 1) % Width)) \in packet[(b - n - 1) \div Width + 1])
      BY ONLY <2>4, BitsAre, n \in Nat, Len(packet) \in Nat
    <3>. QED BY ONLY <3>1, <2>4, <2>5, Zenon
  <2>7. KindOf(n, b) = IF s # 0 /\ (BYTE_BITS - s) \in packet[q + 1] THEN "one" ELSE "zero"
    BY ONLY <2>6, Zenon DEF KindOf
  <2>. QED BY ONLY <2>7 DEF b, z
<1>. QED BY <1>1, <1>2, <1>3

-------------------------------------------------------------------------------
(* What a bit of the packet does to the decoder. *)

LEMMA PreambleNumbers ==
    /\ MIN_PREAMBLE \in Nat /\ MIN_PREAMBLE >= BYTE_BITS + 2 /\ MIN_PREAMBLE < ONES
    /\ \A n \in Preambles : n \in Nat /\ n >= MIN_PREAMBLE /\ n + BYTE_BITS + 1 < ONES
BY PreambleAssumption, Numbers

LEMMA SmallOnes ==
    ASSUME NEW k \in Nat, k + 1 < ONES PROVE (k + 1) % ONES = k + 1
<1>1. ASSUME NEW a \in Nat, NEW m \in Nat, a < m PROVE a % m = a
  BY <1>1
<1>2. k + 1 \in Nat /\ ONES \in Nat
  BY Numbers
<1>. QED BY ONLY <1>1, <1>2, k + 1 < ONES

LEMMA OneFalls ==
    ASSUME ParseOK, NEW b \in Nat, Falling(b), WholeBit(TRUE)
    PROVE  Falling(b + 1)'
<1>1. CASE parse_state = "PREAMBLE" /\ PreambleOne
  BY <1>1 DEF PreambleOne, Falling
<1>2. CASE parse_state = "DATA_BYTE" /\ DataBit(TRUE)
  <2>1. working_byte_bit \in Nat /\ working_byte_bit <= BYTE_BITS - 1 - b
    BY <1>2, Numbers DEF ParseOK, Falling
  <2>2. CASE working_byte_bit = 0
    BY <1>2, <2>1, <2>2, Numbers DEF DataBit, ByteFull, Falling
  <2>3. CASE working_byte_bit # 0
    BY <1>2, <2>1, <2>3, Numbers DEF DataBit, Falling
  <2>. QED BY <2>2, <2>3
<1>3. CASE parse_state = "BYTE_START_BIT" /\ PacketDone
  BY <1>3 DEF PacketDone, Falling
<1>. QED BY <1>1, <1>2, <1>3 DEF WholeBit

LEMMA OneCounts ==
    ASSUME ParseOK, NEW n \in Preambles, NEW b \in Nat, b < n, OnesCounted(b), WholeBit(TRUE)
    PROVE  OnesCounted(b + 1)'
<1>1. PreambleOne
  BY DEF OnesCounted, WholeBit
<1>2. num_1_bits \in Nat /\ num_1_bits + 1 < ONES
  BY PreambleNumbers, Numbers DEF ParseOK, OnesCounted
<1>3. num_1_bits' = num_1_bits + 1 /\ parse_state' = parse_state
  BY <1>1, <1>2, SmallOnes DEF PreambleOne
<1>. QED BY <1>2, <1>3, Numbers DEF OnesCounted

LEMMA StartBitFound ==
    ASSUME ParseOK, NEW n \in Preambles, OnesCounted(n), WholeBit(FALSE),
           packet \in Seq(Byte), Len(packet) >= 1, packet' = packet
    PROVE  InByte(0, 0)'
<1>1. PreambleZero /\ num_1_bits >= MIN_PREAMBLE
  BY PreambleNumbers DEF OnesCounted, WholeBit, ParseOK
<1>2. /\ parse_state' = "DATA_BYTE" /\ working_byte' = {} /\ working_byte_bit' = BYTE_BITS - 1
      /\ packet_data_pos' = 0
  BY <1>1 DEF PreambleZero
<1>3. packet'[0 + 1] \subseteq 0..(BYTE_BITS - 1)
  BY Numbers DEF Byte
<1>4. \A j : j \in working_byte' <=> (j \in packet'[0 + 1] /\ j >= BYTE_BITS - 0)
  BY <1>2, <1>3, Numbers
<1>. QED BY <1>2, <1>4, Numbers DEF InByte

(* A bit of a byte, the byte not being complete before it. *)
LEMMA InByteStep ==
    ASSUME ParseOK, NEW q \in Nat, NEW s \in Nat, s < BYTE_BITS, NEW one \in BOOLEAN,
           InByte(q, s), WholeBit(one), one <=> (BYTE_BITS - (s + 1)) \in packet[q + 1],
           packet \in Seq(Byte), q < Len(packet), Len(packet) <= PACKET_BYTES,
           clean \in {1, 2}, UNCHANGED <<packet, clean>>
    PROVE  (InByte(q, s + 1) \/ PassesBy(s + 1))'
<1>. DEFINE byte == IF one THEN working_byte \cup {working_byte_bit} ELSE working_byte
<1>1. /\ parse_state = "DATA_BYTE" /\ packet_data_pos = q
      /\ working_byte_bit = BYTE_BITS - 1 - s
      /\ \A j : j \in working_byte <=> (j \in packet[q + 1] /\ j >= BYTE_BITS - s)
      /\ \A j \in 1..q : packet_data[j] = packet[j]
  BY DEF InByte
<1>2. DataBit(one)
  BY <1>1 DEF WholeBit
<1>3. \A j \in 0..(BYTE_BITS - 1) :
         j >= BYTE_BITS - (s + 1) <=> (j >= BYTE_BITS - s \/ j = working_byte_bit)
  BY <1>1, Numbers
<1>4. packet[q + 1] \subseteq 0..(BYTE_BITS - 1)
  BY DEF Byte
<1>5. BYTE_BITS - (s + 1) = working_byte_bit
  BY <1>1, Numbers
<1>6. \A j : j \in byte <=> (j \in packet[q + 1] /\ j >= BYTE_BITS - (s + 1))
  <2>1. one <=> working_byte_bit \in packet[q + 1]
    BY <1>5
  <2>2. ~(working_byte_bit >= BYTE_BITS - s)
    BY <1>1, Numbers
  <2>. QED BY <1>1, <1>3, <1>4, <2>1, <2>2
<1>. HIDE DEF byte
<1>7. CASE working_byte_bit # 0
  <2>1. /\ working_byte' = byte /\ working_byte_bit' = working_byte_bit - 1
        /\ UNCHANGED <<num_1_bits, parse_state, packet_data, packet_data_pos>>
    BY <1>2, <1>7 DEF DataBit, byte
  <2>2. s + 1 < BYTE_BITS
    BY <1>1, <1>7, Numbers
  <2>. QED BY <1>1, <1>6, <2>1, <2>2, Numbers DEF InByte
<1>8. CASE working_byte_bit = 0
  <2>1. ByteFull(byte)
    BY <1>2, <1>8 DEF DataBit, byte
  <2>2. s + 1 = BYTE_BITS
    BY <1>1, <1>8, Numbers
  <2>3. \A j \in 0..(BYTE_BITS - 1) : j >= BYTE_BITS - (s + 1)
    BY <2>2, Numbers
  <2>4. byte = packet[q + 1]
    BY <1>4, <1>6, <2>3
  <2>5. q + 1 \in Index /\ packet_data \in [Index -> Byte]
    BY <1>1, Numbers DEF ParseOK, Index
  <2>6. /\ packet_data' = [packet_data EXCEPT ![q + 1] = packet[q + 1]]
        /\ packet_data_pos' = q + 1
    BY <1>1, <2>1, <2>4 DEF ByteFull
  <2>7. \A j \in 1..(q + 1) : packet_data'[j] = packet'[j]
    BY <1>1, <2>5, <2>6 DEF Index
  <2>8. CASE q + 1 > PACKET_BYTES - 1
    <3>1. parse_state' = "PREAMBLE" /\ num_1_bits' = 0
      BY <2>1, <2>6, <2>8 DEF ByteFull
    <3>2. Len(packet) = PACKET_BYTES
      BY <2>8, Numbers
    <3>. QED BY <3>1, <3>2 DEF PassesBy
  <2>9. CASE ~(q + 1 > PACKET_BYTES - 1)
    <3>1. /\ parse_state' = "BYTE_START_BIT"
          /\ working_byte' = {} /\ working_byte_bit' = BYTE_BITS - 1
      BY <2>1, <2>6, <2>9 DEF ByteFull
    <3>. QED BY <2>2, <2>6, <2>7, <3>1, Numbers DEF InByte
  <2>. QED BY <2>8, <2>9
<1>. QED BY <1>7, <1>8

(* A bit that the decoder does not take for one of a byte. *)
LEMMA PassesByStep ==
    ASSUME ParseOK, NEW s \in Nat, s <= BYTE_BITS, NEW one \in BOOLEAN,
           PassesBy(s), WholeBit(one), UNCHANGED <<packet, clean>>
    PROVE  PassesBy(s + 1)' /\ (~one => PassesBy(0)')
<1>1. num_1_bits \in Nat /\ num_1_bits + 1 < ONES /\ ~(num_1_bits >= MIN_PREAMBLE)
  BY PreambleNumbers, Numbers DEF PassesBy, ParseOK
<1>2. CASE PreambleOne /\ one
  BY <1>1, <1>2, SmallOnes DEF PreambleOne, PassesBy
<1>3. CASE PreambleZero /\ ~one
  BY <1>1, <1>3 DEF PreambleZero, PassesBy
<1>. QED BY <1>2, <1>3 DEF WholeBit, PassesBy

(* The start bit of the next byte. *)
LEMMA StartBitStep ==
    ASSUME ParseOK, NEW q \in Nat, InByte(q, BYTE_BITS), WholeBit(FALSE),
           packet \in Seq(Byte), q + 1 < Len(packet), UNCHANGED <<packet, clean>>
    PROVE  InByte(q + 1, 0)'
<1>1. /\ parse_state = "BYTE_START_BIT" /\ packet_data_pos = q + 1
      /\ working_byte = {} /\ working_byte_bit = BYTE_BITS - 1
      /\ \A j \in 1..(q + 1) : packet_data[j] = packet[j]
  BY Numbers DEF InByte
<1>2. NextByte
  BY <1>1 DEF WholeBit
<1>3. packet[(q + 1) + 1] \subseteq 0..(BYTE_BITS - 1)
  BY DEF Byte
<1>4. \A j : j \in working_byte <=> (j \in packet[(q + 1) + 1] /\ j >= BYTE_BITS - 0)
  BY <1>1, <1>3, Numbers
<1>. QED BY <1>1, <1>2, <1>4, Numbers DEF NextByte, InByte

(* The one at the end of the packet. *)
LEMMA EndBitStep ==
    ASSUME ParseOK, NEW q \in Nat, InByte(q, BYTE_BITS), WholeBit(TRUE),
           packet \in Seq(Byte), q + 1 = Len(packet), UNCHANGED <<packet, clean>>
    PROVE  Ended'
<1>1. /\ parse_state = "BYTE_START_BIT" /\ packet_data_pos = q + 1
      /\ \A j \in 1..(q + 1) : packet_data[j] = packet[j]
  BY Numbers DEF InByte
<1>2. PacketDone
  BY <1>1 DEF WholeBit
<1>3. q + 1 \in Index /\ packet_data \in Seq(Byte) /\ Len(packet_data) = PACKET_BYTES
  BY <1>1, Numbers DEF ParseOK, Index
<1>4. SubSeq(packet_data, 1, q + 1) = packet
  <2>1. /\ SubSeq(packet_data, 1, q + 1) \in Seq(Byte)
        /\ Len(SubSeq(packet_data, 1, q + 1)) = q + 1
        /\ \A j \in 1..(q + 1) : SubSeq(packet_data, 1, q + 1)[j] = packet_data[j]
    BY <1>3, Numbers DEF Index
  <2>. DEFINE t == SubSeq(packet_data, 1, q + 1)
  <2>. HIDE DEF t
  <2>2. t \in Seq(Byte) /\ Len(t) = Len(packet) /\ \A j \in 1..Len(t) : t[j] = packet[j]
    BY <1>1, <2>1 DEF t
  <2>3. t = packet
    BY ONLY <2>2, packet \in Seq(Byte)
  <2>. QED BY <2>3 DEF t
<1>5. found' = packet /\ parse_state' = "PREAMBLE" /\ num_1_bits' = 0
  BY <1>1, <1>2, <1>4 DEF PacketDone
<1>. QED BY <1>5, Numbers DEF Ended

LEMMA EndPassesBy ==
    ASSUME ParseOK, PassesBy(BYTE_BITS), WholeBit(TRUE), UNCHANGED <<packet, clean>>
    PROVE  Ended'
<1>1. PassesBy(BYTE_BITS + 1)'
  <2>1. BYTE_BITS \in Nat /\ BYTE_BITS <= BYTE_BITS /\ TRUE \in BOOLEAN
    BY Numbers
  <2>. QED BY ONLY <2>1, ParseOK, PassesBy(BYTE_BITS), WholeBit(TRUE), UNCHANGED <<packet, clean>>,
                   PassesByStep
<1>. QED BY <1>1, Numbers DEF PassesBy, Ended

(* The start bit of the first byte. *)
LEMMA FirstStartBit ==
    ASSUME ParseOK, NEW n \in Preambles, Falling(n), clean = 1, WholeBit(FALSE),
           packet \in Seq(Byte), Len(packet) >= 1, UNCHANGED <<packet, clean>>
    PROVE  (InByte(0, 0) \/ PassesBy(0))'
<1>1. parse_state = "PREAMBLE" /\ PreambleZero
  <2>1. n \in Nat /\ n >= BYTE_BITS + 2
    BY PreambleNumbers, Numbers
  <2>2. working_byte_bit \in Nat /\ parse_state \in ParseStates
    BY Numbers DEF ParseOK
  <2>3. parse_state = "PREAMBLE"
    BY ONLY <2>1, <2>2, Falling(n), Numbers DEF Falling, ParseStates
  <2>. QED BY ONLY <2>3, WholeBit(FALSE) DEF WholeBit
<1>2. packet'[0 + 1] \subseteq 0..(BYTE_BITS - 1)
  BY DEF Byte
<1>3. CASE num_1_bits >= MIN_PREAMBLE
  <2>1. /\ parse_state' = "DATA_BYTE" /\ working_byte' = {}
        /\ working_byte_bit' = BYTE_BITS - 1 /\ packet_data_pos' = 0
    BY <1>1, <1>3 DEF PreambleZero
  <2>2. \A j : j \in working_byte' <=> (j \in packet'[0 + 1] /\ j >= BYTE_BITS - 0)
    BY <1>2, <2>1, Numbers
  <2>. QED BY <2>1, <2>2, Numbers DEF InByte
<1>4. CASE ~(num_1_bits >= MIN_PREAMBLE)
  BY <1>1, <1>4 DEF PreambleZero, PassesBy
<1>. QED BY <1>3, <1>4

(* One bit of the packet after the other is read. *)
LEMMA SeenStep ==
    ASSUME ParseOK, OnePacket, NEW n \in Preambles, NEW b \in Nat, b < Total(n), Seen(n, b),
           NEW one \in BOOLEAN, one <=> KindOf(n, b + 1) = "one", WholeBit(one),
           UNCHANGED <<packet, clean>>
    PROVE  Seen(n, b + 1)'
<1>0. /\ n \in Nat /\ Len(packet) \in Nat /\ Len(packet) >= 1 /\ Len(packet) <= PACKET_BYTES
      /\ packet \in Seq(Byte) /\ clean \in {1, 2} /\ BYTE_BITS \in Nat /\ BYTE_BITS >= 1
  BY PreambleNumbers, Numbers DEF OnePacket
<1>1. CASE b < n /\ clean = 1 /\ Falling(b)
  <2>1. b + 1 \in 1..n
    BY <1>0, <1>1
  <2>2. WholeBit(TRUE)
    <3>1. one = TRUE
      BY ONLY <1>0, <2>1, KindsAre, one \in BOOLEAN, one <=> KindOf(n, b + 1) = "one"
    <3>. QED BY ONLY <3>1, WholeBit(one)
  <2>3. Falling(b + 1)'
    BY ONLY <2>2, <1>1, ParseOK, b \in Nat, OneFalls
  <2>. QED BY <1>1, <2>1, <2>3 DEF Seen
<1>2. CASE b < n /\ clean = 2 /\ OnesCounted(b)
  <2>1. b + 1 \in 1..n
    BY <1>0, <1>2
  <2>2. WholeBit(TRUE)
    <3>1. one = TRUE
      BY ONLY <1>0, <2>1, KindsAre, one \in BOOLEAN, one <=> KindOf(n, b + 1) = "one"
    <3>. QED BY ONLY <3>1, WholeBit(one)
  <2>3. OnesCounted(b + 1)'
    BY ONLY <2>2, <1>2, ParseOK, b \in Nat, n \in Preambles, OneCounts
  <2>. QED BY <1>2, <2>1, <2>3 DEF Seen
<1>3. CASE b = n /\ ((clean = 1 /\ Falling(b)) \/ (clean = 2 /\ OnesCounted(b)))
  <2>1. b + 1 = n + 1 + Width * 0 + 0 /\ 0 \in 0..(Len(packet) - 1) /\ 0 \in 0..BYTE_BITS
    BY ONLY <1>0, <1>3, WidthFacts
  <2>2. KindOf(n, n + 1 + Width * 0 + 0) = "zero"
    BY ONLY <1>0, <2>1, KindsAre
  <2>3. WholeBit(FALSE)
    <3>1. one = FALSE
      BY ONLY <2>1, <2>2, one \in BOOLEAN, one <=> KindOf(n, b + 1) = "one"
    <3>. QED BY ONLY <3>1, WholeBit(one)
  <2>4. (InByte(0, 0) \/ PassesBy(0))'
    <3>0. (clean = 1 /\ Falling(n)) \/ (clean = 2 /\ OnesCounted(n))
      BY ONLY <1>3 DEF Falling, OnesCounted
    <3>1. (clean = 1 /\ Falling(n)) => (InByte(0, 0) \/ PassesBy(0))'
      BY ONLY <1>0, <2>3, ParseOK, n \in Preambles, FirstStartBit, UNCHANGED <<packet, clean>>
    <3>2. OnesCounted(n) => InByte(0, 0)'
      BY ONLY <1>0, <2>3, ParseOK, n \in Preambles, StartBitFound, UNCHANGED <<packet, clean>>
    <3>. QED BY ONLY <3>0, <3>1, <3>2
  <2>. QED BY <2>1, <2>4 DEF Seen
<1>4. ASSUME NEW q \in 0..(Len(packet) - 1), NEW s \in 0..BYTE_BITS,
             b = n + 1 + Width * q + s, InByte(q, s) \/ PassesBy(s)
      PROVE  Seen(n, b + 1)'
  <2>0. /\ q \in Nat /\ q < Len(packet) /\ s \in Nat /\ s <= BYTE_BITS
        /\ Width * q \in Nat /\ Width * (q + 1) = Width * q + Width /\ Width = BYTE_BITS + 1
    BY <1>0, WidthFacts
  <2>1. CASE s < BYTE_BITS
    <3>1. b + 1 = n + 1 + Width * q + (s + 1) /\ s + 1 \in 0..BYTE_BITS /\ s + 1 # 0
      BY ONLY <1>0, <1>4, <2>0, <2>1
    <3>2. one <=> (BYTE_BITS - (s + 1)) \in packet[q + 1]
      <4>. DEFINE t == s + 1
      <4>. HIDE DEF t
      <4>1. KindOf(n, n + 1 + Width * q + t) =
               IF t # 0 /\ (BYTE_BITS - t) \in packet[q + 1] THEN "one" ELSE "zero"
        BY ONLY <1>0, <3>1, KindsAre, q \in 0..(Len(packet) - 1) DEF t
      <4>. QED BY ONLY <4>1, <3>1, one <=> KindOf(n, b + 1) = "one" DEF t
    <3>3. InByte(q, s) => (InByte(q, s + 1) \/ PassesBy(s + 1))'
      BY ONLY <1>0, <2>0, <2>1, <3>2, ParseOK, one \in BOOLEAN, WholeBit(one), InByteStep,
              UNCHANGED <<packet, clean>>
    <3>4. PassesBy(s) => PassesBy(s + 1)'
      BY ONLY <2>0, ParseOK, one \in BOOLEAN, WholeBit(one), PassesByStep, UNCHANGED <<packet, clean>>
    <3>5. (InByte(q, s + 1) \/ PassesBy(s + 1))'
      BY ONLY <1>4, <3>3, <3>4
    <3>. DEFINE t == s + 1
    <3>6. b + 1 = n + 1 + Width * q + t /\ t \in 0..BYTE_BITS /\ (InByte(q, t) \/ PassesBy(t))'
      BY ONLY <3>1, <3>5
    <3>. HIDE DEF t
    <3>. QED BY ONLY <3>6, q \in 0..(Len(packet) - 1), packet' = packet DEF Seen
  <2>2. CASE s = BYTE_BITS /\ q + 1 < Len(packet)
    <3>1. b + 1 = n + 1 + Width * (q + 1) + 0 /\ q + 1 \in 0..(Len(packet) - 1) /\ 0 \in 0..BYTE_BITS
      BY ONLY <1>0, <1>4, <2>0, <2>2
    <3>. DEFINE r == q + 1
    <3>2. KindOf(n, n + 1 + Width * r + 0) = "zero"
      <4>. HIDE DEF r
      <4>. QED BY ONLY <1>0, <3>1, KindsAre DEF r
    <3>3. WholeBit(FALSE)
      <4>1. one = FALSE
        BY ONLY <3>1, <3>2, one \in BOOLEAN, one <=> KindOf(n, b + 1) = "one"
      <4>. QED BY ONLY <4>1, WholeBit(one)
    <3>4. InByte(q, BYTE_BITS) => InByte(q + 1, 0)'
      BY ONLY <1>0, <2>0, <2>2, <3>3, ParseOK, StartBitStep, UNCHANGED <<packet, clean>>
    <3>5. PassesBy(BYTE_BITS) => PassesBy(0)'
      <4>1. BYTE_BITS \in Nat /\ BYTE_BITS <= BYTE_BITS /\ FALSE \in BOOLEAN /\ ~FALSE
        BY ONLY <1>0
      <4>. QED BY ONLY <4>1, <3>3, ParseOK, PassesByStep, UNCHANGED <<packet, clean>>
    <3>6. (InByte(r, 0) \/ PassesBy(0))'
      BY ONLY <1>4, <2>2, <3>4, <3>5
    <3>7. b + 1 = n + 1 + Width * r + 0 /\ r \in 0..(Len(packet) - 1)
      BY ONLY <3>1
    <3>. HIDE DEF r
    <3>. QED BY ONLY <3>1, <3>6, <3>7, packet' = packet DEF Seen
  <2>3. CASE s = BYTE_BITS /\ q + 1 = Len(packet)
    <3>1. b + 1 = Total(n)
      BY ONLY <1>0, <1>4, <2>0, <2>3 DEF Total
    <3>2. WholeBit(TRUE)
      <4>1. one = TRUE
        BY ONLY <1>0, <3>1, KindsAre, one \in BOOLEAN, one <=> KindOf(n, b + 1) = "one"
      <4>. QED BY ONLY <4>1, WholeBit(one)
    <3>3. InByte(q, BYTE_BITS) => Ended'
      BY ONLY <1>0, <2>0, <2>3, <3>2, ParseOK, EndBitStep, UNCHANGED <<packet, clean>>
    <3>4. PassesBy(BYTE_BITS) => Ended'
      BY ONLY <3>2, ParseOK, EndPassesBy, UNCHANGED <<packet, clean>>
    <3>5. Ended'
      BY ONLY <1>4, <2>3, <3>3, <3>4
    <3>6. Total(n)' = Total(n)
      BY DEF Total
    <3>. QED BY ONLY <3>1, <3>5, <3>6 DEF Seen
  <2>. QED BY ONLY <2>0, <2>1, <2>2, <2>3, <1>0
<1>5. b <= n => (b < n \/ b = n)
  BY <1>0
<1>6. b # Total(n)
  BY <1>0, TotalFacts
<1>7. CASE b <= n /\ clean = 1 /\ Falling(b)
  BY ONLY <1>1, <1>3, <1>5, <1>7
<1>8. CASE b <= n /\ clean = 2 /\ OnesCounted(b)
  BY ONLY <1>2, <1>3, <1>5, <1>8
<1>9. CASE \E q \in 0..(Len(packet) - 1), s \in 0..BYTE_BITS :
              b = n + 1 + Width * q + s /\ (InByte(q, s) \/ PassesBy(s))
  <2>1. PICK q \in 0..(Len(packet) - 1), s \in 0..BYTE_BITS :
              b = n + 1 + Width * q + s /\ (InByte(q, s) \/ PassesBy(s))
    BY <1>9, Zenon
  <2>. QED BY ONLY <1>4, <2>1
<1>. QED BY ONLY <1>6, <1>7, <1>8, <1>9, Seen(n, b), Zenon DEF Seen

(* Half a bit that fits none before it does not disturb a preamble that is not *)
(* counted.                                                                    *)
LEMMA InvalidSeen ==
    ASSUME NEW n \in Nat, NEW b \in Nat, b <= n, clean = 1, Len(packet) \in Nat, Seen(n, b),
           InvalidBit, UNCHANGED <<packet, clean>>
    PROVE  Seen(n, b)'
<1>1. Falling(b)
  <2>1. \A q \in 0..(Len(packet) - 1), s \in 0..BYTE_BITS : n + 1 + Width * q + s > n
    BY WidthFacts, Numbers
  <2>2. b # Total(n)
    BY TotalFacts
  <2>3. ~(\E q \in 0..(Len(packet) - 1), s \in 0..BYTE_BITS :
             b = n + 1 + Width * q + s /\ (InByte(q, s) \/ PassesBy(s)))
    BY <2>1
  <2>. QED BY <2>2, <2>3 DEF Seen
<1>2. Falling(b)'
  BY <1>1 DEF Falling, InvalidBit
<1>. QED BY <1>2 DEF Seen

(* At the end of the packet it looks for a preamble again. *)
LEMMA SeenAll ==
    ASSUME NEW n \in Nat, Len(packet) \in Nat, Seen(n, Total(n))
    PROVE  Ended
<1>1. Total(n) > n /\ n \in Nat /\ Total(n) \in Nat
  BY TotalFacts
<1>2. \A q \in 0..(Len(packet) - 1), s \in 0..BYTE_BITS : n + 1 + Width * q + s < Total(n)
  BY TotalFacts, Numbers
<1>3. ~(Total(n) <= n)
  BY <1>1
<1>4. ~(\E q \in 0..(Len(packet) - 1), s \in 0..BYTE_BITS :
             Total(n) = n + 1 + Width * q + s /\ (InByte(q, s) \/ PassesBy(s)))
  BY <1>1, <1>2
<1>. QED BY ONLY <1>3, <1>4, Seen(n, Total(n)), Zenon DEF Seen

(* Nothing but the parser's state, the packet and what was found is looked at. *)
LEMMA SeenKept ==
    ASSUME NEW n, NEW b, Seen(n, b), UNCHANGED <<parse, packet, clean, found>>
    PROVE  Seen(n, b)'
BY DEF Seen, Falling, OnesCounted, InByte, PassesBy, Ended, Total, Width, parse

-------------------------------------------------------------------------------
(* What is left on the track. *)

LEMMA LeftKept ==
    ASSUME NEW n, NEW b, UNCHANGED <<rest, packet>>
    PROVE  /\ Total(n)' = Total(n) /\ KindOf(n, b)' = KindOf(n, b)
           /\ (BitsLeft(n, b)' <=> BitsLeft(n, b))
           /\ (HalvesLeft(n, b)' <=> HalvesLeft(n, b))
           /\ (SecondHalfLeft(n, b)' <=> SecondHalfLeft(n, b))
BY DEF Total, KindOf, BitsLeft, HalvesLeft, SecondHalfLeft, BitsOfPacket, Width

LEMMA BitsTaken ==
    ASSUME NEW n \in Nat, NEW b \in Nat, Len(packet) \in Nat, rest \in Seq({"one", "zero"}), rest # <<>>,
           BitsLeft(n, b), rest' = Tail(rest), packet' = packet
    PROVE  /\ b < Total(n) /\ Head(rest) = KindOf(n, b + 1)
           /\ BitsLeft(n, b + 1)'
<1>. DEFINE t == Total(n)
            K(i) == KindOf(n, i)
<1>1. t \in Nat
  BY TotalFacts
<1>2. Len(rest) = t - b /\ \A i \in 1..(t - b) : rest[i] = K(b + i)
  BY DEF BitsLeft
<1>3. Total(n)' = t /\ \A i : KindOf(n, i)' = K(i)
  BY DEF Total, KindOf, BitsOfPacket, Width
<1>. HIDE DEF t, K
<1>4. b < t /\ Head(rest) = K(b + 1)
  BY <1>1, <1>2
<1>5. Len(rest') = t - (b + 1) /\ \A i \in 1..(t - (b + 1)) : rest'[i] = K((b + 1) + i)
  <2>1. Len(rest') = t - (b + 1) /\ \A i \in 1..(t - (b + 1)) : rest'[i] = rest[i + 1]
    BY <1>1, <1>2, <1>4
  <2>2. \A i \in 1..(t - (b + 1)) : i + 1 \in 1..(t - b) /\ b + (i + 1) = (b + 1) + i
    BY <1>1, <1>4
  <2>. QED BY <1>2, <2>1, <2>2
<1>6. BitsLeft(n, b + 1)'
  BY <1>3, <1>5 DEF BitsLeft
<1>. QED BY <1>4, <1>6 DEF t, K

LEMMA HalfTaken ==
    ASSUME NEW n \in Nat, NEW b \in Nat, Len(packet) \in Nat, rest \in Seq({"one", "zero"}), rest # <<>>,
           HalvesLeft(n, b), rest' = Tail(rest), packet' = packet
    PROVE  /\ b < Total(n) /\ Head(rest) = KindOf(n, b + 1)
           /\ SecondHalfLeft(n, b)'
<1>. DEFINE t == Total(n)
            K(i) == KindOf(n, i)
<1>1. t \in Nat
  BY TotalFacts
<1>2. /\ Len(rest) = 2 * (t - b)
      /\ \A i \in 1..(t - b) : rest[2 * i - 1] = K(b + i) /\ rest[2 * i] = K(b + i)
  BY DEF HalvesLeft
<1>3. Total(n)' = t /\ \A i : KindOf(n, i)' = K(i)
  BY DEF Total, KindOf, BitsOfPacket, Width
<1>. HIDE DEF t, K
<1>4. b < t /\ 1 \in 1..(t - b)
  BY <1>1, <1>2
<1>5. Head(rest) = K(b + 1) /\ rest[2] = K(b + 1)
  <2>1. rest[2 * 1 - 1] = K(b + 1) /\ rest[2 * 1] = K(b + 1)
    BY ONLY <1>2, <1>4
  <2>. QED BY <2>1
<1>6. Len(rest') = 2 * (t - b) - 1 /\ \A i \in 1..(2 * (t - b) - 1) : rest'[i] = rest[i + 1]
  BY <1>1, <1>2, <1>4
<1>7. \A i \in 1..(t - b - 1) : rest'[2 * i] = K(b + 1 + i) /\ rest'[2 * i + 1] = K(b + 1 + i)
  <2>. SUFFICES ASSUME NEW i \in 1..(t - b - 1)
                PROVE  rest'[2 * i] = K(b + 1 + i) /\ rest'[2 * i + 1] = K(b + 1 + i)
    OBVIOUS
  <2>1. /\ i + 1 \in 1..(t - b) /\ b + (i + 1) = b + 1 + i
        /\ 2 * (i + 1) - 1 = 2 * i + 1 /\ 2 * (i + 1) = 2 * i + 1 + 1
        /\ 2 * i \in 1..(2 * (t - b) - 1) /\ 2 * i + 1 \in 1..(2 * (t - b) - 1)
    BY <1>1, <1>4
  <2>2. rest[2 * (i + 1) - 1] = K(b + (i + 1)) /\ rest[2 * (i + 1)] = K(b + (i + 1))
    BY ONLY <1>2, <2>1
  <2>3. rest'[2 * i] = rest[2 * i + 1] /\ rest'[2 * i + 1] = rest[2 * i + 1 + 1]
    BY ONLY <1>6, <2>1
  <2>. QED BY ONLY <2>1, <2>2, <2>3
<1>8. rest'[1] = K(b + 1)
  BY <1>1, <1>4, <1>5, <1>6
<1>9. SecondHalfLeft(n, b)'
  BY <1>3, <1>6, <1>7, <1>8 DEF SecondHalfLeft
<1>. QED BY <1>4, <1>5, <1>9 DEF t, K

LEMMA SecondHalfTaken ==
    ASSUME NEW n \in Nat, NEW b \in Nat, Len(packet) \in Nat, rest \in Seq({"one", "zero"}), rest # <<>>,
           b < Total(n), SecondHalfLeft(n, b), rest' = Tail(rest), packet' = packet
    PROVE  /\ Head(rest) = KindOf(n, b + 1)
           /\ HalvesLeft(n, b + 1)'
<1>. DEFINE t == Total(n)
            K(i) == KindOf(n, i)
<1>1. t \in Nat /\ b < t
  BY TotalFacts
<1>2. /\ Len(rest) = 2 * (t - b) - 1 /\ rest[1] = K(b + 1)
      /\ \A i \in 1..(t - b - 1) : rest[2 * i] = K(b + 1 + i) /\ rest[2 * i + 1] = K(b + 1 + i)
  BY DEF SecondHalfLeft
<1>3. Total(n)' = t /\ \A i : KindOf(n, i)' = K(i)
  BY DEF Total, KindOf, BitsOfPacket, Width
<1>. HIDE DEF t, K
<1>4. Head(rest) = K(b + 1)
  BY <1>1, <1>2
<1>5. Len(rest') = 2 * (t - (b + 1)) /\ \A i \in 1..(2 * (t - (b + 1))) : rest'[i] = rest[i + 1]
  BY <1>1, <1>2
<1>6. \A i \in 1..(t - (b + 1)) : rest'[2 * i - 1] = K((b + 1) + i) /\ rest'[2 * i] = K((b + 1) + i)
  <2>. SUFFICES ASSUME NEW i \in 1..(t - (b + 1))
                PROVE  rest'[2 * i - 1] = K((b + 1) + i) /\ rest'[2 * i] = K((b + 1) + i)
    OBVIOUS
  <2>1. /\ i \in 1..(t - b - 1) /\ (b + 1) + i = b + 1 + i
        /\ (2 * i - 1) + 1 = 2 * i
        /\ 2 * i - 1 \in 1..(2 * (t - (b + 1))) /\ 2 * i \in 1..(2 * (t - (b + 1)))
    BY <1>1
  <2>2. rest[2 * i] = K(b + 1 + i) /\ rest[2 * i + 1] = K(b + 1 + i)
    BY ONLY <1>2, <2>1
  <2>3. rest'[2 * i - 1] = rest[(2 * i - 1) + 1] /\ rest'[2 * i] = rest[2 * i + 1]
    BY ONLY <1>5, <2>1
  <2>. QED BY ONLY <2>1, <2>2, <2>3
<1>7. HalvesLeft(n, b + 1)'
  BY <1>3, <1>5, <1>6 DEF HalvesLeft
<1>. QED BY <1>4, <1>7 DEF t, K

LEMMA EdgesAre ==
    ASSUME NEW bits, Len(bits) \in Nat
    PROVE  /\ decoding_scheme = "IRQ_BOTH" =>
                 /\ Len(EdgesOf(bits)) = 2 * Len(bits)
                 /\ \A i \in 1..Len(bits) :
                       /\ EdgesOf(bits)[2 * i - 1] = IF bits[i] THEN "one" ELSE "zero"
                       /\ EdgesOf(bits)[2 * i] = IF bits[i] THEN "one" ELSE "zero"
           /\ decoding_scheme = "IRQ_RISING_OR_FALLING" =>
                 /\ Len(EdgesOf(bits)) = Len(bits)
                 /\ \A i \in 1..Len(bits) : EdgesOf(bits)[i] = IF bits[i] THEN "one" ELSE "zero"
<1>. DEFINE l == Len(bits)
            k(i) == IF bits[i] THEN "one" ELSE "zero"
<1>1. l \in Nat
  OBVIOUS
<1>2. ASSUME decoding_scheme = "IRQ_BOTH"
      PROVE  EdgesOf(bits) = [i \in 1..(2 * l) |-> k((i - 1) \div 2 + 1)]
  BY <1>2 DEF EdgesOf
<1>3. ASSUME decoding_scheme = "IRQ_RISING_OR_FALLING"
      PROVE  EdgesOf(bits) = [i \in 1..(1 * l) |-> k((i - 1) \div 1 + 1)]
  BY <1>3 DEF EdgesOf
<1>. HIDE DEF l, k
<1>4. \A i \in 1..l : /\ 2 * i - 1 \in 1..(2 * l) /\ ((2 * i - 1) - 1) \div 2 + 1 = i
                      /\ 2 * i \in 1..(2 * l) /\ (2 * i - 1) \div 2 + 1 = i
  BY <1>1
<1>5. \A i \in 1..l : i \in 1..(1 * l) /\ (i - 1) \div 1 + 1 = i
  BY <1>1
<1>6. ASSUME decoding_scheme = "IRQ_BOTH"
      PROVE  /\ Len(EdgesOf(bits)) = 2 * l
             /\ \A i \in 1..l : EdgesOf(bits)[2 * i - 1] = k(i) /\ EdgesOf(bits)[2 * i] = k(i)
  <2>. DEFINE F == [i \in 1..(2 * l) |-> k((i - 1) \div 2 + 1)]
  <2>1. \A j \in 1..(2 * l) : F[j] = k((j - 1) \div 2 + 1)
    OBVIOUS
  <2>2. 2 * l \in Nat
    BY ONLY <1>1
  <2>3. Len(F) = 2 * l
    BY ONLY <2>2
  <2>4. EdgesOf(bits) = F
    BY ONLY <1>2, <1>6
  <2>. HIDE DEF F
  <2>5. ASSUME NEW i \in 1..l PROVE F[2 * i - 1] = k(i) /\ F[2 * i] = k(i)
    <3>1. /\ 2 * i - 1 \in 1..(2 * l) /\ ((2 * i - 1) - 1) \div 2 + 1 = i
          /\ 2 * i \in 1..(2 * l) /\ (2 * i - 1) \div 2 + 1 = i
      BY ONLY <1>4, i \in 1..l
    <3>2. F[2 * i - 1] = k(((2 * i - 1) - 1) \div 2 + 1) /\ F[2 * i] = k((2 * i - 1) \div 2 + 1)
      BY ONLY <2>1, <3>1
    <3>. QED BY ONLY <3>1, <3>2
  <2>. QED BY ONLY <2>3, <2>4, <2>5
<1>7. ASSUME decoding_scheme = "IRQ_RISING_OR_FALLING"
      PROVE  /\ Len(EdgesOf(bits)) = l
             /\ \A i \in 1..l : EdgesOf(bits)[i] = k(i)
  BY ONLY <1>1, <1>3, <1>5, <1>7
<1>. QED BY <1>6, <1>7 DEF l, k

-------------------------------------------------------------------------------
(* Every step keeps the packet on the track and the decoder together. *)

LEMMA KindIs == ASSUME NEW n, NEW b PROVE KindOf(n, b) \in {"one", "zero"}
BY DEF KindOf

(* At the end of a packet without noise the decoder is at the end too, in step. *)
LEMMA AtEnd ==
    ASSUME FoundIInv, clean \in {1, 2}, rest = <<>>
    PROVE  Ended /\ (decoding_scheme = "IRQ_BOTH" => previous_timing = "none")
<1>1. PICK n \in Preambles : \E b \in 0..Total(n) : Placed(n, b)
  BY DEF FoundIInv, OnTrack
<1>2. PICK b \in 0..Total(n) : Placed(n, b)
  BY <1>1
<1>3. Len(packet) \in Nat /\ n \in Nat /\ n >= 1 /\ Len(rest) = 0
  BY PreambleNumbers, Numbers DEF FoundIInv, OnTrack
<1>4. Total(n) \in Nat /\ Total(n) > n
  BY <1>3, TotalFacts
<1>5. CASE Rising(n, b)
  <2>1. b = Total(n) /\ Seen(n, b) /\ decoding_scheme # "IRQ_BOTH"
    BY <1>3, <1>4, <1>5 DEF Rising, BitsLeft
  <2>. QED BY ONLY <1>3, <2>1, SeenAll
<1>6. CASE Between(n, b)
  <2>1. b = Total(n) /\ Seen(n, b) /\ previous_timing = "none"
    BY <1>3, <1>4, <1>6 DEF Between, HalvesLeft
  <2>. QED BY ONLY <1>3, <2>1, SeenAll
<1>7. CASE Within(n, b) \/ OffWithin(n, b)
  BY <1>3, <1>4, <1>7 DEF Within, OffWithin, SecondHalfLeft
<1>8. CASE OffBetween(n, b)
  BY <1>3, <1>4, <1>8 DEF OffBetween, HalvesLeft
<1>. QED BY ONLY <1>2, <1>5, <1>6, <1>7, <1>8 DEF Placed

LEMMA EdgePlaced ==
    ASSUME FoundIInv, Edge, clean \in {1, 2}
    PROVE  OnTrack'
<1>1. PICK n \in Preambles : \E b \in 0..Total(n) : Placed(n, b)
  BY DEF FoundIInv, OnTrack
<1>2. PICK b \in 0..Total(n) : Placed(n, b)
  BY <1>1
<1>3. /\ Len(packet) \in Nat /\ n \in Nat /\ n >= 1 /\ ParseOK /\ OnePacket
      /\ rest \in Seq({"one", "zero"}) /\ rest # <<>> /\ rest' = Tail(rest)
      /\ UNCHANGED <<packet, clean>> /\ UNCHANGED decoding_scheme /\ packet' = packet
      /\ Len(packet) \in 1..PACKET_BYTES
  <2>1. Len(packet) \in 1..PACKET_BYTES
    BY DEF FoundIInv, OnTrack
  <2>2. n \in Nat /\ n >= 1
    BY PreambleNumbers, Numbers
  <2>3. ParseOK /\ rest \in Seq({"one", "zero"}) /\ packet \in Seq(Byte)
    BY DEF FoundIInv, DecoderIInv, DecoderTypeOK
  <2>4. /\ rest # <<>> /\ rest' = Tail(rest)
        /\ UNCHANGED <<packet, clean>> /\ UNCHANGED decoding_scheme /\ packet' = packet
    BY DEF Edge
  <2>. QED BY <2>1, <2>2, <2>3, <2>4, Numbers DEF OnePacket
<1>4. Total(n) \in Nat /\ Total(n) > n /\ b \in Nat /\ Total(n)' = Total(n)
  <2>1. Total(n)' = Total(n)
    BY <1>3 DEF Total
  <2>. QED BY <1>3, <2>1, TotalFacts
<1>5. EdgeOf(Head(rest))
  BY DEF Edge
<1>6. \A c : KindOf(n, c)' = KindOf(n, c)
  BY <1>3 DEF KindOf, BitsOfPacket
<1>. DEFINE h == Head(rest)
<1>7. ASSUME WholeBit(h = "one"), b < Total(n), Seen(n, b), h = KindOf(n, b + 1)
      PROVE  Seen(n, b + 1)'
  <2>1. (h = "one") \in BOOLEAN /\ ((h = "one") <=> KindOf(n, b + 1) = "one")
    BY <1>7
  <2>. HIDE DEF h
  <2>. QED BY ONLY <1>3, <1>4, <1>7, <2>1, n \in Preambles, SeenStep
<1>. HIDE DEF h
<1>8. ASSUME NEW c \in Nat, c <= Total(n), Placed(n, c)'
      PROVE  OnTrack'
  <2>1. c \in 0..Total(n)'
    BY <1>4, <1>8
  <2>2. Len(packet') \in 1..PACKET_BYTES
    BY <1>3
  <2>. QED BY <1>8, <2>1, <2>2 DEF OnTrack
<1>9. CASE Rising(n, b)
  <2>1. b < Total(n) /\ h = KindOf(n, b + 1) /\ BitsLeft(n, b + 1)'
    BY ONLY <1>3, <1>4, <1>9, BitsTaken DEF Rising, h
  <2>2. h \in {"one", "zero"}
    BY ONLY <2>1, KindIs
  <2>3. WholeBit(h = "one")
    BY <1>5, <1>9, <2>2 DEF EdgeOf, Rising, rising_or_falling, h
  <2>4. Seen(n, b + 1)'
    BY ONLY <1>7, <1>9, <2>1, <2>3 DEF Rising
  <2>5. Placed(n, b + 1)'
    BY ONLY <1>3, <1>9, <2>1, <2>4 DEF Placed, Rising
  <2>6. b + 1 \in Nat /\ b + 1 <= Total(n)
    BY <1>4, <2>1
  <2>. QED BY ONLY <1>8, <2>5, <2>6
<1>10. ASSUME decoding_scheme = "IRQ_BOTH" PROVE polarity_changed(h)
  BY <1>5, <1>10 DEF EdgeOf, h
<1>11. CASE Between(n, b)
  <2>1. b < Total(n) /\ h = KindOf(n, b + 1) /\ SecondHalfLeft(n, b)'
    BY ONLY <1>3, <1>4, <1>11, HalfTaken DEF Between, h
  <2>2. polarity_changed(h) /\ Seen(n, b) /\ decoding_scheme = "IRQ_BOTH"
    BY <1>10, <1>11 DEF Between
  <2>3. previous_timing' = h /\ Seen(n, b)'
    <3>1. CASE previous_timing = "none"
      <4>1. previous_timing' = h /\ UNCHANGED parse /\ NoPacket
        BY <2>2, <3>1 DEF polarity_changed
      <4>. QED BY <1>3, <2>2, <4>1, SeenKept DEF NoPacket
    <3>2. CASE b = 0 /\ clean = 1 /\ previous_timing # "one" /\ previous_timing # "none"
      <4>1. h = "one"
        <5>1. b + 1 \in 1..n
          BY <1>3, <3>2
        <5>. QED BY ONLY <1>3, <2>1, <5>1, KindsAre
      <4>2. previous_timing' = h /\ InvalidBit
        BY <2>2, <3>2, <4>1 DEF polarity_changed
      <4>3. b <= n
        BY <1>3, <3>2
      <4>. QED BY ONLY <1>3, <1>4, <2>2, <3>2, <4>2, <4>3, InvalidSeen
    <3>. QED BY <1>11, <3>1, <3>2 DEF Between
  <2>4. Within(n, b)'
    BY ONLY <1>3, <1>4, <1>6, <2>1, <2>2, <2>3 DEF Within
  <2>. QED BY ONLY <1>4, <1>8, <2>1, <2>4 DEF Placed
<1>12. CASE Within(n, b)
  <2>1. b < Total(n) /\ h = KindOf(n, b + 1) /\ HalvesLeft(n, b + 1)'
    BY ONLY <1>3, <1>4, <1>12, SecondHalfTaken DEF Within, h
  <2>2. h \in {"one", "zero"}
    BY ONLY <2>1, KindIs
  <2>3. previous_timing' = "none" /\ WholeBit(h = "one") /\ Seen(n, b) /\ decoding_scheme = "IRQ_BOTH"
    BY <1>10, <1>12, <2>1, <2>2 DEF Within, polarity_changed
  <2>4. Seen(n, b + 1)'
    BY ONLY <1>7, <2>1, <2>3
  <2>5. Placed(n, b + 1)'
    BY ONLY <1>3, <2>1, <2>3, <2>4 DEF Placed, Between
  <2>6. b + 1 \in Nat /\ b + 1 <= Total(n)
    BY <1>4, <2>1
  <2>. QED BY ONLY <1>8, <2>5, <2>6
<1>13. CASE OffBetween(n, b)
  <2>1. b < Total(n) /\ h = KindOf(n, b + 1) /\ SecondHalfLeft(n, b)'
    BY ONLY <1>3, <1>4, <1>13, HalfTaken DEF OffBetween, h
  <2>2. /\ polarity_changed(h) /\ Seen(n, b) /\ decoding_scheme = "IRQ_BOTH"
        /\ previous_timing = "one" /\ clean = 1 /\ b <= n
    BY <1>10, <1>13 DEF OffBetween
  <2>3. CASE b < n
    <3>1. h = "one"
      <4>1. b + 1 \in 1..n
        BY <1>3, <1>4, <2>3
      <4>. QED BY ONLY <1>3, <2>1, <4>1, KindsAre
    <3>2. previous_timing' = "none" /\ WholeBit(h = "one")
      BY <2>2, <3>1 DEF polarity_changed
    <3>3. Seen(n, b + 1)'
      BY ONLY <1>7, <2>1, <2>2, <3>2
    <3>4. OffWithin(n, b)'
      BY ONLY <1>3, <2>1, <2>2, <2>3, <3>2, <3>3 DEF OffWithin
    <3>. QED BY ONLY <1>4, <1>8, <2>1, <3>4 DEF Placed
  <2>4. CASE b = n
    <3>1. h = "zero"
      <4>1. b + 1 = n + 1 + Width * 0 + 0 /\ 0 \in 0..(Len(packet) - 1) /\ 0 \in 0..BYTE_BITS
        BY <1>3, <2>4, WidthFacts, Numbers
      <4>2. KindOf(n, n + 1 + Width * 0 + 0) = "zero"
        BY ONLY <1>3, <4>1, KindsAre
      <4>. QED BY ONLY <2>1, <4>1, <4>2
    <3>2. previous_timing' = h /\ InvalidBit
      BY <2>2, <3>1 DEF polarity_changed
    <3>3. Seen(n, b)'
      BY ONLY <1>3, <1>4, <2>2, <3>2, InvalidSeen
    <3>4. Within(n, b)'
      BY ONLY <1>3, <1>4, <1>6, <2>1, <2>2, <3>2, <3>3 DEF Within
    <3>. QED BY ONLY <1>4, <1>8, <2>1, <3>4 DEF Placed
  <2>. QED BY <1>3, <1>4, <2>2, <2>3, <2>4
<1>14. CASE OffWithin(n, b)
  <2>1. b < Total(n) /\ b < n /\ clean = 1 /\ previous_timing = "none" /\ Seen(n, b + 1)
    BY <1>3, <1>4, <1>14 DEF OffWithin
  <2>2. h = KindOf(n, b + 1) /\ HalvesLeft(n, b + 1)'
    BY ONLY <1>3, <1>4, <1>14, <2>1, SecondHalfTaken DEF OffWithin, h
  <2>3. b + 1 \in 1..n /\ b + 1 \in Nat /\ b + 1 <= n /\ b + 1 <= Total(n)
    BY <1>3, <1>4, <2>1
  <2>4. h = "one"
    BY ONLY <1>3, <2>2, <2>3, KindsAre
  <2>5. previous_timing' = "one" /\ UNCHANGED parse /\ NoPacket /\ decoding_scheme = "IRQ_BOTH"
    BY <1>10, <1>14, <2>1, <2>4 DEF OffWithin, polarity_changed
  <2>6. Seen(n, b + 1)'
    <3>. DEFINE c == b + 1
    <3>. HIDE DEF c
    <3>1. Seen(n, c)'
      BY ONLY <1>3, <2>1, <2>5, SeenKept DEF NoPacket, c
    <3>. QED BY <3>1 DEF c
  <2>7. OffBetween(n, b + 1)'
    BY ONLY <1>3, <2>1, <2>2, <2>3, <2>5, <2>6 DEF OffBetween
  <2>. QED BY ONLY <1>8, <2>3, <2>7 DEF Placed
<1>. QED BY ONLY <1>2, <1>9, <1>11, <1>12, <1>13, <1>14 DEF Placed

LEMMA StartPlaced ==
    ASSUME FoundIInv, StartPacket
    PROVE  OnTrack'
<1>0. PICK k \in DataBytes, n \in Preambles : \E data \in [1..k -> Data] :
         /\ packet' = data \o <<XorOf(data)>>
         /\ rest' = EdgesOf(BitsOfPacket(packet', n))
  BY DEF StartPacket
<1>1. PICK data \in [1..k -> Data] :
         /\ packet' = data \o <<XorOf(data)>>
         /\ rest' = EdgesOf(BitsOfPacket(packet', n))
  BY <1>0
<1>2. n \in Nat /\ n >= 1 /\ Len(packet') \in 1..PACKET_BYTES /\ Len(packet') \in Nat
  <2>1. k \in Nat /\ k + 1 <= PACKET_BYTES /\ n \in Nat /\ n >= 1
    BY TrackAssumption, PreambleNumbers, Numbers
  <2>. DEFINE end == XorOf(data)
  <2>. HIDE DEF end
  <2>2. data \in Seq(Data) /\ Len(data) = k
    BY <2>1
  <2>3. Len(data \o <<end>>) = k + 1
    BY ONLY <2>1, <2>2
  <2>. QED BY <1>1, <2>1, <2>3 DEF end
<1>. DEFINE bits == BitsOfPacket(packet', n)
            t == n + Width * Len(packet') + 1
<1>3. t \in Nat /\ Len(bits) = t
  <2>1. Width = BYTE_BITS + 1
    BY DEF Width
  <2>2. Len(bits) \in Nat /\ Len(bits) = n + (BYTE_BITS + 1) * Len(packet') + 1
    BY ONLY <1>2, BitsLength
  <2>. QED BY ONLY <2>1, <2>2
<1>4. /\ Total(n)' = t
      /\ \A i : KindOf(n, i)' = IF bits[i] THEN "one" ELSE "zero"
  BY DEF Total, KindOf, Width, BitsOfPacket
<1>5. /\ rest' = EdgesOf(bits) /\ decoding_scheme' = decoding_scheme
      /\ UNCHANGED <<previous_timing, parse>>
      /\ clean' = IF clean < 2 THEN clean + 1 ELSE clean
  BY <1>1 DEF StartPacket, edges
<1>. HIDE DEF bits, t
<1>6. decoding_scheme = "IRQ_BOTH" => HalvesLeft(n, 0)'
  <2>. SUFFICES ASSUME decoding_scheme = "IRQ_BOTH" PROVE HalvesLeft(n, 0)'
    OBVIOUS
  <2>1. /\ Len(rest') = 2 * t
        /\ \A i \in 1..t : /\ rest'[2 * i - 1] = IF bits[i] THEN "one" ELSE "zero"
                           /\ rest'[2 * i] = IF bits[i] THEN "one" ELSE "zero"
    BY ONLY <1>3, <1>5, EdgesAre, decoding_scheme = "IRQ_BOTH"
  <2>2. t - 0 = t /\ \A i \in 1..t : 0 + i = i
    BY ONLY <1>3
  <2>3. /\ Len(rest') = 2 * (Total(n)' - 0)
        /\ \A i \in 1..(Total(n)' - 0) :
              rest'[2 * i - 1] = KindOf(n, 0 + i)' /\ rest'[2 * i] = KindOf(n, 0 + i)'
    BY ONLY <1>4, <2>1, <2>2
  <2>. QED BY ONLY <2>3 DEF HalvesLeft
<1>7. decoding_scheme = "IRQ_RISING_OR_FALLING" => BitsLeft(n, 0)'
  <2>. SUFFICES ASSUME decoding_scheme = "IRQ_RISING_OR_FALLING" PROVE BitsLeft(n, 0)'
    OBVIOUS
  <2>1. /\ Len(rest') = t
        /\ \A i \in 1..t : rest'[i] = IF bits[i] THEN "one" ELSE "zero"
    BY ONLY <1>3, <1>5, EdgesAre, decoding_scheme = "IRQ_RISING_OR_FALLING"
  <2>2. t - 0 = t /\ \A i \in 1..t : 0 + i = i
    BY ONLY <1>3
  <2>3. /\ Len(rest') = Total(n)' - 0
        /\ \A i \in 1..(Total(n)' - 0) : rest'[i] = KindOf(n, 0 + i)'
    BY ONLY <1>4, <2>1, <2>2
  <2>. QED BY ONLY <2>3 DEF BitsLeft
<1>8. /\ clean \in 0..2 /\ previous_timing \in Halves \cup {"none"}
      /\ decoding_scheme \in {"IRQ_BOTH", "IRQ_RISING_OR_FALLING"}
      /\ working_byte_bit \in Nat /\ working_byte_bit <= BYTE_BITS - 1 /\ BYTE_BITS \in Nat
      /\ num_1_bits \in Nat /\ rest = <<>>
  BY Numbers DEF FoundIInv, DecoderIInv, DecoderTypeOK, StartPacket
<1>9. Seen(n, 0)' /\ (clean' = 2 => (decoding_scheme = "IRQ_BOTH" => previous_timing = "none"))
  <2>1. CASE clean = 0
    <3>1. clean' = 1
      BY <1>5, <2>1
    <3>2. Falling(0)'
      BY <1>5, <1>8 DEF Falling, parse
    <3>. QED BY <1>2, <3>1, <3>2 DEF Seen
  <2>2. CASE clean \in {1, 2}
    <3>1. clean' = 2
      BY <1>5, <2>2
    <3>2. Ended /\ (decoding_scheme = "IRQ_BOTH" => previous_timing = "none")
      BY ONLY <1>8, <2>2, FoundIInv, AtEnd
    <3>3. OnesCounted(0)'
      BY <1>5, <1>8, <3>2 DEF Ended, OnesCounted, parse
    <3>. QED BY <1>2, <3>1, <3>2, <3>3 DEF Seen
  <2>. QED BY <1>8, <2>1, <2>2
<1>10. clean' \in {1, 2}
  BY <1>5, <1>8
<1>11. ASSUME decoding_scheme = "IRQ_RISING_OR_FALLING" PROVE Placed(n, 0)'
  BY <1>5, <1>7, <1>9, <1>11 DEF Placed, Rising
<1>12. ASSUME decoding_scheme = "IRQ_BOTH", previous_timing # "one" PROVE Placed(n, 0)'
  <2>1. previous_timing # "none" => clean' = 1
    BY <1>9, <1>10, <1>12
  <2>2. Between(n, 0)'
    BY ONLY <1>5, <1>6, <1>9, <1>12, <2>1 DEF Between
  <2>. QED BY <2>2 DEF Placed
<1>13. ASSUME decoding_scheme = "IRQ_BOTH", previous_timing = "one" PROVE Placed(n, 0)'
  <2>1. clean' = 1
    BY <1>9, <1>10, <1>13
  <2>2. OffBetween(n, 0)'
    BY ONLY <1>2, <1>5, <1>6, <1>9, <1>13, <2>1 DEF OffBetween
  <2>. QED BY <2>2 DEF Placed
<1>14. 0 \in 0..Total(n)'
  BY <1>3, <1>4
<1>15. Placed(n, 0)'
  BY <1>8, <1>11, <1>12, <1>13
<1>. QED BY ONLY <1>2, <1>14, <1>15, n \in Preambles DEF OnTrack

LEMMA PlacedKept ==
    ASSUME OnTrack, UNCHANGED <<edges, parse, track, found>>
    PROVE  OnTrack'
<1>1. UNCHANGED <<decoding_scheme, previous_timing, parse, packet, clean, rest, found>>
  BY DEF edges, track
<1>2. ASSUME NEW n, NEW b, Placed(n, b) PROVE Placed(n, b)'
  <2>1. \A c : Seen(n, c) => Seen(n, c)'
    BY ONLY <1>1, SeenKept
  <2>2. \A c : KindOf(n, c)' = KindOf(n, c)
    BY <1>1 DEF KindOf, BitsOfPacket
  <2>3. /\ Total(n)' = Total(n)
        /\ (BitsLeft(n, b)' <=> BitsLeft(n, b))
        /\ (HalvesLeft(n, b)' <=> HalvesLeft(n, b))
        /\ (SecondHalfLeft(n, b)' <=> SecondHalfLeft(n, b))
    BY ONLY <1>1, LeftKept
  <2>. QED BY ONLY <1>1, <1>2, <2>1, <2>2, <2>3
           DEF Placed, Rising, Between, Within, OffBetween, OffWithin
<1>3. \A n : Total(n)' = Total(n)
  BY <1>1 DEF Total
<1>. QED BY <1>1, <1>2, <1>3 DEF OnTrack

LEMMA FoundNext ==
    ASSUME FoundIInv, [DecoderNext]_decoderVars
    PROVE  FoundIInv'
<1>1. DecoderIInv'
  BY NextInd DEF FoundIInv
<1>2. ASSUME StartPacket PROVE OnTrack'
  BY <1>2, StartPlaced
<1>3. ASSUME Edge PROVE OnTrack'
  <2>1. clean' = clean
    BY <1>3 DEF Edge
  <2>2. clean \in {1, 2} => OnTrack'
    BY ONLY <1>3, FoundIInv, EdgePlaced
  <2>. QED BY <2>1, <2>2 DEF OnTrack
<1>4. ASSUME Noise PROVE OnTrack'
  BY <1>4 DEF Noise, OnTrack
<1>5. ASSUME pump_packet \/ ReadByte \/ ReadLastByte \/ HandOn \/ UNCHANGED decoderVars
      PROVE  OnTrack'
  <2>1. UNCHANGED <<edges, parse, track, found>>
    BY <1>5 DEF pump_packet, ReadByte, ReadLastByte, HandOn, decoderVars
  <2>. QED BY ONLY <2>1, FoundIInv, PlacedKept DEF FoundIInv
<1>6. OnTrack'
  BY ONLY <1>2, <1>3, <1>4, <1>5, [DecoderNext]_decoderVars DEF DecoderNext
<1>. QED BY <1>1, <1>6 DEF FoundIInv

LEMMA FoundInit == DecoderInit => FoundIInv
BY InitInd DEF DecoderInit, FoundIInv, OnTrack

(* However the decoder was put out of step, whether its edges tell halves or whole *)
(* bits, it finds the second packet without noise as it was sent                   *)
(* (dcc_decoder_polarity_changed, dcc_decoder_process_whole_bit).                  *)
THEOREM SecondFound == DecoderSpec => []SecondIsFound
<1>1. FoundIInv => SecondIsFound
  BY AtEnd DEF SecondIsFound, Ended
<1>2. DecoderSpec => []FoundIInv
  BY FoundInit, FoundNext, PTL DEF DecoderSpec
<1>. QED BY <1>1, <1>2, PTL
===============================================================================
