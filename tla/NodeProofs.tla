----------------------------- MODULE NodeProofs -----------------------------
(***************************************************************************)
(* Theorems about the programs on a node, for every ladder of clock steps, *)
(* every recovery time, every set of readings and of models.               *)
(***************************************************************************)
EXTENDS MCNode, TLAPS

-----------------------------------------------------------------------------
(* The governor.  Where caps are set and temperatures are told, the step of *)
(* the GPU is the governor's, the hot polls have been answered, and the     *)
(* cool spell the governor measures is one the GPU had.                     *)

Governed ==
    /\ TypeOK
    /\ cap = idx
    /\ heat <= idx
    /\ coolFor # None => coolFor < chill

\* The governor starts in that state.
LEMMA GovernorInit == Init => Governed
<1> SUFFICES ASSUME Init PROVE Governed
  OBVIOUS
<1>1. running \in BOOLEAN
  BY DEF Init
<1>2. coolFor = -1 /\ coolFor \in None..Recover
  BY ThermalAssumption DEF Init, None
<1>3. /\ idx \in 0..LastStep /\ cap \in 0..LastStep
      /\ failures \in 0..MaxFailures
      /\ heat \in 0..LastStep /\ chill \in 0..(Recover + 1) /\ rest \in 0..Recover
      /\ cap = idx /\ heat <= idx
  BY ThermalAssumption DEF Init
<1> QED BY <1>1, <1>2, <1>3 DEF Init, Governed, TypeOK, None

\* One poll: a hot one lowers by what it calls for, or there is nothing left.
LEMMA GovernorPoll ==
    ASSUME Governed, "apply" \notin Faults, "blind" \notin Faults,
           NEW t \in Bands, Poll(t)
    PROVE  Governed' /\ RaiseStep
<1> USE ThermalAssumption
<1> USE DEF Governed, TypeOK, Poll, Bands, Hot, None, MinOf, Called, RaiseStep
<1>1. CASE Lower(t)
  BY <1>1 DEF Lower, ApplyCap, Down, Blind
<1>2. CASE Cool(t)
  BY <1>2 DEF Cool, ApplyCap, Recovered, Blind
<1>3. CASE Stay(t)
  BY <1>3 DEF Stay, Blind
<1> QED BY <1>1, <1>2, <1>3 DEF Blind

\* A step of the governor keeps the invariant and raises the clock with care.
LEMMA GovernorNext ==
    ASSUME Governed, "apply" \notin Faults, "blind" \notin Faults, [Next]_vars
    PROVE  Governed' /\ RaiseStep
<1> USE ThermalAssumption
<1>1. CASE Start
  BY <1>1 DEF Start, ApplyCap, Governed, TypeOK, None, RaiseStep
<1>2. CASE Stop
  BY <1>2 DEF Stop, Governed, TypeOK, None, RaiseStep
<1>3. CASE \E t \in Bands : Poll(t)
  BY <1>3, GovernorPoll
<1>4. CASE UNCHANGED vars
  BY <1>4 DEF vars, Governed, TypeOK, None, RaiseStep
<1> QED BY <1>1, <1>2, <1>3, <1>4 DEF Next

\* Where readings and caps fail, the governor still counts its own rest.
Rested ==
    /\ Blindly!TypeOK
    /\ coolFor <= rest

\* A governor that sees and sets nothing for a while does not move too soon.
LEMMA BlindNext ==
    ASSUME Rested, [Blindly!Next]_vars
    PROVE  Rested' /\ RestStep
<1> USE ThermalAssumption
<1> USE DEF Rested, Blindly!TypeOK, Blindly!None, Blindly!Bands, Blindly!MinOf, RestStep
<1>1. CASE Blindly!Start
  BY <1>1 DEF Blindly!Start, Blindly!ApplyCap
<1>2. CASE Blindly!Stop
  BY <1>2 DEF Blindly!Stop
<1>3. ASSUME NEW t \in Blindly!Bands, Blindly!Poll(t)
      PROVE  Rested' /\ RestStep
  <2> USE <1>3 DEF Blindly!Poll, Blindly!Hot, Blindly!Called
  <2>1. CASE Blindly!Lower(t)
    BY <2>1 DEF Blindly!Lower, Blindly!ApplyCap, Blindly!Down
  <2>2. CASE Blindly!Cool(t)
    BY <2>2 DEF Blindly!Cool, Blindly!ApplyCap, Blindly!Recovered
  <2>3. CASE Blindly!Stay(t)
    BY <2>3 DEF Blindly!Stay
  <2>4. CASE Blindly!Blind /\ heat' = 0
    BY <2>4 DEF Blindly!Blind
  <2> QED BY <2>1, <2>2, <2>3, <2>4
<1>4. CASE UNCHANGED vars
  BY <1>4 DEF vars
<1> QED BY <1>1, <1>2, <1>3, <1>4 DEF Blindly!Next

\* Whichever program runs, the state of the governor is one of these.
GovernorInv == IF part = "blindly" THEN Rested ELSE Governed

LEMMA GovernorInvInit == MCInit => GovernorInv
<1> SUFFICES ASSUME MCInit PROVE GovernorInv
  OBVIOUS
<1>1. Governed
  BY GovernorInit DEF MCInit
<1>2. Init
  BY DEF MCInit
<1>3. Rested
  BY <1>1, <1>2, ThermalAssumption
     DEF Governed, TypeOK, Init, Rested, None, Bands,
         Blindly!TypeOK, Blindly!None, Blindly!Bands
<1> QED BY <1>1, <1>3 DEF GovernorInv

\* The programs share no state: what is not the governor leaves it alone.
LEMMA GovernorInvNext ==
    ASSUME GovernorInv, "apply" \notin Faults, "blind" \notin Faults, [MCNext]_MCvars
    PROVE  GovernorInv' /\ (IF part = "blindly" THEN RestStep ELSE RaiseStep)
<1>1. part' = part
  BY DEF MCNext, MCvars, GovernorStep, KeepStep, RecorderStep
<1>2. CASE part = "blindly"
  <2>1. [Blindly!Next]_vars
    BY <1>2 DEF MCNext, MCvars, GovernorStep
  <2>2. Rested' /\ RestStep
    BY <1>2, <2>1, BlindNext DEF GovernorInv
  <2> QED BY <1>1, <1>2, <2>2 DEF GovernorInv
<1>3. CASE part # "blindly"
  <2>1. [Next]_vars
    BY <1>3 DEF MCNext, MCvars, GovernorStep, KeepStep, RecorderStep
  <2>2. Governed' /\ RaiseStep
    BY <1>3, <2>1, GovernorNext DEF GovernorInv
  <2> QED BY <1>1, <1>3, <2>2 DEF GovernorInv
<1> QED BY <1>2, <1>3

\* For every ladder and every recovery time: as long as caps are set and
\* temperatures told, the clock is as low as the hot polls in a row call for
\* (main of thermal_guard.py, through any number of restarts).
THEOREM HeatIsAlwaysAnswered ==
    ASSUME "apply" \notin Faults, "blind" \notin Faults
    PROVE  MCFairSpec => []HeatAnswered
<1>1. MCInit => GovernorInv
  BY GovernorInvInit
<1>2. GovernorInv /\ [MCNext]_MCvars => GovernorInv'
  BY GovernorInvNext
<1>3. GovernorInv => HeatAnswered
  BY ThermalAssumption DEF GovernorInv, Governed, TypeOK, HeatAnswered, HeatIsAnswered
<1> QED BY <1>1, <1>2, <1>3, PTL DEF MCFairSpec

\* For every ladder and every recovery time: the clock is raised only after a
\* cool spell of that time, and where readings and caps fail never within that
\* time of the last move (the hysteresis of main in thermal_guard.py).
THEOREM ClockIsRaisedWithCare ==
    ASSUME "apply" \notin Faults, "blind" \notin Faults
    PROVE  MCFairSpec => RaisesWithCare
<1>1. MCInit => GovernorInv
  BY GovernorInvInit
<1>2. GovernorInv /\ [MCNext]_MCvars =>
          GovernorInv' /\ [IF part = "blindly" THEN RestStep ELSE RaiseStep]_MCvars
  BY GovernorInvNext
<1> QED BY <1>1, <1>2, PTL DEF MCFairSpec, RaisesWithCare

-----------------------------------------------------------------------------
(* The sampler of the power.  x is the least (the greatest) reading of S, or *)
(* None where S has none.                                                   *)

Least(x, S) == IF S = {} THEN x = -1 ELSE x \in S /\ \A y \in S : x <= y
Greatest(x, S) == IF S = {} THEN x = -1 ELSE x \in S /\ \A y \in S : x >= y

LEMMA ExtremesAreThose ==
    ASSUME NEW S \in SUBSET Nat, NEW x, NEW y, Least(x, S), Greatest(y, S)
    PROVE  <<x, y>> = Power!Extremes(S)
<1>1. CASE S = {}
  BY <1>1 DEF Least, Greatest, Power!Extremes, Power!None
<1>2. CASE S # {}
  <2>1. Power!Min(S) = x
    <3>1. x \in S /\ \A z \in S : x <= z
      BY <1>2 DEF Least
    <3>2. \A z \in S : (\A w \in S : z <= w) => z = x
      BY <3>1
    <3> QED BY <3>1, <3>2 DEF Power!Min
  <2>2. Power!Max(S) = y
    <3>1. y \in S /\ \A z \in S : y >= z
      BY <1>2 DEF Greatest
    <3>2. \A z \in S : (\A w \in S : z >= w) => z = y
      BY <3>1
    <3> QED BY <3>1, <3>2 DEF Power!Max
  <2> QED BY <1>2, <2>1, <2>2 DEF Power!Extremes
<1> QED BY <1>1, <1>2

\* The holder of the lock is the one who is at lo and hi; between the two
\* assignments of the thread only hi lacks the reading in its hand, and what
\* take() has read is still there when it resets.
PowerInv ==
    /\ window \subseteq Readings /\ taken \subseteq Readings
    /\ thread \in {"acquire", "lo", "hi"} => v \in Readings
    /\ (lock = "thread") <=> (thread \in {"lo", "hi"})
    /\ (lock = "taker") <=> (taker \in {"read", "reset"})
    /\ taker \in {"idle", "read", "reset"}
    /\ Least(lo, IF thread = "hi" THEN window \cup {v} ELSE window)
    /\ Greatest(hi, window)
    /\ pair = <<pair[1], pair[2]>>
    /\ IF taker = "reset" THEN pair = <<lo, hi>>
       ELSE Least(pair[1], taken) /\ Greatest(pair[2], taken)

LEMMA PowerInvInit == Power!Init => PowerInv
  BY DEF Power!Init, Power!None, PowerInv, Least, Greatest

LEMMA PowerInvNext == PowerInv /\ [Power!Next]_powerVars => PowerInv'
<1> SUFFICES ASSUME PowerInv, [Power!Next]_powerVars PROVE PowerInv'
  OBVIOUS
<1>0. Readings \subseteq Nat
  BY PowerAssumption DEF Power!PowerSamplerAssumption
<1> USE DEF PowerInv
<1>1. CASE Power!Popen \/ Power!SmiEnds
  BY <1>1 DEF Power!Popen, Power!SmiEnds
<1>2. CASE \E x \in Readings : Power!Reading(x)
  BY <1>2 DEF Power!Reading
<1>3. CASE Power!Acquire /\ UNCHANGED <<lo, hi, v, taker, pair, window, taken>>
  BY <1>3 DEF Power!Acquire
<1>4. CASE Power!SetLo
  <2>1. Least(lo', window \cup {v})
    BY <1>0, <1>4 DEF Power!SetLo, Power!None, Least
  <2> QED BY <1>4, <2>1 DEF Power!SetLo
<1>5. CASE Power!SetHi
  <2>1. Greatest(hi', window \cup {v})
    BY <1>0, <1>5 DEF Power!SetHi, Power!None, Greatest
  <2> QED BY <1>5, <2>1 DEF Power!SetHi
<1>6. CASE Power!TakeLock
  BY <1>6 DEF Power!TakeLock
<1>7. CASE Power!TakeRead
  BY <1>7 DEF Power!TakeRead
<1>8. CASE Power!TakeReset
  <2>1. Least(lo, window) /\ Greatest(hi, window)
    BY <1>8 DEF Power!TakeReset
  <2>2. Least(-1, {}) /\ Greatest(-1, {})
    BY DEF Least, Greatest
  <2> QED BY <1>8, <2>1, <2>2 DEF Power!TakeReset, Power!Reset, Power!None
<1>9. CASE UNCHANGED powerVars
  BY <1>9 DEF powerVars
<1> QED BY <1>1, <1>2, <1>3, <1>4, <1>5, <1>6, <1>7, <1>8, <1>9 DEF Power!Next

\* For every set of readings: a sample holds the exact extremes of the readings
\* counted since the one before, however the thread and take() of PowerSampler
\* interleave.
THEOREM WindowIsExact == MCFairSpec => []WindowExact
<1>1. MCInit => PowerInv
  BY PowerInvInit DEF MCInit
<1>2. PowerInv /\ [MCNext]_MCvars => PowerInv'
  <2>1. [MCNext]_MCvars => [Power!Next]_powerVars
    BY DEF MCNext, MCvars, GovernorStep, KeepStep, RecorderStep
  <2> QED BY <2>1, PowerInvNext
<1>3. PowerInv => WindowExact
  <2> SUFFICES ASSUME PowerInv PROVE WindowExact
    OBVIOUS
  <2>1. window \in SUBSET Nat /\ taken \in SUBSET Nat
    BY PowerAssumption DEF PowerInv, Power!PowerSamplerAssumption
  <2>2. taker = "idle" => pair = Power!Extremes(taken)
    BY <2>1, ExtremesAreThose DEF PowerInv
  <2>3. lock = "free" => <<lo, hi>> = Power!Extremes(window)
    BY <2>1, ExtremesAreThose DEF PowerInv
  <2> QED BY <2>2, <2>3 DEF WindowExact, Power!WindowExact
<1> QED BY <1>1, <1>2, <1>3, PTL DEF MCFairSpec

-----------------------------------------------------------------------------
(* The flight recorder.  ForensicsProofs is about the recorder as it stands; *)
(* here it is the recorder without faults, and the one with torn lines.      *)

Sound == INSTANCE ForensicsProofs WITH running <- recording, Faults <- {}
Faulty == INSTANCE ForensicsProofs
              WITH running <- recording, Columns <- {SomeColumns}, Faults <- {"torn", "pid"}

\* They are the recorders that run.
LEMMA SoundIsRecorder ==
    /\ Sound!Init <=> Recorder!Init
    /\ [Sound!Next]_Sound!vars <=> [Recorder!Next]_Recorder!vars
    /\ Sound!ForensicsAssumption <=> Recorder!ForensicsAssumption
<1>1. Sound!Init <=> Recorder!Init
  BY DEF Sound!Init, Recorder!Init, Sound!Days, Recorder!Days, Sound!Sessions,
         Recorder!Sessions, Sound!NoDay, Recorder!NoDay
<1>2. [Sound!Next]_Sound!vars <=> [Recorder!Next]_Recorder!vars
  BY DEF Sound!Days, Recorder!Days, Sound!Sessions, Recorder!Sessions, Sound!NoDay,
         Recorder!NoDay, Sound!Line, Recorder!Line, Sound!NeedHeader,
         Recorder!NeedHeader, Sound!Max, Recorder!Max, Sound!Roll, Recorder!Roll,
         Sound!Write, Recorder!Write, Sound!Appended, Recorder!Appended, Sound!Last,
         Recorder!Last, Sound!Front, Recorder!Front, Sound!IsStart, Recorder!IsStart,
         Sound!Prune, Recorder!Prune, Sound!Raw, Recorder!Raw, Sound!Closed,
         Recorder!Closed, Sound!PreviousSessionDied, Recorder!PreviousSessionDied,
         Sound!Recorded, Recorder!Recorded, Sound!ClosedSessions,
         Recorder!ClosedSessions, Sound!Start, Recorder!Start, Sound!Sample,
         Recorder!Sample, Sound!Stop, Recorder!Stop, Sound!Die, Recorder!Die,
         Sound!NextDay, Recorder!NextDay, Sound!ReusePid, Recorder!ReusePid,
         Sound!Next, Recorder!Next, Sound!vars, Recorder!vars
<1> QED BY <1>1, <1>2 DEF Sound!ForensicsAssumption, Recorder!ForensicsAssumption

LEMMA SoundTellsTheSame ==
    /\ Sound!DeathsReported <=> Recorder!DeathsReported
    /\ Sound!VerdictRight <=> Recorder!VerdictRight
    /\ Sound!HeadersMatch <=> Recorder!HeadersMatch
  BY DEF Sound!Session, Recorder!Session, Sound!LoadLine, Recorder!LoadLine,
         Sound!Load, Recorder!Load, Sound!LoadSessions, Recorder!LoadSessions,
         Sound!Join, Recorder!Join, Sound!JoinEach, Recorder!JoinEach, Sound!JoinAll,
         Recorder!JoinAll, Sound!Collect, Recorder!Collect, Sound!AllSessions,
         Recorder!AllSessions, Sound!SessionIsLive, Recorder!SessionIsLive,
         Sound!Dirty, Recorder!Dirty, Sound!DeathsReported, Recorder!DeathsReported,
         Sound!VerdictRight, Recorder!VerdictRight, Sound!HeadersMatch,
         Recorder!HeadersMatch, Sound!Days, Recorder!Days, Sound!Sessions,
         Recorder!Sessions, Sound!Max, Recorder!Max, Sound!IsStart, Recorder!IsStart,
         Sound!Recorded, Recorder!Recorded, Sound!ClosedSessions,
         Recorder!ClosedSessions

LEMMA FaultyIsTorn ==
    /\ [Faulty!Next]_Faulty!vars <=> [Torn!Next]_Torn!vars
    /\ Faulty!ClosedIsNoDeath <=> Torn!ClosedIsNoDeath
<1>1. [Faulty!Next]_Faulty!vars <=> [Torn!Next]_Torn!vars
  BY DEF Faulty!Days, Torn!Days, Faulty!Sessions, Torn!Sessions, Faulty!NoDay,
         Torn!NoDay, Faulty!Line, Torn!Line, Faulty!NeedHeader, Torn!NeedHeader,
         Faulty!Max, Torn!Max, Faulty!Roll, Torn!Roll, Faulty!Write, Torn!Write,
         Faulty!Appended, Torn!Appended, Faulty!Last, Torn!Last, Faulty!Front,
         Torn!Front, Faulty!IsStart, Torn!IsStart, Faulty!Prune, Torn!Prune,
         Faulty!Raw, Torn!Raw, Faulty!Closed, Torn!Closed, Faulty!PreviousSessionDied,
         Torn!PreviousSessionDied, Faulty!Recorded, Torn!Recorded,
         Faulty!ClosedSessions, Torn!ClosedSessions, Faulty!Start, Torn!Start,
         Faulty!Sample, Torn!Sample, Faulty!Stop, Torn!Stop, Faulty!Die, Torn!Die,
         Faulty!NextDay, Torn!NextDay, Faulty!ReusePid, Torn!ReusePid, Faulty!Next,
         Torn!Next, Faulty!vars, Torn!vars
<1>2. Faulty!ClosedIsNoDeath <=> Torn!ClosedIsNoDeath
  BY DEF Faulty!Session, Torn!Session, Faulty!LoadLine, Torn!LoadLine, Faulty!Load,
         Torn!Load, Faulty!LoadSessions, Torn!LoadSessions, Faulty!Join, Torn!Join,
         Faulty!JoinEach, Torn!JoinEach, Faulty!JoinAll, Torn!JoinAll, Faulty!Collect,
         Torn!Collect, Faulty!AllSessions, Torn!AllSessions, Faulty!SessionIsLive,
         Torn!SessionIsLive, Faulty!Dirty, Torn!Dirty, Faulty!ClosedIsNoDeath,
         Torn!ClosedIsNoDeath, Faulty!Days, Torn!Days, Faulty!Sessions, Torn!Sessions,
         Faulty!Max, Torn!Max, Faulty!IsStart, Torn!IsStart, Faulty!Recorded,
         Torn!Recorded, Faulty!ClosedSessions, Torn!ClosedSessions
<1> QED BY <1>1, <1>2

\* With one set of columns a recorder starts like any other.
LEMMA FaultyInit ==
    Recorder!Init /\ cols = SomeColumns => Faulty!Init
  BY DEF Faulty!Init, Recorder!Init, Faulty!Days, Recorder!Days, Faulty!Sessions,
         Recorder!Sessions, Faulty!NoDay, Recorder!NoDay

\* Whichever program runs, the files of the recorder are in order.
FilesInv ==
    IF part = "torn" THEN Faulty!RecorderInv ELSE Sound!RecorderInv /\ Sound!StrictInv

LEMMA FilesAssumption == Sound!ForensicsAssumption /\ Faulty!ForensicsAssumption
  BY RecorderAssumption
     DEF Sound!ForensicsAssumption, Faulty!ForensicsAssumption, Recorder!ForensicsAssumption

LEMMA FilesInvInit == MCInit => FilesInv
<1> SUFFICES ASSUME MCInit PROVE FilesInv
  OBVIOUS
<1>1. Sound!Init
  BY SoundIsRecorder DEF MCInit
<1>2. part = "torn" => Faulty!Init
  BY FaultyInit DEF MCInit
<1>3. Sound!NoFaults
  BY DEF Sound!NoFaults
<1>4. Sound!RecorderInv /\ Sound!StrictInv
  BY <1>1, <1>3, FilesAssumption, Sound!RecorderInit
<1>5. part = "torn" => Faulty!RecorderInv
  BY <1>2, FilesAssumption, Faulty!RecorderInit
<1> QED BY <1>4, <1>5 DEF FilesInv

LEMMA FilesInvNext ==
    ASSUME FilesInv, [MCNext]_MCvars
    PROVE  FilesInv'
<1>1. part' = part
  BY DEF MCNext, MCvars, GovernorStep, KeepStep, RecorderStep
<1>2. CASE part = "torn"
  <2>1. Torn!Next \/ UNCHANGED recorderVars
    BY <1>2 DEF MCNext, MCvars, GovernorStep, KeepStep, RecorderStep
  <2>2. [Faulty!Next]_Faulty!vars
    BY <2>1, FaultyIsTorn DEF Torn!vars, recorderVars
  <2>3. ~Faulty!NoFaults
    BY DEF Faulty!NoFaults
  <2>4. Faulty!RecorderInv
    BY <1>2 DEF FilesInv
  <2>5. Faulty!RecorderInv'
    BY <2>2, <2>3, <2>4, FilesAssumption, Faulty!RecorderNext
  <2> QED BY <1>1, <1>2, <2>5 DEF FilesInv
<1>3. CASE part # "torn"
  <2>1. Recorder!Next \/ UNCHANGED recorderVars
    BY <1>3 DEF MCNext, MCvars, GovernorStep, KeepStep, RecorderStep
  <2>2. [Sound!Next]_Sound!vars
    BY <2>1, SoundIsRecorder DEF Recorder!vars, recorderVars
  <2>3. Sound!NoFaults
    BY DEF Sound!NoFaults
  <2>4. Sound!RecorderInv /\ Sound!StrictInv
    BY <1>3 DEF FilesInv
  <2>5. Sound!RecorderInv' /\ Sound!StrictInv'
    BY <2>2, <2>3, <2>4, FilesAssumption, Sound!RecorderNext
  <2> QED BY <1>1, <1>3, <2>5 DEF FilesInv
<1> QED BY <1>2, <1>3

\* For every number of days, sessions and samples, every retention of at least
\* a day and every set of columns: the post-mortem (load_sessions, all_sessions
\* and main of crash_report.py) reports the sessions that died and no other,
\* previous_session_verdict of node_forensics.py tells each sampler the truth,
\* and every sample stands under its header; torn lines and reused pids turn no
\* session that closed in order into a death.
THEOREM RecorderIsAlwaysRight == MCFairSpec => []RecorderIsRight
<1>1. MCInit => FilesInv
  BY FilesInvInit
<1>2. FilesInv /\ [MCNext]_MCvars => FilesInv'
  BY FilesInvNext
<1>3. FilesInv => RecorderIsRight
  <2> SUFFICES ASSUME FilesInv PROVE RecorderIsRight
    OBVIOUS
  <2>1. CASE part = "torn"
    <3>1. Faulty!ClosedIsNoDeath
      BY <2>1, FilesAssumption, Faulty!ClosedIsNoDeathHolds DEF FilesInv
    <3> QED BY <2>1, <3>1, FaultyIsTorn DEF RecorderIsRight
  <2>2. CASE part # "torn"
    <3>1. Sound!RecorderInv /\ Sound!StrictInv
      BY <2>2 DEF FilesInv
    <3>2. Sound!DeathsReported
      BY <3>1, FilesAssumption, Sound!DeathsAreReported
    <3>3. Sound!HeadersMatch
      BY <3>1, Sound!HeadersDoMatch
    <3>4. Sound!VerdictRight
      BY <3>1 DEF Sound!StrictInv
    <3> QED BY <2>2, <3>2, <3>3, <3>4, SoundTellsTheSame DEF RecorderIsRight
  <2> QED BY <2>1, <2>2
<1> QED BY <1>1, <1>2, <1>3, PTL DEF MCFairSpec
=============================================================================
