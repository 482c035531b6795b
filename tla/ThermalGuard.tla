---------------------------- MODULE ThermalGuard ---------------------------
(***************************************************************************)
(* The thermal governor (ops/thermal_guard.py): a ladder of clock caps,    *)
(* climbed down as soon as the GPU is warm and up after it was cool for a  *)
(* while.                                                                  *)
(*                                                                         *)
(* One poll is one unit of time.  A temperature is the band it lies in:    *)
(* "cool" up to COOL_C, "mild" below WARN_C, "warm" below DANGER_C, and    *)
(* "danger".  Step 0 is the fastest clock.  Faults says what may fail:     *)
(*   "blind"    nvidia-smi does not tell the temperature                   *)
(*   "apply"    nvidia-smi does not set the cap                            *)
(*   "restart"  the service ends and is started again                      *)
(***************************************************************************)
EXTENDS Integers

CONSTANTS
    LastStep,      \* len(STEPS) - 1
    Recover,       \* RECOVER_S / POLL_S
    MaxFailures,   \* caps that are not set
    Faults

ASSUME ThermalAssumption ==
    /\ LastStep \in Nat \ {0} /\ Recover \in Nat \ {0}
    /\ MaxFailures \in Nat

Bands == {"cool", "mild", "warm", "danger"}
Hot == {"warm", "danger"}
None == -1

VARIABLES
    running,
    idx,        \* the step the governor is on
    cap,        \* the step the GPU is on
    coolFor,    \* polls since cool_since, None if that is None
    temp,       \* the temperature at the last poll
    failures,
    heat,       \* steps the hot polls in a row called for
    chill,      \* cool polls in a row, up to Recover + 1
    rest        \* polls since the governor last moved, up to Recover

vars == <<running, idx, cap, coolFor, temp, failures, heat, chill, rest>>

MinOf(a, b) == IF a < b THEN a ELSE b

Init ==
    /\ running = FALSE
    /\ idx = 0 /\ cap = 0
    /\ coolFor = None
    /\ temp \in Bands
    /\ failures = 0
    /\ heat = 0 /\ chill = 0 /\ rest = 0

-----------------------------------------------------------------------------

\* apply_cap: the result is not looked at.
ApplyCap(i) ==
    \/ cap' = i /\ UNCHANGED failures
    \/ /\ "apply" \in Faults /\ failures < MaxFailures
       /\ failures' = failures + 1
       /\ UNCHANGED cap

Start ==
    /\ ~running
    /\ running' = TRUE
    /\ idx' = 0
    /\ ApplyCap(0)
    /\ coolFor' = None
    /\ heat' = 0 /\ chill' = 0 /\ rest' = 0
    /\ UNCHANGED temp

\* Deviation: one step, however hot.
DownOne(t) == IF t \in Hot THEN MinOf(idx + 1, LastStep) ELSE idx

\* Where a hot reading takes the governor.
Down(t) ==
    CASE t = "danger" -> MinOf(idx + 2, LastStep)
      [] t = "warm" -> MinOf(idx + 1, LastStep)
      [] OTHER -> idx

Recovered == coolFor + 1 >= Recover

\* A reading that lowers the clock.
Lower(t) ==
    /\ t \in Hot /\ idx < LastStep
    /\ idx' = Down(t)
    /\ ApplyCap(Down(t))
    /\ coolFor' = None
    /\ rest' = 0

\* A cool reading with the clock lowered starts the wait or ends it.
Cool(t) ==
    /\ t = "cool" /\ idx > 0
    /\ \/ /\ coolFor = None
          /\ coolFor' = 0
          /\ rest' = MinOf(rest + 1, Recover)
          /\ UNCHANGED <<idx, cap, failures>>
       \/ /\ coolFor # None /\ Recovered
          /\ idx' = idx - 1
          /\ ApplyCap(idx - 1)
          /\ coolFor' = None
          /\ rest' = 0
       \/ /\ coolFor # None /\ ~Recovered
          /\ coolFor' = coolFor + 1
          /\ rest' = MinOf(rest + 1, Recover)
          /\ UNCHANGED <<idx, cap, failures>>

\* Deviation: a mild reading does not end the wait.
StayWaiting(t) ==
    /\ ~(t \in Hot /\ idx < LastStep) /\ ~(t = "cool" /\ idx > 0)
    /\ rest' = MinOf(rest + 1, Recover)
    /\ UNCHANGED <<idx, cap, coolFor, failures>>

\* Any other reading.
Stay(t) ==
    /\ ~(t \in Hot /\ idx < LastStep) /\ ~(t = "cool" /\ idx > 0)
    /\ coolFor' = None
    /\ rest' = MinOf(rest + 1, Recover)
    /\ UNCHANGED <<idx, cap, failures>>

\* gpu_temp returned None: the loop goes on, and so does the clock.
Blind ==
    /\ "blind" \in Faults
    /\ coolFor' = IF coolFor = None THEN None ELSE MinOf(coolFor + 1, Recover)
    /\ rest' = MinOf(rest + 1, Recover)
    /\ UNCHANGED <<idx, cap, failures>>

\* What the polls so far call for.
Called(t) == CASE t = "danger" -> MinOf(heat + 2, LastStep)
               [] t = "warm" -> MinOf(heat + 1, LastStep)
               [] OTHER -> 0

\* One turn of the loop, at a temperature of t.
Poll(t) ==
    /\ running
    /\ temp' = t
    /\ chill' = IF t = "cool" THEN MinOf(chill + 1, Recover + 1) ELSE 0
    /\ \/ (Lower(t) \/ Cool(t) \/ Stay(t)) /\ heat' = Called(t)
       \/ Blind /\ heat' = 0
    /\ UNCHANGED running

\* The service ends; the cap is kept.
Stop ==
    /\ "restart" \in Faults
    /\ running
    /\ running' = FALSE
    /\ UNCHANGED <<idx, cap, coolFor, temp, failures, heat, chill, rest>>

Next == Start \/ Stop \/ \E t \in Bands : Poll(t)

Spec == Init /\ [][Next]_vars

\* systemd starts the service again, and the loop polls.
FairSpec == Spec /\ WF_vars(Start) /\ WF_vars(\E t \in Bands : Poll(t))

-----------------------------------------------------------------------------
(* Properties *)

TypeOK ==
    /\ running \in BOOLEAN
    /\ idx \in 0..LastStep /\ cap \in 0..LastStep
    /\ coolFor \in None..Recover
    /\ temp \in Bands
    /\ failures \in 0..MaxFailures
    /\ heat \in 0..LastStep /\ chill \in 0..(Recover + 1) /\ rest \in 0..Recover

\* Every hot poll in a row has lowered the clock of the GPU by its step, a
\* dangerous one by two, until there is none left to lower: nothing the governor
\* did while it was cool delays its answer.
HeatIsAnswered == running => cap >= heat

\* "Subir de nuevo exige estar frio un rato": a poll raises the clock only when
\* the GPU was cool at every poll of the recovery time.
RaiseStep == running /\ running' /\ cap' < cap => chill' > Recover
RaisesOnlyCool == [][RaiseStep]_vars

\* "sin histeresis el gobernador oscilaria": the clock is not raised within the
\* recovery time of the last move, whatever is not read and not set.
RestStep == running /\ running' /\ idx' < idx => rest + 1 >= Recover
Hysteresis == [][RestStep]_vars

\* "baja el techo de reloj al acercarse a la banda": a GPU that stays hot gets
\* the lowest clock.
HotIsCapped == <>[](running /\ temp \in Hot) => <>(cap = LastStep)
=============================================================================
