------------------------------- MODULE MCNode -------------------------------
(***************************************************************************)
(* The programs that run on the nodes beside the gateway.  They share no   *)
(* state, so each runs by itself: `part` is chosen at the start and the    *)
(* others rest in a state they begin in.                                   *)
(*   "governor"   ThermalGuard as the cfg has it                           *)
(*   "blindly"    ThermalGuard with readings and caps that fail            *)
(*   "keepalive"  KeepAlive                                                *)
(*   "power"      PowerSampler                                             *)
(*   "recorder"   Forensics without faults                                 *)
(*   "torn"       Forensics with torn lines and reused pids                *)
(***************************************************************************)
EXTENDS ThermalGuard

CONSTANTS
    Scripts, Models, Default, Swaps, MaxDeaths,
    Readings, Fails,
    MaxDay, RetentionDays, MaxSessions, MaxSamples, Columns

VARIABLES
    part,
    up, serves, reach, answers, pc, worker, recipe, active, swap, target, deaths,
    lo, hi, lock, thread, v, taker, pair, window, taken,
    today, files, cur, cols, recording, day, todo, booted, boot, reused, samples, verdict, truth

SomeColumns == CHOOSE c \in Columns : TRUE

Blindly == INSTANCE ThermalGuard WITH Faults <- {"blind", "apply", "restart"}, MaxFailures <- 2
Keep == INSTANCE KeepAlive WITH Faults <- {"die", "blip", "deaf", "docker"}
Power == INSTANCE PowerSampler
Recorder == INSTANCE Forensics WITH running <- recording, Faults <- {}
Torn == INSTANCE Forensics
            WITH running <- recording, Columns <- {SomeColumns}, Faults <- {"torn", "pid"}

ASSUME BlindlyAssumption == Blindly!ThermalAssumption
ASSUME KeepAssumption == Keep!KeepAliveAssumption
ASSUME PowerAssumption == Power!PowerSamplerAssumption
ASSUME RecorderAssumption == Recorder!ForensicsAssumption

keepVars == <<up, serves, reach, answers, pc, worker, recipe, active, swap, target, deaths>>
powerVars == <<lo, hi, lock, thread, v, taker, pair, window, taken>>
recorderVars == <<today, files, cur, cols, recording, day, todo, booted, boot, reused,
                  samples, verdict, truth>>
MCvars == <<part, vars, keepVars, powerVars, recorderVars>>

MCInit ==
    /\ part \in {"governor", "blindly", "keepalive", "power", "recorder", "torn"}
    /\ Init /\ (part \notin {"governor", "blindly"} => temp = "cool")
    /\ Keep!Init
    /\ Power!Init
    /\ Recorder!Init /\ (part # "recorder" => cols = SomeColumns)

GovernorStep(A) == A /\ UNCHANGED <<part, keepVars, powerVars, recorderVars>>
KeepStep(A) == A /\ UNCHANGED <<part, vars, powerVars, recorderVars>>
RecorderStep(A) == A /\ UNCHANGED <<part, vars, keepVars, powerVars>>

MCNext ==
    \/ part = "governor" /\ GovernorStep(Next)
    \/ part = "blindly" /\ GovernorStep(Blindly!Next)
    \/ part = "keepalive" /\ KeepStep(Keep!Next)
    \/ part = "power" /\ Power!Next /\ UNCHANGED <<part, vars, keepVars, recorderVars>>
    \/ part = "recorder" /\ RecorderStep(Recorder!Next)
    \/ part = "torn" /\ RecorderStep(Torn!Next)

\* The fairness of ThermalGuard and of KeepAlive.
MCFairSpec ==
    /\ MCInit /\ [][MCNext]_MCvars
    /\ WF_MCvars(part = "governor" /\ GovernorStep(Start))
    /\ WF_MCvars(part = "governor" /\ GovernorStep(\E t \in Bands : Poll(t)))
    /\ \A s \in Scripts : WF_MCvars(part = "keepalive" /\ KeepStep(Keep!Script(s)))

-----------------------------------------------------------------------------
(* Properties *)

\* The governor answers every hot poll of a row, as long as caps are set.
HeatAnswered == part # "blindly" => HeatIsAnswered

\* The governor raises the clock only after an unbroken cool spell, and where
\* readings and caps fail not within the recovery time of its last move.
RaisesWithCare == [][IF part = "blindly" THEN RestStep ELSE RaiseStep]_MCvars

\* A sample of the power holds the exact extremes of its window.
WindowExact == Power!WindowExact

\* The flight recorder: the post-mortem reports the sessions that died and no
\* other, a sampler is told the truth about its predecessor and every sample
\* stands under its header; with torn lines and reused pids at least no session
\* that closed in order is taken for a death.
RecorderIsRight ==
    IF part = "torn" THEN Torn!ClosedIsNoDeath
    ELSE Recorder!DeathsReported /\ Recorder!VerdictRight /\ Recorder!HeadersMatch

\* A GPU that stays hot gets the lowest clock, and a broken cluster comes back.
NodeRecovers == (part # "blindly" => HotIsCapped) /\ Keep!ComesBack
=============================================================================
