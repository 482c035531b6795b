---------------------------- MODULE PowerSampler ---------------------------
(***************************************************************************)
(* PowerSampler of ops/node_forensics.py: a thread that follows nvidia-smi *)
(* and keeps the least and the greatest reading since the last sample, and *)
(* the main loop that takes the pair.  Every access to lo and hi is a step *)
(* of its own; the lock is what keeps them together.                       *)
(***************************************************************************)
EXTENDS Integers, FiniteSetsExt

CONSTANTS
    Readings,        \* values of power.draw
    Fails            \* nvidia-smi may end or not even start

None == -1

PowerSamplerAssumption ==
    /\ Readings \subseteq Nat /\ Fails \in BOOLEAN

VARIABLES
    lo, hi,    \* the attributes, None if there was no reading
    lock,      \* who holds the lock
    thread,    \* where the thread is
    v,         \* the reading in its hand
    taker,     \* where take() is
    pair,      \* lo and hi as take() read them
    window,    \* the readings counted since the last take
    taken      \* those of the window the pair stands for

vars == <<lo, hi, lock, thread, v, taker, pair, window, taken>>

Init ==
    /\ lo = None /\ hi = None
    /\ lock = "free"
    /\ thread = "popen" /\ v = None
    /\ taker = "idle" /\ pair = <<None, None>>
    /\ window = {} /\ taken = {}

-----------------------------------------------------------------------------
(* The thread *)

\* subprocess.Popen; without nvidia-smi the thread is over.
Popen ==
    /\ thread = "popen"
    /\ thread' = "follow" \/ (Fails /\ thread' = "over")
    /\ UNCHANGED <<lo, hi, lock, v, taker, pair, window, taken>>

Reading(x) ==
    /\ thread = "follow"
    /\ v' = x
    /\ thread' = "acquire"
    /\ UNCHANGED <<lo, hi, lock, taker, pair, window, taken>>

\* Deviation: the readings are counted without the lock.
AcquireNothing == thread = "acquire" /\ thread' = "lo" /\ UNCHANGED lock

Acquire == thread = "acquire" /\ lock = "free" /\ lock' = "thread" /\ thread' = "lo"

SetLo ==
    /\ thread = "lo"
    /\ lo' = IF lo = None \/ v < lo THEN v ELSE lo
    /\ thread' = "hi"
    /\ UNCHANGED <<hi, lock, v, taker, pair, window, taken>>

SetHi ==
    /\ thread = "hi"
    /\ hi' = IF hi = None \/ v > hi THEN v ELSE hi
    /\ window' = window \cup {v}
    /\ thread' = "follow" /\ v' = None
    /\ lock' = "free"
    /\ UNCHANGED <<lo, taker, pair, taken>>

\* nvidia-smi ends; after five seconds it is started again.
SmiEnds ==
    /\ Fails /\ thread = "follow"
    /\ thread' = "popen"
    /\ UNCHANGED <<lo, hi, lock, v, taker, pair, window, taken>>

-----------------------------------------------------------------------------
(* take() *)

TakeLock ==
    /\ taker = "idle" /\ lock = "free"
    /\ lock' = "taker" /\ taker' = "read"
    /\ UNCHANGED <<lo, hi, thread, v, pair, window, taken>>

TakeRead ==
    /\ taker = "read"
    /\ pair' = <<lo, hi>>
    /\ taker' = "reset"
    /\ UNCHANGED <<lo, hi, lock, thread, v, window, taken>>

Reset == lo' = None /\ hi' = None

TakeReset ==
    /\ taker = "reset"
    /\ Reset
    /\ taken' = window /\ window' = {}
    /\ lock' = "free" /\ taker' = "idle"
    /\ UNCHANGED <<thread, v, pair>>

Next ==
    \/ Popen \/ SmiEnds \/ SetLo \/ SetHi
    \/ \E x \in Readings : Reading(x)
    \/ Acquire /\ UNCHANGED <<lo, hi, v, taker, pair, window, taken>>
    \/ TakeLock \/ TakeRead \/ TakeReset

Spec == Init /\ [][Next]_vars

-----------------------------------------------------------------------------
(* Properties *)

TypeOK ==
    /\ {lo, hi, v} \subseteq Readings \cup {None}
    /\ pair \in (Readings \cup {None}) \X (Readings \cup {None})
    /\ lock \in {"free", "thread", "taker"}
    /\ thread \in {"popen", "follow", "acquire", "lo", "hi", "over"}
    /\ taker \in {"idle", "read", "reset"}
    /\ window \subseteq Readings /\ taken \subseteq Readings

Extremes(S) == IF S = {} THEN <<None, None>> ELSE <<Min(S), Max(S)>>

\* "el transitorio queda registrado aunque dure una fraccion de segundo": every
\* reading counts in exactly one sample, and a sample holds the extremes of the
\* readings since the one before.
WindowExact ==
    /\ taker = "idle" => pair = Extremes(taken)
    /\ lock = "free" => <<lo, hi>> = Extremes(window)
=============================================================================
