----------------------------- MODULE Forensics -----------------------------
(***************************************************************************)
(* The flight recorder of a node: the sampler that writes daily CSV files  *)
(* (ops/node_forensics.py: Writer, previous_session_verdict, main) and the *)
(* post-mortem that finds the deaths in them (ops/crash_report.py).        *)
(*                                                                         *)
(* A file is a sequence of lines, each on disk as soon as it is written.   *)
(* A line is its kind, the session that wrote it and the set of columns in *)
(* use; a marker's time stamps and a sample's numbers are left out.  The   *)
(* sampler may die between any two lines: killed, or with the whole node.  *)
(* Faults says what else may happen:                                       *)
(*   "torn"  a death leaves a sample without the end of its line           *)
(*   "pid"   another process gets the number of a dead sampler             *)
(***************************************************************************)
EXTENDS Integers, Sequences, SequencesExt, FiniteSetsExt

CONSTANTS
    MaxDay,          \* days the model looks at
    RetentionDays,   \* RETENTION_DAYS
    MaxSessions,     \* how often the sampler is started
    MaxSamples,      \* samples written in all
    Columns,         \* versions of the set of columns
    Faults

\* RETENTION_DAYS is at least 1: yesterday's file may still be the open one.
ForensicsAssumption ==
    /\ MaxDay \in Nat \ {0} /\ RetentionDays \in Nat \ {0}
    /\ MaxSessions \in Nat /\ MaxSamples \in Nat

Days == 1..MaxDay
Sessions == 1..MaxSessions
NoDay == 0

VARIABLES
    today,
    files,     \* the lines of each day's file, <<>> if there is none
    cur,       \* the number of the last session started
    cols,      \* its columns
    running,   \* the sampler is there
    day,       \* Writer.day of the file that is open
    todo,      \* lines the sampler is about to write, and "prune"
    booted,    \* boot_id in which each session was started
    boot,      \* the boot_id now
    reused,    \* dead sessions whose pid is another process's now
    samples,   \* samples taken
    verdict,   \* what previous_session_verdict said to the last session
    truth      \* what it should have said

vars == <<today, files, cur, cols, running, day, todo, booted, boot, reused,
          samples, verdict, truth>>

Init ==
    /\ today = 1
    /\ files = [d \in Days |-> <<>>]
    /\ cur = 0
    /\ cols \in Columns
    /\ running = FALSE
    /\ day = NoDay
    /\ todo = <<>>
    /\ booted = [s \in Sessions |-> 0]
    /\ boot = 1
    /\ reused = {}
    /\ samples = 0
    /\ verdict = FALSE /\ truth = FALSE

-----------------------------------------------------------------------------
(* The Writer *)

Line(k, d, s, c) == [kind |-> k, day |-> d, session |-> s, cols |-> c]

\* A new file, or one whose last header has other columns (_header_matches).
NeedHeader(d, c) ==
    LET headers == {i \in DOMAIN files[d] : files[d][i].kind = "header"} IN
    headers = {} \/ files[d][Max(headers)].cols # c

\* _roll: what is written, and when files are pruned, on the way from file d to
\* file t.  A session that is split repeats its first line.
Roll(d, t, s, c) ==
       (IF d = NoDay THEN <<>> ELSE <<Line("rollover", d, s, c)>>)
    \o (IF NeedHeader(t, c) THEN <<Line("header", t, s, c)>> ELSE <<>>)
    \o <<Line("prune", t, s, c)>>
    \o (IF d = NoDay THEN <<>> ELSE <<Line("resumed", t, s, c)>>)

\* Writer.write(k)
Write(k, d, s, c) ==
    /\ todo' = (IF d = today THEN <<>> ELSE Roll(d, today, s, c)) \o <<Line(k, today, s, c)>>
    /\ day' = today

\* A line joins an unfinished one: together they are no marker.
Appended(f, l) ==
    IF f # <<>> /\ Last(f).kind = "torn"
      THEN Append(Front(f), [Last(f) EXCEPT !.kind = "junk"])
      ELSE Append(f, l)

\* _prune keeps today's file and those of the RETENTION_DAYS before it.
Prune ==
    /\ todo # <<>> /\ Head(todo).kind = "prune"
    /\ files' = [d \in Days |-> IF d < today - RetentionDays THEN <<>> ELSE files[d]]
    /\ todo' = Tail(todo)
    /\ UNCHANGED <<today, cur, cols, running, day, booted, boot, reused, samples, verdict, truth>>

\* _raw
Raw ==
    /\ todo # <<>> /\ Head(todo).kind # "prune"
    /\ LET l == Head(todo) IN files' = [files EXCEPT ![l.day] = Appended(@, l)]
    /\ todo' = Tail(todo)
    /\ running' = (Head(todo).kind # "stop")
    /\ UNCHANGED <<today, cur, cols, day, booted, boot, reused, samples, verdict, truth>>

-----------------------------------------------------------------------------
(* The sampler *)

IsStart(l) == l.kind \in {"start", "resumed"}

\* No #CLEAN_STOP after the last #BOOT_START.
Closed(f) ==
    LET i == Max({j \in DOMAIN f : IsStart(f[j])}) IN
    \E j \in DOMAIN f : j > i /\ f[j].kind = "stop"

\* previous_session_verdict: the latest file with a #BOOT_START decides.
PreviousSessionDied ==
    LET started == {d \in Days : \E i \in DOMAIN files[d] : IsStart(files[d][i])} IN
    started # {} /\ ~Closed(files[Max(started)])

\* Sessions with a first line on disk, and those closed.
Recorded == {s \in Sessions : \E d \in Days : \E i \in DOMAIN files[d] :
                 IsStart(files[d][i]) /\ files[d][i].session = s}
ClosedSessions == {s \in Sessions : \E d \in Days : \E i \in DOMAIN files[d] :
                 files[d][i].kind = "stop" /\ files[d][i].session = s}

\* main, up to the loop
Start(c) ==
    /\ ~running /\ cur < MaxSessions
    /\ cur' = cur + 1
    /\ cols' = c
    /\ running' = TRUE
    /\ verdict' = PreviousSessionDied
    /\ truth' = (Recorded # {} /\ Max(Recorded) \notin ClosedSessions)
    /\ booted' = [booted EXCEPT ![cur + 1] = boot]
    /\ Write("start", NoDay, cur + 1, c)
    /\ UNCHANGED <<today, files, boot, reused, samples>>

\* One turn of the loop.
Sample ==
    /\ running /\ todo = <<>> /\ samples < MaxSamples
    /\ samples' = samples + 1
    /\ Write("sample", day, cur, cols)
    /\ UNCHANGED <<today, files, cur, cols, running, booted, boot, reused, verdict, truth>>

\* SIGTERM, which the loop notices between two samples.
Stop ==
    /\ running /\ todo = <<>>
    /\ Write("stop", day, cur, cols)
    /\ UNCHANGED <<today, files, cur, cols, running, booted, boot, reused, samples, verdict, truth>>

\* The sampler is killed or the node loses power.
Die ==
    /\ running
    /\ running' = FALSE
    /\ todo' = <<>> /\ day' = NoDay
    /\ \/ boot' = boot /\ reused' = reused
       \/ boot' = boot + 1 /\ reused' = {}
    /\ \/ UNCHANGED files
       \/ /\ "torn" \in Faults /\ todo # <<>> /\ Head(todo).kind = "sample"
          /\ LET l == Head(todo) IN
             files' = [files EXCEPT ![l.day] = Appended(@, [l EXCEPT !.kind = "torn"])]
    /\ UNCHANGED <<today, cur, cols, booted, samples, verdict, truth>>

\* At most one midnight passes while a line is being written.
NextDay ==
    /\ today < MaxDay
    /\ todo = <<>> \/ day = today
    /\ today' = today + 1
    /\ UNCHANGED <<files, cur, cols, running, day, todo, booted, boot, reused, samples, verdict, truth>>

ReusePid(s) ==
    /\ "pid" \in Faults
    /\ s < cur \/ (s = cur /\ ~running)
    /\ reused' = reused \cup {s}
    /\ UNCHANGED <<today, files, cur, cols, running, day, todo, booted, boot, samples, verdict, truth>>

Next ==
    \/ \E c \in Columns : Start(c)
    \/ Sample \/ Stop \/ Raw \/ Prune
    \/ Die \/ NextDay
    \/ \E s \in Sessions : ReusePid(s)

Spec == Init /\ [][Next]_vars

-----------------------------------------------------------------------------
(* The post-mortem *)

\* A session as load_sessions collects it; 0 for one without a first line.
Session(s, resumed) == [session |-> s, resumed |-> resumed, clean |-> FALSE]

\* What one line adds to the sessions of its file.
LoadLine(sessions, l) ==
    CASE l.kind = "start" -> Append(sessions, Session(l.session, FALSE))
      [] l.kind = "resumed" -> Append(sessions, Session(l.session, TRUE))
      [] l.kind = "stop" /\ sessions # <<>> ->
             [sessions EXCEPT ![Len(sessions)].clean = TRUE]
      [] l.kind \in {"sample", "junk", "torn"} /\ sessions = <<>> -> <<Session(0, TRUE)>>
      [] OTHER -> sessions

\* The loop of load_sessions: what it has after each line, and in the end.
Load(f) ==
    LET load[i \in 0..Len(f)] == IF i = 0 THEN <<>> ELSE LoadLine(load[i - 1], f[i])
    IN  load
LoadSessions(f) == Load(f)[Len(f)]

\* Deviation: the parts of a session that midnight split stay apart.
JoinNever(sessions, s) == Append(sessions, s)

\* A continuation is joined to the session before it.
Join(sessions, s) ==
    IF sessions # <<>> /\ s.resumed
      THEN [sessions EXCEPT ![Len(sessions)].clean = s.clean]
      ELSE Append(sessions, s)

\* The loops of all_sessions: what they have after each session of a file,
JoinEach(all, sessions) ==
    LET join[i \in 0..Len(sessions)] == IF i = 0 THEN all ELSE Join(join[i - 1], sessions[i])
    IN  join
JoinAll(all, sessions) == JoinEach(all, sessions)[Len(sessions)]

\* and after each file.
Collect ==
    LET all[d \in 0..MaxDay] ==
          IF d = 0 THEN <<>> ELSE JoinAll(all[d - 1], LoadSessions(files[d]))
    IN  all
AllSessions == Collect[MaxDay]

\* session_is_live: its boot, and a process with its pid.
SessionIsLive(s) ==
    /\ s # 0
    /\ booted[s] = boot
    /\ (s = cur /\ running) \/ s \in reused

\* main: the sessions reported as deaths, by their place in a list.
Dirty(all) == {i \in DOMAIN all : ~all[i].clean /\ ~SessionIsLive(all[i].session)}

-----------------------------------------------------------------------------
(* Properties *)

TypeOK ==
    /\ today \in Days /\ day \in Days \cup {NoDay}
    /\ cur \in 0..MaxSessions /\ cols \in Columns
    /\ running \in BOOLEAN /\ verdict \in BOOLEAN /\ truth \in BOOLEAN
    /\ \A d \in Days : \A i \in DOMAIN files[d] : files[d][i].day = d /\ d <= today
    /\ boot \in 1..(MaxSessions + 1) /\ booted \in [Sessions -> 0..(MaxSessions + 1)]
    /\ reused \subseteq Sessions
    /\ samples \in 0..MaxSamples

\* "Una sesion sin #CLEAN_STOP es exactamente la firma de una muerte sin avisar,
\* y es lo que busca crash_report.py": whenever the post-mortem is run it reports
\* the sessions that died, each once and in order, and neither the one that runs
\* nor one that midnight split.
DeathsReported ==
    LET all == AllSessions
        reported == Dirty(all)
    IN  /\ {all[i].session : i \in reported} =
               {s \in Recorded \ ClosedSessions : ~(s = cur /\ running)}
        /\ \A i, j \in reported : i < j => all[i].session < all[j].session

\* Whatever was torn before, and whoever has its pid, a session that closed in
\* order is not reported.
ClosedIsNoDeath ==
    LET all == AllSessions IN \A i \in Dirty(all) : all[i].session \notin ClosedSessions

\* A sampler that starts is told that its predecessor died if and only if it did.
VerdictRight == verdict = truth

\* Every sample stands under a header with its own columns: no reading is shown
\* in another one's column.
HeadersMatch ==
    \A d \in Days : \A i \in DOMAIN files[d] : files[d][i].kind = "sample" =>
        LET above == {j \in 1..i : files[d][j].kind = "header"} IN
        above # {} /\ files[d][Max(above)].cols = files[d][i].cols
=============================================================================
