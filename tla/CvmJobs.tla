------------------------------ MODULE CvmJobs -------------------------------
(***************************************************************************)
(* The copy jobs of cvm.c: commands that leave an rsync running in the     *)
(* background, with its output in a log named after the second in which    *)
(* the command looked at the clock; the queries that read a job's progress *)
(* from its log; and migrate_cancel1, which kills the jobs of a machine.   *)
(*                                                                         *)
(* Nothing keeps two commands of one second, or of the second after a      *)
(* backup, from writing the same log, and a query may come before the      *)
(* background shell has created the log.                                   *)
(***************************************************************************)
EXTENDS Integers, FiniteSets

CONSTANTS
    Procs,      \* invocations of cvm that may run at a time
    Does,       \* Does[p]: the commands p may be
    MaxJobs,    \* bound: copies started in all
    MaxTime,    \* bound: seconds that pass
    Pause,      \* sleep() of pbackup_backup (10 in the code)
    Mid         \* a progress between 0 and 100

ASSUME DoesAssumption == Does \in [Procs -> SUBSET
    {"copy", "checked", "migrate_send1", "backup", "pbackup", "query", "cancel"}]
ASSUME BoundsAssumption == MaxJobs \in Nat /\ MaxTime \in Nat
ASSUME PauseAssumption == Pause \in Nat /\ Pause >= 2
ASSUME MidAssumption == Mid \in 1 .. 99

Jobs == 1 .. MaxJobs
Times == 0 .. (MaxTime + 1)

\* Commands with one log: "copy" is sync_sync, sys_rsync, iso_rsync, os_upload
\* and alter_alter, which look at the clock just before they copy; "checked" is
\* os_import, which looks at the image in between; migrate_send1.  Commands
\* with a second log: "backup" is backup_backup and backup_restore, "pbackup"
\* does the same for each pair it reads.
OneLog == {"copy", "checked", "migrate_send1"}
TwoLogs == {"backup", "pbackup"}

VARIABLES
    now,        \* time()
    jobs,       \* jobs[j]: the background process and what it has printed
    njobs,      \* jobs started so far
    logs,       \* logs[t]: the jobs that have opened log t; none: no such file
    run,        \* run[p]: the invocation p
    printed,    \* the pairs <<two, t>> of log names given to the caller
    quiet       \* history: migrate_cancel1 has said ok and no migrate_send1
                \* was under way or has begun since

vars == <<now, jobs, njobs, logs, run, printed, quiet>>

NoJob == [st |-> "none", log |-> 0, send |-> FALSE, full |-> FALSE]
Idle == [cmd |-> "none", pc |-> "idle", t |-> 0, mine |-> {}, val |-> 0]

\* full: it has sent all its bytes at least once, or has no file to send.
JobStates == [st : {"none", "shell", "copying", "done", "dead"},
              log : Times, send : BOOLEAN, full : BOOLEAN]
RunStates == [cmd : OneLog \cup TwoLogs \cup {"none", "query", "backup_query", "cancel"},
              pc : {"idle", "look", "first", "second", "print", "sleep",
                    "rate", "rate2", "hundred", "ps", "kill"},
              t : 0 .. (MaxTime + Pause), mine : SUBSET Jobs, val : {0, Mid, 100}]

TypeOK ==
    /\ now \in 0 .. MaxTime
    /\ jobs \in [Jobs -> JobStates] /\ njobs \in 0 .. MaxJobs
    /\ logs \in [Times -> SUBSET Jobs]
    /\ run \in [Procs -> RunStates]
    /\ printed \subseteq BOOLEAN \X Times
    /\ quiet \in BOOLEAN

Init ==
    /\ now = 0
    /\ jobs = [j \in Jobs |-> NoJob] /\ njobs = 0
    /\ logs = [t \in Times |-> {}]
    /\ run = [p \in Procs |-> Idle]
    /\ printed = {}
    /\ quiet = FALSE

Tick ==
    /\ now < MaxTime
    /\ now' = now + 1
    /\ UNCHANGED <<jobs, njobs, logs, run, printed, quiet>>

-----------------------------------------------------------------------------
\* Commands that start copies.

Starting == {q \in Procs : run[q].pc \in {"look", "first"}}

\* time(&t) at the beginning; the command may take its time after that.
Start(p, c) ==
    /\ run[p].pc = "idle" /\ c \in Does[p]
    /\ njobs + Cardinality(Starting) < MaxJobs
    /\ run' = [run EXCEPT ![p] = [Idle EXCEPT !.cmd = c, !.t = now,
                   !.pc = IF c = "checked" THEN "look" ELSE "first"]]
    /\ quiet' = (quiet /\ c # "migrate_send1")
    /\ UNCHANGED <<now, jobs, njobs, logs, printed>>

\* qemu-img info takes its time, and an image that is missing ends os_import:
\* strstr() finds nothing.
Look(p) ==
    /\ run[p].pc = "look"
    /\ \/ run' = [run EXCEPT ![p].pc = "first"]
       \/ run' = [run EXCEPT ![p] = Idle]
    /\ UNCHANGED <<now, jobs, njobs, logs, printed, quiet>>

\* system("rsync ... > logdir/t &"): it returns while the shell it has left in
\* the background has perhaps not begun.
Launched(p, t) ==
    /\ njobs < MaxJobs
    /\ njobs' = njobs + 1
    /\ jobs' = [jobs EXCEPT ![njobs + 1] =
                  [NoJob EXCEPT !.st = "shell", !.log = t,
                                !.send = run[p].cmd = "migrate_send1"]]

First(p) ==
    /\ run[p].pc = "first"
    /\ Launched(p, run[p].t)
    /\ run' = [run EXCEPT ![p].mine = @ \cup {njobs + 1},
                          ![p].pc = IF run[p].cmd \in TwoLogs THEN "second"
                                    ELSE "print"]
    /\ UNCHANGED <<now, logs, printed, quiet>>

\* The second copy of a backup.  Variant: backup_query looks for it one second
\* earlier than it is written.
SecondLogLate(t) == t + 2

SecondLog(t) == t + 1

Second(p) ==
    /\ run[p].pc = "second"
    /\ Launched(p, SecondLog(run[p].t))
    /\ run' = [run EXCEPT ![p].mine = @ \cup {njobs + 1}, ![p].pc = "print"]
    /\ UNCHANGED <<now, logs, printed, quiet>>

\* printf("%lld\n", t); pbackup_backup sleeps and goes on to its next pair.
PrintTime(p) ==
    /\ run[p].pc = "print"
    /\ printed' = printed \cup {<<run[p].cmd \in TwoLogs, run[p].t>>}
    /\ run' = [run EXCEPT ![p] = IF @.cmd = "pbackup"
                                 THEN [@ EXCEPT !.pc = "sleep",
                                                !.t = now + Pause]
                                 ELSE Idle]
    /\ UNCHANGED <<now, jobs, njobs, logs, quiet>>

\* Variant: a sleep of one second less.
AwakeEarly(p) == now >= run[p].t - 1

Awake(p) == now >= run[p].t

NextPair(p) ==
    /\ run[p].pc = "sleep" /\ Awake(p)
    /\ \/ /\ njobs + Cardinality(Starting) < MaxJobs
          /\ run' = [run EXCEPT ![p].pc = "first", ![p].t = now]
       \/ run' = [run EXCEPT ![p] = Idle]
    /\ UNCHANGED <<now, jobs, njobs, logs, printed, quiet>>

-----------------------------------------------------------------------------
\* The background processes.

\* The shell opens the log, emptying it, and becomes rsync.
Opens(j) ==
    /\ jobs[j].st = "shell"
    /\ jobs' = [jobs EXCEPT ![j].st = "copying"]
    /\ logs' = [logs EXCEPT ![jobs[j].log] = @ \cup {j}]
    /\ UNCHANGED <<now, njobs, run, printed, quiet>>

\* rsync has sent the last byte and prints "100%".  The file at the other end
\* still has its temporary name.
Sends(j) ==
    /\ jobs[j].st = "copying" /\ ~jobs[j].full
    /\ jobs' = [jobs EXCEPT ![j].full = TRUE]
    /\ UNCHANGED <<now, njobs, logs, run, printed, quiet>>

\* rsync prints "total size is" and ends: the file is in place, or was there all
\* along, or there is no such file or no way to write it, which stderr says.
Finishes(j) ==
    /\ jobs[j].st = "copying"
    /\ jobs' = [jobs EXCEPT ![j].st = "done", ![j].full = TRUE]
    /\ UNCHANGED <<now, njobs, logs, run, printed, quiet>>

\* The connection breaks or the disk is full: the message goes to stderr.
Breaks(j) ==
    /\ jobs[j].st = "copying"
    /\ jobs' = [jobs EXCEPT ![j].st = "dead"]
    /\ UNCHANGED <<now, njobs, logs, run, printed, quiet>>

-----------------------------------------------------------------------------
\* The queries: os_query, sync_query, migrate_query1, sysiso_query and
\* alter_query read one log, backup_query the log of t and then that of t + 1.
Query(p, two, t) ==
    /\ run[p].pc = "idle" /\ "query" \in Does[p]
    /\ <<two, t>> \in printed
    /\ run' = [run EXCEPT ![p] =
                 [Idle EXCEPT !.cmd = IF two THEN "backup_query" ELSE "query",
                              !.pc = "rate", !.t = t]]
    /\ UNCHANGED <<now, jobs, njobs, logs, printed, quiet>>

\* What rate() takes from the log of one job: the last percentage, if there is
\* one, and 100 from "total size is".  After a checksum that does not match
\* rsync sends the file again, from 0.
Shows(j) ==
    IF ~jobs[j].full THEN {0, Mid}
    ELSE IF jobs[j].st = "done" THEN {100}
    ELSE {0, Mid, 100}

\* rate(t, 0).  Writers of one log overwrite each other, and anything may be
\* found in it.
rate(t) ==
    IF Cardinality(logs[t]) > 1 THEN {0, Mid, 100}
    ELSE UNION {Shows(j) : j \in logs[t]}

\* (int)(rate(t) * 0.9 + rate(t + 1) * 0.1); 90.0 + 10.0 is exact.
\* Variant: rounded.
CombinedRound(a, b) == (9 * a + b + 5) \div 10

Combined(a, b) == (9 * a + b) \div 10

\* printf() of the result.  Only a 100 is remembered, for HundredSent.
Answer(r, v) == IF v = 100 THEN [r EXCEPT !.pc = "hundred"] ELSE Idle

Rate(p) ==
    /\ run[p].pc = "rate"
    /\ logs[run[p].t] # {}
    /\ \E v \in rate(run[p].t) :
          run' = [run EXCEPT ![p] = IF @.cmd = "query" THEN Answer(@, v)
                                    ELSE [@ EXCEPT !.pc = "rate2", !.val = v]]
    /\ UNCHANGED <<now, jobs, njobs, logs, printed, quiet>>

Rate2(p) ==
    /\ run[p].pc = "rate2"
    /\ logs[run[p].t + 1] # {}
    /\ \E v \in rate(run[p].t + 1) :
          run' = [run EXCEPT ![p] = Answer(@, Combined(@.val, v))]
    /\ UNCHANGED <<now, jobs, njobs, logs, printed, quiet>>

\* fopen() returns NULL and feof(NULL) ends the query.
RateCrash(p) ==
    /\ \/ run[p].pc = "rate" /\ logs[run[p].t] = {}
       \/ run[p].pc = "rate2" /\ logs[run[p].t + 1] = {}
    /\ run' = [run EXCEPT ![p] = Idle]
    /\ UNCHANGED <<now, jobs, njobs, logs, printed, quiet>>

Answered(p) ==
    /\ run[p].pc = "hundred"
    /\ run' = [run EXCEPT ![p] = Idle]
    /\ UNCHANGED <<now, jobs, njobs, logs, printed, quiet>>

-----------------------------------------------------------------------------
\* migrate_cancel1, for the one machine that migrate_send1 copies.
Cancel(p) ==
    /\ run[p].pc = "idle" /\ "cancel" \in Does[p]
    /\ run' = [run EXCEPT ![p] = [Idle EXCEPT !.cmd = "cancel", !.pc = "ps"]]
    /\ UNCHANGED <<now, jobs, njobs, logs, printed, quiet>>

\* getpid(): the background shell has the same words in its command line as
\* the rsync it becomes.  Variants: only rsync itself is found; killed jobs
\* are found as well.
LiveSendsRsync == {j \in Jobs : jobs[j].send /\ jobs[j].st = "copying"}
LiveSendsZombie ==
    {j \in Jobs : jobs[j].send /\ jobs[j].st \in {"shell", "copying", "dead"}}

LiveSends == {j \in Jobs : jobs[j].send /\ jobs[j].st \in {"shell", "copying"}}

Ps(p) ==
    /\ run[p].pc = "ps"
    /\ \E j \in LiveSends : run' = [run EXCEPT ![p].pc = "kill", ![p].mine = {j}]
    /\ UNCHANGED <<now, jobs, njobs, logs, printed, quiet>>

\* killpid(): the process may have ended in the meantime.
Kill(p) ==
    /\ run[p].pc = "kill"
    /\ jobs' = [j \in Jobs |->
                  IF j \in run[p].mine /\ jobs[j].st \in {"shell", "copying"}
                  THEN [jobs[j] EXCEPT !.st = "dead"] ELSE jobs[j]]
    /\ run' = [run EXCEPT ![p].pc = "ps", ![p].mine = {}]
    /\ UNCHANGED <<now, njobs, logs, printed, quiet>>

\* ps shows none: "ok".
Cancelled(p) ==
    /\ run[p].pc = "ps" /\ LiveSends = {}
    /\ run' = [run EXCEPT ![p] = Idle]
    /\ quiet' = \A q \in Procs : run[q].cmd # "migrate_send1"
    /\ UNCHANGED <<now, jobs, njobs, logs, printed>>

-----------------------------------------------------------------------------
Step(p) ==
    \/ Look(p) \/ First(p) \/ Second(p) \/ PrintTime(p) \/ NextPair(p)
    \/ Rate(p) \/ Rate2(p) \/ RateCrash(p) \/ Answered(p)
    \/ Ps(p) \/ Kill(p) \/ Cancelled(p)

Begin(p) ==
    \/ \E c \in OneLog \cup TwoLogs : Start(p, c)
    \/ \E two \in BOOLEAN, t \in Times : Query(p, two, t)
    \/ Cancel(p)

Work(j) == Opens(j) \/ Sends(j) \/ Finishes(j) \/ Breaks(j)

Next ==
    \/ Tick
    \/ \E p \in Procs : Begin(p) \/ Step(p)
    \/ \E j \in Jobs : Work(j)

\* An invocation that can take a step does so in the end; nothing is asked of
\* the clock and of the copies.
Fairness == \A p \in Procs : WF_vars(Step(p))

Spec == Init /\ [][Next]_vars
FairSpec == Spec /\ Fairness

-----------------------------------------------------------------------------
\* Properties.

LogsOf(two, t) == IF two THEN {t, t + 1} ELSE {t}
Of(t) == {j \in 1 .. njobs : jobs[j].log = t}
Shared(t) == Cardinality(Of(t)) > 1

\* A query crashes for want of a log (cvm.c:133) only between the answer of the
\* command and the start of its shell, or if the job was killed before it had
\* begun: every log a caller can ask for is there or still to come.
LogFollows ==
    \A a \in printed : \A t \in LogsOf(a[1], a[2]) :
        logs[t] # {} \/ \E j \in Of(t) : jobs[j].st \in {"shell", "dead"}

\* A query that says 100 (cvm.c:139-145, 1171): every copy of that command has
\* sent all its bytes once, or has no file to send, of a backup both, however
\* the two reads of backup_query fall between the steps of the jobs.  It does
\* not say that the file is in place: rsync prints "100%" before it renames it,
\* and may break or be killed between.  The exception is a log that two jobs
\* share.
HundredSent ==
    \A p \in Procs :
        LET r == run[p]
            ts == LogsOf(r.cmd = "backup_query", r.t)
        IN  r.pc = "hundred" =>
                 \A t \in ts :
                    Shared(t) \/ (Of(t) # {} /\ \A j \in Of(t) : jobs[j].full)

\* The copies that one pbackup_backup starts never share a log: its sleep is
\* long enough for the second log of each pair.
PbackupApart ==
    \A p \in Procs : \A j, k \in run[p].mine :
        j # k => jobs[j].log # jobs[k].log

\* Once migrate_cancel1 has said ok, no copy of the machine is alive, also none
\* whose shell had not yet begun, as long as no migrate_send1 ran beside it or
\* comes after it.
CancelLeavesNone ==
    quiet => \A j \in Jobs : jobs[j].send => jobs[j].st \in {"done", "dead"}

\* migrate_cancel1 comes to an end, although it kills one process at a time
\* and jobs may be started meanwhile, as long as they are not started for ever.
CancelEnds ==
    \A p \in Procs : run[p].cmd = "cancel" ~> run[p].cmd # "cancel"

=============================================================================
