--------------------------- MODULE CvmJobsProofs ----------------------------
(***************************************************************************)
(* Proofs about CvmJobs for any number of invocations, jobs and seconds:   *)
(* a log that was announced is there or still to come, a progress of 100   *)
(* means that all bytes were sent unless two jobs share the log, the       *)
(* copies of one pbackup_backup never share one, and migrate_cancel1       *)
(* leaves no copy alive.                                                   *)
(***************************************************************************)
EXTENDS CvmJobs, FiniteSetTheorems, TLAPS

\* A job that has begun is in its log, and a log holds only jobs of its second.
JobsOK ==
    /\ \A j \in Jobs : j > njobs <=> jobs[j].st = "none"
    /\ \A j \in Jobs : jobs[j].st = "none" => ~jobs[j].send
    /\ \A j \in Jobs : jobs[j].st \in {"copying", "done"} => j \in logs[jobs[j].log]
    /\ \A t \in Times : logs[t] \subseteq Of(t)

\* What a true answer of 100 rests on, for one log.  No later step undoes it.
Settled(t) == Shared(t) \/ (Of(t) # {} /\ \A j \in Of(t) : jobs[j].full)

\* How far an invocation has come: the logs of its copies lie before the second
\* it works in, and its announced logs have a job.
RunOK(p) ==
    /\ run[p].mine \subseteq 1 .. njobs
    /\ \A j, k \in run[p].mine : j # k => jobs[j].log # jobs[k].log
    /\ run[p].pc \notin {"first", "second", "print", "sleep", "kill"} => run[p].mine = {}
    /\ run[p].pc = "kill" => \A j, k \in run[p].mine : j = k
    /\ run[p].pc \in {"look", "first", "second", "print"} => run[p].t <= now
    /\ run[p].pc \in {"first", "sleep"} => \A j \in run[p].mine : jobs[j].log < run[p].t
    /\ run[p].pc = "second" => /\ \A j \in run[p].mine : jobs[j].log <= run[p].t
                               /\ Of(run[p].t) # {} /\ run[p].cmd \in TwoLogs
    /\ run[p].pc = "print" =>
          /\ \A j \in run[p].mine : jobs[j].log <= run[p].t + 1
          /\ \A u \in LogsOf(run[p].cmd \in TwoLogs, run[p].t) : Of(u) # {}
    /\ run[p].pc \in {"rate", "rate2", "hundred"} =>
          run[p].t <= MaxTime /\ run[p].cmd \in {"query", "backup_query"}
    /\ run[p].pc = "rate2" => /\ run[p].cmd = "backup_query"
                              /\ run[p].val = 100 => Settled(run[p].t)
    /\ run[p].pc = "hundred" =>
          \A u \in LogsOf(run[p].cmd = "backup_query", run[p].t) : Settled(u)

RunsOK == \A p \in Procs : RunOK(p)

\* Every announced log has a job.
PrintedOK ==
    \A a \in printed : a[2] <= MaxTime /\ \A u \in LogsOf(a[1], a[2]) : Of(u) # {}

QuietOK ==
    quiet => /\ \A q \in Procs : run[q].cmd # "migrate_send1"
             /\ \A j \in Jobs : jobs[j].send => jobs[j].st \in {"done", "dead"}

\* The inductive invariant.
IInv == TypeOK /\ JobsOK /\ RunsOK /\ PrintedOK /\ QuietOK

-----------------------------------------------------------------------------
\* Facts about the operators, and what every step keeps.

\* An invocation that begins: the record in full.
LEMMA BegunRun ==
    ASSUME NEW c, NEW w, NEW n, NEW r, r = [Idle EXCEPT !.cmd = c, !.t = n, !.pc = w]
    PROVE  r = [cmd |-> c, pc |-> w, t |-> n, mine |-> {}, val |-> 0]
BY DEF Idle

LEMMA BegunFields ==
    ASSUME NEW c, NEW w, NEW n, NEW r,
           r = [cmd |-> c, pc |-> w, t |-> n, mine |-> {}, val |-> 0],
           c \in OneLog \cup TwoLogs \cup {"none", "query", "backup_query", "cancel"},
           w \in {"idle", "look", "first", "rate", "ps"}, n \in 0 .. (MaxTime + Pause)
    PROVE  /\ r \in RunStates
           /\ r.mine = {} /\ r.t = n /\ r.pc = w /\ r.cmd = c
BY DEF RunStates

USE DoesAssumption, BoundsAssumption, PauseAssumption, MidAssumption

LEMMA IdleRun == Idle \in RunStates
BY DEF Idle, RunStates, OneLog, TwoLogs

LEMMA OfJobs ==
    ASSUME TypeOK, NEW t
    PROVE  /\ Of(t) \subseteq 1 .. njobs /\ Of(t) \subseteq Jobs /\ IsFiniteSet(Of(t))
           /\ 1 .. njobs \subseteq Jobs
<1>1. Of(t) \subseteq 1 .. njobs /\ njobs \in Int
  BY DEF Of, TypeOK
<1>2. IsFiniteSet(1 .. njobs)
  BY <1>1, FS_Interval
<1>3. IsFiniteSet(Of(t))
  BY <1>1, <1>2, FS_Subset
<1>4. 1 .. njobs \subseteq Jobs
  BY DEF Jobs, TypeOK
<1>5. QED
  BY <1>1, <1>3, <1>4

LEMMA OfJobsNext ==
    ASSUME TypeOK', NEW t
    PROVE  Of(t)' \subseteq (1 .. njobs)' /\ IsFiniteSet(Of(t)')
<1>1. Of(t)' \subseteq 1 .. njobs' /\ njobs' \in Int
  BY DEF Of, TypeOK
<1>2. IsFiniteSet(1 .. njobs')
  BY <1>1, FS_Interval
<1>3. QED
  BY <1>1, <1>2, FS_Subset

\* Two different elements make a set with more than one.
LEMMA TwoMakeMany ==
    ASSUME NEW S, IsFiniteSet(S), NEW a \in S, NEW b \in S, a # b
    PROVE  Cardinality(S) > 1
<1>1. IsFiniteSet({a}) /\ Cardinality({a}) = 1
  BY FS_Singleton
<1>2. b \notin {a}
  OBVIOUS
<1>3. /\ IsFiniteSet({a} \cup {b})
      /\ Cardinality({a} \cup {b}) = Cardinality({a}) + 1
  BY <1>1, <1>2, FS_AddElement, Zenon
<1>4. {a} \cup {b} \in SUBSET S
  OBVIOUS
<1>5. Cardinality({a} \cup {b}) <= Cardinality(S) /\ Cardinality(S) \in Nat
  BY <1>4, FS_Subset, FS_CardinalityType
<1>6. QED
  BY <1>1, <1>3, <1>5

\* Time passes, jobs are added, and a job keeps its log and stays full.
Grows ==
    /\ now' >= now /\ njobs' >= njobs
    /\ \A j \in 1 .. njobs : /\ jobs'[j].log = jobs[j].log
                             /\ jobs[j].full => jobs'[j].full

LEMMA OfGrows ==
    ASSUME TypeOK, TypeOK', Grows, NEW t
    PROVE  Of(t) \subseteq Of(t)'
BY DEF Of, Grows, TypeOK

LEMMA SettledStays ==
    ASSUME TypeOK, TypeOK', Grows, NEW t, Settled(t)
    PROVE  Settled(t)'
<1>1. Of(t) \subseteq Of(t)' /\ IsFiniteSet(Of(t)) /\ IsFiniteSet(Of(t)')
  BY OfGrows, OfJobs, OfJobsNext
<1>2. CASE Shared(t)
  <2>1. Cardinality(Of(t)) <= Cardinality(Of(t)')
    BY <1>1, FS_Subset
  <2>2. Cardinality(Of(t)) \in Nat /\ Cardinality(Of(t)') \in Nat
    BY <1>1, FS_CardinalityType
  <2>3. Cardinality(Of(t)') > 1
    BY <1>2, <2>1, <2>2 DEF Shared
  <2>4. QED
    BY <2>3 DEF Settled, Shared
<1>3. CASE Of(t) # {} /\ \A j \in Of(t) : jobs[j].full
  <2>1. CASE Of(t)' = Of(t)
    <3>1. \A j \in Of(t) : jobs'[j].full
      BY <1>3, OfJobs DEF Grows
    <3>2. QED
      BY <1>3, <2>1, <3>1 DEF Settled
  <2>2. CASE Of(t)' # Of(t)
    <3>1. PICK a \in Of(t), b \in Of(t)' : a # b
      BY <1>1, <1>3, <2>2
    <3>2. Cardinality(Of(t)') > 1
      BY <1>1, <3>1, TwoMakeMany
    <3>3. QED
      BY <3>2 DEF Settled, Shared
  <2>3. QED
    BY <2>1, <2>2
<1>4. QED
  BY <1>2, <1>3 DEF Settled

\* An invocation that does not move.
LEMMA RunStays ==
    ASSUME TypeOK, TypeOK', Grows, NEW p \in Procs, RunOK(p), run'[p] = run[p]
    PROVE  RunOK(p)'
<1>1. /\ now \in Int /\ now' \in Int /\ njobs \in Int /\ njobs' \in Int
      /\ run[p] \in RunStates /\ run[p].t \in Int
  BY DEF TypeOK, RunStates
<1>2. run[p].mine \subseteq 1 .. njobs'
  BY <1>1 DEF RunOK, Grows
<1>3. \A j \in run[p].mine : jobs'[j].log = jobs[j].log
  BY DEF RunOK, Grows
<1>4. \A u : Of(u) # {} => Of(u)' # {}
  BY OfGrows
<1>5. \A u : Settled(u) => Settled(u)'
  BY SettledStays
<1>6. run[p].t <= now => run[p].t <= now'
  BY <1>1 DEF Grows
<1>7. QED
  BY <1>2, <1>3, <1>4, <1>5, <1>6 DEF RunOK, LogsOf

LEMMA PrintedStays ==
    ASSUME TypeOK, TypeOK', Grows, PrintedOK, printed' = printed PROVE PrintedOK'
BY OfGrows DEF PrintedOK, LogsOf

LEMMA SameJobs ==
    ASSUME UNCHANGED <<jobs, njobs>>, NEW u
    PROVE  Of(u)' = Of(u) /\ (Settled(u)' <=> Settled(u))
BY DEF Of, Settled, Shared

\* A step of one invocation that starts, opens and ends no copy.
LEMMA RunOnly ==
    ASSUME IInv, NEW p \in Procs, NEW r \in RunStates, run' = [run EXCEPT ![p] = r],
           UNCHANGED <<now, jobs, njobs, logs>>,
           printed' \subseteq BOOLEAN \X Times, quiet' \in BOOLEAN,
           RunOK(p)', PrintedOK', QuietOK'
    PROVE  IInv'
<1>1. TypeOK'
  BY DEF IInv, TypeOK
<1>2. JobsOK'
  BY DEF IInv, JobsOK, Of
<1>3. Grows
  BY DEF Grows, IInv, TypeOK
<1>4. RunsOK'
  <2>1. ASSUME NEW q \in Procs, q # p PROVE RunOK(q)'
    <3>1. run'[q] = run[q] /\ RunOK(q) /\ TypeOK
      BY <2>1 DEF IInv, TypeOK, RunsOK
    <3>2. QED
      BY <1>1, <1>3, <3>1, RunStays
  <2>2. QED
    BY <2>1 DEF RunsOK
<1>5. QED
  BY <1>1, <1>2, <1>4 DEF IInv

\* The same when nothing is printed and the command stays or is not a send.
LEMMA QuietRun ==
    ASSUME IInv, NEW p \in Procs, NEW r \in RunStates, run' = [run EXCEPT ![p] = r],
           UNCHANGED <<now, jobs, njobs, logs, printed, quiet>>,
           r.cmd # "migrate_send1" \/ r.cmd = run[p].cmd, RunOK(p)'
    PROVE  IInv'
<1>1. printed' \subseteq BOOLEAN \X Times /\ quiet' \in BOOLEAN /\ PrintedOK'
  BY SMTT(30) DEF IInv, TypeOK, PrintedOK, LogsOf, Of
<1>2. QuietOK'
  <2>1. run'[p].cmd # "migrate_send1" \/ run'[p].cmd = run[p].cmd
    BY DEF IInv, TypeOK
  <2>2. \A q \in Procs : q # p => run'[q] = run[q]
    BY DEF IInv, TypeOK
  <2>3. QED
    BY <2>1, <2>2 DEF IInv, QuietOK
<1>3. QED
  BY <1>1, <1>2, RunOnly

\* An invocation without copies, in a state that promises nothing.
LEMMA PlainRun ==
    ASSUME NEW p \in Procs, run'[p].mine = {},
           run'[p].pc \in {"idle", "look", "first", "rate", "ps"},
           run'[p].pc \in {"look", "first"} => run'[p].t <= now',
           run'[p].pc = "rate" => /\ run'[p].t <= MaxTime
                                  /\ run'[p].cmd \in {"query", "backup_query"}
    PROVE  RunOK(p)'
BY DEF RunOK

LEMMA IdleKeeps ==
    ASSUME IInv, NEW p \in Procs, run' = [run EXCEPT ![p] = Idle],
           UNCHANGED <<now, jobs, njobs, logs, printed, quiet>>
    PROVE  IInv'
<1>1. run'[p] = Idle
  BY DEF IInv, TypeOK
<1>2. RunOK(p)'
  BY <1>1, PlainRun DEF Idle
<1>3. Idle.cmd # "migrate_send1"
  BY DEF Idle
<1>4. QED
  BY <1>2, <1>3, IdleRun, QuietRun

-----------------------------------------------------------------------------
\* The initial state.

LEMMA IInvInit == Init => IInv
<1> SUFFICES ASSUME Init PROVE IInv
  OBVIOUS
<1> USE DEF Init
<1>1. TypeOK
  <2>1. run \in [Procs -> RunStates]
    BY IdleRun
  <2>2. NoJob \in JobStates
    BY DEF NoJob, JobStates, Times
  <2>3. jobs \in [Jobs -> JobStates]
    BY <2>2
  <2>4. logs \in [Times -> SUBSET Jobs] /\ printed \subseteq BOOLEAN \X Times
    BY Zenon
  <2>5. quiet \in BOOLEAN
    BY Zenon
  <2>6. now \in 0 .. MaxTime /\ njobs \in 0 .. MaxJobs
    OBVIOUS
  <2>7. QED
    BY <2>1, <2>3, <2>4, <2>5, <2>6 DEF TypeOK
<1>2. JobsOK
  BY DEF JobsOK, NoJob, Jobs
<1>3. RunsOK
  BY DEF RunsOK, RunOK, Idle
<1>4. PrintedOK /\ QuietOK
  BY DEF PrintedOK, QuietOK
<1>5. QED
  BY <1>1, <1>2, <1>3, <1>4 DEF IInv

-----------------------------------------------------------------------------
\* Steps of an invocation.

LEMMA StartKeeps ==
    ASSUME IInv, NEW p \in Procs, NEW c \in OneLog \cup TwoLogs, Start(p, c) PROVE IInv'
<1> DEFINE w == IF c = "checked" THEN "look" ELSE "first"
           r == [Idle EXCEPT !.cmd = c, !.t = now, !.pc = w]
<1>0. w \in {"look", "first"}
  OBVIOUS
<1>1. /\ run' = [run EXCEPT ![p] = r] /\ UNCHANGED <<now, jobs, njobs, logs, printed>>
      /\ quiet' = (quiet /\ c # "migrate_send1")
  BY DEF Start
<1> HIDE DEF w
<1>2. r = [cmd |-> c, pc |-> w, t |-> now, mine |-> {}, val |-> 0]
  BY BegunRun
<1>3. now \in 0 .. (MaxTime + Pause)
  BY DEF IInv, TypeOK
<1>4. /\ r \in RunStates
      /\ r.mine = {} /\ r.t = now /\ r.pc = w /\ r.cmd = c
  <2> HIDE DEF r
  <2>1. c \in OneLog \cup TwoLogs \cup {"none", "query", "backup_query", "cancel"}
    OBVIOUS
  <2>2. w \in {"idle", "look", "first", "rate", "ps"}
    BY <1>0
  <2>3. QED
    BY <1>2, <1>3, <2>1, <2>2, BegunFields
<1>5. r.mine = {} /\ r.t = now /\ r.pc \in {"look", "first"} /\ r.cmd = c
  BY <1>0, <1>4
<1> HIDE DEF r
<1>6. run'[p] = r /\ \A q \in Procs : q # p => run'[q] = run[q]
  BY <1>1 DEF IInv, TypeOK
<1>7. RunOK(p)'
  BY <1>1, <1>3, <1>5, <1>6, PlainRun
<1>8. quiet' \in BOOLEAN
  BY <1>1, Zenon
<1>9. QuietOK'
  BY <1>1, <1>5, <1>6 DEF IInv, QuietOK
<1>10. PrintedOK' /\ printed' \subseteq BOOLEAN \X Times
  BY <1>1 DEF IInv, TypeOK, PrintedOK, LogsOf, Of
<1>11. QED
  BY <1>1, <1>4, <1>7, <1>8, <1>9, <1>10, RunOnly

LEMMA LookKeeps == ASSUME IInv, NEW p \in Procs, Look(p) PROVE IInv'
<1>0. run[p] \in RunStates /\ RunOK(p) /\ run[p].pc = "look"
      /\ UNCHANGED <<now, jobs, njobs, logs, printed, quiet>>
  BY DEF IInv, TypeOK, RunsOK, Look
<1>1. CASE run' = [run EXCEPT ![p].pc = "first"]
  <2> DEFINE r == [run[p] EXCEPT !.pc = "first"]
  <2>1. run' = [run EXCEPT ![p] = r]
    BY <1>1
  <2>2. r \in RunStates /\ r.cmd = run[p].cmd /\ r.mine = run[p].mine /\ r.t = run[p].t
        /\ r.pc = "first"
    BY <1>0 DEF RunStates
  <2> HIDE DEF r
  <2>3. run'[p] = r
    BY <2>1 DEF IInv, TypeOK
  <2>4. r.mine = {} /\ r.t <= now'
    BY <1>0, <2>2 DEF RunOK
  <2>5. RunOK(p)'
    BY <2>2, <2>3, <2>4, PlainRun
  <2>6. QED
    BY <1>0, <2>1, <2>2, <2>5, QuietRun
<1>2. QED
  BY <1>0, <1>1, IdleKeeps DEF Look

LEMMA PrintKeeps == ASSUME IInv, NEW p \in Procs, PrintTime(p) PROVE IInv'
<1>0. /\ TypeOK /\ run[p] \in RunStates /\ RunOK(p) /\ run[p].pc = "print"
      /\ UNCHANGED <<now, jobs, njobs, logs, quiet>>
      /\ now \in 0 .. MaxTime /\ run[p].t \in 0 .. MaxTime
  <2>1. /\ TypeOK /\ run[p] \in RunStates /\ RunOK(p) /\ run[p].pc = "print"
        /\ UNCHANGED <<now, jobs, njobs, logs, quiet>> /\ now \in 0 .. MaxTime
    BY DEF IInv, TypeOK, RunsOK, PrintTime
  <2>2. run[p].t \in 0 .. (MaxTime + Pause) /\ run[p].t <= now
    BY <2>1 DEF RunOK, RunStates
  <2>3. QED
    BY <2>1, <2>2
<1> DEFINE two == run[p].cmd \in TwoLogs
           t == run[p].t
<1>1. printed' = printed \cup {<<two, t>>}
  BY DEF PrintTime
<1>2. printed' \subseteq BOOLEAN \X Times
  <2>1. two \in BOOLEAN
    OBVIOUS
  <2>2. t \in Times
    BY <1>0 DEF Times
  <2>3. printed \subseteq BOOLEAN \X Times
    BY <1>0 DEF TypeOK
  <2> HIDE DEF two, t
  <2>4. <<two, t>> \in BOOLEAN \X Times
    BY <2>1, <2>2
  <2> DEFINE a == <<two, t>>
  <2>5. printed' = printed \cup {a} /\ a \in BOOLEAN \X Times
    BY <1>1, <2>4
  <2> HIDE DEF a
  <2>6. QED
    BY <2>3, <2>5, Zenon
<1>3. PrintedOK'
  <2>1. t <= MaxTime /\ \A u \in LogsOf(two, t) : Of(u) # {}
    BY <1>0 DEF RunOK
  <2>2. ASSUME NEW a \in printed'
        PROVE  a[2] <= MaxTime /\ \A u \in LogsOf(a[1], a[2]) : Of(u) # {}
    <3>1. CASE a \in printed
      BY <3>1 DEF IInv, PrintedOK
    <3>2. CASE a = <<two, t>>
      BY <2>1, <3>2
    <3>3. QED
      BY <1>1, <2>2, <3>1, <3>2
  <2>3. QED
    BY <1>0, <2>2 DEF PrintedOK, LogsOf, Of
<1>4. quiet' \in BOOLEAN
  BY <1>0 DEF TypeOK
<1>5. PICK r \in RunStates :
         /\ run' = [run EXCEPT ![p] = r]
         /\ r.cmd \in {run[p].cmd, "none"}
         /\ \/ r = Idle
            \/ r.pc = "sleep" /\ r.t = now + Pause /\ r.mine = run[p].mine
  <2>1. CASE run[p].cmd = "pbackup"
    <3> DEFINE r == [run[p] EXCEPT !.pc = "sleep", !.t = now + Pause]
    <3>1. run' = [run EXCEPT ![p] = r]
      BY <2>1 DEF PrintTime
    <3>2. now + Pause \in 0 .. (MaxTime + Pause)
      BY <1>0
    <3>3. /\ r \in RunStates /\ r.cmd = run[p].cmd /\ r.pc = "sleep" /\ r.t = now + Pause
          /\ r.mine = run[p].mine
      BY <1>0, <3>2 DEF RunStates
    <3> HIDE DEF r
    <3>4. QED
      BY <3>1, <3>3
  <2>2. CASE run[p].cmd # "pbackup"
    <3>1. run' = [run EXCEPT ![p] = Idle]
      BY <2>2 DEF PrintTime
    <3>2. Idle.cmd = "none"
      BY DEF Idle
    <3>3. QED
      BY <3>1, <3>2, IdleRun
  <2>3. QED
    BY <2>1, <2>2
<1>6. run'[p] = r /\ \A q \in Procs : q # p => run'[q] = run[q]
  BY <1>5 DEF IInv, TypeOK
<1>7. QuietOK'
  BY <1>0, <1>5, <1>6 DEF IInv, QuietOK
<1>8. RunOK(p)'
  <2>1. CASE r = Idle
    BY <1>6, <2>1, PlainRun DEF Idle
  <2>2. CASE r.pc = "sleep" /\ r.t = now + Pause /\ r.mine = run[p].mine
    <3>1. \A j \in run[p].mine : jobs[j].log \in Int
      <4>1. \A j \in Jobs : jobs[j].log \in Int
        BY <1>0 DEF TypeOK, JobStates, Times
      <4>2. run[p].mine \subseteq Jobs
        BY <1>0 DEF RunStates
      <4>3. QED
        BY <4>1, <4>2
    <3>2. \A j \in run[p].mine : jobs[j].log <= run[p].t + 1 /\ run[p].t <= now
      BY <1>0 DEF RunOK
    <3>3. \A j \in run[p].mine : jobs[j].log < now + Pause
      BY <1>0, <3>1, <3>2
    <3>4. QED
      BY <1>0, <1>6, <2>2, <3>3 DEF RunOK
  <2>3. QED
    BY <1>5, <2>1, <2>2
<1>9. QED
  BY <1>0, <1>2, <1>3, <1>4, <1>5, <1>7, <1>8, RunOnly

LEMMA NextPairKeeps == ASSUME IInv, NEW p \in Procs, NextPair(p) PROVE IInv'
<1>0. /\ TypeOK /\ run[p] \in RunStates /\ RunOK(p) /\ run[p].pc = "sleep" /\ now >= run[p].t
      /\ UNCHANGED <<now, jobs, njobs, logs, printed, quiet>>
      /\ now \in 0 .. (MaxTime + Pause)
  BY DEF IInv, TypeOK, RunsOK, NextPair, Awake
<1>1. CASE run' = [run EXCEPT ![p].pc = "first", ![p].t = now]
  <2> DEFINE r == [run[p] EXCEPT !.pc = "first", !.t = now]
  <2>1. run' = [run EXCEPT ![p] = r]
    BY <1>0, <1>1 DEF TypeOK
  <2>2. /\ r \in RunStates /\ r.cmd = run[p].cmd /\ r.mine = run[p].mine /\ r.t = now
        /\ r.pc = "first"
    BY <1>0 DEF RunStates
  <2> HIDE DEF r
  <2>3. run'[p] = r
    BY <2>1 DEF IInv, TypeOK
  <2>4. \A j \in run[p].mine : jobs[j].log \in Int /\ jobs[j].log < run[p].t
    <3>1. \A j \in Jobs : jobs[j].log \in Int
      BY <1>0 DEF TypeOK, JobStates, Times
    <3>2. run[p].mine \subseteq Jobs
      BY <1>0 DEF RunStates
    <3>3. QED
      BY <1>0, <3>1, <3>2 DEF RunOK
  <2>5. run[p].t \in Int
    BY <1>0 DEF RunStates
  <2>6. \A j \in run[p].mine : jobs[j].log < now
    BY <1>0, <2>4, <2>5
  <2>7. RunOK(p)'
    BY <1>0, <2>2, <2>3, <2>6 DEF RunOK
  <2>8. QED
    BY <1>0, <2>1, <2>2, <2>7, QuietRun
<1>2. QED
  BY <1>0, <1>1, IdleKeeps DEF NextPair

-----------------------------------------------------------------------------
\* The queries.

LEMMA AskingRun ==
    ASSUME NEW c, NEW n, NEW r, r = [Idle EXCEPT !.cmd = c, !.pc = "rate", !.t = n]
    PROVE  r = [cmd |-> c, pc |-> "rate", t |-> n, mine |-> {}, val |-> 0]
BY DEF Idle

LEMMA QueryKeeps ==
    ASSUME IInv, NEW p \in Procs, NEW two \in BOOLEAN, NEW t \in Times, Query(p, two, t)
    PROVE  IInv'
<1> DEFINE c == IF two THEN "backup_query" ELSE "query"
           r == [Idle EXCEPT !.cmd = c, !.pc = "rate", !.t = t]
<1>0. c \in {"query", "backup_query"}
  OBVIOUS
<1>1. /\ run' = [run EXCEPT ![p] = r] /\ UNCHANGED <<now, jobs, njobs, logs, printed, quiet>>
      /\ <<two, t>> \in printed
  BY DEF Query
<1> HIDE DEF c
<1>2. r = [cmd |-> c, pc |-> "rate", t |-> t, mine |-> {}, val |-> 0]
  BY AskingRun
<1> HIDE DEF r
<1>3. t \in 0 .. (MaxTime + Pause) /\ t <= MaxTime
  <2>1. t <= MaxTime
    BY <1>1 DEF IInv, PrintedOK
  <2>2. QED
    BY <2>1 DEF Times
<1>4. r \in RunStates /\ r.mine = {} /\ r.t = t /\ r.pc = "rate" /\ r.cmd = c
  <2>1. c \in OneLog \cup TwoLogs \cup {"none", "query", "backup_query", "cancel"}
    BY <1>0
  <2>2. "rate" \in {"idle", "look", "first", "rate", "ps"}
    OBVIOUS
  <2>3. QED
    BY <1>2, <1>3, <2>1, <2>2, BegunFields
<1>5. run'[p] = r
  BY <1>1 DEF IInv, TypeOK
<1>6. RunOK(p)'
  BY <1>0, <1>3, <1>4, <1>5, PlainRun
<1>7. r.cmd # "migrate_send1"
  BY <1>0, <1>4
<1>8. QED
  BY <1>1, <1>4, <1>6, <1>7, QuietRun

\* What rate() finds: a 100 only if the one job of the log is full.
LEMMA RateTrue ==
    ASSUME TypeOK, JobsOK, NEW t \in Times, NEW v \in rate(t)
    PROVE  v \in {0, Mid, 100} /\ (v = 100 => Settled(t))
<1>0. logs[t] \subseteq Of(t) /\ IsFiniteSet(Of(t))
  BY OfJobs DEF JobsOK
<1>1. CASE Cardinality(logs[t]) > 1
  <2>1. Cardinality(logs[t]) <= Cardinality(Of(t)) /\ IsFiniteSet(logs[t])
    BY <1>0, FS_Subset
  <2>2. Cardinality(logs[t]) \in Nat /\ Cardinality(Of(t)) \in Nat
    BY <1>0, <2>1, FS_CardinalityType
  <2>3. Settled(t)
    BY <1>1, <2>1, <2>2 DEF Settled, Shared
  <2>4. v \in {0, Mid, 100}
    BY <1>1 DEF rate
  <2>5. QED
    BY <2>3, <2>4
<1>2. CASE ~(Cardinality(logs[t]) > 1)
  <2>1. PICK j \in logs[t] : v \in Shows(j)
    BY <1>2 DEF rate
  <2>2. j \in Of(t)
    BY <1>0
  <2>3. v \in {0, Mid, 100}
    BY <2>1 DEF Shows
  <2>4. ASSUME v = 100 PROVE Settled(t)
    <3>1. jobs[j].full
      BY <2>1, <2>4 DEF Shows
    <3>2. CASE \E k \in Of(t) : k # j
      BY <1>0, <2>2, <3>2, TwoMakeMany DEF Settled, Shared
    <3>3. CASE \A k \in Of(t) : k = j
      BY <2>2, <3>1, <3>3 DEF Settled
    <3>4. QED
      BY <3>2, <3>3
  <2>5. QED
    BY <2>3, <2>4
<1>3. QED
  BY <1>1, <1>2

AskedSettled(p) ==
    \A u \in LogsOf(run[p].cmd = "backup_query", run[p].t) : Settled(u)

Answers(p, v) ==
    /\ run[p].pc \in {"rate", "rate2"}
    /\ run' = [run EXCEPT ![p] = Answer(run[p], v)]
    /\ UNCHANGED <<now, jobs, njobs, logs, printed, quiet>>

\* An answer is the end of a query; after a 100 its logs are settled.
LEMMA AnswerKeeps ==
    ASSUME IInv, NEW p \in Procs, NEW v \in Int, Answers(p, v), v = 100 => AskedSettled(p)
    PROVE  IInv'
<1> USE DEF Answers, AskedSettled
<1>1. CASE v = 100
  <2> DEFINE r == [run[p] EXCEPT !.pc = "hundred"]
  <2>0. run[p] \in RunStates /\ RunOK(p)
    BY DEF IInv, TypeOK, RunsOK
  <2>1. run' = [run EXCEPT ![p] = r]
    BY <1>1 DEF Answer
  <2>2. /\ r \in RunStates /\ r.cmd = run[p].cmd /\ r.mine = run[p].mine
        /\ r.t = run[p].t /\ r.pc = "hundred"
    BY <2>0 DEF RunStates
  <2> HIDE DEF r
  <2>3. run'[p] = r
    BY <2>1 DEF IInv, TypeOK
  <2>4. r.mine = {} /\ r.t <= MaxTime /\ r.cmd \in {"query", "backup_query"}
    BY <2>0, <2>2 DEF RunOK
  <2>5. \A u \in LogsOf(r.cmd = "backup_query", r.t) : Settled(u)'
    BY <1>1, <2>2, SameJobs
  <2>6. RunOK(p)'
    BY <2>2, <2>3, <2>4, <2>5 DEF RunOK
  <2>7. QED
    BY <2>1, <2>2, <2>6, QuietRun
<1>2. CASE v # 100
  BY <1>2, IdleKeeps DEF Answer
<1>3. QED
  BY <1>1, <1>2

LEMMA RateKeeps == ASSUME IInv, NEW p \in Procs, Rate(p) PROVE IInv'
<1>0. /\ TypeOK /\ JobsOK /\ run[p] \in RunStates /\ RunOK(p) /\ run[p].pc = "rate"
      /\ UNCHANGED <<now, jobs, njobs, logs, printed, quiet>>
  BY DEF IInv, TypeOK, RunsOK, Rate
<1>1. run[p].t <= MaxTime /\ run[p].cmd \in {"query", "backup_query"} /\ run[p].mine = {}
  BY <1>0 DEF RunOK
<1>2. run[p].t \in Times
  BY <1>0, <1>1 DEF RunStates, Times
<1>3. PICK v \in rate(run[p].t) :
         run' = [run EXCEPT ![p] = IF @.cmd = "query" THEN Answer(@, v)
                                   ELSE [@ EXCEPT !.pc = "rate2", !.val = v]]
  BY DEF Rate
<1>4. v \in {0, Mid, 100} /\ (v = 100 => Settled(run[p].t))
  BY <1>0, <1>2, <1>3, RateTrue
<1>5. CASE run[p].cmd = "query"
  <2>1. Answers(p, v) /\ v \in Int
    BY <1>0, <1>3, <1>4, <1>5 DEF Answers
  <2>2. v = 100 => AskedSettled(p)
    BY <1>4, <1>5 DEF LogsOf, AskedSettled
  <2>3. QED
    BY <2>1, <2>2, AnswerKeeps
<1>6. CASE run[p].cmd = "backup_query"
  <2> DEFINE r == [run[p] EXCEPT !.pc = "rate2", !.val = v]
  <2>1. run' = [run EXCEPT ![p] = r]
    BY <1>3, <1>6
  <2>2. /\ r \in RunStates /\ r.cmd = run[p].cmd /\ r.mine = run[p].mine
        /\ r.t = run[p].t /\ r.pc = "rate2" /\ r.val = v
    BY <1>0, <1>4 DEF RunStates
  <2> HIDE DEF r
  <2>3. run'[p] = r
    BY <2>1 DEF IInv, TypeOK
  <2>4. \A u : u = run[p].t /\ v = 100 => Settled(u)'
    BY <1>0, <1>4, SameJobs
  <2>5. RunOK(p)'
    BY <1>1, <1>6, <2>2, <2>3, <2>4 DEF RunOK
  <2>6. QED
    BY <1>0, <2>1, <2>2, <2>5, QuietRun
<1>7. QED
  BY <1>1, <1>5, <1>6

LEMMA Rate2Keeps == ASSUME IInv, NEW p \in Procs, Rate2(p) PROVE IInv'
<1>0. /\ TypeOK /\ JobsOK /\ run[p] \in RunStates /\ RunOK(p) /\ run[p].pc = "rate2"
      /\ UNCHANGED <<now, jobs, njobs, logs, printed, quiet>>
  BY DEF IInv, TypeOK, RunsOK, Rate2
<1>1. /\ run[p].t <= MaxTime /\ run[p].cmd = "backup_query"
      /\ run[p].val = 100 => Settled(run[p].t)
  BY <1>0 DEF RunOK
<1>2. run[p].t + 1 \in Times /\ run[p].val \in {0, Mid, 100}
  BY <1>0, <1>1 DEF RunStates, Times
<1>3. PICK v \in rate(run[p].t + 1) :
         run' = [run EXCEPT ![p] = Answer(run[p], Combined(run[p].val, v))]
  BY DEF Rate2
<1>4. v \in {0, Mid, 100} /\ (v = 100 => Settled(run[p].t + 1))
  BY <1>0, <1>2, <1>3, RateTrue
<1>5. Combined(run[p].val, v) = 100 => run[p].val = 100 /\ v = 100
  BY <1>2, <1>4 DEF Combined
<1>6. PICK w \in Int : w = Combined(run[p].val, v)
  BY <1>2, <1>4 DEF Combined
<1>7. w = 100 => AskedSettled(p)
  BY <1>1, <1>4, <1>5, <1>6 DEF LogsOf, AskedSettled
<1>8. Answers(p, w)
  BY <1>0, <1>3, <1>6 DEF Answers
<1>9. QED
  BY <1>7, <1>8, AnswerKeeps

-----------------------------------------------------------------------------
\* migrate_cancel1.

LEMMA CancellingRun ==
    ASSUME NEW r, r = [Idle EXCEPT !.cmd = "cancel", !.pc = "ps"]
    PROVE  r = [cmd |-> "cancel", pc |-> "ps", t |-> 0, mine |-> {}, val |-> 0]
BY DEF Idle

LEMMA CancelKeeps == ASSUME IInv, NEW p \in Procs, Cancel(p) PROVE IInv'
<1> DEFINE r == [Idle EXCEPT !.cmd = "cancel", !.pc = "ps"]
<1>1. run' = [run EXCEPT ![p] = r] /\ UNCHANGED <<now, jobs, njobs, logs, printed, quiet>>
  BY DEF Cancel
<1>2. r = [cmd |-> "cancel", pc |-> "ps", t |-> 0, mine |-> {}, val |-> 0]
  BY CancellingRun
<1> HIDE DEF r
<1>3. r \in RunStates /\ r.mine = {} /\ r.t = 0 /\ r.pc = "ps" /\ r.cmd = "cancel"
  <2>1. 0 \in 0 .. (MaxTime + Pause)
    OBVIOUS
  <2>2. QED
    BY <1>2, <2>1, BegunFields
<1>4. run'[p] = r
  BY <1>1 DEF IInv, TypeOK
<1>5. RunOK(p)'
  BY <1>3, <1>4, PlainRun
<1>6. QED
  BY <1>1, <1>3, <1>5, QuietRun

LEMMA PsKeeps == ASSUME IInv, NEW p \in Procs, Ps(p) PROVE IInv'
<1>0. /\ TypeOK /\ JobsOK /\ run[p] \in RunStates /\ run[p].pc = "ps"
      /\ UNCHANGED <<now, jobs, njobs, logs, printed, quiet>>
  BY DEF IInv, TypeOK, Ps
<1>1. PICK j \in LiveSends : run' = [run EXCEPT ![p].pc = "kill", ![p].mine = {j}]
  BY DEF Ps
<1> DEFINE r == [run[p] EXCEPT !.pc = "kill", !.mine = {j}]
<1>2. run' = [run EXCEPT ![p] = r]
  BY <1>0, <1>1 DEF TypeOK
<1>3. j \in Jobs /\ {j} \in SUBSET Jobs /\ jobs[j].st # "none"
  BY <1>1 DEF LiveSends
<1>4. /\ r \in RunStates /\ r.cmd = run[p].cmd /\ r.mine = {j} /\ r.t = run[p].t
      /\ r.pc = "kill"
  BY <1>0, <1>3 DEF RunStates
<1> HIDE DEF r
<1>5. run'[p] = r
  BY <1>2 DEF IInv, TypeOK
<1>6. {j} \subseteq 1 .. njobs
  BY <1>0, <1>3 DEF JobsOK, Jobs, TypeOK
<1>7. RunOK(p)'
  BY <1>0, <1>4, <1>5, <1>6 DEF RunOK
<1>8. QED
  BY <1>0, <1>2, <1>4, <1>7, QuietRun

\* The machine is quiet once ps has shown no copy of it.
LEMMA CancelledKeeps == ASSUME IInv, NEW p \in Procs, Cancelled(p) PROVE IInv'
<1>0. /\ TypeOK /\ run' = [run EXCEPT ![p] = Idle] /\ LiveSends = {}
      /\ UNCHANGED <<now, jobs, njobs, logs, printed>>
      /\ quiet' = \A q \in Procs : run[q].cmd # "migrate_send1"
  BY DEF IInv, Cancelled
<1>1. run'[p] = Idle /\ \A q \in Procs : q # p => run'[q] = run[q]
  BY <1>0 DEF TypeOK
<1>2. RunOK(p)'
  BY <1>1, PlainRun DEF Idle
<1>3. Idle.cmd # "migrate_send1"
  BY DEF Idle
<1>4. quiet' \in BOOLEAN
  BY <1>0, Zenon
<1>5. \A j \in Jobs : jobs[j].send => jobs[j].st \in {"done", "dead"}
  <2>1. ASSUME NEW j \in Jobs, jobs[j].send PROVE jobs[j].st \in {"done", "dead"}
    <3>1. jobs[j].st \notin {"shell", "copying"}
      BY <1>0, <2>1 DEF LiveSends
    <3>2. jobs[j].st # "none"
      BY <2>1 DEF IInv, JobsOK
    <3>3. jobs[j].st \in {"none", "shell", "copying", "done", "dead"}
      BY <1>0 DEF TypeOK, JobStates
    <3>4. QED
      BY <3>1, <3>2, <3>3
  <2>2. QED
    BY <2>1
<1>6. QuietOK'
  BY <1>0, <1>1, <1>3, <1>5 DEF QuietOK
<1>7. PrintedOK' /\ printed' \subseteq BOOLEAN \X Times
  BY <1>0 DEF IInv, TypeOK, PrintedOK, LogsOf, Of
<1>8. QED
  BY <1>0, <1>2, <1>4, <1>6, <1>7, IdleRun, RunOnly

-----------------------------------------------------------------------------
\* Steps that start, open or end copies.

\* What is left to show for a step that prints nothing.
LEMMA JobsStep ==
    ASSUME IInv, TypeOK', Grows, JobsOK', QuietOK', printed' = printed,
           \A q \in Procs : run'[q] = run[q] \/ RunOK(q)'
    PROVE  IInv'
<1>1. TypeOK /\ PrintedOK /\ \A q \in Procs : RunOK(q)
  BY DEF IInv, RunsOK
<1>2. PrintedOK'
  BY <1>1, PrintedStays
<1>3. ASSUME NEW q \in Procs PROVE RunOK(q)'
  BY <1>1, RunStays
<1>4. RunsOK'
  BY <1>3 DEF RunsOK
<1>5. QED
  BY <1>2, <1>4 DEF IInv

LEMMA TickKeeps == ASSUME IInv, Tick PROVE IInv'
<1>0. /\ TypeOK /\ now' = now + 1 /\ now \in Int
      /\ UNCHANGED <<jobs, njobs, logs, run, printed, quiet>>
  BY DEF IInv, Tick, TypeOK
<1>1. now' \in 0 .. MaxTime
  BY DEF IInv, TypeOK, Tick
<1>2. TypeOK'
  BY <1>0, <1>1 DEF TypeOK
<1>3. Grows
  BY <1>0 DEF TypeOK, Grows
<1>4. JobsOK' /\ QuietOK'
  BY <1>0 DEF IInv, JobsOK, QuietOK, Of
<1>5. QED
  BY <1>0, <1>2, <1>3, <1>4, JobsStep

\* Jobs that are alive go on or end; none is added.
Moves ==
    /\ UNCHANGED <<now, njobs>> /\ jobs' \in [Jobs -> JobStates]
    /\ \A j \in Jobs :
          /\ jobs'[j].log = jobs[j].log /\ jobs'[j].send = jobs[j].send
          /\ jobs[j].full => jobs'[j].full
          /\ \/ jobs'[j].st = jobs[j].st
             \/ /\ jobs[j].st \in {"shell", "copying"}
                /\ jobs'[j].st \in {"copying", "done", "dead"}

LEMMA MovesKeep ==
    ASSUME IInv, Moves
    PROVE  /\ Grows /\ \A u : Of(u)' = Of(u)
           /\ \A j \in Jobs : j > njobs' <=> jobs'[j].st = "none"
           /\ \A j \in Jobs : jobs'[j].st = "none" => ~jobs'[j].send
           /\ quiet => \A j \in Jobs : jobs'[j].send => jobs'[j].st \in {"done", "dead"}
<1>0. TypeOK /\ JobsOK /\ QuietOK
  BY DEF IInv
<1>1. 1 .. njobs \subseteq Jobs
  BY <1>0, OfJobs
<1>2. Grows
  BY <1>0, <1>1 DEF Grows, Moves, TypeOK
<1>3. \A u : Of(u)' = Of(u)
  BY <1>1 DEF Of, Moves
<1>4. \A j \in Jobs : j > njobs' <=> jobs'[j].st = "none"
  BY <1>0 DEF JobsOK, Moves
<1>5. \A j \in Jobs : jobs'[j].st = "none" => ~jobs'[j].send
  BY <1>0 DEF JobsOK, Moves
<1>6. quiet => \A j \in Jobs : jobs'[j].send => jobs'[j].st \in {"done", "dead"}
  BY <1>0 DEF QuietOK, Moves
<1>7. QED
  BY <1>2, <1>3, <1>4, <1>5, <1>6

\* A change of one job.
LEMMA OneMoves ==
    ASSUME TypeOK, NEW j \in Jobs, NEW r \in JobStates, jobs' = [jobs EXCEPT ![j] = r],
           UNCHANGED <<now, njobs>>, r.log = jobs[j].log, r.send = jobs[j].send,
           jobs[j].full => r.full,
           \/ r.st = jobs[j].st
           \/ jobs[j].st \in {"shell", "copying"} /\ r.st \in {"copying", "done", "dead"}
    PROVE  /\ Moves /\ jobs'[j] = r
           /\ \A k \in Jobs : k # j => jobs'[k] = jobs[k]
<1>1. jobs \in [Jobs -> JobStates]
  BY DEF TypeOK
<1>2. jobs'[j] = r /\ \A k \in Jobs : k # j => jobs'[k] = jobs[k]
  BY <1>1
<1>3. jobs' \in [Jobs -> JobStates]
  BY <1>1
<1>4. ASSUME NEW k \in Jobs
      PROVE  /\ jobs'[k].log = jobs[k].log /\ jobs'[k].send = jobs[k].send
             /\ jobs[k].full => jobs'[k].full
             /\ \/ jobs'[k].st = jobs[k].st
                \/ /\ jobs[k].st \in {"shell", "copying"}
                   /\ jobs'[k].st \in {"copying", "done", "dead"}
  BY <1>2
<1>5. Moves
  BY <1>3, <1>4 DEF Moves
<1>6. QED
  BY <1>2, <1>5

\* The records that the steps of a job make.
LEMMA JobMoved ==
    ASSUME NEW o \in JobStates, NEW s \in {"copying", "done", "dead"},
           NEW r, r = [o EXCEPT !.st = s]
    PROVE  /\ r \in JobStates /\ r.st = s /\ r.log = o.log /\ r.send = o.send
           /\ r.full = o.full
BY DEF JobStates

LEMMA JobFull ==
    ASSUME NEW o \in JobStates, NEW r, r = [o EXCEPT !.full = TRUE]
    PROVE  r \in JobStates /\ r.st = o.st /\ r.log = o.log /\ r.send = o.send /\ r.full
BY DEF JobStates

\* Steps that leave the logs as they are.
LEMMA EndKeeps ==
    ASSUME IInv, Moves, UNCHANGED <<logs, run, printed, quiet>>,
           \A j \in Jobs : jobs'[j].st \in {"copying", "done"} => jobs[j].st \in {"copying", "done"}
    PROVE  IInv'
<1>0. TypeOK /\ JobsOK /\ QuietOK
  BY DEF IInv
<1>1. TypeOK'
  BY <1>0 DEF TypeOK, Moves
<1>2. \A j \in Jobs : jobs'[j].st \in {"copying", "done"} => j \in logs'[jobs'[j].log]
  BY <1>0 DEF JobsOK, Moves
<1>3. \A t \in Times : logs'[t] \subseteq Of(t)'
  BY <1>0, MovesKeep DEF JobsOK
<1>4. JobsOK'
  BY <1>2, <1>3, MovesKeep DEF JobsOK
<1>5. QuietOK'
  BY <1>0, MovesKeep DEF QuietOK
<1>6. QED
  BY <1>1, <1>4, <1>5, MovesKeep, JobsStep

LEMMA SendsKeeps == ASSUME IInv, NEW j \in Jobs, Sends(j) PROVE IInv'
<1>0. /\ TypeOK /\ jobs[j].st = "copying" /\ jobs[j] \in JobStates
      /\ UNCHANGED <<now, njobs, logs, run, printed, quiet>>
  BY DEF IInv, Sends, TypeOK
<1>1. PICK r \in JobStates :
         /\ jobs' = [jobs EXCEPT ![j] = r]
         /\ r.log = jobs[j].log /\ r.send = jobs[j].send /\ r.st = "copying"
         /\ jobs[j].full => r.full
  <2> DEFINE r == [jobs[j] EXCEPT !.full = TRUE]
  <2>1. jobs' = [jobs EXCEPT ![j] = r]
    BY <1>0 DEF Sends, TypeOK
  <2>2. /\ r \in JobStates /\ r.log = jobs[j].log /\ r.send = jobs[j].send
        /\ r.st = "copying" /\ (jobs[j].full => r.full)
    BY <1>0, JobFull
  <2> HIDE DEF r
  <2>3. QED
    BY <2>1, <2>2
<1>2. Moves /\ jobs'[j] = r /\ \A k \in Jobs : k # j => jobs'[k] = jobs[k]
  BY <1>0, <1>1, OneMoves
<1>3. QED
  BY <1>0, <1>1, <1>2, EndKeeps

LEMMA FinishesKeeps == ASSUME IInv, NEW j \in Jobs, Finishes(j) PROVE IInv'
<1>0. /\ TypeOK /\ jobs[j].st = "copying" /\ jobs[j] \in JobStates
      /\ UNCHANGED <<now, njobs, logs, run, printed, quiet>>
  BY DEF IInv, Finishes, TypeOK
<1>1. PICK r \in JobStates :
         /\ jobs' = [jobs EXCEPT ![j] = r]
         /\ r.log = jobs[j].log /\ r.send = jobs[j].send /\ r.st = "done"
         /\ jobs[j].full => r.full
  <2> DEFINE q == [jobs[j] EXCEPT !.st = "done"]
             r == [q EXCEPT !.full = TRUE]
  <2>1. jobs' = [jobs EXCEPT ![j] = r]
    BY <1>0 DEF Finishes, TypeOK
  <2>2. /\ r \in JobStates /\ r.log = jobs[j].log /\ r.send = jobs[j].send
        /\ r.st = "done" /\ (jobs[j].full => r.full)
    <3>1. q \in JobStates /\ q.st = "done" /\ q.log = jobs[j].log /\ q.send = jobs[j].send
      BY <1>0, JobMoved
    <3> HIDE DEF q
    <3>2. r \in JobStates /\ r.st = q.st /\ r.log = q.log /\ r.send = q.send /\ r.full
      BY <3>1, JobFull
    <3>3. QED
      BY <3>1, <3>2
  <2> HIDE DEF r
  <2>3. QED
    BY <2>1, <2>2
<1>2. Moves /\ jobs'[j] = r /\ \A k \in Jobs : k # j => jobs'[k] = jobs[k]
  BY <1>0, <1>1, OneMoves
<1>3. QED
  BY <1>0, <1>1, <1>2, EndKeeps

LEMMA BreaksKeeps == ASSUME IInv, NEW j \in Jobs, Breaks(j) PROVE IInv'
<1>0. /\ TypeOK /\ jobs[j].st = "copying" /\ jobs[j] \in JobStates
      /\ UNCHANGED <<now, njobs, logs, run, printed, quiet>>
  BY DEF IInv, Breaks, TypeOK
<1>1. PICK r \in JobStates :
         /\ jobs' = [jobs EXCEPT ![j] = r]
         /\ r.log = jobs[j].log /\ r.send = jobs[j].send /\ r.st = "dead"
         /\ jobs[j].full => r.full
  <2> DEFINE r == [jobs[j] EXCEPT !.st = "dead"]
  <2>1. jobs' = [jobs EXCEPT ![j] = r]
    BY <1>0 DEF Breaks, TypeOK
  <2>2. /\ r \in JobStates /\ r.log = jobs[j].log /\ r.send = jobs[j].send
        /\ r.st = "dead" /\ (jobs[j].full => r.full)
    BY <1>0, JobMoved
  <2> HIDE DEF r
  <2>3. QED
    BY <2>1, <2>2
<1>2. Moves /\ jobs'[j] = r /\ \A k \in Jobs : k # j => jobs'[k] = jobs[k]
  BY <1>0, <1>1, OneMoves
<1>3. QED
  BY <1>0, <1>1, <1>2, EndKeeps

\* The shell enters the log of its own second.
LEMMA OpensKeeps == ASSUME IInv, NEW j \in Jobs, Opens(j) PROVE IInv'
<1>0. /\ TypeOK /\ JobsOK /\ QuietOK /\ jobs[j].st = "shell"
      /\ jobs' = [jobs EXCEPT ![j].st = "copying"]
      /\ logs' = [logs EXCEPT ![jobs[j].log] = @ \cup {j}]
      /\ UNCHANGED <<now, njobs, run, printed, quiet>>
  BY DEF IInv, Opens
<1>1. Moves /\ jobs'[j].log = jobs[j].log /\ \A k \in Jobs : k # j => jobs'[k] = jobs[k]
  <2> DEFINE r == [jobs[j] EXCEPT !.st = "copying"]
  <2>0. jobs[j] \in JobStates
    BY <1>0 DEF TypeOK
  <2>1. jobs' = [jobs EXCEPT ![j] = r]
    BY <1>0
  <2>2. /\ r \in JobStates /\ r.log = jobs[j].log /\ r.send = jobs[j].send
        /\ r.st = "copying" /\ (jobs[j].full => r.full)
    BY <2>0, JobMoved
  <2> HIDE DEF r
  <2>3. QED
    BY <1>0, <2>1, <2>2, OneMoves
<1>2. jobs[j].log \in Times /\ logs \in [Times -> SUBSET Jobs]
  BY <1>0 DEF TypeOK, JobStates
<1>3. logs[jobs[j].log] \cup {j} \in SUBSET Jobs
  BY <1>2
<1>4. logs' \in [Times -> SUBSET Jobs]
  BY <1>0, <1>2, <1>3
<1>5. TypeOK'
  BY <1>0, <1>1, <1>4 DEF TypeOK, Moves
<1>6. /\ \A t \in Times : logs[t] \subseteq logs'[t]
      /\ \A t \in Times : \A k \in logs'[t] : k \in logs[t] \/ (k = j /\ t = jobs[j].log)
      /\ j \in logs'[jobs[j].log]
  BY <1>0, <1>2
<1>7. \A k \in Jobs : jobs'[k].st \in {"copying", "done"} => k \in logs'[jobs'[k].log]
  <2>1. ASSUME NEW k \in Jobs, k # j, jobs'[k].st \in {"copying", "done"}
        PROVE  k \in logs'[jobs'[k].log]
    <3>1. k \in logs[jobs[k].log] /\ jobs'[k] = jobs[k]
      BY <1>0, <1>1, <2>1 DEF JobsOK
    <3>2. jobs[k].log \in Times
      BY <1>0 DEF TypeOK, JobStates
    <3>3. QED
      BY <1>6, <3>1, <3>2
  <2>2. QED
    BY <1>1, <1>6, <2>1
<1>8. j \in Of(jobs[j].log)
  BY <1>0 DEF JobsOK, Of, Jobs, TypeOK
<1>9. \A t \in Times : logs'[t] \subseteq Of(t)'
  BY <1>0, <1>1, <1>6, <1>8, MovesKeep DEF JobsOK
<1>10. JobsOK'
  BY <1>1, <1>7, <1>9, MovesKeep DEF JobsOK
<1>11. QuietOK'
  BY <1>0, <1>1, MovesKeep DEF QuietOK
<1>12. QED
  BY <1>0, <1>1, <1>5, <1>10, <1>11, MovesKeep, JobsStep

\* killpid() of what getpid() has found.
LEMMA KillKeeps == ASSUME IInv, NEW p \in Procs, Kill(p) PROVE IInv'
<1>0. /\ TypeOK /\ JobsOK /\ QuietOK /\ run[p] \in RunStates /\ run[p].pc = "kill"
      /\ run' = [run EXCEPT ![p].pc = "ps", ![p].mine = {}]
      /\ UNCHANGED <<now, njobs, logs, printed, quiet>>
  BY DEF IInv, TypeOK, Kill
<1> DEFINE hit(j) == j \in run[p].mine /\ jobs[j].st \in {"shell", "copying"}
           r == [run[p] EXCEPT !.pc = "ps", !.mine = {}]
<1>1. jobs' = [j \in Jobs |-> IF hit(j) THEN [jobs[j] EXCEPT !.st = "dead"] ELSE jobs[j]]
  BY DEF Kill
<1>2. \A j \in Jobs :
         LET d == [jobs[j] EXCEPT !.st = "dead"] IN
         /\ jobs[j] \in JobStates /\ d \in JobStates
         /\ d.st = "dead" /\ d.log = jobs[j].log /\ d.send = jobs[j].send
         /\ d.full = jobs[j].full
  BY <1>0 DEF TypeOK, JobStates
<1>3. jobs' \in [Jobs -> JobStates]
  BY <1>1, <1>2
<1>4. \A j \in Jobs : /\ jobs'[j].log = jobs[j].log /\ jobs'[j].send = jobs[j].send
                      /\ jobs'[j].full = jobs[j].full
                      /\ \/ jobs'[j].st = jobs[j].st
                         \/ hit(j) /\ jobs'[j].st = "dead"
  BY <1>1, <1>2
<1>5. Moves
  BY <1>0, <1>3, <1>4 DEF Moves
<1>6. run' = [run EXCEPT ![p] = r]
  BY <1>0 DEF TypeOK
<1>7. r \in RunStates /\ r.cmd = run[p].cmd /\ r.mine = {} /\ r.pc = "ps"
  BY <1>0 DEF RunStates
<1> HIDE DEF r
<1>8. run'[p] = r /\ \A q \in Procs : q # p => run'[q] = run[q]
  BY <1>0, <1>6 DEF TypeOK
<1>9. run' \in [Procs -> RunStates]
  BY <1>0, <1>6, <1>7 DEF TypeOK
<1>10. TypeOK'
  BY <1>0, <1>3, <1>9 DEF TypeOK
<1>11. RunOK(p)'
  BY <1>7, <1>8, PlainRun
<1>12. \A j \in Jobs : jobs'[j].st \in {"copying", "done"} => j \in logs'[jobs'[j].log]
  BY <1>0, <1>4 DEF JobsOK
<1>13. \A t \in Times : logs'[t] \subseteq Of(t)'
  BY <1>0, <1>5, MovesKeep DEF JobsOK
<1>14. JobsOK'
  BY <1>5, <1>12, <1>13, MovesKeep DEF JobsOK
<1>15. QuietOK'
  BY <1>0, <1>5, <1>7, <1>8, MovesKeep, ZenonT(40) DEF QuietOK
<1>16. QED
  BY <1>0, <1>5, <1>8, <1>10, <1>11, <1>14, <1>15, MovesKeep, JobsStep

\* The job that a command launches.
LEMMA NewJob ==
    ASSUME NEW t, NEW s, NEW j, j = [NoJob EXCEPT !.st = "shell", !.log = t, !.send = s]
    PROVE  j = [st |-> "shell", log |-> t, send |-> s, full |-> FALSE]
BY DEF NoJob

LEMMA LaunchedJob ==
    ASSUME TypeOK, NEW p \in Procs, NEW t \in Times, Launched(p, t)
    PROVE  /\ njobs + 1 \in Jobs /\ njobs' = njobs + 1 /\ njobs' \in 0 .. MaxJobs
           /\ jobs' \in [Jobs -> JobStates]
           /\ jobs'[njobs + 1].st = "shell" /\ jobs'[njobs + 1].log = t
           /\ jobs'[njobs + 1].send <=> run[p].cmd = "migrate_send1"
           /\ \A j \in Jobs : j # njobs + 1 => jobs'[j] = jobs[j]
<1> DEFINE s == run[p].cmd = "migrate_send1"
           n == [NoJob EXCEPT !.st = "shell", !.log = t, !.send = s]
<1>1. jobs' = [jobs EXCEPT ![njobs + 1] = n] /\ njobs' = njobs + 1 /\ njobs < MaxJobs
  BY DEF Launched
<1>2. s \in BOOLEAN
  OBVIOUS
<1>3. njobs + 1 \in Jobs /\ njobs' \in 0 .. MaxJobs /\ jobs \in [Jobs -> JobStates]
  BY <1>1 DEF TypeOK, Jobs
<1>4. n = [st |-> "shell", log |-> t, send |-> s, full |-> FALSE]
  <2> HIDE DEF s
  <2>1. \A x : n = [NoJob EXCEPT !.st = "shell", !.log = t, !.send = x]
               => n = [st |-> "shell", log |-> t, send |-> x, full |-> FALSE]
    <3> HIDE DEF n
    <3>1. QED
      BY NewJob
  <2>2. QED
    BY <2>1
<1> HIDE DEF n
<1>5. n.st = "shell" /\ n.log = t /\ (n.send <=> s)
  BY <1>4
<1>6. n \in JobStates
  <2> HIDE DEF s
  <2>1. QED
    BY <1>2, <1>4 DEF JobStates
<1>7. jobs' \in [Jobs -> JobStates]
  BY <1>1, <1>3, <1>6
<1>8. jobs'[njobs + 1] = n /\ \A j \in Jobs : j # njobs + 1 => jobs'[j] = jobs[j]
  BY <1>1, <1>3
<1>9. QED
  BY <1>1, <1>3, <1>5, <1>7, <1>8

\* A launch disturbs no promise; what is left is the invocation itself.
LEMMA LaunchKeeps ==
    ASSUME IInv, NEW p \in Procs, NEW t \in Times, Launched(p, t), NEW r \in RunStates,
           run' = [run EXCEPT ![p] = r], r.cmd = run[p].cmd,
           UNCHANGED <<now, logs, printed, quiet>>
    PROVE  /\ TypeOK' /\ Grows /\ JobsOK' /\ QuietOK' /\ run'[p] = r
           /\ \A q \in Procs : q # p => run'[q] = run[q]
           /\ Of(t)' # {} /\ \A u : Of(u) # {} => Of(u)' # {}
<1>0. TypeOK /\ JobsOK /\ QuietOK /\ njobs \in 0 .. MaxJobs /\ run \in [Procs -> RunStates]
  BY DEF IInv, TypeOK
<1>1. /\ njobs + 1 \in Jobs /\ njobs' = njobs + 1 /\ njobs' \in 0 .. MaxJobs
      /\ jobs' \in [Jobs -> JobStates]
      /\ jobs'[njobs + 1].st = "shell" /\ jobs'[njobs + 1].log = t
      /\ jobs'[njobs + 1].send <=> run[p].cmd = "migrate_send1"
      /\ \A j \in Jobs : j # njobs + 1 => jobs'[j] = jobs[j]
  BY <1>0, LaunchedJob
<1>2. run'[p] = r /\ \A q \in Procs : q # p => run'[q] = run[q]
  BY <1>0
<1>3. run' \in [Procs -> RunStates]
  BY <1>0
<1>4. TypeOK'
  BY <1>0, <1>1, <1>3 DEF TypeOK
<1>5. \A j \in 1 .. njobs : j \in Jobs /\ j # njobs + 1
  BY <1>0 DEF Jobs
<1>6. \A j \in 1 .. njobs : jobs'[j] = jobs[j]
  BY <1>1, <1>5
<1>7. Grows
  BY <1>0, <1>1, <1>6 DEF Grows, TypeOK
<1>8. Of(t)' # {}
  <2>1. njobs + 1 \in 1 .. njobs'
    BY <1>0, <1>1
  <2>2. njobs + 1 \in {j \in 1 .. njobs' : jobs'[j].log = t}
    BY <1>1, <2>1
  <2>3. QED
    BY <2>2 DEF Of
<1>9. \A u : Of(u) \subseteq Of(u)'
  BY <1>0, <1>4, <1>7, OfGrows
<1>10. JobsOK'
  <2>1. ASSUME NEW j \in Jobs PROVE j > njobs' <=> jobs'[j].st = "none"
    <3>1. j > njobs <=> jobs[j].st = "none"
      BY <1>0 DEF JobsOK
    <3>2. j \in Int
      BY DEF Jobs
    <3>3. QED
      BY <1>0, <1>1, <3>1, <3>2
  <2>2. \A j \in Jobs : jobs'[j].st = "none" => ~jobs'[j].send
    BY <1>0, <1>1 DEF JobsOK
  <2>3. \A j \in Jobs : jobs'[j].st \in {"copying", "done"} => j \in logs'[jobs'[j].log]
    BY <1>0, <1>1 DEF JobsOK
  <2>4. \A u \in Times : logs'[u] \subseteq Of(u)'
    BY <1>0, <1>9 DEF JobsOK
  <2>5. QED
    BY <2>1, <2>2, <2>3, <2>4 DEF JobsOK
<1>11. QuietOK'
  <2>1. SUFFICES ASSUME quiet
                 PROVE  /\ \A q \in Procs : run'[q].cmd # "migrate_send1"
                        /\ \A j \in Jobs : jobs'[j].send => jobs'[j].st \in {"done", "dead"}
    BY DEF QuietOK
  <2>2. \A q \in Procs : run[q].cmd # "migrate_send1"
    BY <1>0, <2>1 DEF QuietOK
  <2>3. \A q \in Procs : run'[q].cmd # "migrate_send1"
    BY <1>2, <2>2
  <2>4. ~jobs'[njobs + 1].send
    BY <1>1, <2>2
  <2>5. QED
    BY <1>0, <1>1, <2>1, <2>3, <2>4 DEF QuietOK
<1>12. QED
  BY <1>2, <1>4, <1>7, <1>8, <1>9, <1>10, <1>11

LEMMA FirstKeeps == ASSUME IInv, NEW p \in Procs, First(p) PROVE IInv'
<1> DEFINE t == run[p].t
           w == IF run[p].cmd \in TwoLogs THEN "second" ELSE "print"
           m == run[p].mine \cup {njobs + 1}
           r == [run[p] EXCEPT !.mine = m, !.pc = w]
<1>0. /\ TypeOK /\ run[p] \in RunStates /\ RunOK(p) /\ run[p].pc = "first"
      /\ Launched(p, t) /\ UNCHANGED <<now, logs, printed, quiet>>
      /\ run' = [run EXCEPT ![p].mine = @ \cup {njobs + 1}, ![p].pc = w]
  BY DEF IInv, TypeOK, RunsOK, First
<1>1. run' = [run EXCEPT ![p] = r]
  BY <1>0 DEF TypeOK
<1>2. /\ t \in Int /\ t >= 0 /\ t <= now /\ now <= MaxTime /\ now \in Int
      /\ run[p].mine \subseteq 1 .. njobs /\ \A j \in run[p].mine : jobs[j].log < t
  <2>1. t \in 0 .. (MaxTime + Pause) /\ now \in 0 .. MaxTime
    BY <1>0 DEF RunStates, TypeOK
  <2>2. t <= now /\ run[p].mine \subseteq 1 .. njobs /\ \A j \in run[p].mine : jobs[j].log < t
    BY <1>0 DEF RunOK
  <2>3. QED
    BY <2>1, <2>2
<1>3. t \in Times
  BY <1>2 DEF Times
<1>4. /\ njobs + 1 \in Jobs /\ njobs' = njobs + 1 /\ njobs' \in 0 .. MaxJobs
      /\ jobs'[njobs + 1].log = t /\ \A j \in Jobs : j # njobs + 1 => jobs'[j] = jobs[j]
  BY <1>0, <1>3, LaunchedJob
<1>5. m \in SUBSET Jobs
  BY <1>0, <1>4 DEF RunStates
<1>6. w \in {"second", "print"} /\ (w = "second" <=> run[p].cmd \in TwoLogs)
  OBVIOUS
<1>7. /\ r \in RunStates /\ r.cmd = run[p].cmd /\ r.mine = m /\ r.t = t /\ r.pc = w
      /\ r.val = run[p].val
  <2> HIDE DEF m, w
  <2>1. QED
    BY <1>0, <1>5, <1>6 DEF RunStates
<1> HIDE DEF r, w
<1>8. /\ TypeOK' /\ Grows /\ JobsOK' /\ QuietOK' /\ run'[p] = r
      /\ \A q \in Procs : q # p => run'[q] = run[q]
      /\ \A u : u = t => Of(u)' # {}
  <2>1. PICK x \in Times : x = t
    BY <1>3
  <2>2. Launched(p, x)
    BY <1>0, <2>1
  <2>3. /\ TypeOK' /\ Grows /\ JobsOK' /\ QuietOK' /\ run'[p] = r
        /\ \A q \in Procs : q # p => run'[q] = run[q]
        /\ Of(x)' # {}
    <3>1. UNCHANGED <<now, logs, printed, quiet>> /\ r \in RunStates /\ r.cmd = run[p].cmd
      BY <1>0, <1>7
    <3>2. QED
      BY <1>1, <2>2, <3>1, LaunchKeeps
  <2>4. \A u : u = t => u = x
    BY <2>1
  <2>5. QED
    BY <2>3, <2>4, Zenon
<1>9. RunOK(p)'
  <2>1. \A j \in run[p].mine : j \in Jobs /\ j # njobs + 1 /\ jobs'[j] = jobs[j]
    <3>1. njobs \in Int /\ run[p].mine \subseteq Jobs
      BY <1>0 DEF TypeOK, RunStates
    <3>2. QED
      BY <1>2, <1>4, <3>1
  <2>2. m \subseteq 1 .. njobs'
    <3>1. njobs \in Nat
      BY <1>0 DEF TypeOK
    <3>2. QED
      BY <1>2, <1>4, <3>1
  <2>3. \A j \in run[p].mine : jobs'[j].log < t
    BY <1>2, <2>1
  <2>4. \A j, k \in m : j # k => jobs'[j].log # jobs'[k].log
    <3>1. \A j, k \in run[p].mine : j # k => jobs'[j].log # jobs'[k].log
      BY <1>0, <2>1 DEF RunOK
    <3>2. \A j \in run[p].mine : jobs'[j].log # jobs'[njobs + 1].log
      BY <1>2, <1>4, <2>3
    <3>3. QED
      BY <3>1, <3>2
  <2>5. \A j \in m : jobs'[j].log <= t /\ jobs'[j].log <= t + 1
    <3>1. \A j \in Jobs : jobs'[j].log \in Int
      BY <1>8 DEF TypeOK, JobStates, Times
    <3>2. QED
      BY <1>2, <1>4, <1>5, <2>3, <3>1
  <2>6. w = "print" => \A u \in LogsOf(run[p].cmd \in TwoLogs, t) : Of(u)' # {}
    BY <1>6, <1>8 DEF LogsOf
  <2>7. /\ run'[p].cmd = run[p].cmd /\ run'[p].mine = m /\ run'[p].t = t /\ run'[p].pc = w
        /\ now' = now
    BY <1>0, <1>7, <1>8
  <2> HIDE DEF m
  <2>8. QED
    BY <1>2, <1>6, <1>8, <2>2, <2>4, <2>5, <2>6, <2>7 DEF RunOK
<1>10. QED
  BY <1>0, <1>8, <1>9, JobsStep

LEMMA SecondKeeps == ASSUME IInv, NEW p \in Procs, Second(p) PROVE IInv'
<1> DEFINE t == run[p].t
           m == run[p].mine \cup {njobs + 1}
           r == [run[p] EXCEPT !.mine = m, !.pc = "print"]
<1>0. /\ TypeOK /\ run[p] \in RunStates /\ RunOK(p) /\ run[p].pc = "second"
      /\ Launched(p, t + 1) /\ UNCHANGED <<now, logs, printed, quiet>>
      /\ run' = [run EXCEPT ![p].mine = @ \cup {njobs + 1}, ![p].pc = "print"]
  BY DEF IInv, TypeOK, RunsOK, Second, SecondLog
<1>1. run' = [run EXCEPT ![p] = r]
  BY <1>0 DEF TypeOK
<1>2. /\ t \in Int /\ t >= 0 /\ t <= now /\ now <= MaxTime /\ now \in Int
      /\ run[p].mine \subseteq 1 .. njobs /\ \A j \in run[p].mine : jobs[j].log <= t
      /\ Of(t) # {} /\ run[p].cmd \in TwoLogs
  <2>1. t \in 0 .. (MaxTime + Pause) /\ now \in 0 .. MaxTime
    BY <1>0 DEF RunStates, TypeOK
  <2>2. /\ t <= now /\ run[p].mine \subseteq 1 .. njobs
        /\ \A j \in run[p].mine : jobs[j].log <= t
        /\ Of(t) # {} /\ run[p].cmd \in TwoLogs
    BY <1>0 DEF RunOK
  <2>3. QED
    BY <2>1, <2>2
<1>3. t + 1 \in Times
  BY <1>2 DEF Times
<1>4. /\ njobs + 1 \in Jobs /\ njobs' = njobs + 1 /\ njobs' \in 0 .. MaxJobs
      /\ jobs'[njobs + 1].log = t + 1 /\ \A j \in Jobs : j # njobs + 1 => jobs'[j] = jobs[j]
  BY <1>0, <1>3, LaunchedJob
<1>5. m \in SUBSET Jobs
  BY <1>0, <1>4 DEF RunStates
<1>6. /\ r \in RunStates /\ r.cmd = run[p].cmd /\ r.mine = m /\ r.t = t /\ r.pc = "print"
      /\ r.val = run[p].val
  <2> HIDE DEF m
  <2>1. QED
    BY <1>0, <1>5 DEF RunStates
<1> HIDE DEF r
<1>7. PICK x \in Times : x = t + 1
  BY <1>3
<1>8. /\ TypeOK' /\ Grows /\ JobsOK' /\ QuietOK' /\ run'[p] = r
      /\ \A q \in Procs : q # p => run'[q] = run[q]
      /\ Of(x)' # {} /\ \A u : Of(u) # {} => Of(u)' # {}
  <2>1. Launched(p, x)
    BY <1>0, <1>7
  <2>2. QED
    BY <1>0, <1>1, <1>6, <2>1, LaunchKeeps
<1>9. RunOK(p)'
  <2>1. \A j \in run[p].mine : j \in Jobs /\ j # njobs + 1 /\ jobs'[j] = jobs[j]
    <3>1. njobs \in Int /\ run[p].mine \subseteq Jobs
      BY <1>0 DEF TypeOK, RunStates
    <3>2. QED
      BY <1>2, <1>4, <3>1
  <2>2. m \subseteq 1 .. njobs'
    <3>1. njobs \in Nat
      BY <1>0 DEF TypeOK
    <3>2. QED
      BY <1>2, <1>4, <3>1
  <2>3. \A j \in run[p].mine : jobs'[j].log <= t
    BY <1>2, <2>1
  <2>4. \A j \in Jobs : jobs'[j].log \in Int
    BY <1>8 DEF TypeOK, JobStates, Times
  <2>5. \A j, k \in m : j # k => jobs'[j].log # jobs'[k].log
    <3>1. \A j, k \in run[p].mine : j # k => jobs'[j].log # jobs'[k].log
      BY <1>0, <2>1 DEF RunOK
    <3>2. \A j \in run[p].mine : jobs'[j].log # jobs'[njobs + 1].log
      BY <1>2, <1>4, <2>1, <2>3, <2>4
    <3>3. QED
      BY <3>1, <3>2
  <2>6. \A j \in m : jobs'[j].log <= t + 1
    BY <1>2, <1>4, <1>5, <2>3, <2>4
  <2>7. \A u \in LogsOf(run[p].cmd \in TwoLogs, t) : Of(u)' # {}
    <3>1. \A u \in LogsOf(run[p].cmd \in TwoLogs, t) : u = t \/ u = x
      BY <1>2, <1>7 DEF LogsOf
    <3>2. \A u : u = t => Of(u)' # {}
      BY <1>2, <1>8
    <3>3. QED
      BY <1>8, <3>1, <3>2
  <2>8. /\ run'[p].cmd = run[p].cmd /\ run'[p].mine = m /\ run'[p].t = t
        /\ run'[p].pc = "print" /\ now' = now
    BY <1>0, <1>6, <1>8
  <2> HIDE DEF m
  <2>9. QED
    BY <1>2, <1>8, <2>2, <2>5, <2>6, <2>7, <2>8 DEF RunOK
<1>10. QED
  BY <1>0, <1>8, <1>9, JobsStep

-----------------------------------------------------------------------------
\* The theorems.

LEMMA IInvStep == IInv /\ [Next]_vars => IInv'
<1> SUFFICES ASSUME IInv, [Next]_vars PROVE IInv'
  OBVIOUS
<1>1. CASE Tick
  BY <1>1, TickKeeps
<1>2. ASSUME NEW p \in Procs, Begin(p) PROVE IInv'
  BY <1>2, StartKeeps, QueryKeeps, CancelKeeps DEF Begin
<1>3. ASSUME NEW p \in Procs, Step(p) PROVE IInv'
  <2>1. CASE RateCrash(p) \/ Answered(p)
    BY <2>1, IdleKeeps DEF RateCrash, Answered
  <2>2. QED
    BY <1>3, <2>1, LookKeeps, FirstKeeps, SecondKeeps, PrintKeeps, NextPairKeeps,
       RateKeeps, Rate2Keeps, PsKeeps, KillKeeps, CancelledKeeps DEF Step
<1>4. ASSUME NEW j \in Jobs, Work(j) PROVE IInv'
  BY <1>4, OpensKeeps, SendsKeeps, FinishesKeeps, BreaksKeeps DEF Work
<1>5. CASE UNCHANGED vars
  <2>1. TypeOK' /\ Grows
    BY <1>5 DEF vars, IInv, TypeOK, Grows
  <2>2. JobsOK' /\ QuietOK'
    BY <1>5 DEF vars, IInv, JobsOK, QuietOK, Of
  <2>3. QED
    BY <1>5, <2>1, <2>2, JobsStep DEF vars
<1>6. QED
  BY <1>1, <1>2, <1>3, <1>4, <1>5 DEF Next

LEMMA Invariance == Spec => []IInv
BY IInvInit, IInvStep, PTL DEF Spec

\* Every log that a command has announced is there, or the job that writes it
\* has not begun or was killed: a query that finds none (fopen() in rate())
\* came too early or asks for a copy that was cancelled.
THEOREM LogsComing == Spec => []LogFollows
<1>1. IInv => LogFollows
  <2> SUFFICES ASSUME IInv, NEW a \in printed, NEW t \in LogsOf(a[1], a[2])
               PROVE  logs[t] # {} \/ \E j \in Of(t) : jobs[j].st \in {"shell", "dead"}
    BY DEF LogFollows
  <2>0. TypeOK /\ JobsOK /\ PrintedOK
    BY DEF IInv
  <2>1. PICK j \in Of(t) : TRUE
    BY <2>0 DEF PrintedOK
  <2>2. j \in Jobs /\ j \in 1 .. njobs /\ jobs[j].log = t
    BY <2>0, OfJobs DEF Of
  <2>3. jobs[j].st # "none"
    BY <2>0, <2>2 DEF JobsOK, TypeOK
  <2>4. jobs[j].st \in {"none", "shell", "copying", "done", "dead"}
    BY <2>0, <2>2 DEF TypeOK, JobStates
  <2>5. jobs[j].st \in {"copying", "done"} => j \in logs[t]
    BY <2>0, <2>2 DEF JobsOK
  <2>6. QED
    BY <2>1, <2>3, <2>4, <2>5
<1>2. QED
  BY <1>1, Invariance, PTL

\* A progress of 100 says that every copy of the command, of a backup both, has
\* sent all its bytes once or has no file to send, unless two jobs share the log:
\* rate() takes it from the command's own log, and the weighted sum of
\* backup_query reaches it only with two.  It says nothing of the rename.
THEOREM HundredMeansSent == Spec => []HundredSent
<1>1. IInv => HundredSent
  BY DEF IInv, RunsOK, RunOK, HundredSent, Settled
<1>2. QED
  BY <1>1, Invariance, PTL

\* The copies of one pbackup_backup have logs of their own: its sleep of two
\* seconds or more is what separates the pairs.
THEOREM PairsApart == Spec => []PbackupApart
<1>1. IInv => PbackupApart
  BY DEF IInv, RunsOK, RunOK, PbackupApart
<1>2. QED
  BY <1>1, Invariance, PTL

\* After migrate_cancel1 has said ok no copy of the machine is alive, as long
\* as no migrate_send1 ran beside it or follows.
THEOREM CancelComplete == Spec => []CancelLeavesNone
<1>1. IInv => CancelLeavesNone
  BY DEF IInv, QuietOK, CancelLeavesNone
<1>2. QED
  BY <1>1, Invariance, PTL
=============================================================================
