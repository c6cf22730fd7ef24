--------------------------- MODULE CvmPowerProofs ---------------------------
(***************************************************************************)
(* Proofs about CvmPower for any machines, invocations, commands and       *)
(* number of launches: what holds of a machine as long as no invocations   *)
(* for it overlapped and none looked at it while it was being launched.    *)
(***************************************************************************)
EXTENDS CvmPower, FiniteSetTheorems, TLAPS

\* Which command can be at which point of the program.
Path(r) ==
    /\ r.op = "status" => r.pc \in {"idle", "check", "done"}
    /\ r.op = "halt" => r.pc \in {"haltcheck", "ps", "kill", "recheck", "done"}
    /\ r.pc = "check" => r.op \in {"status", "on", "oson", "off", "expend", "recv"}
    /\ r.pc \in {"haltcheck", "ps", "kill"} => r.op \in {"halt", "recv"}
    /\ r.pc = "exec" => r.op \in {"on", "oson", "recv"}
    /\ r.pc = "recheck" => r.op \in {"on", "oson", "halt", "recv"}
    /\ r.pc = "resize" => r.op = "expend"
    /\ r.pc = "base" => r.op = "template"
    /\ r.pc = "create" => r.op \in {"add", "template", "drop", "rebuild", "recv", "oson"}
    /\ r.pc = "exists" => r.op \in {"add", "template"}
    /\ r.pc = "view" => r.op = "on"
    /\ r.pc \in {"rmvm", "rmback"} => r.op = "del"
    /\ r.pc \in {"sed", "rename"} => r.op \in {"del", "viewdel"}
    /\ r.pc \in {"fopen", "more"} => r.op = "viewadd"
    /\ r.pc \in {"monitor", "send"} =>
          \/ r.op = "on" /\ r.cmd \in {"loadvm_init", "c", "set_password"}
          \/ r.op = "viewadd" /\ r.cmd = "set_password"
          \/ r.op = "viewdel" /\ r.cmd = "clear_password"
          \/ /\ r.op \in {"off", "reset", "stop", "cont"}
             /\ r.cmd \notin {"set_password", "clear_password"}

PathsOK == \A p \in Cvms : Path(run[p])

\* The display :id+100 belongs to one QEMU.
UpOnce == \A i \in Ids : \A s, t \in Up(i) : s = t

\* Every machine that was started from VMi is up and has a password exactly
\* when it is listed, unless its image was removed.
Viewed(i) == \A s \in Launches(i) :
    qemu[i][s].from = "VM" =>
        /\ qemu[i][s].st = "up"
        /\ qemu[i][s].linked => (qemu[i][s].password <=> i \in tokens)

\* Points at which the machine of r may be on its way up.
Starting(r) == \/ r.pc = "recheck" /\ r.op \in {"on", "oson"}
               \/ r.pc = "done" /\ r.op = "recv"

\* Points at which the machine of r is off.
NeedsOff(r) ==
    \/ r.pc \in {"resize", "exec"}
    \/ r.pc = "create" /\ r.op = "recv"
    \/ r.pc = "recheck" /\ r.op \in {"halt", "recv"}
    \/ r.pc = "done" /\ <<r.op, r.ans>> \in {<<"status", "off">>, <<"halt", "ok">>}

\* vmon before it has looked for the machine in vnc_tokens.
Unlisted(r) == /\ r.op = "on"
               /\ \/ r.pc \in {"recheck", "view"}
                  \/ r.pc \in {"monitor", "send"} /\ r.cmd # "set_password"

\* Points at which the password and vnc_tokens may differ.
Amid(r) == \/ r.op = "on" /\ r.pc \in {"recheck", "view"}
           \/ r.op \in {"on", "viewadd", "viewdel"} /\ r.pc \in {"monitor", "send"}
           \/ r.pc = "more"

\* What an invocation that nobody disturbs knows about its machine.
PowerKnown(r) ==
    /\ Starting(r) \/ Launches(r.id) = Up(r.id)
    /\ NeedsOff(r) => Launches(r.id) = {}
    /\ r.pc \in {"kill", "send"} => Launches(r.id) \subseteq {r.slot}
    /\ r.pc = "kill" => ~r.sh

ViewKnown(r) ==
    /\ Unlisted(r) => \A s \in Launches(r.id) : ~qemu[r.id][s].password
    /\ r.op = "on" /\ r.pc \in {"monitor", "send"} /\ r.cmd = "set_password" => r.id \in tokens
    /\ r.pc = "more" => \A s \in Launches(r.id) : qemu[r.id][s].password
    /\ r.op = "viewadd" => ~r.stale
    /\ r.op = "viewdel" /\ r.pc \in {"monitor", "send"} => r.id \notin tokens
    /\ r.op = "del" /\ r.pc \in {"rmback", "sed", "rename", "done"} =>
          \A s \in Launches(r.id) : qemu[r.id][s].from # "VM" \/ ~qemu[r.id][s].linked
    /\ Amid(r) \/ Viewed(r.id)

\* Who is at a machine, and who holds a line for it meanwhile.
At(i) == {p \in Cvms : run[p].pc # "idle" /\ run[p].id = i}
Holders(i) == {p \in Cvms : i \in buf[p]}

MachinesOK == \A i \in Ids : ~raced[i] =>
    /\ \A p, q \in At(i) : p = q
    /\ \A p \in At(i) : PowerKnown(run[p]) /\ ViewKnown(run[p])
    /\ At(i) = {} /\ Holders(i) = {} => Viewed(i)
    /\ \A p \in At(i) : p \in TokenUsers => TokenUsers = {p}

\* A machine whose line addVMview holds has its password, and nobody else is at
\* it or rewrites vnc_tokens.
Held(p, i) ==
    /\ run[p].op = "viewadd" /\ run[p].pc \in {"monitor", "send", "more"}
    /\ run[p].id # i
    /\ ~raced[i] => /\ At(i) = {} /\ Holders(i) = {p} /\ TokenUsers = {p}
                    /\ ~run[p].stale
                    /\ Launches(i) = Up(i) /\ \A s \in Launches(i) : qemu[i][s].password

LinesOK == \A p \in Cvms : \A i \in buf[p] : Held(p, i)

\* The copy sed is about to put in place has every other machine's line right.
CopyOK(r) ==
    r.pc = "rename" =>
        /\ r.id \notin r.copy
        /\ \A i \in Ids \ {r.id} : ~raced[i] => (i \in r.copy <=> i \in tokens)

CopiesOK == \A p \in Cvms : CopyOK(run[p])

\* The inductive invariant.
IInv == TypeOK /\ PathsOK /\ UpOnce /\ MachinesOK /\ LinesOK /\ CopiesOK

-----------------------------------------------------------------------------
\* Facts about the operators.

USE JobsAssumption, LaunchAssumption, IdsAssumption

\* While no launch is under way, the lines of ps are the machine's QEMU.
LEMMA OnMeansUp ==
    ASSUME TypeOK, UpOnce, NEW i \in Ids, Launches(i) = Up(i)
    PROVE  /\ Shells(i) = {} /\ Qemus(i) = Launches(i)
           /\ vmison(i) <=> Launches(i) # {}
           /\ Lines(i) = 0 <=> Launches(i) = {}
<1>1. Shells(i) = {} /\ Qemus(i) = Up(i)
  BY DEF Shells, Qemus, Launches, Up
<1>2. Cardinality({}) = 0
  BY FS_EmptySet
<1>3. CASE Up(i) = {}
  BY <1>1, <1>2, <1>3 DEF vmison, Lines
<1>4. CASE Up(i) # {}
  <2>1. PICK s : s \in Up(i)
    BY <1>4
  <2>2. Up(i) = {s}
    BY <2>1 DEF UpOnce
  <2>3. Cardinality(Up(i)) = 1
    BY <2>2, FS_Singleton
  <2>4. QED
    BY <1>1, <1>2, <1>4, <2>3 DEF vmison, Lines
<1>5. QED
  BY <1>3, <1>4

LEMMA RunTyped ==
    ASSUME TypeOK, NEW p \in Cvms
    PROVE  /\ run[p] \in Invocation /\ run[p].pc \in Labels /\ run[p].op \in AllOps
           /\ run[p].id \in Ids /\ run[p].cmd \in Commands /\ run[p].ans \in Answers
           /\ run[p].slot \in Slots \cup {0} /\ run[p].sh \in BOOLEAN
           /\ run[p].copy \in SUBSET Ids /\ run[p].stale \in BOOLEAN
<1>1. run[p] \in Invocation
  BY DEF TypeOK
<1>2. QED
  BY <1>1 DEF Invocation

\* p becomes w and nobody else changes.
Becomes(p, w) ==
    /\ w \in Invocation
    /\ w.op = run[p].op /\ w.id = run[p].id
    /\ run' = [run EXCEPT ![p] = w]

LEMMA GotoFacts ==
    ASSUME TypeOK, NEW p \in Cvms, NEW l \in Labels, Goto(p, l)
    PROVE  \E w : /\ Becomes(p, w)
                  /\ w.pc = l /\ w.cmd = run[p].cmd /\ w.ans = run[p].ans
                  /\ w.slot = run[p].slot /\ w.sh = run[p].sh
                  /\ w.copy = run[p].copy /\ w.stale = run[p].stale
<1>1. PICK r : r = run[p]
  OBVIOUS
<1>2. r \in Invocation
  BY <1>1, RunTyped
<1>3. PICK w : w = [r EXCEPT !.pc = l]
  OBVIOUS
<1>4. w = [pc |-> l, op |-> r.op, id |-> r.id, cmd |-> r.cmd, ans |-> r.ans,
           slot |-> r.slot, sh |-> r.sh, copy |-> r.copy, stale |-> r.stale]
  BY <1>2, <1>3 DEF Invocation
<1>5. run' = [run EXCEPT ![p] = w]
  BY <1>1, <1>3 DEF Goto
<1>6. /\ w \in Invocation /\ w.op = r.op /\ w.id = r.id
      /\ w.pc = l /\ w.cmd = r.cmd /\ w.ans = r.ans
      /\ w.slot = r.slot /\ w.sh = r.sh /\ w.copy = r.copy /\ w.stale = r.stale
  BY <1>2, <1>4 DEF Invocation
<1>7. QED
  BY <1>1, <1>5, <1>6 DEF Becomes

LEMMA AnswerFacts ==
    ASSUME TypeOK, NEW p \in Cvms, NEW a \in Answers, Answer(p, a)
    PROVE  \E w : /\ Becomes(p, w)
                  /\ w.pc = "done" /\ w.ans = a /\ w.stale = run[p].stale
<1>1. PICK r : r = run[p]
  OBVIOUS
<1>2. r \in Invocation
  BY <1>1, RunTyped
<1>3. PICK w : w = [r EXCEPT !.pc = "done", !.ans = a]
  OBVIOUS
<1>4. w = [pc |-> "done", op |-> r.op, id |-> r.id, cmd |-> r.cmd, ans |-> a,
           slot |-> r.slot, sh |-> r.sh, copy |-> r.copy, stale |-> r.stale]
  BY <1>2, <1>3 DEF Invocation
<1>5. run' = [run EXCEPT ![p] = w]
  BY <1>1, <1>3 DEF Answer
<1>6. /\ w \in Invocation /\ w.op = r.op /\ w.id = r.id
      /\ w.pc = "done" /\ w.ans = a /\ w.stale = r.stale
  BY <1>2, <1>4 DEF Invocation, Labels
<1>7. QED
  BY <1>1, <1>5, <1>6 DEF Becomes

LEMMA MonitorFacts ==
    ASSUME TypeOK, NEW p \in Cvms, NEW c \in Commands, Monitor(p, c)
    PROVE  \E w : /\ Becomes(p, w)
                  /\ w.pc = "monitor" /\ w.cmd = c /\ w.stale = run[p].stale
<1>1. PICK r : r = run[p]
  OBVIOUS
<1>2. r \in Invocation
  BY <1>1, RunTyped
<1>3. PICK w : w = [r EXCEPT !.pc = "monitor", !.cmd = c]
  OBVIOUS
<1>4. w = [pc |-> "monitor", op |-> r.op, id |-> r.id, cmd |-> c, ans |-> r.ans,
           slot |-> r.slot, sh |-> r.sh, copy |-> r.copy, stale |-> r.stale]
  BY <1>2, <1>3 DEF Invocation
<1>5. run' = [run EXCEPT ![p] = w]
  BY <1>1, <1>3 DEF Monitor
<1>6. /\ w \in Invocation /\ w.op = r.op /\ w.id = r.id
      /\ w.pc = "monitor" /\ w.cmd = c /\ w.stale = r.stale
  BY <1>2, <1>4 DEF Invocation, Labels
<1>7. QED
  BY <1>1, <1>5, <1>6 DEF Becomes

\* What is known of a machine depends on its launches and its line alone.
LEMMA ViewedFrame ==
    ASSUME NEW i, qemu'[i] = qemu[i], i \in tokens' <=> i \in tokens
    PROVE  /\ Launches(i)' = Launches(i) /\ Up(i)' = Up(i)
           /\ Viewed(i)' <=> Viewed(i)
<1>1. Launches(i)' = Launches(i) /\ Up(i)' = Up(i)
  BY DEF Launches, Up
<1>2. QED
  BY <1>1 DEF Viewed

LEMMA KnownFrame ==
    ASSUME NEW r, qemu'[r.id] = qemu[r.id], r.id \in tokens' <=> r.id \in tokens
    PROVE  /\ PowerKnown(r)' <=> PowerKnown(r)
           /\ ViewKnown(r)' <=> ViewKnown(r)
<1>1. PICK i : i = r.id
  OBVIOUS
<1>2. /\ Launches(i)' = Launches(i) /\ Up(i)' = Up(i)
      /\ Viewed(i)' <=> Viewed(i)
  BY <1>1, ViewedFrame
<1>3. PowerKnown(r)' <=> PowerKnown(r)
  BY <1>1, <1>2 DEF PowerKnown, Starting, NeedsOff
<1>4. ViewKnown(r)' <=> ViewKnown(r)
  BY <1>1, <1>2 DEF ViewKnown, Unlisted, Amid
<1>5. QED
  BY <1>3, <1>4

LEMMA PathSame ==
    ASSUME NEW r, NEW w, w.pc = r.pc, w.op = r.op, w.cmd = r.cmd, Path(r)
    PROVE  Path(w)
BY DEF Path

\* A step of p, on its own machine, that leaves it active.  Others may lose the
\* launch they talk to, or find their file replaced.
Others(p) == \A q \in Cvms \ {p} :
    /\ run'[q].pc = run[q].pc /\ run'[q].op = run[q].op /\ run'[q].id = run[q].id
    /\ run'[q].cmd = run[q].cmd /\ run'[q].copy = run[q].copy
    /\ run[q].id # run[p].id /\ ~raced[run[q].id] => run'[q] = run[q]
    /\ p \notin TokenUsers => run'[q].stale = run[q].stale

\* p goes on holding the lines it holds ...
Calm(p, w) ==
    run[p].op = "viewadd" /\ run[p].pc \in {"monitor", "send", "more"} =>
        w.pc \in {"monitor", "send", "more"} /\ w.stale = run[p].stale
Keeps(p, w) == buf' = buf /\ Calm(p, w)

\* ... or has written or lost all of them.
Releases(p) ==
    /\ buf' = [buf EXCEPT ![p] = {}]
    /\ \A j \in buf[p] : raced'[j] \/ Viewed(j)'

LEMMA HeldFrame ==
    ASSUME NEW q \in Cvms, NEW j, Held(q, j), run'[q].op = run[q].op,
           run'[q].pc \in {"monitor", "send", "more"}, run'[q].id # j,
           ~raced'[j] => /\ ~raced[j] /\ At(j)' = At(j) /\ Holders(j)' = Holders(j)
                         /\ TokenUsers' = TokenUsers /\ run'[q].stale = run[q].stale
                         /\ \/ qemu'[j] = qemu[j]
                            \/ /\ Launches(j)' = Up(j)'
                               /\ \A s \in Launches(j)' : qemu'[j][s].password
    PROVE  Held(q, j)'
<1>1. qemu'[j] = qemu[j] => Launches(j)' = Launches(j) /\ Up(j)' = Up(j)
  BY DEF Launches, Up
<1>2. QED
  BY <1>1 DEF Held

LEMMA LocalKeeps ==
    ASSUME IInv, TypeOK', NEW p \in Cvms, NEW w, run'[p] = w,
           run[p].pc # "idle", w.pc # "idle", w.op = run[p].op, w.id = run[p].id,
           Others(p), Keeps(p, w) \/ Releases(p),
           \A j \in Ids \ {w.id} : qemu'[j] = qemu[j],
           \A j \in Ids \ {w.id} : ~raced[j] => (j \in tokens' <=> j \in tokens) \/ j \in buf[p],
           (w.id \in tokens' <=> w.id \in tokens) \/ p \in TokenUsers,
           \A j \in Ids : raced[j] => raced'[j],
           \A s, t \in Up(w.id)' : s = t,
           Path(w), CopyOK(w)',
           ~raced'[w.id] => PowerKnown(w)' /\ ViewKnown(w)'
    PROVE  IInv'
<1> PICK i \in Ids : i = w.id
  BY RunTyped DEF IInv
<1>0. TypeOK /\ PathsOK /\ UpOnce /\ MachinesOK /\ LinesOK /\ CopiesOK
  BY DEF IInv
<1>1. PathsOK'
  <2> SUFFICES ASSUME NEW q \in Cvms
               PROVE  Path(run'[q])
    BY DEF PathsOK
  <2>1. CASE q # p
    BY <1>0, <2>1, PathSame DEF PathsOK, Others
  <2>2. QED
    BY <2>1
<1>2. UpOnce'
  <2>1. \A j \in Ids \ {i} : Up(j)' = Up(j)
    BY DEF Up
  <2>2. QED
    BY <1>0, <2>1 DEF UpOnce
<1>3. /\ \A j \in Ids : At(j)' = At(j)
      /\ TokenUsers' = TokenUsers
  BY DEF At, TokenUsers, Others
<1>7. /\ \A q \in Cvms \ {p} : buf'[q] = buf[q]
      /\ buf'[p] = buf[p] \/ buf'[p] = {}
  BY <1>0 DEF TypeOK, Keeps, Releases
<1>8. ASSUME NEW j \in buf[p]
      PROVE  /\ j \in Ids /\ Held(p, j)
             /\ ~raced'[j] => At(j) = {} /\ TokenUsers = {p}
  <2>1. j \in Ids /\ Held(p, j)
    BY <1>0 DEF TypeOK, LinesOK
  <2>2. QED
    BY <2>1 DEF Held
<1>9. LinesOK'
  <2> SUFFICES ASSUME NEW q \in Cvms, NEW j \in buf'[q]
               PROVE  Held(q, j)'
    BY DEF LinesOK
  <2>1. j \in buf[q] /\ (q = p => Keeps(p, w))
    <3>1. Releases(p) => buf'[p] = {}
      BY <1>0 DEF TypeOK, Releases
    <3>2. QED
      BY <1>7, <3>1
  <2>2. j \in Ids /\ Held(q, j)
    BY <1>0, <2>1 DEF TypeOK, LinesOK
  <2>3. /\ run'[q].op = run[q].op /\ run'[q].id = run[q].id
        /\ run'[q].pc \in {"monitor", "send", "more"}
    <3>1. CASE q = p
      BY <2>1, <2>2, <3>1 DEF Held, Keeps, Calm
    <3>2. CASE q # p
      BY <2>2, <3>2 DEF Held, Others
    <3>3. QED
      BY <3>1, <3>2
  <2>4. run'[q].id # j
    BY <2>2, <2>3 DEF Held
  <2>5. ASSUME ~raced'[j]
        PROVE  /\ ~raced[j] /\ At(j)' = At(j) /\ Holders(j)' = Holders(j)
               /\ TokenUsers' = TokenUsers /\ run'[q].stale = run[q].stale
               /\ qemu'[j] = qemu[j]
    <3>1. ~raced[j]
      BY <2>2, <2>5
    <3>2. At(j) = {} /\ Holders(j) = {q} /\ TokenUsers = {q}
      BY <2>2, <3>1 DEF Held
    <3>3. j # w.id
      BY <3>2 DEF At
    <3>4. Holders(j)' = Holders(j)
      BY <1>7, <3>2 DEF Holders
    <3>5. run'[q].stale = run[q].stale
      <4>1. CASE q = p
        BY <2>1, <2>2, <4>1 DEF Held, Keeps, Calm
      <4>2. CASE q # p
        BY <3>2, <4>2 DEF Others
      <4>3. QED
        BY <4>1, <4>2
    <3>6. QED
      BY <1>3, <2>2, <3>1, <3>3, <3>4, <3>5
  <2>6. QED
    BY <2>2, <2>3, <2>4, <2>5, HeldFrame
<1>4. MachinesOK'
  <2> SUFFICES ASSUME NEW j \in Ids, ~raced'[j]
               PROVE  /\ \A x, y \in At(j)' : x = y
                      /\ \A x \in At(j)' : PowerKnown(run[x])' /\ ViewKnown(run[x])'
                      /\ At(j)' = {} /\ Holders(j)' = {} => Viewed(j)'
                      /\ \A x \in At(j)' : x \in TokenUsers' => TokenUsers' = {x}
    BY DEF MachinesOK
  <2>1. /\ ~raced[j]
        /\ \A x, y \in At(j) : x = y
        /\ \A x \in At(j) : PowerKnown(run[x]) /\ ViewKnown(run[x])
        /\ At(j) = {} /\ Holders(j) = {} => Viewed(j)
        /\ \A x \in At(j) : x \in TokenUsers => TokenUsers = {x}
    BY <1>0 DEF MachinesOK
  <2>2. CASE j = i
    <3>1. p \in At(j)
      BY <2>2 DEF At
    <3>2. \A x \in At(j) : run'[x] = w
      BY <2>1, <3>1
    <3>3. QED
      BY <1>3, <2>1, <2>2, <3>1, <3>2
  <2>5. CASE j \in buf[p]
    <3>1. At(j)' = {}
      BY <1>3, <1>8, <2>5
    <3>2. Holders(j)' # {} \/ Viewed(j)'
      BY <2>5 DEF Keeps, Releases, Holders
    <3>3. QED
      BY <3>1, <3>2
  <2>3. CASE j # i /\ j \notin buf[p]
    <3>1. qemu'[j] = qemu[j] /\ (j \in tokens' <=> j \in tokens)
      BY <2>1, <2>3
    <3>5. Holders(j)' = Holders(j)
      BY <1>7, <2>3 DEF Holders
    <3>2. Viewed(j)' <=> Viewed(j)
      BY <3>1, ViewedFrame
    <3>3. ASSUME NEW x \in At(j)
          PROVE  PowerKnown(run[x])' /\ ViewKnown(run[x])'
      <4>1. x \in Cvms /\ run[x].id = j /\ x # p
        BY <2>3 DEF At
      <4>2. run'[x] = run[x]
        BY <2>1, <2>3, <4>1 DEF Others
      <4>3. PICK r : r = run[x]
        OBVIOUS
      <4>4. PowerKnown(r)' /\ ViewKnown(r)'
        BY <2>1, <3>1, <4>1, <4>3, KnownFrame
      <4>5. QED
        BY <4>2, <4>3, <4>4
    <3>4. QED
      BY <1>3, <2>1, <3>2, <3>3, <3>5
  <2>4. QED
    BY <2>2, <2>3, <2>5
<1>5. CopiesOK'
  <2> SUFFICES ASSUME NEW q \in Cvms
               PROVE  CopyOK(run[q])'
    BY DEF CopiesOK
  <2>1. CASE q = p
    BY <2>1
  <2>2. CASE q # p
    <3> SUFFICES ASSUME run'[q].pc = "rename"
                 PROVE  /\ run'[q].id \notin run'[q].copy
                        /\ \A j \in Ids \ {run'[q].id} :
                             ~raced'[j] => (j \in run'[q].copy <=> j \in tokens')
      BY DEF CopyOK
    <3>1. /\ run[q].pc = "rename" /\ run'[q].id = run[q].id /\ run'[q].copy = run[q].copy
          /\ run[q].id \notin run[q].copy
          /\ \A j \in Ids \ {run[q].id} : ~raced[j] => (j \in run[q].copy <=> j \in tokens)
      BY <1>0, <2>2 DEF Others, CopiesOK, CopyOK
    <3>2. q \in TokenUsers
      BY <1>0, <3>1 DEF TokenUsers, TokenOps, PathsOK, Path
    <3>3. ASSUME NEW j \in Ids, ~raced'[j]
          PROVE  j \in tokens' <=> j \in tokens
      <4>1. ~raced[j]
        BY <3>3
      <4>2. CASE j # i
        <5>1. j \notin buf[p]
          BY <1>8, <2>2, <3>2, <3>3
        <5>2. QED
          BY <4>1, <4>2, <5>1
      <4>3. CASE j = i
        <5>1. p \in At(j)
          BY <4>3 DEF At
        <5>2. p \notin TokenUsers
          BY <1>0, <2>2, <3>2, <4>1, <5>1 DEF MachinesOK
        <5>3. QED
          BY <4>3, <5>2
      <4>4. QED
        BY <4>2, <4>3
    <3>4. QED
      BY <3>1, <3>3
  <2>3. QED
    BY <2>1, <2>2
<1>6. QED
  BY <1>1, <1>2, <1>4, <1>5, <1>9 DEF IInv

\* A step that changes p alone, and perhaps image files or raced.
LEMMA MoveKeeps ==
    ASSUME IInv, NEW p \in Cvms, NEW w, Becomes(p, w), run[p].pc # "idle", w.pc # "idle",
           UNCHANGED <<tokens, qemu>>,
           vm' \in [Ids -> BOOLEAN], back' \in [Ids -> BOOLEAN], base' \in [Ids -> Ids],
           raced' \in [Ids -> BOOLEAN], \A j \in Ids : raced[j] => raced'[j],
           Keeps(p, w) \/ Releases(p), Path(w), CopyOK(w),
           ~raced'[w.id] => PowerKnown(w) /\ ViewKnown(w)
    PROVE  IInv'
<1>0. TypeOK /\ UpOnce
  BY DEF IInv
<1>1. TypeOK'
  <2>1. buf' \in [Cvms -> SUBSET Ids]
    BY <1>0 DEF TypeOK, Keeps, Releases
  <2>2. QED
    BY <1>0, <2>1 DEF TypeOK, Becomes
<1>2. /\ run'[p] = w /\ w.op = run[p].op /\ w.id = run[p].id
      /\ \A q \in Cvms \ {p} : run'[q] = run[q]
  BY <1>0 DEF TypeOK, Becomes
<1>3. Others(p)
  BY <1>2 DEF Others
<1>4. \A s, t \in Up(w.id)' : s = t
  <2>1. w.id \in Ids
    BY <1>0, <1>2, RunTyped
  <2>2. Up(w.id)' = Up(w.id)
    BY DEF Up
  <2>3. QED
    BY <1>0, <2>1, <2>2 DEF UpOnce
<1>5. CopyOK(w)'
  BY DEF CopyOK
<1>6. ~raced'[w.id] => PowerKnown(w)' /\ ViewKnown(w)'
  BY KnownFrame
<1>7. QED
  BY <1>1, <1>2, <1>3, <1>4, <1>5, <1>6, LocalKeeps

\* What the invariant says of an invocation that is about to take a step.
LEMMA Ready ==
    ASSUME IInv, NEW p \in Cvms, NEW r, r = run[p], r.pc # "idle"
    PROVE  /\ TypeOK /\ UpOnce /\ r.id \in Ids /\ r.op \in AllOps /\ r.slot \in Slots \cup {0}
           /\ Path(r) /\ CopyOK(r)
           /\ ~raced[r.id] => PowerKnown(r) /\ ViewKnown(r)
           /\ Launches(r.id) = Up(r.id) =>
                /\ Shells(r.id) = {} /\ Qemus(r.id) = Launches(r.id)
                /\ vmison(r.id) <=> Launches(r.id) # {}
                /\ Lines(r.id) = 0 <=> Launches(r.id) = {}
<1>1. TypeOK /\ PathsOK /\ UpOnce /\ MachinesOK /\ CopiesOK
  BY DEF IInv
<1>2. r.id \in Ids /\ r.op \in AllOps /\ r.slot \in Slots \cup {0}
  BY <1>1, RunTyped
<1>3. Path(r) /\ CopyOK(r)
  BY <1>1 DEF PathsOK, CopiesOK
<1>4. ~raced[r.id] => PowerKnown(r) /\ ViewKnown(r)
  BY <1>1, <1>2 DEF MachinesOK, At
<1>5. QED
  BY <1>1, <1>2, <1>3, <1>4, OnMeansUp

\* As MoveKeeps, for the steps that leave image files and raced alone.
LEMMA SimpleKeeps ==
    ASSUME IInv, NEW p \in Cvms, NEW w, Becomes(p, w), run[p].pc # "idle", w.pc # "idle",
           UNCHANGED <<files, qemu, raced>>,
           run[p].pc \notin {"monitor", "send", "more"} \/ Calm(p, w),
           Path(w), CopyOK(w),
           ~raced[w.id] => PowerKnown(w) /\ ViewKnown(w)
    PROVE  IInv'
<1>4. Keeps(p, w)
  BY DEF Keeps, Calm, files
<1>1. /\ UNCHANGED <<tokens, qemu>> /\ raced' = raced
      /\ vm' = vm /\ back' = back /\ base' = base
  BY DEF files, images
<1>2. /\ vm \in [Ids -> BOOLEAN] /\ back \in [Ids -> BOOLEAN] /\ base \in [Ids -> Ids]
      /\ raced \in [Ids -> BOOLEAN]
  BY DEF IInv, TypeOK
<1>3. QED
  BY <1>1, <1>2, <1>4, MoveKeeps

-----------------------------------------------------------------------------
\* Steps of an invocation.

LEMMA CheckKeeps ==
    ASSUME IInv, NEW p \in Cvms, Check(p)
    PROVE  IInv'
<1> PICK r : r = run[p]
  OBVIOUS
<1> DEFINE Outcome(w) ==
             \/ /\ r.op = "status" /\ w.pc = "done"
                /\ w.ans = IF vmison(r.id) THEN "on" ELSE "off"
             \/ r.op \in {"on", "oson", "off", "expend"} /\ w.pc = "done"
             \/ r.op = "off" /\ w.pc = "monitor" /\ w.cmd = "system_powerdown"
             \/ r.op \in {"on", "oson"} /\ ~vmison(r.id) /\ w.pc = "exec"
             \/ r.op = "expend" /\ ~vmison(r.id) /\ w.pc = "resize"
             \/ r.op = "recv" /\ vmison(r.id) /\ w.pc = "haltcheck"
             \/ r.op = "recv" /\ ~vmison(r.id) /\ w.pc = "create"
<1>0. r.pc = "check" /\ UNCHANGED <<files, qemu, raced>>
  BY DEF Check
<1>1. /\ TypeOK /\ r.id \in Ids /\ Path(r)
      /\ ~raced[r.id] => PowerKnown(r) /\ ViewKnown(r)
      /\ Launches(r.id) = Up(r.id) => (vmison(r.id) <=> Launches(r.id) # {})
  BY <1>0, Ready
<1>2. r.op \in {"status", "on", "oson", "off", "expend", "recv"}
  BY <1>0, <1>1 DEF Path
<1>3. ~raced[r.id] => /\ Launches(r.id) = Up(r.id) /\ Viewed(r.id)
                      /\ vmison(r.id) <=> Launches(r.id) # {}
  BY <1>0, <1>1 DEF PowerKnown, ViewKnown, Starting, Amid
<1>4. PICK w : Becomes(p, w) /\ Outcome(w)
  <2>0. "done" \in Labels /\ "exec" \in Labels /\ "resize" \in Labels /\ "haltcheck" \in Labels
        /\ "create" \in Labels /\ "system_powerdown" \in Commands
        /\ {"on", "off", "ok", "error"} \subseteq Answers
    BY DEF Labels, Commands, Answers
  <2>1. CASE r.op = "status"
    <3>1. PICK a : a = IF vmison(r.id) THEN "on" ELSE "off"
      OBVIOUS
    <3>2. Answer(p, a) /\ a \in Answers
      BY <2>0, <2>1, <3>1 DEF Check
    <3>3. PICK w : Becomes(p, w) /\ w.pc = "done" /\ w.ans = a
      BY <1>1, <3>2, AnswerFacts
    <3>4. QED
      BY <2>1, <3>1, <3>3
  <2>2. CASE r.op \in {"on", "oson", "off", "expend"} /\ vmison(r.id) /\ r.op # "off"
    <3>1. \E a \in Answers : Answer(p, a)
      BY <2>0, <2>2 DEF Check
    <3>2. QED
      BY <1>1, <2>2, <3>1, AnswerFacts
  <2>3. CASE r.op = "off"
    <3>1. Monitor(p, "system_powerdown") \/ Answer(p, "ok")
      BY <2>3 DEF Check
    <3>2. QED
      BY <1>1, <2>0, <2>3, <3>1, AnswerFacts, MonitorFacts
  <2>4. CASE r.op \in {"on", "oson"} /\ ~vmison(r.id)
    <3>1. Goto(p, "exec")
      BY <2>4 DEF Check
    <3>2. QED
      BY <1>1, <2>0, <2>4, <3>1, GotoFacts
  <2>5. CASE r.op = "expend" /\ ~vmison(r.id)
    <3>1. Goto(p, "resize")
      BY <2>5 DEF Check
    <3>2. QED
      BY <1>1, <2>0, <2>5, <3>1, GotoFacts
  <2>6. CASE r.op = "recv" /\ vmison(r.id)
    <3>1. Goto(p, "haltcheck")
      BY <2>6 DEF Check
    <3>2. QED
      BY <1>1, <2>0, <2>6, <3>1, GotoFacts
  <2>7. CASE r.op = "recv" /\ ~vmison(r.id)
    <3>1. Goto(p, "create")
      BY <2>7 DEF Check
    <3>2. QED
      BY <1>1, <2>0, <2>7, <3>1, GotoFacts
  <2>8. QED
    BY <1>2, <2>1, <2>2, <2>3, <2>4, <2>5, <2>6, <2>7
<1>5. w.op = r.op /\ w.id = r.id
  BY <1>4 DEF Becomes
<1>6. w.pc # "idle" /\ Path(w) /\ CopyOK(w)
  BY <1>4, <1>5 DEF Path, CopyOK
<1>7. ASSUME ~raced[w.id]
      PROVE  PowerKnown(w) /\ ViewKnown(w)
  <2>1. Launches(w.id) = Up(w.id) /\ Viewed(w.id) /\ (vmison(w.id) <=> Launches(w.id) # {})
    BY <1>3, <1>5, <1>7
  <2>2. PowerKnown(w)
    BY <1>4, <1>5, <2>1 DEF PowerKnown, Starting, NeedsOff
  <2>3. ViewKnown(w)
    BY <1>4, <1>5, <2>1 DEF ViewKnown, Unlisted, Amid
  <2>4. QED
    BY <2>2, <2>3
<1>8. QED
  BY <1>0, <1>4, <1>6, <1>7, SimpleKeeps

\* vmhalt() comes back to power_halt or to migrate_recv0.
LEMMA HaltedFacts ==
    ASSUME TypeOK, NEW p \in Cvms, NEW ok \in BOOLEAN, Halted(p, ok),
           run[p].op \in {"halt", "recv"}
    PROVE  \E w : /\ Becomes(p, w)
                  /\ \/ run[p].op = "recv" /\ w.pc = "create"
                     \/ run[p].op = "halt" /\ w.pc = "done"
<1>1. "create" \in Labels /\ {"ok", "error"} \subseteq Answers
  BY DEF Labels, Answers
<1>2. CASE run[p].op = "recv"
  BY <1>1, <1>2, GotoFacts DEF Halted
<1>3. CASE run[p].op = "halt"
  <2>1. PICK a \in Answers : Answer(p, a)
    BY <1>1, <1>3 DEF Halted
  <2>2. QED
    BY <1>3, <2>1, AnswerFacts
<1>4. QED
  BY <1>2, <1>3

\* An invocation whose vmhalt() is over and whose machine is off.
LEMMA HaltedKnown ==
    ASSUME NEW r, NEW w, w.id = r.id, w.op = r.op, r.op \in {"halt", "recv"},
           Launches(r.id) = Up(r.id), Launches(r.id) = {}, w.pc \in {"create", "done"},
           w.pc = "done" => w.op = "halt"
    PROVE  PowerKnown(w) /\ ViewKnown(w)
<1>1. Viewed(w.id)
  BY DEF Viewed
<1>2. QED
  BY <1>1 DEF PowerKnown, Starting, ViewKnown, Unlisted, Amid

LEMMA HaltCheckKeeps ==
    ASSUME IInv, NEW p \in Cvms, HaltCheck(p)
    PROVE  IInv'
<1> PICK r : r = run[p]
  OBVIOUS
<1>0. r.pc = "haltcheck" /\ UNCHANGED <<files, qemu, raced>>
  BY DEF HaltCheck
<1>1. /\ TypeOK /\ r.id \in Ids /\ Path(r)
      /\ ~raced[r.id] => PowerKnown(r) /\ ViewKnown(r)
      /\ Launches(r.id) = Up(r.id) => (vmison(r.id) <=> Launches(r.id) # {})
  BY <1>0, Ready
<1>2. r.op \in {"halt", "recv"}
  BY <1>0, <1>1 DEF Path
<1>3. ~raced[r.id] => /\ Launches(r.id) = Up(r.id) /\ Viewed(r.id)
                      /\ vmison(r.id) <=> Launches(r.id) # {}
  BY <1>0, <1>1 DEF PowerKnown, ViewKnown, Starting, Amid
<1>4. CASE vmison(r.id)
  <2>1. Goto(p, "ps") /\ "ps" \in Labels
    BY <1>4 DEF HaltCheck, Labels
  <2>2. PICK w : Becomes(p, w) /\ w.pc = "ps"
    BY <1>1, <2>1, GotoFacts
  <2>3. w.op = r.op /\ w.id = r.id
    BY <2>2 DEF Becomes
  <2>4. w.pc # "idle" /\ Path(w) /\ CopyOK(w)
    BY <1>2, <2>2, <2>3 DEF Path, CopyOK
  <2>5. ~raced[w.id] => PowerKnown(w) /\ ViewKnown(w)
    BY <1>2, <1>3, <2>2, <2>3
       DEF PowerKnown, Starting, NeedsOff, ViewKnown, Unlisted, Amid
  <2>6. QED
    BY <1>0, <2>2, <2>4, <2>5, SimpleKeeps
<1>5. CASE ~vmison(r.id)
  <2>1. PICK w : /\ Becomes(p, w)
                 /\ \/ r.op = "recv" /\ w.pc = "create"
                    \/ r.op = "halt" /\ w.pc = "done"
    BY <1>1, <1>2, <1>5, HaltedFacts DEF HaltCheck
  <2>2. w.op = r.op /\ w.id = r.id
    BY <2>1 DEF Becomes
  <2>3. w.pc # "idle" /\ Path(w) /\ CopyOK(w)
    BY <1>2, <2>1, <2>2 DEF Path, CopyOK
  <2>4. ~raced[w.id] => PowerKnown(w) /\ ViewKnown(w)
    BY <1>2, <1>3, <1>5, <2>1, <2>2, HaltedKnown
  <2>5. QED
    BY <1>0, <2>1, <2>3, <2>4, SimpleKeeps
<1>6. QED
  BY <1>4, <1>5

LEMMA PsKeeps ==
    ASSUME IInv, NEW p \in Cvms, Ps(p)
    PROVE  IInv'
<1> PICK r : r = run[p]
  OBVIOUS
<1>0. r.pc = "ps" /\ UNCHANGED <<files, qemu, raced>>
  BY DEF Ps
<1>1. /\ TypeOK /\ r.id \in Ids /\ Path(r)
      /\ ~raced[r.id] => PowerKnown(r) /\ ViewKnown(r)
      /\ UpOnce
      /\ Launches(r.id) = Up(r.id) => /\ Shells(r.id) = {}
                                      /\ Lines(r.id) = 0 <=> Launches(r.id) = {}
                                      /\ Qemus(r.id) = Launches(r.id)
  BY <1>0, Ready
<1>2. r.op \in {"halt", "recv"}
  BY <1>0, <1>1 DEF Path
<1>3. ~raced[r.id] => /\ Launches(r.id) = Up(r.id) /\ Viewed(r.id)
                      /\ Shells(r.id) = {} /\ (Lines(r.id) = 0 <=> Launches(r.id) = {})
                      /\ Qemus(r.id) = Launches(r.id)
  BY <1>0, <1>1 DEF PowerKnown, ViewKnown, Starting, Amid
<1>4. CASE Lines(r.id) = 0 /\ Halted(p, TRUE)
  <2>1. PICK w : /\ Becomes(p, w)
                 /\ \/ r.op = "recv" /\ w.pc = "create"
                    \/ r.op = "halt" /\ w.pc = "done"
    BY <1>1, <1>2, <1>4, HaltedFacts
  <2>2. w.op = r.op /\ w.id = r.id
    BY <2>1 DEF Becomes
  <2>3. w.pc # "idle" /\ Path(w) /\ CopyOK(w)
    BY <1>2, <2>1, <2>2 DEF Path, CopyOK
  <2>4. ~raced[w.id] => PowerKnown(w) /\ ViewKnown(w)
    BY <1>2, <1>3, <1>4, <2>1, <2>2, HaltedKnown
  <2>5. QED
    BY <1>0, <2>1, <2>3, <2>4, SimpleKeeps
<1>5. ASSUME NEW s \in Shells(r.id) \cup Qemus(r.id),
             run' = [run EXCEPT ![p].pc = "kill", ![p].slot = s,
                                ![p].sh = s \in Shells(r.id)]
      PROVE  IInv'
  <2>1. r \in Invocation /\ s \in Slots
    BY <1>1, RunTyped DEF Shells, Qemus
  <2>2. PICK b : b = (s \in Shells(r.id))
    OBVIOUS
  <2>3. PICK w : w = [r EXCEPT !.pc = "kill", !.slot = s, !.sh = b]
    OBVIOUS
  <2>4. w = [pc |-> "kill", op |-> r.op, id |-> r.id, cmd |-> r.cmd, ans |-> r.ans,
             slot |-> s, sh |-> b, copy |-> r.copy, stale |-> r.stale]
    BY <2>1, <2>3 DEF Invocation
  <2>5. run' = [run EXCEPT ![p] = w]
    BY <1>5, <2>2, <2>3
  <2>6. b \in BOOLEAN
    BY <2>2
  <2>7. /\ w \in Invocation /\ w.op = r.op /\ w.id = r.id
        /\ w.pc = "kill" /\ w.slot = s /\ w.sh = b
    BY <2>1, <2>4, <2>6 DEF Invocation, Labels
  <2>8. Becomes(p, w)
    BY <2>5, <2>7 DEF Becomes
  <2>9. w.pc # "idle" /\ Path(w) /\ CopyOK(w)
    BY <1>2, <2>7 DEF Path, CopyOK
  <2>10. ASSUME ~raced[w.id]
         PROVE  PowerKnown(w) /\ ViewKnown(w)
    <3>1. /\ Launches(w.id) = Up(w.id) /\ Viewed(w.id) /\ ~b /\ s \in Up(w.id)
      BY <1>3, <2>2, <2>7, <2>10
    <3>2. Launches(w.id) \subseteq {s}
      BY <1>1, <2>7, <3>1 DEF UpOnce
    <3>3. QED
      BY <1>2, <2>7, <3>1, <3>2
         DEF PowerKnown, Starting, NeedsOff, ViewKnown, Unlisted, Amid
  <2>11. QED
    BY <1>0, <2>8, <2>9, <2>10, SimpleKeeps
<1>6. QED
  BY <1>4, <1>5 DEF Ps

\* Where monitor() comes back to.
Resumed(r, w) ==
    \/ r.op = "on" /\ r.cmd = "loadvm_init" /\ w.pc = "monitor" /\ w.cmd = "c"
    \/ r.op = "on" /\ r.cmd = "c" /\ w.pc = "view"
    \/ r.op = "on" /\ r.cmd = "set_password" /\ w.pc = "done"
    \/ r.op = "viewadd" /\ r.cmd = "set_password" /\ w.pc = "more"
    \/ r.op = "viewdel" /\ r.cmd = "clear_password" /\ w.pc = "done"
    \/ /\ r.op \in {"off", "reset", "stop", "cont"} /\ w.pc = "done"
       /\ r.cmd \notin {"set_password", "clear_password"}

LEMMA AfterFacts ==
    ASSUME TypeOK, NEW p \in Cvms, NEW ok \in BOOLEAN, After(p, ok),
           run[p].pc \in {"monitor", "send"}, Path(run[p])
    PROVE  \E w : Becomes(p, w) /\ w.stale = run[p].stale /\ Resumed(run[p], w)
<1> PICK r : r = run[p]
  OBVIOUS
<1>1. /\ "view" \in Labels /\ "more" \in Labels /\ "c" \in Commands
      /\ {"ok", "error"} \subseteq Answers
  BY DEF Labels, Commands, Answers
<1>2. \/ r.op = "on" /\ r.cmd \in {"loadvm_init", "c", "set_password"}
      \/ r.op = "viewadd" /\ r.cmd = "set_password"
      \/ r.op = "viewdel" /\ r.cmd = "clear_password"
      \/ /\ r.op \in {"off", "reset", "stop", "cont"}
         /\ r.cmd \notin {"set_password", "clear_password"}
  BY DEF Path
<1>3. CASE r.op = "on" /\ r.cmd = "loadvm_init"
  <2>1. Monitor(p, "c")
    BY <1>3 DEF After
  <2>2. PICK w : /\ Becomes(p, w) /\ w.pc = "monitor" /\ w.cmd = "c"
                 /\ w.stale = run[p].stale
    BY <1>1, <2>1, MonitorFacts
  <2>3. QED
    BY <1>3, <2>2 DEF Resumed
<1>4. CASE r.op = "on" /\ r.cmd = "c"
  <2>1. Goto(p, "view")
    BY <1>4 DEF After
  <2>2. PICK w : Becomes(p, w) /\ w.pc = "view" /\ w.stale = run[p].stale
    BY <1>1, <2>1, GotoFacts
  <2>3. QED
    BY <1>4, <2>2 DEF Resumed
<1>5. CASE r.op = "viewadd" /\ r.cmd = "set_password"
  <2>1. Goto(p, "more")
    BY <1>5 DEF After
  <2>2. PICK w : Becomes(p, w) /\ w.pc = "more" /\ w.stale = run[p].stale
    BY <1>1, <2>1, GotoFacts
  <2>3. QED
    BY <1>5, <2>2 DEF Resumed
<1>6. CASE \/ r.op = "on" /\ r.cmd = "set_password"
           \/ r.op = "viewdel" /\ r.cmd = "clear_password"
           \/ /\ r.op \in {"off", "reset", "stop", "cont"}
              /\ r.cmd \notin {"set_password", "clear_password"}
  <2>1. PICK a \in Answers : Answer(p, a)
    BY <1>1, <1>6 DEF After
  <2>2. PICK w : Becomes(p, w) /\ w.pc = "done" /\ w.stale = run[p].stale
    BY <2>1, AnswerFacts
  <2>3. QED
    BY <1>6, <2>2 DEF Resumed
<1>7. QED
  BY <1>2, <1>3, <1>4, <1>5, <1>6

LEMMA ResumedPath ==
    ASSUME NEW r, NEW w, Resumed(r, w), w.op = r.op
    PROVE  w.pc # "idle" /\ Path(w) /\ CopyOK(w)
BY DEF Resumed, Path, CopyOK

LEMMA ConnectKeeps ==
    ASSUME IInv, NEW p \in Cvms, Connect(p)
    PROVE  IInv'
<1> PICK r : r = run[p]
  OBVIOUS
<1>0. r.pc = "monitor" /\ UNCHANGED <<files, qemu, raced>>
  BY DEF Connect
<1>1. /\ TypeOK /\ UpOnce /\ r.id \in Ids /\ Path(r)
      /\ ~raced[r.id] => PowerKnown(r) /\ ViewKnown(r)
  BY <1>0, Ready
<1>2. PICK s \in Up(r.id) : run' = [run EXCEPT ![p].pc = "send", ![p].slot = s]
  BY DEF Connect
<1>3. r \in Invocation /\ s \in Slots
  BY <1>1, RunTyped DEF Up
<1>4. PICK w : w = [r EXCEPT !.pc = "send", !.slot = s]
  OBVIOUS
<1>5. w = [pc |-> "send", op |-> r.op, id |-> r.id, cmd |-> r.cmd, ans |-> r.ans,
           slot |-> s, sh |-> r.sh, copy |-> r.copy, stale |-> r.stale]
  BY <1>3, <1>4 DEF Invocation
<1>6. run' = [run EXCEPT ![p] = w]
  BY <1>2, <1>4
<1>7. /\ w \in Invocation /\ w.op = r.op /\ w.id = r.id /\ w.pc = "send"
      /\ w.slot = s /\ w.cmd = r.cmd /\ w.stale = r.stale
  BY <1>3, <1>5 DEF Invocation, Labels
<1>8. Becomes(p, w)
  BY <1>6, <1>7 DEF Becomes
<1>9. w.pc # "idle" /\ Path(w) /\ CopyOK(w)
  BY <1>0, <1>1, <1>7 DEF Path, CopyOK
<1>10. ASSUME ~raced[w.id]
       PROVE  PowerKnown(w) /\ ViewKnown(w)
  <2>1. PowerKnown(r) /\ ViewKnown(r) /\ s \in Up(w.id)
    BY <1>1, <1>2, <1>7, <1>10
  <2>2. Launches(w.id) = Up(w.id)
    BY <1>0, <1>7, <2>1 DEF PowerKnown, Starting
  <2>3. Launches(w.id) \subseteq {s}
    BY <1>1, <1>7, <2>1, <2>2 DEF UpOnce
  <2>4. PowerKnown(w)
    BY <1>7, <2>2, <2>3 DEF PowerKnown, NeedsOff
  <2>5. ViewKnown(w)
    BY <1>0, <1>7, <2>1 DEF ViewKnown, Unlisted, Amid
  <2>6. QED
    BY <2>4, <2>5
<1>11. Calm(p, w)
  BY <1>7 DEF Calm
<1>12. QED
  BY <1>0, <1>8, <1>9, <1>10, <1>11, SimpleKeeps

LEMMA RefusedKeeps ==
    ASSUME IInv, NEW p \in Cvms, Refused(p)
    PROVE  IInv'
<1> PICK r : r = run[p]
  OBVIOUS
<1>0. /\ r.pc = "monitor" /\ UNCHANGED <<files, qemu, raced>>
      /\ Up(r.id) = {} /\ After(p, FALSE)
  BY DEF Refused
<1>1. /\ TypeOK /\ Path(r)
      /\ ~raced[r.id] => PowerKnown(r) /\ ViewKnown(r)
  BY <1>0, Ready
<1>2. PICK w : Becomes(p, w) /\ w.stale = r.stale /\ Resumed(r, w)
  BY <1>0, <1>1, AfterFacts
<1>3. w.op = r.op /\ w.id = r.id
  BY <1>2 DEF Becomes
<1>4. w.pc # "idle" /\ Path(w) /\ CopyOK(w)
  BY <1>2, <1>3, ResumedPath
<1>5. ASSUME ~raced[w.id]
      PROVE  PowerKnown(w) /\ ViewKnown(w)
  <2>1. /\ Launches(w.id) = Up(w.id) /\ Launches(w.id) = {}
        /\ r.op = "viewadd" => ~r.stale
    BY <1>0, <1>1, <1>3, <1>5 DEF PowerKnown, Starting, ViewKnown
  <2>2. Viewed(w.id)
    BY <2>1 DEF Viewed
  <2>3. PowerKnown(w)
    BY <1>2, <2>1 DEF Resumed, PowerKnown
  <2>4. ViewKnown(w)
    BY <1>2, <1>3, <2>1, <2>2 DEF Resumed, ViewKnown, Unlisted
  <2>5. QED
    BY <2>3, <2>4
<1>6. Calm(p, w)
  BY <1>2 DEF Resumed, Calm
<1>7. QED
  BY <1>0, <1>2, <1>4, <1>5, <1>6, SimpleKeeps

LEMMA SendDiesKeeps ==
    ASSUME IInv, NEW p \in Cvms, SendDies(p)
    PROVE  IInv'
<1> PICK r : r = run[p]
  OBVIOUS
<1>0. /\ r.pc = "send" /\ UNCHANGED <<images, tokens, qemu>>
      /\ buf' = [buf EXCEPT ![p] = {}] /\ raced' = [i \in Ids |-> raced[i] \/ i \in buf[p]]
      /\ r.slot = 0 /\ Goto(p, "dead") /\ "dead" \in Labels
  BY DEF SendDies, Labels
<1>1. /\ TypeOK /\ Path(r) /\ r.id \in Ids
      /\ ~raced[r.id] => PowerKnown(r) /\ ViewKnown(r)
  BY <1>0, Ready
<1>2. PICK w : Becomes(p, w) /\ w.stale = r.stale /\ w.pc = "dead"
  BY <1>0, <1>1, GotoFacts
<1>3. w.op = r.op /\ w.id = r.id
  BY <1>2 DEF Becomes
<1>4. w.pc # "idle" /\ Path(w) /\ CopyOK(w)
  BY <1>0, <1>1, <1>2, <1>3 DEF Path, CopyOK
<1>5. ASSUME ~raced'[w.id]
      PROVE  PowerKnown(w) /\ ViewKnown(w)
  <2>1. /\ Launches(w.id) = Up(w.id) /\ Launches(w.id) \subseteq {0}
        /\ r.op = "viewadd" => ~r.stale
    BY <1>0, <1>1, <1>3, <1>5 DEF PowerKnown, Starting, ViewKnown
  <2>2. Launches(w.id) = {}
    BY <2>1 DEF Launches, Slots
  <2>3. Viewed(w.id)
    BY <2>2 DEF Viewed
  <2>4. QED
    BY <1>2, <1>3, <2>1, <2>2, <2>3 DEF PowerKnown, NeedsOff, ViewKnown, Unlisted
<1>6. /\ raced' \in [Ids -> BOOLEAN] /\ \A j \in Ids : raced[j] => raced'[j]
      /\ \A j \in buf[p] : raced'[j]
  BY <1>0, <1>1 DEF TypeOK
<1>7. Releases(p)
  BY <1>0, <1>6 DEF Releases
<1>8. /\ vm' \in [Ids -> BOOLEAN] /\ back' \in [Ids -> BOOLEAN] /\ base' \in [Ids -> Ids]
      /\ UNCHANGED <<tokens, qemu>>
  BY <1>0, <1>1 DEF TypeOK, images
<1>9. QED
  BY <1>0, <1>2, <1>4, <1>5, <1>6, <1>7, <1>8, MoveKeeps

LEMMA ViewKeeps ==
    ASSUME IInv, NEW p \in Cvms, View(p)
    PROVE  IInv'
<1> PICK r : r = run[p]
  OBVIOUS
<1>0. r.pc = "view" /\ UNCHANGED <<files, qemu, raced>>
  BY DEF View
<1>1. /\ TypeOK /\ Path(r)
      /\ ~raced[r.id] => PowerKnown(r) /\ ViewKnown(r)
  BY <1>0, Ready
<1>2. r.op = "on" /\ "set_password" \in Commands /\ "ok" \in Answers /\ "dead" \in Labels
  BY <1>0, <1>1 DEF Path, Commands, Answers, Labels
<1>3. \/ r.id \in tokens /\ Monitor(p, "set_password")
      \/ r.id \notin tokens /\ Answer(p, "ok")
      \/ r.id \notin tokens /\ Goto(p, "dead")
  BY DEF View
<1>4. PICK w : /\ Becomes(p, w)
               /\ \/ r.id \in tokens /\ w.pc = "monitor" /\ w.cmd = "set_password"
                  \/ r.id \notin tokens /\ w.pc \in {"done", "dead"}
  <2>1. CASE r.id \in tokens /\ Monitor(p, "set_password")
    <3>1. PICK w : /\ Becomes(p, w) /\ w.pc = "monitor" /\ w.cmd = "set_password"
                   /\ w.stale = r.stale
      BY <1>1, <1>2, <2>1, MonitorFacts
    <3>2. QED
      BY <2>1, <3>1
  <2>2. CASE r.id \notin tokens /\ Answer(p, "ok")
    <3>1. PICK w : /\ Becomes(p, w) /\ w.pc = "done" /\ w.ans = "ok"
                   /\ w.stale = r.stale
      BY <1>1, <1>2, <2>2, AnswerFacts
    <3>2. QED
      BY <2>2, <3>1
  <2>3. CASE r.id \notin tokens /\ Goto(p, "dead")
    <3>1. PICK w : Becomes(p, w) /\ w.pc = "dead" /\ w.stale = r.stale
      BY <1>1, <1>2, <2>3, GotoFacts
    <3>2. QED
      BY <2>3, <3>1
  <2>4. QED
    BY <1>3, <2>1, <2>2, <2>3
<1>5. w.op = r.op /\ w.id = r.id
  BY <1>4 DEF Becomes
<1>6. w.pc # "idle" /\ Path(w) /\ CopyOK(w)
  BY <1>2, <1>4, <1>5 DEF Path, CopyOK
<1>7. ASSUME ~raced[w.id]
      PROVE  PowerKnown(w) /\ ViewKnown(w)
  <2>1. /\ Launches(w.id) = Up(w.id)
        /\ \A s \in Launches(w.id) : ~qemu[w.id][s].password
    BY <1>0, <1>1, <1>2, <1>5, <1>7 DEF PowerKnown, Starting, ViewKnown, Unlisted
  <2>2. w.id \notin tokens => Viewed(w.id)
    BY <2>1 DEF Viewed, Up
  <2>3. PowerKnown(w)
    BY <1>2, <1>4, <1>5, <2>1 DEF PowerKnown, NeedsOff
  <2>4. ViewKnown(w)
    BY <1>2, <1>4, <1>5, <2>2 DEF ViewKnown, Unlisted, Amid
  <2>5. QED
    BY <2>3, <2>4
<1>8. QED
  BY <1>0, <1>4, <1>6, <1>7, SimpleKeeps

LEMMA ResizeKeeps ==
    ASSUME IInv, NEW p \in Cvms, Resize(p)
    PROVE  IInv'
<1> PICK r : r = run[p]
  OBVIOUS
<1>0. /\ r.pc = "resize" /\ UNCHANGED <<files, qemu, raced>>
      /\ Answer(p, "ok") /\ "ok" \in Answers
  BY DEF Resize, Answers
<1>1. /\ TypeOK /\ Path(r)
      /\ ~raced[r.id] => PowerKnown(r) /\ ViewKnown(r)
  BY <1>0, Ready
<1>2. PICK w : Becomes(p, w) /\ w.pc = "done"
  BY <1>0, <1>1, AnswerFacts
<1>3. w.op = r.op /\ w.id = r.id /\ r.op = "expend"
  BY <1>0, <1>1, <1>2 DEF Becomes, Path
<1>4. w.pc # "idle" /\ Path(w) /\ CopyOK(w)
  BY <1>2, <1>3 DEF Path, CopyOK
<1>5. ~raced[w.id] => PowerKnown(w) /\ ViewKnown(w)
  BY <1>0, <1>1, <1>2, <1>3
     DEF PowerKnown, Starting, NeedsOff, ViewKnown, Unlisted, Amid
<1>6. QED
  BY <1>0, <1>2, <1>4, <1>5, SimpleKeeps

LEMMA FopenKeeps ==
    ASSUME IInv, NEW p \in Cvms, Fopen(p)
    PROVE  IInv'
<1> PICK r : r = run[p]
  OBVIOUS
<1>0. /\ r.pc = "fopen" /\ UNCHANGED <<files, qemu, raced>>
      /\ Monitor(p, "set_password") /\ "set_password" \in Commands
  BY DEF Fopen, Commands
<1>1. /\ TypeOK /\ Path(r)
      /\ ~raced[r.id] => PowerKnown(r) /\ ViewKnown(r)
  BY <1>0, Ready
<1>2. PICK w : /\ Becomes(p, w) /\ w.pc = "monitor" /\ w.cmd = "set_password"
               /\ w.stale = r.stale
  <2>1. TypeOK /\ Monitor(p, "set_password") /\ "set_password" \in Commands
    BY <1>0, <1>1
  <2>2. QED
    BY <2>1, MonitorFacts
<1>3. w.op = r.op /\ w.id = r.id /\ r.op = "viewadd"
  BY <1>0, <1>1, <1>2 DEF Becomes, Path
<1>4. w.pc # "idle" /\ Path(w) /\ CopyOK(w)
  BY <1>2, <1>3 DEF Path, CopyOK
<1>5. ~raced[w.id] => PowerKnown(w) /\ ViewKnown(w)
  BY <1>0, <1>1, <1>2, <1>3
     DEF PowerKnown, Starting, NeedsOff, ViewKnown, Unlisted, Amid
<1>6. QED
  BY <1>0, <1>2, <1>4, <1>5, SimpleKeeps

\* While a copy is made of vnc_tokens, it is the file.
LEMMA SedReadKeeps ==
    ASSUME IInv, NEW p \in Cvms, SedRead(p)
    PROVE  IInv'
<1> PICK r : r = run[p]
  OBVIOUS
<1>0. r.pc = "sed" /\ UNCHANGED <<files, qemu, raced>>
  BY DEF SedRead
<1>1. /\ TypeOK /\ Path(r)
      /\ ~raced[r.id] => PowerKnown(r) /\ ViewKnown(r)
  BY <1>0, Ready
<1>2. r \in Invocation /\ r.op \in {"del", "viewdel"}
  BY <1>0, <1>1, RunTyped DEF Path
<1>3. PICK T : T = tokens \ {r.id}
  OBVIOUS
<1>4. T \in SUBSET Ids
  BY <1>1, <1>3 DEF TypeOK
<1>5. PICK w : w = [r EXCEPT !.pc = "rename", !.copy = T]
  OBVIOUS
<1>6. w = [pc |-> "rename", op |-> r.op, id |-> r.id, cmd |-> r.cmd, ans |-> r.ans,
           slot |-> r.slot, sh |-> r.sh, copy |-> T, stale |-> r.stale]
  BY <1>2, <1>5 DEF Invocation
<1>7. run' = [run EXCEPT ![p] = w]
  BY <1>3, <1>5 DEF SedRead
<1>8. /\ w \in Invocation /\ w.op = r.op /\ w.id = r.id /\ w.pc = "rename"
      /\ w.copy = T /\ w.stale = r.stale
  BY <1>2, <1>4, <1>6 DEF Invocation, Labels
<1>9. Becomes(p, w)
  BY <1>7, <1>8 DEF Becomes
<1>10. w.pc # "idle" /\ Path(w) /\ CopyOK(w)
  BY <1>2, <1>3, <1>8 DEF Path, CopyOK
<1>11. ~raced[w.id] => PowerKnown(w) /\ ViewKnown(w)
  BY <1>0, <1>1, <1>2, <1>8
     DEF PowerKnown, Starting, NeedsOff, ViewKnown, Unlisted, Amid
<1>12. QED
  BY <1>0, <1>9, <1>10, <1>11, SimpleKeeps

LEMMA RmBackKeeps ==
    ASSUME IInv, NEW p \in Cvms, RmBack(p)
    PROVE  IInv'
<1> PICK r : r = run[p]
  OBVIOUS
<1>0. /\ r.pc = "rmback" /\ UNCHANGED <<vm, base, tokens, buf, qemu, raced>>
      /\ Goto(p, "sed") /\ "sed" \in Labels
      /\ back' = [back EXCEPT ![r.id] = FALSE]
  BY DEF RmBack, Labels
<1>1. /\ TypeOK /\ Path(r) /\ r.id \in Ids
      /\ ~raced[r.id] => PowerKnown(r) /\ ViewKnown(r)
  BY <1>0, Ready
<1>2. PICK w : Becomes(p, w) /\ w.pc = "sed" /\ w.stale = r.stale
  BY <1>0, <1>1, GotoFacts
<1>3. w.op = r.op /\ w.id = r.id /\ r.op = "del"
  BY <1>0, <1>1, <1>2 DEF Becomes, Path
<1>4. w.pc # "idle" /\ Path(w) /\ CopyOK(w)
  BY <1>2, <1>3 DEF Path, CopyOK
<1>5. ~raced[w.id] => PowerKnown(w) /\ ViewKnown(w)
  BY <1>0, <1>1, <1>2, <1>3
     DEF PowerKnown, Starting, NeedsOff, ViewKnown, Unlisted, Amid
<1>6. /\ vm' \in [Ids -> BOOLEAN] /\ back' \in [Ids -> BOOLEAN] /\ base' \in [Ids -> Ids]
      /\ raced' \in [Ids -> BOOLEAN]
  BY <1>0, <1>1 DEF TypeOK
<1>7. Keeps(p, w)
  BY <1>0 DEF Keeps, Calm
<1>8. QED
  BY <1>0, <1>2, <1>4, <1>5, <1>6, <1>7, MoveKeeps

LEMMA CreateBaseKeeps ==
    ASSUME IInv, NEW p \in Cvms, CreateBase(p)
    PROVE  IInv'
<1> PICK r : r = run[p]
  OBVIOUS
<1>0. /\ r.pc = "base" /\ UNCHANGED <<vm, base, tokens, buf, qemu, raced>>
      /\ Goto(p, "create") /\ "create" \in Labels
      /\ back' = [back EXCEPT ![r.id] = TRUE]
  BY DEF CreateBase, Labels
<1>1. /\ TypeOK /\ Path(r) /\ r.id \in Ids
      /\ ~raced[r.id] => PowerKnown(r) /\ ViewKnown(r)
  BY <1>0, Ready
<1>2. PICK w : Becomes(p, w) /\ w.pc = "create" /\ w.stale = r.stale
  BY <1>0, <1>1, GotoFacts
<1>3. w.op = r.op /\ w.id = r.id /\ r.op = "template"
  BY <1>0, <1>1, <1>2 DEF Becomes, Path
<1>4. w.pc # "idle" /\ Path(w) /\ CopyOK(w)
  BY <1>2, <1>3 DEF Path, CopyOK
<1>5. ~raced[w.id] => PowerKnown(w) /\ ViewKnown(w)
  BY <1>0, <1>1, <1>2, <1>3
     DEF PowerKnown, Starting, NeedsOff, ViewKnown, Unlisted, Amid
<1>6. /\ vm' \in [Ids -> BOOLEAN] /\ back' \in [Ids -> BOOLEAN] /\ base' \in [Ids -> Ids]
      /\ raced' \in [Ids -> BOOLEAN]
  BY <1>0, <1>1 DEF TypeOK
<1>7. Keeps(p, w)
  BY <1>0 DEF Keeps, Calm
<1>8. QED
  BY <1>0, <1>2, <1>4, <1>5, <1>6, <1>7, MoveKeeps

LEMMA ExistsKeeps ==
    ASSUME IInv, NEW p \in Cvms, Exists(p)
    PROVE  IInv'
<1> PICK r : r = run[p]
  OBVIOUS
<1>0. r.pc = "exists" /\ UNCHANGED <<files, qemu, raced>>
  BY DEF Exists
<1>1. PICK a \in Answers : Answer(p, a)
  BY DEF Exists, Answers
<1>2. /\ TypeOK /\ Path(r)
      /\ ~raced[r.id] => PowerKnown(r) /\ ViewKnown(r)
  BY <1>0, Ready
<1>3. PICK w : Becomes(p, w) /\ w.pc = "done"
  BY <1>1, <1>2, AnswerFacts
<1>4. w.op = r.op /\ w.id = r.id /\ r.op \in {"add", "template"}
  BY <1>0, <1>2, <1>3 DEF Becomes, Path
<1>5. w.pc # "idle" /\ Path(w) /\ CopyOK(w)
  BY <1>3, <1>4 DEF Path, CopyOK
<1>6. ~raced[w.id] => PowerKnown(w) /\ ViewKnown(w)
  BY <1>0, <1>2, <1>3, <1>4
     DEF PowerKnown, Starting, NeedsOff, ViewKnown, Unlisted, Amid
<1>7. QED
  BY <1>0, <1>3, <1>5, <1>6, SimpleKeeps

LEMMA CreateKeeps ==
    ASSUME IInv, NEW p \in Cvms, Create(p)
    PROVE  IInv'
<1> PICK r : r = run[p]
  OBVIOUS
<1>0. r.pc = "create" /\ UNCHANGED <<back, tokens, buf, qemu, raced>>
  BY DEF Create
<1>1. /\ TypeOK /\ Path(r) /\ r.id \in Ids
      /\ ~raced[r.id] => PowerKnown(r) /\ ViewKnown(r)
  BY <1>0, Ready
<1>2. PICK b \in IF r.op \in {"add", "rebuild", "recv"} THEN Ids ELSE {r.id} :
        /\ vm' = [vm EXCEPT ![r.id] = @ \/ back[b]]
        /\ base' = IF back[b] THEN [base EXCEPT ![r.id] = b] ELSE base
  BY DEF Create
<1>3. b \in Ids
  BY <1>1, <1>2
<1>4. /\ vm' \in [Ids -> BOOLEAN] /\ back' \in [Ids -> BOOLEAN] /\ base' \in [Ids -> Ids]
      /\ raced' \in [Ids -> BOOLEAN]
  BY <1>0, <1>1, <1>2, <1>3 DEF TypeOK
<1>5. /\ r.op \in {"add", "template", "drop", "rebuild", "recv", "oson"}
      /\ "exec" \in Labels /\ "exists" \in Labels /\ {"ok", "error"} \subseteq Answers
  BY <1>0, <1>1 DEF Path, Labels, Answers
<1>6. \/ r.op = "recv" /\ Goto(p, "exec")
      \/ r.op \in {"add", "template"} /\ Goto(p, "exists")
      \/ r.op \in {"drop", "rebuild", "oson"} /\ Answer(p, "ok")
  BY <1>5 DEF Create
<1>7. PICK w : /\ Becomes(p, w)
               /\ \/ r.op = "recv" /\ w.pc = "exec"
                  \/ r.op \in {"add", "template"} /\ w.pc = "exists"
                  \/ r.op \in {"drop", "rebuild", "oson"} /\ w.pc = "done"
  <2>1. CASE r.op \in {"drop", "rebuild", "oson"} /\ Answer(p, "ok")
    BY <1>1, <1>5, <2>1, AnswerFacts
  <2>2. CASE r.op = "recv" /\ Goto(p, "exec")
    BY <1>1, <1>5, <2>2, GotoFacts
  <2>3. CASE r.op \in {"add", "template"} /\ Goto(p, "exists")
    BY <1>1, <1>5, <2>3, GotoFacts
  <2>4. QED
    BY <1>6, <2>1, <2>2, <2>3
<1>8. w.op = r.op /\ w.id = r.id
  BY <1>7 DEF Becomes
<1>9. w.pc # "idle" /\ Path(w) /\ CopyOK(w)
  BY <1>5, <1>7, <1>8 DEF Path, CopyOK
<1>10. ~raced[w.id] => PowerKnown(w) /\ ViewKnown(w)
  BY <1>0, <1>1, <1>5, <1>7, <1>8
     DEF PowerKnown, Starting, NeedsOff, ViewKnown, Unlisted, Amid
<1>11. Keeps(p, w)
  BY <1>0 DEF Keeps, Calm
<1>12. QED
  BY <1>0, <1>4, <1>7, <1>9, <1>10, <1>11, MoveKeeps

\* The second look: a machine that is still on its way up is told apart from
\* now on by raced.
LEMMA RecheckKeeps ==
    ASSUME IInv, NEW p \in Cvms, Recheck(p)
    PROVE  IInv'
<1> PICK r : r = run[p]
  OBVIOUS
<1>0. /\ r.pc = "recheck" /\ UNCHANGED <<files, qemu>>
      /\ raced' = [raced EXCEPT ![r.id] = @ \/ UnderWay(r.id)]
  BY DEF Recheck
<1>1. /\ TypeOK /\ Path(r) /\ r.id \in Ids
      /\ ~raced[r.id] => PowerKnown(r) /\ ViewKnown(r)
      /\ Launches(r.id) = Up(r.id) => (vmison(r.id) <=> Launches(r.id) # {})
  BY <1>0, Ready
<1>2. /\ r.op \in {"on", "oson", "halt", "recv"} /\ "create" \in Labels
      /\ "loadvm_init" \in Commands /\ "error" \in Answers
  BY <1>0, <1>1 DEF Path, Labels, Commands, Answers
<1> DEFINE Outcome(w) ==
             \/ r.op = "on" /\ vmison(r.id) /\ w.pc = "monitor" /\ w.cmd = "loadvm_init"
             \/ r.op \in {"on", "oson"} /\ ~vmison(r.id) /\ w.pc = "done"
             \/ r.op = "oson" /\ vmison(r.id) /\ w.pc = "create"
             \/ r.op = "recv" /\ w.pc = "create"
             \/ r.op = "halt" /\ w.pc = "done"
<1>3. PICK w : Becomes(p, w) /\ Outcome(w)
  <2>1. CASE r.op = "on" /\ vmison(r.id)
    <3>1. Monitor(p, "loadvm_init")
      BY <2>1 DEF Recheck
    <3>2. PICK w : /\ Becomes(p, w) /\ w.pc = "monitor" /\ w.cmd = "loadvm_init"
                   /\ w.stale = r.stale
      BY <1>1, <1>2, <3>1, MonitorFacts
    <3>3. QED
      BY <2>1, <3>2
  <2>2. CASE r.op = "oson" /\ vmison(r.id)
    <3>1. Goto(p, "create")
      BY <2>2 DEF Recheck
    <3>2. PICK w : Becomes(p, w) /\ w.pc = "create" /\ w.stale = r.stale
      BY <1>1, <1>2, <3>1, GotoFacts
    <3>3. QED
      BY <2>2, <3>2
  <2>3. CASE r.op \in {"on", "oson"} /\ ~vmison(r.id)
    <3>1. Answer(p, "error")
      BY <2>3 DEF Recheck
    <3>2. QED
      BY <1>1, <1>2, <2>3, <3>1, AnswerFacts
  <2>4. CASE r.op \in {"halt", "recv"}
    <3>1. \E ok \in BOOLEAN : Halted(p, ok)
      BY <2>4 DEF Recheck
    <3>2. PICK w : /\ Becomes(p, w)
                   /\ \/ r.op = "recv" /\ w.pc = "create"
                      \/ r.op = "halt" /\ w.pc = "done"
      BY <1>1, <2>4, <3>1, HaltedFacts
    <3>3. QED
      BY <3>2
  <2>5. QED
    BY <1>2, <2>1, <2>2, <2>3, <2>4
<1>4. w.op = r.op /\ w.id = r.id
  BY <1>3 DEF Becomes
<1>5. w.pc # "idle" /\ Path(w) /\ CopyOK(w)
  BY <1>3, <1>4 DEF Path, CopyOK
<1>6. ASSUME ~raced'[w.id]
      PROVE  PowerKnown(w) /\ ViewKnown(w)
  <2>1. /\ ~raced[w.id] /\ Launches(w.id) = Up(w.id)
        /\ vmison(w.id) <=> Launches(w.id) # {}
    BY <1>0, <1>1, <1>4, <1>6 DEF TypeOK, UnderWay
  <2>2. PowerKnown(r) /\ ViewKnown(r)
    BY <1>1, <1>4, <2>1
  <2>3. r.op \in {"halt", "recv"} => Launches(w.id) = {}
    BY <1>0, <1>4, <2>2 DEF PowerKnown, NeedsOff
  <2>4. Launches(w.id) = {} => Viewed(w.id)
    BY DEF Viewed
  <2>5. r.op = "oson" => Viewed(w.id)
    BY <1>0, <1>4, <2>2 DEF ViewKnown, Amid
  <2>6. r.op = "on" => \A s \in Launches(w.id) : ~qemu[w.id][s].password
    BY <1>0, <1>4, <2>2 DEF ViewKnown, Unlisted
  <2>7. PowerKnown(w)
    BY <1>2, <1>3, <1>4, <2>1, <2>3 DEF PowerKnown, NeedsOff
  <2>8. ViewKnown(w)
    BY <1>2, <1>3, <1>4, <2>1, <2>3, <2>4, <2>5, <2>6 DEF ViewKnown, Unlisted, Amid
  <2>9. QED
    BY <2>7, <2>8
<1>7. /\ vm' \in [Ids -> BOOLEAN] /\ back' \in [Ids -> BOOLEAN] /\ base' \in [Ids -> Ids]
      /\ UNCHANGED <<tokens, qemu>>
  BY <1>0, <1>1 DEF TypeOK, files, images
<1>8. raced' \in [Ids -> BOOLEAN] /\ \A j \in Ids : raced[j] => raced'[j]
  BY <1>0, <1>1 DEF TypeOK, UnderWay
<1>9. Keeps(p, w)
  BY <1>0 DEF Keeps, Calm, files
<1>10. QED
  BY <1>0, <1>3, <1>5, <1>6, <1>7, <1>8, <1>9, MoveKeeps

-----------------------------------------------------------------------------
\* Steps of an invocation that change a launch or vnc_tokens.

LEMMA QemuTyped ==
    ASSUME TypeOK, NEW i \in Ids, NEW s \in Slots
    PROVE  /\ qemu[i][s] \in Qemu /\ qemu[i][s].st \in Stages
           /\ qemu[i][s].from \in {"VM", "BACK", "incoming"}
           /\ qemu[i][s].linked \in BOOLEAN /\ qemu[i][s].paused \in BOOLEAN
           /\ qemu[i][s].password \in BOOLEAN
<1>1. qemu[i][s] \in Qemu
  BY DEF TypeOK
<1>2. QED
  BY <1>1 DEF Qemu

\* The launch of i in slot s becomes q.
LEMMA QemuStep ==
    ASSUME TypeOK, NEW i \in Ids, NEW s \in Slots, NEW q \in Qemu,
           qemu' = [qemu EXCEPT ![i][s] = q]
    PROVE  /\ qemu' \in [Ids -> [Slots -> Qemu]]
           /\ \A j \in Ids \ {i} : qemu'[j] = qemu[j]
           /\ \A t \in Slots \ {s} : qemu'[i][t] = qemu[i][t]
           /\ qemu'[i][s] = q
BY DEF TypeOK

LEMMA LaunchesStep ==
    ASSUME TypeOK, NEW i \in Ids, NEW s \in Slots, NEW q \in Qemu,
           qemu' = [qemu EXCEPT ![i][s] = q]
    PROVE  /\ Launches(i)' = (Launches(i) \ {s}) \cup (IF q.st # "none" THEN {s} ELSE {})
           /\ Up(i)' = (Up(i) \ {s}) \cup (IF q.st = "up" THEN {s} ELSE {})
<1>1. /\ \A t \in Slots \ {s} : qemu'[i][t] = qemu[i][t]
      /\ qemu'[i][s] = q
  BY QemuStep
<1>2. \A t : t \in Launches(i)' <=> t \in Slots /\ qemu'[i][t].st # "none"
  BY DEF Launches
<1>3. \A t : t \in Launches(i) <=> t \in Slots /\ qemu[i][t].st # "none"
  BY DEF Launches
<1>4. \A t : t \in Up(i)' <=> t \in Slots /\ qemu'[i][t].st = "up"
  BY DEF Up
<1>5. \A t : t \in Up(i) <=> t \in Slots /\ qemu[i][t].st = "up"
  BY DEF Up
<1>6. QED
  BY <1>1, <1>2, <1>3, <1>4, <1>5

LEMMA NoQemuTyped == NoQemu \in Qemu /\ NoQemu.st = "none" /\ ~NoQemu.password
BY DEF NoQemu, Qemu, Stages

\* A step that changes p, and the launches of its machine in one slot.
LEMMA QemuKeeps ==
    ASSUME IInv, NEW p \in Cvms, NEW w, Becomes(p, w), run[p].pc # "idle", w.pc # "idle",
           NEW s \in Slots, NEW q \in Qemu, qemu' = [qemu EXCEPT ![w.id][s] = q],
           UNCHANGED <<files, raced>>,
           q.st = "up" => s \in Up(w.id),
           run[p].pc \notin {"monitor", "send", "more"} \/ Calm(p, w),
           Path(w), w.pc # "rename",
           ~raced[w.id] => PowerKnown(w)' /\ ViewKnown(w)'
    PROVE  IInv'
<1> PICK i \in Ids : i = w.id
  BY RunTyped DEF IInv, Becomes
<1>0. TypeOK /\ UpOnce
  BY DEF IInv
<1>1. /\ run'[p] = w /\ w.op = run[p].op /\ w.id = run[p].id
      /\ \A x \in Cvms \ {p} : run'[x] = run[x]
      /\ run' \in [Cvms -> Invocation]
  BY <1>0 DEF TypeOK, Becomes
<1>2. /\ qemu' \in [Ids -> [Slots -> Qemu]]
      /\ \A j \in Ids \ {w.id} : qemu'[j] = qemu[j]
  BY <1>0, QemuStep
<1>3. TypeOK' /\ tokens' = tokens /\ raced' = raced
  BY <1>0, <1>1, <1>2 DEF TypeOK, files, images
<1>4. \A t, u \in Up(w.id)' : t = u
  <2>1. Up(i)' \subseteq Up(i)
    <3>1. Up(i)' = (Up(i) \ {s}) \cup (IF q.st = "up" THEN {s} ELSE {})
      BY <1>0, LaunchesStep
    <3>2. QED
      BY <3>1
  <2>2. QED
    BY <1>0, <2>1 DEF UpOnce
<1>5. Others(p)
  BY <1>1 DEF Others
<1>6. CopyOK(w)'
  BY DEF CopyOK
<1>7. Keeps(p, w)
  BY DEF Keeps, Calm, files
<1>8. QED
  BY <1>1, <1>2, <1>3, <1>4, <1>5, <1>6, <1>7, LocalKeeps

LEMMA ExecKeeps ==
    ASSUME IInv, NEW p \in Cvms, Exec(p)
    PROVE  IInv'
<1> PICK r : r = run[p]
  OBVIOUS
<1>0. r.pc = "exec" /\ UNCHANGED <<files, raced>>
  BY DEF Exec
<1>1. /\ TypeOK /\ Path(r) /\ r.id \in Ids
      /\ ~raced[r.id] => PowerKnown(r) /\ ViewKnown(r)
  BY <1>0, Ready
<1>2. /\ r.op \in {"on", "oson", "recv"} /\ "recheck" \in Labels /\ "ok" \in Answers
  BY <1>0, <1>1 DEF Path, Labels, Answers
<1>3. ~raced[r.id] => Launches(r.id) = {} /\ Up(r.id) = {} /\ Viewed(r.id)
  BY <1>0, <1>1, <1>2 DEF PowerKnown, NeedsOff, Starting, ViewKnown, Amid
<1>4. PICK w : /\ Becomes(p, w)
               /\ \/ r.op = "recv" /\ w.pc = "done"
                  \/ r.op \in {"on", "oson"} /\ w.pc = "recheck"
  <2>1. CASE r.op = "recv"
    <3>1. Answer(p, "ok")
      BY <2>1 DEF Exec
    <3>2. PICK w : Becomes(p, w) /\ w.pc = "done"
      BY <1>1, <1>2, <3>1, AnswerFacts
    <3>3. QED
      BY <2>1, <3>2
  <2>2. CASE r.op \in {"on", "oson"}
    <3>1. Goto(p, "recheck")
      BY <2>2 DEF Exec
    <3>2. PICK w : Becomes(p, w) /\ w.pc = "recheck"
      BY <1>1, <1>2, <3>1, GotoFacts
    <3>3. QED
      BY <2>2, <3>2
  <2>3. QED
    BY <1>2, <2>1, <2>2
<1>5. w.op = r.op /\ w.id = r.id
  BY <1>4 DEF Becomes
<1>6. w.pc # "idle" /\ w.pc # "rename" /\ Path(w) /\ CopyOK(w)
  BY <1>4, <1>5 DEF Path, CopyOK
<1>7. CASE UNCHANGED qemu
  <2>1. ~raced[w.id] => PowerKnown(w) /\ ViewKnown(w)
    BY <1>3, <1>4, <1>5 DEF PowerKnown, Starting, NeedsOff, ViewKnown, Unlisted, Amid
  <2>2. QED
    BY <1>0, <1>4, <1>6, <1>7, <2>1, SimpleKeeps
<1>8. ASSUME NEW s \in Slots, NEW f,
             f = CASE r.op = "on" -> "VM" [] r.op = "oson" -> "BACK" [] OTHER -> "incoming",
             qemu' = [qemu EXCEPT ![r.id][s] = [NoQemu EXCEPT !.st = "queued", !.from = f]]
      PROVE  IInv'
  <2>1. f \in {"VM", "BACK", "incoming"} /\ (f = "VM" => r.op = "on")
    BY <1>2, <1>8
  <2>2. PICK q : q = [NoQemu EXCEPT !.st = "queued", !.from = f]
    OBVIOUS
  <2>3. q = [st |-> "queued", from |-> f, linked |-> FALSE, paused |-> FALSE, password |-> FALSE]
    BY <2>2 DEF NoQemu
  <2>4. q \in Qemu /\ q.st = "queued" /\ q.from = f /\ ~q.password
    BY <2>1, <2>3 DEF Qemu, Stages
  <2>5. qemu' = [qemu EXCEPT ![r.id][s] = q]
    BY <1>8, <2>2
  <2>6. ASSUME ~raced[w.id]
        PROVE  PowerKnown(w)' /\ ViewKnown(w)'
    <3>1. PICK i \in Ids : i = r.id
      BY <1>1
    <3>2. Launches(i)' = {s} /\ Up(i)' = {}
      <4>1. Launches(i) = {} /\ Up(i) = {}
        BY <1>3, <1>5, <2>6, <3>1
      <4>2. /\ Launches(i)' = (Launches(i) \ {s}) \cup (IF q.st # "none" THEN {s} ELSE {})
            /\ Up(i)' = (Up(i) \ {s}) \cup (IF q.st = "up" THEN {s} ELSE {})
        BY <1>1, <2>4, <2>5, <3>1, LaunchesStep
      <4>3. QED
        BY <2>4, <4>1, <4>2
    <3>3. qemu'[i][s] = q
      BY <1>1, <2>4, <2>5, <3>1, QemuStep, ZenonT(40)
    <3>4. r.op # "on" => Viewed(i)'
      BY <2>1, <2>4, <3>2, <3>3 DEF Viewed
    <3>5. PowerKnown(w)'
      BY <1>4, <1>5 DEF PowerKnown, Starting, NeedsOff
    <3>6. ViewKnown(w)'
      BY <1>4, <1>5, <2>4, <3>1, <3>2, <3>3, <3>4 DEF ViewKnown, Unlisted, Amid
    <3>7. QED
      BY <3>5, <3>6
  <2>7. QED
    BY <1>0, <1>4, <1>5, <1>6, <2>4, <2>5, <2>6, QemuKeeps
<1>9. QED
  <2>1. UNCHANGED qemu
        \/ \E s \in Slots :
             qemu' = [qemu EXCEPT ![r.id][s] =
                        [NoQemu EXCEPT !.st = "queued",
                           !.from = CASE r.op = "on" -> "VM"
                                      [] r.op = "oson" -> "BACK"
                                      [] OTHER -> "incoming"]]
    BY DEF Exec
  <2>2. QED
    BY <1>7, <1>8, <2>1

LEMMA ObeyFacts ==
    ASSUME NEW q \in Qemu, NEW c, NEW n, n = Obey(q, c)
    PROVE  /\ n \in Qemu /\ n.st = q.st /\ n.from = q.from /\ n.linked = q.linked
           /\ c = "set_password" => n.password
           /\ c = "clear_password" => ~n.password
           /\ c \notin {"set_password", "clear_password"} => n.password = q.password
<1>1. PICK a : a = IF c = "stop" THEN TRUE ELSE IF c = "c" THEN FALSE ELSE q.paused
  OBVIOUS
<1>2. PICK b : b = IF c = "set_password" THEN TRUE
                   ELSE IF c = "clear_password" THEN FALSE ELSE q.password
  OBVIOUS
<1>3. q.paused \in BOOLEAN /\ q.password \in BOOLEAN
  BY DEF Qemu
<1>4. a \in BOOLEAN /\ b \in BOOLEAN
  BY <1>1, <1>2, <1>3
<1>5. n = [q EXCEPT !.paused = a, !.password = b]
  BY <1>1, <1>2 DEF Obey
<1>6. n = [st |-> q.st, from |-> q.from, linked |-> q.linked, paused |-> a, password |-> b]
  BY <1>5 DEF Qemu
<1>7. n \in Qemu /\ n.st = q.st /\ n.from = q.from /\ n.linked = q.linked /\ n.password = b
  BY <1>4, <1>6 DEF Qemu
<1>8. QED
  BY <1>2, <1>7

\* QEMU gets the command: the only launch there is has the password it should.
LEMMA SendKeeps ==
    ASSUME IInv, NEW p \in Cvms, Send(p)
    PROVE  IInv'
<1> PICK r : r = run[p]
  OBVIOUS
<1> PICK s : s = r.slot
  OBVIOUS
<1>0. /\ r.pc = "send" /\ UNCHANGED <<files, raced>> /\ s # 0
      /\ After(p, TRUE)
      /\ qemu' = [qemu EXCEPT ![r.id][s] = Obey(@, r.cmd)]
  BY DEF Send
<1>1. /\ TypeOK /\ UpOnce /\ Path(r) /\ r.id \in Ids /\ s \in Slots
      /\ ~raced[r.id] => PowerKnown(r) /\ ViewKnown(r)
  BY <1>0, Ready
<1> PICK i \in Ids : i = r.id
  BY <1>1
<1>2. PICK w : Becomes(p, w) /\ w.stale = r.stale /\ Resumed(r, w)
  BY <1>0, <1>1, AfterFacts
<1>3. w.op = r.op /\ w.id = r.id
  BY <1>2 DEF Becomes
<1>4. w.pc # "idle" /\ w.pc # "rename" /\ Path(w)
  BY <1>2, <1>3, ResumedPath DEF Resumed
<1>5. PICK q : q = qemu[i][s]
  OBVIOUS
<1> PICK c : c = r.cmd
  OBVIOUS
<1>6. PICK n : n = Obey(q, c)
  OBVIOUS
<1>7. q \in Qemu
  BY <1>1, <1>5, QemuTyped
<1>8. /\ n \in Qemu /\ n.st = q.st /\ n.from = q.from /\ n.linked = q.linked
  BY <1>6, <1>7, ObeyFacts
<1>9. /\ c = "set_password" => n.password
      /\ c = "clear_password" => ~n.password
      /\ c \notin {"set_password", "clear_password"} => n.password = q.password
  BY <1>6, <1>7, ObeyFacts
<1>10. qemu' = [qemu EXCEPT ![i][s] = n]
  BY <1>0, <1>1, <1>5, <1>6 DEF TypeOK
<1>11. n.st = "up" => s \in Up(i)
  BY <1>1, <1>5, <1>8 DEF Up
<1>12. ASSUME ~raced[w.id]
       PROVE  PowerKnown(w)' /\ ViewKnown(w)'
  <2>1. /\ PowerKnown(r) /\ ViewKnown(r)
    BY <1>1, <1>3, <1>12
  <2>2. Launches(i) = Up(i) /\ Launches(i) \subseteq {s}
    BY <1>0, <2>1 DEF PowerKnown, Starting
  <2>3. qemu'[i][s] = n
    BY <1>1, <1>8, <1>10, QemuStep, ZenonT(40)
  <2>4. \A u \in Slots \ {s} : qemu'[i][u] = qemu[i][u]
    BY <1>1, <1>10 DEF TypeOK
  <2>5. Launches(i)' = Launches(i) /\ Up(i)' = Up(i)
    <3>1. \A u \in Slots : qemu'[i][u].st = qemu[i][u].st
      BY <1>5, <1>8, <2>3, <2>4
    <3>2. QED
      BY <3>1 DEF Launches, Up
  <2>6. i \in tokens' <=> i \in tokens
    BY <1>0 DEF files
  <2>7. s \in Launches(i) => q.st = "up"
    BY <1>5, <2>2 DEF Up
  <2>8. CASE r.op = "on" /\ r.cmd # "set_password"
    <3>1. s \in Launches(i) => ~q.password
      BY <1>0, <1>5, <2>1, <2>8 DEF ViewKnown, Unlisted
    <3>2. s \in Launches(i) => ~n.password
      <4>1. r.cmd # "clear_password"
        BY <1>0, <1>1, <2>8 DEF Path
      <4>2. QED
        BY <1>9, <2>8, <3>1, <4>1
    <3>3. w.pc \in {"monitor", "view"} /\ (w.pc = "monitor" => w.cmd = "c")
      BY <1>2, <2>8 DEF Resumed
    <3>4. PowerKnown(w)'
      BY <1>3, <2>2, <2>5, <3>3 DEF PowerKnown, NeedsOff
    <3>5. ViewKnown(w)'
      BY <1>3, <2>2, <2>5, <2>3, <2>8, <3>2, <3>3 DEF ViewKnown, Unlisted, Amid
    <3>6. QED
      BY <3>4, <3>5
  <2>9. CASE r.op = "viewadd"
    <3>1. r.cmd = "set_password" /\ w.pc = "more" /\ ~w.stale
      BY <1>2, <2>1, <2>9 DEF Resumed, ViewKnown
    <3>2. n.password
      BY <1>9, <3>1
    <3>3. PowerKnown(w)'
      BY <1>3, <2>2, <2>5, <3>1 DEF PowerKnown, NeedsOff
    <3>4. ViewKnown(w)'
      BY <1>3, <2>2, <2>5, <2>3, <2>9, <3>1, <3>2 DEF ViewKnown, Unlisted, Amid
    <3>5. QED
      BY <3>3, <3>4
  <2>10. CASE ~ (r.op = "on" /\ r.cmd # "set_password") /\ r.op # "viewadd"
    <3>1. w.pc = "done" /\ r.op \in {"on", "viewdel", "off", "reset", "stop", "cont"}
      BY <1>2, <2>10 DEF Resumed
    <3>2. s \in Launches(i) => (q.from = "VM" /\ q.linked => (n.password <=> i \in tokens))
      <4>1. CASE r.op = "on"
        <5>1. i \in tokens /\ n.password
          BY <1>0, <1>9, <2>1, <2>10, <4>1 DEF ViewKnown
        <5>2. QED
          BY <5>1
      <4>2. CASE r.op = "viewdel"
        <5>1. r.cmd = "clear_password"
          BY <1>2, <4>2 DEF Resumed
        <5>2. i \notin tokens /\ ~n.password
          BY <1>0, <1>9, <2>1, <4>2, <5>1 DEF ViewKnown
        <5>3. QED
          BY <5>2
      <4>3. CASE r.op \in {"off", "reset", "stop", "cont"}
        <5>1. n.password = q.password
          BY <1>2, <1>9, <4>3 DEF Resumed
        <5>2. Viewed(i)
          BY <1>0, <2>1, <4>3 DEF ViewKnown, Amid
        <5>3. s \in Launches(i) => (q.from = "VM" /\ q.linked => (q.password <=> i \in tokens))
          BY <1>5, <5>2 DEF Viewed
        <5>4. QED
          BY <5>1, <5>3
      <4>4. QED
        BY <3>1, <4>1, <4>2, <4>3
    <3>3. Viewed(i)'
      BY <1>8, <2>2, <2>5, <2>3, <2>6, <2>7, <3>2 DEF Viewed
    <3>4. PowerKnown(w)'
      BY <1>3, <2>2, <2>5, <3>1 DEF PowerKnown, NeedsOff
    <3>5. ViewKnown(w)'
      BY <1>3, <3>1, <3>3 DEF ViewKnown, Unlisted
    <3>6. QED
      BY <3>4, <3>5
  <2>11. QED
    BY <2>8, <2>9, <2>10
<1>13. QED
  <2>1. run[p].pc # "idle" /\ s \in Slots /\ n \in Qemu /\ UNCHANGED <<files, raced>>
    BY <1>0, <1>1, <1>8
  <2>2. /\ qemu' = [qemu EXCEPT ![w.id][s] = n]
        /\ n.st = "up" => s \in Up(w.id)
    BY <1>3, <1>10, <1>11
  <2>3. Calm(p, w)
    BY <1>2 DEF Resumed, Calm
  <2>4. QED
    BY <1>2, <1>4, <1>12, <2>1, <2>2, <2>3, QemuKeeps, Zenon

LEMMA UnlinkedTyped ==
    ASSUME NEW q \in Qemu, NEW n, n = [q EXCEPT !.linked = FALSE]
    PROVE  n \in Qemu /\ n.st = q.st /\ n.from = q.from /\ ~n.linked
<1>1. n = [st |-> q.st, from |-> q.from, linked |-> FALSE, paused |-> q.paused,
           password |-> q.password]
  BY DEF Qemu
<1>2. QED
  BY <1>1 DEF Qemu

\* The image of a machine that runs is removed under it.
LEMMA RmVMKeeps ==
    ASSUME IInv, NEW p \in Cvms, RmVM(p)
    PROVE  IInv'
<1> PICK r : r = run[p]
  OBVIOUS
<1>0. /\ r.pc = "rmvm" /\ UNCHANGED <<back, base, tokens, buf, raced>>
      /\ Goto(p, "rmback") /\ "rmback" \in Labels
      /\ vm' = [vm EXCEPT ![r.id] = FALSE]
      /\ qemu' = [qemu EXCEPT ![r.id] = [s \in Slots |->
                    IF @[s].from # "BACK" THEN [@[s] EXCEPT !.linked = FALSE] ELSE @[s]]]
  BY DEF RmVM, Labels
<1>1. /\ TypeOK /\ UpOnce /\ Path(r) /\ r.id \in Ids
      /\ ~raced[r.id] => PowerKnown(r) /\ ViewKnown(r)
  BY <1>0, Ready
<1>2. PICK w : Becomes(p, w) /\ w.pc = "rmback"
  BY <1>0, <1>1, GotoFacts
<1>3. /\ w.op = "del" /\ w.op = run[p].op /\ w.id = r.id /\ run'[p] = w
      /\ \A x \in Cvms \ {p} : run'[x] = run[x]
      /\ run' \in [Cvms -> Invocation]
  BY <1>0, <1>1, <1>2 DEF Becomes, Path, TypeOK
<1>4. PICK i \in Ids : i = w.id
  BY <1>1, <1>3
<1>5. /\ \A j \in Ids \ {i} : qemu'[j] = qemu[j]
      /\ \A s \in Slots : qemu'[i][s] = IF qemu[i][s].from # "BACK"
                                        THEN [qemu[i][s] EXCEPT !.linked = FALSE] ELSE qemu[i][s]
  BY <1>0, <1>1, <1>3, <1>4 DEF TypeOK
<1>6. ASSUME NEW s \in Slots
      PROVE  /\ qemu'[i][s] \in Qemu /\ qemu'[i][s].st = qemu[i][s].st
             /\ qemu'[i][s].from = "VM" => ~qemu'[i][s].linked
  <2>1. PICK q \in Qemu : q = qemu[i][s]
    BY <1>1, QemuTyped
  <2>2. CASE q.from # "BACK"
    <3>1. PICK n : n = [q EXCEPT !.linked = FALSE]
      OBVIOUS
    <3>2. n \in Qemu /\ n.st = q.st /\ n.from = q.from /\ ~n.linked
      BY <3>1, UnlinkedTyped
    <3>3. qemu'[i][s] = n
      BY <1>5, <2>1, <2>2, <3>1
    <3>4. QED
      BY <2>1, <3>2, <3>3
  <2>3. CASE q.from = "BACK"
    BY <1>5, <2>1, <2>3
  <2>4. QED
    BY <2>2, <2>3
<1>7. qemu' \in [Ids -> [Slots -> Qemu]]
  <2>1. PICK f : f = [s \in Slots |-> IF qemu[i][s].from # "BACK"
                         THEN [qemu[i][s] EXCEPT !.linked = FALSE] ELSE qemu[i][s]]
    OBVIOUS
  <2>2. qemu' = [qemu EXCEPT ![i] = f]
    BY <1>0, <1>1, <1>3, <1>4, <2>1 DEF TypeOK
  <2>3. qemu'[i] = f
    BY <1>1, <2>2 DEF TypeOK
  <2>4. f \in [Slots -> Qemu]
    BY <1>6, <2>1, <2>3
  <2>5. QED
    BY <1>1, <2>2, <2>4 DEF TypeOK
<1>8. Launches(i)' = Launches(i) /\ Up(i)' = Up(i)
  BY <1>6 DEF Launches, Up
<1>9. TypeOK' /\ Others(p)
  BY <1>0, <1>1, <1>3, <1>7 DEF TypeOK, Others
<1>10. \A s, t \in Up(w.id)' : s = t
  BY <1>1, <1>4, <1>8 DEF UpOnce
<1>11. w.pc # "idle" /\ Path(w) /\ CopyOK(w)'
  BY <1>2, <1>3 DEF Path, CopyOK
<1>12. ASSUME ~raced'[w.id]
       PROVE  PowerKnown(w)' /\ ViewKnown(w)'
  <2>1. PowerKnown(r)
    BY <1>0, <1>1, <1>3, <1>12
  <2>2. Launches(i)' = Up(i)'
    BY <1>0, <1>3, <1>4, <1>8, <2>1 DEF PowerKnown, Starting
  <2>3. \A s \in Launches(i)' : /\ qemu'[i][s].st = "up"
                                /\ qemu'[i][s].from = "VM" => ~qemu'[i][s].linked
    BY <1>6, <2>2 DEF Launches, Up
  <2>4. Viewed(i)'
    BY <2>3 DEF Viewed
  <2>5. PowerKnown(w)'
    BY <1>2, <1>4, <2>2 DEF PowerKnown, NeedsOff
  <2>6. ViewKnown(w)'
    BY <1>2, <1>3, <1>4, <2>3, <2>4 DEF ViewKnown, Unlisted
  <2>7. QED
    BY <2>5, <2>6
<1>13. Keeps(p, w)
  BY <1>0 DEF Keeps, Calm
<1>14. QED
  BY <1>0, <1>2, <1>3, <1>4, <1>5, <1>13, <1>9, <1>10, <1>11, <1>12, LocalKeeps

\* fclose() writes the line, to the file that has the name if nobody replaced it.
LEMMA FcloseKeeps ==
    ASSUME IInv, NEW p \in Cvms, Fclose(p)
    PROVE  IInv'
<1> PICK r : r = run[p]
  OBVIOUS
<1>0. /\ r.pc = "more" /\ UNCHANGED <<images, qemu, raced>>
      /\ Answer(p, "ok") /\ "ok" \in Answers
      /\ tokens' = IF r.stale THEN tokens ELSE tokens \cup {r.id} \cup buf[p]
      /\ buf' = [buf EXCEPT ![p] = {}]
  BY DEF Fclose, Answers, Machines
<1>1. /\ TypeOK /\ UpOnce /\ Path(r) /\ r.id \in Ids
      /\ ~raced[r.id] => PowerKnown(r) /\ ViewKnown(r)
  BY <1>0, Ready
<1>2. PICK w : Becomes(p, w) /\ w.pc = "done" /\ w.stale = r.stale
  BY <1>0, <1>1, AnswerFacts
<1>3. /\ w.op = "viewadd" /\ w.op = run[p].op /\ w.id = r.id /\ run'[p] = w
      /\ \A x \in Cvms \ {p} : run'[x] = run[x]
      /\ run' \in [Cvms -> Invocation]
  BY <1>0, <1>1, <1>2 DEF Becomes, Path, TypeOK
<1>4. PICK i \in Ids : i = w.id
  BY <1>1, <1>3
<1>5. Launches(i)' = Launches(i) /\ Up(i)' = Up(i)
  BY <1>0 DEF Launches, Up
<1>6. TypeOK' /\ Others(p)
  <2>1. buf' \in [Cvms -> SUBSET Ids] /\ tokens' \in SUBSET Ids
    BY <1>0, <1>1 DEF TypeOK
  <2>2. QED
    BY <1>0, <1>1, <1>3, <2>1 DEF TypeOK, Others, images
<1>7. \A s, t \in Up(w.id)' : s = t
  BY <1>1, <1>4, <1>5 DEF UpOnce
<1>8. w.pc # "idle" /\ Path(w) /\ CopyOK(w)'
  BY <1>2, <1>3 DEF Path, CopyOK
<1>9. ASSUME ~raced'[w.id]
      PROVE  PowerKnown(w)' /\ ViewKnown(w)'
  <2>1. PowerKnown(r) /\ ViewKnown(r)
    BY <1>0, <1>1, <1>3, <1>9
  <2>2. Launches(i)' = Up(i)'
    BY <1>0, <1>3, <1>4, <1>5, <2>1 DEF PowerKnown, Starting
  <2>3. ~r.stale /\ \A s \in Launches(i) : qemu[i][s].password
    BY <1>0, <1>3, <1>4, <2>1 DEF ViewKnown
  <2>4. i \in tokens'
    BY <1>0, <1>3, <1>4, <2>3
  <2>5. Viewed(i)'
    BY <1>0, <1>5, <2>2, <2>3, <2>4 DEF Viewed, Up
  <2>6. PowerKnown(w)'
    BY <1>2, <1>3, <1>4, <2>2 DEF PowerKnown, NeedsOff
  <2>7. ViewKnown(w)'
    BY <1>2, <1>3, <1>4, <2>3, <2>5 DEF ViewKnown, Unlisted
  <2>8. QED
    BY <2>6, <2>7
<1>10. p \in TokenUsers
  BY <1>0, <1>3 DEF TokenUsers, TokenOps
<1>11. \A j \in Ids \ {w.id} : 
        ~raced[j] => (j \in tokens' <=> j \in tokens) \/ j \in buf[p]
  BY <1>0, <1>3
<1>12. Releases(p)
  <2> SUFFICES ASSUME NEW j \in buf[p], ~raced[j]
               PROVE  Viewed(j)'
    BY <1>0 DEF Releases
  <2>1. Held(p, j)
    BY DEF IInv, LinesOK
  <2>2. ~r.stale /\ Launches(j) = Up(j) /\ \A s \in Launches(j) : qemu[j][s].password
    BY <2>1 DEF Held
  <2>3. Launches(j)' = Launches(j) /\ qemu' = qemu /\ j \in tokens'
    BY <1>0, <2>2 DEF Launches
  <2>4. QED
    BY <2>2, <2>3 DEF Viewed, Up
<1>13. QED
  BY <1>0, <1>2, <1>3, <1>12, <1>6, <1>7, <1>8, <1>9, <1>10, <1>11, LocalKeeps

LEMMA Replaced ==
    ASSUME NEW r \in Invocation, NEW w, w = [r EXCEPT !.stale = TRUE]
    PROVE  /\ w \in Invocation /\ w.pc = r.pc /\ w.op = r.op /\ w.id = r.id
           /\ w.cmd = r.cmd /\ w.copy = r.copy
<1>1. w = [pc |-> r.pc, op |-> r.op, id |-> r.id, cmd |-> r.cmd, ans |-> r.ans,
           slot |-> r.slot, sh |-> r.sh, copy |-> r.copy, stale |-> TRUE]
  BY DEF Invocation
<1>2. QED
  BY <1>1 DEF Invocation

\* sed -i puts the copy in place: no other machine's line is lost unless its
\* commands overlapped this one.
LEMMA SedRenameKeeps ==
    ASSUME IInv, NEW p \in Cvms, SedRename(p)
    PROVE  IInv'
<1> PICK r : r = run[p]
  OBVIOUS
<1>0. r.pc = "rename" /\ UNCHANGED <<images, buf, qemu, raced>> /\ tokens' = r.copy
  BY DEF SedRename
<1>1. /\ TypeOK /\ UpOnce /\ MachinesOK /\ Path(r) /\ r.id \in Ids /\ CopyOK(r)
      /\ ~raced[r.id] => PowerKnown(r) /\ ViewKnown(r)
  BY <1>0, Ready DEF IInv
<1>2. r \in Invocation /\ r.op \in {"del", "viewdel"} /\ r.copy \in SUBSET Ids
  BY <1>0, <1>1, RunTyped DEF Path
<1>3. p \in TokenUsers
  BY <1>0, <1>2 DEF TokenUsers, TokenOps
<1> DEFINE Reader(x) == /\ run[x].pc \in {"monitor", "send", "more"}
                        /\ run[x].op = "viewadd"
           others == [x \in Cvms |-> IF Reader(x) THEN [run[x] EXCEPT !.stale = TRUE] ELSE run[x]]
<1>4. others[p] = r
  BY <1>0
<1>5. ASSUME NEW x \in Cvms
      PROVE  /\ others[x] \in Invocation
             /\ others[x].pc = run[x].pc /\ others[x].op = run[x].op
             /\ others[x].id = run[x].id /\ others[x].cmd = run[x].cmd
             /\ others[x].copy = run[x].copy
             /\ ~raced[run[x].id] /\ x # p => others[x] = run[x]
  <2>1. run[x] \in Invocation /\ run[x].id \in Ids
    BY <1>1, RunTyped
  <2>2. CASE ~Reader(x)
    BY <2>1, <2>2
  <2>3. CASE Reader(x)
    <3>1. others[x] = [run[x] EXCEPT !.stale = TRUE]
      BY <2>3
    <3>2. PICK u \in Invocation : u = run[x]
      BY <2>1
    <3>3. PICK v : v = [u EXCEPT !.stale = TRUE]
      OBVIOUS
    <3>4. /\ v \in Invocation /\ v.pc = u.pc /\ v.op = u.op /\ v.id = u.id
          /\ v.cmd = u.cmd /\ v.copy = u.copy
      BY <3>3, Replaced
    <3>5. x \in TokenUsers /\ x \in At(run[x].id)
      BY <2>1, <2>3 DEF TokenUsers, TokenOps, At
    <3>6. ~raced[run[x].id] => p = x
      BY <1>1, <1>3, <2>1, <3>5 DEF MachinesOK
    <3>7. QED
      BY <3>1, <3>2, <3>3, <3>4, <3>6
  <2>4. QED
    BY <2>2, <2>3
<1>6. PICK w : /\ w \in Invocation /\ w.id = r.id /\ w.op = r.op
               /\ run' = [others EXCEPT ![p] = w]
               /\ \/ r.op = "del" /\ w.pc = "done"
                  \/ r.op = "viewdel" /\ w.pc = "monitor" /\ w.cmd = "clear_password"
  <2>1. CASE r.op = "del"
    <3>1. PICK a \in Answers : a = IF back[r.id] THEN "error" ELSE "ok"
      BY DEF Answers
    <3>2. PICK w : w = [r EXCEPT !.pc = "done", !.ans = a]
      OBVIOUS
    <3>3. w = [pc |-> "done", op |-> r.op, id |-> r.id, cmd |-> r.cmd, ans |-> a,
               slot |-> r.slot, sh |-> r.sh, copy |-> r.copy, stale |-> r.stale]
      BY <1>2, <3>2 DEF Invocation
    <3>4. w \in Invocation /\ w.id = r.id /\ w.op = r.op /\ w.pc = "done"
      BY <1>2, <3>3 DEF Invocation, Labels
    <3>5. run' = [others EXCEPT ![p].pc = "done", ![p].ans = a]
      BY <2>1, <3>1 DEF SedRename
    <3>6. run' = [others EXCEPT ![p] = w]
      BY <1>4, <3>2, <3>5
    <3>7. QED
      BY <2>1, <3>4, <3>6
  <2>2. CASE r.op = "viewdel"
    <3>1. PICK w : w = [r EXCEPT !.pc = "monitor", !.cmd = "clear_password"]
      OBVIOUS
    <3>2. w = [pc |-> "monitor", op |-> r.op, id |-> r.id, cmd |-> "clear_password",
               ans |-> r.ans, slot |-> r.slot, sh |-> r.sh, copy |-> r.copy, stale |-> r.stale]
      BY <1>2, <3>1 DEF Invocation
    <3>3. /\ w \in Invocation /\ w.id = r.id /\ w.op = r.op /\ w.pc = "monitor"
          /\ w.cmd = "clear_password"
      BY <1>2, <3>2 DEF Invocation, Labels, Commands
    <3>4. run' = [others EXCEPT ![p].pc = "monitor", ![p].cmd = "clear_password"]
      BY <2>2 DEF SedRename
    <3>5. run' = [others EXCEPT ![p] = w]
      BY <1>4, <3>1, <3>4
    <3>6. QED
      BY <2>2, <3>3, <3>5
  <2>3. QED
    BY <1>2, <2>1, <2>2
<1>7. /\ run'[p] = w
      /\ \A x \in Cvms \ {p} : run'[x] = others[x]
      /\ run' \in [Cvms -> Invocation]
  BY <1>5, <1>6
<1> HIDE DEF others
<1>8. Others(p)
  BY <1>3, <1>5, <1>7 DEF Others
<1>9. TypeOK'
  BY <1>0, <1>1, <1>2, <1>7 DEF TypeOK, images
<1>10. \A s, t \in Up(w.id)' : s = t
  BY <1>0, <1>1, <1>6 DEF UpOnce, Up
<1>11. w.pc # "idle" /\ Path(w) /\ CopyOK(w)'
  BY <1>6 DEF Path, CopyOK
<1>12. w.id \notin tokens'
  BY <1>0, <1>1, <1>6 DEF CopyOK
<1>13. \A j \in Ids \ {w.id} : ~raced[j] => (j \in tokens' <=> j \in tokens)
  BY <1>0, <1>1, <1>6 DEF CopyOK
<1>14. ASSUME ~raced'[w.id]
       PROVE  PowerKnown(w)' /\ ViewKnown(w)'
  <2>1. PICK i : i = w.id
    OBVIOUS
  <2>2. Launches(i)' = Launches(i) /\ Up(i)' = Up(i)
    BY <1>0 DEF Launches, Up
  <2>3. PowerKnown(r) /\ ViewKnown(r)
    BY <1>0, <1>1, <1>6, <1>14
  <2>4. Launches(i)' = Up(i)'
    BY <1>0, <1>6, <2>1, <2>2, <2>3 DEF PowerKnown, Starting
  <2>5. PowerKnown(w)'
    BY <1>6, <2>1, <2>4 DEF PowerKnown, NeedsOff
  <2>6. CASE r.op = "del"
    <3>1. \A s \in Launches(i)' : /\ qemu'[i][s].st = "up"
                                  /\ qemu'[i][s].from # "VM" \/ ~qemu'[i][s].linked
      BY <1>0, <1>6, <2>1, <2>2, <2>3, <2>4, <2>6 DEF ViewKnown, Up
    <3>2. Viewed(i)'
      BY <3>1 DEF Viewed
    <3>3. ViewKnown(w)'
      BY <1>6, <2>1, <2>6, <3>1, <3>2 DEF ViewKnown, Unlisted
    <3>4. QED
      BY <2>5, <3>3
  <2>7. CASE r.op = "viewdel"
    BY <1>6, <1>12, <2>5, <2>7 DEF ViewKnown, Unlisted, Amid
  <2>8. QED
    BY <1>2, <2>6, <2>7
<1>15. Keeps(p, w)
  BY <1>0 DEF Keeps, Calm
<1>16. QED
  BY <1>15, <1>0, <1>3, <1>6, <1>7, <1>8, <1>9, <1>10, <1>11, <1>13, <1>14, LocalKeeps

\* Whoever has lost the launch it talks to differs in the slot alone.
LEMMA LostFacts ==
    ASSUME TypeOK, NEW i \in Ids, NEW s \in Slots, NEW x \in Cvms, NEW w, w = Lost(i, s)[x]
    PROVE  /\ w \in Invocation
           /\ w.pc = run[x].pc /\ w.op = run[x].op /\ w.id = run[x].id /\ w.cmd = run[x].cmd
           /\ w.ans = run[x].ans /\ w.sh = run[x].sh /\ w.copy = run[x].copy
           /\ w.stale = run[x].stale
           /\ run[x].id # i => w = run[x]
           /\ run[x].id = i => w.slot = IF run[x].slot = s THEN 0 ELSE run[x].slot
<1>1. PICK r \in Invocation : r = run[x]
  BY RunTyped
<1>2. w = IF r.id = i /\ r.slot = s THEN [r EXCEPT !.slot = 0] ELSE r
  BY <1>1 DEF Lost
<1>3. CASE ~ (r.id = i /\ r.slot = s)
  BY <1>1, <1>2, <1>3
<1>4. CASE r.id = i /\ r.slot = s
  <2>1. w = [pc |-> r.pc, op |-> r.op, id |-> r.id, cmd |-> r.cmd, ans |-> r.ans,
             slot |-> 0, sh |-> r.sh, copy |-> r.copy, stale |-> r.stale]
    BY <1>2, <1>4 DEF Invocation
  <2>2. /\ w \in Invocation /\ w.pc = r.pc /\ w.op = r.op /\ w.id = r.id /\ w.cmd = r.cmd
        /\ w.ans = r.ans /\ w.sh = r.sh /\ w.copy = r.copy /\ w.stale = r.stale /\ w.slot = 0
    BY <2>1 DEF Invocation
  <2>3. QED
    BY <1>1, <1>4, <2>2
<1>5. QED
  BY <1>3, <1>4

LEMMA BootTyped ==
    ASSUME NEW q \in Qemu, NEW st \in Stages, NEW n, n = [q EXCEPT !.st = st]
    PROVE  /\ n \in Qemu /\ n.st = st /\ n.from = q.from
           /\ n.linked = q.linked /\ n.password = q.password
<1>1. n = [st |-> st, from |-> q.from, linked |-> q.linked, paused |-> q.paused,
           password |-> q.password]
  BY DEF Qemu
<1>2. QED
  BY <1>1 DEF Qemu

\* kill -9 of the only launch, or of one that has ended meanwhile.
LEMMA KillKeeps ==
    ASSUME IInv, NEW p \in Cvms, Kill(p)
    PROVE  IInv'
<1> PICK r : r = run[p]
  OBVIOUS
<1>0. r.pc = "kill" /\ UNCHANGED <<files, raced>> /\ "recheck" \in Labels
  BY DEF Kill, Labels
<1>1. /\ TypeOK /\ UpOnce /\ Path(r) /\ r.id \in Ids /\ r.slot \in Slots \cup {0}
      /\ ~raced[r.id] => PowerKnown(r) /\ ViewKnown(r)
  BY <1>0, Ready
<1>2. r.op \in {"halt", "recv"}
  BY <1>0, <1>1 DEF Path
<1>3. PICK i \in Ids : i = r.id
  BY <1>1
<1>4. PICK s \in Slots \cup {0} : s = r.slot
  BY <1>1
<1>5. PICK st : st = IF s = 0 THEN "none" ELSE qemu[i][s].st
  OBVIOUS
<1>6. ~raced[i] => Launches(i) = Up(i) /\ Launches(i) \subseteq {s} /\ ~r.sh
  BY <1>0, <1>1, <1>3, <1>4 DEF PowerKnown, Starting
<1>7. ASSUME NEW w, w.op = r.op, w.id = r.id, w.pc = "recheck", Launches(i)' = {}, Up(i)' = {}
      PROVE  PowerKnown(w)' /\ ViewKnown(w)'
  <2>1. Viewed(i)'
    BY <1>7 DEF Viewed
  <2>2. PowerKnown(w)'
    BY <1>3, <1>7 DEF PowerKnown
  <2>3. ViewKnown(w)'
    BY <1>2, <1>3, <1>7, <2>1 DEF ViewKnown, Unlisted
  <2>4. QED
    BY <2>2, <2>3
<1>8. CASE st \in (IF r.sh THEN {"shell"} ELSE {"both", "boot", "up"})
  <2>1. s \in Slots
    BY <1>4, <1>5, <1>8
  <2>2. qemu' = [qemu EXCEPT ![i][s] = NoQemu] /\ run' = [Lost(i, s) EXCEPT ![p].pc = "recheck"]
    BY <1>3, <1>4, <1>5, <1>8 DEF Kill
  <2>3. PICK v : v = Lost(i, s)[p]
    OBVIOUS
  <2>4. v \in Invocation /\ v.op = r.op /\ v.id = r.id
    BY <1>1, <2>1, <2>3, LostFacts
  <2>5. PICK w : w = [v EXCEPT !.pc = "recheck"]
    OBVIOUS
  <2>6. w = [pc |-> "recheck", op |-> v.op, id |-> v.id, cmd |-> v.cmd, ans |-> v.ans,
             slot |-> v.slot, sh |-> v.sh, copy |-> v.copy, stale |-> v.stale]
    BY <2>4, <2>5 DEF Invocation
  <2>7. w \in Invocation /\ w.op = r.op /\ w.id = r.id /\ w.pc = "recheck"
    BY <1>0, <2>4, <2>6 DEF Invocation
  <2>8. run' = [Lost(i, s) EXCEPT ![p] = w]
    BY <2>2, <2>3, <2>5
  <2>9. PICK L : L = Lost(i, s)
    OBVIOUS
  <2>10. DOMAIN L = Cvms
    BY <2>9 DEF Lost
  <2>11. \A x \in Cvms : /\ L[x] \in Invocation
                         /\ L[x].pc = run[x].pc /\ L[x].op = run[x].op
                         /\ L[x].id = run[x].id /\ L[x].cmd = run[x].cmd
                         /\ L[x].copy = run[x].copy /\ L[x].stale = run[x].stale
                         /\ run[x].id # i => L[x] = run[x]
    BY <1>1, <2>1, <2>9, LostFacts
  <2>12. L \in [Cvms -> Invocation]
    <3>1. L = [x \in Cvms |-> L[x]]
      BY <2>9 DEF Lost
    <3>2. QED
      BY <2>11, <3>1
  <2>13. /\ run'[p] = w /\ run' \in [Cvms -> Invocation]
         /\ \A x \in Cvms \ {p} : run'[x] = L[x]
    BY <2>7, <2>8, <2>9, <2>12
  <2>14. Others(p)
    BY <1>3, <2>11, <2>13 DEF Others
  <2>15. /\ qemu' \in [Ids -> [Slots -> Qemu]]
         /\ \A j \in Ids \ {i} : qemu'[j] = qemu[j]
    BY <1>1, <2>1, <2>2, QemuStep, NoQemuTyped
  <2>16. Launches(i)' = Launches(i) \ {s} /\ Up(i)' = Up(i) \ {s}
    <3>1. PICK n \in Qemu : n = NoQemu /\ n.st = "none"
      BY NoQemuTyped
    <3>2. /\ Launches(i)' = (Launches(i) \ {s}) \cup (IF n.st # "none" THEN {s} ELSE {})
          /\ Up(i)' = (Up(i) \ {s}) \cup (IF n.st = "up" THEN {s} ELSE {})
      BY <1>1, <2>1, <2>2, <3>1, LaunchesStep
    <3>3. QED
      BY <3>1, <3>2
  <2>17. TypeOK' /\ tokens' = tokens /\ raced' = raced
    BY <1>0, <1>1, <2>13, <2>15 DEF TypeOK, files, images
  <2>18. \A t, u \in Up(w.id)' : t = u
    BY <1>1, <1>3, <2>7, <2>16 DEF UpOnce
  <2>19. w.pc # "idle" /\ Path(w) /\ CopyOK(w)'
    BY <1>2, <2>7 DEF Path, CopyOK
  <2>20. ~raced'[w.id] => PowerKnown(w)' /\ ViewKnown(w)'
    BY <1>3, <1>6, <1>7, <2>7, <2>16, <2>17
  <2>21. Keeps(p, w)
    BY <1>0 DEF Keeps, Calm, files
  <2>22. QED
    BY <2>21, <1>0, <1>3, <2>7, <2>13, <2>14, <2>15, <2>17, <2>18, <2>19, <2>20, LocalKeeps
<1>9. CASE st \notin (IF r.sh THEN {"shell"} ELSE {"both", "boot", "up"})
  <2>1. Goto(p, "recheck")
    BY <1>3, <1>4, <1>5, <1>9 DEF Kill
  <2>2. PICK w : Becomes(p, w) /\ w.pc = "recheck"
    BY <1>0, <1>1, <2>1, GotoFacts
  <2>3. w.op = r.op /\ w.id = r.id
    BY <2>2 DEF Becomes
  <2>4. w.pc # "idle" /\ w.pc # "rename" /\ Path(w) /\ CopyOK(w)
    BY <1>2, <2>2, <2>3 DEF Path, CopyOK
  <2>5. ~raced[i] => Launches(i) = {} /\ Up(i) = {}
    <3>1. SUFFICES ASSUME ~raced[i]
                   PROVE  Launches(i) = {} /\ Up(i) = {}
      OBVIOUS
    <3>2. st # "up" /\ Launches(i) = Up(i) /\ Launches(i) \subseteq {s}
      BY <1>6, <1>9, <3>1
    <3>3. s \notin Up(i)
      BY <1>5, <3>2 DEF Up, Slots
    <3>4. QED
      BY <3>2, <3>3
  <2>6. CASE r.sh /\ st = "both"
    <3>1. s \in Slots /\ raced[i]
      BY <1>4, <1>5, <1>6, <2>6
    <3>2. qemu' = [qemu EXCEPT ![i][s].st = "boot"]
      BY <1>3, <1>4, <1>5, <1>9, <2>6 DEF Kill
    <3>3. PICK q \in Qemu : q = qemu[i][s]
      BY <1>1, <3>1, QemuTyped
    <3>4. PICK n : n = [q EXCEPT !.st = "boot"]
      OBVIOUS
    <3>5. n \in Qemu /\ n.st = "boot"
      <4>1. "boot" \in Stages
        BY DEF Stages
      <4>2. QED
        BY <3>4, <4>1, BootTyped
    <3>6. qemu' = [qemu EXCEPT ![w.id][s] = n]
      BY <1>3, <2>3, <3>2, <3>3, <3>4
    <3>7. QED
      BY <1>0, <1>3, <2>2, <2>3, <2>4, <3>1, <3>5, <3>6, QemuKeeps
  <2>7. CASE ~ (r.sh /\ st = "both")
    <3>1. qemu' = qemu
      BY <1>3, <1>4, <1>5, <1>9, <2>7 DEF Kill
    <3>2. Launches(i)' = Launches(i) /\ Up(i)' = Up(i)
      BY <3>1 DEF Launches, Up
    <3>3. ~raced[w.id] => PowerKnown(w)' /\ ViewKnown(w)'
      BY <1>3, <1>7, <2>2, <2>3, <2>5, <3>2
    <3>4. ~raced[w.id] => PowerKnown(w) /\ ViewKnown(w)
      <4>1. w.id \in tokens' <=> w.id \in tokens
        BY <1>0 DEF files
      <4>2. QED
        BY <3>1, <3>3, <4>1, KnownFrame
    <3>5. QED
      BY <1>0, <2>2, <2>4, <3>1, <3>4, SimpleKeeps
  <2>8. QED
    BY <2>6, <2>7
<1>10. QED
  BY <1>8, <1>9

-----------------------------------------------------------------------------
\* The exec daemon, the shells and QEMU.

\* A launch of i changes; the invocations stay where they are.
Stays == \A x \in Cvms :
    /\ run'[x].pc = run[x].pc /\ run'[x].op = run[x].op /\ run'[x].id = run[x].id
    /\ run'[x].cmd = run[x].cmd /\ run'[x].copy = run[x].copy /\ run'[x].stale = run[x].stale

LEMMA EnvKeeps ==
    ASSUME IInv, NEW i \in Ids, NEW s \in Slots, NEW q \in Qemu,
           qemu' = [qemu EXCEPT ![i][s] = q], UNCHANGED <<files, raced>>,
           run' \in [Cvms -> Invocation], Stays,
           \A x \in Cvms : run[x].id # i => run'[x] = run[x],
           q.st = "up" => Up(i) \subseteq {s},
           ~raced[i] => \A x \in At(i) : PowerKnown(run[x])' /\ ViewKnown(run[x])',
           ~raced[i] /\ At(i) = {} /\ Holders(i) = {} => Viewed(i)',
           ~raced[i] /\ Launches(i) = Up(i) /\ (\A t \in Launches(i) : qemu[i][t].password) =>
             Launches(i)' = Up(i)' /\ \A t \in Launches(i)' : qemu'[i][t].password
    PROVE  IInv'
<1>0. TypeOK /\ PathsOK /\ UpOnce /\ MachinesOK /\ LinesOK /\ CopiesOK
  BY DEF IInv
<1>1. /\ qemu' \in [Ids -> [Slots -> Qemu]]
      /\ \A j \in Ids \ {i} : qemu'[j] = qemu[j]
  BY <1>0, QemuStep
<1>2. TypeOK' /\ tokens' = tokens /\ raced' = raced
  BY <1>0, <1>1 DEF TypeOK, files, images
<1>3. PathsOK'
  BY <1>0, PathSame DEF PathsOK, Stays
<1>4. UpOnce'
  <2>1. \A j \in Ids \ {i} : Up(j)' = Up(j)
    BY <1>1 DEF Up
  <2>2. Up(i)' = (Up(i) \ {s}) \cup (IF q.st = "up" THEN {s} ELSE {})
    BY <1>0, LaunchesStep
  <2>3. \A t, u \in Up(i)' : t = u
    BY <1>0, <2>2 DEF UpOnce
  <2>4. QED
    BY <1>0, <2>1, <2>3 DEF UpOnce
<1>5. /\ \A j \in Ids : At(j)' = At(j)
      /\ TokenUsers' = TokenUsers
  BY DEF At, TokenUsers, Stays
<1>9. buf' = buf /\ \A j : Holders(j)' = Holders(j)
  BY DEF Holders, files
<1>6. MachinesOK'
  <2> SUFFICES ASSUME NEW j \in Ids, ~raced'[j]
               PROVE  /\ \A x, y \in At(j)' : x = y
                      /\ \A x \in At(j)' : PowerKnown(run[x])' /\ ViewKnown(run[x])'
                      /\ At(j)' = {} /\ Holders(j)' = {} => Viewed(j)'
                      /\ \A x \in At(j)' : x \in TokenUsers' => TokenUsers' = {x}
    BY DEF MachinesOK
  <2>1. /\ ~raced[j]
        /\ \A x, y \in At(j) : x = y
        /\ \A x \in At(j) : PowerKnown(run[x]) /\ ViewKnown(run[x])
        /\ At(j) = {} /\ Holders(j) = {} => Viewed(j)
        /\ \A x \in At(j) : x \in TokenUsers => TokenUsers = {x}
    BY <1>0, <1>2 DEF MachinesOK
  <2>2. CASE j = i
    BY <1>5, <1>9, <2>1, <2>2
  <2>3. CASE j # i
    <3>1. qemu'[j] = qemu[j] /\ (j \in tokens' <=> j \in tokens)
      BY <1>1, <1>2, <2>3
    <3>2. Viewed(j)' <=> Viewed(j)
      BY <3>1, ViewedFrame
    <3>3. ASSUME NEW x \in At(j)
          PROVE  PowerKnown(run[x])' /\ ViewKnown(run[x])'
      <4>1. x \in Cvms /\ run[x].id = j
        BY DEF At
      <4>2. run'[x] = run[x]
        BY <2>3, <4>1
      <4>3. PICK r : r = run[x]
        OBVIOUS
      <4>4. PowerKnown(r)' /\ ViewKnown(r)'
        BY <2>1, <3>1, <4>1, <4>3, KnownFrame
      <4>5. QED
        BY <4>2, <4>3, <4>4
    <3>4. QED
      BY <1>5, <1>9, <2>1, <3>2, <3>3
  <2>4. QED
    BY <2>2, <2>3
<1>7. CopiesOK'
  BY <1>0, <1>2 DEF CopiesOK, CopyOK, Stays
<1>8. LinesOK'
  <2> SUFFICES ASSUME NEW x \in Cvms, NEW j \in buf[x]
               PROVE  Held(x, j)'
    BY <1>9 DEF LinesOK
  <2>1. Held(x, j) /\ j \in Ids
    BY <1>0 DEF LinesOK, TypeOK
  <2>2. /\ run'[x].op = run[x].op /\ run'[x].pc = run[x].pc /\ run'[x].id = run[x].id
        /\ run'[x].stale = run[x].stale
    BY DEF Stays
  <2>3. ASSUME ~raced[j]
        PROVE  \/ qemu'[j] = qemu[j]
               \/ /\ Launches(j)' = Up(j)'
                  /\ \A t \in Launches(j)' : qemu'[j][t].password
    <3>1. Launches(j) = Up(j) /\ \A t \in Launches(j) : qemu[j][t].password
      BY <2>1, <2>3 DEF Held
    <3>2. CASE j = i
      BY <2>3, <3>1, <3>2
    <3>3. CASE j # i
      BY <1>1, <2>1, <3>3
    <3>4. QED
      BY <3>2, <3>3
  <2>4. run[x].pc \in {"monitor", "send", "more"} /\ run[x].id # j
    BY <2>1 DEF Held
  <2>5. QED
    BY <1>2, <1>5, <1>9, <2>1, <2>2, <2>3, <2>4, HeldFrame
<1>10. QED
  BY <1>2, <1>3, <1>4, <1>6, <1>7, <1>8 DEF IInv

\* A launch that is not up comes nearer: only an invocation that started it, or
\* none, is at work if nothing raced.
LEMMA ProgressKeeps ==
    ASSUME IInv, NEW i \in Ids, NEW s \in Slots, NEW q \in Qemu,
           qemu' = [qemu EXCEPT ![i][s] = q], UNCHANGED <<files, run, raced>>,
           qemu[i][s].st \notin {"none", "up"}, q.st # "none", q.from = qemu[i][s].from,
           q.password = qemu[i][s].password,
           q.st = "up" => Up(i) = {}
    PROVE  IInv'
<1>0. TypeOK /\ MachinesOK
  BY DEF IInv
<1>1. Launches(i)' = Launches(i) /\ s \in Launches(i) /\ s \notin Up(i)
  <2>1. Launches(i)' = (Launches(i) \ {s}) \cup (IF q.st # "none" THEN {s} ELSE {})
    BY <1>0, LaunchesStep, ZenonT(40)
  <2>2. s \in Launches(i) /\ s \notin Up(i)
    BY DEF Launches, Up
  <2>3. QED
    BY <2>1, <2>2
<1>2. /\ qemu'[i][s] = q
      /\ \A t \in Slots \ {s} : qemu'[i][t] = qemu[i][t]
  BY <1>0, QemuStep, ZenonT(40)
<1>3. i \in tokens' <=> i \in tokens
  BY DEF files
<1>4. Viewed(i) => Viewed(i)'
  <2>1. \A t \in Launches(i) : t \in Slots
    BY DEF Launches
  <2>2. Viewed(i) => q.from # "VM"
    BY <1>1 DEF Viewed
  <2>3. QED
    BY <1>1, <1>2, <1>3, <2>1, <2>2 DEF Viewed
<1>5. ASSUME ~raced[i], NEW x \in At(i)
      PROVE  PowerKnown(run[x])' /\ ViewKnown(run[x])'
  <2>1. PICK r : r = run[x]
    OBVIOUS
  <2>2. PowerKnown(r) /\ ViewKnown(r) /\ r.id = i /\ run'[x] = r
    BY <1>0, <1>5, <2>1 DEF MachinesOK, At
  <2>3. Starting(r)
    BY <1>1, <2>2 DEF PowerKnown
  <2>4. PowerKnown(r)'
    BY <2>3 DEF PowerKnown, Starting, NeedsOff
  <2>5. Unlisted(r) => \A t \in Launches(i)' : ~qemu'[i][t].password
    <3>1. \A t \in Launches(i) : t \in Slots
      BY DEF Launches
    <3>2. QED
      BY <1>1, <1>2, <2>2, <3>1 DEF ViewKnown
  <2>6. Amid(r) \/ Viewed(i)'
    BY <1>4, <2>2 DEF ViewKnown
  <2>7. ViewKnown(r)'
    BY <2>2, <2>3, <2>5, <2>6 DEF ViewKnown, Starting, Unlisted, Amid
  <2>8. QED
    BY <2>1, <2>2, <2>4, <2>7
<1>6. ~raced[i] /\ At(i) = {} /\ Holders(i) = {} => Viewed(i)'
  BY <1>0, <1>4 DEF MachinesOK
<1>7. /\ run' \in [Cvms -> Invocation] /\ Stays
      /\ \A x \in Cvms : run[x].id # i => run'[x] = run[x]
  BY <1>0 DEF TypeOK, Stays
<1>8. q.st = "up" => Up(i) \subseteq {s}
  OBVIOUS
<1>9. Launches(i) # Up(i)
  BY <1>1
<1>10. QED
  BY <1>9, <1>5, <1>6, <1>7, <1>8, EnvKeeps

\* A launch ends: what was known of the machine is known of what is left.
LEMMA EndsKeeps ==
    ASSUME IInv, NEW i \in Ids, NEW s \in Slots, Ends(i, s), UNCHANGED <<files, raced>>
    PROVE  IInv'
<1>0. TypeOK /\ MachinesOK
  BY DEF IInv
<1>1. PICK q \in Qemu : q = NoQemu /\ q.st = "none"
  BY NoQemuTyped
<1>2. qemu' = [qemu EXCEPT ![i][s] = q] /\ run' = Lost(i, s)
  BY <1>1 DEF Ends
<1>3. Launches(i)' = Launches(i) \ {s} /\ Up(i)' = Up(i) \ {s}
  <2>1. /\ Launches(i)' = (Launches(i) \ {s}) \cup (IF q.st # "none" THEN {s} ELSE {})
        /\ Up(i)' = (Up(i) \ {s}) \cup (IF q.st = "up" THEN {s} ELSE {})
    BY <1>0, <1>2, LaunchesStep
  <2>2. QED
    BY <1>1, <2>1
<1>4. \A t \in Slots \ {s} : qemu'[i][t] = qemu[i][t]
  BY <1>0, <1>2, QemuStep
<1>5. \A t \in Launches(i)' : t \in Launches(i) /\ qemu'[i][t] = qemu[i][t]
  BY <1>3, <1>4 DEF Launches
<1>6. i \in tokens' <=> i \in tokens
  BY DEF files
<1>7. Viewed(i) => Viewed(i)'
  BY <1>5, <1>6 DEF Viewed
<1>8. \A x \in Cvms :
        /\ run'[x] \in Invocation
        /\ run'[x].pc = run[x].pc /\ run'[x].op = run[x].op /\ run'[x].id = run[x].id
        /\ run'[x].cmd = run[x].cmd /\ run'[x].copy = run[x].copy
        /\ run'[x].stale = run[x].stale
        /\ run[x].id # i => run'[x] = run[x]
  BY <1>0, <1>2, LostFacts
<1>9. run' \in [Cvms -> Invocation]
  <2>1. PICK L : L = run'
    OBVIOUS
  <2>2. L = [x \in Cvms |-> L[x]]
    BY <1>2, <2>1 DEF Lost
  <2>3. QED
    BY <1>8, <2>1, <2>2
<1>10. ASSUME ~raced[i], NEW x \in At(i)
       PROVE  PowerKnown(run[x])' /\ ViewKnown(run[x])'
  <2>1. PICK r : r = run[x]
    OBVIOUS
  <2>2. PowerKnown(r) /\ ViewKnown(r) /\ r.id = i /\ x \in Cvms
    BY <1>0, <1>10, <2>1 DEF MachinesOK, At
  <2>3. PICK w : w = run'[x]
    OBVIOUS
  <2>4. /\ w.pc = r.pc /\ w.op = r.op /\ w.id = r.id /\ w.cmd = r.cmd
        /\ w.ans = r.ans /\ w.sh = r.sh /\ w.stale = r.stale
        /\ w.slot = IF r.slot = s THEN 0 ELSE r.slot
    <3>1. w = Lost(i, s)[x]
      BY <1>2, <2>3
    <3>2. /\ w.pc = run[x].pc /\ w.op = run[x].op /\ w.id = run[x].id /\ w.cmd = run[x].cmd
          /\ w.ans = run[x].ans /\ w.sh = run[x].sh /\ w.stale = run[x].stale
          /\ run[x].id = i => w.slot = IF run[x].slot = s THEN 0 ELSE run[x].slot
      BY <1>0, <2>2, <3>1, LostFacts
    <3>3. QED
      BY <2>1, <2>2, <3>2
  <2>5. PowerKnown(w)'
    <3>1. /\ Starting(w) \/ Launches(w.id)' = Up(w.id)'
      BY <1>3, <2>2, <2>4 DEF PowerKnown, Starting
    <3>2. NeedsOff(w) => Launches(w.id)' = {}
      BY <1>3, <2>2, <2>4 DEF PowerKnown, NeedsOff
    <3>3. w.pc \in {"kill", "send"} => Launches(w.id)' \subseteq {w.slot}
      BY <1>3, <2>2, <2>4 DEF PowerKnown
    <3>4. w.pc = "kill" => ~w.sh
      BY <2>2, <2>4 DEF PowerKnown
    <3>5. QED
      BY <3>1, <3>2, <3>3, <3>4 DEF PowerKnown, Starting, NeedsOff
  <2>6. ViewKnown(w)'
    BY <1>5, <1>6, <1>7, <2>2, <2>4 DEF ViewKnown, Unlisted, Amid
  <2>7. QED
    BY <2>3, <2>5, <2>6
<1>11. ~raced[i] /\ At(i) = {} /\ Holders(i) = {} => Viewed(i)'
  BY <1>0, <1>7 DEF MachinesOK
<1>12. Stays
  BY <1>8 DEF Stays
<1>13. QED
  <2>1. q.st = "up" => Up(i) \subseteq {s}
    BY <1>1
  <2>2. \A x \in Cvms : run[x].id # i => run'[x] = run[x]
    BY <1>8
  <2>3. Launches(i) = Up(i) /\ (\A t \in Launches(i) : qemu[i][t].password) =>
          Launches(i)' = Up(i)' /\ \A t \in Launches(i)' : qemu'[i][t].password
    BY <1>3, <1>5
  <2>4. QED
    BY <1>2, <1>9, <1>10, <1>11, <1>12, <2>1, <2>2, <2>3, EnvKeeps

LEMMA LaunchKeeps ==
    ASSUME IInv, NEW i \in Ids, NEW s \in Slots, Launch(i, s)
    PROVE  IInv'
<1>0. TypeOK /\ qemu[i][s].st = "queued" /\ UNCHANGED <<files, raced>>
  BY DEF IInv, Launch
<1>1. CASE Ends(i, s)
  BY <1>0, <1>1, EndsKeeps
<1>2. CASE qemu' = [qemu EXCEPT ![i][s].st = "shell"] /\ UNCHANGED run
  <2>1. PICK q \in Qemu : q = qemu[i][s]
    BY <1>0, QemuTyped
  <2>2. PICK n : n = [q EXCEPT !.st = "shell"]
    OBVIOUS
  <2>3. "shell" \in Stages
    BY DEF Stages
  <2>4. n \in Qemu /\ n.st = "shell" /\ n.from = q.from /\ n.password = q.password
    BY <2>2, <2>3, BootTyped
  <2>5. qemu' = [qemu EXCEPT ![i][s] = n]
    BY <1>2, <2>1, <2>2
  <2>6. /\ UNCHANGED <<files, run, raced>> /\ qemu[i][s].st \notin {"none", "up"}
        /\ n.st # "none" /\ n.st # "up"
        /\ n.from = qemu[i][s].from /\ n.password = qemu[i][s].password
    BY <1>0, <1>2, <2>1, <2>4
  <2>7. QED
    BY <2>4, <2>5, <2>6, ProgressKeeps
<1>3. QED
  BY <1>1, <1>2 DEF Launch

LEMMA ShellKeeps ==
    ASSUME IInv, NEW i \in Ids, NEW s \in Slots, Shell(i, s)
    PROVE  IInv'
<1>0. TypeOK /\ qemu[i][s].st \in {"shell", "both"} /\ UNCHANGED <<files, run, raced>>
  BY DEF IInv, Shell
<1>1. PICK st \in {"both", "boot"} : qemu' = [qemu EXCEPT ![i][s].st = st]
  BY DEF Shell
<1>2. PICK q \in Qemu : q = qemu[i][s]
  BY <1>0, QemuTyped
<1>3. PICK n : n = [q EXCEPT !.st = st]
  OBVIOUS
<1>4. st \in Stages
  BY <1>1 DEF Stages
<1>5. n \in Qemu /\ n.st = st /\ n.from = q.from /\ n.password = q.password
  BY <1>3, <1>4, BootTyped
<1>6. qemu' = [qemu EXCEPT ![i][s] = n]
  BY <1>1, <1>2, <1>3
<1>7. /\ UNCHANGED <<files, run, raced>> /\ qemu[i][s].st \notin {"none", "up"}
      /\ n.st # "none" /\ n.st # "up"
      /\ n.from = qemu[i][s].from /\ n.password = qemu[i][s].password
  BY <1>0, <1>1, <1>2, <1>5
<1>8. QED
  BY <1>5, <1>6, <1>7, ProgressKeeps

LEMMA BootKeeps ==
    ASSUME IInv, NEW i \in Ids, NEW s \in Slots, Boot(i, s)
    PROVE  IInv'
<1>0. /\ TypeOK /\ qemu[i][s].st = "boot" /\ UNCHANGED <<files, run, raced>> /\ Up(i) = {}
      /\ qemu' = [qemu EXCEPT ![i][s].st = "up", ![i][s].linked = TRUE]
  BY DEF IInv, Boot
<1>1. PICK q \in Qemu : q = qemu[i][s]
  BY <1>0, QemuTyped
<1>2. PICK n : n = [q EXCEPT !.st = "up", !.linked = TRUE]
  OBVIOUS
<1>3. n = [st |-> "up", from |-> q.from, linked |-> TRUE, paused |-> q.paused,
           password |-> q.password]
  BY <1>2 DEF Qemu
<1>4. n \in Qemu /\ n.st = "up" /\ n.from = q.from /\ n.password = q.password
  BY <1>3 DEF Qemu, Stages
<1>5. qemu' = [qemu EXCEPT ![i][s] = n]
  BY <1>0, <1>1, <1>2 DEF TypeOK
<1>6. /\ qemu[i][s].st \notin {"none", "up"} /\ n.st # "none"
      /\ n.from = qemu[i][s].from /\ n.password = qemu[i][s].password
  BY <1>0, <1>1, <1>4
<1>7. QED
  BY <1>0, <1>4, <1>5, <1>6, ProgressKeeps

LEMMA ExitKeeps ==
    ASSUME IInv, NEW i \in Ids, NEW s \in Slots, Exit(i, s)
    PROVE  IInv'
BY EndsKeeps DEF Exit

-----------------------------------------------------------------------------
\* Invocations begin and end.

LEMMA NoRunFacts ==
    /\ NoRun \in Invocation /\ NoRun.pc = "idle" /\ NoRun.op = "status"
    /\ Path(NoRun) /\ CopyOK(NoRun)
<1>1. PICK i \in Ids : i = CHOOSE j \in Ids : TRUE
  OBVIOUS
<1>2. NoRun = [pc |-> "idle", op |-> "status", id |-> i, cmd |-> "none", ans |-> "none",
               slot |-> 0, sh |-> FALSE, copy |-> {}, stale |-> FALSE]
  BY <1>1 DEF NoRun
<1>3. NoRun \in Invocation /\ NoRun.pc = "idle" /\ NoRun.op = "status"
  BY <1>2 DEF Invocation, Labels, AllOps, Commands, Answers
<1>4. QED
  BY <1>3 DEF Path, CopyOK

\* What main() starts for each command.
LEMMA EntryFacts ==
    ASSUME NEW x \in AllOps
    PROVE  /\ Entry(x) \in {"check", "haltcheck", "monitor", "base", "create", "rmvm", "fopen", "sed"}
           /\ Entry(x) = "check" => x \in {"status", "on", "oson", "off", "expend", "recv"}
           /\ Entry(x) = "haltcheck" <=> x = "halt"
           /\ Entry(x) = "monitor" => x \in {"reset", "stop", "cont"}
           /\ Entry(x) = "base" => x = "template"
           /\ Entry(x) = "create" => x \in {"add", "drop", "rebuild"}
           /\ Entry(x) = "rmvm" => x = "del"
           /\ Entry(x) = "fopen" => x = "viewadd"
           /\ Entry(x) = "sed" => x = "viewdel"
           /\ x = "status" => Entry(x) = "check"
           /\ FirstCommand(x) \in Commands \ {"set_password", "clear_password"}
BY DEF Entry, FirstCommand, AllOps, Commands

LEMMA BegunFacts ==
    ASSUME NEW x \in AllOps, NEW i \in Ids, NEW l, NEW c, NEW w,
           l = Entry(x), c = FirstCommand(x),
           w = [pc |-> l, op |-> x, id |-> i, cmd |-> c, ans |-> "none",
                slot |-> 0, sh |-> FALSE, copy |-> {}, stale |-> FALSE]
    PROVE  /\ w \in Invocation /\ w.op = x /\ w.id = i /\ w.pc # "idle"
           /\ ~w.stale /\ Path(w)
           /\ w.pc \in {"check", "haltcheck", "monitor", "base", "create", "rmvm", "fopen", "sed"}
           /\ w.pc = "create" => w.op # "recv"
           /\ w.pc = "monitor" => w.op \in {"reset", "stop", "cont"}
           /\ w.pc = "sed" => w.op = "viewdel"
<1>1. /\ l \in {"check", "haltcheck", "monitor", "base", "create", "rmvm", "fopen", "sed"}
      /\ c \in Commands
  BY EntryFacts
<1>2. l \in Labels /\ "none" \in Answers
  BY <1>1 DEF Labels, Answers
<1>3. w \in Invocation
  BY <1>1, <1>2 DEF Invocation
<1>4. w.pc = l /\ w.op = x /\ w.id = i /\ w.cmd = c /\ ~w.stale
  OBVIOUS
<1>5. Path(w)
  BY <1>1, <1>4, EntryFacts DEF Path
<1>6. QED
  BY <1>1, <1>3, <1>4, <1>5, EntryFacts

LEMMA BeginKeeps ==
    ASSUME IInv, NEW p \in Cvms, Begin(p)
    PROVE  IInv'
<1>0. TypeOK /\ PathsOK /\ UpOnce /\ MachinesOK /\ LinesOK /\ CopiesOK
  BY DEF IInv
<1>1. run[p].pc = "idle" /\ UNCHANGED <<files, qemu>>
  BY DEF Begin
<1>2. PICK job \in Jobs :
        LET x == job[1]
            i == job[2]
            others == IF x \in TokenOps THEN UNION {Machines(q) : q \in TokenUsers} ELSE {}
            met == others \cup (IF others # {} \/ Active(i) # {} \/ UnderWay(i)
                                THEN {i} ELSE {})
        IN  /\ run' = [run EXCEPT ![p] = [NoRun EXCEPT !.pc = Entry(x), !.op = x,
                                            !.id = i, !.cmd = FirstCommand(x)]]
            /\ raced' = [j \in Ids |-> raced[j] \/ j \in met]
  BY DEF Begin
<1>3. PICK x \in AllOps, i \in Ids : x = job[1] /\ i = job[2]
  <2>1. job \in AllOps \X Ids
    BY <1>2, Zenon
  <2>2. QED
    BY <2>1
<1>4. PICK others : others = IF x \in TokenOps THEN UNION {Machines(q) : q \in TokenUsers} ELSE {}
  OBVIOUS
<1>5. PICK w : w = [NoRun EXCEPT !.pc = Entry(x), !.op = x, !.id = i, !.cmd = FirstCommand(x)]
  OBVIOUS
<1>6. /\ run' = [run EXCEPT ![p] = w]
      /\ raced' = [j \in Ids |-> raced[j] \/ j \in others \cup
                     (IF others # {} \/ Active(i) # {} \/ UnderWay(i) THEN {i} ELSE {})]
  BY <1>2, <1>3, <1>4, <1>5
<1>7. /\ w \in Invocation /\ w.op = x /\ w.id = i /\ w.pc # "idle" /\ ~w.stale /\ Path(w)
      /\ w.pc \in {"check", "haltcheck", "monitor", "base", "create", "rmvm", "fopen", "sed"}
      /\ w.pc = "create" => w.op # "recv"
      /\ w.pc = "monitor" => w.op \in {"reset", "stop", "cont"}
      /\ w.pc = "sed" => w.op = "viewdel"
  <2>1. PICK l, c : l = Entry(x) /\ c = FirstCommand(x)
    OBVIOUS
  <2>2. w = [NoRun EXCEPT !.pc = l, !.op = x, !.id = i, !.cmd = c]
    BY <1>5, <2>1
  <2>3. w = [pc |-> l, op |-> x, id |-> i, cmd |-> c, ans |-> "none",
             slot |-> 0, sh |-> FALSE, copy |-> {}, stale |-> FALSE]
    BY <2>2 DEF NoRun
  <2>4. QED
    BY <2>1, <2>3, BegunFacts
<1>8. /\ run'[p] = w /\ \A q \in Cvms \ {p} : run'[q] = run[q]
      /\ run' \in [Cvms -> Invocation]
  BY <1>0, <1>6, <1>7 DEF TypeOK
<1>9. /\ raced' \in [Ids -> BOOLEAN]
      /\ \A j \in Ids : ~raced'[j] => ~raced[j] /\ j \notin others
      /\ ~raced'[i] => others = {} /\ Active(i) = {} /\ ~UnderWay(i)
  BY <1>6
<1>10. TypeOK' /\ tokens' = tokens /\ qemu' = qemu
  BY <1>0, <1>1, <1>8, <1>9 DEF TypeOK, files, images
<1>11. PathsOK'
  BY <1>0, <1>7, <1>8 DEF PathsOK
<1>12. UpOnce'
  BY <1>0, <1>10 DEF UpOnce, Up
<1>13. /\ \A j \in Ids \ {i} : At(j)' = At(j)
       /\ At(i)' = At(i) \cup {p}
       /\ TokenUsers' = TokenUsers \cup (IF x \in TokenOps THEN {p} ELSE {})
       /\ p \notin TokenUsers /\ \A j \in Ids : p \notin At(j)
  BY <1>1, <1>7, <1>8 DEF At, TokenUsers
<1>14. x \in TokenOps => \A q \in TokenUsers : run[q].id \in others /\ buf[q] \subseteq others
  BY <1>4 DEF Machines
<1>18. /\ buf' = buf /\ \A j : Holders(j)' = Holders(j)
       /\ Active(i) = {} => At(i) = {} /\ Holders(i) = {}
  <2>1. \A q \in Cvms : buf[q] # {} => run[q].pc # "idle"
    BY <1>0 DEF LinesOK, Held
  <2>2. buf' = buf
    BY <1>1 DEF files
  <2>3. QED
    BY <2>1, <2>2 DEF Holders, At, Active, Machines
<1>19. LinesOK'
  <2> SUFFICES ASSUME NEW q \in Cvms, NEW j \in buf[q]
               PROVE  Held(q, j)'
    BY <1>18 DEF LinesOK
  <2>1. Held(q, j) /\ j \in Ids
    BY <1>0 DEF LinesOK, TypeOK
  <2>2. /\ run[q].pc \in {"monitor", "send", "more"} /\ run[q].id # j /\ run[q].op = "viewadd"
    BY <2>1 DEF Held
  <2>3. q # p /\ run'[q] = run[q] /\ q \in TokenUsers
    BY <1>1, <1>8, <2>2 DEF TokenUsers, TokenOps
  <2>4. ASSUME ~raced'[j]
        PROVE  ~raced[j] /\ At(j)' = At(j) /\ TokenUsers' = TokenUsers
    <3>1. ~raced[j] /\ x \notin TokenOps
      BY <1>9, <1>14, <2>1, <2>3, <2>4
    <3>2. j # i
      <4>1. q \in Active(j)
        BY <2>2 DEF Active, Machines
      <4>2. QED
        BY <1>9, <2>4, <4>1
    <3>3. QED
      BY <1>13, <2>1, <3>1, <3>2
  <2>5. QED
    BY <1>10, <1>18, <2>1, <2>2, <2>3, <2>4, HeldFrame
<1>15. MachinesOK'
  <2> SUFFICES ASSUME NEW j \in Ids, ~raced'[j]
               PROVE  /\ \A y, z \in At(j)' : y = z
                      /\ \A y \in At(j)' : PowerKnown(run[y])' /\ ViewKnown(run[y])'
                      /\ At(j)' = {} /\ Holders(j)' = {} => Viewed(j)'
                      /\ \A y \in At(j)' : y \in TokenUsers' => TokenUsers' = {y}
    BY DEF MachinesOK
  <2>1. /\ ~raced[j] /\ j \notin others
        /\ \A y, z \in At(j) : y = z
        /\ \A y \in At(j) : PowerKnown(run[y]) /\ ViewKnown(run[y])
        /\ At(j) = {} /\ Holders(j) = {} => Viewed(j)
        /\ \A y \in At(j) : y \in TokenUsers => TokenUsers = {y}
    BY <1>0, <1>9 DEF MachinesOK
  <2>2. \A k \in Ids : Viewed(k)' <=> Viewed(k)
    BY <1>10, ViewedFrame
  <2>3. CASE j = i
    <3>1. /\ others = {} /\ At(i) = {} /\ Holders(i) = {} /\ Launches(i) = Up(i)
          /\ At(i)' = {p}
      BY <1>9, <1>13, <1>18, <2>3 DEF UnderWay
    <3>2. PowerKnown(w)
      BY <1>7, <3>1 DEF PowerKnown, NeedsOff
    <3>3. ViewKnown(w)
      BY <1>7, <2>1, <2>3, <3>1 DEF ViewKnown, Unlisted
    <3>4. PowerKnown(w)' /\ ViewKnown(w)'
      BY <1>10, <3>2, <3>3, KnownFrame
    <3>5. p \in TokenUsers' => TokenUsers' = {p}
      BY <1>13, <1>14, <3>1
    <3>6. QED
      BY <1>8, <2>3, <3>1, <3>4, <3>5
  <2>4. CASE j # i
    <3>1. ASSUME NEW y \in At(j)
          PROVE  PowerKnown(run[y])' /\ ViewKnown(run[y])'
      <4>1. PICK r : r = run[y]
        OBVIOUS
      <4>2. PowerKnown(r)' /\ ViewKnown(r)'
        BY <1>10, <2>1, <4>1, KnownFrame
      <4>3. run'[y] = r
        BY <1>8, <1>13, <4>1 DEF At
      <4>4. QED
        BY <4>2, <4>3
    <3>2. ASSUME NEW y \in At(j), y \in TokenUsers'
          PROVE  TokenUsers' = {y}
      <4>1. y \in TokenUsers /\ run[y].id = j
        BY <1>13, <3>2 DEF At
      <4>2. x \notin TokenOps
        BY <1>14, <2>1, <4>1
      <4>3. QED
        BY <1>13, <2>1, <4>1, <4>2
    <3>3. QED
      BY <1>13, <1>18, <2>1, <2>2, <2>4, <3>1, <3>2
  <2>5. QED
    BY <2>3, <2>4
<1>16. CopiesOK'
  <2> SUFFICES ASSUME NEW q \in Cvms
               PROVE  CopyOK(run[q])'
    BY DEF CopiesOK
  <2>1. CASE q = p
    BY <1>7, <1>8, <2>1 DEF CopyOK
  <2>2. CASE q # p
    BY <1>0, <1>8, <1>9, <1>10, <2>2 DEF CopiesOK, CopyOK
  <2>3. QED
    BY <2>1, <2>2
<1>17. QED
  BY <1>10, <1>11, <1>12, <1>15, <1>16, <1>19 DEF IInv

LEMMA EndKeeps ==
    ASSUME IInv, NEW p \in Cvms, End(p)
    PROVE  IInv'
<1>0. TypeOK /\ PathsOK /\ UpOnce /\ MachinesOK /\ LinesOK /\ CopiesOK
  BY DEF IInv
<1>1. PICK r : r = run[p]
  OBVIOUS
<1>2. PICK i \in Ids : i = r.id
  BY <1>0, <1>1, RunTyped
<1>3. /\ r.pc \in {"done", "dead"} /\ UNCHANGED <<files, qemu>>
      /\ run' = [run EXCEPT ![p] = NoRun]
      /\ raced' = [raced EXCEPT ![i] = /\ @
                                       /\ ~ (/\ Active(i) = {p}
                                             /\ TokenUsers \subseteq {p}
                                             /\ Launches(i) = {})]
  BY <1>1, <1>2 DEF End
<1>4. /\ run'[p] = NoRun /\ \A q \in Cvms \ {p} : run'[q] = run[q]
      /\ run' \in [Cvms -> Invocation]
  BY <1>0, <1>3, NoRunFacts DEF TypeOK
<1>5. /\ raced' \in [Ids -> BOOLEAN] /\ \A j \in Ids \ {i} : raced'[j] = raced[j]
      /\ ~raced'[i] => \/ ~raced[i]
                       \/ Active(i) = {p} /\ TokenUsers \subseteq {p} /\ Launches(i) = {}
  BY <1>0, <1>3 DEF TypeOK
<1>6. TypeOK' /\ tokens' = tokens /\ qemu' = qemu
  BY <1>0, <1>3, <1>4, <1>5 DEF TypeOK, files, images
<1>7. PathsOK'
  BY <1>0, <1>4, NoRunFacts DEF PathsOK
<1>8. UpOnce'
  BY <1>0, <1>6 DEF UpOnce, Up
<1>9. /\ \A j \in Ids \ {i} : At(j)' = At(j) /\ p \notin At(j)
      /\ At(i)' = At(i) \ {p} /\ p \in At(i)
      /\ TokenUsers' = TokenUsers \ {p}
  <2>1. run[p].pc # "idle" /\ run[p].id = i /\ run'[p].pc = "idle"
    BY <1>1, <1>2, <1>3, <1>4, NoRunFacts
  <2>2. QED
    BY <1>4, <2>1 DEF At, TokenUsers
<1>13. buf' = buf /\ buf[p] = {} /\ \A j : Holders(j)' = Holders(j)
  <2>1. buf[p] = {}
    BY <1>0, <1>1, <1>3 DEF LinesOK, Held
  <2>2. buf' = buf
    BY <1>3 DEF files
  <2>3. QED
    BY <2>1, <2>2 DEF Holders
<1>14. At(i) \subseteq Active(i)
  BY DEF At, Active, Machines
<1>15. LinesOK'
  <2> SUFFICES ASSUME NEW q \in Cvms, NEW j \in buf[q]
               PROVE  Held(q, j)'
    BY <1>13 DEF LinesOK
  <2>1. Held(q, j) /\ j \in Ids /\ q # p
    BY <1>0, <1>13 DEF LinesOK, TypeOK
  <2>2. /\ run[q].pc \in {"monitor", "send", "more"} /\ run[q].id # j /\ run[q].op = "viewadd"
        /\ run'[q] = run[q]
    BY <1>4, <2>1 DEF Held
  <2>3. ASSUME ~raced'[j]
        PROVE  ~raced[j] /\ At(j)' = At(j) /\ TokenUsers' = TokenUsers
    <3>1. j # i
      <4>1. q \in Active(j)
        BY <2>2 DEF Active, Machines
      <4>2. j = i => ~raced[i]
        BY <1>5, <2>1, <2>3, <4>1
      <4>3. ~raced[j] => p \notin At(j)
        BY <2>1 DEF Held
      <4>4. QED
        BY <1>9, <4>2, <4>3
    <3>2. ~raced[j]
      BY <1>5, <2>1, <2>3, <3>1
    <3>3. TokenUsers = {q}
      BY <2>1, <3>2 DEF Held
    <3>4. QED
      BY <1>9, <2>1, <3>1, <3>2, <3>3
  <2>4. QED
    BY <1>6, <1>13, <2>1, <2>2, <2>3, HeldFrame
<1>10. MachinesOK'
  <2> SUFFICES ASSUME NEW j \in Ids, ~raced'[j]
               PROVE  /\ \A y, z \in At(j)' : y = z
                      /\ \A y \in At(j)' : PowerKnown(run[y])' /\ ViewKnown(run[y])'
                      /\ At(j)' = {} /\ Holders(j)' = {} => Viewed(j)'
                      /\ \A y \in At(j)' : y \in TokenUsers' => TokenUsers' = {y}
    BY DEF MachinesOK
  <2>1. ~raced[j] => /\ \A y, z \in At(j) : y = z
                     /\ \A y \in At(j) : PowerKnown(run[y]) /\ ViewKnown(run[y])
                     /\ At(j) = {} /\ Holders(j) = {} => Viewed(j)
                     /\ \A y \in At(j) : y \in TokenUsers => TokenUsers = {y}
    BY <1>0 DEF MachinesOK
  <2>2. \A k \in Ids : Viewed(k)' <=> Viewed(k)
    BY <1>6, ViewedFrame
  <2>3. CASE j = i
    <3>1. CASE ~raced[i]
      <4>1. ViewKnown(r) /\ At(i)' = {}
        BY <1>1, <1>9, <2>1, <2>3, <3>1
      <4>2. Viewed(i)
        BY <1>2, <1>3, <4>1 DEF ViewKnown, Amid
      <4>3. QED
        BY <2>2, <2>3, <4>1, <4>2
    <3>2. CASE raced[i]
      <4>1. At(i)' = {} /\ Launches(i) = {}
        BY <1>5, <1>9, <1>14, <2>3, <3>2
      <4>2. Viewed(i)
        BY <4>1 DEF Viewed
      <4>3. QED
        BY <2>2, <2>3, <4>1, <4>2
    <3>3. QED
      BY <3>1, <3>2
  <2>4. CASE j # i
    <3>1. ASSUME NEW y \in At(j)
          PROVE  PowerKnown(run[y])' /\ ViewKnown(run[y])'
      <4>1. PICK v : v = run[y]
        OBVIOUS
      <4>2. PowerKnown(v)' /\ ViewKnown(v)'
        BY <1>5, <1>6, <2>1, <2>4, <4>1, KnownFrame
      <4>3. run'[y] = v
        BY <1>4, <1>9, <2>4, <4>1 DEF At
      <4>4. QED
        BY <4>2, <4>3
    <3>2. QED
      BY <1>5, <1>9, <1>13, <2>1, <2>2, <2>4, <3>1
  <2>5. QED
    BY <2>3, <2>4
<1>11. CopiesOK'
  <2> SUFFICES ASSUME NEW q \in Cvms, run'[q].pc = "rename"
               PROVE  /\ run'[q].id \notin run'[q].copy
                      /\ \A j \in Ids \ {run'[q].id} :
                           ~raced'[j] => (j \in run'[q].copy <=> j \in tokens')
    BY DEF CopiesOK, CopyOK
  <2>1. q # p /\ run'[q] = run[q]
    BY <1>4, NoRunFacts
  <2>2. q \in TokenUsers
    BY <1>0, <2>1 DEF TokenUsers, TokenOps, PathsOK, Path
  <2>3. \A j \in Ids : ~raced'[j] => ~raced[j]
    BY <1>5, <2>1, <2>2
  <2>4. QED
    BY <1>0, <1>6, <2>1, <2>3 DEF CopiesOK, CopyOK
<1>12. QED
  BY <1>6, <1>7, <1>8, <1>10, <1>11, <1>15 DEF IInv

\* addVMview goes on to another machine: it has set the password of the one it
\* leaves, and holds its line.
LEMMA NextViewKeeps ==
    ASSUME IInv, NEW p \in Cvms, NextView(p)
    PROVE  IInv'
<1>0. TypeOK /\ PathsOK /\ UpOnce /\ MachinesOK /\ LinesOK /\ CopiesOK
  BY DEF IInv
<1>1. PICK r \in Invocation : r = run[p]
  BY <1>0, RunTyped
<1>2. PICK i \in Ids : i = r.id
  BY <1>0, <1>1, RunTyped
<1>3. PICK k \in Ids :
        /\ run' = [run EXCEPT ![p] = [@ EXCEPT !.pc = "monitor", !.cmd = "set_password",
                                             !.id = k, !.slot = 0]]
        /\ buf' = [buf EXCEPT ![p] = Machines(p) \ {k}]
        /\ raced' = [raced EXCEPT ![k] = \/ @ \/ UnderWay(k) \/ At(k) \ {p} # {}
                                         \/ Active(k) \ {p} # {}
                                         \/ TokenUsers # {p} \/ run[p].stale]
  <2>1. \A k : At(k) \subseteq Active(k)
    BY DEF At, Active, Machines
  <2>2. QED
    BY <2>1 DEF NextView
<1>4. /\ r.pc = "more" /\ r.op = "viewadd" /\ UNCHANGED <<images, tokens, qemu>>
  BY <1>0, <1>1 DEF NextView, PathsOK, Path
<1>5. PICK w : w = [r EXCEPT !.pc = "monitor", !.cmd = "set_password", !.id = k, !.slot = 0]
  OBVIOUS
<1>6. w = [pc |-> "monitor", op |-> r.op, id |-> k, cmd |-> "set_password", ans |-> r.ans,
           slot |-> 0, sh |-> r.sh, copy |-> r.copy, stale |-> r.stale]
  BY <1>5 DEF Invocation
<1>7. /\ w \in Invocation /\ w.pc = "monitor" /\ w.op = "viewadd" /\ w.id = k
      /\ w.cmd = "set_password" /\ w.stale = r.stale
  BY <1>4, <1>6 DEF Invocation, Labels, Commands
<1>8. /\ run'[p] = w /\ \A q \in Cvms \ {p} : run'[q] = run[q]
      /\ run' \in [Cvms -> Invocation]
  <2>1. run' = [run EXCEPT ![p] = w]
    BY <1>1, <1>3, <1>5
  <2>2. QED
    BY <1>0, <1>7, <2>1 DEF TypeOK
<1>9. /\ buf'[p] = ({i} \cup buf[p]) \ {k} /\ \A q \in Cvms \ {p} : buf'[q] = buf[q]
      /\ buf' \in [Cvms -> SUBSET Ids]
  BY <1>0, <1>1, <1>2, <1>3 DEF TypeOK, Machines
<1>10. /\ raced' \in [Ids -> BOOLEAN]
       /\ \A j \in Ids : ~raced'[j] => ~raced[j]
       /\ ~raced'[k] => /\ ~UnderWay(k) /\ At(k) \subseteq {p} /\ Active(k) \subseteq {p}
                        /\ TokenUsers = {p} /\ ~r.stale
  BY <1>0, <1>1, <1>3 DEF TypeOK
<1>11. TypeOK' /\ tokens' = tokens /\ qemu' = qemu
  BY <1>0, <1>4, <1>8, <1>9, <1>10 DEF TypeOK, images
<1>12. PathsOK'
  BY <1>0, <1>7, <1>8 DEF PathsOK, Path
<1>13. UpOnce'
  BY <1>0, <1>11 DEF UpOnce, Up
<1>14. /\ \A j \in Ids : At(j)' = IF j = k THEN At(j) \cup {p} ELSE At(j) \ {p}
       /\ p \in At(i) /\ \A j \in Ids : p \in At(j) => j = i
       /\ TokenUsers' = TokenUsers /\ p \in TokenUsers
  BY <1>1, <1>2, <1>4, <1>7, <1>8 DEF At, TokenUsers, TokenOps
<1>15. \A q \in Cvms : buf[q] # {} => q \in TokenUsers
  BY <1>0 DEF LinesOK, Held, TokenUsers, TokenOps
<1>16. ASSUME NEW q \in Cvms, NEW j \in buf[q], ~raced[j]
       PROVE  /\ q = p /\ j \in Ids /\ At(j) = {} /\ Holders(j) = {p} /\ TokenUsers = {p}
              /\ ~r.stale /\ Launches(j) = Up(j)
              /\ \A s \in Launches(j) : qemu[j][s].password
  <2>1. Held(q, j) /\ j \in Ids
    BY <1>0 DEF LinesOK, TypeOK
  <2>2. q = p
    BY <1>14, <1>16, <2>1 DEF Held
  <2>3. QED
    BY <1>1, <1>16, <2>1, <2>2 DEF Held
<1>17. ASSUME ~raced[i]
       PROVE  /\ At(i) = {p} /\ TokenUsers = {p} /\ Holders(i) = {}
              /\ ~r.stale /\ Launches(i) = Up(i)
              /\ \A s \in Launches(i) : qemu[i][s].password
  <2>1. At(i) = {p} /\ TokenUsers = {p} /\ PowerKnown(r) /\ ViewKnown(r)
    BY <1>0, <1>1, <1>14, <1>17 DEF MachinesOK
  <2>2. Holders(i) = {}
    BY <1>16, <1>17, <2>1 DEF Holders
  <2>3. QED
    BY <1>2, <1>4, <2>1, <2>2 DEF PowerKnown, Starting, ViewKnown
<1>18. LinesOK'
  <2> SUFFICES ASSUME NEW q \in Cvms, NEW j \in buf'[q]
               PROVE  Held(q, j)'
    BY DEF LinesOK
  <2>1. j \in Ids /\ (q = p => j # k) /\ (j \in buf[q] \/ (q = p /\ j = i))
    <3>1. j \in Ids
      BY <1>9
    <3>2. CASE q = p
      <4>1. j \in ({i} \cup buf[p]) \ {k}
        BY <1>9, <3>2
      <4>2. j # k /\ (j = i \/ j \in buf[p])
        BY <4>1
      <4>3. QED
        BY <3>1, <3>2, <4>2
    <3>3. CASE q # p
      <4>1. j \in buf[q]
        BY <1>9, <3>3
      <4>2. QED
        BY <3>1, <3>3, <4>1
    <3>4. QED
      BY <3>2, <3>3
  <2>2. CASE q = p
    <3>1. run'[q].op = "viewadd" /\ run'[q].pc = "monitor" /\ run'[q].id # j
      BY <1>7, <1>8, <2>1, <2>2
    <3>2. ASSUME ~raced'[j]
          PROVE  /\ At(j)' = {} /\ Holders(j)' = {p} /\ TokenUsers' = {p}
                 /\ ~run'[p].stale /\ Launches(j)' = Up(j)'
                 /\ \A s \in Launches(j)' : qemu'[j][s].password
      <4>1. ~raced[j]
        BY <1>10, <2>1, <3>2
      <4>2. /\ At(j) \subseteq {p} /\ Holders(j) \subseteq {p} /\ TokenUsers = {p}
            /\ ~r.stale /\ Launches(j) = Up(j)
            /\ \A s \in Launches(j) : qemu[j][s].password
        <5>1. CASE j = i
          BY <1>17, <4>1, <5>1
        <5>2. CASE j # i
          BY <1>16, <2>1, <4>1, <5>2
        <5>3. QED
          BY <5>1, <5>2
      <4>3. Launches(j)' = Launches(j) /\ Up(j)' = Up(j)
        BY <1>11 DEF Launches, Up
      <4>4. At(j)' = {}
        BY <1>14, <2>1, <2>2, <4>2
      <4>5. Holders(j)' = {p}
        BY <1>9, <2>2, <4>2 DEF Holders
      <4>6. QED
        BY <1>7, <1>8, <1>11, <1>14, <4>2, <4>3, <4>4, <4>5
    <3>3. QED
      BY <2>2, <3>1, <3>2 DEF Held
  <2>3. CASE q # p
    <3>1. Held(q, j) /\ run'[q] = run[q]
      BY <1>0, <1>8, <2>1, <2>3 DEF LinesOK
    <3>2. raced'[j]
      BY <1>10, <1>16, <2>1, <2>3
    <3>3. QED
      BY <3>1, <3>2 DEF Held
  <2>4. QED
    BY <2>2, <2>3
<1>19. MachinesOK'
  <2> SUFFICES ASSUME NEW j \in Ids, ~raced'[j]
               PROVE  /\ \A y, z \in At(j)' : y = z
                      /\ \A y \in At(j)' : PowerKnown(run[y])' /\ ViewKnown(run[y])'
                      /\ At(j)' = {} /\ Holders(j)' = {} => Viewed(j)'
                      /\ \A y \in At(j)' : y \in TokenUsers' => TokenUsers' = {y}
    BY DEF MachinesOK
  <2>1. /\ ~raced[j]
        /\ \A y, z \in At(j) : y = z
        /\ \A y \in At(j) : PowerKnown(run[y]) /\ ViewKnown(run[y])
        /\ At(j) = {} /\ Holders(j) = {} => Viewed(j)
        /\ \A y \in At(j) : y \in TokenUsers => TokenUsers = {y}
    BY <1>0, <1>10 DEF MachinesOK
  <2>2. CASE j = k
    <3>1. At(k)' = {p} /\ TokenUsers' = {p} /\ Launches(k) = Up(k) /\ ~w.stale
      BY <1>7, <1>10, <1>14, <2>2 DEF UnderWay
    <3>2. PowerKnown(w) /\ ViewKnown(w)
      BY <1>7, <3>1 DEF PowerKnown, NeedsOff, ViewKnown, Unlisted, Amid
    <3>3. PowerKnown(w)' /\ ViewKnown(w)'
      BY <1>11, <3>2, KnownFrame
    <3>4. QED
      BY <1>8, <2>2, <3>1, <3>3
  <2>3. CASE j = i /\ j # k
    <3>1. At(j)' = {} /\ p \in Holders(j)'
      BY <1>9, <1>14, <1>17, <2>1, <2>3 DEF Holders
    <3>2. QED
      BY <3>1
  <2>4. CASE j # i /\ j # k
    <3>1. At(j)' = At(j) /\ p \notin At(j) /\ Holders(j)' = Holders(j)
      <4>1. \A q \in Cvms : j \in buf'[q] <=> j \in buf[q]
        BY <1>9, <2>4
      <4>2. Holders(j)' = Holders(j)
        BY <4>1 DEF Holders
      <4>3. p \notin At(j)
        BY <1>14, <2>4
      <4>4. At(j)' = At(j) \ {p}
        BY <1>14, <2>4
      <4>5. QED
        BY <4>2, <4>3, <4>4
    <3>2. ASSUME NEW y \in At(j)
          PROVE  PowerKnown(run[y])' /\ ViewKnown(run[y])'
      <4>1. PICK v : v = run[y]
        OBVIOUS
      <4>2. PowerKnown(v)' /\ ViewKnown(v)'
        BY <1>11, <2>1, <4>1, KnownFrame
      <4>3. run'[y] = v
        BY <1>8, <3>1, <4>1 DEF At
      <4>4. QED
        BY <4>2, <4>3
    <3>3. Viewed(j)' <=> Viewed(j)
      BY <1>11, ViewedFrame
    <3>4. QED
      BY <1>14, <2>1, <3>1, <3>2, <3>3
  <2>5. QED
    BY <2>2, <2>3, <2>4
<1>20. CopiesOK'
  <2> SUFFICES ASSUME NEW q \in Cvms
               PROVE  CopyOK(run[q])'
    BY DEF CopiesOK
  <2>1. CASE q = p
    BY <1>7, <1>8, <2>1 DEF CopyOK
  <2>2. CASE q # p
    BY <1>0, <1>8, <1>10, <1>11, <2>2 DEF CopiesOK, CopyOK
  <2>3. QED
    BY <2>1, <2>2
<1>21. QED
  BY <1>11, <1>12, <1>13, <1>18, <1>19, <1>20 DEF IInv

-----------------------------------------------------------------------------
\* The invariant and what it gives.

LEMMA InitIInv == Init => IInv
<1> SUFFICES ASSUME Init PROVE IInv
  OBVIOUS
<1>1. \A i \in Ids : At(i) = {}
  BY NoRunFacts DEF Init, At
<1>2. \A i \in Ids : Launches(i) = {} /\ Up(i) = {}
  BY NoQemuTyped DEF Init, Launches, Up
<1>3. TypeOK
  <2>1. qemu \in [Ids -> [Slots -> Qemu]]
    BY NoQemuTyped DEF Init
  <2>2. run \in [Cvms -> Invocation]
    BY NoRunFacts DEF Init
  <2>3. QED
    BY <2>1, <2>2 DEF Init, TypeOK
<1>4. PathsOK /\ CopiesOK
  BY NoRunFacts DEF Init, PathsOK, CopiesOK
<1>5. UpOnce
  BY <1>2 DEF UpOnce
<1>6. MachinesOK
  BY <1>1, <1>2 DEF MachinesOK, Viewed
<1>7. LinesOK
  BY DEF Init, LinesOK
<1>8. QED
  BY <1>3, <1>4, <1>5, <1>6, <1>7 DEF IInv

LEMMA StutterKeeps ==
    ASSUME IInv, UNCHANGED vars
    PROVE  IInv'
<1>0. TypeOK /\ PathsOK /\ UpOnce /\ MachinesOK /\ LinesOK /\ CopiesOK
  BY DEF IInv
<1>1. /\ vm' = vm /\ back' = back /\ base' = base /\ tokens' = tokens /\ qemu' = qemu
      /\ run' = run /\ raced' = raced /\ buf' = buf
  BY DEF vars
<1>2. TypeOK' /\ PathsOK' /\ UpOnce' /\ CopiesOK'
  BY <1>0, <1>1 DEF TypeOK, PathsOK, UpOnce, Up, CopiesOK, CopyOK
<1>3. /\ \A i \in Ids : At(i)' = At(i)
      /\ \A i : Holders(i)' = Holders(i)
      /\ TokenUsers' = TokenUsers
  BY <1>1 DEF At, TokenUsers, Holders
<1>4. \A i \in Ids : Viewed(i)' <=> Viewed(i)
  BY <1>1, ViewedFrame
<1>5. \A x \in Cvms : /\ PowerKnown(run[x]) => PowerKnown(run[x])'
                      /\ ViewKnown(run[x]) => ViewKnown(run[x])'
  <2> SUFFICES ASSUME NEW x \in Cvms
               PROVE  /\ PowerKnown(run[x]) => PowerKnown(run[x])'
                      /\ ViewKnown(run[x]) => ViewKnown(run[x])'
    OBVIOUS
  <2>1. PICK r : r = run[x]
    OBVIOUS
  <2>2. (PowerKnown(r)' <=> PowerKnown(r)) /\ (ViewKnown(r)' <=> ViewKnown(r))
    BY <1>1, KnownFrame
  <2>3. run'[x] = r
    BY <1>1, <2>1
  <2>4. QED
    BY <2>1, <2>2, <2>3
<1>6. MachinesOK'
  <2>1. \A i \in Ids : \A x \in At(i) : x \in Cvms
    BY DEF At
  <2>2. QED
    BY <1>0, <1>1, <1>3, <1>4, <1>5, <2>1 DEF MachinesOK
<1>7. LinesOK'
  <2> SUFFICES ASSUME NEW x \in Cvms, NEW j \in buf[x]
               PROVE  Held(x, j)'
    BY <1>1 DEF LinesOK
  <2>1. Held(x, j) /\ j \in Ids
    BY <1>0 DEF LinesOK, TypeOK
  <2>2. run[x].pc \in {"monitor", "send", "more"} /\ run[x].id # j
    BY <2>1 DEF Held
  <2>3. QED
    BY <1>1, <1>3, <2>1, <2>2, HeldFrame
<1>8. QED
  BY <1>2, <1>6, <1>7 DEF IInv

LEMMA NextIInv == IInv /\ [Next]_vars => IInv'
<1> SUFFICES ASSUME IInv, [Next]_vars
             PROVE  IInv'
  OBVIOUS
<1>1. CASE UNCHANGED vars
  BY <1>1, StutterKeeps
<1>2. ASSUME NEW p \in Cvms, Step(p)
      PROVE  IInv'
  <2>1. CASE Begin(p) \/ End(p) \/ Check(p) \/ HaltCheck(p) \/ Exec(p) \/ Recheck(p)
    BY <2>1, BeginKeeps, EndKeeps, CheckKeeps, HaltCheckKeeps, ExecKeeps, RecheckKeeps
  <2>2. CASE Connect(p) \/ Refused(p) \/ Send(p) \/ SendDies(p) \/ View(p)
    BY <2>2, ConnectKeeps, RefusedKeeps, SendKeeps, SendDiesKeeps, ViewKeeps
  <2>3. CASE Ps(p) \/ Kill(p) \/ Resize(p) \/ Create(p) \/ RmVM(p) \/ RmBack(p)
    BY <2>3, PsKeeps, KillKeeps, ResizeKeeps, CreateKeeps, RmVMKeeps, RmBackKeeps
  <2>4. CASE SedRead(p) \/ SedRename(p) \/ Fopen(p) \/ Fclose(p)
    BY <2>4, SedReadKeeps, SedRenameKeeps, FopenKeeps, FcloseKeeps
  <2>5. CASE CreateBase(p) \/ Exists(p) \/ NextView(p)
    BY <2>5, CreateBaseKeeps, ExistsKeeps, NextViewKeeps
  <2>6. QED
    BY <1>2, <2>1, <2>2, <2>3, <2>4, <2>5 DEF Step
<1>3. ASSUME NEW i \in Ids, NEW s \in Slots,
             Launch(i, s) \/ Shell(i, s) \/ Boot(i, s) \/ Exit(i, s)
      PROVE  IInv'
  BY <1>3, LaunchKeeps, ShellKeeps, BootKeeps, ExitKeeps
<1>4. QED
  BY <1>1, <1>2, <1>3 DEF Next

LEMMA Invariance == Spec => []IInv
BY InitIInv, NextIInv, PTL DEF Spec

LEMMA MachineKnown ==
    ASSUME IInv, NEW p \in Cvms, run[p].pc # "idle", ~raced[run[p].id]
    PROVE  PowerKnown(run[p])
BY Ready

\* Every reachable state is well formed, whatever commands run and however they
\* overlap (the state of cvm.c's invocations, the images and the launches).
THEOREM TypeCorrect == Spec => []TypeOK
BY Invariance, PTL DEF IInv

\* "off" from vmstatus() and "ok" from vmhalt() are true unless invocations for
\* the machine overlapped or looked at it during a launch, for any number of
\* machines, invocations and launches.
THEOREM AnswersHold == Spec => []AnswersTrue
<1>1. IInv => AnswersTrue
  <2> SUFFICES ASSUME IInv, NEW p \in Cvms, run[p].pc = "done",
                      <<run[p].op, run[p].ans>> \in {<<"status", "off">>, <<"halt", "ok">>},
                      ~raced[run[p].id]
               PROVE  Launches(run[p].id) = {}
    BY DEF AnswersTrue
  <2>1. PowerKnown(run[p])
    BY MachineKnown
  <2>2. QED
    BY <2>1 DEF PowerKnown, NeedsOff
<1>2. QED
  BY <1>1, Invariance, PTL

\* diskk_expend() resizes, and vmon() and oson() start, only a machine that has
\* no launch, unless something raced.
THEOREM ActsOnlyOffline == Spec => []ActsOffline
<1>1. IInv => ActsOffline
  <2> SUFFICES ASSUME IInv, NEW p \in Cvms, run[p].pc \in {"resize", "exec"},
                      ~raced[run[p].id]
               PROVE  Launches(run[p].id) = {}
    BY DEF ActsOffline
  <2>1. PowerKnown(run[p])
    BY MachineKnown
  <2>2. QED
    BY <2>1 DEF PowerKnown, NeedsOff
<1>2. QED
  BY <1>1, Invariance, PTL

\* Once all commands for a machine have ended, its display has a password
\* exactly when vnc_tokens lists it (vmon, addVMview, delVMview, vmdel), for any
\* number of other machines whose commands rewrite the same file meanwhile or
\* share an addVMview with it, unless that was killed before it wrote the lines.
THEOREM ViewSettles == Spec => []ViewSettled
<1>1. IInv => ViewSettled
  <2> SUFFICES ASSUME IInv, NEW i \in Ids, NEW s \in Slots,
                      qemu[i][s].st = "up", qemu[i][s].from = "VM", qemu[i][s].linked,
                      Active(i) = {}, ~raced[i]
               PROVE  qemu[i][s].password <=> i \in tokens
    BY DEF ViewSettled
  <2>1. Viewed(i)
    <3>1. At(i) = {}
      BY DEF At, Active, Machines
    <3>2. Holders(i) = {}
      BY DEF Holders, Active, Machines, IInv, LinesOK, Held
    <3>3. QED
      BY <3>1, <3>2 DEF IInv, MachinesOK
  <2>2. s \in Launches(i)
    BY DEF Launches
  <2>3. QED
    BY <2>1, <2>2 DEF Viewed
<1>2. QED
  BY <1>1, Invariance, PTL

=============================================================================
