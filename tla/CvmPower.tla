------------------------------ MODULE CvmPower ------------------------------
(***************************************************************************)
(* Power, image and view-mode commands of the virtual machine controller   *)
(* cvm/cvm.c.  Every command is a short-lived invocation of cvm; nothing   *)
(* locks a machine, so invocations overlap freely.  The only way to learn  *)
(* whether a machine runs is vmison(): count the lines of ps that name it. *)
(* A machine is started through the exec daemon, asynchronously.           *)
(*                                                                         *)
(* External: the QEMU processes, qemu-img, sed and ps, as cvm.c uses them. *)
(***************************************************************************)
EXTENDS Naturals, FiniteSets

CONSTANTS
    Ids,            \* machines
    Cvms,           \* names for invocations of cvm
    Jobs,           \* the commands they carry out, each with its machine
    MaxLaunches     \* bound: launches of one machine that exist at a time

\* "reset" stands for every command that is one monitor() call and leaves this
\* state alone (snapshots, CD, device_del, migrate); "recv" is migrate_recv0.
AllOps == {"status", "on", "oson", "off", "halt", "reset", "stop", "cont",
           "expend", "recv", "add", "template", "drop", "rebuild", "del",
           "viewadd", "viewdel"}

ASSUME JobsAssumption == Jobs \subseteq AllOps \X Ids
ASSUME LaunchAssumption == MaxLaunches \in Nat
ASSUME IdsAssumption == Ids # {}

Slots == 1..MaxLaunches

VARIABLES
    vm,             \* vm[i]: the file VMi exists
    back,           \* back[i]: the file BACKi exists
    base,           \* base[i]: VMi is an overlay of BACK base[i]
    tokens,         \* machines listed in the file vnc_tokens
    buf,            \* buf[p]: machines whose password addVMview p has set, and
                    \* whose lines it has not written, but the one it is at
    qemu,           \* qemu[i][s]: the launch of machine i in slot s
    run,            \* run[p]: the state of the invocation p
    raced           \* history: raced[i] if invocations for i overlapped, or
                    \* looked at i while a launch of it was under way, or the
                    \* addVMview that held i's line was killed by SIGPIPE, since
                    \* i was last off and idle

vars == <<vm, back, base, tokens, buf, qemu, run, raced>>
images == <<vm, back, base>>
files == <<images, tokens, buf>>

\* What a launch of a machine goes through: it waits in the exec daemon; a
\* shell runs it; the shell has forked and has not ended; QEMU sets itself up;
\* QEMU answers on its monitor.
Stages == {"none", "queued", "shell", "both", "boot", "up"}
Qemu == [st : Stages, from : {"VM", "BACK", "incoming"}, linked : BOOLEAN,
         paused : BOOLEAN, password : BOOLEAN]
NoQemu == [st |-> "none", from |-> "VM", linked |-> FALSE,
           paused |-> FALSE, password |-> FALSE]

Commands == {"none", "loadvm_init", "c", "stop", "system_reset",
             "system_powerdown", "set_password", "clear_password"}
Labels == {"idle", "check", "haltcheck", "exec", "recheck", "monitor", "send",
           "view", "ps", "kill", "resize", "base", "create", "exists", "rmvm",
           "rmback", "sed", "rename", "fopen", "more", "done", "dead"}
Answers == {"none", "ok", "error", "on", "off"}
Invocation == [pc : Labels, op : AllOps, id : Ids, cmd : Commands, ans : Answers,
               slot : Slots \cup {0},   \* the launch it talks to or will kill
               sh : BOOLEAN,            \* it will kill the shell, not QEMU
               copy : SUBSET Ids,       \* what sed has read of vnc_tokens
               stale : BOOLEAN]         \* its open vnc_tokens was replaced
NoRun == [pc |-> "idle", op |-> "status", id |-> CHOOSE i \in Ids : TRUE,
          cmd |-> "none", ans |-> "none", slot |-> 0, sh |-> FALSE,
          copy |-> {}, stale |-> FALSE]

TypeOK ==
    /\ vm \in [Ids -> BOOLEAN]
    /\ back \in [Ids -> BOOLEAN]
    /\ base \in [Ids -> Ids]
    /\ tokens \in SUBSET Ids
    /\ buf \in [Cvms -> SUBSET Ids]
    /\ qemu \in [Ids -> [Slots -> Qemu]]
    /\ run \in [Cvms -> Invocation]
    /\ raced \in [Ids -> BOOLEAN]

Init ==
    /\ vm = [i \in Ids |-> FALSE]
    /\ back = [i \in Ids |-> FALSE]
    /\ base = [i \in Ids |-> i]
    /\ tokens = {}
    /\ buf = [p \in Cvms |-> {}]
    /\ qemu = [i \in Ids |-> [s \in Slots |-> NoQemu]]
    /\ run = [p \in Cvms |-> NoRun]
    /\ raced = [i \in Ids |-> FALSE]

-----------------------------------------------------------------------------
\* What ps shows and who is at work.

\* A shell that runs "qemu-kvm -name VMi ..." matches the pattern too.
Shells(i) == {s \in Slots : qemu[i][s].st \in {"shell", "both"}}
Qemus(i) == {s \in Slots : qemu[i][s].st \in {"both", "boot", "up"}}
Lines(i) == Cardinality(Shells(i)) + Cardinality(Qemus(i))

Up(i) == {s \in Slots : qemu[i][s].st = "up"}
Launches(i) == {s \in Slots : qemu[i][s].st # "none"}
UnderWay(i) == Launches(i) # Up(i)

\* Variant: without "grep -v grep" the command counts itself.
vmisonCountsGrep(i) == Lines(i) + 1 = 1

vmison(i) == Lines(i) = 1

\* The machine p is at, and those whose lines it holds.
Machines(p) == {run[p].id} \cup buf[p]
Active(i) == {p \in Cvms : run[p].pc # "idle" /\ i \in Machines(p)}

\* Commands that rewrite vnc_tokens.
TokenOps == {"del", "viewadd", "viewdel"}
TokenUsers == {p \in Cvms : run[p].pc # "idle" /\ run[p].op \in TokenOps}

\* p goes on at lab, or prints its answer.
Goto(p, lab) == run' = [run EXCEPT ![p].pc = lab]
Answer(p, a) == run' = [run EXCEPT ![p].pc = "done", ![p].ans = a]
Monitor(p, c) == run' = [run EXCEPT ![p].pc = "monitor", ![p].cmd = c]

\* The launch of i in slot s ends; whoever talks to it, or means to kill it,
\* has lost it.
Lost(i, s) == [p \in Cvms |-> IF run[p].id = i /\ run[p].slot = s
                              THEN [run[p] EXCEPT !.slot = 0] ELSE run[p]]
Ends(i, s) == /\ qemu' = [qemu EXCEPT ![i][s] = NoQemu]
              /\ run' = Lost(i, s)

-----------------------------------------------------------------------------
\* Invocations.

\* main(): where a command starts.
Entry(o) == CASE o \in {"status", "on", "oson", "off", "expend", "recv"} -> "check"
              [] o = "halt" -> "haltcheck"
              [] o \in {"reset", "stop", "cont"} -> "monitor"
              [] o = "template" -> "base"
              [] o \in {"add", "drop", "rebuild"} -> "create"
              [] o = "del" -> "rmvm"
              [] o = "viewadd" -> "fopen"
              [] o = "viewdel" -> "sed"

FirstCommand(o) == CASE o = "reset" -> "system_reset"
                     [] o = "stop" -> "stop"
                     [] o = "cont" -> "c"
                     [] OTHER -> "none"

Begin(p) ==
    /\ run[p].pc = "idle"
    /\ \E job \in Jobs :
         LET o == job[1]
             i == job[2]
             others == IF o \in TokenOps THEN UNION {Machines(q) : q \in TokenUsers} ELSE {}
             met == others \cup (IF others # {} \/ Active(i) # {} \/ UnderWay(i)
                                 THEN {i} ELSE {})
         IN  /\ run' = [run EXCEPT ![p] = [NoRun EXCEPT !.pc = Entry(o), !.op = o,
                                             !.id = i, !.cmd = FirstCommand(o)]]
             /\ raced' = [j \in Ids |-> raced[j] \/ j \in met]
    /\ UNCHANGED <<files, qemu>>

\* The process exits, or the loop of addvm, ppower_on, delVMview ... goes on to
\* another id.
End(p) ==
    /\ run[p].pc \in {"done", "dead"}
    /\ run' = [run EXCEPT ![p] = NoRun]
    /\ LET i == run[p].id
       IN  raced' = [raced EXCEPT ![i] = /\ @
                                         /\ ~ (/\ Active(i) = {p}
                                               /\ TokenUsers \subseteq {p}
                                               /\ Launches(i) = {})]
    /\ UNCHANGED <<files, qemu>>

\* The first vmison() of vmstatus, vmon, oson, vmoff, diskk_expend and
\* migrate_recv0.
Check(p) ==
    /\ run[p].pc = "check"
    /\ LET o == run[p].op
           on == vmison(run[p].id)
       IN  CASE o = "status" -> Answer(p, IF on THEN "on" ELSE "off")
             [] o = "on" -> IF on THEN Answer(p, "ok") ELSE Goto(p, "exec")
             [] o = "oson" -> IF on THEN Answer(p, "error") ELSE Goto(p, "exec")
             [] o = "off" -> IF on THEN Monitor(p, "system_powerdown")
                             ELSE Answer(p, "ok")
             [] o = "expend" -> IF on THEN Answer(p, "error") ELSE Goto(p, "resize")
             [] o = "recv" -> Goto(p, IF on THEN "haltcheck" ELSE "create")
    /\ UNCHANGED <<files, qemu, raced>>

\* exec(): the command reaches the daemon, or connect() fails; nobody looks at
\* the result.
Exec(p) ==
    /\ run[p].pc = "exec"
    /\ IF run[p].op = "recv" THEN Answer(p, "ok") ELSE Goto(p, "recheck")
    /\ \/ \E s \in Slots :
            /\ qemu[run[p].id][s].st = "none"
            /\ qemu' = [qemu EXCEPT ![run[p].id][s] =
                          [NoQemu EXCEPT !.st = "queued",
                             !.from = CASE run[p].op = "on" -> "VM"
                                        [] run[p].op = "oson" -> "BACK"
                                        [] OTHER -> "incoming"]]
       \/ UNCHANGED qemu
    /\ UNCHANGED <<files, raced>>

\* vmhalt() returns: migrate_recv0 goes on in any case.
Halted(p, ok) == IF run[p].op = "recv" THEN Goto(p, "create")
                 ELSE Answer(p, IF ok THEN "ok" ELSE "error")

\* The second vmison(), 100 ms later.
Recheck(p) ==
    /\ run[p].pc = "recheck"
    /\ LET i == run[p].id
           on == vmison(i)
       IN  /\ CASE run[p].op = "on" -> IF on THEN Monitor(p, "loadvm_init")
                                       ELSE Answer(p, "error")
                [] run[p].op = "oson" -> IF on THEN Goto(p, "create")
                                         ELSE Answer(p, "error")
                [] OTHER -> Halted(p, ~on)
           /\ raced' = [raced EXCEPT ![i] = @ \/ UnderWay(i)]
    /\ UNCHANGED <<files, qemu>>

-----------------------------------------------------------------------------
\* monitor(): connect, then write one command.

\* Where an invocation goes on after monitor() has returned ok.
After(p, ok) ==
    LET r == run[p]
    IN  CASE r.op = "on" /\ r.cmd = "loadvm_init" -> Monitor(p, "c")
          [] r.op = "on" /\ r.cmd = "c" -> Goto(p, "view")
          [] r.op = "viewadd" -> Goto(p, "more")
          [] r.op = "viewdel" \/ (r.op = "on" /\ r.cmd = "set_password") -> Answer(p, "ok")
          [] OTHER -> Answer(p, IF ok THEN "ok" ELSE "error")

Connect(p) ==
    /\ run[p].pc = "monitor"
    /\ \E s \in Up(run[p].id) :
         run' = [run EXCEPT ![p].pc = "send", ![p].slot = s]
    /\ UNCHANGED <<files, qemu, raced>>

Refused(p) ==
    /\ run[p].pc = "monitor"
    /\ Up(run[p].id) = {}
    /\ After(p, FALSE)
    /\ UNCHANGED <<files, qemu, raced>>

\* QEMU reads the command and obeys.
Obey(q, c) == [q EXCEPT !.paused = IF c = "stop" THEN TRUE ELSE IF c = "c" THEN FALSE ELSE @,
                        !.password = IF c = "set_password" THEN TRUE
                                     ELSE IF c = "clear_password" THEN FALSE ELSE @]

Send(p) ==
    /\ run[p].pc = "send"
    /\ run[p].slot # 0
    /\ qemu' = [qemu EXCEPT ![run[p].id][run[p].slot] = Obey(@, run[p].cmd)]
    /\ After(p, TRUE)
    /\ UNCHANGED <<files, raced>>

\* QEMU has gone since connect(): write() raises SIGPIPE, which is not handled.
\* The lines addVMview has buffered are lost.
SendDies(p) ==
    /\ run[p].pc = "send"
    /\ run[p].slot = 0
    /\ Goto(p, "dead")
    /\ buf' = [buf EXCEPT ![p] = {}]
    /\ raced' = [i \in Ids |-> raced[i] \/ i \in buf[p]]
    /\ UNCHANGED <<images, tokens, qemu>>

\* Variant: vmon does not call viewMode().
ViewForgotten(p) ==
    /\ run[p].pc = "view"
    /\ Answer(p, "ok")
    /\ UNCHANGED <<files, qemu, raced>>

\* viewMode(): is the machine listed in vnc_tokens?  While nobody is, the file
\* may not be there, and feof() of a null stream crashes.
View(p) ==
    /\ run[p].pc = "view"
    /\ \/ IF run[p].id \in tokens THEN Monitor(p, "set_password") ELSE Answer(p, "ok")
       \/ tokens = {} /\ Goto(p, "dead")
    /\ UNCHANGED <<files, qemu, raced>>

-----------------------------------------------------------------------------
\* vmhalt(): take the first process ps lists and kill it.

HaltCheck(p) ==
    /\ run[p].pc = "haltcheck"
    /\ IF vmison(run[p].id) THEN Goto(p, "ps") ELSE Halted(p, TRUE)
    /\ UNCHANGED <<files, qemu, raced>>

Ps(p) ==
    /\ run[p].pc = "ps"
    /\ LET i == run[p].id
       IN  \/ Lines(i) = 0 /\ Halted(p, TRUE)
           \/ \E s \in Shells(i) \cup Qemus(i) :
                run' = [run EXCEPT ![p].pc = "kill", ![p].slot = s,
                                   ![p].sh = s \in Shells(i)]
    /\ UNCHANGED <<files, qemu, raced>>

\* kill -9 of a process that is still there: the shell, before or after it has
\* forked, or QEMU.
Kill(p) ==
    /\ run[p].pc = "kill"
    /\ LET i == run[p].id
           s == run[p].slot
           st == IF s = 0 THEN "none" ELSE qemu[i][s].st
       IN  IF st \in (IF run[p].sh THEN {"shell"} ELSE {"both", "boot", "up"})
           THEN /\ qemu' = [qemu EXCEPT ![i][s] = NoQemu]
                /\ run' = [Lost(i, s) EXCEPT ![p].pc = "recheck"]
           ELSE /\ qemu' = IF run[p].sh /\ st = "both"
                           THEN [qemu EXCEPT ![i][s].st = "boot"] ELSE qemu
                /\ Goto(p, "recheck")
    /\ UNCHANGED <<files, raced>>

-----------------------------------------------------------------------------
\* Image files.

\* diskk_expend(): qemu-img resize VMi.
Resize(p) ==
    /\ run[p].pc = "resize"
    /\ Answer(p, "ok")
    /\ UNCHANGED <<files, qemu, raced>>

\* vmadd() of a template: qemu-img makes the base image first.
CreateBase(p) ==
    /\ run[p].pc = "base"
    /\ back' = [back EXCEPT ![run[p].id] = TRUE]
    /\ Goto(p, "create")
    /\ UNCHANGED <<vm, base, tokens, buf, qemu, raced>>

\* The overlay is made if its base is there.  Only addvm() looks at the result.
Create(p) ==
    /\ run[p].pc = "create"
    /\ \E b \in IF run[p].op \in {"add", "rebuild", "recv"} THEN Ids ELSE {run[p].id} :
         /\ vm' = [vm EXCEPT ![run[p].id] = @ \/ back[b]]
         /\ base' = IF back[b] THEN [base EXCEPT ![run[p].id] = b] ELSE base
    /\ CASE run[p].op = "recv" -> Goto(p, "exec")
         [] run[p].op \in {"add", "template"} -> Goto(p, "exists")
         [] OTHER -> Answer(p, "ok")
    /\ UNCHANGED <<back, tokens, buf, qemu, raced>>

\* fileExist(VMi)
Exists(p) ==
    /\ run[p].pc = "exists"
    /\ Answer(p, IF vm[run[p].id] THEN "ok" ELSE "error")
    /\ UNCHANGED <<files, qemu, raced>>

\* vmdel(): remove the overlay, the base, and the line in vnc_tokens.
RmVM(p) ==
    /\ run[p].pc = "rmvm"
    /\ LET i == run[p].id
       IN  /\ vm' = [vm EXCEPT ![i] = FALSE]
           /\ qemu' = [qemu EXCEPT ![i] = [s \in Slots |->
                         IF @[s].from # "BACK" THEN [@[s] EXCEPT !.linked = FALSE] ELSE @[s]]]
    /\ Goto(p, "rmback")
    /\ UNCHANGED <<back, base, tokens, buf, raced>>

RmBack(p) ==
    /\ run[p].pc = "rmback"
    /\ back' = [back EXCEPT ![run[p].id] = FALSE]
    /\ Goto(p, "sed")
    /\ UNCHANGED <<vm, base, tokens, buf, qemu, raced>>

-----------------------------------------------------------------------------
\* The file vnc_tokens.

\* sed -i: read the file ...
SedRead(p) ==
    /\ run[p].pc = "sed"
    /\ run' = [run EXCEPT ![p].pc = "rename", ![p].copy = tokens \ {run[p].id}]
    /\ UNCHANGED <<files, qemu, raced>>

\* ... and put the copy in its place.  Whoever has the file open keeps the old
\* one.  vmdel answers ok if the base is gone; delVMview goes on to QEMU.
SedRename(p) ==
    /\ run[p].pc = "rename"
    /\ tokens' = run[p].copy
    /\ LET others == [q \in Cvms |-> IF run[q].pc \in {"monitor", "send", "more"}
                                        /\ run[q].op = "viewadd"
                                     THEN [run[q] EXCEPT !.stale = TRUE] ELSE run[q]]
       IN  IF run[p].op = "del"
           THEN run' = [others EXCEPT ![p].pc = "done",
                          ![p].ans = IF back[run[p].id] THEN "error" ELSE "ok"]
           ELSE run' = [others EXCEPT ![p].pc = "monitor", ![p].cmd = "clear_password"]
    /\ UNCHANGED <<images, buf, qemu, raced>>

\* addVMview(): one fopen() for all machines of the invocation.  The first line
\* is buffered and the password is set.
Fopen(p) ==
    /\ run[p].pc = "fopen"
    /\ Monitor(p, "set_password")
    /\ UNCHANGED <<files, qemu, raced>>

\* The loop goes on to another machine.
NextView(p) ==
    /\ run[p].pc = "more"
    /\ \E i \in Ids :
         /\ <<"viewadd", i>> \in Jobs
         /\ run' = [run EXCEPT ![p] = [@ EXCEPT !.pc = "monitor", !.cmd = "set_password",
                                              !.id = i, !.slot = 0]]
         /\ buf' = [buf EXCEPT ![p] = Machines(p) \ {i}]
         /\ raced' = [raced EXCEPT ![i] = \/ @ \/ UnderWay(i) \/ Active(i) \ {p} # {}
                                          \/ TokenUsers # {p} \/ run[p].stale]
    /\ UNCHANGED <<images, tokens, qemu>>

\* id is -1: fclose() writes the lines of all of them.
Fclose(p) ==
    /\ run[p].pc = "more"
    /\ tokens' = IF run[p].stale THEN tokens ELSE tokens \cup Machines(p)
    /\ buf' = [buf EXCEPT ![p] = {}]
    /\ Answer(p, "ok")
    /\ UNCHANGED <<images, qemu, raced>>

-----------------------------------------------------------------------------
\* External: the exec daemon, the shells and QEMU.

\* The daemon runs the command or loses it (Launcher).
Launch(i, s) ==
    /\ qemu[i][s].st = "queued"
    /\ \/ qemu' = [qemu EXCEPT ![i][s].st = "shell"] /\ UNCHANGED run
       \/ Ends(i, s)
    /\ UNCHANGED <<files, raced>>

\* The shell forks for the command that ends in "&", and ends.
Shell(i, s) ==
    /\ \/ /\ qemu[i][s].st = "shell"
          /\ qemu' = [qemu EXCEPT ![i][s].st = "both"]
       \/ /\ qemu[i][s].st = "both"
          /\ qemu' = [qemu EXCEPT ![i][s].st = "boot"]
    /\ UNCHANGED <<files, run, raced>>

\* QEMU needs the image and the display :id+100, which one process can have.
Boot(i, s) ==
    /\ qemu[i][s].st = "boot"
    /\ Up(i) = {}
    /\ IF qemu[i][s].from = "BACK" THEN back[i] ELSE vm[i] /\ back[base[i]]
    /\ qemu' = [qemu EXCEPT ![i][s].st = "up", ![i][s].linked = TRUE]
    /\ UNCHANGED <<files, run, raced>>

\* QEMU cannot start, or the guest powers off.
Exit(i, s) ==
    /\ qemu[i][s].st \in {"boot", "up"}
    /\ Ends(i, s)
    /\ UNCHANGED <<files, raced>>

-----------------------------------------------------------------------------
Step(p) == \/ Begin(p) \/ End(p) \/ Check(p) \/ HaltCheck(p) \/ Exec(p)
           \/ Recheck(p) \/ Connect(p) \/ Refused(p) \/ Send(p) \/ SendDies(p) \/ View(p)
           \/ Ps(p) \/ Kill(p) \/ Resize(p) \/ CreateBase(p) \/ Create(p) \/ Exists(p)
           \/ RmVM(p) \/ RmBack(p) \/ SedRead(p) \/ SedRename(p)
           \/ Fopen(p) \/ NextView(p) \/ Fclose(p)

Next == \/ \E p \in Cvms : Step(p)
        \/ \E i \in Ids, s \in Slots :
             Launch(i, s) \/ Shell(i, s) \/ Boot(i, s) \/ Exit(i, s)

Spec == Init /\ [][Next]_vars

-----------------------------------------------------------------------------
\* Properties.

\* "off" from power_status and "ok" from power_halt (vmstatus, vmhalt) are true
\* unless another invocation or a launch of the machine got in between: ps
\* shows two lines for a machine that is just starting, or is started twice,
\* and vmison() then says it is off.
AnswersTrue == \A p \in Cvms :
    /\ run[p].pc = "done"
    /\ <<run[p].op, run[p].ans>> \in {<<"status", "off">>, <<"halt", "ok">>}
    /\ ~raced[run[p].id]
    => Launches(run[p].id) = {}

\* diskk_expend resizes the image of a machine that runs, and vmon or oson
\* starts one that runs already, only if invocations overlapped or a launch was
\* under way when they looked.
ActsOffline == \A p \in Cvms :
    run[p].pc \in {"resize", "exec"} /\ ~raced[run[p].id] => Launches(run[p].id) = {}

\* A machine has a password on its display exactly when vnc_tokens lists it,
\* once all commands for it have ended, whatever order they came in, whenever the
\* guest went down and however many machines one addVMview names (vmon,
\* addVMview, delVMview, vmdel), if none of them overlapped and no addVMview that
\* had set its password was killed by SIGPIPE at a later machine: then the
\* machine has a password and no line.  A machine started from its base image or
\* for an incoming migration, or whose image was removed under it, is not counted.
ViewSettled == \A i \in Ids, s \in Slots :
    LET q == qemu[i][s]
    IN  /\ q.st = "up" /\ q.from = "VM" /\ q.linked
        /\ Active(i) = {} /\ ~raced[i]
        => (q.password <=> i \in tokens)

=============================================================================
