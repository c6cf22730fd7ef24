------------------------------ MODULE Launcher ------------------------------
(***************************************************************************)
(* What a cvm invocation may expect of the exec daemon (cvm/exec.c): a     *)
(* command handed over through exec() (cvm.c) is started once, some time   *)
(* later, or is lost; it does not stay undecided.  The caller is never     *)
(* told which of the two happened.                                         *)
(***************************************************************************)
CONSTANT Clients        \* invocations of exec()

VARIABLE req            \* req[c]: what became of c's command

States == {"idle", "asked", "run", "lost"}

Init == req = [c \in Clients |-> "idle"]

\* exec() connects and returns.
Ask(c) == req[c] = "idle" /\ req' = [req EXCEPT ![c] = "asked"]

\* The command is started ...
Run(c) == req[c] = "asked" /\ req' = [req EXCEPT ![c] = "run"]

\* ... or dropped.
Lose(c) == req[c] = "asked" /\ req' = [req EXCEPT ![c] = "lost"]

\* The invocation is over; a later one takes its name.
Forget(c) == req[c] \in {"run", "lost"} /\ req' = [req EXCEPT ![c] = "idle"]

Next == \E c \in Clients : Ask(c) \/ Run(c) \/ Lose(c) \/ Forget(c)

Spec == /\ Init /\ [][Next]_req
        /\ \A c \in Clients : WF_req(Run(c) \/ Lose(c))

=============================================================================
