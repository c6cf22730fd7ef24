----------------------------- MODULE ExecDaemon -----------------------------
(***************************************************************************)
(* The command launcher cvm/exec.c: a parent that accepts connections on   *)
(* port 50000 and forks one child for each, the children that read one     *)
(* command and hand it to system(), and the SIGCHLD handler that reaps     *)
(* them.  The clients are invocations of exec() in cvm.c.                  *)
(*                                                                         *)
(* The handler calls wait(), not waitpid(WNOHANG): once one child has      *)
(* ended it stays in the handler until every other child has ended too,    *)
(* and the parent accepts nothing meanwhile.                               *)
(***************************************************************************)
EXTENDS Naturals, Sequences, FiniteSets

CONSTANTS
    Clients,        \* invocations of exec()
    Backlog,        \* length of the listen queue (20 in the code)
    NoClient

ASSUME BacklogAssumption == Backlog \in Nat \ {0}
ASSUME NoClientAssumption == NoClient \notin Clients

VARIABLES
    client,         \* client[c]: the state of exec() and its socket
    queue,          \* connections that wait in the listen queue
    pc,             \* where the parent's loop is
    cur,            \* clnt_sock: the connection the loop is serving
    fds,            \* connections the parent holds a descriptor of
    child,          \* child[c]: the child that serves c
    outcome,        \* outcome[c]: what became of c's command
    sigpend,        \* SIGCHLD is pending (pending signals do not queue)
    inhandler       \* the parent is inside sig_chld

client_vars == <<client, queue>>
parent_vars == <<pc, cur, fds>>
child_vars == <<child, outcome>>
signal_vars == <<sigpend, inhandler>>
vars == <<client, queue, pc, cur, fds, child, outcome, sigpend, inhandler>>

TypeOK ==
    /\ client \in [Clients -> {"idle", "connected", "written", "gone"}]
    /\ queue \in Seq(Clients)
    /\ pc \in {"accept", "fork", "close"}
    /\ cur \in Clients \cup {NoClient}
    /\ (cur = NoClient) <=> (pc = "accept")
    /\ fds \subseteq Clients
    /\ child \in [Clients -> {"none", "reading", "system", "exiting",
                              "zombie", "reaped"}]
    /\ outcome \in [Clients -> {"none", "run", "lost"}]
    /\ sigpend \in BOOLEAN
    /\ inhandler \in BOOLEAN

Init ==
    /\ client = [c \in Clients |-> "idle"]
    /\ queue = << >>
    /\ pc = "accept"
    /\ cur = NoClient
    /\ fds = {}
    /\ child = [c \in Clients |-> "none"]
    /\ outcome = [c \in Clients |-> "none"]
    /\ sigpend = FALSE
    /\ inhandler = FALSE

-----------------------------------------------------------------------------
\* Clients: exec() of cvm.c.

\* connect(): the kernel completes the connection while the queue has room.
Connect(c) ==
    /\ client[c] = "idle"
    /\ Len(queue) < Backlog
    /\ client' = [client EXCEPT ![c] = "connected"]
    /\ queue' = Append(queue, c)
    /\ UNCHANGED <<parent_vars, child_vars, signal_vars>>

\* write() of the whole command.
Write(c) ==
    /\ client[c] = "connected"
    /\ client' = [client EXCEPT ![c] = "written"]
    /\ UNCHANGED <<queue, parent_vars, child_vars, signal_vars>>

\* The invocation is killed between connect() and write().
Gone(c) ==
    /\ client[c] = "connected"
    /\ client' = [client EXCEPT ![c] = "gone"]
    /\ UNCHANGED <<queue, parent_vars, child_vars, signal_vars>>

\* A later invocation: c and the child that served it are both gone.
Again(c) ==
    /\ client[c] \in {"written", "gone"}
    /\ outcome[c] # "none"
    /\ child[c] \in {"none", "reaped"}
    /\ cur # c
    /\ client' = [client EXCEPT ![c] = "idle"]
    /\ child' = [child EXCEPT ![c] = "none"]
    /\ outcome' = [outcome EXCEPT ![c] = "none"]
    /\ UNCHANGED <<queue, parent_vars, signal_vars>>

-----------------------------------------------------------------------------
\* The parent's loop.  Nothing of it runs while the handler does.

\* Variant: a failed accept() goes on to fork.
acceptUnchecked ==
    /\ ~inhandler
    /\ pc = "accept"
    /\ pc' = "fork"
    /\ UNCHANGED <<client_vars, cur, fds, child_vars, signal_vars>>

accept ==
    /\ ~inhandler
    /\ pc = "accept"
    /\ queue # << >>
    /\ cur' = Head(queue)
    /\ queue' = Tail(queue)
    /\ fds' = fds \cup {Head(queue)}
    /\ pc' = "fork"
    /\ UNCHANGED <<client, child_vars, signal_vars>>

fork ==
    /\ ~inhandler
    /\ pc = "fork"
    /\ child' = [child EXCEPT ![cur] = "reading"]
    /\ pc' = "close"
    /\ UNCHANGED <<client_vars, cur, fds, outcome, signal_vars>>

\* fork() returns -1: the branch of the parent is taken and the command is lost.
fork_fails ==
    /\ ~inhandler
    /\ pc = "fork"
    /\ outcome' = [outcome EXCEPT ![cur] = "lost"]
    /\ pc' = "close"
    /\ UNCHANGED <<client_vars, cur, fds, child, signal_vars>>

\* Variant: the parent does not close.
close_connLeak ==
    /\ ~inhandler
    /\ pc = "close"
    /\ cur' = NoClient
    /\ pc' = "accept"
    /\ UNCHANGED <<client_vars, fds, child_vars, signal_vars>>

\* close(clnt_sock) in the parent.
close_conn ==
    /\ ~inhandler
    /\ pc = "close"
    /\ fds' = fds \ {cur}
    /\ cur' = NoClient
    /\ pc' = "accept"
    /\ UNCHANGED <<client_vars, child_vars, signal_vars>>

-----------------------------------------------------------------------------
\* The child that serves c.

\* Variant: a read() of nothing is tried again.
child_readRetries(c) ==
    /\ child[c] = "reading"
    /\ client[c] = "written"
    /\ child' = [child EXCEPT ![c] = "system"]
    /\ UNCHANGED <<client_vars, parent_vars, outcome, signal_vars>>

\* read() blocks until the command or the end of the connection arrives.
child_read(c) ==
    /\ child[c] = "reading"
    /\ client[c] \in {"written", "gone"}
    /\ child' = [child EXCEPT ![c] = "system"]
    /\ UNCHANGED <<client_vars, parent_vars, outcome, signal_vars>>

\* system() returns: every command of cvm.c ends in "&".  A connection closed
\* before the command was written leaves an empty command.
child_system(c) ==
    /\ child[c] = "system"
    /\ child' = [child EXCEPT ![c] = "exiting"]
    /\ outcome' = [outcome EXCEPT ![c] =
                      IF client[c] = "written" THEN "run" ELSE "lost"]
    /\ UNCHANGED <<client_vars, parent_vars, signal_vars>>

\* return 0: the child ends and the parent is signalled.
child_exit(c) ==
    /\ child[c] = "exiting"
    /\ child' = [child EXCEPT ![c] = "zombie"]
    /\ sigpend' = TRUE
    /\ UNCHANGED <<client_vars, parent_vars, outcome, inhandler>>

-----------------------------------------------------------------------------
\* The handler.

Children == {c \in Clients : child[c] \notin {"none", "reaped"}}

\* SIGCHLD is delivered; it is blocked until the handler returns.
sig_chld ==
    /\ sigpend
    /\ ~inhandler
    /\ sigpend' = FALSE
    /\ inhandler' = TRUE
    /\ UNCHANGED <<client_vars, parent_vars, child_vars>>

\* Variant: one wait for each signal; the handler leaves after the first
\* child.
sig_chld_waitOnce(c) ==
    /\ inhandler
    /\ child[c] = "zombie"
    /\ child' = [child EXCEPT ![c] = "reaped"]
    /\ inhandler' = FALSE
    /\ UNCHANGED <<client_vars, parent_vars, outcome, sigpend>>

\* wait() returns the pid of an ended child.
sig_chld_wait(c) ==
    /\ inhandler
    /\ child[c] = "zombie"
    /\ child' = [child EXCEPT ![c] = "reaped"]
    /\ UNCHANGED <<client_vars, parent_vars, outcome, signal_vars>>

\* wait() returns -1: there is no child left, running or ended.
sig_chld_return ==
    /\ inhandler
    /\ Children = {}
    /\ inhandler' = FALSE
    /\ UNCHANGED <<client_vars, parent_vars, child_vars, sigpend>>

-----------------------------------------------------------------------------
Parent == accept \/ fork \/ fork_fails \/ close_conn
Child(c) == child_read(c) \/ child_system(c) \/ child_exit(c)
Handler == sig_chld \/ sig_chld_return \/ \E c \in Clients : sig_chld_wait(c)

Next ==
    \/ \E c \in Clients : Connect(c) \/ Write(c) \/ Gone(c) \/ Again(c)
    \/ Parent
    \/ \E c \in Clients : Child(c)
    \/ Handler

\* Every process that can take a step does so in the end, a pending signal is
\* delivered, and an invocation that has connected writes or is killed.
Fairness ==
    /\ WF_vars(Parent)
    /\ WF_vars(Handler)
    /\ \A c \in Clients : WF_vars(Child(c)) /\ WF_vars(Write(c) \/ Gone(c))

Spec == Init /\ [][Next]_vars
FairSpec == Spec /\ Fairness

-----------------------------------------------------------------------------
\* Properties.

\* Signals do not queue, and children may end at any moment of the loop or of
\* the handler (sig_chld, exec.c); still no ended child is forgotten: while
\* there is one, a signal is pending or the handler is at work.
ZombieSignalled ==
    (\E c \in Clients : child[c] = "zombie") => sigpend \/ inhandler

\* A child that has ended does not stay a zombie for ever.
Reaped == \A c \in Clients : child[c] = "zombie" ~> child[c] # "zombie"

\* The daemon runs for ever and never runs out of descriptors: it holds at
\* most the connection it is just passing to a child, whatever failed before.
DescriptorsBounded == fds \subseteq {cur}

\* Every command handed to the daemon is started once or lost, and is not left
\* undecided: the blocking wait() of the handler delays the others but cannot
\* hold them up for ever as long as children end.
launch == [c \in Clients |->
              CASE client[c] = "idle" -> "idle"
                [] client[c] # "idle" /\ outcome[c] = "none" -> "asked"
                [] OTHER -> outcome[c]]

L == INSTANCE Launcher WITH req <- launch

LaunchesAll == L!Spec

=============================================================================
