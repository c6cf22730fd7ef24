-------------------------- MODULE ExecDaemonProofs --------------------------
(***************************************************************************)
(* Proofs about ExecDaemon for every set of clients and every backlog.     *)
(***************************************************************************)
EXTENDS ExecDaemon, TLAPS

\* A connection in the listen queue is there once, and nothing has been done
\* for it.
QueueOK ==
  /\ \A i, j \in 1..Len(queue) : queue[i] = queue[j] => i = j
  /\ \A i \in 1..Len(queue) :
       /\ client[queue[i]] # "idle"
       /\ outcome[queue[i]] = "none"
       /\ child[queue[i]] = "none"
       /\ queue[i] # cur

\* The connection the loop serves is still open at the client's side, and
\* undecided until fork has returned.
CurOK ==
  /\ pc # "accept" => client[cur] # "idle"
  /\ pc = "fork" => outcome[cur] = "none" /\ child[cur] = "none"

\* A child decides the fate of its command when system() returns, not earlier.
ChildOK == \A c \in Clients :
  /\ child[c] # "none" => client[c] # "idle"
  /\ child[c] \in {"reading", "system"} => outcome[c] = "none"
  /\ child[c] \in {"exiting", "zombie", "reaped"} => outcome[c] # "none"
  /\ client[c] = "idle" => outcome[c] = "none"

\* The inductive invariant behind the refinement.
LaunchInv == TypeOK /\ QueueOK /\ CurOK /\ ChildOK

-----------------------------------------------------------------------------
LEMMA TailFacts ==
  ASSUME NEW S, NEW s \in Seq(S), s # << >>
  PROVE  /\ Head(s) \in S /\ Tail(s) \in Seq(S)
         /\ Len(s) \in Nat /\ Len(s) > 0 /\ Head(s) = s[1]
         /\ Len(Tail(s)) = Len(s) - 1
         /\ \A i \in 1..Len(Tail(s)) : Tail(s)[i] = s[i + 1] /\ i + 1 \in 1..Len(s)
OBVIOUS

LEMMA AppendFacts ==
  ASSUME NEW S, NEW s \in Seq(S), NEW e \in S
  PROVE  /\ Append(s, e) \in Seq(S)
         /\ Len(s) \in Nat /\ Len(Append(s, e)) = Len(s) + 1
         /\ \A i \in 1..Len(s) : Append(s, e)[i] = s[i]
         /\ Append(s, e)[Len(s) + 1] = e
OBVIOUS

-----------------------------------------------------------------------------
LEMMA TypeStep == TypeOK /\ [Next]_vars => TypeOK'
<1> SUFFICES ASSUME TypeOK, [Next]_vars PROVE TypeOK'
  OBVIOUS
<1> USE NoClientAssumption DEF TypeOK
<1>1. ASSUME NEW c \in Clients, Connect(c) PROVE TypeOK'
  BY <1>1, AppendFacts DEF Connect, parent_vars, child_vars, signal_vars
<1>2. ASSUME NEW c \in Clients, Write(c) PROVE TypeOK'
  BY <1>2 DEF Write, parent_vars, child_vars, signal_vars
<1>3. ASSUME NEW c \in Clients, Gone(c) PROVE TypeOK'
  BY <1>3 DEF Gone, parent_vars, child_vars, signal_vars
<1>4. ASSUME NEW c \in Clients, Again(c) PROVE TypeOK'
  BY <1>4 DEF Again, parent_vars, signal_vars
<1>5. CASE accept
  BY <1>5, TailFacts DEF accept, child_vars, signal_vars
<1>6. CASE fork
  BY <1>6 DEF fork, client_vars, signal_vars
<1>7. CASE fork_fails
  BY <1>7 DEF fork_fails, client_vars, signal_vars
<1>8. CASE close_conn
  BY <1>8 DEF close_conn, client_vars, child_vars, signal_vars
<1>9. ASSUME NEW c \in Clients, child_read(c) PROVE TypeOK'
  BY <1>9 DEF child_read, client_vars, parent_vars, signal_vars
<1>10. ASSUME NEW c \in Clients, child_system(c) PROVE TypeOK'
  BY <1>10 DEF child_system, client_vars, parent_vars, signal_vars
<1>11. ASSUME NEW c \in Clients, child_exit(c) PROVE TypeOK'
  BY <1>11 DEF child_exit, client_vars, parent_vars
<1>12. CASE sig_chld
  BY <1>12 DEF sig_chld, client_vars, parent_vars, child_vars
<1>13. ASSUME NEW c \in Clients, sig_chld_wait(c) PROVE TypeOK'
  BY <1>13 DEF sig_chld_wait, client_vars, parent_vars, signal_vars
<1>14. CASE sig_chld_return
  BY <1>14 DEF sig_chld_return, client_vars, parent_vars, child_vars
<1>15. CASE UNCHANGED vars
  BY <1>15 DEF vars
<1>16. QED
  BY <1>1, <1>2, <1>3, <1>4, <1>5, <1>6, <1>7, <1>8, <1>9, <1>10, <1>11,
     <1>12, <1>13, <1>14, <1>15 DEF Next, Parent, Child, Handler

LEMMA TypeInit == Init => TypeOK
<1> SUFFICES ASSUME Init PROVE TypeOK
  OBVIOUS
<1>1. queue \in Seq(Clients)
  BY DEF Init
<1>2. fds \subseteq Clients
  BY Zenon DEF Init
<1>3. sigpend \in BOOLEAN /\ inhandler \in BOOLEAN
  BY DEF Init
<1>4. /\ client \in [Clients -> {"idle", "connected", "written", "gone"}]
      /\ child \in [Clients -> {"none", "reading", "system", "exiting",
                               "zombie", "reaped"}]
      /\ outcome \in [Clients -> {"none", "run", "lost"}]
  BY DEF Init
<1>5. /\ pc \in {"accept", "fork", "close"}
      /\ cur \in Clients \cup {NoClient}
      /\ (cur = NoClient) <=> (pc = "accept")
  BY DEF Init
<1>6. QED
  BY <1>1, <1>2, <1>3, <1>4, <1>5 DEF TypeOK

\* Every reachable state of the daemon (exec.c) is well formed, for any number
\* of clients.
THEOREM TypeCorrect == Spec => []TypeOK
<1>1. Init => TypeOK
  BY TypeInit
<1>2. TypeOK /\ [Next]_vars => TypeOK'
  BY TypeStep
<1>3. QED
  BY <1>1, <1>2, PTL DEF Spec

-----------------------------------------------------------------------------
LEMMA ZombieStep == TypeOK /\ ZombieSignalled /\ [Next]_vars => ZombieSignalled'
<1> SUFFICES ASSUME TypeOK, ZombieSignalled, [Next]_vars PROVE ZombieSignalled'
  OBVIOUS
<1> USE DEF TypeOK, ZombieSignalled
<1>1. ASSUME NEW c \in Clients, Connect(c) PROVE ZombieSignalled'
  BY <1>1 DEF Connect, parent_vars, child_vars, signal_vars
<1>2. ASSUME NEW c \in Clients, Write(c) PROVE ZombieSignalled'
  BY <1>2 DEF Write, parent_vars, child_vars, signal_vars
<1>3. ASSUME NEW c \in Clients, Gone(c) PROVE ZombieSignalled'
  BY <1>3 DEF Gone, parent_vars, child_vars, signal_vars
<1>4. ASSUME NEW c \in Clients, Again(c) PROVE ZombieSignalled'
  BY <1>4 DEF Again, parent_vars, signal_vars
<1>5. CASE accept
  BY <1>5 DEF accept, child_vars, signal_vars
<1>6. CASE fork
  BY <1>6 DEF fork, client_vars, signal_vars
<1>7. CASE fork_fails
  BY <1>7 DEF fork_fails, client_vars, signal_vars
<1>8. CASE close_conn
  BY <1>8 DEF close_conn, client_vars, child_vars, signal_vars
<1>9. ASSUME NEW c \in Clients, child_read(c) PROVE ZombieSignalled'
  BY <1>9 DEF child_read, client_vars, parent_vars, signal_vars
<1>10. ASSUME NEW c \in Clients, child_system(c) PROVE ZombieSignalled'
  BY <1>10 DEF child_system, client_vars, parent_vars, signal_vars
<1>11. ASSUME NEW c \in Clients, child_exit(c) PROVE ZombieSignalled'
  BY <1>11 DEF child_exit, client_vars, parent_vars
<1>12. CASE sig_chld
  BY <1>12 DEF sig_chld, client_vars, parent_vars, child_vars
<1>13. ASSUME NEW c \in Clients, sig_chld_wait(c) PROVE ZombieSignalled'
  BY <1>13 DEF sig_chld_wait, client_vars, parent_vars, signal_vars
<1>14. CASE sig_chld_return
  BY <1>14 DEF sig_chld_return, Children, client_vars, parent_vars, child_vars
<1>15. CASE UNCHANGED vars
  BY <1>15 DEF vars
<1>16. QED
  BY <1>1, <1>2, <1>3, <1>4, <1>5, <1>6, <1>7, <1>8, <1>9,
     <1>10, <1>11, <1>12, <1>13, <1>14, <1>15 DEF Next, Parent, Child, Handler

\* No ended child is forgotten: signals that arrive together, or while the
\* handler runs, are covered by the handler's loop (sig_chld, exec.c:12).
THEOREM NoZombieForgotten == Spec => []ZombieSignalled
<1>1. Init => ZombieSignalled
  BY DEF Init, ZombieSignalled
<1>2. TypeOK /\ ZombieSignalled /\ [Next]_vars => ZombieSignalled'
  BY ZombieStep
<1>3. QED
  BY <1>1, <1>2, TypeCorrect, PTL DEF Spec

-----------------------------------------------------------------------------
LEMMA DescriptorStep == TypeOK /\ DescriptorsBounded /\ [Next]_vars => DescriptorsBounded'
<1> SUFFICES ASSUME TypeOK, DescriptorsBounded, [Next]_vars PROVE DescriptorsBounded'
  OBVIOUS
<1> USE NoClientAssumption DEF TypeOK, DescriptorsBounded
<1>1. ASSUME NEW c \in Clients, Connect(c) PROVE DescriptorsBounded'
  BY <1>1 DEF Connect, parent_vars, child_vars, signal_vars
<1>2. ASSUME NEW c \in Clients, Write(c) PROVE DescriptorsBounded'
  BY <1>2 DEF Write, parent_vars, child_vars, signal_vars
<1>3. ASSUME NEW c \in Clients, Gone(c) PROVE DescriptorsBounded'
  BY <1>3 DEF Gone, parent_vars, child_vars, signal_vars
<1>4. ASSUME NEW c \in Clients, Again(c) PROVE DescriptorsBounded'
  BY <1>4 DEF Again, parent_vars, signal_vars
<1>5. CASE accept
  BY <1>5, TailFacts DEF accept, child_vars, signal_vars
<1>6. CASE fork
  BY <1>6 DEF fork, client_vars, signal_vars
<1>7. CASE fork_fails
  BY <1>7 DEF fork_fails, client_vars, signal_vars
<1>8. CASE close_conn
  BY <1>8 DEF close_conn, client_vars, child_vars, signal_vars
<1>9. ASSUME NEW c \in Clients, child_read(c) PROVE DescriptorsBounded'
  BY <1>9 DEF child_read, client_vars, parent_vars, signal_vars
<1>10. ASSUME NEW c \in Clients, child_system(c) PROVE DescriptorsBounded'
  BY <1>10 DEF child_system, client_vars, parent_vars, signal_vars
<1>11. ASSUME NEW c \in Clients, child_exit(c) PROVE DescriptorsBounded'
  BY <1>11 DEF child_exit, client_vars, parent_vars
<1>12. CASE sig_chld
  BY <1>12 DEF sig_chld, client_vars, parent_vars, child_vars
<1>13. ASSUME NEW c \in Clients, sig_chld_wait(c) PROVE DescriptorsBounded'
  BY <1>13 DEF sig_chld_wait, client_vars, parent_vars, signal_vars
<1>14. CASE sig_chld_return
  BY <1>14 DEF sig_chld_return, client_vars, parent_vars, child_vars
<1>15. CASE UNCHANGED vars
  BY <1>15 DEF vars
<1>16. QED
  BY <1>1, <1>2, <1>3, <1>4, <1>5, <1>6, <1>7, <1>8, <1>9,
     <1>10, <1>11, <1>12, <1>13, <1>14, <1>15 DEF Next, Parent, Child, Handler

\* The parent holds at most the descriptor of the connection it is serving, for
\* ever and whether or not its forks succeed (exec.c:36-52).
THEOREM NoDescriptorLeak == Spec => []DescriptorsBounded
<1>1. Init => DescriptorsBounded
  BY DEF Init, DescriptorsBounded
<1>2. TypeOK /\ DescriptorsBounded /\ [Next]_vars => DescriptorsBounded'
  BY DescriptorStep
<1>3. QED
  BY <1>1, <1>2, TypeCorrect, PTL DEF Spec

-----------------------------------------------------------------------------
LEMMA LaunchInvStep == LaunchInv /\ [Next]_vars => LaunchInv'
<1> SUFFICES ASSUME LaunchInv, [Next]_vars PROVE (QueueOK /\ CurOK /\ ChildOK)'
  BY TypeStep DEF LaunchInv
<1> USE NoClientAssumption DEF LaunchInv, TypeOK, QueueOK, CurOK, ChildOK
<1>1. ASSUME NEW c \in Clients, Connect(c) PROVE (QueueOK /\ CurOK /\ ChildOK)'
  BY <1>1, AppendFacts DEF Connect, parent_vars, child_vars, signal_vars
<1>2. ASSUME NEW c \in Clients, Write(c) PROVE (QueueOK /\ CurOK /\ ChildOK)'
  BY <1>2 DEF Write, parent_vars, child_vars, signal_vars
<1>3. ASSUME NEW c \in Clients, Gone(c) PROVE (QueueOK /\ CurOK /\ ChildOK)'
  BY <1>3 DEF Gone, parent_vars, child_vars, signal_vars
<1>4. ASSUME NEW c \in Clients, Again(c) PROVE (QueueOK /\ CurOK /\ ChildOK)'
  BY <1>4 DEF Again, parent_vars, signal_vars
<1>5. CASE accept
  BY <1>5, TailFacts DEF accept, child_vars, signal_vars
<1>6. CASE fork
  BY <1>6 DEF fork, client_vars, signal_vars
<1>7. CASE fork_fails
  BY <1>7 DEF fork_fails, client_vars, signal_vars
<1>8. CASE close_conn
  BY <1>8 DEF close_conn, client_vars, child_vars, signal_vars
<1>9. ASSUME NEW c \in Clients, child_read(c) PROVE (QueueOK /\ CurOK /\ ChildOK)'
  BY <1>9 DEF child_read, client_vars, parent_vars, signal_vars
<1>10. ASSUME NEW c \in Clients, child_system(c) PROVE (QueueOK /\ CurOK /\ ChildOK)'
  BY <1>10 DEF child_system, client_vars, parent_vars, signal_vars
<1>11. ASSUME NEW c \in Clients, child_exit(c) PROVE (QueueOK /\ CurOK /\ ChildOK)'
  BY <1>11 DEF child_exit, client_vars, parent_vars
<1>12. CASE sig_chld
  BY <1>12 DEF sig_chld, client_vars, parent_vars, child_vars
<1>13. ASSUME NEW c \in Clients, sig_chld_wait(c) PROVE (QueueOK /\ CurOK /\ ChildOK)'
  BY <1>13 DEF sig_chld_wait, client_vars, parent_vars, signal_vars
<1>14. CASE sig_chld_return
  BY <1>14 DEF sig_chld_return, client_vars, parent_vars, child_vars
<1>15. CASE UNCHANGED vars
  BY <1>15 DEF vars
<1>16. QED
  BY <1>1, <1>2, <1>3, <1>4, <1>5, <1>6, <1>7, <1>8, <1>9,
     <1>10, <1>11, <1>12, <1>13, <1>14, <1>15 DEF Next, Parent, Child, Handler

\* What every step does to the fate of the commands: nothing, or one step of
\* Launcher.
LEMMA LaunchStep == LaunchInv /\ [Next]_vars => [L!Next]_launch
<1> SUFFICES ASSUME LaunchInv, [Next]_vars PROVE [L!Next]_launch
  OBVIOUS
<1> USE NoClientAssumption DEF LaunchInv, TypeOK, QueueOK, CurOK, ChildOK
<1>1. ASSUME NEW c \in Clients, Connect(c) PROVE [L!Next]_launch
  <2>1. client[c] = "idle" /\ client' = [client EXCEPT ![c] = "connected"]
        /\ outcome' = outcome /\ outcome[c] = "none"
    BY <1>1 DEF Connect, child_vars
  <2>2. launch[c] = "idle" /\ launch' = [launch EXCEPT ![c] = "asked"]
    BY <2>1 DEF launch
  <2>3. QED
    BY <2>2 DEF L!Next, L!Ask
<1>2. ASSUME NEW c \in Clients, Write(c) PROVE [L!Next]_launch
  BY <1>2 DEF launch, Write, parent_vars, child_vars, signal_vars
<1>3. ASSUME NEW c \in Clients, Gone(c) PROVE [L!Next]_launch
  BY <1>3 DEF launch, Gone, parent_vars, child_vars, signal_vars
<1>4. ASSUME NEW c \in Clients, Again(c) PROVE [L!Next]_launch
  BY <1>4 DEF launch, L!Next, L!Forget, Again, parent_vars, signal_vars
<1>5. CASE accept
  BY <1>5 DEF launch, accept, child_vars, signal_vars
<1>6. CASE fork
  BY <1>6 DEF launch, fork, client_vars, signal_vars
<1>7. CASE fork_fails
  BY <1>7, ZenonT(40) DEF launch, L!Next, L!Lose, fork_fails, client_vars, signal_vars
<1>8. CASE close_conn
  BY <1>8 DEF launch, close_conn, client_vars, child_vars, signal_vars
<1>9. ASSUME NEW c \in Clients, child_read(c) PROVE [L!Next]_launch
  BY <1>9 DEF launch, child_read, client_vars, parent_vars, signal_vars
<1>10. ASSUME NEW c \in Clients, child_system(c) PROVE [L!Next]_launch
  BY <1>10, ZenonT(40) DEF launch, L!Next, L!Run, L!Lose, child_system, client_vars,
     parent_vars, signal_vars
<1>11. ASSUME NEW c \in Clients, child_exit(c) PROVE [L!Next]_launch
  BY <1>11 DEF launch, child_exit, client_vars, parent_vars
<1>12. CASE sig_chld
  BY <1>12 DEF launch, sig_chld, client_vars, parent_vars, child_vars
<1>13. ASSUME NEW c \in Clients, sig_chld_wait(c) PROVE [L!Next]_launch
  BY <1>13 DEF launch, sig_chld_wait, client_vars, parent_vars, signal_vars
<1>14. CASE sig_chld_return
  BY <1>14 DEF launch, sig_chld_return, client_vars, parent_vars, child_vars
<1>15. CASE UNCHANGED vars
  BY <1>15 DEF launch, vars
<1>16. QED
  BY <1>1, <1>2, <1>3, <1>4, <1>5, <1>6, <1>7, <1>8, <1>9,
     <1>10, <1>11, <1>12, <1>13, <1>14, <1>15 DEF Next, Parent, Child, Handler

\* The daemon (exec.c) implements Launcher up to its liveness: a command handed
\* to it is started at most once, and never both started and lost.
THEOREM Launches == Spec => L!Init /\ [][L!Next]_launch
<1>1. Init => LaunchInv
  BY TypeInit DEF Init, LaunchInv, QueueOK, CurOK, ChildOK
<1>2. LaunchInv /\ [Next]_vars => LaunchInv'
  BY LaunchInvStep
<1>3. Init => L!Init
  BY DEF Init, L!Init, launch
<1>4. LaunchInv /\ [Next]_vars => [L!Next]_launch
  BY LaunchStep
<1>5. QED
  BY <1>1, <1>2, <1>3, <1>4, PTL DEF Spec

=============================================================================
