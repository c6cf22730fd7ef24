-------------------------- MODULE WebClientProofs ---------------------------
(***************************************************************************)
(* Proofs about WebClient for every number of files, connections and       *)
(* pieces of a reply: the counters of web.h are exact wherever main() uses *)
(* them, select() watches exactly the open sockets, no file is taken as    *)
(* fetched over a connection that was refused, and after a normal exit     *)
(* every connection was ended by the other side and read to that end.      *)
(***************************************************************************)
EXTENDS WebClient, FiniteSetTheorems, TLAPS

\* start_connect() has its connection at once and has not yet counted it.
Now(f) == pc = "get_now" /\ i = f

Active == InState({"CONNECTING", "READING"})

\* What the flag of a file says about its socket.
Fresh(f) == sock[f].asks = 0 /\ sock[f].sent = 0

\* The request went out, or the connection was reset before that.
Asked(f) == sock[f].asks = 1 \/ (sock[f].asks = 0 /\ sock[f].end = "reset")

FileOK(f) ==
    /\ sock[f].unread <= sock[f].sent
    /\ f_flags[f] = "0" /\ ~Now(f) => sock[f] = NoSocket
    /\ f_flags[f] = "0" /\ Now(f) =>
          f_fd[f] \in Fds /\ Fresh(f) /\ sock[f].st = "open"
          /\ sock[f].end \in {"no", "eof", "reset"}
    /\ f_flags[f] = "CONNECTING" =>
          /\ f_fd[f] \in Fds /\ Fresh(f) /\ sock[f].st \in {"syn", "open"}
          /\ sock[f].st = "syn" => sock[f].end = "no"
    /\ f_flags[f] = "READING" =>
          /\ f_fd[f] \in Fds /\ sock[f].st = "open" /\ Asked(f)
          /\ sock[f].end \in {"no", "eof", "reset"}
    /\ f_flags[f] = "DONE" =>
          /\ sock[f].st = "closed" /\ Asked(f) /\ sock[f].unread = 0
          /\ sock[f].end \in {"eof", "reset"}

FilesOK == \A f \in Files : FileOK(f)

\* No two open sockets have one descriptor.
FdsApart == \A f, g \in Open : f_fd[f] = f_fd[g] => f = g

\* The file that write_get_cmd() is called for.  After the connection was found
\* established its pending error has been read.
GetOK ==
    /\ pc = "get" =>
          /\ i \in Files /\ f_flags[i] = "CONNECTING" /\ sock[i].st = "open"
          /\ sock[i].end = "refused" => ~sock[i].err
    /\ pc = "get_now" => i \in Files /\ f_flags[i] = "0"

\* What select() found still holds for the files that the scan has yet to reach.
ScanOK ==
    pc \in {"scan", "get"} =>
        \A f \in Files : f >= i =>
            /\ f_flags[f] = "CONNECTING" /\ f_fd[f] \in rs \cup ws => sock[f].st = "open"
            /\ f_flags[f] = "READING" /\ f_fd[f] \in rs => Readable(f)

CountOK ==
    /\ nlefttoconn = Cardinality(InState({"0"}))
    /\ nlefttoread = Cardinality(InState({"0", "CONNECTING", "READING"}))
    /\ nconn = Cardinality(Active)
    /\ nconn <= maxnconn /\ (pc = "get_now" => nconn < maxnconn)

Asking == {f \in Files : f_flags[f] = "CONNECTING" /\ ~(pc = "get" /\ i = f)}

WatchOK ==
    /\ rset = {f_fd[f] : f \in Active}
    /\ wset = {f_fd[f] : f \in Asking}
    /\ \A f \in Active : f_fd[f] <= maxfd

Core == FilesOK /\ FdsApart /\ GetOK /\ ScanOK /\ CountOK /\ WatchOK

\* The inductive invariant.  Once the program has ended nothing moves.
IInv ==
    /\ TypeOK /\ NeverFetchedUnconnected /\ ExitReadAll
    /\ pc \notin Ended => Core

-----------------------------------------------------------------------------
\* Facts about the operators.

USE NamedAssumption, MaxConnAssumption, ChunksAssumption

LEMMA NfilesNat == nfiles \in Nat
BY DEF nfiles

LEMMA SomeFiles ==
    ASSUME NEW S \in SUBSET Files
    PROVE  IsFiniteSet(S) /\ Cardinality(S) \in 0 .. nfiles
<1>1. IsFiniteSet(Files) /\ Cardinality(Files) = nfiles
  BY NfilesNat, FS_Interval DEF Files
<1>2. IsFiniteSet(S) /\ Cardinality(S) <= nfiles
  BY <1>1, FS_Subset
<1>3. Cardinality(S) \in Nat
  BY <1>2, FS_CardinalityType
<1>4. QED
  BY <1>2, <1>3, NfilesNat

LEMMA InStateSubset == ASSUME NEW s PROVE InState(s) \in SUBSET Files
BY DEF InState

LEMMA OneMore ==
    ASSUME NEW S \in SUBSET Files, NEW f \in Files, f \notin S
    PROVE  Cardinality(S \cup {f}) = Cardinality(S) + 1
BY SomeFiles, FS_AddElement

LEMMA OneFewer ==
    ASSUME NEW S \in SUBSET Files, NEW f \in S
    PROVE  Cardinality(S \ {f}) = Cardinality(S) - 1
BY SomeFiles, FS_RemoveElement

\* The open sockets are those of the files that are being fetched, and the one
\* that is not yet counted.
LEMMA OpenIs ==
    ASSUME TypeOK, FilesOK, GetOK
    PROVE  Open = Active \cup {f \in Files : Now(f)}
<1>1. ASSUME NEW f \in Files
      PROVE  sock[f].st \in {"syn", "open"} <=> f \in Active \/ Now(f)
  <2>1. FileOK(f) /\ f_flags[f] \in {"0", "CONNECTING", "READING", "DONE"}
    BY DEF FilesOK, TypeOK
  <2>2. Now(f) => f_flags[f] = "0"
    BY DEF GetOK, Now
  <2>3. QED
    BY <2>1, <2>2 DEF FileOK, Active, InState, NoSocket
<1>2. QED
  BY <1>1 DEF Open, Active, InState

\* As many descriptors as open sockets.
LEMMA CountOpenFds ==
    ASSUME FdsApart PROVE Cardinality(OpenFds) = Cardinality(Open)
<1> DEFINE h == [f \in Open |-> f_fd[f]]
<1>1. IsFiniteSet(Open)
  <2>1. Open \in SUBSET Files
    BY DEF Open
  <2>2. QED
    BY <2>1, SomeFiles
<1>2. h \in Surjection(Open, OpenFds)
  BY DEF OpenFds, Surjection
<1>3. h \in Injection(Open, OpenFds)
  BY <1>2 DEF FdsApart, Injection, IsInjective, Surjection
<1>4. QED
  BY <1>1, <1>2, <1>3, FS_Surjection

-----------------------------------------------------------------------------
\* The initial state.

LEMMA IInvInit == Init => IInv
<1> SUFFICES ASSUME Init PROVE IInv
  OBVIOUS
<1> USE DEF Init
<1>1. TypeOK
  <2>1. NoSocket \in Sockets
    BY DEF NoSocket, Sockets
  <2>2. sock \in [Files -> Sockets]
    BY <2>1
  <2>3. rset \subseteq Fds /\ wset \subseteq Fds /\ rs \subseteq Fds /\ ws \subseteq Fds
    BY Zenon
  <2>4. {nconn, nlefttoconn, nlefttoread} \subseteq 0 .. nfiles
    BY NfilesNat
  <2>5. i \in 1 .. (nfiles + 1)
    BY NfilesNat
  <2>6. QED
    BY <2>2, <2>3, <2>4, <2>5 DEF TypeOK
<1>2. NeverFetchedUnconnected /\ ExitReadAll
  BY DEF NeverFetchedUnconnected, ExitReadAll, NoSocket
<1>3. FilesOK
  BY DEF FilesOK, FileOK, Now, NoSocket
<1>4. Open = {} /\ Active = {}
  BY DEF Open, Active, InState, NoSocket
<1>5. FdsApart /\ GetOK /\ ScanOK
  BY <1>4 DEF FdsApart, GetOK, ScanOK
<1>6. CountOK
  <2>1. Cardinality(Files) = nfiles
    BY NfilesNat, FS_Interval DEF Files
  <2>2. InState({"0"}) = Files /\ InState({"0", "CONNECTING", "READING"}) = Files
    BY DEF InState
  <2>3. QED
    BY <1>4, <2>1, <2>2, FS_EmptySet DEF CountOK
<1>7. WatchOK
  <2>1. Asking = {}
    BY DEF Asking
  <2>2. QED
    BY <1>4, <2>1 DEF WatchOK
<1>8. QED
  BY <1>1, <1>2, <1>3, <1>5, <1>6, <1>7 DEF IInv, Core

-----------------------------------------------------------------------------
\* Steps that leave the table, the counters and the sockets alone.

LEMMA EndKeeps ==
    ASSUME IInv, UNCHANGED <<table, counters, watch, rs, ws, i, sock>>,
           pc' \in {"err_quit", "SIGPIPE"}
    PROVE  IInv'
<1>1. TypeOK'
  BY DEF IInv, TypeOK, table, counters, watch, Ended
<1>2. NeverFetchedUnconnected'
  BY DEF IInv, NeverFetchedUnconnected, table
<1>3. QED
  BY <1>1, <1>2 DEF IInv, ExitReadAll, Ended

LEMMA LoopKeeps ==
    ASSUME IInv, UNCHANGED <<table, counters, watch, sock>>,
           pc \in {"home", "loop", "scan"}, pc' \in {"home", "loop", "scan"},
           i' \in 1 .. (nfiles + 1), rs' \subseteq Fds, ws' \subseteq Fds, ScanOK'
    PROVE  IInv'
<1>0. Core
  BY DEF IInv, Ended
<1>1. TypeOK'
  BY DEF IInv, TypeOK, table, counters, watch, Ended
<1>2. NeverFetchedUnconnected' /\ ExitReadAll'
  BY DEF IInv, NeverFetchedUnconnected, ExitReadAll, table
<1>3. FilesOK'
  BY <1>0 DEF Core, FilesOK, FileOK, Asked, Fresh, Now, table
<1>4. FdsApart'
  BY <1>0 DEF Core, FdsApart, Open, table
<1>5. GetOK'
  BY DEF GetOK
<1>6. CountOK'
  BY <1>0 DEF Core, CountOK, Active, InState, table, counters
<1>7. WatchOK'
  <2>1. Active' = Active /\ Asking' = Asking
    BY DEF Active, InState, Asking, table
  <2>2. QED
    BY <1>0, <2>1 DEF Core, WatchOK, table, watch
<1>8. QED
  BY <1>1, <1>2, <1>3, <1>4, <1>5, <1>6, <1>7 DEF IInv, Core

\* A normal end: every file is done.
LEMMA ExitKeeps == ASSUME IInv, exit PROVE IInv'
<1>1. pc = "loop" /\ pc' = "exit" /\ nlefttoread <= 0 /\ Core
      /\ UNCHANGED <<f_flags, f_fd, nconn, nlefttoconn, nlefttoread, rset, wset, maxfd>>
      /\ UNCHANGED <<rs, ws, i, sock>>
  BY DEF exit, IInv, Ended, table, counters, watch
<1>2. TypeOK'
  BY <1>1 DEF IInv, TypeOK, Ended
<1>3. \A f \in Files : f_flags[f] = "DONE"
  <2>1. InState({"0", "CONNECTING", "READING"}) = {}
    <3>1. /\ IsFiniteSet(InState({"0", "CONNECTING", "READING"}))
          /\ Cardinality(InState({"0", "CONNECTING", "READING"})) \in Nat
      BY InStateSubset, SomeFiles, NfilesNat
    <3>2. Cardinality(InState({"0", "CONNECTING", "READING"})) = 0
      BY <1>1, <3>1 DEF Core, CountOK
    <3>3. QED
      BY <3>1, <3>2, FS_EmptySet
  <2>2. QED
    BY <2>1 DEF IInv, TypeOK, InState
<1>4. \A f \in Files : /\ Asked(f) /\ sock[f].unread = 0
                       /\ sock[f].end \in {"eof", "reset"}
  BY <1>1, <1>3 DEF Core, FilesOK, FileOK
<1>5. NeverFetchedUnconnected' /\ ExitReadAll'
  BY <1>1, <1>4 DEF NeverFetchedUnconnected, ExitReadAll, Asked
<1>6. QED
  BY <1>1, <1>2, <1>5 DEF IInv, Ended

\* select() tells the truth about every file at this moment.
LEMMA SelectKeeps == ASSUME IInv, select PROVE IInv'
<1>1. /\ Core /\ TypeOK /\ pc = "loop" /\ pc' = "scan" /\ i' = 1
      /\ rs' = ReadyR /\ ws' = ReadyW
      /\ UNCHANGED <<table, counters, watch, sock>>
  BY DEF select, IInv, Ended
<1>2. rs' \subseteq Fds /\ ws' \subseteq Fds
  BY <1>1 DEF TypeOK, ReadyR, ReadyW, Below
<1>3. ASSUME NEW f \in Files, f \in Open, f_fd[f] \in ReadyR PROVE Readable(f)
  BY <1>1, <1>3 DEF ReadyR, Open, Core, FdsApart
<1>4. ASSUME NEW f \in Files, f \in Open, f_fd[f] \in ReadyW PROVE sock[f].st = "open"
  BY <1>1, <1>4 DEF ReadyW, Open, Core, FdsApart
<1>5. ASSUME NEW f \in Files
      PROVE  /\ f_flags[f] = "CONNECTING" /\ f_fd[f] \in ReadyR \cup ReadyW =>
                   sock[f].st = "open"
             /\ f_flags[f] = "READING" /\ f_fd[f] \in ReadyR => Readable(f)
  <2>1. FileOK(f) /\ sock[f] \in Sockets
    BY <1>1 DEF Core, FilesOK, TypeOK
  <2>2. f_flags[f] \in {"CONNECTING", "READING"} => f \in Open
    BY <2>1 DEF FileOK, Open
  <2>3. f_flags[f] = "CONNECTING" /\ Readable(f) => sock[f].st = "open"
    BY <2>1 DEF FileOK, Readable, Fresh, Sockets
  <2>4. QED
    BY <1>3, <1>4, <2>2, <2>3
<1>6. ScanOK'
  BY <1>1, <1>5 DEF ScanOK, Readable, table
<1>7. QED
  BY <1>1, <1>2, <1>6, LoopKeeps, NfilesNat

-----------------------------------------------------------------------------
\* The kernel and the server change one socket.

LEMMA KernelKeeps ==
    ASSUME IInv, pc \notin Ended, UNCHANGED <<table, counters, watch, loop>>,
           NEW f \in Files, NEW new \in Sockets, sock' = [sock EXCEPT ![f] = new],
           sock[f].st \in {"syn", "open"}, new.st \in {"syn", "open"},
           sock[f].st = "open" => new.st = "open" /\ new.end # "refused",
           Readable(f) => new.unread > 0 \/ new.end # "no",
           FileOK(f)'
    PROVE  IInv'
<1>0. /\ Core /\ TypeOK
      /\ UNCHANGED <<f_flags, f_fd, nconn, nlefttoconn, nlefttoread>>
      /\ UNCHANGED <<rset, wset, maxfd, rs, ws, pc, i>>
  BY DEF IInv, table, counters, watch, loop
<1>1. sock'[f] = new /\ \A g \in Files \ {f} : sock'[g] = sock[g]
  BY <1>0 DEF TypeOK
<1>2. TypeOK'
  BY <1>0 DEF TypeOK
<1>3. FilesOK'
  <2>1. ASSUME NEW g \in Files \ {f} PROVE FileOK(g)'
    BY <1>0, <1>1 DEF Core, FilesOK, FileOK, Asked, Fresh, Now
  <2>2. QED
    BY <2>1 DEF FilesOK
<1>4. Open' = Open
  BY <1>1 DEF Open
<1>5. FdsApart'
  BY <1>0, <1>4 DEF Core, FdsApart
<1>6. GetOK'
  BY <1>0, <1>1 DEF Core, GetOK
<1>7. ScanOK'
  BY <1>0, <1>1 DEF Core, ScanOK, Readable
<1>8. CountOK' /\ WatchOK'
  BY <1>0 DEF Core, CountOK, WatchOK, Active, Asking, InState
<1>9. NeverFetchedUnconnected'
  <2>1. ASSUME NEW g \in Files, sock'[g].end = "refused" PROVE f_flags'[g] = "CONNECTING"
    <3>1. FileOK(g)' /\ f_flags'[g] \in {"0", "CONNECTING", "READING", "DONE"}
      BY <1>2, <1>3 DEF FilesOK, TypeOK
    <3>2. QED
      BY <2>1, <3>1 DEF FileOK, NoSocket
  <2>2. QED
    BY <1>0, <2>1 DEF NeverFetchedUnconnected, Ended
<1>10. ExitReadAll'
  BY <1>0 DEF ExitReadAll, Ended
<1>11. QED
  BY <1>2, <1>3, <1>5, <1>6, <1>7, <1>8, <1>9, <1>10 DEF IInv, Core

LEMMA ServerKeeps ==
    ASSUME IInv, NEW f \in Files,
           Accepted(f) \/ Refused(f) \/ Resets(f) \/ Sends(f) \/ Ends(f)
    PROVE  IInv'
<1>0. /\ Core /\ TypeOK /\ pc \notin Ended
      /\ UNCHANGED <<table, counters, watch, loop>>
  BY DEF IInv, Accepted, Refused, Resets, Sends, Ends, Changes
<1>1. /\ FileOK(f) /\ sock[f] \in Sockets /\ f_flags[f] \in {"0", "CONNECTING", "READING", "DONE"}
      /\ f_flags' = f_flags /\ f_fd' = f_fd /\ (Now(f)' <=> Now(f))
  BY <1>0 DEF Core, FilesOK, TypeOK, table, Now, loop
<1> DEFINE Step(new) == sock' = [sock EXCEPT ![f] = new] /\ sock[f].end = "no"
<1>2. CASE Accepted(f)
  <2> DEFINE new == [sock[f] EXCEPT !.st = "open"]
  <2>1. Step(new) /\ sock[f].st = "syn"
    BY <1>2 DEF Accepted, Changes
  <2>2. new \in Sockets /\ sock'[f] = new
    BY <1>0, <1>1, <2>1 DEF Sockets, TypeOK
  <2>3. FileOK(f)'
    BY <1>1, <2>1, <2>2 DEF FileOK, Asked, Fresh, NoSocket, Sockets
  <2>4. Readable(f) => new.unread > 0 \/ new.end # "no"
    BY <1>1 DEF Readable, Sockets
  <2>5. new.st = "open"
    BY <1>1 DEF Sockets
  <2>6. QED
    BY <1>0, <2>1, <2>2, <2>3, <2>4, <2>5, KernelKeeps
<1>3. CASE Refused(f)
  <2> DEFINE new == [sock[f] EXCEPT !.st = "open", !.end = "refused", !.err = TRUE]
  <2>1. Step(new) /\ sock[f].st = "syn"
    BY <1>3 DEF Refused, Changes
  <2>2. new \in Sockets /\ sock'[f] = new
    BY <1>0, <1>1, <2>1 DEF Sockets, TypeOK
  <2>3. FileOK(f)'
    BY <1>1, <2>1, <2>2 DEF FileOK, Asked, Fresh, NoSocket, Sockets
  <2>4. new.end = "refused" /\ new.st = "open"
    BY <1>1 DEF Sockets
  <2>5. QED
    BY <1>0, <2>1, <2>2, <2>3, <2>4, KernelKeeps
<1>4. CASE Resets(f)
  <2> DEFINE new == [sock[f] EXCEPT !.end = "reset", !.err = TRUE]
  <2>1. Step(new) /\ sock[f].st = "open"
    BY <1>4 DEF Resets, Changes
  <2>2. new \in Sockets /\ sock'[f] = new
    BY <1>0, <1>1, <2>1 DEF Sockets, TypeOK
  <2>3. FileOK(f)'
    BY <1>1, <2>1, <2>2 DEF FileOK, Asked, Fresh, NoSocket, Sockets
  <2>4. new.end = "reset" /\ new.st = "open"
    BY <1>1, <2>1 DEF Sockets
  <2>5. QED
    BY <1>0, <2>1, <2>2, <2>3, <2>4, KernelKeeps
<1>5. CASE Sends(f)
  <2> DEFINE new == [sock[f] EXCEPT !.sent = @ + 1, !.unread = @ + 1]
  <2>1. Step(new) /\ sock[f].st = "open" /\ sock[f].asks > 0 /\ sock[f].sent < Chunks
    BY <1>5 DEF Sends, Changes
  <2>2. new \in Sockets /\ sock'[f] = new
    <3>1. /\ sock[f].sent \in 0 .. Chunks /\ sock[f].unread \in 0 .. Chunks
          /\ sock[f].unread <= sock[f].sent
      BY <1>1 DEF Sockets, FileOK
    <3>2. sock[f].sent + 1 \in 0 .. Chunks /\ sock[f].unread + 1 \in 0 .. Chunks
      BY <2>1, <3>1
    <3>3. new \in Sockets
      BY <1>1, <3>2 DEF Sockets
    <3>4. QED
      BY <1>0, <2>1, <3>3 DEF TypeOK
  <2>3. FileOK(f)'
    BY <1>1, <2>1, <2>2 DEF FileOK, Asked, Fresh, NoSocket, Sockets
  <2>4. new.unread > 0 /\ new.st = "open" /\ new.end = "no"
    BY <1>1, <2>1 DEF Sockets
  <2>5. QED
    BY <1>0, <2>1, <2>2, <2>3, <2>4, KernelKeeps
<1>6. CASE Ends(f)
  <2> DEFINE new == [sock[f] EXCEPT !.end = "eof"]
  <2>1. Step(new) /\ sock[f].st = "open"
    BY <1>6 DEF Ends, Changes
  <2>2. new \in Sockets /\ sock'[f] = new
    BY <1>0, <1>1, <2>1 DEF Sockets, TypeOK
  <2>3. FileOK(f)'
    BY <1>1, <2>1, <2>2 DEF FileOK, Asked, Fresh, NoSocket, Sockets
  <2>4. new.end = "eof" /\ new.st = "open"
    BY <1>1, <2>1 DEF Sockets
  <2>5. QED
    BY <1>0, <2>1, <2>2, <2>3, <2>4, KernelKeeps
<1>7. QED
  BY <1>2, <1>3, <1>4, <1>5, <1>6

-----------------------------------------------------------------------------
\* The loop over the table.

LEMMA SkipKeeps == ASSUME IInv, scan_skip \/ scan_end PROVE IInv'
<1>1. /\ Core /\ TypeOK /\ pc = "scan" /\ pc' \in {"loop", "scan"}
      /\ UNCHANGED <<f_flags, f_fd, sock, rs, ws>>
      /\ UNCHANGED <<table, counters, watch, sock>>
  BY DEF IInv, scan_skip, scan_end, At, Ended, table
<1>2. i' \in 1 .. (nfiles + 1)
  BY <1>1, NfilesNat DEF scan_skip, scan_end, At, Files
<1>3. pc' = "scan" => i' = i + 1 /\ i \in Int
  BY <1>1 DEF scan_skip, scan_end, TypeOK
<1>4. ScanOK'
  <2>1. ASSUME NEW f \in Files, pc' = "scan", f >= i' PROVE f >= i
    BY <1>3, <2>1 DEF Files
  <2>2. QED
    BY <1>1, <2>1 DEF Core, ScanOK, Readable
<1>5. rs' \subseteq Fds /\ ws' \subseteq Fds
  BY <1>1 DEF TypeOK
<1>6. QED
  BY <1>1, <1>2, <1>4, <1>5, LoopKeeps

LEMMA ConnectedKeeps == ASSUME IInv, scan_connected PROVE IInv'
<1>0. /\ Core /\ TypeOK /\ pc = "scan" /\ pc' = "get" /\ i \in Files /\ i' = i /\ Connected(i)
      /\ UNCHANGED <<f_flags, f_fd, nconn, nlefttoconn, nlefttoread, rset, maxfd, rs, ws>>
      /\ sock' = [sock EXCEPT ![i].err = FALSE] /\ wset' = wset \ {f_fd[i]}
  BY DEF IInv, scan_connected, At, Ended, table, counters, ErrorLeft
<1>1. /\ sock'[i] = [sock[i] EXCEPT !.err = FALSE] /\ sock[i] \in Sockets
      /\ \A g \in Files \ {i} : sock'[g] = sock[g]
  BY <1>0 DEF TypeOK
<1>2. /\ sock'[i].st = sock[i].st /\ sock'[i].end = sock[i].end /\ sock'[i].asks = sock[i].asks
      /\ sock'[i].sent = sock[i].sent /\ sock'[i].unread = sock[i].unread /\ sock'[i].err = FALSE
      /\ sock'[i] \in Sockets
  BY <1>1 DEF Sockets
<1>3. TypeOK'
  <2>1. sock' \in [Files -> Sockets]
    BY <1>0, <1>1, <1>2 DEF TypeOK
  <2>2. wset' \subseteq Fds
    BY <1>0 DEF TypeOK
  <2>3. QED
    BY <1>0, <2>1, <2>2 DEF TypeOK
<1>4. f_flags[i] = "CONNECTING" /\ sock[i].st = "open"
  <2>1. f_flags[i] = "CONNECTING" /\ f_fd[i] \in rs \cup ws
    BY <1>0 DEF Connected
  <2>2. QED
    BY <1>0, <2>1 DEF Core, ScanOK, TypeOK
<1>5. FilesOK'
  <2>1. ASSUME NEW g \in Files PROVE FileOK(g)'
    <3>1. FileOK(g) /\ ~Now(g) /\ ~Now(g)'
      BY <1>0 DEF Core, FilesOK, Now
    <3>2. CASE g = i
      BY <1>0, <1>2, <1>4, <3>1, <3>2 DEF FileOK, Asked, Fresh
    <3>3. CASE g # i
      BY <1>0, <1>1, <3>1, <3>3 DEF FileOK, Asked, Fresh
    <3>4. QED
      BY <3>2, <3>3
  <2>2. QED
    BY <2>1 DEF FilesOK
<1>6. Open' = Open
  BY <1>1, <1>2 DEF Open
<1>7. FdsApart'
  BY <1>0, <1>6 DEF Core, FdsApart
<1>8. GetOK'
  BY <1>0, <1>2, <1>4 DEF GetOK
<1>9. ScanOK'
  BY <1>0, <1>1, <1>2 DEF Core, ScanOK, Readable
<1>10. CountOK' /\ Active' = Active
  BY <1>0 DEF Core, CountOK, Active, InState
<1>11. WatchOK'
  <2>1. Asking' = Asking \ {i}
    BY <1>0 DEF Asking
  <2>2. \A g \in Asking : g # i => f_fd[g] # f_fd[i]
    <3>1. \A g \in Asking : g \in Open
      BY <1>0 DEF Asking, Core, FilesOK, FileOK, Open
    <3>2. i \in Open
      BY <1>0, <1>4 DEF Open
    <3>3. QED
      BY <1>0, <3>1, <3>2 DEF Core, FdsApart
  <2>3. wset' = {f_fd[g] : g \in Asking \ {i}}
    BY <1>0, <2>2 DEF Core, WatchOK
  <2>4. QED
    BY <1>0, <1>10, <2>1, <2>3 DEF Core, WatchOK
<1>12. NeverFetchedUnconnected' /\ ExitReadAll'
  <2>1. pc' # "exit"
    BY <1>0
  <2>2. NeverFetchedUnconnected'
    BY <1>0, <1>2, <1>1, <2>1, <1>4 DEF NeverFetchedUnconnected, IInv
  <2>3. QED
    BY <2>1, <2>2 DEF ExitReadAll
<1>13. QED
  BY <1>3, <1>5, <1>7, <1>8, <1>9, <1>10, <1>11, <1>12 DEF IInv, Core

LEMMA DataKeeps == ASSUME IInv, scan_read PROVE IInv'
<1>0. /\ Core /\ TypeOK /\ pc = "scan" /\ pc' = pc /\ i \in Files /\ i' = i + 1
      /\ f_flags[i] = "READING"
      /\ UNCHANGED <<f_flags, f_fd, nconn, nlefttoconn, nlefttoread>>
      /\ UNCHANGED <<rset, wset, maxfd, rs, ws>>
  BY DEF IInv, scan_read, At, Arrived, Ended, table, counters, watch
<1>1. sock[i] \in Sockets /\ FileOK(i)
  BY <1>0 DEF Core, FilesOK, TypeOK
<1>2. /\ \A g \in Files \ {i} : sock'[g] = sock[g]
      /\ sock'[i] \in Sockets /\ sock'[i].unread <= sock[i].unread
      /\ sock'[i].st = sock[i].st /\ sock'[i].end = sock[i].end /\ sock'[i].asks = sock[i].asks
      /\ sock'[i].sent = sock[i].sent
  <2>1. CASE sock[i].unread > 0 /\ sock' = [sock EXCEPT ![i].unread = @ - 1]
    <3>1. sock'[i] = [sock[i] EXCEPT !.unread = @ - 1]
      BY <1>0, <2>1 DEF TypeOK
    <3>2. sock[i].unread - 1 \in 0 .. Chunks
      BY <1>1, <2>1 DEF Sockets
    <3>3. QED
      BY <1>0, <1>1, <2>1, <3>1, <3>2 DEF TypeOK, Sockets
  <2>2. CASE sock' = [sock EXCEPT ![i].err = FALSE]
    <3>1. sock'[i] = [sock[i] EXCEPT !.err = FALSE]
      BY <1>0, <2>2 DEF TypeOK
    <3>2. sock'[i] \in Sockets /\ sock'[i].unread = sock[i].unread
      BY <1>1, <3>1 DEF Sockets
    <3>3. sock'[i].unread <= sock[i].unread
      BY <1>1, <3>2 DEF Sockets
    <3>4. /\ sock'[i].st = sock[i].st /\ sock'[i].end = sock[i].end
          /\ sock'[i].asks = sock[i].asks /\ sock'[i].sent = sock[i].sent
      BY <1>1, <3>1 DEF Sockets
    <3>5. \A g \in Files \ {i} : sock'[g] = sock[g]
      BY <1>0, <2>2 DEF TypeOK
    <3>6. QED
      BY <3>2, <3>3, <3>4, <3>5
  <2>3. QED
    BY <2>1, <2>2 DEF scan_read
<1>3. TypeOK'
  <2>1. sock' \in [Files -> Sockets]
    <3>1. DOMAIN sock' = Files /\ sock' = [g \in Files |-> sock'[g]]
      BY <1>0 DEF scan_read, TypeOK
    <3>2. QED
      BY <1>0, <1>2, <3>1 DEF TypeOK
  <2>2. i' \in 1 .. (nfiles + 1)
    BY <1>0, NfilesNat DEF Files
  <2>3. QED
    BY <1>0, <2>1, <2>2 DEF TypeOK
<1>4. FilesOK'
  <2>1. ASSUME NEW g \in Files PROVE FileOK(g)'
    <3>1. FileOK(g) /\ ~Now(g) /\ ~Now(g)'
      BY <1>0 DEF Core, FilesOK, Now
    <3>2. CASE g = i
      BY <1>0, <1>1, <1>2, <3>1, <3>2 DEF FileOK, Asked, Fresh, Sockets
    <3>3. CASE g # i
      BY <1>0, <1>2, <3>1, <3>3 DEF FileOK, Asked, Fresh
    <3>4. QED
      BY <3>2, <3>3
  <2>2. QED
    BY <2>1 DEF FilesOK
<1>5. Open' = Open
  BY <1>2 DEF Open
<1>6. FdsApart' /\ GetOK'
  BY <1>0, <1>5 DEF Core, FdsApart, GetOK
<1>7. ScanOK'
  <2>1. ASSUME NEW f \in Files, f >= i' PROVE f >= i /\ f # i
    BY <1>0, <2>1 DEF Files
  <2>2. QED
    BY <1>0, <1>2, <2>1 DEF Core, ScanOK, Readable
<1>8. CountOK' /\ WatchOK'
  BY <1>0 DEF Core, CountOK, WatchOK, Active, Asking, InState
<1>9. NeverFetchedUnconnected' /\ ExitReadAll'
  BY <1>0, <1>2 DEF NeverFetchedUnconnected, ExitReadAll, IInv
<1>10. QED
  BY <1>3, <1>4, <1>6, <1>7, <1>8, <1>9 DEF IInv, Core

\* The end of a reply.
LEMMA EofKeeps == ASSUME IInv, scan_eof PROVE IInv'
<1>0. /\ Core /\ TypeOK /\ pc = "scan" /\ pc' = pc /\ i \in Files /\ i' = i + 1
      /\ f_flags[i] = "READING" /\ f_fd[i] \in rs
      /\ sock[i].unread = 0 /\ ~sock[i].err
      /\ sock' = [sock EXCEPT ![i].st = "closed"]
      /\ f_flags' = [f_flags EXCEPT ![i] = "DONE"]
      /\ rset' = rset \ {f_fd[i]} /\ nconn' = nconn - 1 /\ nlefttoread' = nlefttoread - 1
      /\ UNCHANGED <<f_fd, nlefttoconn, wset, maxfd, rs, ws>>
  BY DEF IInv, scan_eof, At, Arrived, AtEof, Ended, Unwatch, OneLess
<1>1. sock[i] \in Sockets /\ FileOK(i) /\ Readable(i)
  BY <1>0 DEF Core, FilesOK, TypeOK, ScanOK
<1>2. /\ sock'[i] = [sock[i] EXCEPT !.st = "closed"] /\ f_flags'[i] = "DONE"
      /\ \A g \in Files \ {i} : sock'[g] = sock[g] /\ f_flags'[g] = f_flags[g]
  BY <1>0 DEF TypeOK
<1>3. /\ sock'[i] \in Sockets /\ sock'[i].st = "closed" /\ sock'[i].end = sock[i].end
      /\ sock'[i].asks = sock[i].asks /\ sock'[i].sent = sock[i].sent
      /\ sock'[i].unread = sock[i].unread
  BY <1>1, <1>2 DEF Sockets
<1>4. sock[i].end # "no"
  BY <1>0, <1>1 DEF Readable
<1>5. FilesOK'
  <2>1. ASSUME NEW g \in Files PROVE FileOK(g)'
    <3>1. FileOK(g) /\ ~Now(g) /\ ~Now(g)'
      BY <1>0 DEF Core, FilesOK, Now
    <3>2. CASE g = i
      BY <1>0, <1>2, <1>3, <1>4, <3>1, <3>2 DEF FileOK, Asked
    <3>3. CASE g # i
      BY <1>0, <1>2, <3>1, <3>3 DEF FileOK, Asked, Fresh
    <3>4. QED
      BY <3>2, <3>3
  <2>2. QED
    BY <2>1 DEF FilesOK
<1>6. Open' = Open \ {i} /\ i \in Open
  BY <1>0, <1>1, <1>2, <1>3 DEF Open, FileOK
<1>7. FdsApart' /\ GetOK'
  BY <1>0, <1>6 DEF Core, FdsApart, GetOK
<1>8. ScanOK'
  <2>1. ASSUME NEW f \in Files, f >= i' PROVE f >= i /\ f # i
    BY <1>0, <2>1 DEF Files
  <2>2. QED
    BY <1>0, <1>2, <2>1 DEF Core, ScanOK, Readable
<1>9. CountOK'
  <2>1. /\ InState({"0"})' = InState({"0"}) \ {i} /\ i \notin InState({"0"})
        /\ InState({"0", "CONNECTING", "READING"})' = InState({"0", "CONNECTING", "READING"}) \ {i}
        /\ i \in InState({"0", "CONNECTING", "READING"})
        /\ Active' = Active \ {i} /\ i \in Active
    BY <1>0, <1>2 DEF InState, Active
  <2>2. /\ InState({"0", "CONNECTING", "READING"}) \in SUBSET Files /\ Active \in SUBSET Files
    BY DEF InState, Active
  <2>3. /\ Cardinality(Active') = Cardinality(Active) - 1
        /\ Cardinality(InState({"0", "CONNECTING", "READING"})') =
              Cardinality(InState({"0", "CONNECTING", "READING"})) - 1
    BY <2>1, <2>2, OneFewer
  <2>4. InState({"0"})' = InState({"0"})
    BY <2>1
  <2>5. nconn \in Int
    BY <1>0 DEF TypeOK
  <2>6. nconn' <= maxnconn
    BY <1>0, <2>5 DEF Core, CountOK
  <2>7. QED
    BY <1>0, <2>3, <2>4, <2>6 DEF Core, CountOK
<1>10. Active' = Active \ {i} /\ i \in Active /\ Asking' = Asking
  BY <1>0, <1>2 DEF InState, Active, Asking
<1>11. WatchOK'
  <2>1. \A g \in Active : g \in Open
    BY <1>0 DEF Active, InState, Core, FilesOK, FileOK, Open
  <2>2. \A g \in Active : g # i => f_fd[g] # f_fd[i]
    BY <1>0, <1>6, <2>1 DEF Core, FdsApart
  <2>3. rset' = {f_fd[g] : g \in Active \ {i}}
    BY <1>0, <2>2 DEF Core, WatchOK
  <2>4. QED
    BY <1>0, <1>10, <2>3 DEF Core, WatchOK
<1>12. TypeOK'
  <2>1. sock' \in [Files -> Sockets]
    BY <1>0, <1>2, <1>3 DEF TypeOK
  <2>2. f_flags' \in [Files -> {"0", "CONNECTING", "READING", "DONE"}]
    BY <1>0 DEF TypeOK
  <2>3. /\ InState({"0"})' \in SUBSET Files /\ Active' \in SUBSET Files
        /\ InState({"0", "CONNECTING", "READING"})' \in SUBSET Files
    BY DEF InState, Active
  <2>4. nconn' \in 0 .. nfiles /\ nlefttoconn' \in 0 .. nfiles /\ nlefttoread' \in 0 .. nfiles
    BY <1>9, <2>3, SomeFiles DEF CountOK
  <2>5. i' \in 1 .. (nfiles + 1) /\ rset' \subseteq Fds
    BY <1>0, NfilesNat DEF Files, TypeOK
  <2>6. QED
    BY <1>0, <2>1, <2>2, <2>4, <2>5 DEF TypeOK
<1>13. pc' # "exit"
  BY <1>0
<1>14. NeverFetchedUnconnected'
  <2>1. ASSUME NEW g \in Files, sock'[g].end = "refused" PROVE f_flags'[g] = "CONNECTING"
    BY <1>0, <1>1, <1>2, <1>3, <2>1 DEF IInv, NeverFetchedUnconnected
  <2>2. QED
    BY <1>13, <2>1 DEF NeverFetchedUnconnected
<1>15. QED
  BY <1>5, <1>7, <1>8, <1>9, <1>11, <1>12, <1>13, <1>14 DEF IInv, Core, ExitReadAll

-----------------------------------------------------------------------------
\* Opening a connection and writing a request.

LEMMA NewSocket ==
    ASSUME NEW s \in {"syn", "open"}, NEW t, t = [NoSocket EXCEPT !.st = s]
    PROVE  /\ t \in Sockets /\ t.st = s /\ t.end = "no"
           /\ t.asks = 0 /\ t.sent = 0 /\ t.unread = 0
<1>1. t = [st |-> s, end |-> "no", err |-> FALSE, asks |-> 0, sent |-> 0, unread |-> 0]
  BY DEF NoSocket
<1>2. QED
  <2>1. t.st = s /\ t.end = "no" /\ t.asks = 0 /\ t.sent = 0 /\ t.unread = 0
    BY <1>1
  <2>2. [st |-> s, end |-> "no", err |-> FALSE, asks |-> 0, sent |-> 0, unread |-> 0]
           \in Sockets
    BY DEF Sockets
  <2>3. QED
    BY <1>1, <2>1, <2>2, Zenon

LEMMA StartKeeps ==
    ASSUME IInv, NEW f \in Files, NEW fd \in Fds, start_connect(f, fd) PROVE IInv'
<1>0. /\ Core /\ TypeOK /\ pc = "loop" /\ pc' = pc /\ i' = i
      /\ nconn < maxnconn /\ f_flags[f] = "0" /\ fd \notin OpenFds
      /\ sock' = [sock EXCEPT ![f].st = "syn"]
      /\ f_fd' = [f_fd EXCEPT ![f] = fd]
      /\ f_flags' = [f_flags EXCEPT ![f] = "CONNECTING"]
      /\ rset' = rset \cup {fd} /\ wset' = wset \cup {fd} /\ maxfd' = Highest(fd)
      /\ nconn' = nconn + 1 /\ nlefttoconn' = nlefttoconn - 1
      /\ UNCHANGED <<nlefttoread, rs, ws>>
  BY DEF IInv, start_connect, ConnectNext, MayConnect, Unopened, Socket, Ended
<1>1. sock[f] = NoSocket
  <2>1. FileOK(f) /\ ~Now(f)
    BY <1>0 DEF Core, FilesOK, Now
  <2>2. QED
    BY <1>0, <2>1 DEF FileOK
<1>2. /\ sock'[f] = [NoSocket EXCEPT !.st = "syn"] /\ f_flags'[f] = "CONNECTING" /\ f_fd'[f] = fd
      /\ \A g \in Files \ {f} : /\ sock'[g] = sock[g] /\ f_flags'[g] = f_flags[g]
                                /\ f_fd'[g] = f_fd[g]
  BY <1>0, <1>1 DEF TypeOK
<1>3. /\ sock'[f] \in Sockets /\ sock'[f].st = "syn" /\ sock'[f].end = "no"
      /\ sock'[f].asks = 0 /\ sock'[f].sent = 0 /\ sock'[f].unread = 0
  BY <1>2, NewSocket, Zenon
<1>4. FilesOK'
  <2>1. ASSUME NEW g \in Files PROVE FileOK(g)'
    <3>1. FileOK(g) /\ ~Now(g) /\ ~Now(g)'
      BY <1>0 DEF Core, FilesOK, Now
    <3>2. CASE g = f
      BY <1>0, <1>2, <1>3, <3>1, <3>2 DEF FileOK, Asked, Fresh
    <3>3. CASE g # f
      BY <1>2, <3>1, <3>3 DEF FileOK, Asked, Fresh
    <3>4. QED
      BY <3>2, <3>3
  <2>2. QED
    BY <2>1 DEF FilesOK
<1>5. Open' = Open \cup {f} /\ f \notin Open
  BY <1>1, <1>2, <1>3 DEF Open, NoSocket
<1>6. FdsApart'
  <2>1. \A g \in Open : g \in Files \ {f} /\ f_fd'[g] = f_fd[g] /\ f_fd[g] # fd
    BY <1>0, <1>2, <1>5 DEF Open, OpenFds
  <2>2. QED
    BY <1>0, <1>2, <1>5, <2>1 DEF Core, FdsApart
<1>7. GetOK' /\ ScanOK'
  BY <1>0 DEF GetOK, ScanOK
<1>8. /\ InState({"0"})' = InState({"0"}) \ {f} /\ f \in InState({"0"})
      /\ InState({"0", "CONNECTING", "READING"})' = InState({"0", "CONNECTING", "READING"})
      /\ Active' = Active \cup {f} /\ f \notin Active
      /\ Asking' = Asking \cup {f}
  BY <1>0, <1>2 DEF InState, Active, Asking
<1>9. CountOK'
  <2>1. InState({"0"}) \in SUBSET Files /\ Active \in SUBSET Files
    BY DEF InState, Active
  <2>2. /\ Cardinality(InState({"0"})') = Cardinality(InState({"0"})) - 1
        /\ Cardinality(Active') = Cardinality(Active) + 1
    BY <1>8, <2>1, OneFewer, OneMore
  <2>3. nconn' <= maxnconn
    BY <1>0 DEF TypeOK
  <2>4. QED
    BY <1>0, <1>8, <2>2, <2>3 DEF Core, CountOK
<1>10. WatchOK'
  <2>1. /\ \A g \in Active : f_fd'[g] = f_fd[g]
        /\ \A g \in Asking : f_fd'[g] = f_fd[g]
    BY <1>0, <1>2 DEF Active, Asking, InState
  <2>2. rset' = {f_fd'[g] : g \in Active'}
    BY <1>0, <1>2, <1>8, <2>1 DEF Core, WatchOK
  <2>3. wset' = {f_fd'[g] : g \in Asking'}
    BY <1>0, <1>2, <1>8, <2>1 DEF Core, WatchOK
  <2>4. maxfd \in Int /\ fd \in Int /\ maxfd' >= maxfd /\ maxfd' >= fd /\ maxfd' \in Int
    BY <1>0, NfilesNat DEF TypeOK, Highest, Fds
  <2>5. \A g \in Active : f_fd[g] \in Int /\ f_fd[g] <= maxfd
    BY <1>0, NfilesNat DEF Core, WatchOK, TypeOK, Fds, Active, InState
  <2>6. \A g \in Active' : f_fd'[g] <= maxfd'
    BY <1>2, <1>8, <2>1, <2>4, <2>5
  <2>7. QED
    BY <2>2, <2>3, <2>6 DEF WatchOK
<1>11. TypeOK'
  <2>1. sock' \in [Files -> Sockets]
    BY <1>0, <1>2, <1>3 DEF TypeOK
  <2>2. /\ f_flags' \in [Files -> {"0", "CONNECTING", "READING", "DONE"}]
        /\ f_fd' \in [Files -> Fds \cup {0}]
    BY <1>0 DEF TypeOK
  <2>3. /\ InState({"0"})' \in SUBSET Files /\ Active' \in SUBSET Files
        /\ InState({"0", "CONNECTING", "READING"})' \in SUBSET Files
    BY DEF InState, Active
  <2>4. nconn' \in 0 .. nfiles /\ nlefttoconn' \in 0 .. nfiles /\ nlefttoread' \in 0 .. nfiles
    BY <1>9, <2>3, SomeFiles DEF CountOK
  <2>5. rset' \subseteq Fds /\ wset' \subseteq Fds /\ maxfd' \in Fds \cup {-1}
    BY <1>0 DEF TypeOK, Highest
  <2>6. QED
    BY <1>0, <2>1, <2>2, <2>4, <2>5 DEF TypeOK
<1>12. pc' # "exit"
  BY <1>0
<1>13. NeverFetchedUnconnected'
  <2>1. ASSUME NEW g \in Files, sock'[g].end = "refused" PROVE f_flags'[g] = "CONNECTING"
    BY <1>2, <2>1 DEF IInv, NeverFetchedUnconnected
  <2>2. QED
    BY <1>12, <2>1 DEF NeverFetchedUnconnected
<1>14. QED
  BY <1>4, <1>6, <1>7, <1>9, <1>10, <1>11, <1>12, <1>13 DEF IInv, Core, ExitReadAll

LEMMA StartNowKeeps ==
    ASSUME IInv, NEW f \in Files, NEW fd \in Fds, start_connect_now(f, fd) PROVE IInv'
<1>0. /\ Core /\ TypeOK /\ pc = "loop" /\ pc' = "get_now" /\ i' = f
      /\ nconn < maxnconn /\ f_flags[f] = "0" /\ fd \notin OpenFds
      /\ sock' = [sock EXCEPT ![f].st = "open"]
      /\ f_fd' = [f_fd EXCEPT ![f] = fd]
      /\ UNCHANGED <<f_flags, nconn, nlefttoconn, nlefttoread, rset, wset, maxfd, rs, ws>>
  BY DEF IInv, start_connect_now, ConnectNext, MayConnect, Unopened, Socket, Ended, watch
<1>1. sock[f] = NoSocket
  <2>1. FileOK(f) /\ ~Now(f)
    BY <1>0 DEF Core, FilesOK, Now
  <2>2. QED
    BY <1>0, <2>1 DEF FileOK
<1>2. /\ sock'[f] = [NoSocket EXCEPT !.st = "open"] /\ f_fd'[f] = fd
      /\ \A g \in Files \ {f} : sock'[g] = sock[g] /\ f_fd'[g] = f_fd[g]
  BY <1>0, <1>1 DEF TypeOK
<1>3. /\ sock'[f] \in Sockets /\ sock'[f].st = "open" /\ sock'[f].end = "no"
      /\ sock'[f].asks = 0 /\ sock'[f].sent = 0 /\ sock'[f].unread = 0
  BY <1>2, NewSocket, Zenon
<1>4. FilesOK'
  <2>1. ASSUME NEW g \in Files PROVE FileOK(g)'
    <3>1. FileOK(g) /\ ~Now(g) /\ (Now(g)' <=> g = f)
      BY <1>0 DEF Core, FilesOK, Now
    <3>2. CASE g = f
      BY <1>0, <1>2, <1>3, <3>1, <3>2 DEF FileOK, Asked, Fresh
    <3>3. CASE g # f
      BY <1>0, <1>2, <3>1, <3>3 DEF FileOK, Asked, Fresh
    <3>4. QED
      BY <3>2, <3>3
  <2>2. QED
    BY <2>1 DEF FilesOK
<1>5. Open' = Open \cup {f} /\ f \notin Open
  BY <1>1, <1>2, <1>3 DEF Open, NoSocket
<1>6. FdsApart'
  <2>1. \A g \in Open : g \in Files \ {f} /\ f_fd'[g] = f_fd[g] /\ f_fd[g] # fd
    BY <1>0, <1>2, <1>5 DEF Open, OpenFds
  <2>2. QED
    BY <1>0, <1>2, <1>5, <2>1 DEF Core, FdsApart
<1>7. GetOK' /\ ScanOK'
  BY <1>0 DEF GetOK, ScanOK
<1>8. Active' = Active /\ f \notin Active /\ Asking' = Asking /\ f \notin Asking
  BY <1>0 DEF InState, Active, Asking
<1>9. CountOK'
  BY <1>0, <1>8 DEF Core, CountOK, InState
<1>10. WatchOK'
  <2>1. /\ \A g \in Active : f_fd'[g] = f_fd[g]
        /\ \A g \in Asking : f_fd'[g] = f_fd[g]
    BY <1>2, <1>8 DEF Active, Asking, InState
  <2>2. QED
    BY <1>0, <1>8, <2>1 DEF Core, WatchOK
<1>11. TypeOK'
  <2>1. sock' \in [Files -> Sockets]
    BY <1>0, <1>2, <1>3 DEF TypeOK
  <2>2. f_fd' \in [Files -> Fds \cup {0}] /\ i' \in 1 .. (nfiles + 1)
    BY <1>0, NfilesNat DEF TypeOK, Files
  <2>3. QED
    BY <1>0, <2>1, <2>2 DEF TypeOK
<1>12. pc' # "exit"
  BY <1>0
<1>13. NeverFetchedUnconnected'
  <2>1. ASSUME NEW g \in Files, sock'[g].end = "refused" PROVE f_flags'[g] = "CONNECTING"
    BY <1>0, <1>2, <1>3, <2>1 DEF IInv, NeverFetchedUnconnected
  <2>2. QED
    BY <1>12, <2>1 DEF NeverFetchedUnconnected
<1>14. QED
  BY <1>4, <1>6, <1>7, <1>9, <1>10, <1>11, <1>12, <1>13 DEF IInv, Core, ExitReadAll

\* The request goes to a connection that was established: the pending error of
\* a refused one has been read, so that the write would have been a SIGPIPE.
LEMMA GetKeeps ==
    ASSUME IInv, NEW f \in Files, write_get_cmd(f) PROVE IInv'
<1>0. /\ Core /\ TypeOK /\ pc \in {"get", "get_now"} /\ i = f
      /\ (Dead(f) => sock[f].err)
      /\ sock' = [sock EXCEPT ![f].err = FALSE,
                              ![f].asks = IF Dead(f) THEN @ ELSE @ + 1]
      /\ f_flags' = [f_flags EXCEPT ![f] = "READING"]
      /\ rset' = rset \cup {f_fd[f]} /\ maxfd' = Highest(f_fd[f])
      /\ UNCHANGED <<f_fd, nlefttoread, wset, rs, ws>>
  BY DEF IInv, write_get_cmd, Ended
<1>1. sock[f] \in Sockets /\ FileOK(f)
  BY <1>0 DEF Core, FilesOK, TypeOK
<1>2. /\ f_flags[f] = "CONNECTING" <=> pc = "get"
      /\ f_flags[f] = "0" <=> pc = "get_now"
      /\ sock[f].st = "open" /\ f_fd[f] \in Fds /\ sock[f].asks = 0 /\ sock[f].sent = 0
      /\ sock[f].end \in {"no", "eof", "reset"}
  <2>1. CASE pc = "get"
    <3>1. /\ f_flags[f] = "CONNECTING" /\ sock[f].st = "open"
          /\ sock[f].end = "refused" => ~sock[f].err
      BY <1>0, <2>1 DEF Core, GetOK
    <3>2. sock[f].end # "refused"
      BY <1>0, <3>1 DEF Dead
    <3>3. QED
      BY <1>1, <2>1, <3>1, <3>2 DEF FileOK, Fresh, Sockets
  <2>2. CASE pc = "get_now"
    <3>1. f_flags[f] = "0" /\ Now(f)
      BY <1>0, <2>2 DEF Core, GetOK, Now
    <3>2. QED
      BY <1>1, <2>2, <3>1 DEF FileOK, Asked, Fresh
  <2>3. QED
    BY <1>0, <2>1, <2>2
<1> DEFINE n == IF Dead(f) THEN sock[f].asks ELSE sock[f].asks + 1
<1>3. /\ sock'[f] = [sock[f] EXCEPT !.err = FALSE, !.asks = n] /\ f_flags'[f] = "READING"
      /\ \A g \in Files \ {f} : sock'[g] = sock[g] /\ f_flags'[g] = f_flags[g]
  <2>1. sock' = [sock EXCEPT ![f] = [sock[f] EXCEPT !.err = FALSE, !.asks = n]]
    BY <1>0
  <2> HIDE DEF n
  <2>2. QED
    BY <1>0, <2>1 DEF TypeOK
<1>4. /\ sock'[f] \in Sockets /\ sock'[f].st = "open" /\ sock'[f].end = sock[f].end
      /\ Asked(f)' /\ sock'[f].sent = sock[f].sent /\ sock'[f].unread = sock[f].unread
  <2>1. /\ sock'[f] \in Sockets /\ sock'[f].st = "open" /\ sock'[f].end = sock[f].end
        /\ sock'[f].asks = n /\ sock'[f].sent = sock[f].sent /\ sock'[f].unread = sock[f].unread
    <3>1. n \in Nat
      BY <1>2
    <3> HIDE DEF n
    <3>2. sock'[f] = [sock[f] EXCEPT !.err = FALSE, !.asks = n]
      BY <1>3
    <3>3. PICK s, t, m : s = sock[f] /\ t = sock'[f] /\ m = n
      OBVIOUS
    <3>4. s \in Sockets /\ m \in Nat /\ t = [s EXCEPT !.err = FALSE, !.asks = m]
      BY <1>1, <3>1, <3>2, <3>3
    <3>5. /\ t \in Sockets /\ t.st = s.st /\ t.end = s.end
          /\ t.asks = m /\ t.sent = s.sent /\ t.unread = s.unread
      BY <3>4 DEF Sockets
    <3>6. QED
      BY <1>2, <3>3, <3>5
  <2>2. n = 1 \/ (n = 0 /\ sock[f].end = "reset")
    BY <1>2 DEF Dead
  <2> HIDE DEF n
  <2>3. QED
    BY <2>1, <2>2 DEF Asked
<1> HIDE DEF n
<1>5. /\ pc = "get_now" => nconn' = nconn + 1 /\ nlefttoconn' = nlefttoconn - 1
                           /\ pc' = "loop" /\ i' = i
      /\ pc = "get" => pc' = "scan" /\ i' = i + 1 /\ nconn' = nconn /\ nlefttoconn' = nlefttoconn
  BY <1>0 DEF write_get_cmd
<1>6. FilesOK'
  <2>1. ASSUME NEW g \in Files PROVE FileOK(g)'
    <3>1. FileOK(g) /\ (Now(g) => g = f) /\ ~Now(g)'
      BY <1>0, <1>5 DEF Core, FilesOK, Now
    <3>2. CASE g = f
      BY <1>0, <1>1, <1>2, <1>3, <1>4, <3>1, <3>2 DEF FileOK, Asked, Fresh
    <3>3. CASE g # f
      BY <1>0, <1>3, <3>1, <3>3 DEF FileOK, Asked, Fresh
    <3>4. QED
      BY <3>2, <3>3
  <2>2. QED
    BY <2>1 DEF FilesOK
<1>7. Open' = Open
  BY <1>2, <1>3, <1>4 DEF Open
<1>8. FdsApart' /\ GetOK'
  BY <1>0, <1>5, <1>7 DEF Core, FdsApart, GetOK
<1>9. ScanOK'
  <2>1. CASE pc = "get_now"
    BY <1>5, <2>1 DEF ScanOK
  <2>2. CASE pc = "get"
    <3>1. ASSUME NEW g \in Files, g >= i' PROVE g >= i /\ g # f
      BY <1>0, <1>5, <2>2, <3>1 DEF Files
    <3>2. QED
      BY <1>0, <1>3, <2>2, <3>1, ZenonT(40) DEF Core, ScanOK, Readable
  <2>3. QED
    BY <1>0, <2>1, <2>2
<1>10. InState({"0", "CONNECTING", "READING"})' = InState({"0", "CONNECTING", "READING"})
  BY <1>0, <1>2, <1>3 DEF InState
<1>11. Active' = Active \cup {f} /\ (f \in Active <=> pc = "get")
  BY <1>0, <1>2, <1>3 DEF InState, Active
<1>12. InState({"0"})' = InState({"0"}) \ {f} /\ (f \in InState({"0"}) <=> pc = "get_now")
  BY <1>0, <1>2, <1>3 DEF InState
<1>13. Asking' = Asking
  BY <1>0, <1>2, <1>3, <1>5 DEF Asking
<1>14. CountOK'
  <2>1. InState({"0"}) \in SUBSET Files /\ Active \in SUBSET Files
    BY DEF InState, Active
  <2>2. CASE pc = "get"
    <3>1. Active' = Active /\ InState({"0"})' = InState({"0"})
      BY <1>11, <1>12, <2>2
    <3>2. QED
      BY <1>0, <1>5, <1>10, <2>2, <3>1 DEF Core, CountOK
  <2>3. CASE pc = "get_now"
    <3>1. /\ Cardinality(InState({"0"})') = Cardinality(InState({"0"})) - 1
          /\ Cardinality(Active') = Cardinality(Active) + 1
      BY <1>11, <1>12, <2>1, <2>3, OneFewer, OneMore
    <3>2. nconn' <= maxnconn
      BY <1>0, <1>5, <2>3 DEF Core, CountOK, TypeOK
    <3>3. QED
      BY <1>0, <1>5, <1>10, <2>3, <3>1, <3>2 DEF Core, CountOK
  <2>4. QED
    BY <1>0, <2>2, <2>3
<1>15. WatchOK'
  <2>1. rset' = {f_fd[g] : g \in Active'}
    BY <1>0, <1>11 DEF Core, WatchOK
  <2>2. maxfd \in Int /\ f_fd[f] \in Int /\ maxfd' >= maxfd /\ maxfd' >= f_fd[f] /\ maxfd' \in Int
    BY <1>0, <1>2, NfilesNat DEF TypeOK, Highest, Fds
  <2>3. \A g \in Active : f_fd[g] \in Int /\ f_fd[g] <= maxfd
    BY <1>0, NfilesNat DEF Core, WatchOK, TypeOK, Fds, Active, InState
  <2>4. \A g \in Active' : f_fd[g] <= maxfd'
    BY <1>11, <2>2, <2>3
  <2>5. QED
    BY <1>0, <1>13, <2>1, <2>4 DEF Core, WatchOK
<1>16. TypeOK'
  <2>1. sock' \in [Files -> Sockets]
    <3>1. sock' = [g \in Files |-> sock'[g]]
      BY <1>0 DEF TypeOK
    <3>2. QED
      BY <1>0, <1>3, <1>4, <3>1 DEF TypeOK
  <2>2. f_flags' \in [Files -> {"0", "CONNECTING", "READING", "DONE"}]
    BY <1>0 DEF TypeOK
  <2>3. /\ InState({"0"})' \in SUBSET Files /\ Active' \in SUBSET Files
        /\ InState({"0", "CONNECTING", "READING"})' \in SUBSET Files
    BY DEF InState, Active
  <2>4. nconn' \in 0 .. nfiles /\ nlefttoconn' \in 0 .. nfiles /\ nlefttoread' \in 0 .. nfiles
    BY <1>14, <2>3, SomeFiles DEF CountOK
  <2>5. rset' \subseteq Fds /\ maxfd' \in Fds \cup {-1}
    BY <1>0, <1>2 DEF TypeOK, Highest
  <2>6. i' \in 1 .. (nfiles + 1)
    BY <1>0, <1>5, NfilesNat DEF Files, TypeOK
  <2>7. QED
    BY <1>0, <1>5, <2>1, <2>2, <2>4, <2>5, <2>6 DEF TypeOK
<1>17. pc' # "exit"
  BY <1>0, <1>5
<1>18. NeverFetchedUnconnected'
  <2>1. ASSUME NEW g \in Files, sock'[g].end = "refused" PROVE f_flags'[g] = "CONNECTING"
    BY <1>2, <1>3, <1>4, <2>1 DEF IInv, NeverFetchedUnconnected
  <2>2. QED
    BY <1>17, <2>1 DEF NeverFetchedUnconnected
<1>19. QED
  BY <1>6, <1>8, <1>9, <1>14, <1>15, <1>16, <1>17, <1>18 DEF IInv, Core, ExitReadAll

-----------------------------------------------------------------------------
\* The theorems.

LEMMA StutterKeeps == ASSUME IInv, UNCHANGED vars PROVE IInv'
BY DEF IInv, vars, table, counters, watch, loop, TypeOK, NeverFetchedUnconnected,
       ExitReadAll, Core, FilesOK, FileOK, Asked, Fresh, Now, FdsApart, Open, GetOK, ScanOK,
       Readable, CountOK, Active, InState, WatchOK, Asking

LEMMA IInvStep == IInv /\ [Next]_vars => IInv'
<1> SUFFICES ASSUME IInv, [Next]_vars PROVE IInv'
  OBVIOUS
<1>1. CASE home_page
  <2>1. CASE pc' \in {"err_quit", "SIGPIPE"}
    BY <1>1, <2>1, EndKeeps DEF home_page
  <2>2. CASE pc' = "loop"
    <3>1. ScanOK' /\ i \in 1 .. (nfiles + 1) /\ rs \subseteq Fds /\ ws \subseteq Fds
      BY <2>2 DEF ScanOK, IInv, TypeOK
    <3>2. QED
      BY <1>1, <2>2, <3>1, LoopKeeps DEF home_page
  <2>3. QED
    BY <1>1, <2>1, <2>2 DEF home_page
<1>2. CASE Connects
  BY <1>2, StartKeeps, StartNowKeeps DEF Connects
<1>3. CASE start_connect_fails
  BY <1>3, EndKeeps DEF start_connect_fails
<1>4. CASE Gets
  <2>1. ASSUME NEW f \in Files, write_get_cmd_SIGPIPE(f) PROVE IInv'
    BY <2>1, EndKeeps DEF write_get_cmd_SIGPIPE
  <2>2. QED
    BY <1>4, <2>1, GetKeeps DEF Gets
<1>5. CASE select
  BY <1>5, SelectKeeps
<1>6. CASE Scans
  BY <1>6, SkipKeeps, ConnectedKeeps, DataKeeps, EofKeeps DEF Scans
<1>7. CASE exit
  BY <1>7, ExitKeeps
<1>8. CASE \E f \in Files : Accepted(f) \/ Refused(f) \/ Resets(f) \/ Sends(f) \/ Ends(f)
  BY <1>8, ServerKeeps
<1>9. CASE UNCHANGED vars
  BY <1>9, StutterKeeps
<1>10. QED
  BY <1>1, <1>2, <1>3, <1>4, <1>5, <1>6, <1>7, <1>8, <1>9 DEF Next, Client

LEMMA Invariance == Spec => []IInv
BY IInvInit, IInvStep, PTL DEF Spec

\* Wherever main() uses its three counters they are exact, and there are never
\* more connections than the command line allows.
THEOREM CountersExact == Spec => []CountersTrue
<1>1. IInv => CountersTrue
  <2> SUFFICES ASSUME IInv, pc \in {"loop", "scan"}
               PROVE  /\ nlefttoconn = Cardinality(InState({"0"}))
                      /\ nlefttoread = Cardinality(InState({"0", "CONNECTING", "READING"}))
                      /\ nconn = Cardinality(OpenFds)
                      /\ nconn <= maxnconn
    BY DEF CountersTrue
  <2>1. Core /\ TypeOK
    BY DEF IInv, Ended
  <2>2. Open = Active
    BY <2>1, OpenIs DEF Core, Now
  <2>3. Cardinality(OpenFds) = Cardinality(Active)
    BY <2>1, <2>2, CountOpenFds DEF Core
  <2>4. QED
    BY <2>1, <2>3 DEF Core, CountOK
<1>2. QED
  BY <1>1, Invariance, PTL

\* Every open socket is watched when select() is called, and nothing else is.
THEOREM SocketsWatched == Spec => []Watched
<1>1. IInv => Watched
  <2> SUFFICES ASSUME IInv, pc = "loop"
               PROVE  /\ rset = OpenFds
                      /\ wset = {f_fd[f] : f \in InState({"CONNECTING"})}
                      /\ \A fd \in OpenFds : fd <= maxfd
    BY DEF Watched
  <2>1. Core /\ TypeOK
    BY DEF IInv, Ended
  <2>2. Open = Active
    BY <2>1, OpenIs DEF Core, Now
  <2>3. Asking = InState({"CONNECTING"})
    BY DEF Asking, InState
  <2>4. QED
    BY <2>1, <2>2, <2>3 DEF Core, WatchOK, OpenFds
<1>2. QED
  BY <1>1, Invariance, PTL

\* No file is ever taken as fetched over a connection that was refused.
THEOREM RefusedNeverFetched == Spec => []NeverFetchedUnconnected
<1>1. IInv => NeverFetchedUnconnected
  BY DEF IInv
<1>2. QED
  BY <1>1, Invariance, PTL

\* After a normal exit every file was asked for once, unless its connection was
\* reset before that, and every connection was ended by the other side and read
\* to that end.  Whether a reply was complete is not said: the program takes
\* every end, early or not, for the end of the file.
THEOREM ExitMeansRead == Spec => []ExitReadAll
<1>1. IInv => ExitReadAll
  BY DEF IInv
<1>2. QED
  BY <1>1, Invariance, PTL
=============================================================================
