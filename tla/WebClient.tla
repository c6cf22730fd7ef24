----------------------------- MODULE WebClient ------------------------------
(***************************************************************************)
(* The web client unp/web/web.c: it reads the home page, then fetches the  *)
(* files it was given over at most maxnconn connections at a time, with    *)
(* connect() in non-blocking mode and one select() loop.  The kernel and   *)
(* the server answer in any order, refuse and reset.                       *)
(*                                                                         *)
(* A failed connect() is reported and then treated as established: the     *)
(* request goes to a dead socket and SIGPIPE ends the program.             *)
(***************************************************************************)
EXTENDS Integers, FiniteSets

CONSTANTS
    Named,          \* argc - 4: the files named on the command line
    MAXFILES,       \* places in the table file[] (20 in the code)
    maxnconn,       \* argv[1]
    Chunks          \* reads that it takes to get a whole reply

ASSUME NamedAssumption == Named \in Nat /\ MAXFILES \in Nat
ASSUME MaxConnAssumption == maxnconn \in Nat
ASSUME ChunksAssumption == Chunks \in Nat

nfiles == IF Named < MAXFILES THEN Named ELSE MAXFILES
Files == 1 .. nfiles
Fds == 3 .. (2 + nfiles)    \* the standard descriptors are taken

VARIABLES
    f_flags, f_fd,                      \* file[]
    nconn, nlefttoconn, nlefttoread,    \* the counters of web.h
    rset, wset, maxfd,                  \* what select() is to watch
    rs, ws,                             \* what the last select() found
    pc, i,                              \* the main loop and its file
    sock            \* sock[f]: the connection of f, in the kernel and beyond

table == <<f_flags, f_fd>>
counters == <<nconn, nlefttoconn, nlefttoread>>
watch == <<rset, wset, maxfd>>
loop == <<rs, ws, pc, i>>
vars == <<table, counters, watch, loop, sock>>

Ended == {"exit", "err_quit", "SIGPIPE"}

\* st: the socket; end: how the other side ended it; err: an error that nobody
\* has read; asks: requests that went out; sent, unread: pieces of the reply.
Sockets == [st : {"none", "syn", "open", "closed"},
            end : {"no", "eof", "refused", "reset"}, err : BOOLEAN,
            asks : Nat, sent : 0 .. Chunks, unread : 0 .. Chunks]

NoSocket == [st |-> "none", end |-> "no", err |-> FALSE,
             asks |-> 0, sent |-> 0, unread |-> 0]

TypeOK ==
    /\ f_flags \in [Files -> {"0", "CONNECTING", "READING", "DONE"}]
    /\ f_fd \in [Files -> Fds \cup {0}]
    /\ {nconn, nlefttoconn, nlefttoread} \subseteq 0 .. nfiles
    /\ rset \subseteq Fds /\ wset \subseteq Fds /\ maxfd \in Fds \cup {-1}
    /\ rs \subseteq Fds /\ ws \subseteq Fds
    /\ pc \in {"home", "loop", "get_now", "scan", "get"} \cup Ended
    /\ i \in 1 .. (nfiles + 1)
    /\ sock \in [Files -> Sockets]

Init ==
    /\ f_flags = [f \in Files |-> "0"] /\ f_fd = [f \in Files |-> 0]
    /\ nlefttoread = nfiles /\ nlefttoconn = nfiles /\ nconn = 0
    /\ rset = {} /\ wset = {} /\ maxfd = -1 /\ rs = {} /\ ws = {}
    /\ pc = "home" /\ i = 1
    /\ sock = [f \in Files |-> NoSocket]

-----------------------------------------------------------------------------
\* home_page(): the connection is made and the page read to its end, all of it
\* blocking, before anything else happens.  tcp_connect() may fail, and so may
\* writen(), with a SIGPIPE or a result that nobody looks at.
home_page ==
    /\ pc = "home"
    /\ pc' \in {"loop", "err_quit", "SIGPIPE"}
    /\ UNCHANGED <<table, counters, watch, rs, ws, i, sock>>

\* The loop of main() that looks for the first file without a connection.
Unopened(f) == f_flags[f] = "0" /\ \A g \in 1 .. (f - 1) : f_flags[g] # "0"

MayConnect == nconn < maxnconn /\ nlefttoconn > 0

\* socket() takes the lowest descriptor that is free.
Open == {f \in Files : sock[f].st \in {"syn", "open"}}
OpenFds == {f_fd[f] : f \in Open}

Socket(fd) ==
    /\ fd \in Fds \ OpenFds
    /\ \A d \in Fds : d < fd => d \in OpenFds

\* Variant: maxfd is not raised.
HighestOld(fd) == maxfd

Highest(fd) == IF fd > maxfd THEN fd ELSE maxfd

ConnectNext(f, fd, st) ==
    /\ pc = "loop" /\ nlefttoread > 0 /\ MayConnect
    /\ Unopened(f) /\ Socket(fd)
    /\ sock' = [sock EXCEPT ![f].st = st]
    /\ UNCHANGED <<nlefttoread, rs, ws>>

\* start_connect() gets EINPROGRESS.
start_connect(f, fd) ==
    /\ ConnectNext(f, fd, "syn")
    /\ f_fd' = [f_fd EXCEPT ![f] = fd]
    /\ f_flags' = [f_flags EXCEPT ![f] = "CONNECTING"]
    /\ rset' = rset \cup {fd} /\ wset' = wset \cup {fd} /\ maxfd' = Highest(fd)
    /\ nconn' = nconn + 1 /\ nlefttoconn' = nlefttoconn - 1
    /\ UNCHANGED <<pc, i>>

\* start_connect() is connected at once and goes on with write_get_cmd().
start_connect_now(f, fd) ==
    /\ ConnectNext(f, fd, "open")
    /\ f_fd' = [f_fd EXCEPT ![f] = fd]
    /\ pc' = "get_now" /\ i' = f
    /\ UNCHANGED <<f_flags, nconn, nlefttoconn, watch>>

\* start_connect() gets any other error: err_sys.
start_connect_fails ==
    /\ pc = "loop" /\ nlefttoread > 0 /\ MayConnect
    /\ pc' = "err_quit"
    /\ UNCHANGED <<table, counters, watch, rs, ws, i, sock>>

\* write_get_cmd(): nobody looks at the result of writen().  A dead socket
\* gives the error it has kept, once, and the request does not go out; after
\* that a write is a SIGPIPE.
Dead(f) == sock[f].st = "open" /\ sock[f].end \in {"refused", "reset"}

write_get_cmd(f) ==
    /\ pc \in {"get", "get_now"} /\ i = f
    /\ Dead(f) => sock[f].err
    /\ sock' = [sock EXCEPT ![f].err = FALSE,
                            ![f].asks = IF Dead(f) THEN @ ELSE @ + 1]
    /\ f_flags' = [f_flags EXCEPT ![f] = "READING"]
    /\ rset' = rset \cup {f_fd[f]} /\ maxfd' = Highest(f_fd[f])
    /\ \/ /\ pc = "get_now"
          /\ nconn' = nconn + 1 /\ nlefttoconn' = nlefttoconn - 1
          /\ pc' = "loop" /\ i' = i
       \/ /\ pc = "get"
          /\ pc' = "scan" /\ i' = i + 1
          /\ UNCHANGED <<nconn, nlefttoconn>>
    /\ UNCHANGED <<f_fd, nlefttoread, wset, rs, ws>>

write_get_cmd_SIGPIPE(f) ==
    /\ pc \in {"get", "get_now"} /\ i = f
    /\ Dead(f) /\ ~sock[f].err
    /\ pc' = "SIGPIPE"
    /\ UNCHANGED <<table, counters, watch, rs, ws, i, sock>>

-----------------------------------------------------------------------------
\* select(): it blocks until a watched descriptor below maxfd + 1 is ready.
Readable(f) == sock[f].unread > 0 \/ sock[f].end # "no"
Below(S) == {fd \in S : fd <= maxfd}
ReadyR == Below(rset) \cap {f_fd[f] : f \in {g \in Open : Readable(g)}}
ReadyW == Below(wset) \cap {f_fd[f] : f \in {g \in Open : sock[g].st = "open"}}

select ==
    /\ pc = "loop" /\ nlefttoread > 0 /\ ~MayConnect
    /\ ReadyR \cup ReadyW # {}
    /\ rs' = ReadyR /\ ws' = ReadyW
    /\ pc' = "scan" /\ i' = 1
    /\ UNCHANGED <<table, counters, watch, sock>>

\* The loop over the table: a file with nothing to do.
At == pc = "scan" /\ i \in Files
Connected(f) == f_flags[f] = "CONNECTING" /\ f_fd[f] \in rs \cup ws
Arrived(f) == f_flags[f] = "READING" /\ f_fd[f] \in rs

scan_skip ==
    /\ At /\ ~Connected(i) /\ ~Arrived(i)
    /\ i' = i + 1
    /\ UNCHANGED <<table, counters, watch, rs, ws, pc, sock>>

\* getsockopt(SO_ERROR) reads the error and clears it.
\* Variant: it is not called.
ErrorLeftKept(f) == sock[f].err

ErrorLeft(f) == FALSE

\* With an error or without, the loop goes on to write_get_cmd().
scan_connected ==
    /\ At /\ Connected(i)
    /\ sock' = [sock EXCEPT ![i].err = ErrorLeft(i)]
    /\ wset' = wset \ {f_fd[i]}
    /\ pc' = "get"
    /\ UNCHANGED <<table, counters, rset, maxfd, rs, ws, i>>

\* read() returns data, or -1 for a reset, which is counted as data.
scan_read ==
    /\ At /\ Arrived(i)
    /\ \/ /\ sock[i].unread > 0
          /\ sock' = [sock EXCEPT ![i].unread = @ - 1]
       \/ /\ sock[i].unread = 0 /\ sock[i].err
          /\ sock' = [sock EXCEPT ![i].err = FALSE]
    /\ i' = i + 1
    /\ UNCHANGED <<table, counters, watch, rs, ws, pc>>

\* read() returns 0.  Variants: the first read ends the file; its bit stays in
\* rset; the connection stays counted.
AtEofFirst(f) == TRUE
UnwatchNot(fd) == rset
OneLessNot(n) == n

AtEof(f) == sock[f].unread = 0 /\ ~sock[f].err
Unwatch(fd) == rset \ {fd}
OneLess(n) == n - 1

scan_eof ==
    /\ At /\ Arrived(i) /\ AtEof(i)
    /\ sock' = [sock EXCEPT ![i].st = "closed"]
    /\ f_flags' = [f_flags EXCEPT ![i] = "DONE"]
    /\ rset' = Unwatch(f_fd[i])
    /\ nconn' = OneLess(nconn) /\ nlefttoread' = nlefttoread - 1
    /\ i' = i + 1
    /\ UNCHANGED <<f_fd, nlefttoconn, wset, maxfd, rs, ws, pc>>

scan_end ==
    /\ pc = "scan" /\ i \notin Files
    /\ pc' = "loop" /\ i' = 1
    /\ UNCHANGED <<table, counters, watch, rs, ws, sock>>

exit ==
    /\ pc = "loop" /\ nlefttoread <= 0
    /\ pc' = "exit"
    /\ UNCHANGED <<table, counters, watch, rs, ws, i, sock>>

-----------------------------------------------------------------------------
\* The kernel and the server.
Changes(f, st, new) ==
    /\ pc \notin Ended /\ sock[f].st = st /\ sock[f].end = "no"
    /\ sock' = [sock EXCEPT ![f] = new]
    /\ UNCHANGED <<table, counters, watch, loop>>

Accepted(f) == Changes(f, "syn", [sock[f] EXCEPT !.st = "open"])

\* Refused or timed out.
Refused(f) == Changes(f, "syn",
    [sock[f] EXCEPT !.st = "open", !.end = "refused", !.err = TRUE])

\* What has arrived before a reset stays readable.  A reset after the end of
\* the reply changes nothing: read() goes on to return what is there and 0.
Resets(f) == Changes(f, "open", [sock[f] EXCEPT !.end = "reset", !.err = TRUE])

Sends(f) ==
    /\ sock[f].asks > 0 /\ sock[f].sent < Chunks
    /\ Changes(f, "open", [sock[f] EXCEPT !.sent = @ + 1, !.unread = @ + 1])

\* The server closes the connection: after its reply, or before that because
\* the process has come to an end.
Ends(f) == Changes(f, "open", [sock[f] EXCEPT !.end = "eof"])

-----------------------------------------------------------------------------
Connects == \E f \in Files, fd \in Fds :
                start_connect(f, fd) \/ start_connect_now(f, fd)
Gets == \E f \in Files : write_get_cmd(f) \/ write_get_cmd_SIGPIPE(f)
Scans == scan_skip \/ scan_connected \/ scan_read \/ scan_eof \/ scan_end
Client == \/ home_page \/ Connects \/ start_connect_fails \/ Gets
          \/ select \/ Scans \/ exit

Next ==
    \/ Client
    \/ \E f \in Files :
          Accepted(f) \/ Refused(f) \/ Resets(f) \/ Sends(f) \/ Ends(f)

\* The program runs, the home page comes to an end, a connect() ends one way or
\* the other, and a server sends its reply to the end or goes away.
Fairness ==
    /\ WF_vars(Client)
    /\ \A f \in Files : /\ WF_vars(Accepted(f) \/ Refused(f))
                        /\ WF_vars(Sends(f) \/ Ends(f))

Spec == Init /\ [][Next]_vars
FairSpec == Spec /\ Fairness

-----------------------------------------------------------------------------
\* Properties.

InState(s) == {f \in Files : f_flags[f] \in s}

\* The three counters mean what web.h:27-31 says of them, at every point where
\* main() uses them: the files without a connection, the files not yet read
\* and the sockets open in the kernel, which never exceed maxnconn.  Hence the
\* err_quit at web.c:40 ("nothing found") is never reached.
CountersTrue ==
    pc \in {"loop", "scan"} =>
        /\ nlefttoconn = Cardinality(InState({"0"}))
        /\ nlefttoread = Cardinality(InState({"0", "CONNECTING", "READING"}))
        /\ nconn = Cardinality(OpenFds)
        /\ nconn <= maxnconn

\* Before select() every open socket is watched, also below maxfd + 1, and no
\* bit of a closed descriptor is left that would be taken for a new file that
\* gets the same number.
Watched ==
    pc = "loop" =>
        /\ rset = OpenFds
        /\ wset = {f_fd[f] : f \in InState({"CONNECTING"})}
        /\ \A fd \in OpenFds : fd <= maxfd

\* What exit(0) says and what it does not: the program never ended a connection
\* of its own accord.  Every file was asked for once, unless its connection was
\* reset before that; the other side ended every connection, and everything
\* that arrived was read, also in scans that work with an old answer of
\* select().  Whether the reply was complete nobody checks: the end of a server
\* that dies early is the end of the file (web.c:64), and so, after one read
\* that counts as data, is a reset.
ExitReadAll ==
    pc = "exit" =>
        \A f \in Files :
            /\ sock[f].unread = 0 /\ sock[f].end \in {"eof", "reset"}
            /\ sock[f].asks = 1 \/ (sock[f].asks = 0 /\ sock[f].end = "reset")

\* A connect() that failed is treated as established (web.c:56-62), and yet no
\* file is ever taken as fetched over it: getsockopt() has cleared the error,
\* so the request to the dead socket ends the whole program, with every other
\* file that was still under way.
NeverFetchedUnconnected ==
    \A f \in Files : sock[f].end = "refused" =>
        f_flags[f] = "CONNECTING" /\ pc # "exit"

\* The loop ends: no file is left unwatched and no counter keeps it waiting.
Terminates == maxnconn > 0 => <>(pc \in Ended)

=============================================================================
