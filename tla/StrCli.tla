------------------------------- MODULE StrCli -------------------------------
(***************************************************************************)
(* The non-blocking echo client unp/strclinonb.c: str_cli() carries bytes  *)
(* from standard input to a socket through the buffer "to", and from the   *)
(* socket to standard output through the buffer "fr", in one select() loop *)
(* in which every read and write may be partial.  The typist, the echo     *)
(* server and the reader of the output work at their own pace behind       *)
(* channels of bounded capacity.                                           *)
(*                                                                         *)
(* The input is the bytes 1, 2, ..., NBytes, so that every byte can be     *)
(* told from the others.                                                   *)
(***************************************************************************)
EXTENDS Integers, Sequences

CONSTANTS
    MAXLINE,        \* size of each buffer (4096 in the code)
    NBytes,         \* length of the input
    SndCap, RcvCap, OutCap  \* capacities: to the server, from it, of stdout

ASSUME SizeAssumption == MAXLINE \in Nat \ {0} /\ NBytes \in Nat
ASSUME CapAssumption == {SndCap, RcvCap, OutCap} \subseteq Nat \ {0}

VARIABLES
    to, toiptr, tooptr,     \* the buffer towards the socket
    fr, friptr, froptr,     \* the buffer towards standard output
    stdineof, rset, wset, pc,
    typed, closed,          \* bytes typed so far; the input has ended
    inpos,                  \* bytes read from standard input
    wrshut,                 \* the client has shut the socket for writing
    fwd, bwd,               \* bytes on the way to the server and back
    srv,                    \* "up", "done" (echoed all and closed), "died"
    shown, outq             \* bytes written to stdout; those not yet taken

to_vars == <<to, toiptr, tooptr>>
fr_vars == <<fr, friptr, froptr>>
loop == <<stdineof, rset, wset, pc, inpos, wrshut>>
client == <<to_vars, fr_vars, loop>>
out_vars == <<shown, outq>>
wires == <<fwd, bwd, out_vars>>
env == <<typed, closed, srv>>
vars == <<client, wires, env>>

Ended == {"return", "err_quit", "SIGPIPE"}
Bytes == 0 .. NBytes        \* 0: never written
Places == 0 .. (MAXLINE - 1)
MinOf(a, b) == IF a < b THEN a ELSE b

TypeOK ==
    /\ to \in [Places -> Bytes] /\ fr \in [Places -> Bytes]
    /\ {toiptr, tooptr, friptr, froptr} \subseteq 0 .. MAXLINE
    /\ tooptr <= toiptr /\ froptr <= friptr
    /\ stdineof \in BOOLEAN /\ closed \in BOOLEAN /\ wrshut \in BOOLEAN
    /\ rset \subseteq {"stdin", "sock"} /\ wset \subseteq {"sock", "stdout"}
    /\ pc \in {"select", "stdin", "recv", "stdout", "send"} \cup Ended
    /\ typed \in 0 .. NBytes /\ inpos \in 0 .. typed
    /\ fwd \in Seq(Bytes) /\ Len(fwd) <= SndCap
    /\ bwd \in Seq(Bytes) /\ Len(bwd) <= RcvCap
    /\ srv \in {"up", "done", "died"}
    /\ shown \in Seq(Bytes) /\ outq \in 0 .. OutCap

Init ==
    /\ to = [k \in Places |-> 0] /\ toiptr = 0 /\ tooptr = 0
    /\ fr = [k \in Places |-> 0] /\ friptr = 0 /\ froptr = 0
    /\ stdineof = FALSE /\ rset = {} /\ wset = {} /\ pc = "select"
    /\ typed = 0 /\ closed = FALSE /\ inpos = 0
    /\ wrshut = FALSE /\ fwd = << >> /\ bwd = << >> /\ srv = "up"
    /\ shown = << >> /\ outq = 0

-----------------------------------------------------------------------------
\* What select() finds ready.  A socket whose server has gone, or that is shut
\* for writing, is ready too: the next call returns at once.
StdinReady == inpos < typed \/ closed
RecvReady == bwd # << >> \/ srv # "up"
SendReady == Len(fwd) < SndCap \/ wrshut \/ srv # "up"
StdoutReady == outq < OutCap

\* Variant: the socket is read only when nothing waits to be sent.
WatchRecvIdle == friptr < MAXLINE /\ tooptr = toiptr

\* Variant: one comparison too generous, as for standard input.
WatchRecvFull == friptr <= MAXLINE

WatchStdin == ~stdineof /\ toiptr <= MAXLINE
WatchRecv == friptr < MAXLINE
WatchSend == tooptr # toiptr
WatchStdout == froptr # friptr

ReadSet == {d \in {"stdin", "sock"} :
              CASE d = "stdin" -> WatchStdin /\ StdinReady
                [] d = "sock"  -> WatchRecv /\ RecvReady}
WriteSet == {d \in {"sock", "stdout"} :
              CASE d = "sock"   -> WatchSend /\ SendReady
                [] d = "stdout" -> WatchStdout /\ StdoutReady}

select ==
    /\ pc = "select"
    /\ ReadSet \cup WriteSet # {}
    /\ rset' = ReadSet /\ wset' = WriteSet
    /\ pc' = "stdin"
    /\ UNCHANGED <<to_vars, fr_vars, stdineof, env, inpos, wrshut, wires>>

\* A part of the loop whose descriptor is not ready, or whose buffer is empty.
skip ==
    /\ \/ pc = "stdin" /\ "stdin" \notin rset /\ pc' = "recv"
       \/ pc = "recv" /\ "sock" \notin rset /\ pc' = "stdout"
       \/ pc = "stdout" /\ pc' = "send"
          /\ ("stdout" \notin wset \/ friptr = froptr)
       \/ pc = "send" /\ pc' = "select"
          /\ ("sock" \notin wset \/ toiptr = tooptr)
    /\ UNCHANGED <<to_vars, fr_vars, stdineof, rset, wset, env, inpos, wrshut,
                   wires>>

-----------------------------------------------------------------------------
\* read(STDIN_FILENO, toiptr, &to[MAXLINE] - toiptr): what is there, up to the
\* room in the buffer.
\* Variants: the size of the buffer instead of the room; one byte kept back.
StdinCountSize == MinOf(MAXLINE, typed - inpos)
StdinCountLess == MinOf(MAXLINE - toiptr - 1, typed - inpos)

StdinCount == MinOf(MAXLINE - toiptr, typed - inpos)

stdin_read ==
    /\ pc = "stdin" /\ "stdin" \in rset
    /\ StdinCount > 0
    /\ to' = [k \in Places |-> IF k \in toiptr .. (toiptr + StdinCount - 1)
                               THEN inpos + 1 + (k - toiptr) ELSE to[k]]
    /\ toiptr' = toiptr + StdinCount
    /\ inpos' = inpos + StdinCount
    /\ wset' = wset \cup {"sock"}
    /\ pc' = "recv"
    /\ UNCHANGED <<tooptr, fr_vars, stdineof, rset, env, wrshut, wires>>

\* read() returns 0: at the end of the input, and also when the buffer is full.
stdin_eof ==
    /\ pc = "stdin" /\ "stdin" \in rset
    /\ StdinCount = 0
    /\ stdineof' = TRUE
    /\ wrshut' = (wrshut \/ tooptr = toiptr)
    /\ pc' = "recv"
    /\ UNCHANGED <<to_vars, fr_vars, rset, wset, env, inpos, wires>>

\* read(sockfd, friptr, &fr[MAXLINE] - friptr).
RecvCount == MinOf(MAXLINE - friptr, Len(bwd))

sock_read ==
    /\ pc = "recv" /\ "sock" \in rset
    /\ RecvCount > 0
    /\ fr' = [k \in Places |-> IF k \in friptr .. (friptr + RecvCount - 1)
                               THEN bwd[1 + (k - friptr)] ELSE fr[k]]
    /\ friptr' = friptr + RecvCount
    /\ bwd' = SubSeq(bwd, RecvCount + 1, Len(bwd))
    /\ wset' = wset \cup {"stdout"}
    /\ pc' = "stdout"
    /\ UNCHANGED <<to_vars, froptr, stdineof, rset, env, inpos, wrshut, fwd,
                   out_vars>>

\* The end of the connection: return, or "server terminated"; a reset by a
\* server that has died is an error either way.
sock_eof ==
    /\ pc = "recv" /\ "sock" \in rset
    /\ RecvCount = 0
    /\ \/ pc' = IF stdineof THEN "return" ELSE "err_quit"
       \/ srv = "died" /\ pc' = "err_quit"
    /\ UNCHANGED <<to_vars, fr_vars, stdineof, rset, wset, env, inpos, wrshut,
                   wires>>

\* A buffer after n of its bytes were written: emptied, it starts over.
\* Variant: it starts over after every write.
AfterAll(iptr, optr, n) == <<0, 0>>

After(iptr, optr, n) ==
    IF optr + n = iptr THEN <<0, 0>> ELSE <<iptr, optr + n>>

Held(buf, iptr, optr) == [k \in 1 .. (iptr - optr) |-> buf[optr + k - 1]]

\* write(STDOUT_FILENO, froptr, n): as much as there is room for; none at all
\* is EWOULDBLOCK, possible because sock_read sets the bit without select().
stdout_write ==
    /\ pc = "stdout" /\ "stdout" \in wset /\ friptr > froptr
    /\ LET n == MinOf(friptr - froptr, OutCap - outq)
           a == After(friptr, froptr, n)
       IN  /\ shown' = shown \o SubSeq(Held(fr, friptr, froptr), 1, n)
           /\ outq' = outq + n
           /\ friptr' = a[1] /\ froptr' = a[2]
    /\ pc' = "send"
    /\ UNCHANGED <<to_vars, fr, stdineof, rset, wset, env, inpos, wrshut, fwd,
                   bwd>>

\* write(sockfd, tooptr, n): after the end of the input every write, also a
\* partial one, is followed by shutdown().
Shuts(n) == n > 0 /\ stdineof

sock_write ==
    /\ pc = "send" /\ "sock" \in wset /\ toiptr > tooptr
    /\ ~wrshut
    /\ LET n == IF srv = "up" THEN MinOf(toiptr - tooptr, SndCap - Len(fwd))
                ELSE toiptr - tooptr
           a == After(toiptr, tooptr, n)
       IN  /\ fwd' = IF srv = "up"
                     THEN fwd \o SubSeq(Held(to, toiptr, tooptr), 1, n)
                     ELSE fwd
           /\ toiptr' = a[1] /\ tooptr' = a[2]
           /\ wrshut' = (wrshut \/ Shuts(n))
    /\ pc' = "select"
    /\ UNCHANGED <<to, fr_vars, stdineof, rset, wset, env, inpos, bwd,
                   out_vars>>

\* A write after shutdown(), or to a server that has answered with a reset; the
\* reset itself, if nobody has read it yet, is an error: err_sys.
sock_write_fails ==
    /\ pc = "send" /\ "sock" \in wset /\ toiptr > tooptr
    /\ \/ (wrshut \/ srv = "died") /\ pc' = "SIGPIPE"
       \/ srv = "died" /\ pc' = "err_quit"
    /\ UNCHANGED <<to_vars, fr_vars, stdineof, rset, wset, env, inpos, wrshut,
                   wires>>

-----------------------------------------------------------------------------
\* The surroundings.
Running == pc \notin Ended

type ==
    /\ Running /\ typed < NBytes
    /\ typed' = typed + 1
    /\ UNCHANGED <<client, closed, wires, srv>>

end_of_input ==
    /\ Running /\ typed = NBytes /\ ~closed
    /\ closed' = TRUE
    /\ UNCHANGED <<client, typed, wires, srv>>

echo ==
    /\ Running /\ srv = "up"
    /\ fwd # << >> /\ Len(bwd) < RcvCap
    /\ fwd' = Tail(fwd) /\ bwd' = Append(bwd, Head(fwd))
    /\ UNCHANGED <<client, env, out_vars>>

echo_end ==
    /\ Running /\ srv = "up" /\ wrshut /\ fwd = << >>
    /\ srv' = "done"
    /\ UNCHANGED <<client, typed, closed, wires>>

echo_dies ==
    /\ Running /\ srv = "up"
    /\ srv' = "died" /\ fwd' = << >>
    /\ UNCHANGED <<client, typed, closed, bwd, out_vars>>

take ==
    /\ Running /\ outq > 0
    /\ outq' = outq - 1
    /\ UNCHANGED <<client, env, fwd, bwd, shown>>

-----------------------------------------------------------------------------
str_cli ==
    \/ select \/ skip
    \/ stdin_read \/ stdin_eof
    \/ sock_read \/ sock_eof
    \/ stdout_write
    \/ sock_write \/ sock_write_fails

Typist == type \/ end_of_input
Server == echo \/ echo_end
Next == str_cli \/ Typist \/ Server \/ echo_dies \/ take

\* The client runs, the input ends, the server echoes and the output is read.
Fairness ==
    /\ WF_vars(str_cli)
    /\ WF_vars(Typist)
    /\ WF_vars(Server)
    /\ WF_vars(take)

Spec == Init /\ [][Next]_vars
FairSpec == Spec /\ Fairness

-----------------------------------------------------------------------------
\* Properties.

UpTo(n) == [k \in 1 .. n |-> k]

\* The two pointers of each buffer delimit exactly the bytes that are still to
\* be passed on: what was read is at every moment, in order and each byte once,
\* in the output, in a buffer or on the way.  If the server dies, what it had
\* not echoed is missing and the rest is still in order.
InOrder ==
    LET back == shown \o Held(fr, friptr, froptr) \o bwd
        out == back \o fwd \o Held(to, toiptr, tooptr)
    IN  IF srv # "died" THEN out = UpTo(inpos)
        ELSE Len(back) <= inpos /\ back = UpTo(Len(back))

\* The end of the input is announced wrongly only after a full buffer
\* (strclinonb.c:39 has <= where < was meant), so an input shorter than
\* MAXLINE bytes is always read to its end.
ShortInputRead == stdineof => inpos = NBytes \/ inpos >= MAXLINE

\* When str_cli() returns, everything it has read was echoed, and only the
\* bytes it forgets in "fr" (line 75) are missing from the output, unless the
\* server died.  Bytes kept in "to" by the shutdown after a partial write
\* (line 107) never end in a quiet return: the next write is a SIGPIPE.
ReturnComplete ==
    pc = "return" /\ srv # "died" =>
        /\ tooptr = toiptr
        /\ shown \o Held(fr, friptr, froptr) = UpTo(inpos)

\* With both directions full, client and server cannot wait for each other for
\* ever, which is what the non-blocking client is for; the loop always ends.
Terminates == <>(pc \in Ended)

=============================================================================
