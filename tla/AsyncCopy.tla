----------------------------- MODULE AsyncCopy ------------------------------
(***************************************************************************)
(* The copy program asyncio.c: up to NBUF blocks are in flight at a time,  *)
(* each in a buffer that is read into, enciphered and written out with     *)
(* POSIX asynchronous I/O.  The main loop looks at the buffers one after   *)
(* the other while the kernel completes requests in any order, possibly    *)
(* with an error, and while another program may truncate or extend the     *)
(* input file.                                                             *)
(***************************************************************************)
EXTENDS Integers, Sequences, FiniteSets

CONSTANTS
    Input,      \* what the input file holds, as far as it may ever reach
    Size,       \* sbuf.st_size
    BSZ,        \* 4096 in the code
    NBUF        \* 8 in the code

Byte == 0 .. 255

ASSUME InputAssumption == Input \in Seq(Byte) /\ Size \in 0 .. Len(Input)
ASSUME SizesAssumption == BSZ \in Nat \ {0} /\ NBUF \in Nat \ {0}

VARIABLES
    op, last,           \* bufs[i].op, bufs[i].last
    aio_offset, aio_nbytes, data,   \* bufs[i].aiocb and bufs[i].data
    aio,                \* aio[i]: what aio_error() says of buffer i
    aiolist, numop, off,
    pc, i,
    ilen,               \* the present length of the input file
    out                 \* the output file; -1 is a byte never written

bufs == <<op, last, aio_offset, aio_nbytes, data>>
loop == <<aiolist, numop, off>>
vars == <<bufs, aio, loop, pc, i, ilen, out>>

Bufs == 0 .. (NBUF - 1)
Ended == {"exit", "failed"}

TypeOK ==
    /\ op \in [Bufs -> {"UNUSED", "READ_PENDING", "WRITE_PENDING"}]
    /\ last \in [Bufs -> BOOLEAN]
    /\ aio_offset \in [Bufs -> 0 .. Size] /\ aio_nbytes \in [Bufs -> 0 .. BSZ]
    /\ data \in [Bufs -> Seq(Byte)]
    /\ \A b \in Bufs : Len(data[b]) <= BSZ
    /\ aio \in [Bufs -> {"none", "EINPROGRESS", "done", "error"}]
    /\ aiolist \subseteq Bufs /\ numop \in 0 .. NBUF
    /\ off \in 0 .. (Size + BSZ)
    /\ pc \in {"scan", "suspend"} \cup Ended /\ i \in 0 .. NBUF
    /\ ilen \in 0 .. Len(Input)
    /\ out \in [1 .. Len(Input) -> Byte \cup {-1}]

Init ==
    /\ op = [b \in Bufs |-> "UNUSED"] /\ last = [b \in Bufs |-> FALSE]
    /\ aio_offset = [b \in Bufs |-> 0] /\ aio_nbytes = [b \in Bufs |-> 0]
    /\ data = [b \in Bufs |-> << >>]
    /\ aio = [b \in Bufs |-> "none"]
    /\ aiolist = {} /\ numop = 0 /\ off = 0
    /\ pc = "scan" /\ i = 0
    /\ ilen = Size
    /\ out = [p \in 1 .. Len(Input) |-> -1]

-----------------------------------------------------------------------------
\* translate(): c is a byte, isalpha() that of the C locale.
isalpha(c) == c \in 65 .. 90 \/ c \in 97 .. 122

translate(c) ==
    IF ~isalpha(c) THEN c
    ELSE IF c >= 110 THEN c - 13    \* 'n'
    ELSE IF c >= 97 THEN c + 13     \* 'a'
    ELSE IF c >= 78 THEN c - 13     \* 'N'
    ELSE c + 13

At == pc = "scan" /\ i \in Bufs

\* UNUSED, and more of the input remains.
\* Variant: a request that is not entered in aiolist.
ListedNot(b) == aiolist

Listed(b) == aiolist \cup {b}

\* Variant: one byte less than a block.
NextOffLess == off + BSZ - 1

NextOff == off + BSZ

aio_read ==
    /\ At /\ op[i] = "UNUSED" /\ off < Size
    /\ op' = [op EXCEPT ![i] = "READ_PENDING"]
    /\ aio_offset' = [aio_offset EXCEPT ![i] = off]
    /\ off' = NextOff
    /\ last' = [last EXCEPT ![i] = @ \/ NextOff >= Size]
    /\ aio_nbytes' = [aio_nbytes EXCEPT ![i] = BSZ]
    /\ aio' = [aio EXCEPT ![i] = "EINPROGRESS"]
    /\ aiolist' = Listed(i) /\ numop' = numop + 1
    /\ i' = i + 1
    /\ UNCHANGED <<data, pc, ilen, out>>

\* UNUSED and nothing left, or the request is still in progress.
skip ==
    /\ At
    /\ \/ op[i] = "UNUSED" /\ off >= Size
       \/ op[i] # "UNUSED" /\ aio[i] = "EINPROGRESS"
    /\ i' = i + 1
    /\ UNCHANGED <<bufs, aio, loop, pc, ilen, out>>

\* Variant: no buffer is ever short.
ShortNever(b) == FALSE

\* A read has ended: n bytes were read.
Short(b) == Len(data[b]) # BSZ /\ ~last[b]

aio_write ==
    /\ At /\ op[i] = "READ_PENDING" /\ aio[i] = "done"
    /\ ~Short(i)
    /\ data' = [data EXCEPT ![i] = [j \in DOMAIN @ |-> translate(@[j])]]
    /\ op' = [op EXCEPT ![i] = "WRITE_PENDING"]
    /\ aio_nbytes' = [aio_nbytes EXCEPT ![i] = Len(data[i])]
    /\ aio' = [aio EXCEPT ![i] = "EINPROGRESS"]
    /\ i' = i + 1
    /\ UNCHANGED <<last, aio_offset, loop, pc, ilen, out>>

\* A write has ended.
write_done ==
    /\ At /\ op[i] = "WRITE_PENDING" /\ aio[i] = "done"
    /\ op' = [op EXCEPT ![i] = "UNUSED"]
    /\ aio' = [aio EXCEPT ![i] = "none"]
    /\ aiolist' = aiolist \ {i} /\ numop' = numop - 1
    /\ i' = i + 1
    /\ UNCHANGED <<last, aio_offset, aio_nbytes, data, off, pc, ilen, out>>

\* err_sys, err_exit, err_quit: an error, a short write or a short read.
quit ==
    /\ At /\ op[i] # "UNUSED"
    /\ \/ aio[i] = "error"
       \/ aio[i] = "done" /\ op[i] = "READ_PENDING" /\ Short(i)
    /\ pc' = "failed"
    /\ UNCHANGED <<bufs, aio, loop, i, ilen, out>>

\* After the last buffer: wait, begin again at once, or leave the loop, in which
\* case aio_fsync() still may fail.
scan_end ==
    /\ pc = "scan" /\ i = NBUF
    /\ \/ numop # 0 /\ pc' = "suspend"
       \/ numop = 0 /\ off < Size /\ pc' = "scan"
       \/ numop = 0 /\ off >= Size /\ pc' \in Ended
    /\ i' = 0
    /\ UNCHANGED <<bufs, aio, loop, ilen, out>>

aio_suspend ==
    /\ pc = "suspend"
    /\ \E b \in aiolist : aio[b] # "EINPROGRESS"
    /\ pc' = "scan"
    /\ UNCHANGED <<bufs, aio, loop, i, ilen, out>>

-----------------------------------------------------------------------------
\* The kernel completes a request, or fails it (a short write, and a request
\* that aio_read() or aio_write() refuses, included).
Running == pc \notin Ended

ReadCompletes(b) ==
    /\ Running /\ op[b] = "READ_PENDING" /\ aio[b] = "EINPROGRESS"
    /\ LET end == IF ilen < aio_offset[b] + BSZ THEN ilen
                  ELSE aio_offset[b] + BSZ
       IN  data' = [data EXCEPT ![b] = SubSeq(Input, aio_offset[b] + 1, end)]
    /\ aio' = [aio EXCEPT ![b] = "done"]
    /\ UNCHANGED <<op, last, aio_offset, aio_nbytes, loop, pc, i, ilen, out>>

WriteCompletes(b) ==
    /\ Running /\ op[b] = "WRITE_PENDING" /\ aio[b] = "EINPROGRESS"
    /\ out' = [p \in DOMAIN out |->
                 IF p - aio_offset[b] \in 1 .. aio_nbytes[b]
                 THEN data[b][p - aio_offset[b]] ELSE out[p]]
    /\ aio' = [aio EXCEPT ![b] = "done"]
    /\ UNCHANGED <<bufs, loop, pc, i, ilen>>

Fails(b) ==
    /\ Running /\ aio[b] = "EINPROGRESS"
    /\ aio' = [aio EXCEPT ![b] = "error"]
    /\ UNCHANGED <<bufs, loop, pc, i, ilen, out>>

\* Another program truncates or extends the input file.
Resize ==
    /\ Running
    /\ ilen' \in 0 .. Len(Input)
    /\ UNCHANGED <<bufs, aio, loop, pc, i, out>>

Main ==
    \/ aio_read \/ skip \/ aio_write \/ write_done \/ quit
    \/ scan_end \/ aio_suspend

Next ==
    \/ Main
    \/ \E b \in Bufs : ReadCompletes(b) \/ WriteCompletes(b) \/ Fails(b)
    \/ Resize

\* The program runs and every request is completed in the end.
Fairness ==
    /\ WF_vars(Main)
    /\ \A b \in Bufs : WF_vars(ReadCompletes(b) \/ WriteCompletes(b))

Spec == Init /\ [][Next]_vars
FairSpec == Spec /\ Fairness

-----------------------------------------------------------------------------
\* Properties.

\* numop and aiolist describe the requests in flight: with too low a count the
\* loop would leave with blocks unwritten, with a missing entry aio_suspend()
\* would sleep through a completion.
InFlight == {b \in Bufs : op[b] # "UNUSED"}

NumopTrue ==
    /\ numop = Cardinality(InFlight)
    /\ aiolist = InFlight
    /\ \A b \in Bufs : (aio[b] = "none") <=> (op[b] = "UNUSED")

\* No two buffers hold the same block, none holds a block that was not yet
\* taken, and only the buffer with the last block may be short.
OneBufferEach ==
    /\ \A b, c \in InFlight : b # c => aio_offset[b] # aio_offset[c]
    /\ \A b \in InFlight : /\ aio_offset[b] < off /\ aio_offset[b] % BSZ = 0
                           /\ last[b] <=> aio_offset[b] + BSZ >= Size

\* The program implements FileCopy: every block reaches the output once, at
\* its own offset and enciphered as the reference says, whatever the order of
\* completions; success is reported only after all of them; and the program
\* ends.
Blocks == {b \in 0 .. (Size - 1) : b % BSZ = 0}

Unwritten(k) ==
    \E b \in InFlight : /\ aio_offset[b] = k
                        /\ op[b] = "READ_PENDING" \/ aio[b] # "done"

copied == {k \in Blocks : k < off /\ ~Unwritten(k)}
status == IF pc \in Ended THEN pc ELSE "running"

FC == INSTANCE FileCopy WITH done <- copied

Copies == FC!Spec

=============================================================================
