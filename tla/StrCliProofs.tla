---------------------------- MODULE StrCliProofs ----------------------------
(***************************************************************************)
(* Proofs about StrCli for buffers, channels and inputs of any size: every *)
(* byte that was read is in the output, in a buffer or on the way, once    *)
(* and in order; an input shorter than the buffer is read to its end; and  *)
(* str_cli() returns only when everything it has read was echoed.          *)
(***************************************************************************)
EXTENDS StrCli, SequenceTheorems, TLAPS

\* Type correctness in three parts, so that each prover gets what it is good at.
TypeCtl ==
    /\ stdineof \in BOOLEAN /\ closed \in BOOLEAN /\ wrshut \in BOOLEAN
    /\ rset \subseteq {"stdin", "sock"} /\ wset \subseteq {"sock", "stdout"}
    /\ pc \in {"select", "stdin", "recv", "stdout", "send"} \cup Ended
    /\ srv \in {"up", "done", "died"}

TypePtr ==
    /\ toiptr \in 0 .. MAXLINE /\ tooptr \in 0 .. MAXLINE /\ tooptr <= toiptr
    /\ friptr \in 0 .. MAXLINE /\ froptr \in 0 .. MAXLINE /\ froptr <= friptr
    /\ typed \in 0 .. NBytes /\ inpos \in 0 .. typed /\ outq \in 0 .. OutCap

TypeSeq ==
    /\ to \in [Places -> Bytes] /\ fr \in [Places -> Bytes]
    /\ fwd \in Seq(Bytes) /\ Len(fwd) <= SndCap
    /\ bwd \in Seq(Bytes) /\ Len(bwd) <= RcvCap
    /\ shown \in Seq(Bytes)

\* Bytes that are past the server: in the output, in "fr" and on the way to it.
Back == Len(shown) + (friptr - froptr) + Len(bwd)

\* Which byte each place holds.
BackOK ==
    /\ \A k \in 1 .. Len(shown) : shown[k] = k
    /\ \A k \in froptr .. (friptr - 1) : fr[k] = Len(shown) + 1 + (k - froptr)
    /\ \A k \in 1 .. Len(bwd) : bwd[k] = Len(shown) + (friptr - froptr) + k

AheadOK ==
    /\ \A k \in 1 .. Len(fwd) : fwd[k] = Back + k
    /\ \A k \in tooptr .. (toiptr - 1) : to[k] = Back + Len(fwd) + 1 + (k - tooptr)
    /\ inpos = Back + Len(fwd) + (toiptr - tooptr)

FlowOK ==
    /\ BackOK
    /\ srv # "died" => AheadOK
    /\ srv = "died" => Back <= inpos

\* How far the input has come.  The buffer is never fuller than the input read.
InputOK ==
    /\ toiptr <= inpos /\ (closed => typed = NBytes)
    /\ ShortInputRead
    /\ pc = "stdin" /\ "stdin" \in rset => ~stdineof /\ (inpos < typed \/ closed)

\* What select() has said of the socket still holds when it is read.
RecvOK ==
    pc \in {"stdin", "recv"} /\ "sock" \in rset =>
        friptr < MAXLINE /\ (bwd # << >> \/ srv # "up")

\* The socket is shut only after the end of the input.  Bytes left in "to" at
\* that time are followed by an echo that was not read yet, and the loop gets
\* to the write that fails before it can see the end of the connection.
ShutOK ==
    /\ wrshut => stdineof
    /\ srv = "done" => wrshut /\ fwd = << >>
    /\ wrshut /\ tooptr # toiptr /\ srv # "died" =>
          /\ pc \in {"select", "stdin", "recv"} => fwd # << >> \/ bwd # << >>
          /\ pc \in {"stdin", "recv", "stdout", "send"} => "sock" \in wset
    /\ pc = "return" /\ srv # "died" => bwd = << >> /\ fwd = << >> /\ tooptr = toiptr

\* The inductive invariant.
IInv == TypeCtl /\ TypePtr /\ TypeSeq /\ FlowOK /\ InputOK /\ RecvOK /\ ShutOK

-----------------------------------------------------------------------------
\* Facts about the operators.

USE SizeAssumption, CapAssumption

LEMMA TypeParts ==
    /\ TypeCtl /\ TypePtr /\ TypeSeq => TypeOK
    /\ SndCap \in Nat \ {0} /\ RcvCap \in Nat \ {0} /\ OutCap \in Nat \ {0}
BY DEF TypeOK, TypeCtl, TypePtr, TypeSeq

LEMMA Joined ==
    ASSUME NEW S, NEW s \in Seq(S), NEW t \in Seq(S), NEW w, w = s \o t
    PROVE  /\ w \in Seq(S) /\ Len(w) = Len(s) + Len(t)
           /\ Len(s) \in Nat /\ Len(t) \in Nat
           /\ \A k \in 1 .. Len(s) : w[k] = s[k]
           /\ \A k \in 1 .. Len(t) : w[Len(s) + k] = t[k]
<1>1. /\ w \in Seq(S) /\ Len(w) = Len(s) + Len(t)
      /\ \A i \in 1 .. Len(s) + Len(t) : w[i] = IF i <= Len(s) THEN s[i] ELSE t[i - Len(s)]
  BY ConcatProperties
<1>2. Len(s) \in Nat /\ Len(t) \in Nat
  BY LenProperties
<1>3. \A k \in 1 .. Len(s) : w[k] = s[k]
  BY <1>1, <1>2
<1>4. ASSUME NEW k \in 1 .. Len(t) PROVE w[Len(s) + k] = t[k]
  <2>1. Len(s) + k \in 1 .. Len(s) + Len(t) /\ ~(Len(s) + k <= Len(s)) /\ Len(s) + k - Len(s) = k
    BY <1>2
  <2>2. QED
    BY <1>1, <2>1
<1>5. QED
  BY <1>1, <1>2, <1>3, <1>4

LEMMA HeldSeq ==
    ASSUME NEW buf \in [Places -> Bytes], NEW i \in 0 .. MAXLINE, NEW o \in 0 .. MAXLINE, o <= i
    PROVE  /\ Held(buf, i, o) \in Seq(Bytes) /\ Len(Held(buf, i, o)) = i - o
           /\ \A k \in 1 .. (i - o) : Held(buf, i, o)[k] = buf[o + k - 1]
<1>1. \A k \in 1 .. (i - o) : o + k - 1 \in Places
  BY DEF Places
<1>2. \A k \in 1 .. (i - o) : buf[o + k - 1] \in Bytes
  BY <1>1
<1>3. QED
  BY <1>2 DEF Held

\* What write() appends: the first n bytes of what a buffer holds.
LEMMA Passed ==
    ASSUME NEW S, NEW s \in Seq(S), NEW h \in Seq(S), NEW n \in 0 .. Len(h),
           NEW q, q = SubSeq(h, 1, n), NEW w, w = s \o q
    PROVE  /\ w \in Seq(S) /\ Len(w) = Len(s) + n
           /\ \A k \in 1 .. Len(s) : w[k] = s[k]
           /\ \A k \in 1 .. n : w[Len(s) + k] = h[k]
<1>1. q \in Seq(S) /\ Len(q) = n /\ \A k \in 1 .. n : q[k] = h[k]
  BY SubSeqProperties
<1>2. /\ w \in Seq(S) /\ Len(w) = Len(s) + Len(q)
      /\ \A k \in 1 .. Len(s) : w[k] = s[k]
      /\ \A k \in 1 .. Len(q) : w[Len(s) + k] = q[k]
  BY <1>1, Joined
<1>3. QED
  BY <1>1, <1>2

\* The pointers after a write.
LEMMA AfterFacts ==
    ASSUME NEW i \in 0 .. MAXLINE, NEW o \in 0 .. MAXLINE, o <= i, NEW n \in 0 .. (i - o)
    PROVE  LET a == After(i, o, n) IN
           /\ a[1] \in 0 .. MAXLINE /\ a[2] \in 0 .. MAXLINE /\ a[2] <= a[1] /\ a[1] <= i
           /\ a[1] - a[2] = i - o - n
           /\ a[1] # a[2] => a[1] = i /\ a[2] = o + n
BY DEF After

\* One more piece of a row of consecutive bytes.
LEMMA RowGrows ==
    ASSUME NEW n \in Nat, NEW s \in Seq(Nat), NEW t \in Seq(Nat), s = UpTo(n),
           \A k \in 1 .. Len(t) : t[k] = n + k
    PROVE  s \o t = UpTo(n + Len(t)) /\ s \o t \in Seq(Nat)
<1> DEFINE w == s \o t
           u == UpTo(n + Len(t))
<1>1. Len(s) = n /\ \A k \in 1 .. n : s[k] = k
  BY DEF UpTo
<1>2. /\ w \in Seq(Nat) /\ Len(w) = n + Len(t) /\ Len(t) \in Nat
      /\ \A k \in 1 .. n : w[k] = k
      /\ \A k \in 1 .. Len(t) : w[n + k] = n + k
  BY <1>1, Joined, SMTT(30)
<1>3. u \in Seq(Nat) /\ Len(u) = n + Len(t) /\ \A k \in 1 .. (n + Len(t)) : u[k] = k
  BY <1>2 DEF UpTo
<1> HIDE DEF w, u
<1>4. \A k \in 1 .. (n + Len(t)) : w[k] = k
  <2>1. ASSUME NEW k \in 1 .. (n + Len(t)) PROVE w[k] = k
    <3>1. CASE k <= n
      BY <1>2, <3>1
    <3>2. CASE ~(k <= n)
      <4>1. PICK m \in 1 .. Len(t) : k = n + m
        <5>1. k - n \in 1 .. Len(t) /\ k = n + (k - n)
          BY <1>2, <3>2
        <5>2. QED
          BY <5>1
      <4>2. QED
        BY <1>2, <4>1
    <3>3. QED
      BY <3>1, <3>2
  <2>2. QED
    BY <2>1
<1>5. w = u
  BY <1>2, <1>3, <1>4, SeqEqual
<1>6. QED
  BY <1>2, <1>5 DEF w, u

-----------------------------------------------------------------------------
\* The initial state.

LEMMA IInvInit == Init => IInv
<1> SUFFICES ASSUME Init PROVE IInv
  OBVIOUS
<1> USE DEF Init
<1>1. TypeCtl
  BY Zenon DEF TypeCtl
<1>2. TypePtr
  BY TypeParts DEF TypePtr
<1>3. TypeSeq
  <2>1. << >> \in Seq(Bytes) /\ Len(<< >>) = 0
    BY EmptySeq
  <2>2. 0 \in Bytes
    BY DEF Bytes
  <2>3. QED
    BY <2>1, <2>2, TypeParts DEF TypeSeq
<1>4. FlowOK
  BY DEF FlowOK, BackOK, AheadOK, Back
<1>5. InputOK /\ RecvOK /\ ShutOK
  BY DEF InputOK, RecvOK, ShutOK, ShortInputRead
<1>6. QED
  BY <1>1, <1>2, <1>3, <1>4, <1>5 DEF IInv

-----------------------------------------------------------------------------
\* Steps that move no byte.

LEMMA FlowSame ==
    ASSUME FlowOK, UNCHANGED <<to_vars, fr_vars, inpos, fwd, bwd, shown>>,
           (srv' = "died") <=> (srv = "died")
    PROVE  FlowOK'
BY DEF FlowOK, BackOK, AheadOK, Back, to_vars, fr_vars

LEMMA SelectKeeps == IInv /\ select => IInv'
<1> SUFFICES ASSUME IInv, select PROVE IInv'
  OBVIOUS
<1> USE DEF select, to_vars, fr_vars, wires, out_vars, env
<1>1. TypeCtl' /\ TypePtr' /\ TypeSeq'
  <2>1. ReadSet \subseteq {"stdin", "sock"} /\ WriteSet \subseteq {"sock", "stdout"}
    BY DEF ReadSet, WriteSet
  <2>2. TypeCtl'
    BY <2>1 DEF IInv, TypeCtl
  <2>3. TypePtr' /\ TypeSeq'
    BY DEF IInv, TypePtr, TypeSeq
  <2>4. QED
    BY <2>2, <2>3
<1>2. FlowOK'
  BY FlowSame DEF IInv
<1>3. InputOK'
  <2>1. "stdin" \in ReadSet => ~stdineof /\ (inpos < typed \/ closed)
    BY DEF ReadSet, WatchStdin, StdinReady
  <2>2. QED
    BY <2>1 DEF IInv, InputOK, ShortInputRead
<1>4. RecvOK'
  <2>1. "sock" \in ReadSet => friptr < MAXLINE /\ (bwd # << >> \/ srv # "up")
    BY DEF ReadSet, WatchRecv, RecvReady
  <2>2. QED
    BY <2>1 DEF RecvOK
<1>5. ShutOK'
  <2>1. wrshut /\ tooptr # toiptr => "sock" \in WriteSet
    BY DEF WriteSet, WatchSend, SendReady
  <2>2. QED
    BY <2>1 DEF IInv, ShutOK
<1>6. QED
  BY <1>1, <1>2, <1>3, <1>4, <1>5 DEF IInv

LEMMA SkipKeeps == IInv /\ skip => IInv'
<1> SUFFICES ASSUME IInv, skip PROVE IInv'
  OBVIOUS
<1> USE DEF to_vars, fr_vars, wires, out_vars, env
<1>0. /\ UNCHANGED <<to_vars, fr_vars, stdineof, rset, wset, env, inpos, wrshut, wires>>
      /\ \/ pc = "stdin" /\ "stdin" \notin rset /\ pc' = "recv"
         \/ pc = "recv" /\ "sock" \notin rset /\ pc' = "stdout"
         \/ pc = "stdout" /\ pc' = "send"
         \/ pc = "send" /\ pc' = "select" /\ ("sock" \notin wset \/ toiptr = tooptr)
  BY DEF skip
<1>1. TypeCtl'
  BY <1>0 DEF IInv, TypeCtl
<1>2. TypePtr' /\ TypeSeq'
  BY <1>0 DEF IInv, TypePtr, TypeSeq
<1>3. FlowOK'
  BY <1>0, FlowSame DEF IInv
<1>4. InputOK'
  BY <1>0 DEF IInv, InputOK, ShortInputRead
<1>5. RecvOK'
  BY <1>0 DEF IInv, RecvOK
<1>6. ShutOK'
  BY <1>0 DEF IInv, ShutOK
<1>7. QED
  BY <1>1, <1>2, <1>3, <1>4, <1>5, <1>6 DEF IInv

LEMMA StdinEofKeeps == IInv /\ stdin_eof => IInv'
<1> SUFFICES ASSUME IInv, stdin_eof PROVE IInv'
  OBVIOUS
<1> USE DEF to_vars, fr_vars, wires, out_vars, env
<1>0. /\ pc = "stdin" /\ "stdin" \in rset /\ StdinCount = 0 /\ stdineof' = TRUE
      /\ wrshut' = (wrshut \/ tooptr = toiptr) /\ pc' = "recv"
      /\ UNCHANGED <<to_vars, fr_vars, rset, wset, env, inpos, wires>>
  BY DEF stdin_eof
<1>1. TypeCtl'
  <2>1. stdineof' \in BOOLEAN /\ wrshut' \in BOOLEAN
    BY <1>0, Zenon
  <2>2. QED
    BY <1>0, <2>1 DEF IInv, TypeCtl
<1>2. TypePtr' /\ TypeSeq'
  BY <1>0 DEF IInv, TypePtr, TypeSeq
<1>3. FlowOK'
  BY <1>0, FlowSame DEF IInv
<1>4. inpos = NBytes \/ inpos >= MAXLINE
  <2>1. /\ toiptr \in Int /\ typed \in Int /\ inpos \in Int /\ toiptr <= inpos
        /\ inpos < typed \/ typed = NBytes
    BY <1>0 DEF IInv, TypePtr, InputOK
  <2>2. MAXLINE - toiptr = 0 \/ typed - inpos = 0
    BY <1>0, <2>1 DEF StdinCount, MinOf
  <2>3. QED
    BY <2>1, <2>2
<1>5. InputOK'
  BY <1>0, <1>4 DEF IInv, InputOK, ShortInputRead
<1>6. RecvOK'
  BY <1>0 DEF IInv, RecvOK
<1>7. ShutOK'
  BY <1>0 DEF IInv, ShutOK
<1>8. QED
  BY <1>1, <1>2, <1>3, <1>5, <1>6, <1>7 DEF IInv

LEMMA SockEofKeeps == IInv /\ sock_eof => IInv'
<1> SUFFICES ASSUME IInv, sock_eof PROVE IInv'
  OBVIOUS
<1> USE DEF to_vars, fr_vars, wires, out_vars, env
<1>0. /\ pc = "recv" /\ "sock" \in rset /\ RecvCount = 0
      /\ pc' \in {"return", "err_quit"}
      /\ UNCHANGED <<to_vars, fr_vars, stdineof, rset, wset, env, inpos, wrshut, wires>>
  BY DEF sock_eof
<1>1. TypeCtl'
  BY <1>0 DEF IInv, TypeCtl, Ended
<1>2. TypePtr' /\ TypeSeq'
  BY <1>0 DEF IInv, TypePtr, TypeSeq
<1>3. FlowOK'
  BY <1>0, FlowSame DEF IInv
<1>4. InputOK' /\ RecvOK'
  BY <1>0 DEF IInv, InputOK, ShortInputRead, RecvOK
<1>5. bwd = << >> /\ srv # "up"
  <2>1. friptr < MAXLINE /\ (bwd # << >> \/ srv # "up") /\ friptr \in Int
    BY <1>0 DEF IInv, RecvOK, TypePtr
  <2>2. bwd \in Seq(Bytes) /\ Len(bwd) \in Int
    BY DEF IInv, TypeSeq
  <2>3. Len(bwd) = 0
    BY <1>0, <2>1, <2>2 DEF RecvCount, MinOf
  <2>4. bwd = << >>
    BY <2>2, <2>3, EmptySeq
  <2>5. QED
    BY <2>1, <2>4
<1>6. ShutOK'
  <2>1. srv # "died" => fwd = << >> /\ tooptr = toiptr
    BY <1>0, <1>5 DEF IInv, ShutOK, TypeCtl
  <2>2. QED
    BY <1>0, <1>5, <2>1 DEF IInv, ShutOK
<1>7. QED
  BY <1>1, <1>2, <1>3, <1>4, <1>6 DEF IInv

LEMMA WriteFailsKeeps == IInv /\ sock_write_fails => IInv'
<1> SUFFICES ASSUME IInv, sock_write_fails PROVE IInv'
  OBVIOUS
<1> USE DEF to_vars, fr_vars, wires, out_vars, env
<1>0. /\ pc' \in {"SIGPIPE", "err_quit"}
      /\ UNCHANGED <<to_vars, fr_vars, stdineof, rset, wset, env, inpos, wrshut, wires>>
  BY DEF sock_write_fails
<1>1. TypeCtl'
  BY <1>0 DEF IInv, TypeCtl, Ended
<1>2. TypePtr' /\ TypeSeq'
  BY <1>0 DEF IInv, TypePtr, TypeSeq
<1>3. FlowOK'
  BY <1>0, FlowSame DEF IInv
<1>4. InputOK' /\ RecvOK' /\ ShutOK'
  BY <1>0 DEF IInv, InputOK, ShortInputRead, RecvOK, ShutOK
<1>5. QED
  BY <1>1, <1>2, <1>3, <1>4 DEF IInv

-----------------------------------------------------------------------------
\* Steps of the surroundings.

LEMMA TypistKeeps == IInv /\ Typist => IInv'
<1> SUFFICES ASSUME IInv, Typist PROVE IInv'
  OBVIOUS
<1> USE DEF to_vars, fr_vars, loop, client, wires, out_vars, env
<1>0. /\ UNCHANGED <<client, wires, srv>>
      /\ \/ typed < NBytes /\ typed' = typed + 1 /\ closed' = closed
         \/ typed = NBytes /\ closed' = TRUE /\ typed' = typed
  BY DEF Typist, type, end_of_input
<1>1. TypeCtl'
  <2>1. closed' \in BOOLEAN
    BY <1>0 DEF IInv, TypeCtl
  <2>2. QED
    BY <1>0, <2>1 DEF IInv, TypeCtl
<1>2. TypePtr'
  BY <1>0 DEF IInv, TypePtr
<1>3. TypeSeq'
  BY <1>0 DEF IInv, TypeSeq
<1>4. FlowOK'
  BY <1>0, FlowSame DEF IInv
<1>5. InputOK'
  BY <1>0 DEF IInv, InputOK, ShortInputRead, TypePtr
<1>6. RecvOK' /\ ShutOK'
  BY <1>0 DEF IInv, RecvOK, ShutOK
<1>7. QED
  BY <1>1, <1>2, <1>3, <1>4, <1>5, <1>6 DEF IInv

LEMMA TakeKeeps == IInv /\ take => IInv'
<1> SUFFICES ASSUME IInv, take PROVE IInv'
  OBVIOUS
<1> USE DEF to_vars, fr_vars, loop, client, wires, out_vars, env
<1>0. outq > 0 /\ outq' = outq - 1 /\ UNCHANGED <<client, env, fwd, bwd, shown>>
  BY DEF take
<1>1. TypeCtl' /\ TypeSeq'
  BY <1>0 DEF IInv, TypeCtl, TypeSeq
<1>2. TypePtr'
  BY <1>0, TypeParts DEF IInv, TypePtr
<1>3. FlowOK'
  BY <1>0, FlowSame DEF IInv
<1>4. InputOK' /\ RecvOK' /\ ShutOK'
  BY <1>0 DEF IInv, InputOK, ShortInputRead, RecvOK, ShutOK
<1>5. QED
  BY <1>1, <1>2, <1>3, <1>4 DEF IInv

\* One byte goes from the one channel to the other.
LEMMA EchoKeeps == IInv /\ echo => IInv'
<1> SUFFICES ASSUME IInv, echo PROVE IInv'
  OBVIOUS
<1> USE DEF to_vars, fr_vars, loop, client, wires, out_vars, env
<1>0. /\ pc \notin Ended /\ srv = "up" /\ fwd # << >> /\ Len(bwd) < RcvCap
      /\ fwd' = Tail(fwd) /\ bwd' = Append(bwd, Head(fwd))
      /\ UNCHANGED <<client, env, shown, outq>>
  BY DEF echo, Running
<1>1. fwd \in Seq(Bytes) /\ bwd \in Seq(Bytes) /\ shown \in Seq(Bytes) /\ Len(fwd) <= SndCap
  BY DEF IInv, TypeSeq
<1>2. /\ Len(fwd) \in Nat \ {0} /\ Len(bwd) \in Nat /\ Len(shown) \in Nat
  BY <1>0, <1>1, EmptySeq, LenProperties
<1>3. /\ fwd' \in Seq(Bytes) /\ Len(fwd') = Len(fwd) - 1
      /\ \A k \in 1 .. Len(fwd') : fwd'[k] = fwd[k + 1]
  BY <1>0, <1>1, <1>2
<1>4. /\ bwd' \in Seq(Bytes) /\ Len(bwd') = Len(bwd) + 1
      /\ \A k \in 1 .. Len(bwd) : bwd'[k] = bwd[k]
      /\ bwd'[Len(bwd) + 1] = fwd[1]
  BY <1>0, <1>1, <1>2
<1>5. TypeCtl' /\ TypePtr'
  BY <1>0 DEF IInv, TypeCtl, TypePtr
<1>6. TypeSeq'
  <2>1. to' \in [Places -> Bytes] /\ fr' \in [Places -> Bytes] /\ shown' \in Seq(Bytes)
    BY <1>0 DEF IInv, TypeSeq
  <2>2. Len(fwd') <= SndCap /\ Len(bwd') <= RcvCap
    BY <1>0, <1>1, <1>2, <1>3, <1>4, TypeParts
  <2>3. QED
    BY <1>3, <1>4, <2>1, <2>2 DEF TypeSeq
<1>7. FlowOK'
  <2>0. BackOK /\ AheadOK /\ TypePtr
    BY <1>0 DEF IInv, FlowOK
  <2>1. Back' = Back + 1 /\ Back \in Int
    BY <1>0, <1>2, <1>4, <2>0 DEF Back, TypePtr
  <2>2. fwd[1] = Len(shown) + (friptr - froptr) + (Len(bwd) + 1)
    BY <1>2, <2>0 DEF AheadOK, Back, TypePtr
  <2>3. BackOK'
    <3>1. \A k \in 1 .. Len(bwd') : bwd'[k] = Len(shown) + (friptr - froptr) + k
      <4>1. \A k \in 1 .. Len(bwd') : k \in 1 .. Len(bwd) \/ k = Len(bwd) + 1
        BY <1>2, <1>4
      <4>2. QED
        BY <1>4, <2>0, <2>2, <4>1 DEF BackOK
    <3>2. QED
      BY <1>0, <2>0, <3>1 DEF BackOK
  <2>4. AheadOK'
    <3>1. \A k \in 1 .. Len(fwd') : fwd'[k] = Back' + k
      <4>1. \A k \in 1 .. Len(fwd') : k + 1 \in 1 .. Len(fwd)
        BY <1>2, <1>3
      <4>2. \A k \in 1 .. Len(fwd') : fwd'[k] = Back + (k + 1)
        BY <1>3, <2>0, <4>1 DEF AheadOK
      <4>3. QED
        BY <1>2, <1>3, <2>1, <4>2
    <3>2. Back' + Len(fwd') = Back + Len(fwd)
      BY <1>2, <1>3, <2>1
    <3>3. QED
      BY <1>0, <2>0, <3>1, <3>2 DEF AheadOK
  <2>5. QED
    BY <1>0, <2>3, <2>4 DEF FlowOK
<1>8. InputOK'
  BY <1>0 DEF IInv, InputOK, ShortInputRead
<1>9. bwd' # << >>
  BY <1>2, <1>4, EmptySeq
<1>10. RecvOK' /\ ShutOK'
  BY <1>0, <1>9 DEF IInv, RecvOK, ShutOK, Ended
<1>11. QED
  BY <1>5, <1>6, <1>7, <1>8, <1>10 DEF IInv

LEMMA EchoEndKeeps == IInv /\ echo_end => IInv'
<1> SUFFICES ASSUME IInv, echo_end PROVE IInv'
  OBVIOUS
<1> USE DEF to_vars, fr_vars, loop, client, wires, out_vars, env
<1>0. /\ srv = "up" /\ wrshut /\ fwd = << >> /\ srv' = "done" /\ pc \notin Ended
      /\ UNCHANGED <<client, typed, closed, wires>>
  BY DEF echo_end, Running
<1>1. TypeCtl' /\ TypePtr' /\ TypeSeq'
  BY <1>0 DEF IInv, TypeCtl, TypePtr, TypeSeq
<1>2. FlowOK'
  BY <1>0, FlowSame DEF IInv
<1>3. InputOK' /\ RecvOK'
  BY <1>0 DEF IInv, InputOK, ShortInputRead, RecvOK
<1>4. ShutOK'
  BY <1>0 DEF IInv, ShutOK, Ended
<1>5. QED
  BY <1>1, <1>2, <1>3, <1>4 DEF IInv

LEMMA EchoDiesKeeps == IInv /\ echo_dies => IInv'
<1> SUFFICES ASSUME IInv, echo_dies PROVE IInv'
  OBVIOUS
<1> USE DEF to_vars, fr_vars, loop, client, wires, out_vars, env
<1>0. /\ srv = "up" /\ srv' = "died" /\ fwd' = << >>
      /\ UNCHANGED <<client, typed, closed, bwd, shown, outq>>
  BY DEF echo_dies
<1>1. TypeCtl' /\ TypePtr'
  BY <1>0 DEF IInv, TypeCtl, TypePtr
<1>2. TypeSeq'
  <2>1. << >> \in Seq(Bytes) /\ Len(<< >>) = 0
    BY EmptySeq
  <2>2. QED
    BY <1>0, <2>1, TypeParts DEF IInv, TypeSeq
<1>3. FlowOK'
  <2>1. BackOK /\ AheadOK /\ TypePtr /\ TypeSeq
    BY <1>0 DEF IInv, FlowOK
  <2>2. Len(fwd) \in Nat /\ Len(bwd) \in Nat /\ Len(shown) \in Nat
    BY <2>1, LenProperties DEF TypeSeq
  <2>3. Back <= inpos
    BY <2>1, <2>2 DEF AheadOK, Back, TypePtr
  <2>4. QED
    BY <1>0, <2>1, <2>3 DEF FlowOK, BackOK, Back
<1>4. InputOK' /\ RecvOK' /\ ShutOK'
  BY <1>0 DEF IInv, InputOK, ShortInputRead, RecvOK, ShutOK
<1>5. QED
  BY <1>1, <1>2, <1>3, <1>4 DEF IInv

-----------------------------------------------------------------------------
\* Steps of the client that move bytes.

LEMMA StdinReadKeeps == IInv /\ stdin_read => IInv'
<1> SUFFICES ASSUME IInv, stdin_read PROVE IInv'
  OBVIOUS
<1> USE DEF to_vars, fr_vars, wires, out_vars, env
<1> DEFINE n == StdinCount
<1>0. /\ pc = "stdin" /\ "stdin" \in rset /\ n > 0
      /\ to' = [k \in Places |-> IF k \in toiptr .. (toiptr + n - 1)
                                 THEN inpos + 1 + (k - toiptr) ELSE to[k]]
      /\ toiptr' = toiptr + n /\ inpos' = inpos + n
      /\ wset' = wset \cup {"sock"} /\ pc' = "recv"
      /\ UNCHANGED <<tooptr, fr_vars, stdineof, rset, env, wrshut, wires>>
  BY DEF stdin_read
<1>1. TypePtr /\ TypeSeq /\ TypeCtl
  BY DEF IInv
<1>2. n \in Int /\ n > 0 /\ n <= MAXLINE - toiptr /\ n <= typed - inpos
  BY <1>0, <1>1 DEF TypePtr, StdinCount, MinOf
<1> HIDE DEF n
<1>3. TypePtr'
  BY <1>0, <1>1, <1>2 DEF TypePtr
<1>4. TypeCtl'
  <2>1. wset' \subseteq {"sock", "stdout"}
    BY <1>0, <1>1 DEF TypeCtl
  <2>2. QED
    BY <1>0, <1>1, <2>1 DEF TypeCtl
<1>5. TypeSeq'
  <2>1. \A k \in Places : k \in toiptr .. (toiptr + n - 1) => inpos + 1 + (k - toiptr) \in Bytes
    BY <1>1, <1>2 DEF TypePtr, Bytes
  <2>2. \A k \in Places : to[k] \in Bytes
    BY <1>1 DEF TypeSeq
  <2>3. to' \in [Places -> Bytes]
    BY <1>0, <2>1, <2>2
  <2>4. QED
    BY <1>0, <1>1, <2>3 DEF TypeSeq
<1>6. Len(fwd) \in Nat /\ Len(bwd) \in Nat /\ Len(shown) \in Nat
  BY <1>1, LenProperties DEF TypeSeq
<1>7. FlowOK'
  <2>1. Back' = Back /\ Back \in Int /\ BackOK'
    BY <1>0, <1>1, <1>6 DEF IInv, FlowOK, BackOK, Back, TypePtr
  <2>2. ASSUME srv # "died" PROVE AheadOK'
    <3>0. AheadOK
      BY <2>2 DEF IInv, FlowOK
    <3>1. inpos' = Back + Len(fwd) + (toiptr' - tooptr)
      BY <1>0, <1>1, <1>2, <1>6, <2>1, <3>0 DEF AheadOK, TypePtr
    <3>2. ASSUME NEW k \in tooptr .. (toiptr' - 1)
          PROVE  to'[k] = Back + Len(fwd) + 1 + (k - tooptr)
      <4>0. k \in Places /\ k \in Int
        BY <1>0, <1>1, <1>2 DEF TypePtr, Places
      <4>1. CASE k < toiptr
        <5>1. to'[k] = to[k] /\ k \in tooptr .. (toiptr - 1)
          BY <1>0, <1>1, <1>2, <4>0, <4>1 DEF TypePtr
        <5>2. QED
          BY <3>0, <5>1 DEF AheadOK
      <4>2. CASE k >= toiptr
        <5>1. to'[k] = inpos + 1 + (k - toiptr)
          BY <1>0, <1>1, <1>2, <4>0, <4>2 DEF TypePtr
        <5>2. QED
          BY <1>1, <1>6, <2>1, <3>0, <4>0, <5>1 DEF AheadOK, TypePtr
      <4>3. QED
        BY <1>1, <4>0, <4>1, <4>2 DEF TypePtr
    <3>3. QED
      BY <1>0, <2>1, <3>0, <3>1, <3>2 DEF AheadOK
  <2>3. srv = "died" => Back' <= inpos'
    BY <1>0, <1>1, <1>2, <2>1 DEF IInv, FlowOK, TypePtr
  <2>4. QED
    BY <1>0, <2>1, <2>2, <2>3 DEF FlowOK
<1>8. InputOK'
  <2>1. toiptr' <= inpos'
    BY <1>0, <1>1, <1>2 DEF IInv, InputOK, TypePtr
  <2>2. QED
    BY <1>0, <2>1 DEF IInv, InputOK, ShortInputRead
<1>9. RecvOK'
  BY <1>0 DEF IInv, RecvOK
<1>10. ShutOK'
  BY <1>0 DEF IInv, ShutOK, InputOK
<1>11. QED
  BY <1>3, <1>4, <1>5, <1>7, <1>8, <1>9, <1>10 DEF IInv

LEMMA SockReadKeeps == IInv /\ sock_read => IInv'
<1> SUFFICES ASSUME IInv, sock_read PROVE IInv'
  OBVIOUS
<1> USE DEF to_vars, fr_vars, wires, out_vars, env
<1> DEFINE n == RecvCount
<1>0. /\ pc = "recv" /\ n > 0
      /\ fr' = [k \in Places |-> IF k \in friptr .. (friptr + n - 1)
                                 THEN bwd[1 + (k - friptr)] ELSE fr[k]]
      /\ friptr' = friptr + n /\ bwd' = SubSeq(bwd, n + 1, Len(bwd))
      /\ wset' = wset \cup {"stdout"} /\ pc' = "stdout"
      /\ UNCHANGED <<to_vars, froptr, stdineof, rset, env, inpos, wrshut, fwd, out_vars>>
  BY DEF sock_read
<1>1. TypePtr /\ TypeSeq /\ TypeCtl /\ BackOK
  BY DEF IInv, FlowOK
<1>2. Len(fwd) \in Nat /\ Len(bwd) \in Nat /\ Len(shown) \in Nat
  BY <1>1, LenProperties DEF TypeSeq
<1>3. n \in Int /\ n > 0 /\ n <= MAXLINE - friptr /\ n <= Len(bwd)
  BY <1>0, <1>1, <1>2 DEF TypePtr, RecvCount, MinOf
<1> HIDE DEF n
<1>4. /\ bwd' \in Seq(Bytes) /\ Len(bwd') = Len(bwd) - n
      /\ \A k \in 1 .. (Len(bwd) - n) : bwd'[k] = bwd[n + k]
  <2>1. bwd \in Seq(Bytes) /\ n + 1 \in Int /\ Len(bwd) \in Int
    BY <1>1, <1>2, <1>3 DEF TypeSeq
  <2>2. \A i \in (n + 1) .. Len(bwd) : bwd[i] \in Bytes
    BY <1>3, <2>1, ElementOfSeq
  <2>3. /\ bwd' \in Seq(Bytes)
        /\ Len(bwd') = IF n + 1 <= Len(bwd) THEN Len(bwd) - (n + 1) + 1 ELSE 0
        /\ \A i \in 1 .. Len(bwd) - (n + 1) + 1 : bwd'[i] = bwd[(n + 1) + i - 1]
    BY <1>0, <2>1, <2>2, SubSeqProperties, SMTT(30)
  <2>4. QED
    BY <1>2, <1>3, <2>3
<1>5. TypePtr'
  BY <1>0, <1>1, <1>3 DEF TypePtr
<1>6. TypeCtl'
  <2>1. wset' \subseteq {"sock", "stdout"}
    BY <1>0, <1>1 DEF TypeCtl
  <2>2. QED
    BY <1>0, <1>1, <2>1 DEF TypeCtl
<1>7. TypeSeq'
  <2>1. \A k \in Places : k \in friptr .. (friptr + n - 1) => 1 + (k - friptr) \in 1 .. Len(bwd)
    BY <1>1, <1>2, <1>3 DEF TypePtr
  <2>2. \A k \in Places : fr[k] \in Bytes
    BY <1>1 DEF TypeSeq
  <2>3. \A k \in 1 .. Len(bwd) : bwd[k] \in Bytes
    BY <1>1, ElementOfSeq DEF TypeSeq
  <2>4. fr' \in [Places -> Bytes]
    BY <1>0, <2>1, <2>2, <2>3
  <2>5. Len(bwd') <= RcvCap
    BY <1>1, <1>2, <1>3, <1>4, TypeParts DEF TypeSeq
  <2>6. QED
    BY <1>0, <1>1, <1>4, <2>4, <2>5 DEF TypeSeq
<1>8. Back' = Back /\ Back \in Int
  <2>1. friptr' = friptr + n /\ froptr' = froptr /\ shown' = shown
    BY <1>0
  <2>2. friptr \in Int /\ froptr \in Int
    BY <1>1 DEF TypePtr
  <2>3. QED
    BY <1>2, <1>3, <1>4, <2>1, <2>2 DEF Back
<1>9. BackOK'
  <2>1. ASSUME NEW k \in froptr .. (friptr + n - 1)
        PROVE  fr'[k] = Len(shown) + 1 + (k - froptr)
    <3>0. k \in Places /\ k \in Int
      <4>1. friptr \in Int /\ froptr \in Nat
        BY <1>1 DEF TypePtr
      <4>2. QED
        BY <1>3, <4>1 DEF Places
    <3>1. CASE k < friptr
      <4>1. fr'[k] = fr[k] /\ k \in froptr .. (friptr - 1)
        BY <1>0, <1>1, <1>3, <3>0, <3>1 DEF TypePtr
      <4>2. QED
        BY <1>1, <4>1 DEF BackOK
    <3>2. CASE k >= friptr
      <4>1. fr'[k] = bwd[1 + (k - friptr)] /\ 1 + (k - friptr) \in 1 .. Len(bwd)
        BY <1>0, <1>1, <1>2, <1>3, <3>0, <3>2 DEF TypePtr
      <4>2. fr'[k] = Len(shown) + (friptr - froptr) + (1 + (k - friptr))
        BY <1>1, <4>1 DEF BackOK
      <4>3. QED
        BY <1>1, <1>2, <3>0, <4>2 DEF TypePtr
    <3>3. QED
      BY <1>1, <3>0, <3>1, <3>2 DEF TypePtr
  <2>2. ASSUME NEW k \in 1 .. (Len(bwd) - n)
        PROVE  bwd'[k] = Len(shown) + (friptr + n - froptr) + k
    <3>1. n + k \in 1 .. Len(bwd)
      BY <1>2, <1>3
    <3>2. bwd'[k] = Len(shown) + (friptr - froptr) + (n + k)
      BY <1>1, <1>4, <3>1 DEF BackOK
    <3>3. QED
      BY <1>1, <1>2, <1>3, <3>1, <3>2 DEF TypePtr
  <2>3. PICK fi \in Int, m \in Int :
           /\ fi = friptr + n /\ m = Len(bwd) - n /\ friptr' = fi /\ Len(bwd') = m
           /\ froptr' = froptr /\ shown' = shown
           /\ friptr \in Int /\ froptr \in Int
    <3>0. friptr \in Int /\ froptr \in Int
      BY <1>1 DEF TypePtr
    <3>1. friptr + n \in Int /\ Len(bwd) - n \in Int
      BY <1>1, <1>2, <1>3 DEF TypePtr
    <3>2. QED
      BY <1>0, <1>4, <3>0, <3>1
  <2>4. \A k \in 1 .. Len(shown) : shown[k] = k
    BY <1>1 DEF BackOK
  <2>5. \A k \in froptr' .. (friptr' - 1) : fr'[k] = Len(shown') + 1 + (k - froptr')
    <3>1. \A k \in froptr .. (fi - 1) : fr'[k] = Len(shown) + 1 + (k - froptr)
      <4>1. friptr + n - 1 = fi - 1
        BY <1>3, <2>3
      <4>2. QED
        BY <2>1, <4>1
    <3>2. QED
      BY <2>3, <3>1
  <2>6. \A k \in 1 .. Len(bwd') : bwd'[k] = Len(shown') + (friptr' - froptr') + k
    <3>1. \A k \in 1 .. m : bwd'[k] = Len(shown) + (fi - froptr) + k
      <4>1. Len(bwd) - n = m /\ friptr + n - froptr = fi - froptr
        BY <1>2, <1>3, <2>3
      <4>2. QED
        BY <2>2, <4>1
    <3>2. QED
      BY <2>3, <3>1
  <2>7. QED
    BY <2>3, <2>4, <2>5, <2>6 DEF BackOK
<1>10. FlowOK'
  BY <1>0, <1>8, <1>9 DEF IInv, FlowOK, AheadOK
<1>11. InputOK' /\ RecvOK' /\ ShutOK'
  BY <1>0 DEF IInv, InputOK, ShortInputRead, RecvOK, ShutOK
<1>12. QED
  BY <1>5, <1>6, <1>7, <1>10, <1>11 DEF IInv

LEMMA StdoutWriteKeeps == IInv /\ stdout_write => IInv'
<1> SUFFICES ASSUME IInv, stdout_write PROVE IInv'
  OBVIOUS
<1> USE DEF to_vars, fr_vars, wires, out_vars, env
<1>1. TypePtr /\ TypeSeq /\ TypeCtl /\ BackOK
  BY DEF IInv, FlowOK
<1>2. Len(fwd) \in Nat /\ Len(bwd) \in Nat /\ Len(shown) \in Nat
  BY <1>1, LenProperties DEF TypeSeq
<1>3. PICK h : h = Held(fr, friptr, froptr)
  OBVIOUS
<1>4. /\ h \in Seq(Bytes) /\ Len(h) = friptr - froptr
      /\ \A k \in 1 .. (friptr - froptr) : h[k] = fr[froptr + k - 1]
  <2>1. /\ fr \in [Places -> Bytes] /\ friptr \in 0 .. MAXLINE /\ froptr \in 0 .. MAXLINE
        /\ froptr <= friptr
    BY <1>1 DEF TypePtr, TypeSeq
  <2>2. /\ Held(fr, friptr, froptr) \in Seq(Bytes)
        /\ Len(Held(fr, friptr, froptr)) = friptr - froptr
        /\ \A k \in 1 .. (friptr - froptr) : Held(fr, friptr, froptr)[k] = fr[froptr + k - 1]
    BY <2>1, HeldSeq
  <2>3. QED
    BY <1>3, <2>2
<1>5. PICK n \in 0 .. (friptr - froptr) :
         /\ n <= OutCap - outq
         /\ shown' = shown \o SubSeq(h, 1, n) /\ outq' = outq + n
         /\ friptr' = After(friptr, froptr, n)[1] /\ froptr' = After(friptr, froptr, n)[2]
  <2> DEFINE n == MinOf(friptr - froptr, OutCap - outq)
  <2>1. n \in 0 .. (friptr - froptr) /\ n <= OutCap - outq
    BY <1>1, TypeParts DEF TypePtr, MinOf
  <2>2. /\ shown' = shown \o SubSeq(h, 1, n) /\ outq' = outq + n
        /\ friptr' = After(friptr, froptr, n)[1] /\ froptr' = After(friptr, froptr, n)[2]
    BY <1>3 DEF stdout_write
  <2> HIDE DEF n
  <2>3. QED
    BY <2>1, <2>2
<1>6. pc' = "send" /\ pc = "stdout"
      /\ UNCHANGED <<to_vars, fr, stdineof, rset, wset, env, inpos, wrshut, fwd, bwd>>
  BY DEF stdout_write
<1>7. /\ shown' \in Seq(Bytes) /\ Len(shown') = Len(shown) + n
      /\ \A k \in 1 .. Len(shown) : shown'[k] = shown[k]
      /\ \A k \in 1 .. n : shown'[Len(shown) + k] = h[k]
  <2>1. PICK q : q = SubSeq(h, 1, n)
    OBVIOUS
  <2>2. PICK s, w : s = shown /\ w = shown'
    OBVIOUS
  <2>3. n \in 0 .. Len(h) /\ s \in Seq(Bytes) /\ w = s \o q /\ h \in Seq(Bytes)
    BY <1>1, <1>4, <1>5, <2>1, <2>2 DEF TypeSeq
  <2>4. /\ w \in Seq(Bytes) /\ Len(w) = Len(s) + n
        /\ \A k \in 1 .. Len(s) : w[k] = s[k]
        /\ \A k \in 1 .. n : w[Len(s) + k] = h[k]
    BY <2>1, <2>3, Passed
  <2>5. QED
    BY <2>2, <2>4
<1>8. PICK fi \in 0 .. MAXLINE, fo \in 0 .. MAXLINE :
         /\ friptr' = fi /\ froptr' = fo /\ fo <= fi /\ fi - fo = friptr - froptr - n
         /\ fi # fo => fi = friptr /\ fo = froptr + n
  <2>1. friptr \in 0 .. MAXLINE /\ froptr \in 0 .. MAXLINE /\ froptr <= friptr
    BY <1>1 DEF TypePtr
  <2> DEFINE a == After(friptr, froptr, n)
  <2>2. /\ a[1] \in 0 .. MAXLINE /\ a[2] \in 0 .. MAXLINE /\ a[2] <= a[1]
        /\ a[1] - a[2] = friptr - froptr - n
        /\ a[1] # a[2] => a[1] = friptr /\ a[2] = froptr + n
    BY <2>1, AfterFacts
  <2>3. friptr' = a[1] /\ froptr' = a[2]
    BY <1>5
  <2> HIDE DEF a
  <2>4. QED
    BY <2>2, <2>3
<1>9. TypeCtl'
  BY <1>1, <1>6 DEF TypeCtl
<1>10. TypePtr'
  <2>1. outq' \in 0 .. OutCap
    BY <1>1, <1>5, TypeParts DEF TypePtr
  <2>2. QED
    BY <1>1, <1>6, <1>8, <2>1 DEF TypePtr
<1>11. TypeSeq'
  BY <1>1, <1>6, <1>7 DEF TypeSeq
<1>12. /\ friptr \in Int /\ froptr \in Int /\ n \in Int
       /\ Len(shown) + n + (fi - fo) = Len(shown) + (friptr - froptr)
  <2>1. friptr \in Int /\ froptr \in Int
    BY <1>1 DEF TypePtr
  <2>2. QED
    BY <1>2, <1>8, <2>1
<1>13. Back' = Back
  BY <1>6, <1>7, <1>8, <1>12 DEF Back
<1>14. BackOK'
  <2>1. ASSUME NEW k \in 1 .. (Len(shown) + n) PROVE shown'[k] = k
    <3>1. CASE k <= Len(shown)
      <4>1. k \in 1 .. Len(shown)
        BY <1>2, <3>1
      <4>2. QED
        BY <1>1, <1>7, <4>1 DEF BackOK
    <3>2. CASE k > Len(shown)
      <4>1. PICK m \in 1 .. n : k = Len(shown) + m
        <5>1. k - Len(shown) \in 1 .. n /\ k = Len(shown) + (k - Len(shown))
          BY <1>2, <1>12, <3>2
        <5>2. QED
          BY <5>1
      <4>2. /\ m \in 1 .. (friptr - froptr) /\ froptr + m - 1 \in froptr .. (friptr - 1)
        BY <1>5, <1>12
      <4>3. shown'[k] = fr[froptr + m - 1]
        BY <1>4, <1>7, <4>1, <4>2
      <4>4. shown'[k] = Len(shown) + 1 + ((froptr + m - 1) - froptr)
        BY <1>1, <4>2, <4>3 DEF BackOK
      <4>5. QED
        BY <1>2, <1>12, <4>1, <4>4
    <3>3. QED
      BY <1>2, <1>12, <3>1, <3>2
  <2>2. ASSUME NEW k \in fo .. (fi - 1)
        PROVE  fr[k] = Len(shown) + n + 1 + (k - fo)
    <3>1. fi = friptr /\ fo = froptr + n /\ k \in froptr .. (friptr - 1)
      BY <1>8, <1>12
    <3>2. fr[k] = Len(shown) + 1 + (k - froptr)
      BY <1>1, <3>1 DEF BackOK
    <3>3. QED
      BY <1>2, <1>12, <3>1, <3>2
  <2>3. ASSUME NEW k \in 1 .. Len(bwd)
        PROVE  bwd[k] = Len(shown) + n + (fi - fo) + k
    <3>1. bwd[k] = Len(shown) + (friptr - froptr) + k
      BY <1>1 DEF BackOK
    <3>2. QED
      BY <1>12, <3>1
  <2>4. QED
    BY <1>6, <1>7, <1>8, <2>1, <2>2, <2>3 DEF BackOK
<1>15. FlowOK'
  BY <1>6, <1>13, <1>14 DEF IInv, FlowOK, AheadOK
<1>16. InputOK' /\ RecvOK' /\ ShutOK'
  BY <1>6 DEF IInv, InputOK, ShortInputRead, RecvOK, ShutOK
<1>17. QED
  BY <1>9, <1>10, <1>11, <1>15, <1>16 DEF IInv

\* A write to the socket while the server is up: the first n bytes of "to".
LEMMA SockWriteUp ==
    ASSUME IInv, sock_write, srv = "up"
    PROVE  IInv'
<1> USE DEF to_vars, fr_vars, wires, out_vars, env
<1>1. TypePtr /\ TypeSeq /\ TypeCtl /\ BackOK /\ AheadOK
  BY DEF IInv, FlowOK
<1>2. Len(fwd) \in Nat /\ Len(bwd) \in Nat /\ Len(shown) \in Nat
  BY <1>1, LenProperties DEF TypeSeq
<1>3. PICK h : h = Held(to, toiptr, tooptr)
  OBVIOUS
<1>4. /\ h \in Seq(Bytes) /\ Len(h) = toiptr - tooptr
      /\ \A k \in 1 .. (toiptr - tooptr) : h[k] = to[tooptr + k - 1]
  <2>1. /\ to \in [Places -> Bytes] /\ toiptr \in 0 .. MAXLINE /\ tooptr \in 0 .. MAXLINE
        /\ tooptr <= toiptr
    BY <1>1 DEF TypePtr, TypeSeq
  <2>2. /\ Held(to, toiptr, tooptr) \in Seq(Bytes)
        /\ Len(Held(to, toiptr, tooptr)) = toiptr - tooptr
        /\ \A k \in 1 .. (toiptr - tooptr) : Held(to, toiptr, tooptr)[k] = to[tooptr + k - 1]
    BY <2>1, HeldSeq
  <2>3. QED
    BY <1>3, <2>2
<1>5. PICK n \in 0 .. (toiptr - tooptr) :
         /\ n <= SndCap - Len(fwd)
         /\ fwd' = fwd \o SubSeq(h, 1, n) /\ wrshut' = (wrshut \/ (n > 0 /\ stdineof))
         /\ toiptr' = After(toiptr, tooptr, n)[1] /\ tooptr' = After(toiptr, tooptr, n)[2]
  <2> DEFINE n == MinOf(toiptr - tooptr, SndCap - Len(fwd))
  <2>1. n \in 0 .. (toiptr - tooptr) /\ n <= SndCap - Len(fwd)
    BY <1>1, <1>2, TypeParts DEF TypePtr, TypeSeq, MinOf
  <2>2. /\ fwd' = fwd \o SubSeq(h, 1, n) /\ wrshut' = (wrshut \/ (n > 0 /\ stdineof))
        /\ toiptr' = After(toiptr, tooptr, n)[1] /\ tooptr' = After(toiptr, tooptr, n)[2]
    BY <1>3 DEF sock_write, Shuts
  <2> HIDE DEF n
  <2>3. QED
    BY <2>1, <2>2
<1>6. /\ pc' = "select" /\ pc = "send" /\ ~wrshut
      /\ UNCHANGED <<to, fr_vars, stdineof, rset, wset, env, inpos, bwd, out_vars>>
  BY DEF sock_write
<1>7. /\ fwd' \in Seq(Bytes) /\ Len(fwd') = Len(fwd) + n
      /\ \A k \in 1 .. Len(fwd) : fwd'[k] = fwd[k]
      /\ \A k \in 1 .. n : fwd'[Len(fwd) + k] = h[k]
  <2>1. PICK q : q = SubSeq(h, 1, n)
    OBVIOUS
  <2>2. PICK s, w : s = fwd /\ w = fwd'
    OBVIOUS
  <2>3. n \in 0 .. Len(h) /\ s \in Seq(Bytes) /\ w = s \o q /\ h \in Seq(Bytes)
    BY <1>1, <1>4, <1>5, <2>1, <2>2 DEF TypeSeq
  <2>4. /\ w \in Seq(Bytes) /\ Len(w) = Len(s) + n
        /\ \A k \in 1 .. Len(s) : w[k] = s[k]
        /\ \A k \in 1 .. n : w[Len(s) + k] = h[k]
    BY <2>1, <2>3, Passed
  <2>5. QED
    BY <2>2, <2>4
<1>8. PICK ti \in 0 .. MAXLINE, tq \in 0 .. MAXLINE :
         /\ toiptr' = ti /\ tooptr' = tq /\ tq <= ti /\ ti <= toiptr
         /\ ti - tq = toiptr - tooptr - n
         /\ ti # tq => ti = toiptr /\ tq = tooptr + n
  <2>1. toiptr \in 0 .. MAXLINE /\ tooptr \in 0 .. MAXLINE /\ tooptr <= toiptr
    BY <1>1 DEF TypePtr
  <2> DEFINE a == After(toiptr, tooptr, n)
  <2>2. /\ a[1] \in 0 .. MAXLINE /\ a[2] \in 0 .. MAXLINE /\ a[2] <= a[1] /\ a[1] <= toiptr
        /\ a[1] - a[2] = toiptr - tooptr - n
        /\ a[1] # a[2] => a[1] = toiptr /\ a[2] = tooptr + n
    BY <2>1, AfterFacts
  <2>3. toiptr' = a[1] /\ tooptr' = a[2]
    BY <1>5
  <2> HIDE DEF a
  <2>4. QED
    BY <2>2, <2>3
<1>9. toiptr \in Int /\ tooptr \in Int /\ inpos \in Int /\ n \in Int /\ Back \in Int
  <2>1. toiptr \in Int /\ tooptr \in Int /\ inpos \in Int /\ friptr \in Int /\ froptr \in Int
    BY <1>1 DEF TypePtr
  <2>2. QED
    BY <1>2, <2>1 DEF Back
<1>10. TypeCtl'
  <2>1. wrshut' \in BOOLEAN
    BY <1>5, Zenon
  <2>2. QED
    BY <1>1, <1>6, <2>1 DEF TypeCtl
<1>11. TypePtr'
  BY <1>1, <1>6, <1>8 DEF TypePtr
<1>12. TypeSeq'
  <2>1. Len(fwd) + n <= SndCap
    BY <1>2, <1>5, <1>9, TypeParts
  <2>2. QED
    BY <1>1, <1>6, <1>7, <2>1 DEF TypeSeq
<1>13. FlowOK'
  <2>1. BackOK' /\ Back' = Back
    BY <1>1, <1>6 DEF BackOK, Back
  <2>2. ASSUME NEW k \in 1 .. (Len(fwd) + n) PROVE fwd'[k] = Back + k
    <3>1. CASE k <= Len(fwd)
      <4>1. k \in 1 .. Len(fwd)
        BY <1>2, <3>1
      <4>2. QED
        BY <1>1, <1>7, <4>1 DEF AheadOK
    <3>2. CASE k > Len(fwd)
      <4>1. PICK m \in 1 .. n : k = Len(fwd) + m
        <5>1. k - Len(fwd) \in 1 .. n /\ k = Len(fwd) + (k - Len(fwd))
          BY <1>2, <1>9, <3>2
        <5>2. QED
          BY <5>1
      <4>2. /\ m \in 1 .. (toiptr - tooptr) /\ tooptr + m - 1 \in tooptr .. (toiptr - 1)
        BY <1>5, <1>9
      <4>3. fwd'[k] = to[tooptr + m - 1]
        BY <1>4, <1>7, <4>1, <4>2
      <4>4. fwd'[k] = Back + Len(fwd) + 1 + ((tooptr + m - 1) - tooptr)
        BY <1>1, <4>2, <4>3 DEF AheadOK
      <4>5. QED
        BY <1>2, <1>9, <4>1, <4>4
    <3>3. QED
      BY <1>2, <1>9, <3>1, <3>2
  <2>3. ASSUME NEW k \in tq .. (ti - 1)
        PROVE  to[k] = Back + (Len(fwd) + n) + 1 + (k - tq)
    <3>1. ti = toiptr /\ tq = tooptr + n /\ k \in tooptr .. (toiptr - 1)
      BY <1>8, <1>9
    <3>2. to[k] = Back + Len(fwd) + 1 + (k - tooptr)
      BY <1>1, <3>1 DEF AheadOK
    <3>3. QED
      BY <1>2, <1>9, <3>1, <3>2
  <2>4. inpos = Back + (Len(fwd) + n) + (ti - tq)
    <3>1. inpos = Back + Len(fwd) + (toiptr - tooptr)
      BY <1>1 DEF AheadOK
    <3>2. QED
      BY <1>2, <1>8, <1>9, <3>1
  <2>5. AheadOK'
    BY <1>6, <1>7, <1>8, <2>1, <2>2, <2>3, <2>4 DEF AheadOK
  <2>6. QED
    BY <1>6, <2>1, <2>5 DEF FlowOK
<1>14. InputOK' /\ RecvOK'
  <2>1. ti <= inpos
    BY <1>8, <1>9 DEF IInv, InputOK
  <2>2. QED
    BY <1>6, <1>8, <2>1 DEF IInv, InputOK, ShortInputRead, RecvOK
<1>15. ShutOK'
  <2>1. n > 0 => fwd' # << >>
    BY <1>2, <1>7, <1>9, EmptySeq
  <2>2. QED
    BY <1>5, <1>6, <2>1 DEF ShutOK
<1>16. QED
  BY <1>10, <1>11, <1>12, <1>13, <1>14, <1>15 DEF IInv

\* A write that the dead server never gets: "to" is emptied.
LEMMA SockWriteDied ==
    ASSUME IInv, sock_write, srv # "up"
    PROVE  IInv'
<1> USE DEF to_vars, fr_vars, wires, out_vars, env
<1>1. TypePtr /\ TypeSeq /\ TypeCtl
  BY DEF IInv
<1>2. srv = "died"
  BY <1>1 DEF IInv, ShutOK, TypeCtl, sock_write
<1>3. /\ pc' = "select" /\ wrshut' \in BOOLEAN /\ (wrshut' => wrshut \/ stdineof)
      /\ toiptr' = 0 /\ tooptr' = 0 /\ fwd' = fwd
      /\ UNCHANGED <<to, fr_vars, stdineof, rset, wset, env, inpos, bwd, out_vars>>
  <2> DEFINE n == toiptr - tooptr
  <2>1. /\ pc' = "select" /\ wrshut' = (wrshut \/ Shuts(n)) /\ fwd' = fwd
        /\ toiptr' = After(toiptr, tooptr, n)[1] /\ tooptr' = After(toiptr, tooptr, n)[2]
        /\ UNCHANGED <<to, fr_vars, stdineof, rset, wset, env, inpos, bwd, out_vars>>
    BY <1>2 DEF sock_write
  <2>2. tooptr + n = toiptr
    BY <1>1 DEF TypePtr
  <2>3. toiptr' = 0 /\ tooptr' = 0
    BY <2>1, <2>2 DEF After
  <2>4. wrshut' \in BOOLEAN /\ (wrshut' => wrshut \/ stdineof)
    <3> HIDE DEF n
    <3>1. QED
      BY <2>1, Zenon DEF Shuts
  <2>5. QED
    BY <2>1, <2>3, <2>4
<1>4. TypeCtl'
  BY <1>1, <1>3 DEF TypeCtl
<1>5. TypePtr' /\ TypeSeq'
  BY <1>1, <1>3 DEF TypePtr, TypeSeq
<1>6. FlowOK'
  BY <1>2, <1>3 DEF IInv, FlowOK, BackOK, Back
<1>7. InputOK' /\ RecvOK'
  BY <1>1, <1>3 DEF IInv, InputOK, ShortInputRead, RecvOK, TypePtr
<1>8. ShutOK'
  BY <1>2, <1>3 DEF IInv, ShutOK
<1>9. QED
  BY <1>4, <1>5, <1>6, <1>7, <1>8 DEF IInv

-----------------------------------------------------------------------------
\* The theorems.

LEMMA IInvStep == IInv /\ [Next]_vars => IInv'
<1> SUFFICES ASSUME IInv, [Next]_vars PROVE IInv'
  OBVIOUS
<1>1. CASE str_cli
  BY <1>1, SelectKeeps, SkipKeeps, StdinReadKeeps, StdinEofKeeps, SockReadKeeps,
     SockEofKeeps, StdoutWriteKeeps, SockWriteUp, SockWriteDied, WriteFailsKeeps DEF str_cli
<1>2. CASE Typist \/ Server \/ echo_dies \/ take
  BY <1>2, TypistKeeps, EchoKeeps, EchoEndKeeps, EchoDiesKeeps, TakeKeeps DEF Server
<1>3. CASE UNCHANGED vars
  <2> USE <1>3 DEF vars, client, loop, to_vars, fr_vars, wires, out_vars, env
  <2>1. TypeCtl' /\ TypePtr' /\ TypeSeq'
    BY DEF IInv, TypeCtl, TypePtr, TypeSeq
  <2>2. FlowOK'
    BY FlowSame DEF IInv
  <2>3. InputOK' /\ RecvOK' /\ ShutOK'
    BY DEF IInv, InputOK, ShortInputRead, RecvOK, ShutOK
  <2>4. QED
    BY <2>1, <2>2, <2>3 DEF IInv
<1>4. QED
  BY <1>1, <1>2, <1>3 DEF Next

LEMMA Invariance == Spec => []IInv
BY IInvInit, IInvStep, PTL DEF Spec

\* Type correctness of str_cli(): the four pointers stay inside their buffers,
\* each behind the one it follows, and no channel holds more than it can.
THEOREM TypeCorrect == Spec => []TypeOK
<1>1. IInv => TypeOK
  BY TypeParts DEF IInv
<1>2. QED
  BY <1>1, Invariance, PTL

\* An input shorter than MAXLINE is read to its end, although read() into a
\* full buffer looks like the end of the input (strclinonb.c:39).
THEOREM ShortInputsRead == Spec => []ShortInputRead
<1>1. IInv => ShortInputRead
  BY DEF IInv, InputOK
<1>2. QED
  BY <1>1, Invariance, PTL

LEMMA BytesAreNat ==
    ASSUME NEW s \in Seq(Bytes) PROVE s \in Seq(Nat) /\ Len(s) \in Nat
<1>1. \A k \in 1 .. Len(s) : s[k] \in Nat
  BY ElementOfSeq DEF Bytes
<1>2. s \in [1 .. Len(s) -> Bytes] /\ Len(s) \in Nat
  BY LenProperties
<1>3. s \in [1 .. Len(s) -> Nat]
  BY <1>1, <1>2
<1>4. QED
  BY <1>2, <1>3

\* What each place holds, put together: a row of consecutive bytes.
LEMMA BackRow ==
    ASSUME IInv
    PROVE  LET front == shown \o Held(fr, friptr, froptr)
           IN  /\ front = UpTo(Len(shown) + (friptr - froptr))
               /\ front \o bwd = UpTo(Back)
               /\ front \in Seq(Nat) /\ front \o bwd \in Seq(Nat) /\ Back \in Nat
<1>0. TypePtr /\ TypeSeq /\ BackOK
  BY DEF IInv, FlowOK
<1>1. /\ shown \in Seq(Nat) /\ Len(shown) \in Nat /\ bwd \in Seq(Nat) /\ Len(bwd) \in Nat
  BY <1>0, BytesAreNat DEF TypeSeq
<1>2. PICK h : h = Held(fr, friptr, froptr)
  OBVIOUS
<1>3. /\ friptr \in 0 .. MAXLINE /\ froptr \in 0 .. MAXLINE /\ froptr <= friptr
      /\ fr \in [Places -> Bytes]
  BY <1>0 DEF TypePtr, TypeSeq
<1>4. /\ h \in Seq(Bytes) /\ Len(h) = friptr - froptr
      /\ \A k \in 1 .. (friptr - froptr) : h[k] = fr[froptr + k - 1]
  BY <1>2, <1>3, HeldSeq, ZenonT(40)
<1>5. h \in Seq(Nat) /\ friptr - froptr \in Nat
  BY <1>3, <1>4, BytesAreNat
<1>6. shown = UpTo(Len(shown))
  <2> DEFINE u == UpTo(Len(shown))
  <2>1. u \in Seq(Nat) /\ Len(u) = Len(shown) /\ \A k \in 1 .. Len(shown) : u[k] = k
    BY <1>1 DEF UpTo
  <2> HIDE DEF u
  <2>2. \A k \in 1 .. Len(shown) : shown[k] = u[k]
    BY <1>0, <2>1 DEF BackOK
  <2>3. shown = u
    BY <1>1, <2>1, <2>2, SeqEqual
  <2>4. QED
    BY <2>3 DEF u
<1>7. \A k \in 1 .. Len(h) : h[k] = Len(shown) + k
  <2>1. ASSUME NEW k \in 1 .. (friptr - froptr) PROVE h[k] = Len(shown) + k
    <3>1. froptr + k - 1 \in froptr .. (friptr - 1)
      BY <1>3
    <3>2. h[k] = Len(shown) + 1 + ((froptr + k - 1) - froptr)
      BY <1>0, <1>4, <3>1 DEF BackOK
    <3>3. QED
      BY <1>1, <1>3, <3>2
  <2>2. QED
    BY <1>4, <2>1
<1>8. PICK a \in Seq(Nat), b \in Seq(Nat), n \in Nat, m \in Nat :
         /\ a = shown /\ b = bwd /\ n = Len(shown) /\ m = Len(shown) + (friptr - froptr)
  <2>1. Len(shown) + (friptr - froptr) \in Nat
    BY <1>1, <1>5
  <2>2. QED
    BY <1>1, <2>1
<1>9. a \o h = UpTo(n + Len(h)) /\ a \o h \in Seq(Nat)
  BY <1>1, <1>5, <1>6, <1>7, <1>8, RowGrows, ZenonT(40)
<1>10. PICK f : f = a \o h
  OBVIOUS
<1>11. f = UpTo(m) /\ f \in Seq(Nat) /\ f = shown \o Held(fr, friptr, froptr)
  BY <1>2, <1>4, <1>8, <1>9, <1>10
<1>12. b \in Seq(Nat) /\ \A k \in 1 .. Len(b) : b[k] = m + k
  BY <1>0, <1>1, <1>8 DEF BackOK
<1>13. f \o b = UpTo(m + Len(b)) /\ f \o b \in Seq(Nat)
  BY <1>11, <1>12, RowGrows
<1>14. m + Len(b) = Back /\ Back \in Nat
  BY <1>1, <1>8 DEF Back
<1>15. QED
  BY <1>8, <1>11, <1>13, <1>14

\* Every byte read from standard input is, once and in order, in the output,
\* in a buffer or on the way, through every partial read and write of the two
\* buffers; only a server that dies loses some, and then the rest is in order.
THEOREM BytesInOrder == Spec => []InOrder
<1>1. ASSUME IInv PROVE InOrder
  <2> DEFINE back == shown \o Held(fr, friptr, froptr) \o bwd
  <2>1. back = UpTo(Back) /\ back \in Seq(Nat) /\ Back \in Nat
    BY <1>1, BackRow
  <2> HIDE DEF back
  <2>2. CASE srv # "died"
    <3>0. TypePtr /\ TypeSeq /\ AheadOK
      BY <1>1, <2>2 DEF IInv, FlowOK
    <3>1. PICK h : h = Held(to, toiptr, tooptr)
      OBVIOUS
    <3>2. /\ to \in [Places -> Bytes] /\ toiptr \in 0 .. MAXLINE /\ tooptr \in 0 .. MAXLINE
          /\ tooptr <= toiptr
      BY <3>0 DEF TypePtr, TypeSeq
    <3>3. /\ h \in Seq(Bytes) /\ Len(h) = toiptr - tooptr
          /\ \A k \in 1 .. (toiptr - tooptr) : h[k] = to[tooptr + k - 1]
      BY <3>1, <3>2, HeldSeq, ZenonT(40)
    <3>4. h \in Seq(Nat) /\ fwd \in Seq(Nat) /\ Len(fwd) \in Nat
      BY <3>0, <3>3, BytesAreNat DEF TypeSeq
    <3>5. PICK a \in Seq(Nat), b \in Seq(Nat), n \in Nat : a = back /\ b = fwd /\ n = Back
      BY <2>1, <3>4
    <3>6. a = UpTo(n) /\ \A k \in 1 .. Len(b) : b[k] = n + k
      BY <2>1, <3>0, <3>5 DEF AheadOK
    <3>7. a \o b = UpTo(n + Len(b)) /\ a \o b \in Seq(Nat)
      BY <3>6, RowGrows
    <3>8. PICK c \in Seq(Nat), m \in Nat : c = a \o b /\ m = n + Len(b)
      <4>1. n + Len(b) \in Nat
        BY <3>4, <3>5
      <4>2. QED
        BY <3>7, <4>1
    <3>9. \A k \in 1 .. Len(h) : h[k] = m + k
      <4>1. ASSUME NEW k \in 1 .. (toiptr - tooptr) PROVE h[k] = m + k
        <5>1. tooptr + k - 1 \in tooptr .. (toiptr - 1)
          BY <3>2
        <5>2. h[k] = Back + Len(fwd) + 1 + ((tooptr + k - 1) - tooptr)
          BY <3>0, <3>3, <5>1 DEF AheadOK
        <5>3. Back + Len(fwd) = m
          BY <3>5, <3>8
        <5>4. QED
          BY <3>2, <5>2, <5>3
      <4>2. QED
        BY <3>3, <4>1
    <3>10. c = UpTo(m)
      BY <3>7, <3>8
    <3>11. c \o h = UpTo(m + Len(h))
      BY <3>4, <3>9, <3>10, RowGrows
    <3>12. m + Len(h) = inpos
      BY <3>0, <3>3, <3>5, <3>8 DEF AheadOK
    <3>13. back \o fwd \o Held(to, toiptr, tooptr) = UpTo(inpos)
      BY <3>1, <3>5, <3>8, <3>11, <3>12
    <3>14. QED
      BY <2>2, <3>13 DEF InOrder, back
  <2>3. CASE srv = "died"
    <3>1. Back <= inpos
      BY <1>1, <2>3 DEF IInv, FlowOK
    <3>2. Len(back) = Back
      BY <2>1 DEF UpTo
    <3>3. Len(back) <= inpos /\ back = UpTo(Len(back))
      BY <2>1, <3>1, <3>2
    <3>4. QED
      BY <2>3, <3>3 DEF InOrder, back
  <2>4. QED
    BY <2>2, <2>3
<1>2. IInv => InOrder
  BY <1>1
<1>3. QED
  BY <1>2, Invariance, PTL

\* str_cli() returns only when all it has read was echoed: nothing is left in
\* "to" or on the way, and only what is still in "fr" is missing from the
\* output (strclinonb.c:75), unless the server died.
THEOREM ReturnsComplete == Spec => []ReturnComplete
<1>1. ASSUME IInv PROVE ReturnComplete
  <2>1. SUFFICES ASSUME pc = "return", srv # "died"
                 PROVE  tooptr = toiptr /\ shown \o Held(fr, friptr, froptr) = UpTo(inpos)
    BY DEF ReturnComplete
  <2>2. bwd = << >> /\ fwd = << >> /\ tooptr = toiptr
    BY <1>1, <2>1 DEF IInv, ShutOK
  <2>3. shown \o Held(fr, friptr, froptr) = UpTo(Len(shown) + (friptr - froptr))
    BY <1>1, BackRow
  <2>4. inpos = Len(shown) + (friptr - froptr)
    <3>1. inpos = Back + Len(fwd) + (toiptr - tooptr) /\ TypePtr /\ TypeSeq
      BY <1>1, <2>1 DEF IInv, FlowOK, AheadOK
    <3>2. Len(shown) \in Nat /\ Len(<< >>) = 0
      BY <3>1, LenProperties, EmptySeq DEF TypeSeq
    <3>3. toiptr \in Int /\ friptr \in Int /\ froptr \in Int
      BY <3>1 DEF TypePtr
    <3>4. QED
      BY <2>2, <3>1, <3>2, <3>3 DEF Back
  <2>5. QED
    BY <2>2, <2>3, <2>4
<1>2. IInv => ReturnComplete
  BY <1>1
<1>3. QED
  BY <1>2, Invariance, PTL
=============================================================================
