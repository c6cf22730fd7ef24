---------------------------- MODULE DbOpenProofs ----------------------------
(***************************************************************************)
(* Proofs about DbOpen for any number of processes that create, open,      *)
(* truncate, use and close one database, and may be killed at any step.    *)
(***************************************************************************)
EXTENDS DbOpen, TLAPS

\* The lock on the index file is held from its request to un_lock.
LockOK == \A p \in Procs : pc[p] \in {"stat", "write", "unlock"} => lock = p

\* An empty file has no records.
EmptyOK == idx = "empty" => linked = {}

\* The file stays empty between the look at its size and the write of the
\* heads: a store cannot come past its reads.
WriteOK == \A p \in Procs : pc[p] = "write" => idx = "empty"

\* A store past its first read found the heads, and they stay.
StoresOK ==
  \A p \in Procs :
    /\ pc[p] \in StoreSteps \ {"find"} => idx = "whole"
    /\ pc[p] = "doreturn" => rec[p] \in linked /\ rec[p] \in Recs

\* The creator of the present file cannot come past its lock without heads.
NewestOK ==
  \A p \in newest :
    /\ Creates(p) /\ pc[p] # "closed"
    /\ pc[p] \in {"unlock", "rewind", "open"} \cup StoreSteps => idx = "whole"

\* What holds as long as the last truncation came in no store.
QuietOK == quiet => /\ idx # "bad" /\ stored \subseteq linked
                    /\ WriteOK /\ StoresOK /\ NewestOK

\* A process that stores has a record.
RecOK == \A p \in Procs : pc[p] \in StoreSteps => rec[p] \in Recs

\* The inductive invariant.
IInv == TypeOK /\ LockOK /\ EmptyOK /\ RecOK /\ QuietOK

LEMMA IInvInit == Init => IInv
<1> SUFFICES ASSUME Init PROVE IInv
  OBVIOUS
<1>1. TypeOK
  <2>1. there \subseteq {"idx", "dat"} /\ newest \subseteq Procs /\ quiet \in BOOLEAN
        /\ stored \subseteq Recs /\ recs \subseteq Recs /\ linked \subseteq Recs
        /\ dats \subseteq Recs
    BY Zenon DEF Init
  <2>2. mode \in [Procs -> SUBSET Flags] /\ fds \in [Procs -> SUBSET {"idx", "dat"}]
    <3>1. \A p \in Procs : {} \in SUBSET {"idx", "dat"} /\ {} \in SUBSET Flags
      OBVIOUS
    <3>2. QED
      BY <3>1, Zenon DEF Init
  <2>3. /\ idx \in {"empty", "whole", "bad"}
        /\ lock \in Procs \cup {NoProc}
        /\ pc \in [Procs -> {"closed", "opendat", "check", "lock", "stat", "write",
                             "unlock", "rewind", "open"} \cup StoreSteps]
        /\ rec \in [Procs -> Recs \cup {NoRec}]
    BY DEF Init
  <2>4. QED
    BY <2>1, <2>2, <2>3, Zenon DEF TypeOK
<1>2. LockOK /\ EmptyOK /\ RecOK /\ QuietOK
  BY DEF Init, LockOK, EmptyOK, RecOK, QuietOK, WriteOK, StoresOK, NewestOK, StoreSteps
<1>3. QED
  BY <1>1, <1>2 DEF IInv

\* open() of the index file.
LEMMA OpenIdxKeeps ==
    ASSUME IInv, NEW p \in Procs, OpenIdx(p)
    PROVE  IInv'
<1> USE OpenAssumption DEF IInv, TypeOK
<1>0. /\ pc[p] = "closed" /\ pc' = [pc EXCEPT ![p] = "opendat"]
      /\ dats' = dats /\ lock' = lock /\ rec' = rec
  BY DEF OpenIdx, Goto
<1>1. PICK m \in Modes :
        /\ mode' = [mode EXCEPT ![p] = m]
        /\ \/ /\ "CREAT" \in m \/ "idx" \in there
              /\ fds' = [fds EXCEPT ![p] = {"idx"}]
              /\ there' = there \cup {"idx"}
              /\ IF "TRUNC" \in m
                 THEN /\ idx' = "empty" /\ recs' = {} /\ linked' = {} /\ stored' = {}
                      /\ quiet' = (Storing = {})
                      /\ newest' = IF m = Flags THEN {p} ELSE {}
                 ELSE UNCHANGED <<idx, recs, linked, history>>
           \/ UNCHANGED <<fds, there, idx, recs, linked, history>>
  BY DEF OpenIdx
<1>2. mode' \in [Procs -> SUBSET Flags]
  BY <1>1
<1>3. LockOK' /\ RecOK'
  BY <1>0 DEF LockOK, RecOK, StoreSteps
<1>4. pc' \in [Procs -> {"closed", "opendat", "check", "lock", "stat", "write",
                         "unlock", "rewind", "open"} \cup StoreSteps]
  BY <1>0
<1>5. CASE /\ idx' = "empty" /\ recs' = {} /\ linked' = {} /\ stored' = {}
           /\ fds' = [fds EXCEPT ![p] = {"idx"}]
           /\ there' = there \cup {"idx"}
           /\ quiet' = (Storing = {})
           /\ newest' = IF m = Flags THEN {p} ELSE {}
  <2>1. quiet' \in BOOLEAN
    BY <1>5, Zenon
  <2>2. fds' \in [Procs -> SUBSET {"idx", "dat"}]
    BY <1>5
  <2>3. TypeOK'
    BY <1>0, <1>2, <1>4, <1>5, <2>1, <2>2
  <2>4. quiet' => \A q \in Procs : pc'[q] \notin StoreSteps
    BY <1>0, <1>5 DEF Storing, StoreSteps
  <2>5. quiet' => StoresOK' /\ WriteOK'
    BY <1>5, <2>4 DEF StoresOK, WriteOK, StoreSteps
  <2>6. NewestOK'
    BY <1>0, <1>1, <1>5 DEF NewestOK, Creates, StoreSteps
  <2>7. QED
    BY <1>3, <1>5, <2>3, <2>5, <2>6 DEF QuietOK, EmptyOK
<1>6. CASE UNCHANGED <<idx, recs, linked, history>>
  <2>1. TypeOK'
    <3>1. /\ idx' = idx /\ recs' = recs /\ linked' = linked
          /\ newest' = newest /\ quiet' = quiet /\ stored' = stored
      BY <1>6 DEF history
    <3>2. fds' \in [Procs -> SUBSET {"idx", "dat"}] /\ there' \subseteq {"idx", "dat"}
      BY <1>1
    <3>3. QED
      BY <1>0, <1>2, <1>4, <3>1, <3>2
  <2>2. EmptyOK' /\ QuietOK'
    BY <1>0, <1>1, <1>6
       DEF EmptyOK, QuietOK, WriteOK, StoresOK, NewestOK, Creates, StoreSteps, history
  <2>3. QED
    BY <1>3, <2>1, <2>2
<1>7. QED
  BY <1>1, <1>5, <1>6 DEF history

\* open() of the data file.
LEMMA OpenDatKeeps ==
    ASSUME IInv, NEW p \in Procs, OpenDat(p)
    PROVE  IInv'
<1> USE OpenAssumption DEF IInv, TypeOK
<1>1. /\ pc[p] = "opendat" /\ pc' = [pc EXCEPT ![p] = "check"]
      /\ idx' = idx /\ recs' = recs /\ linked' = linked /\ lock' = lock /\ mode' = mode
      /\ rec' = rec /\ newest' = newest /\ quiet' = quiet /\ stored' = stored
  BY DEF OpenDat, Goto, history
<1>2. /\ there' \subseteq {"idx", "dat"} /\ dats' \subseteq Recs
      /\ fds' \in [Procs -> SUBSET {"idx", "dat"}]
  <2>1. CASE /\ fds' = [fds EXCEPT ![p] = @ \cup {"dat"}]
             /\ there' = there \cup {"dat"}
             /\ dats' = IF "TRUNC" \in mode[p] THEN {} ELSE dats
    <3>1. fds[p] \cup {"dat"} \in SUBSET {"idx", "dat"}
      OBVIOUS
    <3>2. fds' \in [Procs -> SUBSET {"idx", "dat"}]
      BY <2>1, <3>1, Zenon
    <3>3. QED
      BY <2>1, <3>2
  <2>2. CASE UNCHANGED <<fds, there, dats>>
    BY <2>2
  <2>3. QED
    BY <2>1, <2>2 DEF OpenDat
<1>3. TypeOK'
  BY <1>1, <1>2
<1>4. LockOK' /\ EmptyOK' /\ RecOK' /\ QuietOK'
  BY <1>1 DEF LockOK, EmptyOK, RecOK, QuietOK, WriteOK, StoresOK, NewestOK, Creates, StoreSteps
<1>5. QED
  BY <1>3, <1>4

\* db_open returns NULL, db_close, an abort or a kill.
LEMMA FreeKeeps ==
    ASSUME IInv, NEW p \in Procs, Free(p)
    PROVE  IInv'
<1> USE OpenAssumption DEF IInv, TypeOK
<1>1. /\ pc' = [pc EXCEPT ![p] = "closed"] /\ mode' = [mode EXCEPT ![p] = {}]
      /\ fds' = [fds EXCEPT ![p] = {}] /\ rec' = [rec EXCEPT ![p] = NoRec]
      /\ lock' = IF lock = p THEN NoProc ELSE lock
      /\ newest' = newest \ {p} /\ quiet' = quiet /\ stored' = stored
      /\ there' = there /\ idx' = idx /\ recs' = recs /\ linked' = linked /\ dats' = dats
  BY DEF Free, Goto, files
<1>2. TypeOK'
  BY <1>1
<1>3. LockOK' /\ EmptyOK' /\ RecOK'
  BY <1>1 DEF LockOK, EmptyOK, RecOK, StoreSteps
<1>4. QuietOK'
  BY <1>1 DEF QuietOK, WriteOK, StoresOK, NewestOK, Creates, StoreSteps
<1>5. QED
  BY <1>2, <1>3, <1>4

\* The other steps of db_open.
LEMMA InitialiseKeeps ==
    ASSUME IInv, NEW p \in Procs,
           OpenOk(p) \/ Lock(p) \/ Stat(p) \/ Write(p) \/ UnLock(p) \/ Rewind(p)
    PROVE  IInv'
<1> USE OpenAssumption
        DEF IInv, TypeOK, LockOK, EmptyOK, RecOK, QuietOK, WriteOK, StoresOK, NewestOK,
            Creates, StoreSteps, Goto, files, handles, history
<1>1. CASE OpenOk(p)
  BY <1>1 DEF OpenOk
<1>2. CASE Lock(p)
  BY <1>2 DEF Lock
<1>3. CASE Stat(p)
  BY <1>3 DEF Stat
<1>4. CASE Write(p)
  BY <1>4 DEF Write
<1>5. CASE UnLock(p)
  BY <1>5 DEF UnLock
<1>6. CASE Rewind(p)
  BY <1>6 DEF Rewind
<1>7. QED
  BY <1>1, <1>2, <1>3, <1>4, <1>5, <1>6

\* The steps of db_store.
LEMMA StoreKeeps ==
    ASSUME IInv, NEW p \in Procs,
           Store(p) \/ Find(p) \/ WriteDat(p) \/ WriteIdx(p) \/ WritePtr(p) \/ Return(p)
    PROVE  IInv'
<1> USE OpenAssumption
        DEF IInv, TypeOK, LockOK, EmptyOK, RecOK, QuietOK, WriteOK, StoresOK, NewestOK,
            Creates, StoreSteps, Goto, files, handles, history
<1>1. CASE Store(p)
  BY <1>1 DEF Store
<1>2. CASE Find(p)
  BY <1>2 DEF Find
<1>3. CASE WriteDat(p)
  BY <1>3 DEF WriteDat
<1>4. CASE WriteIdx(p)
  BY <1>4 DEF WriteIdx
<1>5. CASE WritePtr(p)
  BY <1>5 DEF WritePtr
<1>6. CASE Return(p)
  BY <1>6 DEF Return
<1>7. QED
  BY <1>1, <1>2, <1>3, <1>4, <1>5, <1>6

LEMMA IInvStep == IInv /\ [Next]_vars => IInv'
<1> SUFFICES ASSUME IInv, [Next]_vars PROVE IInv'
  OBVIOUS
<1>1. CASE UNCHANGED vars
  BY <1>1 DEF vars, files, handles, history, IInv, TypeOK, LockOK, EmptyOK, RecOK, QuietOK,
              WriteOK, StoresOK, NewestOK, Creates
<1>2. CASE Next
  BY <1>2, OpenIdxKeeps, OpenDatKeeps, FreeKeeps, InitialiseKeeps, StoreKeeps
     DEF Next, OpenFails, StoreAborts, Close, Killed
<1>3. QED
  BY <1>1, <1>2

LEMMA IInvAlways == Spec => []IInv
BY IInvInit, IInvStep, PTL DEF Spec

\* For any mix of oflags and processes killed anywhere: if the last truncation
\* (db.c:163) came in the middle of no db_store, every store that has returned
\* since has its record in a list.  db_open looks at the size and writes the
\* heads under one lock (db.c:181-206), and a store aborts on an empty file.
THEOREM NoStoreLost == Spec => []StoredLinked
<1>1. IInv => StoredLinked
  BY DEF IInv, QuietOK, StoredLinked
<1>2. QED
  BY <1>1, IInvAlways, PTL

\* A creator whose db_open has returned finds the heads, unless the file was
\* truncated again after its own open(), or its own fell in the middle of a
\* store (db.c:163, 181, 194).
THEOREM CreatorHasHeads == Spec => []CreatorFindsHeads
<1>1. IInv => CreatorFindsHeads
  BY DEF IInv, QuietOK, NewestOK, CreatorFindsHeads
<1>2. QED
  BY <1>1, IInvAlways, PTL
=============================================================================
