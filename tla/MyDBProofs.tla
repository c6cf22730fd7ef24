----------------------------- MODULE MyDBProofs -----------------------------
(***************************************************************************)
(* Proofs about MyDB for every set of processes, keys and values, every    *)
(* table size and every disk: types, data records, pointers and lengths,   *)
(* with processes killed at any step; then the chains and the free list;   *)
(* then the refinement of KVStore.                                         *)
(***************************************************************************)
EXTENDS MyDBImpl, TLAPS

\* Inside a call other than the scan the request names a key, and a store's
\* value.
KeyLabels == Labels \ {"ready", "dead", "scanlock", "scan", "scandat", "scanunlock"}
StoreLabels == FreeSteps \cup AppSteps \cup {"reusedat", "reuseidx", "link", "overwrite"}
ReqOK == \A p \in Procs :
  /\ pc[p] \in KeyLabels => req[p].key \in Keys /\ req[p].op \in {"fetch", "store", "delete"}
  /\ pc[p] \in KeyLabels /\ req[p].op = "store" => req[p].val \in Vals
  /\ pc[p] \in StoreLabels => req[p].op = "store"
  /\ pc[p] \in DelSteps => req[p].op \in {"store", "delete"}

\* A process between reading an index record and the end of its work on it
\* holds that record's place in the data file.
HoldLabels == DelSteps \cup {"readdat", "overwrite", "freetake", "reusedat",
                             "reuseidx", "link", "scandat"}
Held(p) == Written(db[p].idxoff) /\ idx[db[p].idxoff].datoff = db[p].datoff
HeldOK == \A p \in Procs : pc[p] \in HoldLabels => Held(p)

\* A process about to write at the end of a file holds the lock on it, and
\* the end is still where it found it.
TailOK == \A p \in Procs :
  /\ pc[p] = "appdatw" => wlock[DatTail] = p /\ db[p].datoff = datend
  /\ pc[p] = "appidxw" => wlock[IdxTail] = p /\ db[p].idxoff = idxend

\* Index records name data that was written, and a process that has appended
\* data and not yet its index record is the only one to know it.
Fresh(p) == pc[p] \in {"appidx", "appidxw"}
FreshOK ==
  /\ \A r \in Recs : Written(r) => idx[r].datoff < datend
  /\ \A p \in Procs : Fresh(p) =>
       /\ db[p].datoff < datend
       /\ \A r \in Recs : Written(r) => idx[r].datoff # db[p].datoff
       /\ \A q \in Procs : Fresh(q) /\ q # p => db[q].datoff # db[p].datoff

\* A pointer in the index file, or in a DB structure, fits its field and ends
\* the list or leads to a record that has been written.
Leads(x) == x <= PTR_MAX /\ (x = 0 \/ Written(x))
FindLabels == DelSteps \cup {"find", "freefind"}
LeadsOK ==
  /\ \A l \in Fields : Leads(ptr[l])
  /\ \A p \in Procs : Leads(db[p].ptrval) /\ Leads(db[p].next)
  /\ \A p \in Procs : pc[p] \in FindLabels => Leads(db[p].idxoff)

\* The lengths in an index record are those of its key and of its data, blanks
\* included.
RecOK(r) ==
  /\ idx[r].key # SPACE => idx[r].klen = KeyLen[idx[r].key]
  /\ dat[idx[r].datoff].len = idx[r].datlen

\* A process knows the lengths of the record it works on; what it is going to
\* write there has the same.
TakeLabels == {"freetake", "reusedat", "reuseidx"}
LenOK(p) ==
  /\ pc[p] \in HoldLabels => db[p].datlen = idx[db[p].idxoff].datlen
  /\ pc[p] \in DelSteps \cup TakeLabels => idx[db[p].idxoff].klen = KeyLen[req[p].key]
  /\ pc[p] \in {"overwrite", "appdatw"} \cup TakeLabels => db[p].datlen = DatLen[req[p].val]
  /\ Fresh(p) => dat[db[p].datoff].len = db[p].datlen
ShapeOK == /\ \A r \in Recs : Written(r) => RecOK(r)
           /\ \A p \in Procs : LenOK(p)

\* The inductive invariant, in two stages: the second rests on the first.
IInv == TypeOK /\ ReqOK /\ HeldOK /\ TailOK /\ FreshOK /\ DataPrivate
FullInv == IInv /\ LeadsOK /\ ShapeOK

-----------------------------------------------------------------------------
(* Facts about the sets the types are built from *)

LEMMA SetFacts ==
  /\ FREE_OFF \in Slots /\ FREE_OFF \in Ptrs /\ FREE_OFF = 0
  /\ 0 \in Ptrs /\ 0 \in Fields /\ Lost \in {Lost} \cup Ends
  /\ Chains \subseteq Slots /\ Slots \subseteq Fields /\ Recs \subseteq Fields
  /\ Recs \subseteq Ptrs /\ FirstRec \in Ends
  /\ \A r \in Recs : r \in Ends /\ r + 1 \in Ends
  /\ Slots \subseteq Locks /\ IdxTail \in Locks /\ DatTail \in Locks
  /\ IdxTail \notin Slots /\ DatTail \notin Slots /\ IdxTail # DatTail
  /\ 0 \in DatOffs /\ DatOffs \subseteq Nat /\ Ends \subseteq Nat
  /\ \A d \in DatOffs : d < MaxDats => d + 1 \in DatOffs /\ d \in 0..(MaxDats - 1)
  /\ Recs \subseteq Nat
BY SizeAssumption DEF FREE_OFF, Chains, FirstRec, LastRec, Recs, Slots, Ptrs,
   Fields, IdxTail, DatTail, Locks, Lost, Ends, DatOffs

LEMMA LabelFacts ==
  /\ "ready" \in Labels /\ "dead" \in Labels /\ "lock" \in Labels
  /\ "find" \in Labels /\ "readdat" \in Labels /\ "overwrite" \in Labels
  /\ "reusedat" \in Labels /\ "reuseidx" \in Labels /\ "link" \in Labels
  /\ "unlock" \in Labels /\ "scanlock" \in Labels /\ "scan" \in Labels
  /\ "scandat" \in Labels /\ "scanunlock" \in Labels /\ "return" \in Labels
  /\ "delfree" \in Labels /\ "delblank" \in Labels /\ "delidx" \in Labels
  /\ "delhead" \in Labels /\ "delunlink" \in Labels /\ "freelock" \in Labels
  /\ "freefind" \in Labels /\ "freetake" \in Labels /\ "appdat" \in Labels
  /\ "appdatw" \in Labels /\ "appidx" \in Labels /\ "appidxw" \in Labels
BY DEF Labels, DelSteps, FreeSteps, AppSteps

LEMMA NullFacts == NoReq \in Request /\ NoDB \in DB /\ NoRet \in Answers
                   /\ \A rc \in {-1, 0, 1, 2} : Done(rc) \in Answers
BY SetFacts DEF NoReq, Request, NoDB, DB, NoRet, Answers, Done, Ret, Blank

LEMMA AnswerFact ==
  ASSUME NEW rc \in {-1, 0, 1, 2}, NEW k \in Blank(Keys), NEW v \in Blank(Vals)
  PROVE  Ret(rc, k, v) \in Answers
BY DEF Ret, Answers

-----------------------------------------------------------------------------
(* What the helpers leave of the types *)

LEMMA GotoType == ASSUME TypeOK, NEW p \in Procs, NEW l \in Labels, Goto(p, l)
                  PROVE  pc' \in [Procs -> Labels]
BY DEF TypeOK, Goto

LEMMA AnswerType == ASSUME TypeOK, NEW p \in Procs, NEW a \in Answers, Answer(p, a)
                    PROVE  ret' \in [Procs -> Answers]
BY DEF TypeOK, Answer

LEMMA SeekType == ASSUME TypeOK, NEW p \in Procs, NEW o \in {Lost} \cup Ends, Seek(p, o)
                  PROVE  pos' \in [Procs -> {Lost} \cup Ends]
BY DEF TypeOK, Seek

LockType == wlock \in [Locks -> Procs \cup {NoProc}] /\ rlock \in [Locks -> SUBSET Procs]

LEMMA WriteLockType == ASSUME TypeOK, NEW p \in Procs, NEW l \in Locks, WriteLock(p, l)
                       PROVE  LockType'
BY DEF TypeOK, WriteLock, LockType

LEMMA ReadLockType == ASSUME TypeOK, NEW p \in Procs, NEW l \in Locks, ReadLock(p, l)
                      PROVE  LockType'
BY DEF TypeOK, ReadLock, LockType

LEMMA UnLockType == ASSUME TypeOK, NEW p \in Procs, NEW l \in Locks, UnLock(p, l)
                    PROVE  LockType'
BY DEF TypeOK, UnLock, LockType

LEMMA ExitType == ASSUME TypeOK, NEW p \in Procs, Exit(p)
                  PROVE  /\ wlock' \in [Locks -> Procs \cup {NoProc}]
                         /\ rlock' \in [Locks -> SUBSET Procs]
                         /\ pc' \in [Procs -> Labels]
                         /\ req' \in [Procs -> Request]
                         /\ db' \in [Procs -> DB]
                         /\ ret' \in [Procs -> Answers]
                         /\ pos' \in [Procs -> {Lost} \cup Ends]
BY SetFacts, LabelFacts, NullFacts DEF TypeOK, Exit

LEMMA DieType == ASSUME TypeOK, NEW p \in Procs, Die(p), torn' \in SUBSET Slots
                 PROVE  TypeOK'
BY ExitType DEF TypeOK, Die, file

LEMMA LeaveType == ASSUME TypeOK, NEW p \in Procs, Leave(p)
                   PROVE  /\ pc' \in [Procs -> Labels]
                          /\ req' \in [Procs -> Request]
                          /\ db' \in [Procs -> DB]
                          /\ ret' \in [Procs -> Answers]
BY LabelFacts, NullFacts DEF TypeOK, Leave

LEMMA WritePtrType == ASSUME TypeOK, NEW l, NEW r \in Ptrs, WritePtr(l, r)
                      PROVE  ptr' \in [Fields -> Ptrs]
BY DEF TypeOK, WritePtr

LEMMA WriteDatType == ASSUME TypeOK, NEW d, NEW v \in Blank(Vals), NEW n \in Nat,
                             WriteDat(d, v, n)
                      PROVE  dat' \in [0..(MaxDats - 1) -> DatRec]
BY DEF TypeOK, WriteDat, DatRec

LEMMA WriteIdxType == ASSUME TypeOK, NEW p \in Procs, NEW r, NEW k \in Blank(Keys),
                             NEW n \in Nat, NEW x \in Ptrs, WriteIdx(p, r, k, n, x)
                      PROVE  /\ idx' \in [Recs -> IdxRec]
                             /\ ptr' \in [Fields -> Ptrs]
<1>1. [key |-> k, klen |-> n, datoff |-> db[p].datoff, datlen |-> db[p].datlen] \in IdxRec
  BY DEF TypeOK, DB, IdxRec
<1>q. QED
  BY <1>1 DEF TypeOK, WriteIdx

LEMMA ReadIdxType == ASSUME TypeOK, NEW p \in Procs, NEW r \in Recs
                     PROVE  ReadIdx(p, r) \in DB
<1>1. idx[r] \in IdxRec /\ ptr[r] \in Ptrs /\ r \in Ptrs
  BY SetFacts DEF TypeOK
<1>2. idx[r].datoff \in DatOffs /\ idx[r].datlen \in Nat
  BY <1>1 DEF IdxRec
<1>q. QED
  BY <1>1, <1>2, ZenonT(40) DEF TypeOK, DB, ReadIdx

LEMMA ReqFacts ==
  ASSUME TypeOK, ReqOK, NEW p \in Procs, pc[p] \in KeyLabels
  PROVE  /\ req[p].key \in Blank(Keys)
         /\ KeyLen[req[p].key] \in Nat
         /\ Chain(p) \in Chains
         /\ Chain(p) \in Slots
         /\ Chain(p) \in Fields
         /\ Chain(p) \in Locks
         /\ ptr[Chain(p)] \in Ptrs
         /\ pc[p] \in StoreLabels => /\ req[p].val \in Blank(Vals)
                                     /\ DatLen[req[p].val] \in Nat
BY DataAssumption, SetFacts DEF TypeOK, ReqOK, Blank, Chain

LEMMA KeyLabelFacts ==
  /\ "lock" \in KeyLabels /\ "find" \in KeyLabels /\ "unlock" \in KeyLabels
  /\ DelSteps \subseteq KeyLabels /\ StoreLabels \subseteq KeyLabels
BY DEF KeyLabels, StoreLabels, Labels, DelSteps, FreeSteps, AppSteps

LEMMA TypeStep ==
  ASSUME TypeOK, ReqOK, HeldOK, NEW p \in Procs, Step(p) \/ Crash(p)
  PROVE  TypeOK'
<1> USE SetFacts, LabelFacts, NullFacts DEF TypeOK, LockType, file, locks
<1>1. CASE Call(p)
  <2>1. PICK r \in Requests[p] : /\ req' = [req EXCEPT ![p] = r]
                                 /\ Goto(p, IF r.op = "nextrec" THEN "scanlock" ELSE "lock")
    BY <1>1 DEF Call
  <2>2. r \in Request
    BY RequestAssumption
  <2>q. QED
    BY <1>1, <2>1, <2>2, GotoType DEF Call
<1>2. CASE RejectFlag(p)
  BY <1>2, GotoType, AnswerType DEF RejectFlag
<1>3. CASE RejectLen(p)
  BY <1>3, DieType DEF RejectLen
<1>4. CASE Return(p)
  BY <1>4, LeaveType DEF Return
<1>5. CASE FindAndLock(p)
  <2>1. pc[p] \in KeyLabels
    BY <1>5, KeyLabelFacts DEF FindAndLock
  <2>2. LockType'
    BY <1>5, <2>1, ReqFacts, ReadLockType, WriteLockType DEF FindAndLock
  <2>3. db' \in [Procs -> DB]
    BY <1>5, <2>1, ReqFacts DEF FindAndLock, DB
  <2>q. QED
    BY <1>5, <2>2, <2>3, GotoType, SeekType DEF FindAndLock
<1>6. CASE FindNext(p)
  <2>1. db[p].idxoff \in Recs
    BY <1>6 DEF FindNext, Written
  <2>2. db' \in [Procs -> DB]
    BY <1>6, <2>1 DEF FindNext, DB
  <2>q. QED
    BY <1>6, <2>1, <2>2, SeekType DEF FindNext
<1>7. CASE FindHit(p)
  <2>1. db[p].idxoff \in Recs
    BY <1>7 DEF FindHit, Written
  <2>2. db' \in [Procs -> DB]
    BY <1>7, <2>1, ReadIdxType DEF FindHit
  <2>3. pc' \in [Procs -> Labels]
    <3>1. \E l \in {"readdat", "unlock", "overwrite", "delfree"} : Goto(p, l)
      BY <1>7 DEF FindHit
    <3>q. QED
      BY <3>1, GotoType
  <2>4. ret' \in [Procs -> Answers]
    BY <1>7, AnswerType DEF FindHit
  <2>5. pos' \in [Procs -> {Lost} \cup Ends]
    BY <1>7, <2>1, SeekType DEF FindHit
  <2>q. QED
    BY <1>7, <2>2, <2>3, <2>4, <2>5 DEF FindHit
<1>8. CASE FindMiss(p)
  <2>1. pc[p] \in KeyLabels
    BY <1>8, KeyLabelFacts DEF FindMiss
  <2>2. db' \in [Procs -> DB]
    <3>1. \/ db' = db
          \/ db' = [db EXCEPT ![p].next = ptr[Chain(p)], ![p].ptroff = 0]
      BY <1>8 DEF FindMiss
    <3>2. ptr[Chain(p)] \in Ptrs /\ 0 \in Fields
      BY <2>1, ReqFacts
    <3>3. [db[p] EXCEPT !.next = ptr[Chain(p)], !.ptroff = 0] \in DB
      BY <3>2 DEF DB
    <3>q. QED
      BY <3>1, <3>3
  <2>3. pc' \in [Procs -> Labels]
    BY <1>8, GotoType DEF FindMiss
  <2>4. ret' \in [Procs -> Answers]
    BY <1>8, AnswerType DEF FindMiss
  <2>5. pos' \in [Procs -> {Lost} \cup Ends]
    BY <1>8, SeekType DEF FindMiss
  <2>q. QED
    BY <1>8, <2>2, <2>3, <2>4, <2>5 DEF FindMiss
<1>9. CASE ReadDat(p)
  <2>1. dat[db[p].datoff].val \in Blank(Vals) /\ SPACE \in Blank(Keys)
    BY <1>9, SizeAssumption DEF ReadDat, ReadsDat, DatRec, DatOffs, Blank, DB
  <2>q. QED
    BY <1>9, <2>1, AnswerFact, AnswerType, GotoType DEF ReadDat
<1>10. CASE Unlock(p)
  <2>1. Chain(p) \in Locks
    BY <1>10, KeyLabelFacts, ReqFacts DEF Unlock
  <2>q. QED
    BY <1>10, <2>1, UnLockType, LeaveType DEF Unlock
<1>11. CASE DelFree(p)
  BY <1>11, WriteLockType, GotoType DEF DelFree
<1>12. CASE DelBlank(p)
  <2>1. SPACE \in Blank(Vals) /\ db[p].datlen \in Nat
    BY DEF Blank, DB
  <2>q. QED
    BY <1>12, <2>1, WriteDatType, GotoType DEF DelBlank
<1>13. CASE DelIdx(p)
  <2>1. pc[p] \in KeyLabels /\ SPACE \in Blank(Keys) /\ ptr[FREE_OFF] \in Ptrs
    BY <1>13, KeyLabelFacts DEF DelIdx, DelSteps, Blank
  <2>2. db[p].idxoff \in Recs
    BY <1>13 DEF DelIdx, HeldOK, Held, HoldLabels, DelSteps, Written
  <2>q. QED
    BY <1>13, <2>1, <2>2, ReqFacts, WriteIdxType, SeekType, GotoType DEF DelIdx
<1>14. CASE DelHead(p)
  <2>1. db[p].idxoff \in Ptrs
    BY <1>14 DEF DelHead, HeldOK, Held, HoldLabels, DelSteps, Written
  <2>q. QED
    BY <1>14, <2>1, WritePtrType, SeekType, GotoType DEF DelHead
<1>15. CASE DelUnlink(p)
  <2>1. pc[p] \in KeyLabels /\ db[p].ptrval \in Ptrs
    BY <1>15, KeyLabelFacts DEF DelUnlink, DelSteps, DB
  <2>2. ptr' \in [Fields -> Ptrs]
    BY <1>15, <2>1, WritePtrType DEF DelUnlink
  <2>3. LockType'
    BY <1>15, UnLockType DEF DelUnlink
  <2>4. [NoDB EXCEPT !.next = ptr'[Chain(p)], !.repl = TRUE] \in DB
    BY <2>1, <2>2, ReqFacts DEF NoDB, DB
  <2>5. db' \in [Procs -> DB] /\ pc' \in [Procs -> Labels] /\ ret' \in [Procs -> Answers]
    BY <1>15, <2>4, GotoType, AnswerType DEF DelUnlink
  <2>q. QED
    BY <1>15, <2>2, <2>3, <2>5, SeekType DEF DelUnlink
<1>16. CASE FreeLock(p)
  <2>1. db' \in [Procs -> DB]
    BY <1>16, ZenonT(40) DEF FreeLock, DB
  <2>q. QED
    BY <1>16, <2>1, WriteLockType, SeekType, GotoType DEF FreeLock
<1>17. CASE FreeNext(p)
  <2>1. db[p].idxoff \in Recs
    BY <1>17 DEF FreeNext, Written
  <2>2. db' \in [Procs -> DB]
    BY <1>17, <2>1 DEF FreeNext, DB
  <2>q. QED
    BY <1>17, <2>1, <2>2, SeekType DEF FreeNext
<1>18. CASE FreeHit(p)
  <2>1. db[p].idxoff \in Recs
    BY <1>18 DEF FreeHit, Written
  <2>2. db' \in [Procs -> DB]
    BY <1>18, <2>1, ReadIdxType DEF FreeHit
  <2>q. QED
    BY <1>18, <2>1, <2>2, GotoType, SeekType DEF FreeHit
<1>19. CASE FreeMiss(p)
  <2>1. db' \in [Procs -> DB]
    BY <1>19 DEF FreeMiss, DB
  <2>q. QED
    BY <1>19, <2>1, UnLockType, GotoType DEF FreeMiss
<1>20. CASE FreeTake(p)
  <2>1. db' \in [Procs -> DB] /\ db[p].ptrval \in Ptrs
    BY <1>20 DEF FreeTake, DB
  <2>q. QED
    BY <1>20, <2>1, WritePtrType, UnLockType, SeekType, GotoType DEF FreeTake
<1>21. CASE ReuseDat(p)
  <2>1. pc[p] \in KeyLabels /\ pc[p] \in StoreLabels
    BY <1>21, KeyLabelFacts DEF ReuseDat, StoreLabels, FreeSteps, AppSteps
  <2>2. db' \in [Procs -> DB]
    BY <1>21, <2>1, ReqFacts DEF ReuseDat, DB
  <2>q. QED
    BY <1>21, <2>1, <2>2, ReqFacts, WriteDatType, GotoType DEF ReuseDat
<1>22. CASE ReuseIdx(p)
  <2>1. pc[p] \in KeyLabels /\ pc[p] \in StoreLabels
    BY <1>22, KeyLabelFacts DEF ReuseIdx, StoreLabels, FreeSteps, AppSteps
  <2>2. db[p].idxoff \in Recs /\ db[p].next \in Ptrs
    BY <1>22 DEF ReuseIdx, HeldOK, Held, HoldLabels, Written, DB
  <2>q. QED
    BY <1>22, <2>1, <2>2, ReqFacts, WriteIdxType, SeekType, GotoType DEF ReuseIdx
<1>23. CASE AppDat(p)
  <2>1. pc[p] \in KeyLabels /\ pc[p] \in StoreLabels
    BY <1>23, KeyLabelFacts DEF AppDat, StoreLabels, FreeSteps, AppSteps
  <2>2. db' \in [Procs -> DB]
    BY <1>23, <2>1, ReqFacts, ZenonT(40) DEF AppDat, DB
  <2>q. QED
    BY <1>23, <2>2, WriteLockType, GotoType DEF AppDat
<1>24. CASE AppDatW(p)
  <2>1. pc[p] \in KeyLabels /\ pc[p] \in StoreLabels
    BY <1>24, KeyLabelFacts DEF AppDatW, StoreLabels, FreeSteps, AppSteps
  <2>2. datend' \in DatOffs
    BY <1>24 DEF AppDatW, DB
  <2>q. QED
    BY <1>24, <2>1, <2>2, ReqFacts, WriteDatType, UnLockType, GotoType DEF AppDatW
<1>25. CASE AppIdx(p)
  <2>1. db' \in [Procs -> DB]
    BY <1>25 DEF AppIdx, DB
  <2>q. QED
    BY <1>25, <2>1, WriteLockType, SeekType, GotoType DEF AppIdx
<1>26. CASE AppIdxW(p)
  <2>1. pc[p] \in KeyLabels /\ pc[p] \in StoreLabels
    BY <1>26, KeyLabelFacts DEF AppIdxW, StoreLabels, FreeSteps, AppSteps
  <2>2. db[p].idxoff \in Recs /\ db[p].next \in Ptrs /\ idxend' \in Ends
    BY <1>26 DEF AppIdxW, DB
  <2>q. QED
    BY <1>26, <2>1, <2>2, ReqFacts, WriteIdxType, UnLockType, SeekType, GotoType
    DEF AppIdxW
<1>27. CASE DatFull(p)
  <2>1. Exit(p) /\ ptr' = ptr /\ idx' = idx /\ idxend' = idxend /\ torn' = torn
    BY <1>27 DEF DatFull
  <2>2. dat' \in [0..(MaxDats - 1) -> DatRec] /\ datend' \in DatOffs
    <3>1. CASE UNCHANGED <<dat, datend>>
      BY <3>1 DEF TypeOK
    <3>2. CASE /\ datend < MaxDats /\ datend' = datend + 1
               /\ dat' = [dat EXCEPT ![datend] = NoDat]
      <4>1. NoDat \in DatRec
        BY NullFacts DEF NoDat, DatRec, Blank
      <4>2. QED
        BY <3>2, <4>1, SetFacts DEF TypeOK, DatOffs
    <3>3. QED
      BY <1>27, <3>1, <3>2 DEF DatFull
  <2>3. QED
    BY <2>1, <2>2, ExitType DEF TypeOK
<1>28. CASE IdxFull(p)
  <2>1. Exit(p) /\ ptr' = ptr /\ dat' = dat /\ datend' = datend /\ torn' = torn
    BY <1>28 DEF IdxFull
  <2>2. idx' \in [Recs -> IdxRec] /\ idxend' \in Ends
    <3>1. CASE UNCHANGED <<idx, idxend>>
      BY <3>1 DEF TypeOK
    <3>2. CASE /\ idxend \in Recs /\ idxend' = idxend + 1
               /\ idx' = [idx EXCEPT ![idxend].klen = 0]
      <4>1. PICK i \in IdxRec : i = idx[idxend]
        BY <3>2 DEF TypeOK
      <4>2. PICK j \in IdxRec : j = [i EXCEPT !.klen = 0]
        BY SetFacts DEF IdxRec
      <4>3. idx' = [idx EXCEPT ![idxend] = j]
        BY <3>2, <4>1, <4>2 DEF TypeOK
      <4>4. QED
        BY <3>2, <4>3, SetFacts DEF TypeOK, Ends, Recs
    <3>3. QED
      BY <1>28, <3>1, <3>2 DEF IdxFull
  <2>3. QED
    BY <2>1, <2>2, ExitType DEF TypeOK
<1>29. CASE Link(p)
  <2>1. db[p].idxoff \in Ptrs
    BY <1>29 DEF Link, HeldOK, Held, HoldLabels, Written
  <2>q. QED
    BY <1>29, <2>1, WritePtrType, SeekType, AnswerType, GotoType DEF Link
<1>30. CASE LinkQuit(p)
  BY <1>30, DieType DEF LinkQuit
<1>r. CASE IdxRefused(p)
  BY <1>r, DieType DEF IdxRefused
<1>31. CASE Overwrite(p)
  <2>1. pc[p] \in KeyLabels /\ pc[p] \in StoreLabels
    BY <1>31, KeyLabelFacts DEF Overwrite, StoreLabels, FreeSteps, AppSteps
  <2>q. QED
    BY <1>31, <2>1, ReqFacts, WriteDatType, AnswerType, GotoType DEF Overwrite
<1>32. CASE ScanLock(p)
  BY <1>32, ReadLockType, GotoType DEF ScanLock
<1>33. CASE ScanSkip(p)
  BY <1>33, SeekType DEF ScanSkip, Written
<1>34. CASE ScanHit(p)
  <2>1. pos[p] \in Recs
    BY <1>34 DEF ScanHit, Written
  <2>2. [ReadIdx(p, pos[p]) EXCEPT !.ptrval = 0] \in DB
    BY <2>1, ReadIdxType DEF DB
  <2>3. idx[pos[p]].key \in Blank(Keys) /\ SPACE \in Blank(Vals)
    BY <2>1 DEF IdxRec, Blank
  <2>4. Ret(2, idx[pos[p]].key, SPACE) \in Answers
    BY <2>3, AnswerFact
  <2>q. QED
    BY <1>34, <2>1, <2>2, <2>4, AnswerType, SeekType, GotoType DEF ScanHit
<1>35. CASE ScanEnd(p)
  BY <1>35, AnswerType, GotoType DEF ScanEnd
<1>36. CASE ScanAbort(p)
  BY <1>36, DieType DEF ScanAbort
<1>37. CASE ScanDat(p)
  <2>1. dat[db[p].datoff].val \in Blank(Vals) /\ ret[p].key \in Blank(Keys)
    BY <1>37, SizeAssumption DEF ScanDat, ReadsDat, DatRec, DatOffs, DB, Answers
  <2>q. QED
    BY <1>37, <2>1, AnswerFact, AnswerType, GotoType DEF ScanDat
<1>38. CASE ScanUnlock(p)
  BY <1>38, UnLockType, LeaveType DEF ScanUnlock
<1>39. CASE Rewind(p)
  BY <1>39, SeekType DEF Rewind
<1>40. CASE Restart(p)
  BY <1>40, GotoType DEF Restart
<1>41. CASE Crash(p)
  BY <1>41, DieType DEF Crash
<1>q. QED
  BY <1>1, <1>2, <1>3, <1>4, <1>5, <1>6, <1>7, <1>8, <1>9, <1>10, <1>11, <1>12, <1>13,
     <1>14, <1>15, <1>16, <1>17, <1>18, <1>19, <1>20, <1>21, <1>22, <1>23, <1>24, <1>25, <1>26,
     <1>27, <1>28, <1>29, <1>30, <1>r, <1>31, <1>32, <1>33, <1>34, <1>35, <1>36, <1>37, <1>38, <1>39,
     <1>40, <1>41
  DEF Step, Locking, Working

-----------------------------------------------------------------------------
(* A step of p leaves the control state of the other processes alone *)

LEMMA Frame ==
  ASSUME TypeOK, NEW p \in Procs, Step(p) \/ Crash(p), NEW q \in Procs, q # p
  PROVE  pc'[q] = pc[q] /\ req'[q] = req[q] /\ db'[q] = db[q]
<1> USE DEF TypeOK, Goto
<1>1. CASE Call(p)
  BY <1>1 DEF Call
<1>2. CASE RejectFlag(p)
  BY <1>2 DEF RejectFlag
<1>3. CASE RejectLen(p)
  BY <1>3 DEF RejectLen, Die, Exit
<1>4. CASE Return(p)
  BY <1>4 DEF Return, Leave
<1>5. CASE FindAndLock(p)
  BY <1>5 DEF FindAndLock
<1>6. CASE FindNext(p)
  BY <1>6 DEF FindNext
<1>7. CASE FindHit(p)
  BY <1>7 DEF FindHit
<1>8. CASE FindMiss(p)
  BY <1>8 DEF FindMiss
<1>9. CASE ReadDat(p)
  BY <1>9 DEF ReadDat
<1>10. CASE Unlock(p)
  BY <1>10 DEF Unlock, Leave
<1>11. CASE DelFree(p)
  BY <1>11 DEF DelFree
<1>12. CASE DelBlank(p)
  BY <1>12 DEF DelBlank
<1>13. CASE DelIdx(p)
  BY <1>13 DEF DelIdx
<1>14. CASE DelHead(p)
  BY <1>14 DEF DelHead
<1>15. CASE DelUnlink(p)
  BY <1>15 DEF DelUnlink
<1>16. CASE FreeLock(p)
  BY <1>16 DEF FreeLock
<1>17. CASE FreeNext(p)
  BY <1>17 DEF FreeNext
<1>18. CASE FreeHit(p)
  BY <1>18 DEF FreeHit
<1>19. CASE FreeMiss(p)
  BY <1>19 DEF FreeMiss
<1>20. CASE FreeTake(p)
  BY <1>20 DEF FreeTake
<1>21. CASE ReuseDat(p)
  BY <1>21 DEF ReuseDat
<1>22. CASE ReuseIdx(p)
  BY <1>22 DEF ReuseIdx
<1>23. CASE AppDat(p)
  BY <1>23 DEF AppDat
<1>24. CASE AppDatW(p)
  BY <1>24 DEF AppDatW
<1>25. CASE AppIdx(p)
  BY <1>25 DEF AppIdx
<1>26. CASE AppIdxW(p)
  BY <1>26 DEF AppIdxW
<1>27. CASE DatFull(p)
  BY <1>27 DEF DatFull, Die, Exit
<1>28. CASE IdxFull(p)
  BY <1>28 DEF IdxFull, Die, Exit
<1>29. CASE Link(p)
  BY <1>29 DEF Link
<1>30. CASE LinkQuit(p)
  BY <1>30 DEF LinkQuit, Die, Exit
<1>r. CASE IdxRefused(p)
  BY <1>r DEF IdxRefused, Die, Exit
<1>31. CASE Overwrite(p)
  BY <1>31 DEF Overwrite
<1>32. CASE ScanLock(p)
  BY <1>32 DEF ScanLock
<1>33. CASE ScanSkip(p)
  BY <1>33 DEF ScanSkip
<1>34. CASE ScanHit(p)
  BY <1>34 DEF ScanHit
<1>35. CASE ScanEnd(p)
  BY <1>35 DEF ScanEnd
<1>36. CASE ScanAbort(p)
  BY <1>36 DEF ScanAbort, Die, Exit
<1>37. CASE ScanDat(p)
  BY <1>37 DEF ScanDat
<1>38. CASE ScanUnlock(p)
  BY <1>38 DEF ScanUnlock, Leave
<1>39. CASE Rewind(p)
  BY <1>39 DEF Rewind
<1>40. CASE Restart(p)
  BY <1>40 DEF Restart
<1>41. CASE Crash(p)
  BY <1>41, SMTT(30) DEF Crash, Die, Exit
<1>q. QED
  BY <1>1, <1>2, <1>3, <1>4, <1>5, <1>6, <1>7, <1>8, <1>9, <1>10, <1>11, <1>12, <1>13,
     <1>14, <1>15, <1>16, <1>17, <1>18, <1>19, <1>20, <1>21, <1>22, <1>23, <1>24, <1>25, <1>26,
     <1>27, <1>28, <1>29, <1>30, <1>r, <1>31, <1>32, <1>33, <1>34, <1>35, <1>36, <1>37, <1>38, <1>39,
     <1>40, <1>41
  DEF Step, Locking, Working

LEMMA ReqStep ==
  ASSUME TypeOK, ReqOK, NEW p \in Procs, Step(p) \/ Crash(p)
  PROVE  ReqOK'
<1> SUFFICES /\ pc'[p] \in KeyLabels => /\ req'[p].key \in Keys
                                        /\ req'[p].op \in {"fetch", "store", "delete"}
             /\ pc'[p] \in KeyLabels /\ req'[p].op = "store" => req'[p].val \in Vals
             /\ pc'[p] \in StoreLabels => req'[p].op = "store"
             /\ pc'[p] \in DelSteps => req'[p].op \in {"store", "delete"}
  BY Frame DEF ReqOK
<1> USE DEF TypeOK, ReqOK, Goto, KeyLabels, StoreLabels, Labels, DelSteps, FreeSteps,
            AppSteps
<1>1. CASE Call(p)
  <2>1. PICK r \in Requests[p] : /\ req' = [req EXCEPT ![p] = r]
                                 /\ Goto(p, IF r.op = "nextrec" THEN "scanlock" ELSE "lock")
    BY <1>1 DEF Call
  <2>2. /\ r.op \in OpNames
        /\ r.op \in {"fetch", "store", "delete"} => r.key \in Keys
        /\ r.op = "store" => r.val \in Vals
    BY RequestAssumption DEF Request
  <2>3. req'[p] = r /\ pc'[p] = IF r.op = "nextrec" THEN "scanlock" ELSE "lock"
    BY <2>1
  <2>q. QED
    BY <2>2, <2>3 DEF OpNames
<1>2. CASE RejectFlag(p)
  BY <1>2 DEF RejectFlag
<1>3. CASE RejectLen(p)
  BY <1>3 DEF RejectLen, Die, Exit
<1>4. CASE Return(p)
  BY <1>4 DEF Return, Leave
<1>5. CASE FindAndLock(p)
  BY <1>5 DEF FindAndLock
<1>6. CASE FindNext(p)
  BY <1>6 DEF FindNext
<1>7. CASE FindHit(p)
  <2>1. /\ req'[p] = req[p] /\ pc[p] = "find"
        /\ pc'[p] \in {"readdat", "unlock", "overwrite", "delfree"}
        /\ pc'[p] = "overwrite" => req[p].op = "store"
        /\ pc'[p] = "delfree" => req[p].op # "fetch"
    BY <1>7 DEF FindHit
  <2>q. QED
    BY <2>1
<1>8. CASE FindMiss(p)
  BY <1>8 DEF FindMiss
<1>9. CASE ReadDat(p)
  BY <1>9 DEF ReadDat
<1>10. CASE Unlock(p)
  BY <1>10 DEF Unlock, Leave
<1>11. CASE DelFree(p)
  BY <1>11 DEF DelFree
<1>12. CASE DelBlank(p)
  BY <1>12 DEF DelBlank
<1>13. CASE DelIdx(p)
  BY <1>13 DEF DelIdx
<1>14. CASE DelHead(p)
  BY <1>14 DEF DelHead
<1>15. CASE DelUnlink(p)
  BY <1>15 DEF DelUnlink
<1>16. CASE FreeLock(p)
  BY <1>16 DEF FreeLock
<1>17. CASE FreeNext(p)
  BY <1>17 DEF FreeNext
<1>18. CASE FreeHit(p)
  BY <1>18 DEF FreeHit
<1>19. CASE FreeMiss(p)
  BY <1>19 DEF FreeMiss
<1>20. CASE FreeTake(p)
  BY <1>20 DEF FreeTake
<1>21. CASE ReuseDat(p)
  BY <1>21 DEF ReuseDat
<1>22. CASE ReuseIdx(p)
  BY <1>22 DEF ReuseIdx
<1>23. CASE AppDat(p)
  BY <1>23 DEF AppDat
<1>24. CASE AppDatW(p)
  BY <1>24 DEF AppDatW
<1>25. CASE AppIdx(p)
  BY <1>25 DEF AppIdx
<1>26. CASE AppIdxW(p)
  BY <1>26 DEF AppIdxW
<1>27. CASE DatFull(p)
  BY <1>27 DEF DatFull, Die, Exit
<1>28. CASE IdxFull(p)
  BY <1>28 DEF IdxFull, Die, Exit
<1>29. CASE Link(p)
  BY <1>29 DEF Link
<1>30. CASE LinkQuit(p)
  BY <1>30 DEF LinkQuit, Die, Exit
<1>r. CASE IdxRefused(p)
  BY <1>r DEF IdxRefused, Die, Exit
<1>31. CASE Overwrite(p)
  BY <1>31 DEF Overwrite
<1>32. CASE ScanLock(p)
  BY <1>32 DEF ScanLock
<1>33. CASE ScanSkip(p)
  BY <1>33 DEF ScanSkip
<1>34. CASE ScanHit(p)
  BY <1>34 DEF ScanHit
<1>35. CASE ScanEnd(p)
  BY <1>35 DEF ScanEnd
<1>36. CASE ScanAbort(p)
  BY <1>36 DEF ScanAbort, Die, Exit
<1>37. CASE ScanDat(p)
  BY <1>37 DEF ScanDat
<1>38. CASE ScanUnlock(p)
  BY <1>38 DEF ScanUnlock, Leave
<1>39. CASE Rewind(p)
  BY <1>39 DEF Rewind
<1>40. CASE Restart(p)
  BY <1>40 DEF Restart
<1>41. CASE Crash(p)
  BY <1>41 DEF Crash, Die, Exit
<1>q. QED
  BY <1>1, <1>2, <1>3, <1>4, <1>5, <1>6, <1>7, <1>8, <1>9, <1>10, <1>11, <1>12, <1>13,
     <1>14, <1>15, <1>16, <1>17, <1>18, <1>19, <1>20, <1>21, <1>22, <1>23, <1>24, <1>25, <1>26,
     <1>27, <1>28, <1>29, <1>30, <1>r, <1>31, <1>32, <1>33, <1>34, <1>35, <1>36, <1>37, <1>38, <1>39,
     <1>40, <1>41
  DEF Step, Locking, Working

-----------------------------------------------------------------------------
(* The files only grow, and a record keeps its place in the data file *)

\* Record r is new after the step and was appended by p.
AppendedBy(p, r) == AppIdxW(p) /\ r = db[p].idxoff /\ idx'[r].datoff = db[p].datoff

\* Every key has a length.
LEMMA KeyPos == ASSUME ReqOK, NEW p \in Procs, pc[p] \in KeyLabels
                PROVE  KeyLen[req[p].key] \in Nat \ {0}
BY DataAssumption DEF ReqOK

\* A write at the place of a record changes no other, and leaves a whole record.
LEMMA WriteIdxAt ==
  ASSUME TypeOK, NEW p \in Procs, NEW r \in Recs, NEW k, NEW n, NEW x, WriteIdx(p, r, k, n, x)
  PROVE  /\ idx'[r].key = k /\ idx'[r].klen = n
         /\ idx'[r].datoff = db[p].datoff /\ idx'[r].datlen = db[p].datlen
         /\ \A s \in Recs : s # r => idx'[s] = idx[s]
<1>1. idx'[r] = [key |-> k, klen |-> n, datoff |-> db[p].datoff, datlen |-> db[p].datlen]
  BY DEF WriteIdx, TypeOK
<1>2. \A s \in Recs : s # r => idx'[s] = idx[s]
  BY DEF WriteIdx, TypeOK
<1>q. QED
  BY <1>1, <1>2

\* What writev leaves of a record on a full disk: no record, and no change to
\* what was there.
LEMMA Partial ==
  ASSUME TypeOK, NEW p \in Procs, DatFull(p) \/ IdxFull(p)
  PROVE  /\ ptr' = ptr
         /\ \A r \in Recs : Written(r)' <=> Written(r)
         /\ \A r \in Recs : idx'[r].key = idx[r].key
         /\ \A r \in Recs : Written(r) => idx'[r] = idx[r]
         /\ \A d \in DatOffs : d < datend => dat'[d] = dat[d]
         /\ datend <= datend' /\ (datend' = datend \/ datend' = datend + 1)
         /\ datend' # datend => DatFull(p)
         /\ idxend' # idxend => IdxFull(p)
<1>a. datend \in Nat /\ idxend \in Nat /\ Recs \subseteq Nat /\ DatOffs \subseteq Nat
  BY SetFacts DEF TypeOK
<1>1. CASE UNCHANGED <<ptr, idx, idxend, dat, datend>>
  BY <1>1, <1>a DEF Written
<1>2. CASE DatFull(p) /\ dat' = [dat EXCEPT ![datend] = NoDat] /\ datend' = datend + 1
  <2>1. ptr' = ptr /\ idx' = idx /\ idxend' = idxend
    BY <1>2 DEF DatFull
  <2>2. \A d \in DatOffs : d < datend => dat'[d] = dat[d]
    BY <1>2, <1>a DEF TypeOK
  <2>q. QED
    BY <1>2, <1>a, <2>1, <2>2 DEF Written
<1>3. CASE IdxFull(p) /\ idxend \in Recs /\ idx' = [idx EXCEPT ![idxend].klen = 0]
           /\ idxend' = idxend + 1
  <2>1. ptr' = ptr /\ dat' = dat /\ datend' = datend
    BY <1>3 DEF IdxFull
  <2>e. PICK i \in IdxRec : i = idx[idxend]
    BY <1>3 DEF TypeOK
  <2>2. /\ idx'[idxend].klen = 0 /\ idx'[idxend].key = idx[idxend].key
        /\ \A r \in Recs : r # idxend => idx'[r] = idx[r]
    <3>1. idx'[idxend] = [i EXCEPT !.klen = 0]
      BY <1>3, <2>e DEF TypeOK
    <3>2. \A r \in Recs : r # idxend => idx'[r] = idx[r]
      BY <1>3 DEF TypeOK
    <3>q. QED
      BY <2>e, <3>1, <3>2 DEF IdxRec
  <2>3. \A r \in Recs : Written(r)' <=> Written(r)
    BY <1>3, <1>a, <2>2 DEF Written
  <2>4. /\ \A r \in Recs : Written(r) => idx'[r] = idx[r]
        /\ \A r \in Recs : idx'[r].key = idx[r].key
    BY <1>a, <2>2 DEF Written
  <2>q. QED
    BY <1>3, <1>a, <2>1, <2>3, <2>4
<1>q. QED
  BY <1>1, <1>2, <1>3 DEF DatFull, IdxFull

LEMMA Grow ==
  ASSUME TypeOK, ReqOK, HeldOK, TailOK, NEW p \in Procs, Step(p) \/ Crash(p)
  PROVE  /\ \A r \in Recs : Written(r) => Written(r)' /\ idx'[r].datoff = idx[r].datoff
         /\ \A r \in Recs : Written(r)' /\ ~Written(r) => AppendedBy(p, r)
         /\ datend <= datend'
         /\ datend' # datend => (AppDatW(p) \/ DatFull(p)) /\ datend' = datend + 1
         /\ idxend' # idxend => AppIdxW(p) \/ IdxFull(p)
<1> USE DEF file, Written
<1>a. datend \in Nat /\ idxend \in Nat /\ Recs \subseteq Nat
  BY SetFacts DEF TypeOK
<1>1. CASE Call(p)
  BY <1>1, <1>a DEF Call
<1>2. CASE RejectFlag(p)
  BY <1>2, <1>a DEF RejectFlag
<1>3. CASE RejectLen(p)
  BY <1>3, <1>a DEF RejectLen, Die, Exit
<1>4. CASE Return(p)
  BY <1>4, <1>a DEF Return, Leave
<1>5. CASE FindAndLock(p)
  BY <1>5, <1>a DEF FindAndLock
<1>6. CASE FindNext(p)
  BY <1>6, <1>a DEF FindNext
<1>7. CASE FindHit(p)
  BY <1>7, <1>a DEF FindHit
<1>8. CASE FindMiss(p)
  BY <1>8, <1>a DEF FindMiss
<1>9. CASE ReadDat(p)
  BY <1>9, <1>a DEF ReadDat
<1>10. CASE Unlock(p)
  BY <1>10, <1>a DEF Unlock, Leave
<1>11. CASE DelFree(p)
  BY <1>11, <1>a DEF DelFree
<1>12. CASE DelBlank(p)
  BY <1>12, <1>a DEF DelBlank
<1>13. CASE DelIdx(p)
  <2>1. Held(p) /\ KeyLen[req[p].key] \in Nat \ {0}
    BY <1>13, KeyPos, KeyLabelFacts DEF DelIdx, HeldOK, HoldLabels, DelSteps, StoreLabels
  <2>2. PICK e : e = db[p].idxoff
    OBVIOUS
  <2>3. \E k, x : WriteIdx(p, e, k, KeyLen[req[p].key], x)
    BY <1>13, <2>2 DEF DelIdx
  <2>4. Written(e) /\ idx[e].datoff = db[p].datoff
    BY <2>1, <2>2 DEF Held
  <2>5. /\ idx'[e].klen # 0 /\ idx'[e].datoff = idx[e].datoff
        /\ \A r \in Recs : r # e => idx'[r] = idx[r]
    BY <2>1, <2>3, <2>4, WriteIdxAt
  <2>6. idxend' = idxend /\ datend' = datend
    BY <1>13 DEF DelIdx
  <2>7. \A r \in Recs : (Written(r)' <=> Written(r)) /\ idx'[r].datoff = idx[r].datoff
    BY <2>4, <2>5, <2>6
  <2>q. QED
    BY <1>a, <2>6, <2>7
<1>14. CASE DelHead(p)
  BY <1>14, <1>a DEF DelHead
<1>15. CASE DelUnlink(p)
  BY <1>15, <1>a DEF DelUnlink
<1>16. CASE FreeLock(p)
  BY <1>16, <1>a DEF FreeLock
<1>17. CASE FreeNext(p)
  BY <1>17, <1>a DEF FreeNext
<1>18. CASE FreeHit(p)
  BY <1>18, <1>a DEF FreeHit
<1>19. CASE FreeMiss(p)
  BY <1>19, <1>a DEF FreeMiss
<1>20. CASE FreeTake(p)
  BY <1>20, <1>a DEF FreeTake
<1>21. CASE ReuseDat(p)
  BY <1>21, <1>a DEF ReuseDat
<1>22. CASE ReuseIdx(p)
  <2>1. Held(p) /\ KeyLen[req[p].key] \in Nat \ {0}
    BY <1>22, KeyPos, KeyLabelFacts DEF ReuseIdx, HeldOK, HoldLabels, DelSteps, StoreLabels
  <2>2. PICK e : e = db[p].idxoff
    OBVIOUS
  <2>3. \E k, x : WriteIdx(p, e, k, KeyLen[req[p].key], x)
    BY <1>22, <2>2 DEF ReuseIdx
  <2>4. Written(e) /\ idx[e].datoff = db[p].datoff
    BY <2>1, <2>2 DEF Held
  <2>5. /\ idx'[e].klen # 0 /\ idx'[e].datoff = idx[e].datoff
        /\ \A r \in Recs : r # e => idx'[r] = idx[r]
    BY <2>1, <2>3, <2>4, WriteIdxAt
  <2>6. idxend' = idxend /\ datend' = datend
    BY <1>22 DEF ReuseIdx
  <2>7. \A r \in Recs : (Written(r)' <=> Written(r)) /\ idx'[r].datoff = idx[r].datoff
    BY <2>4, <2>5, <2>6
  <2>q. QED
    BY <1>a, <2>6, <2>7
<1>23. CASE AppDat(p)
  BY <1>23, <1>a DEF AppDat
<1>24. CASE AppDatW(p)
  <2>1. db[p].datoff = datend
    BY <1>24 DEF AppDatW, TailOK
  <2>q. QED
    BY <1>24, <1>a, <2>1 DEF AppDatW
<1>25. CASE AppIdx(p)
  BY <1>25, <1>a DEF AppIdx
<1>26. CASE AppIdxW(p)
  <2>1. db[p].idxoff = idxend /\ db[p].idxoff \in Recs
    BY <1>26 DEF AppIdxW, TailOK
  <2>2. /\ idx'[db[p].idxoff].datoff = db[p].datoff
        /\ \A r \in Recs : r # db[p].idxoff => idx'[r] = idx[r]
    BY <1>26, <2>1 DEF AppIdxW, WriteIdx, TypeOK
  <2>3. idxend' = idxend + 1 /\ datend' = datend
    BY <1>26, <1>a, <2>1 DEF AppIdxW
  <2>4. ASSUME NEW r \in Recs, Written(r)
        PROVE  Written(r)' /\ idx'[r].datoff = idx[r].datoff
    <3>1. r # db[p].idxoff
      BY <1>a, <2>1, <2>4
    <3>q. QED
      BY <1>a, <2>2, <2>3, <2>4, <3>1
  <2>5. ASSUME NEW r \in Recs, Written(r)', ~Written(r)
        PROVE  AppendedBy(p, r)
    <3>1. r = db[p].idxoff
      BY <1>a, <2>1, <2>2, <2>3, <2>5
    <3>q. QED
      BY <1>26, <3>1, <2>2 DEF AppendedBy
  <2>6. datend' = datend /\ datend <= datend'
    BY <1>a, <2>3
  <2>q. QED
    BY <1>26, <2>4, <2>5, <2>6
<1>27. CASE DatFull(p)
  BY <1>27, <1>a, Partial
<1>28. CASE IdxFull(p)
  BY <1>28, <1>a, Partial
<1>29. CASE Link(p)
  BY <1>29, <1>a DEF Link
<1>30. CASE LinkQuit(p)
  BY <1>30, <1>a DEF LinkQuit, Die, Exit
<1>r. CASE IdxRefused(p)
  BY <1>r, <1>a DEF IdxRefused, Die, Exit
<1>31. CASE Overwrite(p)
  BY <1>31, <1>a DEF Overwrite
<1>32. CASE ScanLock(p)
  BY <1>32, <1>a DEF ScanLock
<1>33. CASE ScanSkip(p)
  BY <1>33, <1>a DEF ScanSkip
<1>34. CASE ScanHit(p)
  BY <1>34, <1>a DEF ScanHit
<1>35. CASE ScanEnd(p)
  BY <1>35, <1>a DEF ScanEnd
<1>36. CASE ScanAbort(p)
  BY <1>36, <1>a DEF ScanAbort, Die, Exit
<1>37. CASE ScanDat(p)
  BY <1>37, <1>a DEF ScanDat
<1>38. CASE ScanUnlock(p)
  BY <1>38, <1>a DEF ScanUnlock, Leave
<1>39. CASE Rewind(p)
  BY <1>39, <1>a DEF Rewind
<1>40. CASE Restart(p)
  BY <1>40, <1>a DEF Restart
<1>41. CASE Crash(p)
  BY <1>41, <1>a DEF Crash, Die, Exit
<1>q. QED
  BY <1>1, <1>2, <1>3, <1>4, <1>5, <1>6, <1>7, <1>8, <1>9, <1>10, <1>11, <1>12, <1>13,
     <1>14, <1>15, <1>16, <1>17, <1>18, <1>19, <1>20, <1>21, <1>22, <1>23, <1>24, <1>25, <1>26,
     <1>27, <1>28, <1>29, <1>30, <1>r, <1>31, <1>32, <1>33, <1>34, <1>35, <1>36, <1>37, <1>38, <1>39,
     <1>40, <1>41
  DEF Step, Locking, Working

LEMMA HeldStep ==
  ASSUME TypeOK, ReqOK, HeldOK, TailOK, NEW p \in Procs, Step(p) \/ Crash(p)
  PROVE  HeldOK'
<1> SUFFICES pc'[p] \in HoldLabels => Held(p)'
  <2>1. ASSUME NEW q \in Procs, q # p, pc'[q] \in HoldLabels
        PROVE  Held(q)'
    <3>1. pc[q] \in HoldLabels /\ db'[q] = db[q]
      BY <2>1, Frame
    <3>2. Written(db[q].idxoff) /\ idx[db[q].idxoff].datoff = db[q].datoff
      BY <3>1 DEF HeldOK, Held
    <3>q. QED
      BY <3>1, <3>2, Grow DEF Written, Held
  <2>q. QED
    BY <2>1 DEF HeldOK
<1>k. ASSUME pc[p] \in HoldLabels, db'[p].idxoff = db[p].idxoff, db'[p].datoff = db[p].datoff
      PROVE  Held(p)'
  BY <1>k, Grow DEF HeldOK, Held, Written
<1> USE DEF TypeOK, Goto, HoldLabels, DelSteps
<1>1. CASE Call(p)
  <2>1. pc'[p] \in {"scanlock", "lock"}
    BY <1>1 DEF Call
  <2>q. QED
    BY <2>1
<1>2. CASE RejectFlag(p)
  BY <1>2 DEF RejectFlag
<1>3. CASE RejectLen(p)
  BY <1>3 DEF RejectLen, Die, Exit
<1>4. CASE Return(p)
  BY <1>4 DEF Return, Leave
<1>5. CASE FindAndLock(p)
  BY <1>5 DEF FindAndLock
<1>6. CASE FindNext(p)
  BY <1>6 DEF FindNext
<1>7. CASE FindHit(p)
  <2>1. Written(db[p].idxoff) /\ db'[p] = ReadIdx(p, db[p].idxoff)
    BY <1>7 DEF FindHit
  <2>2. db'[p].idxoff = db[p].idxoff /\ db'[p].datoff = idx[db[p].idxoff].datoff
    BY <2>1 DEF ReadIdx, DB
  <2>q. QED
    BY <2>1, <2>2, Grow DEF Written, Held
<1>8. CASE FindMiss(p)
  <2>1. pc'[p] \in {"freelock", "unlock"}
    BY <1>8 DEF FindMiss
  <2>q. QED
    BY <2>1
<1>9. CASE ReadDat(p)
  BY <1>9 DEF ReadDat
<1>10. CASE Unlock(p)
  BY <1>10 DEF Unlock, Leave
<1>11. CASE DelFree(p)
  <2>1. /\ pc[p] \in HoldLabels
        /\ db'[p].idxoff = db[p].idxoff /\ db'[p].datoff = db[p].datoff
    BY <1>11 DEF DelFree, DB
  <2>q. QED
    BY <1>k, <2>1
<1>12. CASE DelBlank(p)
  <2>1. /\ pc[p] \in HoldLabels
        /\ db'[p].idxoff = db[p].idxoff /\ db'[p].datoff = db[p].datoff
    BY <1>12 DEF DelBlank, DB
  <2>q. QED
    BY <1>k, <2>1
<1>13. CASE DelIdx(p)
  <2>1. /\ pc[p] \in HoldLabels
        /\ db'[p].idxoff = db[p].idxoff /\ db'[p].datoff = db[p].datoff
    BY <1>13 DEF DelIdx, DB
  <2>q. QED
    BY <1>k, <2>1
<1>14. CASE DelHead(p)
  <2>1. /\ pc[p] \in HoldLabels
        /\ db'[p].idxoff = db[p].idxoff /\ db'[p].datoff = db[p].datoff
    BY <1>14 DEF DelHead, DB
  <2>q. QED
    BY <1>k, <2>1
<1>15. CASE DelUnlink(p)
  BY <1>15 DEF DelUnlink
<1>16. CASE FreeLock(p)
  BY <1>16 DEF FreeLock
<1>17. CASE FreeNext(p)
  BY <1>17 DEF FreeNext
<1>18. CASE FreeHit(p)
  <2>1. Written(db[p].idxoff) /\ db'[p] = ReadIdx(p, db[p].idxoff)
    BY <1>18 DEF FreeHit
  <2>2. db'[p].idxoff = db[p].idxoff /\ db'[p].datoff = idx[db[p].idxoff].datoff
    BY <2>1 DEF ReadIdx, DB
  <2>q. QED
    BY <2>1, <2>2, Grow DEF Written, Held
<1>19. CASE FreeMiss(p)
  BY <1>19 DEF FreeMiss
<1>20. CASE FreeTake(p)
  <2>1. /\ pc[p] \in HoldLabels
        /\ db'[p].idxoff = db[p].idxoff /\ db'[p].datoff = db[p].datoff
    BY <1>20 DEF FreeTake, DB
  <2>q. QED
    BY <1>k, <2>1
<1>21. CASE ReuseDat(p)
  <2>1. /\ pc[p] \in HoldLabels
        /\ db'[p].idxoff = db[p].idxoff /\ db'[p].datoff = db[p].datoff
    BY <1>21 DEF ReuseDat, DB
  <2>q. QED
    BY <1>k, <2>1
<1>22. CASE ReuseIdx(p)
  <2>1. /\ pc[p] \in HoldLabels
        /\ db'[p].idxoff = db[p].idxoff /\ db'[p].datoff = db[p].datoff
    BY <1>22 DEF ReuseIdx, DB
  <2>q. QED
    BY <1>k, <2>1
<1>23. CASE AppDat(p)
  BY <1>23 DEF AppDat
<1>24. CASE AppDatW(p)
  BY <1>24 DEF AppDatW
<1>25. CASE AppIdx(p)
  BY <1>25 DEF AppIdx
<1>26. CASE AppIdxW(p)
  <2>1. db'[p] = db[p] /\ db[p].idxoff \in Recs /\ db[p].idxoff < idxend'
    BY <1>26, SetFacts DEF AppIdxW, TailOK
  <2>2. idx'[db[p].idxoff].datoff = db[p].datoff /\ idx'[db[p].idxoff].klen # 0
    BY <1>26, <2>1, KeyPos, KeyLabelFacts, WriteIdxAt DEF AppIdxW, StoreLabels, AppSteps
  <2>q. QED
    BY <2>1, <2>2 DEF Written, Held
<1>27. CASE DatFull(p)
  BY <1>27 DEF DatFull, Die, Exit
<1>28. CASE IdxFull(p)
  BY <1>28 DEF IdxFull, Die, Exit
<1>29. CASE Link(p)
  BY <1>29 DEF Link
<1>30. CASE LinkQuit(p)
  BY <1>30 DEF LinkQuit, Die, Exit
<1>r. CASE IdxRefused(p)
  BY <1>r DEF IdxRefused, Die, Exit
<1>31. CASE Overwrite(p)
  BY <1>31 DEF Overwrite
<1>32. CASE ScanLock(p)
  BY <1>32 DEF ScanLock
<1>33. CASE ScanSkip(p)
  BY <1>33 DEF ScanSkip
<1>34. CASE ScanHit(p)
  <2>1. Written(pos[p]) /\ db'[p] = [ReadIdx(p, pos[p]) EXCEPT !.ptrval = 0]
    BY <1>34 DEF ScanHit
  <2>2. db'[p].idxoff = pos[p] /\ db'[p].datoff = idx[pos[p]].datoff
    BY <2>1 DEF ReadIdx, DB
  <2>q. QED
    BY <2>1, <2>2, Grow DEF Written, Held
<1>35. CASE ScanEnd(p)
  BY <1>35 DEF ScanEnd
<1>36. CASE ScanAbort(p)
  BY <1>36 DEF ScanAbort, Die, Exit
<1>37. CASE ScanDat(p)
  BY <1>37 DEF ScanDat
<1>38. CASE ScanUnlock(p)
  BY <1>38 DEF ScanUnlock, Leave
<1>39. CASE Rewind(p)
  BY <1>39 DEF Rewind
<1>40. CASE Restart(p)
  BY <1>40 DEF Restart
<1>41. CASE Crash(p)
  BY <1>41 DEF Crash, Die, Exit
<1>q. QED
  BY <1>1, <1>2, <1>3, <1>4, <1>5, <1>6, <1>7, <1>8, <1>9, <1>10, <1>11, <1>12, <1>13,
     <1>14, <1>15, <1>16, <1>17, <1>18, <1>19, <1>20, <1>21, <1>22, <1>23, <1>24, <1>25, <1>26,
     <1>27, <1>28, <1>29, <1>30, <1>r, <1>31, <1>32, <1>33, <1>34, <1>35, <1>36, <1>37, <1>38, <1>39,
     <1>40, <1>41
  DEF Step, Locking, Working

\* A process loses a lock only by its own steps.
LEMMA LocksKept ==
  ASSUME TypeOK, ReqOK, NEW p \in Procs, Step(p) \/ Crash(p),
         NEW q \in Procs, q # p, NEW l \in Locks
  PROVE  /\ wlock[l] = q => wlock'[l] = q
         /\ q \in rlock[l] => q \in rlock'[l]
<1> USE SetFacts, ProcAssumption DEF TypeOK, locks
<1>1. CASE Call(p)
  BY <1>1 DEF Call
<1>2. CASE RejectFlag(p)
  BY <1>2 DEF RejectFlag
<1>3. CASE RejectLen(p)
  BY <1>3 DEF RejectLen, Die, Exit
<1>4. CASE Return(p)
  BY <1>4 DEF Return
<1>5. CASE FindAndLock(p)
  <2>1. Chain(p) \in Locks
    BY <1>5, KeyLabelFacts, ReqFacts DEF FindAndLock
  <2>2. CASE ReadLock(p, Chain(p))
    BY <2>1, <2>2 DEF ReadLock
  <2>3. CASE WriteLock(p, Chain(p))
    BY <2>1, <2>3 DEF WriteLock
  <2>q. QED
    BY <1>5, <2>2, <2>3 DEF FindAndLock
<1>6. CASE FindNext(p)
  BY <1>6 DEF FindNext
<1>7. CASE FindHit(p)
  BY <1>7 DEF FindHit
<1>8. CASE FindMiss(p)
  BY <1>8 DEF FindMiss
<1>9. CASE ReadDat(p)
  BY <1>9 DEF ReadDat
<1>10. CASE Unlock(p)
  <2>1. Chain(p) \in Locks
    BY <1>10, KeyLabelFacts, ReqFacts DEF Unlock
  <2>q. QED
    BY <1>10, <2>1 DEF Unlock, UnLock
<1>11. CASE DelFree(p)
  BY <1>11 DEF DelFree, WriteLock
<1>12. CASE DelBlank(p)
  BY <1>12 DEF DelBlank
<1>13. CASE DelIdx(p)
  BY <1>13 DEF DelIdx
<1>14. CASE DelHead(p)
  BY <1>14 DEF DelHead
<1>15. CASE DelUnlink(p)
  BY <1>15 DEF DelUnlink, UnLock
<1>16. CASE FreeLock(p)
  BY <1>16 DEF FreeLock, WriteLock
<1>17. CASE FreeNext(p)
  BY <1>17 DEF FreeNext
<1>18. CASE FreeHit(p)
  BY <1>18 DEF FreeHit
<1>19. CASE FreeMiss(p)
  BY <1>19 DEF FreeMiss, UnLock
<1>20. CASE FreeTake(p)
  BY <1>20 DEF FreeTake, UnLock
<1>21. CASE ReuseDat(p)
  BY <1>21 DEF ReuseDat
<1>22. CASE ReuseIdx(p)
  BY <1>22 DEF ReuseIdx
<1>23. CASE AppDat(p)
  BY <1>23 DEF AppDat, WriteLock
<1>24. CASE AppDatW(p)
  BY <1>24 DEF AppDatW, UnLock
<1>25. CASE AppIdx(p)
  BY <1>25 DEF AppIdx, WriteLock
<1>26. CASE AppIdxW(p)
  BY <1>26 DEF AppIdxW, UnLock
<1>27. CASE DatFull(p)
  BY <1>27 DEF DatFull, Die, Exit
<1>28. CASE IdxFull(p)
  BY <1>28 DEF IdxFull, Die, Exit
<1>29. CASE Link(p)
  BY <1>29 DEF Link
<1>30. CASE LinkQuit(p)
  BY <1>30 DEF LinkQuit, Die, Exit
<1>r. CASE IdxRefused(p)
  BY <1>r DEF IdxRefused, Die, Exit
<1>31. CASE Overwrite(p)
  BY <1>31 DEF Overwrite
<1>32. CASE ScanLock(p)
  BY <1>32 DEF ScanLock, ReadLock
<1>33. CASE ScanSkip(p)
  BY <1>33 DEF ScanSkip
<1>34. CASE ScanHit(p)
  BY <1>34 DEF ScanHit
<1>35. CASE ScanEnd(p)
  BY <1>35 DEF ScanEnd
<1>36. CASE ScanAbort(p)
  BY <1>36 DEF ScanAbort, Die, Exit
<1>37. CASE ScanDat(p)
  BY <1>37 DEF ScanDat
<1>38. CASE ScanUnlock(p)
  BY <1>38 DEF ScanUnlock, UnLock
<1>39. CASE Rewind(p)
  BY <1>39 DEF Rewind
<1>40. CASE Restart(p)
  BY <1>40 DEF Restart
<1>41. CASE Crash(p)
  BY <1>41 DEF Crash, Die, Exit
<1>q. QED
  BY <1>1, <1>2, <1>3, <1>4, <1>5, <1>6, <1>7, <1>8, <1>9, <1>10, <1>11, <1>12, <1>13,
     <1>14, <1>15, <1>16, <1>17, <1>18, <1>19, <1>20, <1>21, <1>22, <1>23, <1>24, <1>25, <1>26,
     <1>27, <1>28, <1>29, <1>30, <1>r, <1>31, <1>32, <1>33, <1>34, <1>35, <1>36, <1>37, <1>38, <1>39,
     <1>40, <1>41
  DEF Step, Locking, Working

\* The labels a step can lead to that TailOK and FreshOK speak of.
LEMMA TailMoves ==
  ASSUME TypeOK, NEW p \in Procs, Step(p) \/ Crash(p)
  PROVE  /\ pc'[p] = "appdatw" => AppDat(p)
         /\ pc'[p] = "appidxw" => AppIdx(p)
         /\ pc'[p] = "appidx"  => AppDatW(p)
<1> USE DEF TypeOK, Goto
<1>1. CASE Call(p)
  BY <1>1 DEF Call
<1>2. CASE RejectFlag(p)
  BY <1>2 DEF RejectFlag
<1>3. CASE RejectLen(p)
  BY <1>3 DEF RejectLen, Die, Exit
<1>4. CASE Return(p)
  BY <1>4 DEF Return, Leave
<1>5. CASE FindAndLock(p)
  BY <1>5 DEF FindAndLock
<1>6. CASE FindNext(p)
  BY <1>6 DEF FindNext
<1>7. CASE FindHit(p)
  <2>1. pc'[p] \in {"readdat", "unlock", "overwrite", "delfree"}
    BY <1>7 DEF FindHit
  <2>q. QED
    BY <2>1
<1>8. CASE FindMiss(p)
  BY <1>8 DEF FindMiss
<1>9. CASE ReadDat(p)
  BY <1>9 DEF ReadDat
<1>10. CASE Unlock(p)
  BY <1>10 DEF Unlock, Leave
<1>11. CASE DelFree(p)
  BY <1>11 DEF DelFree
<1>12. CASE DelBlank(p)
  BY <1>12 DEF DelBlank
<1>13. CASE DelIdx(p)
  BY <1>13 DEF DelIdx
<1>14. CASE DelHead(p)
  BY <1>14 DEF DelHead
<1>15. CASE DelUnlink(p)
  BY <1>15 DEF DelUnlink
<1>16. CASE FreeLock(p)
  BY <1>16 DEF FreeLock
<1>17. CASE FreeNext(p)
  BY <1>17 DEF FreeNext
<1>18. CASE FreeHit(p)
  BY <1>18 DEF FreeHit
<1>19. CASE FreeMiss(p)
  BY <1>19 DEF FreeMiss
<1>20. CASE FreeTake(p)
  BY <1>20 DEF FreeTake
<1>21. CASE ReuseDat(p)
  BY <1>21 DEF ReuseDat
<1>22. CASE ReuseIdx(p)
  BY <1>22 DEF ReuseIdx
<1>23. CASE AppDat(p)
  BY <1>23 DEF AppDat
<1>24. CASE AppDatW(p)
  BY <1>24 DEF AppDatW
<1>25. CASE AppIdx(p)
  BY <1>25 DEF AppIdx
<1>26. CASE AppIdxW(p)
  BY <1>26 DEF AppIdxW
<1>27. CASE DatFull(p)
  BY <1>27 DEF DatFull, Die, Exit
<1>28. CASE IdxFull(p)
  BY <1>28 DEF IdxFull, Die, Exit
<1>29. CASE Link(p)
  BY <1>29 DEF Link
<1>30. CASE LinkQuit(p)
  BY <1>30 DEF LinkQuit, Die, Exit
<1>r. CASE IdxRefused(p)
  BY <1>r DEF IdxRefused, Die, Exit
<1>31. CASE Overwrite(p)
  BY <1>31 DEF Overwrite
<1>32. CASE ScanLock(p)
  BY <1>32 DEF ScanLock
<1>33. CASE ScanSkip(p)
  BY <1>33 DEF ScanSkip
<1>34. CASE ScanHit(p)
  BY <1>34 DEF ScanHit
<1>35. CASE ScanEnd(p)
  BY <1>35 DEF ScanEnd
<1>36. CASE ScanAbort(p)
  BY <1>36 DEF ScanAbort, Die, Exit
<1>37. CASE ScanDat(p)
  BY <1>37 DEF ScanDat
<1>38. CASE ScanUnlock(p)
  BY <1>38 DEF ScanUnlock, Leave
<1>39. CASE Rewind(p)
  BY <1>39 DEF Rewind
<1>40. CASE Restart(p)
  BY <1>40 DEF Restart
<1>41. CASE Crash(p)
  BY <1>41 DEF Crash, Die, Exit
<1>q. QED
  BY <1>1, <1>2, <1>3, <1>4, <1>5, <1>6, <1>7, <1>8, <1>9, <1>10, <1>11, <1>12, <1>13,
     <1>14, <1>15, <1>16, <1>17, <1>18, <1>19, <1>20, <1>21, <1>22, <1>23, <1>24, <1>25, <1>26,
     <1>27, <1>28, <1>29, <1>30, <1>r, <1>31, <1>32, <1>33, <1>34, <1>35, <1>36, <1>37, <1>38, <1>39,
     <1>40, <1>41
  DEF Step, Locking, Working

LEMMA TailStep ==
  ASSUME TypeOK, ReqOK, HeldOK, TailOK, NEW p \in Procs, Step(p) \/ Crash(p)
  PROVE  TailOK'
<1>1. ASSUME NEW q \in Procs, q # p, pc'[q] = "appdatw"
      PROVE  wlock'[DatTail] = q /\ db'[q].datoff = datend'
  <2>1. pc[q] = "appdatw" /\ db'[q] = db[q]
    BY <1>1, Frame
  <2>2. wlock[DatTail] = q /\ db[q].datoff = datend
    BY <2>1 DEF TailOK
  <2>3. ~AppDatW(p) /\ ~DatFull(p)
    BY <1>1, <2>2 DEF AppDatW, DatFull, TailOK
  <2>q. QED
    BY <1>1, <2>1, <2>2, <2>3, LocksKept, SetFacts, Grow
<1>2. ASSUME NEW q \in Procs, q # p, pc'[q] = "appidxw"
      PROVE  wlock'[IdxTail] = q /\ db'[q].idxoff = idxend'
  <2>1. pc[q] = "appidxw" /\ db'[q] = db[q]
    BY <1>2, Frame
  <2>2. wlock[IdxTail] = q /\ db[q].idxoff = idxend
    BY <2>1 DEF TailOK
  <2>3. ~AppIdxW(p) /\ ~IdxFull(p)
    BY <1>2, <2>2 DEF AppIdxW, IdxFull, TailOK
  <2>q. QED
    BY <1>2, <2>1, <2>2, <2>3, LocksKept, SetFacts, Grow
<1>3. pc'[p] = "appdatw" => wlock'[DatTail] = p /\ db'[p].datoff = datend'
  <2>1. SUFFICES ASSUME AppDat(p)
                 PROVE  wlock'[DatTail] = p /\ db'[p].datoff = datend'
    BY TailMoves
  <2>q. QED
    BY <2>1, SetFacts DEF AppDat, WriteLock, TypeOK, DB, file
<1>4. pc'[p] = "appidxw" => wlock'[IdxTail] = p /\ db'[p].idxoff = idxend'
  <2>1. SUFFICES ASSUME AppIdx(p)
                 PROVE  wlock'[IdxTail] = p /\ db'[p].idxoff = idxend'
    BY TailMoves
  <2>q. QED
    BY <2>1, SetFacts DEF AppIdx, WriteLock, TypeOK, DB, file
<1>q. QED
  BY <1>1, <1>2, <1>3, <1>4 DEF TailOK

LEMMA FreshStep ==
  ASSUME TypeOK, ReqOK, HeldOK, TailOK, FreshOK, NEW p \in Procs, Step(p) \/ Crash(p)
  PROVE  FreshOK'
<1>a. /\ datend \in Nat /\ datend' \in Nat
      /\ \A q \in Procs : db[q].datoff \in Nat
      /\ \A r \in Recs : idx[r].datoff \in Nat
  <2>1. TypeOK'
    BY TypeStep
  <2>q. QED
    BY <2>1, SetFacts DEF TypeOK, DB, IdxRec
\* A process that has just appended its data holds the place that was the end.
<1>b. ASSUME AppDatW(p)
      PROVE  /\ db[p].datoff = datend /\ datend' = datend + 1 /\ db'[p] = db[p]
             /\ \A r \in Recs : Written(r)' <=> Written(r)
  BY <1>a, <1>b DEF AppDatW, TailOK, Written
\* One that has looked up the end of the index file was fresh already.
<1>c. ASSUME AppIdx(p)
      PROVE  pc[p] = "appidx" /\ db'[p].datoff = db[p].datoff
  BY <1>c DEF AppIdx, TypeOK, DB
<1>d. ASSUME NEW q \in Procs, Fresh(q)'
      PROVE  \/ Fresh(q) /\ db'[q].datoff = db[q].datoff /\ ~(AppDatW(p) /\ q = p)
             \/ q = p /\ AppDatW(p)
  <2>1. CASE q # p
    BY <1>d, <2>1, Frame DEF Fresh
  <2>2. CASE q = p
    BY <1>c, <1>d, <2>2, TailMoves DEF Fresh, AppDatW, AppIdx
  <2>q. QED
    BY <2>1, <2>2
\* A process that appends an index record was fresh and is not any more.
<1>e. ASSUME NEW r \in Recs, Written(r)', ~Written(r)
      PROVE  Fresh(p) /\ idx'[r].datoff = db[p].datoff /\ ~(Fresh(p)') /\ ~AppDatW(p)
  <2>1. AppIdxW(p) /\ idx'[r].datoff = db[p].datoff
    BY <1>e, Grow DEF AppendedBy
  <2>q. QED
    BY <2>1 DEF AppIdxW, AppDatW, Fresh, Goto, TypeOK
<1>1. ASSUME NEW r \in Recs, Written(r)'
      PROVE  idx'[r].datoff < datend'
  <2>1. CASE Written(r)
    BY <1>a, <2>1, Grow DEF FreshOK
  <2>2. CASE ~Written(r)
    BY <1>1, <1>a, <1>e, <2>2, Grow DEF FreshOK
  <2>q. QED
    BY <2>1, <2>2
<1>2. ASSUME NEW q \in Procs, Fresh(q)'
      PROVE  db'[q].datoff < datend'
  BY <1>2, <1>a, <1>b, <1>d, Grow DEF FreshOK
<1>3. ASSUME NEW q \in Procs, Fresh(q)', NEW r \in Recs, Written(r)'
      PROVE  idx'[r].datoff # db'[q].datoff
  <2>1. CASE q = p /\ AppDatW(p)
    BY <2>1, <1>3, <1>a, <1>b, Grow DEF FreshOK
  <2>2. CASE Fresh(q) /\ db'[q].datoff = db[q].datoff /\ Written(r)
    BY <2>2, Grow DEF FreshOK
  <2>3. CASE Fresh(q) /\ db'[q].datoff = db[q].datoff /\ ~Written(r)
    BY <2>3, <1>3, <1>e DEF FreshOK
  <2>q. QED
    BY <1>3, <1>d, <2>1, <2>2, <2>3
<1>4. ASSUME NEW q \in Procs, Fresh(q)', NEW s \in Procs, Fresh(s)', s # q
      PROVE  db'[s].datoff # db'[q].datoff
  BY <1>4, <1>a, <1>b, <1>d DEF FreshOK
<1>q. QED
  BY <1>1, <1>2, <1>3, <1>4 DEF FreshOK

LEMMA PrivateStep ==
  ASSUME TypeOK, ReqOK, HeldOK, TailOK, FreshOK, DataPrivate, NEW p \in Procs, Step(p) \/ Crash(p)
  PROVE  DataPrivate'
<1> SUFFICES ASSUME NEW r \in Recs, NEW s \in Recs, Written(r)', Written(s)',
                    idx'[r].datoff = idx'[s].datoff
             PROVE  r = s
  BY DEF DataPrivate
<1>1. CASE Written(r) /\ Written(s)
  BY <1>1, Grow DEF DataPrivate
<1>2. CASE ~Written(r) /\ ~Written(s)
  BY <1>2, Grow DEF AppendedBy
<1>3. ASSUME NEW u \in Recs, NEW v \in Recs, Written(u)', Written(v), ~Written(u)
      PROVE  idx'[u].datoff # idx'[v].datoff
  <2>1. AppIdxW(p) /\ idx'[u].datoff = db[p].datoff
    BY <1>3, Grow DEF AppendedBy
  <2>q. QED
    BY <1>3, <2>1, Grow DEF FreshOK, Fresh, AppIdxW
<1>q. QED
  BY <1>1, <1>2, <1>3

-----------------------------------------------------------------------------
(* Pointers and lengths *)

\* The steps that write a record or a pointer.
Writes(p) == \/ DelBlank(p) \/ DelIdx(p) \/ DelHead(p) \/ DelUnlink(p) \/ FreeTake(p)
             \/ ReuseDat(p) \/ ReuseIdx(p) \/ AppDatW(p) \/ AppIdxW(p)
             \/ Link(p) \/ Overwrite(p)

LEMMA WriteSteps ==
  ASSUME NEW p \in Procs, Step(p) \/ Crash(p)
  PROVE  UNCHANGED file \/ Writes(p) \/ DatFull(p) \/ IdxFull(p)
BY DEF Step, Locking, Working, Writes, file, Call, RejectFlag, RejectLen, Return,
   FindAndLock, FindNext, FindHit, FindMiss, ReadDat, Unlock, DelFree, FreeLock,
   FreeNext, FreeHit, FreeMiss, AppDat, AppIdx, DatFull, IdxRefused, IdxFull, LinkQuit, ScanLock,
   ScanSkip, ScanHit, ScanEnd, ScanAbort, ScanDat, ScanUnlock, Rewind, Restart, Crash,
   Die, Exit, Leave

\* What every step leaves of a written record: its lengths, its place in the
\* data file and the length of its data.
Kept(r) == /\ idx'[r].klen = idx[r].klen
           /\ idx'[r].datoff = idx[r].datoff
           /\ idx'[r].datlen = idx[r].datlen
           /\ dat'[idx[r].datoff].len = dat[idx[r].datoff].len

LEMMA WriteIdxKeeps ==
  ASSUME TypeOK, NEW p \in Procs, NEW r \in Recs, NEW k, NEW n, NEW x,
         WriteIdx(p, r, k, n, x), n = idx[r].klen,
         db[p].datoff = idx[r].datoff, db[p].datlen = idx[r].datlen
  PROVE  \A s \in Recs : /\ idx'[s].klen = idx[s].klen
                         /\ idx'[s].datoff = idx[s].datoff
                         /\ idx'[s].datlen = idx[s].datlen
<1>1. idx'[r] = [key |-> k, klen |-> n, datoff |-> db[p].datoff, datlen |-> db[p].datlen]
  BY DEF WriteIdx, TypeOK
<1>2. \A s \in Recs : s # r => idx'[s] = idx[s]
  BY DEF WriteIdx, TypeOK
<1>3. /\ idx'[r].klen = idx[r].klen
      /\ idx'[r].datoff = idx[r].datoff
      /\ idx'[r].datlen = idx[r].datlen
  BY <1>1
<1>q. QED
  BY <1>2, <1>3

LEMMA WriteDatKeeps ==
  ASSUME TypeOK, NEW d \in 0..(MaxDats - 1), NEW v, NEW n, WriteDat(d, v, n),
         n = dat[d].len
  PROVE  \A e \in 0..(MaxDats - 1) : dat'[e].len = dat[e].len
<1>1. dat'[d] = [val |-> v, len |-> n]
  BY DEF WriteDat, TypeOK
<1>2. \A e \in 0..(MaxDats - 1) : e # d => dat'[e] = dat[e]
  BY DEF WriteDat, TypeOK
<1>3. dat'[d].len = dat[d].len
  BY <1>1
<1>q. QED
  BY <1>2, <1>3

\* What a process knows of the record it works on.
LEMMA HeldFacts ==
  ASSUME TypeOK, HeldOK, FreshOK, ShapeOK, NEW p \in Procs, pc[p] \in HoldLabels
  PROVE  LET r == db[p].idxoff
         IN  /\ r \in Recs /\ Written(r)
             /\ db[p].datoff = idx[r].datoff /\ db[p].datlen = idx[r].datlen
             /\ db[p].datoff \in 0..(MaxDats - 1) /\ db[p].datoff < datend
             /\ dat[db[p].datoff].len = db[p].datlen
             /\ pc[p] \in DelSteps \cup TakeLabels => idx[r].klen = KeyLen[req[p].key]
             /\ pc[p] \in {"overwrite"} \cup TakeLabels => db[p].datlen = DatLen[req[p].val]
<1>1. PICK r : r = db[p].idxoff
  OBVIOUS
<1>2. Written(r) /\ r \in Recs /\ idx[r].datoff = db[p].datoff
  BY <1>1 DEF HeldOK, Held, Written
<1>3. LenOK(p) /\ RecOK(r)
  BY <1>2 DEF ShapeOK
<1>4. db[p].datoff < datend
  BY <1>2 DEF FreshOK
<1>5. db[p].datoff \in 0..(MaxDats - 1)
  BY <1>4, SizeAssumption DEF TypeOK, DB, DatOffs
<1>q. QED
  BY <1>1, <1>2, <1>3, <1>4, <1>5 DEF LenOK, RecOK

LEMMA ShapeKept ==
  ASSUME IInv, ShapeOK, NEW p \in Procs, Step(p) \/ Crash(p), NEW s \in Recs, Written(s)
  PROVE  Kept(s)
<1>1. TypeOK /\ ReqOK /\ HeldOK /\ TailOK /\ FreshOK
  BY DEF IInv
<1>2. idx[s].datoff \in 0..(MaxDats - 1) /\ idx[s].datoff < datend
  BY <1>1, SizeAssumption DEF FreshOK, TypeOK, IdxRec, DatOffs
<1>3. CASE UNCHANGED file
  BY <1>3 DEF file, Kept
<1>4. ASSUME pc[p] \in HoldLabels, idx' = idx, NEW v, NEW n, WriteDat(db[p].datoff, v, n),
             n = db[p].datlen
      PROVE  Kept(s)
  <2>1. db[p].datoff \in 0..(MaxDats - 1) /\ n = dat[db[p].datoff].len
    BY <1>1, <1>4, HeldFacts
  <2>2. dat'[idx[s].datoff].len = dat[idx[s].datoff].len
    BY <1>1, <1>2, <1>4, <2>1, WriteDatKeeps
  <2>q. QED
    BY <1>4, <2>2 DEF Kept
<1>5. ASSUME pc[p] \in DelSteps \cup TakeLabels, dat' = dat, NEW k, NEW x,
             WriteIdx(p, db[p].idxoff, k, KeyLen[req[p].key], x)
      PROVE  Kept(s)
  <2>1. pc[p] \in HoldLabels
    BY <1>5 DEF HoldLabels, TakeLabels
  <2>2. PICK r : r = db[p].idxoff
    OBVIOUS
  <2>3. /\ r \in Recs /\ KeyLen[req[p].key] = idx[r].klen
        /\ db[p].datoff = idx[r].datoff /\ db[p].datlen = idx[r].datlen
    BY <1>1, <1>5, <2>1, <2>2, HeldFacts
  <2>4. WriteIdx(p, r, k, KeyLen[req[p].key], x)
    BY <1>5, <2>2
  <2>q. QED
    BY <1>1, <1>5, <2>3, <2>4, WriteIdxKeeps DEF Kept
<1>6. CASE DelBlank(p)
  BY <1>4, <1>6 DEF DelBlank, HoldLabels, DelSteps
<1>7. CASE DelIdx(p)
  BY <1>5, <1>7 DEF DelIdx, DelSteps
<1>8. CASE DelHead(p) \/ DelUnlink(p) \/ FreeTake(p) \/ Link(p)
  BY <1>8 DEF DelHead, DelUnlink, FreeTake, Link, Kept
<1>9. CASE ReuseDat(p)
  <2>1. pc[p] = "reusedat" /\ DatLen[req[p].val] = db[p].datlen
    BY <1>1, <1>9 DEF ReuseDat, ShapeOK, LenOK, TakeLabels
  <2>q. QED
    BY <1>4, <1>9, <2>1 DEF ReuseDat, HoldLabels
<1>10. CASE ReuseIdx(p)
  BY <1>5, <1>10 DEF ReuseIdx, TakeLabels
<1>11. CASE Overwrite(p)
  <2>1. pc[p] = "overwrite" /\ DatLen[req[p].val] = db[p].datlen
    BY <1>1, <1>11 DEF Overwrite, ShapeOK, LenOK
  <2>q. QED
    BY <1>4, <1>11, <2>1 DEF Overwrite, HoldLabels
<1>12. CASE AppDatW(p)
  <2>1. db[p].datoff = datend /\ idx' = idx
    BY <1>1, <1>12 DEF AppDatW, TailOK
  <2>2. idx[s].datoff # db[p].datoff
    BY <1>1, <1>2, <2>1, SetFacts DEF TypeOK
  <2>3. dat'[idx[s].datoff] = dat[idx[s].datoff]
    BY <1>1, <1>2, <1>12, <2>2 DEF AppDatW, WriteDat, TypeOK
  <2>q. QED
    BY <2>1, <2>3 DEF Kept
<1>13. CASE AppIdxW(p)
  <2>1. db[p].idxoff = idxend /\ dat' = dat
    BY <1>1, <1>13 DEF AppIdxW, TailOK
  <2>2. s # db[p].idxoff
    BY <1>1, <2>1, SetFacts DEF TypeOK, Written
  <2>3. idx'[s] = idx[s]
    BY <1>1, <1>13, <2>2 DEF AppIdxW, WriteIdx, TypeOK
  <2>q. QED
    BY <2>1, <2>3 DEF Kept
<1>14. CASE DatFull(p) \/ IdxFull(p)
  <2>1. idx[s].datoff \in DatOffs
    BY <1>1 DEF TypeOK, IdxRec
  <2>q. QED
    BY <1>1, <1>2, <1>14, <2>1, Partial DEF Kept
<1>q. QED
  BY <1>3, <1>6, <1>7, <1>8, <1>9, <1>10, <1>11, <1>12, <1>13, <1>14, WriteSteps DEF Writes

\* The labels at which a process has read something of the files that it is
\* going to use, and the steps that lead to them.
WorkLabels == FindLabels \cup HoldLabels \cup {"appdatw", "appidx", "appidxw"}
Enters(p) == \/ FindAndLock(p) \/ FindNext(p) \/ FindHit(p) \/ DelFree(p) \/ DelBlank(p)
             \/ DelIdx(p) \/ DelHead(p) \/ FreeLock(p) \/ FreeNext(p) \/ FreeHit(p)
             \/ FreeTake(p) \/ ReuseDat(p) \/ ReuseIdx(p) \/ AppDat(p) \/ AppDatW(p)
             \/ AppIdx(p) \/ AppIdxW(p) \/ ScanHit(p)

LEMMA EnterSteps ==
  ASSUME TypeOK, NEW p \in Procs, Step(p) \/ Crash(p), pc'[p] \in WorkLabels
  PROVE  Enters(p)
<1>1. pc'[p] \notin {"ready", "dead", "lock", "return", "unlock", "freelock", "appdat",
                    "scanlock", "scan", "scanunlock"}
  BY DEF WorkLabels, FindLabels, HoldLabels, DelSteps
<1>2. /\ ~Call(p) /\ ~RejectFlag(p) /\ ~RejectLen(p) /\ ~Return(p) /\ ~ReadDat(p)
      /\ ~Unlock(p) /\ ~DatFull(p) /\ ~IdxRefused(p) /\ ~IdxFull(p) /\ ~Link(p) /\ ~LinkQuit(p)
  BY <1>1 DEF TypeOK, Goto, Call, RejectFlag, RejectLen, Return, ReadDat, Unlock, DatFull,
     IdxRefused, IdxFull, Link, LinkQuit, Die, Exit, Leave
<1>3. ~FindMiss(p) /\ ~DelUnlink(p) /\ ~FreeMiss(p) /\ ~Overwrite(p)
  BY <1>1 DEF TypeOK, Goto, FindMiss, DelUnlink, FreeMiss, Overwrite
<1>4. /\ ~ScanLock(p) /\ ~ScanSkip(p) /\ ~ScanEnd(p) /\ ~ScanAbort(p) /\ ~ScanDat(p)
      /\ ~ScanUnlock(p) /\ ~Rewind(p) /\ ~Restart(p) /\ ~Crash(p)
  BY <1>1 DEF TypeOK, Goto, ScanLock, ScanSkip, ScanEnd, ScanAbort, ScanDat, ScanUnlock,
     Rewind, Restart, Crash, Die, Exit, Leave
<1>q. QED
  BY <1>2, <1>3, <1>4 DEF Step, Locking, Working, Enters


\* Data that has no index record yet is written by its owner only.
LEMMA FreshKept ==
  ASSUME IInv, ShapeOK, NEW p \in Procs, Step(p) \/ Crash(p), NEW q \in Procs, q # p, Fresh(q)
  PROVE  dat'[db[q].datoff] = dat[db[q].datoff]
<1>1. TypeOK /\ ReqOK /\ HeldOK /\ TailOK /\ FreshOK
  BY DEF IInv
<1>2. /\ db[q].datoff < datend /\ datend \in Nat /\ db[q].datoff \in Nat
      /\ \A r \in Recs : Written(r) => idx[r].datoff # db[q].datoff
  BY <1>1, SetFacts DEF FreshOK, TypeOK, DB
<1>3. ASSUME NEW d, d # db[q].datoff, NEW v, NEW n, WriteDat(d, v, n)
      PROVE  dat'[db[q].datoff] = dat[db[q].datoff]
  BY <1>1, <1>3 DEF WriteDat, TypeOK
<1>4. pc[p] \in HoldLabels => db[p].datoff # db[q].datoff
  BY <1>1, <1>2, HeldFacts
<1>5. CASE UNCHANGED file
  BY <1>5 DEF file
<1>6. CASE DelBlank(p) \/ ReuseDat(p) \/ Overwrite(p)
  <2>1. pc[p] \in HoldLabels
    BY <1>6 DEF DelBlank, ReuseDat, Overwrite, HoldLabels, DelSteps
  <2>2. \E v, n : WriteDat(db[p].datoff, v, n)
    BY <1>6 DEF DelBlank, ReuseDat, Overwrite
  <2>q. QED
    BY <1>3, <1>4, <2>1, <2>2
<1>7. CASE AppDatW(p)
  <2>1. db[p].datoff = datend /\ WriteDat(db[p].datoff, req[p].val, DatLen[req[p].val])
    BY <1>1, <1>7 DEF AppDatW, TailOK
  <2>2. db[p].datoff # db[q].datoff
    BY <1>2, <2>1
  <2>q. QED
    BY <1>3, <2>1, <2>2
<1>8. CASE DelIdx(p) \/ DelHead(p) \/ DelUnlink(p) \/ FreeTake(p) \/ ReuseIdx(p)
           \/ AppIdxW(p) \/ Link(p)
  BY <1>8 DEF DelIdx, DelHead, DelUnlink, FreeTake, ReuseIdx, AppIdxW, Link
<1>9. CASE DatFull(p) \/ IdxFull(p)
  <2>1. db[q].datoff \in DatOffs
    BY <1>1 DEF TypeOK, DB
  <2>q. QED
    BY <1>1, <1>2, <1>9, <2>1, Partial
<1>q. QED
  BY <1>5, <1>6, <1>7, <1>8, <1>9, WriteSteps DEF Writes

\* The key of a record changes to blanks, or with a record taken from the free
\* list to the key that is stored.
LEMMA KeyKept ==
  ASSUME IInv, NEW p \in Procs, Step(p) \/ Crash(p), NEW r \in Recs, Written(r)
  PROVE  \/ idx'[r].key \in {idx[r].key, SPACE}
         \/ pc[p] = "reuseidx" /\ r = db[p].idxoff /\ idx'[r].key = req[p].key
<1>1. TypeOK /\ TailOK
  BY DEF IInv
<1>2. CASE UNCHANGED file
  BY <1>2 DEF file
<1>3. ASSUME NEW s, NEW k, NEW n, NEW x, WriteIdx(p, s, k, n, x)
      PROVE  (r = s => idx'[r].key = k) /\ (r # s => idx'[r].key = idx[r].key)
  BY <1>1, <1>3 DEF WriteIdx, TypeOK
<1>4. CASE DelIdx(p)
  BY <1>3, <1>4 DEF DelIdx
<1>5. CASE ReuseIdx(p)
  BY <1>3, <1>5 DEF ReuseIdx
<1>6. CASE AppIdxW(p)
  <2>1. r # db[p].idxoff
    BY <1>1, <1>6, SetFacts DEF AppIdxW, TailOK, Written, TypeOK
  <2>q. QED
    BY <1>3, <1>6, <2>1 DEF AppIdxW
<1>7. CASE DelBlank(p) \/ DelHead(p) \/ DelUnlink(p) \/ FreeTake(p) \/ ReuseDat(p)
           \/ AppDatW(p) \/ Link(p) \/ Overwrite(p)
  BY <1>7 DEF DelBlank, DelHead, DelUnlink, FreeTake, ReuseDat, AppDatW, Link, Overwrite
<1>8. CASE DatFull(p) \/ IdxFull(p)
  BY <1>1, <1>8, Partial
<1>q. QED
  BY <1>2, <1>4, <1>5, <1>6, <1>7, <1>8, WriteSteps DEF Writes

LEMMA RecordStep ==
  ASSUME IInv, ShapeOK, NEW p \in Procs, Step(p) \/ Crash(p), NEW r \in Recs, Written(r)'
  PROVE  RecOK(r)'
<1>1. TypeOK /\ ReqOK /\ HeldOK /\ TailOK /\ FreshOK
  BY DEF IInv
<1>2. CASE Written(r)
  <2>1. Kept(r) /\ RecOK(r)
    BY <1>2, ShapeKept DEF ShapeOK
  <2>2. dat'[idx'[r].datoff].len = idx'[r].datlen
    BY <2>1 DEF Kept, RecOK
  <2>3. idx'[r].key # SPACE => idx'[r].klen = KeyLen[idx'[r].key]
    <3>1. CASE idx'[r].key \in {idx[r].key, SPACE}
      BY <2>1, <3>1 DEF Kept, RecOK
    <3>2. CASE pc[p] = "reuseidx" /\ r = db[p].idxoff /\ idx'[r].key = req[p].key
      <4>1. idx[r].klen = KeyLen[req[p].key]
        BY <3>2 DEF ShapeOK, LenOK, TakeLabels
      <4>q. QED
        BY <2>1, <3>2, <4>1 DEF Kept
    <3>q. QED
      BY <1>2, <3>1, <3>2, KeyKept
  <2>q. QED
    BY <2>2, <2>3 DEF RecOK
<1>3. CASE ~Written(r)
  <2>1. AppIdxW(p) /\ r = db[p].idxoff
    BY <1>1, <1>3, Grow DEF AppendedBy
  <2>2. /\ idx'[r].key = req[p].key /\ idx'[r].klen = KeyLen[req[p].key]
        /\ idx'[r].datoff = db[p].datoff /\ idx'[r].datlen = db[p].datlen /\ dat' = dat
    BY <1>1, <2>1 DEF AppIdxW, WriteIdx, TypeOK
  <2>3. dat[db[p].datoff].len = db[p].datlen
    BY <2>1 DEF AppIdxW, ShapeOK, LenOK, Fresh
  <2>q. QED
    BY <2>2, <2>3 DEF RecOK
<1>q. QED
  BY <1>2, <1>3

\* What the other processes know stays true.
LEMMA LenFrame ==
  ASSUME IInv, ShapeOK, NEW p \in Procs, Step(p) \/ Crash(p), NEW q \in Procs, q # p
  PROVE  LenOK(q)'
<1>1. TypeOK /\ HeldOK /\ FreshOK /\ LenOK(q)
  BY DEF IInv, ShapeOK
<1>2. pc'[q] = pc[q] /\ req'[q] = req[q] /\ db'[q] = db[q]
  BY <1>1, Frame
<1>3. pc[q] \in HoldLabels => Kept(db[q].idxoff)
  BY <1>1, HeldFacts, ShapeKept
<1>4. Fresh(q) => dat'[db[q].datoff].len = dat[db[q].datoff].len
  BY FreshKept
<1>5. DelSteps \cup TakeLabels \subseteq HoldLabels
  BY DEF HoldLabels, TakeLabels
<1>q. QED
  BY <1>1, <1>2, <1>3, <1>4, <1>5 DEF LenOK, Fresh, Kept

\* What _db_readidx leaves in the DB structure.
LEMMA ReadIdxFields ==
  ASSUME TypeOK, NEW p \in Procs, NEW r
  PROVE  /\ ReadIdx(p, r).idxoff = r /\ ReadIdx(p, r).ptrval = ptr[r]
         /\ ReadIdx(p, r).datoff = idx[r].datoff /\ ReadIdx(p, r).datlen = idx[r].datlen
         /\ ReadIdx(p, r).next = db[p].next
BY DEF TypeOK, DB, ReadIdx

\* A process that goes on with a record knows its lengths.
LEMMA LenOwn ==
  ASSUME IInv, ShapeOK, NEW p \in Procs, Step(p) \/ Crash(p)
  PROVE  LenOK(p)'
<1>1. TypeOK /\ ReqOK /\ HeldOK /\ TailOK /\ FreshOK /\ LenOK(p) /\ pc[p] \in Labels
  BY DEF IInv, ShapeOK, TypeOK
<1>2. pc[p] \in HoldLabels => Kept(db[p].idxoff)
  BY <1>1, HeldFacts, ShapeKept
<1>3. DelSteps \cup TakeLabels \subseteq HoldLabels
  BY DEF HoldLabels, TakeLabels
<1>4. CASE pc'[p] \notin WorkLabels
  BY <1>3, <1>4 DEF LenOK, WorkLabels, HoldLabels, Fresh
\* A step that keeps the record, the request and the DB structure.
<1>5. ASSUME pc[p] \in HoldLabels, req'[p] = req[p],
             db'[p].idxoff = db[p].idxoff, db'[p].datlen = db[p].datlen,
             pc'[p] \in DelSteps => pc[p] \in DelSteps,
             pc'[p] \in TakeLabels => pc[p] \in TakeLabels,
             pc'[p] \notin {"overwrite", "appdatw", "appidx", "appidxw"}
      PROVE  LenOK(p)'
  BY <1>1, <1>2, <1>3, <1>5 DEF LenOK, Fresh, Kept
<1>6. CASE FindAndLock(p) \/ FindNext(p) \/ FreeLock(p) \/ FreeNext(p)
  <2>1. pc'[p] \in {"find", "freefind"}
    BY <1>1, <1>6 DEF FindAndLock, FindNext, FreeLock, FreeNext, Goto, TypeOK
  <2>q. QED
    BY <2>1 DEF LenOK, HoldLabels, TakeLabels, DelSteps, Fresh
<1>7. CASE FindHit(p)
  <2>1. PICK r : r = db[p].idxoff
    OBVIOUS
  <2>2. /\ r \in Recs /\ Written(r) /\ idx[r].key = req[p].key /\ db'[p] = ReadIdx(p, r)
        /\ UNCHANGED <<idx, req>>
    BY <1>1, <1>7, <2>1 DEF FindHit, Written, file, TypeOK
  <2>3. db'[p].idxoff = r /\ db'[p].datlen = idx[r].datlen
    BY <1>1, <2>2, ReadIdxFields
  <2>4. idx[r].klen = KeyLen[req[p].key]
    <3>1. req[p].key \in Keys
      BY <1>1, <1>7, KeyLabelFacts DEF FindHit, ReqOK
    <3>q. QED
      BY <2>2, <3>1, SpaceAssumption DEF ShapeOK, RecOK
  <2>5. pc'[p] \in {"readdat", "unlock", "overwrite", "delfree"}
    BY <1>1, <1>7 DEF FindHit, Goto, TypeOK
  <2>6. pc'[p] = "overwrite" => DatLen[req[p].val] = idx[r].datlen
    BY <1>1, <1>7, <2>1 DEF FindHit, Goto, TypeOK
  <2>q. QED
    BY <2>2, <2>3, <2>4, <2>5, <2>6 DEF LenOK, TakeLabels, Fresh
<1>8. CASE DelFree(p) \/ DelBlank(p) \/ DelIdx(p) \/ DelHead(p)
  <2>1. /\ pc[p] \in DelSteps /\ pc'[p] \in {"delblank", "delidx", "delhead", "delunlink"}
        /\ UNCHANGED <<req, db>>
    BY <1>1, <1>8 DEF DelFree, DelBlank, DelIdx, DelHead, Goto, TypeOK, DelSteps
  <2>q. QED
    BY <1>3, <1>5, <2>1 DEF TakeLabels
<1>9. CASE FreeHit(p)
  <2>1. PICK r : r = db[p].idxoff
    OBVIOUS
  <2>2. /\ Fits(p, r) /\ db'[p] = ReadIdx(p, r) /\ pc'[p] = "freetake" /\ UNCHANGED <<idx, req>>
    BY <1>1, <1>9, <2>1 DEF FreeHit, Goto, file, TypeOK
  <2>3. db'[p].idxoff = r /\ db'[p].datlen = idx[r].datlen
    BY <1>1, <2>2, ReadIdxFields
  <2>q. QED
    BY <2>2, <2>3 DEF LenOK, Fits, Fresh
<1>10. CASE FreeTake(p) \/ ReuseIdx(p)
  <2>1. /\ pc[p] \in TakeLabels /\ pc'[p] \in {"reusedat", "link"} /\ req' = req
        /\ db'[p].idxoff = db[p].idxoff /\ db'[p].datlen = db[p].datlen
    BY <1>1, <1>10 DEF FreeTake, ReuseIdx, Goto, TypeOK, TakeLabels, DB
  <2>q. QED
    BY <1>3, <1>5, <2>1 DEF DelSteps
<1>11. CASE ReuseDat(p)
  <2>1. /\ pc[p] \in TakeLabels /\ pc'[p] = "reuseidx" /\ req' = req
        /\ db'[p].idxoff = db[p].idxoff /\ db'[p].datlen = DatLen[req[p].val]
    BY <1>1, <1>11 DEF ReuseDat, Goto, TypeOK, TakeLabels, DB
  <2>2. DatLen[req[p].val] = db[p].datlen
    BY <1>1, <2>1 DEF LenOK
  <2>q. QED
    BY <1>3, <1>5, <2>1, <2>2 DEF DelSteps
<1>12. CASE AppDat(p)
  <2>1. pc'[p] = "appdatw" /\ req' = req /\ db'[p].datlen = DatLen[req[p].val]
    BY <1>1, <1>12 DEF AppDat, Goto, TypeOK, DB
  <2>q. QED
    BY <2>1 DEF LenOK, HoldLabels, TakeLabels, DelSteps, Fresh
<1>13. CASE AppDatW(p)
  <2>1. /\ pc'[p] = "appidx" /\ pc[p] = "appdatw" /\ UNCHANGED <<req, db>>
        /\ db[p].datoff \in 0..(MaxDats - 1)
    BY <1>1, <1>13, SetFacts DEF AppDatW, Goto, TypeOK, DB
  <2>2. dat'[db[p].datoff].len = DatLen[req[p].val]
    BY <1>1, <1>13, <2>1 DEF AppDatW, WriteDat, TypeOK
  <2>3. db[p].datlen = DatLen[req[p].val]
    BY <1>1, <2>1 DEF LenOK
  <2>q. QED
    BY <2>1, <2>2, <2>3 DEF LenOK, HoldLabels, TakeLabels, DelSteps
<1>14. CASE AppIdx(p)
  <2>1. /\ pc'[p] = "appidxw" /\ pc[p] = "appidx" /\ UNCHANGED <<req, dat>>
        /\ db'[p].datoff = db[p].datoff /\ db'[p].datlen = db[p].datlen
    BY <1>1, <1>14 DEF AppIdx, Goto, file, TypeOK, DB
  <2>2. dat[db[p].datoff].len = db[p].datlen
    BY <1>1, <2>1 DEF LenOK, Fresh
  <2>q. QED
    BY <2>1, <2>2 DEF LenOK, HoldLabels, TakeLabels, DelSteps
<1>15. CASE AppIdxW(p)
  <2>1. /\ pc'[p] = "link" /\ db' = db /\ db[p].idxoff \in Recs
        /\ idx'[db[p].idxoff].datlen = db[p].datlen
    BY <1>1, <1>15 DEF AppIdxW, Goto, WriteIdx, TypeOK
  <2>q. QED
    BY <2>1 DEF LenOK, TakeLabels, DelSteps, Fresh
<1>16. CASE ScanHit(p)
  <2>1. PICK r : r = pos[p]
    OBVIOUS
  <2>2. PICK w : w = ReadIdx(p, r)
    OBVIOUS
  <2>3. db'[p] = [w EXCEPT !.ptrval = 0] /\ pc'[p] = "scandat" /\ idx' = idx /\ r \in Recs
    BY <1>1, <1>16, <2>1, <2>2 DEF ScanHit, Goto, file, TypeOK, Written
  <2>4. w \in DB /\ w.idxoff = r /\ w.datlen = idx[r].datlen
    BY <1>1, <2>2, <2>3, ReadIdxType, ReadIdxFields
  <2>5. db'[p].idxoff = r /\ db'[p].datlen = idx[r].datlen
    BY <2>3, <2>4 DEF DB
  <2>q. QED
    BY <2>3, <2>5 DEF LenOK, TakeLabels, DelSteps, Fresh
<1>q. QED
  BY <1>1, <1>4, <1>6, <1>7, <1>8, <1>9, <1>10, <1>11, <1>12, <1>13, <1>14, <1>15, <1>16,
     EnterSteps DEF Enters

LEMMA ShapeStep ==
  ASSUME IInv, ShapeOK, NEW p \in Procs, Step(p) \/ Crash(p)
  PROVE  ShapeOK'
BY RecordStep, LenFrame, LenOwn DEF ShapeOK

-----------------------------------------------------------------------------
(* Pointers *)

\* A pointer that leads somewhere goes on doing so, as records stay written.
LEMMA LeadsKept ==
  ASSUME IInv, NEW p \in Procs, Step(p) \/ Crash(p), NEW x, Leads(x)
  PROVE  Leads(x)'
<1>1. TypeOK /\ ReqOK /\ HeldOK /\ TailOK
  BY DEF IInv
<1>q. QED
  BY <1>1, Grow DEF Leads, Written

LEMMA LeadsZero == Leads(0) /\ Leads(0)'
BY SizeAssumption DEF Leads

\* The pointers in the files: what is written there was read there, or is the
\* record at hand.
LEMMA LeadsFile ==
  ASSUME IInv, LeadsOK, NEW p \in Procs, Step(p) \/ Crash(p), NEW l \in Fields
  PROVE  Leads(ptr'[l])
<1>1. TypeOK /\ HeldOK /\ FreshOK /\ Leads(ptr[l])
  BY DEF IInv, LeadsOK
<1>2. /\ Leads(db[p].ptrval) /\ Leads(db[p].next) /\ Leads(ptr[FREE_OFF])
      /\ pc[p] \in FindLabels => Leads(db[p].idxoff)
  BY SetFacts DEF LeadsOK
<1>3. ASSUME NEW f, NEW x, ptr' = [ptr EXCEPT ![f] = x], Leads(x)
      PROVE  Leads(ptr'[l])
  <2>1. ptr'[l] \in {x, ptr[l]}
    BY <1>1, <1>3 DEF TypeOK
  <2>q. QED
    BY <1>1, <1>3, <2>1
<1>4. CASE DelBlank(p) \/ ReuseDat(p) \/ AppDatW(p) \/ Overwrite(p) \/ UNCHANGED file
  BY <1>1, <1>4 DEF DelBlank, ReuseDat, AppDatW, Overwrite, file
<1>5. CASE DelIdx(p)
  BY <1>2, <1>3, <1>5 DEF DelIdx, WriteIdx
<1>6. CASE DelHead(p)
  BY <1>2, <1>3, <1>6 DEF DelHead, WritePtr, FindLabels, DelSteps
<1>7. CASE DelUnlink(p)
  BY <1>2, <1>3, <1>7 DEF DelUnlink, WritePtr
<1>8. CASE FreeTake(p)
  BY <1>2, <1>3, <1>8 DEF FreeTake, WritePtr
<1>9. CASE ReuseIdx(p)
  BY <1>2, <1>3, <1>9 DEF ReuseIdx, WriteIdx
<1>10. CASE AppIdxW(p)
  BY <1>2, <1>3, <1>10 DEF AppIdxW, WriteIdx
<1>11. CASE Link(p)
  <2>1. Written(db[p].idxoff) /\ db[p].idxoff \in Nat
    BY <1>1, <1>11, SetFacts DEF Link, HeldOK, Held, HoldLabels, Written
  <2>2. Leads(db[p].idxoff)
    BY <1>11, <2>1, SizeAssumption DEF Link, TooBig, Leads
  <2>q. QED
    BY <1>3, <1>11, <2>2 DEF Link, WritePtr
<1>12. CASE DatFull(p) \/ IdxFull(p)
  BY <1>1, <1>12, Partial
<1>q. QED
  BY <1>4, <1>5, <1>6, <1>7, <1>8, <1>9, <1>10, <1>11, <1>12, WriteSteps DEF Writes

\* The pointers a process keeps were read from the file.
LEMMA LeadsKeeps ==
  ASSUME IInv, LeadsOK, NEW p \in Procs, Step(p) \/ Crash(p)
  PROVE  Leads(db'[p].ptrval) /\ Leads(db'[p].next)
<1>1. TypeOK /\ ReqOK /\ HeldOK
  BY DEF IInv
<1>2. /\ Leads(db[p].ptrval) /\ Leads(db[p].next) /\ \A l \in Fields : Leads(ptr[l])
  BY DEF LeadsOK
<1>3. NoDB.ptrval = 0 /\ NoDB.next = 0 /\ NoDB \in DB /\ db[p] \in DB
  BY <1>1, NullFacts DEF NoDB, TypeOK
<1>4. CASE db'[p] \in {db[p], NoDB}
  BY <1>2, <1>3, <1>4, LeadsZero
<1>5. CASE db'[p].ptrval = db[p].ptrval /\ db'[p].next = db[p].next
  BY <1>2, <1>5
<1>6. CASE FindHit(p) \/ FreeHit(p)
  <2>1. PICK r : r = db[p].idxoff
    OBVIOUS
  <2>2. db'[p] = ReadIdx(p, r) /\ r \in Fields
    BY <1>1, <1>6, <2>1, SetFacts DEF FindHit, FreeHit, Written, TypeOK
  <2>q. QED
    BY <1>1, <1>2, <2>2, ReadIdxFields
<1>7. CASE FindMiss(p)
  <2>1. PICK x : x = ptr[Chain(p)]
    OBVIOUS
  <2>2. Leads(x)
    BY <1>1, <1>2, <1>7, <2>1, ReqFacts, KeyLabelFacts DEF FindMiss
  <2>3. db'[p] \in {db[p], [db[p] EXCEPT !.next = x, !.ptroff = 0]}
    BY <1>1, <1>7, <2>1 DEF FindMiss, TypeOK
  <2>4. db'[p].ptrval = db[p].ptrval /\ db'[p].next \in {db[p].next, x}
    BY <1>3, <2>3 DEF DB
  <2>q. QED
    BY <1>2, <2>2, <2>4
<1>8. CASE DelUnlink(p)
  <2>1. PICK x : x = ptr'[Chain(p)]
    OBVIOUS
  <2>2. Leads(x)
    <3>1. Chain(p) \in Fields
      BY <1>1, <1>8, ReqFacts, KeyLabelFacts DEF DelUnlink, DelSteps
    <3>q. QED
      BY <2>1, <3>1, LeadsFile
  <2>3. db'[p] \in {db[p], [NoDB EXCEPT !.next = x, !.repl = TRUE]}
    BY <1>1, <1>8, <2>1 DEF DelUnlink, TypeOK
  <2>4. db'[p].ptrval \in {db[p].ptrval, 0} /\ db'[p].next \in {db[p].next, x}
    BY <1>3, <2>3 DEF DB
  <2>q. QED
    BY <1>2, <2>2, <2>4, LeadsZero
<1>9. CASE FreeTake(p) \/ ScanHit(p)
  <2>1. PICK w : w = ReadIdx(p, pos[p])
    OBVIOUS
  <2>2. ScanHit(p) => db'[p] = [w EXCEPT !.ptrval = 0] /\ w \in DB /\ w.next = db[p].next
    BY <1>1, <2>1, ReadIdxType, ReadIdxFields DEF ScanHit, Written, TypeOK
  <2>3. ScanHit(p) => db'[p].ptrval = 0 /\ db'[p].next = db[p].next
    BY <2>2 DEF DB
  <2>4. FreeTake(p) => db'[p].ptrval = 0 /\ db'[p].next = db[p].next
    BY <1>1 DEF FreeTake, TypeOK, DB
  <2>q. QED
    BY <1>2, <1>9, <2>3, <2>4, LeadsZero
<1>10. CASE FindAndLock(p) \/ FindNext(p) \/ FreeLock(p) \/ FreeNext(p) \/ FreeMiss(p)
            \/ ReuseDat(p) \/ AppDat(p) \/ AppIdx(p)
  <2>1. db'[p].ptrval = db[p].ptrval /\ db'[p].next = db[p].next
    BY <1>1, <1>10 DEF FindAndLock, FindNext, FreeLock, FreeNext, FreeMiss, ReuseDat, AppDat,
       AppIdx, TypeOK, DB
  <2>q. QED
    BY <1>5, <2>1
<1>11. CASE Call(p) \/ RejectFlag(p) \/ ReadDat(p) \/ DelFree(p) \/ DelBlank(p) \/ DelIdx(p)
            \/ DelHead(p) \/ ReuseIdx(p) \/ AppDatW(p) \/ AppIdxW(p) \/ Link(p) \/ Overwrite(p)
  BY <1>4, <1>11 DEF Call, RejectFlag, ReadDat, DelFree, DelBlank, DelIdx, DelHead, ReuseIdx,
     AppDatW, AppIdxW, Link, Overwrite
<1>12. CASE RejectLen(p) \/ Return(p) \/ Unlock(p) \/ DatFull(p) \/ IdxRefused(p) \/ IdxFull(p) \/ LinkQuit(p)
            \/ ScanAbort(p) \/ ScanUnlock(p) \/ Crash(p)
  BY <1>1, <1>4, <1>12 DEF RejectLen, Return, Unlock, DatFull, IdxRefused, IdxFull, LinkQuit, ScanAbort,
     ScanUnlock, Crash, Die, Exit, Leave, TypeOK
<1>13. CASE ScanLock(p) \/ ScanSkip(p) \/ ScanEnd(p) \/ ScanDat(p) \/ Rewind(p) \/ Restart(p)
  BY <1>4, <1>13 DEF ScanLock, ScanSkip, ScanEnd, ScanDat, Rewind, Restart
<1>q. QED
  BY <1>6, <1>7, <1>8, <1>9, <1>10, <1>11, <1>12, <1>13 DEF Step, Locking, Working

\* A record that a process has come to along a list.
LEMMA LeadsFound ==
  ASSUME IInv, LeadsOK, NEW p \in Procs, Step(p) \/ Crash(p), pc'[p] \in FindLabels
  PROVE  Leads(db'[p].idxoff)
<1>1. TypeOK /\ ReqOK /\ HeldOK /\ pc'[p] \in WorkLabels
  BY DEF IInv, WorkLabels
<1>2. /\ \A l \in Fields : Leads(ptr[l])
      /\ pc[p] \in FindLabels => Leads(db[p].idxoff)
  BY DEF LeadsOK
<1>3. CASE FindAndLock(p)
  <2>1. Chain(p) \in Fields
    BY <1>1, <1>3, ReqFacts, KeyLabelFacts DEF FindAndLock
  <2>2. db'[p].idxoff = ptr[Chain(p)]
    BY <1>1, <1>3 DEF FindAndLock, TypeOK, DB
  <2>q. QED
    BY <1>2, <2>1, <2>2
<1>4. CASE FreeLock(p)
  <2>1. db'[p].idxoff = ptr[FREE_OFF] /\ FREE_OFF \in Fields
    BY <1>1, <1>4, SetFacts DEF FreeLock, TypeOK, DB
  <2>q. QED
    BY <1>2, <2>1
<1>5. CASE FindNext(p) \/ FreeNext(p)
  <2>1. db'[p].idxoff = ptr[db[p].idxoff] /\ db[p].idxoff \in Fields
    BY <1>1, <1>5, SetFacts DEF FindNext, FreeNext, Written, TypeOK, DB
  <2>q. QED
    BY <1>2, <2>1
<1>6. CASE FindHit(p)
  <2>1. pc[p] \in FindLabels /\ db'[p] = ReadIdx(p, db[p].idxoff)
    BY <1>1, <1>6 DEF FindHit, FindLabels, TypeOK
  <2>2. db'[p].idxoff = db[p].idxoff
    BY <1>1, <2>1, ReadIdxFields
  <2>q. QED
    BY <1>2, <2>1, <2>2
<1>7. CASE DelFree(p) \/ DelBlank(p) \/ DelIdx(p) \/ DelHead(p)
  <2>1. pc[p] \in FindLabels /\ db' = db
    BY <1>7 DEF DelFree, DelBlank, DelIdx, DelHead, FindLabels, DelSteps
  <2>q. QED
    BY <1>2, <2>1
<1>8. ~FreeHit(p) /\ ~FreeTake(p) /\ ~ReuseDat(p) /\ ~ReuseIdx(p) /\ ~AppDat(p)
      /\ ~AppDatW(p) /\ ~AppIdx(p) /\ ~AppIdxW(p) /\ ~ScanHit(p)
  <2>1. pc'[p] \notin {"freetake", "reusedat", "reuseidx", "link", "appdatw", "appidx",
                      "appidxw", "scandat"}
    BY DEF FindLabels, DelSteps
  <2>q. QED
    BY <1>1, <2>1 DEF FreeHit, FreeTake, ReuseDat, ReuseIdx, AppDat, AppDatW, AppIdx, AppIdxW,
       ScanHit, Goto, TypeOK
<1>q. QED
  BY <1>1, <1>3, <1>4, <1>5, <1>6, <1>7, <1>8, EnterSteps DEF Enters

LEMMA LeadsStep ==
  ASSUME IInv, LeadsOK, NEW p \in Procs, Step(p) \/ Crash(p)
  PROVE  LeadsOK'
<1>1. TypeOK
  BY DEF IInv
<1>2. \A x : Leads(x) => Leads(x)'
  BY LeadsKept
<1>3. ASSUME NEW q \in Procs, q # p
      PROVE  pc'[q] = pc[q] /\ db'[q] = db[q]
  BY <1>1, <1>3, Frame
<1>4. ASSUME NEW l \in Fields
      PROVE  Leads(ptr'[l])
  BY LeadsFile
<1>5. ASSUME NEW q \in Procs
      PROVE  Leads(db'[q].ptrval) /\ Leads(db'[q].next)
  BY <1>3, LeadsKeeps DEF LeadsOK
<1>6. ASSUME NEW q \in Procs, pc'[q] \in FindLabels
      PROVE  Leads(db'[q].idxoff)
  BY <1>3, <1>6, LeadsFound DEF LeadsOK
<1>7. \A x : Leads(x) =>
                x <= PTR_MAX /\ (x = 0 \/ (x \in Recs /\ x < idxend' /\ idx'[x].klen # 0))
  BY <1>2 DEF Leads, Written
<1>q. QED
  BY <1>4, <1>5, <1>6, <1>7 DEF LeadsOK, Leads, Written

-----------------------------------------------------------------------------
(* The theorems *)

LEMMA InitInv == Init => IInv
<1> SUFFICES ASSUME Init PROVE IInv
  OBVIOUS
<1>1. TypeOK
  BY SetFacts, LabelFacts, NullFacts DEF Init, TypeOK, IdxRec, DatRec, NoIdx, NoDat, Blank
<1>2. \A r \in Recs : ~Written(r)
  BY SetFacts, SizeAssumption DEF Init, Written, Recs, FirstRec
<1>3. \A p \in Procs : pc[p] = "ready"
  BY DEF Init
<1>q. QED
  BY <1>1, <1>2, <1>3 DEF IInv, ReqOK, HeldOK, TailOK, FreshOK, Fresh, DataPrivate,
     KeyLabels, StoreLabels, HoldLabels, DelSteps, FreeSteps, AppSteps

LEMMA StepInv == IInv /\ [NextCrash]_vars => IInv'
<1> SUFFICES ASSUME IInv, [NextCrash]_vars PROVE IInv'
  OBVIOUS
<1>1. ASSUME NEW p \in Procs, Step(p) \/ Crash(p)
      PROVE  IInv'
  BY <1>1, TypeStep, ReqStep, HeldStep, TailStep, FreshStep, PrivateStep DEF IInv
<1>2. CASE UNCHANGED vars
  BY <1>2 DEF vars, IInv, TypeOK, ReqOK, HeldOK, Held, TailOK, FreshOK, Fresh,
     DataPrivate, Written
<1>q. QED
  BY <1>1, <1>2 DEF NextCrash

\* The type invariant holds in every behaviour, killed processes included.
THEOREM TypeCorrect == SpecCrash => []TypeOK
<1>1. IInv => TypeOK
  BY DEF IInv
<1>q. QED
  BY <1>1, InitInv, StepInv, PTL DEF SpecCrash

\* No two index records ever name the same data record: whatever processes
\* append, reuse and delete at once, and wherever some of them are killed, the
\* locks of _db_writedat and _db_writeidx keep every value with its own key.
THEOREM DataStaysPrivate == SpecCrash => []DataPrivate
<1>1. IInv => DataPrivate
  BY DEF IInv
<1>q. QED
  BY <1>1, InitInv, StepInv, PTL DEF SpecCrash

LEMMA InitFull == Init => FullInv
<1> SUFFICES ASSUME Init PROVE FullInv
  OBVIOUS
<1>1. \A r \in Recs : ~Written(r)
  BY SetFacts, SizeAssumption DEF Init, Written, Recs, FirstRec
<1>2. \A p \in Procs : pc[p] = "ready" /\ db[p].ptrval = 0 /\ db[p].next = 0
  BY DEF Init, NoDB
<1>3. \A l \in Fields : ptr[l] = 0
  BY DEF Init
<1>4. LeadsOK
  BY <1>2, <1>3, LeadsZero DEF LeadsOK, FindLabels, DelSteps
<1>5. ShapeOK
  BY <1>1, <1>2 DEF ShapeOK, LenOK, Fresh, HoldLabels, TakeLabels, DelSteps
<1>q. QED
  BY <1>4, <1>5, InitInv DEF FullInv

LEMMA StepFull == FullInv /\ [NextCrash]_vars => FullInv'
<1> SUFFICES ASSUME FullInv, [NextCrash]_vars PROVE FullInv'
  OBVIOUS
<1>1. IInv'
  BY StepInv DEF FullInv
<1>2. ASSUME NEW p \in Procs, Step(p) \/ Crash(p)
      PROVE  LeadsOK' /\ ShapeOK'
  BY <1>2, LeadsStep, ShapeStep DEF FullInv
<1>3. CASE UNCHANGED vars
  BY <1>1, <1>3 DEF vars, FullInv, LeadsOK, Leads, ShapeOK, RecOK, LenOK, Fresh, Written
<1>q. QED
  BY <1>1, <1>2, <1>3 DEF NextCrash, FullInv

\* Every pointer in the index file fits its field: LinkQuit keeps out a record
\* beyond PTR_MAX, and every other pointer that is written was read from the
\* file before (_db_writeptr, _db_writeidx), killed processes or not.
THEOREM PointersFit == SpecCrash => []PtrFits
<1>1. FullInv => PtrFits
  BY DEF FullInv, LeadsOK, Leads, PtrFits
<1>q. QED
  BY <1>1, InitFull, StepFull, PTL DEF SpecCrash

\* Along every list, also one that a killed process has left torn, a pointer leads
\* to a whole index record, never to what a writev that fell short has left, and
\* every index record to data of the length it says (_db_readidx, _db_readdat).
\* A scan does not follow pointers: of it this says only that the data is there.
THEOREM PointersLead == SpecCrash => []ReadsGood
<1>1. ASSUME FullInv PROVE ReadsGood
  <2>1. TypeOK /\ HeldOK /\ FreshOK /\ ShapeOK /\ LeadsOK
    BY <1>1 DEF FullInv, IInv
  <2>2. ASSUME NEW p \in Procs, pc[p] \in {"find", "freefind"}
        PROVE  db[p].idxoff = 0 \/ Written(db[p].idxoff)
    BY <2>1, <2>2 DEF LeadsOK, FindLabels, Leads
  <2>3. ASSUME NEW p \in Procs, pc[p] \in {"readdat", "scandat"}
        PROVE  ReadsDat(p)
    <3>1. pc[p] \in HoldLabels
      BY <2>3 DEF HoldLabels
    <3>q. QED
      BY <2>1, <3>1, HeldFacts DEF ReadsDat
  <2>q. QED
    BY <2>2, <2>3 DEF ReadsGood
<1>q. QED
  BY <1>1, InitFull, StepFull, PTL DEF SpecCrash

\* A record keeps its lengths and its place in the data file for ever, whatever
\* deletes, reuses and replaces overlap and wherever a process is killed: a
\* write in place never runs into the record behind it.
THEOREM ShapeKeeps == SpecCrash => ShapeStable
<1>1. FullInv /\ [NextCrash]_vars =>
        [\A r \in Recs : Written(r) =>
            /\ idx'[r].klen = idx[r].klen
            /\ idx'[r].datoff = idx[r].datoff
            /\ idx'[r].datlen = idx[r].datlen
            /\ dat'[idx[r].datoff].len = dat[idx[r].datoff].len]_vars
  <2> SUFFICES ASSUME FullInv, NextCrash, NEW r \in Recs, Written(r)
               PROVE  Kept(r)
    BY DEF Kept
  <2>q. QED
    BY ShapeKept DEF NextCrash, FullInv
<1>q. QED
  BY <1>1, InitFull, StepFull, PTL DEF SpecCrash, ShapeStable

-----------------------------------------------------------------------------
(* The lists: what holds of every chain and of the free list at each step *)

\* A process inside a call on a chain holds the lock on it, for writing unless
\* it fetches; while it changes or searches the free list it holds that lock.
\* Nobody reads what another process locked for writing.
ChainLabels == KeyLabels \ {"lock", "return"}
FreeLabels == {"delblank", "delidx", "delhead", "delunlink", "freefind", "freetake"}
LockOK ==
  /\ \A p \in Procs : pc[p] \in ChainLabels =>
       IF req[p].op = "fetch" THEN p \in rlock[Chain(p)] ELSE wlock[Chain(p)] = p
  /\ \A p \in Procs : pc[p] \in FreeLabels => wlock[FREE_OFF] = p
  /\ \A l \in Locks : wlock[l] # NoProc => rlock[l] \subseteq {wlock[l]}

\* Following f from h one meets exactly the members of S, each once, and ends.
ListIs(f, h, S) ==
  /\ \A s \in S \cup {h} : f[s] \in S \cup {0}
  /\ \A s, t \in S \cup {h} : f[s] = f[t] /\ f[s] # 0 => s = t
  /\ \A T \in SUBSET Ptrs : Closed(f, h, T) => S \cup {0} \subseteq T

\* The live records of a chain, and those of them that are linked: a record just
\* written by a store is not, nor one whose offset is too large.
At(L) == {db[p].idxoff : p \in {q \in Procs : pc[q] \in L}}
Own(c)  == {r \in Recs : Live(r) /\ Hash[idx[r].key] = c}
Node(c) == Bucket(c) \ At({"link"})

\* The free records: blank, not taken by a store, not about to be freed.
FreeRecs == {r \in Recs : Written(r) /\ ~Live(r)} \ At({"reusedat", "reuseidx", "delhead"})

\* Between blanking a record and unlinking it, its chain is the one its process
\* is about to restore.
Unlinks(p, c) == pc[p] \in {"delhead", "delunlink"} /\ Chain(p) = c
Restored(p)   == [ptr EXCEPT ![db[p].ptroff] = db[p].ptrval]
ChainList(c) ==
  /\ (\A p \in Procs : ~Unlinks(p, c)) => ListIs(ptr, c, Node(c))
  /\ \A p \in Procs : Unlinks(p, c) => ListIs(Restored(p), c, Node(c))
OneEach(c) == \A r, s \in Node(c) : idx[r].key = idx[s].key => r = s

\* What a process knows of its chain at each step.
LinkSteps == StoreLabels \ {"overwrite"}
Absent(p) == \A r \in Node(Chain(p)) : idx[r].key # req[p].key
Ahead(p)  == \A r \in Node(Chain(p)) : idx[r].key = req[p].key =>
               \A T \in SUBSET Ptrs : Closed(ptr, db[p].ptroff, T) => r \in T
ChainStep(p) ==
  LET c == Chain(p)  d == db[p]
  IN  /\ pc[p] \in {"find"} \cup DelSteps => d.ptroff \in Node(c) \cup {c}
      /\ pc[p] \in {"find", "delfree", "delblank", "delidx"} => ptr[d.ptroff] = d.idxoff
      /\ pc[p] = "find" => Ahead(p)
      /\ pc[p] \in {"readdat", "overwrite", "delfree", "delblank", "delidx"} =>
           d.idxoff \in Node(c) /\ idx[d.idxoff].key = req[p].key
      /\ pc[p] \in {"delfree", "delblank", "delidx"} => d.ptrval = ptr[d.idxoff]
      /\ pc[p] \in {"delhead", "delunlink"} \cup LinkSteps => Absent(p)
      /\ pc[p] \in LinkSteps => d.next = ptr[c]
      /\ pc[p] = "link" => /\ Live(d.idxoff) /\ idx[d.idxoff].key = req[p].key
                           /\ ptr[d.idxoff] = ptr[c]

\* What it knows of the free list, and of the record it took or is freeing.
FreeStep(p) ==
  LET d == db[p]
  IN  /\ pc[p] \in {"freefind", "freetake"} =>
           d.save \in FreeRecs \cup {0} /\ ptr[d.save] = d.idxoff
      /\ pc[p] = "freetake" => d.idxoff \in FreeRecs /\ d.ptrval = ptr[d.idxoff]
      /\ pc[p] \in {"reusedat", "reuseidx", "delhead"} => ~Live(d.idxoff)
      /\ pc[p] = "delhead" => ptr[d.idxoff] = ptr[FREE_OFF]
      /\ \A q \in Procs : /\ q # p
                          /\ pc[p] \in {"reusedat", "reuseidx", "delhead"}
                          /\ pc[q] \in {"reusedat", "reuseidx", "delhead"}
                          => db[p].idxoff # db[q].idxoff

ListsOK == /\ \A c \in Chains : ChainList(c) /\ OneEach(c)
           /\ ListIs(ptr, FREE_OFF, FreeRecs)
           /\ \A p \in Procs : ChainStep(p) /\ FreeStep(p)
ListInv == LockOK /\ (torn = {} => ListsOK)

-----------------------------------------------------------------------------
(* Linked lists *)

\* No record of a list leads to itself.
LEMMA NoSelf ==
  ASSUME NEW f, NEW h, NEW S \in SUBSET Recs, h \notin S, ListIs(f, h, S), NEW r \in S
  PROVE  f[r] # r
<1> SUFFICES ASSUME f[r] = r PROVE FALSE
  OBVIOUS
<1>0. 0 \notin Recs /\ S \subseteq Ptrs /\ 0 \in Ptrs
  BY SetFacts, SizeAssumption DEF Recs, Ptrs, FirstRec
<1>1. \A s \in S \cup {h} : s # r => f[s] # r
  BY <1>0 DEF ListIs
<1>2. Closed(f, h, (S \ {r}) \cup {0})
  BY <1>1, <1>0 DEF Closed, ListIs
<1>3. (S \ {r}) \cup {0} \in SUBSET Ptrs
  BY <1>0
<1>4. r \in (S \ {r}) \cup {0}
  BY <1>2, <1>3 DEF ListIs
<1>q. QED
  BY <1>4, <1>0

\* A list stays if the pointers of its members do.
LEMMA ListSame ==
  ASSUME NEW f, NEW g, NEW h, NEW S \in SUBSET Recs, ListIs(f, h, S),
         \A s \in S \cup {h} : g[s] = f[s]
  PROVE  ListIs(g, h, S)
<1>0. 0 \notin Recs /\ S \subseteq Ptrs /\ 0 \in Ptrs
  BY SetFacts, SizeAssumption DEF Recs, Ptrs, FirstRec
<1>1. ASSUME NEW T \in SUBSET Ptrs, Closed(g, h, T)
      PROVE  S \cup {0} \subseteq T
  <2>1. Closed(f, h, T \cap (S \cup {0}))
    BY <1>1, <1>0 DEF Closed, ListIs
  <2>2. T \cap (S \cup {0}) \in SUBSET Ptrs
    BY <1>0
  <2>q. QED
    BY <2>1, <2>2 DEF ListIs
<1>q. QED
  BY <1>1 DEF ListIs

\* Leading the predecessor past a record removes just that record.
LEMMA ListRemove ==
  ASSUME NEW f, NEW g, NEW h, NEW S \in SUBSET Recs, h \notin S, ListIs(f, h, S),
         NEW r \in S, NEW a \in S \cup {h}, f[a] = r, g[a] = f[r],
         \A s \in (S \ {r}) \cup {h} : s # a => g[s] = f[s]
  PROVE  ListIs(g, h, S \ {r})
<1>0. 0 \notin Recs /\ S \subseteq Ptrs /\ 0 \in Ptrs /\ r # 0 /\ r # h
  BY SetFacts, SizeAssumption DEF Recs, Ptrs, FirstRec
<1>1. a # r /\ f[r] # r
  BY NoSelf
<1>2. \A s \in S \cup {h} : s # a => f[s] # r
  BY <1>0 DEF ListIs
<1>3. \A s \in (S \ {r}) \cup {h} : g[s] \in (S \ {r}) \cup {0}
  BY <1>0, <1>1, <1>2 DEF ListIs
<1>4. \A s, t \in (S \ {r}) \cup {h} : g[s] = g[t] /\ g[s] # 0 => s = t
  BY <1>1 DEF ListIs
<1>5. ASSUME NEW T \in SUBSET Ptrs, Closed(g, h, T)
      PROVE  (S \ {r}) \cup {0} \subseteq T
  <2> DEFINE U == (T \cap (S \cup {0})) \ {r}
  <2>0. U \cup {r} \in SUBSET Ptrs /\ U \in SUBSET Ptrs
    BY <1>0
  <2>1. CASE a \in U \cup {h}
    <3>1. f[r] \in U
      <4>1. g[a] \in T
        BY <1>5, <2>1, <1>0 DEF Closed
      <4>q. QED
        BY <4>1, <1>1, <1>0 DEF ListIs
    <3>2. \A t \in (U \ {0}) \cup {h} : f[t] \in U \cup {r}
      <4> TAKE t \in (U \ {0}) \cup {h}
      <4>1. CASE t = a
        BY <4>1
      <4>2. CASE t # a
        <5>1. g[t] = f[t] /\ g[t] \in T
          BY <4>2, <1>5, <1>0 DEF Closed
        <5>q. QED
          BY <5>1, <1>0 DEF ListIs
      <4>q. QED
        BY <4>1, <4>2
    <3>3. Closed(f, h, U \cup {r})
      BY <3>1, <3>2 DEF Closed
    <3>4. S \cup {0} \subseteq U \cup {r}
      BY <3>3, <2>0 DEF ListIs
    <3>q. QED
      BY <3>4, <1>0
  <2>2. CASE a \notin U \cup {h}
    <3>1. \A t \in (U \ {0}) \cup {h} : f[t] \in U
      <4> TAKE t \in (U \ {0}) \cup {h}
      <4>1. t # a /\ t \in (S \ {r}) \cup {h}
        BY <2>2, <1>0
      <4>2. g[t] = f[t] /\ g[t] \in T
        BY <4>1, <1>5 DEF Closed
      <4>q. QED
        BY <4>2, <4>1, <1>2 DEF ListIs
    <3>2. Closed(f, h, U)
      BY <3>1 DEF Closed
    <3>3. a \in U
      BY <3>2, <2>0, <2>2 DEF ListIs
    <3>q. QED
      BY <3>3, <2>2
  <2>q. QED
    BY <2>1, <2>2
<1>q. QED
  BY <1>3, <1>4, <1>5 DEF ListIs

\* A new record put between the head and the first record is on the list.
LEMMA ListInsert ==
  ASSUME NEW f, NEW g, NEW h, NEW S \in SUBSET Recs, h \notin S, ListIs(f, h, S),
         NEW n \in Recs, n \notin S, n # h, g[h] = n, g[n] = f[h],
         \A s \in S : g[s] = f[s]
  PROVE  ListIs(g, h, S \cup {n})
<1>0. 0 \notin Recs /\ S \subseteq Ptrs /\ 0 \in Ptrs /\ n # 0 /\ n \in Ptrs
  BY SetFacts, SizeAssumption DEF Recs, Ptrs, FirstRec
<1>1. \A s \in S \cup {n} \cup {h} : g[s] \in S \cup {n} \cup {0}
  BY DEF ListIs
<1>2. ASSUME NEW s \in S \cup {n} \cup {h}, NEW t \in S \cup {n} \cup {h},
             g[s] = g[t], g[s] # 0
      PROVE  s = t
  <2>1. \A u \in S \cup {n} : g[u] # n
    BY <1>0 DEF ListIs
  <2>2. CASE s = h \/ t = h
    BY <2>1, <2>2, <1>2
  <2>3. CASE s # h /\ t # h
    <3> DEFINE o(u) == IF u = n THEN h ELSE u
    <3>1. f[o(s)] = g[s] /\ f[o(t)] = g[t] /\ o(s) \in S \cup {h} /\ o(t) \in S \cup {h}
      BY <2>3
    <3>2. o(s) = o(t)
      BY <3>1, <1>2 DEF ListIs
    <3>q. QED
      BY <3>2, <2>3
  <2>q. QED
    BY <2>2, <2>3
<1>3. ASSUME NEW T \in SUBSET Ptrs, Closed(g, h, T)
      PROVE  S \cup {n} \cup {0} \subseteq T
  <2>1. n \in T /\ f[h] \in T
    BY <1>3, <1>0 DEF Closed
  <2>2. \A t \in (T \cap S) : f[t] \in T
    BY <1>3, <1>0 DEF Closed
  <2>3. Closed(f, h, T \cap (S \cup {0}))
    BY <2>1, <2>2 DEF Closed, ListIs
  <2>4. T \cap (S \cup {0}) \in SUBSET Ptrs
    BY <1>0
  <2>q. QED
    BY <2>1, <2>3, <2>4 DEF ListIs
<1>q. QED
  BY <1>1, <1>2, <1>3 DEF ListIs

\* What a list reaches, by the definition the properties use, is its members.
LEMMA ListReach ==
  ASSUME NEW h, NEW S \in SUBSET Recs, ListIs(ptr, h, S)
  PROVE  Finite(h) /\ OnList(h) = S
<1>0. 0 \notin Recs /\ S \subseteq Ptrs /\ 0 \in Ptrs
  BY SetFacts, SizeAssumption DEF Recs, Ptrs, FirstRec
<1>1. Closed(ptr, h, S \cup {0})
  BY <1>0 DEF Closed, ListIs
<1>2. S \cup {0} \in SUBSET Ptrs
  BY <1>0
<1>3. Reach(h) \subseteq S \cup {0}
  BY <1>1, <1>2 DEF Reach
<1>4. S \cup {0} \subseteq Reach(h)
  BY <1>0 DEF Reach, ListIs
<1>q. QED
  BY <1>3, <1>4, <1>0 DEF Finite, OnList

-----------------------------------------------------------------------------
(* The locks *)

\* The steps of a call that has locked its chain.
LEMMA ChainLabelFacts ==
  /\ {"find", "readdat", "overwrite", "reusedat", "reuseidx", "link", "unlock"} \subseteq ChainLabels
  /\ DelSteps \cup FreeSteps \cup AppSteps \subseteq ChainLabels
  /\ {"ready", "dead", "lock", "return", "scanlock", "scan", "scandat", "scanunlock"}
       \cap ChainLabels = {}
  /\ ChainLabels \subseteq KeyLabels
BY DEF ChainLabels, KeyLabels, Labels, DelSteps, FreeSteps, AppSteps

LEMMA LockOwn ==
  ASSUME TypeOK, ReqOK, LockOK, NEW p \in Procs, Step(p) \/ Crash(p)
  PROVE  /\ pc'[p] \in ChainLabels =>
              IF req'[p].op = "fetch" THEN p \in rlock'[Chain(p)'] ELSE wlock'[Chain(p)'] = p
         /\ pc'[p] \in FreeLabels => wlock'[FREE_OFF] = p
<1> USE SetFacts, ChainLabelFacts DEF TypeOK, Goto, locks, FreeLabels, DelSteps, FreeSteps, AppSteps
<1>c. pc[p] \in ChainLabels => /\ Chain(p) \in Locks
                               /\ Chain(p) \notin {FREE_OFF, IdxTail, DatTail}
  BY ReqFacts, SizeAssumption DEF FREE_OFF, IdxTail, DatTail, Chains
<1>d. /\ pc[p] \in ChainLabels =>
           IF req[p].op = "fetch" THEN p \in rlock[Chain(p)] ELSE wlock[Chain(p)] = p
      /\ pc[p] \in FreeLabels => wlock[FREE_OFF] = p
      /\ req'[p] = req[p] => Chain(p)' = Chain(p)
  BY DEF LockOK, Chain
<1>1. CASE Call(p)
  BY <1>1, <1>d DEF Call
<1>2. CASE RejectFlag(p)
  BY <1>2, <1>d DEF RejectFlag
<1>3. CASE RejectLen(p)
  BY <1>3, <1>d DEF RejectLen, Die, Exit
<1>4. CASE Return(p)
  BY <1>4, <1>d DEF Return, Leave
<1>5. CASE FindAndLock(p)
  <2>1. Chain(p) \in Locks /\ req' = req
    BY <1>5, KeyLabelFacts, ReqFacts DEF FindAndLock
  <2>2. CASE req[p].op = "fetch"
    <3>1. ReadLock(p, Chain(p))
      BY <1>5, <2>2 DEF FindAndLock
    <3>q. QED
      BY <2>1, <2>2, <3>1, <1>5, <1>d DEF ReadLock, FindAndLock
  <2>3. CASE req[p].op # "fetch"
    <3>1. WriteLock(p, Chain(p))
      BY <1>5, <2>3 DEF FindAndLock
    <3>q. QED
      BY <2>1, <2>3, <3>1, <1>5, <1>d DEF WriteLock, FindAndLock
  <2>q. QED
    BY <2>2, <2>3
<1>6. CASE FindNext(p)
  BY <1>6, <1>d DEF FindNext
<1>7. CASE FindHit(p)
  <2>1. pc'[p] \in {"readdat", "unlock", "overwrite", "delfree"} /\ req' = req
    BY <1>7 DEF FindHit
  <2>2. UNCHANGED <<wlock, rlock>>
    BY <1>7 DEF FindHit
  <2>q. QED
    BY <1>7, <2>1, <2>2, <1>d DEF FindHit
<1>8. CASE FindMiss(p)
  BY <1>8, <1>d DEF FindMiss
<1>9. CASE ReadDat(p)
  BY <1>9, <1>d DEF ReadDat
<1>10. CASE Unlock(p)
  BY <1>10, <1>d DEF Unlock, Leave
<1>11. CASE DelFree(p)
  BY <1>11, <1>c, <1>d DEF DelFree, WriteLock
<1>12. CASE DelBlank(p)
  BY <1>12, <1>d DEF DelBlank
<1>13. CASE DelIdx(p)
  BY <1>13, <1>d DEF DelIdx
<1>14. CASE DelHead(p)
  BY <1>14, <1>d DEF DelHead
<1>15. CASE DelUnlink(p)
  BY <1>15, <1>c, <1>d DEF DelUnlink, UnLock
<1>16. CASE FreeLock(p)
  BY <1>16, <1>c, <1>d DEF FreeLock, WriteLock
<1>17. CASE FreeNext(p)
  BY <1>17, <1>d DEF FreeNext
<1>18. CASE FreeHit(p)
  BY <1>18, <1>d DEF FreeHit
<1>19. CASE FreeMiss(p)
  BY <1>19, <1>c, <1>d DEF FreeMiss, UnLock
<1>20. CASE FreeTake(p)
  BY <1>20, <1>c, <1>d DEF FreeTake, UnLock
<1>21. CASE ReuseDat(p)
  BY <1>21, <1>d DEF ReuseDat
<1>22. CASE ReuseIdx(p)
  BY <1>22, <1>d DEF ReuseIdx
<1>23. CASE AppDat(p)
  BY <1>23, <1>c, <1>d DEF AppDat, WriteLock
<1>24. CASE AppDatW(p)
  BY <1>24, <1>c, <1>d DEF AppDatW, UnLock
<1>25. CASE AppIdx(p)
  BY <1>25, <1>c, <1>d DEF AppIdx, WriteLock
<1>26. CASE AppIdxW(p)
  BY <1>26, <1>c, <1>d DEF AppIdxW, UnLock
<1>27. CASE DatFull(p)
  BY <1>27, <1>d DEF DatFull, Die, Exit
<1>28. CASE IdxFull(p)
  BY <1>28, <1>d DEF IdxFull, Die, Exit
<1>29. CASE Link(p)
  BY <1>29, <1>d DEF Link
<1>30. CASE LinkQuit(p)
  BY <1>30, <1>d DEF LinkQuit, Die, Exit
<1>r. CASE IdxRefused(p)
  BY <1>r, <1>d DEF IdxRefused, Die, Exit
<1>31. CASE Overwrite(p)
  BY <1>31, <1>d DEF Overwrite
<1>32. CASE ScanLock(p)
  BY <1>32, <1>d DEF ScanLock
<1>33. CASE ScanSkip(p)
  BY <1>33, <1>d DEF ScanSkip
<1>34. CASE ScanHit(p)
  BY <1>34, <1>d DEF ScanHit
<1>35. CASE ScanEnd(p)
  BY <1>35, <1>d DEF ScanEnd
<1>36. CASE ScanAbort(p)
  BY <1>36, <1>d DEF ScanAbort, Die, Exit
<1>37. CASE ScanDat(p)
  BY <1>37, <1>d DEF ScanDat
<1>38. CASE ScanUnlock(p)
  BY <1>38, <1>d DEF ScanUnlock, Leave
<1>39. CASE Rewind(p)
  BY <1>39, <1>d DEF Rewind
<1>40. CASE Restart(p)
  BY <1>40, <1>d DEF Restart
<1>41. CASE Crash(p)
  BY <1>41, <1>d DEF Crash, Die, Exit
<1>q. QED
  BY <1>1, <1>2, <1>3, <1>4, <1>5, <1>6, <1>7, <1>8, <1>9, <1>10, <1>11, <1>12, <1>13,
     <1>14, <1>15, <1>16, <1>17, <1>18, <1>19, <1>20, <1>21, <1>22, <1>23, <1>24, <1>25,
     <1>26, <1>27, <1>28, <1>29, <1>30, <1>r, <1>31, <1>32, <1>33, <1>34, <1>35, <1>36, <1>37,
     <1>38, <1>39, <1>40, <1>41
  DEF Step, Locking, Working

\* Every step keeps the locks.
LEMMA LockStep ==
  ASSUME TypeOK, ReqOK, LockOK, NEW p \in Procs, Step(p) \/ Crash(p)
  PROVE  LockOK'
<1>1. ASSUME NEW q \in Procs, q # p
      PROVE  /\ pc'[q] \in ChainLabels =>
                  IF req'[q].op = "fetch" THEN q \in rlock'[Chain(q)'] ELSE wlock'[Chain(q)'] = q
             /\ pc'[q] \in FreeLabels => wlock'[FREE_OFF] = q
  <2>1. pc'[q] = pc[q] /\ req'[q] = req[q] /\ Chain(q)' = Chain(q)
    BY <1>1, Frame DEF Chain
  <2>2. pc[q] \in ChainLabels => Chain(q) \in Locks
    BY ReqFacts, ChainLabelFacts
  <2>3. pc[q] \in ChainLabels =>
          IF req[q].op = "fetch" THEN q \in rlock'[Chain(q)] ELSE wlock'[Chain(q)] = q
    BY <1>1, <2>2, LocksKept DEF LockOK
  <2>4. pc[q] \in FreeLabels => wlock'[FREE_OFF] = q
    BY <1>1, LocksKept, SetFacts DEF LockOK
  <2>q. QED
    BY <2>1, <2>3, <2>4
<1>2. ASSUME NEW l \in Locks, wlock'[l] # NoProc
      PROVE  rlock'[l] \subseteq {wlock'[l]}
  <2>1. wlock[l] # NoProc => rlock[l] \subseteq {wlock[l]}
    BY DEF LockOK
  <2>2. wlock'[l] = wlock[l] /\ rlock'[l] \subseteq rlock[l] => rlock'[l] \subseteq {wlock'[l]}
    BY <1>2, <2>1
  <2>3. UNCHANGED locks => rlock'[l] \subseteq {wlock'[l]}
    BY <2>2 DEF locks
  <2>4. ASSUME NEW m \in Locks, WriteLock(p, m) PROVE rlock'[l] \subseteq {wlock'[l]}
    BY <2>1, <2>2, <2>4 DEF WriteLock, TypeOK
  <2>5. ASSUME NEW m \in Locks, ReadLock(p, m) PROVE rlock'[l] \subseteq {wlock'[l]}
    BY <1>2, <2>1, <2>5 DEF ReadLock, TypeOK
  <2>6. ASSUME NEW m \in Locks, UnLock(p, m) PROVE rlock'[l] \subseteq {wlock'[l]}
    BY <1>2, <2>1, <2>6 DEF UnLock, TypeOK
  <2>7. ASSUME Exit(p) PROVE rlock'[l] \subseteq {wlock'[l]}
    BY <1>2, <2>1, <2>7 DEF Exit, TypeOK
  <2>8. pc[p] \in {"lock", "unlock"} => Chain(p) \in Locks
    BY ReqFacts, KeyLabelFacts
  <2>9. CASE \/ Call(p) \/ RejectFlag(p) \/ Return(p) \/ FindNext(p) \/ FindHit(p) \/ FindMiss(p)
             \/ ReadDat(p) \/ DelBlank(p) \/ DelIdx(p) \/ DelHead(p) \/ FreeNext(p) \/ FreeHit(p)
             \/ ReuseDat(p) \/ ReuseIdx(p) \/ Link(p) \/ Overwrite(p) \/ ScanSkip(p)
             \/ ScanHit(p) \/ ScanEnd(p) \/ ScanDat(p) \/ Rewind(p) \/ Restart(p)
    <3>1. UNCHANGED locks
      BY <2>9 DEF Call, RejectFlag, Return, FindNext, FindHit, FindMiss, ReadDat, DelBlank,
         DelIdx, DelHead, FreeNext, FreeHit, ReuseDat, ReuseIdx, Link, Overwrite, ScanSkip,
         ScanHit, ScanEnd, ScanDat, Rewind, Restart
    <3>q. QED
      BY <3>1, <2>3
  <2>10. CASE \/ RejectLen(p) \/ DatFull(p) \/ IdxRefused(p) \/ IdxFull(p) \/ LinkQuit(p) \/ ScanAbort(p) \/ Crash(p)
    BY <2>10, <2>7 DEF RejectLen, DatFull, IdxRefused, IdxFull, LinkQuit, ScanAbort, Crash, Die
  <2>11. CASE FindAndLock(p)
    BY <2>11, <2>4, <2>5, <2>8 DEF FindAndLock
  <2>12. CASE \/ DelFree(p) \/ FreeLock(p) \/ AppDat(p) \/ AppIdx(p)
    BY <2>12, <2>4, SetFacts DEF DelFree, FreeLock, AppDat, AppIdx
  <2>13. CASE \/ Unlock(p) \/ DelUnlink(p) \/ FreeMiss(p) \/ FreeTake(p) \/ AppDatW(p) \/ AppIdxW(p)
              \/ ScanUnlock(p)
    BY <2>13, <2>6, <2>8, SetFacts DEF Unlock, DelUnlink, FreeMiss, FreeTake, AppDatW, AppIdxW,
       ScanUnlock
  <2>14. CASE ScanLock(p)
    BY <2>14, <2>5, SetFacts DEF ScanLock
  <2>q. QED
    BY <2>9, <2>10, <2>11, <2>12, <2>13, <2>14 DEF Step, Locking, Working
<1>q. QED
  BY <1>1, <1>2, LockOwn DEF LockOK

-----------------------------------------------------------------------------
(* Steps that change no list *)

Loose == {"link", "reusedat", "reuseidx", "delhead", "delunlink"}
Builds(p) == \/ DelIdx(p) \/ DelHead(p) \/ DelUnlink(p) \/ FreeTake(p)
             \/ ReuseIdx(p) \/ AppIdxW(p) \/ Link(p) \/ LinkQuit(p)

\* No other call works on a chain locked for writing.
LEMMA Exclusive ==
  ASSUME TypeOK, ReqOK, LockOK, NEW p \in Procs, NEW q \in Procs, q # p,
         pc[p] \in ChainLabels, req[p].op # "fetch", pc[q] \in ChainLabels
  PROVE  Chain(q) # Chain(p)
<1>1. Chain(p) \in Locks /\ wlock[Chain(p)] = p
  BY ReqFacts, ChainLabelFacts DEF LockOK
<1>2. wlock[Chain(p)] # NoProc
  BY <1>1, ProcAssumption
<1>3. rlock[Chain(p)] \subseteq {p}
  BY <1>1, <1>2 DEF LockOK
<1>q. QED
  BY <1>1, <1>3 DEF LockOK

\* Who changes a chain has locked it for writing.
LEMMA LooseHolds ==
  ASSUME TypeOK, ReqOK, LockOK, NEW p \in Procs, pc[p] \in DelSteps \cup LinkSteps \cup {"overwrite"}
  PROVE  /\ pc[p] \in ChainLabels /\ req[p].op # "fetch" /\ wlock[Chain(p)] = p
         /\ Chain(p) \in Chains /\ req[p].key \in Keys
<1>1. pc[p] \in ChainLabels
  BY ChainLabelFacts DEF LinkSteps, StoreLabels, FreeSteps, AppSteps
<1>2. req[p].op # "fetch"
  BY DEF ReqOK, LinkSteps, StoreLabels
<1>3. wlock[Chain(p)] = p
  BY <1>1, <1>2 DEF LockOK
<1>4. Chain(p) \in Chains
  BY <1>1, ReqFacts, ChainLabelFacts
<1>5. req[p].key \in Keys
  BY <1>1, ChainLabelFacts DEF ReqOK
<1>q. QED
  BY <1>1, <1>2, <1>3, <1>4, <1>5

\* The steps that change no list leave the pointers and the records of the index
\* file alone, and a process killed there was changing none.
LEMMA Quiet ==
  ASSUME TypeOK, ReqOK, LockOK, NEW p \in Procs, Step(p) \/ Crash(p), torn' = {}, ~Builds(p)
  PROVE  /\ ptr' = ptr
         /\ \A r \in Recs : idx'[r].key = idx[r].key /\ (Written(r)' <=> Written(r))
         /\ \/ pc[p] \notin Loose /\ pc'[p] \notin Loose
            \/ ReuseDat(p)
<1>k. idx' = idx /\ idxend' = idxend =>
        \A r \in Recs : idx'[r].key = idx[r].key /\ (Written(r)' <=> Written(r))
  BY DEF Written
<1> USE <1>k DEF TypeOK, Goto, file
<1>1. CASE \/ Call(p) \/ RejectFlag(p) \/ RejectLen(p) \/ Return(p) \/ ReadDat(p) \/ Unlock(p)
           \/ DelFree(p) \/ DelBlank(p) \/ Overwrite(p)
  BY <1>1 DEF Loose, Call, RejectFlag, RejectLen, Return, ReadDat, Unlock, DelFree, DelBlank,
     Overwrite, Die, Exit, Leave
<1>2. CASE FindAndLock(p) \/ FindNext(p) \/ FindMiss(p)
  BY <1>2 DEF Loose, FindAndLock, FindNext, FindMiss
<1>3. CASE FindHit(p)
  <2>1. pc'[p] \in {"readdat", "unlock", "overwrite", "delfree"}
    BY <1>3 DEF FindHit
  <2>q. QED
    BY <1>3, <2>1 DEF Loose, FindHit
<1>4. CASE FreeLock(p) \/ FreeNext(p) \/ FreeHit(p) \/ FreeMiss(p)
  BY <1>4 DEF Loose, FreeLock, FreeNext, FreeHit, FreeMiss
<1>5. CASE ReuseDat(p)
  BY <1>5 DEF ReuseDat
<1>6. CASE AppDat(p) \/ AppDatW(p) \/ AppIdx(p) \/ IdxRefused(p)
  BY <1>6 DEF Loose, AppDat, AppDatW, AppIdx, IdxRefused, Die, Exit
<1>9. CASE DatFull(p) \/ IdxFull(p)
  <2>1. pc[p] \notin Loose /\ pc'[p] \notin Loose
    BY <1>9 DEF Loose, DatFull, IdxFull, Exit
  <2>q. QED
    BY <1>9, <2>1, Partial
<1>7. CASE \/ ScanLock(p) \/ ScanSkip(p) \/ ScanHit(p) \/ ScanEnd(p) \/ ScanAbort(p) \/ ScanDat(p)
           \/ ScanUnlock(p) \/ Rewind(p) \/ Restart(p)
  BY <1>7 DEF Loose, ScanLock, ScanSkip, ScanHit, ScanEnd, ScanAbort, ScanDat, ScanUnlock,
     Rewind, Restart, Die, Exit, Leave
<1>8. CASE Crash(p)
  <2>1. pc[p] \notin Loose
    <3> SUFFICES ASSUME pc[p] \in Loose PROVE FALSE
      OBVIOUS
    <3>1. wlock[Chain(p)] = p /\ Chain(p) \in Slots
      BY LooseHolds, SetFacts DEF Loose, LinkSteps, StoreLabels, DelSteps
    <3>q. QED
      BY <1>8, <3>1 DEF Crash
  <2>q. QED
    BY <1>8, <2>1 DEF Loose, Crash, Die, Exit
<1>q. QED
  BY <1>1, <1>2, <1>3, <1>4, <1>5, <1>6, <1>7, <1>8, <1>9 DEF Step, Locking, Working, Builds

\* The records processes hold at some steps: those of the others, and the one of p.
LEMMA AtSplit ==
  ASSUME TypeOK, NEW p \in Procs, Step(p) \/ Crash(p), NEW L
  PROVE  LET O == {db[q].idxoff : q \in {z \in Procs : z # p /\ pc[z] \in L}}
         IN  /\ At(L) = O \cup (IF pc[p] \in L THEN {db[p].idxoff} ELSE {})
             /\ At(L)' = O \cup (IF pc'[p] \in L THEN {db'[p].idxoff} ELSE {})
<1>1. \A q \in Procs : q # p => pc'[q] = pc[q] /\ db'[q] = db[q]
  BY Frame
<1>q. QED
  BY <1>1 DEF At

\* Such a step leaves every list its records.
LEMMA QuietSets ==
  ASSUME TypeOK, ReqOK, LockOK, NEW p \in Procs, Step(p) \/ Crash(p), torn' = {}, ~Builds(p)
  PROVE  /\ \A c : Node(c)' = Node(c)
         /\ FreeRecs' = FreeRecs
         /\ \A q \in Procs, c \in Chains : Unlinks(q, c)' => Unlinks(q, c) /\ Restored(q)' = Restored(q)
         /\ \A q \in Procs, c \in Chains : Unlinks(q, c) => Unlinks(q, c)'
<1> USE Quiet
<1>0. ptr' = ptr /\ \A r \in Recs : idx'[r].key = idx[r].key /\ (Written(r)' <=> Written(r))
  OBVIOUS
<1>1. At({"link"})' = At({"link"})
  <2>1. pc[p] # "link" /\ pc'[p] # "link"
    BY DEF Loose, ReuseDat, Goto, TypeOK
  <2>q. QED
    BY <2>1, AtSplit
<1>2. At({"reusedat", "reuseidx", "delhead"})' = At({"reusedat", "reuseidx", "delhead"})
  <2> DEFINE L == {"reusedat", "reuseidx", "delhead"}
  <2>1. \/ pc[p] \notin L /\ pc'[p] \notin L
        \/ pc[p] \in L /\ pc'[p] \in L /\ db'[p].idxoff = db[p].idxoff
    BY DEF Loose, ReuseDat, Goto, TypeOK, DB
  <2>2. LET O == {db[q].idxoff : q \in {z \in Procs : z # p /\ pc[z] \in L}}
        IN  /\ At(L) = O \cup (IF pc[p] \in L THEN {db[p].idxoff} ELSE {})
            /\ At(L)' = O \cup (IF pc'[p] \in L THEN {db'[p].idxoff} ELSE {})
    BY AtSplit
  <2> HIDE DEF L
  <2>3. At(L)' = At(L)
    BY <2>1, <2>2
  <2>q. QED
    BY <2>3 DEF L
<1>3. \A r : Live(r)' <=> Live(r)
  BY <1>0 DEF Live, Written
<1>4. \A r \in Recs : Written(r)' <=> Written(r)
  BY <1>0 DEF Written
<1>5. \A c : Node(c)' = Node(c)
  BY <1>0, <1>1, <1>3 DEF Node, Bucket
<1>6. FreeRecs' = FreeRecs
  BY <1>2, <1>3, <1>4 DEF FreeRecs
<1>7. ASSUME NEW q \in Procs, NEW c \in Chains
      PROVE  /\ Unlinks(q, c)' => Unlinks(q, c) /\ Restored(q)' = Restored(q)
             /\ Unlinks(q, c) => Unlinks(q, c)'
  <2>1. CASE q = p
    BY <2>1 DEF Loose, Unlinks, ReuseDat, Goto, TypeOK
  <2>2. CASE q # p
    BY <2>2, <1>0, Frame DEF Unlinks, Restored, Chain
  <2>q. QED
    BY <2>1, <2>2
<1>q. QED
  BY <1>5, <1>6, <1>7

\* And every list, and what the other processes know of it, stays.
LEMMA QuietLists ==
  ASSUME TypeOK, ReqOK, LockOK, ListsOK, NEW p \in Procs, Step(p) \/ Crash(p), torn' = {}, ~Builds(p)
  PROVE  /\ \A c \in Chains : ChainList(c)' /\ OneEach(c)'
         /\ ListIs(ptr, FREE_OFF, FreeRecs)'
         /\ \A q \in Procs : q # p => ChainStep(q)' /\ FreeStep(q)'
<1>0. ptr' = ptr /\ \A r \in Recs : idx'[r].key = idx[r].key /\ (Written(r)' <=> Written(r))
  BY Quiet
<1>n. \A c : Node(c) \subseteq Recs
  BY DEF Node, Bucket
<1>1. ASSUME NEW c \in Chains PROVE ChainList(c)'
  <2>1. ChainList(c)
    BY DEF ListsOK
  <2>2. (\A q \in Procs : ~Unlinks(q, c)') => ListIs(ptr, c, Node(c))
    BY <2>1, QuietSets DEF ChainList
  <2>3. \A q \in Procs : Unlinks(q, c)' => ListIs(Restored(q)', c, Node(c))
    BY <2>1, QuietSets DEF ChainList
  <2>q. QED
    BY <2>2, <2>3, <1>0, QuietSets DEF ChainList, ListIs, Closed
<1>2. ASSUME NEW c \in Chains PROVE OneEach(c)'
  BY <1>0, <1>n, QuietSets DEF OneEach, ListsOK
<1>3. ListIs(ptr, FREE_OFF, FreeRecs)'
  BY <1>0, QuietSets DEF ListsOK, ListIs, Closed, FREE_OFF
<1>4. ASSUME NEW q \in Procs, q # p PROVE ChainStep(q)' /\ FreeStep(q)'
  <2>1. pc'[q] = pc[q] /\ req'[q] = req[q] /\ db'[q] = db[q] /\ Chain(q)' = Chain(q)
    BY <1>4, Frame DEF Chain
  <2>2. \A r : Live(r)' <=> Live(r)
    BY <1>0 DEF Live, Written
  <2>3. Absent(q)' <=> Absent(q)
    BY <1>0, <1>n, <2>1, QuietSets DEF Absent
  <2>4. Ahead(q)' <=> Ahead(q)
    BY <1>0, <1>n, <2>1, QuietSets DEF Ahead, Closed
  <2>5. ChainStep(q)'
    <3>1. PICK c : c = Chain(q)
      OBVIOUS
    <3>2. Chain(q)' = c /\ ptr' = ptr /\ Node(c)' = Node(c)
      BY <3>1, <1>0, <2>1, QuietSets
    <3>3. ChainStep(q) /\ \A r \in Node(c) : idx'[r].key = idx[r].key
      BY <1>0, <1>n DEF ListsOK
    <3>4. \A r : Live(r) => idx'[r].key = idx[r].key
      BY <1>0 DEF Live, Written
    <3>q. QED
      BY <3>1, <3>2, <3>3, <3>4, <2>1, <2>2, <2>3, <2>4 DEF ChainStep
  <2>6. FreeStep(q)'
    <3>1. FreeStep(q) /\ FreeStep(p)
      BY DEF ListsOK
    <3> DEFINE L == {"reusedat", "reuseidx", "delhead"}
    <3>2. ASSUME NEW z \in Procs, pc'[z] \in L
          PROVE  pc[z] \in L /\ db'[z].idxoff = db[z].idxoff
      <4>1. CASE z = p
        BY <3>2, <4>1, Quiet DEF Loose, ReuseDat, Goto, TypeOK, DB
      <4>2. CASE z # p
        BY <3>2, <4>2, Frame
      <4>q. QED
        BY <4>1, <4>2
    <3>3. ASSUME NEW z \in Procs, z # q, pc'[q] \in L, pc'[z] \in L
          PROVE  db'[q].idxoff # db'[z].idxoff
      BY <3>1, <3>2, <3>3 DEF FreeStep
    <3> HIDE DEF L
    <3>4. \A z \in Procs : z # q /\ pc'[q] \in L /\ pc'[z] \in L => db'[q].idxoff # db'[z].idxoff
      BY <3>3
    <3>q. QED
      BY <3>1, <3>4, <1>0, <2>1, <2>2, QuietSets DEF FreeStep, L
  <2>q. QED
    BY <2>5, <2>6
<1>q. QED
  BY <1>1, <1>2, <1>3, <1>4

\* No one else is unlinking from the chain a process has locked.
LEMMA ChainWhole ==
  ASSUME TypeOK, ReqOK, LockOK, ListsOK, NEW p \in Procs,
         pc[p] \in ChainLabels \ {"delhead", "delunlink"}
  PROVE  Chain(p) \in Chains /\ ListIs(ptr, Chain(p), Node(Chain(p)))
<1>1. Chain(p) \in Chains
  BY ReqFacts, ChainLabelFacts
<1>2. ASSUME NEW q \in Procs, Unlinks(q, Chain(p)) PROVE FALSE
  <2>1. q # p /\ pc[q] \in ChainLabels /\ req[q].op # "fetch"
    BY <1>2, LooseHolds DEF Unlinks, DelSteps
  <2>q. QED
    BY <1>2, <2>1, Exclusive DEF Unlinks
<1>q. QED
  BY <1>1, <1>2 DEF ListsOK, ChainList

SearchSteps(p) == \/ FindAndLock(p) \/ FindNext(p) \/ FindHit(p) \/ FindMiss(p) \/ DelFree(p)
                  \/ DelBlank(p) \/ FreeLock(p) \/ FreeNext(p) \/ FreeHit(p) \/ FreeMiss(p)
                  \/ ReuseDat(p) \/ AppDat(p) \/ AppDatW(p) \/ AppIdx(p)
KnowLabels == {"find", "readdat", "overwrite"} \cup DelSteps \cup LinkSteps

\* The steps through which a process comes to know something of a list.
LEMMA SearchEnters ==
  ASSUME TypeOK, NEW p \in Procs, Step(p) \/ Crash(p), ~Builds(p), pc'[p] \in KnowLabels
  PROVE  SearchSteps(p)
<1>1. pc'[p] \notin {"ready", "dead", "lock", "return", "unlock",
                    "scanlock", "scan", "scandat", "scanunlock"}
  BY DEF KnowLabels, DelSteps, LinkSteps, StoreLabels, FreeSteps, AppSteps
<1>2. /\ ~Call(p) /\ ~RejectFlag(p) /\ ~RejectLen(p) /\ ~Return(p) /\ ~ReadDat(p)
      /\ ~Unlock(p) /\ ~DatFull(p) /\ ~IdxRefused(p) /\ ~IdxFull(p) /\ ~Overwrite(p)
  BY <1>1 DEF TypeOK, Goto, Call, RejectFlag, RejectLen, Return, ReadDat, Unlock, DatFull,
     IdxRefused, IdxFull, Overwrite, Die, Exit, Leave
<1>3. /\ ~ScanLock(p) /\ ~ScanSkip(p) /\ ~ScanHit(p) /\ ~ScanEnd(p) /\ ~ScanAbort(p)
      /\ ~ScanDat(p) /\ ~ScanUnlock(p) /\ ~Rewind(p) /\ ~Restart(p) /\ ~Crash(p)
  BY <1>1 DEF TypeOK, Goto, ScanLock, ScanSkip, ScanHit, ScanEnd, ScanAbort, ScanDat,
     ScanUnlock, Rewind, Restart, Crash, Die, Exit, Leave
<1>q. QED
  BY <1>2, <1>3 DEF Step, Locking, Working, Builds, SearchSteps

\* Other processes know nothing.
LEMMA StepVacuous ==
  ASSUME NEW p \in Procs, pc'[p] \notin KnowLabels
  PROVE  ChainStep(p)' /\ FreeStep(p)'
BY DEF KnowLabels, ChainStep, FreeStep, LinkSteps, StoreLabels, FreeSteps, AppSteps, DelSteps

\* The chain search sees every record with the key ahead of it.
LEMMA FindOwn ==
  ASSUME TypeOK, ReqOK, LockOK, ListsOK, NEW p \in Procs, torn' = {},
         FindAndLock(p) \/ FindNext(p) \/ FindHit(p) \/ FindMiss(p)
  PROVE  ChainStep(p)' /\ FreeStep(p)'
<1>p. PICK c : c = Chain(p)
  OBVIOUS
<1> USE <1>p
<1>a. pc[p] \in {"lock", "find"} /\ Step(p)
  BY DEF Step, Locking, Working, FindAndLock, FindNext, FindHit, FindMiss
<1>b. ~Builds(p)
  BY <1>a DEF Builds, DelIdx, DelHead, DelUnlink, FreeTake, ReuseIdx, AppIdxW, Link, LinkQuit
<1>s. Step(p) /\ ~Builds(p) /\ pc[p] \in {"lock", "find"}
  BY <1>a, <1>b
<1>0. ptr' = ptr /\ idx' = idx /\ idxend' = idxend /\ req' = req /\ Chain(p)' = c
  BY <1>s DEF FindAndLock, FindNext, FindHit, FindMiss, Chain, file
<1>1. Node(c)' = Node(c)
  BY <1>s, QuietSets
<1>2. c \in Chains
  BY <1>s, ReqFacts, KeyLabelFacts
<1>3. ListIs(ptr, c, Node(c))
  <2>1. CASE pc[p] = "find"
    BY <2>1, ChainWhole, ChainLabelFacts
  <2>2. CASE FindAndLock(p)
    <3>1. ASSUME NEW q \in Procs, Unlinks(q, c) PROVE FALSE
      <4>1. wlock[c] = q /\ q # p
        BY <3>1, <2>2, LooseHolds DEF Unlinks, DelSteps, FindAndLock
      <4>2. wlock[c] \in {NoProc, p}
        BY <2>2 DEF FindAndLock, ReadLock, WriteLock
      <4>q. QED
        BY <4>1, <4>2, ProcAssumption
    <3>q. QED
      BY <3>1, <1>2 DEF ListsOK, ChainList
  <2>q. QED
    BY <2>1, <2>2 DEF FindNext, FindHit, FindMiss
<1>4. Node(c) \subseteq Recs /\ 0 \notin Recs
  BY SetFacts, SizeAssumption DEF Node, Bucket, Recs, FirstRec
<1>5. CASE FindAndLock(p)
  <2>1. db'[p].ptroff = c /\ db'[p].idxoff = ptr[c] /\ pc'[p] = "find"
    BY <1>5 DEF FindAndLock, TypeOK, DB, Goto
  <2>2. Ahead(p)'
    BY <2>1, <1>0, <1>1, <1>3 DEF Ahead, ListIs, Closed
  <2>q. QED
    BY <2>1, <2>2, <1>0 DEF ChainStep, FreeStep, LinkSteps, StoreLabels, FreeSteps, AppSteps, DelSteps
<1>6. ASSUME pc[p] = "find", Written(db[p].idxoff)
      PROVE  /\ db[p].idxoff \in Node(c) /\ ptr[db[p].ptroff] = db[p].idxoff
             /\ db[p].ptroff \in Node(c) \cup {c}
  <2>1. ChainStep(p)
    BY DEF ListsOK
  <2>2. ptr[db[p].ptroff] = db[p].idxoff /\ db[p].ptroff \in Node(c) \cup {c}
    BY <2>1, <1>6 DEF ChainStep
  <2>q. QED
    BY <2>2, <1>3, <1>4, <1>6 DEF ListIs, Written
<1>7. CASE FindNext(p)
  <2> DEFINE r == db[p].idxoff
  <2>1. db'[p].ptroff = r /\ db'[p].idxoff = ptr[r] /\ pc'[p] = "find" /\ idx[r].key # req[p].key
    BY <1>7 DEF FindNext, TypeOK, DB
  <2>2. r \in Node(c) /\ ptr[db[p].ptroff] = r
    BY <1>6, <1>7 DEF FindNext
  <2>3. Ahead(p)'
    <3> SUFFICES ASSUME NEW s \in Node(c), idx[s].key = req[p].key,
                        NEW T \in SUBSET Ptrs, Closed(ptr, r, T)
                 PROVE  s \in T
      BY <2>1, <1>0, <1>1 DEF Ahead, Closed
    <3>1. Closed(ptr, db[p].ptroff, T \cup {r})
      BY <2>2, <1>4 DEF Closed
    <3>2. T \cup {r} \in SUBSET Ptrs
      BY <2>2, <1>4, SetFacts
    <3>3. Ahead(p)
      BY <1>7 DEF FindNext, ListsOK, ChainStep
    <3>q. QED
      BY <3>1, <3>2, <3>3, <2>1 DEF Ahead
  <2>q. QED
    BY <2>1, <2>2, <2>3, <1>0, <1>1 DEF ChainStep, FreeStep, LinkSteps, StoreLabels, FreeSteps,
       AppSteps, DelSteps
<1>8. CASE FindHit(p)
  <2> DEFINE r == db[p].idxoff
  <2>1. PICK w \in DB : w = db[p]
    BY DEF TypeOK
  <2>2. /\ db'[p].idxoff = r /\ db'[p].ptrval = ptr[r] /\ db'[p].ptroff = db[p].ptroff
        /\ idx[r].key = req[p].key
    BY <1>8, <2>1 DEF FindHit, TypeOK, DB, ReadIdx
  <2>3. pc'[p] \in {"readdat", "unlock", "overwrite", "delfree"}
    BY <1>8 DEF FindHit, TypeOK, Goto
  <2>4. /\ r \in Node(c) /\ ptr[db[p].ptroff] = r /\ db[p].ptroff \in Node(c) \cup {c}
    BY <1>6, <1>8 DEF FindHit
  <2>q. QED
    BY <2>2, <2>3, <2>4, <1>0, <1>1 DEF ChainStep, FreeStep, LinkSteps, StoreLabels, FreeSteps,
       AppSteps, DelSteps
<1>9. CASE FindMiss(p)
  <2>1. pc'[p] \in {"freelock", "unlock"} /\ db[p].idxoff = 0 /\ pc[p] = "find"
    BY <1>9 DEF FindMiss, TypeOK, Goto
  <2>2. pc'[p] = "freelock" => db'[p].next = ptr[c]
    BY <1>9 DEF FindMiss, TypeOK, Goto, DB
  <2>3. Absent(p)
    <3>1. Ahead(p) /\ ptr[db[p].ptroff] = 0
      BY <2>1 DEF ListsOK, ChainStep
    <3>2. Closed(ptr, db[p].ptroff, {0}) /\ {0} \in SUBSET Ptrs
      BY <3>1, SetFacts DEF Closed
    <3>q. QED
      BY <3>1, <3>2, <1>4 DEF Ahead, Absent
  <2>4. Absent(p)'
    BY <2>3, <1>0, <1>1 DEF Absent
  <2>q. QED
    BY <2>1, <2>2, <2>4, <1>0 DEF ChainStep, FreeStep, LinkSteps, StoreLabels, FreeSteps,
       AppSteps, DelSteps
<1>q. QED
  BY <1>5, <1>7, <1>8, <1>9

\* The rest of a call before it changes a list.
LEMMA SearchOwn ==
  ASSUME TypeOK, ReqOK, LockOK, ListsOK, NEW p \in Procs, torn' = {},
         \/ DelFree(p) \/ DelBlank(p) \/ FreeLock(p) \/ FreeNext(p) \/ FreeHit(p) \/ FreeMiss(p)
         \/ ReuseDat(p) \/ AppDat(p) \/ AppDatW(p) \/ AppIdx(p)
  PROVE  ChainStep(p)' /\ FreeStep(p)'
<1>p. PICK c : c = Chain(p)
  OBVIOUS
<1> USE <1>p
<1>a. Step(p)
  BY DEF Step, Locking, Working
<1>b. pc[p] \in {"delfree", "delblank", "freelock", "freefind", "reusedat", "appdat", "appdatw", "appidx"}
  BY DEF DelFree, DelBlank, FreeLock, FreeNext, FreeHit, FreeMiss, ReuseDat, AppDat, AppDatW, AppIdx
<1>c. ~Builds(p)
  BY <1>b DEF Builds, DelIdx, DelHead, DelUnlink, FreeTake, ReuseIdx, AppIdxW, Link, LinkQuit
<1>0. ptr' = ptr /\ idx' = idx /\ idxend' = idxend /\ req' = req /\ Chain(p)' = c
  BY <1>a, <1>c DEF DelFree, DelBlank, FreeLock, FreeNext, FreeHit, FreeMiss, ReuseDat,
     AppDat, AppDatW, AppIdx, Chain, file
<1>1. Node(c)' = Node(c) /\ FreeRecs' = FreeRecs
  BY <1>a, <1>c, QuietSets
<1>2. Absent(p)' <=> Absent(p)
  BY <1>0, <1>1 DEF Absent
<1>3. ChainStep(p) /\ FreeStep(p)
  BY DEF ListsOK
<1>4. PICK w \in DB : w = db[p]
  BY DEF TypeOK
<1>5. CASE DelFree(p) \/ DelBlank(p)
  <2>1. /\ pc[p] \in {"delfree", "delblank"} /\ pc'[p] \in {"delblank", "delidx"}
        /\ db'[p] = db[p]
    BY <1>5 DEF DelFree, DelBlank, TypeOK, Goto
  <2>q. QED
    BY <2>1, <1>0, <1>1, <1>3 DEF ChainStep, FreeStep, LinkSteps, StoreLabels, FreeSteps,
       AppSteps, DelSteps
<1>6. ASSUME pc[p] \in LinkSteps, pc'[p] \in LinkSteps \ {"link"}, db'[p].next = db[p].next
      PROVE  ChainStep(p)'
  BY <1>6, <1>0, <1>2, <1>3 DEF ChainStep, LinkSteps, StoreLabels, FreeSteps, AppSteps, DelSteps
<1>7. CASE FreeLock(p)
  <2>1. /\ pc[p] = "freelock" /\ pc'[p] = "freefind" /\ db'[p].next = db[p].next
        /\ db'[p].save = FREE_OFF /\ db'[p].idxoff = ptr[FREE_OFF]
    BY <1>7, <1>4 DEF FreeLock, TypeOK, Goto, DB
  <2>2. ChainStep(p)'
    BY <2>1, <1>6 DEF LinkSteps, StoreLabels, FreeSteps
  <2>q. QED
    BY <2>1, <2>2, <1>0, <1>1 DEF FreeStep, FREE_OFF
<1>8. ASSUME pc[p] = "freefind", Written(db[p].idxoff)
      PROVE  db[p].idxoff \in FreeRecs /\ ptr[db[p].save] = db[p].idxoff
             /\ db[p].save \in FreeRecs \cup {0}
  <2>1. db[p].idxoff # 0
    BY <1>8, SizeAssumption DEF Written, Recs, FirstRec
  <2>2. ptr[db[p].save] = db[p].idxoff /\ db[p].save \in FreeRecs \cup {0}
    BY <1>3, <1>8 DEF FreeStep
  <2>q. QED
    BY <2>1, <2>2 DEF ListsOK, ListIs, FREE_OFF
<1>9. CASE FreeNext(p)
  <2>1. /\ pc[p] = "freefind" /\ pc'[p] = "freefind" /\ db'[p].next = db[p].next
        /\ db'[p].save = db[p].idxoff /\ db'[p].idxoff = ptr[db[p].idxoff]
    BY <1>9, <1>4 DEF FreeNext, TypeOK, DB
  <2>2. ChainStep(p)'
    BY <2>1, <1>6 DEF LinkSteps, StoreLabels, FreeSteps
  <2>3. db[p].idxoff \in FreeRecs
    BY <1>8, <1>9 DEF FreeNext
  <2>q. QED
    BY <2>1, <2>2, <2>3, <1>0, <1>1 DEF FreeStep
<1>10. CASE FreeHit(p)
  <2>1. /\ pc[p] = "freefind" /\ pc'[p] = "freetake" /\ db'[p].next = db[p].next
        /\ db'[p].save = db[p].save /\ db'[p].idxoff = db[p].idxoff
        /\ db'[p].ptrval = ptr[db[p].idxoff]
    BY <1>10, <1>4 DEF FreeHit, TypeOK, Goto, DB, ReadIdx
  <2>2. ChainStep(p)'
    BY <2>1, <1>6 DEF LinkSteps, StoreLabels, FreeSteps
  <2>3. /\ db[p].idxoff \in FreeRecs /\ ptr[db[p].save] = db[p].idxoff
        /\ db[p].save \in FreeRecs \cup {0}
    BY <1>8, <1>10 DEF FreeHit
  <2>q. QED
    BY <2>1, <2>2, <2>3, <1>0, <1>1 DEF FreeStep
<1>11. CASE FreeMiss(p) \/ AppDat(p) \/ AppDatW(p) \/ AppIdx(p)
  <2>1. /\ pc[p] \in {"freefind", "appdat", "appdatw", "appidx"} /\ db'[p].next = db[p].next
        /\ pc'[p] \in {"appdat", "appdatw", "appidx", "appidxw"}
    BY <1>11, <1>4 DEF FreeMiss, AppDat, AppDatW, AppIdx, TypeOK, Goto, DB
  <2>2. ChainStep(p)'
    BY <2>1, <1>6 DEF LinkSteps, StoreLabels, FreeSteps, AppSteps
  <2>q. QED
    BY <2>1, <2>2 DEF FreeStep
<1>12. CASE ReuseDat(p)
  <2>1. /\ pc[p] = "reusedat" /\ pc'[p] = "reuseidx" /\ db'[p].next = db[p].next
        /\ db'[p].idxoff = db[p].idxoff
    BY <1>12, <1>4 DEF ReuseDat, TypeOK, Goto, DB
  <2>2. ChainStep(p)'
    BY <2>1, <1>6 DEF LinkSteps, StoreLabels
  <2>3. ~Live(db[p].idxoff)'
    BY <2>1, <1>3, <1>0 DEF FreeStep, Live, Written
  <2>4. \A q \in Procs : q # p => pc'[q] = pc[q] /\ db'[q] = db[q]
    BY <1>a, Frame
  <2>q. QED
    BY <2>1, <2>2, <2>3, <2>4, <1>3 DEF FreeStep
<1>q. QED
  BY <1>5, <1>7, <1>9, <1>10, <1>11, <1>12

\* Steps that change no list keep the lists.
LEMMA QuietStep ==
  ASSUME TypeOK, ReqOK, LockOK, ListsOK, NEW p \in Procs, Step(p) \/ Crash(p), torn' = {}, ~Builds(p)
  PROVE  ListsOK'
<1>1. ChainStep(p)' /\ FreeStep(p)'
  BY StepVacuous, SearchEnters, FindOwn, SearchOwn DEF SearchSteps
<1>q. QED
  BY <1>1, QuietLists DEF ListsOK

-----------------------------------------------------------------------------
(* Steps that change a list write one place of the index file *)

\* The step of p, which has locked its chain for writing, changes at most the
\* pointer or the record at w, and that is of no other chain.
Touches(p, w) ==
  /\ \A x \in Fields : x # w => ptr'[x] = ptr[x]
  /\ \A x \in Recs : x # w => idx'[x].key = idx[x].key /\ (Written(x)' <=> Written(x))
  /\ \A d \in Chains : d # Chain(p) => w # d /\ w \notin Own(d) /\ w \notin Own(d)'
  /\ pc'[p] = "link" => db'[p].idxoff = w
  /\ pc[p] \in DelSteps \cup LinkSteps
  /\ req'[p] = req[p] \/ pc'[p] = "dead"

\* The records of a chain are records.
LEMMA OwnFacts == \A c : Own(c) \subseteq Recs /\ Node(c) \subseteq Own(c) /\ Node(c) \subseteq Recs
BY DEF Own, Node, Bucket

\* A step that changes one place leaves the records of every other chain.
LEMMA OtherSets ==
  ASSUME TypeOK, ReqOK, LockOK, ListsOK, NEW p \in Procs, Step(p), NEW w, Touches(p, w),
         NEW d \in Chains, d # Chain(p)
  PROVE  /\ Own(d)' = Own(d) /\ Node(d)' = Node(d)
         /\ \A x \in Own(d) \cup {d} : ptr'[x] = ptr[x]
         /\ \A x \in Own(d) : x # w /\ idx'[x].key = idx[x].key
<1>1. \A x \in Recs : x # w => (Live(x)' <=> Live(x))
  BY DEF Touches, Live
<1>2. Own(d)' = Own(d)
  BY <1>1 DEF Own, Touches
<1>3. \A x \in Own(d) : x \in At({"link"})' <=> x \in At({"link"})
  <2>1. pc[p] = "link" => db[p].idxoff \notin Own(d)
    BY DEF ListsOK, ChainStep, Own, Chain
  <2>2. pc'[p] = "link" => db'[p].idxoff \notin Own(d)
    BY DEF Touches
  <2>q. QED
    BY <2>1, <2>2, AtSplit
<1>4. Node(d)' = Node(d)
  <2>1. Node(d) = {r \in Own(d) : r <= PTR_MAX /\ r \notin At({"link"})}
    BY DEF Node, Own, Bucket
  <2>2. Node(d)' = {r \in Own(d)' : r <= PTR_MAX /\ r \notin At({"link"})'}
    BY DEF Node, Own, Bucket
  <2>q. QED
    BY <2>1, <2>2, <1>2, <1>3
<1>5. Own(d) \subseteq Recs /\ Recs \subseteq Fields /\ d \in Fields
  BY OwnFacts, SetFacts
<1>q. QED
  BY <1>2, <1>4, <1>5 DEF Touches

\* It leaves the other chains, and what other processes know of theirs.
LEMMA OtherLists ==
  ASSUME TypeOK, ReqOK, HeldOK, LockOK, ListsOK, NEW p \in Procs, Step(p), NEW w, Touches(p, w)
  PROVE  /\ \A d \in Chains : d # Chain(p) => ChainList(d)' /\ OneEach(d)'
         /\ \A q \in Procs : q # p => ChainStep(q)'
<1>1. ASSUME NEW d \in Chains, d # Chain(p) PROVE ChainList(d)'
  <2>1. \A q \in Procs : Unlinks(q, d)' => q # p /\ Unlinks(q, d)
    <3>1. ~Unlinks(p, d)'
      BY <1>1 DEF Unlinks, Touches, Chain
    <3>2. \A q \in Procs : q # p => Chain(q)' = Chain(q) /\ pc'[q] = pc[q]
      BY Frame DEF Chain
    <3>q. QED
      BY <3>1, <3>2 DEF Unlinks
  <2>2. \A q \in Procs : Unlinks(q, d) => Unlinks(q, d)'
    <3>1. ~Unlinks(p, d)
      BY <1>1 DEF Unlinks
    <3>2. \A q \in Procs : q # p => Chain(q)' = Chain(q) /\ pc'[q] = pc[q]
      BY Frame DEF Chain
    <3>q. QED
      BY <3>1, <3>2 DEF Unlinks
  <2>3. ChainList(d) /\ Node(d) \subseteq Recs /\ Node(d) \subseteq Own(d)
    BY OwnFacts DEF ListsOK
  <2>4. (\A q \in Procs : ~Unlinks(q, d)') => ListIs(ptr', d, Node(d))
    <3> SUFFICES ASSUME \A q \in Procs : ~Unlinks(q, d)' PROVE ListIs(ptr', d, Node(d))
      OBVIOUS
    <3>1. ListIs(ptr, d, Node(d))
      BY <2>2, <2>3 DEF ChainList
    <3>2. \A x \in Node(d) \cup {d} : ptr'[x] = ptr[x]
      BY <1>1, <2>3, OtherSets
    <3>q. QED
      BY <3>1, <3>2, <2>3, ListSame
  <2>5. ASSUME NEW q \in Procs, Unlinks(q, d)' PROVE ListIs(Restored(q)', d, Node(d))
    <3>1. q # p /\ Unlinks(q, d) /\ db'[q] = db[q]
      BY <2>1, <2>5, Frame
    <3>2. ListIs(Restored(q), d, Node(d))
      BY <3>1, <2>3 DEF ChainList
    <3>3. \A x \in Node(d) \cup {d} : Restored(q)'[x] = Restored(q)[x]
      <4>1. TypeOK'
        BY TypeStep
      <4>2. \A x \in Node(d) \cup {d} : ptr'[x] = ptr[x] /\ x \in Fields
        BY <1>1, <2>3, OtherSets, SetFacts
      <4>q. QED
        BY <3>1, <4>1, <4>2 DEF Restored, TypeOK
    <3>q. QED
      BY <3>2, <3>3, <2>3, ListSame
  <2>6. Node(d)' = Node(d)
    BY <1>1, OtherSets
  <2>q. QED
    BY <2>4, <2>5, <2>6 DEF ChainList, ListIs, Closed
<1>2. ASSUME NEW d \in Chains, d # Chain(p) PROVE OneEach(d)'
  <2>1. OneEach(d) /\ Node(d) \subseteq Own(d)
    BY OwnFacts DEF ListsOK
  <2>q. QED
    BY <2>1, <1>2, OtherSets DEF OneEach
<1>3. ASSUME NEW q \in Procs, q # p, pc'[q] \in KnowLabels PROVE ChainStep(q)'
  <2>1. pc'[q] = pc[q] /\ req'[q] = req[q] /\ db'[q] = db[q] /\ Chain(q)' = Chain(q)
    BY <1>3, Frame DEF Chain
  <2>2. pc[q] \in ChainLabels
    BY <2>1, <1>3, ChainLabelFacts DEF KnowLabels, LinkSteps, StoreLabels
  <2>3. pc[p] \in ChainLabels /\ req[p].op # "fetch"
    BY LooseHolds DEF Touches
  <2>4. PICK d \in Chains : d = Chain(q) /\ d # Chain(p)
    BY <1>3, <2>2, <2>3, Exclusive, ReqFacts, ChainLabelFacts
  <2>5. /\ Node(d)' = Node(d) /\ Own(d)' = Own(d) /\ Node(d) \subseteq Own(d)
        /\ \A x \in Own(d) \cup {d} : ptr'[x] = ptr[x]
        /\ \A x \in Own(d) : idx'[x].key = idx[x].key
    BY <2>4, OtherSets, OwnFacts
  <2>6. ChainStep(q)
    BY DEF ListsOK
  <2>7. Absent(q) => Absent(q)'
    BY <2>1, <2>4, <2>5 DEF Absent
  <2>8. pc[q] = "find" => Ahead(q)'
    <3> SUFFICES ASSUME pc[q] = "find", NEW s \in Node(d), idx[s].key = req[q].key,
                        NEW T \in SUBSET Ptrs, Closed(ptr', db[q].ptroff, T)
                 PROVE  s \in T
      BY <2>1, <2>4, <2>5 DEF Ahead, Closed
    <3>1. Ahead(q) /\ db[q].ptroff \in Node(d) \cup {d}
      BY <2>4, <2>6 DEF ChainStep
    <3>2. ListIs(ptr, d, Node(d)) /\ Node(d) \subseteq Recs /\ 0 \notin Recs /\ 0 \in Ptrs
      BY <2>2, <2>4, ChainWhole, OwnFacts, SetFacts, SizeAssumption DEF Recs, FirstRec
    <3>3. Closed(ptr, db[q].ptroff, T \cap (Node(d) \cup {0}))
      BY <3>1, <3>2, <2>5 DEF Closed, ListIs
    <3>4. T \cap (Node(d) \cup {0}) \in SUBSET Ptrs
      BY <3>2
    <3>q. QED
      BY <3>1, <3>3, <3>4, <2>4 DEF Ahead
  <2>9. pc[q] = "link" => db[q].idxoff \in Own(d) /\ Live(db[q].idxoff)'
    <3>1. pc[q] = "link" => db[q].idxoff \in Own(d)
      BY <2>4, <2>6 DEF ChainStep, Own, Live, Written, Chain
    <3>2. \A x \in Own(d)' : Live(x)'
      BY DEF Own
    <3>q. QED
      BY <3>1, <3>2, <2>1, <2>5
  <2>10. PICK y : y = db[q] /\ y = db'[q]
    BY <2>1
  <2>11. pc[q] \in {"find"} \cup DelSteps => y.ptroff \in Node(d) \cup {d}
    BY <2>4, <2>6, <2>10 DEF ChainStep
  <2>12. pc[q] \in {"find", "delfree", "delblank", "delidx"} => ptr'[y.ptroff] = y.idxoff
    BY <2>4, <2>5, <2>6, <2>10 DEF ChainStep, DelSteps
  <2>13. pc[q] \in {"readdat", "overwrite", "delfree", "delblank", "delidx"} =>
           y.idxoff \in Node(d) /\ idx'[y.idxoff].key = req[q].key
    BY <2>4, <2>5, <2>6, <2>10 DEF ChainStep
  <2>14. pc[q] \in {"delfree", "delblank", "delidx"} => y.ptrval = ptr'[y.idxoff]
    BY <2>4, <2>5, <2>6, <2>10, <2>13 DEF ChainStep
  <2>15. pc[q] \in {"delhead", "delunlink"} \cup LinkSteps => Absent(q)'
    BY <2>6, <2>7 DEF ChainStep
  <2>16. pc[q] \in LinkSteps => y.next = ptr'[d]
    BY <2>4, <2>5, <2>6, <2>10 DEF ChainStep
  <2>17. pc[q] = "link" => idx'[y.idxoff].key = req[q].key /\ ptr'[y.idxoff] = ptr'[d]
    BY <2>4, <2>5, <2>6, <2>9, <2>10 DEF ChainStep
  <2>q. QED
    BY <2>1, <2>4, <2>5, <2>8, <2>9, <2>10, <2>11, <2>12, <2>13, <2>14, <2>15, <2>16, <2>17
    DEF ChainStep
<1>4. ASSUME NEW q \in Procs, q # p PROVE ChainStep(q)'
  BY <1>3, <1>4, StepVacuous
<1>q. QED
  BY <1>1, <1>2, <1>4

\* The labels at which a process has a blank record that is not on the free list.
OffLabels == {"reusedat", "reuseidx", "delhead"}

\* It leaves what other processes know of the free list.
LEMMA OtherFree ==
  ASSUME TypeOK, ReqOK, HeldOK, LockOK, ListsOK, NEW p \in Procs, Step(p), NEW w, Touches(p, w),
         pc[p] \in FreeLabels \/ (FreeRecs' = FreeRecs /\ w \notin FreeRecs \cup {0}),
         \A q \in Procs : q # p /\ pc[q] \in OffLabels =>
           /\ db[q].idxoff # w
           /\ pc'[p] \in OffLabels => db'[p].idxoff # db[q].idxoff,
         NEW q \in Procs, q # p
  PROVE  FreeStep(q)'
<1>1. pc'[q] = pc[q] /\ req'[q] = req[q]
  BY Frame
<1>2. PICK y : y = db[q] /\ y = db'[q]
  BY Frame
<1>3. FreeStep(q)
  BY DEF ListsOK
<1>4. pc[q] \in FreeLabels => FreeRecs' = FreeRecs /\ w \notin FreeRecs \cup {0}
  BY ProcAssumption DEF LockOK
<1>5. pc[q] \in FreeLabels => \A x \in FreeRecs \cup {0} : ptr'[x] = ptr[x]
  BY <1>4, SetFacts DEF Touches, FreeRecs
<1>6. pc[q] \in {"freefind", "freetake"} => y.save \in FreeRecs' \cup {0} /\ ptr'[y.save] = y.idxoff
  BY <1>2, <1>3, <1>4, <1>5 DEF FreeStep, FreeLabels
<1>7. pc[q] = "freetake" => y.idxoff \in FreeRecs' /\ y.ptrval = ptr'[y.idxoff]
  BY <1>2, <1>3, <1>4, <1>5 DEF FreeStep, FreeLabels
<1>8. pc[q] \in OffLabels => y.idxoff \in Recs /\ y.idxoff # w
  BY <1>2 DEF HeldOK, Held, Written, OffLabels, HoldLabels, DelSteps
<1>9. pc[q] \in OffLabels => ~Live(y.idxoff)'
  <2>1. pc[q] \in OffLabels => ~Live(y.idxoff)
    BY <1>2, <1>3 DEF FreeStep, OffLabels
  <2>q. QED
    BY <2>1, <1>8 DEF Touches, Live
<1>10. pc[q] = "delhead" => ptr'[y.idxoff] = ptr'[FREE_OFF]
  <2>1. pc[q] = "delhead" => ptr[y.idxoff] = ptr[FREE_OFF] /\ pc[q] \in OffLabels /\ pc[q] \in FreeLabels
    BY <1>2, <1>3 DEF FreeStep, OffLabels, FreeLabels
  <2>2. pc[q] = "delhead" => ptr'[y.idxoff] = ptr[y.idxoff]
    BY <2>1, <1>8, SetFacts DEF Touches
  <2>q. QED
    BY <2>1, <2>2, <1>5 DEF FREE_OFF
<1>11. ASSUME NEW z \in Procs, z # q, pc[q] \in OffLabels, pc'[z] \in OffLabels
       PROVE  y.idxoff # db'[z].idxoff
  <2>1. CASE z = p
    BY <2>1, <1>2, <1>11
  <2>2. CASE z # p
    <3>1. pc'[z] = pc[z] /\ db'[z] = db[z]
      BY <2>2, Frame
    <3>q. QED
      BY <3>1, <1>2, <1>3, <1>11 DEF FreeStep, OffLabels
  <2>q. QED
    BY <2>1, <2>2
<1>12. \A z \in Procs : z # q /\ pc'[q] \in OffLabels /\ pc'[z] \in OffLabels => y.idxoff # db'[z].idxoff
  BY <1>11, <1>1
<1>q. QED
  BY <1>1, <1>2, <1>6, <1>7, <1>9, <1>10, <1>12 DEF FreeStep, OffLabels

\* Nobody else is unlinking from the chain of a process that changes it.
LEMMA AloneOn ==
  ASSUME TypeOK, ReqOK, LockOK, NEW p \in Procs, Step(p), pc[p] \in DelSteps \cup LinkSteps,
         NEW c, c = Chain(p), NEW q \in Procs, q # p
  PROVE  ~Unlinks(q, c) /\ ~Unlinks(q, c)'
<1>1. pc[p] \in ChainLabels /\ req[p].op # "fetch"
  BY LooseHolds
<1>2. ~Unlinks(q, c)
  BY <1>1, Exclusive, ChainLabelFacts DEF Unlinks, DelSteps
<1>q. QED
  BY <1>2, Frame DEF Unlinks, Chain

\* All that a step of p that changes a list at w has to show.
LEMMA BuildParts ==
  ASSUME TypeOK, ReqOK, HeldOK, LockOK, ListsOK, NEW p \in Procs, Step(p), NEW w, Touches(p, w),
         NEW c, c = Chain(p), ChainList(c)', OneEach(c)', ListIs(ptr', 0, FreeRecs'),
         ChainStep(p)', FreeStep(p)',
         pc[p] \in FreeLabels \/ (FreeRecs' = FreeRecs /\ w \notin FreeRecs \cup {0}),
         \A q \in Procs : q # p /\ pc[q] \in OffLabels =>
           /\ db[q].idxoff # w
           /\ pc'[p] \in OffLabels => db'[p].idxoff # db[q].idxoff
  PROVE  ListsOK'
<1>1. \A d \in Chains : ChainList(d)' /\ OneEach(d)'
  BY OtherLists
<1>2. \A q \in Procs : ChainStep(q)'
  BY OtherLists
<1>3. \A q \in Procs : FreeStep(q)'
  <2>1. \A q \in Procs : q # p => FreeStep(q)'
    BY OtherFree
  <2>q. QED
    BY <2>1
<1>4. ListIs(ptr, FREE_OFF, FreeRecs)'
  BY DEF ListIs, FREE_OFF, Closed
<1>q. QED
  BY <1>1, <1>2, <1>3, <1>4 DEF ListsOK

\* Free records are blank, and in no process's hands.
LEMMA FreeFacts ==
  /\ FreeRecs \subseteq Recs
  /\ \A x \in FreeRecs : Written(x) /\ ~Live(x) /\ x \notin At(OffLabels)
BY DEF FreeRecs, OffLabels

\* A record that a process has taken, or is freeing, is blank.
LEMMA OffFacts ==
  ASSUME HeldOK, ListsOK, NEW q \in Procs, pc[q] \in OffLabels
  PROVE  /\ Written(db[q].idxoff) /\ db[q].idxoff \in Recs
         /\ ~Live(db[q].idxoff) /\ db[q].idxoff \in At(OffLabels)
<1>1. Written(db[q].idxoff)
  BY DEF HeldOK, Held, OffLabels, HoldLabels, DelSteps
<1>2. ~Live(db[q].idxoff)
  BY DEF ListsOK, FreeStep, OffLabels
<1>q. QED
  BY <1>1, <1>2 DEF Written, At

\* _db_dodelete blanks the record: its chain is now the one to be restored.
LEMMA DelIdxBuilds ==
  ASSUME TypeOK, ReqOK, HeldOK, LockOK, ListsOK, NEW p \in Procs, DelIdx(p)
  PROVE  ListsOK'
<1>s. Step(p)
  BY DEF Step, Working
<1>t. TypeOK'
  BY <1>s, TypeStep
<1>p. PICK c, r, a, n : c = Chain(p) /\ r = db[p].idxoff /\ a = db[p].ptroff /\ n = db[p].ptrval
  OBVIOUS
<1>1. /\ pc[p] = "delidx" /\ pc'[p] = "delhead" /\ db'[p] = db[p] /\ req'[p] = req[p] /\ idxend' = idxend
  BY DEF DelIdx, TypeOK, Goto
<1>2. /\ c \in Chains /\ req[p].key \in Keys
  BY <1>1, <1>p, LooseHolds DEF DelSteps
<1>3. /\ a \in Node(c) \cup {c} /\ ptr[a] = r /\ r \in Node(c) /\ n = ptr[r]
      /\ idx[r].key = req[p].key
  BY <1>1, <1>p DEF ListsOK, ChainStep, DelSteps
<1>4. ListIs(ptr, c, Node(c))
  BY <1>1, <1>p, ChainWhole, ChainLabelFacts DEF DelSteps
<1>5. /\ Node(c) \subseteq Recs /\ Recs \subseteq Fields /\ c \notin Recs /\ c \in Fields /\ 0 \notin Recs
      /\ 0 \in Fields /\ r \in Own(c) /\ Live(r) /\ Written(r)
  BY <1>2, <1>3, OwnFacts, SetFacts, SizeAssumption DEF Recs, FirstRec, Chains, Own, Live
<1>6. /\ ptr'[r] = ptr[0] /\ \A x \in Fields : x # r => ptr'[x] = ptr[x]
  BY <1>3, <1>5, <1>p DEF DelIdx, WriteIdx, TypeOK, FREE_OFF
<1>7. /\ idx'[r].key = SPACE /\ \A x \in Recs : x # r => idx'[x].key = idx[x].key
  BY <1>3, <1>5, <1>p DEF DelIdx, WriteIdx, TypeOK
<1>8. \A x \in Recs : Written(x)' <=> Written(x)
  <2>1. KeyLen[req[p].key] \in Nat \ {0}
    BY <1>1, KeyPos, KeyLabelFacts DEF DelSteps
  <2>2. idx'[r].klen # 0 /\ \A x \in Recs : x # r => idx'[x] = idx[x]
    BY <2>1, <1>5, <1>p, WriteIdxAt, OwnFacts DEF DelIdx
  <2>q. QED
    BY <2>2, <1>1, <1>5 DEF Written
<1>9. /\ ~Live(r)' /\ \A x \in Recs : x # r => (Live(x)' <=> Live(x))
  BY <1>7, <1>8 DEF Live
<1>10. Touches(p, r)
  <2>1. \A d \in Chains : d # c => r # d /\ r \notin Own(d) /\ r \notin Own(d)'
    BY <1>3, <1>5, <1>9, SizeAssumption DEF Own, Recs, FirstRec, Chains
  <2>q. QED
    BY <2>1, <1>1, <1>6, <1>7, <1>8, <1>p DEF Touches, DelSteps
<1>11. Node(c)' = Node(c) \ {r}
  <2>1. pc[p] # "link" /\ pc'[p] # "link"
    BY <1>1
  <2>2. At({"link"})' = At({"link"})
    BY <2>1, <1>s, AtSplit
  <2>q. QED
    BY <2>2, <1>7, <1>9 DEF Node, Bucket
<1>12. a # r
  BY <1>3, <1>4, <1>5, NoSelf
<1>13. ChainList(c)'
  <2>1. Chain(p)' = c /\ Unlinks(p, c)'
    BY <1>1, <1>p DEF Unlinks, Chain
  <2>2. ListIs(Restored(p)', c, Node(c) \ {r})
    <3>1. PICK g : g = Restored(p)'
      OBVIOUS
    <3>2. g[a] = ptr[r] /\ \A x \in Fields : x # a => g[x] = ptr'[x]
      BY <3>1, <1>1, <1>3, <1>5, <1>p, <1>t DEF Restored, TypeOK
    <3>3. \A s \in (Node(c) \ {r}) \cup {c} : s # a => g[s] = ptr[s]
      BY <3>2, <1>3, <1>5, <1>6
    <3>q. QED
      BY <3>1, <3>2, <3>3, <1>3, <1>4, <1>5, ListRemove
  <2>3. \A q \in Procs : q # p => ~Unlinks(q, c)'
    BY <1>1, <1>p, <1>s, AloneOn DEF DelSteps
  <2>q. QED
    BY <2>1, <2>2, <2>3, <1>11 DEF ChainList
<1>14. OneEach(c)' /\ Absent(p)'
  <2>1. OneEach(c)
    BY <1>2 DEF ListsOK
  <2>2. \A x \in Node(c) \ {r} : idx'[x].key = idx[x].key /\ idx[x].key # req[p].key
    BY <2>1, <1>3, <1>5, <1>7 DEF OneEach
  <2>3. Chain(p)' = c
    BY <1>1, <1>p DEF Chain
  <2>q. QED
    BY <2>1, <2>2, <2>3, <1>1, <1>11 DEF OneEach, Absent
<1>15. FreeRecs' = FreeRecs /\ r \notin FreeRecs \cup {0}
  <2>1. At(OffLabels)' = At(OffLabels) \cup {r}
    BY <1>1, <1>p, <1>s, AtSplit DEF OffLabels
  <2>2. FreeRecs = {x \in Recs : Written(x) /\ ~Live(x)} \ At(OffLabels)
    BY DEF FreeRecs, OffLabels
  <2>3. FreeRecs' = {x \in Recs : Written(x)' /\ ~Live(x)'} \ At(OffLabels)'
    BY DEF FreeRecs, OffLabels
  <2>4. \A x \in Recs : x \in FreeRecs' <=> x \in FreeRecs
    BY <2>1, <2>2, <2>3, <1>5, <1>8, <1>9
  <2>q. QED
    BY <2>2, <2>3, <2>4, <1>3, <1>5
<1>16. ListIs(ptr', 0, FreeRecs')
  <2>1. ListIs(ptr, 0, FreeRecs)
    BY DEF ListsOK, FREE_OFF
  <2>q. QED
    BY <2>1, <1>5, <1>6, <1>15, FreeFacts, ListSame
<1>17. \A q \in Procs : q # p /\ pc[q] \in OffLabels => db[q].idxoff # r
  BY <1>5, OffFacts
<1>18. ChainStep(p)'
  <2>1. Chain(p)' = c
    BY <1>1, <1>p DEF Chain
  <2>q. QED
    BY <2>1, <1>1, <1>3, <1>11, <1>12, <1>14, <1>p
    DEF ChainStep, LinkSteps, StoreLabels, FreeSteps, AppSteps, DelSteps
<1>19. FreeStep(p)'
  <2>1. ptr'[r] = ptr'[FREE_OFF]
    BY <1>5, <1>6 DEF FREE_OFF
  <2>2. \A q \in Procs : q # p /\ pc'[q] \in OffLabels => db'[q].idxoff # r
    BY <1>17, <1>s, Frame
  <2>q. QED
    BY <2>1, <2>2, <1>1, <1>9, <1>p DEF FreeStep, OffLabels
<1>q. QED
  BY <1>1, <1>p, <1>s, <1>10, <1>13, <1>14, <1>15, <1>16, <1>17, <1>18, <1>19, BuildParts

\* The free records before and after a step.
LEMMA FreeIs ==
  /\ FreeRecs = {x \in Recs : Written(x) /\ ~Live(x)} \ At(OffLabels)
  /\ FreeRecs' = {x \in Recs : Written(x)' /\ ~Live(x)'} \ At(OffLabels)'
BY DEF FreeRecs, OffLabels

\* Heads, nodes and free records are different places of the file.
LEMMA Places ==
  ASSUME NEW c \in Chains
  PROVE  /\ Node(c) \subseteq Recs /\ Recs \subseteq Fields /\ c \notin Recs /\ c \in Fields
         /\ 0 \notin Recs /\ 0 \in Fields /\ c # 0 /\ Node(c) \subseteq Own(c) /\ Own(c) \subseteq Recs
         /\ FreeRecs \subseteq Recs /\ FreeRecs \cap Own(c) = {}
BY OwnFacts, SetFacts, SizeAssumption, FreeFacts DEF Recs, FirstRec, Chains, Own

\* A step of p that leaves the index records alone and is not about linking.
LEMMA KeepSets ==
  ASSUME TypeOK, NEW p \in Procs, Step(p), idx' = idx, idxend' = idxend
  PROVE  /\ \A x : (Live(x)' <=> Live(x)) /\ (Written(x)' <=> Written(x))
         /\ \A d : Own(d)' = Own(d)
         /\ pc[p] # "link" /\ pc'[p] # "link" => \A d : Node(d)' = Node(d)
         /\ pc[p] \notin OffLabels /\ pc'[p] \notin OffLabels => FreeRecs' = FreeRecs
<1>1. \A x : (Live(x)' <=> Live(x)) /\ (Written(x)' <=> Written(x))
  BY DEF Live, Written
<1>2. \A d : Own(d)' = Own(d)
  BY <1>1 DEF Own
<1>3. ASSUME pc[p] # "link", pc'[p] # "link", NEW d PROVE Node(d)' = Node(d)
  <2>1. At({"link"})' = At({"link"})
    BY <1>3, AtSplit
  <2>q. QED
    BY <2>1, <1>1 DEF Node, Bucket
<1>4. ASSUME pc[p] \notin OffLabels, pc'[p] \notin OffLabels PROVE FreeRecs' = FreeRecs
  <2>1. At(OffLabels)' = At(OffLabels)
    BY <1>4, AtSplit
  <2>q. QED
    BY <2>1, <1>1, FreeIs
<1>q. QED
  BY <1>1, <1>2, <1>3, <1>4

\* _db_dodelete puts the record at the head of the free list.
LEMMA DelHeadBuilds ==
  ASSUME TypeOK, ReqOK, HeldOK, LockOK, ListsOK, NEW p \in Procs, DelHead(p)
  PROVE  ListsOK'
<1>s. Step(p)
  BY DEF Step, Working
<1>t. TypeOK'
  BY <1>s, TypeStep
<1>p. PICK c, r, a, n : c = Chain(p) /\ r = db[p].idxoff /\ a = db[p].ptroff /\ n = db[p].ptrval
  OBVIOUS
<1>1. /\ pc[p] = "delhead" /\ pc'[p] = "delunlink" /\ db'[p] = db[p] /\ req'[p] = req[p]
      /\ idx' = idx /\ idxend' = idxend /\ Chain(p)' = Chain(p)
  BY DEF DelHead, TypeOK, Goto, Chain
<1>2. /\ c \in Chains /\ req[p].key \in Keys
  BY <1>1, <1>p, LooseHolds DEF DelSteps
<1>3. /\ a \in Node(c) \cup {c} /\ Absent(p)
  BY <1>1, <1>p DEF ListsOK, ChainStep, DelSteps
<1>4. Written(r) /\ r \in Recs /\ ~Live(r) /\ r \in At(OffLabels) /\ ptr[r] = ptr[0]
  BY <1>1, <1>p, OffFacts DEF OffLabels, ListsOK, FreeStep, FREE_OFF
<1>5. /\ ptr'[0] = r /\ \A x \in Fields : x # 0 => ptr'[x] = ptr[x]
  BY <1>2, <1>p, Places DEF DelHead, WritePtr, TypeOK, FREE_OFF
<1>6. /\ Node(c)' = Node(c) /\ \A d : Own(d)' = Own(d)
      /\ \A x : (Live(x)' <=> Live(x)) /\ (Written(x)' <=> Written(x))
  BY <1>1, <1>s, KeepSets
<1>7. Touches(p, 0)
  <2>1. \A d \in Chains : 0 # d /\ 0 \notin Own(d) /\ 0 \notin Own(d)'
    BY <1>6, Places
  <2>q. QED
    BY <2>1, <1>1, <1>5, <1>6 DEF Touches, DelSteps
<1>8. ChainList(c)'
  <2>1. Unlinks(p, c) /\ Unlinks(p, c)'
    BY <1>1, <1>p DEF Unlinks
  <2>2. ListIs(Restored(p), c, Node(c))
    BY <2>1, <1>2 DEF ListsOK, ChainList
  <2>3. \A x \in Node(c) \cup {c} : Restored(p)'[x] = Restored(p)[x]
    BY <1>1, <1>2, <1>5, <1>t, Places DEF Restored, TypeOK
  <2>4. ListIs(Restored(p)', c, Node(c))
    BY <2>2, <2>3, <1>2, Places, ListSame
  <2>5. \A q \in Procs : q # p => ~Unlinks(q, c)'
    BY <1>1, <1>p, <1>s, AloneOn DEF DelSteps
  <2>q. QED
    BY <2>1, <2>4, <2>5, <1>6 DEF ChainList
<1>9. OneEach(c)' /\ Absent(p)'
  BY <1>1, <1>2, <1>3, <1>6, <1>p DEF ListsOK, OneEach, Absent
<1>10. FreeRecs' = FreeRecs \cup {r} /\ r \notin FreeRecs
  <2>1. PICK O : /\ At(OffLabels) = O \cup {r} /\ At(OffLabels)' = O
                 /\ O = {db[q].idxoff : q \in {z \in Procs : z # p /\ pc[z] \in OffLabels}}
    BY <1>1, <1>p, <1>s, AtSplit DEF OffLabels
  <2>2. r \notin O
    BY <2>1, <1>1, <1>p DEF ListsOK, FreeStep, OffLabels
  <2>3. \A x \in Recs : x \in FreeRecs' <=> x \in FreeRecs \cup {r}
    BY <2>1, <2>2, <1>4, <1>6, FreeIs
  <2>q. QED
    BY <2>1, <2>3, <1>4, FreeIs
<1>11. ListIs(ptr', 0, FreeRecs')
  <2>1. ListIs(ptr, 0, FreeRecs)
    BY DEF ListsOK, FREE_OFF
  <2>2. /\ FreeRecs \in SUBSET Recs /\ 0 \notin FreeRecs /\ r # 0 /\ ptr'[r] = ptr[0]
        /\ \A x \in FreeRecs : ptr'[x] = ptr[x]
    BY <1>2, <1>4, <1>5, Places
  <2>q. QED
    BY <2>1, <2>2, <1>4, <1>5, <1>10, ListInsert
<1>12. ChainStep(p)'
  BY <1>1, <1>3, <1>6, <1>9, <1>p
  DEF ChainStep, LinkSteps, StoreLabels, FreeSteps, AppSteps, DelSteps
<1>13. FreeStep(p)'
  BY <1>1 DEF FreeStep
<1>14. \A q \in Procs : q # p /\ pc[q] \in OffLabels => db[q].idxoff # 0
  BY <1>2, OffFacts, Places
<1>15. pc[p] \in FreeLabels /\ pc'[p] \notin OffLabels
  BY <1>1 DEF FreeLabels, OffLabels
<1>q. QED
  BY <1>p, <1>s, <1>7, <1>8, <1>9, <1>11, <1>12, <1>13, <1>14, <1>15, BuildParts

\* _db_dodelete leads the predecessor past the record: the chain is restored.
LEMMA DelUnlinkBuilds ==
  ASSUME TypeOK, ReqOK, HeldOK, LockOK, ListsOK, NEW p \in Procs, DelUnlink(p)
  PROVE  ListsOK'
<1>s. Step(p)
  BY DEF Step, Working
<1>p. PICK c, a, n : c = Chain(p) /\ a = db[p].ptroff /\ n = db[p].ptrval
  OBVIOUS
<1>1. /\ pc[p] = "delunlink" /\ pc'[p] \in {"unlock", "appdat"} /\ req'[p] = req[p]
      /\ idx' = idx /\ idxend' = idxend /\ Chain(p)' = Chain(p)
  BY DEF DelUnlink, TypeOK, Goto, Chain
<1>2. /\ c \in Chains /\ req[p].key \in Keys
  BY <1>1, <1>p, LooseHolds DEF DelSteps
<1>3. /\ a \in Node(c) \cup {c} /\ Absent(p)
  BY <1>1, <1>p DEF ListsOK, ChainStep, DelSteps
<1>4. a \in Fields /\ a \notin FreeRecs \cup {0} /\ a \in Own(c) \cup {c}
  BY <1>2, <1>3, Places
<1>5. /\ ptr' = Restored(p) /\ \A x \in Fields : x # a => ptr'[x] = ptr[x]
  BY <1>4, <1>p DEF DelUnlink, WritePtr, TypeOK, Restored
<1>6. /\ Node(c)' = Node(c) /\ FreeRecs' = FreeRecs /\ \A d : Own(d)' = Own(d)
      /\ \A x : (Live(x)' <=> Live(x)) /\ (Written(x)' <=> Written(x))
  BY <1>1, <1>s, KeepSets DEF OffLabels
<1>7. Touches(p, a)
  <2>1. \A d \in Chains : d # c => a # d /\ a \notin Own(d) /\ a \notin Own(d)'
    BY <1>2, <1>4, <1>6, Places DEF Own
  <2>q. QED
    BY <2>1, <1>1, <1>5, <1>6, <1>p DEF Touches, DelSteps
<1>8. ChainList(c)'
  <2>1. Unlinks(p, c) /\ ~Unlinks(p, c)'
    BY <1>1, <1>p DEF Unlinks
  <2>2. ListIs(Restored(p), c, Node(c))
    BY <2>1, <1>2 DEF ListsOK, ChainList
  <2>3. \A q \in Procs : q # p => ~Unlinks(q, c)'
    BY <1>1, <1>p, <1>s, AloneOn DEF DelSteps
  <2>4. ListIs(ptr', c, Node(c)')
    BY <2>2, <1>5, <1>6
  <2>q. QED
    BY <2>1, <2>3, <2>4 DEF ChainList, ListIs, Closed
<1>9. OneEach(c)' /\ Absent(p)'
  BY <1>1, <1>2, <1>3, <1>6, <1>p DEF ListsOK, OneEach, Absent
<1>11. ListIs(ptr', 0, FreeRecs')
  <2>1. ListIs(ptr, 0, FreeRecs)
    BY DEF ListsOK, FREE_OFF
  <2>2. \A x \in FreeRecs \cup {0} : ptr'[x] = ptr[x]
    BY <1>2, <1>4, <1>5, Places
  <2>q. QED
    BY <2>1, <2>2, <1>2, <1>6, Places, ListSame
<1>12. ChainStep(p)'
  <2>1. pc'[p] = "appdat" => db'[p].next = ptr'[c]
    BY <1>p DEF DelUnlink, Goto, TypeOK, NoDB
  <2>q. QED
    BY <2>1, <1>1, <1>9, <1>p
    DEF ChainStep, LinkSteps, StoreLabels, FreeSteps, AppSteps, DelSteps
<1>13. FreeStep(p)'
  BY <1>1 DEF FreeStep
<1>14. \A q \in Procs : q # p /\ pc[q] \in OffLabels => db[q].idxoff # a
  <2>1. a \in Recs => Live(a)
    BY <1>2, <1>4, Places DEF Own
  <2>q. QED
    BY <2>1, OffFacts
<1>15. pc'[p] \notin OffLabels
  BY <1>1 DEF OffLabels
<1>q. QED
  BY <1>p, <1>s, <1>4, <1>6, <1>7, <1>8, <1>9, <1>11, <1>12, <1>13, <1>14, <1>15, BuildParts

\* A step of p that changes neither the nodes of its chain nor their pointers.
LEMMA SameChain ==
  ASSUME TypeOK, ReqOK, LockOK, ListsOK, NEW p \in Procs, Step(p), NEW c, c = Chain(p),
         pc[p] \in LinkSteps, pc'[p] \notin {"delhead", "delunlink"},
         Node(c)' = Node(c), \A x \in Node(c) \cup {c} : ptr'[x] = ptr[x],
         \A x \in Node(c) : idx'[x].key = idx[x].key
  PROVE  ChainList(c)' /\ OneEach(c)'
<1>1. c \in Chains /\ pc[p] \in ChainLabels
  BY LooseHolds
<1>2. pc[p] \notin {"delhead", "delunlink"}
  BY DEF LinkSteps, StoreLabels, FreeSteps, AppSteps
<1>3. ListIs(ptr, c, Node(c))
  BY <1>1, <1>2, ChainWhole
<1>4. ListIs(ptr', c, Node(c)')
  BY <1>1, <1>3, Places, ListSame
<1>5. \A q \in Procs : ~Unlinks(q, c)'
  <2>1. ~Unlinks(p, c)'
    BY DEF Unlinks
  <2>q. QED
    BY <2>1, AloneOn
<1>6. OneEach(c)'
  BY <1>1 DEF ListsOK, OneEach
<1>q. QED
  BY <1>4, <1>5, <1>6 DEF ChainList, ListIs, Closed

\* _db_findfree takes a record off the free list.
LEMMA FreeTakeBuilds ==
  ASSUME TypeOK, ReqOK, HeldOK, LockOK, ListsOK, NEW p \in Procs, FreeTake(p)
  PROVE  ListsOK'
<1>s. Step(p)
  BY DEF Step, Working
<1>p. PICK c, r, a : c = Chain(p) /\ r = db[p].idxoff /\ a = db[p].save
  OBVIOUS
<1>1. /\ pc[p] = "freetake" /\ pc'[p] = "reusedat" /\ req'[p] = req[p]
      /\ idx' = idx /\ idxend' = idxend /\ Chain(p)' = Chain(p)
  BY DEF FreeTake, TypeOK, Goto, Chain
<1>2. /\ c \in Chains /\ req[p].key \in Keys /\ pc[p] \in LinkSteps
  BY <1>1, <1>p, LooseHolds DEF LinkSteps, StoreLabels, FreeSteps
<1>3. /\ a \in FreeRecs \cup {0} /\ ptr[a] = r /\ r \in FreeRecs /\ db[p].ptrval = ptr[r]
  BY <1>1, <1>p DEF ListsOK, FreeStep
<1>4. Absent(p) /\ db[p].next = ptr[c]
  BY <1>1, <1>2, <1>p DEF ListsOK, ChainStep
<1>5. db'[p].idxoff = r /\ db'[p].next = db[p].next
  <2>1. PICK w \in DB : w = db[p]
    BY DEF TypeOK
  <2>q. QED
    BY <2>1, <1>p DEF FreeTake, TypeOK, DB
<1>6. /\ a \in Fields /\ a \notin Node(c) \cup {c}
      /\ r \in Recs /\ Written(r) /\ ~Live(r) /\ r \notin At(OffLabels)
  BY <1>2, <1>3, FreeFacts, Places
<1>7. /\ ptr'[a] = ptr[r] /\ \A x \in Fields : x # a => ptr'[x] = ptr[x]
  BY <1>3, <1>6, <1>p DEF FreeTake, WritePtr, TypeOK
<1>8. /\ Node(c)' = Node(c) /\ \A d : Own(d)' = Own(d)
      /\ \A x : (Live(x)' <=> Live(x)) /\ (Written(x)' <=> Written(x))
  BY <1>1, <1>s, KeepSets
<1>9. Touches(p, a)
  <2>1. \A d \in Chains : a # d /\ a \notin Own(d) /\ a \notin Own(d)'
    BY <1>3, <1>8, Places
  <2>q. QED
    BY <2>1, <1>1, <1>2, <1>7, <1>8 DEF Touches
<1>10. ChainList(c)' /\ OneEach(c)' /\ ptr'[c] = ptr[c]
  <2>1. \A x \in Node(c) \cup {c} : ptr'[x] = ptr[x]
    BY <1>2, <1>6, <1>7, Places
  <2>q. QED
    BY <2>1, <1>1, <1>2, <1>8, <1>p, <1>s, SameChain
<1>11. FreeRecs' = FreeRecs \ {r}
  <2>1. At(OffLabels)' = At(OffLabels) \cup {r}
    BY <1>1, <1>5, <1>s, AtSplit DEF OffLabels
  <2>2. \A x \in Recs : x \in FreeRecs' <=> x \in FreeRecs \ {r}
    BY <2>1, <1>8, FreeIs
  <2>q. QED
    BY <2>2, FreeIs
<1>12. ListIs(ptr', 0, FreeRecs')
  <2>1. ListIs(ptr, 0, FreeRecs)
    BY DEF ListsOK, FREE_OFF
  <2>2. \A x \in (FreeRecs \ {r}) \cup {0} : x # a => ptr'[x] = ptr[x]
    BY <1>2, <1>7, Places
  <2>3. FreeRecs \in SUBSET Recs /\ 0 \notin FreeRecs
    BY <1>2, Places
  <2>q. QED
    BY <2>1, <2>2, <2>3, <1>3, <1>7, <1>11, ListRemove
<1>13. Absent(p)'
  BY <1>1, <1>4, <1>8, <1>p DEF Absent
<1>14. ChainStep(p)'
  BY <1>1, <1>4, <1>5, <1>10, <1>13, <1>p
  DEF ChainStep, LinkSteps, StoreLabels, FreeSteps, AppSteps, DelSteps
<1>15. \A q \in Procs : q # p /\ pc[q] \in OffLabels => db[q].idxoff # r /\ db[q].idxoff # a
  BY <1>2, <1>3, <1>6, OffFacts, FreeFacts, Places
<1>16. FreeStep(p)'
  <2>1. \A q \in Procs : q # p /\ pc'[q] \in OffLabels => db'[q].idxoff # r
    BY <1>15, <1>s, Frame
  <2>2. ~Live(r)'
    BY <1>6, <1>8
  <2>q. QED
    BY <2>1, <2>2, <1>1, <1>5 DEF FreeStep, OffLabels
<1>17. pc[p] \in FreeLabels
  BY <1>1 DEF FreeLabels
<1>q. QED
  BY <1>5, <1>p, <1>s, <1>9, <1>10, <1>12, <1>14, <1>15, <1>16, <1>17, BuildParts

\* The record a store writes, reused or new, is not yet on its chain.
LEMMA RecordBuilds ==
  ASSUME TypeOK, ReqOK, HeldOK, TailOK, LockOK, ListsOK, NEW p \in Procs, ReuseIdx(p) \/ AppIdxW(p)
  PROVE  ListsOK'
<1>s. Step(p)
  BY DEF Step, Working
<1>p. PICK c, r, n : c = Chain(p) /\ r = db[p].idxoff /\ n = db[p].next
  OBVIOUS
<1>1. /\ pc[p] \in {"reuseidx", "appidxw"} /\ pc'[p] = "link" /\ db'[p] = db[p] /\ req'[p] = req[p]
      /\ Chain(p)' = Chain(p)
  BY DEF ReuseIdx, AppIdxW, TypeOK, Goto, Chain
<1>2. /\ c \in Chains /\ req[p].key \in Keys /\ pc[p] \in LinkSteps /\ req[p].key # SPACE
  BY <1>1, <1>p, LooseHolds, SpaceAssumption DEF LinkSteps, StoreLabels, AppSteps
<1>v. KeyLen[req[p].key] \in Nat \ {0}
  BY <1>1, KeyPos, KeyLabelFacts DEF StoreLabels, AppSteps
<1>3. Absent(p) /\ n = ptr[c]
  BY <1>1, <1>2, <1>p DEF ListsOK, ChainStep
<1>4. r \in Recs /\ ~Live(r) /\ Written(r)' /\ \A x \in Recs : x # r => (Written(x)' <=> Written(x))
  <2>1. CASE ReuseIdx(p)
    <3>1. pc[p] \in OffLabels
      BY <2>1 DEF ReuseIdx, OffLabels
    <3>2. idxend' = idxend
      BY <2>1 DEF ReuseIdx
    <3>3. r \in Recs /\ ~Live(r) /\ Written(r)
      BY <3>1, <1>p, OffFacts
    <3>w. WriteIdx(p, r, req[p].key, KeyLen[req[p].key], n)
      BY <2>1, <1>p DEF ReuseIdx
    <3>4. idx'[r].klen # 0 /\ \A x \in Recs : x # r => idx'[x] = idx[x]
      BY <3>3, <3>w, <1>v, WriteIdxAt
    <3>q. QED
      BY <3>2, <3>3, <3>4 DEF Written
  <2>2. CASE AppIdxW(p)
    <3>1. r = idxend /\ r \in Recs /\ idxend \in Nat /\ Recs \subseteq Nat
      BY <2>2, <1>p, SetFacts DEF AppIdxW, TailOK, TypeOK
    <3>2. idxend' = r + 1
      BY <3>1, <2>2, <1>p DEF AppIdxW
    <3>w. WriteIdx(p, r, req[p].key, KeyLen[req[p].key], n)
      BY <2>2, <1>p DEF AppIdxW
    <3>3. idx'[r].klen # 0 /\ \A x \in Recs : x # r => idx'[x] = idx[x]
      BY <3>1, <3>w, <1>v, WriteIdxAt
    <3>4. ~Live(r) /\ Written(r)'
      <4>1. ~(r < idxend) /\ r < idxend'
        BY <3>1, <3>2
      <4>2. ~Written(r)
        BY <4>1 DEF Written
      <4>q. QED
        BY <3>1, <3>3, <4>1, <4>2 DEF Written, Live
    <3>5. ASSUME NEW x \in Recs, x # r
          PROVE  Written(x)' <=> Written(x)
      <4>1. x \in Nat /\ r \in Nat
        BY <3>1, <3>5
      <4>2. x < idxend' <=> x < idxend
        BY <4>1, <3>1, <3>2, <3>5
      <4>3. idx'[x] = idx[x]
        BY <3>3, <3>5
      <4>q. QED
        BY <4>2, <4>3 DEF Written
    <3>q. QED
      BY <3>1, <3>4, <3>5
  <2>q. QED
    BY <2>1, <2>2
<1>5. /\ ptr'[r] = n /\ \A x \in Fields : x # r => ptr'[x] = ptr[x]
  <2>1. ptr' = [ptr EXCEPT ![r] = n]
    BY <1>p DEF ReuseIdx, AppIdxW, WriteIdx
  <2>2. r \in Fields
    BY <1>4, SetFacts
  <2>q. QED
    BY <2>1, <2>2 DEF TypeOK
<1>6. /\ idx'[r].key = req[p].key /\ \A x \in Recs : x # r => idx'[x].key = idx[x].key
  BY <1>4, <1>p DEF ReuseIdx, AppIdxW, WriteIdx, TypeOK
<1>7. /\ Live(r)' /\ \A x \in Recs : x # r => (Live(x)' <=> Live(x))
  BY <1>2, <1>4, <1>6 DEF Live
<1>8. Touches(p, r)
  <2>1. \A d \in Chains : d # c => r # d /\ r \notin Own(d) /\ r \notin Own(d)'
    BY <1>4, <1>6, <1>p, Places DEF Own, Chain
  <2>q. QED
    BY <2>1, <1>1, <1>2, <1>4, <1>5, <1>6, <1>p DEF Touches
<1>9. r \notin Node(c) \cup {c} /\ r \notin FreeRecs' /\ r # 0
  BY <1>2, <1>4, <1>7, Places, FreeIs DEF Own
<1>10. Node(c)' = Node(c)
  <2>1. At({"link"})' = At({"link"}) \cup {r}
    <3>1. pc[p] # "link" /\ pc'[p] = "link" /\ db'[p].idxoff = r
      BY <1>1, <1>p
    <3>q. QED
      BY <3>1, <1>s, AtSplit
  <2>2. \A x \in Recs : x \in Node(c)' <=> x \in Node(c)
    BY <2>1, <1>6, <1>7, <1>9 DEF Node, Bucket
  <2>3. Node(c) \subseteq Recs /\ Node(c)' \subseteq Recs
    BY DEF Node, Bucket
  <2>q. QED
    BY <2>2, <2>3
<1>11. ptr'[c] = ptr[c] /\ ChainList(c)' /\ OneEach(c)'
  <2>1. \A x \in Node(c) \cup {c} : ptr'[x] = ptr[x]
    BY <1>2, <1>5, <1>9, Places
  <2>2. \A x \in Node(c) : idx'[x].key = idx[x].key
    BY <1>2, <1>6, <1>9, Places
  <2>3. pc'[p] \notin {"delhead", "delunlink"}
    BY <1>1
  <2>q. QED
    BY <2>1, <2>2, <2>3, <1>2, <1>10, <1>p, <1>s, SameChain
<1>12. FreeRecs' = FreeRecs /\ \A q \in Procs : q # p /\ pc[q] \in OffLabels => db[q].idxoff # r
  <2>1. CASE ReuseIdx(p)
    <3>1. PICK O : /\ At(OffLabels) = O \cup {r} /\ At(OffLabels)' = O
                   /\ O = {db[q].idxoff : q \in {z \in Procs : z # p /\ pc[z] \in OffLabels}}
      <4>1. pc[p] \in OffLabels /\ pc'[p] \notin OffLabels
        BY <2>1, <1>1 DEF ReuseIdx, OffLabels
      <4>q. QED
        BY <4>1, <1>p, <1>s, AtSplit
    <3>2. \A q \in Procs : q # p /\ pc[q] \in OffLabels => db[q].idxoff # r
      BY <2>1, <1>p DEF ReuseIdx, ListsOK, FreeStep, OffLabels
    <3>3. \A x \in Recs : x \in FreeRecs' <=> x \in FreeRecs
      BY <3>1, <1>4, <1>7, FreeIs
    <3>q. QED
      BY <3>2, <3>3, FreeIs
  <2>2. CASE AppIdxW(p)
    <3>1. ~Written(r)
      BY <2>2, <1>p, SetFacts DEF AppIdxW, TailOK, TypeOK, Written
    <3>2. At(OffLabels)' = At(OffLabels)
      <4>1. pc[p] \notin OffLabels /\ pc'[p] \notin OffLabels
        BY <2>2, <1>1 DEF AppIdxW, OffLabels
      <4>q. QED
        BY <4>1, <1>s, AtSplit
    <3>3. \A x \in Recs : x \in FreeRecs' <=> x \in FreeRecs
      BY <3>1, <3>2, <1>4, <1>7, FreeIs
    <3>q. QED
      BY <3>1, <3>3, FreeIs, OffFacts
  <2>q. QED
    BY <2>1, <2>2
<1>13. ListIs(ptr', 0, FreeRecs')
  <2>1. ListIs(ptr, 0, FreeRecs)
    BY DEF ListsOK, FREE_OFF
  <2>2. \A x \in FreeRecs \cup {0} : ptr'[x] = ptr[x]
    BY <1>2, <1>5, <1>9, <1>12, Places
  <2>q. QED
    BY <2>1, <2>2, <1>2, <1>12, Places, ListSame
<1>14. Absent(p)'
  BY <1>1, <1>2, <1>3, <1>6, <1>9, <1>10, <1>p, Places DEF Absent
<1>15. ChainStep(p)'
  BY <1>1, <1>3, <1>5, <1>6, <1>7, <1>11, <1>14, <1>p
  DEF ChainStep, LinkSteps, StoreLabels, FreeSteps, AppSteps, DelSteps
<1>16. FreeStep(p)'
  BY <1>1 DEF FreeStep
<1>17. pc'[p] \notin OffLabels
  BY <1>1 DEF OffLabels
<1>q. QED
  BY <1>p, <1>s, <1>8, <1>9, <1>11, <1>12, <1>13, <1>15, <1>16, <1>17, BuildParts

\* db_store puts the record at the head of its chain, or exits at the limit.
LEMMA LinkBuilds ==
  ASSUME TypeOK, ReqOK, HeldOK, LockOK, ListsOK, NEW p \in Procs, Link(p) \/ LinkQuit(p)
  PROVE  ListsOK'
<1>s. Step(p)
  BY DEF Step, Working
<1>p. PICK c, r : c = Chain(p) /\ r = db[p].idxoff
  OBVIOUS
<1>1. /\ pc[p] = "link" /\ pc'[p] \in {"unlock", "dead"} /\ (req'[p] = req[p] \/ pc'[p] = "dead")
      /\ idx' = idx /\ idxend' = idxend
  BY DEF Link, LinkQuit, Die, Exit, file, TypeOK, Goto
<1>2. /\ c \in Chains /\ req[p].key \in Keys /\ pc[p] \in LinkSteps
  BY <1>1, <1>p, LooseHolds DEF LinkSteps, StoreLabels
<1>3. Absent(p) /\ Live(r) /\ idx[r].key = req[p].key /\ ptr[r] = ptr[c]
  BY <1>1, <1>2, <1>p DEF ListsOK, ChainStep
<1>4. r \in Recs /\ r \in Own(c)
  BY <1>3, <1>p DEF Live, Written, Own, Chain
<1>5. \A x \in Fields : x # c => ptr'[x] = ptr[x]
  BY <1>2, <1>p, Places DEF Link, LinkQuit, Die, Exit, file, WritePtr, TypeOK
<1>6. /\ \A d : Own(d)' = Own(d) /\ FreeRecs' = FreeRecs
      /\ \A x : (Live(x)' <=> Live(x)) /\ (Written(x)' <=> Written(x))
  BY <1>1, <1>s, KeepSets DEF OffLabels
<1>7. Touches(p, c)
  <2>1. \A d \in Chains : d # c => c \notin Own(d) /\ c \notin Own(d)'
    BY <1>2, <1>6, Places
  <2>2. pc'[p] # "link"
    BY <1>1
  <2>q. QED
    BY <2>1, <2>2, <1>1, <1>2, <1>5, <1>6, <1>p DEF Touches
<1>8. PICK O : /\ At({"link"}) = O \cup {r} /\ At({"link"})' = O
               /\ O = {db[q].idxoff : q \in {z \in Procs : z # p /\ pc[z] \in {"link"}}}
  <2>1. pc[p] \in {"link"} /\ pc'[p] \notin {"link"}
    BY <1>1
  <2>q. QED
    BY <2>1, <1>p, <1>s, AtSplit
<1>9. r \notin O
  <2>1. ASSUME NEW q \in Procs, q # p, pc[q] = "link" PROVE db[q].idxoff # r
    <3>1. idx[db[q].idxoff].key = req[q].key
      BY <2>1 DEF ListsOK, ChainStep
    <3>2. Chain(q) # Chain(p)
      BY <2>1, <1>1, <1>2, LooseHolds, Exclusive DEF LinkSteps, StoreLabels
    <3>q. QED
      BY <3>1, <3>2, <1>3 DEF Chain
  <2>q. QED
    BY <2>1, <1>8
<1>10. /\ r <= PTR_MAX => Node(c)' = Node(c) \cup {r}
       /\ ~(r <= PTR_MAX) => Node(c)' = Node(c)
       /\ r \notin Node(c)
  <2>1. /\ \A x : x \in Node(c) <=> x \in Own(c) /\ x <= PTR_MAX /\ x \notin O \cup {r}
        /\ \A x : x \in Node(c)' <=> x \in Own(c) /\ x <= PTR_MAX /\ x \notin O
    <3>1. /\ \A x : x \in Node(c) <=> x \in Own(c) /\ x <= PTR_MAX /\ x \notin At({"link"})
          /\ \A x : x \in Node(c)' <=> x \in Own(c)' /\ x <= PTR_MAX /\ x \notin At({"link"})'
      BY DEF Node, Bucket, Own
    <3>q. QED
      BY <3>1, <1>6, <1>8
  <2>q. QED
    BY <2>1, <1>4, <1>9
<1>11. ListIs(ptr, c, Node(c))
  <2>1. pc[p] \in ChainLabels \ {"delhead", "delunlink"}
    BY <1>1, ChainLabelFacts
  <2>q. QED
    BY <2>1, <1>p, ChainWhole
<1>12. \A q \in Procs : ~Unlinks(q, c)'
  <2>1. ~Unlinks(p, c)'
    BY <1>1 DEF Unlinks
  <2>q. QED
    BY <2>1, <1>2, <1>p, <1>s, AloneOn
<1>13. ListIs(ptr', c, Node(c)')
  <2>1. CASE Link(p)
    <3>1. r \in Nat /\ r <= PTR_MAX
      BY <2>1, <1>4, <1>p, SetFacts, SizeAssumption DEF Link, TooBig
    <3>2. ptr'[c] = r
      BY <2>1, <1>2, <1>p, Places DEF Link, WritePtr, TypeOK
    <3>3. ptr'[r] = ptr[c] /\ c \notin Node(c) /\ r # c /\ \A x \in Node(c) : ptr'[x] = ptr[x]
      BY <1>2, <1>3, <1>4, <1>5, Places
    <3>4. Node(c) \in SUBSET Recs
      BY <1>2, Places
    <3>5. Node(c)' = Node(c) \cup {r} /\ r \notin Node(c)
      BY <3>1, <1>10
    <3>6. ListIs(ptr', c, Node(c) \cup {r})
      BY <3>2, <3>3, <3>4, <3>5, <1>4, <1>11, ListInsert
    <3>q. QED
      BY <3>5, <3>6
  <2>2. CASE LinkQuit(p)
    <3>1. ~(r <= PTR_MAX)
      BY <2>2, <1>4, <1>p, SetFacts, SizeAssumption DEF LinkQuit, TooBig
    <3>2. ptr' = ptr
      BY <2>2 DEF LinkQuit, Die, Exit, file
    <3>q. QED
      BY <3>1, <3>2, <1>10, <1>11
  <2>q. QED
    BY <2>1, <2>2
<1>14. ChainList(c)'
  BY <1>12, <1>13 DEF ChainList, ListIs, Closed
<1>15. OneEach(c)'
  <2>1. OneEach(c) /\ \A x \in Node(c) : idx[x].key # idx[r].key
    BY <1>2, <1>3, <1>p DEF ListsOK, Absent
  <2>q. QED
    BY <2>1, <1>1, <1>10 DEF OneEach
<1>16. ListIs(ptr', 0, FreeRecs')
  <2>1. ListIs(ptr, 0, FreeRecs)
    BY DEF ListsOK, FREE_OFF
  <2>2. \A x \in FreeRecs \cup {0} : ptr'[x] = ptr[x]
    BY <1>2, <1>5, Places
  <2>q. QED
    BY <2>1, <2>2, <1>2, <1>6, Places, ListSame
<1>17. ChainStep(p)' /\ FreeStep(p)'
  <2>1. pc'[p] \notin KnowLabels
    BY <1>1 DEF KnowLabels, LinkSteps, StoreLabels, FreeSteps, AppSteps, DelSteps
  <2>q. QED
    BY <2>1, StepVacuous
<1>18. c \notin FreeRecs \cup {0}
  BY <1>2, Places
<1>19. \A q \in Procs : q # p /\ pc[q] \in OffLabels => db[q].idxoff # c
  BY <1>2, OffFacts, Places
<1>20. pc'[p] \notin OffLabels
  BY <1>1 DEF OffLabels
<1>q. QED
  BY <1>p, <1>s, <1>6, <1>7, <1>14, <1>15, <1>16, <1>17, <1>18, <1>19, <1>20, BuildParts

-----------------------------------------------------------------------------
(* The lists stay sound *)

\* Every step keeps the list invariant, a killed process included.
LEMMA ListStep ==
  ASSUME IInv, ListInv, NEW p \in Procs, Step(p) \/ Crash(p)
  PROVE  ListInv'
<1>1. TypeOK /\ ReqOK /\ HeldOK /\ TailOK /\ LockOK
  BY DEF IInv, ListInv
<1>2. LockOK'
  BY <1>1, LockStep
<1>3. ASSUME torn' = {} PROVE ListsOK'
  <2>1. torn = {}
    <3>1. torn \subseteq torn'
      BY DEF Step, Locking, Working, Call, RejectFlag, RejectLen, Return, FindAndLock, FindNext,
         FindHit, FindMiss, ReadDat, Unlock, DelFree, DelBlank, DelIdx, DelHead, DelUnlink,
         FreeLock, FreeNext, FreeHit, FreeMiss, FreeTake, ReuseDat, ReuseIdx, AppDat, AppDatW,
         AppIdx, AppIdxW, DatFull, IdxRefused, IdxFull, Link, LinkQuit, Overwrite, ScanLock, ScanSkip,
         ScanHit, ScanEnd, ScanAbort, ScanDat, ScanUnlock, Rewind, Restart, Crash
    <3>q. QED
      BY <3>1, <1>3
  <2>2. ListsOK
    BY <2>1 DEF ListInv
  <2>3. CASE Builds(p)
    BY <2>2, <2>3, <1>1, DelIdxBuilds, DelHeadBuilds, DelUnlinkBuilds, FreeTakeBuilds, RecordBuilds,
       LinkBuilds DEF Builds
  <2>4. CASE ~Builds(p)
    BY <2>2, <2>4, <1>1, <1>3, QuietStep
  <2>q. QED
    BY <2>3, <2>4
<1>q. QED
  BY <1>2, <1>3 DEF ListInv

\* The files as db_open leaves them have sound lists.
LEMMA ListInit == Init => ListInv
<1> SUFFICES ASSUME Init PROVE ListInv
  OBVIOUS
<1>1. \A p \in Procs : pc[p] = "ready"
  BY DEF Init
<1>2. LockOK
  BY <1>1, ChainLabelFacts DEF Init, LockOK, FreeLabels
<1>3. \A r : ~Live(r) /\ ~Written(r)
  BY SizeAssumption DEF Init, Live, Written, Recs, FirstRec
<1>4. FreeRecs = {} /\ \A c : Node(c) = {}
  BY <1>3 DEF FreeRecs, Node, Bucket
<1>5. ASSUME NEW l \in Fields PROVE ListIs(ptr, l, {})
  BY <1>5 DEF Init, ListIs, Closed
<1>6. \A c \in Chains : ChainList(c) /\ OneEach(c)
  BY <1>1, <1>4, <1>5, SetFacts DEF ChainList, OneEach, Unlinks
<1>7. ListIs(ptr, FREE_OFF, FreeRecs)
  BY <1>4, <1>5, SetFacts
<1>8. ASSUME NEW p \in Procs PROVE ChainStep(p) /\ FreeStep(p)
  BY <1>1 DEF ChainStep, FreeStep, LinkSteps, StoreLabels, FreeSteps, AppSteps, DelSteps
<1>q. QED
  BY <1>2, <1>6, <1>7, <1>8 DEF ListInv, ListsOK

\* While no list is torn by a killed process the chains are sound, whatever limits processes ran into.
LEMMA ListsSound ==
  ASSUME TypeOK, ReqOK, ListInv, torn = {}
  PROVE  ChainsSound /\ FreeSound
<1>0. LockOK /\ ListsOK
  BY DEF ListInv
<1>1. ASSUME NEW c \in Chains, wlock[c] = NoProc PROVE Finite(c) /\ OnList(c) = Bucket(c)
  <2>1. ASSUME NEW q \in Procs, pc[q] \in {"delhead", "delunlink", "link"} PROVE Chain(q) # c
    <3>1. wlock[Chain(q)] = q
      BY <2>1, <1>0, LooseHolds DEF LinkSteps, StoreLabels, DelSteps
    <3>q. QED
      BY <3>1, <1>1, ProcAssumption
  <2>2. ListIs(ptr, c, Node(c)) /\ Node(c) \in SUBSET Recs
    BY <2>1, <1>0, OwnFacts DEF ListsOK, ChainList, Unlinks
  <2>3. Node(c) = Bucket(c)
    <3>1. ASSUME NEW q \in Procs, pc[q] = "link" PROVE db[q].idxoff \notin Bucket(c)
      BY <3>1, <2>1, <1>0 DEF ListsOK, ChainStep, Bucket, Chain
    <3>q. QED
      BY <3>1 DEF Node, At
  <2>q. QED
    BY <2>2, <2>3, ListReach
<1>2. ASSUME wlock[FREE_OFF] = NoProc
      PROVE  /\ Finite(FREE_OFF)
             /\ OnList(FREE_OFF) = {r \in Recs : Written(r) /\ ~Live(r)} \ Taken
  <2>1. ASSUME NEW q \in Procs PROVE pc[q] # "delhead"
    BY <1>0, <1>2, ProcAssumption DEF LockOK, FreeLabels
  <2>2. At(OffLabels) = Taken
    BY <2>1 DEF At, Taken, OffLabels
  <2>3. ListIs(ptr, FREE_OFF, FreeRecs) /\ FreeRecs \in SUBSET Recs
    BY <1>0, FreeFacts DEF ListsOK
  <2>q. QED
    BY <2>2, <2>3, FreeIs, ListReach
<1>q. QED
  BY <1>1, <1>2 DEF ChainsSound, FreeSound

\* Records of the same key, of those whose offset fits in a pointer.
LEMMA KeysUnique ==
  ASSUME TypeOK, ReqOK, ListInv, torn = {}, NEW r \in Recs, NEW s \in Recs, Live(r), Live(s),
         r <= PTR_MAX, s <= PTR_MAX, idx[r].key = idx[s].key
  PROVE  r = s
<1>0. LockOK /\ ListsOK
  BY DEF ListInv
<1>1. idx[r].key \in Keys
  BY DEF Live, TypeOK, IdxRec, Blank
<1>2. PICK c \in Chains : c = Hash[idx[r].key]
  BY <1>1, DataAssumption
<1>3. \A x \in {r, s} : x \in Node(c) \/ \E q \in Procs : pc[q] = "link" /\ db[q].idxoff = x
  BY <1>2 DEF Node, Bucket, At
<1>4. ASSUME NEW q \in Procs, pc[q] = "link", NEW x \in {r, s}, db[q].idxoff = x
      PROVE  Chain(q) = c /\ Absent(q) /\ req[q].key = idx[r].key
  <2>1. idx[x].key = req[q].key /\ Absent(q)
    BY <1>0, <1>4 DEF ListsOK, ChainStep, LinkSteps, StoreLabels
  <2>q. QED
    BY <2>1, <1>2 DEF Chain
<1>5. CASE r \in Node(c) /\ s \in Node(c)
  BY <1>0, <1>5 DEF ListsOK, OneEach
<1>6. ASSUME NEW q \in Procs, pc[q] = "link", NEW x \in {r, s}, db[q].idxoff = x,
             NEW y \in {r, s}
      PROVE  y = x
  <2>1. Chain(q) = c /\ Absent(q) /\ req[q].key = idx[r].key
    BY <1>4, <1>6
  <2>2. y \notin Node(c)
    BY <2>1 DEF Absent
  <2>3. PICK z \in Procs : pc[z] = "link" /\ db[z].idxoff = y
    BY <2>2, <1>3
  <2>4. Chain(z) = c
    BY <2>3, <1>4
  <2>5. z = q
    BY <2>1, <2>3, <2>4, <1>0, <1>6, LooseHolds DEF LinkSteps, StoreLabels
  <2>q. QED
    BY <2>3, <2>5, <1>6
<1>q. QED
  BY <1>3, <1>5, <1>6

-----------------------------------------------------------------------------
(* The theorems about the lists *)

\* The list invariant is inductive.
LEMMA ListNext == IInv /\ ListInv /\ [NextCrash]_vars => ListInv'
<1> SUFFICES ASSUME IInv, ListInv, [NextCrash]_vars PROVE ListInv'
  OBVIOUS
<1>1. CASE NextCrash
  BY <1>1, ListStep DEF NextCrash
<1>2. CASE UNCHANGED vars
  <2>1. LockOK' /\ (torn' = {} => torn = {})
    BY <1>2 DEF ListInv, LockOK, vars, Chain
  <2>2. ListsOK => ListsOK'
    BY <1>2 DEF ListsOK, ChainList, OneEach, ListIs, Closed, FreeRecs, ChainStep, FreeStep, Node,
       Bucket, At, Live, Written, Unlinks, Restored, Absent, Ahead, Chain, vars
  <2>q. QED
    BY <2>1, <2>2 DEF ListInv
<1>q. QED
  BY <1>1, <1>2

\* It holds always.
LEMMA ListsAlways == SpecCrash => [](IInv /\ ListInv)
<1>1. Init => IInv /\ ListInv
  BY InitInv, ListInit
<1>2. IInv /\ ListInv /\ [NextCrash]_vars => (IInv /\ ListInv)'
  BY StepInv, ListNext
<1>q. QED
  BY <1>1, <1>2, PTL DEF SpecCrash

\* Without killed processes no list is ever torn.
LEMMA NeverTorn == Spec => SpecCrash /\ [](torn = {})
<1>1. Init => torn = {}
  BY DEF Init
<1>2. ASSUME torn = {}, [Next]_vars PROVE (torn = {})'
  <2>1. CASE UNCHANGED vars
    BY <2>1, <1>2 DEF vars
  <2>2. ASSUME NEW p \in Procs, Step(p) PROVE torn' = torn
    BY <2>2 DEF Step, Locking, Working, Call, RejectFlag, RejectLen, Return, FindAndLock, FindNext,
       FindHit, FindMiss, ReadDat, Unlock, DelFree, DelBlank, DelIdx, DelHead, DelUnlink,
       FreeLock, FreeNext, FreeHit, FreeMiss, FreeTake, ReuseDat, ReuseIdx, AppDat, AppDatW,
       AppIdx, AppIdxW, DatFull, IdxRefused, IdxFull, Link, LinkQuit, Overwrite, ScanLock, ScanSkip,
       ScanHit, ScanEnd, ScanAbort, ScanDat, ScanUnlock, Rewind, Restart
  <2>q. QED
    BY <2>1, <2>2, <1>2 DEF Next
<1>3. [Next]_vars => [NextCrash]_vars
  BY DEF Next, NextCrash
<1>q. QED
  BY <1>1, <1>2, <1>3, PTL DEF Spec, SpecCrash

\* The free list loses no deleted record and holds none in use, with any number
\* of processes freeing and taking records at once, and killed at any step that
\* tears no list (_db_dodelete, _db_findfree).
THEOREM FreeListSound == SpecCrash => []FreeSound
<1>1. IInv /\ ListInv => FreeSound
  BY ListsSound DEF IInv, FreeSound
<1>q. QED
  BY <1>1, ListsAlways, PTL

\* Between the calls that change it a chain holds exactly its live records,
\* whatever calls overlap on it and whatever limits they run into (db_store,
\* _db_dodelete, _db_find_and_lock).
THEOREM ChainsStaySound == Spec => []ChainsSound
<1>1. IInv /\ ListInv /\ torn = {} => ChainsSound
  BY ListsSound DEF IInv
<1>q. QED
  BY <1>1, ListsAlways, NeverTorn, PTL

\* The same with killed processes, as long as none of them was changing a list.
THEOREM ChainsSoundUntorn == SpecCrash => [](torn = {} => ChainsSound)
<1>1. IInv /\ ListInv => (torn = {} => ChainsSound)
  BY ListsSound DEF IInv
<1>q. QED
  BY <1>1, ListsAlways, PTL

\* A key has one live record, however stores, replaces and deletes of it overlap,
\* when every offset of the index file fits in a pointer: db_store leaves a record
\* that does not fit unlinked, and the next store of its key writes another.
THEOREM KeysStayUnique == ASSUME LastRec <= PTR_MAX PROVE Spec => []UniqueKey
<1>1. IInv /\ ListInv /\ torn = {} => UniqueKey
  <2> SUFFICES ASSUME IInv, ListInv, torn = {}, NEW r \in Recs, NEW s \in Recs,
                      Live(r), Live(s), idx[r].key = idx[s].key
               PROVE  r = s
    BY DEF UniqueKey
  <2>1. r <= PTR_MAX /\ s <= PTR_MAX
    BY SizeAssumption DEF Recs, FirstRec, LastRec
  <2>q. QED
    BY <2>1, KeysUnique DEF IInv
<1>q. QED
  BY <1>1, ListsAlways, NeverTorn, PTL

-----------------------------------------------------------------------------
(* The refinement: MyDB implements KVStore *)

\* What a process at each step knows of its call: which calls reach the step, and
\* that a store got past the checks of its flag.
CtlOK(p) ==
  LET r == req[p]
  IN  /\ db[p].repl => pc[p] \in AppSteps \cup {"link", "unlock"}
      /\ pc[p] = "readdat" => r.op = "fetch"
      /\ pc[p] \in {"scanlock", "scan", "scandat"} => r.op = "nextrec"
      /\ pc[p] \in ChainLabels /\ r.op = "store" => r.flag \in Flags
      /\ pc[p] \in DelSteps \cup {"overwrite"} /\ r.op = "store" => r.flag # "DB_INSERT"
      /\ pc[p] \in LinkSteps /\ ~db[p].repl => r.flag # "DB_REPLACE"

\* A scan keeps the free list locked, so the record it is reading stays.
ScanOK(p) ==
  /\ pc[p] \in {"scan", "scandat"} => p \in rlock[FREE_OFF]
  /\ pc[p] = "scandat" => Live(db[p].idxoff) /\ idx[db[p].idxoff].key = ret[p].key

\* A live record has a value unless it is being deleted, and a store has written
\* its value before it writes the index record.
ValOK ==
  /\ \A r \in Recs : Live(r) => dat[idx[r].datoff].val \in Vals \/ r \in At({"delidx"})
  /\ \A p \in Procs : pc[p] \in {"appidx", "appidxw", "reuseidx"} =>
       dat[db[p].datoff].val = req[p].val

RefInv == ValOK /\ \A p \in Procs : CtlOK(p) /\ ScanOK(p)

\* Without killed processes, and with room for every offset in a pointer.
RInv == IInv /\ ListInv /\ torn = {} /\ RefInv /\ LastRec <= PTR_MAX

\* A step leaves the answers of the other processes.
LEMMA RetFrame ==
  ASSUME TypeOK, NEW p \in Procs, Step(p), NEW q \in Procs, q # p
  PROVE  ret'[q] = ret[q]
<1> USE DEF TypeOK, Answer
<1>1. CASE Call(p)
  BY <1>1 DEF Call
<1>2. CASE RejectFlag(p)
  BY <1>2 DEF RejectFlag
<1>3. CASE RejectLen(p)
  BY <1>3 DEF RejectLen, Die, Exit
<1>4. CASE Return(p)
  BY <1>4 DEF Return, Leave
<1>5. CASE FindAndLock(p)
  BY <1>5 DEF FindAndLock
<1>6. CASE FindNext(p)
  BY <1>6 DEF FindNext
<1>7. CASE FindHit(p)
  BY <1>7 DEF FindHit
<1>8. CASE FindMiss(p)
  BY <1>8 DEF FindMiss
<1>9. CASE ReadDat(p)
  BY <1>9 DEF ReadDat
<1>10. CASE Unlock(p)
  BY <1>10 DEF Unlock, Leave
<1>11. CASE DelFree(p)
  BY <1>11 DEF DelFree
<1>12. CASE DelBlank(p)
  BY <1>12 DEF DelBlank
<1>13. CASE DelIdx(p)
  BY <1>13 DEF DelIdx
<1>14. CASE DelHead(p)
  BY <1>14 DEF DelHead
<1>15. CASE DelUnlink(p)
  BY <1>15 DEF DelUnlink
<1>16. CASE FreeLock(p)
  BY <1>16 DEF FreeLock
<1>17. CASE FreeNext(p)
  BY <1>17 DEF FreeNext
<1>18. CASE FreeHit(p)
  BY <1>18 DEF FreeHit
<1>19. CASE FreeMiss(p)
  BY <1>19 DEF FreeMiss
<1>20. CASE FreeTake(p)
  BY <1>20 DEF FreeTake
<1>21. CASE ReuseDat(p)
  BY <1>21 DEF ReuseDat
<1>22. CASE ReuseIdx(p)
  BY <1>22 DEF ReuseIdx
<1>23. CASE AppDat(p)
  BY <1>23 DEF AppDat
<1>24. CASE AppDatW(p)
  BY <1>24 DEF AppDatW
<1>25. CASE AppIdx(p)
  BY <1>25 DEF AppIdx
<1>26. CASE AppIdxW(p)
  BY <1>26 DEF AppIdxW
<1>27. CASE DatFull(p)
  BY <1>27 DEF DatFull, Die, Exit
<1>28. CASE IdxFull(p)
  BY <1>28 DEF IdxFull, Die, Exit
<1>29. CASE Link(p)
  BY <1>29 DEF Link
<1>30. CASE LinkQuit(p)
  BY <1>30 DEF LinkQuit, Die, Exit
<1>r. CASE IdxRefused(p)
  BY <1>r DEF IdxRefused, Die, Exit
<1>31. CASE Overwrite(p)
  BY <1>31 DEF Overwrite
<1>32. CASE ScanLock(p)
  BY <1>32 DEF ScanLock
<1>33. CASE ScanSkip(p)
  BY <1>33 DEF ScanSkip
<1>34. CASE ScanHit(p)
  BY <1>34 DEF ScanHit
<1>35. CASE ScanEnd(p)
  BY <1>35 DEF ScanEnd
<1>36. CASE ScanAbort(p)
  BY <1>36 DEF ScanAbort, Die, Exit
<1>37. CASE ScanDat(p)
  BY <1>37 DEF ScanDat
<1>38. CASE ScanUnlock(p)
  BY <1>38 DEF ScanUnlock, Leave
<1>39. CASE Rewind(p)
  BY <1>39 DEF Rewind
<1>40. CASE Restart(p)
  BY <1>40 DEF Restart
<1>q. QED
  BY <1>1, <1>2, <1>3, <1>4, <1>5, <1>6, <1>7, <1>8, <1>9, <1>10, <1>11, <1>12, <1>13,
     <1>14, <1>15, <1>16, <1>17, <1>18, <1>19, <1>20, <1>21, <1>22, <1>23, <1>24,
     <1>25, <1>26, <1>27, <1>28, <1>29, <1>30, <1>r, <1>31, <1>32, <1>33, <1>34, <1>35,
     <1>36, <1>37, <1>38, <1>39, <1>40
  DEF Step, Locking, Working

\* Every step keeps what its process knows of its call.
LEMMA CtlStep ==
  ASSUME TypeOK, ReqOK, NEW p \in Procs, Step(p), CtlOK(p)
  PROVE  CtlOK(p)'
<1> USE ChainLabelFacts DEF TypeOK, CtlOK, Goto, DelSteps, FreeSteps, AppSteps, LinkSteps, StoreLabels
<1>w. PICK w \in DB : w = db[p]
  OBVIOUS
<1>1. CASE Call(p)
  BY <1>1 DEF Call
<1>2. CASE RejectFlag(p)
  BY <1>2 DEF RejectFlag
<1>3. CASE RejectLen(p)
  <2>1. pc'[p] \in {"ready", "dead"} /\ db'[p].repl = FALSE
    BY <1>3 DEF RejectLen, Die, Exit, NoDB
  <2>q. QED
    BY <2>1
<1>4. CASE Return(p)
  <2>1. pc'[p] \in {"ready", "dead"} /\ db'[p].repl = FALSE
    BY <1>4 DEF Return, Leave, NoDB
  <2>q. QED
    BY <2>1
<1>5. CASE FindAndLock(p)
  <2>1. pc'[p] = "find" /\ req' = req /\ db'[p].repl = db[p].repl
    BY <1>5, <1>w DEF FindAndLock, DB
  <2>2. pc[p] = "lock" /\ ~BadFlag(p)
    BY <1>5 DEF FindAndLock
  <2>q. QED
    BY <2>1, <2>2 DEF BadFlag
<1>6. CASE FindNext(p)
  BY <1>6 DEF FindNext
<1>7. CASE FindHit(p)
  <2>1. req' = req /\ db'[p].repl = db[p].repl /\ pc[p] = "find"
    BY <1>7, <1>w DEF FindHit, DB, ReadIdx
  <2>2. \/ pc'[p] = "readdat" /\ req[p].op = "fetch"
        \/ pc'[p] = "unlock"
        \/ pc'[p] \in {"overwrite", "delfree"} /\ ~(req[p].op = "store" /\ req[p].flag = "DB_INSERT")
    BY <1>7 DEF FindHit
  <2>q. QED
    BY <2>1, <2>2
<1>8. CASE FindMiss(p)
  <2>1. req' = req /\ db'[p].repl = db[p].repl /\ pc[p] = "find"
    BY <1>8, <1>w DEF FindMiss, DB
  <2>2. pc'[p] = "unlock" \/ (pc'[p] = "freelock" /\ req[p].op = "store" /\ req[p].flag # "DB_REPLACE")
    BY <1>8 DEF FindMiss
  <2>q. QED
    BY <2>1, <2>2
<1>9. CASE ReadDat(p)
  BY <1>9 DEF ReadDat
<1>10. CASE Unlock(p)
  <2>1. pc'[p] \in {"ready", "dead"} /\ db'[p].repl = FALSE
    BY <1>10 DEF Unlock, Leave, NoDB
  <2>q. QED
    BY <2>1
<1>11. CASE DelFree(p)
  BY <1>11 DEF DelFree
<1>12. CASE DelBlank(p)
  BY <1>12 DEF DelBlank
<1>13. CASE DelIdx(p)
  BY <1>13 DEF DelIdx
<1>14. CASE DelHead(p)
  BY <1>14 DEF DelHead
<1>15. CASE DelUnlink(p)
  <2>1. req' = req /\ pc[p] = "delunlink"
    BY <1>15 DEF DelUnlink
  <2>2. CASE req[p].op = "delete"
    <3>1. pc'[p] = "unlock" /\ db' = db
      BY <1>15, <2>2 DEF DelUnlink
    <3>q. QED
      BY <2>1, <3>1
  <2>3. CASE req[p].op # "delete"
    <3>1. PICK n : db' = [db EXCEPT ![p] = [NoDB EXCEPT !.next = n, !.repl = TRUE]]
      BY <1>15, <2>3 DEF DelUnlink
    <3>2. [NoDB EXCEPT !.next = n, !.repl = TRUE].repl
      BY Zenon DEF NoDB
    <3>3. pc'[p] = "appdat" /\ db'[p].repl
      BY <1>15, <2>3, <3>1, <3>2 DEF DelUnlink
    <3>q. QED
      BY <2>1, <3>3
  <2>q. QED
    BY <2>2, <2>3
<1>16. CASE FreeLock(p)
  BY <1>16 DEF FreeLock
<1>17. CASE FreeNext(p)
  BY <1>17 DEF FreeNext
<1>18. CASE FreeHit(p)
  <2>1. req' = req /\ pc[p] = "freefind" /\ pc'[p] = "freetake" /\ db'[p].repl = db[p].repl
    BY <1>18, <1>w DEF FreeHit, DB, ReadIdx
  <2>q. QED
    BY <2>1
<1>19. CASE FreeMiss(p)
  BY <1>19 DEF FreeMiss
<1>20. CASE FreeTake(p)
  BY <1>20 DEF FreeTake
<1>21. CASE ReuseDat(p)
  BY <1>21 DEF ReuseDat
<1>22. CASE ReuseIdx(p)
  BY <1>22 DEF ReuseIdx
<1>23. CASE AppDat(p)
  BY <1>23 DEF AppDat
<1>24. CASE AppDatW(p)
  BY <1>24 DEF AppDatW
<1>25. CASE AppIdx(p)
  BY <1>25 DEF AppIdx
<1>26. CASE AppIdxW(p)
  BY <1>26 DEF AppIdxW
<1>27. CASE DatFull(p)
  <2>1. pc'[p] \in {"ready", "dead"} /\ db'[p].repl = FALSE
    BY <1>27 DEF DatFull, Die, Exit, NoDB
  <2>q. QED
    BY <2>1
<1>28. CASE IdxFull(p)
  <2>1. pc'[p] \in {"ready", "dead"} /\ db'[p].repl = FALSE
    BY <1>28 DEF IdxFull, Die, Exit, NoDB
  <2>q. QED
    BY <2>1
<1>29. CASE Link(p)
  BY <1>29 DEF Link
<1>30. CASE LinkQuit(p)
  <2>1. pc'[p] \in {"ready", "dead"} /\ db'[p].repl = FALSE
    BY <1>30 DEF LinkQuit, Die, Exit, NoDB
  <2>q. QED
    BY <2>1
<1>r. CASE IdxRefused(p)
  <2>1. pc'[p] \in {"ready", "dead"} /\ db'[p].repl = FALSE
    BY <1>r DEF IdxRefused, Die, Exit, NoDB
  <2>q. QED
    BY <2>1
<1>31. CASE Overwrite(p)
  BY <1>31 DEF Overwrite
<1>32. CASE ScanLock(p)
  BY <1>32 DEF ScanLock
<1>33. CASE ScanSkip(p)
  BY <1>33 DEF ScanSkip
<1>34. CASE ScanHit(p)
  <2>1. req' = req /\ pc[p] = "scan" /\ pc'[p] = "scandat" /\ db'[p].repl = db[p].repl
    BY <1>34, <1>w DEF ScanHit, DB, ReadIdx
  <2>q. QED
    BY <2>1
<1>35. CASE ScanEnd(p)
  BY <1>35 DEF ScanEnd
<1>36. CASE ScanAbort(p)
  <2>1. pc'[p] \in {"ready", "dead"} /\ db'[p].repl = FALSE
    BY <1>36 DEF ScanAbort, Die, Exit, NoDB
  <2>q. QED
    BY <2>1
<1>37. CASE ScanDat(p)
  BY <1>37 DEF ScanDat
<1>38. CASE ScanUnlock(p)
  <2>1. pc'[p] \in {"ready", "dead"} /\ db'[p].repl = FALSE
    BY <1>38 DEF ScanUnlock, Leave, NoDB
  <2>q. QED
    BY <2>1
<1>39. CASE Rewind(p)
  BY <1>39 DEF Rewind
<1>40. CASE Restart(p)
  BY <1>40 DEF Restart
<1>q. QED
  BY <1>1, <1>2, <1>3, <1>4, <1>5, <1>6, <1>7, <1>8, <1>9, <1>10, <1>11, <1>12, <1>13,
     <1>14, <1>15, <1>16, <1>17, <1>18, <1>19, <1>20, <1>21, <1>22, <1>23, <1>24,
     <1>25, <1>26, <1>27, <1>28, <1>29, <1>30, <1>r, <1>31, <1>32, <1>33, <1>34, <1>35,
     <1>36, <1>37, <1>38, <1>39, <1>40
  DEF Step, Locking, Working

-----------------------------------------------------------------------------
(* What a step leaves of the records and of their values *)

Settles(p) == DelBlank(p) \/ DelIdx(p) \/ ReuseIdx(p) \/ AppIdxW(p) \/ Overwrite(p)

\* A step changes no index record but the one it deletes or stores.
LEMMA IdxWrites ==
  ASSUME IInv, NEW p \in Procs, Step(p), NEW r \in Recs,
         ~((DelIdx(p) \/ ReuseIdx(p) \/ AppIdxW(p)) /\ r = db[p].idxoff)
  PROVE  (Written(r) => idx'[r] = idx[r]) /\ (Written(r)' <=> Written(r))
<1> USE DEF IInv, TypeOK, file
<1>1. CASE DelIdx(p) \/ ReuseIdx(p)
  BY <1>1 DEF DelIdx, ReuseIdx, WriteIdx, Written
<1>2. CASE AppIdxW(p)
  <2>1. db[p].idxoff = idxend /\ idxend \in Nat /\ Recs \subseteq Nat
    BY <1>2, SetFacts DEF TailOK, AppIdxW
  <2>2. idx'[r] = idx[r] /\ idxend' = idxend + 1 /\ r # idxend
    BY <1>2, <2>1 DEF AppIdxW, WriteIdx
  <2>q. QED
    BY <2>1, <2>2 DEF Written
<1>3. CASE ~(DelIdx(p) \/ ReuseIdx(p) \/ AppIdxW(p))
  <2>1. CASE idx' = idx /\ idxend' = idxend
    BY <2>1 DEF Written
  <2>2. CASE DatFull(p) \/ IdxFull(p)
    BY <2>2, Partial
  <2>q. QED
    BY <1>3, <2>1, <2>2, WriteSteps DEF Writes, DelBlank, DelHead, DelUnlink, FreeTake, ReuseDat,
       AppDatW, Link, Overwrite
<1>q. QED
  BY <1>1, <1>2, <1>3

\* A step changes no data but those it blanks or stores.
LEMMA DatWrites ==
  ASSUME TypeOK, NEW p \in Procs, Step(p), NEW d \in 0..(MaxDats - 1), d < datend,
         ~((DelBlank(p) \/ ReuseDat(p) \/ AppDatW(p) \/ Overwrite(p)) /\ d = db[p].datoff)
  PROVE  dat'[d] = dat[d]
<1>1. CASE DelBlank(p) \/ ReuseDat(p) \/ AppDatW(p) \/ Overwrite(p)
  BY <1>1 DEF TypeOK, DelBlank, ReuseDat, AppDatW, Overwrite, WriteDat
<1>2. CASE ~(DelBlank(p) \/ ReuseDat(p) \/ AppDatW(p) \/ Overwrite(p))
  <2>1. CASE DatFull(p) \/ IdxFull(p)
    BY <2>1, Partial, SizeAssumption DEF DatOffs
  <2>q. QED
    BY <1>2, <2>1, WriteSteps DEF Writes, file, DelIdx, DelHead, DelUnlink, FreeTake, ReuseIdx,
       AppIdxW, Link
<1>q. QED
  BY <1>1, <1>2

\* A record that is live, or written: its place in the data file.
LEMMA PlaceFacts ==
  ASSUME TypeOK, FreshOK, NEW r \in Recs, Written(r)
  PROVE  idx[r].datoff \in 0..(MaxDats - 1) /\ idx[r].datoff < datend
<1>1. idx[r].datoff \in DatOffs /\ datend \in DatOffs /\ idx[r].datoff < datend
  BY DEF TypeOK, FreshOK, IdxRec
<1>q. QED
  BY <1>1, SizeAssumption DEF DatOffs

\* Only the record a process works on changes.
LEMMA RecsKept ==
  ASSUME RInv, NEW p \in Procs, Step(p), NEW r \in Recs, ~(Settles(p) /\ r = db[p].idxoff)
  PROVE  /\ Live(r)' <=> Live(r)
         /\ Live(r) => /\ idx'[r] = idx[r]
                       /\ dat'[idx[r].datoff] = dat[idx[r].datoff]
<1>0. IInv /\ TypeOK /\ HeldOK /\ TailOK /\ FreshOK /\ DataPrivate /\ ListsOK
  BY DEF RInv, IInv, ListInv
<1>1. (Written(r) => idx'[r] = idx[r]) /\ (Written(r)' <=> Written(r))
  BY <1>0, IdxWrites DEF Settles
<1>2. ASSUME Live(r) PROVE dat'[idx[r].datoff] = dat[idx[r].datoff]
  <2>1. PICK d \in 0..(MaxDats - 1) : d = idx[r].datoff /\ d < datend /\ Written(r)
    BY <1>0, <1>2, PlaceFacts DEF Live
  <2>2. ASSUME pc[p] \in HoldLabels, d = db[p].datoff PROVE r = db[p].idxoff
    BY <2>1, <2>2, <1>0 DEF HeldOK, Held, DataPrivate, Written
  <2>3. ~(AppDatW(p) /\ d = db[p].datoff)
    BY <2>1, <1>0, SetFacts DEF AppDatW, TailOK, TypeOK
  <2>4. ~(ReuseDat(p) /\ d = db[p].datoff)
    BY <2>2, <1>0, <1>2 DEF ReuseDat, HoldLabels, ListsOK, FreeStep
  <2>5. ~((DelBlank(p) \/ Overwrite(p)) /\ d = db[p].datoff)
    BY <2>2 DEF DelBlank, Overwrite, HoldLabels, DelSteps, Settles
  <2>q. QED
    BY <2>1, <2>3, <2>4, <2>5, <1>0, DatWrites
<1>q. QED
  BY <1>1, <1>2 DEF Live

\* The record that changes belongs to the key of the call.
LEMMA Settled ==
  ASSUME RInv, NEW p \in Procs, Settles(p), NEW r, r = db[p].idxoff
  PROVE  /\ r \in Recs /\ req' = req /\ req[p].key \in Keys /\ pc[p] \in ChainLabels
         /\ req[p].op # "fetch"
         /\ Live(r) => idx[r].key = req[p].key
         /\ Live(r)' => idx'[r].key = req[p].key
<1>0. TypeOK /\ ReqOK /\ HeldOK /\ TailOK /\ LockOK /\ ListsOK
  BY DEF RInv, IInv, ListInv
<1>1. ChainStep(p) /\ FreeStep(p)
  BY <1>0 DEF ListsOK
<1>2. /\ pc[p] \in {"delblank", "delidx", "overwrite", "reuseidx", "appidxw"} /\ req' = req
  BY DEF Settles, DelBlank, DelIdx, ReuseIdx, AppIdxW, Overwrite
<1>3. req[p].key \in Keys /\ pc[p] \in ChainLabels /\ req[p].op # "fetch"
  BY <1>0, <1>2, LooseHolds DEF DelSteps, LinkSteps, StoreLabels, AppSteps
<1>4. r \in Recs
  <2>1. CASE pc[p] = "appidxw"
    BY <2>1 DEF Settles, DelBlank, DelIdx, ReuseIdx, AppIdxW, Overwrite
  <2>2. CASE pc[p] # "appidxw"
    BY <1>0, <1>2, <2>2 DEF HeldOK, Held, HoldLabels, DelSteps, Written
  <2>q. QED
    BY <2>1, <2>2
<1>5. pc[p] = "reuseidx" => ~Live(r)
  BY <1>1 DEF FreeStep
<1>6. pc[p] = "appidxw" => ~Live(r)
  <2>1. pc[p] = "appidxw" => r = idxend
    BY <1>0 DEF TailOK
  <2>q. QED
    BY <2>1, <1>0, SetFacts DEF Live, Written, TypeOK
<1>7. pc[p] \in {"delblank", "delidx", "overwrite"} => idx[r].key = req[p].key
  BY <1>1 DEF ChainStep
<1>8. Live(r) => idx[r].key = req[p].key
  BY <1>2, <1>5, <1>6, <1>7
<1>9. ASSUME Live(r)' PROVE idx'[r].key = req[p].key
  <2>1. CASE DelBlank(p) \/ Overwrite(p)
    <3>1. idx' = idx /\ idxend' = idxend
      BY <2>1 DEF DelBlank, Overwrite
    <3>q. QED
      BY <3>1, <1>8, <1>9 DEF Live, Written
  <2>2. CASE DelIdx(p)
    BY <2>2, <1>0, <1>4, <1>9 DEF DelIdx, WriteIdx, TypeOK, Live
  <2>3. CASE ReuseIdx(p) \/ AppIdxW(p)
    BY <2>3, <1>0, <1>4 DEF ReuseIdx, AppIdxW, WriteIdx, TypeOK
  <2>q. QED
    BY <2>1, <2>2, <2>3 DEF Settles
<1>q. QED
  BY <1>2, <1>3, <1>4, <1>8, <1>9

\* The record a scan is reading stays while it reads it.
LEMMA ScanStep ==
  ASSUME RInv, NEW p \in Procs, Step(p), NEW q \in Procs
  PROVE  ScanOK(q)'
<1>0. IInv /\ TypeOK /\ ReqOK /\ TailOK /\ LockOK /\ ListsOK /\ ScanOK(q)
  BY DEF RInv, IInv, ListInv, RefInv
<1>1. CASE q # p
  <2>1. pc'[q] = pc[q] /\ db'[q] = db[q] /\ ret'[q] = ret[q]
    BY <1>0, <1>1, Frame, RetFrame
  <2>2. q \in rlock[FREE_OFF] => q \in rlock'[FREE_OFF]
    BY <1>0, <1>1, LocksKept, SetFacts
  <2>3. ASSUME pc[q] = "scandat" PROVE Live(db[q].idxoff)' /\ idx'[db[q].idxoff].key = ret[q].key
    <3>1. PICK r \in Recs : r = db[q].idxoff /\ Live(r) /\ idx[r].key = ret[q].key
      BY <1>0, <2>3 DEF ScanOK, Live, Written
    <3>2. ~(DelIdx(p) /\ r = db[p].idxoff)
      <4>1. q \in rlock[FREE_OFF]
        BY <1>0, <2>3 DEF ScanOK
      <4>2. DelIdx(p) => wlock[FREE_OFF] = p
        BY <1>0 DEF LockOK, DelIdx, FreeLabels
      <4>q. QED
        BY <4>1, <4>2, <1>0, <1>1, ProcAssumption, SetFacts DEF LockOK
    <3>3. ~(ReuseIdx(p) /\ r = db[p].idxoff)
      BY <3>1, <1>0 DEF ReuseIdx, ListsOK, FreeStep
    <3>4. ~(AppIdxW(p) /\ r = db[p].idxoff)
      BY <3>1, <1>0, SetFacts DEF AppIdxW, TailOK, Live, Written
    <3>5. idx'[r] = idx[r] /\ (Written(r)' <=> Written(r))
      BY <3>1, <3>2, <3>3, <3>4, <1>0, IdxWrites DEF Live
    <3>q. QED
      BY <3>1, <3>5, <2>1 DEF Live
  <2>q. QED
    BY <2>1, <2>2, <2>3, <1>0 DEF ScanOK
<1>2. ASSUME q = p, ScanSkip(p) \/ ScanHit(p) \/ ScanLock(p) PROVE ScanOK(q)'
  <2>1. CASE ScanLock(p)
    BY <2>1, <1>2, <1>0, SetFacts DEF ScanLock, ReadLock, ScanOK, TypeOK, Goto
  <2>2. CASE ScanSkip(p)
    BY <2>2, <1>2, <1>0 DEF ScanSkip, ScanOK, locks
  <2>3. CASE ScanHit(p)
    <3>1. PICK r \in Recs : r = pos[p] /\ Live(r)
      BY <2>3 DEF ScanHit, Live, Written
    <3>w. PICK w \in DB : w = db[p]
      BY <1>0 DEF TypeOK
    <3>2. db'[p].idxoff = r
      BY <2>3, <3>1, <3>w, <1>0 DEF ScanHit, TypeOK, DB, ReadIdx
    <3>3. ret'[p].key = idx[r].key /\ idx' = idx /\ idxend' = idxend /\ rlock' = rlock
      BY <2>3, <3>1, <1>0 DEF ScanHit, Answer, Ret, TypeOK, file, locks
    <3>4. p \in rlock[FREE_OFF]
      BY <2>3, <1>0, <1>2 DEF ScanOK, ScanHit
    <3>q. QED
      BY <3>1, <3>2, <3>3, <3>4, <1>2 DEF ScanOK, Live, Written
  <2>q. QED
    BY <2>1, <2>2, <2>3, <1>2
<1>3. ASSUME q = p, ~(ScanSkip(p) \/ ScanHit(p) \/ ScanLock(p)) PROVE ScanOK(q)'
  <2>1. pc'[p] \notin {"scan", "scandat"}
    BY <1>0, <1>3 DEF TypeOK, Goto, Step, Locking, Working, Call, RejectFlag, RejectLen, Return,
       FindAndLock, FindNext, FindHit, FindMiss, ReadDat, Unlock, DelFree, DelBlank, DelIdx,
       DelHead, DelUnlink, FreeLock, FreeNext, FreeHit, FreeMiss, FreeTake, ReuseDat, ReuseIdx,
       AppDat, AppDatW, AppIdx, AppIdxW, DatFull, IdxRefused, IdxFull, Link, LinkQuit, Overwrite,
       ScanEnd, ScanAbort, ScanDat, ScanUnlock, Rewind, Restart, Die, Exit, Leave
  <2>q. QED
    BY <2>1, <1>3 DEF ScanOK
<1>q. QED
  BY <1>1, <1>2, <1>3

\* Every step leaves a value in each live record.
LEMMA ValStep ==
  ASSUME RInv, NEW p \in Procs, Step(p)
  PROVE  ValOK'
<1>0. /\ IInv /\ TypeOK /\ ReqOK /\ HeldOK /\ TailOK /\ FreshOK /\ DataPrivate
      /\ LockOK /\ ListsOK /\ ValOK
  BY DEF RInv, IInv, ListInv, RefInv
<1>1. ASSUME NEW r \in Recs, Live(r)', ~(Settles(p) /\ r = db[p].idxoff)
      PROVE  dat'[idx'[r].datoff].val \in Vals \/ r \in At({"delidx"})'
  <2>1. Live(r) /\ idx'[r] = idx[r] /\ dat'[idx[r].datoff] = dat[idx[r].datoff]
    BY <1>1, RecsKept
  <2>2. CASE r \in At({"delidx"})
    <3>1. PICK q \in Procs : pc[q] = "delidx" /\ db[q].idxoff = r
      BY <2>2 DEF At
    <3>2. q # p
      <4> SUFFICES ASSUME q = p PROVE FALSE
        OBVIOUS
      <4>1. DelIdx(p)
        BY <3>1 DEF Step, Locking, Working, Call, RejectFlag, RejectLen, Return, FindAndLock,
           FindNext, FindHit, FindMiss, ReadDat, Unlock, DelFree, DelBlank, DelHead, DelUnlink,
           FreeLock, FreeNext, FreeHit, FreeMiss, FreeTake, ReuseDat, ReuseIdx, AppDat, AppDatW,
           AppIdx, AppIdxW, DatFull, IdxRefused, IdxFull, Link, LinkQuit, Overwrite, ScanLock, ScanSkip,
           ScanHit, ScanEnd, ScanAbort, ScanDat, ScanUnlock, Rewind, Restart
      <4>q. QED
        BY <4>1, <3>1, <1>1 DEF Settles
    <3>3. pc'[q] = "delidx" /\ db'[q].idxoff = r
      BY <3>1, <3>2, <1>0, Frame
    <3>q. QED
      BY <3>3 DEF At
  <2>3. CASE r \notin At({"delidx"})
    BY <2>1, <2>3, <1>0 DEF ValOK
  <2>q. QED
    BY <2>2, <2>3
<1>2. ASSUME NEW r \in Recs, Live(r)', Settles(p), r = db[p].idxoff
      PROVE  dat'[idx'[r].datoff].val \in Vals \/ r \in At({"delidx"})'
  <2>1. CASE DelBlank(p)
    <3>1. pc'[p] = "delidx" /\ db'[p].idxoff = r
      BY <2>1, <1>0, <1>2 DEF DelBlank, TypeOK, Goto
    <3>q. QED
      BY <3>1 DEF At
  <2>2. CASE DelIdx(p)
    BY <2>2, <1>0, <1>2 DEF DelIdx, WriteIdx, TypeOK, Live
  <2>3. CASE ReuseIdx(p) \/ AppIdxW(p)
    <3>1. pc[p] \in {"reuseidx", "appidxw"}
      BY <2>3 DEF ReuseIdx, AppIdxW
    <3>2. dat[db[p].datoff].val = req[p].val
      BY <3>1, <1>0 DEF ValOK
    <3>3. req[p].val \in Vals
      BY <3>1, <1>0, KeyLabelFacts DEF ReqOK, StoreLabels, AppSteps
    <3>4. dat' = dat /\ idx'[r].datoff = db[p].datoff
      BY <2>3, <1>0, <1>2 DEF ReuseIdx, AppIdxW, WriteIdx, TypeOK
    <3>q. QED
      BY <3>2, <3>3, <3>4
  <2>4. CASE Overwrite(p)
    <3>1. pc[p] = "overwrite" /\ idx' = idx
      BY <2>4 DEF Overwrite
    <3>2. req[p].val \in Vals
      BY <3>1, <1>0, KeyLabelFacts DEF ReqOK, StoreLabels
    <3>3. Written(r) /\ idx[r].datoff = db[p].datoff
      BY <3>1, <1>0, <1>2 DEF HeldOK, Held, HoldLabels
    <3>4. db[p].datoff \in 0..(MaxDats - 1)
      BY <3>3, <1>0, PlaceFacts
    <3>5. dat'[db[p].datoff].val = req[p].val
      BY <2>4, <3>4, <1>0 DEF Overwrite, WriteDat, TypeOK
    <3>q. QED
      BY <3>1, <3>2, <3>3, <3>5
  <2>q. QED
    BY <2>1, <2>2, <2>3, <2>4, <1>2 DEF Settles
<1>3. ASSUME NEW q \in Procs, q # p, pc'[q] \in {"appidx", "appidxw", "reuseidx"}
      PROVE  dat'[db'[q].datoff].val = req'[q].val
  <2>1. pc'[q] = pc[q] /\ db'[q] = db[q] /\ req'[q] = req[q]
    BY <1>0, <1>3, Frame
  <2>2. PICK d : d = db[q].datoff
    OBVIOUS
  <2>3. d < datend
    <3>1. CASE Fresh(q)
      BY <3>1, <2>2, <1>0 DEF FreshOK
    <3>2. CASE pc[q] = "reuseidx"
      BY <3>2, <2>2, <1>0 DEF HeldOK, Held, HoldLabels, FreshOK, Written
    <3>q. QED
      BY <3>1, <3>2, <2>1, <1>3 DEF Fresh
  <2>4. d \in 0..(MaxDats - 1)
    BY <2>2, <2>3, <1>0, SizeAssumption DEF TypeOK, DB, DatOffs
  <2>5. ~(AppDatW(p) /\ d = db[p].datoff)
    BY <2>3, <2>4, <1>0, SetFacts DEF AppDatW, TailOK, TypeOK
  <2>6. ASSUME pc[p] \in {"delblank", "overwrite", "reusedat"} PROVE d # db[p].datoff
    <3>1. Written(db[p].idxoff) /\ idx[db[p].idxoff].datoff = db[p].datoff
      BY <2>6, <1>0 DEF HeldOK, Held, HoldLabels, DelSteps
    <3>2. CASE Fresh(q)
      BY <3>1, <3>2, <2>2, <1>0 DEF FreshOK, Written
    <3>3. CASE pc[q] = "reuseidx"
      <4>1. Written(db[q].idxoff) /\ idx[db[q].idxoff].datoff = d /\ ~Live(db[q].idxoff)
        BY <3>3, <2>2, <1>0 DEF HeldOK, Held, HoldLabels, ListsOK, FreeStep
      <4>2. pc[p] \in {"delblank", "overwrite"} => Live(db[p].idxoff)
        BY <1>0 DEF ListsOK, ChainStep, Node, Bucket
      <4>3. pc[p] = "reusedat" => db[p].idxoff # db[q].idxoff
        BY <3>3, <1>0, <1>3 DEF ListsOK, FreeStep
      <4>q. QED
        BY <4>1, <4>2, <4>3, <3>1, <2>6, <1>0 DEF DataPrivate, Written
    <3>q. QED
      BY <3>2, <3>3, <2>1, <1>3 DEF Fresh
  <2>7. dat'[d] = dat[d]
    BY <2>3, <2>4, <2>5, <2>6, <1>0, DatWrites DEF DelBlank, Overwrite, ReuseDat
  <2>q. QED
    BY <2>1, <2>2, <2>7, <1>0, <1>3 DEF ValOK
<1>4. ASSUME pc'[p] \in {"appidx", "appidxw", "reuseidx"}
      PROVE  dat'[db'[p].datoff].val = req'[p].val
  <2>w. PICK w \in DB : w = db[p]
    BY <1>0 DEF TypeOK
  <2>1. CASE AppDatW(p)
    <3>1. db' = db /\ req' = req /\ db[p].datoff \in DatOffs /\ db[p].datoff < MaxDats
      BY <2>1, <2>w DEF AppDatW, DB
    <3>2. db[p].datoff \in 0..(MaxDats - 1)
      BY <3>1, SetFacts
    <3>3. dat'[db[p].datoff].val = req[p].val
      BY <2>1, <3>2, <1>0 DEF AppDatW, WriteDat, TypeOK
    <3>q. QED
      BY <3>1, <3>3
  <2>2. CASE AppIdx(p)
    <3>1. db'[p].datoff = db[p].datoff /\ dat' = dat /\ req' = req
      BY <2>2, <2>w, <1>0 DEF AppIdx, TypeOK, DB, file
    <3>q. QED
      BY <3>1, <2>2, <1>0 DEF AppIdx, ValOK
  <2>3. CASE ReuseDat(p)
    <3>1. db'[p].datoff = db[p].datoff /\ req' = req
      BY <2>3, <2>w, <1>0 DEF ReuseDat, TypeOK, DB
    <3>2. db[p].datoff \in 0..(MaxDats - 1)
      BY <2>3, <1>0, PlaceFacts DEF ReuseDat, HeldOK, Held, HoldLabels, Written
    <3>3. dat'[db[p].datoff].val = req[p].val
      BY <2>3, <3>2, <1>0 DEF ReuseDat, WriteDat, TypeOK
    <3>q. QED
      BY <3>1, <3>3
  <2>4. Enters(p)
    BY <1>0, <1>4, EnterSteps DEF WorkLabels, HoldLabels
  <2>5. AppDatW(p) \/ AppIdx(p) \/ ReuseDat(p)
    BY <2>4, <1>0, <1>4 DEF Enters, TypeOK, Goto, FindAndLock, FindNext, FindHit, DelFree, DelBlank,
       DelIdx, DelHead, FreeLock, FreeNext, FreeHit, FreeTake, ReuseIdx, AppDat, AppIdxW, ScanHit
  <2>q. QED
    BY <2>1, <2>2, <2>3, <2>5
<1>q. QED
  BY <1>1, <1>2, <1>3, <1>4 DEF ValOK

\* Every step keeps the invariant of the refinement.
LEMMA RefStep ==
  ASSUME RInv, NEW p \in Procs, Step(p)
  PROVE  RInv'
<1>1. IInv /\ ListInv /\ torn = {} /\ RefInv /\ LastRec <= PTR_MAX /\ TypeOK /\ ReqOK
  BY DEF RInv, IInv
<1>2. IInv'
  BY <1>1, StepInv DEF NextCrash
<1>3. ListInv'
  BY <1>1, ListStep
<1>4. torn' = {}
  BY <1>1 DEF Step, Locking, Working, Call, RejectFlag, RejectLen, Return, FindAndLock, FindNext,
     FindHit, FindMiss, ReadDat, Unlock, DelFree, DelBlank, DelIdx, DelHead, DelUnlink,
     FreeLock, FreeNext, FreeHit, FreeMiss, FreeTake, ReuseDat, ReuseIdx, AppDat, AppDatW,
     AppIdx, AppIdxW, DatFull, IdxRefused, IdxFull, Link, LinkQuit, Overwrite, ScanLock, ScanSkip,
     ScanHit, ScanEnd, ScanAbort, ScanDat, ScanUnlock, Rewind, Restart
<1>5. ASSUME NEW q \in Procs PROVE CtlOK(q)'
  <2>1. CtlOK(q)
    BY <1>1 DEF RefInv
  <2>2. CASE q # p
    <3>1. pc'[q] = pc[q] /\ req'[q] = req[q] /\ db'[q] = db[q]
      BY <1>1, <2>2, Frame
    <3>q. QED
      BY <3>1, <2>1 DEF CtlOK
  <2>3. CASE q = p
    BY <2>1, <2>3, <1>1, CtlStep
  <2>q. QED
    BY <2>2, <2>3
<1>6. ValOK' /\ \A q \in Procs : ScanOK(q)'
  BY ValStep, ScanStep
<1>q. QED
  BY <1>1, <1>2, <1>3, <1>4, <1>5, <1>6 DEF RInv, RefInv

\* It holds at the start.
LEMMA RefStart == Init /\ LastRec <= PTR_MAX => RInv
<1> SUFFICES ASSUME Init, LastRec <= PTR_MAX PROVE RInv
  OBVIOUS
<1>1. IInv /\ ListInv /\ torn = {}
  BY InitInv, ListInit DEF Init
<1>2. \A r \in Recs : ~Live(r)
  BY SizeAssumption DEF Init, Live, Written, Recs, FirstRec
<1>3. ASSUME NEW p \in Procs
      PROVE  pc[p] = "ready" /\ ~db[p].repl
  BY Zenon DEF Init, NoDB
<1>4. ValOK
  BY <1>2, <1>3 DEF ValOK
<1>5. ASSUME NEW p \in Procs PROVE CtlOK(p) /\ ScanOK(p)
  BY <1>3, ChainLabelFacts DEF CtlOK, ScanOK, DelSteps, LinkSteps, StoreLabels, FreeSteps, AppSteps
<1>q. QED
  BY <1>1, <1>4, <1>5 DEF RInv, RefInv

-----------------------------------------------------------------------------
(* The dictionary the files hold *)

MaskVal(q) == IF req[q].op = "delete" THEN SPACE ELSE req[q].val
Masked(k)  == \E q \in Procs : Masking(q) /\ req[q].key = k
HasKey(r, k) == r \in Recs /\ Live(r) /\ idx[r].key = k

\* v is the value of k: the one a replace or delete under way leaves, or the one
\* in the file.
DictIs(k, v) ==
  \/ \E q \in Procs : Masking(q) /\ req[q].key = k /\ v = MaskVal(q)
  \/ ~Masked(k) /\ \E r \in Recs : HasKey(r, k) /\ v = dat[idx[r].datoff].val
  \/ ~Masked(k) /\ (\A r \in Recs : ~HasKey(r, k)) /\ v = SPACE

\* A process at a masking step holds its chain.
LEMMA MaskHolds ==
  ASSUME RInv, NEW p \in Procs, Masking(p)
  PROVE  pc[p] \in ChainLabels /\ req[p].op # "fetch" /\ req[p].key \in Keys
<1>1. pc[p] \in DelSteps \cup LinkSteps
  BY DEF Masking, DelSteps, LinkSteps, StoreLabels, AppSteps
<1>q. QED
  BY <1>1, LooseHolds DEF RInv, IInv, ListInv

\* No other call works on the key of a process at a masking step.
LEMMA MaskAlone ==
  ASSUME RInv, NEW p \in Procs, NEW q \in Procs, q # p, Masking(q), pc[p] \in ChainLabels
  PROVE  req[q].key # req[p].key
<1>1. Chain(p) # Chain(q)
  BY MaskHolds, Exclusive DEF RInv, IInv, ListInv
<1>q. QED
  BY <1>1 DEF Chain

\* DictIs determines the value of a key: one record each, one process at most
\* masking it.
LEMMA DictUnique == RInv => \A k \in Keys : \A v : DictIs(k, v) => AbsDict[k] = v
<1> SUFFICES ASSUME RInv, NEW k \in Keys, NEW v, DictIs(k, v) PROVE AbsDict[k] = v
  OBVIOUS
<1> DEFINE masks == {p \in Procs : Masking(p) /\ req[p].key = k}
           recs  == {r \in Recs : Live(r) /\ idx[r].key = k}
<1>1. AbsDict[k] = IF masks # {} THEN MaskVal(CHOOSE q \in masks : TRUE)
                   ELSE IF recs = {} THEN SPACE
                   ELSE dat[idx[CHOOSE r \in recs : TRUE].datoff].val
  BY DEF AbsDict, MaskVal
<1>2. \A q, z \in masks : q = z
  BY MaskAlone, MaskHolds
<1>3. \A r, s \in recs : r = s
  <2> SUFFICES ASSUME NEW r \in recs, NEW s \in recs PROVE r = s
    OBVIOUS
  <2>1. r <= PTR_MAX /\ s <= PTR_MAX
    BY SizeAssumption DEF RInv, Recs, FirstRec, LastRec
  <2>q. QED
    BY <2>1, KeysUnique DEF RInv, IInv
<1>4. CASE \E q \in Procs : Masking(q) /\ req[q].key = k /\ v = MaskVal(q)
  <2>1. PICK q \in masks : v = MaskVal(q)
    BY <1>4
  <2>2. (CHOOSE z \in masks : TRUE) \in masks
    BY <2>1
  <2>3. (CHOOSE z \in masks : TRUE) = q
    BY <2>1, <2>2, <1>2
  <2>q. QED
    BY <2>1, <2>3, <1>1
<1>5. CASE ~Masked(k) /\ \E r \in Recs : HasKey(r, k) /\ v = dat[idx[r].datoff].val
  <2>1. PICK r \in recs : v = dat[idx[r].datoff].val
    BY <1>5 DEF HasKey
  <2>2. (CHOOSE z \in recs : TRUE) \in recs
    BY <2>1
  <2>3. (CHOOSE z \in recs : TRUE) = r
    BY <2>1, <2>2, <1>3
  <2>4. masks = {}
    BY <1>5 DEF Masked
  <2>q. QED
    BY <2>1, <2>3, <2>4, <1>1
<1>6. CASE ~Masked(k) /\ (\A r \in Recs : ~HasKey(r, k)) /\ v = SPACE
  <2>1. masks = {} /\ recs = {}
    BY <1>6 DEF Masked, HasKey
  <2>q. QED
    BY <2>1, <1>6, <1>1
<1>q. QED
  BY <1>4, <1>5, <1>6 DEF DictIs

\* It gives every key its value.
LEMMA DictTotal == RInv => \A k \in Keys : DictIs(k, AbsDict[k])
<1> SUFFICES ASSUME RInv, NEW k \in Keys PROVE \E v : DictIs(k, v)
  BY DictUnique
<1>1. CASE Masked(k)
  BY <1>1 DEF Masked, DictIs
<1>2. CASE ~Masked(k)
  BY <1>2 DEF DictIs
<1>q. QED
  BY <1>1, <1>2

\* The dictionary is a function on the keys.
LEMMA DictFun == AbsDict = [k \in Keys |-> AbsDict[k]]
BY DEF AbsDict

\* The same after a step.
LEMMA DictAfter == RInv' => \A k \in Keys : \A v : DictIs(k, v)' => AbsDict'[k] = v
<1>1. RInv' => (\A k \in Keys : \A v : DictIs(k, v) => AbsDict[k] = v)'
  BY DictUnique, PTL
<1>q. QED
  BY <1>1

\* So it is after a step.
LEMMA DictFunAfter == AbsDict' = [k \in Keys |-> AbsDict'[k]]
<1>1. (AbsDict = [k \in Keys |-> AbsDict[k]])'
  BY DictFun, PTL
<1>q. QED
  BY <1>1

-----------------------------------------------------------------------------
(* What a step changes of the dictionary *)

\* A step leaves what the other processes mask and show.
LEMMA MaskFrame ==
  ASSUME TypeOK, NEW p \in Procs, Step(p), NEW q \in Procs, q # p
  PROVE  /\ Masking(q)' <=> Masking(q)
         /\ req'[q] = req[q] /\ MaskVal(q)' = MaskVal(q)
         /\ AbsSt'[q] = AbsSt[q] /\ AbsRes'[q] = AbsRes[q]
<1>1. pc'[q] = pc[q] /\ req'[q] = req[q] /\ db'[q] = db[q] /\ ret'[q] = ret[q]
  BY Frame, RetFrame
<1>2. Masking(q)' <=> Masking(q)
  BY <1>1 DEF Masking
<1>q. QED
  BY <1>1, <1>2 DEF MaskVal, AbsSt, AbsRes, Decided

\* A key whose records and masks a step leaves alone keeps its value.
LEMMA DictSame ==
  ASSUME RInv, NEW p \in Procs, Step(p), NEW k \in Keys,
         \A r \in Recs : Settles(p) /\ r = db[p].idxoff => ~HasKey(r, k) /\ ~HasKey(r, k)',
         (Masking(p) /\ req[p].key = k) <=> (Masking(p)' /\ req'[p].key = k),
         Masking(p) /\ req[p].key = k => req'[p] = req[p]
  PROVE  AbsDict'[k] = AbsDict[k]
<1>0. TypeOK /\ RInv'
  BY RefStep DEF RInv, IInv
<1>v. PICK v : v = AbsDict[k]
  OBVIOUS
<1>1. DictIs(k, v)
  BY <1>v, DictTotal
<1>2. Masked(k)' <=> Masked(k)
  BY <1>0, MaskFrame DEF Masked
<1>3. ASSUME NEW q \in Procs, Masking(q), req[q].key = k
      PROVE  Masking(q)' /\ req'[q].key = k /\ MaskVal(q)' = MaskVal(q)
  BY <1>3, <1>0, MaskFrame DEF MaskVal
<1>4. ASSUME NEW r \in Recs
      PROVE  /\ HasKey(r, k)' <=> HasKey(r, k)
             /\ HasKey(r, k) => dat'[idx'[r].datoff].val = dat[idx[r].datoff].val
  <2>1. CASE Settles(p) /\ r = db[p].idxoff
    BY <2>1
  <2>2. CASE ~(Settles(p) /\ r = db[p].idxoff)
    BY <2>2, RecsKept DEF HasKey
  <2>q. QED
    BY <2>1, <2>2
<1>5. DictIs(k, v)'
  <2>1. CASE \E q \in Procs : Masking(q) /\ req[q].key = k /\ v = MaskVal(q)
    BY <2>1, <1>3 DEF DictIs
  <2>2. CASE ~Masked(k) /\ \E r \in Recs : HasKey(r, k) /\ v = dat[idx[r].datoff].val
    BY <2>2, <1>2, <1>4 DEF DictIs
  <2>3. CASE ~Masked(k) /\ (\A r \in Recs : ~HasKey(r, k)) /\ v = SPACE
    BY <2>3, <1>2, <1>4 DEF DictIs
  <2>q. QED
    BY <2>1, <2>2, <2>3, <1>1 DEF DictIs
<1>q. QED
  BY <1>0, <1>5, <1>v, DictAfter

\* The masking steps are inside the call, and no other key changes.
LEMMA MaskEnters ==
  ASSUME RInv, NEW p \in Procs, Step(p), Masking(p)'
  PROVE  req'[p] = req[p] /\ pc[p] \in ChainLabels
<1>0. TypeOK
  BY DEF RInv, IInv
<1>1. pc'[p] \in {"delidx", "delhead", "delunlink"} \cup AppSteps
  BY DEF Masking
<1>2. \/ DelBlank(p) \/ DelIdx(p) \/ DelHead(p) \/ DelUnlink(p) \/ FreeMiss(p)
      \/ AppDat(p) \/ AppDatW(p) \/ AppIdx(p)
  BY <1>0, <1>1 DEF AppSteps, TypeOK, Goto, Step, Locking, Working, Call, RejectFlag, RejectLen, Return,
       FindAndLock, FindNext, FindHit, FindMiss, ReadDat, Unlock, DelFree,
       FreeLock, FreeNext, FreeHit, FreeTake, ReuseDat, ReuseIdx,
       AppIdxW, DatFull, IdxRefused, IdxFull, Link, LinkQuit, Overwrite, ScanLock, ScanSkip, ScanHit,
       ScanEnd, ScanAbort, ScanDat, ScanUnlock, Rewind, Restart, Die, Exit, Leave
<1>3. req' = req
  BY <1>2 DEF DelBlank, DelIdx, DelHead, DelUnlink, FreeMiss, AppDat, AppDatW, AppIdx
<1>4. pc[p] \in {"delblank", "delidx", "delhead", "delunlink", "freefind", "appdat", "appdatw", "appidx"}
  BY <1>2 DEF DelBlank, DelIdx, DelHead, DelUnlink, FreeMiss, AppDat, AppDatW, AppIdx
<1>q. QED
  BY <1>3, <1>4, ChainLabelFacts DEF DelSteps, FreeSteps, AppSteps

\* A call changes no key but its own.
LEMMA DictOther ==
  ASSUME RInv, NEW p \in Procs, Step(p), NEW k \in Keys, k # req[p].key
  PROVE  AbsDict'[k] = AbsDict[k]
<1>1. \A r \in Recs : Settles(p) /\ r = db[p].idxoff => ~HasKey(r, k) /\ ~HasKey(r, k)'
  BY Settled DEF HasKey
<1>2. ~(Masking(p)' /\ req'[p].key = k)
  BY MaskEnters
<1>q. QED
  BY <1>1, <1>2, DictSame

\* Steps that neither write a record nor start or end a mask change no key.
LEMMA DictQuiet ==
  ASSUME RInv, NEW p \in Procs, Step(p), ~Settles(p), Masking(p)' <=> Masking(p)
  PROVE  AbsDict' = AbsDict
<1>1. ASSUME NEW k \in Keys PROVE AbsDict'[k] = AbsDict[k]
  BY DictSame, MaskEnters
<1>q. QED
  BY <1>1, DictFun, DictFunAfter

\* A step that gives the key of its call the value v.
LEMMA DictSets ==
  ASSUME RInv, NEW p \in Procs, Step(p), NEW k \in Keys, k = req[p].key, NEW v, DictIs(k, v)'
  PROVE  AbsDict' = [AbsDict EXCEPT ![k] = v]
<1>1. AbsDict'[k] = v
  BY RefStep, DictAfter
<1>2. \A j \in Keys : j # k => AbsDict'[j] = AbsDict[j]
  BY DictOther
<1>q. QED
  BY <1>1, <1>2, DictFun, DictFunAfter

-----------------------------------------------------------------------------
(* What a process knows of the dictionary *)

\* Where nobody masks it, the value of a key is the one in its record.
LEMMA LivePresent ==
  ASSUME RInv, NEW k \in Keys, ~Masked(k), NEW r \in Recs, HasKey(r, k)
  PROVE  AbsDict[k] = dat[idx[r].datoff].val /\ AbsDict[k] \in Vals
<1>1. AbsDict[k] = dat[idx[r].datoff].val
  BY DictUnique DEF DictIs
<1>2. r \notin At({"delidx"})
  <2> SUFFICES ASSUME NEW q \in Procs, pc[q] = "delidx", db[q].idxoff = r PROVE FALSE
    BY DEF At
  <2>1. idx[r].key = req[q].key /\ Masking(q)
    BY DEF RInv, ListInv, ListsOK, ChainStep, Masking
  <2>q. QED
    BY <2>1 DEF Masked, HasKey
<1>3. dat[idx[r].datoff].val \in Vals
  BY <1>2 DEF RInv, RefInv, ValOK, HasKey
<1>q. QED
  BY <1>1, <1>3

\* The key of a call is masked by that call or by none.
LEMMA OwnUnmasked ==
  ASSUME RInv, NEW p \in Procs, pc[p] \in ChainLabels, ~Masking(p)
  PROVE  ~Masked(req[p].key)
BY MaskAlone DEF Masked

\* So it is after its step.
LEMMA OwnUnmaskedAfter ==
  ASSUME RInv, NEW p \in Procs, Step(p), pc[p] \in ChainLabels, ~(Masking(p)'), NEW k, k = req[p].key
  PROVE  ~(Masked(k)')
<1>0. TypeOK
  BY DEF RInv, IInv
<1>q. QED
  BY <1>0, MaskFrame, MaskAlone DEF Masked

\* A key that is not on its chain has no record at all.
LEMMA OwnAbsent ==
  ASSUME RInv, NEW p \in Procs, pc[p] \in ChainLabels, pc[p] # "link", Absent(p)
  PROVE  \A r \in Recs : ~HasKey(r, req[p].key)
<1> SUFFICES ASSUME NEW r \in Recs, HasKey(r, req[p].key) PROVE FALSE
  OBVIOUS
<1>0. TypeOK /\ ReqOK /\ LockOK /\ ListsOK /\ LastRec <= PTR_MAX
  BY DEF RInv, IInv, ListInv
<1>1. r <= PTR_MAX
  BY <1>0, SizeAssumption DEF Recs, FirstRec, LastRec
<1>2. r \in Bucket(Chain(p)) /\ idx[r].key = req[p].key
  BY <1>1 DEF Bucket, HasKey, Chain
<1>3. r \in At({"link"})
  BY <1>2 DEF Absent, Node
<1>4. PICK q \in Procs : pc[q] = "link" /\ db[q].idxoff = r
  BY <1>3 DEF At
<1>5. idx[r].key = req[q].key
  BY <1>0, <1>4 DEF ListsOK, ChainStep
<1>6. q # p /\ Chain(q) = Chain(p)
  BY <1>2, <1>4, <1>5 DEF Chain
<1>7. pc[q] \in ChainLabels /\ req[q].op # "fetch"
  BY <1>0, <1>4, LooseHolds DEF LinkSteps, StoreLabels
<1>q. QED
  BY <1>0, <1>6, <1>7, Exclusive

\* Such a key is not in the dictionary.
LEMMA OwnFree ==
  ASSUME RInv, NEW p \in Procs, pc[p] \in ChainLabels, pc[p] # "link", Absent(p), ~Masking(p)
  PROVE  AbsDict[req[p].key] = SPACE
<1>1. PICK k : k = req[p].key
  OBVIOUS
<1>2. k \in Keys
  BY <1>1, ChainLabelFacts DEF RInv, IInv, ReqOK
<1>3. DictIs(k, SPACE)
  BY <1>1, OwnAbsent, OwnUnmasked DEF DictIs
<1>q. QED
  BY <1>1, <1>2, <1>3, DictUnique

-----------------------------------------------------------------------------
(* The steps of the abstract store *)

\* The abstract state and answer of a process, by its step.
LEMMA Views ==
  \A p \in Procs :
    /\ pc[p] \in {"ready", "dead"} => AbsSt[p] = "idle" /\ AbsRes[p] = NoRet
    /\ pc[p] \in {"unlock", "scanunlock", "return"} => AbsSt[p] = "done" /\ AbsRes[p] = ret[p]
    /\ Masking(p) \/ pc[p] = "link" => AbsSt[p] = "done" /\ AbsRes[p] = Done(0)
    /\ ~Masking(p) /\ pc[p] \notin {"ready", "dead", "link", "unlock", "scanunlock", "return"} =>
         AbsSt[p] = "called" /\ AbsRes[p] = NoRet
<1> SUFFICES ASSUME NEW p \in Procs
             PROVE  /\ pc[p] \in {"ready", "dead"} => AbsSt[p] = "idle" /\ AbsRes[p] = NoRet
                    /\ pc[p] \in {"unlock", "scanunlock", "return"} =>
                         AbsSt[p] = "done" /\ AbsRes[p] = ret[p]
                    /\ Masking(p) \/ pc[p] = "link" => AbsSt[p] = "done" /\ AbsRes[p] = Done(0)
                    /\ ~Masking(p) /\ pc[p] \notin {"ready", "dead", "link", "unlock", "scanunlock", "return"}
                         => AbsSt[p] = "called" /\ AbsRes[p] = NoRet
  OBVIOUS
<1>1. Masking(p) => pc[p] \notin {"ready", "dead", "link", "unlock", "scanunlock", "return"}
  BY DEF Masking, AppSteps
<1>q. QED
  BY <1>1 DEF AbsSt, AbsRes, Decided

\* The same after a step.
LEMMA ViewsAfter ==
  \A p \in Procs :
    /\ pc'[p] \in {"ready", "dead"} => AbsSt'[p] = "idle" /\ AbsRes'[p] = NoRet
    /\ pc'[p] \in {"unlock", "scanunlock", "return"} => AbsSt'[p] = "done" /\ AbsRes'[p] = ret'[p]
    /\ Masking(p)' \/ pc'[p] = "link" => AbsSt'[p] = "done" /\ AbsRes'[p] = Done(0)
    /\ ~(Masking(p)') /\ pc'[p] \notin {"ready", "dead", "link", "unlock", "scanunlock", "return"} =>
         AbsSt'[p] = "called" /\ AbsRes'[p] = NoRet
<1>1. (\A p \in Procs :
    /\ pc[p] \in {"ready", "dead"} => AbsSt[p] = "idle" /\ AbsRes[p] = NoRet
    /\ pc[p] \in {"unlock", "scanunlock", "return"} => AbsSt[p] = "done" /\ AbsRes[p] = ret[p]
    /\ Masking(p) \/ pc[p] = "link" => AbsSt[p] = "done" /\ AbsRes[p] = Done(0)
    /\ ~Masking(p) /\ pc[p] \notin {"ready", "dead", "link", "unlock", "scanunlock", "return"} =>
         AbsSt[p] = "called" /\ AbsRes[p] = NoRet)'
  BY Views, PTL
<1>2. NoRet' = NoRet /\ Done(0)' = Done(0)
  BY DEF NoRet, Done, Ret
<1>q. QED
  BY <1>1, <1>2

\* A step moves the abstract state of its own process only.
LEMMA ViewMoves ==
  ASSUME TypeOK, NEW p \in Procs, Step(p)
  PROVE  /\ AbsSt' = [AbsSt EXCEPT ![p] = AbsSt'[p]]
         /\ AbsRes' = [AbsRes EXCEPT ![p] = AbsRes'[p]]
<1>1. \A q \in Procs : q # p => AbsSt'[q] = AbsSt[q] /\ AbsRes'[q] = AbsRes[q]
  BY MaskFrame
<1>2. AbsSt = [q \in Procs |-> AbsSt[q]] /\ AbsRes = [q \in Procs |-> AbsRes[q]]
  BY DEF AbsSt, AbsRes
<1>3. (AbsSt = [q \in Procs |-> AbsSt[q]] /\ AbsRes = [q \in Procs |-> AbsRes[q]])'
  BY DEF AbsSt, AbsRes
<1>q. QED
  BY <1>1, <1>2, <1>3

\* A step that changes nothing the store shows is a stutter.
LEMMA Stutters ==
  ASSUME RInv, NEW p \in Procs, Step(p), req' = req, AbsDict' = AbsDict,
         AbsSt'[p] = AbsSt[p], AbsRes'[p] = AbsRes[p]
  PROVE  UNCHANGED KV!kvars
<1>1. AbsSt = [q \in Procs |-> AbsSt[q]] /\ AbsRes = [q \in Procs |-> AbsRes[q]]
  BY DEF AbsSt, AbsRes
<1>2. [AbsSt EXCEPT ![p] = AbsSt[p]] = AbsSt /\ [AbsRes EXCEPT ![p] = AbsRes[p]] = AbsRes
  BY <1>1
<1>3. AbsSt' = AbsSt /\ AbsRes' = AbsRes
  BY <1>2, ViewMoves DEF RInv, IInv
<1>q. QED
  BY <1>3 DEF KV!kvars

\* A step of a call that has had no effect yet and still has none.
LEMMA CalledStays ==
  ASSUME RInv, NEW p \in Procs, Step(p), req' = req, ~Settles(p), ~Masking(p), ~(Masking(p)'),
         pc[p] \notin {"ready", "dead", "link", "unlock", "scanunlock", "return"},
         pc'[p] \notin {"ready", "dead", "link", "unlock", "scanunlock", "return"}
  PROVE  UNCHANGED KV!kvars
<1>1. AbsDict' = AbsDict
  BY DictQuiet
<1>q. QED
  BY <1>1, Views, ViewsAfter, Stutters

\* A step of a call after its effect that the files do not show yet.
LEMMA MaskedStays ==
  ASSUME RInv, NEW p \in Procs, Step(p), req' = req, Masking(p), Masking(p)'
  PROVE  UNCHANGED KV!kvars
<1>1. PICK k \in Keys : k = req[p].key
  BY MaskHolds
<1>2. PICK v : v = AbsDict[k]
  OBVIOUS
<1>3. v = MaskVal(p)
  BY <1>1, <1>2, DictUnique DEF DictIs
<1>4. DictIs(k, v)'
  BY <1>1, <1>3 DEF DictIs, MaskVal
<1>5. AbsDict' = [AbsDict EXCEPT ![k] = v]
  BY <1>1, <1>4, DictSets
<1>6. AbsDict' = AbsDict
  BY <1>2, <1>5, DictFun
<1>q. QED
  BY <1>6, Views, ViewsAfter, Stutters

\* A step from called to done is an effect of the store.
LEMMA Effects ==
  ASSUME RInv, NEW p \in Procs, Step(p), req' = req, NEW d, NEW a, AbsDict' = d,
         AbsSt[p] = "called", AbsSt'[p] = "done", AbsRes'[p] = a
  PROVE  KV!Effect(p, d, a)
<1>1. TypeOK
  BY DEF RInv, IInv
<1>2. AbsSt' = [AbsSt EXCEPT ![p] = "done"] /\ AbsRes' = [AbsRes EXCEPT ![p] = a]
  BY <1>1, ViewMoves
<1>q. QED
  BY <1>2 DEF KV!Effect

\* A process that is done with its call, or dies, is idle.
LEMMA CallEnds ==
  ASSUME RInv, NEW p \in Procs, Step(p), pc'[p] \in {"ready", "dead"}, req' = [req EXCEPT ![p] = NoReq]
  PROVE  /\ AbsSt' = [AbsSt EXCEPT ![p] = "idle"]
         /\ AbsRes' = [AbsRes EXCEPT ![p] = KV!NoRet]
         /\ req' = [req EXCEPT ![p] = KV!NoReq]
<1>1. TypeOK /\ AbsSt'[p] = "idle" /\ AbsRes'[p] = NoRet
  BY ViewsAfter DEF RInv, IInv
<1>2. KV!NoRet = NoRet /\ KV!NoReq = NoReq
  BY DEF KV!NoRet, KV!Ret, KV!NoReq, NoRet, Done, Ret, NoReq
<1>q. QED
  BY <1>1, <1>2, ViewMoves

-----------------------------------------------------------------------------
(* Every step of the library is a step of the store, or none *)

Refines == KV!Next \/ UNCHANGED KV!kvars

\* Searching and locking are stutters.
LEMMA SearchRefines ==
  ASSUME RInv, NEW p \in Procs,
         \/ FindAndLock(p) \/ FindNext(p) \/ DelFree(p) \/ FreeLock(p) \/ FreeNext(p) \/ FreeHit(p)
         \/ FreeMiss(p) \/ FreeTake(p) \/ ReuseDat(p) \/ ScanLock(p) \/ ScanSkip(p) \/ ScanHit(p)
  PROVE  Refines
<1>0. TypeOK /\ CtlOK(p) /\ Step(p)
  BY DEF RInv, IInv, RefInv, Step, Locking, Working
<1>1. pc[p] \in {"lock", "find", "delfree", "freelock", "freefind", "freetake", "reusedat",
                "scanlock", "scan"}
  BY DEF FindAndLock, FindNext, DelFree, FreeLock, FreeNext, FreeHit, FreeMiss, FreeTake,
     ReuseDat, ScanLock, ScanSkip, ScanHit
<1>2. ~Masking(p) /\ ~Settles(p)
  BY <1>1 DEF Masking, AppSteps, Settles, DelBlank, DelIdx, ReuseIdx, AppIdxW, Overwrite
<1>3. req' = req
  BY DEF FindAndLock, FindNext, DelFree, FreeLock, FreeNext, FreeHit, FreeMiss, FreeTake,
     ReuseDat, ScanLock, ScanSkip, ScanHit
<1>4. CASE ~FreeMiss(p)
  <2>1. pc'[p] \in {"find", "delblank", "freefind", "freetake", "reusedat", "reuseidx", "scan", "scandat"}
    BY <1>0, <1>4 DEF TypeOK, Goto, FindAndLock, FindNext, DelFree, FreeLock, FreeNext, FreeHit,
       FreeTake, ReuseDat, ScanLock, ScanSkip, ScanHit
  <2>2. ~(Masking(p)')
    BY <2>1 DEF Masking, AppSteps
  <2>q. QED
    BY <2>1, <2>2, <1>0, <1>1, <1>2, <1>3, CalledStays DEF Refines
<1>5. CASE FreeMiss(p)
  <2>1. ~db[p].repl
    BY <1>0, <1>5 DEF FreeMiss, CtlOK, AppSteps
  <2>2. PICK w \in DB : w = db[p]
    BY <1>0 DEF TypeOK
  <2>3. pc'[p] = "appdat" /\ db'[p].repl = db[p].repl
    BY <1>0, <1>5, <2>2 DEF FreeMiss, TypeOK, Goto, DB
  <2>4. ~(Masking(p)')
    BY <2>1, <2>3 DEF Masking
  <2>q. QED
    BY <2>3, <2>4, <1>0, <1>1, <1>2, <1>3, CalledStays DEF Refines
<1>q. QED
  BY <1>4, <1>5

\* Appending the data is a stutter.
LEMMA AppendRefines ==
  ASSUME RInv, NEW p \in Procs, AppDat(p) \/ AppDatW(p) \/ AppIdx(p)
  PROVE  Refines
<1>0. TypeOK /\ Step(p)
  BY DEF RInv, IInv, Step, Locking, Working
<1>w. PICK w \in DB : w = db[p]
  BY <1>0 DEF TypeOK
<1>1. pc[p] \in {"appdat", "appdatw", "appidx"} /\ pc'[p] \in {"appdatw", "appidx", "appidxw"} /\ req' = req
  BY <1>0 DEF TypeOK, Goto, AppDat, AppDatW, AppIdx
<1>2. db'[p].repl = db[p].repl
  BY <1>0, <1>w DEF TypeOK, AppDat, AppDatW, AppIdx, DB
<1>3. Masking(p)' <=> Masking(p)
  BY <1>1, <1>2 DEF Masking, AppSteps
<1>4. CASE Masking(p)
  BY <1>0, <1>1, <1>3, <1>4, MaskedStays DEF Refines
<1>5. CASE ~Masking(p)
  <2>1. ~Settles(p)
    BY <1>1 DEF Settles, DelBlank, DelIdx, ReuseIdx, AppIdxW, Overwrite
  <2>q. QED
    BY <2>1, <1>0, <1>1, <1>3, <1>5, CalledStays DEF Refines
<1>q. QED
  BY <1>4, <1>5

\* Once the data are blank, the rest of a delete is a stutter.
LEMMA DeleteRefines ==
  ASSUME RInv, NEW p \in Procs, DelIdx(p) \/ DelHead(p) \/ DelUnlink(p)
  PROVE  Refines
<1>0. TypeOK /\ ReqOK /\ ListsOK /\ Step(p)
  BY DEF RInv, IInv, ListInv, Step, Locking, Working
<1>1. pc[p] \in {"delidx", "delhead", "delunlink"} /\ req' = req
  BY DEF DelIdx, DelHead, DelUnlink
<1>2. Masking(p)
  BY <1>1 DEF Masking
<1>3. CASE DelIdx(p) \/ DelHead(p)
  <2>1. pc'[p] \in {"delhead", "delunlink"}
    BY <1>0, <1>3 DEF TypeOK, Goto, DelIdx, DelHead
  <2>2. Masking(p)'
    BY <2>1 DEF Masking
  <2>q. QED
    BY <2>2, <1>0, <1>1, <1>2, MaskedStays DEF Refines
<1>4. CASE DelUnlink(p) /\ req[p].op # "delete"
  <2>1. pc'[p] = "appdat"
    BY <1>0, <1>4 DEF TypeOK, Goto, DelUnlink
  <2>2. PICK n : db' = [db EXCEPT ![p] = [NoDB EXCEPT !.next = n, !.repl = TRUE]]
    BY <1>4 DEF DelUnlink
  <2>3. [NoDB EXCEPT !.next = n, !.repl = TRUE].repl
    BY Zenon DEF NoDB
  <2>4. db'[p].repl
    BY <2>2, <2>3, <1>0 DEF TypeOK
  <2>5. Masking(p)'
    BY <2>1, <2>4 DEF Masking, AppSteps
  <2>q. QED
    BY <2>5, <1>0, <1>1, <1>2, MaskedStays DEF Refines
<1>5. CASE DelUnlink(p) /\ req[p].op = "delete"
  <2>1. pc[p] = "delunlink" /\ pc'[p] = "unlock" /\ ret'[p] = Done(0)
    BY <1>0, <1>5 DEF TypeOK, Goto, Answer, DelUnlink
  <2>2. ~Settles(p) /\ ~(Masking(p)')
    BY <2>1 DEF Masking, AppSteps, Settles, DelBlank, DelIdx, ReuseIdx, AppIdxW, Overwrite
  <2>3. PICK k \in Keys : k = req[p].key /\ pc[p] \in ChainLabels
    BY <1>2, MaskHolds
  <2>4. \A r \in Recs : ~HasKey(r, k)
    <3>1. Absent(p)
      BY <2>1, <1>0 DEF ListsOK, ChainStep
    <3>q. QED
      BY <3>1, <2>1, <2>3, OwnAbsent
  <2>5. \A r \in Recs : ~(HasKey(r, k)')
    BY <2>2, <2>4, <1>0, RecsKept DEF HasKey
  <2>6. DictIs(k, SPACE)'
    BY <2>2, <2>3, <2>5, <1>0, OwnUnmaskedAfter DEF DictIs
  <2>7. AbsDict[k] = SPACE
    BY <2>3, <1>2, <1>5, DictUnique DEF DictIs, MaskVal
  <2>8. AbsDict' = AbsDict
    <3>1. AbsDict' = [AbsDict EXCEPT ![k] = SPACE]
      BY <2>3, <2>6, <1>0, DictSets
    <3>q. QED
      BY <3>1, <2>7, DictFun
  <2>q. QED
    BY <2>1, <2>8, <1>0, <1>1, <1>2, Views, ViewsAfter, Stutters DEF Refines
<1>q. QED
  BY <1>3, <1>4, <1>5

\* What counts as a step of the store.
LEMMA EffectIs ==
  ASSUME RInv, NEW p \in Procs,
         KV!DoFetch(p) \/ KV!DoDelete(p) \/ KV!DoStore(p) \/ KV!DoNextrec(p) \/ KV!Call(p)
           \/ KV!Return(p) \/ KV!Abort(p)
  PROVE  Refines
BY DEF Refines, KV!Next

\* Answers are the same on both sides.
LEMMA AnswerIs == /\ \A rc : KV!Done(rc) = Done(rc)
                  /\ \A rc, k, v : KV!Ret(rc, k, v) = Ret(rc, k, v)
BY DEF KV!Done, KV!Ret, Done, Ret

\* The effect of a store or delete that finds the key.
LEMMA BlankRefines ==
  ASSUME RInv, NEW p \in Procs, DelBlank(p)
  PROVE  Refines
<1>0. TypeOK /\ ReqOK /\ ListsOK /\ CtlOK(p) /\ Step(p)
  BY DEF RInv, IInv, ListInv, RefInv, Step, Locking, Working
<1>1. pc[p] = "delblank" /\ pc'[p] = "delidx" /\ req' = req
  BY <1>0 DEF DelBlank, TypeOK, Goto
<1>2. ~Masking(p) /\ Masking(p)'
  BY <1>1 DEF Masking, AppSteps
<1>3. pc[p] \in ChainLabels
  BY <1>1, ChainLabelFacts DEF DelSteps
<1>4. PICK k \in Keys : k = req[p].key
  BY <1>0, <1>3, ChainLabelFacts DEF ReqOK
<1>5. PICK r \in Recs : HasKey(r, k)
  <2>1. db[p].idxoff \in Node(Chain(p)) /\ idx[db[p].idxoff].key = req[p].key
    BY <1>0, <1>1 DEF ListsOK, ChainStep
  <2>q. QED
    BY <2>1, <1>4 DEF HasKey, Node, Bucket
<1>6. AbsDict[k] # SPACE
  BY <1>2, <1>3, <1>4, <1>5, OwnUnmasked, LivePresent, SpaceAssumption
<1>7. PICK v : v = MaskVal(p)
  OBVIOUS
<1>8. AbsDict' = [AbsDict EXCEPT ![k] = v]
  <2>1. DictIs(k, v)'
    BY <1>1, <1>2, <1>4, <1>7 DEF DictIs, MaskVal
  <2>q. QED
    BY <2>1, <1>0, <1>4, DictSets
<1>9. KV!Effect(p, [AbsDict EXCEPT ![k] = v], Done(0))
  BY <1>0, <1>1, <1>2, <1>8, Effects, Views, ViewsAfter
<1>10. CASE req[p].op = "delete"
  BY <1>4, <1>6, <1>7, <1>9, <1>10, AnswerIs, EffectIs DEF KV!DoDelete, KV!Present, MaskVal
<1>11. CASE req[p].op # "delete"
  <2>1. req[p].op = "store" /\ v = req[p].val
    BY <1>0, <1>1, <1>7, <1>11 DEF ReqOK, DelSteps, MaskVal
  <2>2. req[p].flag # "DB_INSERT" /\ req[p].flag \in Flags
    BY <2>1, <1>0, <1>1, <1>3 DEF CtlOK, DelSteps
  <2>q. QED
    BY <2>1, <2>2, <1>4, <1>6, <1>9, AnswerIs, EffectIs DEF KV!DoStore, KV!Present, KV!Flags, Flags
<1>q. QED
  BY <1>10, <1>11

\* A value replaced in place is a store.
LEMMA OverwriteRefines ==
  ASSUME RInv, NEW p \in Procs, Overwrite(p)
  PROVE  Refines
<1>0. TypeOK /\ ReqOK /\ HeldOK /\ FreshOK /\ ListsOK /\ CtlOK(p) /\ Step(p)
  BY DEF RInv, IInv, ListInv, RefInv, Step, Locking, Working
<1>1. /\ pc[p] = "overwrite" /\ pc'[p] = "unlock" /\ req' = req /\ ret'[p] = Done(0)
      /\ idx' = idx /\ idxend' = idxend
  BY <1>0 DEF Overwrite, TypeOK, Goto, Answer
<1>2. ~Masking(p) /\ ~(Masking(p)')
  BY <1>1 DEF Masking, AppSteps
<1>3. pc[p] \in ChainLabels
  BY <1>1, ChainLabelFacts
<1>4. PICK k \in Keys : k = req[p].key
  BY <1>0, <1>3, ChainLabelFacts DEF ReqOK
<1>5. PICK r \in Recs : r = db[p].idxoff /\ HasKey(r, k)
  <2>1. db[p].idxoff \in Node(Chain(p)) /\ idx[db[p].idxoff].key = req[p].key
    BY <1>0, <1>1 DEF ListsOK, ChainStep
  <2>q. QED
    BY <2>1, <1>4 DEF HasKey, Node, Bucket
<1>6. AbsDict[k] # SPACE
  BY <1>2, <1>3, <1>4, <1>5, OwnUnmasked, LivePresent, SpaceAssumption
<1>7. PICK v : v = req[p].val
  OBVIOUS
<1>8. HasKey(r, k)' /\ dat'[idx'[r].datoff].val = v
  <2>1. HasKey(r, k)'
    BY <1>1, <1>5 DEF HasKey, Live, Written
  <2>2. Written(r) /\ idx[r].datoff = db[p].datoff
    BY <1>0, <1>1, <1>5 DEF HeldOK, Held, HoldLabels
  <2>3. db[p].datoff \in 0..(MaxDats - 1)
    BY <2>2, <1>0, PlaceFacts
  <2>4. dat'[db[p].datoff].val = v
    BY <2>3, <1>0, <1>7 DEF Overwrite, WriteDat, TypeOK
  <2>q. QED
    BY <2>1, <2>2, <2>4, <1>1
<1>9. AbsDict' = [AbsDict EXCEPT ![k] = v]
  <2>1. DictIs(k, v)'
    BY <1>0, <1>2, <1>3, <1>4, <1>8, OwnUnmaskedAfter DEF DictIs
  <2>q. QED
    BY <2>1, <1>0, <1>4, DictSets
<1>10. KV!Effect(p, [AbsDict EXCEPT ![k] = v], Done(0))
  BY <1>0, <1>1, <1>2, <1>9, Effects, Views, ViewsAfter
<1>11. req[p].op = "store"
  BY <1>0, <1>1 DEF ReqOK, StoreLabels
<1>12. req[p].flag # "DB_INSERT" /\ req[p].flag \in Flags
  BY <1>0, <1>1, <1>3, <1>11 DEF CtlOK
<1>q. QED
  BY <1>4, <1>6, <1>7, <1>10, <1>11, <1>12, AnswerIs, EffectIs
  DEF KV!DoStore, KV!Present, KV!Flags, Flags

\* The new index record shows the value.
LEMMA RecordRefines ==
  ASSUME RInv, NEW p \in Procs, ReuseIdx(p) \/ AppIdxW(p)
  PROVE  Refines
<1>0. TypeOK /\ ReqOK /\ HeldOK /\ TailOK /\ ListsOK /\ ValOK /\ CtlOK(p) /\ Step(p)
  BY DEF RInv, IInv, ListInv, RefInv, Step, Locking, Working
<1>1. pc[p] \in {"reuseidx", "appidxw"} /\ pc'[p] = "link" /\ req' = req /\ dat' = dat
  BY <1>0 DEF ReuseIdx, AppIdxW, TypeOK, Goto
<1>2. ~(Masking(p)')
  BY <1>1 DEF Masking, AppSteps
<1>3. pc[p] \in ChainLabels /\ pc[p] \in LinkSteps /\ pc[p] \in StoreLabels
  BY <1>1, ChainLabelFacts DEF AppSteps, LinkSteps, StoreLabels
<1>4. PICK k \in Keys : k = req[p].key
  BY <1>0, <1>3, ChainLabelFacts DEF ReqOK
<1>5. Settles(p)
  BY DEF Settles
<1>6. PICK r \in Recs : r = db[p].idxoff
  BY <1>5, Settled
<1>7. PICK v : v = req[p].val
  OBVIOUS
<1>8. HasKey(r, k)' /\ dat'[idx'[r].datoff].val = v
  <2>1. idx'[r].key = k /\ idx'[r].datoff = db[p].datoff
    BY <1>0, <1>4, <1>6 DEF ReuseIdx, AppIdxW, WriteIdx, TypeOK
  <2>2. dat[db[p].datoff].val = v
    BY <1>0, <1>1, <1>7 DEF ValOK
  <2>k. idx'[r].klen # 0
    <3>1. KeyLen[req[p].key] \in Nat \ {0}
      BY <1>0, <1>3, KeyPos, KeyLabelFacts
    <3>2. \E n : WriteIdx(p, r, req[p].key, KeyLen[req[p].key], n)
      BY <1>6 DEF ReuseIdx, AppIdxW
    <3>q. QED
      BY <3>1, <3>2, <1>0, <1>6, WriteIdxAt
  <2>3. Written(r)'
    <3>1. CASE ReuseIdx(p)
      BY <3>1, <2>k, <1>0, <1>6 DEF ReuseIdx, HeldOK, Held, HoldLabels, Written
    <3>2. CASE AppIdxW(p)
      <4>1. r = idxend /\ idxend \in Nat
        BY <3>2, <1>0, <1>6, SetFacts DEF AppIdxW, TailOK, TypeOK
      <4>2. idxend' = idxend + 1
        BY <3>2, <4>1, <1>6 DEF AppIdxW
      <4>q. QED
        BY <4>1, <4>2, <2>k DEF Written
    <3>q. QED
      BY <3>1, <3>2
  <2>q. QED
    BY <2>1, <2>2, <2>3, <1>1, SpaceAssumption DEF HasKey, Live
<1>9. AbsDict' = [AbsDict EXCEPT ![k] = v]
  <2>1. DictIs(k, v)'
    BY <1>0, <1>2, <1>3, <1>4, <1>8, OwnUnmaskedAfter DEF DictIs
  <2>q. QED
    BY <2>1, <1>0, <1>4, DictSets
<1>10. req[p].op = "store"
  BY <1>0, <1>3 DEF ReqOK
<1>11. CASE Masking(p)
  <2>1. AbsDict[k] = v
    BY <1>4, <1>7, <1>10, <1>11, DictUnique DEF DictIs, MaskVal
  <2>2. AbsDict' = AbsDict
    BY <2>1, <1>9, DictFun
  <2>q. QED
    BY <2>2, <1>0, <1>1, <1>11, Views, ViewsAfter, Stutters DEF Refines
<1>12. CASE ~Masking(p)
  <2>1. KV!Effect(p, [AbsDict EXCEPT ![k] = v], Done(0))
    BY <1>0, <1>1, <1>9, <1>12, Effects, Views, ViewsAfter
  <2>2. AbsDict[k] = SPACE
    <3>1. Absent(p)
      BY <1>0, <1>3 DEF ListsOK, ChainStep
    <3>q. QED
      BY <3>1, <1>1, <1>3, <1>4, <1>12, OwnFree
  <2>3. ~db[p].repl
    <3>1. pc[p] = "appidxw" => ~db[p].repl
      BY <1>12 DEF Masking, AppSteps
    <3>2. pc[p] = "reuseidx" => ~db[p].repl
      BY <1>0 DEF CtlOK, AppSteps
    <3>q. QED
      BY <3>1, <3>2, <1>1
  <2>4. req[p].flag # "DB_REPLACE" /\ req[p].flag \in Flags
    BY <2>3, <1>0, <1>3, <1>10 DEF CtlOK
  <2>q. QED
    BY <2>1, <2>2, <2>4, <1>4, <1>7, <1>10, AnswerIs, EffectIs
    DEF KV!DoStore, KV!Present, KV!Flags, Flags
<1>q. QED
  BY <1>11, <1>12

\* Linking the record is a stutter: the scan has seen it already.
LEMMA LinkRefines ==
  ASSUME RInv, NEW p \in Procs, Link(p) \/ LinkQuit(p)
  PROVE  Refines
<1>0. TypeOK /\ HeldOK /\ Step(p) /\ LastRec <= PTR_MAX
  BY DEF RInv, IInv, Step, Locking, Working
<1>1. pc[p] = "link"
  BY DEF Link, LinkQuit
<1>2. ~LinkQuit(p)
  <2>1. db[p].idxoff \in Recs
    BY <1>0, <1>1 DEF HeldOK, Held, HoldLabels, Written
  <2>q. QED
    BY <2>1, <1>0, SizeAssumption DEF LinkQuit, TooBig, Recs, FirstRec, LastRec
<1>3. pc'[p] = "unlock" /\ ret'[p] = Done(0) /\ req' = req
  BY <1>0, <1>2 DEF Link, TypeOK, Goto, Answer
<1>4. ~Masking(p) /\ ~(Masking(p)') /\ ~Settles(p)
  BY <1>1, <1>3 DEF Masking, AppSteps, Settles, DelBlank, DelIdx, ReuseIdx, AppIdxW, Overwrite
<1>5. AbsDict' = AbsDict
  BY <1>0, <1>4, DictQuiet
<1>q. QED
  BY <1>0, <1>1, <1>3, <1>5, Views, ViewsAfter, Stutters DEF Refines

\* A call that changes nothing answers from the dictionary.
LEMMA AnswerRefines ==
  ASSUME RInv, NEW p \in Procs, Step(p), req' = req, ~Settles(p), ~Masking(p),
         pc[p] \notin {"ready", "dead", "link", "unlock", "scanunlock", "return"},
         pc'[p] \in {"unlock", "scanunlock", "return"}
  PROVE  KV!Effect(p, AbsDict, ret'[p])
<1>1. ~(Masking(p)')
  BY DEF Masking, AppSteps
<1>2. AbsDict' = AbsDict
  BY <1>1, DictQuiet
<1>q. QED
  BY <1>2, Effects, Views, ViewsAfter

\* A store refused because the key is there, or a stutter.
LEMMA HitRefines ==
  ASSUME RInv, NEW p \in Procs, FindHit(p)
  PROVE  Refines
<1>0. TypeOK /\ ReqOK /\ CtlOK(p) /\ Step(p)
  BY DEF RInv, IInv, RefInv, Step, Locking, Working
<1>1. pc[p] = "find" /\ req' = req
  BY DEF FindHit
<1>2. ~Masking(p) /\ ~Settles(p)
  BY <1>1 DEF Masking, AppSteps, Settles, DelBlank, DelIdx, ReuseIdx, AppIdxW, Overwrite
<1>3. CASE req[p].op = "store" /\ req[p].flag = "DB_INSERT"
  <2>1. pc'[p] = "unlock" /\ ret'[p] = Done(1)
    BY <1>0, <1>3 DEF FindHit, TypeOK, Goto, Answer
  <2>2. KV!Effect(p, AbsDict, Done(1))
    BY <2>1, <1>0, <1>1, <1>2, AnswerRefines
  <2>3. PICK k \in Keys : k = req[p].key
    BY <1>0, <1>1, KeyLabelFacts DEF ReqOK
  <2>4. \E r \in Recs : HasKey(r, k)
    BY <2>3, SpaceAssumption DEF FindHit, HasKey, Live, Written
  <2>5. AbsDict[k] # SPACE
    BY <2>3, <2>4, <1>1, <1>2, OwnUnmasked, LivePresent, ChainLabelFacts, SpaceAssumption
  <2>q. QED
    BY <2>2, <2>3, <2>5, <1>3, AnswerIs, EffectIs DEF KV!DoStore, KV!Present, KV!Flags
<1>4. CASE ~(req[p].op = "store" /\ req[p].flag = "DB_INSERT")
  <2>1. pc'[p] \in {"readdat", "overwrite", "delfree"}
    BY <1>0, <1>4 DEF FindHit, TypeOK, Goto
  <2>2. ~(Masking(p)')
    BY <2>1 DEF Masking, AppSteps
  <2>q. QED
    BY <2>1, <2>2, <1>0, <1>1, <1>2, CalledStays DEF Refines
<1>q. QED
  BY <1>3, <1>4

\* A call that fails because the key is not there, or a stutter.
LEMMA MissRefines ==
  ASSUME RInv, NEW p \in Procs, FindMiss(p)
  PROVE  Refines
<1>0. TypeOK /\ ReqOK /\ ListsOK /\ CtlOK(p) /\ Step(p)
  BY DEF RInv, IInv, ListInv, RefInv, Step, Locking, Working
<1>1. pc[p] = "find" /\ req' = req /\ db[p].idxoff = 0 /\ pc[p] \in ChainLabels
  BY ChainLabelFacts DEF FindMiss
<1>2. ~Masking(p) /\ ~Settles(p)
  BY <1>1 DEF Masking, AppSteps, Settles, DelBlank, DelIdx, ReuseIdx, AppIdxW, Overwrite
<1>3. CASE req[p].op = "store" /\ req[p].flag # "DB_REPLACE"
  <2>1. pc'[p] = "freelock"
    BY <1>0, <1>3 DEF FindMiss, TypeOK, Goto
  <2>2. ~(Masking(p)')
    BY <2>1 DEF Masking, AppSteps
  <2>q. QED
    BY <2>1, <2>2, <1>0, <1>1, <1>2, CalledStays DEF Refines
<1>4. CASE ~(req[p].op = "store" /\ req[p].flag # "DB_REPLACE")
  <2>1. pc'[p] = "unlock" /\ ret'[p] = Done(-1)
    BY <1>0, <1>4 DEF FindMiss, TypeOK, Goto, Answer
  <2>2. KV!Effect(p, AbsDict, Done(-1))
    BY <2>1, <1>0, <1>1, <1>2, AnswerRefines
  <2>3. Absent(p)
    <3>1. Ahead(p) /\ ptr[db[p].ptroff] = 0
      BY <1>0, <1>1 DEF ListsOK, ChainStep
    <3>2. Closed(ptr, db[p].ptroff, {0}) /\ {0} \in SUBSET Ptrs
      BY <3>1, SetFacts DEF Closed
    <3>3. Node(Chain(p)) \subseteq Recs /\ 0 \notin Recs
      BY OwnFacts, SizeAssumption DEF Recs, FirstRec
    <3>q. QED
      BY <3>1, <3>2, <3>3 DEF Ahead, Absent
  <2>4. AbsDict[req[p].key] = SPACE
    BY <2>3, <1>1, <1>2, OwnFree
  <2>5. CASE req[p].op = "fetch"
    BY <2>2, <2>4, <2>5, AnswerIs, EffectIs DEF KV!DoFetch, KV!Present
  <2>6. CASE req[p].op = "delete"
    BY <2>2, <2>4, <2>6, AnswerIs, EffectIs DEF KV!DoDelete, KV!Present
  <2>7. CASE req[p].op = "store" /\ req[p].flag = "DB_REPLACE"
    BY <2>2, <2>4, <2>7, AnswerIs, EffectIs DEF KV!DoStore, KV!Present, KV!Flags
  <2>8. req[p].op \in {"fetch", "delete", "store"}
    BY <1>0, <1>1, KeyLabelFacts DEF ReqOK
  <2>q. QED
    BY <2>5, <2>6, <2>7, <2>8, <1>4
<1>q. QED
  BY <1>3, <1>4

\* Reading the data record is the fetch.
LEMMA FetchRefines ==
  ASSUME RInv, NEW p \in Procs, ReadDat(p)
  PROVE  Refines
<1>0. TypeOK /\ ReqOK /\ HeldOK /\ ListsOK /\ CtlOK(p) /\ Step(p)
  BY DEF RInv, IInv, ListInv, RefInv, Step, Locking, Working
<1>1. /\ pc[p] = "readdat" /\ pc'[p] = "unlock" /\ req' = req
      /\ ret'[p] = Ret(0, SPACE, dat[db[p].datoff].val)
  BY <1>0 DEF ReadDat, TypeOK, Goto, Answer
<1>2. ~Masking(p) /\ ~Settles(p) /\ pc[p] \in ChainLabels
  BY <1>1, ChainLabelFacts DEF Masking, AppSteps, Settles, DelBlank, DelIdx, ReuseIdx, AppIdxW, Overwrite
<1>3. PICK k \in Keys : k = req[p].key
  BY <1>0, <1>2, ChainLabelFacts DEF ReqOK
<1>4. PICK r \in Recs : HasKey(r, k) /\ idx[r].datoff = db[p].datoff
  <2>1. db[p].idxoff \in Node(Chain(p)) /\ idx[db[p].idxoff].key = req[p].key
    BY <1>0, <1>1 DEF ListsOK, ChainStep
  <2>2. idx[db[p].idxoff].datoff = db[p].datoff
    BY <1>0, <1>1 DEF HeldOK, Held, HoldLabels
  <2>q. QED
    BY <2>1, <2>2, <1>3 DEF HasKey, Node, Bucket
<1>5. AbsDict[k] = dat[db[p].datoff].val /\ AbsDict[k] # SPACE
  BY <1>2, <1>3, <1>4, OwnUnmasked, LivePresent, SpaceAssumption
<1>6. KV!Effect(p, AbsDict, Ret(0, SPACE, AbsDict[k]))
  BY <1>0, <1>1, <1>2, <1>5, AnswerRefines
<1>7. req[p].op = "fetch"
  BY <1>0, <1>1 DEF CtlOK
<1>q. QED
  BY <1>3, <1>5, <1>6, <1>7, AnswerIs, EffectIs DEF KV!DoFetch, KV!Present

\* The scan reads a record no delete or replace has touched yet.
LEMMA ScanRefines ==
  ASSUME RInv, NEW p \in Procs, ScanDat(p) \/ ScanEnd(p)
  PROVE  Refines
<1>0. TypeOK /\ ReqOK /\ HeldOK /\ LockOK /\ ListsOK /\ CtlOK(p) /\ ScanOK(p) /\ Step(p)
  BY DEF RInv, IInv, ListInv, RefInv, Step, Locking, Working
<1>1. pc[p] \in {"scan", "scandat"} /\ pc'[p] = "scanunlock" /\ req' = req
  BY <1>0 DEF ScanDat, ScanEnd, TypeOK, Goto
<1>2. ~Masking(p) /\ ~Settles(p)
  BY <1>1 DEF Masking, AppSteps, Settles, DelBlank, DelIdx, ReuseIdx, AppIdxW, Overwrite
<1>3. KV!Effect(p, AbsDict, ret'[p])
  BY <1>0, <1>1, <1>2, AnswerRefines
<1>4. req[p].op = "nextrec"
  BY <1>0, <1>1 DEF CtlOK
<1>5. CASE ScanEnd(p)
  <2>1. ret'[p] = Done(-1)
    BY <1>0, <1>5 DEF ScanEnd, TypeOK, Answer
  <2>q. QED
    BY <2>1, <1>3, <1>4, AnswerIs, EffectIs DEF KV!DoNextrec
<1>6. CASE ScanDat(p)
  <2>1. pc[p] = "scandat" /\ ret'[p] = Ret(0, ret[p].key, dat[db[p].datoff].val)
    BY <1>0, <1>6 DEF ScanDat, TypeOK, Answer
  <2>2. PICK r \in Recs : r = db[p].idxoff /\ Live(r) /\ idx[r].key = ret[p].key
                          /\ idx[r].datoff = db[p].datoff
    BY <2>1, <1>0 DEF ScanOK, HeldOK, Held, HoldLabels, Written
  <2>3. PICK k \in Keys : k = ret[p].key
    BY <2>2, <1>0 DEF Live, TypeOK, IdxRec, Blank
  <2>4. HasKey(r, k)
    BY <2>2, <2>3 DEF HasKey
  <2>5. ASSUME NEW q \in Procs, Masking(q), req[q].key = k PROVE FALSE
    <3>1. CASE pc[q] \in {"delidx", "delhead", "delunlink"}
      <4>1. wlock[FREE_OFF] = q /\ p \in rlock[FREE_OFF] /\ q # p
        BY <3>1, <2>1, <1>0 DEF LockOK, FreeLabels, ScanOK
      <4>q. QED
        BY <4>1, <1>0, ProcAssumption, SetFacts DEF LockOK
    <3>2. CASE pc[q] \in AppSteps
      <4>1. Absent(q)
        BY <3>2, <1>0 DEF ListsOK, ChainStep, LinkSteps, StoreLabels, AppSteps
      <4>2. pc[q] \in ChainLabels /\ pc[q] # "link"
        BY <3>2, ChainLabelFacts DEF AppSteps
      <4>q. QED
        BY <4>1, <4>2, <2>4, <2>5, OwnAbsent
    <3>q. QED
      BY <3>1, <3>2, <2>5 DEF Masking
  <2>6. AbsDict[k] = dat[db[p].datoff].val /\ AbsDict[k] # SPACE
    BY <2>2, <2>4, <2>5, LivePresent, SpaceAssumption DEF Masked
  <2>7. KV!Effect(p, AbsDict, Ret(0, k, AbsDict[k]))
    BY <2>1, <2>3, <2>6, <1>3
  <2>q. QED
    BY <2>6, <2>7, <1>4, AnswerIs, EffectIs DEF KV!DoNextrec, KV!Present
<1>q. QED
  BY <1>5, <1>6

\* The start of a call, and a flag refused.
LEMMA CallRefines ==
  ASSUME RInv, NEW p \in Procs, Call(p) \/ RejectFlag(p) \/ Rewind(p) \/ Restart(p)
  PROVE  Refines
<1>0. TypeOK /\ ReqOK /\ Step(p)
  BY DEF RInv, IInv, Step, Locking, Working
<1>1. pc[p] \in {"ready", "dead", "lock"}
  BY DEF Call, RejectFlag, Rewind, Restart
<1>2. ~Masking(p) /\ ~Settles(p)
  BY <1>1 DEF Masking, AppSteps, Settles, DelBlank, DelIdx, ReuseIdx, AppIdxW, Overwrite
<1>3. CASE Call(p)
  <2>1. PICK r \in Requests[p] : req' = [req EXCEPT ![p] = r]
    BY <1>3 DEF Call
  <2>2. pc[p] = "ready" /\ pc'[p] \in {"lock", "scanlock"}
    BY <1>0, <1>3 DEF Call, TypeOK, Goto
  <2>3. ~(Masking(p)')
    BY <2>2 DEF Masking, AppSteps
  <2>4. AbsDict' = AbsDict
    BY <2>3, <1>0, <1>2, DictQuiet
  <2>5. AbsSt[p] = "idle" /\ AbsSt'[p] = "called" /\ AbsRes'[p] = AbsRes[p]
    BY <2>2, <2>3, Views, ViewsAfter
  <2>6. AbsRes = [q \in Procs |-> AbsRes[q]]
    BY DEF AbsRes
  <2>7. AbsSt' = [AbsSt EXCEPT ![p] = "called"] /\ AbsRes' = AbsRes
    BY <2>5, <2>6, <1>0, ViewMoves
  <2>8. KV!Call(p)
    BY <2>1, <2>4, <2>5, <2>7 DEF KV!Call
  <2>q. QED
    BY <2>8, EffectIs
<1>4. CASE RejectFlag(p)
  <2>1. pc[p] = "lock" /\ pc'[p] = "return" /\ req' = req /\ ret'[p] = Done(-1)
    BY <1>0, <1>4 DEF RejectFlag, TypeOK, Goto, Answer
  <2>2. KV!Effect(p, AbsDict, Done(-1))
    BY <2>1, <1>0, <1>2, AnswerRefines
  <2>3. req[p].op = "store" /\ req[p].flag \notin KV!Flags
    BY <1>4 DEF RejectFlag, BadFlag, Flags, KV!Flags
  <2>q. QED
    BY <2>2, <2>3, AnswerIs, EffectIs DEF KV!DoStore, KV!Flags
<1>5. CASE Rewind(p) \/ Restart(p)
  <2>1. pc[p] \in {"ready", "dead"} /\ pc'[p] = "ready" /\ req' = req
    BY <1>0, <1>5 DEF Rewind, Restart, TypeOK, Goto
  <2>2. ~(Masking(p)')
    BY <2>1 DEF Masking, AppSteps
  <2>3. AbsDict' = AbsDict
    BY <2>2, <1>0, <1>2, DictQuiet
  <2>q. QED
    BY <2>1, <2>3, <1>0, Views, ViewsAfter, Stutters DEF Refines
<1>q. QED
  BY <1>3, <1>4, <1>5

\* The end of a call.
LEMMA ReturnRefines ==
  ASSUME RInv, NEW p \in Procs, Return(p) \/ Unlock(p) \/ ScanUnlock(p)
  PROVE  Refines
<1>0. TypeOK /\ Step(p)
  BY DEF RInv, IInv, Step, Locking, Working
<1>1. /\ pc[p] \in {"return", "unlock", "scanunlock"} /\ pc'[p] = "ready"
      /\ req' = [req EXCEPT ![p] = NoReq]
  BY <1>0 DEF Return, Unlock, ScanUnlock, Leave, TypeOK
<1>2. ~Masking(p) /\ ~(Masking(p)') /\ ~Settles(p)
  BY <1>1 DEF Masking, AppSteps, Settles, DelBlank, DelIdx, ReuseIdx, AppIdxW, Overwrite
<1>3. AbsDict' = AbsDict
  BY <1>0, <1>2, DictQuiet
<1>4. AbsSt[p] = "done"
  BY <1>1, Views
<1>5. KV!Return(p)
  BY <1>0, <1>1, <1>3, <1>4, CallEnds DEF KV!Return
<1>q. QED
  BY <1>5, EffectIs

\* A process that aborts in a replace leaves the key without a value.
LEMMA AbortRefines ==
  ASSUME RInv, NEW p \in Procs, RejectLen(p) \/ ScanAbort(p) \/ DatFull(p) \/ IdxRefused(p) \/ IdxFull(p)
  PROVE  Refines
<1>0. TypeOK /\ ReqOK /\ ListsOK /\ Step(p)
  BY DEF RInv, IInv, ListInv, Step, Locking, Working
<1>1. /\ pc[p] \in {"lock", "scan", "appdatw", "appidx", "appidxw"} /\ pc'[p] = "dead"
      /\ req' = [req EXCEPT ![p] = NoReq]
  BY <1>0 DEF RejectLen, ScanAbort, DatFull, IdxRefused, IdxFull, Die, Exit, TypeOK
<1>2. ~(Masking(p)') /\ ~Settles(p)
  <2>1. ~AppIdxW(p)
    BY <1>0, <1>1 DEF AppIdxW, TypeOK, Goto
  <2>q. QED
    BY <2>1, <1>1 DEF Masking, AppSteps, Settles, DelBlank, DelIdx, ReuseIdx, Overwrite
<1>3. CASE ~Masking(p)
  <2>1. AbsDict' = AbsDict
    BY <1>0, <1>2, <1>3, DictQuiet
  <2>2. AbsSt[p] = "called"
    BY <1>1, <1>3, Views
  <2>3. KV!Abort(p)
    BY <2>1, <2>2, <1>0, <1>1, CallEnds DEF KV!Abort
  <2>q. QED
    BY <2>3, EffectIs
<1>4. CASE Masking(p)
  <2>1. pc[p] \in {"appdatw", "appidx", "appidxw"}
    BY <1>1, <1>4 DEF Masking, AppSteps
  <2>2. PICK k \in Keys : k = req[p].key /\ pc[p] \in ChainLabels
    BY <1>4, MaskHolds
  <2>3. \A r \in Recs : ~HasKey(r, k)
    <3>1. Absent(p)
      BY <2>1, <1>0 DEF ListsOK, ChainStep, LinkSteps, StoreLabels, AppSteps
    <3>q. QED
      BY <3>1, <2>1, <2>2, OwnAbsent
  <2>4. \A r \in Recs : ~(HasKey(r, k)')
    BY <2>3, <1>0, <1>2, RecsKept DEF HasKey
  <2>5. DictIs(k, SPACE)'
    BY <2>2, <2>4, <1>0, <1>2, OwnUnmaskedAfter DEF DictIs
  <2>6. AbsDict' = [AbsDict EXCEPT ![k] = SPACE]
    BY <2>2, <2>5, <1>0, DictSets
  <2>7. AbsSt[p] = "done"
    BY <1>4, Views
  <2>8. req[p].op = "store"
    BY <2>1, <1>0 DEF ReqOK, StoreLabels, AppSteps
  <2>9. KV!Abort(p)
    BY <2>2, <2>6, <2>7, <2>8, <1>0, <1>1, CallEnds DEF KV!Abort
  <2>q. QED
    BY <2>9, EffectIs
<1>q. QED
  BY <1>3, <1>4

\* Every step of the library is a step of the store or a stutter.
LEMMA StepRefines == RInv /\ [Next]_vars => [KV!Next]_(KV!kvars)
<1> SUFFICES ASSUME RInv, [Next]_vars PROVE Refines
  BY DEF Refines
<1>1. CASE UNCHANGED vars
  <2>1. UNCHANGED KV!kvars
    BY <1>1 DEF vars, KV!kvars, AbsDict, AbsSt, AbsRes, Decided, Masking, Live, Written
  <2>q. QED
    BY <2>1 DEF Refines
<1>2. ASSUME NEW p \in Procs, Step(p) PROVE Refines
  BY <1>2, SearchRefines, AppendRefines, DeleteRefines, BlankRefines, OverwriteRefines,
     RecordRefines, LinkRefines, HitRefines, MissRefines, FetchRefines, ScanRefines,
     CallRefines, ReturnRefines, AbortRefines DEF Step, Locking, Working
<1>q. QED
  BY <1>1, <1>2 DEF Next

\* The empty files are the empty dictionary.
LEMMA StartRefines == Init => KV!Init
<1> SUFFICES ASSUME Init PROVE KV!Init
  OBVIOUS
<1>1. \A r \in Recs : ~Live(r)
  BY SizeAssumption DEF Init, Live, Written, Recs, FirstRec
<1>2. \A p \in Procs : pc[p] = "ready" /\ ~Masking(p)
  BY DEF Init, Masking, AppSteps
<1>3. AbsDict = [k \in Keys |-> SPACE]
  <2>1. ASSUME NEW k \in Keys PROVE AbsDict[k] = SPACE
    BY <1>1, <1>2 DEF AbsDict
  <2>q. QED
    BY <2>1, DictFun
<1>4. AbsSt = [p \in Procs |-> "idle"] /\ AbsRes = [p \in Procs |-> NoRet]
  BY <1>2 DEF AbsSt, AbsRes, Decided
<1>5. KV!NoRet = NoRet /\ KV!NoReq = NoReq
  BY DEF KV!NoRet, KV!Ret, KV!NoReq, NoRet, Done, Ret, NoReq
<1>q. QED
  BY <1>3, <1>4, <1>5 DEF KV!Init, Init

\* Every call of every process takes effect at one instant between its call and
\* its return, whatever the other processes do meanwhile to the same files, when
\* every offset of the index file fits in a pointer (db_fetch, db_store, db_delete,
\* db_nextrec): the library implements the store.
THEOREM StoreLinearizable == ASSUME LastRec <= PTR_MAX PROVE Spec => Linearizable
<1>1. Init => RInv /\ KV!Init
  BY RefStart, StartRefines
<1>2. RInv /\ [Next]_vars => RInv'
  <2> SUFFICES ASSUME RInv, [Next]_vars PROVE RInv'
    OBVIOUS
  <2>1. CASE UNCHANGED vars
    <3>1. IInv' /\ ListInv' /\ torn' = {} /\ LastRec <= PTR_MAX
      BY <2>1, StepInv, ListNext DEF RInv, vars
    <3>2. RefInv'
      BY <2>1 DEF RInv, RefInv, ValOK, CtlOK, ScanOK, At, Live, Written, vars
    <3>q. QED
      BY <3>1, <3>2 DEF RInv
  <2>2. CASE Next
    BY <2>2, RefStep DEF Next
  <2>q. QED
    BY <2>1, <2>2
<1>q. QED
  BY <1>1, <1>2, StepRefines, PTL DEF Spec, Linearizable, KV!Spec
=============================================================================
