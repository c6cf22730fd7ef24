-------------------------------- MODULE MyDB --------------------------------
(***************************************************************************)
(* The database library of c_code/apue/mydb/db.c: several processes share  *)
(* an index file and a data file, keep the records of one hash chain on a  *)
(* linked list, the deleted ones on a free list, and protect the lists     *)
(* with fcntl byte locks (one byte per chain, byte 0 for the free list,    *)
(* the whole tail of a file while it is extended).                         *)
(*                                                                         *)
(* One step is one access to a shared file, with the local work that       *)
(* follows it up to the next access.  A lock request and the first read    *)
(* under that lock are one step.  File offsets are counted in items:       *)
(* FREE_OFF is 0, the chain heads are 1..NHASH, NHASH + 1 is the newline   *)
(* after them, index records follow from FirstRec on; data records are     *)
(* counted from 0.  The pointer 0 ends a list, as in the file.  What a     *)
(* writev that falls short leaves at the end of a file is an item too, and *)
(* no record.                                                              *)
(*                                                                         *)
(* Keys hold no ':': db_store takes such a key, and every later walk over  *)
(* its record would end in an err_dump of _db_readidx.                     *)
(***************************************************************************)
EXTENDS Integers, FiniteSets

CONSTANTS
  Procs, NoProc,
  Keys, Vals,
  SPACE,        \* the blanks that replace a deleted key or value
  NHASH,        \* number of chains (NHASH_DEF)
  Hash,         \* _db_hash: the chain of a key, counted from 1
  KeyLen,       \* strlen of a key
  DatLen,       \* strlen of a value, plus one for the newline
  DATLEN_MAX,   \* longest data record
  KEYLEN_MAX,   \* longest key whose index record is within IDXLEN_MAX
  PTR_MAX,      \* largest offset that fits in a pointer field
  MaxRecs,      \* bound: index records the disk has room for
  MaxDats,      \* bound: data records the disk has room for
  MaxTorn,      \* bound: no process is killed once this many lists are torn
  DiskFull,     \* TRUE when the disk may be full at any append
  Requests      \* the calls each process may make

FREE_OFF == 0
Chains   == 1..NHASH
FirstRec == NHASH + 2
LastRec  == NHASH + 1 + MaxRecs
Recs     == FirstRec..LastRec
Slots    == 0..NHASH              \* where a list starts
Ptrs     == {0} \cup Recs
Fields   == Slots \cup Recs       \* where a pointer is kept
IdxTail  == NHASH + 1             \* lock on the tail of the index file
DatTail  == NHASH + 2             \* lock on the data file
Locks    == 0..DatTail
Lost     == 0                     \* an offset that is no record boundary
Ends     == FirstRec..(LastRec + 1)
DatOffs  == 0..MaxDats

Flags   == {"DB_INSERT", "DB_REPLACE", "DB_STORE"}
OpNames == {"fetch", "store", "delete", "nextrec"}
Blank(S) == S \cup {SPACE}
Request == [op : OpNames \cup {"none"}, key : Blank(Keys), val : Blank(Vals),
            flag : Flags \cup {"none"}]
NoReq   == [op |-> "none", key |-> SPACE, val |-> SPACE, flag |-> "none"]

Ret(rc, k, v) == [rc |-> rc, key |-> k, val |-> v]
Done(rc) == Ret(rc, SPACE, SPACE)
NoRet    == Done(2)
Answers  == [rc : {-1, 0, 1, 2}, key : Blank(Keys), val : Blank(Vals)]

ASSUME ProcAssumption == NoProc \notin Procs
ASSUME SpaceAssumption == SPACE \notin Keys /\ SPACE \notin Vals
ASSUME SizeAssumption ==
  /\ NHASH \in Nat \ {0} /\ MaxRecs \in Nat \ {0} /\ MaxDats \in Nat \ {0}
  /\ MaxTorn \in Nat /\ PTR_MAX \in Nat /\ DATLEN_MAX \in Nat /\ KEYLEN_MAX \in Nat
  /\ DiskFull \in BOOLEAN
ASSUME DataAssumption ==
  /\ Hash \in [Keys -> Chains]
  /\ KeyLen \in [Keys -> Nat \ {0}]
  /\ DatLen \in [Vals -> Nat \ {0}]
ASSUME RequestAssumption ==
  /\ Requests \in [Procs -> SUBSET Request]
  /\ \A p \in Procs : \A r \in Requests[p] :
       /\ r.op # "none"
       /\ r.op \in {"fetch", "store", "delete"} => r.key \in Keys
       /\ r.op = "store" => r.val \in Vals

VARIABLES
  ptr,      \* index file: the pointer field of every list head and record
  idx,      \* index file: the other fields of every index record
  idxend,   \* index file: its end
  dat,      \* data file: its records
  datend,   \* data file: its end
  wlock,    \* owner of the write lock on a byte, or NoProc
  rlock,    \* owners of read locks on a byte
  pc,       \* the step a process is at; "dead" after err_dump or err_quit
  req,      \* the call it is in
  db,       \* the fields of its DB structure, and locals of the call
  pos,      \* file offset of its idxfd (kept for processes that scan)
  ret,      \* what the call returns
  torn      \* history: lists a killed process was writing

file  == <<ptr, idx, idxend, dat, datend>>
locks == <<wlock, rlock>>
vars  == <<ptr, idx, idxend, dat, datend, wlock, rlock, pc, req, db, pos, ret, torn>>

-----------------------------------------------------------------------------
(* State *)

IdxRec == [key : Blank(Keys), klen : Nat, datoff : DatOffs, datlen : Nat]
DatRec == [val : Blank(Vals), len : Nat]
NoIdx  == [key |-> SPACE, klen |-> 0, datoff |-> 0, datlen |-> 0]
NoDat  == [val |-> SPACE, len |-> 0]

\* ptroff, ptrval, idxoff, datoff, datlen are fields of DB (idxoff also stands
\* for the loop variable offset); next, save and repl are the locals ptrval of
\* db_store, saveoffset of _db_findfree and "this append ends a replace".
DB == [ptroff : Fields, ptrval : Ptrs, idxoff : Ptrs \cup Ends, datoff : DatOffs,
       datlen : Nat, next : Ptrs, save : Ptrs, repl : BOOLEAN]
NoDB == [ptroff |-> 0, ptrval |-> 0, idxoff |-> 0, datoff |-> 0, datlen |-> 0,
         next |-> 0, save |-> 0, repl |-> FALSE]

DelSteps  == {"delfree", "delblank", "delidx", "delhead", "delunlink"}
FreeSteps == {"freelock", "freefind", "freetake"}
AppSteps  == {"appdat", "appdatw", "appidx", "appidxw"}
Labels == {"ready", "dead", "lock", "find", "readdat", "overwrite", "reusedat",
           "reuseidx", "link", "unlock", "scanlock", "scan", "scandat",
           "scanunlock", "return"} \cup DelSteps \cup FreeSteps \cup AppSteps

\* The files hold what the library wrote, locks and processes are well formed.
TypeOK ==
  /\ ptr \in [Fields -> Ptrs]
  /\ idx \in [Recs -> IdxRec]
  /\ idxend \in Ends
  /\ dat \in [0..(MaxDats - 1) -> DatRec]
  /\ datend \in DatOffs
  /\ wlock \in [Locks -> Procs \cup {NoProc}]
  /\ rlock \in [Locks -> SUBSET Procs]
  /\ pc \in [Procs -> Labels]
  /\ req \in [Procs -> Request]
  /\ db \in [Procs -> DB]
  /\ pos \in [Procs -> {Lost} \cup Ends]
  /\ ret \in [Procs -> Answers]
  /\ torn \in SUBSET Slots

\* The files as db_open leaves them: every list empty, no record.
Init ==
  /\ ptr = [l \in Fields |-> 0]
  /\ idx = [r \in Recs |-> NoIdx]
  /\ idxend = FirstRec
  /\ dat = [d \in 0..(MaxDats - 1) |-> NoDat]
  /\ datend = 0
  /\ wlock = [l \in Locks |-> NoProc]
  /\ rlock = [l \in Locks |-> {}]
  /\ pc = [p \in Procs |-> "ready"]
  /\ req = [p \in Procs |-> NoReq]
  /\ db = [p \in Procs |-> NoDB]
  /\ pos = [p \in Procs |-> FirstRec]
  /\ ret = [p \in Procs |-> NoRet]
  /\ torn = {}

-----------------------------------------------------------------------------
(* Helpers *)

Goto(p, l)   == pc' = [pc EXCEPT ![p] = l]
Answer(p, a) == ret' = [ret EXCEPT ![p] = a]
Chain(p)     == Hash[req[p].key]
CanScan(p)   == \E r \in Requests[p] : r.op = "nextrec"

\* Every access to idxfd moves its offset; only db_nextrec reads it back.
Seek(p, o) == pos' = IF CanScan(p) THEN [pos EXCEPT ![p] = o] ELSE pos

\* writew_lock and readw_lock on one byte, and un_lock.  A process never waits
\* for a lock of its own.
WriteLock(p, l) == /\ wlock[l] \in {NoProc, p}
                   /\ rlock[l] \subseteq {p}
                   /\ wlock' = [wlock EXCEPT ![l] = p]
                   /\ UNCHANGED rlock
ReadLock(p, l)  == /\ wlock[l] \in {NoProc, p}
                   /\ rlock' = [rlock EXCEPT ![l] = @ \cup {p}]
                   /\ UNCHANGED wlock
UnLock(p, l) == /\ wlock' = [wlock EXCEPT ![l] = IF @ = p THEN NoProc ELSE @]
                /\ rlock' = [rlock EXCEPT ![l] = @ \ {p}]

\* exit or abort: the kernel drops every lock of the process.
Exit(p) == /\ wlock' = [l \in Locks |-> IF wlock[l] = p THEN NoProc ELSE wlock[l]]
           /\ rlock' = [l \in Locks |-> rlock[l] \ {p}]
           /\ pc'  = [pc  EXCEPT ![p] = "dead"]
           /\ req' = [req EXCEPT ![p] = NoReq]
           /\ db'  = [db  EXCEPT ![p] = NoDB]
           /\ ret' = [ret EXCEPT ![p] = NoRet]
           /\ pos' = [pos EXCEPT ![p] = FirstRec]
Die(p) == Exit(p) /\ UNCHANGED file

\* The call returns and its locals are gone.
Leave(p) == /\ pc'  = [pc  EXCEPT ![p] = "ready"]
            /\ req' = [req EXCEPT ![p] = NoReq]
            /\ db'  = [db  EXCEPT ![p] = NoDB]
            /\ ret' = [ret EXCEPT ![p] = NoRet]

\* A record of the index file that has been written (a partial one has no key
\* length), and what _db_readidx leaves of it in the DB structure.
Written(r) == r \in Recs /\ r < idxend /\ idx[r].klen # 0
ReadIdx(p, r) == [db[p] EXCEPT !.idxoff = r, !.ptrval = ptr[r],
                               !.datoff = idx[r].datoff, !.datlen = idx[r].datlen]
ReadsDat(p) == /\ db[p].datoff < datend
               /\ dat[db[p].datoff].len = db[p].datlen

\* _db_writeidx and _db_writedat with SEEK_SET, the latter's datlen included.
WriteIdx(p, r, k, len, next) ==
  /\ idx' = [idx EXCEPT ![r] = [key |-> k, klen |-> len,
                                datoff |-> db[p].datoff, datlen |-> db[p].datlen]]
  /\ ptr' = [ptr EXCEPT ![r] = next]
WriteDat(d, v, len) == dat' = [dat EXCEPT ![d] = [val |-> v, len |-> len]]
WritePtr(l, r) == ptr' = [ptr EXCEPT ![l] = r]

-----------------------------------------------------------------------------
(* A call, and _db_find_and_lock *)

\* Bound: unless DiskFull, a store is made only if the data file has room for it
\* and for the stores under way that may still append.
Appends(p) == req[p].op = "store" /\ pc[p] \in Labels \
                {"appidx", "appidxw", "reusedat", "reuseidx", "link", "unlock"}
Room == DiskFull \/ datend + Cardinality({p \in Procs : Appends(p)}) < MaxDats

Call(p) ==
  /\ pc[p] = "ready"
  /\ \E r \in Requests[p] :
       /\ r.op = "store" => Room
       /\ req' = [req EXCEPT ![p] = r]
       /\ Goto(p, IF r.op = "nextrec" THEN "scanlock" ELSE "lock")
  /\ UNCHANGED <<file, locks, db, pos, ret, torn>>

BadFlag(p) == req[p].op = "store" /\ req[p].flag \notin Flags
BadLen(p)  == req[p].op = "store" /\ DatLen[req[p].val] > DATLEN_MAX

\* db_store checks the flag before the length, and both before it locks.
RejectFlag(p) == /\ pc[p] = "lock"
                 /\ BadFlag(p)
                 /\ Goto(p, "return")
                 /\ Answer(p, Done(-1))
                 /\ UNCHANGED <<file, locks, req, db, pos, torn>>

RejectLen(p) == /\ pc[p] = "lock"
                /\ ~BadFlag(p) /\ BadLen(p)
                /\ Die(p)
                /\ UNCHANGED torn

Return(p) == /\ pc[p] = "return"
             /\ Leave(p)
             /\ UNCHANGED <<file, locks, pos, torn>>

\* Variant: every call locks its chain for reading only.
FindAndLockShared(p) ==
  /\ pc[p] = "lock"
  /\ ~BadFlag(p) /\ ~BadLen(p)
  /\ ReadLock(p, Chain(p))
  /\ db' = [db EXCEPT ![p].ptroff = Chain(p), ![p].idxoff = ptr[Chain(p)]]
  /\ Goto(p, "find")
  /\ Seek(p, Lost)
  /\ UNCHANGED <<file, req, ret, torn>>

\* Lock the chain, shared for db_fetch, and read its head.
FindAndLock(p) ==
  /\ pc[p] = "lock"
  /\ ~BadFlag(p) /\ ~BadLen(p)
  /\ IF req[p].op = "fetch" THEN ReadLock(p, Chain(p)) ELSE WriteLock(p, Chain(p))
  /\ db' = [db EXCEPT ![p].ptroff = Chain(p), ![p].idxoff = ptr[Chain(p)]]
  /\ Goto(p, "find")
  /\ Seek(p, Lost)
  /\ UNCHANGED <<file, req, ret, torn>>

\* A record with another key: remember it as the predecessor and go on.
FindNext(p) ==
  LET r == db[p].idxoff
  IN  /\ pc[p] = "find"
      /\ Written(r) /\ idx[r].key # req[p].key
      /\ db' = [db EXCEPT ![p].ptroff = r, ![p].idxoff = ptr[r]]
      /\ Seek(p, r + 1)
      /\ UNCHANGED <<file, locks, pc, req, ret, torn>>

\* Variant: the length of the old value is not compared before overwriting.
FindHitAnyLen(p) ==
  LET r == db[p].idxoff
      op == req[p].op
      refuse == op = "store" /\ req[p].flag = "DB_INSERT"
  IN  /\ pc[p] = "find"
      /\ Written(r) /\ idx[r].key = req[p].key
      /\ db' = [db EXCEPT ![p] = ReadIdx(p, r)]
      /\ Seek(p, r + 1)
      /\ Goto(p, CASE op = "fetch"  -> "readdat"
                   [] op = "delete" -> "delfree"
                   [] refuse        -> "unlock"
                   [] OTHER         -> "overwrite")
      /\ Answer(p, IF refuse THEN Done(1) ELSE NoRet)
      /\ UNCHANGED <<file, locks, req, torn>>

\* The key is found: what each call does next.
FindHit(p) ==
  LET r == db[p].idxoff
      op == req[p].op
      refuse == op = "store" /\ req[p].flag = "DB_INSERT"
      same == op = "store" /\ DatLen[req[p].val] = idx[r].datlen
  IN  /\ pc[p] = "find"
      /\ Written(r) /\ idx[r].key = req[p].key
      /\ db' = [db EXCEPT ![p] = ReadIdx(p, r)]
      /\ Seek(p, r + 1)
      /\ Goto(p, CASE op = "fetch" -> "readdat"
                   [] refuse       -> "unlock"
                   [] same /\ ~refuse -> "overwrite"
                   [] OTHER        -> "delfree")
      /\ Answer(p, IF refuse THEN Done(1) ELSE NoRet)
      /\ UNCHANGED <<file, locks, req, torn>>

\* The chain ends: an error, or a store that reads the head again.
FindMiss(p) ==
  LET insert == req[p].op = "store" /\ req[p].flag # "DB_REPLACE"
  IN  /\ pc[p] = "find"
      /\ db[p].idxoff = 0
      /\ IF insert
         THEN /\ db' = [db EXCEPT ![p].next = ptr[Chain(p)], ![p].ptroff = 0]
              /\ Goto(p, "freelock")
              /\ Seek(p, Lost)
              /\ UNCHANGED ret
         ELSE /\ Goto(p, "unlock")
              /\ Answer(p, Done(-1))
              /\ UNCHANGED <<db, pos>>
      /\ UNCHANGED <<file, locks, req, torn>>

\* db_fetch reads the data record the index record names.
ReadDat(p) == /\ pc[p] = "readdat"
              /\ ReadsDat(p)
              /\ Answer(p, Ret(0, SPACE, dat[db[p].datoff].val))
              /\ Goto(p, "unlock")
              /\ UNCHANGED <<file, locks, req, db, pos, torn>>

\* doreturn: un_lock the chain and return.
Unlock(p) == /\ pc[p] = "unlock"
             /\ UnLock(p, Chain(p))
             /\ Leave(p)
             /\ UNCHANGED <<file, pos, torn>>

-----------------------------------------------------------------------------
(* _db_dodelete, for db_delete and for a replace by a value of another length *)

\* Variant: the free list is not locked.
DelFreeNoLock(p) == /\ pc[p] = "delfree"
                    /\ Goto(p, "delblank")
                    /\ UNCHANGED <<file, locks, req, db, pos, ret, torn>>

DelFree(p) == /\ pc[p] = "delfree"
              /\ WriteLock(p, FREE_OFF)
              /\ Goto(p, "delblank")
              /\ UNCHANGED <<file, req, db, pos, ret, torn>>

DelBlank(p) == /\ pc[p] = "delblank"
               /\ WriteDat(db[p].datoff, SPACE, db[p].datlen)
               /\ Goto(p, "delidx")
               /\ UNCHANGED <<ptr, idx, idxend, datend, locks, req, db, pos, ret, torn>>

\* Read the free list's head and write the blank record in front of it; its
\* old successor stays in db.ptrval (the local saveptr).
DelIdx(p) == /\ pc[p] = "delidx"
             /\ WriteIdx(p, db[p].idxoff, SPACE, KeyLen[req[p].key], ptr[FREE_OFF])
             /\ Seek(p, db[p].idxoff + 1)
             /\ Goto(p, "delhead")
             /\ UNCHANGED <<idxend, dat, datend, locks, req, db, ret, torn>>

DelHead(p) == /\ pc[p] = "delhead"
              /\ WritePtr(FREE_OFF, db[p].idxoff)
              /\ Seek(p, Lost)
              /\ Goto(p, "delunlink")
              /\ UNCHANGED <<idx, idxend, dat, datend, locks, req, db, ret, torn>>

\* Variant: a replace keeps the head of the chain it read before the delete.
DelUnlinkStale(p) ==
  /\ pc[p] = "delunlink"
  /\ WritePtr(db[p].ptroff, db[p].ptrval)
  /\ UnLock(p, FREE_OFF)
  /\ Seek(p, Lost)
  /\ IF req[p].op = "delete"
     THEN /\ Goto(p, "unlock")
          /\ Answer(p, Done(0))
          /\ UNCHANGED db
     ELSE /\ Goto(p, "appdat")
          /\ db' = [db EXCEPT ![p] = [NoDB EXCEPT !.next = ptr[Chain(p)],
                                                  !.repl = TRUE]]
          /\ UNCHANGED ret
  /\ UNCHANGED <<idx, idxend, dat, datend, req, torn>>

\* Take the record off its chain and unlock the free list.  A replace reads
\* the head of the chain again and appends.
DelUnlink(p) ==
  /\ pc[p] = "delunlink"
  /\ WritePtr(db[p].ptroff, db[p].ptrval)
  /\ UnLock(p, FREE_OFF)
  /\ Seek(p, Lost)
  /\ IF req[p].op = "delete"
     THEN /\ Goto(p, "unlock")
          /\ Answer(p, Done(0))
          /\ UNCHANGED db
     ELSE /\ Goto(p, "appdat")
          /\ db' = [db EXCEPT ![p] = [NoDB EXCEPT !.next = ptr'[Chain(p)],
                                                  !.repl = TRUE]]
          /\ UNCHANGED ret
  /\ UNCHANGED <<idx, idxend, dat, datend, req, torn>>

-----------------------------------------------------------------------------
(* _db_findfree, and the stores that end with the record linked *)

\* Variant: only the key lengths are compared.
FitsKeyOnly(p, r) == idx[r].klen = KeyLen[req[p].key]

\* A free record is taken only if both its lengths are the wanted ones.
Fits(p, r) == /\ idx[r].klen = KeyLen[req[p].key]
              /\ idx[r].datlen = DatLen[req[p].val]

FreeLock(p) == /\ pc[p] = "freelock"
               /\ WriteLock(p, FREE_OFF)
               /\ db' = [db EXCEPT ![p].save = FREE_OFF, ![p].idxoff = ptr[FREE_OFF]]
               /\ Seek(p, Lost)
               /\ Goto(p, "freefind")
               /\ UNCHANGED <<file, req, ret, torn>>

FreeNext(p) == LET r == db[p].idxoff
               IN  /\ pc[p] = "freefind"
                   /\ Written(r) /\ ~Fits(p, r)
                   /\ db' = [db EXCEPT ![p].save = r, ![p].idxoff = ptr[r]]
                   /\ Seek(p, r + 1)
                   /\ UNCHANGED <<file, locks, pc, req, ret, torn>>

FreeHit(p) == LET r == db[p].idxoff
              IN  /\ pc[p] = "freefind"
                  /\ Written(r) /\ Fits(p, r)
                  /\ db' = [db EXCEPT ![p] = ReadIdx(p, r)]
                  /\ Seek(p, r + 1)
                  /\ Goto(p, "freetake")
                  /\ UNCHANGED <<file, locks, req, ret, torn>>

\* Variant: the free list stays locked when no record fits.
FreeMissLocked(p) == /\ pc[p] = "freefind"
                     /\ db[p].idxoff = 0
                     /\ db' = [db EXCEPT ![p].save = 0]
                     /\ Goto(p, "appdat")
                     /\ UNCHANGED <<file, locks, req, pos, ret, torn>>

FreeMiss(p) == /\ pc[p] = "freefind"
               /\ db[p].idxoff = 0
               /\ UnLock(p, FREE_OFF)
               /\ db' = [db EXCEPT ![p].save = 0]
               /\ Goto(p, "appdat")
               /\ UNCHANGED <<file, req, pos, ret, torn>>

FreeTake(p) == /\ pc[p] = "freetake"
               /\ WritePtr(db[p].save, db[p].ptrval)
               /\ UnLock(p, FREE_OFF)
               /\ db' = [db EXCEPT ![p].save = 0, ![p].ptrval = 0]
               /\ Seek(p, Lost)
               /\ Goto(p, "reusedat")
               /\ UNCHANGED <<idx, idxend, dat, datend, req, ret, torn>>

ReuseDat(p) == /\ pc[p] = "reusedat"
               /\ WriteDat(db[p].datoff, req[p].val, DatLen[req[p].val])
               /\ db' = [db EXCEPT ![p].datlen = DatLen[req[p].val]]
               /\ Goto(p, "reuseidx")
               /\ UNCHANGED <<ptr, idx, idxend, datend, locks, req, pos, ret, torn>>

\* Variant: the reused record keeps its pointer into the free list.
ReuseIdxKeepPtr(p) ==
  /\ pc[p] = "reuseidx"
  /\ WriteIdx(p, db[p].idxoff, req[p].key, KeyLen[req[p].key], ptr[db[p].idxoff])
  /\ Seek(p, db[p].idxoff + 1)
  /\ Goto(p, "link")
  /\ UNCHANGED <<idxend, dat, datend, locks, req, db, ret, torn>>

ReuseIdx(p) == /\ pc[p] = "reuseidx"
               /\ WriteIdx(p, db[p].idxoff, req[p].key, KeyLen[req[p].key], db[p].next)
               /\ Seek(p, db[p].idxoff + 1)
               /\ Goto(p, "link")
               /\ UNCHANGED <<idxend, dat, datend, locks, req, db, ret, torn>>

\* Variant: the data file is not locked while its end is looked up.
AppDatNoLock(p) == /\ pc[p] = "appdat"
                   /\ db' = [db EXCEPT ![p].datoff = datend,
                                       ![p].datlen = DatLen[req[p].val]]
                   /\ Goto(p, "appdatw")
                   /\ UNCHANGED <<file, locks, req, pos, ret, torn>>

\* _db_writedat with SEEK_END: lock the file, find its end; write, unlock.
AppDat(p) == /\ pc[p] = "appdat"
             /\ WriteLock(p, DatTail)
             /\ db' = [db EXCEPT ![p].datoff = datend,
                                 ![p].datlen = DatLen[req[p].val]]
             /\ Goto(p, "appdatw")
             /\ UNCHANGED <<file, req, pos, ret, torn>>

AppDatW(p) == LET d == db[p].datoff
              IN  /\ pc[p] = "appdatw"
                  /\ d < MaxDats
                  /\ WriteDat(d, req[p].val, DatLen[req[p].val])
                  /\ datend' = IF d < datend THEN datend ELSE d + 1
                  /\ UnLock(p, DatTail)
                  /\ Goto(p, "appidx")
                  /\ UNCHANGED <<ptr, idx, idxend, req, db, pos, ret, torn>>

\* _db_writeidx aborts before it asks for the lock if the record is longer than
\* IDXLEN_MAX; the data has been appended by then.
TooLong(p) == KeyLen[req[p].key] > KEYLEN_MAX
IdxRefused(p) == /\ pc[p] = "appidx"
                 /\ TooLong(p)
                 /\ Die(p)
                 /\ UNCHANGED torn

\* _db_writeidx with SEEK_END, likewise.
AppIdx(p) == /\ pc[p] = "appidx"
             /\ ~TooLong(p)
             /\ WriteLock(p, IdxTail)
             /\ db' = [db EXCEPT ![p].idxoff = idxend]
             /\ Seek(p, idxend)
             /\ Goto(p, "appidxw")
             /\ UNCHANGED <<file, req, ret, torn>>

\* Variant: the end of the index file is counted one record too far.
AppIdxWGap(p) == LET r == db[p].idxoff
                 IN  /\ pc[p] = "appidxw"
                     /\ r \in Recs
                     /\ WriteIdx(p, r, req[p].key, KeyLen[req[p].key], db[p].next)
                     /\ idxend' = r + 2
                     /\ UnLock(p, IdxTail)
                     /\ Seek(p, r + 1)
                     /\ Goto(p, "link")
                     /\ UNCHANGED <<dat, datend, req, db, ret, torn>>

AppIdxW(p) == LET r == db[p].idxoff
              IN  /\ pc[p] = "appidxw"
                  /\ r \in Recs
                  /\ WriteIdx(p, r, req[p].key, KeyLen[req[p].key], db[p].next)
                  /\ idxend' = IF r < idxend THEN idxend ELSE r + 1
                  /\ UnLock(p, IdxTail)
                  /\ Seek(p, r + 1)
                  /\ Goto(p, "link")
                  /\ UNCHANGED <<dat, datend, req, db, ret, torn>>

\* The disk is full: writev writes nothing or a part of the record, and the
\* process aborts.
DatFull(p) == /\ pc[p] = "appdatw"
              /\ DiskFull
              /\ Exit(p)
              /\ \/ UNCHANGED <<dat, datend>>
                 \/ /\ db[p].datoff = datend /\ datend < MaxDats
                    /\ dat' = [dat EXCEPT ![datend] = NoDat]
                    /\ datend' = datend + 1
              /\ UNCHANGED <<ptr, idx, idxend, torn>>
IdxFull(p) == /\ pc[p] = "appidxw"
              /\ DiskFull
              /\ Exit(p)
              /\ \/ UNCHANGED <<idx, idxend>>
                 \/ /\ db[p].idxoff = idxend /\ idxend \in Recs
                    /\ idx' = [idx EXCEPT ![idxend].klen = 0]
                    /\ idxend' = idxend + 1
              /\ UNCHANGED <<ptr, dat, datend, torn>>

\* Variant: no limit.
NeverTooBig(p) == FALSE

\* _db_writeptr refuses an offset that does not fit in a pointer field.
TooBig(p) == db[p].idxoff > PTR_MAX

\* The new record becomes the head of its chain.
Link(p) == /\ pc[p] = "link"
           /\ ~TooBig(p)
           /\ WritePtr(Chain(p), db[p].idxoff)
           /\ Seek(p, Lost)
           /\ Answer(p, Done(0))
           /\ Goto(p, "unlock")
           /\ UNCHANGED <<idx, idxend, dat, datend, locks, req, db, torn>>

LinkQuit(p) == /\ pc[p] = "link"
               /\ TooBig(p)
               /\ Die(p)
               /\ UNCHANGED torn

\* A replace by a value of the same length.
Overwrite(p) == /\ pc[p] = "overwrite"
                /\ WriteDat(db[p].datoff, req[p].val, DatLen[req[p].val])
                /\ Answer(p, Done(0))
                /\ Goto(p, "unlock")
                /\ UNCHANGED <<ptr, idx, idxend, datend, locks, req, db, pos, torn>>

-----------------------------------------------------------------------------
(* db_nextrec and db_rewind *)

\* Variant: the scan does not lock the free list.
ScanLockNone(p) == /\ pc[p] = "scanlock"
                   /\ Goto(p, "scan")
                   /\ UNCHANGED <<file, locks, req, db, pos, ret, torn>>

ScanLock(p) == /\ pc[p] = "scanlock"
               /\ ReadLock(p, FREE_OFF)
               /\ Goto(p, "scan")
               /\ UNCHANGED <<file, req, db, pos, ret, torn>>

\* A deleted record is skipped.
ScanSkip(p) == LET r == pos[p]
               IN  /\ pc[p] = "scan"
                   /\ Written(r) /\ idx[r].key = SPACE
                   /\ Seek(p, r + 1)
                   /\ UNCHANGED <<file, locks, pc, req, db, ret, torn>>

\* The key is copied out before the data is read.
ScanHit(p) == LET r == pos[p]
              IN  /\ pc[p] = "scan"
                  /\ Written(r) /\ idx[r].key # SPACE
                  /\ db' = [db EXCEPT ![p] = [ReadIdx(p, r) EXCEPT !.ptrval = 0]]
                  /\ Answer(p, Ret(2, idx[r].key, SPACE))
                  /\ Seek(p, r + 1)
                  /\ Goto(p, "scandat")
                  /\ UNCHANGED <<file, locks, req, torn>>

ScanEnd(p) == /\ pc[p] = "scan"
              /\ pos[p] = idxend
              /\ Answer(p, Done(-1))
              /\ Goto(p, "scanunlock")
              /\ UNCHANGED <<file, locks, req, db, pos, torn>>

\* What stands at the offset is no index record, or a partial one: _db_readidx
\* aborts.  (What follows such an offset could by chance be read as a record;
\* that is left out.)
ScanAbort(p) == /\ pc[p] = "scan"
                /\ ~Written(pos[p]) /\ pos[p] # idxend
                /\ Die(p)
                /\ UNCHANGED torn

ScanDat(p) == /\ pc[p] = "scandat"
              /\ ReadsDat(p)
              /\ Answer(p, Ret(0, ret[p].key, dat[db[p].datoff].val))
              /\ Goto(p, "scanunlock")
              /\ UNCHANGED <<file, locks, req, db, pos, torn>>

ScanUnlock(p) == /\ pc[p] = "scanunlock"
                 /\ UnLock(p, FREE_OFF)
                 /\ Leave(p)
                 /\ UNCHANGED <<file, pos, torn>>

Rewind(p) == /\ pc[p] = "ready"
             /\ CanScan(p) /\ pos[p] # FirstRec
             /\ Seek(p, FirstRec)
             /\ UNCHANGED <<file, locks, pc, req, db, ret, torn>>

-----------------------------------------------------------------------------
(* Processes that die, and the ones that open the database after them *)

Restart(p) == /\ pc[p] = "dead"
              /\ Goto(p, "ready")
              /\ UNCHANGED <<file, locks, req, db, pos, ret, torn>>

\* A process is killed inside a call.
Crash(p) == /\ pc[p] \notin {"ready", "dead"}
            /\ Cardinality(torn) < MaxTorn
            /\ Die(p)
            /\ torn' = torn \cup {l \in Slots : wlock[l] = p}

-----------------------------------------------------------------------------
(* Specification *)

\* The steps that wait for a lock.
Locking(p) == \/ FindAndLock(p) \/ DelFree(p) \/ FreeLock(p)
              \/ AppDat(p) \/ AppIdx(p) \/ ScanLock(p)

\* The other steps of a call.
Working(p) ==
  \/ RejectFlag(p) \/ RejectLen(p) \/ Return(p)
  \/ FindNext(p) \/ FindHit(p) \/ FindMiss(p) \/ ReadDat(p) \/ Unlock(p)
  \/ DelBlank(p) \/ DelIdx(p) \/ DelHead(p) \/ DelUnlink(p)
  \/ FreeNext(p) \/ FreeHit(p) \/ FreeMiss(p) \/ FreeTake(p)
  \/ ReuseDat(p) \/ ReuseIdx(p) \/ AppDatW(p) \/ AppIdxW(p)
  \/ DatFull(p) \/ IdxRefused(p) \/ IdxFull(p) \/ Link(p) \/ LinkQuit(p) \/ Overwrite(p)
  \/ ScanSkip(p) \/ ScanHit(p) \/ ScanEnd(p) \/ ScanAbort(p)
  \/ ScanDat(p) \/ ScanUnlock(p)

Step(p) == Call(p) \/ Locking(p) \/ Working(p) \/ Rewind(p) \/ Restart(p)

Next == \E p \in Procs : Step(p)
Spec == Init /\ [][Next]_vars

\* Processes may also be killed.
NextCrash == \E p \in Procs : Step(p) \/ Crash(p)
SpecCrash == Init /\ [][NextCrash]_vars

\* A process that can run does; a lock that is free again and again is granted.
Fairness == \A p \in Procs : WF_vars(Working(p)) /\ SF_vars(Locking(p))
FairSpec == Spec /\ Fairness

-----------------------------------------------------------------------------
(* Properties *)

\* A set that a walk along the pointers f from l never leaves; 0 ends the walk.
Closed(f, l, T) == f[l] \in T /\ \A t \in T \ {0} : f[t] \in T

\* What the list that starts at l leads to: the members of every such set.
Reach(l) == LET kept == {T \in SUBSET Ptrs : Closed(ptr, l, T)}
            IN  {x \in Ptrs : \A T \in kept : x \in T}
OnList(l) == Reach(l) \ {0}
Finite(l) == 0 \in Reach(l)

Live(r)   == Written(r) /\ idx[r].key # SPACE
Bucket(c) == {r \in Recs : Live(r) /\ Hash[idx[r].key] = c /\ r <= PTR_MAX}

\* Between the calls that change it, a chain is a finite list of exactly the
\* live records whose keys hash to it: no delete loses the rest of a chain or
\* leaves a freed record on it, and no insert gets lost (_db_dodelete,
\* db_store).  A chain that a killed process was changing is left out.  One
\* such kill damages no other chain; two on different chains may (README).
ChainsSound == \A c \in Chains :
                 wlock[c] = NoProc /\ c \notin torn => Finite(c) /\ OnList(c) = Bucket(c)

\* A free record a store has taken off the free list and not yet written.
Taken == {db[p].idxoff : p \in {q \in Procs : pc[q] \in {"reusedat", "reuseidx"}}}

\* Between its changes the free list is finite and holds every blank record
\* that no store has taken: a deleted record is neither lost nor free while it
\* is in use (_db_dodelete, _db_findfree).  A process killed inside a store or
\* a delete may lose the record it was working on.
FreeSound == wlock[FREE_OFF] = NoProc /\ torn = {} =>
               /\ Finite(FREE_OFF)
               /\ OnList(FREE_OFF) = {r \in Recs : Written(r) /\ ~Live(r)} \ Taken

\* A key has one live record, whatever replaces, inserts and deletes overlap.
UniqueKey == \A r, s \in Recs : Live(r) /\ Live(s) /\ idx[r].key = idx[s].key => r = s

\* No two index records name the same data record, so a store never writes
\* over another key's value, even when two processes append at once.
DataPrivate == \A r, s \in Recs :
                 Written(r) /\ Written(s) /\ idx[r].datoff = idx[s].datoff => r = s

\* Every pointer that a walk along a chain or the free list follows leads to a
\* whole index record, never into a partial one or past the end, and every index
\* record to data of the length it says (_db_readidx, _db_readdat).  Of a scan
\* this says only that the data of a record is there: it reads the index file
\* in sequence and may abort (ScanAbort).
ReadsGood == \A p \in Procs :
  /\ pc[p] \in {"find", "freefind"} => db[p].idxoff = 0 \/ Written(db[p].idxoff)
  /\ pc[p] \in {"readdat", "scandat"} => ReadsDat(p)

\* A record keeps its lengths and its place in the data file for ever: reuse
\* and overwriting happen only in place and at equal length, or the records
\* behind it in the file would be overwritten.
ShapeStable == [][\A r \in Recs : Written(r) =>
                    /\ idx'[r].klen = idx[r].klen
                    /\ idx'[r].datoff = idx[r].datoff
                    /\ idx'[r].datlen = idx[r].datlen
                    /\ dat'[idx[r].datoff].len = dat[idx[r].datoff].len]_vars

\* Every call returns, or its process aborts at a limit: no lock is kept for
\* ever and no list is walked without end (two processes; more readers may
\* keep a writer from ever getting its lock).
CallReturns == \A p \in Procs : pc[p] # "ready" ~> pc[p] \in {"ready", "dead"}

\* A pointer in the file fits its seven characters, whatever the processes that
\* met the limit left behind (_db_writeptr and _db_writeidx quit otherwise).
PtrFits == \A l \in Fields : ptr[l] <= PTR_MAX
=============================================================================
