------------------------------- MODULE DbOpen -------------------------------
(***************************************************************************)
(* db_open and db_close of c_code/apue/mydb/db.c, by several processes on  *)
(* one pathname, against the stores of those that have it open.  An open   *)
(* with O_TRUNC empties the index file, then the data file, and asks no    *)
(* lock; only a creating one (O_CREAT and O_TRUNC) then locks the index    *)
(* file, looks at its size and writes the free-list and chain heads if it  *)
(* is empty.  A truncation may fall between any two accesses of a store,   *)
(* which then makes the file non-empty without its heads.                  *)
(*                                                                         *)
(* The index file is abstracted to its heads and the records after them;   *)
(* each store is of a new key, in a list of its own.  MyDB has the lists,  *)
(* the deletions, the free list and the locks between stores.              *)
(***************************************************************************)
EXTENDS Naturals

CONSTANTS Procs, NoProc,
          Recs, NoRec, \* the records stored, each at most once at a time
          Modes        \* the oflags the processes open with

Flags == {"CREAT", "TRUNC"}

ASSUME OpenAssumption == NoProc \notin Procs /\ NoRec \notin Recs
                         /\ Modes \subseteq SUBSET Flags

VARIABLES
  there,    \* the files that exist, a subset of {"idx", "dat"}
  idx,      \* the index file: "empty", "whole" (it starts with its list
            \* heads), or "bad": not empty, and something else is at the start
  recs,     \* the index records after the heads of a whole file
  linked,   \* those a list head leads to
  dats,     \* the data records in the data file
  lock,     \* owner of the lock on the whole index file
  pc,       \* step of db_open or db_store, per process; "open" between calls
  mode,     \* the oflag of the open
  fds,      \* the files the handle has open
  rec,      \* the record being stored
  newest,   \* history: the creator no truncation of the index came after
  quiet,    \* history: no store was under way at the last truncation
  stored    \* history: records whose store has returned since then

files == <<there, idx, recs, linked, dats>>
handles == <<mode, fds>>
history == <<newest, quiet, stored>>
vars == <<files, lock, pc, handles, rec, history>>

\* In these steps a store holds the lock on the byte of its chain.
StoreSteps == {"find", "findfree", "writedat", "writeidx", "writeptr", "doreturn"}
Storing == {p \in Procs : pc[p] \in StoreSteps}

TypeOK == /\ there \subseteq {"idx", "dat"}
          /\ idx \in {"empty", "whole", "bad"}
          /\ recs \subseteq Recs /\ linked \subseteq Recs /\ dats \subseteq Recs
          /\ lock \in Procs \cup {NoProc}
          /\ pc \in [Procs -> {"closed", "opendat", "check", "lock", "stat", "write",
                               "unlock", "rewind", "open"} \cup StoreSteps]
          /\ mode \in [Procs -> SUBSET Flags]
          /\ fds \in [Procs -> SUBSET {"idx", "dat"}]
          /\ rec \in [Procs -> Recs \cup {NoRec}]
          /\ newest \subseteq Procs /\ quiet \in BOOLEAN /\ stored \subseteq Recs

Init == /\ there = {} /\ idx = "empty"
        /\ recs = {} /\ linked = {} /\ dats = {}
        /\ lock = NoProc
        /\ pc = [p \in Procs |-> "closed"]
        /\ mode = [p \in Procs |-> {}]
        /\ fds = [p \in Procs |-> {}]
        /\ rec = [p \in Procs |-> NoRec]
        /\ newest = {} /\ quiet = TRUE /\ stored = {}

Goto(p, l) == pc' = [pc EXCEPT ![p] = l]
Creates(p) == mode[p] = Flags

-----------------------------------------------------------------------------
\* db_open.

\* open() of the .idx file: O_CREAT makes the file, O_TRUNC empties it.  It
\* fails if there is no file to open, or for want of a descriptor.
OpenIdx(p) ==
  /\ pc[p] = "closed"
  /\ Goto(p, "opendat")
  /\ \E m \in Modes :
       /\ mode' = [mode EXCEPT ![p] = m]
       /\ \/ /\ "CREAT" \in m \/ "idx" \in there
             /\ fds' = [fds EXCEPT ![p] = {"idx"}]
             /\ there' = there \cup {"idx"}
             /\ IF "TRUNC" \in m
                THEN /\ idx' = "empty" /\ recs' = {} /\ linked' = {} /\ stored' = {}
                     /\ quiet' = (Storing = {})
                     /\ newest' = IF m = Flags THEN {p} ELSE {}
                ELSE UNCHANGED <<idx, recs, linked, history>>
          \/ UNCHANGED <<fds, there, idx, recs, linked, history>>
  /\ UNCHANGED <<dats, lock, rec>>

\* open() of the .dat file, with the same flags, whatever became of the first.
OpenDat(p) ==
  /\ pc[p] = "opendat"
  /\ Goto(p, "check")
  /\ \/ /\ "CREAT" \in mode[p] \/ "dat" \in there
        /\ fds' = [fds EXCEPT ![p] = @ \cup {"dat"}]
        /\ there' = there \cup {"dat"}
        /\ dats' = IF "TRUNC" \in mode[p] THEN {} ELSE dats
     \/ UNCHANGED <<fds, there, dats>>
  /\ UNCHANGED <<idx, recs, linked, lock, mode, rec, history>>

\* _db_free, or the end of the process: what is open is closed, which drops
\* the locks.
Free(p) == /\ Goto(p, "closed")
           /\ mode' = [mode EXCEPT ![p] = {}]
           /\ fds' = [fds EXCEPT ![p] = {}]
           /\ rec' = [rec EXCEPT ![p] = NoRec]
           /\ lock' = IF lock = p THEN NoProc ELSE lock
           /\ newest' = newest \ {p}
           /\ UNCHANGED <<files, quiet, stored>>

\* Either descriptor is missing: db_open returns NULL.
OpenFails(p) == pc[p] = "check" /\ fds[p] # {"idx", "dat"} /\ Free(p)

OpenOk(p) == /\ pc[p] = "check" /\ fds[p] = {"idx", "dat"}
             /\ Goto(p, IF Creates(p) THEN "lock" ELSE "rewind")
             /\ UNCHANGED <<files, lock, handles, rec, history>>

\* Variant: write_lock, which does not wait, and no initialisation if it fails.
LockTry(p) == /\ pc[p] = "lock"
              /\ \/ lock = NoProc /\ Storing = {} /\ lock' = p /\ Goto(p, "stat")
                 \/ ~(lock = NoProc /\ Storing = {}) /\ UNCHANGED lock /\ Goto(p, "rewind")
              /\ UNCHANGED <<files, handles, rec, history>>

\* writew_lock on the whole index file waits for the other creators and for the
\* chain lock of every store under way.
Lock(p) == /\ pc[p] = "lock"
           /\ lock = NoProc /\ Storing = {}
           /\ lock' = p
           /\ Goto(p, "stat")
           /\ UNCHANGED <<files, handles, rec, history>>

\* Variant: the size is not looked at.
StatNoCheck(p) == /\ pc[p] = "stat"
                  /\ Goto(p, "write")
                  /\ UNCHANGED <<files, lock, handles, rec, history>>

\* fstat: only an empty index file is initialised.
Stat(p) == /\ pc[p] = "stat"
           /\ Goto(p, IF idx = "empty" THEN "write" ELSE "unlock")
           /\ UNCHANGED <<files, lock, handles, rec, history>>

\* Write NHASH_DEF + 1 null pointers at the start of the file.
Write(p) == /\ pc[p] = "write"
            /\ idx' = "whole" /\ linked' = {}
            /\ Goto(p, "unlock")
            /\ UNCHANGED <<there, recs, dats, lock, handles, rec, history>>

UnLock(p) == /\ pc[p] = "unlock"
             /\ lock' = NoProc
             /\ Goto(p, "rewind")
             /\ UNCHANGED <<files, handles, rec, history>>

\* db_rewind only moves the offset of the handle; db_open returns.
Rewind(p) == /\ pc[p] = "rewind"
             /\ Goto(p, "open")
             /\ UNCHANGED <<files, lock, handles, rec, history>>

-----------------------------------------------------------------------------
\* db_store of a new key.

\* The lock on the chain's byte waits for the lock of a creator.
Store(p) == /\ pc[p] = "open"
            /\ lock = NoProc
            /\ \E r \in Recs \ (recs \cup dats \cup {rec[q] : q \in Procs}) :
                 rec' = [rec EXCEPT ![p] = r]
            /\ Goto(p, "find")
            /\ UNCHANGED <<files, lock, handles, history>>

\* The reads: of the chain in _db_find_and_lock, then of the chain's head again
\* and of the free list.  An empty file gives them nothing, and the process
\* aborts; in a bad one they may take what they read for a pointer.
Find(p) == /\ pc[p] \in {"find", "findfree"}
           /\ idx # "empty"
           /\ Goto(p, IF pc[p] = "find" THEN "findfree" ELSE "writedat")
           /\ UNCHANGED <<files, lock, handles, rec, history>>

StoreAborts(p) == pc[p] \in {"find", "findfree"} /\ idx # "whole" /\ Free(p)

WriteDat(p) == /\ pc[p] = "writedat"
               /\ dats' = dats \cup {rec[p]}
               /\ Goto(p, "writeidx")
               /\ UNCHANGED <<there, idx, recs, linked, lock, handles, rec, history>>

\* Append the index record: at offset 0 if the file is empty.
WriteIdx(p) == /\ pc[p] = "writeidx"
               /\ idx' = IF idx = "empty" THEN "bad" ELSE idx
               /\ recs' = IF idx = "whole" THEN recs \cup {rec[p]} ELSE recs
               /\ Goto(p, "writeptr")
               /\ UNCHANGED <<there, linked, dats, lock, handles, rec, history>>

\* Write the chain's head, at its offset, whatever the file is now.
WritePtr(p) == /\ pc[p] = "writeptr"
               /\ idx' = IF idx = "empty" THEN "bad" ELSE idx
               /\ linked' = IF idx = "whole" THEN linked \cup {rec[p]} ELSE linked
               /\ Goto(p, "doreturn")
               /\ UNCHANGED <<there, recs, dats, lock, handles, rec, history>>

\* Unlock the chain and return 0.
Return(p) == /\ pc[p] = "doreturn"
             /\ stored' = stored \cup {rec[p]}
             /\ rec' = [rec EXCEPT ![p] = NoRec]
             /\ Goto(p, "open")
             /\ UNCHANGED <<files, lock, handles, newest, quiet>>

-----------------------------------------------------------------------------
Close(p) == pc[p] = "open" /\ Free(p)

\* The process is killed.
Killed(p) == pc[p] # "closed" /\ Free(p)

Next == \E p \in Procs :
          \/ OpenIdx(p) \/ OpenDat(p) \/ OpenFails(p) \/ OpenOk(p) \/ Lock(p)
          \/ Stat(p) \/ Write(p) \/ UnLock(p) \/ Rewind(p)
          \/ Store(p) \/ Find(p) \/ StoreAborts(p) \/ WriteDat(p) \/ WriteIdx(p)
          \/ WritePtr(p) \/ Return(p) \/ Close(p) \/ Killed(p)

Spec == Init /\ [][Next]_vars

-----------------------------------------------------------------------------
\* If the last truncation found no store under way, every store that has
\* returned since then has its record in a list: no creator has come late and
\* written the heads over it, between the look at the size and the write.
StoredLinked == quiet => idx # "bad" /\ stored \subseteq linked

\* A creator that got its handle finds the heads in place, unless someone has
\* truncated the file after it did, or its own truncation came in the middle of
\* a store; in particular it waited for whoever was writing them.
CreatorFindsHeads == quiet => \A p \in newest : pc[p] = "open" => idx = "whole"

\* Creating the database at the same time is safe for every creator, as the
\* comment before the lock in db_open says: no open handle lacks its heads.
CreateSafe == \A p \in Procs : pc[p] = "open" /\ Creates(p) => idx = "whole"
=============================================================================
