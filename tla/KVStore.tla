------------------------------ MODULE KVStore ------------------------------
(***************************************************************************)
(* What the database library of c_code/apue/mydb promises its callers,     *)
(* whatever files, lists and locks it uses: a dictionary from keys to      *)
(* values whose calls each take effect at one instant between the call and *)
(* its return (linearizability).  MyDB is shown to implement it.           *)
(***************************************************************************)
EXTENDS Integers

CONSTANTS Procs, Keys, Vals, NoVal,
          Requests   \* the requests each process may make

VARIABLES dict,   \* the value of each key, NoVal when the key is absent
          st,     \* "idle", "called" or "done", per process
          rq,     \* the request a process has made
          res     \* the answer it is about to receive

kvars == <<dict, st, rq, res>>

NoReq == [op |-> "none", key |-> NoVal, val |-> NoVal, flag |-> "none"]
Ret(rc, k, v) == [rc |-> rc, key |-> k, val |-> v]
NoRet == Ret(2, NoVal, NoVal)
Done(rc) == Ret(rc, NoVal, NoVal)

Flags == {"DB_INSERT", "DB_REPLACE", "DB_STORE"}

Present(k) == dict[k] # NoVal

Init == /\ dict = [k \in Keys |-> NoVal]
        /\ st  = [p \in Procs |-> "idle"]
        /\ rq  = [p \in Procs |-> NoReq]
        /\ res = [p \in Procs |-> NoRet]

Call(p) == /\ st[p] = "idle"
           /\ \E r \in Requests[p] : rq' = [rq EXCEPT ![p] = r]
           /\ st' = [st EXCEPT ![p] = "called"]
           /\ UNCHANGED <<dict, res>>

\* The instant at which a call takes effect: d is the dictionary it leaves,
\* a the answer it gives.
Effect(p, d, a) == /\ st[p] = "called"
                   /\ dict' = d
                   /\ res' = [res EXCEPT ![p] = a]
                   /\ st'  = [st EXCEPT ![p] = "done"]
                   /\ UNCHANGED rq

DoFetch(p) == LET k == rq[p].key
              IN  /\ rq[p].op = "fetch"
                  /\ Effect(p, dict, IF Present(k) THEN Ret(0, NoVal, dict[k])
                                                   ELSE Done(-1))

DoDelete(p) == LET k == rq[p].key
               IN  /\ rq[p].op = "delete"
                   /\ IF Present(k)
                      THEN Effect(p, [dict EXCEPT ![k] = NoVal], Done(0))
                      ELSE Effect(p, dict, Done(-1))

\* DB_INSERT refuses a key that is there, DB_REPLACE one that is not, and a
\* flag that is none of the three is an error.
DoStore(p) ==
  LET k == rq[p].key  f == rq[p].flag
  IN  /\ rq[p].op = "store"
      /\ CASE f = "DB_INSERT"  /\ Present(k)  -> Effect(p, dict, Done(1))
           [] f = "DB_REPLACE" /\ ~Present(k) -> Effect(p, dict, Done(-1))
           [] f \notin Flags                  -> Effect(p, dict, Done(-1))
           [] OTHER -> Effect(p, [dict EXCEPT ![k] = rq[p].val], Done(0))

\* A scan step answers with a pair of the dictionary, or with "no more".
DoNextrec(p) ==
  /\ rq[p].op = "nextrec"
  /\ \/ \E k \in Keys : Present(k) /\ Effect(p, dict, Ret(0, k, dict[k]))
     \/ Effect(p, dict, Done(-1))

Return(p) == /\ st[p] = "done"
             /\ st'  = [st  EXCEPT ![p] = "idle"]
             /\ rq'  = [rq  EXCEPT ![p] = NoReq]
             /\ res' = [res EXCEPT ![p] = NoRet]
             /\ UNCHANGED dict

\* The process aborts inside a call that has had no effect, or inside a replace,
\* which then leaves neither the old nor the new value.
Abort(p) == /\ \/ st[p] = "called" /\ UNCHANGED dict
               \/ /\ st[p] = "done" /\ rq[p].op = "store"
                  /\ dict' = [dict EXCEPT ![rq[p].key] = NoVal]
            /\ st'  = [st  EXCEPT ![p] = "idle"]
            /\ rq'  = [rq  EXCEPT ![p] = NoReq]
            /\ res' = [res EXCEPT ![p] = NoRet]

Next == \E p \in Procs : \/ Call(p) \/ DoFetch(p) \/ DoDelete(p)
                         \/ DoStore(p) \/ DoNextrec(p) \/ Return(p) \/ Abort(p)

Spec == Init /\ [][Next]_kvars
=============================================================================
