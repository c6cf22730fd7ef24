------------------------------ MODULE MyDBImpl ------------------------------
(***************************************************************************)
(* MyDB implements KVStore: the refinement mapping.  A call takes effect   *)
(* when the index record of a new key is written, when the data of a same- *)
(* length replace is written, and when a delete or a replace blanks the    *)
(* data; from then on the call is "done", although its process still works *)
(* on the lists.                                                           *)
(***************************************************************************)
EXTENDS MyDB

\* Steps of a replace or delete after its effect and before the files show it.
Masking(p) == \/ pc[p] \in {"delidx", "delhead", "delunlink"}
              \/ pc[p] \in AppSteps /\ db[p].repl

Decided(p) == Masking(p) \/ pc[p] \in {"link", "unlock", "scanunlock", "return"}

\* The dictionary the files hold, as the callers may see it.
AbsDict == [k \in Keys |->
  LET masks == {p \in Procs : Masking(p) /\ req[p].key = k}
      recs  == {r \in Recs : Live(r) /\ idx[r].key = k}
  IN  IF masks # {} THEN LET p == CHOOSE q \in masks : TRUE
                         IN  IF req[p].op = "delete" THEN SPACE ELSE req[p].val
      ELSE IF recs = {} THEN SPACE
      ELSE dat[idx[CHOOSE r \in recs : TRUE].datoff].val]

AbsSt == [p \in Procs |-> IF pc[p] \in {"ready", "dead"} THEN "idle"
                          ELSE IF Decided(p) THEN "done" ELSE "called"]
AbsRes == [p \in Procs |-> IF pc[p] \in {"unlock", "scanunlock", "return"} THEN ret[p]
                           ELSE IF Decided(p) THEN Done(0) ELSE NoRet]

KV == INSTANCE KVStore WITH NoVal <- SPACE, dict <- AbsDict, st <- AbsSt,
                            rq <- req, res <- AbsRes

\* Every call of every process takes effect at one instant, on the values all
\* other calls left, however the steps on the files interleave.
Linearizable == KV!Spec
=============================================================================
