------------------------------- MODULE MCMyDB -------------------------------
(* Small instances of MyDB for TLC. *)
EXTENDS MyDBImpl, TLC

CONSTANTS p1, p2, a, b, c, long, x, y, big

MCHash   == [k \in Keys |-> IF k = c THEN 2 ELSE 1]
MCKeyLen == [k \in Keys |-> IF k = long THEN 9 ELSE 1]
MCKeyLen2 == [k \in Keys |-> IF k = b THEN 2 ELSE 1]
MCDatLen == [v \in Vals |-> IF v = x THEN 2 ELSE IF v = y THEN 3 ELSE 9]

Fetches  == [op : {"fetch"}, key : Keys, val : {SPACE}, flag : {"none"}]
Deletes  == [op : {"delete"}, key : Keys, val : {SPACE}, flag : {"none"}]
Stores(f) == [op : {"store"}, key : Keys, val : Vals, flag : f]
Scans    == {[NoReq EXCEPT !.op = "nextrec"]}

Symmetry == Permutations(Procs)

\* Every process makes every call but the scan: with every flag on a, with one
\* value on c, whose chain shares only the free list and the ends of the files.
MCUpdates == [p \in Procs |->
               {r \in Fetches \cup Deletes \cup Stores(Flags \cup {"none"}) :
                  r.op = "store" => /\ r.flag = "DB_STORE" \/ r.key = a
                                    /\ r.val = x \/ r.key # c}]

\* One process changes the database while the other walks through it, and
\* sometimes fetches in between.
MCScan == [p \in Procs |->
             IF p = p1 THEN {r \in Deletes \cup Stores({"DB_STORE"}) :
                  r.val = y => r.key = a}
             ELSE {r \in Fetches : r.key = a} \cup Scans]

\* Calls that change the lists and run into the limits: too long a value or key,
\* an offset that is too large for a pointer.
MCChange == [p \in Procs |->
               {r \in Deletes \cup Stores({"DB_STORE"}) :
                  /\ r.val = big => r.key = a
                  /\ r.key = long => r.op = "store"}]
=============================================================================
