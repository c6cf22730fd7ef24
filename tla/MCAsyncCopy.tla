---------------------------- MODULE MCAsyncCopy -----------------------------
(* Small instances of AsyncCopy for TLC.  The input has the letters at the   *)
(* ends of the four ranges that translate() tells apart: a m n z A M N Z.    *)
EXTENDS AsyncCopy

MCInput == <<97, 109, 110, 122, 65, 77, 78, 90>>
=============================================================================
