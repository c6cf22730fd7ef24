----------------------------- MODULE MCCvmPower -----------------------------
(* Small instances of CvmPower for TLC. *)
EXTENDS CvmPower, TLC

CONSTANTS p1, p2

Symmetry == Permutations(Cvms)

\* Every command that starts, stops or looks at a machine or its images.
PowerJobs == (AllOps \ {"del", "viewadd", "viewdel"}) \X {1}

\* Commands that touch the password and the file vnc_tokens; the second machine
\* only shares the file and the invocations of addVMview.
ViewJobs == {"template", "on", "viewadd", "viewdel", "del"} \X {1}
            \cup {"template", "on", "viewadd"} \X {2}
=============================================================================
