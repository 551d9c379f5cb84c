------------------------------ MODULE MCFlock ------------------------------
(***************************************************************************)
(* Command lines for the model-checking runs of Flock.                     *)
(***************************************************************************)
EXTENDS Flock

File(type, timeout, noFork) ==
    [form |-> "file", type |-> type, nb |-> FALSE, timeout |-> timeout,
     close |-> FALSE, noFork |-> noFork, had |-> "UN"]

Fd(type, had) ==
    [form |-> "fd", type |-> type, nb |-> FALSE, timeout |-> "none",
     close |-> FALSE, noFork |-> FALSE, had |-> had]

\* Both forms, every timeout, each way of keeping the lock while the section
\* lasts, a shell that converts its shared lock, and what is rejected.
Mixed ==
    {File("EX", "some", FALSE), File("SH", "none", FALSE), File("EX", "some", TRUE),
     File("SH", "zero", FALSE), File("EX", "negative", FALSE), File("UN", "none", FALSE),
     [File("EX", "none", FALSE) EXCEPT !.nb = TRUE],
     [File("EX", "none", FALSE) EXCEPT !.close = TRUE],
     [File("EX", "none", TRUE) EXCEPT !.close = TRUE],
     Fd("EX", "SH"), Fd("SH", "UN"), [Fd("EX", "SH") EXCEPT !.nb = TRUE]}
=============================================================================
