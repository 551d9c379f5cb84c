------------------------------ MODULE Sections ------------------------------
(***************************************************************************)
(* What `modbox flock` promises its users: the sections they protect with  *)
(* one lock file never overlap, unless all of them asked for a shared      *)
(* lock.  A section is a command run under the lock, or what a shell does  *)
(* between `flock FD` and `flock -u FD`.                                   *)
(***************************************************************************)
CONSTANT Clients

VARIABLE in     \* the mode in which each client is in its section, or "UN"

Modes == {"UN", "SH", "EX"}

Init == in = [i \in Clients |-> "UN"]

Compatible(i, m) ==
    \A j \in Clients \ {i} : in[j] = "UN" \/ (in[j] = "SH" /\ m = "SH")

Enter(i, m) ==
    /\ in[i] = "UN"
    /\ Compatible(i, m)
    /\ in' = [in EXCEPT ![i] = m]

Leave(i) ==
    /\ in[i] # "UN"
    /\ in' = [in EXCEPT ![i] = "UN"]

Next == \E i \in Clients : Leave(i) \/ \E m \in {"SH", "EX"} : Enter(i, m)

Spec == Init /\ [][Next]_in

TypeOK == in \in [Clients -> Modes]

\* No section in exclusive mode overlaps another.
Exclusion ==
    \A i, j \in Clients : i # j /\ in[i] = "EX" => in[j] = "UN"
=============================================================================
