------------------------------ MODULE MCProbes ------------------------------
(***************************************************************************)
(* Command lines for the model-checking runs of Probes.                    *)
(***************************************************************************)
EXTENDS Probes

\* Time for an answer shorter and longer than the interval, none, and both
\* beyond the largest int.
Times == {<<2, 3>>, <<2, 1>>, <<0, 1>>, <<1, 0>>, <<4, 1>>, <<1, 4>>}
Ping(count, times) ==
    [tool |-> "ping", count |-> count, interval |-> times[1], wait |-> times[2]]
Pings == {Ping(n, x) : n \in {0, 3}, x \in Times} \cup {Ping(Forever, <<2, 3>>)}
Arpings == [tool : {"arping", "dad"}, count : {0, 2, Forever}, interval : {0}, wait : {1, 4}]
PingsAndArpings == Pings \cup Arpings
=============================================================================
