----------------------------- MODULE MC_NttCisLB -----------------------------
(***************************************************************************)
(* Model-checking instance of NttCisLB: two threads sharing one driver,   *)
(* two network domains, one backend address.                               *)
(***************************************************************************)
EXTENDS NttCisLB, TLC

CONSTANTS c1, c2, d1, d2, a1

MC_Callers == {c1, c2}
MC_Domains == {d1, d2}
MC_Ips == {a1}

\* One listener port: 8080 makes a STANDARD listener, so the optimization
\* profile alone decides between the ValueError and the request; port 80
\* (PERFORMANCE_LAYER_4) behaves as 8080 with a profile.
MC_ListenerPorts == {8080}

\* Only the threads are interchangeable: DefaultDom and DefaultIp pick
\* one domain and one address with CHOOSE.
MC_Symmetry == Permutations(MC_Callers)
=============================================================================
