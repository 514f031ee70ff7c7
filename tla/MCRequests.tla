------------------------------ MODULE MCRequests ------------------------------
(* Requests of Codex, for TLC: where they are sent, and the files they leave *)
(* behind.  The parts share no state: a behaviour is one of one part, beside *)
(* which the other rests.  No step tells one thread or one turn from        *)
(* another, nor does a property.                                             *)
EXTENDS ThreadRouting, RequestLog, TLC

VARIABLE part

RoutingRest == Init /\ upstreamOnly = FALSE
LogRest == LogInit /\ maxLogs = 1

RequestsInit ==
    \/ part = "routing" /\ Init    /\ LogRest
    \/ part = "log"     /\ LogInit /\ RoutingRest
RequestsNext ==
    \/ part = "routing" /\ Next    /\ UNCHANGED <<part, logVars>>
    \/ part = "log"     /\ LogNext /\ UNCHANGED <<part, vars>>

RequestsSpec == RequestsInit /\ [][RequestsNext]_<<part, vars, logVars>>

Symmetry == Permutations(Threads) \union Permutations(Turns)
=============================================================================
