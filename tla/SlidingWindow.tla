--------------------------- MODULE SlidingWindow ---------------------------
(***************************************************************************)
(* What "at most Max requests per Window" promises a client: a request is   *)
(* admitted exactly when fewer than Max admissions lie in the window that   *)
(* ends now. The whole history is kept; nothing is ever cleaned up.         *)
(***************************************************************************)
EXTENDS Integers, FiniteSets

CONSTANTS IPs, Max, Window, MaxTime

VARIABLES now, admitted, refused

vars == <<now, admitted, refused>>

Used(ip) == Cardinality({a \in admitted : a.ip = ip /\ now - a.at < Window})

Init ==
    /\ now = 0
    /\ admitted = {}
    /\ refused = 0

Admit(ip) ==
    /\ Used(ip) < Max
    /\ admitted' = admitted \cup {[ip |-> ip, at |-> now, id |-> Cardinality(admitted)]}
    /\ UNCHANGED <<now, refused>>

Refuse(ip) ==
    /\ Used(ip) >= Max
    /\ refused' = refused + 1
    /\ UNCHANGED <<now, admitted>>

Tick ==
    /\ now < MaxTime
    /\ now' = now + 1
    /\ UNCHANGED <<admitted, refused>>

Next == Tick \/ \E ip \in IPs : Admit(ip) \/ Refuse(ip)

Spec == Init /\ [][Next]_vars

=============================================================================
