------------------------------- MODULE MCHydra -------------------------------
EXTENDS Hydra

(* The requests of net_socket and net_bind, and closing the first socket   *)
(* (NewSocket, Bind and Close in NetServer).                               *)
MCNetApi == {[cmd |-> 1, size |-> 12, args |-> <<1>>], [cmd |-> 2, size |-> 16, args |-> <<1>>]}
MCNetRaw == {[cmd |-> 7, size |-> 12, args |-> <<1>>]}
=============================================================================
