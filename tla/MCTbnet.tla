------------------------------ MODULE MCTbnet ------------------------------
(* Instances of the components of tbnet for TLC; the .cfg gives the other constants. *)
EXTENDS Tbnet

\* A request that keeps the connection, one with a ":" in its path, a header twice and
\* blanks in a value, and one that is no GET.
HttpRequests ==
  { [method |-> "GET", path |-> <<"/">>,
     headers |-> << <<"Host", <<"a", ":", "80">>>>, <<"Connection", <<"Keep-Alive">>>> >>],
    [method |-> "GET", path |-> <<"/", ":", "q">>,
     headers |-> << <<"Connection", <<"close">>>>, <<"Connection", <<"x", " ", "y">>>> >>],
    [method |-> "POST", path |-> <<"/">>, headers |-> <<>>] }
=============================================================================
