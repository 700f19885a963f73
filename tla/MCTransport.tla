------------------------------ MODULE MCTransport ------------------------------
(* Instances of Transport for TLC; the .cfg files give the constants. *)
EXTENDS Transport

made == iocList \cup delList \cup mydel \cup freed

\* For liveness a transport has either clients or servers: the two kinds of
\* components share no step, only the threads' time.
OneKind == made \subseteq Clients \/ made \subseteq Acceptors \cup Servers

OneKindSpec == Init /\ [][Next /\ OneKind']_vars /\ Fairness
=============================================================================
