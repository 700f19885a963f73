---------------------------- MODULE MCConnection ----------------------------
(* Instances of Connection for TLC. Each .cfg chooses the requests, which of *)
(* them are posted without blocking, and the queue limit.                    *)
EXTENDS Connection
=============================================================================
