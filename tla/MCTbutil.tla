------------------------------ MODULE MCTbutil ------------------------------
\* A pool that starts one of three threads, and a timer with two tasks.
EXTENDS Tbutil
=============================================================================
