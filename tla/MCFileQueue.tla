----------------------------- MODULE MCFileQueue -----------------------------
(* Instances of FileQueue for TLC; the .cfg files give the constants. *)
EXTENDS FileQueue
=============================================================================
