----------------------------- MODULE MCHttpQueue -----------------------------
(* Values for TLC: the two threads that call addForm(). *)
EXTENDS HttpQueue

MainAndAudio == {"main", "audio"}
=============================================================================
