---------------------------- MODULE MCTagPipeline ----------------------------
(* Values of BootB a .cfg cannot spell. *)
EXTENDS TagPipeline

\* Any integer: the statuses are -1 and 1, so one value below, between and above each will do.
AnyB == {-2, -1, 0, 1, 2}
=============================================================================
