----------------------------- MODULE MCLogStream -----------------------------
(***************************************************************************)
(* LogStream for TLC: two writers, two closers, a channel of one event,    *)
(* so that writers meet it full.                                           *)
(***************************************************************************)
EXTENDS LogStream, TLC
=============================================================================
