------------------------------ MODULE MCIngest ------------------------------
(* IngestTail with two files: one in which an event can be followed by a   *)
(* line that is none, and one that only gets a short line.                 *)
EXTENDS IngestTail

MCBytes == <<5, 2>>
=============================================================================
