----------------------------- MODULE MCPrograms -----------------------------
(* An instance of Programs for TLC. *)
EXTENDS Programs

AllPrograms == {"demo", "micro"} \cup Tests
=============================================================================
