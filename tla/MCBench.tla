------------------------------ MODULE MCBench ------------------------------
(* The four benchmark programs, each with any number of trials up to nine,  *)
(* which makes a list grow four times.                                      *)
EXTENDS Bench

MCPrograms == {"fpfd", "gcc", "x86", "x86_64"}
=============================================================================
