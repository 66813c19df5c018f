------------------------------- MODULE MCWiseGui -------------------------------
(* The parts of the WiseGui page on a small instance.                        *)
EXTENDS WiseGui
=============================================================================
