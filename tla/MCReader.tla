------------------------------- MODULE MCReader -------------------------------
(* Reader with two pages. *)
EXTENDS Reader
===============================================================================
