------------------------------ MODULE MCServer ------------------------------
(***************************************************************************)
(* Two SQL threads and two clients: one sends up to two requests, one a    *)
(* request in pieces.                                                      *)
(***************************************************************************)
EXTENDS Server

CONSTANTS quick, slow

MCClients == {quick, slow}

MCSlow == {slow}

MCMaxRequests == [c \in MCClients |-> IF c = quick THEN 2 ELSE 1]
=============================================================================
