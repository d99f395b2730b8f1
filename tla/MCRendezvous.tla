------------------------------ MODULE MCRendezvous ------------------------------
(***************************************************************************)
(* The circumstances in which TLC runs the rendezvous.                     *)
(***************************************************************************)
EXTENDS Rendezvous

Regime(tool, staggered, patient, kills) ==
    [tool |-> tool, staggered |-> staggered, patient |-> patient, kills |-> kills]

\* Everything granted and nothing granted, for both tools, and compression with kills and
\* late appends.
AllRegimes == {Regime("comp", TRUE, TRUE, 0), Regime("comp", TRUE, FALSE, 1),
               Regime("comp", FALSE, FALSE, 0), Regime("decomp", TRUE, TRUE, 0)}

CalmDecompression == {Regime("decomp", TRUE, TRUE, 0)}
=================================================================================
