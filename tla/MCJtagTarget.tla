---------------------------- MODULE MCJtagTarget -----------------------------
(***************************************************************************)
(* Words for JtagTarget: with the bits where the adapters cut a word into  *)
(* bytes, and the top bit, which the MPSSE returns on its own.             *)
(***************************************************************************)
EXTENDS JtagTarget

MCIds == {{0, 2, 6, 7, 31}}
MCChipIds == MCIds \cup {{}, {0, 5}}
MCPcs == {{3, 31}}

Top == {0, 7, 31}
Cut == {6, 8, 14, 15, 22, 23, 30}

MCWrites == {<<0, <<Top>>>>, <<4, <<Cut, Top>>>>}
MCReads == {<<0, 1>>, <<0, 11>>}
=============================================================================
