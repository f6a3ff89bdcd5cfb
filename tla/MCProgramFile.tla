--------------------------- MODULE MCProgramFile ---------------------------
(***************************************************************************)
(* ProgramFile for a program of three versions, one of them shorter.       *)
(***************************************************************************)
EXTENDS ProgramFile

MCImages == { <<"a1", "a2", "a3">>, <<"b1", "b2">>, <<"c1", "c2", "c3">> }
=============================================================================
