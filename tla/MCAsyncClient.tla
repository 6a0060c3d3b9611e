--------------------------- MODULE MCAsyncClient ---------------------------
(* Small instances of AsyncClient for TLC. *)
EXTENDS AsyncClient

CONSTANTS MaxSelect, MaxInsert, MaxData, MaxDataEnd

MCMaxCalls ==
    [o \in SendOp |-> CASE o = "Select" -> MaxSelect [] o = "Insert" -> MaxInsert
                        [] o = "Data" -> MaxData [] o = "DataEnd" -> MaxDataEnd]
=============================================================================
