--------------------------- MODULE MCPreviousDays ---------------------------
(* A list for TLC: rows 1 to 3 have a contract each, row 4 has that of     *)
(* row 3.                                                                  *)
EXTENDS PreviousDays

CONSTANTS c1, c2, c3

MCContractId == [r \in Row |-> <<c1, c2, c3, c3>>[r]]
=============================================================================
