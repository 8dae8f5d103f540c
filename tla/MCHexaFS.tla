------------------------------ MODULE MCHexaFS ------------------------------
EXTENDS HexaFS

MCFormBlocks == [t \in {"empty", "short", "long"} |-> IF t = "long" THEN 2 ELSE 1]
MCTexts == {"long"}
MCNames == {"f", "g"}
\* One form is enough for what repeated boots do to .users and .pimp.
MCOneName == {"f"}
MCPimpUsers == {"p"}
=============================================================================
