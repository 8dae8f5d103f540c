---------------------------- MODULE MCBlockCache ----------------------------
\* Two slots over three sectors: the third sector used evicts the first one
\* from slot 0, and using that one again evicts the third.
EXTENDS BlockCache

MCLba == 1 .. 3
MCValue == {"old", "new"}
=============================================================================
