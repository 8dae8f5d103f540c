------------------------------- MODULE MCForms ------------------------------
EXTENDS Forms

MCNames == {"a", "b"}
MCDims == {"d/"}
MCPkgForms == <<"b">>
MCLengths == {9}
MCEditSizes == {30}
=============================================================================
