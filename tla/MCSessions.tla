------------------------------ MODULE MCSessions ------------------------------
\* An instance of Sessions for TLC.
EXTENDS Sessions

Typing == {Word("502"), Word("abort")}
Pieces == {Word("50")}
===============================================================================
