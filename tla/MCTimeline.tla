------------------------------ MODULE MCTimeline ------------------------------
\* Instances of Timeline for TLC.
EXTENDS Timeline

Scripted     == {Word("403"), Word("403a"), Word("502"), Word("ign"), Word("stop")}
Disputed     == {Word("403a"), Word("502")}

\* Cold, just below and at the threshold of the code, and the 900 C of the
\* comment.
Readings == {20, 364, 365, 900}

\* One valve of each exclusive pair, and the igniter.
LowLines == {"V30", "V20", Igniter}
===============================================================================
