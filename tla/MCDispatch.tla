------------------------------ MODULE MCDispatch ------------------------------
\* Small instances of Dispatch for TLC.
EXTENDS DispatchProps, TLC

SequenceLines == {Word("403"), Word("502"), Word("wstop"), Word("bogus")}
FaultLines    == {Word("403a")}
LiveLines     == {Word("ign"), Word("502")}

SameThreads == Permutations(Worker)
===============================================================================
