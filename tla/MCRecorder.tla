------------------------------ MODULE MCRecorder ------------------------------
\* An instance of Recorder for TLC.
EXTENDS Recorder
===============================================================================
