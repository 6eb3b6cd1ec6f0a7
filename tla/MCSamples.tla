------------------------------ MODULE MCSamples ------------------------------
\* Instances of Samples for TLC.
EXTENDS Samples
===============================================================================
