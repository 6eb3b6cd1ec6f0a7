----------------------------- MODULE MCTelemetry -----------------------------
\* An instance of Telemetry for TLC.
EXTENDS Telemetry

\* The first and the last line, both kinds of valve.
MovingValves == {"V11_NO", "V30", "V38_NO", "V22"}

\* Line 22 high with some of the others, and line 22 low.
SpareLines == { 16..22, {22}, {16, 19, 22}, 16..21, {} }
===============================================================================
