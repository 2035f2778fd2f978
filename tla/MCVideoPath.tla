----------------------------- MODULE MCVideoPath -----------------------------
\* Instance of VideoPath for TLC.
EXTENDS VideoPath, TLC

CONSTANTS q1

RequestSet == {q1}
=============================================================================
