------------------------------ MODULE MCAiJobs ------------------------------
EXTENDS AiJobs, TLC
=============================================================================
