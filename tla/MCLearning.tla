----------------------------- MODULE MCLearning -----------------------------
EXTENDS Learning
=============================================================================
