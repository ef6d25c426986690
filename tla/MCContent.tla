----------------------------- MODULE MCContent -----------------------------
EXTENDS Content, TLC

CONSTANTS a, b

\* The first FAQ is edited, the second one only created and deleted.
MCWritten == <<{a, b}, {a}>>
=============================================================================
