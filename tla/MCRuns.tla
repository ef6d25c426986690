------------------------------- MODULE MCRuns -------------------------------
EXTENDS Runs, TLC
CONSTANTS p, q, g, s1
MCTurns == {p, q, g}
MCKind == p :> "page" @@ q :> "stream" @@ g :> "gateway"
MCSession == p :> s1 @@ q :> s1 @@ g :> s1
=============================================================================
