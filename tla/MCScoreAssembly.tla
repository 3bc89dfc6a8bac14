-------------------------- MODULE MCScoreAssembly --------------------------
EXTENDS ScoreAssembly
MCScores == {-1, -2}
=============================================================================
