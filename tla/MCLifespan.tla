----------------------------- MODULE MCLifespan -----------------------------
EXTENDS Lifespan, TLC
CONSTANTS r1, r2, p1, p2
MCRequest == {r1, r2}
MCLane == {0, 1}
MCProbe == {p1, p2}
=============================================================================
