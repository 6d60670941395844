---------------------------- MODULE MCKeccakP1600 ----------------------------
\* Regions that begin or end inside a lane, within one lane, at its borders, and
\* over whole lanes; bytes that differ by their place.
EXTENDS KeccakP1600
MCRegions == {<<0, 17>>, <<5, 14>>, <<3, 4>>, <<7, 1>>, <<6, 10>>}
MCData(i) == {b \in 0..7 : (i * i + 3 * b + i) % 5 < 2}
==============================================================================
