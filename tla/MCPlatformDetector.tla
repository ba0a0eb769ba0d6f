-------------------------- MODULE MCPlatformDetector --------------------------
EXTENDS PlatformDetector

\* A word of the SRAM is two pixels wide, so yellow comes in pairs of columns.
\* The rows have short and long platforms, two in a line, platforms that meet
\* the edges of the screen, and platforms that go on in the blanking.
Pairs(S) == UNION {{2 * p, 2 * p + 1} : p \in S}
MCRows == {Pairs(S) : S \in {{}, {1}, {0, 2}, {2, 3}, {3, 4, 5}, 0..5}}
=============================================================================
