----------------------------- MODULE MCLibrary -----------------------------
EXTENDS Library

\* Some mixing; the properties are about what is hashed.
MCCompress(s, b) ==
    BytesOf((5 * NumberOf(s) + 11 * b[1] + 23 * b[2] + 29 * b[3] + 37 * b[4]
             + 3 * b[1] * b[3] + 7 * b[2] * b[2] + (NumberOf(s) \div 3) * b[4] + 17) % 45, 2)

MCInitialState == <<1, 6>>

MCSeeds == {<<>>, <<5, 3>>}

\* equal points, and points whose x differ while their y are opposite
MCStartLogs == {<<1, 1>>, <<1, 6>>}

MCChunks == {<<>>, <<1>>, <<2, 3>>, <<4, 5, 6, 7, 0>>}

\* none, short, and longer than a block
MCHashKeys == {<<>>, <<1, 2, 3>>, <<1, 2, 3, 4, 5>>}

\* lengths in the long form, of which the first two are readable; at the end the
\* high twin of the signature of 5 with the key 6
MCForeignDer ==
    {<<24, 17, 19>> \o <<2, 1, 5>> \o <<2, 14>> \o Repeat(3, 14),
     <<24, 17, 22>> \o <<2, 1, 5>> \o <<2, 17, 16>> \o Repeat(3, 16),
     <<24, 6, 2, 1, 5, 2, 1, 7>>, <<24, 17, 6, 2, 1, 5, 2, 1, 7>>,
     <<24, 7, 2, 2, 0, 31, 2, 1, 7>>, <<24, 7, 2, 2, 31, 31, 2, 1, 7>>,
     <<24, 7, 2, 1, 9, 2, 2, 0, 20>>}
=============================================================================
