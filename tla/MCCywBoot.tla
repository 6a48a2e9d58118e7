------------------------------ MODULE MCCywBoot ------------------------------
EXTENDS CywBoot

\* Every text of up to four characters.
MCTexts == UNION {[1 .. n -> Chars] : n \in 0 .. 4}

\* No blob, and blobs of one chunk, of none and of several.
MCBlobs == {-1, 0, 4, 5, 9}
=============================================================================
