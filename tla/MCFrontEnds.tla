----------------------------- MODULE MCFrontEnds -----------------------------
EXTENDS FrontEndChannels

\* No board, one board, two boards of the same and of different firmware, and
\* a second board without a first.
MCChains == {<<0, 0>>, <<97, 0>>, <<97, 97>>, <<97, 95>>, <<0, 97>>}

\* Both channels in use, one of them, and numbers of boards out of range.
MCRequests == {<<2, 1>>, <<0, 2>>, <<2, 3>>}

=============================================================================
