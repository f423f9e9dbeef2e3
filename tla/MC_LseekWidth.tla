---------------------------- MODULE MC_LseekWidth ----------------------------
EXTENDS LseekWidth

\* Offset arguments: one before the start (EINVAL under SEEK_SET), zero,
\* and steps of 1 and 3, so SEEK_CUR walks through every offset.
MCDeltas == {-1, 0, 1, 3}

=============================================================================
