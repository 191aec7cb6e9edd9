--------------------------- MODULE MCLinkDownload ---------------------------
EXTENDS LinkDownload

\* A video of one range, one as long as is allowed and one that is too long.
MCLengths == {ChunkSize, MaxDownload, MaxDownload + 1}
=============================================================================
