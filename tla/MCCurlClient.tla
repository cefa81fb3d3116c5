----------------------------- MODULE MCCurlClient -----------------------------
EXTENDS CurlClient

CONSTANT f1

Chunk(k, n) == [kind |-> k, n |-> n]
Shape(m, b, c1, s1, c2, s2) ==
  [mode |-> m, wdBuf |-> b, cap |-> <<c1, c2>>, some |-> <<s1, s2>>]
Big == 9   \* more than any transfer: a resizable buffer

\* Headers, a body and a trailer, every piece at most twice the smallest buffer, and
\* no read that passes over a body.
MCStreams == {<<Chunk("hd", 1), Chunk("wd", 2), Chunk("hd", 1)>>}
MCShapes == {Shape("hd_wd", 2, Big, FALSE, 1, TRUE),
             Shape("wd_until_hd", 1, Big, FALSE, 0, FALSE)}
\* A response body in one piece, and a reader with a buffer for a third of it.
MCBigChunk == {<<Chunk("wd", 3)>>}
MCSomeBytes == {Shape("wd", 1, 1, TRUE, 0, FALSE)}
\* A body followed by trailers, read as one response.
MCTrailer == {<<Chunk("wd", 2), Chunk("hd", 1)>>}
MCResponse == {Shape("hd_wd", 2, Big, FALSE, 1, TRUE)}
=============================================================================
