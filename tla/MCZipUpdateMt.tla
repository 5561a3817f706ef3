---------------------------- MODULE MCZipUpdateMt ----------------------------
EXTENDS ZipUpdateMt

\* Files of one and of more blocks than the pool may have left, one of them given to
\* the archive twice, and an item that is copied.
mcItems == << <<2, 1>>, <<>>, <<2, 1>>, <<3>>, <<1>> >>
=============================================================================
