-------------------------- MODULE MCCacheOutStream --------------------------
EXTENDS MCOutStreams, CacheOutStream
=============================================================================
