---------------------------- MODULE MCRingBuffer ----------------------------
EXTENDS RingBufferLinear
=============================================================================
