------------------------ MODULE MC_NX_OMXSemaphore ------------------------
EXTENDS NX_OMXSemaphore
=============================================================================
