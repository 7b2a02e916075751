------------------------ MODULE MCReferenceTracking ------------------------
EXTENDS ReferenceTracking
=============================================================================
