------------------------------ MODULE MCReading ------------------------------
EXTENDS Reading
MCHits == {2, 7}
=============================================================================
