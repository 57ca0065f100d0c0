---------------------------- MODULE MCMeasurements ----------------------------
EXTENDS Measurements

\* Two timer ids; one one-byte value and one whose four octets all differ.
MCKeys == {1, 2}
MCValues == {5, 16909060}

=============================================================================
