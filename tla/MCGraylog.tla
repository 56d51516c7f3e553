------------------------------ MODULE MCGraylog ------------------------------
EXTENDS Graylog

CONSTANTS m1, m2, m3, m4, r1
=============================================================================
