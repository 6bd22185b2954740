---------------------------- MODULE MCBHEClient ----------------------------
EXTENDS BHEClient

CONSTANTS s1, s2

MCSecrets == {s1, s2}

=============================================================================
