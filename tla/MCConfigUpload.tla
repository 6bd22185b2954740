-------------------------- MODULE MCConfigUpload --------------------------
EXTENDS ConfigUpload

CONSTANTS a, b, z, y

MCNames == {a, b}
MCContainers == {z, y}

=============================================================================
