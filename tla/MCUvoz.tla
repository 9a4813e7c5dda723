------------------------------- MODULE MCUvoz -------------------------------
EXTENDS MCRazmjena, Uvoz
=============================================================================
