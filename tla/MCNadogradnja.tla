--------------------------- MODULE MCNadogradnja ----------------------------
EXTENDS Nadogradnja

\* Release 1 is installed, 2 does not start, 3 does.
Izdanja == 1 .. 3
Valjana == {1, 3}
=============================================================================
