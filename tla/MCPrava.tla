------------------------------ MODULE MCPrava -------------------------------
EXTENDS Prava, TLC

CONSTANTS racR, racS, duzD, cvK, cvB, loz1, loz2

V(o, n, z, prava) == [oznaka |-> o, autor |-> n, zapis |-> z, prava |-> prava]
Obican(l) == [zastavica |-> FALSE, lozinka |-> l]
Admin(l) == [zastavica |-> TRUE, lozinka |-> l]

\* racR is an administrator everywhere; cvB has a change of it that cvK has not seen.
\* Either node may create racS; cvB gives racS the duty duzD.
DuznostS == duzD :> racS
AdminR == (cvK :> {V(1, cvK, racR, Admin(loz1))}) @@
          (cvB :> {V(1, cvK, racR, Admin(loz1)), V(2, cvB, racR, Admin(loz2))})
PisuRSD == (cvK :> {racR, racS}) @@ (cvB :> {racR, racS, duzD})

\* racR became an administrator on cvB, which cvK has not seen.
BezDuznosti == [x \in {} |-> racR]
ObicanR == (cvK :> {V(1, cvK, racR, Obican(loz1))}) @@
           (cvB :> {V(1, cvK, racR, Obican(loz1)), V(2, cvB, racR, Admin(loz2))})
PisuR == (cvK :> {racR}) @@ (cvB :> {racR})
=============================================================================
